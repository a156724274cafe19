------------------------------ MODULE MCRedact ------------------------------
\* Every set of at most three matches of an input of five bytes.
EXTENDS Redact

MCInputs == {{}} \cup {{l, m, n} : l, m, n \in Match}
=============================================================================
