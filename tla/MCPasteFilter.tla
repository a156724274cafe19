--------------------------- MODULE MCPasteFilter ---------------------------
\* All inputs of up to five parts: a marker, a secret, or a byte of other text.
EXTENDS PasteFilter, SequencesExt

Parts == {PasteBegin, PasteEnd, Secret, <<"t">>}

MCStreams == {FlattenSeq(x) : x \in SeqOf(Parts, 5)}
=============================================================================
