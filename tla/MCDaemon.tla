------------------------------ MODULE MCDaemon ------------------------------
\* Two secrets, one of them recognised by its shape, with placeholders of
\* their own.
EXTENDS Daemon, TLC

MCSecret == {"v1", "v2"}
MCPlaceholder == {"p1", "p2"}
MCPlaceholderOf == [v \in MCSecret |-> IF v = "v1" THEN "p1" ELSE "p2"]
MCTexts == {MCSecret}
Connections == Permutations(Scanner)
=============================================================================
