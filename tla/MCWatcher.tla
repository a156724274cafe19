----------------------------- MODULE MCWatcher -----------------------------
(***************************************************************************)
(* A log in a watched directory, a shell history that a rule names itself, *)
(* and a snapshot to be purged; two secrets, and a match that has no       *)
(* placeholder.                                                            *)
(***************************************************************************)
EXTENDS Watcher

MCFiles == {"log", "history", "snapshot"}
MCPlace == [f \in MCFiles |-> IF f = "history" THEN "path" ELSE "dir"]
MCAction == [f \in MCFiles |-> IF f = "snapshot" THEN "purge" ELSE "redact"]
MCLine == {1, 2, 3}
MCKind == [l \in MCLine |-> IF l = 3 THEN "weak" ELSE "secret"]
=============================================================================
