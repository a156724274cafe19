----------------------------- MODULE MCToolCall -----------------------------
(***************************************************************************)
(* A command whose two parts go outside and below the wildcard's name, and *)
(* one that only goes outside.  Of the other scan only the detector's      *)
(* steps matter, so its text has no secret.                                *)
(***************************************************************************)
EXTENDS ToolCall

Deep == <<"a", "b", "api", "x">>
Evil == <<"evil", "x">>

MCSecret == {"v1", "v2"}
MCPlaceholder == {"p1", "p2"}
MCPlaceholderOf == [v \in MCSecret |-> IF v = "v1" THEN "p1" ELSE "p2"]
MCPattern == {<<"*", "api", "x">>}

MCTexts == {{}}

MCLabel == {"*", "a", "b", "api", "evil", "x"}

Part(h, ws) == [host |-> h, words |-> ws]
Pair == <<Part(Evil, <<"p1">>), Part(Deep, <<"p2", "p1">>)>>
MCCommands == {Pair, <<Part(Evil, <<"p1">>)>>}
=============================================================================
