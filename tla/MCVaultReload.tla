--------------------------- MODULE MCVaultReload ---------------------------
(***************************************************************************)
(* Three secrets, two of which hash to one placeholder, so that a          *)
(* registration or a rotation can find its slot taken; and a legacy file   *)
(* in which a value has a placeholder it does not hash to now.             *)
(***************************************************************************)
EXTENDS VaultReload

MCSecret == {"v1", "v2", "v3"}
MCPlaceholder == {"p1", "p2", "p3"}
MCHash == [v \in MCSecret |-> IF v = "v1" THEN "p1" ELSE "p2"]
MCOld(p, v, n) == [placeholder |-> p,
                   entry |-> [id |-> n, value |-> v, bindings |-> {},
                              status |-> "pending_review", uses |-> 0]]
MCLegacy == {<<MCOld("p3", "v1", 2)>>}
=============================================================================
