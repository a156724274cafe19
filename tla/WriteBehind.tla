---------------------------- MODULE WriteBehind ----------------------------
(***************************************************************************)
(* What the persistence of the vault promises: a value in memory, and a    *)
(* durable copy that follows it, possibly skipping versions but never      *)
(* going back.  A crash falls back to the durable copy.                    *)
(*                                                                         *)
(* It does not promise that every durable copy is one the memory had: a    *)
(* copy that a later change overtakes while it is made can come out mixed. *)
(* No mixed copy stands for the newest version of a memory that is not     *)
(* mixed itself, having started from such a copy.                          *)
(***************************************************************************)
EXTENDS Integers

VARIABLES mem, memMixed, durable, durableMixed

NoCopy == -1

Init == /\ mem = 0 /\ memMixed = FALSE
        /\ durable \in {NoCopy, 0} /\ durableMixed = FALSE

Write == mem' = mem + 1 /\ UNCHANGED <<memMixed, durable, durableMixed>>

Persist ==
    /\ durable < mem /\ durable' \in (durable + 1)..mem
    /\ durableMixed' \in BOOLEAN
    /\ memMixed => durableMixed'
    /\ durableMixed' => memMixed \/ durable' < mem
    /\ UNCHANGED <<mem, memMixed>>

\* A version that is durable already is written once more, and overtaken.
Spoil ==
    /\ durable # NoCopy /\ durable < mem
    /\ durableMixed' = TRUE
    /\ UNCHANGED <<mem, memMixed, durable>>

Restart == /\ mem' = (IF durable = NoCopy THEN 0 ELSE durable)
           /\ memMixed' = durableMixed
           /\ UNCHANGED <<durable, durableMixed>>

Next == Write \/ Persist \/ Spoil \/ Restart

Spec == Init /\ [][Next]_<<mem, memMixed, durable, durableMixed>>
=============================================================================
