------------------------------- MODULE Redact -------------------------------
(***************************************************************************)
(* The replacement of matches by placeholders: redactInPlace of the daemon *)
(* (internal/ipc/server.go) and rewrite of the proxy (internal/proxy).     *)
(* Both sort the matches by start, longer ones first, walk over them with  *)
(* a cursor, keep the ones that start at or behind it, and copy the bytes  *)
(* between the kept ones.  The daemon does so in two loops and the proxy   *)
(* in one; the result is the same, and one iteration is one step here.     *)
(***************************************************************************)
EXTENDS Integers, FiniteSets

CONSTANTS N,        \* the length of the input in bytes
          Inputs    \* the sets of matches a scan may hand over

ASSUME NAssumption == N \in Nat

\* A match covers the bytes start .. end - 1.  Without a placeholder (its value
\* was not registered) it is reported but not redacted.
Match == {m \in [start : 0..N, end : 0..N, placeholder : BOOLEAN] : m.start < m.end}

ASSUME InputsAssumption == Inputs \subseteq SUBSET Match

VARIABLES
    matches,   \* the matches handed over
    todo,      \* those the loop has not reached
    kept,      \* those that are replaced by their placeholder
    cursor,    \* the end of the last kept match, or -1
    pos,       \* the first input byte not yet dealt with
    copied,    \* the input bytes copied to the output
    done

redactVars == <<matches, todo, kept, cursor, pos, copied, done>>

RedactInit ==
    /\ matches \in Inputs
    /\ todo = matches
    /\ kept = {}
    /\ cursor = -1
    /\ pos = 0
    /\ copied = {}
    /\ done = FALSE

Length(m) == m.end - m.start

\* Mutant: sorted by end.
PrecedesByEnd(m, n) == m.end < n.end \/ (m.end = n.end /\ Length(m) > Length(n))

\* The order of the sort; it is not stable, so ties come in any order.
Precedes(m, n) == m.start < n.start \/ (m.start = n.start /\ Length(m) > Length(n))

IsNext(m) == m \in todo /\ \A n \in todo : ~Precedes(n, m)

Fits(m) == m.start >= cursor

\* Mutant: the bytes before the match are copied from the start of the input.
GapFromStart(m) == 0..(m.start - 1)

Gap(m) == pos..(m.start - 1)

Keep == \E m \in Match :
    /\ IsNext(m)
    /\ m.placeholder /\ Fits(m)
    /\ todo' = todo \ {m}
    /\ kept' = kept \cup {m}
    /\ copied' = copied \cup Gap(m)
    /\ pos' = m.end
    /\ cursor' = m.end
    /\ UNCHANGED <<matches, done>>

Skip == \E m \in Match :
    /\ IsNext(m)
    /\ ~(m.placeholder /\ Fits(m))
    /\ todo' = todo \ {m}
    /\ UNCHANGED <<matches, kept, cursor, pos, copied, done>>

Finish ==
    /\ todo = {} /\ ~done
    /\ copied' = copied \cup pos..(N - 1)
    /\ done' = TRUE
    /\ UNCHANGED <<matches, todo, kept, cursor, pos>>

RedactNext == Keep \/ Skip \/ Finish

RedactSpec == RedactInit /\ [][RedactNext]_redactVars

-----------------------------------------------------------------------------
Bytes(m) == m.start..(m.end - 1)
Masked == UNION {Bytes(m) : m \in kept}
Overlap(m, n) == Bytes(m) \cap Bytes(n) # {}

\* The output is the input with every byte either copied or inside a replaced
\* match, never both: nothing is lost, duplicated or shown next to its mask.
Partition == /\ copied \cap Masked = {}
             /\ done => copied \cup Masked = 0..(N - 1)

\* No two placeholders stand for overlapping parts of the input.
KeptDisjoint == \A m, n \in kept : m # n => ~Overlap(m, n)

\* The first byte of every registered match is masked: although an overlapping
\* match is dropped, no secret the scan found survives as a whole.
FirstByteMasked ==
    done => \A m \in matches : m.placeholder => m.start \in Masked
=============================================================================
