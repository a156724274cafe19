------------------------------- MODULE Vault -------------------------------
(***************************************************************************)
(* The in-memory vault (memoryVault, internal/vault/vault.go).             *)
(*                                                                         *)
(* Three containers are kept in step by hand under one RWMutex:            *)
(*   byPH     placeholder -> entry     (map[string]*Entry)                 *)
(*   byValue  value -> placeholder     (map[string]string)                 *)
(*   order    placeholders in registration order, for List and save        *)
(* Every method holds the mutex from its first line to its last, so one    *)
(* method is one action.  A method that finds the vault closed returns     *)
(* ErrClosed, and one that finds no entry returns ErrNotFound; neither     *)
(* changes anything, so those outcomes are stuttering steps.               *)
(*                                                                         *)
(* A nil-pointer dereference in a handler goroutine is not recovered       *)
(* anywhere and ends the daemon: panicked records it.                      *)
(***************************************************************************)
EXTENDS Integers, Sequences, SequencesExt, Functions, FiniteSets

CONSTANTS
    Secret,          \* the values that can be registered
    Placeholder,     \* the placeholder strings
    PlaceholderOf,   \* makePlaceholder for the vault's master secret
    Pattern,         \* the host patterns an entry can be bound to
    Status,          \* the lifecycle states that occur
    MaxID,           \* bound: registrations of new values
    MaxUses          \* bound: uses counted per entry

ASSUME PlaceholderOfAssumption == PlaceholderOf \in [Secret -> Placeholder]
ASSUME StatusAssumption == "pending_review" \in Status
ASSUME BoundAssumption == MaxID \in Nat /\ MaxUses \in Nat

VARIABLES byPH, byValue, order, nextID, closed, panicked
vars == <<byPH, byValue, order, nextID, closed, panicked>>

Entry == [id : Nat, value : Secret, bindings : SUBSET Pattern,
          status : Status, uses : Nat]

\* m[k] = x and delete(m, k) on a Go map.
Put(m, k, x) == [y \in DOMAIN m \cup {k} |-> IF y = k THEN x ELSE m[y]]
Drop(m, k) == Restrict(m, DOMAIN m \ {k})

Empty == [x \in {} |-> x]

Init == /\ byPH = Empty
        /\ byValue = Empty
        /\ order = <<>>
        /\ nextID = 0
        /\ closed = FALSE
        /\ panicked = FALSE

Running == ~closed /\ ~panicked

-----------------------------------------------------------------------------
\* Register.  The placeholder of a new value overwrites whatever entry is
\* already stored under it; the placeholder is appended to order each time.

\* Mutant: the zero value for the status.
NewEntryNoStatus(v, hs) == [id |-> nextID + 1, value |-> v, bindings |-> hs,
                            status |-> "", uses |-> 0]

NewEntry(v, hs) == [id |-> nextID + 1, value |-> v, bindings |-> hs,
                    status |-> "pending_review", uses |-> 0]

MergeBindings(e, hs) == [e EXCEPT !.bindings = @ \cup hs]

Known(v) == v \in DOMAIN byValue

Listed(p) == Append(order, p)

RegisterKnown(v, hs) ==
    /\ Running
    /\ Known(v)
    /\ byValue[v] \in DOMAIN byPH
    /\ byPH' = [byPH EXCEPT ![byValue[v]] = MergeBindings(@, hs)]
    /\ UNCHANGED <<byValue, order, nextID, closed, panicked>>

\* byValue names a placeholder that byPH no longer has: the nil *Entry is
\* dereferenced.
RegisterDangling(v) ==
    /\ Running
    /\ Known(v)
    /\ byValue[v] \notin DOMAIN byPH
    /\ panicked' = TRUE
    /\ UNCHANGED <<byPH, byValue, order, nextID, closed>>

RegisterNew(v, hs) ==
    /\ Running
    /\ nextID < MaxID
    /\ ~Known(v)
    /\ nextID' = nextID + 1
    /\ byPH' = Put(byPH, PlaceholderOf[v], NewEntry(v, hs))
    /\ byValue' = Put(byValue, v, PlaceholderOf[v])
    /\ order' = Listed(PlaceholderOf[v])
    /\ UNCHANGED <<closed, panicked>>

Register(v, hs) ==
    \/ RegisterKnown(v, hs)
    \/ RegisterDangling(v)
    \/ RegisterNew(v, hs)

-----------------------------------------------------------------------------
\* The operations on one existing entry.

Bind(p, hs) ==
    /\ Running
    /\ p \in DOMAIN byPH
    /\ byPH' = [byPH EXCEPT ![p] = MergeBindings(@, hs)]
    /\ UNCHANGED <<byValue, order, nextID, closed, panicked>>

Unbind(p, hs) ==
    /\ Running
    /\ p \in DOMAIN byPH
    /\ byPH' = [byPH EXCEPT ![p].bindings = @ \ hs]
    /\ UNCHANGED <<byValue, order, nextID, closed, panicked>>

SetStatus(p, s) ==
    /\ Running
    /\ p \in DOMAIN byPH
    /\ byPH' = [byPH EXCEPT ![p].status = s]
    /\ UNCHANGED <<byValue, order, nextID, closed, panicked>>

\* Rotate deletes the old value from the index and stores the new one without
\* looking whether another entry already has it.
ReIndexed(p, v) == Put(Drop(byValue, byPH[p].value), v, p)

Rotate(p, v) ==
    /\ Running
    /\ p \in DOMAIN byPH
    /\ byPH' = [byPH EXCEPT ![p].value = v]
    /\ byValue' = ReIndexed(p, v)
    /\ UNCHANGED <<order, nextID, closed, panicked>>

\* Delete removes the first occurrence of p from order, and only that one.
\* Mutant: the value stays in the index.
UnIndexedNot(p) == byValue

UnIndexed(p) == Drop(byValue, byPH[p].value)
Unlisted(p) == RemoveFirst(order, p)

Delete(p) ==
    /\ Running
    /\ p \in DOMAIN byPH
    /\ byValue' = UnIndexed(p)
    /\ byPH' = Drop(byPH, p)
    /\ order' = Unlisted(p)
    /\ UNCHANGED <<nextID, closed, panicked>>

\* MarkUse does not look at closed, but Close leaves it no entry to count on.
MarkUse(p) ==
    /\ ~panicked
    /\ p \in DOMAIN byPH
    /\ byPH[p].uses < MaxUses
    /\ byPH' = [byPH EXCEPT ![p].uses = @ + 1]
    /\ UNCHANGED <<byValue, order, nextID, closed, panicked>>

\* List dereferences byPH[p] for every p in order; it changes nothing unless
\* one of them has no entry.
ListDangling ==
    /\ Running
    /\ \E i \in DOMAIN order : order[i] \notin DOMAIN byPH
    /\ panicked' = TRUE
    /\ UNCHANGED <<byPH, byValue, order, nextID, closed>>

\* Close leaves the maps empty; so does the death of the process.
Emptied ==
    /\ closed' = TRUE
    /\ byPH' = Empty
    /\ byValue' = Empty
    /\ order' = <<>>
    /\ UNCHANGED nextID

Close ==
    /\ ~panicked
    /\ Emptied
    /\ UNCHANGED panicked

-----------------------------------------------------------------------------
\* The operations that only read.  Values leaves out what the user rejected
\* or archived.
Values == {byPH[p].value :
             p \in {q \in DOMAIN byPH : byPH[q].status \notin {"rejected", "archived"}}}

-----------------------------------------------------------------------------
\* What the vault's callers do besides registering and rotating values.
Housekeeping ==
    \/ \E p \in Placeholder, hs \in SUBSET Pattern : Bind(p, hs) \/ Unbind(p, hs)
    \/ \E p \in Placeholder, s \in Status : SetStatus(p, s)
    \/ \E p \in Placeholder : Delete(p) \/ MarkUse(p)
    \/ ListDangling

Next ==
    \/ \E v \in Secret, hs \in SUBSET Pattern : Register(v, hs)
    \/ \E p \in Placeholder, v \in Secret : Rotate(p, v)
    \/ Housekeeping
    \/ Close

Spec == Init /\ [][Next]_vars

(***************************************************************************)
(* The careful use of the vault, for which its two maps stay inverse to    *)
(* each other: a new value never hashes to a placeholder that is taken (by *)
(* a 24-bit collision, or by an entry rotated away from that very value),  *)
(* and a rotation never introduces a value another entry already holds.    *)
(* Nothing in the code enforces either condition.                          *)
(***************************************************************************)
SlotFree(v) == PlaceholderOf[v] \in DOMAIN byPH => v \in DOMAIN byValue
ValueFree(p, v) == v \in DOMAIN byValue => byValue[v] = p

-----------------------------------------------------------------------------
\* The containers hold what their Go types and the operations allow.
TypeOK ==
    /\ DOMAIN byPH \subseteq Placeholder /\ byPH \in [DOMAIN byPH -> Entry]
    /\ DOMAIN byValue \subseteq Secret /\ byValue \in [DOMAIN byValue -> Placeholder]
    /\ order \in Seq(Placeholder)
    /\ nextID \in Nat
    /\ closed \in BOOLEAN
    /\ panicked \in BOOLEAN

\* However the vault is used, every live entry is in order.  save writes only
\* the entries it reaches through order, so one that is missing there would
\* be lost at the next restart while it still resolves in this process.
LiveListed == DOMAIN byPH \subseteq Range(order)

\* Register, Rotate and Delete keep the two maps inverse: the value of every
\* entry leads back to that entry, and every indexed value is the value of a
\* live entry.  Otherwise a known value gets a second placeholder, or Register
\* dereferences an entry that is gone.
Inverse2Way ==
    /\ \A p \in DOMAIN byPH : /\ byPH[p].value \in DOMAIN byValue
                              /\ byValue[byPH[p].value] = p
    /\ \A v \in DOMAIN byValue : /\ byValue[v] \in DOMAIN byPH
                                 /\ byPH[byValue[v]].value = v

\* "List returns all entries in registration order" (vault.go:81): order names
\* the live entries and nothing else, each once, by increasing ID.
ListExact == Range(order) = DOMAIN byPH
ListOrdered ==
    \A i, j \in DOMAIN order : i < j =>
        /\ order[i] # order[j]
        /\ order[i] \in DOMAIN byPH /\ order[j] \in DOMAIN byPH =>
               byPH[order[i]].id < byPH[order[j]].id

\* Every ID in use has been handed out, so the next one is new.
IDsIssued == \A p \in DOMAIN byPH : byPH[p].id \in 1..nextID

\* No two live entries have one ID.
DistinctIDs == \A p, q \in DOMAIN byPH : p # q => byPH[p].id # byPH[q].id

Coherent == Inverse2Way /\ ListExact /\ ListOrdered /\ IDsIssued

\* In the careful use of the vault no call makes Register or List dereference
\* a missing entry (vault.go:173, 311).
NoPanic == ~panicked
=============================================================================
