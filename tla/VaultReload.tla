---------------------------- MODULE VaultReload ----------------------------
(***************************************************************************)
(* What a restart does to the vault's three containers: save               *)
(* (internal/vault/file.go) writes the entries it reaches through order,   *)
(* load rebuilds byPH, byValue, order and nextID from them.  When saves    *)
(* happen and how they interleave is the subject of FileVault; here blob   *)
(* is the content of the file and any earlier save can be what a crashed   *)
(* daemon comes back to.                                                   *)
(*                                                                         *)
(* The vault is used in every way its operations allow.  careless is a     *)
(* history variable, which no action reads: it tells whether some call so  *)
(* far was not a careful one, by SlotFree and ValueFree.                   *)
(***************************************************************************)
EXTENDS Vault

CONSTANT Legacy   \* the files of an earlier version that may be found

VARIABLES blob,      \* the entries in the file, in order; each with its placeholder
          careless

rvars == <<byPH, byValue, order, nextID, closed, panicked, blob, careless>>

Record == [placeholder : Placeholder, entry : Entry]

\* A file in which no placeholder, value or ID occurs twice, as save writes it
\* of a vault that is used carefully.
InFile(b) ==
    /\ b \in Seq(Record)
    /\ \A i, j \in 1..Len(b) : i < j => /\ b[i].placeholder # b[j].placeholder
                                        /\ b[i].entry.value # b[j].entry.value
                                        /\ b[i].entry.id < b[j].entry.id
    /\ \A i \in 1..Len(b) : b[i].entry.id > 0

ASSUME LegacyAssumption == \A b \in Legacy : InFile(b)

\* save's loop over order: a placeholder that has no entry is skipped.
DumpEntry(b, p) ==
    IF p \in DOMAIN byPH THEN Append(b, [placeholder |-> p, entry |-> byPH[p]]) ELSE b

Dumping == LET b[i \in 0..Len(order)] == IF i = 0 THEN <<>> ELSE DumpEntry(b[i - 1], order[i])
           IN  b

Dump == Dumping[Len(order)]

\* Mutants: nextID is not restored; the index is not rebuilt.
BumpNot(id, e) == id
IndexedNot(m, rec) == m.byValue

\* One iteration of load's loop over the entries.
Bump(id, e) == IF e.id > id THEN e.id ELSE id

Indexed(m, rec) == Put(m.byValue, rec.entry.value, rec.placeholder)

LoadEntry(m, rec) ==
    [byPH    |-> Put(m.byPH, rec.placeholder, rec.entry),
     byValue |-> Indexed(m, rec),
     order   |-> Append(m.order, rec.placeholder),
     nextID  |-> Bump(m.nextID, rec.entry)]

NewMaps == [byPH |-> Empty, byValue |-> Empty, order |-> <<>>, nextID |-> 0]

Loading(b) ==
    LET m[i \in 0..Len(b)] == IF i = 0 THEN NewMaps ELSE LoadEntry(m[i - 1], b[i])
    IN  m

Load(b) == Loading(b)[Len(b)]

\* The daemon starts without a file, or an earlier version left one.  A legacy
\* file has no master secret: load draws a new one, so that the placeholders in
\* the file are not those the values hash to now.  (Until a save writes the new
\* secret each start draws another; nothing of the one before is left then, and
\* PlaceholderOf stands for them all.)
ReloadInit ==
    /\ careless = FALSE
    /\ \/ Init /\ blob = <<>>
       \/ /\ byPH = Empty /\ byValue = Empty /\ order = <<>> /\ nextID = 0
          /\ closed = TRUE /\ panicked = FALSE
          /\ blob \in Legacy

\* Every operation of the vault, with the two ways of using it carelessly noted.
Use ==
    \/ \E v \in Secret, hs \in SUBSET Pattern :
           Register(v, hs) /\ careless' = (careless \/ ~SlotFree(v))
    \/ \E p \in Placeholder, v \in Secret :
           Rotate(p, v) /\ careless' = (careless \/ ~ValueFree(p, v))
    \/ Housekeeping /\ UNCHANGED careless

\* A save while the daemon runs.
Save == Running /\ blob' = Dump /\ UNCHANGED <<vars, careless>>

\* fileVault.Close saves what is dirty, then closes the memory vault.
SaveAndClose == Running /\ blob' = Dump /\ Close /\ UNCHANGED careless

\* The daemon dies, of a panic or otherwise, and its memory with it.
Crash == ~closed /\ Emptied /\ UNCHANGED <<panicked, blob, careless>>

\* A new daemon process opens the file.
Open == /\ closed
        /\ LET m == Load(blob)
           IN  /\ byPH' = m.byPH
               /\ byValue' = m.byValue
               /\ order' = m.order
               /\ nextID' = m.nextID
        /\ closed' = FALSE
        /\ panicked' = FALSE
        /\ UNCHANGED <<blob, careless>>

ReloadNext ==
    \/ Use /\ UNCHANGED blob
    \/ Save
    \/ SaveAndClose
    \/ Crash
    \/ Open

ReloadSpec == ReloadInit /\ [][ReloadNext]_rvars

-----------------------------------------------------------------------------
\* As long as no new value has found its slot taken and no rotation has
\* introduced a value another entry has, the two maps and the listing stay one
\* bijection, and Register and List dereference no missing entry: through
\* every order of calls, and through restarts from any earlier file
\* (vault.go:169-181, 268-311).  After either event they do not; nothing in the
\* code prevents the two.
CoherentIfCareful == ~careless => Coherent /\ NoPanic

\* However the vault is used - collisions, replaced entries and duplicate
\* placeholders in order included - every live entry is reached through order,
\* which is all save writes, no two live entries have one ID, and the next ID
\* is new: also after a restart, which takes nextID from the entries in the
\* file alone (file.go:145-155).
EntriesKept == LiveListed /\ IDsIssued /\ DistinctIDs

\* "Reopen with the same key - entries should reload" (file_test.go:40): what
\* save writes and load reads back is, entry for entry, what the vault holds,
\* however it was used, and no ID the new process issues is one an entry has.
\* Of a vault that was used carefully the index and the listing come back too.
RoundTrip ==
    Running => LET m == Load(Dump)
               IN  /\ m.byPH = byPH
                   /\ \A p \in DOMAIN byPH : byPH[p].id <= m.nextID
                   /\ ~careless => m.byValue = byValue /\ m.order = order
=============================================================================
