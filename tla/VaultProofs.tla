---------------------------- MODULE VaultProofs ----------------------------
(***************************************************************************)
(* What holds of the vault for every set of secrets, placeholders and      *)
(* patterns, for every hash, and without the bounds TLC needs; and of the  *)
(* vault and its file, through restarts.                                   *)
(***************************************************************************)
EXTENDS VaultReload, SequenceLemmas

-----------------------------------------------------------------------------
\* m[k] = x and delete(m, k), as facts about the resulting map.
LEMMA PutFacts ==
    ASSUME NEW m, NEW k, NEW x
    PROVE  /\ DOMAIN Put(m, k, x) = DOMAIN m \cup {k}
           /\ Put(m, k, x)[k] = x
           /\ \A y \in DOMAIN m : y # k => Put(m, k, x)[y] = m[y]
BY DEF Put

LEMMA DropFacts ==
    ASSUME NEW m, NEW k
    PROVE  /\ DOMAIN Drop(m, k) = DOMAIN m \ {k}
           /\ \A y \in DOMAIN m : y # k => Drop(m, k)[y] = m[y]
BY DEF Drop, Restrict

LEMMA PutType ==
    ASSUME NEW S, NEW T, NEW m, NEW k \in S, NEW x \in T,
           DOMAIN m \subseteq S, m \in [DOMAIN m -> T]
    PROVE  /\ DOMAIN Put(m, k, x) \subseteq S
           /\ Put(m, k, x) \in [DOMAIN Put(m, k, x) -> T]
BY DEF Put

LEMMA DropType ==
    ASSUME NEW S, NEW T, NEW m, NEW k,
           DOMAIN m \subseteq S, m \in [DOMAIN m -> T]
    PROVE  /\ DOMAIN Drop(m, k) \subseteq S
           /\ Drop(m, k) \in [DOMAIN Drop(m, k) -> T]
BY DEF Drop, Restrict

\* The entry Register makes.
LEMMA NewEntryType ==
    ASSUME TypeOK, NEW v \in Secret, NEW hs \in SUBSET Pattern
    PROVE  NewEntry(v, hs) \in Entry /\ NewEntry(v, hs).value = v
           /\ NewEntry(v, hs).id = nextID + 1
BY StatusAssumption DEF TypeOK, NewEntry, Entry

-----------------------------------------------------------------------------
\* Both invariants that need no assumption on the use of the vault, proved
\* together: what Delete leaves in order depends on its type.
Listing == TypeOK /\ LiveListed

LEMMA EmptyFacts == DOMAIN Empty = {} /\ \A T : Empty \in [DOMAIN Empty -> T]
BY DEF Empty

LEMMA InitListing == Init => Listing
<1> SUFFICES ASSUME Init
             PROVE  Listing
  OBVIOUS
<1>1. order \in Seq(Placeholder)
  BY EmptySeq DEF Init
<1> QED BY <1>1, EmptyFacts DEF Init, Listing, TypeOK, LiveListed

\* An operation that edits entries in place.
LEMMA EditListing ==
    ASSUME Listing,
           DOMAIN byPH' = DOMAIN byPH, byPH' \in [DOMAIN byPH' -> Entry],
           UNCHANGED <<byValue, order, nextID, closed, panicked>>
    PROVE  Listing'
BY DEF Listing, TypeOK, LiveListed

LEMMA RegisterListing ==
    ASSUME Listing, NEW v \in Secret, NEW hs \in SUBSET Pattern, Register(v, hs)
    PROVE  Listing'
<1>1. CASE RegisterKnown(v, hs)
  <2>1. /\ DOMAIN byPH' = DOMAIN byPH
        /\ byPH' \in [DOMAIN byPH' -> Entry]
    BY <1>1 DEF Known, RegisterKnown, Listing, TypeOK, MergeBindings, Entry
  <2> QED BY <2>1, <1>1, EditListing DEF Known, RegisterKnown
<1>2. CASE RegisterDangling(v)
  BY <1>2 DEF Known, RegisterDangling, Listing, TypeOK, LiveListed
<1>3. CASE RegisterNew(v, hs)
  <2> DEFINE p == PlaceholderOf[v]
  <2>1. p \in Placeholder
    BY PlaceholderOfAssumption
  <2>2. NewEntry(v, hs) \in Entry
    BY NewEntryType DEF Listing
  <2>3. /\ DOMAIN byPH' = DOMAIN byPH \cup {p}
        /\ DOMAIN byPH' \subseteq Placeholder /\ byPH' \in [DOMAIN byPH' -> Entry]
    <3> DEFINE e == NewEntry(v, hs)
    <3>1. DOMAIN byPH \subseteq Placeholder /\ byPH \in [DOMAIN byPH -> Entry]
      BY DEF Listing, TypeOK
    <3>2. byPH' = Put(byPH, p, e) /\ e \in Entry
      BY <1>3, <2>2 DEF Known, RegisterNew
    <3> HIDE DEF e, p
    <3> QED BY <2>1, <3>1, <3>2, PutType, PutFacts
  <2>4. DOMAIN byValue' \subseteq Secret /\ byValue' \in [DOMAIN byValue' -> Placeholder]
    BY <1>3, <2>1, PutType, PutFacts DEF Known, RegisterNew, Listing, TypeOK
  <2>5. order' \in Seq(Placeholder) /\ Range(order') = Range(order) \cup {p}
    BY <1>3, <2>1, Appended DEF Known, RegisterNew, Listed, Listing, TypeOK
  <2> QED BY <1>3, <2>3, <2>4, <2>5 DEF Known, RegisterNew, Listing, TypeOK, LiveListed
<1> QED BY <1>1, <1>2, <1>3 DEF Register

LEMMA RotateListing ==
    ASSUME Listing, NEW p \in Placeholder, NEW v \in Secret, Rotate(p, v)
    PROVE  Listing'
<1>1. DOMAIN byPH' = DOMAIN byPH /\ byPH' \in [DOMAIN byPH' -> Entry]
  BY DEF Rotate, Listing, TypeOK, Entry
<1>2. DOMAIN byValue' \subseteq Secret /\ byValue' \in [DOMAIN byValue' -> Placeholder]
  <2> DEFINE d == Drop(byValue, byPH[p].value)
  <2>1. DOMAIN d \subseteq Secret /\ d \in [DOMAIN d -> Placeholder]
    BY DropType, DropFacts DEF Listing, TypeOK
  <2> HIDE DEF d
  <2>2. /\ DOMAIN Put(d, v, p) \subseteq Secret
        /\ Put(d, v, p) \in [DOMAIN Put(d, v, p) -> Placeholder]
    BY <2>1, PutType, PutFacts
  <2> QED BY <2>2 DEF Rotate, ReIndexed, d
<1> QED BY <1>1, <1>2 DEF Rotate, Listing, TypeOK, LiveListed

LEMMA DeleteListing ==
    ASSUME Listing, NEW p \in Placeholder, Delete(p)
    PROVE  Listing'
<1>1. /\ DOMAIN byPH' = DOMAIN byPH \ {p}
      /\ DOMAIN byPH' \subseteq Placeholder /\ byPH' \in [DOMAIN byPH' -> Entry]
  <2>1. DOMAIN byPH \subseteq Placeholder /\ byPH \in [DOMAIN byPH -> Entry]
    BY DEF Listing, TypeOK
  <2>2. byPH' = Drop(byPH, p)
    BY DEF Delete
  <2> QED BY <2>1, <2>2, DropType, DropFacts
<1>2. DOMAIN byValue' \subseteq Secret /\ byValue' \in [DOMAIN byValue' -> Placeholder]
  BY DropType, DropFacts DEF Delete, UnIndexed, Listing, TypeOK
<1>3. order' \in Seq(Placeholder) /\ Range(order) \ {p} \subseteq Range(order')
  <2>1. p \in Range(order) /\ order \in Seq(Placeholder)
    BY DEF Delete, Listing, TypeOK, LiveListed
  <2> QED BY <2>1, RemoveFirstKeeps DEF Delete, Unlisted
<1> QED BY <1>1, <1>2, <1>3 DEF Delete, Listing, TypeOK, LiveListed

LEMMA HousekeepingListing ==
    ASSUME Listing, Housekeeping
    PROVE  Listing'
<1>1. ASSUME NEW p \in Placeholder, NEW hs \in SUBSET Pattern, Bind(p, hs) \/ Unbind(p, hs)
      PROVE  Listing'
  <2> DEFINE added == [byPH[p] EXCEPT !.bindings = @ \cup hs]
             removed == [byPH[p] EXCEPT !.bindings = @ \ hs]
  <2>0. p \in DOMAIN byPH /\ byPH \in [DOMAIN byPH -> Entry]
    BY <1>1 DEF Bind, Unbind, Listing, TypeOK
  <2>2. added \in Entry /\ removed \in Entry
    BY <2>0 DEF Entry
  <2>3. byPH' = [byPH EXCEPT ![p] = added] \/ byPH' = [byPH EXCEPT ![p] = removed]
    BY <1>1 DEF Bind, Unbind, MergeBindings
  <2> HIDE DEF added, removed
  <2>1. DOMAIN byPH' = DOMAIN byPH /\ byPH' \in [DOMAIN byPH' -> Entry]
    BY <2>0, <2>2, <2>3
  <2> QED BY <2>1, <1>1, EditListing DEF Bind, Unbind
<1>2. ASSUME NEW p \in Placeholder, NEW s \in Status, SetStatus(p, s)
      PROVE  Listing'
  <2>1. DOMAIN byPH' = DOMAIN byPH /\ byPH' \in [DOMAIN byPH' -> Entry]
    BY <1>2 DEF SetStatus, Listing, TypeOK, Entry
  <2> QED BY <2>1, <1>2, EditListing DEF SetStatus
<1>3. ASSUME NEW p \in Placeholder, MarkUse(p)
      PROVE  Listing'
  <2>1. DOMAIN byPH' = DOMAIN byPH /\ byPH' \in [DOMAIN byPH' -> Entry]
    <3> DEFINE used == [byPH[p] EXCEPT !.uses = @ + 1]
    <3>1. p \in DOMAIN byPH /\ byPH \in [DOMAIN byPH -> Entry]
      BY <1>3 DEF MarkUse, Listing, TypeOK
    <3>2. used \in Entry
      BY <3>1 DEF Entry
    <3>3. byPH' = [byPH EXCEPT ![p] = used]
      BY <1>3 DEF MarkUse
    <3> HIDE DEF used
    <3> QED BY <3>1, <3>2, <3>3
  <2> QED BY <2>1, <1>3, EditListing DEF MarkUse
<1>4. CASE ListDangling
  BY <1>4 DEF ListDangling, Listing, TypeOK, LiveListed
<1> QED BY <1>1, <1>2, <1>3, <1>4, DeleteListing DEF Housekeeping

LEMMA CloseListing ==
    ASSUME Listing, Emptied, panicked' \in BOOLEAN
    PROVE  Listing'
<1>1. order' \in Seq(Placeholder)
  BY EmptySeq DEF Emptied
<1> QED BY <1>1, EmptyFacts DEF Emptied, Listing, TypeOK, LiveListed

\* Every step of the unrestricted vault keeps its containers well typed and
\* every live entry in order.
LEMMA NextListing == Listing /\ [Next]_vars => Listing'
<1> SUFFICES ASSUME Listing, [Next]_vars
             PROVE  Listing'
  OBVIOUS
<1>1. CASE UNCHANGED vars
  BY <1>1 DEF vars, Listing, TypeOK, LiveListed
<1>2. CASE Close
  BY <1>2, CloseListing DEF Close, Listing, TypeOK
<1> QED BY <1>1, <1>2, RegisterListing, RotateListing, HousekeepingListing
        DEF Next

\* The containers of the vault always hold what their Go types and the
\* operations allow, however the vault is used.
THEOREM TypeCorrect == Spec => []TypeOK
<1>1. Listing => TypeOK
  BY DEF Listing
<1> QED BY <1>1, InitListing, NextListing, PTL DEF Spec

\* However the vault is used - collisions, clobbered entries and rotations
\* onto known values included - no live entry is ever missing from order, so
\* save never loses one.
THEOREM AlwaysListed == Spec => []LiveListed
<1>1. Listing => LiveListed
  BY DEF Listing
<1> QED BY <1>1, InitListing, NextListing, PTL DEF Spec

-----------------------------------------------------------------------------
(***************************************************************************)
(* The careful use of the vault.  Coherent is inductive together with the  *)
(* typing: Inverse2Way needs ListExact (a new placeholder is not in order  *)
(* because it is not in byPH), ListOrdered needs IDsIssued (a new ID is    *)
(* larger than those in use), and NoPanic follows from the first two.      *)
(***************************************************************************)
CarefulInv == Listing /\ Coherent /\ NoPanic

LEMMA InitCareful == Init => CarefulInv
<1> SUFFICES ASSUME Init
             PROVE  CarefulInv
  OBVIOUS
<1>1. DOMAIN byPH = {} /\ DOMAIN byValue = {}
  BY EmptyFacts DEF Init
<1>2. DOMAIN order = {} /\ Range(order) = {}
  BY EmptySeq DEF Init, Range
<1>3. Coherent
  BY <1>1, <1>2 DEF Coherent, Inverse2Way, ListExact, ListOrdered, IDsIssued
<1> QED BY <1>3, InitListing DEF CarefulInv, NoPanic, Init

\* Editing entries in place, their value and ID excepted, disturbs nothing.
LEMMA EditCareful ==
    ASSUME CarefulInv, Listing',
           DOMAIN byPH' = DOMAIN byPH,
           \A q \in DOMAIN byPH : byPH'[q].id = byPH[q].id /\ byPH'[q].value = byPH[q].value,
           UNCHANGED <<byValue, order, nextID, panicked>>
    PROVE  CarefulInv'
<1>1. Inverse2Way'
  BY DEF CarefulInv, Coherent, Inverse2Way
<1>2. ListExact' /\ IDsIssued'
  BY DEF CarefulInv, Coherent, ListExact, IDsIssued
<1>3. ListOrdered'
  BY DEF CarefulInv, Coherent, ListOrdered
<1> QED BY <1>1, <1>2, <1>3 DEF CarefulInv, Coherent, NoPanic

LEMMA RegisterCareful ==
    ASSUME CarefulInv, NEW v \in Secret, NEW hs \in SUBSET Pattern,
           SlotFree(v), Register(v, hs)
    PROVE  CarefulInv'
<1>0. Listing'
  BY RegisterListing DEF CarefulInv
<1>1. CASE RegisterKnown(v, hs)
  <2>1. /\ DOMAIN byPH' = DOMAIN byPH
        /\ \A q \in DOMAIN byPH : byPH'[q].id = byPH[q].id /\ byPH'[q].value = byPH[q].value
    <3> DEFINE e == MergeBindings(byPH[byValue[v]], hs)
    <3>1. byPH' = [byPH EXCEPT ![byValue[v]] = e] /\ byValue[v] \in DOMAIN byPH
      BY <1>1 DEF Known, RegisterKnown
    <3>2. byPH[byValue[v]] \in Entry /\ byPH \in [DOMAIN byPH -> Entry]
      BY <3>1 DEF CarefulInv, Listing, TypeOK
    <3>3. e.id = byPH[byValue[v]].id /\ e.value = byPH[byValue[v]].value
      BY <3>2 DEF MergeBindings, Entry
    <3> HIDE DEF e
    <3> QED BY <3>1, <3>2, <3>3
  <2> QED BY <2>1, <1>0, <1>1, EditCareful DEF Known, RegisterKnown
<1>2. CASE RegisterDangling(v)
  BY <1>2 DEF Known, RegisterDangling, CarefulInv, Coherent, Inverse2Way
<1>3. CASE RegisterNew(v, hs)
  <2> DEFINE p == PlaceholderOf[v]
             e == NewEntry(v, hs)
  <2>1. /\ p \in Placeholder /\ p \notin DOMAIN byPH /\ v \notin DOMAIN byValue
        /\ p \notin Range(order)
    BY <1>3, PlaceholderOfAssumption
       DEF Known, RegisterNew, SlotFree, CarefulInv, Coherent, ListExact
  <2>2. e \in Entry /\ e.value = v /\ e.id = nextID + 1
    BY NewEntryType DEF CarefulInv, Listing
  <2>3. /\ byPH' = Put(byPH, p, e) /\ byValue' = Put(byValue, v, p)
        /\ order' = Append(order, p) /\ nextID' = nextID + 1
        /\ UNCHANGED panicked
    BY <1>3 DEF Known, RegisterNew, Listed
  <2>4. /\ DOMAIN byPH \subseteq Placeholder /\ byPH \in [DOMAIN byPH -> Entry]
        /\ DOMAIN byValue \subseteq Secret /\ byValue \in [DOMAIN byValue -> Placeholder]
        /\ order \in Seq(Placeholder) /\ nextID \in Nat
    BY DEF CarefulInv, Listing, TypeOK
  <2> HIDE DEF p, e
  <2>5. /\ DOMAIN byPH' = DOMAIN byPH \cup {p} /\ byPH'[p] = e
        /\ \A q \in DOMAIN byPH : byPH'[q] = byPH[q]
    BY <2>1, <2>3 DEF Put
  <2>6. /\ DOMAIN byValue' = DOMAIN byValue \cup {v} /\ byValue'[v] = p
        /\ \A w \in DOMAIN byValue : byValue'[w] = byValue[w]
    BY <2>1, <2>3 DEF Put
  <2>7. Inverse2Way'
    BY <2>1, <2>2, <2>5, <2>6 DEF CarefulInv, Coherent, Inverse2Way
  <2>8. /\ DOMAIN order = 1..Len(order) /\ Len(order) \in Nat
        /\ DOMAIN order' = 1..Len(order) + 1
        /\ \A i \in 1..Len(order) : order'[i] = order[i]
        /\ order'[Len(order) + 1] = p
        /\ Range(order') = Range(order) \cup {p}
    BY <2>1, <2>3, <2>4, Appended
  <2>9. ListExact'
    BY <2>5, <2>8 DEF CarefulInv, Coherent, ListExact
  <2>10. \A q \in DOMAIN byPH : byPH[q].id \in Nat /\ byPH[q].id <= nextID
    BY <2>4 DEF CarefulInv, Coherent, IDsIssued
  <2>11. IDsIssued'
    BY <2>2, <2>3, <2>4, <2>5, <2>10 DEF CarefulInv, Coherent, IDsIssued
  <2>12. ListOrdered'
    <3> SUFFICES ASSUME NEW i \in 1..Len(order) + 1, NEW j \in 1..Len(order) + 1, i < j
                 PROVE  /\ order'[i] # order'[j]
                        /\ order'[i] \in DOMAIN byPH' /\ order'[j] \in DOMAIN byPH' =>
                               byPH'[order'[i]].id < byPH'[order'[j]].id
      BY <2>8 DEF ListOrdered
    <3>1. i \in 1..Len(order) /\ order[i] \in DOMAIN byPH /\ order'[i] = order[i]
      BY <2>8 DEF CarefulInv, Coherent, ListExact, Range
    <3>2. CASE j = Len(order) + 1
      BY <3>1, <3>2, <2>1, <2>2, <2>4, <2>5, <2>8, <2>10
    <3>3. CASE j \in 1..Len(order)
      <4>1. order'[j] = order[j] /\ order[j] \in DOMAIN byPH
        BY <3>3, <2>8 DEF CarefulInv, Coherent, ListExact, Range
      <4>2. order[i] # order[j] /\ byPH[order[i]].id < byPH[order[j]].id
        BY <4>1, <3>1, <3>3, <2>8 DEF CarefulInv, Coherent, ListOrdered
      <4> QED BY <4>1, <4>2, <3>1, <2>5
    <3> QED BY <3>2, <3>3, <2>8
  <2> QED BY <1>0, <2>3, <2>7, <2>9, <2>11, <2>12 DEF CarefulInv, Coherent, NoPanic
<1> QED BY <1>1, <1>2, <1>3 DEF Register

LEMMA RotateCareful ==
    ASSUME CarefulInv, NEW p \in Placeholder, NEW v \in Secret,
           ValueFree(p, v), Rotate(p, v)
    PROVE  CarefulInv'
<1>0. Listing'
  BY RotateListing DEF CarefulInv
<1> DEFINE old == byPH[p].value
<1>1. /\ DOMAIN byPH \subseteq Placeholder /\ byPH \in [DOMAIN byPH -> Entry]
      /\ DOMAIN byValue \subseteq Secret /\ byValue \in [DOMAIN byValue -> Placeholder]
      /\ p \in DOMAIN byPH
  BY DEF CarefulInv, Listing, TypeOK, Rotate
<1>2. /\ DOMAIN byPH' = DOMAIN byPH /\ byPH'[p].value = v
      /\ \A q \in DOMAIN byPH : byPH'[q].id = byPH[q].id
      /\ \A q \in DOMAIN byPH : q # p => byPH'[q].value = byPH[q].value
  BY <1>1 DEF Rotate, Entry
<1>3. /\ DOMAIN byValue' = (DOMAIN byValue \ {old}) \cup {v} /\ byValue'[v] = p
      /\ \A w \in DOMAIN byValue : w # old /\ w # v => byValue'[w] = byValue[w]
  <2> DEFINE d == Drop(byValue, old)
  <2>1. /\ DOMAIN d = DOMAIN byValue \ {old}
        /\ DOMAIN d \subseteq Secret /\ d \in [DOMAIN d -> Placeholder]
        /\ \A w \in DOMAIN byValue : w # old => d[w] = byValue[w]
    BY <1>1, DropType, DropFacts
  <2>2. byValue' = Put(d, v, p)
    BY DEF Rotate, ReIndexed
  <2> HIDE DEF d, old
  <2>3. /\ DOMAIN byValue' = DOMAIN d \cup {v} /\ byValue'[v] = p
        /\ \A w \in DOMAIN d : w # v => byValue'[w] = d[w]
    BY <2>1, <2>2 DEF Put
  <2> QED BY <2>1, <2>3
<1>4. Inverse2Way'
  <2>1. old \in DOMAIN byValue /\ byValue[old] = p
    BY <1>1 DEF CarefulInv, Coherent, Inverse2Way
  <2>2. ASSUME NEW q \in DOMAIN byPH'
        PROVE  byPH'[q].value \in DOMAIN byValue' /\ byValue'[byPH'[q].value] = q
    <3>1. CASE q = p
      BY <3>1, <1>2, <1>3
    <3>2. CASE q # p
      <4>1. /\ byPH'[q].value = byPH[q].value
            /\ byPH[q].value \in DOMAIN byValue /\ byValue[byPH[q].value] = q
        BY <3>2, <1>2 DEF CarefulInv, Coherent, Inverse2Way
      <4>2. byPH[q].value # old /\ byPH[q].value # v
        BY <3>2, <4>1, <2>1 DEF ValueFree
      <4> QED BY <4>1, <4>2, <1>3
    <3> QED BY <3>1, <3>2
  <2>3. ASSUME NEW w \in DOMAIN byValue'
        PROVE  byValue'[w] \in DOMAIN byPH' /\ byPH'[byValue'[w]].value = w
    <3>1. CASE w = v
      BY <3>1, <1>1, <1>2, <1>3
    <3>2. CASE w # v
      <4>1. w \in DOMAIN byValue /\ w # old /\ byValue'[w] = byValue[w]
        BY <3>2, <1>3
      <4>2. byValue[w] \in DOMAIN byPH /\ byPH[byValue[w]].value = w /\ byValue[w] # p
        BY <4>1 DEF CarefulInv, Coherent, Inverse2Way
      <4> QED BY <4>1, <4>2, <1>2
    <3> QED BY <3>1, <3>2
  <2> QED BY <2>2, <2>3 DEF Inverse2Way
<1>5. order' = order /\ nextID' = nextID /\ panicked' = panicked
  BY DEF Rotate
<1>6. ListExact' /\ IDsIssued'
  BY <1>2, <1>5 DEF CarefulInv, Coherent, ListExact, IDsIssued
<1>7. ListOrdered'
  BY <1>2, <1>5 DEF CarefulInv, Coherent, ListOrdered
<1> QED BY <1>0, <1>4, <1>5, <1>6, <1>7 DEF CarefulInv, Coherent, NoPanic

LEMMA DeleteCareful ==
    ASSUME CarefulInv, NEW p \in Placeholder, Delete(p)
    PROVE  CarefulInv'
<1>0. Listing'
  BY DeleteListing DEF CarefulInv
<1>1. /\ byPH \in [DOMAIN byPH -> Entry] /\ order \in Seq(Placeholder)
      /\ p \in DOMAIN byPH /\ p \in Range(order)
      /\ DOMAIN order = 1..Len(order)
  BY LenProperties DEF CarefulInv, Listing, TypeOK, LiveListed, Delete
<1>2. /\ DOMAIN byPH' = DOMAIN byPH \ {p}
      /\ \A q \in DOMAIN byPH : q # p => byPH'[q] = byPH[q]
  BY DropFacts DEF Delete
<1>3. /\ DOMAIN byValue' = DOMAIN byValue \ {byPH[p].value}
      /\ \A w \in DOMAIN byValue : w # byPH[p].value => byValue'[w] = byValue[w]
  BY DropFacts, ZenonT(40) DEF Delete, UnIndexed
<1>4. Inverse2Way'
  BY <1>1, <1>2, <1>3 DEF CarefulInv, Coherent, Inverse2Way
<1>5. \A i, j \in 1..Len(order) : i < j => order[i] # order[j]
  BY <1>1 DEF CarefulInv, Coherent, ListOrdered
<1>6. order' = RemoveFirst(order, p)
  BY DEF Delete, Unlisted
<1>7. /\ order' \in Seq(Placeholder)
      /\ Range(order) \ {p} \subseteq Range(order')
      /\ Range(order') \subseteq Range(order)
      /\ \A i, j \in 1..Len(order') : i < j =>
            \E m, n \in 1..Len(order) : m < n /\ order'[i] = order[m] /\ order'[j] = order[n]
      /\ p \notin Range(order')
  BY <1>1, <1>5, <1>6, RemoveFirstKeeps, SMTT(30)
<1>8. ListExact'
  BY <1>2, <1>7 DEF CarefulInv, Coherent, ListExact
<1>9. nextID' = nextID /\ panicked' = panicked
  BY DEF Delete
<1>10. IDsIssued'
  BY <1>2, <1>9 DEF CarefulInv, Coherent, IDsIssued
<1>11. ListOrdered'
  <2>1. DOMAIN order' = 1..Len(order')
    BY <1>7, LenProperties
  <2> SUFFICES ASSUME NEW i \in 1..Len(order'), NEW j \in 1..Len(order'), i < j
               PROVE  /\ order'[i] # order'[j]
                      /\ order'[i] \in DOMAIN byPH' /\ order'[j] \in DOMAIN byPH' =>
                             byPH'[order'[i]].id < byPH'[order'[j]].id
    BY <2>1 DEF ListOrdered
  <2>2. PICK m \in 1..Len(order), n \in 1..Len(order) :
           m < n /\ order'[i] = order[m] /\ order'[j] = order[n]
    BY <1>7
  <2>3. /\ order[m] # order[n]
        /\ order[m] \in DOMAIN byPH /\ order[n] \in DOMAIN byPH =>
               byPH[order[m]].id < byPH[order[n]].id
    BY <2>2, <1>1 DEF CarefulInv, Coherent, ListOrdered
  <2> QED BY <2>2, <2>3, <1>2
<1> QED BY <1>0, <1>4, <1>8, <1>9, <1>10, <1>11 DEF CarefulInv, Coherent, NoPanic

LEMMA HousekeepingCareful ==
    ASSUME CarefulInv, Housekeeping
    PROVE  CarefulInv'
<1>0. Listing' /\ byPH \in [DOMAIN byPH -> Entry]
  BY HousekeepingListing DEF CarefulInv, Listing, TypeOK
<1>1. ASSUME NEW p \in Placeholder, NEW hs \in SUBSET Pattern, Bind(p, hs) \/ Unbind(p, hs)
      PROVE  CarefulInv'
  <2>1. /\ DOMAIN byPH' = DOMAIN byPH
        /\ \A q \in DOMAIN byPH : byPH'[q].id = byPH[q].id /\ byPH'[q].value = byPH[q].value
    BY <1>0, <1>1 DEF Bind, Unbind, MergeBindings, Entry
  <2> QED BY <2>1, <1>0, <1>1, EditCareful DEF Bind, Unbind
<1>2. ASSUME NEW p \in Placeholder, NEW s \in Status, SetStatus(p, s)
      PROVE  CarefulInv'
  <2>1. /\ DOMAIN byPH' = DOMAIN byPH
        /\ \A q \in DOMAIN byPH : byPH'[q].id = byPH[q].id /\ byPH'[q].value = byPH[q].value
    BY <1>0, <1>2 DEF SetStatus, Entry
  <2> QED BY <2>1, <1>0, <1>2, EditCareful DEF SetStatus
<1>3. ASSUME NEW p \in Placeholder, MarkUse(p)
      PROVE  CarefulInv'
  <2>1. /\ DOMAIN byPH' = DOMAIN byPH
        /\ \A q \in DOMAIN byPH : byPH'[q].id = byPH[q].id /\ byPH'[q].value = byPH[q].value
    BY <1>0, <1>3 DEF MarkUse, Entry
  <2> QED BY <2>1, <1>0, <1>3, EditCareful DEF MarkUse
<1>4. CASE ListDangling
  <2>1. \A i \in DOMAIN order : order[i] \in DOMAIN byPH
    BY DEF CarefulInv, Coherent, ListExact, Range
  <2> QED BY <2>1, <1>4 DEF ListDangling
<1> QED BY <1>1, <1>2, <1>3, <1>4, DeleteCareful DEF Housekeeping

LEMMA CloseCareful ==
    ASSUME CarefulInv, Emptied, UNCHANGED panicked
    PROVE  CarefulInv'
<1>1. DOMAIN byPH' = {} /\ DOMAIN byValue' = {}
  BY EmptyFacts DEF Emptied
<1>2. DOMAIN order' = {} /\ Range(order') = {}
  BY EmptySeq DEF Emptied, Range
<1>3. Coherent'
  BY <1>1, <1>2 DEF Coherent, Inverse2Way, ListExact, ListOrdered, IDsIssued
<1> QED BY <1>3, CloseListing DEF CarefulInv, NoPanic, Listing, TypeOK

-----------------------------------------------------------------------------
(***************************************************************************)
(* However the vault is used: the IDs of the live entries.                 *)
(***************************************************************************)
KeptInv == Listing /\ IDsIssued /\ DistinctIDs

\* A step that adds no entry and changes no ID.
LEMMA SameIDs ==
    ASSUME KeptInv, Listing', DOMAIN byPH' \subseteq DOMAIN byPH, nextID' = nextID,
           \A p \in DOMAIN byPH' : byPH'[p].id = byPH[p].id
    PROVE  KeptInv'
BY DEF KeptInv, IDsIssued, DistinctIDs

LEMMA RegisterKept ==
    ASSUME KeptInv, NEW v \in Secret, NEW hs \in SUBSET Pattern, Register(v, hs)
    PROVE  KeptInv'
<1>0. Listing' /\ byPH \in [DOMAIN byPH -> Entry] /\ nextID \in Nat
  BY RegisterListing DEF KeptInv, Listing, TypeOK
<1>1. CASE RegisterKnown(v, hs)
  <2> DEFINE e == MergeBindings(byPH[byValue[v]], hs)
  <2>1. byPH' = [byPH EXCEPT ![byValue[v]] = e] /\ byValue[v] \in DOMAIN byPH /\ nextID' = nextID
    BY <1>1 DEF Known, RegisterKnown
  <2>2. e.id = byPH[byValue[v]].id
    BY <1>0, <2>1 DEF MergeBindings, Entry
  <2> HIDE DEF e
  <2>3. DOMAIN byPH' = DOMAIN byPH /\ \A q \in DOMAIN byPH' : byPH'[q].id = byPH[q].id
    BY <1>0, <2>1, <2>2
  <2> QED BY <1>0, <2>1, <2>3, SameIDs
<1>2. CASE RegisterDangling(v)
  <2>1. UNCHANGED <<byPH, nextID>>
    BY <1>2 DEF RegisterDangling
  <2> QED BY <1>0, <2>1, SameIDs
<1>3. CASE RegisterNew(v, hs)
  <2> DEFINE p == PlaceholderOf[v]
             e == NewEntry(v, hs)
  <2>1. byPH' = Put(byPH, p, e) /\ nextID' = nextID + 1 /\ e.id = nextID + 1
    BY <1>3, NewEntryType DEF RegisterNew, KeptInv, Listing
  <2> HIDE DEF p, e
  <2>2. /\ DOMAIN byPH' = DOMAIN byPH \cup {p} /\ byPH'[p] = e
        /\ \A q \in DOMAIN byPH : q # p => byPH'[q] = byPH[q]
    BY <2>1 DEF Put
  <2>3. \A q \in DOMAIN byPH : byPH[q].id \in Nat /\ 1 <= byPH[q].id /\ byPH[q].id <= nextID
    BY <1>0 DEF KeptInv, IDsIssued, Entry
  <2>4. IDsIssued'
    BY <1>0, <2>1, <2>2, <2>3 DEF IDsIssued
  <2>5. DistinctIDs'
    <3>1. \A q \in DOMAIN byPH : q # p => byPH'[q].id # nextID + 1
      BY <1>0, <2>2, <2>3
    <3> QED BY <2>1, <2>2, <3>1 DEF DistinctIDs, KeptInv
  <2> QED BY <1>0, <2>4, <2>5 DEF KeptInv
<1> QED BY <1>1, <1>2, <1>3 DEF Register

LEMMA RotateKept ==
    ASSUME KeptInv, NEW p \in Placeholder, NEW v \in Secret, Rotate(p, v)
    PROVE  KeptInv'
<1>1. Listing'
  BY RotateListing DEF KeptInv
<1>2. /\ DOMAIN byPH' = DOMAIN byPH /\ nextID' = nextID
      /\ \A q \in DOMAIN byPH' : byPH'[q].id = byPH[q].id
  BY DEF Rotate, KeptInv, Listing, TypeOK, Entry
<1> QED BY <1>1, <1>2, SameIDs

LEMMA HousekeepingKept ==
    ASSUME KeptInv, Housekeeping
    PROVE  KeptInv'
<1>1. Listing' /\ byPH \in [DOMAIN byPH -> Entry]
  BY HousekeepingListing DEF KeptInv, Listing, TypeOK
<1>2. ASSUME NEW p \in Placeholder, NEW hs \in SUBSET Pattern, Bind(p, hs) \/ Unbind(p, hs)
      PROVE  KeptInv'
  <2>1. /\ DOMAIN byPH' = DOMAIN byPH /\ nextID' = nextID
        /\ \A q \in DOMAIN byPH' : byPH'[q].id = byPH[q].id
    BY <1>1, <1>2 DEF Bind, Unbind, MergeBindings, Entry
  <2> QED BY <1>1, <2>1, SameIDs
<1>3. ASSUME NEW p \in Placeholder, NEW s \in Status, SetStatus(p, s)
      PROVE  KeptInv'
  <2>1. /\ DOMAIN byPH' = DOMAIN byPH /\ nextID' = nextID
        /\ \A q \in DOMAIN byPH' : byPH'[q].id = byPH[q].id
    BY <1>1, <1>3 DEF SetStatus, Entry
  <2> QED BY <1>1, <2>1, SameIDs
<1>4. ASSUME NEW p \in Placeholder, MarkUse(p)
      PROVE  KeptInv'
  <2>1. /\ DOMAIN byPH' = DOMAIN byPH /\ nextID' = nextID
        /\ \A q \in DOMAIN byPH' : byPH'[q].id = byPH[q].id
    BY <1>1, <1>4 DEF MarkUse, Entry
  <2> QED BY <1>1, <2>1, SameIDs
<1>5. ASSUME NEW p \in Placeholder, Delete(p)
      PROVE  KeptInv'
  <2>1. byPH' = Drop(byPH, p) /\ nextID' = nextID
    BY <1>5 DEF Delete
  <2>2. DOMAIN byPH' \subseteq DOMAIN byPH /\ \A q \in DOMAIN byPH' : byPH'[q].id = byPH[q].id
    BY <2>1 DEF Drop, Restrict
  <2> QED BY <1>1, <2>1, <2>2, SameIDs
<1>6. CASE ListDangling
  <2>1. UNCHANGED <<byPH, nextID>>
    BY <1>6 DEF ListDangling
  <2> QED BY <1>1, <2>1, SameIDs
<1> QED BY <1>2, <1>3, <1>4, <1>5, <1>6 DEF Housekeeping

LEMMA EmptiedKept ==
    ASSUME KeptInv, Emptied, panicked' \in BOOLEAN
    PROVE  KeptInv'
<1>1. Listing'
  BY CloseListing DEF KeptInv
<1>2. DOMAIN byPH' = {} /\ nextID' = nextID
  BY EmptyFacts DEF Emptied
<1> QED BY <1>1, <1>2, SameIDs

-----------------------------------------------------------------------------
(***************************************************************************)
(* The loops of load and save.  That they are defined at every index, and  *)
(* what they have made after any number of iterations, is shown from one   *)
(* iteration to the next.                                                  *)
(***************************************************************************)
\* What holds at 0, and at i if it holds just before, holds at n.
LEMMA Along ==
    ASSUME NEW n \in Nat, NEW T, 0 \in T, \A i \in 1..n : i - 1 \in T => i \in T
    PROVE  \A i \in 0..n : i \in T
<1> DEFINE R == {i \in 0..n : i \notin T}
<1> SUFFICES ASSUME R # {}
             PROVE  FALSE
  OBVIOUS
<1>1. R \in SUBSET Nat
  OBVIOUS
<1>2. \E k \in R : \A j \in R : k <= j
  BY <1>1, LeastOfNats
<1>3. PICK k \in R : \A j \in R : k <= j
  BY <1>2
<1>4. k # 0 /\ k \in 1..n /\ k - 1 \in 0..n /\ ~(k <= k - 1)
  BY <1>3
<1>5. k - 1 \notin R
  BY <1>3, <1>4
<1> QED BY <1>3, <1>4, <1>5

LEMMA LoadingLoop ==
    ASSUME NEW b, Len(b) \in Nat
    PROVE  /\ Loading(b)[0] = NewMaps
           /\ \A i \in 1..Len(b) : Loading(b)[i] = LoadEntry(Loading(b)[i - 1], b[i])
<1> DEFINE n == Len(b)
           Step(f, i) == IF i = 0 THEN NewMaps ELSE LoadEntry(f[i - 1], b[i])
           T == {i \in 0..n : \E f : f = [k \in 0..i |-> Step(f, k)]}
<1>1. 0 \in T
  <2> DEFINE g == [k \in 0..0 |-> NewMaps]
  <2>1. g = [k \in 0..0 |-> Step(g, k)]
    OBVIOUS
  <2>2. \E f : f = [k \in 0..0 |-> Step(f, k)]
    <3> HIDE DEF g, Step
    <3> QED BY <2>1
  <2> QED BY <2>2
<1>2. ASSUME NEW i \in 1..n, i - 1 \in T
      PROVE  i \in T
  <2>1. PICK f : f = [k \in 0..i - 1 |-> Step(f, k)]
    BY <1>2
  <2> DEFINE g == [k \in 0..i |-> IF k = i THEN LoadEntry(f[i - 1], b[i]) ELSE f[k]]
  <2>2. \A k \in 0..i : g[k] = Step(g, k)
    <3>1. ASSUME NEW k \in 0..i
          PROVE  g[k] = Step(g, k)
      <4>1. CASE k = i
        <5>1. k # 0 /\ k - 1 \in 0..i /\ k - 1 # i
          BY <4>1, <1>2
        <5> QED BY <4>1, <5>1
      <4>2. CASE k # i
        <5>1. k \in 0..i - 1 /\ g[k] = f[k] /\ f[k] = Step(f, k)
          BY <4>2, <3>1, <2>1
        <5>2. k # 0 => k - 1 \in 0..i /\ k - 1 # i
          BY <5>1, <1>2
        <5> QED BY <5>1, <5>2
      <4> QED BY <4>1, <4>2
    <3> QED BY <3>1
  <2>3. g = [k \in 0..i |-> Step(g, k)]
    <3>1. g = [k \in 0..i |-> g[k]]
      OBVIOUS
    <3> HIDE DEF g, Step
    <3> QED BY <2>2, <3>1
  <2>4. \E h : h = [k \in 0..i |-> Step(h, k)]
    <3> HIDE DEF g, Step
    <3> QED BY <2>3
  <2> QED BY <2>4, <1>2
<1>3. n \in T
  <2> HIDE DEF T, n
  <2>1. n \in Nat
    BY DEF n
  <2> QED BY <1>1, <1>2, <2>1, Along
<1> DEFINE f == Loading(b)
<1>4. f = [k \in 0..n |-> Step(f, k)]
  <2>1. f = CHOOSE g : g = [k \in 0..n |-> Step(g, k)]
    BY DEF Loading
  <2>2. \E g : g = [k \in 0..n |-> Step(g, k)]
    BY <1>3
  <2> HIDE DEF Step, f, n
  <2> QED BY <2>1, <2>2
<1> HIDE DEF f
<1>5. \A k \in 0..n : f[k] = Step(f, k)
  <2> DEFINE e == [k \in 0..n |-> Step(f, k)]
  <2>1. f = e
    BY <1>4
  <2>2. \A k \in 0..n : e[k] = Step(f, k)
    OBVIOUS
  <2> HIDE DEF e, Step
  <2> QED BY <2>1, <2>2
<1>6. 0 \in 0..n /\ \A i \in 1..n : i \in 0..n /\ i # 0
  OBVIOUS
<1> QED BY <1>5, <1>6 DEF f

LEMMA DumpingLoop ==
    ASSUME Len(order) \in Nat
    PROVE  /\ Dumping[0] = <<>>
           /\ \A i \in 1..Len(order) : Dumping[i] = DumpEntry(Dumping[i - 1], order[i])
<1> DEFINE n == Len(order)
           Step(f, i) == IF i = 0 THEN <<>> ELSE DumpEntry(f[i - 1], order[i])
           T == {i \in 0..n : \E f : f = [k \in 0..i |-> Step(f, k)]}
<1>1. 0 \in T
  <2> DEFINE g == [k \in 0..0 |-> <<>>]
  <2>1. g = [k \in 0..0 |-> Step(g, k)]
    OBVIOUS
  <2>2. \E f : f = [k \in 0..0 |-> Step(f, k)]
    <3> HIDE DEF g, Step
    <3> QED BY <2>1
  <2> QED BY <2>2
<1>2. ASSUME NEW i \in 1..n, i - 1 \in T
      PROVE  i \in T
  <2>1. PICK f : f = [k \in 0..i - 1 |-> Step(f, k)]
    BY <1>2
  <2> DEFINE g == [k \in 0..i |-> IF k = i THEN DumpEntry(f[i - 1], order[i]) ELSE f[k]]
  <2>2. \A k \in 0..i : g[k] = Step(g, k)
    <3>1. ASSUME NEW k \in 0..i
          PROVE  g[k] = Step(g, k)
      <4>1. CASE k = i
        <5>1. k # 0 /\ k - 1 \in 0..i /\ k - 1 # i
          BY <4>1, <1>2
        <5> QED BY <4>1, <5>1
      <4>2. CASE k # i
        <5>1. k \in 0..i - 1 /\ g[k] = f[k] /\ f[k] = Step(f, k)
          BY <4>2, <3>1, <2>1
        <5>2. k # 0 => k - 1 \in 0..i /\ k - 1 # i
          BY <5>1, <1>2
        <5> QED BY <5>1, <5>2
      <4> QED BY <4>1, <4>2
    <3> QED BY <3>1
  <2>3. g = [k \in 0..i |-> Step(g, k)]
    <3>1. g = [k \in 0..i |-> g[k]]
      OBVIOUS
    <3> HIDE DEF g, Step
    <3> QED BY <2>2, <3>1
  <2>4. \E h : h = [k \in 0..i |-> Step(h, k)]
    <3> HIDE DEF g, Step
    <3> QED BY <2>3
  <2> QED BY <2>4, <1>2
<1>3. n \in T
  <2> HIDE DEF T, n
  <2>1. n \in Nat
    BY DEF n
  <2> QED BY <1>1, <1>2, <2>1, Along
<1> DEFINE f == Dumping
<1>4. f = [k \in 0..n |-> Step(f, k)]
  <2>1. f = CHOOSE g : g = [k \in 0..n |-> Step(g, k)]
    BY DEF Dumping
  <2>2. \E g : g = [k \in 0..n |-> Step(g, k)]
    BY <1>3
  <2> HIDE DEF Step, f, n
  <2> QED BY <2>1, <2>2
<1> HIDE DEF f
<1>5. \A k \in 0..n : f[k] = Step(f, k)
  <2> DEFINE e == [k \in 0..n |-> Step(f, k)]
  <2>1. f = e
    BY <1>4
  <2>2. \A k \in 0..n : e[k] = Step(f, k)
    OBVIOUS
  <2> HIDE DEF e, Step
  <2> QED BY <2>1, <2>2
<1>6. 0 \in 0..n /\ \A i \in 1..n : i \in 0..n /\ i # 0
  OBVIOUS
<1> QED BY <1>5, <1>6 DEF f

-----------------------------------------------------------------------------
(***************************************************************************)
(* What load makes of any file save can have written.                      *)
(***************************************************************************)
Saved(b) ==
    /\ b \in Seq(Record)
    /\ \A i, j \in 1..Len(b) :
          /\ b[i].placeholder = b[j].placeholder => b[i].entry = b[j].entry
          /\ b[i].placeholder # b[j].placeholder => b[i].entry.id # b[j].entry.id
    /\ \A i \in 1..Len(b) : b[i].entry.id > 0

LEMMA CleanIsSaved ==
    ASSUME NEW b, InFile(b)
    PROVE  Saved(b)
<1>1. Len(b) \in Nat /\ b \in Seq(Record)
  BY LenProperties DEF InFile
<1>2. \A i \in 1..Len(b) : b[i] \in Record /\ b[i].entry.id \in Nat
  <2>1. \A i \in 1..Len(b) : b[i] \in Record
    BY <1>1, ElementOfSeq
  <2> QED BY <2>1 DEF Record, Entry
<1>3. \A i, j \in 1..Len(b) : i < j \/ i = j \/ j < i
  BY <1>1
<1>4. \A i, j \in 1..Len(b) : i # j => /\ b[i].placeholder # b[j].placeholder
                                       /\ b[i].entry.id # b[j].entry.id
  BY <1>2, <1>3 DEF InFile
<1> QED BY <1>4 DEF InFile, Saved

\* What holds of load's maps m after the first i entries of b.
LoadedUpTo(b, i, m) ==
    /\ DOMAIN m.byPH = {b[j].placeholder : j \in 1..i}
    /\ m.byPH \in [DOMAIN m.byPH -> Entry]
    /\ \A j \in 1..i : m.byPH[b[j].placeholder] = b[j].entry
    /\ DOMAIN m.byValue \subseteq Secret /\ m.byValue \in [DOMAIN m.byValue -> Placeholder]
    /\ m.order \in Seq(Placeholder) /\ Range(m.order) = {b[j].placeholder : j \in 1..i}
    /\ m.nextID \in Nat /\ \A j \in 1..i : b[j].entry.id <= m.nextID

LEMMA LoadedNext ==
    ASSUME NEW b, Saved(b), NEW i \in 1..Len(b), NEW m, LoadedUpTo(b, i - 1, m)
    PROVE  LoadedUpTo(b, i, LoadEntry(m, b[i]))
<1> DEFINE p == b[i].placeholder
           e == b[i].entry
           l == LoadEntry(m, b[i])
<1>1. /\ Len(b) \in Nat /\ i \in 1..i
      /\ \A j \in 1..i : j = i \/ j \in 1..i - 1
      /\ \A j \in 1..i - 1 : j \in 1..i
      /\ \A j \in 1..i : j \in 1..Len(b)
  BY LenProperties DEF Saved
<1>2. \A j \in 1..Len(b) : b[j].placeholder \in Placeholder /\ b[j].entry \in Entry
  <2>1. \A j \in 1..Len(b) : b[j] \in Record
    BY <1>1, ElementOfSeq DEF Saved
  <2> QED BY <2>1 DEF Record
<1>3. p \in Placeholder /\ e \in Entry /\ e.value \in Secret /\ e.id \in Nat
  BY <1>2 DEF Entry
<1>4. \A j \in 1..i - 1 : b[j].placeholder = p => b[j].entry = e
  BY <1>1 DEF Saved
<1>5. {b[j].placeholder : j \in 1..i} = {b[j].placeholder : j \in 1..i - 1} \cup {p}
  BY <1>1
<1>6. /\ l.byPH = Put(m.byPH, p, e) /\ l.byValue = Put(m.byValue, e.value, p)
      /\ l.order = Append(m.order, p) /\ l.nextID = Bump(m.nextID, e)
  BY DEF LoadEntry, Indexed
<1> HIDE DEF l, p, e
<1>7. /\ DOMAIN l.byPH = DOMAIN m.byPH \cup {p} /\ l.byPH[p] = e
      /\ \A q \in DOMAIN m.byPH : q # p => l.byPH[q] = m.byPH[q]
      /\ l.byPH \in [DOMAIN l.byPH -> Entry]
  BY <1>3, <1>6, PutFacts, PutType DEF LoadedUpTo, Put
<1>8. \A j \in 1..i : l.byPH[b[j].placeholder] = b[j].entry
  <2>1. ASSUME NEW j \in 1..i
        PROVE  l.byPH[b[j].placeholder] = b[j].entry
    <3>1. CASE b[j].placeholder = p
      <4>1. b[j].entry = e
        BY <1>1, <1>4, <3>1 DEF e
      <4> QED BY <3>1, <4>1, <1>7
    <3>2. CASE b[j].placeholder # p
      <4>1. j \in 1..i - 1 /\ b[j].placeholder \in DOMAIN m.byPH
        BY <1>1, <3>2 DEF LoadedUpTo, p
      <4> QED BY <3>2, <4>1, <1>7 DEF LoadedUpTo
    <3> QED BY <3>1, <3>2
  <2> QED BY <2>1
<1>9. DOMAIN l.byValue \subseteq Secret /\ l.byValue \in [DOMAIN l.byValue -> Placeholder]
  <2>1. DOMAIN m.byValue \subseteq Secret /\ m.byValue \in [DOMAIN m.byValue -> Placeholder]
    BY DEF LoadedUpTo
  <2> QED BY <1>3, <1>6, <2>1 DEF Put
<1>10. l.order \in Seq(Placeholder) /\ Range(l.order) = Range(m.order) \cup {p}
  BY <1>3, <1>6, Appended DEF LoadedUpTo
<1>11. l.nextID \in Nat /\ \A j \in 1..i : b[j].entry.id <= l.nextID
  <2>1. l.nextID \in Nat /\ m.nextID <= l.nextID /\ e.id <= l.nextID /\ m.nextID \in Nat
    BY <1>3, <1>6 DEF Bump, LoadedUpTo
  <2>2. \A j \in 1..i : b[j].entry.id \in Nat
    BY <1>1, <1>2 DEF Entry
  <2>3. \A j \in 1..i - 1 : b[j].entry.id <= m.nextID
    BY DEF LoadedUpTo
  <2>4. b[i].entry.id <= l.nextID
    BY <2>1 DEF e
  <2>5. \A j \in 1..i - 1 : b[j].entry.id <= l.nextID
    BY <1>1, <2>1, <2>2, <2>3
  <2> QED BY <1>1, <2>1, <2>4, <2>5
<1>12. /\ DOMAIN m.byPH = {b[j].placeholder : j \in 1..i - 1}
       /\ Range(m.order) = {b[j].placeholder : j \in 1..i - 1}
  BY DEF LoadedUpTo
<1>13. LoadedUpTo(b, i, l)
  BY <1>5, <1>7, <1>8, <1>9, <1>10, <1>11, <1>12 DEF LoadedUpTo, p
<1> QED BY <1>13 DEF l

LEMMA LoadFacts ==
    ASSUME NEW b, Saved(b)
    PROVE  LoadedUpTo(b, Len(b), Load(b))
<1> DEFINE n == Len(b)
           T == {i \in 0..n : LoadedUpTo(b, i, Loading(b)[i])}
<1>1. n \in Nat
  BY LenProperties DEF Saved
<1>2. 0 \in T
  <2>1. <<>> \in Seq(Placeholder) /\ Range(<<>>) = {}
    BY EmptySeq DEF Range
  <2>2. LoadedUpTo(b, 0, NewMaps)
    BY <2>1, EmptyFacts DEF LoadedUpTo, NewMaps
  <2> QED BY <1>1, <2>2, LoadingLoop
<1>3. ASSUME NEW i \in 1..n, i - 1 \in T
      PROVE  i \in T
  <2>1. LoadedUpTo(b, i - 1, Loading(b)[i - 1])
    BY <1>3
  <2>2. LoadedUpTo(b, i, LoadEntry(Loading(b)[i - 1], b[i]))
    BY <2>1, LoadedNext
  <2>3. Loading(b)[i] = LoadEntry(Loading(b)[i - 1], b[i])
    BY <1>1, LoadingLoop
  <2> QED BY <1>1, <2>2, <2>3
<1>4. n \in T
  <2> HIDE DEF T, n
  <2> QED BY <1>1, <1>2, <1>3, Along
<1> QED BY <1>4 DEF Load

\* Every entry of what save makes of the first i placeholders of order is that
\* of its placeholder, and no live one among them is missing.
DumpedUpTo(i, d) ==
    /\ d \in Seq(Record)
    /\ \A j \in 1..Len(d) : d[j].placeholder \in DOMAIN byPH /\ d[j].entry = byPH[d[j].placeholder]
    /\ \A k \in 1..i : order[k] \in DOMAIN byPH =>
                          \E j \in 1..Len(d) : d[j].placeholder = order[k]

LEMMA DumpFacts ==
    ASSUME Listing
    PROVE  DumpedUpTo(Len(order), Dump)
<1> DEFINE n == Len(order)
           T == {i \in 0..n : DumpedUpTo(i, Dumping[i])}
<1>1. /\ n \in Nat /\ order \in Seq(Placeholder) /\ \A k \in 1..n : order[k] \in Placeholder
      /\ DOMAIN byPH \subseteq Placeholder /\ byPH \in [DOMAIN byPH -> Entry]
  BY LenProperties, ElementOfSeq DEF Listing, TypeOK
<1>2. 0 \in T
  <2>1. DumpedUpTo(0, <<>>)
    BY EmptySeq DEF DumpedUpTo
  <2> QED BY <1>1, <2>1, DumpingLoop
<1>3. ASSUME NEW i \in 1..n, i - 1 \in T
      PROVE  i \in T
  <2> DEFINE d == Dumping[i - 1]
             r == [placeholder |-> order[i], entry |-> byPH[order[i]]]
             a == Dumping[i]
  <2>1. DumpedUpTo(i - 1, d) /\ a = DumpEntry(d, order[i])
    BY <1>1, <1>3, DumpingLoop
  <2>2. \A k \in 1..i : k = i \/ k \in 1..i - 1
    BY <1>1
  <2>3. CASE order[i] \notin DOMAIN byPH
    <3>1. a = d
      BY <2>1, <2>3 DEF DumpEntry
    <3>2. DumpedUpTo(i, d)
      BY <2>1, <2>2, <2>3 DEF DumpedUpTo
    <3> QED BY <1>1, <3>1, <3>2
  <2>4. CASE order[i] \in DOMAIN byPH
    <3>1. a = Append(d, r)
      BY <2>1, <2>4 DEF DumpEntry
    <3>2. r \in Record /\ r.placeholder = order[i] /\ r.entry = byPH[order[i]]
      BY <1>1, <2>4 DEF Record
    <3>3. d \in Seq(Record) /\ Len(d) \in Nat
      BY <2>1, LenProperties DEF DumpedUpTo
    <3> HIDE DEF r
    <3>4. /\ a \in Seq(Record) /\ Len(a) = Len(d) + 1
          /\ \A j \in 1..Len(d) : a[j] = d[j]
          /\ a[Len(d) + 1] = r
      BY <3>1, <3>2, <3>3, AppendProperties
    <3> HIDE DEF a, d
    <3>5. \A j \in 1..Len(a) : /\ a[j].placeholder \in DOMAIN byPH
                               /\ a[j].entry = byPH[a[j].placeholder]
      <4>1. \A j \in 1..Len(a) : j = Len(d) + 1 \/ j \in 1..Len(d)
        BY <3>3, <3>4
      <4> QED BY <2>1, <2>4, <3>2, <3>4, <4>1 DEF DumpedUpTo
    <3>6. \A k \in 1..i : order[k] \in DOMAIN byPH =>
                             \E j \in 1..Len(a) : a[j].placeholder = order[k]
      <4>1. Len(d) + 1 \in 1..Len(a) /\ \A j \in 1..Len(d) : j \in 1..Len(a)
        BY <3>3, <3>4
      <4> QED BY <2>1, <2>2, <3>2, <3>4, <4>1 DEF DumpedUpTo
    <3>7. DumpedUpTo(i, a)
      BY <3>4, <3>5, <3>6 DEF DumpedUpTo
    <3> QED BY <1>1, <3>7 DEF a
  <2> QED BY <2>3, <2>4
<1>4. n \in T
  <2> HIDE DEF T, n
  <2> QED BY <1>1, <1>2, <1>3, Along
<1> QED BY <1>4 DEF Dump

LEMMA DumpIsSaved ==
    ASSUME KeptInv
    PROVE  Saved(Dump)
<1>1. DumpedUpTo(Len(order), Dump)
  BY DumpFacts DEF KeptInv
<1>2. \A p \in DOMAIN byPH : byPH[p].id > 0
  BY DEF KeptInv, IDsIssued
<1> QED BY <1>1, <1>2 DEF DumpedUpTo, Saved, KeptInv, DistinctIDs

\* The entries that are read back are the live ones.
LEMMA EntriesReadBack ==
    ASSUME KeptInv
    PROVE  /\ Load(Dump).byPH = byPH
           /\ \A p \in DOMAIN byPH : byPH[p].id <= Load(Dump).nextID
<1> DEFINE d == Dump
           m == Load(d)
           n == Len(d)
<1>1. LoadedUpTo(d, n, m)
  BY DumpIsSaved, LoadFacts
<1>2. DumpedUpTo(Len(order), d)
  BY DumpFacts DEF KeptInv
<1> HIDE DEF d, m, n
<1>3. DOMAIN m.byPH = DOMAIN byPH
  <2>1. DOMAIN m.byPH \subseteq DOMAIN byPH
    BY <1>1, <1>2 DEF LoadedUpTo, DumpedUpTo, n
  <2>2. ASSUME NEW p \in DOMAIN byPH
        PROVE  p \in DOMAIN m.byPH
    <3>1. PICK k \in 1..Len(order) : order[k] = p
      <4>1. p \in Range(order) /\ DOMAIN order = 1..Len(order)
        BY LenProperties DEF KeptInv, Listing, TypeOK, LiveListed
      <4> QED BY <4>1 DEF Range
    <3>2. PICK j \in 1..Len(d) : d[j].placeholder = p
      BY <1>2, <3>1 DEF DumpedUpTo
    <3> QED BY <1>1, <3>2 DEF LoadedUpTo, n
  <2> QED BY <2>1, <2>2
<1>4. \A p \in DOMAIN byPH : \E j \in 1..n : d[j].placeholder = p
  BY <1>1, <1>3 DEF LoadedUpTo
<1>5. \A p \in DOMAIN byPH : m.byPH[p] = byPH[p] /\ byPH[p].id <= m.nextID
  <2>1. \A j \in 1..n : m.byPH[d[j].placeholder] = d[j].entry /\ d[j].entry.id <= m.nextID
    BY <1>1 DEF LoadedUpTo
  <2>2. \A j \in 1..n : d[j].entry = byPH[d[j].placeholder]
    BY <1>2 DEF DumpedUpTo, n
  <2> QED BY <1>4, <2>1, <2>2
<1>6. m.byPH \in [DOMAIN byPH -> Entry] /\ byPH \in [DOMAIN byPH -> Entry]
  BY <1>1, <1>3 DEF LoadedUpTo, KeptInv, Listing, TypeOK
<1>7. m.byPH = byPH
  BY <1>5, <1>6
<1> QED BY <1>5, <1>7 DEF m, d

-----------------------------------------------------------------------------
(***************************************************************************)
(* The vault and its file, used carefully.  What load makes of the first i entries of a    *)
(* file can be written down without the loop, if no placeholder and no     *)
(* value is in it twice and the IDs increase, as in whatever save wrote;   *)
(* so can what save makes of the first i placeholders of order.  That the  *)
(* loops arrive at it is shown from one iteration to the next.             *)
(***************************************************************************)
PlaceholdersUpTo(b, i) == {b[j].placeholder : j \in 1..i}
ValuesUpTo(b, i) == {b[j].entry.value : j \in 1..i}
WithPlaceholder(b, p) == CHOOSE j \in 1..Len(b) : b[j].placeholder = p
WithValue(b, v) == CHOOSE j \in 1..Len(b) : b[j].entry.value = v

UpTo(b, i) ==
    [byPH    |-> [p \in PlaceholdersUpTo(b, i) |-> b[WithPlaceholder(b, p)].entry],
     byValue |-> [v \in ValuesUpTo(b, i) |-> b[WithValue(b, v)].placeholder],
     order   |-> [j \in 1..i |-> b[j].placeholder],
     nextID  |-> IF i = 0 THEN 0 ELSE b[i].entry.id]

\* Two functions that agree at 0, and at i if they agree just before it, agree.
LEMMA SameAlong ==
    ASSUME NEW n \in Nat, NEW f, NEW g, f[0] = g[0],
           \A i \in 1..n : f[i - 1] = g[i - 1] => f[i] = g[i]
    PROVE  f[n] = g[n]
<1> DEFINE T == {i \in 0..n : f[i] = g[i]}
<1>1. 0 \in T /\ \A i \in 1..n : i - 1 \in T => i \in T
  OBVIOUS
<1>2. n \in T
  <2> HIDE DEF T
  <2> QED BY <1>1, Along
<1> QED BY <1>2

LEMMA AppendNext ==
    ASSUME NEW S, NEW s \in Seq(S), NEW t \in Seq(S), Len(t) = Len(s) + 1,
           \A j \in 1..Len(s) : s[j] = t[j]
    PROVE  Append(s, t[Len(t)]) = t
<1> DEFINE e == t[Len(s) + 1]
           a == Append(s, e)
<1>1. Len(s) \in Nat /\ e \in S
  BY LenProperties, ElementOfSeq
<1>2. /\ a \in Seq(S) /\ Len(a) = Len(s) + 1
      /\ \A i \in 1..Len(s) : a[i] = s[i]
      /\ a[Len(s) + 1] = e
  BY <1>1, AppendProperties
<1> HIDE DEF a
<1>3. \A i \in 1..Len(a) : a[i] = t[i]
  BY <1>1, <1>2
<1>4. a = t
  BY <1>2, <1>3, SeqEqual
<1> QED BY <1>4 DEF a

LEMMA WhereFacts ==
    ASSUME NEW b, InFile(b), NEW j \in 1..Len(b)
    PROVE  /\ WithPlaceholder(b, b[j].placeholder) = j
           /\ WithValue(b, b[j].entry.value) = j
<1>1. Len(b) \in Nat
  BY LenProperties DEF InFile
<1>2. \A i, k \in 1..Len(b) : i # k => i < k \/ k < i
  BY <1>1
<1>3. \A i \in 1..Len(b) : i # j => /\ b[i].placeholder # b[j].placeholder
                                    /\ b[i].entry.value # b[j].entry.value
  BY <1>2 DEF InFile
<1>4. WithPlaceholder(b, b[j].placeholder) = j
  BY <1>3 DEF WithPlaceholder
<1>5. WithValue(b, b[j].entry.value) = j
  BY <1>3 DEF WithValue
<1> QED BY <1>4, <1>5

LEMMA UpToNone == ASSUME NEW b PROVE UpTo(b, 0) = NewMaps
<1>1. PlaceholdersUpTo(b, 0) = {} /\ ValuesUpTo(b, 0) = {}
  BY DEF PlaceholdersUpTo, ValuesUpTo
<1>2. [j \in 1..0 |-> b[j].placeholder] = <<>>
  OBVIOUS
<1> QED BY <1>1, <1>2 DEF UpTo, NewMaps, Empty

\* One iteration of load's loop.
LEMMA UpToNext ==
    ASSUME NEW b, InFile(b), NEW i \in 1..Len(b)
    PROVE  LoadEntry(UpTo(b, i - 1), b[i]) = UpTo(b, i)
<1>1. /\ Len(b) \in Nat /\ i \in Nat /\ i - 1 \in Nat
      /\ i \notin 1..i - 1 /\ 1..i = (1..i - 1) \cup {i}
      /\ 1..i \subseteq 1..Len(b) /\ i # 0
  BY LenProperties DEF InFile
<1>2. /\ \A j \in 1..Len(b) : b[j].entry.id \in Nat /\ b[j].placeholder \in Placeholder
      /\ \A j \in 1..i - 1 : /\ b[j].placeholder # b[i].placeholder
                             /\ b[j].entry.value # b[i].entry.value
                             /\ b[j].entry.id < b[i].entry.id
  <2>1. \A j \in 1..Len(b) : b[j] \in Record
    BY ElementOfSeq DEF InFile
  <2>2. \A j \in 1..i - 1 : j \in 1..Len(b) /\ j < i
    BY <1>1
  <2> QED BY <2>1, <2>2 DEF InFile, Record, Entry
<1>3. WithPlaceholder(b, b[i].placeholder) = i /\ WithValue(b, b[i].entry.value) = i
  BY WhereFacts
<1> DEFINE m == UpTo(b, i - 1)
           l == LoadEntry(m, b[i])
<1>4. l.byPH = UpTo(b, i).byPH
  <2>1. l.byPH = Put(m.byPH, b[i].placeholder, b[i].entry)
    BY DEF LoadEntry
  <2>2. m.byPH = [p \in PlaceholdersUpTo(b, i - 1) |-> b[WithPlaceholder(b, p)].entry]
    BY DEF UpTo
  <2>3. PlaceholdersUpTo(b, i) = PlaceholdersUpTo(b, i - 1) \cup {b[i].placeholder}
    BY <1>1 DEF PlaceholdersUpTo
  <2>4. b[i].placeholder \notin PlaceholdersUpTo(b, i - 1)
    BY <1>2 DEF PlaceholdersUpTo
  <2>5. UpTo(b, i).byPH = [p \in PlaceholdersUpTo(b, i) |-> b[WithPlaceholder(b, p)].entry]
    BY DEF UpTo
  <2> HIDE DEF l, m
  <2> QED BY <1>3, <2>1, <2>2, <2>3, <2>4, <2>5 DEF Put
<1>5. l.byValue = UpTo(b, i).byValue
  <2>1. l.byValue = Put(m.byValue, b[i].entry.value, b[i].placeholder)
    BY DEF LoadEntry, Indexed
  <2>2. m.byValue = [v \in ValuesUpTo(b, i - 1) |-> b[WithValue(b, v)].placeholder]
    BY DEF UpTo
  <2>3. ValuesUpTo(b, i) = ValuesUpTo(b, i - 1) \cup {b[i].entry.value}
    BY <1>1 DEF ValuesUpTo
  <2>4. b[i].entry.value \notin ValuesUpTo(b, i - 1)
    BY <1>2 DEF ValuesUpTo
  <2>5. UpTo(b, i).byValue = [v \in ValuesUpTo(b, i) |-> b[WithValue(b, v)].placeholder]
    BY DEF UpTo
  <2> HIDE DEF l, m
  <2> QED BY <1>3, <2>1, <2>2, <2>3, <2>4, <2>5 DEF Put
<1>6. l.order = UpTo(b, i).order
  <2> DEFINE s == [j \in 1..i - 1 |-> b[j].placeholder]
             t == [j \in 1..i |-> b[j].placeholder]
  <2>1. s \in Seq(Placeholder) /\ Len(s) = i - 1 /\ t \in Seq(Placeholder) /\ Len(t) = i
    BY <1>1, <1>2
  <2>2. (\A j \in 1..i - 1 : s[j] = t[j]) /\ t[i] = b[i].placeholder
    BY <1>1
  <2>3. l.order = Append(s, b[i].placeholder) /\ UpTo(b, i).order = t
    BY DEF LoadEntry, UpTo
  <2> HIDE DEF s, t, l
  <2>4. Append(s, t[i]) = t
    BY <1>1, <2>1, <2>2, AppendNext
  <2> QED BY <2>2, <2>3, <2>4
<1>7. l.nextID = UpTo(b, i).nextID
  <2>1. l.nextID = Bump(m.nextID, b[i].entry)
    BY DEF LoadEntry
  <2>2. m.nextID = IF i - 1 = 0 THEN 0 ELSE b[i - 1].entry.id
    BY DEF UpTo
  <2>3. UpTo(b, i).nextID = b[i].entry.id
    BY <1>1 DEF UpTo
  <2> HIDE DEF l, m
  <2>4. m.nextID < b[i].entry.id /\ m.nextID \in Nat /\ b[i].entry.id \in Nat
    <3>1. CASE i - 1 = 0
      BY <1>2, <2>2, <3>1 DEF InFile
    <3>2. CASE i - 1 # 0
      <4>1. i - 1 \in 1..i - 1 /\ i - 1 \in 1..Len(b)
        BY <1>1, <3>2
      <4> QED BY <1>2, <2>2, <3>2, <4>1
    <3> QED BY <3>1, <3>2
  <2> QED BY <2>1, <2>3, <2>4 DEF Bump
<1>8. l = [byPH |-> l.byPH, byValue |-> l.byValue, order |-> l.order, nextID |-> l.nextID]
  BY DEF LoadEntry
<1>9. UpTo(b, i) = [byPH |-> UpTo(b, i).byPH, byValue |-> UpTo(b, i).byValue,
                    order |-> UpTo(b, i).order, nextID |-> UpTo(b, i).nextID]
  BY DEF UpTo
<1> HIDE DEF l
<1>10. l = UpTo(b, i)
  BY <1>4, <1>5, <1>6, <1>7, <1>8, <1>9
<1> QED BY <1>10 DEF l, m

LEMMA LoadIs ==
    ASSUME NEW b, InFile(b)
    PROVE  Load(b) = UpTo(b, Len(b))
<1> DEFINE n == Len(b)
           f == Loading(b)
           g == [i \in 0..n |-> UpTo(b, i)]
<1>1. n \in Nat
  BY LenProperties DEF InFile
<1>2. f[0] = NewMaps /\ \A i \in 1..n : f[i] = LoadEntry(f[i - 1], b[i])
  BY <1>1, LoadingLoop
<1>3. /\ g[0] = NewMaps
      /\ \A i \in 1..n : /\ i \in 0..n /\ i - 1 \in 0..n
                         /\ g[i] = LoadEntry(g[i - 1], b[i])
  BY <1>1, UpToNone, UpToNext
<1>4. f[n] = g[n]
  <2> HIDE DEF f, g, n
  <2> QED BY <1>1, <1>2, <1>3, SameAlong
<1> QED BY <1>1, <1>4 DEF Load

\* What save writes of a vault that is used carefully: all its entries.
Written(i) == [j \in 1..i |-> [placeholder |-> order[j], entry |-> byPH[order[j]]]]

LEMMA WrittenFacts ==
    ASSUME CarefulInv
    PROVE  /\ Len(order) \in Nat /\ DOMAIN order = 1..Len(order)
           /\ \A j \in 1..Len(order) : order[j] \in DOMAIN byPH
           /\ \A i \in 0..Len(order) : Written(i) \in Seq(Record) /\ Len(Written(i)) = i
           /\ Written(0) = <<>>
           /\ InFile(Written(Len(order)))
<1>1. /\ order \in Seq(Placeholder) /\ byPH \in [DOMAIN byPH -> Entry]
      /\ DOMAIN byPH \subseteq Placeholder
  BY DEF CarefulInv, Listing, TypeOK
<1>2. Len(order) \in Nat /\ DOMAIN order = 1..Len(order)
  BY <1>1, LenProperties
<1>3. \A j \in 1..Len(order) : order[j] \in DOMAIN byPH
  BY <1>2 DEF CarefulInv, Coherent, ListExact, Range
<1>4. \A j \in 1..Len(order) : [placeholder |-> order[j], entry |-> byPH[order[j]]] \in Record
  BY <1>1, <1>3 DEF Record
<1>5. \A i \in 0..Len(order) : Written(i) \in Seq(Record) /\ Len(Written(i)) = i
  BY <1>2, <1>4 DEF Written
<1>6. Written(0) = <<>>
  BY DEF Written
<1> DEFINE b == Written(Len(order))
<1>7. b \in Seq(Record) /\ Len(b) = Len(order)
      /\ \A j \in 1..Len(b) : b[j].placeholder = order[j] /\ b[j].entry = byPH[order[j]]
  <2>1. b \in Seq(Record) /\ Len(b) = Len(order)
    BY <1>2, <1>5
  <2> QED BY <2>1 DEF Written
<1> HIDE DEF b
<1>8. \A j \in 1..Len(order) : byPH[order[j]].id > 0
  BY <1>3 DEF CarefulInv, Coherent, IDsIssued
<1>9. ASSUME NEW i \in 1..Len(order), NEW j \in 1..Len(order), i < j
      PROVE  /\ order[i] # order[j] /\ byPH[order[i]].value # byPH[order[j]].value
             /\ byPH[order[i]].id < byPH[order[j]].id
  <2>1. order[i] # order[j] /\ byPH[order[i]].id < byPH[order[j]].id
    BY <1>2, <1>3, <1>9 DEF CarefulInv, Coherent, ListOrdered
  <2>2. /\ byValue[byPH[order[i]].value] = order[i]
        /\ byValue[byPH[order[j]].value] = order[j]
    BY <1>3 DEF CarefulInv, Coherent, Inverse2Way
  <2> QED BY <2>1, <2>2
<1>10. InFile(b)
  BY <1>7, <1>8, <1>9 DEF InFile
<1> QED BY <1>2, <1>3, <1>5, <1>6, <1>10 DEF b

LEMMA DumpIs ==
    ASSUME CarefulInv
    PROVE  Dump = Written(Len(order))
<1> DEFINE n == Len(order)
           f == Dumping
           g == [i \in 0..n |-> Written(i)]
<1>1. n \in Nat
  BY WrittenFacts
<1>2. ASSUME NEW i \in 1..n
      PROVE  DumpEntry(Written(i - 1), order[i]) = Written(i)
  <2>1. /\ i - 1 \in 0..n /\ i \in 0..n /\ i - 1 \in Nat
    BY <1>1
  <2>2. /\ Written(i - 1) \in Seq(Record) /\ Len(Written(i - 1)) = i - 1
        /\ Written(i) \in Seq(Record) /\ Len(Written(i)) = i
        /\ order[i] \in DOMAIN byPH
    BY <2>1, WrittenFacts
  <2>3. \A j \in 1..i - 1 : Written(i - 1)[j] = Written(i)[j]
    BY <2>1 DEF Written
  <2>4. Written(i)[i] = [placeholder |-> order[i], entry |-> byPH[order[i]]]
    BY <2>1 DEF Written
  <2>5. Append(Written(i - 1), Written(i)[i]) = Written(i)
    <3>1. Len(Written(i)) = Len(Written(i - 1)) + 1
      BY <2>1, <2>2
    <3> QED BY <2>2, <2>3, <3>1, AppendNext
  <2> QED BY <2>2, <2>4, <2>5 DEF DumpEntry
<1>3. f[0] = <<>> /\ \A i \in 1..n : f[i] = DumpEntry(f[i - 1], order[i])
  BY <1>1, DumpingLoop
<1>4. g[0] = <<>> /\ \A i \in 1..n : g[i] = DumpEntry(g[i - 1], order[i])
  <2>1. \A i \in 1..n : i \in 0..n /\ i - 1 \in 0..n
    BY <1>1
  <2> QED BY <1>1, <1>2, <2>1, WrittenFacts
<1>5. f[n] = g[n]
  <2> HIDE DEF f, g, n
  <2> QED BY <1>1, <1>3, <1>4, SameAlong
<1> QED BY <1>1, <1>5 DEF Dump

\* What load reads back is what was written.
LEMMA ReadsBack ==
    ASSUME CarefulInv
    PROVE  LET m == Load(Dump)
           IN  m.byPH = byPH /\ m.byValue = byValue /\ m.order = order
<1> DEFINE n == Len(order)
           b == Written(n)
           m == UpTo(b, n)
<1>1. Load(Dump) = m
  BY DumpIs, LoadIs, WrittenFacts
<1>2. /\ n \in Nat /\ DOMAIN order = 1..n /\ Len(b) = n /\ InFile(b)
      /\ \A j \in 1..n : order[j] \in DOMAIN byPH
  BY WrittenFacts
<1>3. \A j \in 1..n : b[j].placeholder = order[j] /\ b[j].entry = byPH[order[j]]
  BY DEF Written
<1> HIDE DEF b, n
<1>4. \A j \in 1..n : /\ WithPlaceholder(b, order[j]) = j
                      /\ WithValue(b, byPH[order[j]].value) = j
  BY <1>2, <1>3, WhereFacts
<1>5. /\ byPH \in [DOMAIN byPH -> Entry] /\ byValue \in [DOMAIN byValue -> Placeholder]
      /\ order \in Seq(Placeholder)
  BY DEF CarefulInv, Listing, TypeOK
<1>6. \A p \in DOMAIN byPH : \E j \in 1..n : order[j] = p
  BY <1>2 DEF CarefulInv, Coherent, ListExact, Range
<1>7. m.byPH = byPH
  <2>1. m.byPH = [p \in PlaceholdersUpTo(b, n) |-> b[WithPlaceholder(b, p)].entry]
    BY DEF UpTo
  <2>2. PlaceholdersUpTo(b, n) = DOMAIN byPH
    <3>1. PlaceholdersUpTo(b, n) = {order[j] : j \in 1..n}
      BY <1>3 DEF PlaceholdersUpTo
    <3> QED BY <1>2, <1>6, <3>1
  <2>3. \A p \in DOMAIN byPH : b[WithPlaceholder(b, p)].entry = byPH[p]
    BY <1>3, <1>4, <1>6
  <2> HIDE DEF m
  <2> QED BY <1>5, <2>1, <2>2, <2>3
<1>8. m.byValue = byValue
  <2>1. m.byValue = [v \in ValuesUpTo(b, n) |-> b[WithValue(b, v)].placeholder]
    BY DEF UpTo
  <2>2. \A v \in DOMAIN byValue : \E j \in 1..n : order[j] = byValue[v] /\ byPH[order[j]].value = v
    BY <1>6 DEF CarefulInv, Coherent, Inverse2Way
  <2>3. \A j \in 1..n : byPH[order[j]].value \in DOMAIN byValue
    BY <1>2 DEF CarefulInv, Coherent, Inverse2Way
  <2>4. ValuesUpTo(b, n) = DOMAIN byValue
    <3>1. ValuesUpTo(b, n) = {byPH[order[j]].value : j \in 1..n}
      BY <1>3 DEF ValuesUpTo
    <3> QED BY <2>2, <2>3, <3>1
  <2>5. \A v \in DOMAIN byValue : b[WithValue(b, v)].placeholder = byValue[v]
    BY <1>3, <1>4, <2>2
  <2> HIDE DEF m
  <2> QED BY <1>5, <2>1, <2>4, <2>5
<1>9. m.order = order
  <2>1. m.order = [j \in 1..n |-> b[j].placeholder]
    BY DEF UpTo
  <2> HIDE DEF m
  <2> QED BY <1>2, <1>3, <1>5, <2>1
<1> HIDE DEF m
<1> QED BY <1>1, <1>7, <1>8, <1>9

-----------------------------------------------------------------------------
(***************************************************************************)
(* A vault that is saved, closed, killed and opened again.  However it is  *)
(* used, the file is one load reads the entries of; as long as it is used  *)
(* carefully, the vault is coherent and the file clean.  A closed vault is *)
(* empty, so that no entry is replaced when one is opened.                 *)
(***************************************************************************)
ReloadInv ==
    /\ KeptInv
    /\ Saved(blob)
    /\ ~careless => Coherent /\ NoPanic /\ InFile(blob)
    /\ closed => DOMAIN byPH = {} /\ DOMAIN byValue = {}

LEMMA OpenCareful ==
    ASSUME InFile(blob), Open
    PROVE  CarefulInv'
<1> DEFINE b == blob
           n == Len(blob)
           m == UpTo(b, n)
<1>1. InFile(b) /\ b \in Seq(Record) /\ n \in Nat /\ n = Len(b)
  BY LenProperties DEF InFile
<1>2. /\ byPH' = m.byPH /\ byValue' = m.byValue /\ order' = m.order /\ nextID' = m.nextID
      /\ closed' = FALSE /\ panicked' = FALSE
  BY <1>1, LoadIs DEF Open
<1>3. /\ byPH' = [p \in PlaceholdersUpTo(b, n) |-> b[WithPlaceholder(b, p)].entry]
      /\ byValue' = [v \in ValuesUpTo(b, n) |-> b[WithValue(b, v)].placeholder]
      /\ order' = [j \in 1..n |-> b[j].placeholder]
      /\ nextID' = IF n = 0 THEN 0 ELSE b[n].entry.id
  BY <1>2 DEF UpTo
<1> HIDE DEF m, n, b
<1>4. \A j \in 1..n : /\ b[j].placeholder \in Placeholder /\ b[j].entry \in Entry
                      /\ b[j].entry.value \in Secret /\ b[j].entry.id \in Nat
                      /\ b[j].entry.id > 0
                      /\ WithPlaceholder(b, b[j].placeholder) = j
                      /\ WithValue(b, b[j].entry.value) = j
  <2>1. \A j \in 1..n : b[j] \in Record
    BY <1>1, ElementOfSeq
  <2>2. \A j \in 1..n : /\ WithPlaceholder(b, b[j].placeholder) = j
                        /\ WithValue(b, b[j].entry.value) = j
    BY <1>1, WhereFacts
  <2>3. \A j \in 1..n : b[j].entry.id > 0
    BY <1>1 DEF InFile
  <2> QED BY <2>1, <2>2, <2>3 DEF Record, Entry
<1>5. /\ DOMAIN byPH' = PlaceholdersUpTo(b, n) /\ DOMAIN byValue' = ValuesUpTo(b, n)
      /\ DOMAIN order' = 1..n
      /\ \A j \in 1..n : /\ byPH'[b[j].placeholder] = b[j].entry
                         /\ byValue'[b[j].entry.value] = b[j].placeholder
                         /\ order'[j] = b[j].placeholder
  <2>1. \A j \in 1..n : /\ b[j].placeholder \in PlaceholdersUpTo(b, n)
                        /\ b[j].entry.value \in ValuesUpTo(b, n)
    BY DEF PlaceholdersUpTo, ValuesUpTo
  <2> QED BY <1>3, <1>4, <2>1
<1>6. /\ \A p \in DOMAIN byPH' : \E j \in 1..n : p = b[j].placeholder
      /\ \A v \in DOMAIN byValue' : \E j \in 1..n : v = b[j].entry.value
  BY <1>5 DEF PlaceholdersUpTo, ValuesUpTo
<1>7. nextID' \in Nat /\ \A j \in 1..n : b[j].entry.id \in 1..nextID'
  <2>1. CASE n = 0
    BY <1>3, <2>1
  <2>2. CASE n # 0
    <3>1. nextID' = b[n].entry.id /\ n \in 1..n
      BY <1>1, <1>3, <2>2
    <3>2. \A j \in 1..n : j < n \/ j = n
      BY <1>1
    <3>3. \A j \in 1..n : j < n => b[j].entry.id < b[n].entry.id
      BY <1>1, <3>1 DEF InFile
    <3> QED BY <1>4, <3>1, <3>2, <3>3
  <2> QED BY <2>1, <2>2
<1>8. TypeOK'
  <2>1. DOMAIN byPH' \subseteq Placeholder /\ byPH' \in [DOMAIN byPH' -> Entry]
    <3>1. \A p \in DOMAIN byPH' : p \in Placeholder /\ byPH'[p] \in Entry
      BY <1>4, <1>5, <1>6
    <3>2. byPH' = [p \in DOMAIN byPH' |-> byPH'[p]]
      BY <1>3
    <3> QED BY <3>1, <3>2
  <2>2. DOMAIN byValue' \subseteq Secret /\ byValue' \in [DOMAIN byValue' -> Placeholder]
    <3>1. \A v \in DOMAIN byValue' : v \in Secret /\ byValue'[v] \in Placeholder
      BY <1>4, <1>5, <1>6
    <3>2. byValue' = [v \in DOMAIN byValue' |-> byValue'[v]]
      BY <1>3
    <3> QED BY <3>1, <3>2
  <2>3. order' \in Seq(Placeholder)
    BY <1>1, <1>3, <1>4
  <2> QED BY <1>2, <1>7, <2>1, <2>2, <2>3 DEF TypeOK
<1>9. Range(order') = DOMAIN byPH'
  <2>1. \A j \in 1..n : order'[j] \in DOMAIN byPH'
    BY <1>5 DEF PlaceholdersUpTo
  <2>2. \A p \in DOMAIN byPH' : \E j \in 1..n : order'[j] = p
    BY <1>5, <1>6
  <2>3. Range(order') = {order'[j] : j \in 1..n}
    BY <1>5 DEF Range
  <2> QED BY <2>1, <2>2, <2>3
<1>10. Inverse2Way'
  BY <1>5, <1>6 DEF Inverse2Way, PlaceholdersUpTo, ValuesUpTo
<1>11. IDsIssued'
  BY <1>5, <1>6, <1>7 DEF IDsIssued
<1>12. ListOrdered'
  <2>1. \A i, j \in 1..n : i < j => /\ b[i].placeholder # b[j].placeholder
                                    /\ b[i].entry.id < b[j].entry.id
    BY <1>1 DEF InFile
  <2> QED BY <1>5, <2>1 DEF ListOrdered
<1> QED BY <1>2, <1>8, <1>9, <1>10, <1>11, <1>12
        DEF CarefulInv, Listing, LiveListed, Coherent, ListExact, NoPanic

\* Opening any file save can have written.
LEMMA OpenKept ==
    ASSUME Saved(blob), Open
    PROVE  KeptInv'
<1> DEFINE b == blob
           n == Len(blob)
           m == Load(b)
<1>1. LoadedUpTo(b, n, m) /\ Saved(b)
  BY LoadFacts
<1>2. /\ byPH' = m.byPH /\ byValue' = m.byValue /\ order' = m.order /\ nextID' = m.nextID
      /\ closed' = FALSE /\ panicked' = FALSE
  BY DEF Open
<1>3. n \in Nat /\ \A j \in 1..n : b[j] \in Record
  BY <1>1, LenProperties, ElementOfSeq DEF Saved
<1> HIDE DEF m, b, n
<1>4. DOMAIN byPH' \subseteq Placeholder
  BY <1>1, <1>2, <1>3 DEF LoadedUpTo, Record
<1>5. Listing'
  BY <1>1, <1>2, <1>4 DEF LoadedUpTo, Listing, TypeOK, LiveListed
<1>6. \A p \in DOMAIN byPH' : \E j \in 1..n : b[j].placeholder = p /\ byPH'[p] = b[j].entry
  BY <1>1, <1>2 DEF LoadedUpTo
<1>7. \A j \in 1..n : b[j].entry.id \in 1..nextID'
  <2>1. \A j \in 1..n : b[j].entry.id \in Nat /\ b[j].entry.id > 0 /\ b[j].entry.id <= nextID'
    BY <1>1, <1>2, <1>3 DEF LoadedUpTo, Saved, Record, Entry, n, b
  <2>2. nextID' \in Nat
    BY <1>1, <1>2 DEF LoadedUpTo
  <2> QED BY <2>1, <2>2
<1>8. IDsIssued'
  BY <1>6, <1>7 DEF IDsIssued
<1>9. DistinctIDs'
  <2>1. \A i, j \in 1..n : b[i].placeholder # b[j].placeholder => b[i].entry.id # b[j].entry.id
    BY <1>1 DEF Saved, n, b
  <2> QED BY <1>6, <2>1 DEF DistinctIDs
<1> QED BY <1>5, <1>8, <1>9 DEF KeptInv

LEMMA CleanKept ==
    ASSUME KeptInv, Coherent, NoPanic
    PROVE  CarefulInv
BY DEF KeptInv, CarefulInv

LEMMA InitReload == ReloadInit => ReloadInv
<1> SUFFICES ASSUME ReloadInit
             PROVE  ReloadInv
  OBVIOUS
<1>1. /\ byPH = Empty /\ byValue = Empty /\ order = <<>> /\ nextID = 0
      /\ closed \in BOOLEAN /\ panicked = FALSE
  BY DEF ReloadInit, Init
<1>2. DOMAIN byPH = {} /\ DOMAIN byValue = {} /\ DOMAIN order = {} /\ Range(order) = {}
      /\ order \in Seq(Placeholder)
  BY <1>1, EmptyFacts, EmptySeq DEF Range
<1>3. Listing
  BY <1>1, <1>2, EmptyFacts DEF Listing, TypeOK, LiveListed
<1>4. KeptInv /\ Coherent /\ NoPanic
  BY <1>1, <1>2, <1>3
     DEF KeptInv, DistinctIDs, Coherent, Inverse2Way, ListExact, ListOrdered, IDsIssued, NoPanic
<1>5. InFile(blob)
  <2>1. CASE blob = <<>>
    <3>1. blob \in Seq(Record) /\ Len(blob) = 0
      BY <2>1, EmptySeq
    <3> QED BY <3>1 DEF InFile
  <2>2. CASE blob \in Legacy
    BY <2>2, LegacyAssumption
  <2> QED BY <2>1, <2>2 DEF ReloadInit
<1> QED BY <1>2, <1>4, <1>5, CleanIsSaved DEF ReloadInv

\* A closed vault has no entry, and closed it stays until it is opened again.
LEMMA ClosedStays ==
    ASSUME ReloadInv, Use
    PROVE  /\ closed' = closed
           /\ closed => DOMAIN byPH' = DOMAIN byPH /\ DOMAIN byValue' = DOMAIN byValue
<1>1. closed => DOMAIN byPH = {}
  BY DEF ReloadInv
<1> QED
  BY <1>1 DEF Use, Housekeeping, Register, RegisterKnown, RegisterDangling, RegisterNew,
              Rotate, Bind, Unbind, SetStatus, Delete, MarkUse, ListDangling, Running

LEMMA UseReload ==
    ASSUME ReloadInv, Use, UNCHANGED blob
    PROVE  ReloadInv'
<1>1. KeptInv'
  BY RegisterKept, RotateKept, HousekeepingKept DEF Use, ReloadInv
<1>2. ASSUME ~careless'
      PROVE  Coherent' /\ NoPanic'
  <2>1. CASE Housekeeping /\ UNCHANGED careless
    <3>1. CarefulInv
      BY <1>2, <2>1, CleanKept DEF ReloadInv
    <3> QED BY <2>1, <3>1, HousekeepingCareful DEF CarefulInv
  <2>2. ASSUME NEW v \in Secret, NEW hs \in SUBSET Pattern,
               Register(v, hs), careless' = (careless \/ ~SlotFree(v))
        PROVE  Coherent' /\ NoPanic'
    <3>1. CarefulInv /\ SlotFree(v)
      BY <1>2, <2>2, CleanKept DEF ReloadInv
    <3> QED BY <2>2, <3>1, RegisterCareful DEF CarefulInv
  <2>3. ASSUME NEW p \in Placeholder, NEW v \in Secret,
               Rotate(p, v), careless' = (careless \/ ~ValueFree(p, v))
        PROVE  Coherent' /\ NoPanic'
    <3>1. CarefulInv /\ ValueFree(p, v)
      BY <1>2, <2>3, CleanKept DEF ReloadInv
    <3> QED BY <2>3, <3>1, RotateCareful DEF CarefulInv
  <2> QED BY <2>1, <2>2, <2>3 DEF Use
<1>3. careless => careless'
  BY DEF Use
<1>4. Saved(blob') /\ (~careless' => InFile(blob'))
  BY <1>3 DEF ReloadInv
<1> QED BY <1>1, <1>2, <1>4, ClosedStays DEF ReloadInv

LEMMA NextReload == ReloadInv /\ [ReloadNext]_rvars => ReloadInv'
<1> SUFFICES ASSUME ReloadInv, [ReloadNext]_rvars
             PROVE  ReloadInv'
  OBVIOUS
<1>0. /\ KeptInv /\ Saved(blob) /\ Saved(Dump)
      /\ ~careless => CarefulInv /\ InFile(blob) /\ InFile(Dump)
  BY DumpIsSaved, DumpIs, WrittenFacts, CleanKept DEF ReloadInv
<1>1. CASE Use /\ UNCHANGED blob
  BY <1>1, UseReload
<1>2. CASE Save \/ UNCHANGED rvars
  <2>1. UNCHANGED <<vars, careless>> /\ blob' \in {blob, Dump}
    BY <1>2 DEF Save, rvars, vars
  <2>2. Saved(blob') /\ (~careless' => InFile(blob'))
    BY <1>0, <2>1
  <2>3. KeptInv' /\ (~careless' => Coherent' /\ NoPanic')
    BY <2>1 DEF ReloadInv, vars, KeptInv, Listing, TypeOK, LiveListed, IDsIssued, DistinctIDs,
                Coherent, Inverse2Way, ListExact, ListOrdered, NoPanic
  <2> QED BY <2>1, <2>2, <2>3 DEF ReloadInv, vars
<1>3. CASE SaveAndClose \/ Crash
  <2>1. Emptied /\ UNCHANGED <<panicked, careless>> /\ blob' \in {blob, Dump}
    BY <1>3 DEF SaveAndClose, Crash, Close
  <2>2. Saved(blob') /\ (~careless' => InFile(blob'))
    BY <1>0, <2>1
  <2>3. KeptInv' /\ DOMAIN byPH' = {} /\ DOMAIN byValue' = {}
    BY <1>0, <2>1, EmptiedKept, EmptyFacts DEF Emptied, KeptInv, Listing, TypeOK
  <2>4. ~careless' => CarefulInv'
    BY <1>0, <2>1, CloseCareful
  <2> QED BY <2>2, <2>3, <2>4 DEF ReloadInv, CarefulInv
<1>4. CASE Open
  <2>1. UNCHANGED <<blob, careless>> /\ closed' = FALSE
    BY <1>4 DEF Open
  <2>2. KeptInv'
    BY <1>0, <1>4, OpenKept
  <2>3. ~careless => CarefulInv'
    BY <1>0, <1>4, OpenCareful
  <2>4. Saved(blob') /\ (~careless' => InFile(blob'))
    BY <1>0, <2>1
  <2> QED BY <2>1, <2>2, <2>3, <2>4 DEF ReloadInv, CarefulInv
<1> QED BY <1>1, <1>2, <1>3, <1>4 DEF ReloadNext

\* Through any use of the vault and any sequence of saves, restarts and
\* crashes that fall back to whatever was saved last, the containers hold what
\* their Go types and the operations allow.
THEOREM ReloadTypes == ReloadSpec => []TypeOK
<1>1. ReloadInv => TypeOK
  BY DEF ReloadInv, KeptInv, Listing
<1> QED BY <1>1, InitReload, NextReload, PTL DEF ReloadSpec

\* As long as it is used carefully, and through any sequence of saves, restarts
\* and crashes, the vault stays one bijection, free of dangling placeholders.
THEOREM ReloadCoherent == ReloadSpec => []CoherentIfCareful
<1>1. ReloadInv => CoherentIfCareful
  BY DEF ReloadInv, CoherentIfCareful
<1> QED BY <1>1, InitReload, NextReload, PTL DEF ReloadSpec

\* However the vault is used, with collisions and replaced entries, and through
\* any sequence of restarts, no live entry is out of save's reach and no two
\* have one ID, nor has any the ID that is issued next.
THEOREM NoEntryLost == ReloadSpec => []EntriesKept
<1>1. ReloadInv => EntriesKept
  BY DEF ReloadInv, KeptInv, Listing, EntriesKept
<1> QED BY <1>1, InitReload, NextReload, PTL DEF ReloadSpec

\* What save writes and load reads back is every entry of the vault, however
\* it was used, and of a vault that was used carefully the index and the
\* listing order as well.
THEOREM SavedIsLoaded == ReloadSpec => []RoundTrip
<1>1. ReloadInv => RoundTrip
  <2> SUFFICES ASSUME ReloadInv
               PROVE  RoundTrip
    OBVIOUS
  <2>1. KeptInv /\ (~careless => CarefulInv)
    BY CleanKept DEF ReloadInv
  <2> QED BY <2>1, EntriesReadBack, ReadsBack DEF RoundTrip
<1> QED BY <1>1, InitReload, NextReload, PTL DEF ReloadSpec
=============================================================================
