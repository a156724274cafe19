---------------------------- MODULE DaemonProofs ----------------------------
(***************************************************************************)
(* What a scan replaces, for any number of concurrent scans and requests,  *)
(* any vault and any sharing of the detector: with AutoRegister, every     *)
(* secret recognised by its shape; on its own, every active value; and the *)
(* token that stands for a secret never resolves to another one.           *)
(***************************************************************************)
EXTENDS Daemon, VaultProofs

\* The inductive invariant.  Until it is resolved, a patterned secret of the
\* text has its match in todo; afterwards it has a placeholder.
Pending ==
    \A h \in Scanner : phase[h] = "scanned" /\ request[h].auto /\ ~closed =>
        \A s \in request[h].text \cap Patterned :
            <<"regex", s>> \in todo[h] \/ tokens[h][s] # {}

ScanTypes ==
    /\ phase = [h \in Scanner |-> phase[h]]
    /\ request \in [Scanner -> [text : SUBSET Secret, auto : BOOLEAN]]
    /\ todo = [h \in Scanner |-> todo[h]]
    /\ tokens \in [Scanner -> [Secret -> SUBSET Placeholder]]
    /\ answer = [h \in Scanner |-> answer[h]]

MaskInv == Listing /\ ScanTypes /\ Pending /\ PatternedMasked

-----------------------------------------------------------------------------
\* No operation of the vault opens it again.
LEMMA StaysClosed ==
    ASSUME \/ \E v \in Secret, hs \in SUBSET Pattern : Register(v, hs)
           \/ \E p \in Placeholder, v \in Secret : Rotate(p, v)
           \/ Housekeeping
           \/ Close
    PROVE  ~closed' => ~closed
BY DEF Register, RegisterKnown, RegisterDangling, RegisterNew, Rotate, Housekeeping,
       Bind, Unbind, SetStatus, Delete, MarkUse, ListDangling, Close, Emptied

LEMMA MarkUseListing ==
    ASSUME Listing, NEW p \in Placeholder, MarkUse(p)
    PROVE  Listing' /\ closed' = closed
<1>1. Housekeeping
  BY DEF Housekeeping
<1> QED BY <1>1, HousekeepingListing DEF MarkUse

LEMMA SameListing ==
    ASSUME Listing, UNCHANGED vars
    PROVE  Listing' /\ closed' = closed
BY DEF Listing, TypeOK, LiveListed, vars

\* What a scan has found out, and what it has answered, survive a step that
\* leaves the scans alone.
LEMMA SameScans ==
    ASSUME ScanTypes, Pending, PatternedMasked, UNCHANGED scanVars, ~closed' => ~closed
    PROVE  ScanTypes' /\ Pending' /\ PatternedMasked'
BY DEF ScanTypes, Pending, PatternedMasked, Answered, scanVars

\* A match that is resolved to some placeholder, or is not a pattern match, or
\* belongs to a request that registers nothing, leaves nothing unmasked.
LEMMA ResolvedMasks ==
    ASSUME MaskInv, NEW h \in Scanner, NEW e, NEW s \in Secret,
           NEW ps \in SUBSET Placeholder, Resolved(h, <<e, s>>, ps),
           ~closed' => ~closed,
           e = "regex" /\ request[h].auto /\ ~closed => ps # {}
    PROVE  ScanTypes' /\ Pending' /\ PatternedMasked'
<1> USE DEF MaskInv, ScanTypes, Resolved
<1>1. ScanTypes'
  <2>1. tokens[h][s] \cup ps \in SUBSET Placeholder
    OBVIOUS
  <2>2. tokens' = [tokens EXCEPT ![h][s] = tokens[h][s] \cup ps]
    OBVIOUS
  <2>3. tokens' \in [Scanner -> [Secret -> SUBSET Placeholder]]
    <3>1. [tokens[h] EXCEPT ![s] = tokens[h][s] \cup ps] \in [Secret -> SUBSET Placeholder]
      BY <2>1
    <3>2. tokens' = [tokens EXCEPT ![h] = [tokens[h] EXCEPT ![s] = tokens[h][s] \cup ps]]
      BY <2>2
    <3> QED BY <3>1, <3>2
  <2>4. todo' = [g \in Scanner |-> todo'[g]]
    OBVIOUS
  <2>5. UNCHANGED <<phase, request, answer>>
    OBVIOUS
  <2> QED BY <2>3, <2>4, <2>5
<1>2. Pending'
  <2> SUFFICES ASSUME NEW g \in Scanner, phase'[g] = "scanned", request'[g].auto, ~closed',
                      NEW x \in request'[g].text \cap Patterned
               PROVE  <<"regex", x>> \in todo'[g] \/ tokens'[g][x] # {}
    BY DEF Pending
  <2>1. x \in Secret /\ (<<"regex", x>> \in todo[g] \/ tokens[g][x] # {})
    BY DEF Pending
  <2>2. CASE g # h
    BY <2>1, <2>2
  <2>3. CASE g = h /\ x = s /\ e = "regex"
    BY <2>3
  <2>4. CASE g = h /\ <<"regex", x>> # <<e, s>>
    <3>1. tokens[g][x] \subseteq tokens'[g][x]
      BY <2>1, <2>4
    <3>2. <<"regex", x>> \in todo[g] => <<"regex", x>> \in todo'[g]
      BY <2>4
    <3> QED BY <2>1, <3>1, <3>2
  <2> QED BY <2>2, <2>3, <2>4
<1>3. PatternedMasked'
  BY DEF PatternedMasked, Answered
<1> QED BY <1>1, <1>2, <1>3

-----------------------------------------------------------------------------
LEMMA MaskInit == DaemonInit => MaskInv
<1> SUFFICES ASSUME DaemonInit
             PROVE  MaskInv
  OBVIOUS
<1>1. Listing
  BY InitListing DEF DaemonInit
<1> QED BY <1>1 DEF DaemonInit, Init, Idle, MaskInv, ScanTypes, Pending, PatternedMasked, Answered

LEMMA ScanStepMasks ==
    ASSUME MaskInv, NEW h \in Scanner, ScanStep(h)
    PROVE  MaskInv'
<1> USE DEF MaskInv
<1>1. ASSUME NEW text \in SUBSET Secret, NEW auto \in BOOLEAN, Accept(h, text, auto)
      PROVE  MaskInv'
  <2>1. Listing' /\ closed' = closed
    BY <1>1, SameListing DEF Accept
  <2> QED BY <1>1, <2>1, ZenonT(40) DEF Accept, Step, ScanTypes, Pending, PatternedMasked, Answered
<1>2. CASE StartMatch(h)
  <2>1. Listing' /\ closed' = closed
    BY <1>2, SameListing DEF StartMatch
  <2>2. ScanTypes'
    BY <1>2 DEF StartMatch, Step, ScanTypes
  <2>3. Pending' /\ PatternedMasked'
    BY <1>2, <2>1 DEF StartMatch, Step, ScanTypes, Pending, PatternedMasked, Answered
  <2> QED BY <2>1, <2>2, <2>3
<1>3. CASE SetExactValues(h)
  <2>1. Listing' /\ closed' = closed
    BY <1>3, SameListing DEF SetExactValues
  <2> QED BY <1>3, <2>1 DEF SetExactValues, Step, ScanTypes, Pending, PatternedMasked, Answered
<1>4. CASE Scan(h)
  <2>1. Listing' /\ closed' = closed
    BY <1>4, SameListing DEF Scan
  <2>2. ScanTypes'
    BY <1>4 DEF Scan, Step, ScanTypes
  <2>3. Pending'
    <3>1. PICK hits \in Found(h) : todo' = [todo EXCEPT ![h] = Hits(hits, request[h].text)]
      BY <1>4 DEF Scan
    <3> QED BY <1>4, <2>1, <3>1, ZenonT(40) DEF Scan, Step, ScanTypes, Pending, Hits
  <2>4. PatternedMasked'
    BY <1>4, <2>1 DEF Scan, Step, ScanTypes, PatternedMasked, Answered
  <2> QED BY <2>1, <2>2, <2>3, <2>4
<1>5. ASSUME NEW s \in Secret, ResolveExact(h, s)
      PROVE  MaskInv'
  <2>1. PlaceholderOf[s] \in Placeholder
    BY PlaceholderOfAssumption
  <2>2. Listing' /\ closed' = closed
    BY <1>5, <2>1, MarkUseListing, SameListing DEF ResolveExact
  <2>3. Resolved(h, <<"ac", s>>, {PlaceholderOf[s]})
    BY <1>5 DEF ResolveExact
  <2> QED BY <2>1, <2>2, <2>3, ResolvedMasks
<1>6. ASSUME NEW s \in Secret, ResolvePattern(h, s)
      PROVE  MaskInv'
  <2>1. Register(s, {}) /\ {} \in SUBSET Pattern
    BY <1>6 DEF ResolvePattern
  <2>2. Listing' /\ (~closed' => ~closed)
    BY <2>1, RegisterListing, StaysClosed
  <2>3. s \in DOMAIN byValue'
    BY <2>1 DEF Register, RegisterKnown, RegisterDangling, RegisterNew, Known, Put
  <2>4. byValue'[s] \in Placeholder
    BY <2>2, <2>3 DEF Listing, TypeOK
  <2>5. Resolved(h, <<"regex", s>>, {byValue'[s]})
    BY <1>6 DEF ResolvePattern
  <2> QED BY <2>2, <2>4, <2>5, ResolvedMasks
<1>7. ASSUME NEW s \in Secret, LeavePattern(h, s)
      PROVE  MaskInv'
  <2>1. Listing' /\ closed' = closed
    BY <1>7, SameListing DEF LeavePattern
  <2>2. Resolved(h, <<"regex", s>>, {}) /\ (~request[h].auto \/ closed)
    BY <1>7 DEF LeavePattern
  <2> QED BY <2>1, <2>2, ResolvedMasks
<1>8. CASE RedactInPlace(h)
  <2>1. Listing' /\ closed' = closed
    BY <1>8, SameListing DEF RedactInPlace
  <2>2. ScanTypes'
    <3>1. [tokens EXCEPT ![h] = [x \in Secret |-> {}]] \in [Scanner -> [Secret -> SUBSET Placeholder]]
      BY DEF ScanTypes
    <3> QED BY <1>8, <3>1 DEF RedactInPlace, Step, ScanTypes
  <2>3. Pending'
    BY <1>8, <2>1, ZenonT(40) DEF RedactInPlace, Step, ScanTypes, Pending
  <2>4. PatternedMasked'
    <3> SUFFICES ASSUME NEW g \in Scanner, phase'[g] = "done", request'[g].auto, ~closed,
                        NEW x \in request'[g].text \cap Patterned
                 PROVE  answer'[g][x] # Raw
      BY <2>1 DEF PatternedMasked, Answered
    <3>1. request' = request /\ x \in Secret
      BY <1>8 DEF RedactInPlace, ScanTypes
    <3>2. CASE g # h
      BY <1>8, <3>1, <3>2 DEF RedactInPlace, Step, ScanTypes, PatternedMasked, Answered
    <3>3. CASE g = h
      <4>1. tokens[h][x] # {}
        BY <1>8, <3>1, <3>3 DEF RedactInPlace, Step, Pending
      <4>2. answer'[h][x] \in tokens[h][x]
        BY <1>8, <3>1, <4>1 DEF RedactInPlace, Replacements, ScanTypes
      <4>3. tokens[h][x] \subseteq Placeholder
        BY <3>1 DEF ScanTypes
      <4> QED BY <3>3, <4>2, <4>3, RawAssumption
    <3> QED BY <3>2, <3>3
  <2> QED BY <2>1, <2>2, <2>3, <2>4
<1>9. CASE Reply(h)
  <2>1. Listing' /\ closed' = closed
    BY <1>9, SameListing DEF Reply
  <2>2. ScanTypes'
    <3>1. [request EXCEPT ![h] = Idle]
             \in [Scanner -> [text : SUBSET Secret, auto : BOOLEAN]]
      BY DEF ScanTypes, Idle
    <3> QED BY <1>9, <3>1 DEF Reply, Step, ScanTypes
  <2>3. Pending' /\ PatternedMasked'
    BY <1>9, <2>1 DEF Reply, Step, ScanTypes, Pending, PatternedMasked, Answered
  <2> QED BY <2>1, <2>2, <2>3
<1> QED BY <1>1, <1>2, <1>3, <1>4, <1>5, <1>6, <1>7, <1>8, <1>9, TextsAssumption DEF ScanStep

LEMMA OthersMask ==
    ASSUME MaskInv, RegisterRequest \/ EntryRequest \/ ReadRequest \/ RotateRequest \/ Shutdown
    PROVE  MaskInv'
<1>1. UNCHANGED scanVars
  BY DEF RegisterRequest, EntryRequest, ReadRequest, RotateRequest, Shutdown, Others
<1>2. Listing'
  <2>1. Listing /\ (Close => Listing')
    <3>1. Close => Emptied /\ panicked' = panicked
      BY DEF Close
    <3>2. Listing /\ panicked \in BOOLEAN
      BY DEF MaskInv, Listing, TypeOK
    <3> QED BY <3>1, <3>2, CloseListing
  <2> QED BY <2>1, RegisterListing, RotateListing, HousekeepingListing, SameListing
     DEF RegisterRequest, EntryRequest, ReadRequest, RotateRequest, Shutdown, Others, MaskInv
<1>3. ~closed' => ~closed
  BY StaysClosed, SameListing DEF MaskInv, RegisterRequest, EntryRequest, ReadRequest, RotateRequest, Shutdown, Others
<1> QED BY <1>1, <1>2, <1>3, SameScans DEF MaskInv

-----------------------------------------------------------------------------
LEMMA NextMasks == MaskInv /\ [DaemonNext]_dvars => MaskInv'
<1> SUFFICES ASSUME MaskInv, [DaemonNext]_dvars
             PROVE  MaskInv'
  OBVIOUS
<1>1. CASE UNCHANGED dvars
  <2>1. UNCHANGED vars /\ UNCHANGED scanVars
    BY <1>1 DEF dvars
  <2> QED BY <2>1, SameListing, SameScans DEF MaskInv
<1> QED BY <1>1, ScanStepMasks, OthersMask DEF DaemonNext

\* Whatever requests run beside a scan and however they interleave, a scan with
\* AutoRegister that ends before the vault is closed answers with every secret
\* that is recognised by its shape replaced (handleScan, server.go:171-218).
THEOREM PatternedAlwaysMasked == DaemonSpec => []PatternedMasked
<1>1. MaskInv => PatternedMasked
  BY DEF MaskInv
<1> QED BY <1>1, MaskInit, NextMasks, PTL DEF DaemonSpec

-----------------------------------------------------------------------------
\* The history of the vault that a scan sees.

SinceTypes ==
    /\ values = [h \in Scanner |-> values[h]]
    /\ since \in [Scanner -> SUBSET Secret]

LEMMA ValuesAreSecrets == ASSUME TypeOK PROVE Values \in SUBSET Secret
BY DEF TypeOK, Entry, Values

LEMMA FollowSince ==
    ASSUME SinceTypes, Follow, values' = values
    PROVE  /\ SinceTypes'
           /\ \A g \in Scanner : since'[g] \subseteq since[g]
BY DEF SinceTypes, Follow

\* What a step of a scan does to the others: they are where they were, and
\* their histories do not grow.
LEMMA ScanFrame ==
    ASSUME MaskInv, SinceTypes, NEW h \in Scanner, ScanStep(h)
    PROVE  /\ SinceTypes'
           /\ \A g \in Scanner \ {h} :
                 /\ phase'[g] = phase[g] /\ request'[g] = request[g] /\ values'[g] = values[g]
                 /\ todo'[g] = todo[g] /\ tokens'[g] = tokens[g] /\ answer'[g] = answer[g]
                 /\ since'[g] \subseteq since[g]
<1> USE DEF MaskInv, ScanTypes, SinceTypes
<1>1. ASSUME NEW text \in SUBSET Secret, NEW auto \in BOOLEAN, Accept(h, text, auto)
      PROVE  /\ SinceTypes'
             /\ \A g \in Scanner \ {h} :
                   /\ phase'[g] = phase[g] /\ request'[g] = request[g] /\ values'[g] = values[g]
                   /\ todo'[g] = todo[g] /\ tokens'[g] = tokens[g] /\ answer'[g] = answer[g]
                   /\ since'[g] \subseteq since[g]
  <2>1. Values \in SUBSET Secret
    BY ValuesAreSecrets DEF Listing
  <2>2. SinceTypes'
    BY <1>1, <2>1 DEF Accept
  <2>3. \A g \in Scanner \ {h} : since'[g] = {}
    BY <1>1 DEF Accept
  <2> QED BY <1>1, <2>2, <2>3 DEF Accept, Step
<1>2. CASE SetExactValues(h) \/ StartMatch(h) \/ RedactInPlace(h)
  BY <1>2 DEF SetExactValues, StartMatch, RedactInPlace, Step, history
<1>3. CASE Scan(h)
  BY <1>3 DEF Scan, Step, history
<1>4. CASE Reply(h)
  BY <1>4 DEF Reply, Step
<1>5. ASSUME NEW s \in Secret, ResolveExact(h, s) \/ ResolvePattern(h, s) \/ LeavePattern(h, s)
      PROVE  /\ SinceTypes'
             /\ \A g \in Scanner \ {h} :
                   /\ phase'[g] = phase[g] /\ request'[g] = request[g] /\ values'[g] = values[g]
                   /\ todo'[g] = todo[g] /\ tokens'[g] = tokens[g] /\ answer'[g] = answer[g]
                   /\ since'[g] \subseteq since[g]
  <2>1. \E e \in {"ac", "regex"} : \E ps : Resolved(h, <<e, s>>, ps)
    BY <1>5 DEF ResolveExact, ResolvePattern, LeavePattern
  <2>2. Follow /\ values' = values
    BY <2>1 DEF Resolved
  <2> QED BY <2>1, <2>2, FollowSince DEF Resolved
<1> QED BY <1>1, <1>2, <1>3, <1>4, <1>5, TextsAssumption DEF ScanStep

LEMMA SinceOthers ==
    ASSUME SinceTypes, RegisterRequest \/ EntryRequest \/ ReadRequest \/ RotateRequest \/ Shutdown
    PROVE  /\ SinceTypes' /\ Follow /\ UNCHANGED <<detector, scanVars>>
           /\ \A g \in Scanner : since'[g] \subseteq since[g]
<1>1. Follow /\ UNCHANGED <<detector, scanVars>>
  BY DEF RegisterRequest, EntryRequest, ReadRequest, RotateRequest, Shutdown, Others
<1> QED BY <1>1, FollowSince DEF scanVars

-----------------------------------------------------------------------------
\* An active value, from the request to the answer of a scan with no other
\* beside it.

Tracked(h) ==
    \A s \in request[h].text \cap since[h] :
        /\ phase[h] = "read" => s \in values[h]
        /\ phase[h] = "synced" => s \in exact
        /\ phase[h] = "matching" => <<"ac", s>> \in todo[h]
        /\ phase[h] = "scanned" => <<"ac", s>> \in todo[h] \/ tokens[h][s] # {}
        /\ phase[h] = "done" => answer[h][s] # Raw

Quiet(h) == /\ phase[h] # "idle" /\ h \notin racing
            /\ \A g \in Scanner \ {h} : phase[g] = "idle"

ActiveInv ==
    /\ matching \cup racing \subseteq {g \in Scanner : phase[g] = "matching"}
    /\ \A h \in Scanner : since[h] # {} => Quiet(h) /\ Tracked(h)

LEMMA ScanMatching ==
    ASSUME MaskInv, ActiveInv, NEW h \in Scanner, ScanStep(h)
    PROVE  /\ (matching \cup racing \subseteq {g \in Scanner : phase[g] = "matching"})'
           /\ h \in racing' => h \in racing \/ matching # {}
<1> USE DEF MaskInv, ScanTypes, ActiveInv
<1>1. ASSUME NEW text \in SUBSET Secret, NEW auto \in BOOLEAN, Accept(h, text, auto)
      PROVE  /\ (matching \cup racing \subseteq {g \in Scanner : phase[g] = "matching"})'
             /\ racing' = racing
  BY <1>1 DEF Accept, Step, detector
<1>2. CASE SetExactValues(h) \/ RedactInPlace(h) \/ Reply(h)
  BY <1>2 DEF SetExactValues, RedactInPlace, Reply, Step, detector
<1>3. CASE StartMatch(h)
  BY <1>3 DEF StartMatch, Step
<1>4. CASE Scan(h)
  BY <1>4 DEF Scan, Step
<1>5. ASSUME NEW s \in Secret, ResolveExact(h, s) \/ ResolvePattern(h, s) \/ LeavePattern(h, s)
      PROVE  UNCHANGED <<matching, racing, phase>>
  BY <1>5 DEF ResolveExact, ResolvePattern, LeavePattern, Resolved, detector
<1> QED BY <1>1, <1>2, <1>3, <1>4, <1>5, TextsAssumption DEF ScanStep

\* A match that is resolved: todo may lose it, if a placeholder is noted or it
\* is none of the exact ones.
LEMMA ResolvedTracks ==
    ASSUME MaskInv, SinceTypes, NEW h \in Scanner, Tracked(h), NEW e, NEW s \in Secret,
           NEW ps \in SUBSET Placeholder, Resolved(h, <<e, s>>, ps), e = "ac" => ps # {}
    PROVE  Tracked(h)'
<1>1. /\ phase[h] = "scanned" /\ phase' = phase /\ request' = request
      /\ todo'[h] = todo[h] \ {<<e, s>>}
  BY DEF MaskInv, ScanTypes, Resolved
<1>2. \A x \in Secret : tokens'[h][x] = IF x = s THEN tokens[h][x] \cup ps ELSE tokens[h][x]
  BY DEF MaskInv, ScanTypes, Resolved
<1>3. since'[h] \subseteq since[h] /\ request[h].text \subseteq Secret
  BY FollowSince DEF Resolved, MaskInv, ScanTypes
<1>4. ASSUME NEW x \in request[h].text \cap since'[h]
      PROVE  <<"ac", x>> \in todo'[h] \/ tokens'[h][x] # {}
  <2>1. x \in Secret /\ (<<"ac", x>> \in todo[h] \/ tokens[h][x] # {})
    BY <1>1, <1>3 DEF Tracked
  <2>2. CASE x = s /\ e = "ac"
    BY <2>2, <1>2
  <2>3. CASE ~(x = s /\ e = "ac")
    BY <2>1, <2>3, <1>1, <1>2
  <2> QED BY <2>2, <2>3
<1> QED BY <1>1, <1>4 DEF Tracked

LEMMA ScanTracks ==
    ASSUME MaskInv, SinceTypes, ActiveInv, NEW h \in Scanner, ScanStep(h),
           since'[h] # {}
    PROVE  Tracked(h)'
<1> USE DEF MaskInv, ScanTypes, SinceTypes
<1>1. ASSUME NEW text \in SUBSET Secret, NEW auto \in BOOLEAN, Accept(h, text, auto)
      PROVE  Tracked(h)'
  <2>1. phase'[h] = "read" /\ values'[h] = Values /\ since'[h] \subseteq Values
    BY <1>1 DEF Accept, Step
  <2> QED BY <2>1 DEF Tracked
<1>2. CASE SetExactValues(h)
  <2>1. phase[h] = "read" /\ phase'[h] = "synced" /\ exact' = values[h] /\ UNCHANGED <<request, since>>
    BY <1>2 DEF SetExactValues, Loaded, Step, history
  <2> QED BY <2>1 DEF ActiveInv, Tracked
<1>3. CASE StartMatch(h)
  <2>1. /\ phase[h] = "synced" /\ phase'[h] = "matching" /\ UNCHANGED <<request, since>>
        /\ todo'[h] = {"ac"} \X (request[h].text \cap exact)
    BY <1>3 DEF StartMatch, Step, history
  <2> QED BY <2>1 DEF ActiveInv, Tracked
<1>4. CASE Scan(h)
  <2>1. phase[h] = "matching" /\ phase'[h] = "scanned" /\ UNCHANGED <<request, since>>
    BY <1>4 DEF Scan, Step, history
  <2>2. h \notin racing
    BY <2>1 DEF ActiveInv, Quiet
  <2>3. todo[h] \subseteq todo'[h]
    <3>1. \E hits \in Found(h) : todo' = [todo EXCEPT ![h] = Hits(hits, request[h].text)]
      BY <1>4 DEF Scan
    <3>2. todo' = [todo EXCEPT ![h] = Hits(todo[h], request[h].text)]
      BY <2>2, <3>1 DEF Found
    <3> QED BY <3>2 DEF Hits
  <2> QED BY <2>1, <2>3 DEF ActiveInv, Tracked
<1>5. ASSUME NEW s \in Secret, ResolveExact(h, s) \/ ResolvePattern(h, s) \/ LeavePattern(h, s)
      PROVE  Tracked(h)'
  <2>1. /\ PlaceholderOf[s] \in Placeholder
        /\ since'[h] \subseteq since[h]
    <3>1. Follow /\ values' = values
      BY <1>5 DEF ResolveExact, ResolvePattern, LeavePattern, Resolved
    <3> QED BY <3>1, FollowSince, PlaceholderOfAssumption
  <2>2. Tracked(h)
    BY <2>1 DEF ActiveInv
  <2>3. CASE ResolveExact(h, s)
    <3>1. Resolved(h, <<"ac", s>>, {PlaceholderOf[s]})
      BY <2>3 DEF ResolveExact
    <3>2. {PlaceholderOf[s]} \in SUBSET Placeholder /\ {PlaceholderOf[s]} # {}
      BY <2>1
    <3> QED BY <2>2, <3>1, <3>2, ResolvedTracks
  <2>4. CASE ResolvePattern(h, s)
    <3>1. Register(s, {}) /\ {} \in SUBSET Pattern /\ Resolved(h, <<"regex", s>>, {byValue'[s]})
      BY <2>4 DEF ResolvePattern
    <3>2. Listing' /\ s \in DOMAIN byValue'
      BY <3>1, RegisterListing
         DEF Register, RegisterKnown, RegisterDangling, RegisterNew, Known, Put
    <3>3. {byValue'[s]} \in SUBSET Placeholder /\ {byValue'[s]} # {}
      BY <3>2 DEF Listing, TypeOK
    <3> QED BY <2>2, <3>1, <3>3, ResolvedTracks
  <2>5. CASE LeavePattern(h, s)
    <3>1. Resolved(h, <<"regex", s>>, {})
      BY <2>5 DEF LeavePattern
    <3>2. {} \in SUBSET Placeholder /\ "regex" # "ac"
      OBVIOUS
    <3> QED BY <2>2, <3>1, <3>2, ResolvedTracks
  <2> QED BY <1>5, <2>3, <2>4, <2>5
<1>6. CASE RedactInPlace(h)
  <2>1. /\ phase[h] = "scanned" /\ phase'[h] = "done" /\ todo[h] = {}
        /\ UNCHANGED <<request, since>>
    BY <1>6 DEF RedactInPlace, Step, history
  <2>2. \A s \in Secret : answer'[h][s] \in Replacements(h, s)
    BY <1>6 DEF RedactInPlace
  <2>3. ASSUME NEW s \in request[h].text \cap since[h]
        PROVE  answer'[h][s] # Raw
    <3>1. s \in Secret /\ tokens[h][s] # {}
      BY <2>1 DEF ActiveInv, Tracked
    <3>2. answer'[h][s] \in tokens[h][s] /\ tokens[h][s] \subseteq Placeholder
      BY <2>2, <3>1 DEF Replacements
    <3> QED BY <3>2, RawAssumption
  <2> QED BY <2>1, <2>3 DEF Tracked
<1>7. CASE Reply(h)
  BY <1>7 DEF Reply
<1> QED BY <1>1, <1>2, <1>3, <1>4, <1>5, <1>6, <1>7, TextsAssumption DEF ScanStep

LEMMA NextActive ==
    MaskInv /\ SinceTypes /\ ActiveInv /\ [DaemonNext]_dvars => SinceTypes' /\ ActiveInv'
<1> SUFFICES ASSUME MaskInv, SinceTypes, ActiveInv, [DaemonNext]_dvars
             PROVE  SinceTypes' /\ ActiveInv'
  OBVIOUS
<1>1. CASE UNCHANGED dvars
  BY <1>1 DEF SinceTypes, ActiveInv, Quiet, Tracked, dvars, detector, scanVars, history
<1>2. CASE RegisterRequest \/ EntryRequest \/ ReadRequest \/ RotateRequest \/ Shutdown
  <2>1. /\ SinceTypes' /\ UNCHANGED <<detector, scanVars>>
        /\ \A g \in Scanner : since'[g] \subseteq since[g]
    BY <1>2, SinceOthers
  <2> QED BY <2>1 DEF ActiveInv, Quiet, Tracked, detector, scanVars
<1>3. ASSUME NEW h \in Scanner, ScanStep(h)
      PROVE  SinceTypes' /\ ActiveInv'
  <2>1. /\ SinceTypes'
        /\ \A g \in Scanner \ {h} : phase'[g] = phase[g] /\ since'[g] \subseteq since[g]
    BY <1>3, ScanFrame
  <2>2. /\ (matching \cup racing \subseteq {g \in Scanner : phase[g] = "matching"})'
        /\ h \in racing' => h \in racing \/ matching # {}
    BY <1>3, ScanMatching
  \* A scan with a history is the only one, unless one has just come in.
  <2>3. CASE \E text \in Texts, auto \in BOOLEAN : Accept(h, text, auto)
    <3>1. /\ phase[h] = "idle" /\ phase'[h] = "read" /\ racing' = racing
          /\ \A g \in Scanner \ {h} : since'[g] = {}
          /\ since'[h] # {} => \A g \in Scanner : phase[g] = "idle"
      BY <2>3, SMTT(30) DEF Accept, Step, detector, MaskInv, ScanTypes
    <3>2. since'[h] # {} => Tracked(h)'
      BY <1>3, ScanTracks
    <3>3. since'[h] # {} => Quiet(h)'
      BY <2>1, <3>1 DEF ActiveInv, Quiet
    <3> QED BY <2>1, <2>2, <3>1, <3>2, <3>3 DEF ActiveInv
  <2>4. CASE ~\E text \in Texts, auto \in BOOLEAN : Accept(h, text, auto)
    <3>1. phase[h] # "idle"
      BY <1>3, <2>4 DEF ScanStep, SetExactValues, StartMatch, Scan, ResolveExact, ResolvePattern,
                        LeavePattern, Resolved, RedactInPlace, Reply, Step
    <3>2. \A g \in Scanner \ {h} : since'[g] = {}
      BY <2>1, <3>1 DEF ActiveInv, Quiet
    <3>3. /\ since'[h] \subseteq since[h]
          /\ since'[h] # {} => phase'[h] # "idle"
      <4>1. CASE SetExactValues(h) \/ StartMatch(h) \/ Scan(h) \/ RedactInPlace(h)
        BY <4>1 DEF SetExactValues, StartMatch, Scan, RedactInPlace, Step, history, MaskInv, ScanTypes
      <4>2. CASE Reply(h)
        BY <4>2 DEF Reply, SinceTypes
      <4>3. ASSUME NEW s \in Secret, ResolveExact(h, s) \/ ResolvePattern(h, s) \/ LeavePattern(h, s)
            PROVE  /\ since'[h] \subseteq since[h]
                   /\ since'[h] # {} => phase'[h] # "idle"
        <5>1. Follow /\ values' = values /\ phase' = phase
          BY <4>3 DEF ResolveExact, ResolvePattern, LeavePattern, Resolved
        <5> QED BY <3>1, <5>1, FollowSince
      <4> QED BY <1>3, <2>4, <4>1, <4>2, <4>3 DEF ScanStep
    <3>4. since'[h] # {} => Quiet(h)'
      <4>1. since'[h] # {} => Quiet(h)
        BY <3>3 DEF ActiveInv
      <4>2. StartMatch(h) /\ Quiet(h) => matching = {}
        BY DEF StartMatch, Step, ActiveInv, Quiet
      <4>3. ~StartMatch(h) /\ h \notin racing => h \notin racing'
        BY <1>3, <2>4 DEF ScanStep, SetExactValues, Scan, ResolveExact, ResolvePattern, LeavePattern,
                          Resolved, RedactInPlace, Reply, detector
      <4> QED BY <2>1, <2>2, <3>3, <4>1, <4>2, <4>3 DEF Quiet
    <3>5. since'[h] # {} => Tracked(h)'
      BY <1>3, ScanTracks
    <3> QED BY <2>1, <2>2, <3>2, <3>4, <3>5 DEF ActiveInv
  <2> QED BY <2>3, <2>4
<1> QED BY <1>1, <1>2, <1>3 DEF DaemonNext

\* A value that was active in the vault from the request of a scan until its
\* answer is replaced there, whatever is registered, rotated or deleted
\* meanwhile, if no other scan was handled at the same time.
THEOREM ActiveAlwaysMasked == DaemonSpec => []ActiveMasked
<1>1. DaemonInit => SinceTypes /\ ActiveInv
  BY DEF DaemonInit, SinceTypes, ActiveInv
<1>2. ActiveInv => ActiveMasked
  BY DEF ActiveInv, Tracked, ActiveMasked, Answered
<1> QED BY <1>1, <1>2, MaskInit, NextMasks, NextActive, PTL DEF DaemonSpec

-----------------------------------------------------------------------------
\* Where a token leads.  An entry that was never given another value is under
\* the placeholder of its value; a value that byValue has elsewhere was rotated
\* in; and every token is one or the other.

AtHome == \A p \in (DOMAIN byPH) \ moved : PlaceholderOf[byPH[p].value] = p
IndexedHome == \A v \in DOMAIN byValue : byValue[v] \in {PlaceholderOf[v]} \cup moved

TokensHome ==
    \A h \in Scanner, s \in Secret :
        /\ tokens[h][s] \subseteq {PlaceholderOf[s]} \cup moved
        /\ phase[h] = "done" => answer[h][s] \in {Raw, PlaceholderOf[s]} \cup moved

HomeInv == AtHome /\ IndexedHome /\ TokensHome

\* What a step does to the vault, as far as the tokens are concerned.
VaultStep ==
    \/ UNCHANGED vars
    \/ \E v \in Secret, hs \in SUBSET Pattern : Register(v, hs)
    \/ \E p \in Placeholder, v \in Secret : Rotate(p, v)
    \/ Housekeeping
    \/ Close

LEMMA VaultHome ==
    ASSUME Listing, AtHome, IndexedHome, VaultStep, moved' = moved \cup Reused
    PROVE  AtHome' /\ IndexedHome'
<1>0. /\ DOMAIN byPH \subseteq Placeholder /\ byPH \in [DOMAIN byPH -> Entry]
      /\ DOMAIN byValue \subseteq Secret /\ byValue \in [DOMAIN byValue -> Placeholder]
  BY DEF Listing, TypeOK
<1>1. \A p \in DOMAIN byPH \cap DOMAIN byPH' : p \notin moved' => byPH'[p].value = byPH[p].value
  BY DEF Reused
<1>2. ASSUME DOMAIN byPH' \subseteq DOMAIN byPH
      PROVE  AtHome'
  BY <1>1, <1>2 DEF AtHome
<1>3. ASSUME \A v \in DOMAIN byValue' : v \in DOMAIN byValue /\ byValue'[v] = byValue[v]
      PROVE  IndexedHome'
  BY <1>3 DEF IndexedHome
<1>4. CASE UNCHANGED vars
  BY <1>2, <1>3, <1>4 DEF vars
<1>5. ASSUME NEW v \in Secret, NEW hs \in SUBSET Pattern, Register(v, hs)
      PROVE  AtHome' /\ IndexedHome'
  <2>1. CASE RegisterKnown(v, hs)
    BY <1>2, <1>3, <2>1 DEF RegisterKnown
  <2>2. CASE RegisterDangling(v)
    BY <1>2, <1>3, <2>2 DEF RegisterDangling
  <2>3. CASE RegisterNew(v, hs)
    <3>1. /\ byPH' = Put(byPH, PlaceholderOf[v], NewEntry(v, hs))
          /\ byValue' = Put(byValue, v, PlaceholderOf[v])
      BY <2>3 DEF RegisterNew
    <3>2. \A p \in DOMAIN byPH' : IF p = PlaceholderOf[v]
                                  THEN byPH'[p].value = v
                                  ELSE p \in DOMAIN byPH /\ byPH'[p] = byPH[p]
      BY <3>1 DEF Put, NewEntry
    <3>3. AtHome'
      BY <3>2 DEF AtHome
    <3>4. \A x \in DOMAIN byValue' : IF x = v
                                     THEN byValue'[x] = PlaceholderOf[v]
                                     ELSE x \in DOMAIN byValue /\ byValue'[x] = byValue[x]
      BY <3>1 DEF Put
    <3>5. IndexedHome'
      BY <3>4 DEF IndexedHome
    <3> QED BY <3>3, <3>5
  <2> QED BY <1>5, <2>1, <2>2, <2>3 DEF Register
<1>6. ASSUME NEW p \in Placeholder, NEW v \in Secret, Rotate(p, v)
      PROVE  AtHome' /\ IndexedHome'
  <2>1. /\ p \in DOMAIN byPH
        /\ byPH' = [byPH EXCEPT ![p].value = v]
        /\ byValue' = ReIndexed(p, v)
    BY <1>6 DEF Rotate
  <2>2. DOMAIN byPH' = DOMAIN byPH /\ byPH'[p].value = v
    BY <1>0, <2>1 DEF Entry
  <2>3. \A x \in DOMAIN byValue' : IF x = v THEN byValue'[x] = p
                                   ELSE x \in DOMAIN byValue /\ byValue'[x] = byValue[x]
    BY <2>1 DEF ReIndexed, Put, Drop, Restrict
  <2>4. p \in {PlaceholderOf[v]} \cup moved'
    <3>1. CASE byPH[p].value = v
      BY <2>1, <3>1 DEF AtHome
    <3>2. CASE byPH[p].value # v
      BY <2>1, <2>2, <3>2 DEF Reused
    <3> QED BY <3>1, <3>2
  <2> QED BY <1>2, <2>2, <2>3, <2>4 DEF IndexedHome
<1>7. CASE Housekeeping
  <2>1. ASSUME NEW p \in Placeholder, NEW hs \in SUBSET Pattern, Bind(p, hs) \/ Unbind(p, hs)
        PROVE  DOMAIN byPH' = DOMAIN byPH /\ byValue' = byValue
    BY <2>1 DEF Bind, Unbind
  <2>2. ASSUME NEW p \in Placeholder, NEW t \in Status, SetStatus(p, t)
        PROVE  DOMAIN byPH' = DOMAIN byPH /\ byValue' = byValue
    BY <2>2 DEF SetStatus
  <2>3. ASSUME NEW p \in Placeholder, MarkUse(p)
        PROVE  DOMAIN byPH' = DOMAIN byPH /\ byValue' = byValue
    BY <2>3 DEF MarkUse
  <2>4. ASSUME NEW p \in Placeholder, Delete(p)
        PROVE  /\ DOMAIN byPH' \subseteq DOMAIN byPH
               /\ \A x \in DOMAIN byValue' : x \in DOMAIN byValue /\ byValue'[x] = byValue[x]
    BY <2>4 DEF Delete, UnIndexed, Drop, Restrict
  <2>5. ListDangling => DOMAIN byPH' = DOMAIN byPH /\ byValue' = byValue
    BY DEF ListDangling
  <2>6. DOMAIN byPH' \subseteq DOMAIN byPH
    BY <1>7, <2>1, <2>2, <2>3, <2>4, <2>5 DEF Housekeeping
  <2>7. \A x \in DOMAIN byValue' : x \in DOMAIN byValue /\ byValue'[x] = byValue[x]
    BY <1>7, <2>1, <2>2, <2>3, <2>4, <2>5 DEF Housekeeping
  <2> QED BY <1>2, <1>3, <2>6, <2>7
<1>8. CASE Close
  <2>1. byPH' = Empty /\ byValue' = Empty
    BY <1>8 DEF Close, Emptied
  <2> QED BY <2>1 DEF AtHome, IndexedHome, Empty
<1> QED BY <1>4, <1>5, <1>6, <1>7, <1>8 DEF VaultStep

LEMMA SameHome ==
    ASSUME Listing, AtHome, IndexedHome, UNCHANGED <<vars, moved>>
    PROVE  AtHome' /\ IndexedHome'
BY DEF vars, AtHome, IndexedHome

\* A match resolved to its own placeholder, to one rotated, or to none.
LEMMA ResolvedHome ==
    ASSUME MaskInv, TokensHome, NEW h \in Scanner, NEW e, NEW s \in Secret, NEW ps,
           Resolved(h, <<e, s>>, ps), ps \subseteq {PlaceholderOf[s]} \cup moved'
    PROVE  TokensHome'
<1>1. phase' = phase /\ answer' = answer /\ moved \subseteq moved'
  BY DEF Resolved, Follow
<1>2. \A g \in Scanner, x \in Secret :
         tokens'[g][x] = IF g = h /\ x = s THEN tokens[g][x] \cup ps ELSE tokens[g][x]
  BY DEF MaskInv, ScanTypes, Resolved
<1>3. \A g \in Scanner, x \in Secret : tokens[g][x] \subseteq {PlaceholderOf[x]} \cup moved'
  BY <1>1 DEF TokensHome
<1>4. \A g \in Scanner, x \in Secret : tokens'[g][x] \subseteq {PlaceholderOf[x]} \cup moved'
  <2> TAKE g \in Scanner, x \in Secret
  <2>1. CASE g = h /\ x = s
    <3>1. tokens'[g][x] = tokens[g][x] \cup ps
      BY <2>1, <1>2
    <3>2. tokens[g][x] \subseteq {PlaceholderOf[x]} \cup moved'
      BY <1>3
    <3> QED BY <2>1, <3>1, <3>2
  <2>2. CASE ~(g = h /\ x = s)
    BY <2>2, <1>2, <1>3
  <2> QED BY <2>1, <2>2
<1> QED BY <1>1, <1>4 DEF TokensHome

LEMMA ScanHome ==
    ASSUME MaskInv, HomeInv, NEW h \in Scanner, ScanStep(h)
    PROVE  HomeInv'
<1> USE DEF HomeInv
<1>0. Listing
  BY DEF MaskInv
<1>1. ASSUME NEW text \in SUBSET Secret, NEW auto \in BOOLEAN, Accept(h, text, auto)
      PROVE  HomeInv'
  <2>1. AtHome' /\ IndexedHome'
    BY <1>0, <1>1, SameHome DEF Accept
  <2> QED BY <1>1, <2>1 DEF Accept, Step, TokensHome, MaskInv, ScanTypes
<1>2. CASE SetExactValues(h) \/ StartMatch(h) \/ Scan(h)
  <2>1. UNCHANGED <<vars, moved, tokens, answer>> /\ \A g \in Scanner : phase'[g] = "done" => phase[g] = "done"
    BY <1>2 DEF SetExactValues, StartMatch, Scan, Step, history, MaskInv, ScanTypes
  <2>2. AtHome' /\ IndexedHome'
    BY <1>0, <2>1, SameHome
  <2> QED BY <2>1, <2>2 DEF TokensHome
<1>3. ASSUME NEW s \in Secret, ResolveExact(h, s)
      PROVE  HomeInv'
  <2>1. Resolved(h, <<"ac", s>>, {PlaceholderOf[s]}) /\ (UNCHANGED vars \/ MarkUse(PlaceholderOf[s]))
    BY <1>3 DEF ResolveExact
  <2>2. VaultStep /\ moved' = moved \cup Reused
    BY <2>1, PlaceholderOfAssumption DEF VaultStep, Housekeeping, Resolved, Follow
  <2> QED BY <1>0, <2>1, <2>2, VaultHome, ResolvedHome
<1>4. ASSUME NEW s \in Secret, ResolvePattern(h, s)
      PROVE  HomeInv'
  <2>1. Resolved(h, <<"regex", s>>, {byValue'[s]}) /\ Register(s, {}) /\ {} \in SUBSET Pattern
    BY <1>4 DEF ResolvePattern
  <2>2. VaultStep /\ moved' = moved \cup Reused
    BY <2>1 DEF VaultStep, Resolved, Follow
  <2>3. AtHome' /\ IndexedHome'
    BY <1>0, <2>2, VaultHome
  <2>4. s \in DOMAIN byValue'
    BY <2>1 DEF Register, RegisterKnown, RegisterDangling, RegisterNew, Known, Put
  <2>5. {byValue'[s]} \subseteq {PlaceholderOf[s]} \cup moved'
    BY <2>3, <2>4 DEF IndexedHome
  <2> QED BY <2>1, <2>3, <2>5, ResolvedHome
<1>5. ASSUME NEW s \in Secret, LeavePattern(h, s)
      PROVE  HomeInv'
  <2>1. Resolved(h, <<"regex", s>>, {}) /\ UNCHANGED vars
    BY <1>5 DEF LeavePattern
  <2>2. VaultStep /\ moved' = moved \cup Reused
    BY <2>1 DEF VaultStep, Resolved, Follow
  <2>3. AtHome' /\ IndexedHome'
    BY <1>0, <2>2, VaultHome
  <2>4. {} \subseteq {PlaceholderOf[s]} \cup moved'
    OBVIOUS
  <2> QED BY <2>1, <2>3, <2>4, ResolvedHome
<1>6. CASE RedactInPlace(h)
  <2>1. AtHome' /\ IndexedHome'
    BY <1>0, <1>6, SameHome DEF RedactInPlace, history
  <2>2. /\ \A s \in Secret : answer'[h][s] \in Replacements(h, s) /\ tokens'[h][s] = {}
        /\ \A g \in Scanner \ {h} : /\ answer'[g] = answer[g] /\ tokens'[g] = tokens[g]
                                     /\ phase'[g] = phase[g]
        /\ moved' = moved
    BY <1>6 DEF RedactInPlace, Step, history, MaskInv, ScanTypes
  <2>3. \A s \in Secret : answer'[h][s] \in {Raw, PlaceholderOf[s]} \cup moved
    BY <2>2 DEF Replacements, TokensHome
  <2> QED BY <2>1, <2>2, <2>3 DEF TokensHome
<1>7. CASE Reply(h)
  <2>1. AtHome' /\ IndexedHome'
    BY <1>0, <1>7, SameHome DEF Reply
  <2>2. /\ tokens' = tokens /\ moved' = moved /\ phase'[h] = "idle"
        /\ \A g \in Scanner \ {h} : answer'[g] = answer[g] /\ phase'[g] = phase[g]
    BY <1>7 DEF Reply, Step, MaskInv, ScanTypes
  <2> QED BY <2>1, <2>2 DEF TokensHome
<1> QED BY <1>1, <1>2, <1>3, <1>4, <1>5, <1>6, <1>7, TextsAssumption DEF ScanStep

LEMMA NextHome == MaskInv /\ HomeInv /\ [DaemonNext]_dvars => HomeInv'
<1> SUFFICES ASSUME MaskInv, HomeInv, [DaemonNext]_dvars
             PROVE  HomeInv'
  OBVIOUS
<1>0. Listing
  BY DEF MaskInv
<1>1. CASE UNCHANGED dvars
  <2>1. UNCHANGED <<vars, moved>> /\ UNCHANGED scanVars
    BY <1>1 DEF dvars, history
  <2> QED BY <1>0, <2>1, SameHome DEF HomeInv, TokensHome, scanVars
<1>2. CASE RegisterRequest \/ EntryRequest \/ ReadRequest \/ RotateRequest \/ Shutdown
  <2>1. VaultStep /\ moved' = moved \cup Reused /\ UNCHANGED scanVars
    BY <1>2 DEF RegisterRequest, EntryRequest, ReadRequest, RotateRequest, Shutdown, Others,
                VaultStep, Follow
  <2>2. AtHome' /\ IndexedHome'
    BY <1>0, <2>1, VaultHome DEF HomeInv
  <2> QED BY <2>1, <2>2 DEF HomeInv, TokensHome, scanVars
<1> QED BY <1>1, <1>2, ScanHome DEF DaemonNext

\* For any use of the vault and any concurrent scans: a token in an answer never
\* resolves to another secret than the one it replaced, unless its placeholder
\* was rotated or two secrets hash to it.
THEOREM TokensNeverMislead == DaemonSpec => []TokenNeverMisleads
<1>1. DaemonInit => HomeInv
  BY DEF DaemonInit, Init, Empty, HomeInv, AtHome, IndexedHome, TokensHome
<1>2. MaskInv /\ HomeInv => TokenNeverMisleads
  <2> SUFFICES ASSUME MaskInv, HomeInv, NEW h \in Scanner, Answered(h),
                      NEW s \in request[h].text, Unshared(s),
                      answer[h][s] \in (DOMAIN byPH) \ moved
               PROVE  byPH[answer[h][s]].value = s
    BY DEF TokenNeverMisleads
  <2>1. /\ s \in Secret /\ DOMAIN byPH \subseteq Placeholder
        /\ byPH[answer[h][s]].value \in Secret
    BY DEF MaskInv, ScanTypes, Listing, TypeOK, Entry
  <2>2. answer[h][s] = PlaceholderOf[s]
    BY <2>1, RawAssumption DEF HomeInv, TokensHome, Answered
  <2>3. PlaceholderOf[byPH[answer[h][s]].value] = PlaceholderOf[s]
    BY <2>2 DEF HomeInv, AtHome
  <2> QED BY <2>1, <2>3 DEF Unshared
<1> QED BY <1>1, <1>2, MaskInit, NextMasks, NextHome, PTL DEF DaemonSpec
=============================================================================
