------------------------------ MODULE TextProofs ------------------------------
(***************************************************************************)
(* What rewrites texts loses nothing and leaves nothing raw: the redaction *)
(* loop, the file watcher and the paste filter, for inputs of any length,  *)
(* any files and any rules.                                                *)
(***************************************************************************)
EXTENDS Redact, PasteFilter, Watcher, SequenceTheorems, TLAPS

-----------------------------------------------------------------------------
\* MODULE Redact.

\* The inductive invariant of the loop.  The bytes before pos are settled: each
\* is copied or masked.  Of the matches already reached, those with a
\* placeholder have their first byte masked, because (LastKept) the last kept
\* match starts no later than anything still to come, so that a match that
\* starts before the cursor starts inside it.

Sets == /\ matches \subseteq Match
        /\ todo \subseteq matches
        /\ kept \subseteq matches \ todo
        /\ pos \in 0..N
        /\ done \in BOOLEAN
        /\ done => todo = {}

LastKept == IF kept = {}
            THEN cursor = -1 /\ pos = 0
            ELSE /\ cursor = pos
                 /\ \E k \in kept : k.end = pos /\ \A t \in todo : k.start <= t.start

KeptBehind == \A k \in kept : k.end <= pos

Settled == /\ copied \cap Masked = {}
           /\ copied \cup Masked = IF done THEN 0..(N - 1) ELSE 0..(pos - 1)

ReachedMasked == \A m \in matches \ todo : m.placeholder => m.start \in Masked

LoopInv == Sets /\ LastKept /\ KeptBehind /\ Settled /\ ReachedMasked /\ KeptDisjoint

LEMMA MatchFacts ==
    ASSUME NEW m \in Match
    PROVE  /\ m.start \in Nat /\ m.end \in Nat /\ m.start < m.end /\ m.end <= N
           /\ m.start \in Bytes(m)
           /\ \A i : i \in Bytes(m) <=> i \in Int /\ m.start <= i /\ i < m.end
BY NAssumption DEF Match, Bytes

LEMMA InitLoop == RedactInit => LoopInv
<1> SUFFICES ASSUME RedactInit
             PROVE  LoopInv
  OBVIOUS
<1>0. matches \subseteq Match
  BY InputsAssumption DEF RedactInit
<1>1. Sets
  <2>1. kept \subseteq matches \ todo /\ todo \subseteq matches /\ pos \in 0..N
    BY NAssumption DEF RedactInit
  <2>2. done = FALSE
    BY DEF RedactInit
  <2> QED BY <1>0, <2>1, <2>2 DEF Sets
<1>2. Masked = {} /\ 0..(0 - 1) = {}
  BY DEF RedactInit, Masked
<1>3. Settled
  BY <1>2 DEF RedactInit, Settled
<1>4. LastKept /\ KeptBehind /\ ReachedMasked /\ KeptDisjoint
  BY DEF RedactInit, LastKept, KeptBehind, ReachedMasked, KeptDisjoint
<1> QED BY <1>1, <1>3, <1>4 DEF LoopInv

LEMMA KeepLoop == ASSUME LoopInv, Keep PROVE LoopInv'
<1>1. PICK m \in Match :
         /\ IsNext(m) /\ m.placeholder /\ Fits(m)
         /\ todo' = todo \ {m} /\ kept' = kept \cup {m}
         /\ copied' = copied \cup Gap(m)
         /\ pos' = m.end /\ cursor' = m.end
         /\ matches' = matches /\ done' = done
  BY DEF Keep
<1>2. /\ m.start \in Nat /\ m.end \in Nat /\ m.start < m.end /\ m.end <= N
      /\ \A i : i \in Bytes(m) <=> i \in Int /\ m.start <= i /\ i < m.end
      /\ m.start \in Bytes(m)
  BY MatchFacts
<1>3. /\ m \in todo /\ m \in matches /\ m \notin kept /\ ~done
      /\ \A t \in todo : t \in Match /\ m.start <= t.start
  <2>1. m \in todo /\ \A t \in todo : ~Precedes(t, m)
    BY <1>1 DEF IsNext
  <2>2. todo \subseteq matches /\ matches \subseteq Match /\ kept \subseteq matches \ todo
        /\ (done => todo = {})
    BY DEF LoopInv, Sets
  <2>3. ASSUME NEW t \in todo PROVE t \in Match /\ m.start <= t.start
    <3>1. t \in Match
      BY <2>2
    <3>2. t.start \in Nat
      BY <3>1, MatchFacts
    <3> QED BY <3>1, <3>2, <2>1, <1>2 DEF Precedes
  <2> QED BY <2>1, <2>2, <2>3
<1>4. pos \in Nat /\ pos <= m.start
  <2>1. pos \in Nat
    BY NAssumption DEF LoopInv, Sets
  <2> QED BY <2>1, <1>1, <1>2 DEF LoopInv, LastKept, Fits
<1>5. Sets'
  BY <1>1, <1>2, <1>3, NAssumption DEF LoopInv, Sets
<1>6. LastKept'
  BY <1>1, <1>3 DEF LastKept
<1>7. KeptBehind'
  <2>1. ASSUME NEW k \in kept PROVE k.end <= m.end
    <3>1. k \in Match /\ k.end <= pos
      BY DEF LoopInv, Sets, KeptBehind
    <3>2. k.end \in Nat
      BY <3>1, MatchFacts
    <3> QED BY <3>1, <3>2, <1>2, <1>4
  <2> QED BY <2>1, <1>1, <1>2 DEF KeptBehind
<1>8. Masked' = Masked \cup Bytes(m)
  BY <1>1 DEF Masked
<1>9. \A i \in Masked : i \in Int /\ i < pos
  <2> SUFFICES ASSUME NEW i \in Masked PROVE i \in Int /\ i < pos
    OBVIOUS
  <2>1. copied \cup Masked = 0..(pos - 1)
    BY <1>3 DEF LoopInv, Settled
  <2> QED BY <2>1, <1>4
<1>10. Settled'
  <2>1. copied \cap Masked = {} /\ copied \cup Masked = 0..(pos - 1)
    BY <1>3 DEF LoopInv, Settled
  <2>2. \A i : i \in Gap(m) <=> i \in Int /\ pos <= i /\ i < m.start
    BY <1>2, <1>4 DEF Gap
  <2>3. copied' \cap Masked' = {}
    BY <2>1, <2>2, <1>1, <1>2, <1>4, <1>8
  <2>4. \A i : i \in copied' \cup Masked' <=> i \in 0..(m.end - 1)
    <3> TAKE i
    <3>1. i \in copied' \cup Masked' <=>
             i \in 0..(pos - 1) \/ i \in Gap(m) \/ i \in Bytes(m)
      BY <2>1, <1>1, <1>8
    <3> QED BY <3>1, <2>2, <1>2, <1>4
  <2> QED BY <2>3, <2>4, <1>1, <1>3 DEF Settled
<1>11. ReachedMasked'
  BY <1>1, <1>2, <1>8 DEF LoopInv, ReachedMasked
<1>12. KeptDisjoint'
  <2>1. ASSUME NEW k \in kept PROVE ~Overlap(m, k) /\ ~Overlap(k, m)
    <3>1. Bytes(k) \subseteq Masked
      BY DEF Masked
    <3>2. Bytes(k) \cap Bytes(m) = {}
      BY <3>1, <1>2, <1>4, <1>9
    <3> QED BY <3>2 DEF Overlap
  <2> QED BY <2>1, <1>1 DEF LoopInv, KeptDisjoint, Overlap
<1> QED BY <1>5, <1>6, <1>7, <1>10, <1>11, <1>12 DEF LoopInv

LEMMA SkipLoop == ASSUME LoopInv, Skip PROVE LoopInv'
<1>1. PICK m \in Match :
         /\ IsNext(m) /\ ~(m.placeholder /\ Fits(m))
         /\ todo' = todo \ {m}
         /\ UNCHANGED <<matches, kept, cursor, pos, copied, done>>
  BY DEF Skip
<1>2. m.start \in Nat
  BY MatchFacts
<1>3. m \in todo
  BY <1>1 DEF IsNext
<1>4. m.placeholder => m.start \in Masked
  <2> SUFFICES ASSUME ~Fits(m)
               PROVE  m.start \in Masked
    BY <1>1
  <2>1. m.start < cursor /\ kept # {} /\ cursor = pos
    BY <1>2, NAssumption DEF Fits, LoopInv, LastKept, Sets
  <2>2. PICK k \in kept : k.end = pos /\ k.start <= m.start
    BY <2>1, <1>3 DEF LoopInv, LastKept
  <2>3. k \in Match
    BY DEF LoopInv, Sets
  <2>4. m.start \in Bytes(k)
    BY <2>1, <2>2, <2>3, <1>2, MatchFacts
  <2> QED BY <2>4 DEF Masked
<1>5. Masked' = Masked
  BY <1>1 DEF Masked
<1>6. Sets' /\ LastKept' /\ KeptBehind' /\ KeptDisjoint'
  BY <1>1 DEF LoopInv, Sets, LastKept, KeptBehind, KeptDisjoint
<1>7. Settled'
  BY <1>1, <1>5 DEF LoopInv, Settled
<1>8. ReachedMasked'
  BY <1>1, <1>4, <1>5 DEF LoopInv, ReachedMasked
<1> QED BY <1>6, <1>7, <1>8 DEF LoopInv

LEMMA FinishLoop == ASSUME LoopInv, Finish PROVE LoopInv'
<1>1. Masked' = Masked
  BY DEF Finish, Masked
<1>2. Sets' /\ LastKept' /\ KeptBehind' /\ KeptDisjoint' /\ ReachedMasked'
  BY <1>1 DEF Finish, LoopInv, Sets, LastKept, KeptBehind, KeptDisjoint, ReachedMasked
<1>3. Settled'
  <2>1. copied \cap Masked = {} /\ copied \cup Masked = 0..(pos - 1)
    BY DEF Finish, LoopInv, Settled
  <2>2. pos \in Nat /\ pos <= N /\ N \in Nat
    BY NAssumption DEF LoopInv, Sets
  <2>3. copied' = copied \cup pos..(N - 1) /\ done' = TRUE
    BY DEF Finish
  <2>4. copied' \cap Masked' = {}
    BY <2>1, <2>2, <2>3, <1>1
  <2>5. copied' \cup Masked' = 0..(N - 1)
    BY <2>1, <2>2, <2>3, <1>1
  <2> QED BY <2>3, <2>4, <2>5 DEF Settled
<1> QED BY <1>2, <1>3 DEF LoopInv

LEMMA NextLoop == LoopInv /\ [RedactNext]_redactVars => LoopInv'
<1> SUFFICES ASSUME LoopInv, [RedactNext]_redactVars
             PROVE  LoopInv'
  OBVIOUS
<1>1. CASE UNCHANGED redactVars
  BY <1>1 DEF redactVars, LoopInv, Sets, LastKept, KeptBehind, Settled, ReachedMasked,
              KeptDisjoint, Masked
<1> QED BY <1>1, KeepLoop, SkipLoop, FinishLoop DEF RedactNext

\* The output is a partition of the input into copied and masked bytes.
THEOREM RedactPartition == RedactSpec => []Partition
<1>1. LoopInv => Partition
  BY DEF LoopInv, Settled, Partition
<1> QED BY <1>1, InitLoop, NextLoop, PTL DEF RedactSpec

\* No two replaced matches overlap.
THEOREM RedactDisjoint == RedactSpec => []KeptDisjoint
<1>1. LoopInv => KeptDisjoint
  BY DEF LoopInv
<1> QED BY <1>1, InitLoop, NextLoop, PTL DEF RedactSpec

\* No registered match is left whole: at least its first byte is masked.
THEOREM RedactFirstByte == RedactSpec => []FirstByteMasked
<1>1. LoopInv => FirstByteMasked
  BY DEF LoopInv, Sets, ReachedMasked, FirstByteMasked
<1> QED BY <1>1, InitLoop, NextLoop, PTL DEF RedactSpec
-----------------------------------------------------------------------------
\* MODULE Watcher.  What was read of a file is all that is in it until somebody
\* writes to it again (Carried), and only the files of a "redact" rule get as
\* far as the rename (AtWork).

Lines == SUBSET Line

WatcherTypes ==
    /\ raw \in [Files -> Lines] /\ masked \in [Files -> Lines] /\ written \in [Files -> Lines]
    /\ data \in [raw : Lines, masked : Lines]
    /\ current \in Files
    /\ pc \in {"idle", "read", "scan", "rename", "remove"}

AtWork ==
    /\ pc \in {"read", "scan", "rename"} => Action[current] = "redact"
    /\ pc = "remove" => Action[current] = "purge"

Carried ==
    pc \in {"scan", "rename"} /\ current \notin raced =>
        data.raw \cup data.masked = raw[current] \cup masked[current]

WatcherInv == WatcherTypes /\ AtWork /\ Carried /\ Kept

LEMMA InitWatcher == WatcherInit => WatcherInv
BY DEF WatcherInit, WatcherInv, WatcherTypes, Lines, AtWork, Carried, Kept, Nothing

\* The agent adds a line to what it has written and to what is there.
LEMMA WriteKeeps ==
    ASSUME WatcherInv, NEW f \in Files, NEW l \in Line, AgentWrite(f, l)
    PROVE  WatcherInv'
<1>1. WatcherTypes'
  BY DEF WatcherInv, WatcherTypes, Lines, AgentWrite
<1>2. AtWork'
  BY DEF WatcherInv, AtWork, AgentWrite
<1>3. raced \subseteq raced'
  BY DEF AgentWrite
<1>4. Carried'
  BY <1>3 DEF WatcherInv, WatcherTypes, Carried, AgentWrite
<1>5. Kept'
  BY <1>3 DEF WatcherInv, WatcherTypes, Lines, Kept, AgentWrite
<1> QED BY <1>1, <1>2, <1>4, <1>5 DEF WatcherInv

\* The events and the clock touch no file.
LEMMA EventsKeep ==
    ASSUME WatcherInv, NEW f \in Files, Expire(f) \/ Debounce(f) \/ Handle(f)
    PROVE  WatcherInv'
<1>1. CASE Expire(f)
  BY <1>1 DEF Expire, WatcherInv, WatcherTypes, AtWork, Carried, Kept
<1>2. CASE Debounce(f)
  BY <1>2 DEF Debounce, history, WatcherInv, WatcherTypes, AtWork, Carried, Kept
<1>3. CASE Handle(f)
  BY <1>3, ActionAssumption DEF Handle, history, WatcherInv, WatcherTypes, AtWork, Carried, Kept
<1> QED BY <1>1, <1>2, <1>3

\* What a file is read, scanned and replaced by has the same lines in it.
LEMMA RedactionKeeps ==
    ASSUME WatcherInv, ReadFile \/ ScanFound \/ ScanClean \/ Fails \/ Rename
    PROVE  WatcherInv'
<1> USE DEF WatcherInv, WatcherTypes, Lines, AtWork, Carried, Kept, history
<1>1. CASE ReadFile
  BY <1>1 DEF ReadFile, Content
<1>2. CASE ScanFound
  BY <1>2 DEF ScanFound, Redacted, Secrets
<1>3. CASE ScanClean
  BY <1>3 DEF ScanClean, Done, Nothing
<1>4. CASE Fails
  BY <1>4 DEF Fails, Done, Nothing
<1>5. CASE Rename
  <2>1. /\ raw' = [raw EXCEPT ![current] = data.raw]
        /\ masked' = [masked EXCEPT ![current] = data.masked]
        /\ pc = "rename" /\ pc' = "idle" /\ data' = [raw |-> {}, masked |-> {}]
        /\ UNCHANGED <<written, current, raced>>
    BY <1>5 DEF Rename, Done, Nothing
  <2>2. WatcherTypes' /\ AtWork' /\ Carried'
    BY <2>1
  <2>3. ASSUME NEW f \in Files \ raced, Action[f] = "redact"
        PROVE  written[f] = raw'[f] \cup masked'[f]
    <3>1. written[f] = raw[f] \cup masked[f]
      BY <2>3
    <3>2. CASE f = current
      BY <3>1, <3>2, <2>1
    <3>3. CASE f # current
      BY <3>1, <3>3, <2>1
    <3> QED BY <3>2, <3>3
  <2> QED BY <2>1, <2>2, <2>3
<1> QED BY <1>1, <1>2, <1>3, <1>4, <1>5

\* Only a file that is to be purged is removed.
LEMMA RemoveKeeps == ASSUME WatcherInv, Remove PROVE WatcherInv'
BY DEF Remove, WatcherInv, WatcherTypes, Lines, AtWork, Carried, Kept, history

LEMMA NextWatcher == WatcherInv /\ [WatcherNext]_watcherVars => WatcherInv'
<1> SUFFICES ASSUME WatcherInv, [WatcherNext]_watcherVars
             PROVE  WatcherInv'
  OBVIOUS
<1>1. CASE UNCHANGED watcherVars
  BY <1>1 DEF watcherVars, history, WatcherInv, WatcherTypes, AtWork, Carried, Kept
<1> QED BY <1>1, WriteKeeps, EventsKeep, RedactionKeeps, RemoveKeeps
        DEF WatcherNext, Watch, Work, Write, Tick

\* Whatever the rules are: a redaction loses no line that the agent wrote, but
\* those it wrote between the read and the rename.
THEOREM WatcherKeeps == WatcherSpec => []Kept
<1>1. WatcherInv => Kept
  BY DEF WatcherInv
<1> QED BY <1>1, InitWatcher, NextWatcher, PTL DEF WatcherSpec
-----------------------------------------------------------------------------
\* MODULE PasteFilter.  The loop never loses its place in the stream (Aligned):
\* what is out, held back and still in the chunk lie one behind the other.
\* Outside a paste every begin marker so far has its end marker, or a read
\* has cut one (NormalInv); inside one there is no end marker since the begin
\* marker that was the last thing to come out, or a read has cut one (PasteInv).

Symbol == Byte \cup Masks
Markers == {PasteBegin, PasteEnd}

\* x comes out for the byte y.
Stands(x, y) == x = y \/ (x = "p1" /\ y = "s1") \/ (x = "p2" /\ y = "s2")

\* t is what s has after its first c bytes; t is what comes out for it; and no
\* pasted secret shows in t.
Reads(t, s, c) ==
    /\ t \in Seq(Symbol) /\ c \in Nat /\ c + Len(t) <= Len(s)
    /\ \A k \in 1..Len(t) : t[k] = s[c + k]
Shows(t, s, c) ==
    /\ t \in Seq(Symbol) /\ c \in Nat /\ c + Len(t) <= Len(s)
    /\ \A k \in 1..Len(t) : Stands(t[k], s[c + k])
Covers(t, s, c) == \A k \in 1..Len(t) : PastedSecret(s, c + k) => t[k] = "p1"

Consumed == Len(out) + Len(buffered)

Aligned ==
    /\ stream \in Seq(Byte)
    /\ Shows(out, stream, 0)
    /\ Reads(buffered, stream, Len(out))
    /\ Reads(rest, stream, Consumed)
    /\ Consumed + Len(rest) = at

CutsNoted == \A m \in Markers : m \notin cut => ~MarkerAt(stream, m, at)

AllEnded(s, c) ==
    \A b \in 1..c : MarkerAt(s, PasteBegin, b) =>
        \E e \in b..c - 1 : MarkerAt(s, PasteEnd, e)

NormalInv ==
    state = "normal" => /\ buffered = <<>>
                        /\ PasteBegin \notin cut => AllEnded(stream, Consumed)

PasteInv ==
    state = "paste" =>
        /\ MarkerAt(stream, PasteBegin, Len(out) - 1)
        /\ PasteEnd \notin cut =>
               \A e \in Len(out) + 1..Consumed : ~MarkerAt(stream, PasteEnd, e)

SecretsMasked == PasteBegin \notin cut /\ ~outage => Covers(out, stream, 0)

FilterInv ==
    /\ Aligned /\ CutsNoted
    /\ state \in {"normal", "paste"} /\ NormalInv /\ PasteInv
    /\ SecretsMasked

\* The bytes at a marker.
LEMMA MarkerFacts ==
    ASSUME NEW s, NEW i
    PROVE  /\ MarkerAt(s, PasteBegin, i) <=>
                 i \in 1..Len(s) - 1 /\ s[i] = "esc" /\ s[i + 1] = "200"
           /\ MarkerAt(s, PasteEnd, i) <=>
                 i \in 1..Len(s) - 1 /\ s[i] = "esc" /\ s[i + 1] = "201"
           /\ MarkerAt(s, Secret, i) <=>
                 i \in 1..Len(s) - 1 /\ s[i] = "s1" /\ s[i + 1] = "s2"
BY DEF MarkerAt, PasteBegin, PasteEnd, Secret

LEMMA ReadsShows == ASSUME NEW t, NEW s, NEW c, Reads(t, s, c) PROVE Shows(t, s, c)
BY DEF Reads, Shows, Stands

LEMMA ConcatFacts ==
    ASSUME NEW t \in Seq(Symbol), NEW u \in Seq(Symbol)
    PROVE  /\ t \o u \in Seq(Symbol) /\ Len(t \o u) = Len(t) + Len(u)
           /\ \A k \in 1..Len(t) : (t \o u)[k] = t[k]
           /\ \A k \in 1..Len(u) : (t \o u)[Len(t) + k] = u[k]
OBVIOUS

\* The same, by position.
LEMMA ConcatAt ==
    ASSUME NEW t \in Seq(Symbol), NEW u \in Seq(Symbol), NEW k \in 1..Len(t \o u)
    PROVE  \/ k \in 1..Len(t) /\ (t \o u)[k] = t[k]
           \/ /\ k - Len(t) \in 1..Len(u) /\ (t \o u)[k] = u[k - Len(t)]
              /\ \A c \in Nat : (c + Len(t)) + (k - Len(t)) = c + k
OBVIOUS

LEMMA JoinReads ==
    ASSUME NEW t, NEW u, NEW s, NEW c, Reads(t, s, c), Reads(u, s, c + Len(t))
    PROVE  Reads(t \o u, s, c) /\ Len(t \o u) = Len(t) + Len(u)
<1>1. /\ t \in Seq(Symbol) /\ u \in Seq(Symbol) /\ c \in Nat
      /\ (c + Len(t)) + Len(u) <= Len(s)
      /\ \A k \in 1..Len(t) : t[k] = s[c + k]
      /\ \A k \in 1..Len(u) : u[k] = s[(c + Len(t)) + k]
  BY DEF Reads
<1>2. t \o u \in Seq(Symbol) /\ Len(t \o u) = Len(t) + Len(u)
  BY <1>1, ConcatFacts
<1>3. ASSUME NEW k \in 1..Len(t \o u) PROVE (t \o u)[k] = s[c + k]
  <2>1. CASE k \in 1..Len(t) /\ (t \o u)[k] = t[k]
    BY <2>1, <1>1
  <2>2. CASE /\ k - Len(t) \in 1..Len(u) /\ (t \o u)[k] = u[k - Len(t)]
             /\ (c + Len(t)) + (k - Len(t)) = c + k
    <3>1. u[k - Len(t)] = s[(c + Len(t)) + (k - Len(t))]
      BY <2>2, <1>1, Zenon
    <3> QED BY <3>1, <2>2, Zenon
  <2> QED BY <2>1, <2>2, <1>1, ConcatAt, ZenonT(40)
<1>4. c + Len(t \o u) <= Len(s)
  <2>1. Len(t) \in Nat /\ Len(u) \in Nat
    BY <1>1
  <2> QED BY <2>1, <1>1, <1>2
<1> QED BY <1>1, <1>2, <1>3, <1>4 DEF Reads

LEMMA JoinShows ==
    ASSUME NEW t, NEW u, NEW s, NEW c, Shows(t, s, c), Shows(u, s, c + Len(t))
    PROVE  Shows(t \o u, s, c) /\ Len(t \o u) = Len(t) + Len(u)
<1>1. /\ t \in Seq(Symbol) /\ u \in Seq(Symbol) /\ c \in Nat
      /\ (c + Len(t)) + Len(u) <= Len(s)
      /\ \A k \in 1..Len(t) : Stands(t[k], s[c + k])
      /\ \A k \in 1..Len(u) : Stands(u[k], s[(c + Len(t)) + k])
  BY DEF Shows
<1>2. t \o u \in Seq(Symbol) /\ Len(t \o u) = Len(t) + Len(u)
  BY <1>1, ConcatFacts
<1>3. ASSUME NEW k \in 1..Len(t \o u) PROVE Stands((t \o u)[k], s[c + k])
  <2>1. CASE k \in 1..Len(t) /\ (t \o u)[k] = t[k]
    BY <2>1, <1>1, Zenon
  <2>2. CASE /\ k - Len(t) \in 1..Len(u) /\ (t \o u)[k] = u[k - Len(t)]
             /\ (c + Len(t)) + (k - Len(t)) = c + k
    <3>1. Stands(u[k - Len(t)], s[(c + Len(t)) + (k - Len(t))])
      BY <2>2, <1>1, Zenon
    <3> QED BY <3>1, <2>2, Zenon
  <2> QED BY <2>1, <2>2, <1>1, ConcatAt, ZenonT(40)
<1>4. c + Len(t \o u) <= Len(s)
  <2>1. Len(t) \in Nat /\ Len(u) \in Nat
    BY <1>1
  <2> QED BY <2>1, <1>1, <1>2
<1> QED BY <1>1, <1>2, <1>3, <1>4 DEF Shows

LEMMA JoinCovers ==
    ASSUME NEW t \in Seq(Symbol), NEW u \in Seq(Symbol), NEW s, NEW c \in Nat,
           Covers(t, s, c), Covers(u, s, c + Len(t))
    PROVE  Covers(t \o u, s, c)
<1> SUFFICES ASSUME NEW k \in 1..Len(t \o u), PastedSecret(s, c + k)
             PROVE  (t \o u)[k] = "p1"
  BY DEF Covers
<1>1. CASE k \in 1..Len(t) /\ (t \o u)[k] = t[k]
  BY <1>1, Zenon DEF Covers
<1>2. CASE /\ k - Len(t) \in 1..Len(u) /\ (t \o u)[k] = u[k - Len(t)]
           /\ (c + Len(t)) + (k - Len(t)) = c + k
  <2>1. PastedSecret(s, (c + Len(t)) + (k - Len(t)))
    BY <1>2, Zenon
  <2> QED BY <2>1, <1>2, Zenon DEF Covers
<1> QED BY <1>1, <1>2, ConcatAt, Zenon

\* Part of a text, from the byte after the i-th to the j-th.
LEMMA PartReads ==
    ASSUME NEW t, NEW s, NEW c, Reads(t, s, c), NEW i \in 0..Len(t), NEW j \in i..Len(t)
    PROVE  /\ Reads(SubSeq(t, i + 1, j), s, c + i)
           /\ Len(SubSeq(t, i + 1, j)) = j - i
<1>1. /\ t \in Seq(Symbol) /\ Len(t) \in Nat /\ c \in Nat /\ c + Len(t) <= Len(s)
      /\ \A k \in 1..Len(t) : t[k] = s[c + k]
  BY DEF Reads
<1>2. /\ SubSeq(t, i + 1, j) \in Seq(Symbol) /\ Len(SubSeq(t, i + 1, j)) = j - i
      /\ \A k \in 1..j - i : SubSeq(t, i + 1, j)[k] = t[i + k]
  BY <1>1
<1>3. ASSUME NEW k \in 1..j - i PROVE SubSeq(t, i + 1, j)[k] = s[(c + i) + k]
  <2>1. i + k \in 1..Len(t) /\ c + (i + k) = (c + i) + k
    BY <1>1
  <2> QED BY <2>1, <1>1, <1>2, Zenon
<1>4. (c + i) + (j - i) <= Len(s) /\ c + i \in Nat
  BY <1>1
<1> QED BY <1>2, <1>3, <1>4 DEF Reads

\* What is read from one place has the same bytes.
LEMMA SameReading ==
    ASSUME NEW t, NEW u, NEW s, NEW c, Reads(t, s, c), Reads(u, s, c), Len(t) = Len(u)
    PROVE  t = u
<1>1. t \in Seq(Symbol) /\ u \in Seq(Symbol) /\ \A k \in 1..Len(t) : t[k] = u[k]
  BY DEF Reads
<1> QED BY <1>1, SeqEqual

\* A marker in a text is one of the stream, and the other way round.
LEMMA MarkersRead ==
    ASSUME NEW t, NEW s \in Seq(Symbol), NEW c, Reads(t, s, c), NEW m, NEW i \in 1..Len(t) - 1
    PROVE  MarkerAt(t, m, i) <=> MarkerAt(s, m, c + i)
<1>1. /\ t \in Seq(Symbol) /\ Len(t) \in Nat /\ c \in Nat /\ c + Len(t) <= Len(s)
      /\ Len(s) \in Nat
  BY DEF Reads
<1>2. i \in 1..Len(t) /\ i + 1 \in 1..Len(t) /\ c + (i + 1) = (c + i) + 1
      /\ c + i \in 1..Len(s) - 1
  BY <1>1
<1>3. t[i] = s[c + i] /\ t[i + 1] = s[(c + i) + 1]
  BY <1>2 DEF Reads
<1> QED BY <1>2, <1>3, Zenon DEF MarkerAt

LEMMA MarkReads ==
    ASSUME NEW m \in Markers, NEW s \in Seq(Symbol), NEW c \in Nat, MarkerAt(s, m, c + 1)
    PROVE  Reads(m, s, c) /\ Covers(m, s, c) /\ Len(m) = 2
<1>1. /\ m \in Seq(Symbol) /\ Len(m) = 2 /\ m[1] # "s1" /\ m[2] # "s1"
      /\ \A k \in 1..Len(m) : k = 1 \/ k = 2
  <2>1. m = <<"esc", "200">> \/ m = <<"esc", "201">>
    BY DEF Markers, PasteBegin, PasteEnd
  <2>2. {"esc", "200", "201"} \subseteq Symbol
    BY DEF Symbol, Byte
  <2>3. CASE m = <<"esc", "200">>
    BY <2>2, <2>3
  <2>4. CASE m = <<"esc", "201">>
    BY <2>2, <2>4
  <2> QED BY <2>1, <2>3, <2>4
<1>2. /\ c + 1 \in 1..Len(s) - 1 /\ s[c + 1] = m[1] /\ s[(c + 1) + 1] = m[2]
      /\ (c + 1) + 1 = c + 2 /\ c + 2 <= Len(s)
  BY DEF MarkerAt
<1>3. Reads(m, s, c)
  BY <1>1, <1>2 DEF Reads
<1>4. Covers(m, s, c)
  <2> SUFFICES ASSUME NEW k \in 1..Len(m) PROVE ~MarkerAt(s, Secret, c + k)
    BY DEF Covers, PastedSecret
  <2>1. s[c + k] # "s1"
    BY <1>1, <1>2
  <2> QED BY <2>1, MarkerFacts
<1> QED BY <1>1, <1>3, <1>4

\* Masking keeps the length and replaces secrets only, but those that go on
\* behind the text.
LEMMA MaskShows ==
    ASSUME NEW t, NEW s \in Seq(Symbol), NEW c, Reads(t, s, c)
    PROVE  /\ Shows(Mask(t), s, c) /\ Len(Mask(t)) = Len(t)
           /\ ~MarkerAt(s, Secret, c + Len(t)) => Covers(Mask(t), s, c)
<1>1. /\ t \in Seq(Symbol) /\ Len(t) \in Nat /\ c \in Nat /\ c + Len(t) <= Len(s)
      /\ DOMAIN t = 1..Len(t)
      /\ \A k \in 1..Len(t) : t[k] = s[c + k]
  BY DEF Reads
<1>2. ASSUME NEW k \in 1..Len(t)
      PROVE  /\ Mask(t)[k] \in Symbol
             /\ Stands(Mask(t)[k], t[k])
             /\ MarkerAt(t, Secret, k) => Mask(t)[k] = "p1"
  <2>1. Mask(t)[k] = CASE MarkerAt(t, Secret, k) -> "p1"
                       [] MarkerAt(t, Secret, k - 1) -> "p2"
                       [] OTHER -> t[k]
    BY <1>1 DEF Mask
  <2>2. /\ MarkerAt(t, Secret, k) => t[k] = "s1"
        /\ MarkerAt(t, Secret, k - 1) => t[k] = "s2"
    BY <1>1, MarkerFacts
  <2>3. t[k] \in Symbol
    BY <1>1
  <2>4. CASE MarkerAt(t, Secret, k)
    <3>1. ~MarkerAt(t, Secret, k - 1)
      BY <2>4, <2>2
    <3> QED BY <2>1, <2>2, <2>4, <3>1 DEF Stands, Symbol, Masks
  <2>5. CASE ~MarkerAt(t, Secret, k)
    BY <2>1, <2>2, <2>3, <2>5 DEF Stands, Symbol, Masks
  <2> QED BY <2>4, <2>5
<1>3. Mask(t) \in Seq(Symbol) /\ Len(Mask(t)) = Len(t)
  <2>1. Mask(t) = [k \in 1..Len(t) |-> Mask(t)[k]]
    BY <1>1 DEF Mask
  <2> QED BY <2>1, <1>1, <1>2
<1>4. Shows(Mask(t), s, c)
  BY <1>1, <1>2, <1>3 DEF Shows
<1>5. ASSUME ~MarkerAt(s, Secret, c + Len(t)) PROVE Covers(Mask(t), s, c)
  <2> SUFFICES ASSUME NEW k \in 1..Len(t), MarkerAt(s, Secret, c + k)
               PROVE  Mask(t)[k] = "p1"
    BY <1>3 DEF Covers, PastedSecret
  <2>1. k \in 1..Len(t) - 1
    BY <1>1, <1>5
  <2>2. MarkerAt(t, Secret, k)
    BY <2>1, MarkersRead
  <2> QED BY <2>2, <1>2
<1> QED BY <1>3, <1>4, <1>5

\* Behind a place up to which all pastes have ended, a secret is in a paste
\* that begins behind that place.
LEMMA SecretBehind ==
    ASSUME Aligned, NEW c \in Nat, AllEnded(stream, c),
           NEW j \in Nat, j > c, PastedSecret(stream, j)
    PROVE  \E b \in c + 1..j - 2 : MarkerAt(stream, PasteBegin, b)
<1>1. j \in 1..Len(stream) - 1 /\ stream[j] = "s1"
  BY MarkerFacts DEF PastedSecret
<1>2. PICK b \in 1..j : /\ MarkerAt(stream, PasteBegin, b)
                        /\ \A e \in b..j : ~MarkerAt(stream, PasteEnd, e)
  BY DEF PastedSecret
<1>3. b \in 1..Len(stream) - 1 /\ stream[b] = "esc" /\ stream[b + 1] = "200"
  BY <1>2, MarkerFacts
<1>4. b # j /\ b + 1 # j
  BY <1>1, <1>3
<1>5. b > c
  <2> SUFFICES ASSUME b <= c PROVE FALSE
    BY <1>2
  <2>1. PICK e \in b..c - 1 : MarkerAt(stream, PasteEnd, e)
    BY <1>2 DEF AllEnded
  <2>2. e \in b..j
    OBVIOUS
  <2> QED BY <1>2, <2>1, <2>2
<1> QED BY <1>2, <1>4, <1>5

LEMMA InitFilter == FilterInit => FilterInv
<1> SUFFICES ASSUME FilterInit
             PROVE  FilterInv
  OBVIOUS
<1>1. /\ stream \in Seq(Byte)
      /\ at = 0 /\ rest = <<>> /\ buffered = <<>> /\ out = <<>> /\ state = "normal"
  BY StreamsAssumption DEF FilterInit
<1>2. Consumed = 0 /\ Len(stream) \in Nat
  BY <1>1 DEF Consumed
<1>3. Reads(<<>>, stream, 0) /\ Shows(<<>>, stream, 0) /\ Covers(<<>>, stream, 0)
  BY <1>2 DEF Reads, Shows, Covers
<1>4. Aligned
  BY <1>1, <1>2, <1>3 DEF Aligned
<1>5. CutsNoted
  BY <1>1 DEF CutsNoted, MarkerAt
<1>6. NormalInv /\ PasteInv /\ SecretsMasked
  BY <1>1, <1>2, <1>3 DEF NormalInv, AllEnded, PasteInv, SecretsMasked
<1> QED BY <1>1, <1>4, <1>5, <1>6 DEF FilterInv

\* What the invariant says of the lengths.
LEMMA Places ==
    ASSUME Aligned
    PROVE  /\ stream \in Seq(Symbol) /\ Len(stream) \in Nat
           /\ out \in Seq(Symbol) /\ buffered \in Seq(Symbol) /\ rest \in Seq(Symbol)
           /\ Len(out) \in Nat /\ Len(buffered) \in Nat /\ Len(rest) \in Nat
           /\ Consumed \in Nat /\ Consumed = Len(out) + Len(buffered)
           /\ Consumed + Len(rest) = at /\ at \in Nat /\ at <= Len(stream)
<1>1. stream \in Seq(Symbol)
  BY DEF Aligned, Symbol
<1>2. out \in Seq(Symbol) /\ buffered \in Seq(Symbol) /\ rest \in Seq(Symbol)
  BY DEF Aligned, Shows, Reads
<1>3. Consumed + Len(rest) <= Len(stream) /\ Consumed + Len(rest) = at
  BY DEF Aligned, Reads
<1> QED BY <1>1, <1>2, <1>3 DEF Consumed

\* A read: the chunk is what comes next in the stream.
LEMMA ReadKeeps ==
    ASSUME FilterInv, NEW n \in 1..Len(stream), Read(n)
    PROVE  FilterInv'
<1>1. /\ rest = <<>> /\ at + n <= Len(stream)
      /\ rest' = SubSeq(stream, at + 1, at + n) /\ at' = at + n
      /\ cut' = cut \cup {m \in Markers : MarkerAt(stream, m, at + n)}
      /\ UNCHANGED <<stream, state, buffered, out, outage>>
  BY DEF Read, Markers
<1>2. Aligned
  BY DEF FilterInv
<1>3. Consumed = at /\ Consumed' = Consumed /\ at \in Nat /\ Len(stream) \in Nat
  BY <1>1, <1>2, Places DEF Consumed
<1>4. Reads(stream, stream, 0)
  BY <1>2, Places DEF Reads
<1>5. Reads(rest', stream, 0 + at) /\ Len(rest') = (at + n) - at
  BY <1>1, <1>3, <1>4, PartReads
<1>6. Aligned'
  BY <1>1, <1>2, <1>3, <1>5 DEF Aligned
<1>7. CutsNoted'
  BY <1>1 DEF CutsNoted
<1>8. NormalInv' /\ PasteInv' /\ SecretsMasked'
  BY <1>1, <1>3 DEF FilterInv, NormalInv, PasteInv, AllEnded, SecretsMasked
<1> QED BY <1>1, <1>6, <1>7, <1>8 DEF FilterInv

\* Before the first begin marker of the chunk there is no secret.
LEMMA NothingToMask ==
    ASSUME FilterInv, state = "normal", PasteBegin \notin cut,
           NEW i \in 0..Len(rest), \A k \in 1..i - 1 : ~MarkerAt(rest, PasteBegin, k),
           NEW t, Reads(t, stream, Consumed), Len(t) = i
    PROVE  Covers(t, stream, Consumed)
<1>1. Aligned /\ AllEnded(stream, Consumed) /\ Consumed \in Nat /\ Len(rest) \in Nat
      /\ stream \in Seq(Symbol)
  BY Places DEF FilterInv, NormalInv
<1> SUFFICES ASSUME NEW j \in 1..i, PastedSecret(stream, Consumed + j)
             PROVE  FALSE
  BY DEF Covers
<1>2. Consumed + j \in Nat /\ Consumed + j > Consumed
  BY <1>1
<1>3. PICK b \in Consumed + 1..(Consumed + j) - 2 : MarkerAt(stream, PasteBegin, b)
  BY <1>1, <1>2, SecretBehind
<1>4. /\ b - Consumed \in 1..i - 1 /\ b - Consumed \in 1..Len(rest) - 1
      /\ Consumed + (b - Consumed) = b
  BY <1>1
<1>5. Reads(rest, stream, Consumed)
  BY <1>1 DEF Aligned
<1>6. MarkerAt(rest, PasteBegin, b - Consumed)
  BY <1>1, <1>3, <1>4, <1>5, MarkersRead
<1> QED BY <1>4, <1>6

\* The chunk at a marker: the text before it, the marker, and what is after it.
LEMMA ChunkSplit ==
    ASSUME Aligned, NEW m \in Markers, NEW i, MarkerAt(rest, m, i)
    PROVE  /\ i \in 1..Len(rest) - 1
           /\ Reads(Before(i), stream, Consumed) /\ Len(Before(i)) = i - 1
           /\ MarkerAt(stream, m, Consumed + i)
           /\ Reads(After(i), stream, Consumed + i + 1)
           /\ Len(After(i)) = Len(rest) - (i + 1)
<1>1. Reads(rest, stream, Consumed) /\ Len(rest) \in Nat /\ Consumed \in Nat
      /\ stream \in Seq(Symbol)
  BY Places DEF Aligned
<1>2. i \in 1..Len(rest) - 1
  BY DEF MarkerAt
<1>3. 0 \in 0..Len(rest) /\ i - 1 \in 0..Len(rest) /\ (i - 1) - 0 = i - 1
      /\ Consumed + 0 = Consumed /\ 0 + 1 = 1
  BY <1>1, <1>2
<1>4. Reads(Before(i), stream, Consumed) /\ Len(Before(i)) = i - 1
  <2>1. /\ Reads(SubSeq(rest, 0 + 1, i - 1), stream, Consumed + 0)
        /\ Len(SubSeq(rest, 0 + 1, i - 1)) = (i - 1) - 0
    BY <1>1, <1>3, PartReads
  <2> QED BY <2>1, <1>3 DEF Before
<1>5. Reads(After(i), stream, Consumed + i + 1) /\ Len(After(i)) = Len(rest) - (i + 1)
  <2>1. i + 1 \in 0..Len(rest) /\ Len(rest) \in i + 1..Len(rest)
        /\ (i + 1) + 1 = i + 2 /\ Consumed + (i + 1) = Consumed + i + 1
    BY <1>1, <1>2
  <2>2. /\ Reads(SubSeq(rest, (i + 1) + 1, Len(rest)), stream, Consumed + (i + 1))
        /\ Len(SubSeq(rest, (i + 1) + 1, Len(rest))) = Len(rest) - (i + 1)
    BY <1>1, <2>1, PartReads
  <2> QED BY <2>1, <2>2 DEF After
<1>6. MarkerAt(stream, m, Consumed + i)
  BY <1>1, <1>2, MarkersRead
<1> QED BY <1>2, <1>4, <1>5, <1>6

\* A text and a marker go out.
LEMMA Emitted ==
    ASSUME stream \in Seq(Symbol), Shows(out, stream, 0),
           NEW t, Shows(t, stream, Len(out)),
           NEW m \in Markers, MarkerAt(stream, m, Len(out) + Len(t) + 1)
    PROVE  /\ Shows(out \o t \o m, stream, 0)
           /\ Len(out \o t \o m) = Len(out) + Len(t) + 2
           /\ Covers(out, stream, 0) /\ Covers(t, stream, Len(out)) =>
                 Covers(out \o t \o m, stream, 0)
<1>1. /\ out \in Seq(Symbol) /\ t \in Seq(Symbol)
      /\ Len(out) \in Nat /\ Len(t) \in Nat
      /\ 0 + Len(out) = Len(out) /\ 0 + (Len(out) + Len(t)) = Len(out) + Len(t)
      /\ Len(out) + Len(t) \in Nat
  BY DEF Shows
<1>2. Reads(m, stream, Len(out) + Len(t)) /\ Covers(m, stream, Len(out) + Len(t)) /\ Len(m) = 2
  BY <1>1, MarkReads
<1>3. Shows(m, stream, Len(out) + Len(t)) /\ m \in Seq(Symbol)
  BY <1>2, ReadsShows DEF Reads
<1>4. Shows(out \o t, stream, 0) /\ Len(out \o t) = Len(out) + Len(t)
  BY <1>1, JoinShows
<1>5. Shows((out \o t) \o m, stream, 0) /\ Len((out \o t) \o m) = Len(out \o t) + Len(m)
  BY <1>1, <1>3, <1>4, JoinShows
<1>6. ASSUME Covers(out, stream, 0), Covers(t, stream, Len(out))
      PROVE  Covers((out \o t) \o m, stream, 0)
  <2>1. Covers(out \o t, stream, 0) /\ out \o t \in Seq(Symbol)
    BY <1>1, <1>6, JoinCovers
  <2> QED BY <2>1, <1>1, <1>2, <1>3, <1>4, JoinCovers
<1> QED BY <1>2, <1>4, <1>5, <1>6

\* The chunk up to its begin marker comes out, and the paste begins.
LEMMA BeginKeeps == ASSUME FilterInv, BeginPaste PROVE FilterInv'
<1>1. PICK i :
         /\ FirstAt(rest, PasteBegin, i)
         /\ out' = out \o Before(i) \o PasteBegin
         /\ rest' = After(i)
  BY DEF BeginPaste
<1>2. /\ state = "normal" /\ state' = "paste" /\ buffered' = <<>>
      /\ UNCHANGED <<stream, at, cut, outage>>
  BY DEF BeginPaste
<1>3. Aligned /\ buffered = <<>>
  BY <1>2 DEF FilterInv, NormalInv
<1>4. /\ Consumed = Len(out) /\ Len(out) \in Nat /\ Len(rest) \in Nat
      /\ stream \in Seq(Symbol) /\ Len(out) + Len(rest) = at /\ at <= Len(stream)
  BY <1>3, Places
<1>5. MarkerAt(rest, PasteBegin, i) /\ \A k \in 1..i - 1 : ~MarkerAt(rest, PasteBegin, k)
  BY <1>1 DEF FirstAt
<1>6. /\ i \in 1..Len(rest) - 1
      /\ Reads(Before(i), stream, Len(out)) /\ Len(Before(i)) = i - 1
      /\ MarkerAt(stream, PasteBegin, Len(out) + i)
      /\ Reads(rest', stream, Len(out) + i + 1) /\ Len(rest') = Len(rest) - (i + 1)
  BY <1>1, <1>3, <1>4, <1>5, ChunkSplit DEF Markers
<1>7. /\ Shows(out, stream, 0) /\ Shows(Before(i), stream, Len(out))
      /\ Len(out) + Len(Before(i)) + 1 = Len(out) + i
  BY <1>3, <1>4, <1>6, ReadsShows DEF Aligned
<1>8. /\ Shows(out', stream, 0)
      /\ Len(out') = Len(out) + Len(Before(i)) + 2
      /\ Covers(out, stream, 0) /\ Covers(Before(i), stream, Len(out)) =>
            Covers(out', stream, 0)
  BY <1>1, <1>4, <1>6, <1>7, Emitted DEF Markers
<1>9. Len(out') = Len(out) + i + 1 /\ Len(out') - 1 = Len(out) + i
  BY <1>4, <1>6, <1>8
<1>10. Consumed' = Len(out')
  BY <1>2, <1>4, <1>6, <1>9 DEF Consumed
<1>11. Aligned'
  <2>1. Reads(<<>>, stream, Len(out'))
    <3>1. Len(out') \in Nat /\ Len(out') <= Len(stream)
      BY <1>4, <1>6, <1>9
    <3> QED BY <3>1 DEF Reads
  <2>2. Len(out') + Len(rest') = at
    BY <1>4, <1>6, <1>9
  <2>3. Reads(rest', stream, Len(out'))
    BY <1>6, <1>9
  <2> QED BY <2>1, <2>2, <2>3, <1>2, <1>3, <1>8, <1>10 DEF Aligned
<1>12. PasteInv'
  <2>1. MarkerAt(stream, PasteBegin, Len(out') - 1)
    BY <1>6, <1>9
  <2>2. Len(out') + 1..Len(out') = {}
    BY <1>4, <1>6, <1>9
  <2> QED BY <2>1, <2>2, <1>2, <1>10 DEF PasteInv
<1>13. NormalInv'
  BY <1>2 DEF NormalInv
<1>14. SecretsMasked'
  <2> SUFFICES ASSUME PasteBegin \notin cut, ~outage
               PROVE  Covers(out', stream, 0)
    BY <1>2 DEF SecretsMasked
  <2>1. Covers(out, stream, 0)
    BY DEF FilterInv, SecretsMasked
  <2>2. i - 1 \in 0..Len(rest) /\ \A k \in 1..(i - 1) - 1 : k \in 1..i - 1
    BY <1>4, <1>6
  <2>3. Covers(Before(i), stream, Len(out))
    BY <2>2, <1>2, <1>4, <1>5, <1>6, NothingToMask
  <2> QED BY <2>1, <2>3, <1>8
<1>15. CutsNoted'
  BY <1>2 DEF FilterInv, CutsNoted
<1> QED BY <1>2, <1>11, <1>12, <1>13, <1>14, <1>15 DEF FilterInv

\* A begin marker that is not in the chunk does not end with it either, unless
\* a read has cut it.
LEMMA ForwardKeeps == ASSUME FilterInv, Forward PROVE FilterInv'
<1>1. /\ state = "normal" /\ out' = out \o rest /\ rest' = <<>>
      /\ UNCHANGED <<stream, at, state, buffered, cut, outage>>
      /\ \A i \in DOMAIN rest : ~MarkerAt(rest, PasteBegin, i)
  BY DEF Forward, Includes
<1>2. Aligned /\ buffered = <<>>
  BY <1>1 DEF FilterInv, NormalInv
<1>3. /\ Consumed = Len(out) /\ Len(out) \in Nat /\ Len(rest) \in Nat
      /\ stream \in Seq(Symbol) /\ out \in Seq(Symbol) /\ rest \in Seq(Symbol)
      /\ Len(out) + Len(rest) = at /\ at \in Nat /\ at <= Len(stream)
      /\ 0 + Len(out) = Len(out)
  BY <1>2, Places
<1>4. Shows(out, stream, 0) /\ Reads(rest, stream, Len(out)) /\ Shows(rest, stream, Len(out))
  BY <1>2, <1>3, ReadsShows DEF Aligned
<1>5. Shows(out', stream, 0) /\ Len(out') = at
  BY <1>1, <1>3, <1>4, JoinShows
<1>6. Consumed' = at
  BY <1>1, <1>2, <1>3, <1>5 DEF Consumed
<1>7. Aligned'
  <2>1. Reads(<<>>, stream, at)
    BY <1>3 DEF Reads
  <2> QED BY <2>1, <1>1, <1>2, <1>3, <1>5, <1>6 DEF Aligned
<1>8. ASSUME PasteBegin \notin cut PROVE AllEnded(stream, at)
  <2> SUFFICES ASSUME NEW b \in 1..at, MarkerAt(stream, PasteBegin, b)
               PROVE  \E e \in b..at - 1 : MarkerAt(stream, PasteEnd, e)
    BY DEF AllEnded
  <2>1. AllEnded(stream, Len(out))
    BY <1>1, <1>3, <1>8 DEF FilterInv, NormalInv
  <2>2. b # at
    BY <1>8 DEF FilterInv, CutsNoted, Markers
  <2>3. CASE b <= Len(out)
    BY <2>1, <2>3, <1>3 DEF AllEnded
  <2>4. CASE b > Len(out)
    <3>1. b - Len(out) \in 1..Len(rest) - 1 /\ Len(out) + (b - Len(out)) = b
          /\ b - Len(out) \in DOMAIN rest
      BY <2>2, <2>4, <1>3
    <3>2. MarkerAt(stream, PasteBegin, Len(out) + (b - Len(out)))
      BY <3>1, Zenon
    <3>3. MarkerAt(rest, PasteBegin, b - Len(out))
      BY <3>1, <3>2, <1>3, <1>4, MarkersRead, Zenon
    <3> QED BY <3>1, <3>3, <1>1
  <2> QED BY <2>3, <2>4, <1>3
<1>9. NormalInv' /\ PasteInv'
  BY <1>1, <1>2, <1>6, <1>8 DEF NormalInv, PasteInv
<1>10. SecretsMasked'
  <2> SUFFICES ASSUME PasteBegin \notin cut, ~outage
               PROVE  Covers(out', stream, 0)
    BY <1>1 DEF SecretsMasked
  <2>1. Covers(out, stream, 0)
    BY DEF FilterInv, SecretsMasked
  <2>2. /\ Len(rest) \in 0..Len(rest)
        /\ \A k \in 1..Len(rest) - 1 : ~MarkerAt(rest, PasteBegin, k)
    BY <1>1, <1>3
  <2>3. Covers(rest, stream, Len(out))
    BY <2>2, <1>1, <1>3, <1>4, NothingToMask
  <2> QED BY <2>1, <2>3, <1>1, <1>3, JoinCovers
<1>11. CutsNoted'
  BY <1>1 DEF FilterInv, CutsNoted
<1> QED BY <1>1, <1>7, <1>9, <1>10, <1>11 DEF FilterInv

\* An end marker that is not in the chunk does not end with it either, unless
\* a read has cut it.
LEMMA BufferKeeps == ASSUME FilterInv, Buffer PROVE FilterInv'
<1>1. /\ state = "paste" /\ buffered' = buffered \o rest /\ rest' = <<>>
      /\ UNCHANGED <<stream, at, state, out, cut, outage>>
      /\ \A i \in DOMAIN rest : ~MarkerAt(rest, PasteEnd, i)
  BY DEF Buffer, Includes
<1>2. Aligned
  BY DEF FilterInv
<1>3. /\ Consumed = Len(out) + Len(buffered) /\ Consumed \in Nat
      /\ Len(out) \in Nat /\ Len(buffered) \in Nat /\ Len(rest) \in Nat
      /\ stream \in Seq(Symbol) /\ rest \in Seq(Symbol)
      /\ Consumed + Len(rest) = at /\ at \in Nat /\ at <= Len(stream)
  BY <1>2, Places
<1>4. Reads(buffered, stream, Len(out)) /\ Reads(rest, stream, Len(out) + Len(buffered))
  BY <1>2, <1>3 DEF Aligned
<1>5. /\ Reads(buffered', stream, Len(out)) /\ Len(buffered') = Len(buffered) + Len(rest)
  BY <1>1, <1>4, JoinReads
<1>6. Consumed' = at
  BY <1>1, <1>3, <1>5 DEF Consumed
<1>7. Aligned'
  <2>1. Reads(<<>>, stream, at)
    BY <1>3 DEF Reads
  <2> QED BY <2>1, <1>1, <1>2, <1>3, <1>5, <1>6 DEF Aligned
<1>8. PasteInv'
  <2>1. MarkerAt(stream, PasteBegin, Len(out) - 1)
    BY <1>1 DEF FilterInv, PasteInv
  <2>2. ASSUME PasteEnd \notin cut, NEW e \in Len(out) + 1..at, MarkerAt(stream, PasteEnd, e)
        PROVE  FALSE
    <3>1. e # at
      BY <2>2 DEF FilterInv, CutsNoted, Markers
    <3>2. CASE e <= Consumed
      BY <3>2, <2>2, <1>1, <1>3 DEF FilterInv, PasteInv
    <3>3. CASE e > Consumed
      <4>1. e - Consumed \in 1..Len(rest) - 1 /\ Consumed + (e - Consumed) = e
            /\ e - Consumed \in DOMAIN rest
        BY <3>1, <3>3, <1>3
      <4>2. MarkerAt(rest, PasteEnd, e - Consumed)
        BY <4>1, <2>2, <1>3, <1>4, MarkersRead
      <4> QED BY <4>1, <4>2, <1>1
    <3> QED BY <3>2, <3>3, <1>3
  <2> QED BY <2>1, <2>2, <1>1, <1>6 DEF PasteInv
<1>9. NormalInv' /\ SecretsMasked' /\ CutsNoted'
  BY <1>1 DEF FilterInv, NormalInv, SecretsMasked, CutsNoted
<1> QED BY <1>1, <1>7, <1>8, <1>9 DEF FilterInv

\* The end of a paste: its body comes out, masked or raw, and the marker.
LEMMA EndKeeps ==
    ASSUME FilterInv, NEW i, NEW body, EndPaste(i, body),
           \/ body = Scanned(i) /\ outage' = outage
           \/ body = buffered \o Before(i) /\ outage' = TRUE
    PROVE  FilterInv'
<1>1. /\ state = "paste" /\ state' = "normal"
      /\ FirstAt(rest, PasteEnd, i)
      /\ out' = out \o body \o PasteEnd
      /\ rest' = After(i) /\ buffered' = <<>>
      /\ UNCHANGED <<stream, at, cut>>
  BY DEF EndPaste, Resumed
<1>2. Aligned
  BY DEF FilterInv
<1>3. /\ Consumed = Len(out) + Len(buffered) /\ Consumed \in Nat
      /\ Len(out) \in Nat /\ Len(buffered) \in Nat /\ Len(rest) \in Nat
      /\ stream \in Seq(Symbol) /\ Consumed + Len(rest) = at
  BY <1>2, Places
<1>4. MarkerAt(rest, PasteEnd, i)
  BY <1>1 DEF FirstAt
<1>5. /\ i \in 1..Len(rest) - 1
      /\ Reads(Before(i), stream, Consumed) /\ Len(Before(i)) = i - 1
      /\ MarkerAt(stream, PasteEnd, Consumed + i)
      /\ Reads(rest', stream, Consumed + i + 1) /\ Len(rest') = Len(rest) - (i + 1)
  BY <1>1, <1>2, <1>4, ChunkSplit DEF Markers
<1> DEFINE whole == buffered \o Before(i)
<1>6. Reads(whole, stream, Len(out)) /\ Len(whole) = Len(buffered) + (i - 1)
  BY <1>2, <1>3, <1>5, JoinReads DEF Aligned
<1>7. Len(out) + Len(whole) + 1 = Consumed + i
  BY <1>3, <1>5, <1>6
<1>8. ~MarkerAt(stream, Secret, Len(out) + Len(whole))
  <2>1. stream[(Len(out) + Len(whole)) + 1] # "s2"
    BY <1>5, <1>7, MarkerFacts
  <2> QED BY <2>1, MarkerFacts
<1>9. /\ Shows(body, stream, Len(out)) /\ Len(body) = Len(whole)
      /\ ~outage' => Covers(body, stream, Len(out)) /\ ~outage
  <2>1. CASE body = Mask(whole) /\ outage' = outage
    BY <2>1, <1>3, <1>6, <1>8, MaskShows
  <2>2. CASE body = whole /\ outage' = TRUE
    BY <2>2, <1>6, ReadsShows
  <2> QED BY <2>1, <2>2 DEF Scanned
<1> HIDE DEF whole
<1>10. /\ Shows(out', stream, 0) /\ Len(out') = Len(out) + Len(body) + 2
       /\ Covers(out, stream, 0) /\ Covers(body, stream, Len(out)) =>
             Covers(out', stream, 0)
  <2>1. Shows(out, stream, 0) /\ MarkerAt(stream, PasteEnd, Len(out) + Len(body) + 1)
    BY <1>2, <1>5, <1>7, <1>9 DEF Aligned
  <2> QED BY <2>1, <1>1, <1>3, <1>9, Emitted DEF Markers
<1>11. Len(out') = Consumed + i + 1 /\ Len(out') \in Nat
  BY <1>3, <1>5, <1>6, <1>9, <1>10
<1>12. Consumed' = Len(out')
  BY <1>1, <1>11 DEF Consumed
<1>13. Aligned'
  <2>1. Len(out') + Len(rest') = at /\ Len(out') <= Len(stream)
    BY <1>3, <1>5, <1>11, <1>2, Places
  <2>2. Reads(<<>>, stream, Len(out'))
    BY <2>1, <1>11 DEF Reads
  <2>3. Reads(rest', stream, Len(out'))
    BY <1>5, <1>11
  <2> QED BY <2>1, <2>2, <2>3, <1>1, <1>2, <1>10, <1>12 DEF Aligned
<1>14. AllEnded(stream, Len(out'))
  <2> SUFFICES ASSUME NEW b \in 1..Len(out'), MarkerAt(stream, PasteBegin, b)
               PROVE  \E e \in b..Len(out') - 1 : MarkerAt(stream, PasteEnd, e)
    BY DEF AllEnded
  <2>1. stream[b] = "esc" /\ stream[(Consumed + i) + 1] = "201"
    BY <1>5, MarkerFacts
  <2>2. b # (Consumed + i) + 1
    BY <2>1
  <2>3. Consumed + i \in b..Len(out') - 1
    BY <2>2, <1>3, <1>5, <1>11
  <2> QED BY <2>3, <1>5
<1>15. NormalInv' /\ PasteInv'
  BY <1>1, <1>12, <1>14 DEF NormalInv, PasteInv
<1>16. SecretsMasked'
  BY <1>1, <1>9, <1>10 DEF FilterInv, SecretsMasked
<1>17. CutsNoted'
  BY <1>1 DEF FilterInv, CutsNoted
<1> QED BY <1>1, <1>13, <1>15, <1>16, <1>17 DEF FilterInv

LEMMA NextFilter == FilterInv /\ [FilterNext]_filterVars => FilterInv'
<1> SUFFICES ASSUME FilterInv, [FilterNext]_filterVars
             PROVE  FilterInv'
  OBVIOUS
<1>1. CASE UNCHANGED filterVars
  BY <1>1 DEF filterVars, FilterInv, Aligned, Consumed, CutsNoted, NormalInv, AllEnded,
              PasteInv, SecretsMasked
<1>2. CASE EndScanned
  BY <1>2, EndKeeps DEF EndScanned
<1>3. CASE EndRaw
  BY <1>3, EndKeeps DEF EndRaw
<1> QED BY <1>1, <1>2, <1>3, ReadKeeps, BeginKeeps, ForwardKeeps, BufferKeeps DEF FilterNext

\* Whatever the user sends and however the terminal cuts it: what has come out,
\* what is held back and what is still in the chunk are the input, masked.
THEOREM NothingLost == FilterSpec => []Lossless
<1>1. FilterInv => Lossless
  <2> SUFFICES ASSUME FilterInv
               PROVE  Lossless
    OBVIOUS
  <2>1. /\ Aligned /\ stream \in Seq(Byte) /\ Shows(out, stream, 0)
        /\ Reads(buffered, stream, Len(out)) /\ Reads(rest, stream, Consumed)
    BY DEF FilterInv, Aligned
  <2>2. /\ stream \in Seq(Symbol) /\ Len(stream) \in Nat
        /\ out \in Seq(Symbol) /\ Len(out) \in Nat /\ Len(buffered) \in Nat
        /\ Consumed = Len(out) + Len(buffered) /\ Consumed \in Nat
        /\ Consumed + Len(rest) = at /\ at \in Nat /\ at <= Len(stream)
    BY <2>1, Places
  <2>3. Reads(Unmask(out), stream, 0) /\ Len(Unmask(out)) = Len(out)
    <3>1. ASSUME NEW k \in 1..Len(out)
          PROVE  Unmask(out)[k] = stream[0 + k] /\ Unmask(out)[k] \in Symbol
      <4>1. stream[0 + k] \in Byte /\ 0 + k = k
        BY <2>1, <2>2 DEF Shows
      <4>2. stream[k] \notin Masks
        BY <4>1, TextAssumption DEF Byte, Masks
      <4>3. Stands(out[k], stream[k])
        BY <4>1, <2>1 DEF Shows
      <4>4. Unmask(out)[k] = CASE out[k] = "p1" -> "s1" [] out[k] = "p2" -> "s2"
                               [] OTHER -> out[k]
        BY <2>2 DEF Unmask
      <4>5. Unmask(out)[k] = stream[k]
        BY <4>2, <4>3, <4>4 DEF Stands, Masks
      <4> QED BY <4>1, <4>5 DEF Symbol
    <3>2. Unmask(out) = [k \in 1..Len(out) |-> Unmask(out)[k]]
      BY <2>2 DEF Unmask
    <3>3. Unmask(out) \in Seq(Symbol) /\ Len(Unmask(out)) = Len(out)
      BY <3>1, <3>2, <2>2
    <3>4. 0 + Len(out) <= Len(stream)
      BY <2>1 DEF Shows
    <3> QED BY <3>1, <3>3, <3>4 DEF Reads
  <2>4. /\ 0 + Len(Unmask(out)) = Len(out)
        /\ Reads(buffered, stream, 0 + Len(Unmask(out)))
    BY <2>1, <2>2, <2>3
  <2>5. /\ Reads(Unmask(out) \o buffered, stream, 0)
        /\ Len(Unmask(out) \o buffered) = Len(out) + Len(buffered)
    BY <2>3, <2>4, JoinReads
  <2>6. Reads(rest, stream, 0 + Len(Unmask(out) \o buffered))
    BY <2>1, <2>2, <2>5
  <2>7. /\ Reads((Unmask(out) \o buffered) \o rest, stream, 0)
        /\ Len((Unmask(out) \o buffered) \o rest) = at
    BY <2>2, <2>5, <2>6, JoinReads
  <2>8. Reads(SubSeq(stream, 1, at), stream, 0) /\ Len(SubSeq(stream, 1, at)) = at
    <3>1. Reads(stream, stream, 0) /\ 0 \in 0..Len(stream) /\ at \in 0..Len(stream)
          /\ at - 0 = at /\ 0 + 0 = 0 /\ 0 + 1 = 1
      BY <2>2 DEF Reads
    <3>2. /\ Reads(SubSeq(stream, 0 + 1, at), stream, 0 + 0)
          /\ Len(SubSeq(stream, 0 + 1, at)) = at - 0
      BY <3>1, PartReads
    <3> QED BY <3>1, <3>2
  <2> QED BY <2>7, <2>8, SameReading DEF Lossless
<1> QED BY <1>1, InitFilter, NextFilter, PTL DEF FilterSpec

\* Whatever the user pastes and however the terminal cuts it: no secret in a
\* paste comes out raw, unless a begin marker was cut or the daemon did not answer.
THEOREM PastesMasked == FilterSpec => []PasteMasked
<1>1. FilterInv => PasteMasked
  <2> SUFFICES ASSUME FilterInv, PasteBegin \notin cut, ~outage,
                      NEW i, PastedSecret(stream, i), MarkerAt(out, Secret, i)
               PROVE  FALSE
    BY DEF PasteMasked
  <2>1. Aligned /\ Covers(out, stream, 0)
    BY DEF FilterInv, SecretsMasked
  <2>2. i \in 1..Len(out) - 1 /\ out[i] = "s1"
    BY MarkerFacts
  <2>3. i \in 1..Len(out) /\ 0 + i = i
    BY <2>1, <2>2, Places
  <2> QED BY <2>1, <2>2, <2>3 DEF Covers
<1> QED BY <1>1, InitFilter, NextFilter, PTL DEF FilterSpec

\* Whatever the user pastes: nothing is held back after the last paste has ended,
\* unless an end marker was cut.
THEOREM NothingStays == FilterSpec => []NothingHeld
<1>1. FilterInv => NothingHeld
  <2> SUFFICES ASSUME FilterInv, at = Len(stream), rest = <<>>, Ended, PasteEnd \notin cut
               PROVE  state = "normal"
    BY DEF NothingHeld, FilterInv, NormalInv
  <2> SUFFICES ASSUME state = "paste"
               PROVE  FALSE
    BY DEF FilterInv
  <2>1. /\ Aligned /\ MarkerAt(stream, PasteBegin, Len(out) - 1)
        /\ \A e \in Len(out) + 1..Consumed : ~MarkerAt(stream, PasteEnd, e)
    BY DEF FilterInv, PasteInv
  <2>2. Consumed = Len(stream) /\ Len(out) \in Nat /\ Len(stream) \in Nat
    BY <2>1, Places
  <2>3. PICK e \in 1..Len(stream) :
           /\ MarkerAt(stream, PasteEnd, e)
           /\ \A j \in e..Len(stream) : ~MarkerAt(stream, PasteBegin, j)
    BY <2>1, Places DEF Ended
  <2>4. /\ stream[e] = "esc" /\ stream[(Len(out) - 1) + 1] = "200"
        /\ Len(out) - 1 \in 1..Len(stream) - 1
    BY <2>1, <2>3, MarkerFacts
  <2>5. ~(e <= Len(out) - 1)
    BY <2>1, <2>2, <2>3, <2>4
  <2>6. e # Len(out)
    BY <2>2, <2>4
  <2>7. e \in Len(out) + 1..Consumed
    BY <2>2, <2>3, <2>5, <2>6
  <2> QED BY <2>1, <2>3, <2>7
<1> QED BY <1>1, InitFilter, NextFilter, PTL DEF FilterSpec
=============================================================================
