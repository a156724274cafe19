--------------------------- MODULE ToolCallProofs ---------------------------
(***************************************************************************)
(* What the two hooks promise of a Bash call, for any command, bindings,   *)
(* hosts and vault, while the vault changes.                               *)
(***************************************************************************)
EXTENDS ToolCall, VaultProofs

-----------------------------------------------------------------------------
\* matchHost and the bindings' meaning are the same.

LEMMA SuffixMeans ==
    ASSUME NEW S, NEW s \in Seq(S), NEW t \in Seq(S)
    PROVE  IsSuffix(s, t) <=> /\ Len(s) <= Len(t)
                              /\ \A j \in 1..Len(s) : s[j] = t[Len(t) - Len(s) + j]
<1> DEFINE m == Len(s)
           n == Len(t)
           rs == Reverse(s)
           rt == Reverse(t)
<1>1. m \in Nat /\ n \in Nat
  OBVIOUS
<1>2. /\ rs \in Seq(S) /\ Len(rs) = m /\ \A i \in 1..m : rs[i] = s[m - i + 1]
      /\ rt \in Seq(S) /\ Len(rt) = n /\ \A i \in 1..n : rt[i] = t[n - i + 1]
  BY DEF Reverse
<1> HIDE DEF rs, rt
<1>3. IsSuffix(s, t) <=> m <= n /\ SubSeq(rs, 1, m) = SubSeq(rt, 1, m)
  BY <1>2 DEF IsSuffix, IsPrefix, rs, rt
<1>4. ASSUME m <= n
      PROVE  SubSeq(rs, 1, m) = SubSeq(rt, 1, m) <=> \A i \in 1..m : rs[i] = rt[i]
  <2>1. /\ SubSeq(rs, 1, m) \in Seq(S) /\ Len(SubSeq(rs, 1, m)) = m
        /\ \A i \in 1..m : SubSeq(rs, 1, m)[i] = rs[i]
    BY <1>1, <1>2, SubSeqProperties
  <2>2. /\ SubSeq(rt, 1, m) \in Seq(S) /\ Len(SubSeq(rt, 1, m)) = m
        /\ \A i \in 1..m : SubSeq(rt, 1, m)[i] = rt[i]
    BY <1>1, <1>2, <1>4, SubSeqProperties
  <2> QED BY <1>1, <2>1, <2>2, SeqEqual
<1>5. ASSUME m <= n
      PROVE  (\A i \in 1..m : rs[i] = rt[i]) <=> \A j \in 1..m : s[j] = t[n - m + j]
  <2>1. \A i \in 1..m : rs[i] = s[m - i + 1] /\ rt[i] = t[n - i + 1]
    BY <1>1, <1>2, <1>5
  <2>2. ASSUME \A i \in 1..m : rs[i] = rt[i], NEW j \in 1..m
        PROVE  s[j] = t[n - m + j]
    <3>1. /\ m - j + 1 \in 1..m /\ m - (m - j + 1) + 1 = j
          /\ n - (m - j + 1) + 1 = n - m + j
      BY <1>1
    <3>2. rs[m - j + 1] = s[m - (m - j + 1) + 1] /\ rt[m - j + 1] = t[n - (m - j + 1) + 1]
      BY <2>1, <3>1
    <3> QED BY <2>2, <3>1, <3>2
  <2>3. ASSUME \A j \in 1..m : s[j] = t[n - m + j], NEW i \in 1..m
        PROVE  rs[i] = rt[i]
    <3>1. m - i + 1 \in 1..m /\ n - m + (m - i + 1) = n - i + 1
      BY <1>1
    <3> QED BY <2>1, <2>3, <3>1
  <2> QED BY <2>2, <2>3
<1> QED BY <1>3, <1>4, <1>5

LEMMA MatchIsAllowed ==
    ASSUME NEW pat \in Seq(Label), NEW h \in Seq(Label)
    PROVE  MatchHost(pat, h) <=> Allows(pat, h)
<1> DEFINE t == Tail(pat)
           n == Len(h)
<1>1. n \in Nat /\ Len(pat) \in Nat
  OBVIOUS
<1>2. ASSUME NEW k \in 1..n
      PROVE  /\ SubSeq(h, k, n) \in Seq(Label) /\ Len(SubSeq(h, k, n)) = n - k + 1
             /\ \A i \in 1..n - k + 1 : SubSeq(h, k, n)[i] = h[k + i - 1]
  <2>1. k \in 1..Len(h) + 1 /\ n \in (k - 1)..Len(h)
    BY <1>1
  <2> QED BY <1>1, <2>1, SubSeqProperties
<1>3. ASSUME NEW k \in 1..n
      PROVE  pat = <<"*">> \o SubSeq(h, k, n)
                <=> /\ Len(pat) > 1 /\ Head(pat) = "*"
                    /\ Len(t) = n - k + 1 /\ \A i \in 1..Len(t) : t[i] = h[k + i - 1]
  <2>1. ASSUME pat = <<"*">> \o SubSeq(h, k, n)
        PROVE  /\ Len(pat) > 1 /\ Head(pat) = "*" /\ t = SubSeq(h, k, n)
    <3> DEFINE u == SubSeq(h, k, n)
    <3>1. u \in Seq(Label) /\ Len(u) >= 1 /\ Len(u) \in Nat
      BY <1>1, <1>2
    <3> HIDE DEF u
    <3>2. pat = <<"*">> \o u
      BY <2>1 DEF u
    <3>3. /\ Len(pat) = 1 + Len(u) /\ pat[1] = "*"
          /\ \A i \in 1..Len(u) : pat[i + 1] = u[i]
      BY <3>1, <3>2
    <3>4. t \in Seq(Label) /\ Len(t) = Len(u) /\ \A i \in 1..Len(t) : t[i] = u[i]
      BY <3>1, <3>3
    <3>5. t = u
      BY <3>1, <3>4, SeqEqual
    <3>6. Len(pat) > 1 /\ Head(pat) = "*"
      BY <3>1, <3>3
    <3> QED BY <3>5, <3>6 DEF u
  <2>2. ASSUME Len(pat) > 1, Head(pat) = "*", t = SubSeq(h, k, n)
        PROVE  pat = <<"*">> \o SubSeq(h, k, n)
    <3> DEFINE w == <<"*">> \o t
    <3>1. t \in Seq(Label) /\ Len(t) = Len(pat) - 1 /\ \A i \in 1..Len(t) : t[i] = pat[i + 1]
      BY <1>1, <2>2
    <3> HIDE DEF t
    <3>2. "*" \in Label
      BY <1>1, <2>2
    <3>3. /\ w \in Seq(Label) /\ Len(w) = 1 + Len(t) /\ w[1] = "*"
          /\ \A i \in 1..Len(t) : w[i + 1] = t[i]
      BY <3>1, <3>2
    <3> HIDE DEF w
    <3>4. \A i \in 1..Len(pat) : pat[i] = w[i]
      <4> TAKE i \in 1..Len(pat)
      <4>1. CASE i = 1
        BY <4>1, <2>2, <3>3
      <4>2. CASE i # 1
        <5>1. i - 1 \in 1..Len(t) /\ (i - 1) + 1 = i
          BY <1>1, <3>1, <4>2
        <5> QED BY <3>1, <3>3, <5>1
      <4> QED BY <4>1, <4>2
    <3>5. Len(pat) = Len(w)
      BY <1>1, <3>1, <3>3
    <3>6. pat = w
      BY <3>3, <3>4, <3>5, SeqEqual
    <3> QED BY <2>2, <3>6 DEF w
  <2>3. Len(pat) > 1 => t \in Seq(Label)
    BY <1>1
  <2>4. ASSUME Len(pat) > 1
        PROVE  t = SubSeq(h, k, n)
                  <=> Len(t) = n - k + 1 /\ \A i \in 1..Len(t) : t[i] = h[k + i - 1]
    <3> DEFINE u == SubSeq(h, k, n)
    <3>1. /\ u \in Seq(Label) /\ Len(u) = n - k + 1
          /\ \A i \in 1..n - k + 1 : u[i] = h[k + i - 1]
      BY <1>2, Zenon
    <3>2. t \in Seq(Label)
      BY <2>3, <2>4, Zenon
    <3> HIDE DEF t, n, u
    <3>3. ASSUME t = u
          PROVE  Len(t) = n - k + 1 /\ \A i \in 1..Len(t) : t[i] = h[k + i - 1]
      BY <3>1, <3>3, Zenon
    <3>4. ASSUME Len(t) = n - k + 1, \A i \in 1..Len(t) : t[i] = h[k + i - 1]
          PROVE  t = u
      <4>1. Len(t) = Len(u)
        BY <3>1, <3>4, Zenon
      <4>2. \A i \in 1..Len(t) : t[i] = u[i]
        BY <3>1, <3>4, Zenon
      <4> QED BY <3>1, <3>2, <4>1, <4>2, SeqEqual, Zenon
    <3> QED BY <3>3, <3>4, Zenon DEF u
  <2> QED BY <1>1, <1>2, <2>1, <2>2, <2>4
<1>4. MatchHost(pat, h)
         <=> \/ pat = h
             \/ /\ Len(pat) > 1 /\ Head(pat) = "*" /\ Len(t) <= n
                /\ \A j \in 1..Len(t) : t[j] = h[n - Len(t) + j]
  <2>1. Len(pat) > 1 => t \in Seq(Label)
    BY <1>1
  <2> QED BY <2>1, SuffixMeans DEF MatchHost
<1>5. ASSUME NEW k \in 1..n, pat = <<"*">> \o SubSeq(h, k, n)
      PROVE  MatchHost(pat, h)
  <2>1. /\ Len(pat) > 1 /\ Head(pat) = "*"
        /\ Len(t) = n - k + 1 /\ \A i \in 1..Len(t) : t[i] = h[k + i - 1]
    BY <1>3, <1>5
  <2> HIDE DEF t, n
  <2>2. n \in Nat /\ k \in Nat /\ 1 <= k /\ k <= n
    BY <1>1
  <2>3. Len(t) <= n
    BY <2>1, <2>2
  <2>4. ASSUME NEW j \in 1..Len(t)
        PROVE  t[j] = h[n - Len(t) + j]
    <3>1. t[j] = h[k + j - 1]
      BY <2>1
    <3>2. n - Len(t) + j = k + j - 1
      BY <2>1, <2>2
    <3> QED BY <3>1, <3>2
  <2> QED BY <1>4, <2>1, <2>3, <2>4
<1>6. ASSUME Len(pat) > 1, Head(pat) = "*", Len(t) <= n,
             \A j \in 1..Len(t) : t[j] = h[n - Len(t) + j]
      PROVE  Below(pat, h)
  <2> DEFINE k == n - Len(t) + 1
  <2>1. Len(t) = Len(pat) - 1 /\ k \in 1..n
    BY <1>1, <1>6
  <2>2. Len(t) = n - k + 1 /\ \A j \in 1..Len(t) : k + j - 1 = n - Len(t) + j
    BY <1>1, <2>1
  <2> HIDE DEF k
  <2>3. \A j \in 1..Len(t) : t[j] = h[k + j - 1]
    BY <1>6, <2>2
  <2>4. pat = <<"*">> \o SubSeq(h, k, n)
    BY <1>3, <1>6, <2>1, <2>2, <2>3
  <2> QED BY <2>1, <2>4 DEF Below
<1> QED BY <1>4, <1>5, <1>6 DEF Allows, Below

-----------------------------------------------------------------------------
(***************************************************************************)
(* The inductive invariant of the pre-tool hook.  Shape: the command keeps *)
(* its parts and words while values are put in.  DoneWith: a placeholder   *)
(* that is done with was replaced, or was not bound all along to any host. *)
(* Tried: the same for the hosts the present placeholder was tried on.     *)
(***************************************************************************)
Shape ==
    /\ command \in Seq([host : Seq(Label), words : Seq(Placeholder)])
    /\ DOMAIN out = DOMAIN command
    /\ \A i \in DOMAIN command :
          /\ out[i] \in [host : Seq(Label), words : Seq(Placeholder \cup Secret)]
          /\ Len(out[i].words) = Len(command[i].words)

WrittenOrValue ==
    \A w \in Words(command) : Word(out, w) = Word(command, w) \/ Word(out, w) \in Secret

History ==
    /\ Grants(command) \subseteq since.ever
    /\ since.always \subseteq Bound(command)

DoneWith ==
    call \in {"resolving", "done"} =>
        \A w \in Words(command), h \in Hosts(command) :
            <<Word(command, w), h>> \in since.always =>
                w \in Replaced \/ (call = "resolving" /\ Word(command, w) \in todo)

Tried ==
    call = "resolving" =>
        /\ left \subseteq Hosts(command)
        /\ \A p \in Placeholder, h \in Hosts(command) \ left :
              PlaceholderTurn(p) => <<p, h>> \notin since.always

HookInv == Shape /\ WrittenOrValue /\ OneValue /\ OnlyGranted /\ History /\ DoneWith /\ Tried

-----------------------------------------------------------------------------
\* A command before any substitution.
LEMMA PartWidens ==
    ASSUME NEW c \in Seq([host : Seq(Label), words : Seq(Placeholder)]), NEW i \in DOMAIN c
    PROVE  c[i] \in [host : Seq(Label), words : Seq(Placeholder \cup Secret)]
<1> DEFINE Part == [host : Seq(Label), words : Seq(Placeholder)]
<1>1. c[i] \in Part
  <2>1. c \in Seq(Part)
    OBVIOUS
  <2> HIDE DEF Part
  <2> QED BY <2>1
<1>2. c[i].words \in Seq(Placeholder \cup Secret)
  BY <1>1
<1> QED BY <1>1, <1>2

\* The words and hosts of a command, and what a substitution does to a word.
LEMMA WordFacts ==
    ASSUME Shape
    PROVE  /\ \A w \in Words(command) :
                 /\ w \in Nat \X Nat
                 /\ w[1] \in DOMAIN command /\ w[2] \in DOMAIN command[w[1]].words
                 /\ w[2] \in DOMAIN out[w[1]].words
                 /\ Word(command, w) \in Placeholder
           /\ Hosts(command) \subseteq Seq(Label)
<1> DEFINE Part == [host : Seq(Label), words : Seq(Placeholder)]
<1>1. /\ command \in Seq(Part) /\ DOMAIN command = 1..Len(command) /\ Len(command) \in Nat
      /\ \A i \in DOMAIN command : command[i] \in Part
  <2>1. command \in Seq(Part)
    BY DEF Shape
  <2> HIDE DEF Part
  <2> QED BY <2>1
<1>2. \A i \in DOMAIN command :
         /\ command[i].host \in Seq(Label) /\ command[i].words \in Seq(Placeholder)
         /\ out[i].words \in Seq(Placeholder \cup Secret)
         /\ Len(out[i].words) = Len(command[i].words)
  BY <1>1 DEF Shape
<1>3. ASSUME NEW w \in Words(command)
      PROVE  /\ w \in Nat \X Nat
             /\ w[1] \in DOMAIN command /\ w[2] \in DOMAIN command[w[1]].words
             /\ w[2] \in DOMAIN out[w[1]].words
             /\ Word(command, w) \in Placeholder
  <2>1. PICK i \in DOMAIN command : w \in {i} \X (DOMAIN command[i].words)
    BY DEF Words
  <2>2. command[i].words \in Seq(Placeholder) /\ out[i].words \in Seq(Placeholder \cup Secret)
        /\ Len(out[i].words) = Len(command[i].words) /\ i \in Nat
    BY <1>1, <1>2
  <2>3. /\ DOMAIN command[i].words = 1..Len(command[i].words)
        /\ DOMAIN out[i].words = DOMAIN command[i].words
        /\ DOMAIN command[i].words \subseteq Nat
    BY <2>2
  <2>4. w = <<i, w[2]>> /\ w[1] = i /\ w[2] \in DOMAIN command[i].words
    BY <2>1
  <2>5. command[i].words[w[2]] \in Placeholder
    BY <2>2, <2>4
  <2> QED BY <2>2, <2>3, <2>4, <2>5 DEF Word
<1> QED BY <1>2, <1>3 DEF Hosts

LEMMA SubstituteFacts ==
    ASSUME Shape, NEW p \in Placeholder, NEW v \in Secret, NEW c, c = SubstituteAll(out, p, v)
    PROVE  /\ DOMAIN c = DOMAIN command
           /\ \A i \in DOMAIN command :
                 /\ c[i] \in [host : Seq(Label), words : Seq(Placeholder \cup Secret)]
                 /\ Len(c[i].words) = Len(command[i].words)
           /\ \A w \in Words(command) :
                 Word(c, w) = IF Word(out, w) = p THEN v ELSE Word(out, w)
<1>1. DOMAIN c = DOMAIN command
  BY DEF Shape, SubstituteAll
<1>2. ASSUME NEW i \in DOMAIN command
      PROVE  /\ c[i] \in [host : Seq(Label), words : Seq(Placeholder \cup Secret)]
             /\ Len(c[i].words) = Len(command[i].words)
             /\ \A j \in DOMAIN out[i].words :
                   c[i].words[j] = IF out[i].words[j] = p THEN v ELSE out[i].words[j]
  <2> DEFINE ws == out[i].words
             rs == ReplaceAll(ws, p, v)
  <2>1. out[i] \in [host : Seq(Label), words : Seq(Placeholder \cup Secret)]
        /\ Len(ws) = Len(command[i].words)
    BY DEF Shape
  <2>2. ws \in Seq(Placeholder \cup Secret) /\ DOMAIN ws = 1..Len(ws) /\ Len(ws) \in Nat
        /\ \A j \in 1..Len(ws) : ws[j] \in Placeholder \cup Secret
    BY <2>1
  <2> HIDE DEF ws
  <2>3. /\ rs \in Seq(Placeholder \cup Secret) /\ Len(rs) = Len(ws)
        /\ \A j \in 1..Len(ws) : rs[j] = IF ws[j] = p THEN v ELSE ws[j]
    BY <2>2 DEF ReplaceAll
  <2>4. c[i] = [out[i] EXCEPT !.words = rs]
    BY DEF Shape, SubstituteAll, ws
  <2> HIDE DEF rs
  <2>5. c[i] \in [host : Seq(Label), words : Seq(Placeholder \cup Secret)] /\ c[i].words = rs
    BY <2>1, <2>3, <2>4
  <2> QED BY <2>1, <2>2, <2>3, <2>5 DEF ws
<1>3. ASSUME NEW w \in Words(command)
      PROVE  Word(c, w) = IF Word(out, w) = p THEN v ELSE Word(out, w)
  BY <1>2, WordFacts DEF Word
<1> QED BY <1>1, <1>2, <1>3

\* The loop over the placeholders is at one of them.
LEMMA OneTurn ==
    ASSUME Shape, NEW p, NEW q, PlaceholderTurn(p), PlaceholderTurn(q)
    PROVE  p = q
<1>1. PICK w \in Words(command) :
         /\ Word(command, w) = p
         /\ \A y \in Words(command) : Earlier(y, w) => Word(command, y) \notin todo
  BY DEF PlaceholderTurn
<1>2. PICK x \in Words(command) :
         /\ Word(command, x) = q
         /\ \A y \in Words(command) : Earlier(y, x) => Word(command, y) \notin todo
  BY DEF PlaceholderTurn
<1>3. ~Earlier(x, w) /\ ~Earlier(w, x)
  BY <1>1, <1>2 DEF PlaceholderTurn
<1>4. w \in Nat \X Nat /\ x \in Nat \X Nat
  BY WordFacts
<1>5. w[1] = x[1] /\ w[2] = x[2]
  BY <1>3, <1>4 DEF Earlier
<1> QED BY <1>1, <1>2, <1>5 DEF Word

-----------------------------------------------------------------------------
\* No step: whoever changes the vault leaves the call alone, and the history
\* follows; outside a call there is nothing to follow.
LEMMA NobodyResolves ==
    ASSUME HookInv, UNCHANGED callVars,
           Follow \/ (UNCHANGED since /\ command = <<>> /\ since.always = {})
    PROVE  HookInv'
<1>1. /\ Words(command)' = Words(command) /\ Hosts(command)' = Hosts(command)
      /\ Replaced' = Replaced
      /\ \A w : Word(command, w)' = Word(command, w) /\ Word(out, w)' = Word(out, w)
      /\ \A p : PlaceholderTurn(p)' = PlaceholderTurn(p)
  BY DEF callVars, Words, Hosts, Replaced, Word, PlaceholderTurn
<1>2. Shape' /\ WrittenOrValue' /\ OneValue'
  BY <1>1 DEF HookInv, Shape, WrittenOrValue, OneValue, callVars, Word
<1>3. since.ever \subseteq since'.ever /\ since'.always \subseteq since.always
  BY DEF Follow
<1>4. OnlyGranted'
  BY <1>1, <1>3 DEF HookInv, OnlyGranted
<1>5. History'
  <2>1. CASE Follow
    BY <2>1 DEF Follow, History
  <2>2. CASE UNCHANGED since /\ command = <<>> /\ since.always = {}
    <3>1. command' = command /\ Hosts(command)' = {}
      BY <2>2, EmptySeq DEF callVars, Hosts
    <3>2. Bound(command)' = {} /\ Grants(command)' = {}
      BY <3>1 DEF Bound, Grants
    <3> QED BY <2>2, <3>2 DEF History
  <2> QED BY <2>1, <2>2
<1>6. DoneWith' /\ Tried'
  BY <1>1, <1>3 DEF HookInv, DoneWith, Tried, callVars
<1> QED BY <1>2, <1>4, <1>5, <1>6 DEF HookInv

\* Before the first call, and after RunTool.
NoCall == /\ command = <<>> /\ out = <<>> /\ since = [ever |-> {}, always |-> {}]
          /\ call # "resolving"

LEMMA NoCommand == NoCall => HookInv
<1> SUFFICES ASSUME NoCall
             PROVE  HookInv
  OBVIOUS
<1> USE DEF NoCall
<1>1. Words(command) = {} /\ Hosts(command) = {} /\ DOMAIN command = {} /\ DOMAIN out = {}
  BY EmptySeq DEF Words, Hosts
<1>2. Bound(command) = {} /\ Grants(command) = {} /\ Replaced = {}
  BY <1>1 DEF Bound, Grants, Replaced
<1>3. Shape
  BY <1>1 DEF Shape
<1>4. WrittenOrValue /\ OneValue /\ OnlyGranted
  BY <1>1, <1>2 DEF WrittenOrValue, OneValue, OnlyGranted
<1>5. History /\ DoneWith /\ Tried
  BY <1>1, <1>2 DEF History, DoneWith, Tried
<1> QED BY <1>3, <1>4, <1>5 DEF HookInv

LEMMA NoCommandNext == NoCall' => HookInv'
BY NoCommand, PTL

LEMMA SameInv ==
    ASSUME HookInv, UNCHANGED callVars, UNCHANGED since, UNCHANGED vars
    PROVE  HookInv'
<1>1. /\ Words(command)' = Words(command) /\ Hosts(command)' = Hosts(command)
      /\ Replaced' = Replaced
      /\ \A w : Word(command, w)' = Word(command, w) /\ Word(out, w)' = Word(out, w)
      /\ \A p : PlaceholderTurn(p)' = PlaceholderTurn(p)
      /\ Bound(command)' = Bound(command) /\ Grants(command)' = Grants(command)
  BY DEF callVars, vars, Words, Hosts, Replaced, Word, PlaceholderTurn, Bound, Grants
<1> QED BY <1>1 DEF HookInv, Shape, WrittenOrValue, OneValue, OnlyGranted, History,
                    DoneWith, Tried, callVars

LEMMA BeginInv ==
    ASSUME HookInv, NEW c \in Commands, Begin(c)
    PROVE  HookInv'
<1>1. /\ command' = c /\ out' = c /\ Words(command)' = Words(c) /\ Hosts(command)' = Hosts(c)
      /\ \A w : Word(command, w)' = Word(c, w) /\ Word(out, w)' = Word(c, w)
      /\ Replaced' = {}
  BY DEF Begin, Words, Word, Hosts, Replaced
<1>2. Shape'
  <2>1. c \in Seq([host : Seq(Label), words : Seq(Placeholder)])
    BY CommandsAssumption
  <2>2. \A i \in DOMAIN c : c[i] \in [host : Seq(Label), words : Seq(Placeholder \cup Secret)]
    BY <2>1, PartWidens
  <2> QED BY <1>1, <2>1, <2>2 DEF Shape
<1>3. WrittenOrValue' /\ OneValue' /\ OnlyGranted'
  BY <1>1 DEF WrittenOrValue, OneValue, OnlyGranted
<1>4. History'
  BY <1>1 DEF Begin, History, Grants, Bound, Hosts, vars
<1>5. DoneWith' /\ Tried'
  <2>1. todo' = PlaceholdersOf(c) /\ left' = Hosts(c)
        /\ call' = IF todo' = {} \/ left' = {} THEN "done" ELSE "resolving"
    BY DEF Begin
  <2>2. \A w \in Words(c) : Word(c, w) \in todo'
    BY <2>1 DEF PlaceholdersOf
  <2> QED BY <1>1, <2>1, <2>2 DEF DoneWith, Tried
<1> QED BY <1>2, <1>3, <1>4, <1>5 DEF HookInv

\* The request is not answered: the command is as the agent wrote it.
LEMMA FailOpenInv ==
    ASSUME HookInv, FailOpen
    PROVE  HookInv'
<1>1. /\ command' = command /\ out' = command /\ call' = "open" /\ since' = since
      /\ UNCHANGED vars
      /\ Words(command)' = Words(command) /\ Hosts(command)' = Hosts(command)
      /\ \A w : Word(command, w)' = Word(command, w) /\ Word(out, w)' = Word(command, w)
      /\ Replaced' = {}
  BY DEF FailOpen, Words, Word, Hosts, Replaced
<1>2. Shape'
  <2>1. \A i \in DOMAIN command :
           command[i] \in [host : Seq(Label), words : Seq(Placeholder \cup Secret)]
    BY PartWidens DEF HookInv, Shape
  <2> QED BY <1>1, <2>1 DEF HookInv, Shape
<1>3. WrittenOrValue' /\ OneValue' /\ OnlyGranted'
  BY <1>1 DEF WrittenOrValue, OneValue, OnlyGranted
<1>4. History'
  BY <1>1 DEF HookInv, History, Grants, Bound, Hosts, vars
<1>5. DoneWith' /\ Tried'
  BY <1>1 DEF DoneWith, Tried
<1> QED BY <1>2, <1>3, <1>4, <1>5 DEF HookInv
\* The loop goes on to the next placeholder when this one is done with.
LEMMA NextInv ==
    ASSUME HookInv, call = "resolving", NEW p, NextPlaceholder(p),
           since'.always \subseteq since.always,
           Replaced \subseteq Replaced',
           \A w \in Words(command), h \in Hosts(command) :
               Word(command, w) = p /\ <<p, h>> \in since.always => w \in Replaced'
    PROVE  DoneWith' /\ Tried'
<1>1. /\ Words(command)' = Words(command) /\ Hosts(command)' = Hosts(command)
      /\ \A w : Word(command, w)' = Word(command, w)
      /\ todo' = todo \ {p} /\ left' = Hosts(command)'
      /\ call' = IF todo' = {} THEN "done" ELSE "resolving"
  BY DEF NextPlaceholder, Words, Word, Hosts
<1>2. ASSUME NEW w \in Words(command), NEW h \in Hosts(command),
             <<Word(command, w), h>> \in since'.always
      PROVE  w \in Replaced' \/ (call' = "resolving" /\ Word(command, w) \in todo')
  <2>1. w \in Replaced \/ Word(command, w) \in todo
    BY <1>2 DEF HookInv, DoneWith
  <2>2. CASE Word(command, w) = p
    BY <1>2, <2>2
  <2>3. CASE Word(command, w) # p
    BY <1>1, <2>1, <2>3
  <2> QED BY <2>2, <2>3
<1>3. DoneWith'
  BY <1>1, <1>2 DEF DoneWith
<1>4. Tried'
  BY <1>1 DEF Tried
<1> QED BY <1>3, <1>4

LEMMA BoundMeans ==
    ASSUME Listing, HookInv, NEW p, NEW h \in Hosts(command)
    PROVE  <<p, h>> \in Bound(command) <=> Resolves(p, h)
<1>1. h \in Seq(Label)
  BY WordFacts DEF HookInv
<1>2. ASSUME p \in DOMAIN byPH
      PROVE  byPH[p].bindings \subseteq Seq(Label)
  BY <1>2, PatternAssumption DEF Listing, TypeOK, Entry
<1>3. <<p, h>> \in Bound(command)
         <=> p \in DOMAIN byPH /\ \E pat \in byPH[p].bindings : Allows(pat, h)
  BY DEF Bound
<1> QED BY <1>1, <1>2, <1>3, MatchIsAllowed DEF Resolves

LEMMA SubstituteInv ==
    ASSUME Listing, HookInv, NEW p, NEW h, Substitute(p, h)
    PROVE  HookInv'
<1> DEFINE v == byPH[p].value
<1>1. /\ p \in DOMAIN byPH /\ p \in Placeholder /\ v \in Secret
      /\ h \in left /\ h \in Hosts(command) /\ call = "resolving"
      /\ out' = SubstituteAll(out, p, v) /\ NextPlaceholder(p) /\ Follow
      /\ Resolves(p, h)
  <2>1. p \in DOMAIN byPH /\ p \in Placeholder /\ v \in Secret
    BY DEF Substitute, Resolves, Listing, TypeOK, Entry
  <2>2. h \in left /\ h \in Hosts(command)
    BY DEF Substitute, Asked, HostTurn, HookInv, Tried
  <2> QED BY <2>1, <2>2 DEF Substitute, Asked
<1> HIDE DEF v
<1>2. /\ command' = command /\ Words(command)' = Words(command)
      /\ Hosts(command)' = Hosts(command)
      /\ \A w : Word(command, w)' = Word(command, w)
  BY <1>1 DEF NextPlaceholder, Words, Word, Hosts
<1>3. /\ DOMAIN out' = DOMAIN command
      /\ \A i \in DOMAIN command :
            /\ out'[i] \in [host : Seq(Label), words : Seq(Placeholder \cup Secret)]
            /\ Len(out'[i].words) = Len(command[i].words)
      /\ \A w \in Words(command) :
            Word(out, w)' = IF Word(out, w) = p THEN v ELSE Word(out, w)
  <2>1. /\ DOMAIN out' = DOMAIN command
        /\ \A i \in DOMAIN command :
              /\ out'[i] \in [host : Seq(Label), words : Seq(Placeholder \cup Secret)]
              /\ Len(out'[i].words) = Len(command[i].words)
        /\ \A w \in Words(command) :
              Word(out', w) = IF Word(out, w) = p THEN v ELSE Word(out, w)
    BY <1>1, SubstituteFacts DEF HookInv
  <2> QED BY <2>1 DEF Word
<1>4. Shape'
  BY <1>2, <1>3 DEF HookInv, Shape
<1>5. WrittenOrValue'
  BY <1>1, <1>2, <1>3 DEF HookInv, WrittenOrValue
<1>6. OneValue'
  BY <1>2, <1>3 DEF HookInv, OneValue
<1>7. \A w \in Words(command) : Word(out, w) # p => Word(out, w)' = Word(out, w)
  BY <1>3
<1>8. v # p /\ \A w \in Words(command) : Word(out, w) = p => Word(command, w) = p
  BY <1>1, WordFacts, FormAssumption DEF HookInv, WrittenOrValue
<1>9. Replaced \subseteq Replaced'
  <2>1. ASSUME NEW w \in Replaced
        PROVE  w \in Replaced'
    <3>1. w \in Words(command) /\ Word(out, w) # Word(command, w) /\ Word(out, w) \in Secret
      BY DEF Replaced, HookInv, WrittenOrValue
    <3>2. Word(out, w)' = Word(out, w)
      BY <1>7, <1>8, <3>1
    <3> QED BY <1>2, <3>1, <3>2 DEF Replaced
  <2> QED BY <2>1
<1>10. \A w \in Words(command) : Word(command, w) = p => w \in Replaced'
  <2>1. ASSUME NEW w \in Words(command), Word(command, w) = p
        PROVE  Word(out, w)' # p
    BY <1>3, <1>8
  <2> QED BY <1>2, <2>1 DEF Replaced
<1>11. since'.always \subseteq since.always /\ since.ever \subseteq since'.ever /\ History'
  BY <1>1 DEF Follow, History
<1>12. DoneWith' /\ Tried'
  BY <1>1, <1>9, <1>10, <1>11, NextInv
<1>13. OnlyGranted'
  <2>1. <<p, h, v>> \in Grants(command)
    <3>1. <<p, h>> \in Bound(command)
      BY <1>1, BoundMeans
    <3> QED BY <3>1 DEF Grants, v
  <2>2. <<p, h, v>> \in since.ever
    BY <2>1 DEF HookInv, History
  <2>3. ASSUME NEW w \in Replaced'
        PROVE  \E g \in Hosts(command) : <<Word(command, w), g, Word(out, w)'>> \in since'.ever
    <3>1. w \in Words(command) /\ Word(out, w)' # Word(command, w)
      BY <1>2 DEF Replaced
    <3>2. CASE Word(out, w) = p
      BY <1>1, <1>3, <1>8, <1>11, <2>2, <3>1, <3>2
    <3>3. CASE Word(out, w) # p
      <4>1. w \in Replaced /\ Word(out, w)' = Word(out, w)
        BY <1>7, <3>1, <3>3 DEF Replaced
      <4> QED BY <1>11, <4>1 DEF HookInv, OnlyGranted
    <3> QED BY <3>2, <3>3
  <2> QED BY <1>2, <2>3 DEF OnlyGranted
<1> QED BY <1>4, <1>5, <1>6, <1>11, <1>12, <1>13 DEF HookInv

LEMMA NotResolvedInv ==
    ASSUME Listing, HookInv, NEW p, NEW h, NotBound(p, h) \/ NotFound(p, h)
    PROVE  HookInv'
<1>1. /\ call = "resolving" /\ PlaceholderTurn(p) /\ h \in left /\ ~Resolves(p, h)
      /\ UNCHANGED <<vars, out, since, command>>
  BY DEF NotBound, NotFound, Asked, HostTurn, Resolves, NextPlaceholder
<1>2. /\ Words(command)' = Words(command) /\ Hosts(command)' = Hosts(command)
      /\ \A w : Word(command, w)' = Word(command, w) /\ Word(out, w)' = Word(out, w)
      /\ Replaced' = Replaced
  BY <1>1 DEF Words, Word, Hosts, Replaced
<1>3. Shape' /\ WrittenOrValue' /\ OneValue' /\ OnlyGranted'
  BY <1>1, <1>2 DEF HookInv, Shape, WrittenOrValue, OneValue, OnlyGranted
<1>4. History'
  BY <1>1, <1>2 DEF HookInv, History, Grants, Bound, vars
<1>5. h \in Hosts(command) => <<p, h>> \notin since.always
  BY <1>1, BoundMeans DEF HookInv, History
<1>6. p \in Placeholder
  BY <1>1, WordFacts DEF PlaceholderTurn, HookInv
<1>7. CASE NextPlaceholder(p) /\ \A g \in Hosts(command) : <<p, g>> \notin since.always
  <2>1. DoneWith' /\ Tried'
    BY <1>1, <1>2, <1>7, NextInv
  <2> QED BY <1>3, <1>4, <2>1 DEF HookInv
<1>8. CASE left' = Remaining(h) /\ UNCHANGED <<call, command, todo>>
  <2>1. \A q : PlaceholderTurn(q)' = PlaceholderTurn(q)
    BY <1>8, <1>2 DEF PlaceholderTurn
  <2>2. DoneWith'
    BY <1>1, <1>2, <1>8 DEF HookInv, DoneWith
  <2>3. ASSUME NEW q \in Placeholder, NEW g \in Hosts(command) \ left', PlaceholderTurn(q)
        PROVE  <<q, g>> \notin since.always
    <3>1. q = p
      BY <1>1, <2>3, OneTurn DEF HookInv
    <3>2. g \notin left \/ g = h
      BY <1>8 DEF Remaining
    <3> QED BY <1>1, <1>5, <1>6, <2>3, <3>1, <3>2 DEF HookInv, Tried
  <2>4. Tried'
    BY <1>1, <1>2, <1>8, <2>1, <2>3 DEF HookInv, Tried, Remaining
  <2> QED BY <1>3, <1>4, <2>2, <2>4 DEF HookInv
<1>9. NextPlaceholder(p) => \A g \in Hosts(command) : <<p, g>> \notin since.always
  <2>1. CASE NotFound(p, h)
    <3>1. \A g : ~Resolves(p, g)
      BY <2>1 DEF NotFound, Resolves
    <3> QED BY <3>1, BoundMeans DEF HookInv, History
  <2>2. CASE NotBound(p, h) /\ Remaining(h) = {}
    <3>1. \A g \in left : g = h
      BY <2>2 DEF Remaining
    <3> QED BY <1>1, <1>5, <1>6, <3>1 DEF HookInv, Tried
  <2>3. CASE NotBound(p, h) /\ Remaining(h) # {}
    <3>1. todo' = todo /\ p \in todo
      BY <1>1, <2>3 DEF NotBound, PlaceholderTurn
    <3> QED BY <3>1 DEF NextPlaceholder
  <2> QED BY <2>1, <2>2, <2>3
<1> QED BY <1>7, <1>8, <1>9 DEF NotBound, NotFound
-----------------------------------------------------------------------------
(***************************************************************************)
(* From end to end.  Once the tool runs, the command is gone.              *)
(***************************************************************************)
Gone == stage # "pre" => /\ command = <<>> /\ out = <<>> /\ call # "resolving"
                         /\ since.always = {}

CallInv == Listing /\ HookInv /\ Gone

LEMMA InitCall == ToolCallInit => CallInv
<1> SUFFICES ASSUME ToolCallInit
             PROVE  CallInv
  OBVIOUS
<1>1. Listing
  BY InitListing DEF ToolCallInit, HookInit
<1>2. HookInv
  BY NoCommand DEF NoCall, ToolCallInit, HookInit
<1> QED BY <1>1, <1>2 DEF CallInv, Gone, ToolCallInit

LEMMA HookStepListing ==
    ASSUME Listing, HookStep
    PROVE  Listing'
<1>1. CASE UNCHANGED vars
  BY <1>1, NextListing
<1>2. ASSUME NEW p, MarkUse(p)
      PROVE  Listing'
  <2>1. p \in Placeholder
    BY <1>2 DEF MarkUse, Listing, TypeOK
  <2>2. Housekeeping
    BY <1>2, <2>1 DEF Housekeeping
  <2> QED BY <2>2, HousekeepingListing
<1> QED BY <1>1, <1>2 DEF HookStep, Begin, Substitute, NotBound, NotFound, FailOpen

LEMMA HookStepInv ==
    ASSUME Listing, HookInv, HookStep
    PROVE  HookInv'
BY BeginInv, SubstituteInv, NotResolvedInv, FailOpenInv DEF HookStep

\* What the daemon's handler does to the vault is among the vault's operations.
LEMMA HandleUses ==
    ASSUME Handle
    PROVE  [Next]_vars
<1>1. CASE UNCHANGED vars
  BY <1>1
<1>2. ASSUME NEW s \in Secret, D!Register(s, {})
      PROVE  Next
  <2>1. {} \in SUBSET Pattern
    OBVIOUS
  <2>2. Register(s, {})
    BY <1>2 DEF Register, RegisterKnown, RegisterDangling, RegisterNew, Running, Known, Put,
                NewEntry, MergeBindings, Listed,
                D!Register, D!RegisterKnown, D!RegisterDangling, D!RegisterNew, D!Running,
                D!Known, D!Put, D!NewEntry, D!MergeBindings, D!Listed
  <2> QED BY <2>1, <2>2 DEF Next
<1>3. ASSUME NEW s \in Secret, D!MarkUse(PlaceholderOf[s])
      PROVE  Next
  <2>1. PlaceholderOf[s] \in Placeholder
    BY PlaceholderOfAssumption
  <2>2. MarkUse(PlaceholderOf[s])
    BY <1>3 DEF MarkUse, D!MarkUse
  <2> QED BY <2>1, <2>2 DEF Next, Housekeeping
<1> QED BY <1>1, <1>2, <1>3
        DEF Handle, HandlerStep, vars, D!vars, D!SetExactValues, D!StartMatch, D!Scan, D!ResolveExact,
            D!ResolvePattern, D!LeavePattern, D!RedactInPlace

LEMMA NextCall == CallInv /\ [ToolCallNext]_tvars => CallInv'
<1> SUFFICES ASSUME CallInv, [ToolCallNext]_tvars
             PROVE  CallInv'
  OBVIOUS
<1> USE DEF CallInv
<1>1. ASSUME [Next]_vars, UNCHANGED callVars, UNCHANGED stage,
             IF stage = "pre" THEN Follow ELSE UNCHANGED since
      PROVE  CallInv'
  <2>1. Listing'
    BY <1>1, NextListing
  <2>2. HookInv'
    BY <1>1, NobodyResolves DEF Gone
  <2>3. Gone'
    BY <1>1 DEF Gone, callVars
  <2> QED BY <2>1, <2>2, <2>3
<1>2. ASSUME UNCHANGED hvars, stage # "pre", stage' # "pre"
      PROVE  CallInv'
  <2>1. Listing' /\ UNCHANGED callVars /\ UNCHANGED since
    BY <1>2, NextListing DEF hvars
  <2>2. HookInv'
    BY <1>2, <2>1, NobodyResolves DEF Gone
  <2> QED BY <1>2, <2>1, <2>2 DEF Gone, callVars
<1>3. CASE PreToolUse
  <2>1. Gone'
    BY <1>3 DEF PreToolUse, Gone
  <2> QED BY <1>3, <2>1, HookStepListing, HookStepInv DEF PreToolUse
<1>4. CASE RunTool
  <2>1. Listing'
    BY <1>4, NextListing DEF RunTool
  <2>2. /\ command' = <<>> /\ out' = <<>> /\ since' = [ever |-> {}, always |-> {}]
        /\ call' # "resolving"
    BY <1>4 DEF RunTool, Over
  <2>3. HookInv'
    BY <2>2, NoCommandNext DEF NoCall
  <2>4. Gone'
    BY <2>2 DEF Gone
  <2> QED BY <2>1, <2>3, <2>4
<1>5. CASE Show \/ PostFailsOpen
  BY <1>2, <1>5 DEF Show, PostFailsOpen
<1>6. CASE AskScan
  BY <1>2, <1>6 DEF AskScan, D!Accept, D!vars, hvars, vars
<1>7. CASE Handle
  BY <1>1, <1>7, HandleUses DEF Handle
<1>10. CASE OtherScan
  <2>1. UNCHANGED vars
    BY <1>10 DEF OtherScan, D!Accept, D!SetExactValues, D!StartMatch, D!Scan, D!vars, vars
  <2>2. stage # "pre"
    BY <1>10 DEF OtherScan
  <2> QED BY <1>2, <1>10, <2>1, <2>2 DEF OtherScan, hvars
<1>8. CASE Meanwhile
  BY <1>1, <1>8 DEF Meanwhile
<1>9. CASE UNCHANGED tvars
  <2>1. /\ Listing' /\ UNCHANGED callVars /\ UNCHANGED since /\ UNCHANGED stage
        /\ UNCHANGED vars
    BY <1>9, NextListing DEF tvars, hvars
  <2>2. CASE stage = "pre"
    BY <2>1, <2>2, SameInv DEF Gone
  <2>3. CASE stage # "pre"
    BY <1>2, <2>1, <2>3 DEF hvars
  <2> QED BY <2>2, <2>3
<1> QED BY <1>3, <1>4, <1>5, <1>6, <1>7, <1>8, <1>9, <1>10 DEF ToolCallNext

\* For any command, any bindings and any hosts, and whatever happens to the
\* vault meanwhile: a value goes into the command only where it was bound to a
\* host of the command under that placeholder.
THEOREM NothingUnbound == ToolCallSpec => []OnlyGranted
<1>1. CallInv => OnlyGranted
  BY DEF CallInv, HookInv
<1> QED BY <1>1, InitCall, NextCall, PTL DEF ToolCallSpec

\* And it does go in, if the placeholder stayed bound to a host of the command
\* and the daemon answered.
THEOREM BoundReplaced == ToolCallSpec => []BoundSubstituted
<1>1. CallInv => BoundSubstituted
  BY DEF CallInv, HookInv, DoneWith, BoundSubstituted
<1> QED BY <1>1, InitCall, NextCall, PTL DEF ToolCallSpec

\* All the occurrences of a placeholder in a command become the same.
THEOREM NeverTwoValues == ToolCallSpec => []OneValue
<1>1. CallInv => OneValue
  BY DEF CallInv, HookInv
<1> QED BY <1>1, InitCall, NextCall, PTL DEF ToolCallSpec
-----------------------------------------------------------------------------
(***************************************************************************)
(* The daemon's side.  Every step of a call is a step of module Daemon, or *)
(* none of the daemon's business, so what is proved there holds here.      *)
(***************************************************************************)
DP == INSTANCE DaemonProofs WITH
          Scanner <- {"post"} \cup Other, Texts <- SUBSET Secret, Legacy <- {},
          todo <- matches, since <- sinceScan

\* The daemon's view of the vault is the vault.
LEMMA SameVault ==
    /\ Init => D!Init
    /\ Next => \/ \E v \in Secret, hs \in SUBSET Pattern : D!Register(v, hs)
               \/ \E p \in Placeholder, v \in Secret : D!Rotate(p, v)
               \/ D!Housekeeping
               \/ D!Close
<1>1. Init => D!Init
  BY DEF Init, D!Init, Empty, D!Empty
<1>2. ASSUME NEW v \in Secret, NEW hs \in SUBSET Pattern, Register(v, hs)
      PROVE  D!Register(v, hs)
  BY <1>2 DEF Register, RegisterKnown, RegisterDangling, RegisterNew, Running, Known, Put,
              NewEntry, MergeBindings, Listed,
              D!Register, D!RegisterKnown, D!RegisterDangling, D!RegisterNew, D!Running,
              D!Known, D!Put, D!NewEntry, D!MergeBindings, D!Listed
<1>3. ASSUME NEW p \in Placeholder, NEW v \in Secret, Rotate(p, v)
      PROVE  D!Rotate(p, v)
  BY <1>3 DEF Rotate, ReIndexed, Put, Drop, Restrict, Running,
              D!Rotate, D!ReIndexed, D!Put, D!Drop, D!Restrict, D!Running
<1>4. Housekeeping => D!Housekeeping
  <2>1. \A s, e : D!RemoveFirst(s, e) = RemoveFirst(s, e)
    BY DEF RemoveFirst, RemoveAt, SelectInSeq, Min,
           D!RemoveFirst, D!RemoveAt, D!SelectInSeq, D!Min
  <2> QED BY <2>1 DEF Housekeeping, Bind, Unbind, SetStatus, Delete, MarkUse, ListDangling, Running,
         MergeBindings, UnIndexed, Unlisted, Drop, Restrict,
         D!Housekeeping, D!Bind, D!Unbind, D!SetStatus, D!Delete, D!MarkUse, D!ListDangling,
         D!Running, D!MergeBindings, D!UnIndexed, D!Unlisted, D!Drop, D!Restrict
<1>5. Close => D!Close
  BY DEF Close, D!Close, Emptied, D!Emptied, Empty, D!Empty
<1> QED BY <1>1, <1>2, <1>3, <1>4, <1>5 DEF Next
\* What ties the post-tool hook to the request it has sent.
Link ==
    /\ response \subseteq Secret
    /\ stage = "post" \/ Scrubbed =>
          request["post"] = [text |-> response \ Escaped, auto |-> TRUE]
    /\ Scrubbed => phase["post"] = "done" /\ view = answer["post"]

LEMMA StepServes ==
    ASSUME Listing, Link, ToolCallNext
    PROVE  [D!DaemonNext]_(D!dvars)
<1>1. ASSUME UNCHANGED vars \/ Next, D!Follow, UNCHANGED scan
      PROVE  D!DaemonNext
  BY <1>1, SameVault
     DEF D!DaemonNext, D!RegisterRequest, D!RotateRequest, D!EntryRequest, D!ReadRequest,
         D!Shutdown, D!Others, D!detector, D!scanVars, scan, vars, D!vars
<1>2. CASE PreToolUse
  <2>1. ASSUME NEW p, MarkUse(p)
        PROVE  Next
    <3>1. p \in Placeholder
      BY <2>1 DEF MarkUse, Listing, TypeOK
    <3> QED BY <2>1, <3>1 DEF Next, Housekeeping
  <2>2. UNCHANGED vars \/ Next
    BY <1>2, <2>1 DEF PreToolUse, HookStep, Begin, Substitute, NotBound, NotFound, FailOpen
  <2> QED BY <1>1, <1>2, <2>2 DEF PreToolUse
<1>3. CASE RunTool \/ Show \/ PostFailsOpen
  BY <1>3 DEF RunTool, Show, PostFailsOpen, hvars, scan, history, vars,
              D!dvars, D!vars, D!detector, D!scanVars, D!history
<1>4. CASE AskScan
  <2>1. D!Accept("post", response \ Escaped, TRUE) /\ response \ Escaped \in SUBSET Secret
    BY <1>4 DEF AskScan, AutoRegister, Link
  <2>2. "post" \in {"post"} \cup Other
    OBVIOUS
  <2> QED BY <2>1, <2>2 DEF D!DaemonNext, D!ScanStep
<1>5. CASE Handle
  <2>1. "post" \in {"post"} \cup Other
    OBVIOUS
  <2> QED BY <1>5, <2>1 DEF Handle, HandlerStep, D!DaemonNext, D!ScanStep
<1>6. CASE OtherScan
  <2>1. PICK h \in Other : \/ \E text \in Texts : D!Accept(h, text, TRUE)
                          \/ D!SetExactValues(h) \/ D!StartMatch(h) \/ D!Scan(h)
    BY <1>6 DEF OtherScan
  <2>2. D!ScanStep(h)
    BY <2>1, TextsAssumption DEF D!ScanStep
  <2>3. h \in {"post"} \cup Other
    OBVIOUS
  <2> QED BY <2>2, <2>3 DEF D!DaemonNext
<1>7. CASE Meanwhile
  BY <1>1, <1>7 DEF Meanwhile
<1> QED BY <1>2, <1>3, <1>4, <1>5, <1>6, <1>7 DEF ToolCallNext

LEMMA LinkStep ==
    ASSUME HookInv, DP!MaskInv, Link, ToolCallNext
    PROVE  Link'
<1>1. DOMAIN request = {"post"} \cup Other /\ DOMAIN phase = {"post"} \cup Other
  BY DEF DP!MaskInv, DP!ScanTypes
<1>2. CASE PreToolUse \/ Meanwhile
  <2>1. UNCHANGED <<stage, toolVars, scan>>
    BY <1>2 DEF PreToolUse, Meanwhile
  <2> QED BY <2>1 DEF Link, Scrubbed, toolVars, scan
<1>3. CASE RunTool
  <2>1. /\ response' \subseteq {g[2] : g \in Substitutions} \cup Patterned
        /\ stage' = IF response' = {} THEN "shown" ELSE "tool"
    BY <1>3 DEF RunTool
  <2>2. \A g \in Substitutions : g[2] \in Secret
    BY DEF Substitutions, Replaced, Word, HookInv, WrittenOrValue
  <2>3. response' \subseteq Secret
    BY <2>1, <2>2, PatternedAssumption
  <2> QED BY <2>1, <2>3 DEF Link, Scrubbed
<1>4. CASE PostFailsOpen
  BY <1>4 DEF PostFailsOpen, Link, Scrubbed, toolVars, scan
<1>5. CASE AskScan
  <2>1. /\ request' = [request EXCEPT !["post"] = [text |-> response \ Escaped, auto |-> TRUE]]
        /\ stage' = "post" /\ response' = response
    BY <1>5 DEF AskScan, AutoRegister, D!Accept, toolVars
  <2> QED BY <1>1, <2>1 DEF Link, Scrubbed
<1>6. CASE Handle
  <2>1. request' = request /\ UNCHANGED <<stage, toolVars>> /\ stage = "post"
    BY <1>6 DEF Handle, HandlerStep, D!SetExactValues, D!StartMatch, D!Scan, D!ResolveExact,
                D!ResolvePattern, D!LeavePattern, D!Resolved, D!RedactInPlace
  <2> QED BY <2>1 DEF Link, Scrubbed, toolVars
<1>7. CASE OtherScan
  <2>1. /\ UNCHANGED <<stage, toolVars>>
        /\ phase["post"] # "done"
        /\ \E h \in Other : \/ \E text : D!Accept(h, text, TRUE)
                            \/ D!SetExactValues(h) \/ D!StartMatch(h) \/ D!Scan(h)
    BY <1>7 DEF OtherScan
  <2>2. request'["post"] = request["post"]
    <3>1. ASSUME NEW h \in Other, NEW text, D!Accept(h, text, TRUE)
          PROVE  request'["post"] = request["post"]
      BY <1>1, <3>1, OtherAssumption DEF D!Accept
    <3>2. ASSUME NEW h \in Other, D!SetExactValues(h) \/ D!StartMatch(h) \/ D!Scan(h)
          PROVE  request' = request
      BY <3>2 DEF D!SetExactValues, D!StartMatch, D!Scan
    <3> QED BY <2>1, <3>1, <3>2
  <2>3. ~Scrubbed /\ ~Scrubbed'
    BY <2>1 DEF Link, Scrubbed, toolVars
  <2> QED BY <2>1, <2>2, <2>3 DEF Link, toolVars
<1>8. CASE Show
  BY <1>8 DEF Show, Link, Scrubbed, scan
<1> QED BY <1>2, <1>3, <1>4, <1>5, <1>6, <1>7, <1>8 DEF ToolCallNext
\* Both instances are of the same module.
LEMMA SameDaemon ==
    /\ D!DaemonInit => DP!DaemonInit
    /\ [D!DaemonNext]_(D!dvars) => [DP!DaemonNext]_(DP!dvars)
<1>1. D!DaemonInit => DP!DaemonInit
  BY DEF D!DaemonInit, DP!DaemonInit, D!Init, DP!Init, D!Empty, DP!Empty, D!Idle, DP!Idle
<1>2. (UNCHANGED D!dvars) <=> (UNCHANGED DP!dvars)
  BY DEF D!dvars, DP!dvars, D!vars, DP!vars, D!detector, DP!detector, D!scanVars, DP!scanVars,
         D!history, DP!history
<1>3. D!Values = DP!Values /\ D!Values' = DP!Values' /\ D!Reused = DP!Reused
  BY DEF D!Values, DP!Values, D!Reused, DP!Reused
<1>4. D!Follow <=> DP!Follow
  BY <1>3 DEF D!Follow, DP!Follow
<1>5. \A v, hs : D!Register(v, hs) <=> DP!Register(v, hs)
  BY DEF D!Register, D!RegisterKnown, D!RegisterDangling, D!RegisterNew, D!Running,
         D!Known, D!Put, D!NewEntry, D!MergeBindings, D!Listed,
         DP!Register, DP!RegisterKnown, DP!RegisterDangling, DP!RegisterNew, DP!Running,
         DP!Known, DP!Put, DP!NewEntry, DP!MergeBindings, DP!Listed
<1>6. \A p : D!MarkUse(p) <=> DP!MarkUse(p)
  BY DEF D!MarkUse, DP!MarkUse
<1>7. ASSUME NEW h \in {"post"} \cup Other, D!ScanStep(h)
      PROVE  DP!ScanStep(h)
  <2>1. ASSUME NEW m, NEW ps, D!Resolved(h, m, ps)
        PROVE  DP!Resolved(h, m, ps)
    BY <1>4, <2>1 DEF D!Resolved, DP!Resolved, D!detector, DP!detector
  <2>2. ASSUME NEW text, NEW auto, D!Accept(h, text, auto)
        PROVE  DP!Accept(h, text, auto)
    BY <1>3, <2>2 DEF D!Accept, DP!Accept, D!Step, DP!Step, D!vars, DP!vars, D!detector, DP!detector
  <2>3. D!SetExactValues(h) => DP!SetExactValues(h)
    BY DEF D!SetExactValues, DP!SetExactValues, D!Step, DP!Step, D!vars, DP!vars,
           D!Loaded, DP!Loaded, D!history, DP!history
  <2>4. D!StartMatch(h) => DP!StartMatch(h)
    BY DEF D!StartMatch, DP!StartMatch, D!Step, DP!Step, D!vars, DP!vars,
           D!history, DP!history
  <2>5. D!Scan(h) => DP!Scan(h)
    BY DEF D!Scan, DP!Scan, D!Step, DP!Step, D!vars, DP!vars, D!Found, DP!Found,
           D!Hits, DP!Hits, D!history, DP!history
  <2>6. ASSUME NEW s \in Secret
        PROVE  /\ D!ResolveExact(h, s) => DP!ResolveExact(h, s)
               /\ D!ResolvePattern(h, s) => DP!ResolvePattern(h, s)
               /\ D!LeavePattern(h, s) => DP!LeavePattern(h, s)
    BY <1>5, <1>6, <2>1
       DEF D!ResolveExact, DP!ResolveExact, D!ResolvePattern, DP!ResolvePattern,
           D!LeavePattern, DP!LeavePattern, D!PatternTurn, DP!PatternTurn, D!vars, DP!vars
  <2>7. D!RedactInPlace(h) => DP!RedactInPlace(h)
    BY DEF D!RedactInPlace, DP!RedactInPlace, D!Step, DP!Step, D!vars, DP!vars,
           D!detector, DP!detector, D!Replacements, DP!Replacements,
           D!history, DP!history
  <2>8. D!Reply(h) => DP!Reply(h)
    BY DEF D!Reply, DP!Reply, D!Step, DP!Step, D!vars, DP!vars,
           D!detector, DP!detector, D!Idle, DP!Idle
  <2> QED BY <1>7, <2>2, <2>3, <2>4, <2>5, <2>6, <2>7, <2>8 DEF D!ScanStep, DP!ScanStep
<1>8. \A p, v : D!Rotate(p, v) <=> DP!Rotate(p, v)
  BY DEF D!Rotate, D!ReIndexed, D!Put, D!Drop, D!Restrict, D!Running,
         DP!Rotate, DP!ReIndexed, DP!Put, DP!Drop, DP!Restrict, DP!Running
<1>9. D!Housekeeping <=> DP!Housekeeping
  <2>1. \A s, e : D!RemoveFirst(s, e) = DP!RemoveFirst(s, e)
    BY DEF D!RemoveFirst, D!RemoveAt, D!SelectInSeq, D!Min,
           DP!RemoveFirst, DP!RemoveAt, DP!SelectInSeq, DP!Min
  <2> QED BY <1>6, <2>1
    DEF D!Housekeeping, D!Bind, D!Unbind, D!SetStatus, D!Delete, D!ListDangling,
        D!Running, D!MergeBindings, D!UnIndexed, D!Unlisted, D!Drop, D!Restrict,
        DP!Housekeeping, DP!Bind, DP!Unbind, DP!SetStatus, DP!Delete, DP!ListDangling,
        DP!Running, DP!MergeBindings, DP!UnIndexed, DP!Unlisted, DP!Drop, DP!Restrict
<1>10. D!Close <=> DP!Close
  BY DEF D!Close, DP!Close, D!Emptied, DP!Emptied, D!Empty, DP!Empty
<1>11. ASSUME D!RegisterRequest \/ D!RotateRequest \/ D!EntryRequest \/ D!ReadRequest \/ D!Shutdown
       PROVE  DP!DaemonNext
  BY <1>4, <1>5, <1>8, <1>9, <1>10, <1>11
     DEF DP!DaemonNext, D!RegisterRequest, D!RotateRequest, D!EntryRequest, D!ReadRequest,
         D!Shutdown, D!Others, D!detector, D!scanVars, D!vars,
         DP!RegisterRequest, DP!RotateRequest, DP!EntryRequest, DP!ReadRequest,
         DP!Shutdown, DP!Others, DP!detector, DP!scanVars, DP!vars
<1> QED BY <1>1, <1>2, <1>7, <1>11 DEF D!DaemonNext, DP!DaemonNext
-----------------------------------------------------------------------------
DaemonInv == DP!MaskInv /\ DP!SinceTypes /\ DP!ActiveInv /\ DP!HomeInv

\* What the command got for a placeholder hashes to it, or a rotation has been
\* at it; and what the tool printed of that.
Home(p, v) == p \in moved \/ PlaceholderOf[v] = p

WordsHome == \A w \in Replaced : Home(Word(command, w), Word(out, w))

GivenHome == \A g \in given : g[2] \in Secret /\ Home(g[1], g[2])

WholeInv == CallInv /\ Link /\ DaemonInv /\ WordsHome /\ GivenHome

LEMMA MovedGrows ==
    ASSUME ToolCallNext
    PROVE  moved \subseteq moved'
<1>1. D!Follow => moved \subseteq moved'
  BY DEF D!Follow
<1>2. Handle => D!Follow \/ moved' = moved
  BY DEF Handle, HandlerStep, D!SetExactValues, D!StartMatch, D!Scan, D!ResolveExact,
         D!ResolvePattern, D!LeavePattern, D!Resolved, D!RedactInPlace, D!history
<1>3. OtherScan => moved' = moved
  BY DEF OtherScan, D!Accept, D!SetExactValues, D!StartMatch, D!Scan, D!history
<1>4. AskScan => moved' = moved
  BY DEF AskScan, D!Accept
<1> QED BY <1>1, <1>2, <1>3, <1>4
        DEF ToolCallNext, PreToolUse, Meanwhile, RunTool, Show, PostFailsOpen, history

LEMMA PreHome ==
    ASSUME CallInv, DP!AtHome, WordsHome, PreToolUse, moved \subseteq moved'
    PROVE  WordsHome'
<1>1. ASSUME UNCHANGED <<command, out>>
      PROVE  WordsHome'
  BY <1>1 DEF WordsHome, Home, Replaced, Words, Word
<1>2. ASSUME NEW c \in Commands, Begin(c)
      PROVE  WordsHome'
  <2>1. Replaced' = {}
    BY <1>2 DEF Begin, Replaced, Words, Word
  <2> QED BY <2>1 DEF WordsHome
<1>3. CASE FailOpen
  <2>1. Replaced' = {}
    BY <1>3 DEF FailOpen, Replaced, Words, Word
  <2> QED BY <2>1 DEF WordsHome
<1>4. ASSUME NEW p, NEW h, Substitute(p, h)
      PROVE  WordsHome'
  <2> DEFINE v == byPH[p].value
  <2>1. /\ p \in DOMAIN byPH /\ p \in Placeholder /\ v \in Secret
        /\ out' = SubstituteAll(out, p, v) /\ command' = command
        /\ HookInv /\ Shape
    BY <1>4 DEF Substitute, Resolves, NextPlaceholder, CallInv, Listing, TypeOK, Entry, HookInv
  <2>2. Home(p, v)
    BY <2>1 DEF DP!AtHome, Home
  <2> HIDE DEF v
  <2>3. /\ Words(command)' = Words(command)
        /\ \A w : Word(command, w)' = Word(command, w)
    BY <2>1 DEF Words, Word
  <2>4. \A w \in Words(command) :
           Word(out, w)' = IF Word(out, w) = p THEN v ELSE Word(out, w)
    <3>1. \A w \in Words(command) :
             Word(out', w) = IF Word(out, w) = p THEN v ELSE Word(out, w)
      BY <2>1, SubstituteFacts
    <3> QED BY <3>1 DEF Word
  <2>5. \A w \in Words(command) : Word(out, w) = p => Word(command, w) = p
    BY <2>1, WordFacts, FormAssumption DEF HookInv, WrittenOrValue
  <2>6. ASSUME NEW w \in Replaced'
        PROVE  Home(Word(command, w), Word(out, w))'
    <3>1. w \in Words(command) /\ Word(out, w)' # Word(command, w)
      BY <2>3 DEF Replaced
    <3>2. CASE Word(out, w) = p
      <4>1. Word(out, w)' = v /\ Word(command, w)' = p
        BY <2>3, <2>4, <2>5, <3>1, <3>2
      <4> QED BY <2>2, <4>1 DEF Home
    <3>3. CASE Word(out, w) # p
      <4>1. Word(out, w)' = Word(out, w) /\ Word(command, w)' = Word(command, w)
        BY <2>3, <2>4, <3>1, <3>3
      <4>2. w \in Replaced
        BY <3>1, <4>1 DEF Replaced
      <4> QED BY <4>1, <4>2 DEF WordsHome, Home
    <3> QED BY <3>2, <3>3
  <2> QED BY <2>6 DEF WordsHome
<1>5. ASSUME NEW p, NEW h, NotBound(p, h) \/ NotFound(p, h)
      PROVE  WordsHome'
  BY <1>1, <1>5 DEF NotBound, NotFound, NextPlaceholder
<1> QED BY <1>2, <1>3, <1>4, <1>5 DEF PreToolUse, HookStep

LEMMA HomeStep ==
    ASSUME CallInv, DP!AtHome, WordsHome, GivenHome, ToolCallNext
    PROVE  WordsHome' /\ GivenHome'
<1>1. moved \subseteq moved'
  BY MovedGrows
<1>2. ASSUME UNCHANGED <<command, out>>
      PROVE  WordsHome'
  BY <1>1, <1>2 DEF WordsHome, Home, Replaced, Words, Word
<1>3. ASSUME UNCHANGED given
      PROVE  GivenHome'
  BY <1>1, <1>3 DEF GivenHome, Home
<1>4. CASE PreToolUse
  BY <1>1, <1>3, <1>4, PreHome DEF PreToolUse, toolVars
<1>5. CASE RunTool
  <2>1. /\ command' = <<>> /\ given' \subseteq Substitutions
    BY <1>5 DEF RunTool
  <2>2. Replaced' = {}
    BY <2>1, EmptySeq DEF Replaced, Words
  <2>3. \A w \in Replaced : Word(out, w) \in Secret
    BY DEF Replaced, CallInv, HookInv, WrittenOrValue
  <2>4. \A g \in Substitutions : g[2] \in Secret /\ Home(g[1], g[2])
    BY <2>3 DEF Substitutions, WordsHome, Word
  <2> QED BY <1>1, <2>1, <2>2, <2>4 DEF WordsHome, GivenHome, Home
<1>6. CASE AskScan \/ Handle \/ OtherScan \/ Show \/ PostFailsOpen \/ Meanwhile
  BY <1>2, <1>3, <1>6 DEF AskScan, Handle, OtherScan, Show, PostFailsOpen, Meanwhile,
                          callVars, hvars, toolVars
<1> QED BY <1>4, <1>5, <1>6 DEF ToolCallNext

LEMMA InitWhole == ToolCallInit => WholeInv
<1> SUFFICES ASSUME ToolCallInit
             PROVE  WholeInv
  OBVIOUS
<1>1. DP!DaemonInit
  BY SameDaemon DEF ToolCallInit
<1>2. DP!MaskInv
  <2>1. DP!DaemonInit => DP!MaskInv
    BY DP!MaskInit, PlaceholderOfAssumption, StatusAssumption, BoundAssumption,
       PatternedAssumption, RawAssumption
  <2> QED BY <1>1, <2>1
<1>3. DP!SinceTypes /\ DP!ActiveInv
  BY <1>1 DEF DP!DaemonInit, DP!SinceTypes, DP!ActiveInv
<1>4. DP!HomeInv
  BY <1>1 DEF DP!DaemonInit, DP!Init, DP!Empty, DP!HomeInv, DP!AtHome, DP!IndexedHome,
              DP!TokensHome
<1>5. Link
  BY DEF ToolCallInit, Link, Scrubbed
<1>6. WordsHome /\ GivenHome
  BY EmptySeq DEF ToolCallInit, HookInit, WordsHome, GivenHome, Replaced, Words
<1> QED BY <1>2, <1>3, <1>4, <1>5, <1>6, InitCall DEF WholeInv, DaemonInv

LEMMA NextWhole == WholeInv /\ [ToolCallNext]_tvars => WholeInv'
<1> SUFFICES ASSUME WholeInv, [ToolCallNext]_tvars
             PROVE  WholeInv'
  OBVIOUS
<1>1. CallInv'
  BY NextCall DEF WholeInv
<1>2. Link'
  <2>1. CASE ToolCallNext
    BY <2>1, LinkStep DEF WholeInv, DaemonInv, CallInv
  <2>2. CASE UNCHANGED tvars
    BY <2>2 DEF WholeInv, Link, Scrubbed, tvars, toolVars, scan
  <2> QED BY <2>1, <2>2
<1>3. [DP!DaemonNext]_(DP!dvars)
  <2>1. CASE ToolCallNext
    BY <2>1, StepServes, SameDaemon DEF WholeInv, CallInv
  <2>2. CASE UNCHANGED tvars
    BY <2>2 DEF tvars, hvars, vars, scan, history, DP!dvars, DP!vars, DP!detector, DP!scanVars,
                DP!history
  <2> QED BY <2>1, <2>2
<1>4. DaemonInv'
  BY <1>3, DP!NextMasks, DP!NextActive, DP!NextHome, PlaceholderOfAssumption,
     StatusAssumption, BoundAssumption, PatternedAssumption, RawAssumption
     DEF WholeInv, DaemonInv
<1>5. WordsHome' /\ GivenHome'
  <2>1. CASE ToolCallNext
    BY <2>1, HomeStep DEF WholeInv, DaemonInv, DP!HomeInv
  <2>2. CASE UNCHANGED tvars
    BY <2>2 DEF WholeInv, WordsHome, GivenHome, Home, Replaced, Words, Word,
                tvars, hvars, callVars, toolVars, history
  <2> QED BY <2>1, <2>2
<1> QED BY <1>1, <1>2, <1>4, <1>5 DEF WholeInv

\* A tool call is something the daemon may go through, with other scans beside
\* it: whatever is promised of its answers is promised to the post-tool hook.
THEOREM ServesTheDaemon == ToolCallSpec => D!DaemonSpec
<1>1. ToolCallInit => D!DaemonInit
  BY DEF ToolCallInit
<1>2. WholeInv /\ [ToolCallNext]_tvars => [D!DaemonNext]_(D!dvars)
  <2> SUFFICES ASSUME WholeInv, [ToolCallNext]_tvars
               PROVE  [D!DaemonNext]_(D!dvars)
    OBVIOUS
  <2>1. CASE ToolCallNext
    BY <2>1, StepServes DEF WholeInv, CallInv
  <2>2. CASE UNCHANGED tvars
    BY <2>2 DEF tvars, hvars, vars, scan, history, D!dvars, D!vars, D!detector, D!scanVars,
                D!history
  <2> QED BY <2>1, <2>2
<1> QED BY <1>1, <1>2, InitWhole, NextWhole, PTL DEF ToolCallSpec, D!DaemonSpec

\* For any number of secrets, any use of the vault and any scans of others: no
\* secret with a known shape comes back to the model while the vault is open,
\* and no active value if no other scan was handled at the same time, unless
\* JSON escapes it or the post-tool hook fails open.
THEOREM ModelSeesNoValue == ToolCallSpec => []NothingComesBack
<1>1. WholeInv => NothingComesBack
  <2> SUFFICES ASSUME WholeInv, Scrubbed, NEW s \in response \ Escaped,
                      s \in sinceScan["post"] \/ (s \in Patterned /\ ~closed)
               PROVE  view[s] # Raw
    BY DEF NothingComesBack
  <2>1. /\ phase["post"] = "done" /\ view = answer["post"]
        /\ request["post"].text = response \ Escaped /\ request["post"].auto
        /\ "post" \in {"post"} \cup Other
    BY DEF WholeInv, Link
  <2>2. CASE s \in sinceScan["post"]
    BY <2>1, <2>2 DEF WholeInv, DaemonInv, DP!ActiveInv, DP!Tracked
  <2>3. CASE s \in Patterned /\ ~closed
    BY <2>1, <2>3 DEF WholeInv, DaemonInv, DP!MaskInv, DP!PatternedMasked, DP!Answered
  <2> QED BY <2>2, <2>3
<1> QED BY <1>1, InitWhole, NextWhole, PTL DEF ToolCallSpec

\* For any command and any use of the vault: in the place of a value that the
\* command got for a placeholder the model sees that placeholder, or the value
\* itself, unless a rotation has moved that placeholder or the one it sees.
THEOREM AgentReadsWhatItWrote == ToolCallSpec => []RoundTrips
<1>1. WholeInv => RoundTrips
  <2> SUFFICES ASSUME WholeInv, Scrubbed, NEW g \in given, g[1] \notin moved
               PROVE  view[g[2]] \in {g[1], Raw} \cup moved
    BY DEF RoundTrips
  <2>1. /\ phase["post"] = "done" /\ view = answer["post"]
        /\ "post" \in {"post"} \cup Other
    BY DEF WholeInv, Link
  <2>2. g[2] \in Secret /\ PlaceholderOf[g[2]] = g[1]
    BY DEF WholeInv, GivenHome, Home
  <2>3. answer["post"][g[2]] \in {Raw, PlaceholderOf[g[2]]} \cup moved
    BY <2>1, <2>2 DEF WholeInv, DaemonInv, DP!HomeInv, DP!TokensHome
  <2> QED BY <2>1, <2>2, <2>3
<1> QED BY <1>1, InitWhole, NextWhole, PTL DEF ToolCallSpec
=============================================================================
