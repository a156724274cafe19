--------------------------- MODULE SequenceLemmas ---------------------------
(***************************************************************************)
(* What the operators on sequences that the modules are built from do, for *)
(* every sequence: RemoveFirst of the community modules, Append and        *)
(* IsPrefix.                                                               *)
(***************************************************************************)
EXTENDS SequencesExt, SequenceTheorems, WellFoundedInduction, TLAPS

-----------------------------------------------------------------------------
\* A non-empty set of naturals has a least element, which is what Min chooses.
LEMMA LeastOfNats ==
    ASSUME NEW T \in SUBSET Nat, T # {}
    PROVE  \E x \in T : \A y \in T : x <= y
<1> DEFINE R == {ss \in Nat \X Nat : ss[1] < ss[2]}
<1>1. IsWellFoundedOn(R, Nat)
  BY NatLessThanWellFounded, SMT DEF OpToRel
<1>2. \A x, y \in Nat : <<y, x>> \in R <=> y < x
  OBVIOUS
<1> HIDE DEF R
<1>3. \E x \in T : \A y \in T : ~ (<<y, x>> \in R)
  BY <1>1, WFMin
<1>4. PICK x \in T : \A y \in T : ~ (<<y, x>> \in R)
  BY <1>3
<1>5. x \in Nat /\ \A y \in T : y \in Nat /\ ~ (y < x)
  BY <1>2, <1>4
<1> QED BY <1>5

LEMMA MinOfNats ==
    ASSUME NEW T \in SUBSET Nat, T # {}
    PROVE  Min(T) \in T
BY LeastOfNats DEF Min

\* RemoveFirst takes out one occurrence of e.
LEMMA RemoveFirstIsRemoveAt ==
    ASSUME NEW S, NEW s \in Seq(S), NEW e, e \in Range(s)
    PROVE  \E k \in 1..Len(s) : s[k] = e /\ RemoveFirst(s, e) = RemoveAt(s, k)
<1> DEFINE I == {i \in 1..Len(s) : s[i] = e}
<1>1. I # {} /\ I \in SUBSET Nat
  BY LenProperties DEF Range
<1>2. Min(I) \in I
  BY <1>1, MinOfNats
<1>3. SelectInSeq(s, LAMBDA v : v = e) = Min(I)
  BY <1>1 DEF SelectInSeq
<1>4. RemoveFirst(s, e) = RemoveAt(s, Min(I))
  BY <1>1, <1>3 DEF RemoveFirst
<1> QED BY <1>2, <1>4

\* RemoveAt, position by position.
LEMMA RemoveAtPositions ==
    ASSUME NEW S, NEW s \in Seq(S), NEW k \in 1..Len(s)
    PROVE  /\ RemoveAt(s, k) \in Seq(S)
           /\ Len(RemoveAt(s, k)) = Len(s) - 1
           /\ \A j \in 1..Len(s) - 1 :
                 RemoveAt(s, k)[j] = IF j < k THEN s[j] ELSE s[j + 1]
<1> DEFINE a == SubSeq(s, 1, k - 1)
           b == SubSeq(s, k + 1, Len(s))
<1>1. Len(s) \in Nat /\ \A i \in 1..Len(s) : s[i] \in S
  BY LenProperties, ElementOfSeq
<1>2. /\ a \in Seq(S) /\ Len(a) = k - 1
      /\ \A i \in 1..k - 1 : a[i] = s[i]
  BY <1>1, SubSeqProperties
<1>3. /\ b \in Seq(S) /\ Len(b) = Len(s) - k
      /\ \A i \in 1..Len(s) - k : b[i] = s[k + i]
  BY <1>1, SubSeqProperties
<1> HIDE DEF a, b
<1>4. /\ a \o b \in Seq(S)
      /\ Len(a \o b) = Len(a) + Len(b)
      /\ \A i \in 1..Len(a) + Len(b) :
            (a \o b)[i] = IF i <= Len(a) THEN a[i] ELSE b[i - Len(a)]
  BY <1>2, <1>3, ConcatProperties
<1>5. RemoveAt(s, k) = a \o b
  BY DEF RemoveAt, a, b
<1>6. ASSUME NEW j \in 1..Len(s) - 1
      PROVE  (a \o b)[j] = IF j < k THEN s[j] ELSE s[j + 1]
  <2>1. j \in Int /\ k \in Int /\ 1 <= j /\ j <= Len(a) + Len(b)
    BY <1>1, <1>2, <1>3
  <2>2. (a \o b)[j] = IF j <= Len(a) THEN a[j] ELSE b[j - Len(a)]
    BY <2>1, <1>2, <1>3, <1>4
  <2>3. ASSUME j < k PROVE (a \o b)[j] = s[j]
    <3>1. j \in 1..k - 1 /\ j <= Len(a)
      BY <2>1, <2>3, <1>2
    <3> QED BY <3>1, <2>2, <1>2
  <2>4. ASSUME ~ (j < k) PROVE (a \o b)[j] = s[j + 1]
    <3>1. ~ (j <= Len(a)) /\ j - Len(a) \in 1..Len(s) - k /\ k + (j - Len(a)) = j + 1
      BY <2>1, <2>4, <1>1, <1>2
    <3>2. b[j - Len(a)] = s[k + (j - Len(a))]
      BY <3>1, <1>3
    <3> QED BY <3>1, <3>2, <2>2
  <2> QED BY <2>3, <2>4
<1>7. Len(a \o b) = Len(s) - 1
  BY <1>1, <1>2, <1>3, <1>4
<1> QED BY <1>4, <1>5, <1>6, <1>7

-----------------------------------------------------------------------------
\* Removing one occurrence of e keeps every other element of s, and keeps the
\* relative order of what is left.
LEMMA RemoveFirstKeeps ==
    ASSUME NEW S, NEW s \in Seq(S), NEW e, e \in Range(s)
    PROVE  LET r == RemoveFirst(s, e)
           IN  /\ r \in Seq(S)
               /\ Range(s) \ {e} \subseteq Range(r)
               /\ Range(r) \subseteq Range(s)
               /\ \A i, j \in 1..Len(r) : i < j =>
                     \E m, n \in 1..Len(s) : m < n /\ r[i] = s[m] /\ r[j] = s[n]
               /\ (\A i, j \in 1..Len(s) : i < j => s[i] # s[j]) => e \notin Range(r)
<1> DEFINE r == RemoveFirst(s, e)
<1>1. PICK k \in 1..Len(s) : s[k] = e /\ r = RemoveAt(s, k)
  BY RemoveFirstIsRemoveAt
<1>2. /\ r \in Seq(S)
      /\ Len(r) = Len(s) - 1
      /\ \A j \in 1..Len(s) - 1 : r[j] = IF j < k THEN s[j] ELSE s[j + 1]
  BY <1>1, RemoveAtPositions
<1> HIDE DEF r
<1>3. /\ Len(s) \in Nat /\ DOMAIN s = 1..Len(s) /\ DOMAIN r = 1..Len(r)
      /\ k \in Int /\ Len(r) \in Nat
  BY <1>1, <1>2, LenProperties
<1> DEFINE from(j) == IF j < k THEN j ELSE j + 1
<1>4. \A j \in 1..Len(r) : from(j) \in 1..Len(s) /\ from(j) # k /\ r[j] = s[from(j)]
  <2> TAKE j \in 1..Len(r)
  <2>1. j \in Int /\ j \in 1..Len(s) - 1
    BY <1>2, <1>3
  <2>2. CASE j < k
    BY <2>1, <2>2, <1>2, <1>3
  <2>3. CASE ~ (j < k)
    BY <2>1, <2>3, <1>2, <1>3
  <2> QED BY <2>2, <2>3
<1>5. \A i, j \in 1..Len(r) : i < j => from(i) < from(j)
  BY <1>3
<1> HIDE DEF from
<1>6. Range(r) \subseteq Range(s)
  BY <1>3, <1>4 DEF Range
<1>7. Range(s) \ {e} \subseteq Range(r)
  <2> SUFFICES ASSUME NEW i \in 1..Len(s), s[i] # e
               PROVE  \E j \in 1..Len(r) : r[j] = s[i]
    BY <1>3 DEF Range
  <2>1. i \in Int /\ i # k
    BY <1>1, <1>3
  <2>2. CASE i < k
    <3>1. i \in 1..Len(r) /\ i \in 1..Len(s) - 1
      BY <2>1, <2>2, <1>2, <1>3
    <3> QED BY <3>1, <2>2, <1>2
  <2>3. CASE k < i
    <3>1. /\ i - 1 \in 1..Len(r) /\ i - 1 \in 1..Len(s) - 1
          /\ ~ (i - 1 < k) /\ (i - 1) + 1 = i
      BY <2>1, <2>3, <1>2, <1>3
    <3>2. r[i - 1] = s[(i - 1) + 1]
      BY <3>1, <1>2
    <3> QED BY <3>1, <3>2
  <2> QED BY <2>1, <2>2, <2>3, <1>3
<1>8. \A i, j \in 1..Len(r) : i < j =>
         \E m, n \in 1..Len(s) : m < n /\ r[i] = s[m] /\ r[j] = s[n]
  BY <1>4, <1>5
<1>9. ASSUME \A i, j \in 1..Len(s) : i < j => s[i] # s[j]
      PROVE  e \notin Range(r)
  <2> SUFFICES ASSUME NEW j \in 1..Len(r), r[j] = e
               PROVE  FALSE
    BY <1>3 DEF Range
  <2>1. from(j) \in 1..Len(s) /\ from(j) # k /\ s[from(j)] = s[k]
    BY <1>1, <1>4
  <2> QED BY <2>1, <1>3, <1>9
<1> QED BY <1>2, <1>6, <1>7, <1>8, <1>9 DEF r

\* Append adds its element to the range and nothing before it moves.
LEMMA Appended ==
    ASSUME NEW S, NEW s \in Seq(S), NEW e \in S
    PROVE  LET a == Append(s, e)
           IN  /\ a \in Seq(S)
               /\ DOMAIN s = 1..Len(s) /\ Len(s) \in Nat
               /\ DOMAIN a = 1..Len(s) + 1
               /\ \A i \in 1..Len(s) : a[i] = s[i]
               /\ a[Len(s) + 1] = e
               /\ Range(a) = Range(s) \cup {e}
<1> DEFINE a == Append(s, e)
<1>1. /\ a \in Seq(S) /\ Len(a) = Len(s) + 1
      /\ \A i \in 1..Len(s) : a[i] = s[i]
      /\ a[Len(s) + 1] = e
  BY AppendProperties
<1>2. DOMAIN s = 1..Len(s) /\ Len(s) \in Nat /\ DOMAIN a = 1..Len(a)
  BY <1>1, LenProperties
<1> HIDE DEF a
<1>3. Range(a) = Range(s) \cup {e}
  BY <1>1, <1>2 DEF Range
<1> QED BY <1>1, <1>2, <1>3 DEF a

\* RemoveFirst yields a sequence over the same set, whether e occurs or not.
LEMMA RemoveFirstType ==
    ASSUME NEW S, NEW s \in Seq(S), NEW e
    PROVE  RemoveFirst(s, e) \in Seq(S)
<1>1. CASE e \in Range(s)
  BY <1>1, RemoveFirstKeeps
<1>2. CASE e \notin Range(s)
  <2>1. ~ \E i \in 1..Len(s) : s[i] = e
    BY <1>2, LenProperties DEF Range
  <2> QED BY <2>1 DEF RemoveFirst
<1> QED BY <1>1, <1>2

\* A sequence that agrees with the beginning of another is a prefix of it.
LEMMA PrefixMeans ==
    ASSUME NEW S, NEW s \in Seq(S), NEW t \in Seq(S), Len(s) <= Len(t),
           \A i \in 1..Len(s) : s[i] = t[i]
    PROVE  IsPrefix(s, t)
<1>1. Len(s) \in Nat /\ Len(t) \in Nat
  OBVIOUS
<1>2. /\ SubSeq(s, 1, Len(s)) \in Seq(S) /\ Len(SubSeq(s, 1, Len(s))) = Len(s)
      /\ \A i \in 1..Len(s) : SubSeq(s, 1, Len(s))[i] = s[i]
  BY <1>1, SubSeqProperties
<1>3. /\ SubSeq(t, 1, Len(s)) \in Seq(S) /\ Len(SubSeq(t, 1, Len(s))) = Len(s)
      /\ \A i \in 1..Len(s) : SubSeq(t, 1, Len(s))[i] = t[i]
  BY <1>1, SubSeqProperties
<1>4. SubSeq(s, 1, Len(s)) = SubSeq(t, 1, Len(s))
  BY <1>2, <1>3, SeqEqual
<1> QED BY <1>4 DEF IsPrefix
=============================================================================
