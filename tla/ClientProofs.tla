---------------------------- MODULE ClientProofs ----------------------------
(***************************************************************************)
(* The three clients of the daemon that have a state of their own: the     *)
(* proxy, the harvest and the review screen.                               *)
(***************************************************************************)
EXTENDS Proxy, Harvest, ReviewTUI, SequenceLemmas

-----------------------------------------------------------------------------
(***************************************************************************)
(* What passes through the proxy, for bodies of any length, any limits and *)
(* any encodings.                                                          *)
(***************************************************************************)
Redactable == Line \cup {"masked"}

-----------------------------------------------------------------------------
LEMMA RedactFacts ==
    ASSUME NEW b \in Seq(Line), NEW down
    PROVE  /\ Redact(b, down) \in Seq(Redactable) /\ Len(Redact(b, down)) = Len(b)
           /\ \A i \in 1..Len(b) :
                 Redact(b, down)[i] = IF b[i] = "secret" /\ i \notin down THEN "masked" ELSE b[i]
<1>1. Len(b) \in Nat /\ DOMAIN b = 1..Len(b) /\ \A i \in 1..Len(b) : b[i] \in Line
  OBVIOUS
<1>2. \A i \in 1..Len(b) :
         (IF b[i] = "secret" /\ i \notin down THEN "masked" ELSE b[i]) \in Redactable
  BY <1>1 DEF Redactable
<1> QED BY <1>1, <1>2 DEF Redact

LEMMA LimitedFacts ==
    ASSUME NEW b \in Seq(Line), NEW n \in Nat
    PROVE  /\ Limited(b, n) \in Seq(Line) /\ Len(Limited(b, n)) <= Len(b)
           /\ \A i \in 1..Len(Limited(b, n)) : Limited(b, n)[i] = b[i]
           /\ Len(b) <= n => Limited(b, n) = b
<1>1. CASE Len(b) <= n
  BY <1>1 DEF Limited
<1>2. CASE Len(b) > n
  <2>1. Len(b) \in Nat /\ 1 \in 1..Len(b) + 1 /\ n \in 0..Len(b)
    BY <1>2
  <2>2. /\ SubSeq(b, 1, n) \in Seq(Line) /\ Len(SubSeq(b, 1, n)) = n
        /\ \A i \in 1..n : SubSeq(b, 1, n)[i] = b[i]
    BY <2>1, SubSeqProperties
  <2>3. Limited(b, n) = SubSeq(b, 1, n)
    BY <1>2, <2>1 DEF Limited
  <2> QED BY <1>2, <2>1, <2>2, <2>3
<1> QED BY <1>1, <1>2

LEMMA PlainFacts ==
    ASSUME NEW m, m.body \in Seq(Line), NEW n \in Nat
    PROVE  /\ Plain(m, n) \in Seq(Line) /\ Len(Plain(m, n)) <= Len(m.body)
           /\ \A i \in 1..Len(Plain(m, n)) : Plain(m, n)[i] = m.body[i]
           /\ Len(m.body) <= (IF m.encoding = "gzip" THEN DecodeLimit ELSE n)
                 => Plain(m, n) = m.body
<1>1. CASE m.encoding = "gzip"
  BY <1>1, LimitedFacts, LimitAssumption DEF Plain
<1>2. CASE m.encoding # "gzip"
  BY <1>2, LimitedFacts DEF Plain
<1> QED BY <1>1, <1>2

-----------------------------------------------------------------------------
(***************************************************************************)
(* The inductive invariant.  There: what was sent is what was scanned, and *)
(* the scan is not repeated.  Back: nothing is received before the answer, *)
(* and of a stream each line that has left it was relayed at its place.    *)
(***************************************************************************)
Masked == Redact(Plain(request, RequestLimit), lost.request)

There ==
    /\ request \in Requests
    /\ phase \in {"idle", "scanned", "waiting", "streaming", "done"}
    /\ phase = "idle" => sent = <<>>
    /\ phase = "scanned" => sent = <<>> /\ body = Masked
    /\ sent = <<>> \/ sent = <<[encoding |-> request.encoding, body |-> Masked]>>
    /\ phase = "scanned" \/ sent # <<>> => request.encoding \in {"identity", "gzip"}

Relays ==
    /\ received \in Seq(Redactable)
    /\ Len(received) <= Len(response.body)
    /\ lost.response \subseteq DOMAIN response.body
    /\ \A i \in 1..Len(received) : received[i] = Redact(response.body, lost.response)[i]
    /\ phase = "streaming" =>
          /\ left \in Seq(Line)
          /\ lost.response \subseteq 1..Len(received)
          /\ Len(received) + Len(left) = Len(response.body)
          /\ \A i \in 1..Len(left) : left[i] = response.body[Len(received) + i]

Back ==
    /\ response \in Responses
    /\ lost = [request |-> lost.request, response |-> lost.response]
    /\ phase \in {"idle", "scanned", "waiting"} => received = <<>> /\ lost.response = {}
    /\ phase = "streaming" => response.stream
    /\ failed => phase = "done" /\ received = <<>>
    /\ ~response.stream \/ response.encoding = "identity" => Relays

ProxyInv == There /\ Back
LEMMA InitProxy == ProxyInit => ProxyInv
<1> SUFFICES ASSUME ProxyInit
             PROVE  ProxyInv
  OBVIOUS
<1>1. There
  BY DEF ProxyInit, There
<1>2. Relays
  <2>1. received = <<>> /\ Len(received) = 0 /\ received \in Seq(Redactable)
    BY EmptySeq DEF ProxyInit
  <2>2. Len(response.body) \in Nat
    BY BodyAssumption DEF ProxyInit
  <2> QED BY <2>1, <2>2 DEF ProxyInit, Relays
<1>3. Back
  BY <1>2 DEF ProxyInit, Back
<1> QED BY <1>1, <1>3 DEF ProxyInv

LEMMA NextThere ==
    ASSUME ProxyInv, ProxyNext
    PROVE  There'
<1> USE DEF ProxyInv, There
<1>1. ASSUME NEW down, ScanRequest(down)
      PROVE  There'
  <2>1. /\ request' = request /\ sent' = sent /\ phase' = "scanned" /\ sent = <<>>
        /\ body' = Redact(Plain(request, RequestLimit), down)
        /\ lost'.request = down
    BY <1>1 DEF ScanRequest, Back
  <2>2. Masked' = Redact(Plain(request, RequestLimit), down)
    BY <2>1 DEF Masked, Redact, Plain, Limited
  <2>3. request.encoding \in {"identity", "gzip"}
    BY <1>1 DEF ScanRequest, Decodes
  <2> QED BY <2>1, <2>2, <2>3
<1>2. ASSUME lost'.request = lost.request, request' = request
      PROVE  Masked' = Masked
  BY <1>2 DEF Masked, Redact, Plain, Limited
<1>3. CASE Forward
  <2>1. /\ Masked' = Masked /\ request' = request /\ phase' = "waiting" /\ body = Masked
        /\ sent' = <<[encoding |-> request.encoding, body |-> body]>>
    BY <1>2, <1>3 DEF Forward, Encoding
  <2>2. request.encoding \in {"identity", "gzip"}
    BY <1>3 DEF Forward
  <2> QED BY <2>1, <2>2
<1>4. CASE RejectRequest \/ UpstreamFails \/ RejectResponse
  BY <1>2, <1>4 DEF RejectRequest, UpstreamFails, RejectResponse, Fail
<1>5. CASE StreamBegins \/ StreamEnds
  BY <1>2, <1>5 DEF StreamBegins, StreamEnds
<1>6. ASSUME NEW down, StreamLine(down) \/ Buffered(down)
      PROVE  There'
  <2>1. lost'.request = lost.request /\ request' = request /\ sent' = sent /\ body' = body
    BY <1>6 DEF StreamLine, Buffered, Back
  <2> QED BY <1>2, <1>6, <2>1 DEF StreamLine, Buffered
<1> QED BY <1>1, <1>3, <1>4, <1>5, <1>6 DEF ProxyNext

LEMMA StreamLineRelays ==
    ASSUME ProxyInv, NEW down \in SUBSET {1}, StreamLine(down),
           response.encoding = "identity"
    PROVE  Relays'
<1> DEFINE n == Len(received)
           m == Len(left)
           line == Head(left)
           lost1 == IF down = {} THEN lost.response ELSE lost.response \cup {n + 1}
<1>1. /\ received \in Seq(Redactable) /\ left \in Seq(Line) /\ left # <<>>
      /\ n + m = Len(response.body) /\ response.body \in Seq(Line)
      /\ lost.response \subseteq 1..n
      /\ \A i \in 1..n : received[i] = Redact(response.body, lost.response)[i]
      /\ \A i \in 1..m : left[i] = response.body[n + i]
  BY BodyAssumption DEF ProxyInv, Back, Relays, StreamLine
<1>2. /\ n \in Nat /\ m \in Nat /\ m > 0 /\ line \in Line /\ line = left[1]
      /\ Tail(left) \in Seq(Line) /\ Len(Tail(left)) = m - 1
      /\ \A i \in 1..m - 1 : Tail(left)[i] = left[i + 1]
  BY <1>1
<1>3. line = response.body[n + 1]
  BY <1>1, <1>2
<1> DEFINE r == Redact(<<line>>, down)
<1>4. /\ r \in Seq(Redactable) /\ Len(r) = 1
      /\ r[1] = IF line = "secret" /\ 1 \notin down THEN "masked" ELSE line
  <2>1. <<line>> \in Seq(Line) /\ Len(<<line>>) = 1 /\ <<line>>[1] = line
    BY <1>2
  <2> DEFINE b == <<line>>
  <2>2. b \in Seq(Line) /\ Len(b) = 1 /\ b[1] = line /\ r = Redact(b, down) /\ 1 \in 1..Len(b)
    BY <2>1
  <2> HIDE DEF b, r, line
  <2> QED BY <2>2, RedactFacts
<1>5. received' = received \o r /\ left' = Tail(left) /\ UNCHANGED <<phase, response>>
  BY DEF StreamLine, Relayed
<1> HIDE DEF r, line, n, m
<1>6. /\ received' \in Seq(Redactable) /\ Len(received') = n + 1
      /\ \A i \in 1..n : received'[i] = received[i]
      /\ received'[n + 1] = r[1]
  <2>1. Len(received) = n
    BY DEF n
  <2>2. /\ received' \in Seq(Redactable) /\ Len(received') = n + 1
        /\ \A i \in 1..n + 1 : received'[i] = IF i <= n THEN received[i] ELSE r[i - n]
    <3>1. received \in Seq(Redactable) /\ r \in Seq(Redactable)
      BY <1>1, <1>4
    <3>2. /\ received \o r \in Seq(Redactable)
          /\ Len(received \o r) = Len(received) + Len(r)
          /\ \A i \in 1..Len(received) + Len(r) :
                (received \o r)[i] = IF i <= Len(received) THEN received[i] ELSE r[i - Len(received)]
      BY <3>1, ConcatProperties, Zenon
    <3>3. Len(r) = 1
      BY <1>4
    <3> DEFINE s == received \o r
    <3>4. received' = s
      BY <1>5
    <3> HIDE DEF s
    <3> QED BY <2>1, <3>2, <3>3, <3>4 DEF s
  <2>3. n + 1 \in 1..n + 1 /\ ~(n + 1 <= n) /\ (n + 1) - n = 1
    BY <1>2
  <2>4. \A i \in 1..n : i \in 1..n + 1 /\ i <= n
    BY <1>2
  <2> QED BY <2>2, <2>3, <2>4
<1>7. lost'.response = lost1
  BY <1>6 DEF StreamLine, ProxyInv, Back
<1>8. \A i \in 1..n + 1 : received'[i] = Redact(response.body, lost1)[i]
  <2>1. \A i \in 1..Len(response.body) :
           /\ Redact(response.body, lost1)[i] =
                 IF response.body[i] = "secret" /\ i \notin lost1 THEN "masked" ELSE response.body[i]
           /\ Redact(response.body, lost.response)[i] =
                 IF response.body[i] = "secret" /\ i \notin lost.response THEN "masked" ELSE response.body[i]
    BY <1>1, RedactFacts
  <2>2. ASSUME NEW i \in 1..n
        PROVE  received'[i] = Redact(response.body, lost1)[i]
    <3>1. i \in 1..Len(response.body) /\ (i \in lost1 <=> i \in lost.response)
      BY <1>1, <1>2
    <3>2. received'[i] = received[i]
      BY <1>6
    <3>3. received[i] = Redact(response.body, lost.response)[i]
      BY <1>1
    <3> HIDE DEF lost1
    <3>4. Redact(response.body, lost1)[i] = Redact(response.body, lost.response)[i]
      BY <2>1, <3>1
    <3> QED BY <3>2, <3>3, <3>4
  <2>3. received'[n + 1] = Redact(response.body, lost1)[n + 1]
    <3>0. n + 1 \notin 1..n
      BY <1>2
    <3>1. n + 1 \in lost1 <=> down # {}
      BY <1>1, <3>0
    <3>4. n + 1 \in 1..Len(response.body)
      BY <1>1, <1>2
    <3>2. down # {} <=> 1 \in down
      OBVIOUS
    <3> HIDE DEF lost1
    <3> QED BY <1>3, <1>4, <1>6, <2>1, <3>1, <3>2, <3>4
  <2>4. \A i \in 1..n + 1 : i \in 1..n \/ i = n + 1
    BY <1>2
  <2> QED BY <2>2, <2>3, <2>4
<1>9. /\ Len(received') <= Len(response.body) /\ lost1 \subseteq 1..n + 1
      /\ Len(received') + Len(left') = Len(response.body)
      /\ lost1 \subseteq DOMAIN response.body
  <2>1. Len(left') = m - 1
    BY <1>2, <1>5 DEF m
  <2>2. DOMAIN response.body = 1..Len(response.body)
    BY <1>1
  <2>3. lost1 \subseteq 1..n + 1
    BY <1>1, <1>2
  <2>4. 1..n + 1 \subseteq 1..Len(response.body)
    BY <1>1, <1>2
  <2>5. lost1 \subseteq DOMAIN response.body
    BY <2>2, <2>3, <2>4
  <2> HIDE DEF lost1
  <2>6. Len(received') <= Len(response.body) /\ Len(received') + Len(left') = Len(response.body)
    <3>1. n + m = Len(response.body) /\ n \in Nat /\ m \in Nat /\ m > 0
      BY <1>1, <1>2
    <3>2. Len(received') = n + 1
      BY <1>6
    <3> QED BY <2>1, <3>1, <3>2
  <2> QED BY <2>3, <2>5, <2>6
<1>10. \A i \in 1..Len(left') : left'[i] = response.body[Len(received') + i]
  <2> SUFFICES ASSUME NEW i \in 1..m - 1
               PROVE  Tail(left)[i] = response.body[n + 1 + i]
    BY <1>2, <1>5, <1>6 DEF m
  <2>1. i + 1 \in 1..m /\ n + (i + 1) = n + 1 + i
    BY <1>2
  <2> QED BY <1>1, <1>2, <2>1
<1>11. Redact(response.body, lost1) = Redact(response.body, lost.response)'
  BY <1>5, <1>7 DEF Redact
<1> QED BY <1>2, <1>5, <1>6, <1>7, <1>8, <1>9, <1>10, <1>11 DEF Relays
LEMMA NextBack ==
    ASSUME ProxyInv, ProxyNext
    PROVE  Back'
<1> USE DEF ProxyInv, Back
<1>1. response' = response /\ response.body \in Seq(Line)
  BY BodyAssumption DEF ProxyNext, ScanRequest, Forward, StreamBegins, StreamEnds, StreamLine,
                        Buffered, RejectRequest, UpstreamFails, RejectResponse, Fail
<1>2. Len(response.body) \in Nat /\ DOMAIN response.body = 1..Len(response.body)
  BY <1>1
\* What leaves the answer as it is, and does not make it a stream.
<1>3. ASSUME UNCHANGED <<response, received>>, lost'.response = lost.response, phase' # "streaming"
      PROVE  Relays => Relays'
  BY <1>3 DEF Relays
<1>4. ASSUME NEW down, ScanRequest(down)
      PROVE  Back'
  <2>1. /\ lost' = [request |-> down, response |-> lost.response] /\ phase' = "scanned"
        /\ phase = "idle" /\ UNCHANGED <<response, received, failed>>
    BY <1>4 DEF ScanRequest
  <2> QED BY <1>3, <2>1
<1>5. CASE Forward
  BY <1>3, <1>5 DEF Forward
<1>6. CASE RejectRequest \/ UpstreamFails \/ RejectResponse
  <2>1. /\ failed' = TRUE /\ phase' = "done" /\ received = <<>>
        /\ UNCHANGED <<response, received, lost>>
    BY <1>6 DEF RejectRequest, UpstreamFails, RejectResponse, Fail
  <2> QED BY <1>3, <2>1
<1>7. CASE StreamBegins
  <2>1. /\ left' = response.body /\ phase' = "streaming" /\ received = <<>>
        /\ lost.response = {} /\ ~failed /\ response.stream
        /\ UNCHANGED <<response, received, failed, lost>>
    BY <1>7 DEF StreamBegins
  <2>2. Len(received) = 0
    BY <2>1
  <2>3. Relays => Relays'
    <3> SUFFICES ASSUME Relays
                 PROVE  Relays'
      OBVIOUS
    <3>1. \A i \in 1..Len(left') : left'[i] = response.body[Len(received) + i]
      BY <1>1, <1>2, <2>1, <2>2
    <3>2. Len(received) + Len(left') = Len(response.body)
      BY <1>2, <2>1, <2>2
    <3> QED BY <1>1, <2>1, <3>1, <3>2 DEF Relays
  <2> QED BY <2>1, <2>3
<1>8. CASE StreamEnds
  BY <1>3, <1>8 DEF StreamEnds
<1>9. ASSUME NEW down \in SUBSET {1}, StreamLine(down)
      PROVE  Back'
  <2>1. /\ phase' = "streaming" /\ phase = "streaming" /\ UNCHANGED <<response, failed>>
        /\ lost' = [request |-> lost.request, response |-> lost'.response]
    BY <1>9 DEF StreamLine
  <2>2. CASE response.encoding = "identity"
    BY <1>9, <2>1, <2>2, StreamLineRelays
  <2>3. CASE response.encoding # "identity"
    BY <1>9, <2>1, <2>3 DEF StreamLine
  <2> QED BY <2>2, <2>3
<1>10. ASSUME NEW down \in SUBSET DOMAIN response.body, Buffered(down)
       PROVE  Back'
  <2> DEFINE b == Plain(response, ResponseLimit)
  <2>1. /\ phase' = "done" /\ phase = "waiting" /\ ~failed /\ UNCHANGED <<response, failed>>
        /\ lost' = [request |-> lost.request, response |-> down]
        /\ received' = Redact(b, down)
    BY <1>10 DEF Buffered
  <2>2. b \in Seq(Line) /\ Len(b) <= Len(response.body) /\ Len(b) \in Nat
        /\ \A i \in 1..Len(b) : b[i] = response.body[i]
    <3>1. b \in Seq(Line) /\ Len(b) <= Len(response.body)
          /\ \A i \in 1..Len(b) : b[i] = response.body[i]
      BY <1>1, PlainFacts, LimitAssumption
    <3> HIDE DEF b
    <3> QED BY <3>1
  <2> HIDE DEF b
  <2>3. /\ received' \in Seq(Redactable) /\ Len(received') = Len(b)
        /\ \A i \in 1..Len(b) :
              received'[i] = IF b[i] = "secret" /\ i \notin down THEN "masked" ELSE b[i]
    BY <2>1, <2>2, RedactFacts
  <2>4. \A i \in 1..Len(response.body) : Redact(response.body, down)[i] =
           IF response.body[i] = "secret" /\ i \notin down THEN "masked" ELSE response.body[i]
    BY <1>1, RedactFacts
  <2>5. \A i \in 1..Len(b) : received'[i] = Redact(response.body, down)[i]
    BY <1>2, <2>2, <2>3, <2>4
  <2>6. Relays'
    BY <2>1, <2>2, <2>3, <2>5 DEF Relays
  <2> QED BY <2>1, <2>6
<1> QED BY <1>4, <1>5, <1>6, <1>7, <1>8, <1>9, <1>10 DEF ProxyNext

LEMMA NextProxy == ProxyInv /\ [ProxyNext]_proxyVars => ProxyInv'
<1> SUFFICES ASSUME ProxyInv, [ProxyNext]_proxyVars
             PROVE  ProxyInv'
  OBVIOUS
<1>1. CASE ProxyNext
  BY <1>1, NextThere, NextBack DEF ProxyInv
<1>2. CASE UNCHANGED proxyVars
  <2>1. /\ UNCHANGED <<phase, request, body, sent, response, left, received, failed, lost>>
        /\ Masked' = Masked
    BY <1>2 DEF proxyVars, Masked
  <2>2. Relays' <=> Relays
    BY <2>1 DEF Relays
  <2> QED BY <2>1, <2>2 DEF ProxyInv, There, Back
<1> QED BY <1>1, <1>2

-----------------------------------------------------------------------------
\* The upstream gets the client's request in its encoding, masked, and all of it
\* if neither limit cuts it.
THEOREM WholeRequest == ProxySpec => []RequestWhole
<1>1. ProxyInv => RequestWhole
  <2> DEFINE b == Plain(request, RequestLimit)
             whole == Redact(request.body, lost.request)
             limit == IF request.encoding = "identity" THEN RequestLimit ELSE DecodeLimit
  <2> SUFFICES ASSUME ProxyInv, NEW i \in DOMAIN sent
               PROVE  /\ sent[i].encoding = request.encoding
                      /\ IsPrefix(sent[i].body, whole)
                      /\ Len(whole) <= limit => sent[i].body = whole
    BY DEF RequestWhole
  <2>1. sent[i] = [encoding |-> request.encoding, body |-> Masked]
        /\ request.encoding \in {"identity", "gzip"}
    BY DEF ProxyInv, There
  <2>2. request.body \in Seq(Line)
    BY BodyAssumption DEF ProxyInv, There
  <2>3. /\ b \in Seq(Line) /\ Len(b) <= Len(request.body) /\ Len(b) \in Nat
        /\ \A j \in 1..Len(b) : b[j] = request.body[j]
        /\ Len(request.body) <= limit => b = request.body
    BY <2>1, <2>2, PlainFacts, LimitAssumption
  <2> HIDE DEF b
  <2>4. /\ Masked \in Seq(Redactable) /\ Len(Masked) = Len(b)
        /\ \A j \in 1..Len(b) :
              Masked[j] = IF b[j] = "secret" /\ j \notin lost.request THEN "masked" ELSE b[j]
    BY <2>3, RedactFacts DEF Masked, b
  <2>5. /\ whole \in Seq(Redactable) /\ Len(whole) = Len(request.body)
        /\ \A j \in 1..Len(request.body) :
              whole[j] = IF request.body[j] = "secret" /\ j \notin lost.request
                         THEN "masked" ELSE request.body[j]
    BY <2>2, RedactFacts
  <2>6. Len(whole) <= limit => Masked = whole
    BY <2>3, <2>5 DEF Masked, b
  <2> HIDE DEF whole, limit
  <2>7. Len(Masked) <= Len(whole) /\ \A j \in 1..Len(Masked) : Masked[j] = whole[j]
    BY <2>2, <2>3, <2>4, <2>5
  <2>8. IsPrefix(Masked, whole)
    BY <2>4, <2>5, <2>7, PrefixMeans
  <2> QED BY <2>1, <2>6, <2>8
<1> QED BY <1>1, InitProxy, NextProxy, PTL DEF ProxySpec

\* What the client has received is the beginning of the upstream's answer,
\* masked, whether it was streamed or buffered.
THEOREM ClientReadsAnswer == ProxySpec => []ClientReads
<1>1. ProxyInv => ClientReads
  <2> SUFFICES ASSUME ProxyInv, ~response.stream \/ response.encoding = "identity"
               PROVE  /\ IsPrefix(received, Redact(response.body, lost.response))
                      /\ failed => received = <<>>
    BY DEF ClientReads
  <2> DEFINE t == Redact(response.body, lost.response)
  <2>1. Relays /\ (failed => received = <<>>) /\ response.body \in Seq(Line)
    BY BodyAssumption DEF ProxyInv, Back
  <2>2. t \in Seq(Redactable) /\ Len(t) = Len(response.body)
    BY <2>1, RedactFacts
  <2>3. received \in Seq(Redactable) /\ Len(received) <= Len(t)
        /\ \A i \in 1..Len(received) : received[i] = t[i]
    BY <2>1, <2>2 DEF Relays
  <2> HIDE DEF t
  <2>4. IsPrefix(received, t)
    BY <2>2, <2>3, PrefixMeans
  <2> QED BY <2>1, <2>4 DEF t
<1> QED BY <1>1, InitProxy, NextProxy, PTL DEF ProxySpec

-----------------------------------------------------------------------------
(***************************************************************************)
(* What the summary of a harvest means, for any disk, roots, exclusions,   *)
(* file size and number of writes: one without errors, and not cut short,  *)
(* has found everything.  The set of the nodes that were visited is closed *)
(* under the walk, up to the nodes that are still to be visited.           *)
(***************************************************************************)
HarvestTypes ==
    /\ root \in Nat /\ root <= Len(Roots)
    /\ stats \in [skipped : Nat, errors : Nat]
    /\ file = [f \in Files |-> file[f]]
    /\ seen \subseteq Node

\* Where the walk is.
Progress ==
    /\ at = "roots" => todo = {}
    /\ at = "done" /\ err = "none" => root = Len(Roots) /\ todo = {}
    /\ cancelled => root = atRoot

\* What a file has had all along is in it now.
Current == \A f \in Files : always[f] \subseteq Readable(file[f])

Clean == stats.errors = 0 /\ stats.skipped = 0 /\ ~forgot /\ ~cancelled

Closed ==
    /\ \A i \in 1..root : Roots[i] \in seen \cup todo
    /\ \A d \in (seen \cap Dirs) \ Excluded : Children[d] \subseteq seen \cup todo

\* A file that was visited is in the vault, save the one at hand.
Found ==
    \A f \in seen \cap Files : \/ always[f] \subseteq registered
                               \/ f = cur /\ at = "read"
                               \/ f = cur /\ at = "scan" /\ always[f] \subseteq data

HarvestInv == HarvestTypes /\ Progress /\ Current /\ (Clean => Closed /\ Found)

LEMMA RootNode ==
    ASSUME NEW i \in 1..Len(Roots)
    PROVE  Len(Roots) \in Nat /\ Roots[i] \in Node
BY RootsAssumption

LEMMA InitHarvest == HarvestInit => HarvestInv
BY RootsAssumption DEF HarvestInit, HarvestInv, HarvestTypes, Progress, Current, Closed, Found

-----------------------------------------------------------------------------
\* The loop over the roots.
LEMMA RootsKeep ==
    ASSUME HarvestInv, NextRoot \/ Interrupted \/ Finished \/ LeaveRoot
    PROVE  HarvestInv'
<1> USE DEF HarvestInv
<1>0. Len(Roots) \in Nat
  BY RootsAssumption
<1>1. CASE NextRoot
  <2>1. HarvestTypes' /\ Progress' /\ Current'
    BY <1>0, <1>1 DEF NextRoot, Step, HarvestTypes, Progress, Current, store, others
  <2>2. ASSUME Clean'
        PROVE  Closed' /\ Found'
    <3>1. Clean /\ todo = {}
      BY <1>1, <2>2 DEF NextRoot, Step, Clean, Progress, store, others
    <3>2. Closed'
      <4>1. root' = root + 1 /\ seen' = seen /\ todo' = {Roots[root + 1]} /\ root \in Nat
        BY <1>1 DEF NextRoot, HarvestTypes
      <4>2. \A i \in 1..root' : i \in 1..root \/ i = root + 1
        BY <4>1
      <4> QED BY <3>1, <4>1, <4>2 DEF Closed
    <3>3. Found'
      BY <1>1, <3>1 DEF NextRoot, Step, Found, store, others
    <3> QED BY <3>2, <3>3
  <2> QED BY <2>1, <2>2
<1>2. CASE Interrupted \/ Finished
  <2>1. HarvestTypes' /\ Progress' /\ Current'
    BY <1>0, <1>2 DEF Interrupted, Finished, Step, HarvestTypes, Progress, Current, store, others
  <2>2. Clean' => Closed' /\ Found'
    BY <1>2 DEF Interrupted, Finished, Step, Clean, Closed, Found, store, others
  <2> QED BY <2>1, <2>2
<1>3. CASE LeaveRoot
  <2>1. HarvestTypes' /\ Progress' /\ Current'
    BY <1>3 DEF LeaveRoot, Step, HarvestTypes, Progress, Current, store, others
  <2>2. Clean' => Closed' /\ Found'
    BY <1>3 DEF LeaveRoot, Step, Clean, Closed, Found, store, others
  <2> QED BY <2>1, <2>2
<1> QED BY <1>1, <1>2, <1>3

\* A node that goes from todo to seen, and, if it is a directory that is read,
\* leaves what it has in it in todo.
LEMMA VisitKeeps ==
    ASSUME HarvestInv, NEW n \in Node, Visit(n),
           stats' \in [skipped : Nat, errors : Nat], at' \in {"walk", "read"},
           Clean' => /\ Clean /\ todo \subseteq todo' \cup {n}
                     /\ n \in Dirs \ Excluded => Children[n] \subseteq todo'
                     /\ n \in Files => \/ always[n] = {} /\ at' = "walk"
                                       \/ at' = "read" /\ cur' = n
                     /\ n \notin Files => at' = "walk"
    PROVE  HarvestInv'
<1> USE DEF HarvestInv
<1>1. HarvestTypes' /\ Progress' /\ Current'
  BY DEF Visit, HarvestTypes, Progress, Current, store, others
<1>2. ASSUME Clean'
      PROVE  Closed' /\ Found'
  <2>1. Closed'
    BY <1>2 DEF Visit, Closed
  <2>2. \A f \in seen \cap Files : always[f] \subseteq registered
    BY <1>2 DEF Visit, Found
  <2>3. Found'
    BY <1>2, <2>2 DEF Visit, Found, store, others
  <2> QED BY <2>1, <2>3
<1> QED BY <1>1, <1>2

\* A step that counts an error, or a skipped file, ends the clean run.
LEMMA Tallies ==
    ASSUME HarvestTypes
    PROVE  /\ Failed => stats' \in [skipped : Nat, errors : Nat] /\ ~Clean'
           /\ stats' = [stats EXCEPT !.skipped = @ + 1]
                 => stats' \in [skipped : Nat, errors : Nat] /\ ~Clean'
BY DEF HarvestTypes, Failed, Clean

LEMMA WalkKeeps ==
    ASSUME HarvestInv, NEW n \in Node,
           \/ EnterDir(n) \/ DirUnreadable(n) \/ NotRegular(n)
           \/ Removed(n) \/ Skip(n) \/ Select(n)
    PROVE  HarvestInv'
<1>1. Visit(n) /\ (Clean' /\ UNCHANGED stats => Clean)
  BY DEF EnterDir, DirUnreadable, NotRegular, Removed, Skip, Select, Visit, Clean, store, others
<1>2. at = "walk" /\ stats \in [skipped : Nat, errors : Nat]
  BY <1>1 DEF Visit, HarvestInv, HarvestTypes
<1>3. CASE EnterDir(n)
  BY <1>1, <1>2, <1>3, VisitKeeps, NodeAssumption DEF EnterDir
<1>4. CASE DirUnreadable(n)
  BY <1>1, <1>2, <1>4, VisitKeeps, Tallies DEF DirUnreadable, HarvestInv
<1>5. CASE NotRegular(n)
  BY <1>1, <1>2, <1>5, VisitKeeps DEF NotRegular
<1>6. CASE Removed(n)
  <2>1. always[n] = {} /\ n \in Files \ Dirs
    BY <1>6, NodeAssumption DEF Removed, HarvestInv, Current, Readable
  <2>2. \/ UNCHANGED stats
        \/ stats' \in [skipped : Nat, errors : Nat] /\ ~Clean'
    BY <1>6, Tallies DEF Removed, HarvestInv
  <2> QED BY <1>1, <1>2, <1>6, <2>1, <2>2, VisitKeeps DEF Removed
<1>7. CASE Skip(n)
  BY <1>1, <1>2, <1>7, VisitKeeps, Tallies DEF Skip, HarvestInv
<1>8. CASE Select(n)
  BY <1>1, <1>2, <1>8, VisitKeeps, NodeAssumption DEF Select, Step
<1> QED BY <1>3, <1>4, <1>5, <1>6, <1>7, <1>8

-----------------------------------------------------------------------------
\* The file at hand.
LEMMA FileKeeps ==
    ASSUME HarvestInv, Read \/ ReadFails \/ ScanFile \/ ScanUnregistered \/ ScanFails
    PROVE  HarvestInv'
<1> USE DEF HarvestInv
<1>1. CASE Read
  <2>1. HarvestTypes' /\ Progress' /\ Current'
    BY <1>1 DEF Read, Step, HarvestTypes, Progress, Current, store, others
  <2>2. Clean' => Closed' /\ Found'
    BY <1>1 DEF Read, Step, Clean, Closed, Found, Current, store, others
  <2> QED BY <2>1, <2>2
<1>2. CASE ReadFails \/ ScanFails
  <2>1. stats' \in [skipped : Nat, errors : Nat] /\ ~Clean' /\ at' = "walk"
    BY <1>2, Tallies DEF ReadFails, ScanFails, Tallied, Step
  <2> QED BY <1>2, <2>1
          DEF ReadFails, ScanFails, HarvestTypes, Progress, Current, store, others
<1>3. CASE ScanFile
  <2>1. HarvestTypes' /\ Progress' /\ Current'
    BY <1>3 DEF ScanFile, Step, HarvestTypes, Progress, Current, others
  <2>2. Clean' => Closed' /\ Found'
    BY <1>3 DEF ScanFile, Step, Clean, Closed, Found, others
  <2> QED BY <2>1, <2>2
<1>4. CASE ScanUnregistered
  <2>1. forgot' /\ at' = "walk" /\ UNCHANGED <<root, todo, stats, err, seen, others>>
    BY <1>4 DEF ScanUnregistered, Step
  <2> QED BY <2>1 DEF HarvestTypes, Progress, Current, Clean, others
<1> QED BY <1>1, <1>2, <1>3, <1>4

\* Everybody else, while the harvest runs.
LEMMA OthersKeep ==
    ASSUME HarvestInv,
           Interrupt \/ Edit \/ SaveVault \/ CloseVault \/ EndDaemon \/ StartDaemon
    PROVE  HarvestInv'
<1> USE DEF HarvestInv
<1>1. CASE Interrupt
  BY <1>1 DEF Interrupt, HarvestTypes, Progress, Current, Clean, walk, store
<1>2. CASE Edit
  <2>1. /\ file' = [f \in Files |-> file'[f]]
        /\ \A f \in Files : always'[f] = always[f] \cap Readable(file'[f])
        /\ UNCHANGED <<walk, store, cancelled, atRoot>>
    BY <1>2 DEF Edit, HarvestTypes
  <2>2. HarvestTypes' /\ Progress'
    BY <2>1 DEF HarvestTypes, Progress, walk, store
  <2>3. Current'
    BY <2>1 DEF Current, Readable
  <2>4. Clean' => Closed' /\ Found'
    BY <2>1 DEF Clean, Closed, Found, walk, store
  <2> QED BY <2>2, <2>3, <2>4
<1>3. CASE SaveVault \/ CloseVault \/ EndDaemon \/ StartDaemon
  <2>0. UNCHANGED <<walk, file, always, cancelled, atRoot>>
    BY <1>3 DEF SaveVault, CloseVault, EndDaemon, StartDaemon, others
  <2>1. ~forgot' => ~forgot /\ registered' = registered
    <3>1. CASE SaveVault \/ CloseVault \/ StartDaemon
      BY <3>1 DEF SaveVault, CloseVault, StartDaemon, store
    <3>2. CASE EndDaemon
      <4>1. forgot' <=> forgot \/ saved # registered
        BY <3>2, Zenon DEF EndDaemon
      <4> QED BY <3>2, <4>1 DEF EndDaemon
    <3> QED BY <1>3, <3>1, <3>2
  <2>2. HarvestTypes' /\ Progress' /\ Current'
    BY <2>0 DEF HarvestTypes, Progress, Current, walk
  <2>3. Clean' => Closed' /\ Found'
    BY <2>0, <2>1 DEF Clean, Closed, Found, walk
  <2> QED BY <2>2, <2>3
<1> QED BY <1>1, <1>2, <1>3

LEMMA NextHarvest == HarvestInv /\ [HarvestNext]_harvestVars => HarvestInv'
<1> SUFFICES ASSUME HarvestInv, [HarvestNext]_harvestVars
             PROVE  HarvestInv'
  OBVIOUS
<1>1. CASE UNCHANGED harvestVars
  BY <1>1 DEF HarvestInv, HarvestTypes, Progress, Current, Clean, Closed, Found,
              harvestVars, walk, store, others
<1> QED BY <1>1, RootsKeep, WalkKeeps, FileKeeps, OthersKeep DEF HarvestNext, Harvesting

\* A harvest that reports neither an error nor a skipped file has registered
\* every secret that was all along in the part it reads of a file in its scope,
\* whatever the other programs and the daemon did meanwhile, unless it was
\* interrupted in the last root or the daemon lost what it was sent.
THEOREM CleanMeansComplete == HarvestSpec => []CleanRunFindsAll
<1>1. HarvestInv => CleanRunFindsAll
  <2> SUFFICES ASSUME HarvestInv, at = "done", err = "none",
                      stats.errors = 0, stats.skipped = 0, ~forgot,
                      ~(cancelled /\ atRoot = Len(Roots)),
                      NEW f \in Files, InScope(f)
               PROVE  always[f] \subseteq registered
    BY DEF CleanRunFindsAll
  <2>1. root = Len(Roots) /\ todo = {} /\ Clean
    BY DEF HarvestInv, Progress, Clean
  <2>2. Closed /\ Found
    BY <2>1 DEF HarvestInv
  <2>3. /\ RootNodes \subseteq seen
        /\ \A d \in (seen \cap Dirs) \ Excluded : Children[d] \subseteq seen
    BY <2>1, <2>2 DEF Closed, RootNodes
  <2>4. seen \in SUBSET Node
    BY DEF HarvestInv, HarvestTypes
  <2>5. f \in seen
    BY <2>3, <2>4 DEF InScope
  <2> QED BY <2>2, <2>5 DEF Found
<1> QED BY <1>1, InitHarvest, NextHarvest, PTL DEF HarvestSpec

-----------------------------------------------------------------------------
(***************************************************************************)
(* The review screen, for any placeholders, any number of lists under way  *)
(* that come in in any order, and a window of any size.                    *)
(***************************************************************************)
ScreenTypes ==
    /\ vault \in Seq(Placeholder)
    /\ \A l \in lists : l \in Seq(Placeholder)
    /\ entries \in Seq(Placeholder)
    /\ cursor \in Nat /\ scrollOffset \in Nat /\ vis \in Nat \ {0}

InWindow ==
    /\ entries = <<>> => cursor = 0
    /\ entries # <<>> => cursor < Len(entries)
    /\ scrollOffset <= cursor
    /\ ~shrunk => cursor < scrollOffset + vis

\* While a prompt is open, what is under the cursor is what it was opened for.
PromptMeans ==
    /\ state = "list" => ~reordered
    /\ state # "list" /\ ~reordered => HasSelected /\ Selected = meant

ReviewInv == ScreenTypes /\ InWindow /\ PromptMeans

LEMMA PrefixReads ==
    ASSUME NEW S, NEW s \in Seq(S), NEW t \in Seq(S), IsPrefix(s, t)
    PROVE  Len(s) <= Len(t) /\ \A i \in 1..Len(s) : t[i] = s[i]
<1>1. Len(s) \in Nat /\ Len(t) \in Nat /\ Len(s) <= Len(t)
      /\ SubSeq(s, 1, Len(s)) = SubSeq(t, 1, Len(s))
  BY DEF IsPrefix
<1>2. \A i \in 1..Len(s) : SubSeq(s, 1, Len(s))[i] = s[i]
  BY <1>1, SubSeqProperties
<1>3. \A i \in 1..Len(s) : SubSeq(t, 1, Len(s))[i] = t[i]
  BY <1>1, SubSeqProperties
<1> QED BY <1>1, <1>2, <1>3

LEMMA InitReview == ReviewInit => ReviewInv
<1> SUFFICES ASSUME ReviewInit
             PROVE  ReviewInv
  OBVIOUS
<1>1. ScreenTypes
  BY MaxVisAssumption, EmptySeq DEF ReviewInit, ScreenTypes
<1>2. InWindow /\ PromptMeans
  BY <1>1 DEF ReviewInit, ScreenTypes, InWindow, PromptMeans
<1> QED BY <1>1, <1>2 DEF ReviewInv

\* What the daemon and the other clients do reaches the screen only as a list.
LEMMA ElsewhereKeeps ==
    ASSUME ReviewInv, Others \/ Tick \/ Answer
    PROVE  ReviewInv'
<1> USE DEF ReviewInv
<1>1. UNCHANGED <<entries, cursor, scrollOffset, vis, state, meant, reordered, shrunk>>
  BY DEF Others, Tick, Answer, Run, screen, prompt
<1>2. vault' \in Seq(Placeholder)
  <2>1. CASE Others
    <3>1. PICK p \in Placeholder : vault' = IF p \in Range(vault) THEN RemoveFirst(vault, p)
                                                                  ELSE Append(vault, p)
      BY <2>1 DEF Others
    <3>2. RemoveFirst(vault, p) \in Seq(Placeholder) /\ Append(vault, p) \in Seq(Placeholder)
      BY RemoveFirstType, AppendProperties DEF ScreenTypes
    <3> QED BY <3>1, <3>2
  <2>2. CASE Tick
    BY <2>2 DEF Tick, ScreenTypes
  <2>3. CASE Answer
    <3>1. PICK c \in commands :
             vault' = IF c[1] = "delete" THEN RemoveFirst(vault, c[2]) ELSE vault
      BY <2>3 DEF Answer, Run
    <3>2. RemoveFirst(vault, c[2]) \in Seq(Placeholder)
      BY RemoveFirstType DEF ScreenTypes
    <3> QED BY <3>1, <3>2 DEF ScreenTypes
  <2> QED BY <2>1, <2>2, <2>3
<1>3. lists' \subseteq lists \cup {vault, vault'}
  BY DEF Others, Tick, FetchList, Answer, Run
<1>4. ScreenTypes'
  BY <1>1, <1>2, <1>3 DEF ScreenTypes
<1>5. InWindow' /\ PromptMeans'
  BY <1>1 DEF InWindow, PromptMeans, HasSelected, Selected
<1> QED BY <1>4, <1>5

LEMMA ListMsgKeeps ==
    ASSUME ReviewInv, NEW l, ListMsg(l)
    PROVE  ReviewInv'
<1> USE DEF ReviewInv
<1>1. /\ entries' = l /\ cursor' = Clamped(l)
      /\ scrollOffset' = IF scrollOffset > cursor' THEN cursor' ELSE scrollOffset
      /\ lists' \subseteq lists /\ UNCHANGED <<vault, vis, state, meant, shrunk>>
  BY DEF ListMsg, Scrolled
<1>2. l \in Seq(Placeholder) /\ Len(l) \in Nat /\ (l # <<>> <=> Len(l) > 0)
  BY EmptySeq DEF ListMsg, ScreenTypes
<1>3. cursor \in Nat /\ scrollOffset \in Nat /\ scrollOffset <= cursor /\ vis \in Nat \ {0}
  BY DEF ScreenTypes, InWindow
<1>4. /\ cursor' \in Nat /\ cursor' <= cursor
      /\ l = <<>> => cursor' = 0
      /\ l # <<>> => cursor' < Len(l)
  BY <1>1, <1>2, <1>3 DEF Clamped
<1>5. scrollOffset' \in Nat /\ scrollOffset' <= cursor'
  BY <1>1, <1>3, <1>4
<1>6. ScreenTypes'
  BY <1>1, <1>2, <1>4, <1>5 DEF ScreenTypes
<1>7. ~shrunk => cursor' < scrollOffset' + vis
  BY <1>1, <1>3, <1>4 DEF InWindow
<1>8. InWindow'
  BY <1>1, <1>4, <1>5, <1>7 DEF InWindow
<1>9. reordered' = (reordered \/ (state # "list" /\ ~IsPrefix(entries, l)))
  BY DEF ListMsg
<1>10. PromptMeans'
  <2>1. state' = "list" => ~reordered'
    BY <1>1, <1>9 DEF PromptMeans
  <2>2. ASSUME state' # "list", ~reordered'
        PROVE  HasSelected' /\ Selected' = meant'
    <3>1. state # "list" /\ ~reordered /\ IsPrefix(entries, l)
      BY <1>1, <1>9, <2>2
    <3>2. cursor \in 0..Len(entries) - 1 /\ entries[cursor + 1] = meant
      BY <3>1 DEF PromptMeans, HasSelected, Selected
    <3>3. Len(entries) \in Nat /\ Len(entries) <= Len(l)
          /\ \A i \in 1..Len(entries) : l[i] = entries[i]
      BY <1>2, <3>1, PrefixReads DEF ScreenTypes
    <3>4. cursor + 1 \in 1..Len(entries) /\ cursor < Len(l) /\ l # <<>>
      BY <1>2, <1>3, <3>2, <3>3
    <3>5. cursor' = cursor
      BY <1>1, <1>2, <1>3, <3>4 DEF Clamped
    <3>6. l[cursor + 1] = meant
      BY <3>2, <3>3, <3>4
    <3>7. cursor \in 0..Len(l) - 1
      BY <1>2, <1>3, <3>4
    <3> QED BY <1>1, <3>5, <3>6, <3>7 DEF HasSelected, Selected
  <2> QED BY <2>1, <2>2 DEF PromptMeans
<1> QED BY <1>6, <1>8, <1>10

\* A row of the window is one of a window that is not smaller.
LEMMA WiderShows ==
    ASSUME NEW c \in Nat, NEW o \in Nat, NEW v \in Nat, NEW w \in Nat,
           c < o + v, v <= w
    PROVE  c < o + w
OBVIOUS

LEMMA MoveKeeps ==
    ASSUME ReviewInv, Up \/ Down \/ Resize
    PROVE  ReviewInv'
<1> USE DEF ReviewInv
<1>1. /\ cursor \in Nat /\ scrollOffset \in Nat /\ vis \in Nat \ {0} /\ Len(entries) \in Nat
      /\ entries \in Seq(Placeholder) /\ scrollOffset <= cursor
      /\ ~shrunk => cursor < scrollOffset + vis
  BY DEF ScreenTypes, InWindow
<1>2. CASE Up
  <2>1. /\ cursor > 0 /\ cursor' = cursor - 1
        /\ scrollOffset' = IF scrollOffset > cursor' THEN cursor' ELSE scrollOffset
        /\ UNCHANGED <<vault, lists, entries, vis, state, meant, reordered, shrunk>>
        /\ state = "list"
    BY <1>2 DEF Up, Scrolled, prompt
  <2>2. /\ cursor' \in Nat /\ scrollOffset' \in Nat /\ scrollOffset' <= cursor'
        /\ ~shrunk => cursor' < scrollOffset' + vis
    BY <1>1, <2>1
  <2>3. entries = <<>> => cursor = 0
    BY DEF InWindow
  <2>4. entries # <<>> => cursor' < Len(entries)
    BY <1>1, <2>1 DEF InWindow
  <2> QED BY <2>1, <2>2, <2>3, <2>4 DEF ScreenTypes, InWindow, PromptMeans
<1>3. CASE Down
  <2>1. /\ cursor < Len(entries) - 1 /\ cursor' = cursor + 1 /\ ~shrunk'
        /\ scrollOffset' = IF cursor' >= scrollOffset + vis THEN cursor' - vis + 1 ELSE scrollOffset
        /\ UNCHANGED <<vault, lists, entries, vis, state, meant, reordered>>
        /\ state = "list"
    BY <1>3 DEF Down, ScrolledDown, prompt
  <2>2. /\ cursor' \in Nat /\ scrollOffset' \in Nat /\ scrollOffset' <= cursor'
        /\ cursor' < scrollOffset' + vis /\ cursor' < Len(entries)
    BY <1>1, <2>1
  <2>3. entries # <<>>
    BY <1>1, <2>1
  <2> QED BY <2>1, <2>2, <2>3 DEF ScreenTypes, InWindow, PromptMeans
<1>4. CASE Resize
  <2>1. /\ vis' \in Nat \ {0} /\ shrunk' = (shrunk \/ vis' < vis)
        /\ UNCHANGED <<vault, lists, entries, cursor, scrollOffset, state, meant, reordered>>
    BY <1>4, MaxVisAssumption DEF Resize, prompt
  <2>2. ASSUME ~shrunk'
        PROVE  cursor < scrollOffset + vis'
    <3>1. ~shrunk /\ ~(vis' < vis)
      BY <2>1, <2>2, Zenon
    <3>2. cursor < scrollOffset + vis
      BY <1>1, <3>1, Zenon
    <3>3. cursor \in Nat /\ scrollOffset \in Nat /\ vis \in Nat /\ vis' \in Nat
      BY <1>1, <2>1
    <3>4. vis <= vis'
      BY <3>1, <3>3
    <3> QED BY <3>2, <3>3, <3>4, WiderShows
  <2>3. ScreenTypes' /\ InWindow'
    BY <2>1, <2>2 DEF ScreenTypes, InWindow
  <2>4. PromptMeans'
    BY <2>1 DEF PromptMeans, HasSelected, Selected
  <2> QED BY <2>3, <2>4
<1> QED BY <1>2, <1>3, <1>4

LEMMA PromptKeeps ==
    ASSUME ReviewInv, NEW s \in {"confirm", "bind", "unbind"}, Prompt(s)
    PROVE  ReviewInv'
<1> USE DEF ReviewInv
<1>1. /\ state' # "list" /\ meant' = Selected /\ HasSelected /\ ~reordered
      /\ UNCHANGED <<vault, lists, entries, cursor, scrollOffset, vis, reordered, shrunk>>
  BY DEF Prompt, PromptMeans, screen
<1>2. ScreenTypes' /\ InWindow'
  BY <1>1 DEF ScreenTypes, InWindow
<1>3. PromptMeans'
  BY <1>1 DEF PromptMeans, HasSelected, Selected
<1> QED BY <1>2, <1>3

LEMMA CloseKeeps ==
    ASSUME ReviewInv, NEW s, CloseWith(s)
    PROVE  ReviewInv'
BY DEF ReviewInv, CloseWith, ScreenTypes, InWindow, PromptMeans, screen

LEMMA StatusKeeps ==
    ASSUME ReviewInv, StatusKey
    PROVE  ReviewInv'
BY DEF ReviewInv, StatusKey, ScreenTypes, InWindow, PromptMeans, HasSelected, Selected,
       screen, prompt

LEMMA NextReview == ReviewInv /\ [ReviewNext]_reviewVars => ReviewInv'
<1> SUFFICES ASSUME ReviewInv, [ReviewNext]_reviewVars
             PROVE  ReviewInv'
  OBVIOUS
<1>1. CASE Deliver
  BY <1>1, ListMsgKeeps DEF Deliver
<1>2. CASE Others \/ Tick \/ Answer
  BY <1>2, ElsewhereKeeps
<1>3. CASE Key
  <2>1. CASE Up \/ Down
    BY <2>1, MoveKeeps
  <2>2. CASE StatusKey
    BY <2>2, StatusKeeps
  <2>3. CASE \E s \in {"confirm", "bind", "unbind"} : Prompt(s)
    BY <2>3, PromptKeeps
  <2>4. CASE \E s \in {"confirm", "bind", "unbind"} : CloseWith(s)
    BY <2>4, CloseKeeps
  <2> QED BY <1>3, <2>1, <2>2, <2>3, <2>4 DEF Key, Enter, Cancel
<1>4. CASE Resize
  BY <1>4, MoveKeeps
<1>5. CASE UNCHANGED reviewVars
  BY <1>5 DEF reviewVars, screen, prompt, ReviewInv, ScreenTypes, InWindow, PromptMeans,
              HasSelected, Selected
<1> QED BY <1>1, <1>2, <1>3, <1>4, <1>5 DEF ReviewNext

\* The entry under the cursor exists as long as any does, and is one of the rows
\* shown, whatever lists come in, in whatever order, and however the vault was
\* changed, unless the window has become smaller since the last Down.
THEOREM CursorStaysInView == ReviewSpec => []SelectedShown
<1>1. ReviewInv => SelectedShown
  <2> SUFFICES ASSUME ReviewInv
               PROVE  SelectedShown
    OBVIOUS
  <2>1. entries # <<>> => cursor \in 0..Len(entries) - 1
    BY DEF ReviewInv, ScreenTypes, InWindow
  <2> QED BY <2>1 DEF ReviewInv, InWindow, SelectedShown, HasSelected
<1> QED BY <1>1, InitReview, NextReview, PTL DEF ReviewSpec

\* A prompt deletes, binds or unbinds the entry it was opened for, or nothing,
\* as long as the lists that come in while it is open only add entries at the
\* end.
THEOREM PromptActsOnTheMeant == ReviewSpec => ActsOnTheMeant
<1>1. ASSUME ReviewInv, ReviewNext, NEW c \in commands' \ commands,
             c[1] # "status", ~reordered
      PROVE  c[2] = meant
  <2>1. CASE Deliver \/ Others \/ Tick \/ Answer \/ Resize
    BY <1>1, <2>1 DEF Deliver, ListMsg, Others, Tick, Answer, Run, Resize
  <2>2. CASE Key
    <3>1. CASE Up \/ Down \/ \E s \in {"confirm", "bind", "unbind"} : Prompt(s) \/ Cancel(s)
      BY <1>1, <3>1 DEF Up, Down, Prompt, Cancel
    <3>2. CASE StatusKey
      BY <1>1, <3>2 DEF StatusKey, Send
    <3>3. ASSUME NEW s, s # "list", NEW op, Enter(s, op)
          PROVE  c[2] = meant
      <4>1. HasSelected /\ c = <<op, Selected>>
        BY <1>1, <3>3 DEF Enter, Send, Target
      <4>2. state # "list"
        BY <3>3 DEF Enter, CloseWith
      <4>3. Selected = meant
        BY <1>1, <4>2 DEF ReviewInv, PromptMeans
      <4> QED BY <4>1, <4>3
    <3> QED BY <2>2, <3>1, <3>2, <3>3 DEF Key
  <2> QED BY <1>1, <2>1, <2>2 DEF ReviewNext
<1>2. ReviewInv /\ [ReviewNext]_reviewVars =>
         [\A c \in commands' \ commands : c[1] # "status" /\ ~reordered => c[2] = meant]_reviewVars
  BY <1>1
<1> QED BY <1>2, InitReview, NextReview, PTL DEF ReviewSpec, ActsOnTheMeant
=============================================================================
