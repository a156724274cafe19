------------------------------- MODULE Proxy -------------------------------
(***************************************************************************)
(* One request through the proxy (internal/proxy/proxy.go): handle, and    *)
(* the streaming and the buffered way back.  Requests share only the vault *)
(* and the detector; how concurrent scans interfere there is the subject   *)
(* of module Daemon, whose handleScan makes the same calls in the same     *)
(* order as scanAndRedact, and overlapping matches of module Redact.       *)
(*                                                                         *)
(* A body is a sequence of lines that hold a "secret" recognised by its    *)
(* shape, a "known" value that is only registered, the passthrough token   *)
(* ("auth"), "text", or a "masked" secret.  A body on the wire has an      *)
(* encoding; what is not decoded is "bytes".                               *)
(*                                                                         *)
(* Both commands that run the proxy give it daemonProxyVault               *)
(* (internal/cliroot/proxy_vault.go): Values is empty, so the exact stage  *)
(* never finds anything, and Register asks the daemon, which may be down.  *)
(***************************************************************************)
EXTENDS Naturals, Sequences, SequencesExt

CONSTANTS
    Requests,       \* [encoding, wire, body]: wire is the length of a gzip body
                    \* as it is sent, which may be much shorter than the body
    Responses,      \* [encoding, wire, stream, body]
    RequestLimit,   \* the 16 MiB that are read of a request, in lines
    ResponseLimit,  \* the 64 MiB that are read of a response
    DecodeLimit     \* the 64 MiB that are read of a gzip body when it is decoded

Line == {"secret", "known", "auth", "text"}

ASSUME BodyAssumption == \A m \in Requests \cup Responses : m.body \in Seq(Line)
ASSUME LimitAssumption ==
    RequestLimit \in Nat /\ ResponseLimit \in Nat /\ DecodeLimit \in Nat

VARIABLES
    phase,      \* how far handle is
    request,
    body,       \* the request body, redacted
    sent,       \* what the upstream got: <<>> or << [encoding, body] >>
    response,
    left,       \* the lines of a stream still to come
    received,   \* the body the client has got, always sent as identity
    failed,     \* it has got 502 instead
    lost        \* history: the lines, of the request and of the response, with a
                \* hit that the daemon did not register

proxyVars == <<phase, request, body, sent, response, left, received, failed, lost>>

ProxyInit ==
    /\ phase = "idle"
    /\ request \in Requests
    /\ body = <<>>
    /\ sent = <<>>
    /\ response \in Responses
    /\ left = <<>>
    /\ received = <<>>
    /\ failed = FALSE
    /\ lost = [request |-> {}, response |-> {}]

-----------------------------------------------------------------------------
\* scanAndRedact: a match that is a passthrough token is left in, and so is
\* one that the daemon does not register; down are the lines with such a one.
Redact(b, down) ==
    [i \in DOMAIN b |-> IF b[i] = "secret" /\ i \notin down THEN "masked" ELSE b[i]]

\* io.LimitReader: what is beyond the limit is not read, and no error.
Limited(b, n) == IF Len(b) <= n THEN b ELSE SubSeq(b, 1, n)

\* decodeBody.  The decoded bytes are limited as well; a gzip body that was cut
\* on the wire has no end and fails, unless that limit comes first.
Plain(m, n) == Limited(m.body, IF m.encoding = "gzip" THEN DecodeLimit ELSE n)

Cut(m, n) == m.encoding = "gzip" /\ m.wire > n

Decodes(m, n) == /\ m.encoding \in {"identity", "gzip"}
                 /\ Cut(m, n) => Len(m.body) >= DecodeLimit

Rejects(m, n) == m.encoding \notin {"identity", "gzip"} \/ Cut(m, n)

Fail == /\ failed' = TRUE
        /\ phase' = "done"
        /\ UNCHANGED <<request, body, sent, response, left, received, lost>>

ScanRequest(down) ==
    /\ phase = "idle"
    /\ Decodes(request, RequestLimit)
    /\ body' = Redact(Plain(request, RequestLimit), down)
    /\ lost' = [lost EXCEPT !.request = down]
    /\ phase' = "scanned"
    /\ UNCHANGED <<request, sent, response, left, received, failed>>

RejectRequest == phase = "idle" /\ Rejects(request, RequestLimit) /\ Fail

\* Mutant: the encoding is not set back.
EncodingLost(r) == "identity"
Encoding(r) == r.encoding

Forward ==
    /\ phase = "scanned"
    /\ sent' = <<[encoding |-> Encoding(request), body |-> body]>>
    /\ phase' = "waiting"
    /\ UNCHANGED <<request, body, response, left, received, failed, lost>>

\* http.DefaultClient.Do fails, before or after the upstream got the request.
UpstreamFails == phase \in {"scanned", "waiting"} /\ Fail

-----------------------------------------------------------------------------
\* The headers are copied, Content-Encoding excepted, and the lines scanned
\* as they come: streamResponse does not decode.
StreamBegins ==
    /\ phase = "waiting"
    /\ response.stream
    /\ left' = response.body
    /\ phase' = "streaming"
    /\ UNCHANGED <<request, body, sent, response, received, failed, lost>>

\* Mutant: a line is relayed as it is.
RelayedRaw(line, down) == <<line>>
Relayed(line, down) ==
    IF response.encoding = "identity" THEN Redact(<<line>>, down) ELSE <<"bytes">>

StreamLine(down) ==
    /\ phase = "streaming"
    /\ left # <<>>
    /\ received' = received \o Relayed(Head(left), down)
    /\ left' = Tail(left)
    /\ lost' = [lost EXCEPT !.response = IF down = {} THEN @ ELSE @ \cup {Len(received')}]
    /\ UNCHANGED <<phase, request, body, sent, response, failed>>

\* The stream ends, or breaks off.
StreamEnds ==
    /\ phase = "streaming"
    /\ left' = <<>>
    /\ phase' = "done"
    /\ UNCHANGED <<request, body, sent, response, received, failed, lost>>

Buffered(down) ==
    /\ phase = "waiting"
    /\ ~response.stream
    /\ Decodes(response, ResponseLimit)
    /\ received' = Redact(Plain(response, ResponseLimit), down)
    /\ lost' = [lost EXCEPT !.response = down]
    /\ phase' = "done"
    /\ UNCHANGED <<request, body, sent, response, left, failed>>

RejectResponse == phase = "waiting" /\ ~response.stream /\ Rejects(response, ResponseLimit) /\ Fail

ProxyNext ==
    \/ \E down \in SUBSET DOMAIN request.body : ScanRequest(down)
    \/ \E down \in SUBSET {1} : StreamLine(down)
    \/ \E down \in SUBSET DOMAIN response.body : Buffered(down)
    \/ RejectRequest \/ Forward \/ UpstreamFails
    \/ StreamBegins \/ StreamEnds \/ RejectResponse

ProxySpec == ProxyInit /\ [][ProxyNext]_proxyVars

-----------------------------------------------------------------------------
\* "client -> read body fully -> scan+redact -> forward to upstream"
\* (proxy.go:219): the upstream gets the client's request, masked, in the encoding
\* the client used, and nothing but the beginning of it.  It gets the whole of it
\* if neither of the two limits on the way cuts the body: what they cut is lost
\* without an error (proxy.go:241, 528).
RequestWhole ==
    \A i \in DOMAIN sent :
        LET whole == Redact(request.body, lost.request)
            limit == IF request.encoding = "identity" THEN RequestLimit ELSE DecodeLimit
        IN  /\ sent[i].encoding = request.encoding
            /\ IsPrefix(sent[i].body, whole)
            /\ Len(whole) <= limit => sent[i].body = whole

\* Unknown encodings "return an error so the proxy fails-fast rather than
\* silently forwarding garbage" (proxy.go:516-517): what the client receives
\* is the upstream's answer, masked, as far as it has come or been read, and
\* nothing if it is told of a failure; that an answer was cut, or a stream broke
\* off, it is not told.  Encoded streams are not decoded and are left out.
ClientReads ==
    ~response.stream \/ response.encoding = "identity" =>
        /\ IsPrefix(received, Redact(response.body, lost.response))
        /\ failed => received = <<>>
=============================================================================
