---------------------------- MODULE PasteFilter ----------------------------
(***************************************************************************)
(* The paste filter between the terminal and the wrapped command           *)
(* (pasteFilter.process, internal/wrapper/wrapper.go).                     *)
(*                                                                         *)
(* stream is everything the user types and pastes, a sequence of bytes     *)
(* that the terminal delivers in chunks cut anywhere; rest is what process *)
(* has not consumed of the current chunk, and each iteration of its loop   *)
(* is an action.  The six-byte markers are two symbols long here and a     *)
(* secret is two bytes, so that each can be cut.  pending is left out: the *)
(* code fills it and never reads it.                                       *)
(***************************************************************************)
EXTENDS Naturals, Sequences

CONSTANTS
    Text,       \* the other bytes a user may send
    Streams     \* the inputs

PasteBegin == <<"esc", "200">>
PasteEnd == <<"esc", "201">>
Secret == <<"s1", "s2">>

Byte == {"esc", "200", "201", "s1", "s2"} \cup Text

\* Marker m occupies s[i], s[i+1].
MarkerAt(s, m, i) == i \in 1..Len(s) - 1 /\ s[i] = m[1] /\ s[i + 1] = m[2]

\* The two bytes of a placeholder, which are told apart from the input's.
Masks == {"p1", "p2"}

ASSUME TextAssumption == Text \cap Masks = {}
ASSUME StreamsAssumption == Streams \subseteq Seq(Byte)

VARIABLES
    stream,     \* the input
    at,         \* how much of it has been read
    rest,       \* the unprocessed part of the current chunk
    state,      \* "normal" or "paste"
    buffered,   \* the body of the paste so far
    out,        \* what the command has received
    cut,        \* history: the kinds of markers that a read has cut in two
    outage      \* history: the daemon has failed to answer

filterVars == <<stream, at, rest, state, buffered, out, cut, outage>>

FilterInit ==
    /\ stream \in Streams
    /\ at = 0
    /\ rest = <<>>
    /\ state = "normal"
    /\ buffered = <<>>
    /\ out = <<>>
    /\ cut = {}
    /\ outage = FALSE

-----------------------------------------------------------------------------
\* bytes.Index
FirstAt(s, m, i) == MarkerAt(s, m, i) /\ \A j \in 1..i - 1 : ~MarkerAt(s, m, j)
Includes(s, m) == \E i \in DOMAIN s : MarkerAt(s, m, i)

Before(i) == SubSeq(rest, 1, i - 1)

\* Mutant: the last byte of the marker is left in the input.
AfterShort(i) == SubSeq(rest, i + 1, Len(rest))
After(i) == SubSeq(rest, i + 2, Len(rest))

\* What the daemon makes of a text: each secret becomes its placeholder.
Mask(s) == [i \in DOMAIN s |->
               CASE MarkerAt(s, Secret, i) -> "p1"
                 [] MarkerAt(s, Secret, i - 1) -> "p2"
                 [] OTHER -> s[i]]

\* os.Stdin.Read returns n bytes.
Read(n) == /\ rest = <<>>
           /\ at + n <= Len(stream)
           /\ rest' = SubSeq(stream, at + 1, at + n)
           /\ at' = at + n
           /\ cut' = cut \cup {m \in {PasteBegin, PasteEnd} : MarkerAt(stream, m, at + n)}
           /\ UNCHANGED <<stream, state, buffered, out, outage>>

BeginPaste ==
    /\ state = "normal"
    /\ \E i \in DOMAIN rest :
          /\ FirstAt(rest, PasteBegin, i)
          /\ out' = out \o Before(i) \o PasteBegin
          /\ rest' = After(i)
    /\ state' = "paste"
    /\ buffered' = <<>>
    /\ UNCHANGED <<stream, at, cut, outage>>

\* No marker in the chunk: all of it is forwarded, a tail that could be the
\* beginning of one included.
Forward ==
    /\ state = "normal"
    /\ rest # <<>>
    /\ ~Includes(rest, PasteBegin)
    /\ out' = out \o rest
    /\ rest' = <<>>
    /\ UNCHANGED <<stream, at, state, buffered, cut, outage>>

Buffer ==
    /\ state = "paste"
    /\ rest # <<>>
    /\ ~Includes(rest, PasteEnd)
    /\ buffered' = buffered \o rest
    /\ rest' = <<>>
    /\ UNCHANGED <<stream, at, state, out, cut, outage>>

\* Mutants: only the last chunk is scanned; the state is not reset.
ScannedLast(i) == buffered \o Mask(Before(i))
ResumedNot == "paste"

Scanned(i) == Mask(buffered \o Before(i))
Resumed == "normal"

EndPaste(i, body) ==
    /\ state = "paste"
    /\ FirstAt(rest, PasteEnd, i)
    /\ out' = out \o body \o PasteEnd
    /\ rest' = After(i)
    /\ state' = Resumed
    /\ buffered' = <<>>
    /\ UNCHANGED <<stream, at, cut>>

\* scanBuffered with an answer of the daemon, and without one.
EndScanned == /\ \E i \in DOMAIN rest : EndPaste(i, Scanned(i))
              /\ UNCHANGED outage

EndRaw == /\ \E i \in DOMAIN rest : EndPaste(i, buffered \o Before(i))
          /\ outage' = TRUE

FilterNext ==
    \/ \E n \in 1..Len(stream) : Read(n)
    \/ BeginPaste \/ Forward \/ Buffer
    \/ EndScanned \/ EndRaw

FilterSpec == FilterInit /\ [][FilterNext]_filterVars

-----------------------------------------------------------------------------
Unmask(s) == [i \in DOMAIN s |-> CASE s[i] = "p1" -> "s1" [] s[i] = "p2" -> "s2" [] OTHER -> s[i]]

\* process forwards "the rest of the chunk [...] unchanged" (wrapper.go:168):
\* whatever the cuts, what has come out, what is held back and what is still
\* in the chunk are the input in its order, but for the masked secrets.
Lossless == Unmask(out) \o buffered \o rest = SubSeq(stream, 1, at)

\* At place i of s there is a secret, inside a paste.
PastedSecret(s, i) ==
    /\ MarkerAt(s, Secret, i)
    /\ \E b \in 1..i : /\ MarkerAt(s, PasteBegin, b)
                       /\ \A e \in b..i : ~MarkerAt(s, PasteEnd, e)

\* "Pasted content is buffered until the end marker arrives"
\* (wrapper.go:167): however the secrets of a paste and its end marker are cut,
\* none comes out raw, if the daemon answers and every begin marker arrives in
\* one piece.
PasteMasked ==
    PasteBegin \notin cut /\ ~outage =>
        \A i \in DOMAIN out : PastedSecret(stream, i) => ~MarkerAt(out, Secret, i)

\* Every paste of the input is ended.
Ended == \E i \in DOMAIN stream : /\ MarkerAt(stream, PasteEnd, i)
                                  /\ \A j \in i..Len(stream) : ~MarkerAt(stream, PasteBegin, j)

\* Nothing is held back once the input has been read and its pastes have
\* ended, if no end marker was cut; "breaking the end marker" is a case that
\* process is tested for (wrapper_test.go:91), but it does not handle it.
NothingHeld ==
    at = Len(stream) /\ rest = <<>> /\ Ended /\ PasteEnd \notin cut =>
        state = "normal" /\ buffered = <<>>
=============================================================================
