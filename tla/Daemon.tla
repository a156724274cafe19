------------------------------- MODULE Daemon -------------------------------
(***************************************************************************)
(* The daemon answering requests (Server, internal/ipc/server.go) with the *)
(* shared Detector (internal/detect/detector.go) on top of the vault.      *)
(*                                                                         *)
(* Every connection has a goroutine of its own.  All requests but scan are *)
(* one call of the vault, so the actions of module Vault are those         *)
(* handlers.  handleScan makes several calls, each under a lock of its     *)
(* own and with nothing held in between: it reads the vault's values,      *)
(* replaces the detector's exact values by them, snapshots the detector    *)
(* and searches the text, then registers or counts each match.  Each call  *)
(* is an action.                                                           *)
(*                                                                         *)
(* A text is the set of secrets that occur in it, at disjoint positions    *)
(* (module Redact treats overlaps).  Patterned are the secrets that the    *)
(* regex, entropy and context stages report with a confidence of 0.85 or   *)
(* more; of what they report below that, nothing is ever replaced.         *)
(***************************************************************************)
EXTENDS Vault

CONSTANTS Scanner,     \* the connections with a scan request
          Patterned,   \* secrets recognised by their shape
          Texts,       \* the texts to scan
          Raw          \* "not replaced", in an answer

ASSUME PatternedAssumption == Patterned \subseteq Secret
ASSUME TextsAssumption == Texts \subseteq SUBSET Secret
ASSUME RawAssumption == Raw \notin Placeholder

VARIABLES
    exact,    \* detector.values and detector.ac
    matching, \* the scans that are inside Match of the automaton in force
    racing,   \* those that have been there together with another one
    phase,    \* how far each scan is
    request,  \* its text and AutoRegister
    values,   \* what its call of Values returned
    todo,     \* its matches that are not resolved yet
    tokens,   \* the placeholders its resolved matches carry
    answer,   \* what the redacted text has in place of each secret
    since,    \* history: the secrets that have been active ever since the
              \* request arrived; it ends when two scans meet
    moved     \* history: the placeholders whose entry has been given another
              \* value than the one it was made for

detector == <<exact, matching, racing>>
scanVars == <<phase, request, values, todo, tokens, answer>>
history == <<since, moved>>
dvars == <<vars, detector, scanVars, history>>

Idle == [text |-> {}, auto |-> FALSE]

DaemonInit ==
    /\ Init
    /\ exact = {}
    /\ matching = {}
    /\ racing = {}
    /\ phase = [h \in Scanner |-> "idle"]
    /\ request = [h \in Scanner |-> Idle]
    /\ values = [h \in Scanner |-> {}]
    /\ todo = [h \in Scanner |-> {}]
    /\ tokens = [h \in Scanner |-> [s \in Secret |-> {}]]
    /\ answer = [h \in Scanner |-> [s \in Secret |-> Raw]]
    /\ since = [h \in Scanner |-> {}]
    /\ moved = {}

\* Whatever a step does to the vault, the histories follow.
Reused == {p \in DOMAIN byPH \cap DOMAIN byPH' : byPH'[p].value # byPH[p].value}

Follow == /\ since' = [h \in Scanner |-> since[h] \cap Values']
          /\ moved' = moved \cup Reused

Step(h, from, to) == phase[h] = from /\ phase' = [phase EXCEPT ![h] = to]

-----------------------------------------------------------------------------
\* handleScan.

\* A scan request arrives, and s.vault.Values() is read.
Accept(h, text, auto) ==
    /\ ~panicked
    /\ Step(h, "idle", "read")
    /\ request' = [request EXCEPT ![h] = [text |-> text, auto |-> auto]]
    /\ values' = [values EXCEPT ![h] = Values]
    /\ LET alone == \A g \in Scanner : phase[g] = "idle"
       IN  since' = [g \in Scanner |-> IF g = h /\ alone THEN Values ELSE {}]
    /\ UNCHANGED <<vars, detector, todo, tokens, answer, moved>>

\* s.detector.SetExactValues(...): the list in force is the last one set, by
\* whichever scan.
\* Mutant: the automaton is built once and never again.
LoadedOnce(h) == IF exact = {} THEN values[h] ELSE exact
Loaded(h) == values[h]

SetExactValues(h) ==
    /\ ~panicked
    /\ Step(h, "read", "synced")
    /\ exact' = Loaded(h)
    /\ matching' = {}
    /\ values' = [values EXCEPT ![h] = {}]
    /\ UNCHANGED <<vars, racing, request, todo, tokens, answer, history>>

\* s.detector.Scan(raw): the lock covers the snapshot only.
StartMatch(h) ==
    /\ ~panicked
    /\ Step(h, "synced", "matching")
    /\ todo' = [todo EXCEPT ![h] = {"ac"} \X (request[h].text \cap exact)]
    /\ matching' = matching \cup {h}
    /\ racing' = IF matching = {} THEN racing ELSE racing \cup matching \cup {h}
    /\ UNCHANGED <<vars, exact, request, values, tokens, answer, history>>

\* Match marks what it has found in the automaton itself, so of two scans that
\* are in there at once either can take the other's marks for its own, and miss
\* those values.
Found(h) == IF h \in racing THEN SUBSET todo[h] ELSE {todo[h]}

\* A secret that is both an exact value and patterned gives two matches: dedup
\* compares the kind as well.
\* Mutant: the pattern stages run only when the exact stage found nothing.
HitsResidue(hits, text) == IF hits # {} THEN hits ELSE {"regex"} \X (text \cap Patterned)
Hits(hits, text) == hits \cup ({"regex"} \X (text \cap Patterned))

Scan(h) ==
    /\ ~panicked
    /\ Step(h, "matching", "scanned")
    /\ \E hits \in Found(h) : todo' = [todo EXCEPT ![h] = Hits(hits, request[h].text)]
    /\ matching' = matching \ {h}
    /\ racing' = racing \ {h}
    /\ UNCHANGED <<vars, exact, request, values, tokens, answer, history>>

\* Resolved match m of scan h; it carries the placeholders ps (none or one).
Resolved(h, m, ps) ==
    /\ phase[h] = "scanned"
    /\ m \in todo[h]
    /\ todo' = [todo EXCEPT ![h] = @ \ {m}]
    /\ tokens' = [tokens EXCEPT ![h][m[2]] = @ \cup ps]
    /\ UNCHANGED <<detector, phase, request, values, answer>>
    /\ Follow

\* An exact match gets the derived placeholder, whatever the vault has, and
\* the use is counted if there is an entry to count it on (up to MaxUses).
ResolveExact(h, s) ==
    /\ ~panicked
    /\ <<"ac", s>> \in todo[h]
    /\ \/ MarkUse(PlaceholderOf[s])
       \/ /\ PlaceholderOf[s] \in DOMAIN byPH => byPH[PlaceholderOf[s]].uses = MaxUses
          /\ UNCHANGED vars
    /\ Resolved(h, <<"ac", s>>, {PlaceholderOf[s]})

\* Scan lists the exact matches first, so they are resolved first.
PatternTurn(h, s) ==
    /\ ~panicked
    /\ <<"regex", s>> \in todo[h]
    /\ \A m \in todo[h] : m[1] = "regex"

\* A pattern match is registered when the request asks for it.
ResolvePattern(h, s) ==
    /\ PatternTurn(h, s)
    /\ request[h].auto
    /\ Register(s, {})
    /\ Resolved(h, <<"regex", s>>, {byValue'[s]})

\* Register fails on a closed vault; the match stays without a placeholder.
LeavePattern(h, s) ==
    /\ PatternTurn(h, s)
    /\ ~request[h].auto \/ closed
    /\ UNCHANGED vars
    /\ Resolved(h, <<"regex", s>>, {})

\* redactInPlace: of two matches at one place either can be first, since
\* sort.Slice is not stable; one without a placeholder is skipped.
\* Mutant: matches and placeholders fall out of step.
ReplacementsShifted(h, s) == IF tokens[h][s] = {} THEN {Raw} ELSE UNION {tokens[h][x] : x \in Secret}
Replacements(h, s) == IF tokens[h][s] = {} THEN {Raw} ELSE tokens[h][s]

RedactInPlace(h) ==
    /\ ~panicked
    /\ todo[h] = {}
    /\ Step(h, "scanned", "done")
    /\ \E f \in [Secret -> Placeholder \cup {Raw}] :
          /\ \A s \in Secret : f[s] \in Replacements(h, s)
          /\ answer' = [answer EXCEPT ![h] = f]
    /\ tokens' = [tokens EXCEPT ![h] = [s \in Secret |-> {}]]
    /\ UNCHANGED <<vars, detector, request, values, todo, history>>

\* The response is written and the connection closed.
Reply(h) ==
    /\ Step(h, "done", "idle")
    /\ request' = [request EXCEPT ![h] = Idle]
    /\ answer' = [answer EXCEPT ![h] = [s \in Secret |-> Raw]]
    /\ since' = [since EXCEPT ![h] = {}]
    /\ UNCHANGED <<vars, detector, values, todo, tokens, moved>>

ScanStep(h) ==
    \/ \E text \in Texts, auto \in BOOLEAN : Accept(h, text, auto)
    \/ SetExactValues(h)
    \/ StartMatch(h)
    \/ Scan(h)
    \/ \E s \in Secret : ResolveExact(h, s) \/ ResolvePattern(h, s) \/ LeavePattern(h, s)
    \/ RedactInPlace(h)
    \/ Reply(h)

-----------------------------------------------------------------------------
\* The other requests, and the end of the daemon.
Others(op) == op /\ Follow /\ UNCHANGED <<detector, scanVars>>

RegisterRequest == Others(\E v \in Secret, hs \in SUBSET Pattern : Register(v, hs))
RotateRequest == Others(\E p \in Placeholder, v \in Secret : Rotate(p, v))
EntryRequest == Others(Housekeeping)

\* Those that only read, and those that are refused.
ReadRequest == Others(UNCHANGED vars)

\* main calls Close when Serve has returned; it does not wait for the
\* goroutines that still handle a connection.
Shutdown == Others(Close)

DaemonNext ==
    \/ \E h \in Scanner : ScanStep(h)
    \/ RegisterRequest \/ RotateRequest \/ EntryRequest \/ ReadRequest
    \/ Shutdown

DaemonSpec == DaemonInit /\ [][DaemonNext]_dvars

-----------------------------------------------------------------------------
DaemonTypeOK ==
    /\ TypeOK
    /\ exact \subseteq Secret
    /\ matching \subseteq Scanner /\ racing \subseteq Scanner
    /\ phase \in [Scanner -> {"idle", "read", "synced", "matching", "scanned", "done"}]
    /\ request \in [Scanner -> [text : SUBSET Secret, auto : BOOLEAN]]
    /\ values \in [Scanner -> SUBSET Secret]
    /\ todo \in [Scanner -> SUBSET ({"ac", "regex"} \X Secret)]
    /\ tokens \in [Scanner -> [Secret -> SUBSET Placeholder]]
    /\ answer \in [Scanner -> [Secret -> Placeholder \cup {Raw}]]
    /\ since \in [Scanner -> SUBSET Secret]
    /\ moved \subseteq Placeholder

Answered(h) == phase[h] = "done"

\* "Keep the AC stage in sync with the vault before scanning" (server.go:180):
\* a value that was registered and active from before the request until after
\* the answer is replaced in the answer, whatever is registered, rotated or
\* deleted meanwhile, unless another scan was handled at the same time: that
\* one may have set the detector's values to an older list, or have met it in
\* the automaton.
ActiveMasked ==
    \A h \in Scanner : Answered(h) =>
        \A s \in request[h].text \cap since[h] : answer[h][s] # Raw

\* With AutoRegister a secret recognised by its shape is replaced, whatever
\* scans, registrations, rotations and deletions run beside, if the vault is
\* still open at the end: "if the daemon is down [...] every layer refuses to
\* release data" (SPEC.md:101).
PatternedMasked ==
    \A h \in Scanner : Answered(h) /\ request[h].auto /\ ~closed =>
        \A s \in request[h].text \cap Patterned : answer[h][s] # Raw

\* "populating .Placeholder so the redacted output uses the stable token"
\* (server.go:187-188): a token in an answer never resolves to another secret
\* than the one it replaced, whatever has been deleted, registered anew and
\* rotated since.  A placeholder that a rotation has moved to another value
\* does mislead, and so does one that two secrets hash to.
Unshared(s) == \A v \in Secret : PlaceholderOf[v] = PlaceholderOf[s] => v = s

TokenNeverMisleads ==
    \A h \in Scanner : Answered(h) =>
        \A s \in request[h].text :
            Unshared(s) /\ answer[h][s] \in (DOMAIN byPH) \ moved =>
                byPH[answer[h][s]].value = s
=============================================================================
