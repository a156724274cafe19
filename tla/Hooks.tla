------------------------------- MODULE Hooks -------------------------------
(***************************************************************************)
(* The PreToolUse hook (preBash, internal/hooks/pre.go) resolving the      *)
(* placeholders of a Bash command, one request per placeholder and host,   *)
(* while the user goes on editing the vault.                               *)
(*                                                                         *)
(* A command is a sequence of parts.  A part has the host of its URL (the  *)
(* empty sequence if it has none) and the words sent there; only words     *)
(* that are placeholders are represented.  A host is the sequence of its   *)
(* labels, and so is a binding, whose first label may be "*".              *)
(***************************************************************************)
EXTENDS Vault

CONSTANTS Label,       \* the labels of host names, and "*"
          Commands     \* sequences of [host, words]

ASSUME PatternAssumption == Pattern \subseteq Seq(Label)
ASSUME CommandsAssumption ==
    Commands \subseteq Seq([host : Seq(Label), words : Seq(Placeholder)])

\* No value has the form of a placeholder, so a substitution makes no new one.
ASSUME FormAssumption == Secret \cap Placeholder = {}

VARIABLES
    call,      \* "idle", "resolving", "done", or "open": failed open
    command,
    out,       \* the command with the placeholders replaced so far
    todo,      \* the placeholders still to be resolved, in their order
    left,      \* the hosts still to be tried for the first of them, likewise
    since      \* history: what the vault allowed since the call began

callVars == <<call, command, out, todo, left>>
hvars == <<vars, callVars, since>>

Words(c) == UNION {{i} \X (DOMAIN c[i].words) : i \in DOMAIN c}
Word(c, w) == c[w[1]].words[w[2]]

\* findPlaceholders and HostsFromCommand list each once, in the order of its
\* first occurrence.
PlaceholdersOf(c) == {Word(c, w) : w \in Words(c)}
Hosts(c) == {c[i].host : i \in DOMAIN c} \ {<<>>}

Earlier(x, w) == x[1] < w[1] \/ (x[1] = w[1] /\ x[2] < w[2])

\* The loops are at placeholder p and at host h.
PlaceholderTurn(p) ==
    /\ p \in todo
    /\ \E w \in Words(command) :
          /\ Word(command, w) = p
          /\ \A x \in Words(command) : Earlier(x, w) => Word(command, x) \notin todo

HostTurn(h) ==
    /\ h \in left
    /\ \E i \in DOMAIN command : /\ command[i].host = h
                                 /\ \A j \in 1..i - 1 : command[j].host \notin left

\* matchHost.  Mutant: the last label decides.
MatchHostByEnd(pat, h) == pat = h \/ (Head(pat) = "*" /\ Last(pat) = Last(h))
MatchHost(pat, h) ==
    pat = h \/ (Len(pat) > 1 /\ Head(pat) = "*" /\ IsSuffix(Tail(pat), h))

Resolves(p, h) == p \in DOMAIN byPH /\ \E pat \in byPH[p].bindings : MatchHost(pat, h)

\* strings.ReplaceAll.  Mutant: the first part only.
SubstituteFirst(c, p, v) == [c EXCEPT ![1].words = ReplaceAll(@, p, v)]
SubstituteAll(c, p, v) == [i \in DOMAIN c |-> [c[i] EXCEPT !.words = ReplaceAll(@, p, v)]]

-----------------------------------------------------------------------------
\* What the bindings grant, said independently of matchHost: a host itself, or
\* the hosts below a name.
Below(pat, h) == \E k \in 1..Len(h) : pat = <<"*">> \o SubSeq(h, k, Len(h))
Allows(pat, h) == pat = h \/ Below(pat, h)

Bound(c) == {g \in (DOMAIN byPH) \X Hosts(c) :
                \E pat \in byPH[g[1]].bindings : Allows(pat, g[2])}

Grants(c) == {<<g[1], g[2], byPH[g[1]].value>> : g \in Bound(c)}

\* Whatever a step does to the vault, the history follows: what was granted at
\* some moment of the call, and what was bound all along.
Follow == since' = [ever   |-> since.ever \cup Grants(command)',
                    always |-> since.always \cap Bound(command)']

HookInit ==
    /\ Init
    /\ call = "idle"
    /\ command = <<>>
    /\ out = <<>>
    /\ todo = {}
    /\ left = {}
    /\ since = [ever |-> {}, always |-> {}]

-----------------------------------------------------------------------------
\* A command without placeholders, or without a URL, is left as it is.
Begin(c) ==
    /\ call = "idle"
    /\ command' = c
    /\ out' = c
    /\ todo' = PlaceholdersOf(c)
    /\ left' = Hosts(c)
    /\ call' = IF todo' = {} \/ left' = {} THEN "done" ELSE "resolving"
    /\ since' = [ever |-> Grants(c), always |-> Bound(c)]
    /\ UNCHANGED vars

\* On to the next placeholder, with all the hosts again.
NextPlaceholder(p) ==
    /\ todo' = todo \ {p}
    /\ left' = Hosts(command)
    /\ call' = IF todo' = {} THEN "done" ELSE "resolving"
    /\ UNCHANGED command

\* The resolve request of the daemon: Resolve and, on a match, MarkUse.
Asked(p, h) ==
    /\ call = "resolving" /\ Running
    /\ PlaceholderTurn(p) /\ HostTurn(h)

Substitute(p, h) ==
    /\ Asked(p, h)
    /\ Resolves(p, h)
    /\ out' = SubstituteAll(out, p, byPH[p].value)
    /\ NextPlaceholder(p)
    /\ MarkUse(p) \/ (byPH[p].uses = MaxUses /\ UNCHANGED vars)
    /\ Follow

\* "destination not bound": the next host is tried.  Mutant: none is.
RemainingNone(h) == {}
Remaining(h) == left \ {h}

NotBound(p, h) ==
    /\ Asked(p, h)
    /\ p \in DOMAIN byPH
    /\ ~Resolves(p, h)
    /\ IF Remaining(h) = {} THEN NextPlaceholder(p)
                            ELSE left' = Remaining(h) /\ UNCHANGED <<call, command, todo>>
    /\ UNCHANGED <<vars, out, since>>

\* "placeholder not found": no other host will do.
NotFound(p, h) ==
    /\ Asked(p, h)
    /\ p \notin DOMAIN byPH
    /\ NextPlaceholder(p)
    /\ UNCHANGED <<vars, out, since>>

\* No answer, or any other error: failOpen answers with an empty envelope, so
\* the command runs as the agent wrote it.
FailOpen ==
    /\ call = "resolving"
    /\ call' = "open"
    /\ out' = command
    /\ UNCHANGED <<vars, command, todo, left, since>>

\* The vault's other callers; once the call is over they are not followed.
Others == call \in {"idle", "resolving"} /\ Next /\ UNCHANGED callVars /\ Follow

HookStep == \/ \E c \in Commands : Begin(c)
            \/ \E p \in todo, h \in left : Substitute(p, h) \/ NotBound(p, h) \/ NotFound(p, h)
            \/ FailOpen

HookNext == HookStep \/ Others

HookSpec == HookInit /\ [][HookNext]_hvars

-----------------------------------------------------------------------------
Replaced == {w \in Words(command) : Word(out, w) # Word(command, w)}

\* A value stands for a placeholder in a command only if the vault had that
\* value under it and bound to some host of the command, at one moment of the
\* call: not the value of one moment with the binding of another, and not one
\* fetched for another placeholder.  It says nothing of the other hosts of the
\* command, to which the value goes as well (pre.go:77), although "on miss" the
\* placeholder is meant to stay "literal" for them (pre.go:17-19).
OnlyGranted ==
    \A w \in Replaced : \E h \in Hosts(command) :
        <<Word(command, w), h, Word(out, w)>> \in since.ever

\* If: a placeholder that stayed bound to some host of the command throughout a
\* call that did not fail open is replaced, whatever else is not bound.
BoundSubstituted ==
    call = "done" => \A w \in Words(command) :
        (\E h \in Hosts(command) : <<Word(command, w), h>> \in since.always) => w \in Replaced

\* A rotation in the middle of a call never leaves a command with two values,
\* or a value and the placeholder, for one credential.
OneValue ==
    \A w, x \in Words(command) :
        Word(command, w) = Word(command, x) => Word(out, w) = Word(out, x)
=============================================================================
