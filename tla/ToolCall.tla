------------------------------ MODULE ToolCall ------------------------------
(***************************************************************************)
(* One Bash call of an agent from end to end: the pre-tool hook resolves   *)
(* the placeholders of the command (module Hooks), the tool runs with the  *)
(* values and prints some of them, and the post-tool hook sends what it    *)
(* printed through the daemon's scan (PostToolUse, internal/hooks/post.go; *)
(* the scan is that of module Daemon) before the model sees it.            *)
(*                                                                         *)
(* Both hooks are processes of their own that share nothing but the vault, *)
(* which the user goes on editing, and both fail open.  Other connections  *)
(* scan at the same time as the post-tool hook, with the same detector.    *)
(***************************************************************************)
EXTENDS Hooks

CONSTANTS
    Other,       \* the other connections that scan
    Texts,       \* the texts they scan
    Patterned,   \* secrets recognised by their shape
    Escaped,     \* secrets with a character that JSON writes otherwise
    Raw          \* "as it is"

ASSUME OtherAssumption == "post" \notin Other
ASSUME TextsAssumption == Texts \subseteq SUBSET Secret
ASSUME EscapedAssumption == Escaped \subseteq Secret
ASSUME PatternedAssumption == Patterned \subseteq Secret
ASSUME RawAssumption == Raw \notin Placeholder

VARIABLES
    stage,      \* "pre", "tool", "post", or "shown"
    given,      \* history: the values it got and printed, each for its placeholder
    response,   \* the secrets in the tool's response
    view,       \* what the model sees in the place of each of them
    outage,     \* history: the post-tool hook failed open
    exact, matching, racing, phase, request, values, matches, tokens, answer,
    sinceScan, moved

\* The daemon, with this hook's connection and the others.
D == INSTANCE Daemon WITH
         Scanner <- {"post"} \cup Other, Texts <- SUBSET Secret,
         todo <- matches, since <- sinceScan

scan == <<exact, matching, racing, phase, request, values, matches, tokens, answer>>
toolVars == <<given, response, view, outage>>
history == <<sinceScan, moved>>
tvars == <<hvars, stage, toolVars, scan, history>>

ToolCallInit ==
    /\ HookInit
    /\ D!DaemonInit
    /\ stage = "pre"
    /\ given = {}
    /\ response = {}
    /\ view = [s \in Secret |-> Raw]
    /\ outage = FALSE

-----------------------------------------------------------------------------
Over == call \in {"done", "open"}

PreToolUse ==
    /\ stage = "pre"
    /\ HookStep
    /\ D!Follow
    /\ UNCHANGED <<stage, toolVars, scan>>

\* The pre-tool hook ends with its answer.  The tool prints what it likes of
\* what it was given, and of what it finds.  PostToolUse does not scan an empty
\* response.
Substitutions ==
    {<<command[w[1]].words[w[2]], out[w[1]].words[w[2]]>> : w \in Replaced}

RunTool ==
    /\ stage = "pre" /\ Over
    /\ response' \in SUBSET ({g[2] : g \in Substitutions} \cup Patterned)
    /\ given' = {g \in Substitutions : g[2] \in response'}
    /\ stage' = IF response' = {} THEN "shown" ELSE "tool"
    /\ command' = <<>> /\ out' = <<>>
    /\ since' = [ever |-> {}, always |-> {}]
    /\ UNCHANGED <<vars, call, todo, left, view, outage, scan, history>>

\* PostToolUse has the JSON of any other response scanned with auto_register.
\* Mutant: without it.
AutoRegisterNot == FALSE
AutoRegister == TRUE

AskScan ==
    /\ stage = "tool"
    /\ response # {}
    /\ D!Accept("post", response \ Escaped, AutoRegister)
    /\ stage' = "post"
    /\ UNCHANGED <<callVars, since, toolVars>>

\* A handler's steps between the request and its answer.
HandlerStep(h) ==
    \/ D!SetExactValues(h) \/ D!StartMatch(h) \/ D!Scan(h)
    \/ \E s \in Secret : D!ResolveExact(h, s) \/ D!ResolvePattern(h, s) \/ D!LeavePattern(h, s)
    \/ D!RedactInPlace(h)

Handle ==
    /\ stage = "post"
    /\ HandlerStep("post")
    /\ UNCHANGED <<callVars, since, stage, toolVars>>

\* The steps of another scan on the detector, while they can make a difference
\* to this one: an early request may have read an older list of values.  What
\* it does to the vault later, the vault's other callers do as well.
OtherScan ==
    /\ phase["post"] \in {"idle", "read", "synced", "matching"}
    /\ \E h \in Other :
          \/ stage \in {"tool", "post"} /\ \E text \in Texts : D!Accept(h, text, TRUE)
          \/ stage = "post" /\ (D!SetExactValues(h) \/ D!StartMatch(h) \/ D!Scan(h))
    /\ UNCHANGED <<callVars, since, stage, toolVars>>

\* The redacted bytes become the response.
Show ==
    /\ stage = "post"
    /\ phase["post"] = "done"
    /\ view' = answer["post"]
    /\ stage' = "shown"
    /\ UNCHANGED <<hvars, given, response, outage, scan, history>>

\* No answer, at once or within the hook's time: failOpen answers with an empty
\* envelope, so the response goes to the model as it is.  What a handler does
\* for an answer nobody waits for, the vault's other callers do as well.
PostFailsOpen ==
    /\ stage = "tool"
    /\ response # {}
    /\ outage' = TRUE
    /\ stage' = "shown"
    /\ UNCHANGED <<hvars, given, response, view, scan, history>>

\* The vault's other callers, up to the end of the scan.  When the command has
\* been resolved, its bindings make no difference any more and are left alone.
BindingsStay ==
    \A p \in DOMAIN byPH' :
        byPH'[p].bindings = IF p \in DOMAIN byPH THEN byPH[p].bindings ELSE {}

Meanwhile ==
    /\ stage # "shown" /\ phase["post"] # "done"
    /\ Next
    /\ UNCHANGED <<callVars, stage, toolVars, scan>>
    /\ IF stage = "pre" THEN Follow ELSE BindingsStay /\ UNCHANGED since
    /\ D!Follow

ToolCallNext ==
    \/ PreToolUse \/ RunTool
    \/ AskScan \/ Handle \/ OtherScan \/ Show \/ PostFailsOpen
    \/ Meanwhile

ToolCallSpec == ToolCallInit /\ [][ToolCallNext]_tvars

-----------------------------------------------------------------------------
Scrubbed == stage = "shown" /\ response # {} /\ ~outage

\* "scrubs the tool's response payload before it enters the model's context"
\* (post.go:11): a value that was active in the vault from the scan's request on
\* does not come back to the model, unless another scan was handled at the same
\* time (it may replace the detector's values, or meet this one in the
\* automaton); nor does a secret with a known shape, whatever other scans do,
\* while the vault is open.  What JSON escapes is not recognised, and a hook
\* that fails open lets everything through (hook.go:76-79).
NothingComesBack ==
    Scrubbed => \A s \in response \ Escaped :
        s \in sinceScan["post"] \/ (s \in Patterned /\ ~closed) => view[s] # Raw

\* The agent gets back what it wrote: what the model sees in the place of a
\* value that the command got for a placeholder is that placeholder, if it is
\* not the value itself, and never the placeholder of another secret, whatever
\* is deleted, registered and rotated while the tool runs.  Only rotations
\* make a difference: of the placeholder, or of another one to this value.
RoundTrips ==
    Scrubbed => \A g \in given :
        g[1] \notin moved /\ g[2] \in response => view[g[2]] \in {g[1], Raw} \cup moved
=============================================================================
