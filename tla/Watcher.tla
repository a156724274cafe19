------------------------------ MODULE Watcher ------------------------------
(***************************************************************************)
(* noleak-watch (Watcher, internal/watch/watcher.go) beside an agent that  *)
(* appends to files.  One goroutine takes the events and handles each to   *)
(* its end; the agent writes whenever it likes.                            *)
(*                                                                         *)
(* External is fsnotify, on inotify: a watched directory reports on its    *)
(* own files and not on those of its subdirectories, an event equal to one *)
(* that is still unread is merged with it, and the watch of a single file  *)
(* is on its inode and ends when the file is removed or replaced.          *)
(*                                                                         *)
(* Time is the debounce window only: fresh[f] holds for 500 ms from the    *)
(* moment an event of f was let through.                                   *)
(***************************************************************************)
EXTENDS Naturals, FiniteSets

CONSTANTS
    Files,
    Place,      \* where f is: "dir" under a watched directory, "sub" deeper,
                \* "path" if the rule names f itself
    Action,     \* what its rule does: "purge" or "redact"
    Line,       \* the lines the agent may append
    Kind        \* what they hold: a "secret", a "weak" match, which has no
                \* placeholder, or "text"

ASSUME PlaceAssumption == Place \in [Files -> {"dir", "sub", "path"}]
ASSUME ActionAssumption == Action \in [Files -> {"purge", "redact"}]
ASSUME KindAssumption == Kind \in [Line -> {"secret", "weak", "text"}]

VARIABLES
    raw,        \* the lines in f as they were written
    masked,     \* the lines in f with a placeholder instead of the secret
    written,    \* history: the lines appended to f
    events,     \* the files with an unread event
    watched,    \* the files whose writes are reported
    fresh,      \* the files in their debounce window
    pc,         \* "idle", or the next step of handle
    current,    \* the file being handled
    data,       \* what was read of it, after the scan what it becomes
    raced,      \* history: files written between the read and the rename
    hasty,      \* history: files written in their debounce window
    failed,     \* history: files whose handling has failed
    slow        \* history: files whose window ended before the event of their
                \* own rename was read

history == <<raced, hasty, failed, slow>>
watcherVars == <<raw, masked, written, events, watched, fresh, pc, current, data, history>>

Nothing == [raw |-> {}, masked |-> {}]

\* Run adds the path of each rule to the fsnotify watcher.
WatcherInit ==
    /\ raw = [f \in Files |-> {}]
    /\ masked = [f \in Files |-> {}]
    /\ written = [f \in Files |-> {}]
    /\ events = {}
    /\ watched = {f \in Files : Place[f] # "sub"}
    /\ fresh = {}
    /\ pc = "idle"
    /\ current \in Files
    /\ data = Nothing
    /\ raced = {} /\ hasty = {} /\ failed = {} /\ slow = {}

Notify(f) == IF f \in watched THEN events \cup {f} ELSE events

\* The watch of a single file does not survive the file.
Unwatch(f) == IF Place[f] = "path" THEN watched \ {f} ELSE watched

-----------------------------------------------------------------------------
AgentWrite(f, l) ==
    /\ \A g \in Files : l \notin written[g]
    /\ written' = [written EXCEPT ![f] = @ \cup {l}]
    /\ raw' = [raw EXCEPT ![f] = @ \cup {l}]
    /\ events' = Notify(f)
    /\ raced' = IF pc \in {"scan", "rename"} /\ f = current THEN raced \cup {f} ELSE raced
    /\ hasty' = IF f \in fresh THEN hasty \cup {f} ELSE hasty
    /\ UNCHANGED <<masked, watched, fresh, pc, current, data, failed, slow>>

\* 500 ms have passed.
Expire(f) == /\ f \in fresh
             /\ fresh' = fresh \ {f}
             /\ slow' = IF f \in events \/ (pc # "idle" /\ f = current) THEN slow \cup {f} ELSE slow
             /\ UNCHANGED <<raw, masked, written, events, watched, pc, current, data>>
             /\ UNCHANGED <<raced, hasty, failed>>

\* An event within the window is dropped.
Debounce(f) == /\ pc = "idle"
               /\ f \in events \cap fresh
               /\ events' = events \ {f}
               /\ UNCHANGED <<raw, masked, written, watched, fresh, pc, current, data, history>>

\* shouldDebounce notes the time before handle begins.
\* Mutant: the time is not noted.
OpenedNot(f) == fresh
Opened(f) == fresh \cup {f}

Handle(f) == /\ pc = "idle"
             /\ f \in events \ fresh
             /\ events' = events \ {f}
             /\ fresh' = Opened(f)
             /\ current' = f
             /\ pc' = IF Action[f] = "purge" THEN "remove" ELSE "read"
             /\ UNCHANGED <<raw, masked, written, watched, data, history>>

\* os.Remove
Remove == /\ pc = "remove"
          /\ raw' = [raw EXCEPT ![current] = {}]
          /\ masked' = [masked EXCEPT ![current] = {}]
          /\ watched' = Unwatch(current)
          /\ pc' = "idle"
          /\ UNCHANGED <<written, events, fresh, current, data, history>>

\* redact, step by step.  Mutant: only the end of the file is read.
ContentTail(f) == [raw |-> raw[f], masked |-> {}]
Content(f) == [raw |-> raw[f], masked |-> masked[f]]

ReadFile == /\ pc = "read"
            /\ data' = Content(current)
            /\ pc' = "scan"
            /\ UNCHANGED <<raw, masked, written, events, watched, fresh, current, history>>

Secrets(ls) == {l \in ls : Kind[l] = "secret"}

\* The answer carries matches without a placeholder too.
\* Mutant: the secrets are left in.
RedactedNot(d) == d

Redacted(d) == [raw |-> d.raw \ Secrets(d.raw), masked |-> d.masked \cup Secrets(d.raw)]
HasMatch(d) == \E l \in d.raw : Kind[l] # "text"

ScanFound == /\ pc = "scan"
             /\ HasMatch(data)
             /\ data' = Redacted(data)
             /\ pc' = "rename"
             /\ UNCHANGED <<raw, masked, written, events, watched, fresh, current, history>>

Done == pc' = "idle" /\ data' = Nothing

ScanClean == /\ pc = "scan"
             /\ ~HasMatch(data)
             /\ Done
             /\ UNCHANGED <<raw, masked, written, events, watched, fresh, current, history>>

\* atomicWrite: the new file takes the place of whatever is there by now.
Rename == /\ pc = "rename"
          /\ raw' = [raw EXCEPT ![current] = data.raw]
          /\ masked' = [masked EXCEPT ![current] = data.masked]
          /\ events' = IF Place[current] = "dir" THEN events \cup {current} ELSE events
          /\ watched' = Unwatch(current)
          /\ Done
          /\ UNCHANGED <<written, fresh, current, history>>

\* Each of these steps may fail: the file cannot be read, the daemon does not
\* answer or answers with an error, there is no room for the new file or no right
\* to put it in place, the file cannot be removed.  handle logs it and returns;
\* the file stays as it is, and nothing tries again.
Fails == /\ pc # "idle"
         /\ failed' = failed \cup {current}
         /\ Done
         /\ UNCHANGED <<raw, masked, written, events, watched, fresh, current>>
         /\ UNCHANGED <<raced, hasty, slow>>

Work == ReadFile \/ ScanFound \/ ScanClean \/ Rename \/ Remove
Watch == Work \/ \E f \in Files : Handle(f) \/ Debounce(f)

Write == \E f \in Files, l \in Line : AgentWrite(f, l)
Tick == \E f \in Files : Expire(f)

WatcherNext == Watch \/ Fails \/ Write \/ Tick

\* The goroutine of Run goes on whenever it can, time passes, and events are read
\* in the order in which they came, so that none waits for ever; the agent need
\* not write.
WatcherSpec ==
    /\ WatcherInit /\ [][WatcherNext]_watcherVars
    /\ WF_watcherVars(Watch) /\ WF_watcherVars(Tick)
    /\ \A f \in Files : SF_watcherVars(Handle(f) \/ Debounce(f))

-----------------------------------------------------------------------------
\* "keep, redact" (watcher.go:57,61): what the agent wrote to a file that is
\* to be kept is still there, masked or not, through failed steps and merged or
\* dropped events, unless it was written between the read and the rename.  (Of a
\* file longer than the 64 MiB of readFile, the rest is lost; there is none here.)
Kept ==
    \A f \in Files \ raced : Action[f] = "redact" => written[f] = raw[f] \cup masked[f]

\* "noleak-watch redacts/purges within 1 second" (SPEC.md:258): no secret stays
\* for good in a file that is watched and goes on being watched, unless the file
\* was written within the debounce window or a step of its handling failed.
Cleaned ==
    \A f \in Files :
        f \in watched /\ Secrets(raw[f]) # {} ~>
            Secrets(raw[f]) = {} \/ f \notin watched \/ f \in hasty \cup failed

\* "we don't want to scan/purge a file repeatedly in tight loops"
\* (watcher.go:163-164): the agent can write finitely often, and the watcher
\* comes to rest, unless a match has no placeholder in a file whose handling
\* takes longer than the debounce window.
Settles ==
    \/ <>[](pc = "idle")
    \/ <>(\E f \in slow : \E l \in written[f] : Kind[l] = "weak")
=============================================================================
