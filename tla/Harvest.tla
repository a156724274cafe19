------------------------------- MODULE Harvest -------------------------------
(***************************************************************************)
(* `noleak init` (runInit, internal/cliroot/init.go): the first harvest of *)
(* the disk (Harvest, internal/bootstrap/harvest.go) through the daemon,   *)
(* while other programs write the files, the user may interrupt it, and    *)
(* the daemon may end, crash and come back.                                *)
(*                                                                         *)
(* The disk is a forest of nodes: directories, regular files, and others   *)
(* (symbolic links, sockets), which are passed over.  A file is a sequence *)
(* of cells, each of them blank or a secret that its shape gives away.     *)
(* WalkDir reads a directory when it comes to it; the order of the walk is *)
(* left open.  What a scan does inside the daemon is the subject of module *)
(* Daemon; here it is one step, which can fail.                            *)
(***************************************************************************)
EXTENDS Naturals, Sequences, FiniteSets

CONSTANTS
    Node,
    Roots,         \* the roots, a sequence of nodes
    Dirs,          \* the nodes that are directories
    Children,      \* what each directory has in it
    Excluded,      \* the directories with a name of DefaultExcludes
    Files,         \* the regular files
    Gone,          \* in place of the cells of a file that was removed
    Secret,
    Contents,      \* what a file may hold: sequences of cells
    MaxFileSize,   \* in cells
    MaxEdits       \* bound: writes of other programs

ASSUME RootsAssumption == Roots \in Seq(Node)
ASSUME NodeAssumption == Dirs \subseteq Node /\ Files \subseteq Node /\ Dirs \cap Files = {}
ASSUME ChildrenAssumption == Children \in [Dirs -> SUBSET Node]
ASSUME ExcludedAssumption == Excluded \subseteq Dirs

VARIABLES
    file,       \* what each file holds
    edits,
    daemon,     \* "up", "down", or "closing": still serving, its vault closed
    registered, \* the secrets in its vault
    saved,      \* those of them that are on disk
    at,         \* "roots", "walk", "read", "scan", "done"
    root,       \* how many roots were begun
    todo,       \* the nodes that are still to be visited
    cur,        \* the file at hand
    data,       \* the secrets that were read from it
    stats,
    cancelled,  \* ctx.Done()
    err,        \* what Harvest returned
    seen,       \* history: the nodes that were visited
    always,     \* history: the secrets each file has had all along
    atRoot,     \* history: the root at which the interrupt came
    forgot      \* history: the daemon has not kept what it was sent

walk == <<at, root, todo, cur, data, stats, err, seen>>
store == <<registered, saved, forgot>>
others == <<file, edits, daemon, cancelled, always, atRoot>>
harvestVars == <<walk, store, others>>

\* What readBounded returns of a file.
Readable(c) == IF c = Gone THEN {}
               ELSE {c[i] : i \in {j \in DOMAIN c : j <= MaxFileSize}} \cap Secret

HarvestInit ==
    /\ file \in [Files -> Contents]
    /\ edits = 0
    /\ daemon = "up"
    /\ registered = {}
    /\ saved = {}
    /\ at = "roots"
    /\ root = 0
    /\ todo = {}
    /\ cur = CHOOSE f \in Files : TRUE
    /\ data = {}
    /\ stats = [skipped |-> 0, errors |-> 0]
    /\ cancelled = FALSE
    /\ err = "none"
    /\ seen = {}
    /\ always = [f \in Files |-> Readable(file[f])]
    /\ atRoot = 0
    /\ forgot = FALSE

Step(from, to) == at = from /\ at' = to
Failed == stats' = [stats EXCEPT !.errors = @ + 1]

-----------------------------------------------------------------------------
\* The loop over the roots.
NextRoot ==
    /\ Step("roots", "walk")
    /\ root < Len(Roots)
    /\ ~cancelled
    /\ root' = root + 1
    /\ todo' = {Roots[root + 1]}
    /\ UNCHANGED <<cur, data, stats, err, seen, store, others>>

Interrupted ==
    /\ Step("roots", "done")
    /\ root < Len(Roots)
    /\ cancelled
    /\ err' = "canceled"
    /\ UNCHANGED <<root, todo, cur, data, stats, seen, store, others>>

Finished ==
    /\ Step("roots", "done")
    /\ root = Len(Roots)
    /\ UNCHANGED <<root, todo, cur, data, stats, err, seen, store, others>>

-----------------------------------------------------------------------------
\* WalkDir.  After SkipAll it returns nil, as it does at its end.
LeaveRoot ==
    /\ Step("walk", "roots")
    /\ todo = {} \/ cancelled
    /\ todo' = {}
    /\ UNCHANGED <<root, cur, data, stats, err, seen, store, others>>

\* The callback.
Visit(n) ==
    /\ at = "walk"
    /\ ~cancelled
    /\ n \in todo
    /\ seen' = seen \cup {n}
    /\ UNCHANGED <<root, data, err, store, others>>

\* SkipDir for an excluded directory, even if it is a root.
EnterDir(d) ==
    /\ Visit(d)
    /\ d \in Dirs
    /\ todo' = (todo \ {d}) \cup (IF d \in Excluded THEN {} ELSE Children[d])
    /\ UNCHANGED <<at, cur, stats>>

\* ReadDir fails: WalkDir calls back once more, with the error.
DirUnreadable(d) ==
    /\ Visit(d)
    /\ d \in Dirs \ Excluded
    /\ Failed
    /\ todo' = todo \ {d}
    /\ UNCHANGED <<at, cur>>

NotRegular(n) ==
    /\ Visit(n)
    /\ n \notin Dirs \cup Files
    /\ todo' = todo \ {n}
    /\ UNCHANGED <<at, cur, stats>>

\* Removed before the directory was read, or since.
Removed(f) ==
    /\ Visit(f)
    /\ f \in Files
    /\ file[f] = Gone
    /\ todo' = todo \ {f}
    /\ Failed \/ UNCHANGED stats
    /\ UNCHANGED <<at, cur>>

Oversize(f) == file[f] # Gone /\ Len(file[f]) > MaxFileSize

Skip(f) ==
    /\ Visit(f)
    /\ f \in Files
    /\ Oversize(f)
    /\ todo' = todo \ {f}
    /\ stats' = [stats EXCEPT !.skipped = @ + 1]
    /\ UNCHANGED <<at, cur>>

Select(f) ==
    /\ Visit(f)
    /\ f \in Files
    /\ file[f] # Gone /\ ~Oversize(f)
    /\ Step("walk", "read")
    /\ todo' = todo \ {f}
    /\ cur' = f
    /\ UNCHANGED stats

\* readBounded: by now the file can be longer than it was.
Read ==
    /\ Step("read", "scan")
    /\ file[cur] # Gone
    /\ data' = Readable(file[cur])
    /\ UNCHANGED <<root, todo, cur, stats, err, seen, store, others>>

ReadFails ==
    /\ Step("read", "walk")
    /\ Failed
    /\ UNCHANGED <<root, todo, cur, data, err, seen, store, others>>

-----------------------------------------------------------------------------
\* scanFile: with AutoRegister every match is registered.
ScanFile ==
    /\ Step("scan", "walk")
    /\ daemon = "up"
    /\ registered' = registered \cup data
    /\ UNCHANGED <<root, todo, cur, data, stats, err, seen, saved, forgot, others>>

\* In a handler that outlives the vault Register fails: the matches come back
\* without placeholders, and without an error.
ScanUnregistered ==
    /\ Step("scan", "walk")
    /\ daemon = "closing"
    /\ forgot' = TRUE
    /\ UNCHANGED <<root, todo, cur, data, stats, err, seen, registered, saved, others>>

\* No answer, whether the daemon got as far as to register or not.
\* Mutants: the error is not counted; the file is tried again.
TalliedNot == at' = "walk" /\ UNCHANGED stats
TalliedAgain == UNCHANGED <<at, stats>>
Tallied == at' = "walk" /\ Failed

ScanFails ==
    /\ at = "scan"
    /\ Tallied
    /\ \/ daemon = "up" /\ registered' = registered \cup data
       \/ UNCHANGED registered
    /\ UNCHANGED <<root, todo, cur, data, err, seen, saved, forgot, others>>

Harvesting ==
    \/ NextRoot \/ Interrupted \/ Finished \/ LeaveRoot
    \/ \E n \in Node : \/ EnterDir(n) \/ DirUnreadable(n) \/ NotRegular(n)
                       \/ Removed(n) \/ Skip(n) \/ Select(n)
    \/ Read \/ ReadFails
    \/ ScanFile \/ ScanUnregistered \/ ScanFails

-----------------------------------------------------------------------------
\* SIGINT or SIGTERM.
Interrupt ==
    /\ at # "done" /\ ~cancelled
    /\ cancelled' = TRUE
    /\ atRoot' = root
    /\ UNCHANGED <<walk, store, file, edits, daemon, always>>

\* Another program writes or removes a file.
Edit ==
    /\ at # "done" /\ edits < MaxEdits
    /\ edits' = edits + 1
    /\ \E f \in Files, c \in Contents \cup {Gone} : file' = [file EXCEPT ![f] = c]
    /\ always' = [f \in Files |-> always[f] \cap Readable(file'[f])]
    /\ UNCHANGED <<walk, store, daemon, cancelled, atRoot>>

\* The debounced save; see module FileVault.
SaveVault ==
    /\ at # "done" /\ daemon = "up"
    /\ saved' = registered
    /\ UNCHANGED <<walk, registered, forgot, others>>

CloseVault ==
    /\ at # "done" /\ daemon = "up"
    /\ daemon' = "closing"
    /\ saved' = registered
    /\ UNCHANGED <<walk, registered, forgot, file, edits, cancelled, always, atRoot>>

\* It has exited, or crashed.
EndDaemon ==
    /\ at # "done" /\ daemon # "down"
    /\ daemon' = "down"
    /\ registered' = saved
    /\ forgot' = (forgot \/ saved # registered)
    /\ UNCHANGED <<walk, saved, file, edits, cancelled, always, atRoot>>

StartDaemon ==
    /\ at # "done" /\ daemon = "down"
    /\ daemon' = "up"
    /\ UNCHANGED <<walk, store, file, edits, cancelled, always, atRoot>>

HarvestNext ==
    \/ Harvesting
    \/ Interrupt \/ Edit
    \/ SaveVault \/ CloseVault \/ EndDaemon \/ StartDaemon

\* Only the harvest itself has to go on.  A request that gets no answer fails
\* after the client's timeout (NewClient, internal/ipc/client.go).
HarvestSpec == HarvestInit /\ [][HarvestNext]_harvestVars /\ WF_harvestVars(Harvesting)

-----------------------------------------------------------------------------
RootNodes == {Roots[i] : i \in 1..Len(Roots)}

\* In every set of nodes that has the roots in it, and with a directory that is
\* not excluded what that directory has in it.
InScope(f) ==
    \A S \in SUBSET Node :
        RootNodes \subseteq S /\ (\A d \in (S \cap Dirs) \ Excluded : Children[d] \subseteq S)
            => f \in S

\* "noleak init: done [...] errors: %d" (init.go:37-42): a harvest that ends
\* without an error, and without skipped files, leaves in the vault every secret
\* that was all along in the part it reads of a file in its scope, whatever else
\* went on.  It does not if it was interrupted in the last root, which it does
\* not tell, or if the daemon lost what it was sent.
CleanRunFindsAll ==
    /\ at = "done" /\ err = "none"
    /\ stats.errors = 0 /\ stats.skipped = 0
    /\ ~(cancelled /\ atRoot = Len(Roots))
    /\ ~forgot
    => \A f \in Files : InScope(f) => always[f] \subseteq registered

\* "per-file errors are logged but don't abort" (harvest.go:99), nor do they
\* hold it up: the harvest ends, whatever the files and the daemon do.
Ends == <>(at = "done")
=============================================================================
