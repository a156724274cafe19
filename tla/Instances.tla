----------------------------- MODULE Instances -----------------------------
(***************************************************************************)
(* The runs of the daemon (noleakd, cmd/noleakd/main.go, and `noleak       *)
(* start`, internal/cliroot/start.go, which runs the proxy and the watcher *)
(* beside it) and of `noleak unlock` (internal/cliroot/unlock.go) over one *)
(* data directory, with its three files:                                   *)
(*   salt.bin     from which, and the passphrase, the key is derived       *)
(*                (loadOrCreateSalt, internal/keymgr/keymgr.go)            *)
(*   the vault    encrypted under that key, with the master secret all     *)
(*                placeholders are derived from (OpenFile, load and save   *)
(*                in internal/vault/file.go)                               *)
(*   the socket   (Listen and Serve, internal/ipc/server.go)               *)
(* and the kernel's keyring, into which unlock puts the key for daemons    *)
(* that are configured to look for it there; a logout empties it.          *)
(*                                                                         *)
(* No file is locked, so nothing keeps two runs apart.  A run can crash    *)
(* between any two steps, and the salt file can be unreadable.  The        *)
(* passphrase is always the same one.                                      *)
(*                                                                         *)
(* A random value is the number of the run that drew it.  Of a save there  *)
(* are two steps here, that its callback clears dirty and that it writes;  *)
(* the timer, and saves beside each other, are in module FileVault.        *)
(* Clients only register; their other calls are in module Vault.           *)
(***************************************************************************)
EXTENDS Integers

CONSTANTS Daemon,     \* the processes
          Value,      \* what clients register
          MaxRuns     \* bound: runs in all

ASSUME DaemonAssumption == 0 \notin Daemon

VARIABLES
    salt,       \* None, Short or a random value
    vault,      \* NoFile or [key, master, entries]; no master if it is a
                \* legacy one; an entry is a placeholder, <<master, value>>
    socket,     \* None, or the process whose socket the path leads to
    keyring,    \* None, or the salt of the key that was planted
    pc,
    job,        \* what each process was started as: "daemon" or "unlock"
    runs,       \* how many runs were started
    run,        \* the number of each process's run
    key,        \* the salt each process derived its key from
    memory,     \* its vault [master, entries]
    dirty,      \* with changes that are not saved
    saving,     \* the timer's callback has cleared dirty, and not written yet
    served,     \* it has listened, and may have connections
    handedOut,  \* history: the placeholders clients got
    overlap,    \* history: a run was started beside another one
    unread,     \* history: a salt file that is there could not be read
    cut,        \* history: a run has crashed or a save has failed
    busy,       \* history: a vault was closed while a client registered
                \* something or a callback was saving
    unsaved     \* history: a run has ended before its master secret was saved

\* Once runs have overlapped nothing else is recorded.
chance == <<overlap, unread, cut, busy>>
history == <<chance, unsaved>>
files == <<salt, vault, socket>>
process == <<run, job, key, memory, dirty, saving, served>>
vars == <<files, keyring, pc, runs, process, handedOut, history>>

None == 0
Short == -1     \* a file of fewer than 16 bytes
Old == -2       \* what an earlier version of the program drew
NoFile == [key |-> None, master |-> None, entries |-> {}]
Nothing == [master |-> None, entries |-> {}]

\* The directory is new, or has a legacy vault.
Init == /\ \/ salt = None /\ vault = NoFile
           \/ salt = Old /\ vault \in {[key |-> Old, master |-> None, entries |-> {Old} \X known] :
                                         known \in SUBSET Value}
        /\ socket = None
        /\ keyring = None
        /\ pc = [p \in Daemon |-> "down"]
        /\ job = [p \in Daemon |-> "daemon"]
        /\ runs = 0
        /\ run = [p \in Daemon |-> 0]
        /\ key = [p \in Daemon |-> None]
        /\ memory = [p \in Daemon |-> Nothing]
        /\ dirty = [p \in Daemon |-> FALSE]
        /\ saving = [p \in Daemon |-> FALSE]
        /\ served = [p \in Daemon |-> FALSE]
        /\ handedOut = vault.entries
        /\ overlap = FALSE /\ unread = FALSE /\ cut = FALSE /\ busy = FALSE /\ unsaved = FALSE

\* crypto/rand.
Random(p) == run[p]

Step(p, from, to) == pc[p] = from /\ pc' = [pc EXCEPT ![p] = to]

\* The process is gone, by log.Fatal, a crash or at the end of main.
Gone(p) == /\ pc' = [pc EXCEPT ![p] = "down"]
           /\ job' = [job EXCEPT ![p] = "daemon"]
           /\ run' = [run EXCEPT ![p] = 0]
           /\ key' = [key EXCEPT ![p] = None]
           /\ memory' = [memory EXCEPT ![p] = Nothing]
           /\ dirty' = [dirty EXCEPT ![p] = FALSE]
           /\ saving' = [saving EXCEPT ![p] = FALSE]
           /\ served' = [served EXCEPT ![p] = FALSE]
           /\ unsaved' = (unsaved \/ (~overlap /\ memory[p].master \notin {None, vault.master}))
           /\ UNCHANGED <<vault, runs, handedOut>>

\* master_key_mode says where the daemon looks for its key.
Start(p) ==
    /\ \/ Step(p, "down", "salt") /\ job' \in {[job EXCEPT ![p] = j] : j \in {"daemon", "unlock"}}
       \/ Step(p, "down", "keyring") /\ UNCHANGED job
    /\ runs < MaxRuns
    /\ runs' = runs + 1
    /\ run' = [run EXCEPT ![p] = runs']
    /\ overlap' = (overlap \/ \E q \in Daemon : pc[q] # "down")
    /\ IF overlap'
       THEN handedOut' = {} /\ unread' = FALSE /\ cut' = FALSE /\ busy' = FALSE /\ unsaved' = FALSE
       ELSE UNCHANGED <<handedOut, unread, cut, busy, unsaved>>
    /\ UNCHANGED <<files, keyring, key, memory, dirty, saving, served>>

-----------------------------------------------------------------------------
\* loadOrCreateSalt: the file is read, and made if there is none.
\* Mutant: it is made anew each time.
AbsentAlways == TRUE
Absent == salt = None

Derive(p, from, random) ==
    /\ Step(p, from, IF job[p] = "unlock" THEN "plant" ELSE "open")
    /\ key' = [key EXCEPT ![p] = random]
    /\ UNCHANGED <<keyring, vault, socket, runs, run, job, memory, dirty, saving, served,
                   handedOut, history>>

ReadSalt(p) ==
    /\ ~Absent /\ salt # Short
    /\ Derive(p, "salt", salt)
    /\ UNCHANGED salt

SaltMissing(p) ==
    /\ Step(p, "salt", "create")
    /\ Absent
    /\ UNCHANGED <<files, keyring, runs, process, handedOut, history>>

\* So it is if the file is there and cannot be read, for whatever reason.
SaltUnread(p) ==
    /\ Step(p, "salt", "create")
    /\ salt # None
    /\ unread' = ~overlap
    /\ UNCHANGED <<files, keyring, runs, process, handedOut, overlap, cut, busy, unsaved>>

\* "salt file truncated"
SaltTruncated(p) == pc[p] = "salt" /\ salt = Short /\ Gone(p) /\ UNCHANGED <<files, keyring, chance>>

\* os.WriteFile first empties the file, then writes.
CreateSalt(p) ==
    /\ Step(p, "create", "write")
    /\ salt' = Short
    /\ UNCHANGED <<vault, socket, keyring, runs, process, handedOut, history>>

WriteSalt(p) == salt' = Random(p) /\ Derive(p, "write", Random(p))

\* resolveKernelKeyring.
ReadKeyring(p) ==
    /\ Step(p, "keyring", "open")
    /\ keyring # None
    /\ key' = [key EXCEPT ![p] = keyring]
    /\ UNCHANGED <<files, keyring, runs, run, job, memory, dirty, saving, served, handedOut,
                   history>>

KeyringEmpty(p) ==
    pc[p] = "keyring" /\ keyring = None /\ Gone(p) /\ UNCHANGED <<files, keyring, chance>>

\* PlantInKeyring, and the end of unlock.
Plant(p) ==
    /\ pc[p] = "plant"
    /\ keyring' = key[p]
    /\ Gone(p)
    /\ UNCHANGED <<files, chance>>

-----------------------------------------------------------------------------
\* OpenFile: with no file there yet, a new master secret, still to be saved.
NewVault(p) ==
    /\ Step(p, "open", "listen")
    /\ vault = NoFile
    /\ memory' = [memory EXCEPT ![p] = [master |-> Random(p), entries |-> {}]]
    /\ dirty' = [dirty EXCEPT ![p] = TRUE]
    /\ UNCHANGED <<files, keyring, runs, run, job, key, saving, served, handedOut, history>>

\* The entries stay as they are in a legacy file too, which gets a new master
\* secret for further ones, still to be saved.
\* Mutant: the master secret is never taken from the file.
ContentsRekeyed(p) == [master |-> Random(p), entries |-> vault.entries]
Legacy == vault.master = None
Contents(p) == [master  |-> IF Legacy THEN Random(p) ELSE vault.master,
                entries |-> vault.entries]

Load(p) ==
    /\ Step(p, "open", "listen")
    /\ vault # NoFile
    /\ vault.key = key[p]
    /\ memory' = [memory EXCEPT ![p] = Contents(p)]
    /\ dirty' = [dirty EXCEPT ![p] = Legacy]
    /\ UNCHANGED <<files, keyring, runs, run, job, key, saving, served, handedOut, history>>

\* The file does not decrypt.
LoadFails(p) ==
    /\ pc[p] = "open"
    /\ vault # NoFile
    /\ vault.key # key[p]
    /\ Gone(p)
    /\ UNCHANGED <<files, keyring, chance>>

\* Listen: the path is unlinked, whoever listens there, then bound.
\* Mutant: it is not.
UnlinkedNot == socket
Unlinked == None

RemoveSocket(p) ==
    /\ Step(p, "listen", "bind")
    /\ socket' = Unlinked
    /\ UNCHANGED <<salt, vault, keyring, runs, process, handedOut, history>>

Bind(p) ==
    /\ Step(p, "bind", "serve")
    /\ socket = None
    /\ socket' = p
    /\ served' = [served EXCEPT ![p] = TRUE]
    /\ UNCHANGED <<salt, vault, keyring, runs, run, job, key, memory, dirty, saving, handedOut,
                   history>>

\* Something is at the path again.  noleakd exits at once, `noleak start`
\* closes its vault first.
BindFails(p) ==
    /\ socket # None
    /\ \/ pc[p] = "bind" /\ Gone(p)
       \/ Step(p, "bind", "close") /\ UNCHANGED <<runs, process, handedOut, unsaved>>
    /\ UNCHANGED <<files, keyring, chance>>

-----------------------------------------------------------------------------
\* From the moment Close has been called.
Closing == {"final", "wipe", "failed", "exit"}

\* A value that has a placeholder keeps it.
Entry(p, v) ==
    LET known == {e \in memory[p].entries : e[2] = v}
    IN  IF known = {} THEN <<memory[p].master, v>> ELSE CHOOSE e \in known : TRUE

\* A client registers v, over a connection that can be older than the listener's
\* end or the socket's: handlers go on beside Close, until it has closed the
\* memory vault, and what they change then is not marked dirty.
Register(p, v) ==
    /\ served[p] /\ pc[p] # "exit"
    /\ memory' = [memory EXCEPT ![p].entries = @ \cup {Entry(p, v)}]
    /\ dirty' = [dirty EXCEPT ![p] = @ \/ pc[p] \notin Closing]
    /\ handedOut' = IF overlap THEN {} ELSE handedOut \cup {Entry(p, v)}
    /\ busy' = (busy \/ (~overlap /\ pc[p] \in Closing))
    /\ UNCHANGED <<files, keyring, pc, runs, run, job, key, saving, served, overlap, unread, cut,
                   unsaved>>

Saved(p) == [key |-> key[p], master |-> memory[p].master, entries |-> memory[p].entries]

\* The callback of markDirty's timer clears dirty, maybe after Close has looked
\* at it (the timer had fired already).
SaveBegin(p) ==
    /\ dirty[p] /\ ~saving[p]
    /\ dirty' = [dirty EXCEPT ![p] = FALSE]
    /\ saving' = [saving EXCEPT ![p] = TRUE]
    /\ busy' = (busy \/ (~overlap /\ pc[p] \in Closing))
    /\ UNCHANGED <<files, keyring, pc, runs, run, job, key, memory, served, handedOut, overlap,
                   unread, cut, unsaved>>

SaveWrite(p) ==
    /\ saving[p]
    /\ vault' = Saved(p)
    /\ saving' = [saving EXCEPT ![p] = FALSE]
    /\ UNCHANGED <<salt, socket, keyring, pc, runs, run, job, key, memory, dirty, served, handedOut,
                   history>>

\* Nobody learns of it, and dirty stays cleared.
SaveFails(p) ==
    /\ saving[p]
    /\ saving' = [saving EXCEPT ![p] = FALSE]
    /\ cut' = ~overlap
    /\ UNCHANGED <<files, keyring, pc, runs, run, job, key, memory, dirty, served, handedOut,
                   overlap, unread, busy, unsaved>>

\* SIGTERM: closing the listener unlinks the path (net.UnixListener), whoever
\* listens there by now.
Stop(p) ==
    /\ Step(p, "serve", "stop")
    /\ socket' = None
    /\ UNCHANGED <<salt, vault, keyring, runs, process, handedOut, history>>

\* `noleak start` gives up: the proxy cannot listen, or one of the services has
\* ended with an error.  Nobody closes the listener, and its path stays.
Abort(p) ==
    /\ Step(p, "serve", "abort")
    /\ UNCHANGED <<files, keyring, runs, process, handedOut, history>>

\* Close of the vault.  It saves what is dirty, and then closes the memory vault;
\* a callback that has cleared dirty it does not wait for.
\* Mutant: nothing is saved on the way out.
FirstNeverSaves(p) == "wipe"
First(p) == IF dirty[p] THEN "final" ELSE "wipe"

CloseBegin(p) ==
    /\ \E from \in {"stop", "abort", "close"} : Step(p, from, First(p))
    /\ busy' = (busy \/ (~overlap /\ saving[p]))
    /\ UNCHANGED <<files, keyring, runs, process, handedOut, overlap, unread, cut, unsaved>>

FinalSave(p) ==
    /\ Step(p, "final", "wipe")
    /\ vault' = Saved(p)
    /\ UNCHANGED <<salt, socket, keyring, runs, process, handedOut, history>>

\* Close returns the error, and leaves the memory vault open.
FinalSaveFails(p) ==
    /\ Step(p, "final", "failed")
    /\ cut' = ~overlap
    /\ UNCHANGED <<files, keyring, runs, process, handedOut, overlap, unread, busy, unsaved>>

CloseMemory(p) ==
    /\ Step(p, "wipe", "exit")
    /\ memory' = [memory EXCEPT ![p].entries = {}]
    /\ UNCHANGED <<files, keyring, runs, run, job, key, dirty, saving, served, handedOut, history>>

\* main returns.
Exit(p) == pc[p] \in {"failed", "exit"} /\ Gone(p) /\ UNCHANGED <<files, keyring, chance>>

\* What a run does, but for an unreadable salt or a crash.
Running(p) ==
    \/ ReadSalt(p) \/ SaltMissing(p) \/ SaltTruncated(p) \/ CreateSalt(p) \/ WriteSalt(p)
    \/ ReadKeyring(p) \/ KeyringEmpty(p) \/ Plant(p)
    \/ NewVault(p) \/ Load(p) \/ LoadFails(p)
    \/ RemoveSocket(p) \/ Bind(p) \/ BindFails(p)
    \/ \E v \in Value : Register(p, v)
    \/ SaveBegin(p) \/ SaveWrite(p) \/ SaveFails(p)
    \/ Stop(p) \/ Abort(p)
    \/ CloseBegin(p) \/ FinalSave(p) \/ FinalSaveFails(p) \/ CloseMemory(p) \/ Exit(p)

\* The socket of a process that crashes stays behind.
Crash(p) ==
    /\ pc[p] # "down"
    /\ Gone(p)
    /\ cut' = ~overlap
    /\ UNCHANGED <<files, keyring, overlap, unread, busy>>

\* The key in the keyring dies.
Logout ==
    /\ keyring # None
    /\ keyring' = None
    /\ UNCHANGED <<files, pc, runs, process, handedOut, history>>

Next ==
    \/ \E p \in Daemon : Start(p) \/ Running(p) \/ SaltUnread(p) \/ Crash(p)
    \/ Logout

Spec == Init /\ [][Next]_vars

-----------------------------------------------------------------------------
\* Once the key and the master secret are on disk, and no run has others or is
\* making others, overlapping runs and crashes leave them alone, save where the
\* salt file cannot be read ("subsequent calls reuse it so the same passphrase
\* always derives the same key", keymgr.go:80-81).  It says nothing of first runs
\* that overlap: one of these can still be between looking for the salt and
\* writing its own over another's (keymgr.go:103-113).
Settled ==
    /\ vault.master # None
    /\ salt = vault.key
    /\ keyring \in {None, salt}
    /\ \A p \in Daemon :
          /\ pc[p] \notin {"create", "write"}
          /\ key[p] \in {None, salt}
          /\ memory[p].master \in {None, vault.master}

SettledStays ==
    [][Settled /\ (\A p \in Daemon : ~SaltUnread(p))
            => Settled' /\ vault'.master = vault.master]_vars

\* Between runs that do not overlap, the salt the vault was encrypted under is
\* not lost, wherever they crash, and what unlock has planted, "via the same
\* Argon2 path the passphrase mode uses" (keyring_linux.go:15-17), is the same
\* key: the next run can decrypt the file in either mode.
Openable ==
    ~overlap /\ ~unread /\ vault # NoFile => salt = vault.key /\ keyring \in {None, salt}

\* "Remove any stale socket from a previous run" (server.go:62): of runs that do
\* not overlap, each can bind the path, whatever the last one left there, and
\* is reached over it for as long as it serves.
Reachable ==
    ~overlap => \A p \in Daemon : /\ pc[p] = "bind" => socket = None
                                  /\ pc[p] = "serve" => socket = p

\* The master secret is derived "once on first-run [...] and loaded on
\* subsequent startups.  This ensures deterministic placeholder generation
\* remains stable across restarts" (README.md:305): runs that follow each other
\* hand no value out under two placeholders, even if they crash or their saves
\* fail - unless one of them ends before it has saved the master secret it drew,
\* or closes its vault while it is in use.
SamePlaceholder ==
    ~overlap /\ ~unsaved /\ ~busy => \A g, h \in handedOut : g[2] = h[2] => g = h

\* When the last of the runs has ended, the file has every entry a client was
\* told of, if they did not overlap or crash, their saves succeeded, and none
\* closed its vault while a client registered something or a callback saved.
AllSaved ==
    /\ ~overlap /\ ~cut /\ ~busy
    /\ \A p \in Daemon : pc[p] = "down"
    => handedOut \subseteq vault.entries
=============================================================================
