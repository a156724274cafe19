----------------------------- MODULE FileVault -----------------------------
(***************************************************************************)
(* How the vault reaches the disk (fileVault, internal/vault/file.go).     *)
(*                                                                         *)
(* Every mutation first changes the memory vault and then, as a second     *)
(* step under another mutex, calls markDirty, which arms (or re-arms) one  *)
(* debounce timer.  When the timer fires, a goroutine of the runtime       *)
(* clears dirty and saveTimer under that mutex, lets it go, and only then  *)
(* saves: it copies the entries under the memory vault's lock, and writes  *)
(* the copy to a temporary file that it renames over the blob.  Nothing    *)
(* keeps two saves, or a save and Close, apart.                            *)
(*                                                                         *)
(* The contents of the vault are abstracted to a version: 0 is the vault   *)
(* it starts with and each mutation makes the next version, which contains *)
(* all earlier ones.  The copies save makes are shallow: their bindings    *)
(* share their arrays with the live entries until they are marshalled,     *)
(* after the lock is released, and an Unbind meanwhile moves the elements  *)
(* of such an array.  What is then written is mixed: a version, but for    *)
(* bindings that are those of no version.                                  *)
(***************************************************************************)
EXTENDS Integers, FiniteSets

CONSTANTS
    Handler,     \* the daemon's connection handlers
    Saver,       \* goroutines running the timer's callback
    SlowSaves,   \* can a timer fire while an earlier callback is still saving?
    MaxVersion,  \* bound: mutations
    MaxFail      \* bound: saves that fail

ASSUME SlowSavesAssumption == SlowSaves \in BOOLEAN
ASSUME BoundAssumption == MaxVersion \in Nat /\ MaxFail \in Nat

NoFile == -1     \* the file is not there yet (os.ErrNotExist)
Version == Nat
DiskVersion == Version \cup {NoFile}

VARIABLES
    up,        \* the daemon is running
    mem,       \* the version in memory
    memMixed,  \* it goes back to a mixed file
    wiped,     \* memoryVault.Close has been called
    dirty, closing,   \* the fields of fileVault
    saveTimer, \* "nil", "armed", or "spent": it has fired or was stopped
    loose,     \* armed timers that saveTimer no longer names
    handler,   \* per handler: the version it made but has not marked dirty, or 0
    saver,     \* per callback: where it is, and the copy it is writing
    closer,    \* where fileVault.Close is
    disk,      \* the version in the file
    fileMixed, \* with mixed bindings
    legacy,    \* the file is one of an earlier version, without a master secret
    acked,     \* the newest version a client has been told about
    fails      \* saves that have failed

memory == <<mem, memMixed>>
file == <<disk, fileMixed, legacy>>
fields == <<dirty, closing, saveTimer, loose>>
vars == <<up, memory, wiped, fields, handler, saver, closer, file, acked, fails>>

Idle == [at |-> "idle", copy |-> 0, mixed |-> FALSE]

\* OpenFile: a file that is there is loaded; without one the vault starts
\* empty.  Without one, or with a legacy one, the vault has a new master
\* secret and is marked dirty.
Unkeyed == disk = NoFile \/ legacy
Loaded == IF disk = NoFile THEN 0 ELSE disk

Opened ==
    /\ up' = TRUE
    /\ mem' = Loaded
    /\ memMixed' = fileMixed
    /\ wiped' = FALSE
    /\ dirty' = Unkeyed
    /\ closing' = FALSE
    /\ saveTimer' = IF Unkeyed THEN "armed" ELSE "nil"
    /\ acked' = Loaded

Init ==
    /\ up = FALSE
    /\ mem = 0 /\ memMixed = FALSE
    /\ wiped = FALSE
    /\ dirty = FALSE
    /\ closing = FALSE
    /\ saveTimer = "nil"
    /\ loose = 0
    /\ handler = [h \in Handler |-> 0]
    /\ saver = [s \in Saver |-> Idle]
    /\ closer = Idle
    /\ disk \in {NoFile, 0}    \* none, or that of an earlier version
    /\ legacy = (disk = 0)
    /\ fileMixed = FALSE
    /\ acked = 0
    /\ fails = 0

Start == /\ ~up
         /\ Opened
         /\ UNCHANGED <<loose, handler, saver, closer, file, fails>>

\* The process is gone, with its timers and goroutines.
Gone == /\ up' = FALSE
        /\ mem' = 0 /\ memMixed' = FALSE
        /\ wiped' = FALSE
        /\ dirty' = FALSE
        /\ closing' = FALSE
        /\ saveTimer' = "nil"
        /\ loose' = 0
        /\ handler' = [h \in Handler |-> 0]
        /\ saver' = [s \in Saver |-> Idle]
        /\ closer' = Idle
        /\ acked' = 0
        /\ UNCHANGED <<file, fails>>

Crash == up /\ Gone

-----------------------------------------------------------------------------
\* The wrapper methods: Register, Bind, Unbind, SetStatus, Rotate, Delete.

\* Mutant: a wrapper that forgets markDirty.
UnmarkedForgotten(h) == handler

Unmarked(h) == [handler EXCEPT ![h] = mem + 1]

Changed(h) ==
    /\ up /\ ~wiped
    /\ handler[h] = 0
    /\ mem < MaxVersion
    /\ mem' = mem + 1
    /\ handler' = Unmarked(h)
    /\ UNCHANGED <<up, memMixed, wiped, fields, file, acked, fails>>

Mutate(h) == Changed(h) /\ UNCHANGED <<saver, closer>>

\* An Unbind, or a Bind after one, that writes into an array which a copy not
\* yet marshalled shares.
TornCopy(c) == IF c.at = "copied" THEN [c EXCEPT !.mixed = TRUE] ELSE c

Unbind(h) ==
    /\ Changed(h)
    /\ saver' = [s \in Saver |-> TornCopy(saver[s])]
    /\ closer' = TornCopy(closer)

\* markDirty; the wrapper then returns and the client gets its answer.  A timer
\* that has already fired is armed once more by Reset.
Rearmed == IF closing THEN saveTimer ELSE "armed"

MarkDirty(h) ==
    /\ handler[h] # 0
    /\ dirty' = (dirty \/ ~closing)
    /\ saveTimer' = Rearmed
    /\ handler' = [handler EXCEPT ![h] = 0]
    /\ acked' = IF handler[h] > acked THEN handler[h] ELSE acked
    /\ UNCHANGED <<up, memory, wiped, closing, loose, saver, closer, file, fails>>

-----------------------------------------------------------------------------
\* The timers and their callback.

MayFire(s) == /\ saver[s].at = "idle"
              /\ SlowSaves \/ \A t \in Saver : saver[t].at = "idle"

Fire(s) ==
    /\ saveTimer = "armed"
    /\ MayFire(s)
    /\ saveTimer' = "spent"
    /\ saver' = [saver EXCEPT ![s].at = "fired"]
    /\ UNCHANGED <<up, memory, wiped, dirty, closing, loose, handler, closer, file, acked, fails>>

FireLoose(s) ==
    /\ loose > 0
    /\ MayFire(s)
    /\ loose' = loose - 1
    /\ saver' = [saver EXCEPT ![s].at = "fired"]
    /\ UNCHANGED <<up, memory, wiped, dirty, closing, saveTimer, handler, closer, file, acked, fails>>

\* Mutant: dirty is left for save to clear.
CleanedLater == dirty

Cleaned == FALSE

\* The callback takes the mutex, clears dirty and forgets the timer - which may
\* by now be armed again - and releases the mutex before it saves.
Forget(s) ==
    /\ saver[s].at = "fired"
    /\ dirty' = Cleaned
    /\ loose' = IF saveTimer = "armed" THEN loose + 1 ELSE loose
    /\ saveTimer' = "nil"
    /\ saver' = [saver EXCEPT ![s].at = "saving"]
    /\ UNCHANGED <<up, memory, wiped, closing, handler, closer, file, acked, fails>>

\* save: the entries as they are in memory, none if the vault has been closed,
\* are copied under the read lock and marshalled after it.
Contents == [at    |-> "copied",
             copy  |-> IF wiped THEN 0 ELSE mem,
             mixed |-> memMixed /\ ~wiped]

Copy(s) ==
    /\ saver[s].at = "saving"
    /\ saver' = [saver EXCEPT ![s] = Contents]
    /\ UNCHANGED <<up, memory, wiped, fields, handler, closer, file, acked, fails>>

Marshal(s) ==
    /\ saver[s].at = "copied"
    /\ saver' = [saver EXCEPT ![s].at = "writing"]
    /\ UNCHANGED <<up, memory, wiped, fields, handler, closer, file, acked, fails>>

Written(c) == /\ disk' = c.copy
              /\ fileMixed' = c.mixed
              /\ legacy' = FALSE

Rename(s) ==
    /\ saver[s].at = "writing"
    /\ Written(saver[s])
    /\ saver' = [saver EXCEPT ![s] = Idle]
    /\ UNCHANGED <<up, memory, wiped, fields, handler, closer, acked, fails>>

\* The temporary file cannot be made, written, chmodded or renamed.  The
\* callback drops the error; dirty is already false.
SaveFails(s) ==
    /\ saver[s].at = "writing"
    /\ fails < MaxFail
    /\ fails' = fails + 1
    /\ saver' = [saver EXCEPT ![s] = Idle]
    /\ UNCHANGED <<up, memory, wiped, fields, handler, closer, file, acked>>

-----------------------------------------------------------------------------
\* fileVault.Close, called by noleakd while handlers and callbacks may still
\* run.  It saves what is dirty by itself, then empties the memory vault.

\* Mutants: Close does not stop the timer; Close relies on the timer's save.
StoppedNever == saveTimer
FirstNeverSaves == "wiping"

Stopped == IF saveTimer = "armed" THEN "spent" ELSE saveTimer
First == IF dirty THEN "saving" ELSE "wiping"

CloseBegin ==
    /\ up /\ closer.at = "idle"
    /\ closing' = TRUE
    /\ saveTimer' = Stopped
    /\ closer' = [closer EXCEPT !.at = First]
    /\ UNCHANGED <<up, memory, wiped, dirty, loose, handler, saver, file, acked, fails>>

CloseCopy ==
    /\ closer.at = "saving"
    /\ closer' = Contents
    /\ UNCHANGED <<up, memory, wiped, fields, handler, saver, file, acked, fails>>

CloseMarshal ==
    /\ closer.at = "copied"
    /\ closer' = [closer EXCEPT !.at = "writing"]
    /\ UNCHANGED <<up, memory, wiped, fields, handler, saver, file, acked, fails>>

CloseRename ==
    /\ closer.at = "writing"
    /\ Written(closer)
    /\ closer' = [Idle EXCEPT !.at = "wiping"]
    /\ UNCHANGED <<up, memory, wiped, fields, handler, saver, acked, fails>>

\* Close returns the error and leaves the memory vault open.
CloseFails ==
    /\ closer.at = "writing"
    /\ fails < MaxFail
    /\ fails' = fails + 1
    /\ closer' = [Idle EXCEPT !.at = "failed"]
    /\ UNCHANGED <<up, memory, wiped, fields, handler, saver, file, acked>>

CloseMemory ==
    /\ closer.at = "wiping"
    /\ wiped' = TRUE
    /\ closer' = [closer EXCEPT !.at = "done"]
    /\ UNCHANGED <<up, memory, fields, handler, saver, file, acked, fails>>

\* noleakd returns from main once Close has returned.
Exit == closer.at \in {"done", "failed"} /\ Gone

-----------------------------------------------------------------------------
Requests == \E h \in Handler : Mutate(h) \/ Unbind(h) \/ MarkDirty(h)
Callbacks == \E s \in Saver : Fire(s) \/ FireLoose(s) \/ Forget(s) \/ Copy(s)
                              \/ Marshal(s) \/ Rename(s) \/ SaveFails(s)
Closing == CloseCopy \/ CloseMarshal \/ CloseRename \/ CloseFails \/ CloseMemory \/ Exit

\* The daemon may be killed, or closed however busy it is.
Next == Start \/ Requests \/ Callbacks \/ CloseBegin \/ Closing \/ Crash

Spec == Init /\ [][Next]_vars

\* The daemon is closed only when nothing is under way, and takes no more
\* requests; its timer may be armed.
Quiet == /\ \A h \in Handler : handler[h] = 0
         /\ \A s \in Saver : saver[s].at = "idle"
         /\ loose = 0

OrderlyNext ==
    \/ Start
    \/ closer.at = "idle" /\ Requests
    \/ Callbacks
    \/ Quiet /\ CloseBegin
    \/ Closing
    \/ Crash

OrderlySpec == Init /\ [][OrderlyNext]_vars

\* The runtime runs an expired timer's callback, and a goroutine that has
\* something to do does it.  Weak fairness of Fire is justified only because
\* mutations are bounded: a daemon that is written to at least every 100 ms
\* re-arms its timer for ever and never saves.
Fairness == /\ \A h \in Handler : WF_vars(MarkDirty(h))
            /\ WF_vars(\E s \in Saver : Fire(s))
            /\ WF_vars(\E s \in Saver : FireLoose(s))
            /\ \A s \in Saver : WF_vars(Forget(s) \/ Copy(s) \/ Marshal(s) \/ Rename(s))
            /\ WF_vars(CloseCopy \/ CloseMarshal \/ CloseRename \/ CloseMemory)

FairOrderlySpec == OrderlySpec /\ Fairness

-----------------------------------------------------------------------------
SaverState == [at : {"idle", "fired", "saving", "copied", "writing"},
               copy : Version, mixed : BOOLEAN]
CloserState == [at : {"idle", "saving", "copied", "writing", "wiping", "failed", "done"},
                copy : Version, mixed : BOOLEAN]

TypeOK ==
    /\ up \in BOOLEAN /\ wiped \in BOOLEAN /\ dirty \in BOOLEAN /\ closing \in BOOLEAN
    /\ mem \in Version /\ memMixed \in BOOLEAN
    /\ saveTimer \in {"nil", "armed", "spent"}
    /\ loose \in Nat
    /\ handler \in [Handler -> Version]
    /\ saver \in [Saver -> SaverState]
    /\ closer \in CloserState
    /\ disk \in DiskVersion /\ fileMixed \in BOOLEAN /\ legacy \in BOOLEAN
    /\ acked \in Version
    /\ fails \in Nat

\* The file is not what the memory holds.
Behind == disk # mem \/ (fileMixed /\ ~memMixed) \/ legacy

\* A save under way that writes what the memory holds.
Complete(c) == /\ c.at \in {"copied", "writing"}
               /\ c.copy = mem
               /\ c.mixed => memMixed

\* Something is on its way that will save the present contents.
SavePending ==
    \/ \E h \in Handler : handler[h] # 0
    \/ saveTimer = "armed" \/ loose > 0
    \/ \E s \in Saver : saver[s].at \in {"fired", "saving"} \/ Complete(saver[s])
    \/ closer.at = "saving" \/ Complete(closer)

\* The debounce never loses a change: while the file is behind the memory, or
\* has mixed bindings, or lacks the master secret, a save that covers all of it
\* is still to come, by a timer, by a callback or by Close.  A save that has
\* failed is not repeated, hence the condition.
Covered == up /\ Behind /\ fails = 0 => SavePending

\* No lost wake-up, failed saves included: a vault that is dirty has a timer
\* running or a callback about to look, unless Close has taken over.
DirtyHasTimer ==
    dirty /\ ~closing =>
        \/ saveTimer = "armed" \/ loose > 0
        \/ \E s \in Saver : saver[s].at = "fired"

\* "Reopen with the same key - entries should reload" (file_test.go:40): when
\* Close has returned, the file has every change a client was told about, and
\* no bindings that are mixed by a save that is over.
CloseKeepsAcked ==
    closer.at = "done" /\ fails = 0 => (acked = 0 \/ disk >= acked) /\ (fileMixed => memMixed)

\* "Every mutation writes the blob atomically" (file.go:24-26): whatever is in
\* memory reaches the file, in the end without bindings mixed on the way,
\* unless the daemon goes down or a save fails first.
Persists ==
    \A n \in 1..MaxVersion :
        up /\ mem = n ~> (disk >= n /\ (fileMixed => memMixed)) \/ ~up \/ fails > 0

\* The mutex "serializes disk writes" (file.go:35): while the vault is open no
\* save puts back what is older than the file.
DiskNeverGoesBack == [][up /\ closer.at = "idle" => disk' >= disk]_disk

-----------------------------------------------------------------------------
\* The vault and its file behave like a variable and a copy that follows it,
\* never goes back, and is what a crash or a Close falls back to: but for the
\* bindings of a save that an Unbind has met.
Abstract == INSTANCE WriteBehind
              WITH mem <- IF up THEN mem ELSE Loaded,
                   memMixed <- IF up THEN memMixed ELSE fileMixed,
                   durable <- disk, durableMixed <- fileMixed
WriteBehind == Abstract!Spec
=============================================================================
