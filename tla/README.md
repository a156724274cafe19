# A model of ai-noleak

noleak keeps credentials out of the context of coding agents. A daemon holds a
vault of secrets; every secret has a placeholder, and the layers around the
agent (hooks, proxy, paste filter, file watcher) replace the one by the other.
This directory has TLA+ modules for the parts of it that keep state or meet
concurrency, TLC configurations that check them on small instances, and proofs
that TLAPS checks for every value of the constants.

    tlc -workers 2 -config Daemon.cfg MCDaemon      # one run; PROJECT.json lists them all
    tlapm VaultProofs.tla                           # one proof module

`PROJECT.json` names, for every definition that models code, the file and the
lines, and for every property a mutant of the code that breaks it.

## 1. Inventory

| Part | Source | State it keeps | Operations |
|---|---|---|---|
| vault in memory | `internal/vault/vault.go` | `byPH`, `byValue`, `order`, `nextID`, `closed` | Register, Resolve, Bind, Unbind, SetStatus, Rotate, Delete, List, Values, MarkUse, Close |
| vault file | `internal/vault/file.go` | the encrypted file; `dirty`, `closing`, `saveTimer` | OpenFile, load, save, markDirty and its timer's callback, Close |
| daemon | `internal/ipc/server.go`, `cmd/noleakd/main.go` | one detector for all connections | a goroutine per connection: scan, resolve, register, bind, list, delete, rotate, set status |
| detector | `internal/detect` | the exact values and their automaton | SetExactValues, Scan |
| keys and start-up | `internal/keymgr`, `internal/cliroot/start.go`, `unlock.go` | `salt.bin`, the kernel keyring, the vault file, the socket | derive the key or read it from the keyring, open, listen, serve, close |
| pre-tool hook | `internal/hooks/pre.go`, `internal/cliroot/hook.go` | none between calls | substitute placeholders in a Bash command |
| post-tool hook | `internal/hooks/post.go`, `internal/cliroot/hook.go` | none between calls | have a tool's response scanned |
| harvest | `internal/bootstrap/harvest.go`, `internal/cliroot/init.go` | counters, while it runs | walk the roots, scan each file through the daemon |
| paste filter | `internal/wrapper/wrapper.go` | `state`, the buffered paste | process one chunk of terminal input |
| file watcher | `internal/watch/watcher.go` | the debounce times | handle an event: purge or redact a file |
| review screen | `internal/tui/model.go` | list, cursor, offset, prompt | messages and keys |
| proxy | `internal/proxy/proxy.go`, `internal/cliroot/proxy_vault.go` | none between requests | mask and forward a request, mask the way back |
| not modelled | section 7 | | |

How they interact. Hooks, harvest, wrapper, watcher, review screen and proxy are
processes of their own that reach the daemon with one request per connection over
a Unix socket. The daemon's handlers share the vault (one RWMutex, held for one
method at a time) and the detector (another mutex, held for less than a scan). The
vault file is written by a timer's callback that runs beside the handlers. The
agent, the user, the terminal and the network do what they like meanwhile.

What is hard here:

* three containers of the vault are kept in step by hand, and a long sequence of
  calls, a hash collision or a restart can part them;
* between a change and its place on disk lie a second mutex, a timer that may
  fire while it is re-armed, a save outside the mutex, and a Close;
* a scan makes several calls with nothing held in between, and searches an
  automaton that it shares with other scans;
* a command is resolved by several requests, between which the vault changes, and
  what the tool prints is scanned against yet another state of it;
* a harvest walks a disk that changes, beside a daemon that may end and come back;
* input comes in pieces cut anywhere, file events are merged and dropped, answers
  overtake each other, and the daemon may be gone for any one request;
* nothing keeps two daemons apart that use one data directory.

What makes each part correct, in the order of the sections below: the maps agree
and placeholders are stable; no change is lost on its way to the disk; every
byte is copied or masked once; no known secret passes a scan; a value goes only
where it was allowed to, and does not come back; input is neither lost nor let
through; files are cleaned and nothing else is lost from them; the screen shows
the vault and a key acts on what was meant; requests arrive whole and masked;
restarts find what earlier runs left; a harvest that reports no error has found
everything.

## 2. Modules

    Vault
      |-- VaultReload ----- VaultProofs    (+ the file's contents: save, load, crash)
      |-- Daemon ---------- DaemonProofs   (+ scans and all other requests)
      |     ^ implements
      '-- Hooks ----------- ToolCall ------ ToolCallProofs
          (one pre-tool     (+ the tool, the post-tool hook
           hook)             and the daemon's scan)
    WriteBehind <-implements-- FileVault -- FileVaultProofs
    Instances ------------------------------ InstancesProofs
    Redact, PasteFilter, Watcher ----------- TextProofs     (one loop or goroutine each)
    Proxy, Harvest, ReviewTUI -------------- ClientProofs   (clients of the daemon)
    SequenceLemmas  (under VaultProofs and ClientProofs)

The MC modules only give constants their values. Definitions that end in a twist
of a name (`BumpNot`, `MatchHostByEnd`) are mutants: plausible mistakes at that
place, used to test that the properties notice.

**Vault** is `memoryVault`. Every method holds the mutex from first line to last,
so every method is one action with the method's early returns as guards; a call
that returns `ErrClosed` or `ErrNotFound` is a stuttering step. Registering a
value has three outcomes (known, new, and the nil dereference on a dangling
index entry: `panicked`). Kind, source and times of an entry are left out;
`makePlaceholder` is the constant function `PlaceholderOf`, which may collide.

**VaultReload** adds the file as a sequence of records: `Save` writes what is
reached through `order`, `Open` rebuilds maps, order and `nextID` record by
record, `Crash` falls back to whatever was last written. A daemon may find a file of
an earlier version, whose placeholders come from another master secret. The loops
of `save` and `load` are recursive functions with one value per iteration. The
vault is used in every way its operations allow; the history variable `careless`
tells whether a new value has found its placeholder taken (`SlotFree`) or a rotation
has introduced a value another entry has (`ValueFree`).

**FileVault** is the timing of those saves. The contents are a version number. A
mutation and its `markDirty` are two steps, since they take different mutexes;
the callback is five (fire, clear `dirty` and forget the timer, copy, marshal,
rename); Close is up to five. The copy that `save` makes under the lock is shallow:
an `Unbind` before it is marshalled moves the elements of an array it shares, and
what is then written is marked mixed. `loose` counts timers that were re-armed by
`Reset` after they fired and that the callback then forgot. The daemon starts
without a file, with one, or with a legacy one, whose new master secret makes the
vault dirty. Saves fail, and the daemon crashes, at any step; `SlowSaves` says
whether a timer may fire while an earlier callback still saves. **WriteBehind** is
what this promises: a durable copy that follows the memory, possibly skipping
versions and never going back. A copy may be mixed, but none stands for the newest
version of a memory that is not mixed itself.

**Redact** is the loop over sorted matches in `redactInPlace` and `rewrite`, one
iteration a step; ties of the sort come in any order.

**Daemon** adds the scans. `Accept`, `SetExactValues`, `StartMatch`, `Scan`, one
step per match, `RedactInPlace` and `Reply` are the calls of `handleScan`; any
number of scans run at once beside every other request, and `Shutdown` closes
the vault without waiting for them. The Aho-Corasick library marks what it has
found in the automaton itself: a scan that was in Match together with another
one (`racing`) may report any subset of its exact values. A text is the set of
secrets in it.

**Hooks** resolves the placeholders of one command, one request per placeholder
and host, in the order in which they stand there, with every operation of the
vault in between. The daemon answers with Resolve and then MarkUse; both are one
step, since only the use count could tell them apart. `FailOpen` gives the
command back as it was written.

**ToolCall** follows one Bash call from end to end: the pre-tool hook, the tool,
which prints what it likes of the values it got and of patterned secrets, and
the post-tool hook with the steps of `handleScan` (those of Daemon, instantiated
for the hook's connection and any number of others, whose scans set the values of
the same detector and search the same automaton). What JSON writes otherwise
(`Escaped`) the scan does not see. Either hook may fail open.

**Harvest** walks the roots, skips excluded directories and files over the limit,
reads and has each file scanned, counts errors and stops at an interrupt, while
other programs write or remove files and the daemon saves, closes, crashes and
comes back.

**PasteFilter** is `process` on a stream cut anywhere; one iteration of its loop
is an action. Markers and secrets are two symbols long, so that each can be cut.
The input may have secrets outside a paste, which pass; a `PastedSecret` may not.

**Watcher** is the goroutine that takes file events, with the agent that writes
beside it. fsnotify is external: merged events, directories without their
subdirectories, watches that follow the inode. `Fails` is any error of the removal,
the read, the scan or the write: the file stays as it is.

**ReviewTUI** is `Update`: lists and answers come back as messages in any order.

**Proxy** is one request on its way up and its response on the way back, with
encodings, limits and a daemon that may fail at any single hit. A gzip body has a
length on the wire besides its own, and each meets a limit.

**Instances** is several runs of the daemon, of `noleak start` and of `noleak
unlock` over one directory with salt, keyring, vault and socket: reading or
making the salt or reading the keyring, opening the vault (none, the program's own,
or a legacy one), binding (the stale socket is unlinked in a step of its own),
serving, stopping when the proxy or the watcher fails or a signal comes. Handlers go
on from the first connection to the end of Close. The timer's callback and Close
each save in two steps, and each save can fail; Close does not wait for the
callback. A crash or a logout can come at any step, and the salt can be
unreadable.

## 3. What the runs show

| Run | Module | Bounds | Distinct states |
|---|---|---|---|
| VaultReload | MCVaultReload | 3 secrets, two of which hash to one of 3 placeholders; IDs up to 3; no file or a legacy one | 187,809 |
| FileVault | FileVault | 2 handlers, 2 callbacks, 4 mutations, 2 failures | 61,392 |
| Redact | MCRedact | 5 bytes, every set of up to 3 matches | 22,567 |
| Daemon | MCDaemon | 2 scans, 2 secrets (one patterned), 2 registrations | 1,351,445 |
| ToolCall | MCToolCall | 2 secrets, 1 wildcard binding, commands with up to 2 hosts and 3 words, 1 other connection | 1,408,346 |
| PasteFilter | MCPasteFilter | every input of up to 5 parts, every way to cut it | 119,009 |
| Watcher | MCWatcher | 3 files (redact a directory's, redact a single one, purge), 3 lines | 68,491 |
| ReviewTUI | ReviewTUI | 3 entries, windows of 1 or 2 rows, 3 changes by others, 2 lists and 1 command under way | 1,225,166 |
| Proxy | MCProxy | bodies below, at and over each of three limits, 3 encodings | 2,266,250 |
| Instances | MCInstances | 2 processes, 3 runs, 1 value, 1 callback under way in each | 2,205,197 |
| Harvest | MCHarvest | 2 roots, an excluded and a plain directory, 3 files with up to 3 cells, limit 2, 1 write | 255,637 |
| FileVaultOverlap | FileVault | 2 handlers, 2 callbacks, 3 mutations, slow saves | violated |

Daemon, ToolCall and Instances take one to three minutes each, the others less.

*VaultReload.* `EntriesKept`: however the vault is used, every live entry is reached
through `order`, no two have one ID, and the next ID is new. `RoundTrip`: loading what
would be saved gives the same entries; of a vault that was used carefully also the
same index and order. `CoherentIfCareful`: until a careless call, the two maps are
inverse, `order` lists the live entries once each by increasing ID, and no call
dereferences a missing entry. Three placeholders are enough for a removal in the
middle of `order`, and three secrets for a collision, a rotation onto a value that
another entry has, and one to a new value.

*FileVault.* `Covered`: while the file is behind, a save that covers everything is
still to come. `DirtyHasTimer`: no wake-up is lost, also after failures.
`CloseKeepsAcked`: after Close the file has what clients were told of.
`WriteBehind`: refinement. `Persists`: whatever is in memory reaches the file.
All of them also say that mixed bindings are written over again.
Two callbacks are what one timer and one forgotten timer can start.

*Redact.* `Partition`: every byte is copied or masked, never both.
`FirstByteMasked`: of each match with a placeholder, dropped ones included, the
first byte is masked. Three matches give every kind of overlap: nested, chained,
equal starts, adjacent.

*Daemon.* `ActiveMasked`: a value that is active from before a scan until its answer
is replaced in it. `PatternedMasked`: with AutoRegister a secret of a known shape
is replaced whatever else goes on. `TokenNeverMisleads`: the placeholder put in
never resolves to another secret than the one it replaces, whatever is deleted,
registered anew or rotated before it is resolved. Two scans are enough for one to interfere
with the shared detector of another; the text has both secrets.

*ToolCall.* Of the command: `OnlyGranted`, a value stands only for a placeholder
that was bound to a host of the command at some moment of the call;
`BoundSubstituted`, what was bound throughout is substituted; `OneValue`, a rotation
during the call never gives one credential two forms. What a binding means is
defined without the code's comparison of suffixes (`Allows`: a name, or some
suffix of its labels behind a "*"). Of the response: `NothingComesBack`, no active
value and no patterned secret reaches the model; `RoundTrips`, in the place of a
value the command got for a placeholder the model sees that placeholder or the
value, not the placeholder of another secret. Two hosts and a word that occurs in
both parts are what the loops can get wrong, and one other connection is what can
change the detector's values or meet the scan in the automaton.

*PasteFilter.* `Lossless`: what came out, what is buffered and what is left of the
chunk are the input. `PasteMasked`: no pasted secret comes out raw.
`NothingHeld`: nothing stays buffered after the end of a paste. Five parts are
enough for two pastes, or a secret with text around it.

*Watcher.* `Kept`: no line is lost from a file that is to be kept. `Cleaned`: no
secret stays for good. `Settles`: the watcher comes to rest although its own
writes are events.

*ReviewTUI.* `SelectedShown` (the entry the next key acts on exists and is one of the
rows shown), `ActsOnTheMeant` (a prompt acts on the entry it was opened for) and
`ShowsVault` (the screen ends up current).

*Proxy.* `RequestWhole` (the upstream gets the masked request in its encoding, or its
beginning if a limit cuts it) and `ClientReads` (what the client has is a prefix
of the masked answer, and nothing if it is told of a failure), on bodies within and
beyond each limit, compressed well or badly.

*Instances.* `SettledStays`: once salt and master secret are on disk and no run has
or makes others, nothing that overlapping or crashing runs do changes them.
`Openable`, `Reachable`, `SamePlaceholder`, `AllSaved`: what runs that follow each other
may rely on, with crashes, failed saves and a Close beside handlers and callbacks
among their steps. Three runs are one that leaves something behind, one that changes
it, and one that finds the result; one value is enough to be lost or renamed.

*Harvest.* `CleanRunFindsAll`: a harvest that tells of no error and no skipped file has
every secret registered that was all along in a file in its scope. What the scope
is, is defined without the walk. `Ends`: it ends, whatever files and daemon do.
The tree has an excluded directory, a link, a root that is a file, and files too
long to be read whole.

Bounds in guards: `MaxID` (registrations), `MaxUses` (counted uses), `MaxVersion`,
`MaxFail`, `MaxVis`, `MaxChanges`, `MaxLists`, `MaxCommands`, `MaxRuns`, `MaxEdits`.
None of them is a limit of the code. In Instances a process has one callback under way
at most (`~saving`); FileVault has several. Symmetry is used for connections and
for processes, in runs that check safety only.

## 4. Conditions in the properties

Several promises of the repository hold under a condition only. The models have
the cases outside it (unless noted), a history variable records that one has
happened, and the property is stated for the rest.

| Property | Stated for | Because |
|---|---|---|
| CoherentIfCareful; the index and order in RoundTrip | vaults in which no new value has found its placeholder taken and no rotation has introduced a value that another entry has | `Register` overwrites the entry under a colliding placeholder or one rotated away from that value (`vault.go:177`), against "preserved to keep references stable" (`vault.go:74-75`); `Rotate` takes over a value another entry has (`vault.go:278`), against "the same value always lands on the same placeholder" (`vault.go:52-54`). Register v; Rotate(p, w); Register v leaves p in `order` twice, also after a restart; then Delete p removes one of the two and List dereferences the entry that is gone. The run has all these calls. |
| Covered, CloseKeepsAcked, WriteBehind, Persists | saves that do not overlap (`SlowSaves` FALSE), a Close that meets no request or callback; Covered, CloseKeepsAcked and Persists also: no failed save | the callback releases the mutex before it saves, so an older copy can be renamed over a newer one (`file.go:231`); Close does not wait for a callback (`file.go:290`); a failed save is dropped after `dirty` was cleared (`file.go:232`) |
| WriteBehind, CloseKeepsAcked, Persists | bindings that no Unbind has moved while a save was marshalling them, until the next save is over | `save` copies entries that share their arrays (`file.go:165-175`), and `Unbind` compacts in place (`vault.go:238-248`): the file can have bindings that the memory never had, against "writes the blob atomically [...] so a crash mid-write can't corrupt the file" (`file.go:24-26`) |
| ActiveMasked | scans that meet no other scan | an older list of values can be set after a newer one (`server.go:181`), against "keep the AC stage in sync with the vault before scanning" (`server.go:180`), and two scans share the marks in the automaton (`detector.go:98`) |
| PatternedMasked | the vault still open | `main` closes it while handlers run (`noleakd/main.go:81`) and Register's error leaves the match without placeholder |
| TokenNeverMisleads, RoundTrips | placeholders that no rotation has moved to another value; TokenNeverMisleads also: secrets whose hash no other one has | the placeholder of an exact match is derived, not looked up (`server.go:195`), and may by then be that of another value, or of none |
| NothingComesBack | active values: scans that meet no other scan; patterned secrets: an open vault | as ActiveMasked and PatternedMasked |
| NothingComesBack, RoundTrips | post-tool hooks that do not fail open | `hook.go:71-79` answers with an empty envelope and the response stays as it is |
| NothingComesBack | secrets that JSON writes as they are | the hook sends the JSON of the response (`post.go:19-28`); what is escaped there matches no exact value and maybe no pattern. The run has none such (`Escaped = {}`), the theorem any |
| OnlyGranted | a grant to some host of the command | `pre.go:77` replaces the placeholder everywhere in the command as soon as one of its hosts is bound, against "attacker.com gets a meaningless string" (`pre.go:18-19`) |
| BoundSubstituted | pre-tool hooks that do not fail open | likewise, and the command runs as it was written |
| PasteMasked | begin markers in one piece, a daemon that answers | a prefix of a marker at the end of a chunk is forwarded and forgotten (`wrapper.go:197`); without an answer the paste is forwarded raw (`wrapper.go:240`) |
| NothingHeld | end markers in one piece | they are looked for in the present chunk only (`wrapper.go:215`), against `wrapper_test.go:91` |
| Kept | lines not written between read and rename; files of at most 64 MiB (longer ones are not in the model) | `watcher.go:233` renames what was read over what is there; `watcher.go:246` reads no more than that |
| Cleaned | files still watched, writes outside the debounce window, handling in which no step fails | `watcher.go:168` drops the event for good; after an error of the removal, read, scan or write (`watcher.go:193,209,220,233`) nothing tries again; a rename ends the watch of a single file (`watcher.go:124`). Files in subdirectories ("recursive", `watcher.go:42`) are never reported; `Place` "sub" models them and the instance has none |
| Settles | matches with a placeholder, or handling quicker than the window | `watcher.go:226` writes the file back unchanged, which is an event |
| SelectedShown (its upper end) | windows that have not shrunk since the last Down | a resize does not move the offset (`model.go:102`) |
| ActsOnTheMeant | lists that only grow while a prompt is open | the confirmation looks at the cursor again (`model.go:169,194`) |
| RequestWhole (the whole), ClientReads | requests within 16 MiB, and 64 MiB when decoded; responses: a prefix | `LimitReader` cuts silently (`proxy.go:241,293,528`) |
| RequestWhole, ClientReads (that it is masked) | hits that the daemon registered | a hit without a placeholder is skipped (`proxy.go:384`), against "never raw" (`SPEC.md:270`) |
| ClientReads | streams without an encoding | `streamResponse` does not decode, and the header that tells is dropped (`proxy.go:288`) |
| Openable, Reachable | runs that do not overlap; Openable also: a readable salt | nothing is locked; any read error counts as a missing salt (`keymgr.go:103`) |
| SamePlaceholder, AllSaved | runs that do not overlap; a Close that meets no registration and no callback | handlers go on beside it (`noleakd/main.go:81`, `server.go:109`), and a callback may have cleared `dirty` without having written (`file.go:229-232`) |
| SamePlaceholder | no run that ended before its new master secret was saved | the secret is used at once and waits for the first save (`file.go:84`), against "remains stable across restarts" (`README.md:305`) |
| AllSaved | no crash and no failed save | what is not saved is lost, and Close does not try twice (`file.go:232,295-297`) |
| SettledStays | no run that has another salt, or is between looking for one and writing its own; a readable salt | of two first runs each can replace the salt that the other has used already (`keymgr.go:103-113`) |
| CleanRunFindsAll | no interrupt in the last root, a daemon that keeps what it was sent | an interrupt ends the walk without an error (`harvest.go:134`); a daemon that is closed, or crashes before its save, forgets |

One promise is kept as a run in which TLC finds it violated. `FileVaultOverlap`: the
mutex "serializes disk writes" (`file.go:35`), but the callback releases it before it
saves (`file.go:231`), so the file can go back. The trace: the first callback copies the
new, empty vault and is slow; a registration arms the timer again, the second callback
copies and renames what has it; then the first one renames the empty vault over it.

Other differences between words and code, not run here: a callback that copies after
Close has emptied the memory writes an empty vault over the full file (`file.go:232`,
against "releases backing resources", `vault.go:92`); the longest match does not always win, the one
that starts first does (`server.go:221,229`); a wildcard binding matches any number
of leading labels (`vault.go:386,394`); Rotate keeps no copy of the old value
(`vault.go:74,277`); a rejected entry stays and is put in again (`SPEC.md:169`,
`vault.go:252`); the proxy's exact stage is always empty (`proxy_vault.go:101`);
Listen unlinks the socket of a daemon that serves (`server.go:62,64`).

## 5. Fairness

* **FileVault**: weak fairness of a handler's `MarkDirty` (a goroutine that has
  something to do does it), of firing (the runtime runs an expired timer), of the
  callback's steps and of Close's. Firing is fair only because mutations are
  bounded: a daemon that is written to at least every 100 ms re-arms its timer
  for ever. Neither requests, nor failures, crashes, Close or Start are fair.
* **Watcher**: the goroutine goes on whenever it can (weak), time passes (weak),
  and each file's event is taken although others come in between (strong per
  file: the queue is first in, first out, and the model's set forgets the
  order). The agent is not fair and neither is a failure.
* **ReviewTUI**: the refresh timer fires, the daemon answers, and the program takes
  its messages (weak). The user is not fair.
* **Harvest**: the harvest goes on (weak), since a request that gets no answer fails
  after the client's timeout. The daemon need not come back.

The other modules state safety only.

## 6. What is proved

For all values of the constants, from the assumptions named in the modules (types of
the constants; that no value has the form of a placeholder in Hooks; that 0 is no
process in Instances; that the two symbols of a placeholder are no input's in
PasteFilter):

* **VaultProofs.** `TypeCorrect`; `AlwaysListed`: under any calls, collisions and
  rotations included, every live entry is in `order`, so List and save reach it.
  Their invariant is `Listing` (types and `LiveListed`), inductive as it stands.
  The rest is about a vault that is used in every way, saved, closed, killed and
  opened again. `NoEntryLost` (`EntriesKept`) and `ReloadTypes` are by `KeptInv`, which
  needs every ID in use to be at most `nextID`. `ReloadCoherent` (`CoherentIfCareful`) is
  by `CarefulInv`: it has `Coherent` as a whole because its parts need each other: the
  maps stay inverse only if a new placeholder is not in `order`, `order` stays sorted
  only if IDs in use are at most `nextID`, and Delete removes only the first
  occurrence. `SavedIsLoaded` (`RoundTrip`) says, for a vault of any size, that a load
  gives back what a save wrote. `ReloadInv` adds that what is in the file was saved of
  such a vault (`Saved`, and `InFile` as long as it is used carefully: no placeholder
  and no value twice, IDs increasing) and that a closed vault is empty. Both loops are
  followed by what they have after i steps: `DumpedUpTo` and `LoadedUpTo` where
  placeholders may repeat, and the closed forms `Written(i)` and `UpTo(b, i)` where they
  do not; `SameAlong` shows that two functions which agree at 0 and from each index to
  the next agree: were there an index where they do not, the least one is no such.
* **FileVaultProofs.** `OrderlyCovered`, `OrderlyCloseKeepsAcked` and `Implements`
  (the refinement of WriteBehind), for any number of handlers, callbacks,
  mutations and failures, assuming `~SlowSaves`. `OrderlyInv` adds to the types:
  at most one callback is under way, a copy is at least as new as the file it
  will replace (without this the file could go back), and one that has been torn is
  older than the memory, an armed timer means
  `dirty` (without this Close could skip its save), nothing is acknowledged that
  is not in memory, and from Close on only Close acts. `TypeCorrect` and
  `NoLostWakeup` hold for the whole of `Spec`, slow saves and a Close at any moment
  included: `WakeInv` is inductive, since a callback clears `dirty` in the step
  in which it forgets the timer.
* **TextProofs.** Of Redact: `RedactPartition`, `RedactDisjoint` (kept matches do not
  overlap), `RedactFirstByte`, for any length and any set of matches. `LoopInv` adds
  that bytes before `pos` are settled and that the last kept match starts no later
  than anything still to come; the latter is why a dropped match has its first byte
  masked. Of PasteFilter: `NothingLost`, `PastesMasked`, `NothingStays`, for any input
  and any cuts. `FilterInv` says that what is out, what is held back and what is left
  of the chunk lie one behind the other in the input (`Aligned`); that a marker over
  the end of what was read is noted (`CutsNoted`); that outside a paste every begin
  marker so far has its end marker, or a read has cut one (`NormalInv`), so that what
  is forwarded has no pasted secret; that inside one there has been no end marker
  since (`PasteInv`), so that a paste is scanned as a whole; and that pasted secrets
  are masked in what is out. Of Watcher: `WatcherKeeps`, for any files, lines and
  rules. `WatcherInv` adds that what a redaction holds is what is in the file as
  long as nobody has written to it (`Carried`), and that it redacts only files whose
  rule says so (`AtWork`).
* **DaemonProofs.** For any number of scans and requests: `PatternedAlwaysMasked` by
  `MaskInv` (a patterned secret has its match still to be resolved or has a
  placeholder; registering always yields an index entry, by `Listing`);
  `ActiveAlwaysMasked` by `ActiveInv` (an active value is, stage by stage, in the list
  that was read, in the detector, among the matches, among the placeholders, in the
  answer, as long as the scan is alone); `TokensNeverMislead` by `HomeInv` (an entry that
  no rotation has moved is under the placeholder its value hashes to, and what the
  index or an answer has for a value is that placeholder or a moved one).
* **ToolCallProofs.** `NothingUnbound`, `BoundReplaced`, `NeverTwoValues` by `HookInv`:
  the command keeps its shape while values are put in; a placeholder that is done
  with was replaced or was not bound all along, and so for the hosts it was tried
  on. The lemma `MatchIsAllowed` shows that the code's comparison of suffixes is
  what a binding means. `ServesTheDaemon`: every behaviour of ToolCall is one of
  Daemon, with the post-tool hook as one of its scans. So the invariants of
  DaemonProofs carry over by its instance, and with `Link` (the hook waits for the
  scan it asked for) they give `ModelSeesNoValue` and `AgentReadsWhatItWrote`.
* **ClientProofs.** Of Proxy: `WholeRequest`, `ClientReadsAnswer`,
  for bodies of any length, any limits and encodings. `There`: what is sent is the
  redaction of what was read. `Back`: each line that was relayed stands where it
  stood, and the lines left are the rest of the answer. Of Harvest:
  `CleanMeansComplete`, for any tree, roots, limit and writes: as long as nothing has
  failed, the visited nodes are closed under the walk up to the nodes still to be
  visited, and a visited file is in the vault or at hand. Of ReviewTUI:
  `CursorStaysInView` and `PromptActsOnTheMeant` (an action property), for any
  entries, any number of lists under way in any order and windows of any size.
  `ReviewInv` says that cursor and offset are within list and window (`InWindow`) and
  that, lists growing at their ends only, the entry under the cursor of an open prompt
  is the one it was opened for (`PromptMeans`).
* **InstancesProofs.** `SettledForGood`, for overlapping and crashing runs, by `RunInv`
  (what a process has at each stage). For runs that do not overlap: `SocketReachable`
  by `Alone` (one process at a time, on its own socket), `VaultOpenable` by `OneSalt`
  (whatever was encrypted, planted or derived is from the salt in the file, and the
  salt is made anew only while there is nothing of the kind), `OnePlaceholder` by
  `Steady` (the placeholders handed out, those in the file and those in the vault that
  is open are all from one master secret or legacy ones, with no two for one value, and
  the file has every legacy one) and `EveryEntrySaved` by `Orderly` (the process that has
  the vault open has all that was handed out, and when nothing of it is dirty or being
  written the file has it too).
* **SequenceLemmas.** What appending to a sequence and removing its first occurrence
  of an element do, what a prefix says of the elements, and the least number of a
  set of numbers, as the other modules need them.

Where two of the proof modules extend several components, their variables and
actions are still each component's own: a theorem names one specification.
DaemonProofs and ToolCallProofs extend VaultProofs and with it VaultReload, whose file
plays no part in them.

Only model-checked: liveness (`Persists`, `Cleaned`, `Settles`, `ShowsVault`, `Ends`),
which is out of the prover's reach with the ENABLED of its fairness conditions, and
the violation `DiskNeverGoesBack`. Every safety property that a passing run
checks, action properties and the refinements included, is also the statement
of a theorem.

## 7. Not modelled

* The pattern, entropy and context stages are regular expressions and floating point
  over bytes; what they report is the constant `Patterned`, and a body's or file's
  secrets are symbols.
* Encryption, but for its key and its loss (Instances); framing and protocol types
  keep no state between calls, and a call without an answer is a step of every
  client; peer credentials are one system call and a comparison.
* Configuration (decoding and defaults), the other commands of the command line
  (one request each and its output), doctor (it only inspects), the appearance of
  the review screen, scripts.
* In modelled parts: the pseudo-terminal around the paste filter, help and flash
  messages of the review screen, path joining and the request log of the proxy,
  InferBinding and DefaultRoots of the harvest, the passphrase's prompt. The passphrase
  is always the same one.

## 8. Plan

The order was: the vault, since everything stands on it; its file; redaction and
the daemon's scans; the clients; several runs over one directory; the composition of
both hooks with the daemon; the harvest. Runs answer one question per component;
abstract specifications are stated where a component promises something simpler
than what it does. Done is what sections 2 to 6 list. Left: the compositions of
Proxy and of Harvest with the scan of Daemon, as ToolCall composes the post-tool
hook with it, and what the daemon's theorems then say of a request on its way up
and of a file that was scanned.
