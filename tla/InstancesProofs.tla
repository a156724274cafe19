-------------------------- MODULE InstancesProofs --------------------------
(***************************************************************************)
(* The runs over one data directory, for any number of processes, values   *)
(* and runs.  Four layers of invariants:                                  *)
(*   Phases      what a process has at each stage of its run, of any       *)
(*               number of overlapping and crashing runs;                  *)
(*   Single      what runs that do not overlap leave in the salt file, the *)
(*               vault's key, the keyring and the socket;                  *)
(*   Steady      under which placeholders they have handed values out, if   *)
(*               none ended with its master secret unsaved or closed its   *)
(*               vault in use;                                             *)
(*   Orderly     that what they handed out is saved, if besides none has   *)
(*               crashed and no save has failed.                           *)
(***************************************************************************)
EXTENDS Instances, TLAPS

USE DEF None, Short, Old

Early == {"salt", "create", "write", "keyring"}
Late == {"listen", "bind", "serve", "stop", "abort", "close"} \cup Closing
Placeholder == (Int \ {None}) \X Value
Vault == [key : Int, master : Nat, entries : SUBSET Placeholder]
Memory == [master : Nat, entries : SUBSET Placeholder]

Types ==
    /\ salt \in Int /\ keyring \in Int /\ runs \in Nat
    /\ vault \in Vault
    /\ pc \in [Daemon -> {"down", "open", "plant"} \cup Early \cup Late]
    /\ job \in [Daemon -> {"daemon", "unlock"}]
    /\ run \in [Daemon -> Nat]
    /\ key \in [Daemon -> Int]
    /\ memory \in [Daemon -> Memory]
    /\ dirty \in [Daemon -> BOOLEAN]
    /\ saving \in [Daemon -> BOOLEAN]
    /\ served \in [Daemon -> BOOLEAN]
    /\ handedOut \subseteq Placeholder

Phases ==
    /\ vault # NoFile => vault.key # None
    /\ \A p \in Daemon :
          /\ pc[p] # "down" => run[p] > 0
          /\ pc[p] \in {"open", "plant"} \cup Late <=> key[p] # None
          /\ pc[p] \in Late => memory[p].master # None
          /\ pc[p] \notin Late => memory[p] = Nothing /\ ~dirty[p] /\ ~saving[p] /\ ~served[p]

RunInv == Types /\ Phases

LEMMA InitRun == Init => RunInv
<1> SUFFICES ASSUME Init PROVE RunInv
  OBVIOUS
<1>1. Types
  <2>1. vault \in Vault /\ vault.entries \subseteq Placeholder /\ salt \in Int
    BY DEF Init, Vault, NoFile, Placeholder
  <2>2. Nothing \in Memory
    BY DEF Nothing, Memory
  <2> QED BY <2>1, <2>2 DEF Init, Types
<1>2. Phases
  BY DEF Init, Phases, Early, Late, Closing, NoFile
<1> QED BY <1>1, <1>2 DEF RunInv

\* A process that ends.
LEMMA GoneRun ==
    ASSUME RunInv, NEW p \in Daemon, Gone(p), salt' = salt, keyring' = keyring
    PROVE  RunInv'
<1>1. Types'
  <2>1. Nothing \in Memory
    BY DEF Nothing, Memory
  <2> QED BY <2>1 DEF RunInv, Types, Gone
<1>2. Phases'
  BY DEF RunInv, Types, Phases, Gone, Early, Late, Closing
<1> QED BY <1>1, <1>2 DEF RunInv

LEMMA StartRun == ASSUME RunInv, NEW p \in Daemon, Start(p) PROVE RunInv'
<1>1. job' \in [Daemon -> {"daemon", "unlock"}] /\ runs' \in Nat /\ run' \in [Daemon -> Nat]
  <2>1. job \in [Daemon -> {"daemon", "unlock"}] /\ runs \in Nat /\ run \in [Daemon -> Nat]
    BY DEF RunInv, Types
  <2>2. runs' = runs + 1 /\ run' = [run EXCEPT ![p] = runs']
    BY DEF Start
  <2>3. \/ job' \in {[job EXCEPT ![p] = j] : j \in {"daemon", "unlock"}}
        \/ job' = job
    BY DEF Start
  <2>4. job' \in [Daemon -> {"daemon", "unlock"}]
    BY <2>1, <2>3
  <2>5. runs' \in Nat
    BY <2>1, <2>2
  <2>6. run' \in [Daemon -> Nat]
    BY <2>1, <2>2, <2>5
  <2> QED BY <2>4, <2>5, <2>6
<1>2. pc' \in [Daemon -> {"down", "open", "plant"} \cup Early \cup Late]
  BY DEF RunInv, Types, Start, Step, Early
<1>3. handedOut' \subseteq Placeholder
  BY DEF RunInv, Types, Start
<1>4. Types'
  BY <1>1, <1>2, <1>3 DEF RunInv, Types, Start, files
<1>5. Phases'
  BY DEF RunInv, Types, Phases, Start, Step, files, Early, Late, Closing
<1> QED BY <1>4, <1>5 DEF RunInv

LEMMA SaltRun ==
    ASSUME RunInv, NEW p \in Daemon,
           ReadSalt(p) \/ SaltMissing(p) \/ SaltUnread(p) \/ CreateSalt(p) \/ WriteSalt(p)
    PROVE  RunInv'
<1>1. CASE ReadSalt(p)
  <2>1. Types'
    BY <1>1 DEF RunInv, Types, ReadSalt, Derive, Step, Early, Late, Closing
  <2>2. Phases'
    BY <1>1 DEF RunInv, Types, Phases, ReadSalt, Derive, Step, Early, Late, Closing, Absent
  <2> QED BY <2>1, <2>2 DEF RunInv
<1>2. CASE SaltMissing(p) \/ SaltUnread(p)
  BY <1>2 DEF RunInv, Types, Phases, SaltMissing, SaltUnread, Step, Early, Late, Closing, files, process
<1>3. CASE CreateSalt(p)
  BY <1>3 DEF RunInv, Types, Phases, CreateSalt, Step, Early, Late, Closing, process
<1>4. CASE WriteSalt(p)
  <2>1. Types'
    BY <1>4 DEF RunInv, Types, WriteSalt, Random, Derive, Step, Early, Late, Closing
  <2>2. Phases'
    BY <1>4 DEF RunInv, Types, Phases, WriteSalt, Random, Derive, Step, Early, Late, Closing
  <2> QED BY <2>1, <2>2 DEF RunInv
<1> QED BY <1>1, <1>2, <1>3, <1>4

LEMMA KeyringRun == ASSUME RunInv, NEW p \in Daemon, ReadKeyring(p) \/ Plant(p) PROVE RunInv'
<1>1. CASE ReadKeyring(p)
  <2>1. Types'
    BY <1>1 DEF RunInv, Types, ReadKeyring, Step, Early, Late, Closing, files
  <2>2. Phases'
    BY <1>1 DEF RunInv, Types, Phases, ReadKeyring, Step, Early, Late, Closing, files
  <2> QED BY <2>1, <2>2 DEF RunInv
<1>2. CASE Plant(p)
  <2>1. Types'
    <3>1. Nothing \in Memory
      BY DEF Nothing, Memory
    <3> QED BY <1>2, <3>1 DEF RunInv, Types, Plant, Gone, files
  <2>2. Phases'
    BY <1>2 DEF RunInv, Types, Phases, Plant, Gone, Early, Late, Closing, files
  <2> QED BY <2>1, <2>2 DEF RunInv
<1> QED BY <1>1, <1>2

LEMMA OpenRun == ASSUME RunInv, NEW p \in Daemon, NewVault(p) \/ Load(p) PROVE RunInv'
<1>1. CASE NewVault(p)
  <2>1. [master |-> run[p], entries |-> {}] \in Memory
    BY DEF RunInv, Types, Memory
  <2>2. Types'
    BY <1>1, <2>1 DEF RunInv, Types, NewVault, Random, Step, Early, Late, files
  <2>3. Phases'
    BY <1>1 DEF RunInv, Types, Phases, NewVault, Random, Step, Early, Late, Closing, files
  <2> QED BY <2>2, <2>3 DEF RunInv
<1>2. CASE Load(p)
  <2>1. Contents(p) \in Memory /\ Contents(p).master # None
    <3>1. run[p] \in Nat /\ run[p] > 0
      BY <1>2 DEF RunInv, Types, Phases, Load, Step
    <3>2. vault.master \in Nat /\ vault.entries \in SUBSET Placeholder
      BY DEF RunInv, Types, Vault
    <3>3. Contents(p).entries = vault.entries
      BY DEF Contents
    <3>4. Contents(p).master \in Nat /\ Contents(p).master # None
      BY <3>1, <3>2 DEF Contents, Legacy, Random
    <3> QED BY <3>1, <3>2, <3>4 DEF Contents, Memory, Legacy, Random
  <2>2. Legacy \in BOOLEAN
    BY DEF Legacy
  <2>3. Types'
    BY <1>2, <2>1, <2>2 DEF RunInv, Types, Load, Step, Early, Late, files
  <2>4. Phases'
    BY <1>2, <2>1 DEF RunInv, Types, Phases, Load, Step, Early, Late, Closing, files
  <2> QED BY <2>3, <2>4 DEF RunInv
<1> QED BY <1>1, <1>2

LEMMA SocketRun ==
    ASSUME RunInv, NEW p \in Daemon,
           \/ RemoveSocket(p) \/ Bind(p) \/ Stop(p) \/ Abort(p)
           \/ Step(p, "bind", "close") /\ UNCHANGED <<files, keyring, runs, process, handedOut>>
    PROVE  RunInv'
<1>1. CASE Bind(p)
  BY <1>1 DEF RunInv, Types, Phases, Bind, Step, Early, Late, Closing, files
<1>2. ASSUME NEW from, NEW to, from \in Late, to \in Late, Step(p, from, to),
             UNCHANGED <<salt, vault, keyring, runs, process, handedOut>>
      PROVE  RunInv'
  <2>1. Types'
    BY <1>2 DEF RunInv, Types, Step, process
  <2>2. Phases'
    <3>1. "down" \notin Late
      BY DEF Late, Closing
    <3> QED BY <1>2, <3>1 DEF RunInv, Types, Phases, Step, process
  <2> QED BY <2>1, <2>2 DEF RunInv
<1>3. {"listen", "bind", "serve", "stop", "abort", "close"} \subseteq Late
  BY DEF Late
<1> QED BY <1>1, <1>2, <1>3 DEF RemoveSocket, Stop, Abort, files

\* What a client gets is an entry of the vault, or a new one for its value.
LEMMA EntryFacts ==
    ASSUME RunInv, NEW p \in Daemon, NEW v \in Value, pc[p] \in Late
    PROVE  /\ Entry(p, v) \in Placeholder /\ Entry(p, v)[2] = v
           /\ \/ Entry(p, v) \in memory[p].entries
              \/ /\ Entry(p, v) = <<memory[p].master, v>>
                 /\ \A e \in memory[p].entries : e[2] # v
<1>1. /\ memory[p].entries \subseteq Placeholder
      /\ <<memory[p].master, v>> \in Placeholder
  BY DEF RunInv, Types, Phases, Memory, Placeholder
<1> DEFINE known == {e \in memory[p].entries : e[2] = v}
<1>2. CASE known = {}
  <2>1. Entry(p, v) = <<memory[p].master, v>> /\ \A e \in memory[p].entries : e[2] # v
    BY <1>2 DEF Entry
  <2> QED BY <1>1, <2>1
<1>3. CASE known # {}
  <2>1. Entry(p, v) = CHOOSE e \in known : TRUE
    BY <1>3 DEF Entry
  <2>2. Entry(p, v) \in known
    BY <1>3, <2>1
  <2> QED BY <1>1, <2>2
<1> QED BY <1>2, <1>3

LEMMA RegisterRun ==
    ASSUME RunInv, NEW p \in Daemon, NEW v \in Value, Register(p, v)
    PROVE  RunInv'
<1>1. pc[p] \in Late
  BY DEF RunInv, Phases, Register
<1>2. Entry(p, v) \in Placeholder
  BY <1>1, EntryFacts
<1>3. memory[p].entries \cup {Entry(p, v)} \in SUBSET Placeholder
  BY <1>2 DEF RunInv, Types, Memory
<1>4. memory' \in [Daemon -> Memory] /\ \A q \in Daemon : memory'[q].master = memory[q].master
  BY <1>3 DEF RunInv, Types, Memory, Register
<1>5. handedOut' \subseteq Placeholder
  BY <1>2 DEF RunInv, Types, Register
<1>6. dirty' \in [Daemon -> BOOLEAN]
  BY DEF RunInv, Types, Register
<1>7. Types'
  BY <1>4, <1>5, <1>6 DEF RunInv, Types, Register, files
<1>8. Phases'
  <2>1. \A q \in Daemon \ {p} : memory'[q] = memory[q] /\ dirty'[q] = dirty[q]
    BY DEF RunInv, Types, Register
  <2> QED BY <1>1, <1>4, <2>1 DEF RunInv, Phases, Register, files
<1> QED BY <1>7, <1>8 DEF RunInv

\* What a process writes into the file has a key and a master secret.
LEMMA SavedIsVault ==
    ASSUME RunInv, NEW p \in Daemon, pc[p] \in Late
    PROVE  /\ Saved(p) \in Vault
           /\ Saved(p).key # None /\ Saved(p).master # None
           /\ Saved(p).key = key[p] /\ Saved(p).master = memory[p].master
           /\ Saved(p).entries = memory[p].entries
BY DEF RunInv, Types, Phases, Vault, Memory, Saved, Late

\* The steps of a save, and of Close.
Saves(p) == SaveBegin(p) \/ SaveWrite(p) \/ SaveFails(p)
Closes(p) == CloseBegin(p) \/ FinalSave(p) \/ FinalSaveFails(p) \/ CloseMemory(p)

LEMMA SavesLate ==
    ASSUME RunInv, NEW p \in Daemon, Saves(p) \/ Closes(p)
    PROVE  /\ pc[p] \in Late /\ pc'[p] \in Late
           /\ \A q \in Daemon \ {p} : pc'[q] = pc[q]
           /\ pc' \in [Daemon -> {"down", "open", "plant"} \cup Early \cup Late]
           /\ vault' = vault \/ vault' = Saved(p)
           /\ UNCHANGED <<salt, socket, keyring, runs, run, job, key, served, handedOut>>
<1>1. CASE Saves(p)
  BY <1>1 DEF Saves, SaveBegin, SaveWrite, SaveFails, RunInv, Types, Phases, files
<1>2. CASE Closes(p)
  BY <1>2 DEF Closes, CloseBegin, First, FinalSave, FinalSaveFails, CloseMemory, Step, RunInv,
              Types, Late, Closing, files, process
<1> QED BY <1>1, <1>2

LEMMA SaveRun == ASSUME RunInv, NEW p \in Daemon, Saves(p) \/ Closes(p) PROVE RunInv'
<1>1. vault' \in Vault /\ (vault' # NoFile => vault'.key # None)
  BY SavesLate, SavedIsVault DEF RunInv, Types, Phases
<1>2. /\ dirty' \in [Daemon -> BOOLEAN] /\ saving' \in [Daemon -> BOOLEAN]
      /\ \A q \in Daemon \ {p} : dirty'[q] = dirty[q] /\ saving'[q] = saving[q]
  BY DEF RunInv, Types, Saves, SaveBegin, SaveWrite, SaveFails, Closes, CloseBegin, FinalSave,
         FinalSaveFails, CloseMemory, process
<1>3. /\ memory' \in [Daemon -> Memory] /\ memory'[p].master = memory[p].master
      /\ \A q \in Daemon \ {p} : memory'[q] = memory[q]
  <2>1. CASE CloseMemory(p)
    BY <2>1 DEF RunInv, Types, Memory, CloseMemory
  <2>2. CASE ~CloseMemory(p)
    BY <2>2 DEF RunInv, Types, Saves, SaveBegin, SaveWrite, SaveFails, Closes, CloseBegin,
                FinalSave, FinalSaveFails, process
  <2> QED BY <2>1, <2>2
<1>4. Types'
  BY <1>1, <1>2, <1>3, SavesLate DEF RunInv, Types
<1>5. Phases'
  <2>1. Phases /\ pc[p] # "down"
    BY SavesLate DEF RunInv, Late, Closing
  <2> QED BY <1>1, <1>2, <1>3, <2>1, SavesLate DEF Phases
<1> QED BY <1>4, <1>5 DEF RunInv

LEMMA NextRun == RunInv /\ [Next]_vars => RunInv'
<1> SUFFICES ASSUME RunInv, [Next]_vars
             PROVE  RunInv'
  OBVIOUS
<1>1. CASE UNCHANGED vars
  BY <1>1 DEF RunInv, Types, Phases, vars, files, process
<1>2. CASE Logout
  BY <1>2 DEF RunInv, Types, Phases, Logout, files, process
<1>3. ASSUME NEW p \in Daemon,
             \/ SaltTruncated(p) \/ KeyringEmpty(p) \/ LoadFails(p) \/ BindFails(p)
             \/ Exit(p) \/ Crash(p)
      PROVE  RunInv'
  BY <1>3, GoneRun, SocketRun
     DEF SaltTruncated, KeyringEmpty, LoadFails, BindFails, Exit, Crash, files
<1> QED BY <1>1, <1>2, <1>3, StartRun, SaltRun, KeyringRun, OpenRun, SocketRun, RegisterRun, SaveRun
        DEF Next, Running, Saves, Closes

LEMMA AlwaysRun == Spec => []RunInv
BY InitRun, NextRun, PTL DEF Spec

-----------------------------------------------------------------------------
\* Settled, one action at a time.

Kept == Settled' /\ vault'.master = vault.master

LEMMA SettledSalt ==
    ASSUME RunInv, Settled, NEW p \in Daemon,
           ReadSalt(p) \/ SaltMissing(p) \/ CreateSalt(p) \/ WriteSalt(p) \/ ReadKeyring(p)
    PROVE  Kept
<1>1. ~CreateSalt(p) /\ ~WriteSalt(p)
  BY DEF Settled, CreateSalt, WriteSalt, Derive, Step
<1>2. ~SaltMissing(p)
  BY DEF RunInv, Phases, Settled, SaltMissing, Absent, NoFile
<1>3. CASE ReadSalt(p)
  BY <1>3 DEF RunInv, Types, Settled, Kept, ReadSalt, Derive, Step
<1>4. CASE ReadKeyring(p)
  BY <1>4 DEF RunInv, Types, Settled, Kept, ReadKeyring, Step, files
<1> QED BY <1>1, <1>2, <1>3, <1>4

LEMMA SettledOpen ==
    ASSUME RunInv, Settled, NEW p \in Daemon,
           NewVault(p) \/ Load(p) \/ Start(p) \/ RemoveSocket(p) \/ Bind(p) \/ Stop(p) \/ Abort(p)
    PROVE  Kept
<1>1. ~NewVault(p)
  BY DEF Settled, NewVault, NoFile
<1>2. CASE Load(p)
  BY <1>2 DEF RunInv, Types, Settled, Kept, Load, Contents, Legacy, Step, files
<1>3. CASE Start(p)
  <2>1. pc'[p] \in {"salt", "keyring"} /\ \A q \in Daemon \ {p} : pc'[q] = pc[q]
    BY <1>3 DEF RunInv, Types, Start, Step
  <2> QED BY <1>3, <2>1 DEF Settled, Kept, Start, files
<1>4. CASE RemoveSocket(p) \/ Bind(p) \/ Stop(p) \/ Abort(p)
  BY <1>4 DEF RunInv, Types, Settled, Kept, RemoveSocket, Bind, Stop, Abort, Step, files, process
<1> QED BY <1>1, <1>2, <1>3, <1>4

LEMMA SettledGone ==
    ASSUME RunInv, Settled, NEW p \in Daemon, Gone(p), salt' = salt,
           keyring' \in {keyring, key[p], None}
    PROVE  Kept
BY DEF RunInv, Types, Settled, Kept, Gone, Nothing

\* A save writes the key and the master secret that the file has already.
LEMMA SettledSave ==
    ASSUME RunInv, Settled, NEW p \in Daemon, Saves(p) \/ Closes(p)
    PROVE  Kept
<1>1. vault'.master = vault.master /\ vault'.key = vault.key
  BY SavesLate, SavedIsVault DEF RunInv, Phases, Settled
<1>2. pc'[p] \notin {"create", "write"}
  BY SavesLate DEF Late, Closing
<1>3. \A q \in Daemon : memory'[q].master = memory[q].master
  BY DEF RunInv, Types, Memory, Saves, SaveBegin, SaveWrite, SaveFails, Closes, CloseBegin,
         FinalSave, FinalSaveFails, CloseMemory, process
<1> QED BY <1>1, <1>2, <1>3, SavesLate DEF Settled, Kept

LEMMA SettledRegister ==
    ASSUME RunInv, Settled, NEW p \in Daemon, NEW v \in Value, Register(p, v)
    PROVE  Kept
<1>1. \A q \in Daemon : memory'[q].master = memory[q].master
  BY DEF RunInv, Types, Memory, Register
<1> QED BY <1>1 DEF Settled, Kept, Register, files

\* Once the salt and the master secret are on disk and nobody has others or is
\* making them - first runs that overlap may still be - no step of overlapping,
\* crashing or failing runs changes them, nor plants or uses another key, unless
\* the salt file cannot be read.
THEOREM SettledForGood == Spec => SettledStays
<1>1. ASSUME RunInv, [Next]_vars, Settled, \A p \in Daemon : ~SaltUnread(p)
      PROVE  Kept
  <2>1. CASE UNCHANGED vars
    BY <1>1, <2>1 DEF Settled, Kept, vars, files, process
  <2>2. CASE Logout
    BY <1>1, <2>2 DEF Settled, Kept, Logout, files, process
  <2>3. ASSUME NEW p \in Daemon,
               \/ SaltTruncated(p) \/ KeyringEmpty(p) \/ Plant(p) \/ LoadFails(p) \/ Exit(p)
               \/ Crash(p)
        PROVE  Kept
    BY <1>1, <2>3, SettledGone DEF SaltTruncated, KeyringEmpty, Plant, LoadFails, Exit, Crash, files
  <2>4. ASSUME NEW p \in Daemon, BindFails(p)
        PROVE  Kept
    <3>1. CASE pc[p] = "bind" /\ Gone(p)
      BY <1>1, <2>4, <3>1, SettledGone DEF BindFails, files
    <3>2. CASE Step(p, "bind", "close") /\ UNCHANGED <<runs, process, handedOut>>
      BY <1>1, <2>4, <3>2
         DEF RunInv, Types, BindFails, Step, Settled, Kept, files, process
    <3> QED BY <2>4, <3>1, <3>2 DEF BindFails
  <2> QED BY <1>1, <2>1, <2>2, <2>3, <2>4, SettledSalt, SettledOpen, SettledSave, SettledRegister
          DEF Next, Running, Saves, Closes
<1>2. RunInv /\ [Next]_vars
      => [Settled /\ (\A p \in Daemon : ~SaltUnread(p))
            => Settled' /\ vault'.master = vault.master]_vars
  BY <1>1 DEF Kept
<1> QED BY <1>2, AlwaysRun, PTL DEF Spec, SettledStays

-----------------------------------------------------------------------------
\* Runs that do not overlap.

\* An action of a run in progress touches no other process.
Action(p) == SaltUnread(p) \/ Crash(p) \/ Running(p)

Others(p) == \A q \in Daemon \ {p} : /\ pc'[q] = pc[q]
                                     /\ key'[q] = key[q]
                                     /\ memory'[q] = memory[q]
                                     /\ dirty'[q] = dirty[q]
                                     /\ saving'[q] = saving[q]

LEMMA GoneFrame == ASSUME RunInv, NEW p \in Daemon, Gone(p) PROVE Others(p) /\ pc'[p] = "down"
BY DEF RunInv, Types, Gone, Others

LEMMA Frame ==
    ASSUME RunInv, NEW p \in Daemon, Action(p)
    PROVE  pc[p] # "down" /\ Others(p)
<1>1. CASE SaltUnread(p)
  BY <1>1 DEF RunInv, Types, SaltUnread, Step, process, Others
<1>2. CASE Crash(p)
  BY <1>2, GoneFrame DEF Crash
<1>3. CASE ReadSalt(p) \/ SaltMissing(p) \/ CreateSalt(p) \/ WriteSalt(p) \/ ReadKeyring(p)
  BY <1>3 DEF RunInv, Types, ReadSalt, SaltMissing, CreateSalt, WriteSalt, ReadKeyring, Derive,
              Step, process, Others
<1>4. CASE SaltTruncated(p) \/ KeyringEmpty(p) \/ Plant(p) \/ LoadFails(p) \/ Exit(p)
  BY <1>4, GoneFrame DEF SaltTruncated, KeyringEmpty, Plant, LoadFails, Exit
<1>5. CASE NewVault(p) \/ Load(p) \/ RemoveSocket(p) \/ Bind(p) \/ Stop(p) \/ Abort(p)
  BY <1>5 DEF RunInv, Types, NewVault, Load, RemoveSocket, Bind, Stop, Abort, Step, process, Others
<1>6. CASE BindFails(p)
  BY <1>6, GoneFrame DEF RunInv, Types, BindFails, Step, process, Others
<1>7. ASSUME NEW v \in Value, Register(p, v)
      PROVE  pc[p] # "down" /\ Others(p)
  BY <1>7 DEF RunInv, Types, Phases, Register, Late, Closing, Others
<1>8. CASE Saves(p) \/ Closes(p)
  <2>1. pc[p] # "down" /\ \A q \in Daemon \ {p} : pc'[q] = pc[q] /\ key'[q] = key[q]
    BY <1>8, SavesLate DEF Late, Closing
  <2>2. \A q \in Daemon \ {p} : memory'[q] = memory[q] /\ dirty'[q] = dirty[q]
                                                     /\ saving'[q] = saving[q]
    BY <1>8 DEF RunInv, Types, Saves, SaveBegin, SaveWrite, SaveFails, Closes, CloseBegin,
                FinalSave, FinalSaveFails, CloseMemory, process
  <2> QED BY <2>1, <2>2 DEF Others
<1> QED BY <1>1, <1>2, <1>3, <1>4, <1>5, <1>6, <1>7, <1>8 DEF Action, Running, Saves, Closes

\* With no overlap there is one run at a time, and the path of the socket is
\* its own.
OneRun == \A p, q \in Daemon : pc[p] # "down" /\ pc[q] # "down" => p = q

OwnSocket == \A p \in Daemon : /\ pc[p] = "bind" => socket = None
                               /\ pc[p] = "serve" => socket = p

Alone == ~overlap => OneRun /\ OwnSocket

\* What is recorded stays recorded.
LEMMA Chances ==
    ASSUME NEW p \in Daemon, Action(p)
    PROVE  /\ overlap' = overlap
           /\ SaltUnread(p) \/ unread' = unread
           /\ ~overlap /\ ~cut' => ~cut
           /\ ~busy' => ~busy
           /\ ~unsaved' => ~unsaved
<1>1. CASE SaltUnread(p) \/ Crash(p)
  <2>1. overlap' = overlap /\ busy' = busy /\ (SaltUnread(p) \/ unread' = unread)
    BY <1>1 DEF SaltUnread, Crash
  <2>2. ~overlap /\ ~cut' => cut' = cut
    BY <1>1 DEF SaltUnread, Crash
  <2>3. Gone(p) \/ unsaved' = unsaved
    BY <1>1 DEF SaltUnread, Crash
  <2>4. ~unsaved' => ~unsaved
    BY <2>3 DEF Gone
  <2> QED BY <2>1, <2>2, <2>4
<1>2. CASE \/ ReadSalt(p) \/ SaltMissing(p) \/ CreateSalt(p) \/ WriteSalt(p) \/ ReadKeyring(p)
           \/ NewVault(p) \/ Load(p) \/ RemoveSocket(p) \/ Bind(p) \/ Stop(p) \/ Abort(p)
  <2>1. UNCHANGED <<overlap, unread, cut, busy, unsaved>>
    BY <1>2 DEF ReadSalt, SaltMissing, CreateSalt, WriteSalt, Derive, ReadKeyring, NewVault, Load,
                RemoveSocket, Bind, Stop, Abort, history, chance
  <2> QED BY <2>1
<1>3. CASE \/ SaltTruncated(p) \/ KeyringEmpty(p) \/ Plant(p) \/ LoadFails(p) \/ BindFails(p)
           \/ Exit(p)
  <2>1. UNCHANGED <<overlap, unread, cut, busy>>
    BY <1>3 DEF SaltTruncated, KeyringEmpty, Plant, LoadFails, BindFails, Exit, chance
  <2>2. Gone(p) \/ unsaved' = unsaved
    BY <1>3 DEF SaltTruncated, KeyringEmpty, Plant, LoadFails, BindFails, Exit
  <2>3. ~unsaved' => ~unsaved
    BY <2>2 DEF Gone
  <2> QED BY <2>1, <2>3
<1>4. CASE Saves(p) \/ Closes(p) \/ \E v \in Value : Register(p, v)
  <2>1. UNCHANGED <<overlap, unread, unsaved>>
    BY <1>4 DEF Saves, SaveBegin, SaveWrite, SaveFails, Closes, CloseBegin, FinalSave,
                FinalSaveFails, CloseMemory, Register, history, chance
  <2>2. ~overlap /\ ~cut' => cut' = cut
    BY <1>4 DEF Saves, SaveBegin, SaveWrite, SaveFails, Closes, CloseBegin, FinalSave,
                FinalSaveFails, CloseMemory, Register, history, chance
  <2>3. ~busy' => ~busy
    <3>1. CASE SaveBegin(p) \/ CloseBegin(p) \/ \E v \in Value : Register(p, v)
      BY <3>1 DEF SaveBegin, CloseBegin, Register
    <3>2. CASE SaveWrite(p) \/ SaveFails(p) \/ FinalSave(p) \/ FinalSaveFails(p) \/ CloseMemory(p)
      <4>1. busy' = busy
        BY <3>2 DEF SaveWrite, SaveFails, FinalSave, FinalSaveFails, CloseMemory, history, chance
      <4> QED BY <4>1
    <3> QED BY <1>4, <3>1, <3>2 DEF Saves, Closes
  <2> QED BY <2>1, <2>2, <2>3
<1> QED BY <1>1, <1>2, <1>3, <1>4 DEF Action, Running, Saves, Closes

LEMMA AloneAction ==
    ASSUME RunInv, Alone, NEW p \in Daemon, Action(p), ~overlap'
    PROVE  /\ ~overlap /\ OneRun /\ OwnSocket
           /\ \A q \in Daemon \ {p} : pc[q] = "down" /\ pc'[q] = "down"
<1>1. ~overlap
  BY Chances
<1> QED BY <1>1, Frame DEF Alone, OneRun, Others

LEMMA NextAlone == RunInv /\ Alone /\ [Next]_vars => Alone'
<1> SUFFICES ASSUME RunInv, Alone, [Next]_vars, ~overlap'
             PROVE  OneRun' /\ OwnSocket'
  BY DEF Alone
<1>1. CASE UNCHANGED vars
  BY <1>1 DEF Alone, OneRun, OwnSocket, vars, files, history, chance
<1>2. CASE Logout
  BY <1>2 DEF Alone, OneRun, OwnSocket, Logout, files, history, chance
<1>3. ASSUME NEW p \in Daemon, Start(p)
      PROVE  OneRun' /\ OwnSocket'
  <2>1. \A q \in Daemon : pc[q] = "down"
    BY <1>3 DEF Start
  <2>2. pc'[p] \in {"salt", "keyring"} /\ \A q \in Daemon \ {p} : pc'[q] = "down"
    BY <1>3, <2>1 DEF RunInv, Types, Start, Step
  <2> QED BY <2>2 DEF OneRun, OwnSocket
<1>4. ASSUME NEW p \in Daemon, Action(p)
      PROVE  OneRun' /\ OwnSocket'
  <2>1. /\ ~overlap /\ OneRun /\ OwnSocket
        /\ \A q \in Daemon \ {p} : pc'[q] = "down"
    BY <1>4, AloneAction
  <2>2. /\ pc'[p] = "bind" => socket' = None
        /\ pc'[p] = "serve" => socket' = p
    <3>1. CASE RemoveSocket(p) \/ Bind(p) \/ Stop(p) \/ Abort(p)
      BY <3>1 DEF RunInv, Types, RemoveSocket, Unlinked, Bind, Stop, Abort, Step
    <3>2. CASE SaltUnread(p)
      BY <3>2 DEF RunInv, Types, SaltUnread, Step
    <3>3. CASE ReadSalt(p) \/ SaltMissing(p) \/ CreateSalt(p) \/ WriteSalt(p) \/ ReadKeyring(p)
      BY <3>3 DEF RunInv, Types, ReadSalt, SaltMissing, CreateSalt, WriteSalt, ReadKeyring, Derive,
                  Step
    <3>4. CASE NewVault(p) \/ Load(p)
      BY <3>4 DEF RunInv, Types, NewVault, Load, Step
    <3>5. CASE \/ SaltTruncated(p) \/ KeyringEmpty(p) \/ Plant(p) \/ LoadFails(p)
               \/ Exit(p) \/ Crash(p) \/ BindFails(p)
      BY <3>5, GoneFrame
         DEF RunInv, Types, SaltTruncated, KeyringEmpty, Plant, LoadFails, Exit, Crash, BindFails,
             Step
    <3>6. CASE Saves(p) \/ \E v \in Value : Register(p, v)
      <4>1. pc' = pc /\ socket' = socket
        BY <3>6 DEF Saves, SaveBegin, SaveWrite, SaveFails, Register, files
      <4> QED BY <2>1, <4>1 DEF OwnSocket
    <3>7. CASE Closes(p)
      BY <3>7 DEF RunInv, Types, Closes, CloseBegin, First, FinalSave, FinalSaveFails, CloseMemory,
                  Step
    <3> QED BY <1>4, <3>1, <3>2, <3>3, <3>4, <3>5, <3>6, <3>7 DEF Action, Running, Saves, Closes
  <2> QED BY <2>1, <2>2 DEF OneRun, OwnSocket
<1> QED BY <1>1, <1>2, <1>3, <1>4 DEF Next, Action

LEMMA AlwaysAlone == Spec => [](RunInv /\ Alone)
<1>1. Init => Alone
  BY DEF Init, Alone, OneRun, OwnSocket
<1> QED BY <1>1, NextAlone, AlwaysRun, PTL DEF Spec

\* Of runs that follow each other, in any number and crashed or not, each can
\* bind the socket and is reached over it for as long as it serves.
THEOREM SocketReachable == Spec => []Reachable
<1>1. Alone => Reachable
  BY DEF Alone, OwnSocket, Reachable
<1> QED BY <1>1, AlwaysAlone, PTL

-----------------------------------------------------------------------------
\* The one salt.

\* Whatever was encrypted, planted or derived is from the salt in the file, and
\* the file is made anew only while there is nothing of the kind.
OneSalt ==
    /\ salt \in {None, Short} => /\ vault = NoFile /\ keyring = None
                                 /\ \A p \in Daemon : key[p] = None
    /\ vault # NoFile => vault.key = salt
    /\ keyring \in {None, salt}
    /\ \A p \in Daemon : /\ key[p] \in {None, salt}
                         /\ pc[p] = "create" => salt = None
                         /\ pc[p] = "write" => salt = Short

Single == ~overlap /\ ~unread => OneSalt

LEMMA SaltSingle ==
    ASSUME RunInv, OneRun, OneSalt, NEW p \in Daemon, RunInv', Others(p),
           \A q \in Daemon \ {p} : pc[q] = "down" /\ pc'[q] = "down",
           ReadSalt(p) \/ SaltMissing(p) \/ CreateSalt(p) \/ WriteSalt(p) \/ ReadKeyring(p)
    PROVE  OneSalt'
<1>0. \A q \in Daemon \ {p} : key'[q] = None
  BY DEF RunInv, Phases, Late, Closing
<1>1. CASE ReadSalt(p)
  <2>1. /\ key'[p] = salt /\ salt # None /\ salt # Short
        /\ pc'[p] \notin {"create", "write"} /\ UNCHANGED <<salt, vault, keyring>>
    BY <1>1 DEF RunInv, Types, ReadSalt, Absent, Derive, Step
  <2> QED BY <1>0, <2>1 DEF OneSalt
<1>2. CASE SaltMissing(p)
  <2>1. salt = None /\ pc'[p] = "create" /\ UNCHANGED <<salt, vault, keyring, key>>
    BY <1>2 DEF RunInv, Types, SaltMissing, Absent, Step, files, process
  <2> QED BY <2>1 DEF OneSalt
<1>3. CASE CreateSalt(p)
  <2>1. salt = None /\ salt' = Short /\ pc'[p] = "write" /\ UNCHANGED <<vault, keyring, key>>
    BY <1>3 DEF RunInv, Types, OneSalt, CreateSalt, Step, process
  <2> QED BY <2>1 DEF OneSalt
<1>4. CASE WriteSalt(p)
  <2>1. /\ salt = Short /\ salt' = run[p] /\ key'[p] = run[p] /\ run[p] \in Nat /\ run[p] > 0
        /\ pc'[p] \notin {"create", "write"} /\ UNCHANGED <<vault, keyring>>
    BY <1>4 DEF RunInv, Types, Phases, OneSalt, WriteSalt, Random, Derive, Step
  <2> QED BY <1>0, <2>1 DEF OneSalt
<1>5. CASE ReadKeyring(p)
  <2>1. /\ keyring # None /\ key'[p] = keyring /\ pc'[p] \notin {"create", "write"}
        /\ UNCHANGED <<salt, vault, keyring>>
    BY <1>5 DEF RunInv, Types, ReadKeyring, Step, files
  <2> QED BY <1>0, <2>1 DEF OneSalt
<1> QED BY <1>1, <1>2, <1>3, <1>4, <1>5

\* Steps that leave the salt, and encrypt or plant under the key they have.
LEMMA KeyedSingle ==
    ASSUME RunInv, OneSalt, NEW p \in Daemon, RunInv', Others(p), salt' = salt,
           \A q \in Daemon \ {p} : pc[q] = "down" /\ pc'[q] = "down",
           key'[p] \in {None, key[p]}, pc'[p] \notin {"create", "write"},
           keyring' \in {None, keyring, key[p]},
           \/ vault' = vault
           \/ key[p] # None /\ vault'.key = key[p]
    PROVE  OneSalt'
<1>1. \A q \in Daemon \ {p} : key'[q] = None
  BY DEF RunInv, Phases, Late, Closing
<1>2. salt \in {None, Short} => vault' = NoFile /\ keyring' = None /\ key'[p] = None
  BY DEF OneSalt
<1>3. vault' # NoFile => vault'.key = salt'
  BY DEF OneSalt
<1> QED BY <1>1, <1>2, <1>3 DEF OneSalt

LEMMA NextSingle == RunInv /\ Alone /\ Single /\ [Next]_vars => Single'
<1> SUFFICES ASSUME RunInv, Alone, Single, [Next]_vars, ~overlap', ~unread'
             PROVE  OneSalt'
  BY DEF Single
<1>0. RunInv'
  BY NextRun
<1>1. CASE UNCHANGED vars
  BY <1>1 DEF Single, OneSalt, vars, files, process, history, chance
<1>2. CASE Logout
  BY <1>2 DEF Single, OneSalt, Logout, files, process, history, chance
<1>3. ASSUME NEW p \in Daemon, Start(p)
      PROVE  OneSalt'
  <2>1. OneSalt
    BY <1>3 DEF Single, Start
  <2>2. pc'[p] \in {"salt", "keyring"} /\ \A q \in Daemon \ {p} : pc'[q] = pc[q]
    BY <1>3 DEF RunInv, Types, Start, Step
  <2> QED BY <1>3, <2>1, <2>2 DEF OneSalt, Start, files
<1>4. ASSUME NEW p \in Daemon, Action(p)
      PROVE  OneSalt'
  <2>1. ~unread /\ ~SaltUnread(p)
    <3>1. ~overlap
      BY <1>4, AloneAction
    <3> QED BY <1>4, <3>1, Chances DEF SaltUnread
  <2>2. /\ OneRun /\ OneSalt /\ Others(p)
        /\ \A q \in Daemon \ {p} : pc[q] = "down" /\ pc'[q] = "down"
    BY <1>4, <2>1, AloneAction, Frame DEF Single
  <2>3. CASE ReadSalt(p) \/ SaltMissing(p) \/ CreateSalt(p) \/ WriteSalt(p) \/ ReadKeyring(p)
    BY <1>0, <2>2, <2>3, SaltSingle
  <2>4. CASE \/ SaltTruncated(p) \/ KeyringEmpty(p) \/ LoadFails(p) \/ Exit(p) \/ Crash(p)
             \/ Plant(p)
    <3>1. Gone(p) /\ UNCHANGED <<salt, vault>> /\ keyring' \in {keyring, key[p]}
      BY <2>4 DEF SaltTruncated, KeyringEmpty, LoadFails, Exit, Crash, Plant, Gone, files
    <3> QED BY <1>0, <2>2, <3>1, KeyedSingle DEF RunInv, Types, Gone
  <2>5. CASE \/ NewVault(p) \/ Load(p) \/ RemoveSocket(p) \/ Bind(p) \/ BindFails(p)
             \/ Stop(p) \/ Abort(p)
    <3>1. key'[p] \in {None, key[p]} /\ pc'[p] \notin {"create", "write"}
      BY <2>5 DEF RunInv, Types, NewVault, Load, RemoveSocket, Bind, BindFails, Gone, Stop, Abort,
                  Step, process
    <3>2. UNCHANGED <<salt, vault, keyring>>
      BY <2>5 DEF NewVault, Load, RemoveSocket, Bind, BindFails, Gone, Stop, Abort, files
    <3> QED BY <1>0, <2>2, <3>1, <3>2, KeyedSingle
  <2>6. ASSUME NEW v \in Value, Register(p, v)
        PROVE  OneSalt'
    BY <2>2, <2>6 DEF Register, OneSalt, files
  <2>7. CASE Saves(p) \/ Closes(p)
    <3>1. /\ UNCHANGED <<salt, keyring, key>> /\ pc'[p] \notin {"create", "write"}
          /\ pc[p] \in Late
          /\ vault' = vault \/ vault'.key = key[p]
      BY <2>7, SavesLate, SavedIsVault DEF Late, Closing
    <3>2. key[p] # None
      BY <3>1 DEF RunInv, Phases
    <3> QED BY <1>0, <2>2, <3>1, <3>2, KeyedSingle
  <2> QED BY <1>4, <2>1, <2>3, <2>4, <2>5, <2>6, <2>7 DEF Action, Running, Saves, Closes
<1> QED BY <1>1, <1>2, <1>3, <1>4 DEF Next, Action

LEMMA AlwaysSingle == Spec => []Single
<1>1. Init => Single
  BY DEF Init, Single, OneSalt, NoFile
<1> QED BY <1>1, NextSingle, AlwaysAlone, PTL DEF Spec

\* Runs that follow each other, in any number, crash where they may and either
\* derive the key or take it from the keyring: the file stays encrypted under
\* the salt that is on disk, and no other key is ever planted.
THEOREM VaultOpenable == Spec => []Openable
<1>1. Single => Openable
  BY DEF Single, OneSalt, Openable
<1> QED BY <1>1, AlwaysSingle, PTL

-----------------------------------------------------------------------------
\* The one master secret.

\* A process has a vault once it has opened the file, and its entries until it
\* closes it.
Open(p) == memory[p].master # None
Held(p) == Open(p) /\ pc[p] # "exit"

\* Only one process can have a vault.
Lone(p) == \A q \in Daemon \ {p} : /\ pc[q] = "down" /\ ~Open(q) /\ ~dirty[q] /\ ~saving[q]
                                   /\ pc'[q] = "down" /\ ~Open(q)' /\ ~dirty'[q] /\ ~saving'[q]

LEMMA LoneRun ==
    ASSUME RunInv, RunInv', Alone, NEW p \in Daemon, Action(p), ~overlap'
    PROVE  Lone(p)
<1>1. \A q \in Daemon \ {p} : pc[q] = "down" /\ pc'[q] = "down"
  BY AloneAction
<1>2. \A q \in Daemon \ {p} : ~Open(q) /\ ~dirty[q] /\ ~saving[q]
  BY <1>1 DEF RunInv, Phases, Late, Closing, Open, Nothing
<1>3. \A q \in Daemon \ {p} : ~Open(q)' /\ ~dirty'[q] /\ ~saving'[q]
  BY <1>1 DEF RunInv, Phases, Late, Closing, Open, Nothing
<1> QED BY <1>1, <1>2, <1>3 DEF Lone

\* A vault with this master secret and these entries, of which clients know H:
\* no value has two placeholders, and the legacy ones are among both.
Named(m, E, H) ==
    /\ \A g \in E \cup H : g[1] \in {Old, m}
    /\ \A g, h \in E \cup H : g[2] = h[2] => g = h
    /\ \A g \in E \cup H : g[1] = Old => g \in E /\ g \in H

LEMMA NamedMore ==
    ASSUME NEW m \in Nat, NEW E \in SUBSET Placeholder, NEW H \in SUBSET Placeholder, Named(m, E, H),
           NEW x \in Placeholder,
           x \in E \/ (x = <<m, x[2]>> /\ \A e \in E : e[2] # x[2])
    PROVE  /\ Named(m, E \cup {x}, H \cup {x})
           /\ \A F \in SUBSET E : Named(m, F, H) => Named(m, F, H \cup {x})
<1>1. x[1] \in {Old, m} /\ (x[1] = Old => x \in E /\ x \in H)
  BY DEF Named
<1>2. \A g \in E \cup H : g[2] = x[2] => g = x
  <2> SUFFICES ASSUME NEW g \in E \cup H, g[2] = x[2]
               PROVE  g = x
    OBVIOUS
  <2>1. CASE x \in E
    BY <2>1 DEF Named
  <2>2. CASE x \notin E
    <3>1. g \in H /\ g \notin E
      BY <2>2
    <3>2. g[1] = m
      BY <3>1 DEF Named
    <3> QED BY <2>2, <3>2 DEF Placeholder
  <2> QED BY <2>1, <2>2
<1>3. Named(m, E \cup {x}, H \cup {x})
  BY <1>1, <1>2 DEF Named
<1>4. ASSUME NEW F \in SUBSET E, Named(m, F, H)
      PROVE  Named(m, F, H \cup {x})
  <2>1. x[1] = Old => x \in F
    BY <1>1, <1>4 DEF Named
  <2> QED BY <1>1, <1>2, <1>4, <2>1 DEF Named
<1> QED BY <1>3, <1>4

\* The file may lag behind, but has the master secret once it has any, and no
\* entry that the vault has not.
Agrees(p) == /\ Named(memory[p].master, memory[p].entries, handedOut)
             /\ vault.entries \subseteq memory[p].entries

Steady ==
    /\ \A g, h \in handedOut : g[2] = h[2] => g = h
    /\ \A p \in Daemon : /\ saving[p] => pc[p] \notin Closing
                         /\ Open(p) => vault.master \in {None, memory[p].master}
                         /\ Held(p) => Agrees(p)
    /\ vault.master # None \/ (\A p \in Daemon : ~Open(p))
       => Named(vault.master, vault.entries, handedOut)

Steadied == ~overlap /\ ~unsaved /\ ~busy => Steady

\* Steps that touch neither file nor entries.
LEMMA SteadySame ==
    ASSUME Steady, UNCHANGED <<vault, memory, handedOut>>,
           \A p \in Daemon : /\ saving'[p] => pc'[p] \notin Closing
                             /\ pc[p] = "exit" => pc'[p] = "exit"
    PROVE  Steady'
<1>1. vault' = vault /\ memory' = memory /\ handedOut' = handedOut
  OBVIOUS
<1>2. ASSUME NEW q \in Daemon
      PROVE  /\ Open(q)' => vault'.master \in {None, memory'[q].master}
             /\ Held(q)' => Agrees(q)'
  <2>1. Open(q)' => Open(q)
    BY <1>1 DEF Open
  <2>2. Held(q)' => Held(q)
    BY <2>1 DEF Held
  <2>3. Agrees(q) => Agrees(q)'
    BY <1>1 DEF Agrees
  <2> QED BY <1>1, <2>1, <2>2, <2>3 DEF Steady
<1>3. vault'.master # None \/ (\A q \in Daemon : ~Open(q)')
      => Named(vault.master, vault.entries, handedOut)
  BY <1>1 DEF Steady, Open
<1> QED BY <1>1, <1>2, <1>3 DEF Steady

\* Those of a process that is neither closing nor gone on to it.
LEMMA SteadyEarly ==
    ASSUME RunInv, Steady, NEW p \in Daemon, Lone(p), UNCHANGED <<vault, memory, handedOut, saving>>,
           pc[p] \notin Closing, pc'[p] \notin Closing
    PROVE  Steady'
<1>1. \A q \in Daemon : /\ saving'[q] => pc'[q] \notin Closing
                        /\ pc[q] = "exit" => pc'[q] = "exit"
  BY DEF Lone, Closing
<1> QED BY <1>1, SteadySame

\* A run ends.
LEMMA SteadyGone ==
    ASSUME RunInv, Steady, NEW p \in Daemon, Lone(p), Gone(p), ~overlap, ~unsaved'
    PROVE  Steady'
<1>1. ~Open(p)' /\ ~saving'[p] /\ UNCHANGED <<vault, handedOut>>
  BY DEF RunInv, Types, Gone, Open, Nothing
<1>2. vault.master # None \/ (\A q \in Daemon : ~Open(q))
  BY DEF Gone, Open, Lone
<1> QED BY <1>1, <1>2 DEF Steady, Lone, Held

LEMMA SteadyOpen ==
    ASSUME RunInv, Steady, NEW p \in Daemon, Lone(p), NewVault(p) \/ Load(p)
    PROVE  Steady'
<1>1. ~Open(p) /\ ~saving[p] /\ run[p] \in Nat
  BY DEF RunInv, Types, Phases, NewVault, Load, Step, Late, Closing, Open, Nothing
<1>2. Named(vault.master, vault.entries, handedOut)
  BY <1>1 DEF Steady, Lone
<1>3. /\ UNCHANGED <<vault, handedOut, saving>>
      /\ memory'[p].entries = vault.entries
      /\ vault.master \in {None, memory'[p].master}
  <2>1. CASE NewVault(p)
    BY <2>1 DEF RunInv, Types, NewVault, NoFile, files
  <2>2. CASE Load(p)
    BY <2>2 DEF RunInv, Types, Load, Contents, Legacy, files
  <2> QED BY <2>1, <2>2
<1>4. vault.entries \subseteq Placeholder /\ handedOut \subseteq Placeholder
  BY DEF RunInv, Types, Vault
<1>5. Named(memory'[p].master, vault.entries, handedOut)
  <2>1. CASE vault.master = None
    <3>1. \A g \in vault.entries \cup handedOut : g[1] = Old
      BY <1>2, <1>4, <2>1 DEF Named, Placeholder
    <3> QED BY <1>2, <3>1 DEF Named
  <2>2. CASE vault.master # None
    BY <1>2, <1>3, <2>2
  <2> QED BY <2>1, <2>2
<1> QED BY <1>1, <1>2, <1>3, <1>5 DEF Steady, Lone, Held, Agrees

LEMMA SteadyRegister ==
    ASSUME RunInv, Steady, NEW p \in Daemon, Lone(p), NEW v \in Value, Register(p, v), ~overlap
    PROVE  Steady'
<1> DEFINE x == Entry(p, v)
<1>1. pc[p] \in Late
  BY DEF RunInv, Phases, Register
<1>2. Held(p)
  BY <1>1 DEF RunInv, Phases, Register, Open, Held
<1>3. /\ x \in Placeholder
      /\ x \in memory[p].entries
         \/ (x = <<memory[p].master, x[2]>> /\ \A e \in memory[p].entries : e[2] # x[2])
  BY <1>1, EntryFacts
<1>4. /\ memory[p].master \in Nat /\ memory[p].entries \in SUBSET Placeholder
      /\ handedOut \in SUBSET Placeholder
  BY DEF RunInv, Types, Memory
<1>5. Agrees(p) /\ vault.master \in {None, memory[p].master}
  BY <1>2 DEF Steady, Held
<1>6. /\ memory'[p].master = memory[p].master /\ memory'[p].entries = memory[p].entries \cup {x}
      /\ handedOut' = handedOut \cup {x} /\ UNCHANGED <<vault, saving, pc>>
  BY DEF RunInv, Types, Register, files
<1> HIDE DEF x
<1>7. /\ Named(memory[p].master, memory[p].entries \cup {x}, handedOut \cup {x})
      /\ \A F \in SUBSET memory[p].entries :
            Named(memory[p].master, F, handedOut) => Named(memory[p].master, F, handedOut \cup {x})
  BY <1>3, <1>4, <1>5, NamedMore DEF Agrees
<1>8. vault.master # None => Named(vault.master, vault.entries, handedOut')
  BY <1>5, <1>6, <1>7 DEF Steady, Agrees
<1>9. \A g, h \in handedOut' : g[2] = h[2] => g = h
  BY <1>6, <1>7 DEF Named
<1>10. Agrees(p)' /\ Open(p)' /\ vault'.master \in {None, memory'[p].master}
  BY <1>2, <1>5, <1>6, <1>7 DEF Agrees, Held, Open
<1> QED BY <1>6, <1>8, <1>9, <1>10 DEF Steady, Lone, Held

\* The file gets what the process has.
LEMMA SteadySave ==
    ASSUME RunInv, Steady, NEW p \in Daemon, Lone(p), SaveWrite(p) \/ FinalSave(p)
    PROVE  Steady'
<1>1. pc[p] \in Late /\ vault' = Saved(p)
  BY SavesLate DEF Saves, Closes, SaveWrite, FinalSave
<1>2. pc[p] # "exit" /\ (saving'[p] => pc'[p] \notin Closing)
  BY DEF RunInv, Types, Steady, SaveWrite, FinalSave, Step, Closing, process
<1>3. Held(p) /\ UNCHANGED <<memory, handedOut>>
  BY <1>1, <1>2 DEF RunInv, Phases, Held, Open, SaveWrite, FinalSave, process
<1>4. Agrees(p)
  BY <1>3 DEF Steady
<1>5. vault'.master = memory[p].master /\ vault'.entries = memory[p].entries
  BY <1>1, SavedIsVault
<1> QED BY <1>2, <1>3, <1>4, <1>5 DEF Steady, Lone, Held, Open, Agrees

LEMMA SteadyClose ==
    ASSUME RunInv, Steady, NEW p \in Daemon, Lone(p), Saves(p) \/ Closes(p), ~overlap, ~busy'
    PROVE  Steady'
<1>1. CASE SaveWrite(p) \/ FinalSave(p)
  BY <1>1, SteadySave
<1>2. CASE CloseMemory(p)
  <2>1. /\ pc[p] = "wipe" /\ pc'[p] = "exit" /\ memory'[p].master = memory[p].master
        /\ UNCHANGED <<vault, handedOut, saving>>
    BY <1>2 DEF RunInv, Types, Memory, CloseMemory, Step, files
  <2>2. ~saving[p]
    BY <2>1 DEF Steady, Closing
  <2> QED BY <2>1, <2>2 DEF Steady, Lone, Held, Open
<1>3. CASE SaveBegin(p) \/ SaveFails(p) \/ CloseBegin(p) \/ FinalSaveFails(p)
  <2>1. UNCHANGED <<vault, memory, handedOut>>
    BY <1>3 DEF SaveBegin, SaveFails, CloseBegin, FinalSaveFails, files, process
  <2>2. /\ saving'[p] => pc'[p] \notin Closing
        /\ pc[p] = "exit" => pc'[p] = "exit"
    BY <1>3 DEF RunInv, Types, Steady, SaveBegin, SaveFails, CloseBegin, FinalSaveFails, Step,
                Closing, process
  <2> QED BY <2>1, <2>2, SteadySame DEF Lone
<1> QED BY <1>1, <1>2, <1>3 DEF Saves, Closes

LEMMA NextSteadied == RunInv /\ Alone /\ Steadied /\ [Next]_vars => Steadied'
<1> SUFFICES ASSUME RunInv, Alone, Steadied, [Next]_vars, ~overlap', ~unsaved', ~busy'
             PROVE  Steady'
  BY DEF Steadied
<1>0. RunInv'
  BY NextRun
<1>1. CASE UNCHANGED vars
  BY <1>1, SteadySame DEF Steadied, Steady, vars, files, process, history, chance
<1>2. CASE Logout
  BY <1>2, SteadySame DEF Steadied, Steady, Logout, files, process, history, chance
<1>3. ASSUME NEW p \in Daemon, Start(p)
      PROVE  Steady'
  <2>1. Steady /\ UNCHANGED <<vault, memory, handedOut, saving>>
    BY <1>3 DEF Steadied, Start, files
  <2>2. pc[p] = "down" /\ pc'[p] \in {"salt", "keyring"} /\ \A q \in Daemon \ {p} : pc'[q] = pc[q]
    BY <1>3 DEF RunInv, Types, Start, Step
  <2>3. \A q \in Daemon : /\ saving'[q] => pc'[q] \notin Closing
                          /\ pc[q] = "exit" => pc'[q] = "exit"
    BY <2>1, <2>2 DEF Steady, Closing
  <2> QED BY <2>1, <2>3, SteadySame
<1>4. ASSUME NEW p \in Daemon, Action(p)
      PROVE  Steady'
  <2>1. Steady /\ ~overlap
    BY <1>4, AloneAction, Chances DEF Steadied
  <2>2. Lone(p)
    BY <1>0, <1>4, LoneRun
  <2>3. CASE \/ SaltUnread(p) \/ ReadSalt(p) \/ SaltMissing(p) \/ CreateSalt(p) \/ WriteSalt(p)
             \/ ReadKeyring(p) \/ RemoveSocket(p) \/ Bind(p) \/ Stop(p) \/ Abort(p)
    <3>1. UNCHANGED <<vault, memory, handedOut, saving>>
      BY <2>3 DEF SaltUnread, ReadSalt, SaltMissing, CreateSalt, WriteSalt, Derive, ReadKeyring,
                  RemoveSocket, Bind, Stop, Abort, files, process
    <3>2. pc[p] \notin Closing /\ pc'[p] \notin Closing
      BY <2>3 DEF RunInv, Types, SaltUnread, ReadSalt, SaltMissing, CreateSalt, WriteSalt, Derive,
                  ReadKeyring, RemoveSocket, Bind, Stop, Abort, Step, Closing
    <3> QED BY <2>1, <2>2, <3>1, <3>2, SteadyEarly
  <2>4. CASE \/ SaltTruncated(p) \/ KeyringEmpty(p) \/ LoadFails(p) \/ Plant(p) \/ Exit(p)
             \/ Crash(p)
    <3>1. Gone(p)
      BY <2>4 DEF SaltTruncated, KeyringEmpty, LoadFails, Plant, Exit, Crash
    <3> QED BY <2>1, <2>2, <3>1, SteadyGone
  <2>5. ~BindFails(p)
    BY <1>4, AloneAction DEF BindFails, Step, OwnSocket
  <2> QED BY <1>4, <2>1, <2>2, <2>3, <2>4, <2>5, SteadyOpen, SteadyRegister, SteadyClose
          DEF Action, Running, Saves, Closes
<1> QED BY <1>1, <1>2, <1>3, <1>4 DEF Next, Action

\* Of runs that follow each other, in any number, crash where they may and fail
\* to save, none hands a value out under another placeholder than the others
\* did, provided that none ended before the master secret it had drawn was
\* saved and none closed its vault in use.
THEOREM OnePlaceholder == Spec => []SamePlaceholder
<1>1. Init => Steadied
  <2> SUFFICES ASSUME Init
               PROVE  Steady
    BY DEF Steadied
  <2>1. \A p \in Daemon : ~saving[p] /\ ~Open(p)
    BY DEF Init, Open, Nothing
  <2>2. /\ vault.entries = handedOut
        /\ \A g \in handedOut : g[1] = Old
        /\ \A g, h \in handedOut : g[2] = h[2] => g = h
    BY DEF Init, NoFile
  <2> QED BY <2>1, <2>2 DEF Steady, Held, Named
<1>2. Steadied => SamePlaceholder
  BY DEF Steadied, Steady, SamePlaceholder
<1> QED BY <1>1, <1>2, NextSteadied, AlwaysAlone, PTL DEF Spec

-----------------------------------------------------------------------------
\* The entries that are not lost.

\* What the process has is in the file.
Safe(p) == ~saving[p] /\ (dirty[p] => pc[p] \in {"wipe", "exit"})

Orderly ==
    /\ \A p \in Daemon : /\ pc[p] # "failed"
                         /\ saving[p] => pc[p] \notin Closing
                         /\ Held(p) => handedOut \subseteq memory[p].entries
    /\ (\A p \in Daemon : Safe(p)) => handedOut \subseteq vault.entries

Ordered == ~overlap /\ ~cut /\ ~busy => Orderly

\* Steps that touch neither the file nor the entries nor how they are saved.
LEMMA OrderlySame ==
    ASSUME Orderly, UNCHANGED <<vault, memory, handedOut, saving, dirty>>,
           \A p \in Daemon : pc'[p] = pc[p] \/ (pc[p] \notin Closing /\ pc'[p] \notin Closing)
    PROVE  Orderly'
BY DEF Orderly, Open, Held, Safe, Closing

\* A run with nothing to save can go, and so can one that has saved.
LEMMA OrderlyGone ==
    ASSUME RunInv, Orderly, NEW p \in Daemon, Lone(p), Gone(p), Safe(p)
    PROVE  Orderly'
<1>1. /\ ~Open(p)' /\ pc'[p] = "down" /\ ~dirty'[p] /\ ~saving'[p]
      /\ UNCHANGED <<vault, handedOut>>
  BY DEF RunInv, Types, Gone, Open, Nothing
<1>2. handedOut \subseteq vault.entries
  BY DEF Orderly, Lone, Safe
<1> QED BY <1>1, <1>2 DEF Orderly, Lone, Held

LEMMA OrderlyOpen ==
    ASSUME RunInv, Orderly, NEW p \in Daemon, Lone(p), NewVault(p) \/ Load(p)
    PROVE  Orderly'
<1>1. ~dirty[p] /\ ~saving[p] /\ pc'[p] = "listen"
  BY DEF RunInv, Types, Phases, NewVault, Load, Step, Late, Closing
<1>2. handedOut \subseteq vault.entries
  BY <1>1 DEF Orderly, Lone, Safe
<1>3. memory'[p].entries = vault.entries /\ UNCHANGED <<vault, handedOut, saving>>
  <2>1. CASE NewVault(p)
    BY <2>1 DEF RunInv, Types, NewVault, NoFile, files
  <2>2. CASE Load(p)
    BY <2>2 DEF RunInv, Types, Load, Contents, files
  <2> QED BY <2>1, <2>2
<1> QED BY <1>1, <1>2, <1>3 DEF Orderly, Lone, Held, Closing

LEMMA OrderlyRegister ==
    ASSUME RunInv, Orderly, NEW p \in Daemon, Lone(p), NEW v \in Value, Register(p, v),
           ~overlap, ~busy'
    PROVE  Orderly'
<1>1. pc[p] \in Late /\ pc[p] \notin Closing
  BY DEF RunInv, Phases, Register
<1>2. handedOut \subseteq memory[p].entries
  BY <1>1 DEF RunInv, Phases, Orderly, Open, Held, Closing
<1>3. /\ memory'[p].entries = memory[p].entries \cup {Entry(p, v)}
      /\ handedOut' = handedOut \cup {Entry(p, v)} /\ dirty'[p]
      /\ UNCHANGED <<vault, saving, pc>>
  BY <1>1 DEF RunInv, Types, Register, files
<1>4. ~Safe(p)'
  BY <1>1, <1>3 DEF Safe, Closing
<1> QED BY <1>1, <1>2, <1>3, <1>4 DEF Orderly, Lone, Held

LEMMA OrderlyClose ==
    ASSUME RunInv, Orderly, NEW p \in Daemon, Lone(p), Saves(p) \/ Closes(p),
           ~overlap, ~busy', ~cut'
    PROVE  Orderly'
<1>1. UNCHANGED handedOut /\ pc[p] \in Late
  BY SavesLate
<1>2. CASE SaveWrite(p) \/ FinalSave(p)
  <2>1. /\ pc[p] # "exit" /\ pc'[p] \notin {"failed", "exit"}
        /\ saving'[p] => pc'[p] \notin Closing
    BY <1>2 DEF RunInv, Types, Orderly, SaveWrite, FinalSave, Step, Closing, process
  <2>2. handedOut \subseteq memory[p].entries
    BY <1>1, <2>1 DEF RunInv, Phases, Orderly, Held, Open
  <2>3. vault'.entries = memory[p].entries /\ UNCHANGED memory
    BY <1>1, <1>2, SavedIsVault DEF SaveWrite, FinalSave, process
  <2> QED BY <1>1, <2>1, <2>2, <2>3 DEF Orderly, Lone, Held
<1>3. CASE CloseMemory(p)
  <2>1. /\ pc[p] = "wipe" /\ pc'[p] = "exit" /\ UNCHANGED <<vault, dirty, saving>>
    BY <1>3 DEF RunInv, Types, CloseMemory, Step, files
  <2>2. ~saving[p]
    BY <2>1 DEF Orderly, Closing
  <2>3. handedOut \subseteq vault.entries
    BY <2>1, <2>2 DEF Orderly, Lone, Safe
  <2> QED BY <1>1, <2>1, <2>2, <2>3 DEF Orderly, Lone, Held
<1>4. CASE SaveBegin(p)
  <2>1. /\ saving'[p] /\ pc[p] \notin Closing /\ UNCHANGED <<vault, memory, pc>>
    BY <1>4 DEF RunInv, Types, SaveBegin, files
  <2>2. ~Safe(p)'
    BY <2>1 DEF Safe
  <2> QED BY <1>1, <2>1, <2>2 DEF Orderly, Lone, Held, Open
<1>5. CASE CloseBegin(p)
  <2>1. /\ ~saving[p] /\ pc[p] # "exit" /\ pc'[p] = First(p)
        /\ UNCHANGED <<vault, memory, saving, dirty>>
    BY <1>5 DEF RunInv, Types, CloseBegin, Step, files, process
  <2>2. Safe(p)' => Safe(p)
    BY <2>1 DEF Safe, First
  <2>3. pc'[p] \in {"final", "wipe"}
    BY <2>1 DEF First
  <2>4. (\A q \in Daemon : Safe(q)') => \A q \in Daemon : Safe(q)
    BY <2>2 DEF Lone, Safe
  <2> QED BY <1>1, <2>1, <2>3, <2>4 DEF Orderly, Lone, Held, Open
<1>6. ~SaveFails(p) /\ ~FinalSaveFails(p)
  BY DEF SaveFails, FinalSaveFails
<1> QED BY <1>2, <1>3, <1>4, <1>5, <1>6 DEF Saves, Closes

LEMMA NextOrdered == RunInv /\ Alone /\ Ordered /\ [Next]_vars => Ordered'
<1> SUFFICES ASSUME RunInv, Alone, Ordered, [Next]_vars, ~overlap', ~cut', ~busy'
             PROVE  Orderly'
  BY DEF Ordered
<1>0. RunInv'
  BY NextRun
<1>1. CASE UNCHANGED vars
  BY <1>1, OrderlySame DEF Ordered, vars, files, process, history, chance
<1>2. CASE Logout
  BY <1>2, OrderlySame DEF Ordered, Logout, files, process, history, chance
<1>3. ASSUME NEW p \in Daemon, Start(p)
      PROVE  Orderly'
  <2>1. Orderly /\ UNCHANGED <<vault, memory, handedOut, saving, dirty>>
    BY <1>3 DEF Ordered, Start, files
  <2>2. pc[p] = "down" /\ pc'[p] \in {"salt", "keyring"} /\ \A q \in Daemon \ {p} : pc'[q] = pc[q]
    BY <1>3 DEF RunInv, Types, Start, Step
  <2>3. \A q \in Daemon : pc'[q] = pc[q] \/ (pc[q] \notin Closing /\ pc'[q] \notin Closing)
    BY <2>2 DEF Closing
  <2> QED BY <2>1, <2>3, OrderlySame
<1>4. ASSUME NEW p \in Daemon, Action(p)
      PROVE  Orderly'
  <2>1. Orderly /\ ~overlap /\ ~Crash(p)
    BY <1>4, AloneAction, Chances DEF Ordered, Crash
  <2>2. Lone(p)
    BY <1>0, <1>4, LoneRun
  <2>3. CASE \/ SaltUnread(p) \/ ReadSalt(p) \/ SaltMissing(p) \/ CreateSalt(p) \/ WriteSalt(p)
             \/ ReadKeyring(p) \/ RemoveSocket(p) \/ Bind(p) \/ Stop(p) \/ Abort(p)
    <3>1. UNCHANGED <<vault, memory, handedOut, saving, dirty>>
      BY <2>3 DEF SaltUnread, ReadSalt, SaltMissing, CreateSalt, WriteSalt, Derive, ReadKeyring,
                  RemoveSocket, Bind, Stop, Abort, files, process
    <3>2. pc[p] \notin Closing /\ pc'[p] \notin Closing
      BY <2>3 DEF RunInv, Types, SaltUnread, ReadSalt, SaltMissing, CreateSalt, WriteSalt, Derive,
                  ReadKeyring, RemoveSocket, Bind, Stop, Abort, Step, Closing
    <3> QED BY <2>1, <2>2, <3>1, <3>2, OrderlySame DEF Lone
  <2>4. CASE SaltTruncated(p) \/ KeyringEmpty(p) \/ LoadFails(p) \/ Plant(p)
    <3>1. Gone(p) /\ pc[p] \in {"salt", "keyring", "open", "plant"}
      BY <2>4 DEF SaltTruncated, KeyringEmpty, LoadFails, Plant
    <3>2. Safe(p)
      BY <3>1 DEF RunInv, Phases, Late, Closing, Safe
    <3> QED BY <2>1, <2>2, <3>1, <3>2, OrderlyGone
  <2>5. CASE Exit(p)
    <3>1. Gone(p) /\ pc[p] = "exit"
      BY <2>1, <2>5 DEF Exit, Orderly
    <3>2. Safe(p)
      BY <2>1, <3>1 DEF Orderly, Closing, Safe
    <3> QED BY <2>1, <2>2, <3>1, <3>2, OrderlyGone
  <2>6. ~BindFails(p)
    BY <1>4, AloneAction DEF BindFails, Step, OwnSocket
  <2> QED BY <1>4, <2>1, <2>2, <2>3, <2>4, <2>5, <2>6, OrderlyOpen, OrderlyRegister, OrderlyClose
          DEF Action, Running, Saves, Closes
<1> QED BY <1>1, <1>2, <1>3, <1>4 DEF Next, Action

\* When the last of runs that follow each other has ended, no entry a client was
\* told of is missing from the file, if they did not crash, their saves succeeded
\* and none closed its vault in use.
THEOREM EveryEntrySaved == Spec => []AllSaved
<1>1. Init => Ordered
  BY DEF Init, Ordered, Orderly, Open, Held, Nothing
<1>2. RunInv /\ Ordered => AllSaved
  BY DEF RunInv, Phases, Late, Closing, Ordered, Orderly, Safe, AllSaved
<1> QED BY <1>1, <1>2, NextOrdered, AlwaysAlone, PTL DEF Spec
=============================================================================
