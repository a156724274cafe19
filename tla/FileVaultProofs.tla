-------------------------- MODULE FileVaultProofs --------------------------
(***************************************************************************)
(* The debounced save of fileVault, for any number of handlers, callbacks, *)
(* mutations and failed saves, through crashes, restarts and orderly       *)
(* closes, when a callback finishes its save before the next timer fires   *)
(* (~SlowSaves).  The run FileVaultOverlap shows why they have to.         *)
(***************************************************************************)
EXTENDS FileVault, TLAPS

-----------------------------------------------------------------------------
\* The conjuncts of the inductive invariant besides the type.

DownIsIdle == ~up => Quiet /\ saveTimer = "nil" /\ closer.at = "idle"

\* Until Close begins nothing is closed; from then on only Close does anything.
Phase ==
    /\ closer.at = "idle" => closer = Idle /\ ~closing
    /\ closer.at # "idle" => closing /\ Quiet /\ saveTimer # "armed"
    /\ closer.at # "done" => ~wiped

OneSave == \A s, t \in Saver : saver[s].at # "idle" /\ saver[t].at # "idle" => s = t

\* A copy is at least as new as the file it will replace.  It is mixed when the
\* memory is, and otherwise only if a change has overtaken it; one that is not
\* mixed never replaces a mixed file of its own version.
Fresh(c) ==
    /\ disk <= c.copy /\ c.copy <= mem
    /\ memMixed => c.mixed
    /\ c.mixed => memMixed \/ c.copy < mem
    /\ fileMixed => c.mixed \/ disk < c.copy

Copied(c) == c.at \in {"copied", "writing"}

CopyFresh ==
    up => /\ disk <= mem
          /\ memMixed => fileMixed
          /\ fileMixed => memMixed \/ disk < mem
          /\ \A s \in Saver : Copied(saver[s]) => Fresh(saver[s])
          /\ Copied(closer) => Fresh(closer)

\* What Close relies on: an armed timer means that dirty is still set.
ArmedIsDirty == saveTimer = "armed" => dirty

\* Nothing is acknowledged that is not in memory.
AckedInMemory == acked <= mem /\ \A h \in Handler : handler[h] <= mem

OrderlyInv == /\ TypeOK /\ DownIsIdle /\ Phase /\ OneSave
              /\ CopyFresh /\ ArmedIsDirty /\ AckedInMemory /\ Covered

USE DEF Version, DiskVersion, NoFile

LEMMA IdleFacts ==
    /\ Idle \in SaverState /\ Idle \in CloserState /\ Idle.at = "idle"
    /\ ~Copied(Idle) /\ TornCopy(Idle) = Idle
BY DEF Idle, SaverState, CloserState, Copied, TornCopy

\* The invariant once the process is gone: nothing is left of its state.
LEMMA GoneOrderly ==
    ASSUME TypeOK, Gone
    PROVE  OrderlyInv'
<1>1. TypeOK'
  BY IdleFacts DEF TypeOK, Gone, file
<1>2. DownIsIdle' /\ Phase' /\ OneSave'
  BY IdleFacts DEF Gone, DownIsIdle, Quiet, Phase, OneSave
<1>3. CopyFresh' /\ ArmedIsDirty' /\ AckedInMemory' /\ Covered'
  BY DEF Gone, CopyFresh, ArmedIsDirty, AckedInMemory, Covered
<1> QED BY <1>1, <1>2, <1>3 DEF OrderlyInv

LEMMA InitOrderly == Init => OrderlyInv
<1> SUFFICES ASSUME Init
             PROVE  OrderlyInv
  OBVIOUS
<1>1. TypeOK
  <2>1. disk \in Nat \cup {-1} /\ legacy \in BOOLEAN
    BY DEF Init
  <2> QED BY <2>1, IdleFacts DEF Init, TypeOK
<1>2. DownIsIdle /\ Phase /\ OneSave
  BY IdleFacts DEF Init, DownIsIdle, Quiet, Phase, OneSave
<1>3. CopyFresh /\ ArmedIsDirty /\ AckedInMemory /\ Covered
  BY DEF Init, CopyFresh, ArmedIsDirty, AckedInMemory, Covered
<1> QED BY <1>1, <1>2, <1>3 DEF OrderlyInv

LEMMA StartOrderly == ASSUME OrderlyInv, Start PROVE OrderlyInv'
<1> USE DEF OrderlyInv, Start, Opened, Unkeyed, Loaded, file
<1>1. TypeOK'
  BY DEF TypeOK
<1>2. DownIsIdle' /\ Phase' /\ OneSave'
  BY DEF DownIsIdle, Quiet, Phase, OneSave
<1>3. CopyFresh'
  BY DEF CopyFresh, Copied, DownIsIdle, Quiet, TypeOK
<1>4. ArmedIsDirty' /\ AckedInMemory'
  <2>1. ArmedIsDirty'
    BY DEF ArmedIsDirty
  <2>2. acked' = mem' /\ mem' \in Nat
    BY DEF TypeOK
  <2>3. \A h \in Handler : handler'[h] = 0
    BY DEF DownIsIdle, Quiet
  <2> QED BY <2>1, <2>2, <2>3 DEF AckedInMemory
<1>5. Covered'
  BY DEF Covered, Behind, SavePending, TypeOK
<1> QED BY <1>1, <1>2, <1>3, <1>4, <1>5

-----------------------------------------------------------------------------
\* The requests, which come only before Close begins.
\* An Unbind tears the copies it meets, and only those; they stay copies, and
\* those that are fresh stay fresh.
LEMMA Torn ==
    ASSUME NEW c, c \in SaverState \/ c \in CloserState
    PROVE  /\ c \in SaverState => TornCopy(c) \in SaverState
           /\ c \in CloserState => TornCopy(c) \in CloserState
           /\ TornCopy(c).at = c.at /\ TornCopy(c).copy = c.copy
           /\ TornCopy(c).mixed \in BOOLEAN
           /\ TornCopy(c).mixed \in {c.mixed, TRUE}
           /\ c.at # "copied" => TornCopy(c) = c
BY DEF TornCopy, SaverState, CloserState

LEMMA TornSavers ==
    ASSUME TypeOK, NEW h \in Handler, Mutate(h) \/ Unbind(h)
    PROVE  /\ saver' \in [Saver -> SaverState] /\ closer' \in CloserState
           /\ \A s \in Saver : saver'[s].at = saver[s].at
           /\ \A s \in Saver : saver'[s].copy = saver[s].copy
           /\ \A s \in Saver : saver'[s].mixed \in {saver[s].mixed, TRUE}
           /\ closer'.at = closer.at
           /\ closer.at # "copied" => closer' = closer
<1>1. saver \in [Saver -> SaverState] /\ closer \in CloserState
  BY DEF TypeOK
<1>2. CASE Mutate(h)
  BY <1>1, <1>2 DEF Mutate
<1>3. CASE Unbind(h)
  <2>1. \A s \in Saver : saver[s] \in SaverState
    BY <1>1
  <2> QED BY <1>1, <1>3, <2>1, Torn DEF Unbind
<1> QED BY <1>2, <1>3

LEMMA ChangedTypes ==
    ASSUME TypeOK, NEW h \in Handler, Mutate(h) \/ Unbind(h)
    PROVE  TypeOK' /\ handler'[h] # 0 /\ mem' = mem + 1
<1>1. mem \in Nat /\ handler \in [Handler -> Nat] /\ Changed(h)
  BY DEF TypeOK, Mutate, Unbind
<1>2. /\ handler' \in [Handler -> Nat] /\ handler'[h] = mem + 1
      /\ mem' = mem + 1 /\ mem' \in Nat
  BY <1>1 DEF Changed, Unmarked
<1>3. /\ UNCHANGED <<up, memMixed, wiped, dirty, closing, saveTimer, loose>>
      /\ UNCHANGED <<disk, fileMixed, legacy, acked, fails>>
  BY <1>1 DEF Changed, fields, file
<1>4. TypeOK'
  BY <1>2, <1>3, TornSavers DEF TypeOK
<1> QED BY <1>1, <1>2, <1>4

LEMMA ChangedOrderly ==
    ASSUME OrderlyInv, NEW h \in Handler, Mutate(h) \/ Unbind(h), closer.at = "idle"
    PROVE  OrderlyInv'
<1>0. /\ mem \in Nat /\ disk \in Nat \cup {-1} /\ handler \in [Handler -> Nat]
      /\ acked \in Nat /\ Changed(h) /\ up /\ TypeOK
  BY DEF OrderlyInv, TypeOK, Mutate, Unbind, Changed
<1>1. TypeOK' /\ handler'[h] # 0 /\ mem' = mem + 1
  BY <1>0, ChangedTypes
<1>2. /\ \A s \in Saver : saver'[s].at = saver[s].at
      /\ \A s \in Saver : saver'[s].copy = saver[s].copy
      /\ \A s \in Saver : saver'[s].mixed \in {saver[s].mixed, TRUE}
      /\ closer' = closer
  BY <1>0, TornSavers
<1>3. DownIsIdle' /\ Phase' /\ OneSave' /\ ArmedIsDirty'
  BY <1>0, <1>2 DEF OrderlyInv, Changed, fields, DownIsIdle, Phase, OneSave, ArmedIsDirty
<1>4. CopyFresh'
  <2>1. /\ disk' = disk /\ fileMixed' = fileMixed /\ memMixed' = memMixed /\ up' = up
        /\ disk <= mem /\ (memMixed => fileMixed)
        /\ \A s \in Saver : Copied(saver[s]) => Fresh(saver[s])
    BY <1>0 DEF Changed, file, OrderlyInv, CopyFresh
  <2>2. disk <= mem' /\ (fileMixed => disk < mem') /\ ~Copied(closer)
    BY <1>0, <1>1, <2>1 DEF Copied
  <2>3. ASSUME NEW s \in Saver, Copied(saver'[s])
        PROVE  Fresh(saver[s])'
    <3>1. Fresh(saver[s])
      BY <1>2, <2>1, <2>3 DEF Copied
    <3>2. saver[s].copy \in Nat /\ saver'[s].copy = saver[s].copy
      BY <1>0, <1>2 DEF TypeOK, SaverState
    <3>3. disk <= saver'[s].copy /\ saver'[s].copy <= mem' /\ saver'[s].copy < mem'
      BY <1>0, <1>1, <3>1, <3>2 DEF Fresh
    <3>4. saver'[s].mixed = saver[s].mixed \/ saver'[s].mixed = TRUE
      BY <1>2
    <3>5. /\ memMixed => saver'[s].mixed
          /\ fileMixed => saver'[s].mixed \/ disk < saver'[s].copy
      BY <3>1, <3>2, <3>4 DEF Fresh
    <3>6. memMixed' = memMixed /\ fileMixed' = fileMixed /\ disk' = disk
      BY <2>1
    <3> QED BY <3>3, <3>5, <3>6 DEF Fresh
  <2>4. \A s \in Saver : Copied(saver'[s]) => Fresh(saver[s])'
    BY <2>3
  <2>5. ~Copied(closer')
    BY <1>2, <2>2
  <2> QED BY <2>1, <2>2, <2>4, <2>5 DEF CopyFresh, Copied
<1>5. AckedInMemory'
  BY <1>0, <1>1 DEF OrderlyInv, AckedInMemory, Changed, Unmarked
<1>6. Covered'
  BY <1>1 DEF Covered, SavePending
<1> QED BY <1>1, <1>3, <1>4, <1>5, <1>6 DEF OrderlyInv

LEMMA MarkDirtyOrderly ==
    ASSUME OrderlyInv, NEW h \in Handler, MarkDirty(h), closer.at = "idle"
    PROVE  OrderlyInv'
<1>1. TypeOK'
  BY DEF OrderlyInv, TypeOK, MarkDirty, Rearmed, memory, file
<1>2. saveTimer' = "armed" /\ dirty' /\ up
  BY DEF OrderlyInv, MarkDirty, Rearmed, Phase, DownIsIdle, Quiet
<1>3. DownIsIdle' /\ Phase' /\ OneSave' /\ ArmedIsDirty'
  BY <1>2 DEF OrderlyInv, MarkDirty, DownIsIdle, Phase, OneSave, ArmedIsDirty
<1>4. CopyFresh'
  BY DEF OrderlyInv, MarkDirty, CopyFresh, Fresh, memory, file
<1>5. AckedInMemory'
  BY DEF OrderlyInv, MarkDirty, AckedInMemory, TypeOK, memory
<1>6. Covered'
  BY <1>2 DEF Covered, SavePending
<1> QED BY <1>1, <1>3, <1>4, <1>5, <1>6 DEF OrderlyInv

-----------------------------------------------------------------------------
\* The callback.  An update of one saver's record, spelled out.
LEMMA SaverUpdate ==
    ASSUME TypeOK, NEW s \in Saver, NEW r \in SaverState,
           saver' = [saver EXCEPT ![s] = r]
    PROVE  /\ saver' \in [Saver -> SaverState]
           /\ saver'[s] = r
           /\ \A t \in Saver : t # s => saver'[t] = saver[t]
BY DEF TypeOK

LEMMA SaverStates ==
    ASSUME TypeOK, NEW s \in Saver
    PROVE  /\ [saver[s] EXCEPT !.at = "fired"] \in SaverState
           /\ [saver[s] EXCEPT !.at = "saving"] \in SaverState
           /\ [saver[s] EXCEPT !.at = "writing"] \in SaverState
           /\ [saver[s] EXCEPT !.at = "writing"].at = "writing"
           /\ [saver[s] EXCEPT !.at = "writing"].copy = saver[s].copy
           /\ [saver[s] EXCEPT !.at = "writing"].mixed = saver[s].mixed
           /\ [at |-> "copied", copy |-> mem, mixed |-> memMixed] \in SaverState
           /\ [saver[s] EXCEPT !.at = "fired"].at = "fired"
           /\ [saver[s] EXCEPT !.at = "saving"].at = "saving"
BY DEF TypeOK, SaverState

\* A callback that is under way finds the daemon up and not being closed.
LEMMA BusyIsOpen ==
    ASSUME OrderlyInv
    PROVE  /\ \A s \in Saver : saver[s].at # "idle" => up /\ closer.at = "idle" /\ ~wiped
           /\ saveTimer = "armed" \/ loose > 0 => up /\ closer.at = "idle"
<1>1. loose \in Nat /\ ~(0 > 0)
  BY DEF OrderlyInv, TypeOK
<1> QED BY <1>1 DEF OrderlyInv, Phase, DownIsIdle, Quiet

LEMMA FireOrderly ==
    ASSUME OrderlyInv, ~SlowSaves, NEW s \in Saver, Fire(s) \/ FireLoose(s)
    PROVE  OrderlyInv'
<1> DEFINE r == [saver[s] EXCEPT !.at = "fired"]
<1>1. /\ r \in SaverState /\ r.at = "fired"
      /\ saver' = [saver EXCEPT ![s] = r]
      /\ \A t \in Saver : saver[t].at = "idle"
  BY SaverStates DEF OrderlyInv, Fire, FireLoose, MayFire
<1> HIDE DEF r
<1>2. /\ saver' \in [Saver -> SaverState] /\ saver'[s].at = "fired"
      /\ \A t \in Saver : t # s => saver'[t].at = "idle"
  BY <1>1, SaverUpdate DEF OrderlyInv
<1>3. /\ UNCHANGED <<up, mem, memMixed, wiped, dirty, closing, handler, closer, acked, fails>>
      /\ UNCHANGED <<disk, fileMixed, legacy>>
      /\ up /\ closer.at = "idle"
  BY BusyIsOpen DEF Fire, FireLoose, memory, file
<1>4. TypeOK'
  BY <1>2, <1>3 DEF OrderlyInv, TypeOK, Fire, FireLoose
<1>5. DownIsIdle' /\ Phase' /\ OneSave'
  BY <1>2, <1>3 DEF OrderlyInv, DownIsIdle, Phase, OneSave
<1>6. CopyFresh' /\ AckedInMemory'
  BY <1>2, <1>3 DEF OrderlyInv, CopyFresh, Fresh, Copied, AckedInMemory
<1>7. ArmedIsDirty'
  BY DEF OrderlyInv, ArmedIsDirty, Fire, FireLoose
<1>8. Covered'
  BY <1>2 DEF Covered, SavePending
<1> QED BY <1>4, <1>5, <1>6, <1>7, <1>8 DEF OrderlyInv

LEMMA ForgetOrderly ==
    ASSUME OrderlyInv, NEW s \in Saver, Forget(s)
    PROVE  OrderlyInv'
<1> DEFINE r == [saver[s] EXCEPT !.at = "saving"]
<1>1. /\ r \in SaverState /\ r.at = "saving"
      /\ saver' = [saver EXCEPT ![s] = r]
  BY SaverStates DEF OrderlyInv, Forget
<1> HIDE DEF r
<1>2. /\ saver' \in [Saver -> SaverState] /\ saver'[s].at = "saving"
      /\ \A t \in Saver : t # s => saver'[t] = saver[t]
  BY <1>1, SaverUpdate DEF OrderlyInv
<1>3. /\ UNCHANGED <<up, mem, memMixed, wiped, closing, handler, closer, acked, fails>>
      /\ UNCHANGED <<disk, fileMixed, legacy>>
      /\ up /\ closer.at = "idle"
      /\ saveTimer' = "nil"
  BY BusyIsOpen DEF Forget, memory, file
<1>4. TypeOK'
  <2>1. loose' \in Nat /\ dirty' = FALSE
    BY DEF OrderlyInv, TypeOK, Forget, Cleaned
  <2> QED BY <2>1, <1>2, <1>3 DEF OrderlyInv, TypeOK
<1>5. OneSave'
  BY <1>2 DEF OrderlyInv, OneSave, Forget
<1>6. DownIsIdle' /\ Phase' /\ ArmedIsDirty'
  BY <1>3 DEF OrderlyInv, DownIsIdle, Phase, ArmedIsDirty
<1>7. CopyFresh' /\ AckedInMemory'
  BY <1>2, <1>3 DEF OrderlyInv, CopyFresh, Fresh, Copied, AckedInMemory
<1>8. Covered'
  BY <1>2 DEF Covered, SavePending
<1> QED BY <1>4, <1>5, <1>6, <1>7, <1>8 DEF OrderlyInv

LEMMA CopyOrderly ==
    ASSUME OrderlyInv, NEW s \in Saver, Copy(s)
    PROVE  OrderlyInv'
<1> DEFINE r == [at |-> "copied", copy |-> mem, mixed |-> memMixed]
<1>1. /\ r \in SaverState /\ r.at = "copied" /\ r.copy = mem /\ r.mixed = memMixed
      /\ saver' = [saver EXCEPT ![s] = r]
  <2>1. ~wiped /\ memMixed \in BOOLEAN
    BY BusyIsOpen DEF Copy, OrderlyInv, TypeOK
  <2> QED BY <2>1, SaverStates DEF OrderlyInv, Copy, Contents
<1> HIDE DEF r
<1>2. /\ saver' \in [Saver -> SaverState] /\ saver'[s].at = "copied"
      /\ saver'[s].copy = mem /\ saver'[s].mixed = memMixed
      /\ \A t \in Saver : t # s => saver'[t] = saver[t]
  BY <1>1, SaverUpdate DEF OrderlyInv
<1>3. /\ UNCHANGED <<up, mem, memMixed, wiped, dirty, closing, saveTimer, loose>>
      /\ UNCHANGED <<handler, closer, disk, fileMixed, legacy, acked, fails>>
      /\ up /\ closer.at = "idle"
  BY BusyIsOpen DEF Copy, fields, memory, file
<1>4. TypeOK'
  BY <1>2, <1>3 DEF OrderlyInv, TypeOK
<1>5. OneSave'
  BY <1>2 DEF OrderlyInv, OneSave, Copy
<1>6. DownIsIdle' /\ Phase' /\ ArmedIsDirty' /\ AckedInMemory'
  BY <1>3 DEF OrderlyInv, DownIsIdle, Phase, ArmedIsDirty, AckedInMemory
<1>7. CopyFresh'
  BY <1>2, <1>3 DEF OrderlyInv, CopyFresh, Fresh, Copied, TypeOK
<1>8. Covered'
  BY <1>2, <1>3 DEF Covered, SavePending, Complete
<1> QED BY <1>4, <1>5, <1>6, <1>7, <1>8 DEF OrderlyInv

LEMMA MarshalOrderly ==
    ASSUME OrderlyInv, NEW s \in Saver, Marshal(s)
    PROVE  OrderlyInv'
<1> DEFINE r == [saver[s] EXCEPT !.at = "writing"]
<1>1. /\ r \in SaverState /\ r.at = "writing" /\ r.copy = saver[s].copy
      /\ r.mixed = saver[s].mixed
      /\ saver' = [saver EXCEPT ![s] = r]
  BY SaverStates DEF OrderlyInv, Marshal
<1> HIDE DEF r
<1>2. /\ saver' \in [Saver -> SaverState] /\ saver'[s].at = "writing"
      /\ saver[s].at = "copied"
      /\ saver'[s].copy = saver[s].copy /\ saver'[s].mixed = saver[s].mixed
      /\ \A t \in Saver : t # s => saver'[t] = saver[t]
  BY <1>1, SaverUpdate DEF OrderlyInv, Marshal
<1>3. /\ UNCHANGED <<up, mem, memMixed, wiped, dirty, closing, saveTimer, loose>>
      /\ UNCHANGED <<handler, closer, disk, fileMixed, legacy, acked, fails>>
      /\ up /\ closer.at = "idle"
  BY BusyIsOpen DEF Marshal, fields, memory, file
<1>4. TypeOK'
  BY <1>2, <1>3 DEF OrderlyInv, TypeOK
<1>5. OneSave'
  BY <1>2 DEF OrderlyInv, OneSave
<1>6. DownIsIdle' /\ Phase' /\ ArmedIsDirty' /\ AckedInMemory'
  BY <1>3 DEF OrderlyInv, DownIsIdle, Phase, ArmedIsDirty, AckedInMemory
<1>7. CopyFresh'
  BY <1>2, <1>3 DEF OrderlyInv, CopyFresh, Fresh, Copied
<1>8. Covered'
  <2> SUFFICES ASSUME up, Behind, fails = 0
               PROVE  SavePending'
    BY <1>3 DEF Covered, Behind
  <2>1. SavePending
    BY DEF OrderlyInv, Covered
  <2>2. CASE \E t \in Saver : saver[t].at \in {"fired", "saving"} \/ Complete(saver[t])
    <3>1. PICK t \in Saver : saver[t].at \in {"fired", "saving"} \/ Complete(saver[t])
      BY <2>2
    <3>2. saver'[t].at \in {"fired", "saving"} \/ Complete(saver[t])'
      BY <1>2, <1>3, <3>1 DEF Complete
    <3> QED BY <3>2 DEF SavePending
  <2> QED BY <1>3, <2>1, <2>2 DEF SavePending, Complete
<1> QED BY <1>4, <1>5, <1>6, <1>7, <1>8 DEF OrderlyInv

\* The two ways a callback ends.  If it was the only thing that covered the
\* memory, its copy was complete and is now the file, or it is counted as failed.
LEMMA SaveEndsOrderly ==
    ASSUME OrderlyInv, NEW s \in Saver, Rename(s) \/ SaveFails(s)
    PROVE  OrderlyInv'
<1>1. saver' = [saver EXCEPT ![s] = Idle]
  BY DEF Rename, SaveFails
<1>2. /\ saver' \in [Saver -> SaverState] /\ saver'[s].at = "idle"
      /\ \A t \in Saver : t # s => saver'[t] = saver[t]
  BY <1>1, IdleFacts, SaverUpdate DEF OrderlyInv
<1>3. /\ UNCHANGED <<up, mem, memMixed, wiped, dirty, closing, saveTimer, loose>>
      /\ UNCHANGED <<handler, closer, acked>>
      /\ up /\ closer.at = "idle"
      /\ saver[s].at = "writing" /\ saver[s] \in SaverState
      /\ Rename(s) => Written(saver[s])
      /\ SaveFails(s) => UNCHANGED <<disk, fileMixed, legacy>>
  BY BusyIsOpen DEF Rename, SaveFails, fields, memory, file, OrderlyInv, TypeOK
<1>4. /\ disk \in Nat \cup {-1} /\ mem \in Nat /\ saver[s].copy \in Nat
      /\ saver[s].mixed \in BOOLEAN
      /\ Fresh(saver[s])
      /\ disk <= mem /\ (memMixed => fileMixed) /\ (fileMixed => memMixed \/ disk < mem)
      /\ ~Copied(closer)
  BY <1>3 DEF OrderlyInv, CopyFresh, Copied, SaverState, TypeOK
<1>5. fails' \in Nat /\ (fails' = 0 => Rename(s) /\ fails = 0)
  BY DEF OrderlyInv, TypeOK, Rename, SaveFails
<1>6. TypeOK'
  BY <1>2, <1>3, <1>4, <1>5 DEF OrderlyInv, TypeOK, Written
<1>7. \A t \in Saver : saver'[t].at = "idle"
  BY <1>2, <1>3 DEF OrderlyInv, OneSave
<1>8. OneSave' /\ CopyFresh'
  <2>1. CASE Rename(s)
    BY <1>3, <1>4, <1>7, <2>1 DEF OneSave, CopyFresh, Written, Fresh, Copied
  <2>2. CASE SaveFails(s)
    BY <1>3, <1>4, <1>7, <2>2 DEF OneSave, CopyFresh, Fresh, Copied
  <2> QED BY <2>1, <2>2
<1>9. DownIsIdle' /\ Phase' /\ ArmedIsDirty' /\ AckedInMemory'
  BY <1>3, <1>7 DEF OrderlyInv, DownIsIdle, Phase, ArmedIsDirty, AckedInMemory
<1>10. Covered'
  <2> SUFFICES ASSUME Behind', fails' = 0
               PROVE  (\E h \in Handler : handler[h] # 0) \/ saveTimer = "armed" \/ loose > 0
    BY <1>3 DEF Covered, SavePending
  <2>1. Written(saver[s]) /\ fails = 0
    BY <1>3, <1>5
  <2>2. ~Complete(saver[s])
    BY <1>3, <2>1 DEF Written, Behind, Complete
  <2>3. Behind
    BY <1>3, <1>4, <2>1 DEF Written, Behind, Fresh
  <2>4. \A t \in Saver : t # s => saver[t].at = "idle"
    BY <1>2, <1>7
  <2> QED BY <2>2, <2>3, <2>4, <1>3, <2>1 DEF OrderlyInv, Covered, SavePending, Complete
<1> QED BY <1>6, <1>8, <1>9, <1>10 DEF OrderlyInv

-----------------------------------------------------------------------------
\* Close.  It begins when nothing is under way: then the file is behind only if
\* the timer is armed, and in that case dirty is set and Close saves.
LEMMA CloseBeginOrderly ==
    ASSUME OrderlyInv, Quiet, CloseBegin
    PROVE  OrderlyInv'
<1>0. /\ up /\ closer.at = "idle" /\ ~wiped /\ closer \in CloserState
      /\ UNCHANGED <<up, mem, memMixed, wiped, dirty, loose, handler, saver, acked, fails>>
      /\ UNCHANGED <<disk, fileMixed, legacy>>
      /\ closing' = TRUE
  BY DEF OrderlyInv, Phase, CloseBegin, TypeOK, memory, file
<1>1. /\ closer' \in CloserState
      /\ closer'.at = IF dirty THEN "saving" ELSE "wiping"
  BY <1>0 DEF CloseBegin, First, CloserState
<1>2. saveTimer' \in {"nil", "spent"}
  BY DEF CloseBegin, Stopped, OrderlyInv, TypeOK
<1>3. TypeOK'
  BY <1>0, <1>1, <1>2 DEF OrderlyInv, TypeOK
<1>4. DownIsIdle' /\ Phase' /\ ArmedIsDirty'
  BY <1>0, <1>1, <1>2 DEF DownIsIdle, Phase, ArmedIsDirty, Quiet
<1>5. OneSave' /\ AckedInMemory'
  BY <1>0 DEF OrderlyInv, OneSave, AckedInMemory
<1>6. CopyFresh'
  BY <1>0, <1>1 DEF OrderlyInv, CopyFresh, Fresh, Copied
<1>7. Covered'
  <2> SUFFICES ASSUME ~dirty, Behind, fails = 0
               PROVE  FALSE
    BY <1>0, <1>1 DEF Covered, Behind, SavePending
  <2>1. saveTimer # "armed"
    BY DEF OrderlyInv, ArmedIsDirty
  <2> QED BY <2>1, <1>0 DEF OrderlyInv, Covered, SavePending, Complete, Quiet
<1> QED BY <1>3, <1>4, <1>5, <1>6, <1>7 DEF OrderlyInv

\* Nobody writes while Close is under way, so its copy stays complete.
LEMMA CloseCopyOrderly ==
    ASSUME OrderlyInv, CloseCopy \/ CloseMarshal
    PROVE  OrderlyInv'
<1>0. /\ up /\ ~wiped /\ closing /\ Quiet /\ saveTimer # "armed"
      /\ UNCHANGED <<up, mem, memMixed, wiped, dirty, closing, saveTimer, loose>>
      /\ UNCHANGED <<handler, saver, disk, fileMixed, legacy, acked, fails>>
      /\ closer \in CloserState /\ mem \in Nat /\ memMixed \in BOOLEAN
  BY DEF OrderlyInv, Phase, DownIsIdle, CloseCopy, CloseMarshal, fields, memory, file, TypeOK
<1>1. /\ closer' \in CloserState /\ closer'.at \in {"copied", "writing"}
      /\ \/ closer'.copy = mem /\ closer'.mixed = memMixed
         \/ Copied(closer) /\ closer'.copy = closer.copy /\ closer'.mixed = closer.mixed
  <2>1. CASE CloseCopy
    BY <1>0, <2>1 DEF CloseCopy, Contents, CloserState
  <2>2. CASE CloseMarshal
    BY <1>0, <2>2 DEF CloseMarshal, CloserState, Copied
  <2> QED BY <2>1, <2>2
<1>2. TypeOK'
  BY <1>0, <1>1 DEF OrderlyInv, TypeOK
<1>3. DownIsIdle' /\ Phase' /\ ArmedIsDirty'
  BY <1>0, <1>1 DEF DownIsIdle, Phase, ArmedIsDirty, Quiet
<1>4. OneSave' /\ AckedInMemory'
  BY <1>0 DEF OrderlyInv, OneSave, AckedInMemory
<1>5. CopyFresh'
  BY <1>0, <1>1 DEF OrderlyInv, CopyFresh, Fresh, Copied
<1>6. Covered'
  <2>1. CASE CloseCopy
    BY <1>0, <2>1 DEF CloseCopy, Contents, Covered, SavePending, Complete
  <2>2. CASE CloseMarshal
    BY <1>0, <1>1, <2>2
       DEF CloseMarshal, OrderlyInv, Covered, Behind, SavePending, Complete, Quiet, CloserState
  <2> QED BY <2>1, <2>2
<1> QED BY <1>2, <1>3, <1>4, <1>5, <1>6 DEF OrderlyInv

\* The two ways the save of Close ends.
LEMMA CloseSaveEndsOrderly ==
    ASSUME OrderlyInv, CloseRename \/ CloseFails
    PROVE  OrderlyInv'
<1>0. /\ up /\ ~wiped /\ closing /\ Quiet /\ saveTimer # "armed" /\ closer.at = "writing"
      /\ UNCHANGED <<up, mem, memMixed, wiped, dirty, closing, saveTimer, loose>>
      /\ UNCHANGED <<handler, saver, acked>>
      /\ CloseRename => Written(closer)
      /\ CloseFails => UNCHANGED <<disk, fileMixed, legacy>>
  BY DEF OrderlyInv, Phase, DownIsIdle, CloseRename, CloseFails, fields, memory, file
<1>1. closer' \in CloserState /\ closer'.at \in {"wiping", "failed"}
  <2>1. closer' = [Idle EXCEPT !.at = "wiping"] \/ closer' = [Idle EXCEPT !.at = "failed"]
    BY DEF CloseRename, CloseFails
  <2> QED BY <2>1, IdleFacts DEF CloserState
<1>2. /\ disk \in Nat \cup {-1} /\ mem \in Nat /\ closer.copy \in Nat
      /\ closer.mixed \in BOOLEAN
      /\ Fresh(closer)
      /\ disk <= mem /\ (memMixed => fileMixed) /\ (fileMixed => memMixed \/ disk < mem)
      /\ \A s \in Saver : ~Copied(saver[s])
  BY <1>0 DEF OrderlyInv, CopyFresh, Copied, TypeOK, CloserState, Quiet
<1>3. fails' \in Nat /\ (fails' = 0 => CloseRename /\ fails = 0)
  BY DEF OrderlyInv, TypeOK, CloseRename, CloseFails
<1>4. TypeOK'
  BY <1>0, <1>1, <1>2, <1>3 DEF OrderlyInv, TypeOK, Written
<1>5. DownIsIdle' /\ Phase' /\ ArmedIsDirty'
  BY <1>0, <1>1 DEF DownIsIdle, Phase, ArmedIsDirty, Quiet
<1>6. OneSave' /\ AckedInMemory'
  BY <1>0 DEF OrderlyInv, OneSave, AckedInMemory
<1>7. CopyFresh'
  <2>1. CASE CloseRename
    BY <1>0, <1>1, <1>2, <2>1 DEF CopyFresh, Written, Fresh, Copied
  <2>2. CASE CloseFails
    BY <1>0, <1>1, <1>2, <2>2 DEF CopyFresh, Fresh, Copied
  <2> QED BY <2>1, <2>2
<1>8. Covered'
  <2> SUFFICES ASSUME Behind', fails' = 0
               PROVE  FALSE
    BY DEF Covered
  <2>1. Written(closer) /\ fails = 0
    BY <1>0, <1>3
  <2>2. ~Complete(closer)
    BY <1>0, <2>1 DEF Written, Behind, Complete
  <2>3. Behind
    BY <1>0, <1>2, <2>1 DEF Written, Behind, Fresh
  <2> QED BY <2>1, <2>2, <2>3, <1>0 DEF OrderlyInv, Covered, SavePending, Complete, Quiet
<1> QED BY <1>4, <1>5, <1>6, <1>7, <1>8 DEF OrderlyInv

LEMMA CloseMemoryOrderly ==
    ASSUME OrderlyInv, CloseMemory
    PROVE  OrderlyInv'
<1>0. /\ up /\ closing /\ Quiet /\ saveTimer # "armed" /\ closer.at = "wiping"
      /\ UNCHANGED <<up, mem, memMixed, dirty, closing, saveTimer, loose>>
      /\ UNCHANGED <<handler, saver, disk, fileMixed, legacy, acked, fails>>
      /\ wiped' = TRUE
  BY DEF OrderlyInv, Phase, DownIsIdle, CloseMemory, fields, memory, file
<1>1. closer' \in CloserState /\ closer'.at = "done"
  BY DEF CloseMemory, CloserState, OrderlyInv, TypeOK
<1>2. TypeOK'
  BY <1>0, <1>1 DEF OrderlyInv, TypeOK
<1>3. DownIsIdle' /\ Phase' /\ ArmedIsDirty'
  BY <1>0, <1>1 DEF DownIsIdle, Phase, ArmedIsDirty, Quiet
<1>4. OneSave' /\ AckedInMemory'
  BY <1>0 DEF OrderlyInv, OneSave, AckedInMemory
<1>5. CopyFresh'
  BY <1>0, <1>1 DEF OrderlyInv, CopyFresh, Fresh, Copied, Quiet
<1>6. Covered'
  BY <1>0, <1>1 DEF OrderlyInv, Covered, Behind, SavePending, Complete, Quiet
<1> QED BY <1>2, <1>3, <1>4, <1>5, <1>6 DEF OrderlyInv

LEMMA StutterOrderly ==
    ASSUME OrderlyInv, UNCHANGED vars
    PROVE  OrderlyInv'
<1> USE DEF vars, fields, memory, file, OrderlyInv
<1>1. TypeOK' /\ DownIsIdle' /\ Phase' /\ OneSave'
  BY DEF TypeOK, DownIsIdle, Quiet, Phase, OneSave
<1>2. CopyFresh' /\ ArmedIsDirty' /\ AckedInMemory'
  BY DEF CopyFresh, Fresh, Copied, ArmedIsDirty, AckedInMemory
<1>3. Covered'
  BY DEF Covered, Behind, SavePending, Complete
<1> QED BY <1>1, <1>2, <1>3

LEMMA NextOrderly == ASSUME ~SlowSaves PROVE OrderlyInv /\ [OrderlyNext]_vars => OrderlyInv'
<1> SUFFICES ASSUME OrderlyInv, [OrderlyNext]_vars
             PROVE  OrderlyInv'
  OBVIOUS
<1>1. CASE Crash \/ Exit
  BY <1>1, GoneOrderly DEF Crash, Exit, OrderlyInv
<1> QED BY <1>1, StartOrderly, ChangedOrderly, MarkDirtyOrderly, FireOrderly,
           ForgetOrderly, CopyOrderly, MarshalOrderly, SaveEndsOrderly, CloseBeginOrderly,
           CloseCopyOrderly, CloseSaveEndsOrderly, CloseMemoryOrderly, StutterOrderly
        DEF OrderlyNext, Requests, Callbacks, Closing

-----------------------------------------------------------------------------
\* The debounce never loses a change: while the file is behind and no save has
\* failed, a save that covers everything in memory is still to come.
THEOREM OrderlyCovered == ASSUME ~SlowSaves PROVE OrderlySpec => []Covered
<1>1. OrderlyInv => Covered
  BY DEF OrderlyInv
<1> QED BY <1>1, InitOrderly, NextOrderly, PTL DEF OrderlySpec

\* After an orderly Close the file has every change a client was told about.
THEOREM OrderlyCloseKeepsAcked == ASSUME ~SlowSaves PROVE OrderlySpec => []CloseKeepsAcked
<1>1. OrderlyInv => CloseKeepsAcked
  <2> SUFFICES ASSUME OrderlyInv, closer.at = "done", fails = 0
               PROVE  disk >= acked /\ (fileMixed => memMixed)
    BY DEF CloseKeepsAcked
  <2>1. up /\ Quiet /\ saveTimer # "armed"
    BY DEF OrderlyInv, DownIsIdle, Phase
  <2>2. ~Behind
    BY <2>1 DEF OrderlyInv, Covered, SavePending, Complete, Quiet
  <2>3. disk = mem /\ acked <= mem
    BY <2>2 DEF Behind, OrderlyInv, AckedInMemory
  <2>4. acked \in Nat /\ mem \in Nat
    BY DEF OrderlyInv, TypeOK
  <2> QED BY <2>2, <2>3, <2>4 DEF Behind
<1> QED BY <1>1, InitOrderly, NextOrderly, PTL DEF OrderlySpec

\* The save of a callback, or of Close, as a step of the abstraction: it makes
\* a newer version durable, or writes the same one once more.
LEMMA WrittenIsAbstract ==
    ASSUME OrderlyInv, NEW c \in SaverState \cup CloserState, Copied(c), Fresh(c), Written(c),
           up, up' = up, mem' = mem, memMixed' = memMixed
    PROVE  Abstract!Persist \/ Abstract!Spoil \/ UNCHANGED <<mem, memMixed, disk, fileMixed>>
<1>1. /\ mem \in Nat /\ disk \in Nat \cup {-1} /\ c.copy \in Nat /\ c.mixed \in BOOLEAN
      /\ fileMixed \in BOOLEAN
  BY DEF OrderlyInv, TypeOK, SaverState, CloserState
<1>2. disk' = c.copy /\ fileMixed' = c.mixed
  BY DEF Written
<1>3. CASE disk < c.copy
  <2>1. c.copy \in (disk + 1)..mem
    BY <1>1, <1>3 DEF Fresh
  <2> QED BY <1>1, <1>2, <1>3, <2>1 DEF Fresh, Abstract!Persist
<1>4. CASE disk = c.copy /\ c.mixed # fileMixed
  BY <1>1, <1>2, <1>4 DEF Fresh, Abstract!Spoil, Abstract!NoCopy, OrderlyInv, CopyFresh
<1>5. CASE disk = c.copy /\ c.mixed = fileMixed
  BY <1>2, <1>5
<1> QED BY <1>1, <1>3, <1>4, <1>5 DEF Fresh

\* fileVault implements WriteBehind: every step is a step of the abstract
\* specification, or leaves its four variables alone.
THEOREM Implements == ASSUME ~SlowSaves PROVE OrderlySpec => WriteBehind
<1> DEFINE amem == IF up THEN mem ELSE Loaded
           amixed == IF up THEN memMixed ELSE fileMixed
           avars == <<amem, amixed, disk, fileMixed>>
<1>1. Init => Abstract!Init
  BY DEF Init, Loaded, Abstract!Init, Abstract!NoCopy
<1>2. OrderlyInv /\ [OrderlyNext]_vars => [Abstract!Next]_avars
  <2> SUFFICES ASSUME OrderlyInv, [OrderlyNext]_vars
               PROVE  Abstract!Next \/ UNCHANGED avars
    OBVIOUS
  <2>1. ASSUME NEW h \in Handler, Mutate(h) \/ Unbind(h)
        PROVE  Abstract!Write
    BY <2>1 DEF Mutate, Unbind, Changed, file, Abstract!Write
  <2>2. ASSUME up, up' = up, mem' = mem, memMixed' = memMixed,
               NEW c \in SaverState \cup CloserState, Copied(c), Fresh(c), Written(c)
        PROVE  Abstract!Next \/ UNCHANGED avars
    BY <2>2, WrittenIsAbstract DEF Abstract!Next
  <2>3. ASSUME NEW s \in Saver, Rename(s)
        PROVE  Abstract!Next \/ UNCHANGED avars
    <3>1. /\ up /\ up' = up /\ mem' = mem /\ memMixed' = memMixed
          /\ Written(saver[s]) /\ saver[s] \in SaverState /\ Copied(saver[s])
      BY <2>3, BusyIsOpen DEF OrderlyInv, Rename, TypeOK, memory, Copied
    <3>2. Fresh(saver[s])
      BY <2>3, <3>1 DEF OrderlyInv, CopyFresh
    <3> QED BY <3>1, <3>2, <2>2
  <2>4. CASE CloseRename
    <3>1. /\ up /\ up' = up /\ mem' = mem /\ memMixed' = memMixed
          /\ Written(closer) /\ closer \in CloserState /\ Copied(closer)
      BY <2>4 DEF OrderlyInv, DownIsIdle, CloseRename, TypeOK, memory, Copied
    <3>2. Fresh(closer)
      BY <3>1 DEF OrderlyInv, CopyFresh
    <3> QED BY <3>1, <3>2, <2>2
  <2>5. CASE Crash \/ Exit
    BY <2>5 DEF Crash, Exit, Gone, Loaded, file, Abstract!Restart, Abstract!NoCopy, Abstract!Next
  <2>6. CASE Start
    BY <2>6 DEF Start, Opened, Loaded, file
  <2>7. ASSUME NEW h \in Handler, MarkDirty(h)
        PROVE  UNCHANGED avars
    BY <2>7 DEF MarkDirty, memory, file, Loaded
  <2>8. ASSUME NEW s \in Saver,
               Fire(s) \/ FireLoose(s) \/ Forget(s) \/ Copy(s) \/ Marshal(s) \/ SaveFails(s)
        PROVE  UNCHANGED avars
    BY <2>8 DEF Fire, FireLoose, Forget, Copy, Marshal, SaveFails, memory, file, Loaded
  <2>9. CASE CloseBegin \/ CloseCopy \/ CloseMarshal \/ CloseFails \/ CloseMemory
    BY <2>9 DEF CloseBegin, CloseCopy, CloseMarshal, CloseFails, CloseMemory, memory, file, Loaded
  <2>10. CASE UNCHANGED vars
    BY <2>10 DEF vars, memory, file, Loaded
  <2> QED BY <2>1, <2>3, <2>4, <2>5, <2>6, <2>7, <2>8, <2>9, <2>10
          DEF OrderlyNext, Requests, Callbacks, Closing, Abstract!Next
<1> QED BY <1>1, <1>2, InitOrderly, NextOrderly, PTL DEF OrderlySpec, WriteBehind, Abstract!Spec

-----------------------------------------------------------------------------
\* What holds without any assumption on who overlaps: the types, and that no
\* wake-up is lost.
WakeInv == TypeOK /\ DirtyHasTimer

LEMMA WakeRequests ==
    ASSUME WakeInv, NEW h \in Handler, Mutate(h) \/ Unbind(h) \/ MarkDirty(h)
    PROVE  WakeInv'
<1>1. TypeOK'
  <2>1. CASE Mutate(h) \/ Unbind(h)
    BY <2>1, ChangedTypes DEF WakeInv
  <2>2. CASE MarkDirty(h)
    <3>1. handler[h] \in Nat /\ acked' \in Nat
      BY <2>2 DEF WakeInv, TypeOK, MarkDirty
    <3> QED BY <2>2, <3>1 DEF WakeInv, TypeOK, MarkDirty, Rearmed, memory, file
  <2> QED BY <2>1, <2>2
<1>2. CASE Mutate(h) \/ Unbind(h)
  <2>1. \A s \in Saver : saver'[s].at = saver[s].at
    BY <1>2, TornSavers DEF WakeInv
  <2>2. UNCHANGED <<dirty, closing, saveTimer, loose>>
    BY <1>2 DEF Mutate, Unbind, Changed, fields
  <2> QED BY <1>1, <2>1, <2>2 DEF WakeInv, DirtyHasTimer
<1>3. CASE MarkDirty(h)
  BY <1>1, <1>3 DEF WakeInv, DirtyHasTimer, MarkDirty, Rearmed
<1> QED BY <1>2, <1>3

LEMMA WakeFire ==
    ASSUME WakeInv, NEW s \in Saver, Fire(s) \/ FireLoose(s)
    PROVE  WakeInv'
<1>1. saver \in [Saver -> SaverState] /\ loose \in Nat
  BY DEF WakeInv, TypeOK
<1>2. saver' = [saver EXCEPT ![s].at = "fired"] /\ loose' \in Nat
  BY <1>1 DEF Fire, FireLoose
<1>3. saver' \in [Saver -> SaverState] /\ saver'[s].at = "fired"
  BY <1>1, <1>2 DEF SaverState
<1>4. TypeOK'
  BY <1>2, <1>3 DEF WakeInv, TypeOK, Fire, FireLoose, memory, file
<1> QED BY <1>3, <1>4 DEF WakeInv, DirtyHasTimer

LEMMA WakeSaves ==
    ASSUME WakeInv, NEW s \in Saver,
           Forget(s) \/ Copy(s) \/ Marshal(s) \/ Rename(s) \/ SaveFails(s)
    PROVE  WakeInv'
<1>1. saver \in [Saver -> SaverState] /\ loose \in Nat
  BY DEF WakeInv, TypeOK
<1>2. saver' \in [Saver -> SaverState]
  <2>1. Contents \in SaverState
    BY DEF WakeInv, TypeOK, Contents, SaverState
  <2>2. /\ [saver[s] EXCEPT !.at = "saving"] \in SaverState
        /\ [saver[s] EXCEPT !.at = "writing"] \in SaverState
    BY <1>1 DEF SaverState
  <2> QED BY <1>1, <2>1, <2>2, IdleFacts DEF Forget, Copy, Marshal, Rename, SaveFails
<1>3. TypeOK'
  <2>1. CASE Forget(s)
    <3>1. dirty' = FALSE /\ loose' \in Nat /\ saveTimer' = "nil"
      BY <1>1, <2>1 DEF Forget, Cleaned
    <3> QED BY <1>2, <2>1, <3>1 DEF WakeInv, TypeOK, Forget, memory, file
  <2>2. CASE Copy(s) \/ Marshal(s) \/ SaveFails(s)
    BY <1>2, <2>2 DEF WakeInv, TypeOK, Copy, Marshal, SaveFails, fields, memory, file
  <2>3. CASE Rename(s)
    <3>1. saver[s].copy \in Nat /\ saver[s].mixed \in BOOLEAN
      BY <1>1 DEF SaverState
    <3> QED BY <1>2, <2>3, <3>1 DEF WakeInv, TypeOK, Rename, Written, fields, memory
  <2> QED BY <2>1, <2>2, <2>3
<1>4. CASE Forget(s)
  BY <1>3, <1>4 DEF WakeInv, DirtyHasTimer, Forget, Cleaned
<1>5. CASE Copy(s) \/ Marshal(s) \/ Rename(s) \/ SaveFails(s)
  <2>1. saver[s].at # "fired" /\ \A t \in Saver \ {s} : saver'[t] = saver[t]
    BY <1>1, <1>5 DEF Copy, Marshal, Rename, SaveFails
  <2> QED BY <1>3, <1>5, <2>1
          DEF WakeInv, DirtyHasTimer, Copy, Marshal, Rename, SaveFails, fields
<1> QED BY <1>4, <1>5

LEMMA WakeClose ==
    ASSUME WakeInv, \/ CloseBegin \/ CloseCopy \/ CloseMarshal
                    \/ CloseRename \/ CloseFails \/ CloseMemory
    PROVE  WakeInv'
<1>1. closer \in CloserState /\ closer.copy \in Nat /\ closer.mixed \in BOOLEAN
  BY DEF WakeInv, TypeOK, CloserState
<1>2. closer' \in CloserState
  <2>1. Contents \in CloserState
    BY DEF WakeInv, TypeOK, Contents, CloserState
  <2>2. \A a \in {"saving", "writing", "wiping", "done", "failed"} :
           [closer EXCEPT !.at = a] \in CloserState /\ [Idle EXCEPT !.at = a] \in CloserState
    BY <1>1, IdleFacts DEF CloserState
  <2>3. First \in {"saving", "wiping"}
    BY DEF First
  <2> QED BY <2>1, <2>2, <2>3
          DEF CloseBegin, CloseCopy, CloseMarshal, CloseRename, CloseFails, CloseMemory
<1>3. TypeOK'
  <2>1. CASE CloseBegin
    BY <1>2, <2>1 DEF WakeInv, TypeOK, CloseBegin, Stopped, memory, file
  <2>2. CASE CloseCopy \/ CloseMarshal
    BY <1>1, <1>2, <2>2 DEF WakeInv, TypeOK, CloseCopy, CloseMarshal, fields, memory, file
  <2>5. CASE CloseRename
    BY <1>1, <1>2, <2>5 DEF WakeInv, TypeOK, CloseRename, Written, fields, memory
  <2>3. CASE CloseFails
    <3>1. fails' \in Nat
      BY <2>3 DEF WakeInv, TypeOK, CloseFails
    <3> QED BY <1>2, <2>3, <3>1 DEF WakeInv, TypeOK, CloseFails, fields, memory, file
  <2>4. CASE CloseMemory
    BY <1>2, <2>4 DEF WakeInv, TypeOK, CloseMemory, fields, memory, file
  <2> QED BY <2>1, <2>2, <2>3, <2>4, <2>5
<1> QED BY <1>3 DEF WakeInv, DirtyHasTimer, CloseBegin, CloseCopy, CloseMarshal, CloseRename,
                    CloseFails, CloseMemory, fields

LEMMA WakeRestart == ASSUME WakeInv, Start \/ Crash \/ Exit PROVE WakeInv'
<1>1. TypeOK'
  <2>1. CASE Start
    BY <2>1 DEF WakeInv, TypeOK, Start, Opened, Unkeyed, Loaded, file
  <2>2. CASE Crash \/ Exit
    BY <2>2, GoneOrderly DEF WakeInv, OrderlyInv, Crash, Exit
  <2> QED BY <2>1, <2>2
<1> QED BY <1>1 DEF WakeInv, DirtyHasTimer, Start, Opened, Unkeyed, Crash, Exit, Gone

LEMMA WakeInductive == Spec => []WakeInv
<1>1. Init => WakeInv
  <2>1. Init => TypeOK
    BY InitOrderly DEF OrderlyInv
  <2> QED BY <2>1 DEF Init, WakeInv, DirtyHasTimer
<1>2. WakeInv /\ [Next]_vars => WakeInv'
  <2> SUFFICES ASSUME WakeInv, [Next]_vars
               PROVE  WakeInv'
    OBVIOUS
  <2>1. CASE UNCHANGED vars
    BY <2>1 DEF vars, fields, memory, file, WakeInv, TypeOK, DirtyHasTimer
  <2> QED BY <2>1, WakeRequests, WakeFire, WakeSaves, WakeClose, WakeRestart
          DEF Next, Requests, Callbacks, Closing
<1> QED BY <1>1, <1>2, PTL DEF Spec

\* The fields of fileVault, its goroutines and the file keep their types,
\* whatever overlaps.
THEOREM TypeCorrect == Spec => []TypeOK
<1>1. WakeInv => TypeOK
  BY DEF WakeInv
<1> QED BY <1>1, WakeInductive, PTL

\* No lost wake-up: a dirty vault has a timer running or a callback about to
\* look, even if callbacks overlap and Close comes in the middle of anything.
THEOREM NoLostWakeup == Spec => []DirtyHasTimer
<1>1. WakeInv => DirtyHasTimer
  BY DEF WakeInv
<1> QED BY <1>1, WakeInductive, PTL
=============================================================================
