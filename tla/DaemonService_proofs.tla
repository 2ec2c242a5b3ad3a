------------------------ MODULE DaemonService_proofs --------------------------
(***************************************************************************)
(* Proofs about DaemonService, for every set of folders and every bound on *)
(* the generations.                                                        *)
(***************************************************************************)
EXTENDS DaemonService, TLAPS

\* The mutex covers one save or one emission, and a daemon that is down keeps
\* nothing but its files.
Lock ==
    /\ saving = {} \/ telling = {}
    /\ saving # {} => up /\ spoiled
    /\ up => config \in Configs
    /\ ~up => /\ config = disk /\ running = {} /\ session = NoSession
              /\ signIn = 0 /\ telling = {}

\* A cancelled attempt is older than the generation, and whatever is alive is
\* the attempt in hand or the one a sign-out waits for, never both.
Gate ==
    /\ \A a \in Attempts : a > generation => stage[a] = "unborn"
    /\ awaited # 0 => signIn = 0 /\ awaited < generation
    /\ \A a \in Attempts : Alive(a) => a = signIn \/ a = awaited
    /\ \A a \in aborted : a < generation
    /\ out <= generation /\ signIn <= generation
    /\ \A a \in Attempts : a = generation /\ Alive(a) => out < a

\* The gate is closed while a sign-out waits.
Flag == cancelling = (awaited # 0)

\* The value being emitted, like the last one told, is that of the token file.
Signals ==
    /\ telling # {} => telling = {cached}
    /\ SignalsInOrder

IInv == Types /\ Lock /\ WorkersMatchConfig /\ ConfigIsOnDisk /\ Gate /\ Flag /\ Signals

-----------------------------------------------------------------------------
LEMMA InitIInv == Init => IInv
<1> SUFFICES ASSUME Init PROVE IInv
    OBVIOUS
<1>1. Types
  <2>1. up \in BOOLEAN /\ spoiled \in BOOLEAN /\ cached \in BOOLEAN /\ cancelling \in BOOLEAN
    BY DEF Init
  <2> QED
    BY <2>1, GenerationAssumption
    DEF Init, Types, Attempts, Stages, NoSession, Restored
<1>2. Lock
  BY DEF Init, Lock
<1>3. WorkersMatchConfig /\ ConfigIsOnDisk /\ Signals
  BY DEF Init, WorkersMatchConfig, ConfigIsOnDisk, Signals, SignalsInOrder
<1>4. Gate
  BY GenerationAssumption DEF Init, Gate, Attempts, Alive
<1>5. Flag
  BY DEF Init, Flag
<1> QED
  BY <1>1, <1>2, <1>3, <1>4, <1>5 DEF IInv

LEMMA StartKeepsIInv ==
    ASSUME IInv, Start
    PROVE  IInv'
<1>1. Types'
  <2>1. (up \in BOOLEAN /\ spoiled \in BOOLEAN /\ cached \in BOOLEAN /\ cancelling \in BOOLEAN)'
    BY DEF Start, IInv, Types, Blank
  <2>2. (config \in Configs \cup {Torn} /\ disk \in Configs \cup {Torn}
          /\ saving \in SUBSET (Folders \X Settings) /\ running \in SUBSET Folders)'
    BY DEF Start, IInv, Types, Lock, Configs, Settings, Enabled, Blank
  <2>3. (stage \in [Attempts -> Stages] /\ granted \in [Attempts -> BOOLEAN]
          /\ aborted \in SUBSET Attempts)'
    BY GenerationAssumption DEF Start, IInv, Types, Stages, Attempts, Blank
  <2>4. (generation \in 0..MaxGeneration /\ signIn \in 0..MaxGeneration
          /\ awaited \in 0..MaxGeneration /\ out \in 0..MaxGeneration
          /\ session \in 0..Restored)'
    BY GenerationAssumption DEF Start, IInv, Types, Attempts, NoSession, Restored, Blank
  <2>5. (telling \in SUBSET BOOLEAN /\ told \in SUBSET BOOLEAN)'
    BY DEF Start, IInv, Types, Blank
  <2> QED
    BY <2>1, <2>2, <2>3, <2>4, <2>5 DEF Types
<1>2. Lock'
  BY DEF Start, IInv, Lock, Types, LockFree, Blank
<1>3. (WorkersMatchConfig /\ ConfigIsOnDisk)'
  BY DEF Start, IInv, Types, Lock, WorkersMatchConfig, ConfigIsOnDisk, Enabled, Blank
<1>4. Gate'
  BY GenerationAssumption DEF Start, IInv, Types, Lock, Gate, Attempts, Alive, Blank
<1>5. Signals'
  BY DEF Start, IInv, Types, Lock, Signals, SignalsInOrder, LockFree, Blank
<1>6. Flag'
  BY DEF Start, IInv, Gate, Types, Lock, Flag, Blank
<1> QED
  BY <1>1, <1>2, <1>3, <1>4, <1>5, <1>6 DEF IInv

LEMMA CrashKeepsIInv ==
    ASSUME IInv, Crash
    PROVE  IInv'
<1>1. Types'
  <2>1. (up \in BOOLEAN /\ spoiled \in BOOLEAN /\ cached \in BOOLEAN /\ cancelling \in BOOLEAN)'
    BY DEF Crash, IInv, Types, Blank
  <2>2. (config \in Configs \cup {Torn} /\ disk \in Configs \cup {Torn}
          /\ saving \in SUBSET (Folders \X Settings) /\ running \in SUBSET Folders)'
    BY DEF Crash, IInv, Types, Lock, Configs, Settings, Enabled, Blank, Remains
  <2>3. (stage \in [Attempts -> Stages] /\ granted \in [Attempts -> BOOLEAN]
          /\ aborted \in SUBSET Attempts)'
    BY GenerationAssumption DEF Crash, IInv, Types, Stages, Attempts, Blank
  <2>4. (generation \in 0..MaxGeneration /\ signIn \in 0..MaxGeneration
          /\ awaited \in 0..MaxGeneration /\ out \in 0..MaxGeneration
          /\ session \in 0..Restored)'
    BY GenerationAssumption DEF Crash, IInv, Types, Attempts, NoSession, Restored, Blank
  <2>5. (telling \in SUBSET BOOLEAN /\ told \in SUBSET BOOLEAN)'
    BY DEF Crash, IInv, Types, Blank
  <2> QED
    BY <2>1, <2>2, <2>3, <2>4, <2>5 DEF Types
<1>2. Lock'
  BY DEF Crash, IInv, Lock, Types, LockFree, Blank
<1>3. (WorkersMatchConfig /\ ConfigIsOnDisk)'
  BY DEF Crash, IInv, Types, Lock, WorkersMatchConfig, ConfigIsOnDisk, Enabled, Blank
<1>4. Gate'
  BY GenerationAssumption DEF Crash, IInv, Types, Lock, Gate, Attempts, Alive, Blank
<1>5. Signals'
  BY DEF Crash, IInv, Types, Lock, Signals, SignalsInOrder, LockFree, Blank
<1>6. Flag'
  BY DEF Crash, IInv, Gate, Types, Lock, Flag, Blank
<1> QED
  BY <1>1, <1>2, <1>3, <1>4, <1>5, <1>6 DEF IInv

LEMMA BeginSaveKeepsIInv ==
    ASSUME IInv, NEW f \in Folders, NEW to \in Settings, BeginSave(f, to)
    PROVE  IInv'
<1>1. Types'
  <2>1. (up \in BOOLEAN /\ spoiled \in BOOLEAN /\ cached \in BOOLEAN /\ cancelling \in BOOLEAN)'
    BY DEF BeginSave, IInv, Types, gateVars, tokenVars
  <2>2. (config \in Configs \cup {Torn} /\ disk \in Configs \cup {Torn}
          /\ saving \in SUBSET (Folders \X Settings) /\ running \in SUBSET Folders)'
    BY DEF BeginSave, IInv, Types, Lock, Configs, Settings, Enabled, listVars
  <2>3. (stage \in [Attempts -> Stages] /\ granted \in [Attempts -> BOOLEAN]
          /\ aborted \in SUBSET Attempts)'
    BY GenerationAssumption DEF BeginSave, IInv, Types, Stages, Attempts, taskVars
  <2>4. (generation \in 0..MaxGeneration /\ signIn \in 0..MaxGeneration
          /\ awaited \in 0..MaxGeneration /\ out \in 0..MaxGeneration
          /\ session \in 0..Restored)'
    BY GenerationAssumption DEF BeginSave, IInv, Types, Attempts, NoSession, Restored,
       gateVars, tokenVars
  <2>5. (telling \in SUBSET BOOLEAN /\ told \in SUBSET BOOLEAN)'
    BY DEF BeginSave, IInv, Types, busVars
  <2> QED
    BY <2>1, <2>2, <2>3, <2>4, <2>5 DEF Types
<1>2. Lock'
  BY DEF BeginSave, IInv, Lock, Types, LockFree, listVars, gateVars, tokenVars, busVars
<1>3. (WorkersMatchConfig /\ ConfigIsOnDisk)'
  BY DEF BeginSave, IInv, Types, Lock, WorkersMatchConfig, ConfigIsOnDisk, Enabled, listVars
<1>4. Gate'
  BY GenerationAssumption DEF BeginSave, IInv, Types, Lock, Gate, Attempts, Alive, gateVars,
     taskVars
<1>5. Signals'
  BY DEF BeginSave, IInv, Types, Lock, Signals, SignalsInOrder, LockFree, tokenVars, busVars
<1>6. Flag'
  BY DEF BeginSave, IInv, Gate, Types, Lock, Flag, gateVars
<1> QED
  BY <1>1, <1>2, <1>3, <1>4, <1>5, <1>6 DEF IInv

LEMMA FinishSaveKeepsIInv ==
    ASSUME IInv, FinishSave
    PROVE  IInv'
<1>p. PICK change \in saving :
          /\ config' = [config EXCEPT ![change[1]] = change[2]]
          /\ running' = IF change[2] = "enabled" THEN running \cup {change[1]}
                                                   ELSE running \ {change[1]}
  BY DEF FinishSave
<1>q. change[1] \in Folders /\ change[2] \in Settings
  BY <1>p DEF IInv, Types
<1>0. PICK f \in Folders, to \in Settings :
          /\ config' = [config EXCEPT ![f] = to]
          /\ running' = IF to = "enabled" THEN running \cup {f} ELSE running \ {f}
  BY <1>p, <1>q
<1>a. up /\ config \in Configs /\ config' \in Configs /\ config'[f] = to
        /\ (\A g \in Folders \ {f} : config'[g] = config[g])
  BY <1>0, <1>p DEF FinishSave, IInv, Lock, Configs
<1>1. Types'
  <2>1. (up \in BOOLEAN /\ spoiled \in BOOLEAN /\ cached \in BOOLEAN /\ cancelling \in BOOLEAN)'
    BY DEF FinishSave, IInv, Types, gateVars, tokenVars
  <2>2. (config \in Configs \cup {Torn} /\ disk \in Configs \cup {Torn}
          /\ saving \in SUBSET (Folders \X Settings) /\ running \in SUBSET Folders)'
    BY DEF FinishSave, IInv, Types, Lock, Configs, Settings, Enabled
  <2>3. (stage \in [Attempts -> Stages] /\ granted \in [Attempts -> BOOLEAN]
          /\ aborted \in SUBSET Attempts)'
    BY GenerationAssumption DEF FinishSave, IInv, Types, Stages, Attempts, taskVars
  <2>4. (generation \in 0..MaxGeneration /\ signIn \in 0..MaxGeneration
          /\ awaited \in 0..MaxGeneration /\ out \in 0..MaxGeneration
          /\ session \in 0..Restored)'
    BY GenerationAssumption DEF FinishSave, IInv, Types, Attempts, NoSession, Restored,
       gateVars, tokenVars
  <2>5. (telling \in SUBSET BOOLEAN /\ told \in SUBSET BOOLEAN)'
    BY DEF FinishSave, IInv, Types, busVars
  <2> QED
    BY <2>1, <2>2, <2>3, <2>4, <2>5 DEF Types
<1>2. Lock'
  BY <1>a DEF FinishSave, IInv, Lock, tokenVars, busVars
<1>3. (WorkersMatchConfig /\ ConfigIsOnDisk)'
  BY <1>0, <1>a DEF FinishSave, IInv, WorkersMatchConfig, ConfigIsOnDisk, Enabled
<1>4. Gate'
  BY GenerationAssumption DEF FinishSave, IInv, Types, Lock, Gate, Attempts, Alive, gateVars,
     taskVars
<1>5. Signals'
  BY DEF FinishSave, IInv, Types, Lock, Signals, SignalsInOrder, LockFree, tokenVars, busVars
<1>6. Flag'
  BY DEF FinishSave, IInv, Gate, Types, Lock, Flag, gateVars
<1> QED
  BY <1>1, <1>2, <1>3, <1>4, <1>5, <1>6 DEF IInv

LEMMA FailSaveKeepsIInv ==
    ASSUME IInv, FailSave
    PROVE  IInv'
<1>1. Types'
  <2>1. (up \in BOOLEAN /\ spoiled \in BOOLEAN /\ cached \in BOOLEAN /\ cancelling \in BOOLEAN)'
    BY DEF FailSave, IInv, Types, gateVars, tokenVars
  <2>2. (config \in Configs \cup {Torn} /\ disk \in Configs \cup {Torn}
          /\ saving \in SUBSET (Folders \X Settings) /\ running \in SUBSET Folders)'
    BY DEF FailSave, IInv, Types, Lock, Configs, Settings, Enabled, listVars, Remains
  <2>3. (stage \in [Attempts -> Stages] /\ granted \in [Attempts -> BOOLEAN]
          /\ aborted \in SUBSET Attempts)'
    BY GenerationAssumption DEF FailSave, IInv, Types, Stages, Attempts, taskVars
  <2>4. (generation \in 0..MaxGeneration /\ signIn \in 0..MaxGeneration
          /\ awaited \in 0..MaxGeneration /\ out \in 0..MaxGeneration
          /\ session \in 0..Restored)'
    BY GenerationAssumption DEF FailSave, IInv, Types, Attempts, NoSession, Restored,
       gateVars, tokenVars
  <2>5. (telling \in SUBSET BOOLEAN /\ told \in SUBSET BOOLEAN)'
    BY DEF FailSave, IInv, Types, busVars
  <2> QED
    BY <2>1, <2>2, <2>3, <2>4, <2>5 DEF Types
<1>2. Lock'
  BY DEF FailSave, IInv, Lock, Types, LockFree, listVars, gateVars, tokenVars, busVars
<1>3. (WorkersMatchConfig /\ ConfigIsOnDisk)'
  BY DEF FailSave, IInv, Types, Lock, WorkersMatchConfig, ConfigIsOnDisk, Enabled, listVars
<1>4. Gate'
  BY GenerationAssumption DEF FailSave, IInv, Types, Lock, Gate, Attempts, Alive, gateVars,
     taskVars
<1>5. Signals'
  BY DEF FailSave, IInv, Types, Lock, Signals, SignalsInOrder, LockFree, tokenVars, busVars
<1>6. Flag'
  BY DEF FailSave, IInv, Gate, Types, Lock, Flag, gateVars
<1> QED
  BY <1>1, <1>2, <1>3, <1>4, <1>5, <1>6 DEF IInv

LEMMA WorkerEndsKeepsIInv ==
    ASSUME IInv, WorkerEnds
    PROVE  IInv'
<1>1. Types'
  <2>1. (up \in BOOLEAN /\ spoiled \in BOOLEAN /\ cached \in BOOLEAN /\ cancelling \in BOOLEAN)'
    BY DEF WorkerEnds, IInv, Types, diskVars, gateVars, tokenVars
  <2>2. (config \in Configs \cup {Torn} /\ disk \in Configs \cup {Torn}
          /\ saving \in SUBSET (Folders \X Settings) /\ running \in SUBSET Folders)'
    BY DEF WorkerEnds, IInv, Types, Lock, Configs, Settings, Enabled, diskVars
  <2>3. (stage \in [Attempts -> Stages] /\ granted \in [Attempts -> BOOLEAN]
          /\ aborted \in SUBSET Attempts)'
    BY GenerationAssumption DEF WorkerEnds, IInv, Types, Stages, Attempts, taskVars
  <2>4. (generation \in 0..MaxGeneration /\ signIn \in 0..MaxGeneration
          /\ awaited \in 0..MaxGeneration /\ out \in 0..MaxGeneration
          /\ session \in 0..Restored)'
    BY GenerationAssumption DEF WorkerEnds, IInv, Types, Attempts, NoSession, Restored,
       gateVars, tokenVars
  <2>5. (telling \in SUBSET BOOLEAN /\ told \in SUBSET BOOLEAN)'
    BY DEF WorkerEnds, IInv, Types, busVars
  <2> QED
    BY <2>1, <2>2, <2>3, <2>4, <2>5 DEF Types
<1>2. Lock'
  BY DEF WorkerEnds, IInv, Lock, Types, LockFree, diskVars, gateVars, tokenVars, busVars
<1>3. (WorkersMatchConfig /\ ConfigIsOnDisk)'
  BY DEF WorkerEnds, IInv, Types, Lock, WorkersMatchConfig, ConfigIsOnDisk, Enabled, diskVars
<1>4. Gate'
  BY GenerationAssumption DEF WorkerEnds, IInv, Types, Lock, Gate, Attempts, Alive, gateVars,
     taskVars
<1>5. Signals'
  BY DEF WorkerEnds, IInv, Types, Lock, Signals, SignalsInOrder, LockFree, tokenVars, busVars
<1>6. Flag'
  BY DEF WorkerEnds, IInv, Gate, Types, Lock, Flag, gateVars
<1> QED
  BY <1>1, <1>2, <1>3, <1>4, <1>5, <1>6 DEF IInv

LEMMA SignInKeepsIInv ==
    ASSUME IInv, SignIn
    PROVE  IInv'
<1>0. awaited = 0 /\ (signIn = 0 \/ stage[signIn] = "ended")
  BY DEF SignIn, Busy, IInv, Flag
<1>1. Types'
  <2>1. (up \in BOOLEAN /\ spoiled \in BOOLEAN /\ cached \in BOOLEAN /\ cancelling \in BOOLEAN)'
    BY DEF SignIn, IInv, Types, diskVars, tokenVars
  <2>2. (config \in Configs \cup {Torn} /\ disk \in Configs \cup {Torn}
          /\ saving \in SUBSET (Folders \X Settings) /\ running \in SUBSET Folders)'
    BY DEF SignIn, IInv, Types, Lock, Configs, Settings, Enabled, diskVars, listVars
  <2>3. (stage \in [Attempts -> Stages] /\ granted \in [Attempts -> BOOLEAN]
          /\ aborted \in SUBSET Attempts)'
    BY GenerationAssumption DEF SignIn, IInv, Types, Stages, Attempts
  <2>4. (generation \in 0..MaxGeneration /\ signIn \in 0..MaxGeneration
          /\ awaited \in 0..MaxGeneration /\ out \in 0..MaxGeneration
          /\ session \in 0..Restored)'
    BY GenerationAssumption DEF SignIn, IInv, Types, Attempts, NoSession, Restored, tokenVars
  <2>5. (telling \in SUBSET BOOLEAN /\ told \in SUBSET BOOLEAN)'
    BY DEF SignIn, IInv, Types, busVars
  <2> QED
    BY <2>1, <2>2, <2>3, <2>4, <2>5 DEF Types
<1>2. Lock'
  BY DEF SignIn, IInv, Lock, Types, LockFree, diskVars, listVars, tokenVars, busVars
<1>3. (WorkersMatchConfig /\ ConfigIsOnDisk)'
  BY DEF SignIn, IInv, Types, Lock, WorkersMatchConfig, ConfigIsOnDisk, Enabled, diskVars,
     listVars
<1>4. Gate'
  BY <1>0, GenerationAssumption DEF SignIn, IInv, Types, Gate, Attempts, Alive
<1>5. Signals'
  BY DEF SignIn, IInv, Types, Lock, Signals, SignalsInOrder, LockFree, tokenVars, busVars
<1>6. Flag'
  BY DEF SignIn, IInv, Gate, Types, Lock, Flag
<1> QED
  BY <1>1, <1>2, <1>3, <1>4, <1>5, <1>6 DEF IInv

LEMMA MovesKeepIInv ==
    ASSUME IInv, NEW a \in Attempts, NEW from \in Stages, NEW to \in Stages,
           from \notin {"unborn", "ended"}, to # "unborn",
           granted' \in [Attempts -> BOOLEAN], Moves(a, from, to)
    PROVE  IInv'
<1>1. Types'
  <2>1. (up \in BOOLEAN /\ spoiled \in BOOLEAN /\ cached \in BOOLEAN /\ cancelling \in BOOLEAN)'
    BY DEF Moves, IInv, Types, diskVars, gateVars, tokenVars
  <2>2. (config \in Configs \cup {Torn} /\ disk \in Configs \cup {Torn}
          /\ saving \in SUBSET (Folders \X Settings) /\ running \in SUBSET Folders)'
    BY DEF Moves, IInv, Types, Lock, Configs, Settings, Enabled, diskVars, listVars
  <2>3. (stage \in [Attempts -> Stages] /\ granted \in [Attempts -> BOOLEAN]
          /\ aborted \in SUBSET Attempts)'
    BY GenerationAssumption DEF Moves, IInv, Types, Stages, Attempts
  <2>4. (generation \in 0..MaxGeneration /\ signIn \in 0..MaxGeneration
          /\ awaited \in 0..MaxGeneration /\ out \in 0..MaxGeneration
          /\ session \in 0..Restored)'
    BY GenerationAssumption DEF Moves, IInv, Types, Attempts, NoSession, Restored, gateVars,
       tokenVars
  <2>5. (telling \in SUBSET BOOLEAN /\ told \in SUBSET BOOLEAN)'
    BY DEF Moves, IInv, Types, busVars
  <2> QED
    BY <2>1, <2>2, <2>3, <2>4, <2>5 DEF Types
<1>2. Lock'
  BY DEF Moves, IInv, Lock, Types, LockFree, diskVars, listVars, gateVars, tokenVars, busVars
<1>3. (WorkersMatchConfig /\ ConfigIsOnDisk)'
  BY DEF Moves, IInv, Types, Lock, WorkersMatchConfig, ConfigIsOnDisk, Enabled, diskVars,
     listVars
<1>4. Gate'
  BY GenerationAssumption DEF Moves, IInv, Types, Lock, Gate, Attempts, Alive, gateVars
<1>5. Signals'
  BY DEF Moves, IInv, Types, Lock, Signals, SignalsInOrder, LockFree, tokenVars, busVars
<1>6. Flag'
  BY DEF Moves, IInv, Gate, Types, Lock, Flag, gateVars
<1> QED
  BY <1>1, <1>2, <1>3, <1>4, <1>5, <1>6 DEF IInv

LEMMA CompleteKeepsIInv ==
    ASSUME IInv, NEW a \in Attempts, CompleteSignIn(a)
    PROVE  IInv'
<1>0. /\ signIn' \in {0, signIn} /\ session' \in {a, session}
      /\ generation = a => signIn' = 0
      /\ stage' = [stage EXCEPT ![a] = "ended"]
      /\ UNCHANGED <<generation, awaited, out, cancelling, aborted>>
      /\ stage[a] \in {"answered", "queued"}
  BY DEF CompleteSignIn, tokenVars
<1>1. Types'
  <2>1. (up \in BOOLEAN /\ spoiled \in BOOLEAN /\ cached \in BOOLEAN /\ cancelling \in BOOLEAN)'
    BY DEF CompleteSignIn, IInv, Types, diskVars, tokenVars
  <2>2. (config \in Configs \cup {Torn} /\ disk \in Configs \cup {Torn}
          /\ saving \in SUBSET (Folders \X Settings) /\ running \in SUBSET Folders)'
    BY DEF CompleteSignIn, IInv, Types, Lock, Configs, Settings, Enabled, diskVars
  <2>3. (stage \in [Attempts -> Stages] /\ granted \in [Attempts -> BOOLEAN]
          /\ aborted \in SUBSET Attempts)'
    BY GenerationAssumption DEF CompleteSignIn, IInv, Types, Stages, Attempts
  <2>4. (generation \in 0..MaxGeneration /\ signIn \in 0..MaxGeneration
          /\ awaited \in 0..MaxGeneration /\ out \in 0..MaxGeneration
          /\ session \in 0..Restored)'
    BY <1>0, GenerationAssumption DEF IInv, Types, Attempts, Restored
  <2>5. (telling \in SUBSET BOOLEAN /\ told \in SUBSET BOOLEAN)'
    BY DEF CompleteSignIn, IInv, Types
  <2> QED
    BY <2>1, <2>2, <2>3, <2>4, <2>5 DEF Types
<1>2. Lock'
  BY DEF CompleteSignIn, IInv, Lock, Types, LockFree, diskVars, tokenVars
<1>3. (WorkersMatchConfig /\ ConfigIsOnDisk)'
  BY DEF CompleteSignIn, IInv, Types, Lock, WorkersMatchConfig, ConfigIsOnDisk, Enabled,
     diskVars
<1>4. Gate'
  BY <1>0, GenerationAssumption DEF IInv, Types, Gate, Attempts, Alive
<1>5. Signals'
  BY DEF CompleteSignIn, IInv, Types, Lock, Signals, SignalsInOrder, LockFree, tokenVars
<1>6. Flag'
  BY DEF CompleteSignIn, IInv, Gate, Types, Lock, Flag
<1> QED
  BY <1>1, <1>2, <1>3, <1>4, <1>5, <1>6 DEF IInv

LEMMA SignOutKeepsIInv ==
    ASSUME IInv, SignOut
    PROVE  IInv'
<1>0. /\ UNCHANGED <<stage, granted>> /\ out' = generation'
      /\ awaited # 0 => UNCHANGED <<generation, signIn, awaited, aborted>>
      /\ awaited = 0 => /\ generation < MaxGeneration /\ generation' = generation + 1
                        /\ signIn' = 0 /\ awaited' = signIn
                        /\ aborted' = IF signIn = 0 THEN aborted ELSE aborted \cup {signIn}
  BY DEF SignOut, Cancel, IInv, Flag, gateVars, taskVars
<1>t. /\ generation \in 0..MaxGeneration /\ signIn \in 0..MaxGeneration
      /\ awaited \in 0..MaxGeneration
      /\ aborted \in SUBSET Attempts /\ Gate
  BY DEF IInv, Types
<1>a. aborted' \in SUBSET Attempts
  <2>1. CASE awaited # 0
    BY <1>0, <1>t, <2>1
  <2>2. CASE awaited = 0
    <3>1. aborted' = IF signIn = 0 THEN aborted ELSE aborted \cup {signIn}
      BY <1>0, <2>2
    <3>2. signIn # 0 => signIn \in Attempts
      BY <1>t, GenerationAssumption DEF Attempts
    <3> QED
      BY <1>t, <3>1, <3>2
  <2> QED
    BY <2>1, <2>2
<1>1. Types'
  <2>1. (up \in BOOLEAN /\ spoiled \in BOOLEAN /\ cached \in BOOLEAN /\ cancelling \in BOOLEAN)'
    BY DEF SignOut, IInv, Types, diskVars, gateVars, Cancel
  <2>2. (config \in Configs \cup {Torn} /\ disk \in Configs \cup {Torn}
          /\ saving \in SUBSET (Folders \X Settings) /\ running \in SUBSET Folders)'
    BY DEF SignOut, IInv, Types, Lock, Configs, Settings, Enabled, diskVars
  <2>3. (stage \in [Attempts -> Stages] /\ granted \in [Attempts -> BOOLEAN]
          /\ aborted \in SUBSET Attempts)'
    BY <1>0, <1>a DEF IInv, Types
  <2>4. (generation \in 0..MaxGeneration /\ signIn \in 0..MaxGeneration
          /\ awaited \in 0..MaxGeneration /\ out \in 0..MaxGeneration
          /\ session \in 0..Restored)'
    BY GenerationAssumption DEF SignOut, IInv, Types, Attempts, NoSession, Restored,
       gateVars, Cancel
  <2>5. (telling \in SUBSET BOOLEAN /\ told \in SUBSET BOOLEAN)'
    BY DEF SignOut, IInv, Types
  <2> QED
    BY <2>1, <2>2, <2>3, <2>4, <2>5 DEF Types
<1>2. Lock'
  BY DEF SignOut, IInv, Lock, Types, LockFree, diskVars, gateVars, Cancel
<1>3. (WorkersMatchConfig /\ ConfigIsOnDisk)'
  BY DEF SignOut, IInv, Types, Lock, WorkersMatchConfig, ConfigIsOnDisk, Enabled, diskVars
<1>4. Gate'
  <2>1. CASE awaited # 0
    <3>1. /\ generation' = generation /\ signIn' = signIn /\ awaited' = awaited
          /\ aborted' = aborted /\ stage' = stage /\ out' = generation
      BY <1>0, <2>1
    <3> QED
      BY <3>1, <1>t, <2>1, GenerationAssumption DEF Gate, Attempts, Alive
  <2>2. CASE awaited = 0
    <3>1. /\ generation' = generation + 1 /\ signIn' = 0 /\ awaited' = signIn
          /\ stage' = stage /\ out' = generation + 1
          /\ aborted' = IF signIn = 0 THEN aborted ELSE aborted \cup {signIn}
      BY <1>0, <2>2
    <3>2. \A a \in aborted' : a < generation'
      BY <3>1, <1>t, GenerationAssumption DEF Gate, Attempts
    <3>3. \A a \in Attempts : Alive(a)' => a = awaited' /\ a <= generation
      BY <3>1, <1>t, <2>2, GenerationAssumption DEF Gate, Attempts, Alive
    <3>4. \A a \in Attempts : a > generation' => stage'[a] = "unborn"
      BY <3>1, <1>t, GenerationAssumption DEF Gate, Attempts
    <3>5. \A a \in Attempts : a = generation' /\ Alive(a)' => out' < a
      BY <3>1, <3>3, <1>t, GenerationAssumption DEF Attempts
    <3> QED
      BY <3>1, <3>2, <3>3, <3>4, <3>5, <1>t, GenerationAssumption DEF Gate
  <2> QED
    BY <2>1, <2>2
<1>5. Signals'
  BY DEF SignOut, IInv, Types, Lock, Signals, SignalsInOrder, LockFree
<1>6. Flag'
  BY DEF SignOut, IInv, Gate, Types, Lock, Flag, gateVars, Cancel
<1> QED
  BY <1>1, <1>2, <1>3, <1>4, <1>5, <1>6 DEF IInv

LEMMA FinishCancellationKeepsIInv ==
    ASSUME IInv, NEW e \in BOOLEAN, FinishCancellation(e)
    PROVE  IInv'
<1>1. Types'
  <2>1. (up \in BOOLEAN /\ spoiled \in BOOLEAN /\ cached \in BOOLEAN /\ cancelling \in BOOLEAN)'
    BY DEF FinishCancellation, IInv, Types, diskVars, tokenVars
  <2>2. (config \in Configs \cup {Torn} /\ disk \in Configs \cup {Torn}
          /\ saving \in SUBSET (Folders \X Settings) /\ running \in SUBSET Folders)'
    BY DEF FinishCancellation, IInv, Types, Lock, Configs, Settings, Enabled, diskVars,
       listVars
  <2>3. (stage \in [Attempts -> Stages] /\ granted \in [Attempts -> BOOLEAN]
          /\ aborted \in SUBSET Attempts)'
    BY GenerationAssumption DEF FinishCancellation, IInv, Types, Stages, Attempts, taskVars
  <2>4. (generation \in 0..MaxGeneration /\ signIn \in 0..MaxGeneration
          /\ awaited \in 0..MaxGeneration /\ out \in 0..MaxGeneration
          /\ session \in 0..Restored)'
    BY GenerationAssumption DEF FinishCancellation, IInv, Types, Attempts, NoSession,
       Restored, tokenVars
  <2>5. (telling \in SUBSET BOOLEAN /\ told \in SUBSET BOOLEAN)'
    BY DEF FinishCancellation, IInv, Types, busVars
  <2> QED
    BY <2>1, <2>2, <2>3, <2>4, <2>5 DEF Types
<1>2. Lock'
  BY DEF FinishCancellation, IInv, Lock, Types, LockFree, diskVars, listVars, tokenVars,
     busVars
<1>3. (WorkersMatchConfig /\ ConfigIsOnDisk)'
  BY DEF FinishCancellation, IInv, Types, Lock, WorkersMatchConfig, ConfigIsOnDisk, Enabled,
     diskVars, listVars
<1>4. Gate'
  BY GenerationAssumption DEF FinishCancellation, IInv, Types, Lock, Gate, Attempts, Alive,
     taskVars
<1>5. Signals'
  BY DEF FinishCancellation, IInv, Types, Lock, Signals, SignalsInOrder, LockFree, tokenVars,
     busVars
<1>6. Flag'
  BY DEF FinishCancellation, IInv, Gate, Types, Lock, Flag
<1> QED
  BY <1>1, <1>2, <1>3, <1>4, <1>5, <1>6 DEF IInv

LEMMA NotifiedKeepsIInv ==
    ASSUME IInv, Notified
    PROVE  IInv'
<1>1. Types'
  <2>1. (up \in BOOLEAN /\ spoiled \in BOOLEAN /\ cached \in BOOLEAN /\ cancelling \in BOOLEAN)'
    BY DEF Notified, IInv, Types, diskVars, gateVars, tokenVars
  <2>2. (config \in Configs \cup {Torn} /\ disk \in Configs \cup {Torn}
          /\ saving \in SUBSET (Folders \X Settings) /\ running \in SUBSET Folders)'
    BY DEF Notified, IInv, Types, Lock, Configs, Settings, Enabled, diskVars, listVars
  <2>3. (stage \in [Attempts -> Stages] /\ granted \in [Attempts -> BOOLEAN]
          /\ aborted \in SUBSET Attempts)'
    BY GenerationAssumption DEF Notified, IInv, Types, Stages, Attempts, taskVars
  <2>4. (generation \in 0..MaxGeneration /\ signIn \in 0..MaxGeneration
          /\ awaited \in 0..MaxGeneration /\ out \in 0..MaxGeneration
          /\ session \in 0..Restored)'
    BY GenerationAssumption DEF Notified, IInv, Types, Attempts, NoSession, Restored,
       gateVars, tokenVars
  <2>5. (telling \in SUBSET BOOLEAN /\ told \in SUBSET BOOLEAN)'
    BY DEF Notified, IInv, Types
  <2> QED
    BY <2>1, <2>2, <2>3, <2>4, <2>5 DEF Types
<1>2. Lock'
  BY DEF Notified, IInv, Lock, Types, LockFree, diskVars, listVars, gateVars, tokenVars
<1>3. (WorkersMatchConfig /\ ConfigIsOnDisk)'
  BY DEF Notified, IInv, Types, Lock, WorkersMatchConfig, ConfigIsOnDisk, Enabled, diskVars,
     listVars
<1>4. Gate'
  BY GenerationAssumption DEF Notified, IInv, Types, Lock, Gate, Attempts, Alive, gateVars,
     taskVars
<1>5. Signals'
  BY DEF Notified, IInv, Types, Lock, Signals, SignalsInOrder, LockFree, tokenVars
<1>6. Flag'
  BY DEF Notified, IInv, Gate, Types, Lock, Flag, gateVars
<1> QED
  BY <1>1, <1>2, <1>3, <1>4, <1>5, <1>6 DEF IInv

LEMMA TaskKeepsIInv ==
    ASSUME IInv, NEW a \in Attempts, Task(a)
    PROVE  IInv'
<1>1. granted \in [Attempts -> BOOLEAN]
  BY DEF IInv, Types
<1>2. CASE OpenBrowser(a)
  BY <1>1, <1>2, MovesKeepIInv DEF OpenBrowser, Stages
<1>3. CASE Bind(a)
  BY <1>1, <1>3, MovesKeepIInv DEF Bind, Stages
<1>4. CASE Redirected(a)
  BY <1>1, <1>4, MovesKeepIInv DEF Redirected, Stages
<1>5. CASE Answered(a)
  BY <1>1, <1>5, MovesKeepIInv DEF Answered, Stages
<1>6. CASE Queue(a)
  BY <1>1, <1>6, MovesKeepIInv DEF Queue, Stages
<1>7. CASE CompleteSignIn(a)
  BY <1>7, CompleteKeepsIInv
<1>8. CASE Drop(a)
  BY <1>1, <1>8, MovesKeepIInv DEF Drop, Stages
<1> QED
  BY <1>2, <1>3, <1>4, <1>5, <1>6, <1>7, <1>8 DEF Task

LEMMA FolderCallKeepsIInv == IInv /\ FolderCall => IInv'
BY BeginSaveKeepsIInv DEF FolderCall, AddSyncFolder, SetFolderEnabled, RemoveSyncFolder

LEMMA StutterKeepsIInv == IInv /\ UNCHANGED vars => IInv'
BY DEF vars, diskVars, listVars, gateVars, taskVars, tokenVars, busVars, IInv, Types,
   Lock, WorkersMatchConfig, ConfigIsOnDisk, Gate, Flag, Signals, SignalsInOrder, Enabled, Alive

LEMMA NextKeepsIInv == IInv /\ [Next]_vars => IInv'
BY StartKeepsIInv, CrashKeepsIInv, FolderCallKeepsIInv, FinishSaveKeepsIInv,
   FailSaveKeepsIInv, WorkerEndsKeepsIInv, SignInKeepsIInv, SignOutKeepsIInv,
   NotifiedKeepsIInv, TaskKeepsIInv, FinishCancellationKeepsIInv, StutterKeepsIInv
DEF Next

LEMMA Invariance == Spec => []IInv
BY InitIInv, NextKeepsIInv, PTL DEF Spec

-----------------------------------------------------------------------------
(* The invariants.                                                         *)

\* Every variable of the service keeps its type, the state mutex has one holder,
\* and the gate is closed exactly while a sign-out waits for a task.
THEOREM TypeCorrect == Spec => []TypeOK
<1>1. IInv => TypeOK
  <2> SUFFICES ASSUME IInv PROVE TypeOK
    OBVIOUS
  <2>1. cancelling <=> awaited # 0
    BY DEF IInv, Types, Flag
  <2> QED
    BY <2>1 DEF IInv, Lock, TypeOK
<1> QED
  BY <1>1, Invariance, PTL

\* No interleaving of folder calls, failed saves, sign-ins, sign-outs and
\* crashes leaves a worker running for a folder that is not enabled.
THEOREM NoStrayWorker == Spec => []WorkersMatchConfig
<1>1. IInv => WorkersMatchConfig
  BY DEF IInv
<1> QED
  BY <1>1, Invariance, PTL

\* Unless a save was cut short or failed, the file is the configuration.
THEOREM ConfigurationIsSaved == Spec => []ConfigIsOnDisk
<1>1. IInv => ConfigIsOnDisk
  BY DEF IInv
<1> QED
  BY <1>1, Invariance, PTL

\* Two browser sign-ins never overlap, the cancelled ones included.
THEOREM SignInsExcludeEachOther == Spec => []OneSignInAtATime
<1>1. IInv => OneSignInAtATime
  BY GenerationAssumption DEF IInv, Types, Gate, OneSignInAtATime, Attempts, Alive
<1> QED
  BY <1>1, Invariance, PTL

\* AuthenticationChanged signals are emitted in the order of the changes.
THEOREM SignalsAreOrdered == Spec => []SignalsInOrder
<1>1. IInv => SignalsInOrder
  BY DEF IInv, Signals
<1> QED
  BY <1>1, Invariance, PTL

\* A sign-in that was signed out never installs its tokens.
THEOREM LateAnswersAreIgnored == Spec => CancelledStaysOut
<1> DEFINE Stays == session' \in Attempts /\ session' # session => session' > out
<1>1. IInv /\ [Next]_vars => [Stays]_vars
  <2> SUFFICES ASSUME IInv, Next, session' \in Attempts, session' # session
               PROVE  session' > out
    OBVIOUS
  <2>0. session' # NoSession /\ session' # Restored
    BY GenerationAssumption DEF Attempts, NoSession, Restored
  <2>1. \E a \in Attempts : CompleteSignIn(a)
    <3>1. ~Start /\ ~Crash /\ ~SignOut
      BY <2>0 DEF Start, Crash, SignOut
    <3>2. ~FolderCall /\ ~FinishSave /\ ~FailSave /\ ~WorkerEnds /\ ~SignIn /\ ~Notified
      BY DEF FolderCall, AddSyncFolder, SetFolderEnabled, RemoveSyncFolder, BeginSave,
             FinishSave, FailSave, WorkerEnds, SignIn, Notified, tokenVars
    <3>3. \A e \in BOOLEAN : ~FinishCancellation(e)
      BY DEF FinishCancellation, tokenVars
    <3>4. \A a \in Attempts : Task(a) => CompleteSignIn(a)
      BY DEF Task, OpenBrowser, Bind, Redirected, Answered, Queue, Drop, Moves, tokenVars
    <3> QED
      BY <3>1, <3>2, <3>3, <3>4 DEF Next
  <2>2. PICK a \in Attempts : CompleteSignIn(a)
    BY <2>1
  <2>3. generation = a /\ session' = a /\ Alive(a)
    BY <2>2 DEF CompleteSignIn, tokenVars, Alive
  <2>4. out < a
    BY <2>3 DEF IInv, Gate
  <2> QED
    BY <2>3, <2>4, GenerationAssumption DEF IInv, Types, Attempts
<1> QED
  BY <1>1, Invariance, PTL DEF Spec, CancelledStaysOut

-----------------------------------------------------------------------------
(* The refinement.                                                         *)

\* The attempt that may still open a session, as the refinement maps it.
Pending == IF signIn # 0 /\ signIn = generation /\ stage[signIn] # "ended" THEN signIn ELSE 0

LEMMA InitImplements == Init => Promise!Init
BY DEF Init, Promise!Init, Configs, Settings, NoSession, Promise!NoSession

LEMMA StartImplements == IInv /\ Start => Promise!StartDaemon
<1> SUFFICES ASSUME IInv, Start PROVE Promise!StartDaemon
    OBVIOUS
<1>1. Pending = 0 /\ Pending' = 0 /\ config' = config
  BY DEF Pending, IInv, Lock, Start, Blank
<1>2. Promise!Enabled = Enabled(disk)
  BY DEF Promise!Enabled, Enabled, Start, IInv, Lock
<1> QED
  BY <1>1, <1>2 DEF Start, Pending, Promise!StartDaemon, Restored, Promise!Restored,
     NoSession, Promise!NoSession

LEMMA CrashImplements == IInv /\ Crash => Promise!StopDaemon
<1> SUFFICES ASSUME IInv, Crash PROVE Promise!StopDaemon
    OBVIOUS
<1>1. Pending' = 0
  BY DEF Pending, Crash, Blank
<1>2. config' \in [Folders -> {"absent", "enabled", "disabled", "torn"}]
  <2>1. config' \in Configs \cup {Torn}
    BY CrashKeepsIInv DEF IInv, Types
  <2> QED
    BY <2>1 DEF Configs, Settings, Torn
<1>3. config' = config \/ spoiled
  BY DEF Crash, IInv, Lock, ConfigIsOnDisk
<1> QED
  BY <1>1, <1>2, <1>3 DEF Crash, Pending, Promise!StopDaemon, NoSession, Promise!NoSession

LEMMA FolderCallImplements == IInv /\ FolderCall => Promise!Expose
<1> SUFFICES ASSUME IInv, NEW f \in Folders, NEW to \in Settings, BeginSave(f, to)
             PROVE  Promise!Expose
    BY DEF FolderCall, AddSyncFolder, SetFolderEnabled, RemoveSyncFolder
<1>1. Pending' = Pending
  BY DEF Pending, BeginSave, gateVars, taskVars
<1> QED
  BY <1>1 DEF BeginSave, listVars, tokenVars, Pending, Promise!Expose

LEMMA FinishSaveImplements == IInv /\ FinishSave => Promise!Configure
<1> SUFFICES ASSUME IInv, FinishSave PROVE Promise!Configure
    OBVIOUS
<1>1. Pending' = Pending
  BY DEF Pending, FinishSave, gateVars, taskVars
<1>2. PICK change \in saving :
          /\ config' = [config EXCEPT ![change[1]] = change[2]]
          /\ running' = IF change[2] = "enabled" THEN running \cup {change[1]}
                                                 ELSE running \ {change[1]}
  BY DEF FinishSave
<1>3. change[1] \in Folders /\ change[2] \in {"absent", "enabled", "disabled"}
  BY DEF IInv, Types, Settings
<1> QED
  BY <1>1, <1>2, <1>3 DEF FinishSave, tokenVars, Pending, Promise!Configure

LEMMA SignInImplements == IInv /\ SignIn => Promise!Open
<1> SUFFICES ASSUME IInv, SignIn PROVE Promise!Open
    OBVIOUS
<1>1. generation' \in Attempts /\ stage'[generation'] = "spawned"
  BY GenerationAssumption DEF SignIn, IInv, Types, Attempts
<1>2. Pending = 0
  BY DEF Pending, SignIn, Busy
<1>3. Pending' = generation'
  BY <1>1 DEF Pending, SignIn, Attempts
<1> QED
  BY <1>1, <1>2, <1>3 DEF SignIn, listVars, tokenVars, diskVars, Pending, Promise!Open,
     Attempts, Promise!Attempts

LEMMA MovesImplements ==
    ASSUME IInv, NEW a \in Attempts, NEW from, NEW to, Moves(a, from, to),
           from # "ended", to = "ended" => a \in aborted
    PROVE  UNCHANGED Promise!vars
<1>1. UNCHANGED <<signIn, generation>> /\ stage' = [stage EXCEPT ![a] = to] /\ stage[a] = from
  BY DEF Moves, gateVars
<1>2. Pending' = Pending
  <2>1. CASE signIn = a /\ to = "ended"
    BY <1>1, <2>1, GenerationAssumption DEF Pending, IInv, Gate, Attempts
  <2>2. CASE signIn = a /\ to # "ended"
    BY <1>1, <2>2 DEF Pending, IInv, Types
  <2>3. CASE signIn # a
    BY <1>1, <2>3 DEF Pending, IInv, Types
  <2> QED
    BY <2>1, <2>2, <2>3
<1> QED
  BY <1>2 DEF Moves, diskVars, listVars, tokenVars, Pending, Promise!vars

LEMMA CompleteImplements ==
    ASSUME IInv, NEW a \in Attempts, CompleteSignIn(a)
    PROVE  Promise!Complete \/ Promise!Abandon \/ UNCHANGED Promise!vars
<1>1. stage[a] # "ended" /\ stage' = [stage EXCEPT ![a] = "ended"] /\ generation' = generation
  BY DEF CompleteSignIn
<1>2. CASE generation # a
  <2>1. Pending' = Pending
    BY <1>1, <1>2 DEF CompleteSignIn, Pending, IInv, Types
  <2> QED
    BY <1>2, <2>1 DEF CompleteSignIn, diskVars, tokenVars, Pending, Promise!vars
<1>3. CASE generation = a
  <2>1. signIn = a
    BY <1>1, <1>3, GenerationAssumption DEF IInv, Types, Gate, Attempts, Alive, CompleteSignIn
  <2>2. Pending = a /\ Pending' = 0 /\ a # 0
    BY <1>1, <1>3, <2>1, GenerationAssumption DEF Pending, CompleteSignIn, Attempts
  <2>3. CASE UNCHANGED <<tokenVars, running, telling>>
    BY <2>2, <2>3 DEF CompleteSignIn, diskVars, tokenVars, Pending, Promise!Abandon
  <2>4. CASE cached' = TRUE /\ session' = a /\ running' = running \cup Enabled(config)
    <3>1. running' = Promise!Enabled
      BY <2>4 DEF IInv, WorkersMatchConfig, Enabled, Promise!Enabled
    <3> QED
      BY <2>2, <2>4, <3>1 DEF CompleteSignIn, diskVars, Pending, Promise!Complete
  <2> QED
    BY <1>3, <2>3, <2>4 DEF CompleteSignIn
<1> QED
  BY <1>2, <1>3

LEMMA SignOutImplements == IInv /\ SignOut => Promise!SignOut
<1> SUFFICES ASSUME IInv, SignOut PROVE Promise!SignOut
    OBVIOUS
<1>1. running' = {}
  BY DEF SignOut, IInv, Types, WorkersMatchConfig, Enabled
<1>2. signIn' = 0
  BY DEF SignOut, Cancel, IInv, Gate, Flag, gateVars
<1>3. Pending' = 0
  BY <1>2 DEF Pending
<1>4. cached' \in {FALSE, cached}
  BY DEF SignOut
<1> QED
  BY <1>1, <1>3, <1>4 DEF SignOut, diskVars, Pending, Promise!SignOut, NoSession,
     Promise!NoSession

LEMMA FinishCancellationImplements ==
    ASSUME IInv, NEW e \in BOOLEAN, FinishCancellation(e)
    PROVE  UNCHANGED Promise!vars
<1>1. signIn = 0 /\ awaited < generation /\ generation' = generation
  BY DEF FinishCancellation, IInv, Gate
<1>2. signIn' = 0 \/ signIn' # generation'
  BY <1>1, GenerationAssumption DEF FinishCancellation, IInv, Types
<1>3. Pending = 0 /\ Pending' = 0
  BY <1>1, <1>2 DEF Pending
<1> QED
  BY <1>3 DEF FinishCancellation, diskVars, listVars, tokenVars, Pending, Promise!vars

LEMMA TaskImplements ==
    ASSUME IInv, NEW a \in Attempts, Task(a)
    PROVE  Promise!Complete \/ Promise!Abandon \/ UNCHANGED Promise!vars
<1>1. CASE CompleteSignIn(a)
  BY <1>1, CompleteImplements
<1>2. CASE Drop(a)
  BY <1>2, MovesImplements DEF Drop
<1>3. CASE OpenBrowser(a) \/ Bind(a) \/ Redirected(a) \/ Answered(a) \/ Queue(a)
  BY <1>3, MovesImplements DEF OpenBrowser, Bind, Redirected, Answered, Queue
<1> QED
  BY <1>1, <1>2, <1>3 DEF Task

\* The rest changes nothing that is promised, but for a worker that ends.
LEMMA OthersImplement ==
    ASSUME IInv, FailSave \/ WorkerEnds \/ Notified \/ UNCHANGED vars
    PROVE  Promise!WorkerFails \/ UNCHANGED Promise!vars
<1>1. Pending' = Pending
  BY DEF Pending, FailSave, WorkerEnds, Notified, vars, gateVars, taskVars
<1> QED
  BY <1>1 DEF Pending, FailSave, WorkerEnds, Notified, vars, diskVars, listVars, tokenVars,
     Promise!WorkerFails, Promise!vars

\* The service implements ServicePromise: seen without its mutex, its tasks and
\* its files, a sign-in completes, a sign-out happens and the folder list
\* changes in one step each, and a cancelled attempt never comes back.
THEOREM PromiseKept == Spec => KeepsItsPromise
<1>1. IInv /\ [Next]_vars => [Promise!Next]_(Promise!vars)
  <2> SUFFICES ASSUME IInv, [Next]_vars PROVE Promise!Next \/ UNCHANGED Promise!vars
    OBVIOUS
  <2>1. CASE Start
    BY <2>1, StartImplements DEF Promise!Next
  <2>2. CASE Crash
    BY <2>2, CrashImplements DEF Promise!Next
  <2>3. CASE FolderCall
    BY <2>3, FolderCallImplements DEF Promise!Next
  <2>4. CASE FinishSave
    BY <2>4, FinishSaveImplements DEF Promise!Next
  <2>5. CASE FailSave \/ WorkerEnds \/ Notified \/ UNCHANGED vars
    BY <2>5, OthersImplement DEF Promise!Next
  <2>6. CASE SignIn
    BY <2>6, SignInImplements DEF Promise!Next
  <2>7. CASE SignOut
    BY <2>7, SignOutImplements DEF Promise!Next
  <2>8. CASE \E a \in Attempts : Task(a)
    BY <2>8, TaskImplements DEF Promise!Next
  <2>9. CASE \E e \in BOOLEAN : FinishCancellation(e)
    BY <2>9, FinishCancellationImplements
  <2> QED
    BY <2>1, <2>2, <2>3, <2>4, <2>5, <2>6, <2>7, <2>8, <2>9 DEF Next
<1> QED
  BY <1>1, InitImplements, Invariance, PTL DEF Spec, KeepsItsPromise, Promise!Spec
===============================================================================
