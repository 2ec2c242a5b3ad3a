---------------------------- MODULE DaemonService -----------------------------
(***************************************************************************)
(* The D-Bus service of gdrived (gdrived/dbus_service.rs) with the daemon  *)
(* it lives in (main.rs), the configuration file (gdrive-common/config.rs) *)
(* and the browser sign-in it runs in a task (gdrive-sync/auth.rs).        *)
(*                                                                         *)
(* Handlers run concurrently and share ServiceState under a mutex.  It     *)
(* stays locked across the emission of a signal, which is awaited, and     *)
(* across the save of the configuration, which is not: while a handler     *)
(* writes the file, other tasks run, readers find the file in part, and    *)
(* the program may be killed.  A sign-out cancels the sign-in task, then   *)
(* waits for its end without the mutex.  An attempt to sign in is named by *)
(* its generation.  The program may be killed at any point.                *)
(***************************************************************************)
EXTENDS Naturals

CONSTANTS
    Folders,        \* ids of sync folders (a new UUID is an absent folder)
    MaxGeneration   \* bound of the model: sign-ins and sign-outs of a lifetime

ASSUME GenerationAssumption == MaxGeneration \in Nat \ {0}

VARIABLES
    up,          \* the daemon runs
    config,      \* ServiceState.config: "enabled", "disabled" or "absent"
    disk,        \* what a reader of config.toml finds, "torn" if it does not parse
    saving,      \* the change whose save is under way, with the mutex held
    spoiled,     \* history: a save was cut short or failed since the last good one
    running,     \* SyncEngine::running_folders
    generation,  \* ServiceState.sign_in_generation
    signIn,      \* ServiceState.sign_in: the attempt it is the handle of, or 0
    cancelling,  \* ServiceState.cancelling_sign_in
    awaited,     \* the attempt whose end a sign-out waits for, or 0
    stage,       \* of each attempt: where its task is
    granted,     \* of each attempt: the OAuth flow ended with a token
    aborted,     \* attempts whose task was aborted
    session,     \* whose tokens the engine holds
    cached,      \* there is a token file
    telling,     \* the AuthenticationChanged being emitted, with the mutex held
    told,        \* the last AuthenticationChanged, {} if unknown
    out          \* history: generation at the last sign-out of this lifetime

diskVars  == <<disk, saving, spoiled>>
listVars  == <<config, running>>
gateVars  == <<generation, signIn, cancelling, awaited>>
taskVars  == <<stage, granted, aborted>>
tokenVars == <<session, cached>>
busVars   == <<telling, told>>
vars == <<up, diskVars, listVars, gateVars, taskVars, tokenVars, busVars, out>>

Attempts  == 1..MaxGeneration
NoSession == 0                    \* the engine's access token is empty
Restored  == MaxGeneration + 1    \* the token cached by an earlier lifetime

Stages == {"unborn", "spawned", "opening", "listening", "exchanging",
           "answered", "queued", "ended"}

\* AppConfig
Settings == {"absent", "enabled", "disabled"}
Configs  == [Folders -> Settings]
Torn     == [f \in Folders |-> "torn"]
Enabled(c) == {f \in Folders : c[f] = "enabled"}

\* A file truncated and written in part reads as some of the folders, in the
\* extreme as none, or does not parse.
Remains(c) ==
    {Torn} \cup {[f \in Folders |-> IF f \in kept THEN c[f] ELSE "absent"] :
                     kept \in SUBSET Folders}

\* Mutant: the mutex is released before a signal is emitted.
LockFreeWhileTelling == saving = {}

LockFree == saving = {} /\ telling = {}

\* A task is alive from its spawn to its end.
Alive(a) == stage[a] \notin {"unborn", "ended"}

\* sign_in_busy
Busy == cancelling \/ (signIn # 0 /\ stage[signIn] # "ended")

\* ServiceState as new() builds it.
Blank ==
    /\ saving' = {} /\ telling' = {} /\ told' = {} /\ out' = 0
    /\ generation' = 0 /\ signIn' = 0 /\ cancelling' = FALSE /\ awaited' = 0
    /\ stage' = [a \in Attempts |-> "unborn"]
    /\ granted' = [a \in Attempts |-> FALSE]
    /\ aborted' = {}

Init ==
    /\ up = FALSE /\ disk \in Configs /\ config = disk /\ running = {}
    /\ saving = {} /\ spoiled = FALSE
    /\ generation = 0 /\ signIn = 0 /\ cancelling = FALSE /\ awaited = 0
    /\ stage = [a \in Attempts |-> "unborn"]
    /\ granted = [a \in Attempts |-> FALSE]
    /\ aborted = {}
    /\ session = NoSession /\ cached \in BOOLEAN
    /\ telling = {} /\ told = {} /\ out = 0

-----------------------------------------------------------------------------
(* The daemon.                                                             *)

\* main: a configuration that does not parse ends the program; a token that
\* cannot be read counts as signed out.
Start ==
    /\ ~up /\ up' = TRUE
    /\ disk # Torn /\ config' = disk /\ spoiled' = FALSE
    /\ \/ cached /\ session' = Restored /\ running' = Enabled(disk)
       \/ session' = NoSession /\ running' = {}
    /\ Blank
    /\ UNCHANGED <<disk, cached>>

\* A kill, a power failure or the shutdown signal: only the files remain.
Crash ==
    /\ up /\ up' = FALSE
    /\ \/ UNCHANGED disk
       \/ \E change \in saving :
             disk' \in Remains([config EXCEPT ![change[1]] = change[2]])
    /\ config' = disk' /\ running' = {} /\ session' = NoSession
    /\ Blank
    /\ UNCHANGED <<spoiled, cached>>

-----------------------------------------------------------------------------
(* The folder list.                                                        *)

\* persist: save_to truncates the file before it writes.
BeginSave(f, to) ==
    /\ up /\ LockFree
    /\ saving' = {<<f, to>>}
    /\ disk' = [g \in Folders |-> "absent"] /\ spoiled' = TRUE
    /\ UNCHANGED <<up, listVars, gateVars, taskVars, tokenVars, busVars, out>>

\* Mutant: the flag is flipped without a save.
FlipWithoutSave(f, to) ==
    /\ config[f] # "absent" /\ to # "absent"
    /\ up /\ LockFree
    /\ config' = [config EXCEPT ![f] = to]
    /\ running' = IF to = "enabled" THEN running \cup {f} ELSE running \ {f}
    /\ UNCHANGED <<up, diskVars, gateVars, taskVars, tokenVars, busVars, out>>

AddSyncFolder(f, to) ==
    config[f] = "absent" /\ to # "absent" /\ BeginSave(f, to)

SetFolderEnabled(f, to) ==
    config[f] # "absent" /\ to # "absent" /\ BeginSave(f, to)

\* There is no check that the folder exists.
RemoveSyncFolder(f, to) ==
    to = "absent" /\ BeginSave(f, to)

\* Only a saved list replaces the one in memory and reaches the engine.
FinishSave ==
    /\ up
    /\ \E change \in saving :
          /\ config' = [config EXCEPT ![change[1]] = change[2]]
          /\ disk' = config'
          /\ running' = IF change[2] = "enabled" THEN running \cup {change[1]}
                                                 ELSE running \ {change[1]}
    /\ saving' = {} /\ spoiled' = FALSE
    /\ UNCHANGED <<up, gateVars, taskVars, tokenVars, busVars, out>>

\* Mutant: the engine is told although the save failed.
FailSaveTooLate ==
    /\ up
    /\ \E change \in saving :
          /\ disk' \in Remains([config EXCEPT ![change[1]] = change[2]])
          /\ running' = IF change[2] = "enabled" THEN running \cup {change[1]}
                                                 ELSE running \ {change[1]}
    /\ saving' = {}
    /\ UNCHANGED <<up, spoiled, config, gateVars, taskVars, tokenVars, busVars, out>>

\* persist(&config)? returns early: memory and engine are as before, the file
\* is what the write left.
FailSave ==
    /\ up
    /\ \E change \in saving :
          disk' \in Remains([config EXCEPT ![change[1]] = change[2]])
    /\ saving' = {}
    /\ UNCHANGED <<up, spoiled, listVars, gateVars, taskVars, tokenVars, busVars, out>>

\* A worker's initial sync fails: its task ends and stays in the map.
WorkerEnds ==
    /\ up
    /\ \E f \in running : running' = running \ {f}
    /\ UNCHANGED <<up, diskVars, config, gateVars, taskVars, tokenVars, busVars, out>>

-----------------------------------------------------------------------------
(* Signing in.                                                             *)

SignIn ==
    /\ up /\ LockFree /\ ~Busy
    /\ generation < MaxGeneration
    /\ generation' = generation + 1
    /\ signIn' = generation'
    /\ stage' = [stage EXCEPT ![generation'] = "spawned"]
    /\ UNCHANGED <<up, diskVars, listVars, cancelling, awaited, granted, aborted,
                   tokenVars, busVars, out>>

Moves(a, from, to) ==
    /\ up /\ stage[a] = from
    /\ stage' = [stage EXCEPT ![a] = to]
    /\ UNCHANGED <<up, diskVars, listVars, gateVars, aborted, tokenVars, busVars, out>>

\* The first poll of the task runs xdg-open; an abort now waits for its end.
OpenBrowser(a) ==
    a \notin aborted /\ Moves(a, "spawned", "opening") /\ UNCHANGED granted

PortTaken(a) == \E b \in Attempts \ {a} : stage[b] = "listening"

\* wait_for_redirect_code binds the one loopback port.
Bind(a) ==
    /\ UNCHANGED granted
    /\ \/ ~PortTaken(a) /\ Moves(a, "opening", "listening")
       \/ Moves(a, "opening", "answered")

Redirected(a) ==
    a \notin aborted /\ Moves(a, "listening", "exchanging") /\ UNCHANGED granted

\* The flow ends: a token, an error, or the ten minutes are over.
Answered(a) ==
    /\ a \notin aborted
    /\ \/ Moves(a, "listening", "answered") /\ UNCHANGED granted
       \/ /\ Moves(a, "exchanging", "answered")
          /\ \E g \in BOOLEAN : granted' = [granted EXCEPT ![a] = g]

\* state.lock().await
Queue(a) ==
    ~LockFree /\ Moves(a, "answered", "queued") /\ UNCHANGED granted

\* Mutant: complete_sign_in without the look at the generation.
CompleteAnyway(a) ==
    /\ up /\ LockFree
    /\ stage[a] = "answered" \/ (stage[a] = "queued" /\ a \notin aborted)
    /\ stage' = [stage EXCEPT ![a] = "ended"]
    /\ signIn' = 0
    /\ \/ UNCHANGED <<tokenVars, running, telling>>
       \/ /\ granted[a]
          /\ cached' = TRUE /\ session' = a
          /\ running' = running \cup Enabled(config)
          /\ telling' = {TRUE}
    /\ UNCHANGED <<up, diskVars, config, generation, cancelling, awaited,
                   granted, aborted, told, out>>

\* The end of the task with the mutex held, complete_sign_in included.  An
\* aborted task gets here only in the poll in which its answer arrived.
CompleteSignIn(a) ==
    /\ up /\ LockFree
    /\ stage[a] = "answered" \/ (stage[a] = "queued" /\ a \notin aborted)
    /\ stage' = [stage EXCEPT ![a] = "ended"]
    /\ IF generation # a
         THEN UNCHANGED <<signIn, tokenVars, running, telling>>
         ELSE /\ signIn' = 0
              /\ \/ UNCHANGED <<tokenVars, running, telling>>
                 \/ /\ granted[a]
                    /\ cached' = TRUE /\ session' = a
                    /\ running' = running \cup Enabled(config)
                    /\ telling' = {TRUE}
    /\ UNCHANGED <<up, diskVars, config, generation, cancelling, awaited,
                   granted, aborted, told, out>>

\* An aborted task is dropped where it is parked.
Drop(a) ==
    /\ a \in aborted
    /\ \E from \in {"spawned", "listening", "exchanging", "queued"} :
          Moves(a, from, "ended")
    /\ UNCHANGED granted

-----------------------------------------------------------------------------
(* Signing out.                                                            *)

\* cancel_sign_in
Cancel ==
    IF cancelling
      THEN UNCHANGED <<gateVars, aborted>>
      ELSE /\ generation < MaxGeneration
           /\ generation' = generation + 1 /\ signIn' = 0
           /\ awaited' = signIn
           /\ cancelling' = (signIn # 0)
           /\ aborted' = IF signIn = 0 THEN aborted ELSE aborted \cup {signIn}

\* Mutant: a failed removal returns before the folders are stopped.
SignOutReturningEarly ==
    /\ up /\ LockFree
    /\ Cancel
    /\ session' = NoSession
    /\ \/ /\ cached' = FALSE /\ telling' = {FALSE}
          /\ running' = running \ {f \in Folders : config[f] # "absent"}
       \/ cached /\ UNCHANGED <<cached, telling, running>>
    /\ out' = generation'
    /\ UNCHANGED <<up, diskVars, config, stage, granted, told>>

\* Mutant: the signal is emitted whether or not the token is gone.
SignOutTellingAnyway ==
    /\ up /\ LockFree
    /\ Cancel
    /\ session' = NoSession
    /\ running' = running \ {f \in Folders : config[f] # "absent"}
    /\ cached' \in {FALSE, cached} /\ telling' = {FALSE}
    /\ out' = generation'
    /\ UNCHANGED <<up, diskVars, config, stage, granted, told>>

SignOut ==
    /\ up /\ LockFree
    /\ Cancel
    /\ session' = NoSession
    /\ running' = running \ {f \in Folders : config[f] # "absent"}
    /\ \/ cached' = FALSE /\ telling' = {FALSE}
       \/ cached /\ UNCHANGED <<cached, telling>>
    /\ out' = generation'
    /\ UNCHANGED <<up, diskVars, config, stage, granted, told>>

\* Mutants: the handle of a task that would not end is dropped, or the gate
\* stays closed after the timeout.
FinishDroppingHandle(expired) ==
    /\ up /\ LockFree /\ awaited # 0
    /\ cancelling' = FALSE /\ awaited' = 0
    /\ expired \/ stage[awaited] = "ended"
    /\ UNCHANGED <<up, diskVars, listVars, generation, signIn, taskVars, tokenVars,
                   busVars, out>>

FinishWithoutReset(expired) ==
    /\ up /\ LockFree /\ awaited # 0
    /\ awaited' = 0
    /\ IF expired THEN UNCHANGED <<signIn, cancelling>>
                  ELSE stage[awaited] = "ended" /\ cancelling' = FALSE /\ UNCHANGED signIn
    /\ UNCHANGED <<up, diskVars, listVars, generation, taskVars, tokenVars, busVars, out>>

\* finish_sign_in_cancellation: the task has ended, or two seconds are over
\* and its handle goes back.
FinishCancellation(expired) ==
    /\ up /\ LockFree /\ awaited # 0
    /\ cancelling' = FALSE /\ awaited' = 0
    /\ IF expired THEN signIn' = awaited
                  ELSE stage[awaited] = "ended" /\ UNCHANGED signIn
    /\ UNCHANGED <<up, diskVars, listVars, generation, taskVars, tokenVars, busVars, out>>

\* notify_authentication: sent, refused, or given up after two seconds.
Notified ==
    /\ up /\ telling # {}
    /\ told' \in {telling, {}} /\ telling' = {}
    /\ UNCHANGED <<up, diskVars, listVars, gateVars, taskVars, tokenVars, out>>

-----------------------------------------------------------------------------
FolderCall ==
    \E f \in Folders, to \in Settings :
        \/ AddSyncFolder(f, to)
        \/ SetFolderEnabled(f, to)
        \/ RemoveSyncFolder(f, to)

Task(a) ==
    \/ OpenBrowser(a) \/ Bind(a) \/ Redirected(a) \/ Answered(a)
    \/ Queue(a) \/ CompleteSignIn(a) \/ Drop(a)

Next ==
    \/ Start \/ Crash
    \/ FolderCall \/ FinishSave \/ FailSave \/ WorkerEnds
    \/ SignIn \/ SignOut \/ Notified
    \/ \E a \in Attempts : Task(a)
    \/ \E expired \in BOOLEAN : FinishCancellation(expired)

\* Files and the bus answer or time out, the sign-in times out, an aborted task
\* is dropped; tokio's mutex is fair, so a waiter is served in its turn.
Fairness ==
    /\ WF_vars(FinishSave \/ FailSave)
    /\ WF_vars(Notified)
    /\ WF_vars(\E a \in Attempts :
                  OpenBrowser(a) \/ Bind(a) \/ Answered(a) \/ Queue(a) \/ Drop(a))
    /\ SF_vars(\E a \in Attempts : CompleteSignIn(a))
    /\ SF_vars(\E expired \in BOOLEAN : FinishCancellation(expired))

Spec == Init /\ [][Next]_vars /\ Fairness
-----------------------------------------------------------------------------
(* Properties.                                                             *)

\* The sets the variables range over.
Types ==
    /\ up \in BOOLEAN /\ spoiled \in BOOLEAN /\ cached \in BOOLEAN /\ cancelling \in BOOLEAN
    /\ config \in Configs \cup {Torn}
    /\ disk \in Configs \cup {Torn}
    /\ saving \in SUBSET (Folders \X Settings)
    /\ running \in SUBSET Folders
    /\ generation \in 0..MaxGeneration /\ signIn \in 0..MaxGeneration
    /\ awaited \in 0..MaxGeneration /\ out \in 0..MaxGeneration
    /\ stage \in [Attempts -> Stages] /\ granted \in [Attempts -> BOOLEAN]
    /\ aborted \in SUBSET Attempts
    /\ session \in 0..Restored
    /\ telling \in SUBSET BOOLEAN /\ told \in SUBSET BOOLEAN

\* The types, and what belongs together: the state mutex has one holder, so no
\* list is being saved while a change of the tokens is being signalled; a sign-out
\* waits for the end of a task exactly while the gate is closed for it; nothing of
\* a daemon that is down is left but its files (dbus_service.rs, ServiceState).
TypeOK ==
    /\ Types
    /\ saving = {} \/ telling = {}
    /\ cancelling <=> awaited # 0
    /\ ~up => /\ config = disk /\ running = {} /\ session = NoSession
              /\ saving = {} /\ telling = {} /\ signIn = 0

\* What the daemon synchronises is enabled in the configuration a client is
\* shown, whichever saves failed and whatever a sign-in started meanwhile: a
\* disable or a removal is never undone by a stale folder list.
WorkersMatchConfig == running \subseteq Enabled(config)

\* Unless a save failed, the file holds the configuration in memory whenever no
\* save is under way, so a restart comes back with what clients were told.
ConfigIsOnDisk == ~spoiled => disk = config

\* At most one attempt to sign in is in progress, the cancelled ones included:
\* a new attempt never finds the loopback port held by an older one.
OneSignInAtATime ==
    \A a, b \in Attempts : Alive(a) /\ Alive(b) => a = b

\* AuthenticationChanged is emitted in the order of the changes: the last value
\* told is the truth about the cached token, unless an emission failed.
SignalsInOrder == telling = {} /\ told # {} => told = {cached}

\* A sign-in that was signed out never installs its tokens, however late it
\* gets its answer.
CancelledStaysOut ==
    [][session' \in Attempts /\ session' # session => session' > out]_vars

\* The gate on new sign-ins always opens again.
GateReopens == (up /\ Busy) ~> (~up \/ ~Busy)

\* The service implements its promise, in which a sign-in completes, a sign-out
\* happens and the folder list changes at once.
Promise == INSTANCE ServicePromise WITH
    on <- up, folders <- config, exposed <- spoiled, workers <- running,
    kept <- cached,
    pending <- IF signIn # 0 /\ signIn = generation /\ stage[signIn] # "ended"
                 THEN signIn ELSE 0

KeepsItsPromise == Promise!Spec
===============================================================================
