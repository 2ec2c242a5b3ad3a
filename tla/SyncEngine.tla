----------------------------- MODULE SyncEngine -----------------------------
(***************************************************************************)
(* The sync engine's lifecycle of folder workers (gdrive-sync/engine.rs)   *)
(* together with the status board those workers write                      *)
(* (gdrive-sync/sync_status.rs).                                           *)
(*                                                                         *)
(* start_folder and stop_folder run under the `tasks` mutex, but the       *)
(* workers never take that mutex: between two statements of a start or a   *)
(* stop any worker, the aborted one included, may report to the status     *)
(* board.  Each such statement is therefore an action of its own, and so   *)
(* is each critical section of the status board's mutex.                   *)
(*                                                                         *)
(* JoinHandle::abort only asks: a task that is being polled on another     *)
(* thread goes on until its next await, a parked one is dropped when the   *)
(* runtime next schedules it.                                              *)
(***************************************************************************)
EXTENDS Naturals, FiniteSets

CONSTANTS
    Folders,        \* ids of the configured folders
    LocalWorks,     \* labels of local work, "local <path>" in the code
    Texts,          \* error messages of failed work
    MaxGeneration,  \* bound of the model: how many runs are ever started
    MaxRevision,    \* bound of the model: no new work from this revision on
    None            \* no task, no status entry, no error

ASSUME BoundsAssumption == MaxGeneration \in Nat /\ MaxRevision \in Nat
ASSUME NoneAssumption == None \notin Nat /\ None \notin Folders
\* The prefix "local " keeps these labels apart from the engine's own.
ASSUME LocalWorksAssumption ==
    LocalWorks \cap {"initial sync", "remote changes", "worker", "idle", "ended"} = {}

VARIABLES
    generation,  \* SyncEngine.generation: the generation of the next run
    tasks,       \* SyncEngine.tasks: the run whose JoinHandle is kept, or None
    lock,        \* who holds the tasks mutex, and how far it got
    revision,    \* State.revision
    board,       \* State.folders
    phase,       \* of each run's task: how far the runtime took it
    aborted,     \* of each run's task: abort() was called on its handle
    owner,       \* of each run: the folder it synchronises
    work,        \* of each run: what it is doing, "idle" at the select!, "ended"
    busy         \* of each run: it called active() for the work at hand

engineVars == <<generation, tasks, lock>>
boardVars  == <<revision, board>>
runVars    == <<phase, aborted, owner, work, busy>>
vars       == <<engineVars, boardVars, runVars>>

Gens   == 0..(MaxGeneration - 1)
Works  == LocalWorks \cup {"initial sync", "remote changes", "worker"}
Errors == Gens \X (Texts \cup {"panicked"})

ASSUME ErrorsAssumption == None \notin Errors

\* An entry of the board; an error remembers the run that recorded it.
FolderStatus == [generation : Gens \cup {None},
                 syncing    : BOOLEAN,
                 errors     : [Works -> Errors \cup {None}]]

Absent     == [generation |-> None, syncing |-> FALSE, errors |-> [w \in Works |-> None]]
Fresh(g)   == [generation |-> g,    syncing |-> TRUE,  errors |-> [w \in Works |-> None]]

Phases == {"unborn", "created", "spawned", "polled", "parked", "done"}
Live   == {"created", "spawned", "polled", "parked"}
Free   == [at |-> "free", folder |-> None, gen |-> None]

-----------------------------------------------------------------------------
(* The status board: every update runs under the board's mutex and bumps   *)
(* the revision exactly when its closure answers TRUE.                     *)

Update(newBoard, changed) ==
    /\ board' = newBoard
    /\ revision' = IF changed THEN revision + 1 ELSE revision

\* FolderRun::update: a run whose entry is gone or newer changes nothing.
IsCurrent(g) == board[owner[g]].generation = g

FolderUpdateByAnyRun(g, status, changed) ==
    IF board[owner[g]].generation # None
    THEN Update([board EXCEPT ![owner[g]] = status], changed)
    ELSE UNCHANGED boardVars

FolderUpdateWithoutEntry(g, status, changed) ==
    IF board[owner[g]].generation \in {g, None}
    THEN Update([board EXCEPT ![owner[g]] = status], changed)
    ELSE UNCHANGED boardVars

FolderUpdate(g, status, changed) ==
    IF IsCurrent(g) THEN Update([board EXCEPT ![owner[g]] = status], changed)
                    ELSE UNCHANGED boardVars


ReportActive(g) ==
    LET s == board[owner[g]]
    IN  FolderUpdate(g, [s EXCEPT !.syncing = TRUE], ~s.syncing)

ReportClear(g, w) ==
    LET s == board[owner[g]]
    IN  FolderUpdate(g, [s EXCEPT !.errors = [s.errors EXCEPT ![w] = None]],
                     s.errors[w] # None)

\* finish(): the result of a piece of work, None for Ok.
FinishIgnoringActivity(g, w, result) ==
    LET s == board[owner[g]]
    IN  FolderUpdate(g, [s EXCEPT !.syncing = FALSE,
                                  !.errors = [s.errors EXCEPT ![w] = result]],
                     s.errors[w] # result)

FinishForgettingErrors(g, w, result) ==
    LET s == board[owner[g]]
    IN  FolderUpdate(g, [s EXCEPT !.syncing = FALSE,
                                  !.errors = [v \in Works |-> IF v = w THEN result ELSE None]],
                     s.syncing \/ s.errors[w] # result)

ReportFinish(g, w, result) ==
    LET s == board[owner[g]]
    IN  FolderUpdate(g, [s EXCEPT !.syncing = FALSE,
                                  !.errors = [s.errors EXCEPT ![w] = result]],
                     s.syncing \/ s.errors[w] # result)

\* Drop of the FolderRun when its task ends without a panic.
ReportNothingOnDrop(g) == UNCHANGED boardVars

ReportDrop(g) ==
    LET s == board[owner[g]]
    IN  FolderUpdate(g, [s EXCEPT !.syncing = FALSE], s.syncing)

Snapshot == [revision |-> revision,
             folders  |-> [f \in {x \in Folders : board[x].generation # None} |->
                             [syncing |-> board[f].syncing, errors |-> board[f].errors]]]

-----------------------------------------------------------------------------
Init ==
    /\ generation = 0
    /\ tasks = [f \in Folders |-> None]
    /\ lock = Free
    /\ revision = 0
    /\ board = [f \in Folders |-> Absent]
    /\ phase = [g \in Gens |-> "unborn"]
    /\ aborted = [g \in Gens |-> FALSE]
    /\ owner = [g \in Gens |-> None]
    /\ work = [g \in Gens |-> "initial sync"]
    /\ busy = [g \in Gens |-> FALSE]

(* start_folder, statement by statement under the tasks mutex. *)

\* Takes the mutex, removes the previous handle and aborts its task.
RemoveWithoutAbort(f) ==
    /\ tasks' = [tasks EXCEPT ![f] = None]
    /\ UNCHANGED aborted

RemoveAndAbort(f) ==
    /\ tasks' = [tasks EXCEPT ![f] = None]
    /\ aborted' = IF tasks[f] = None THEN aborted ELSE [aborted EXCEPT ![tasks[f]] = TRUE]

StartFolder(f) ==
    /\ lock = Free
    /\ generation < MaxGeneration
    /\ lock' = [at |-> "start", folder |-> f, gen |-> None]
    /\ RemoveAndAbort(f)
    /\ UNCHANGED <<generation, boardVars, phase, owner, work, busy>>

\* Draws the generation and replaces the folder's entry on the board.
StartStatus ==
    /\ lock.at = "start"
    /\ generation' = generation + 1
    /\ lock' = [lock EXCEPT !.at = "announced", !.gen = generation]
    /\ owner' = [owner EXCEPT ![generation] = lock.folder]
    /\ phase' = [phase EXCEPT ![generation] = "created"]
    /\ Update([board EXCEPT ![lock.folder] = Fresh(generation)], TRUE)
    /\ UNCHANGED <<tasks, aborted, work, busy>>

\* tokio::spawn: from here on another thread may poll the task.
StartSpawn ==
    /\ lock.at = "announced"
    /\ lock' = [lock EXCEPT !.at = "spawned"]
    /\ phase' = [phase EXCEPT ![lock.gen] = "spawned"]
    /\ UNCHANGED <<generation, tasks, boardVars, aborted, owner, work, busy>>

\* Keeps the handle and releases the mutex.
StartForgettingHandle ==
    /\ lock.at = "spawned"
    /\ lock' = Free
    /\ UNCHANGED <<generation, tasks, boardVars, runVars>>

StartInsert ==
    /\ lock.at = "spawned"
    /\ tasks' = [tasks EXCEPT ![lock.folder] = lock.gen]
    /\ lock' = Free
    /\ UNCHANGED <<generation, boardVars, runVars>>

(* stop_folder: remove and abort, then take the entry off the board. *)
StopFolder(f) ==
    /\ lock = Free
    /\ lock' = [at |-> "stop", folder |-> f, gen |-> None]
    /\ RemoveAndAbort(f)
    /\ UNCHANGED <<generation, boardVars, phase, owner, work, busy>>

StopStatus ==
    /\ lock.at = "stop"
    /\ Update([board EXCEPT ![lock.folder] = Absent],
              board[lock.folder].generation # None)
    /\ lock' = Free
    /\ UNCHANGED <<generation, tasks, runVars>>

\* running_folders(): of the kept handles, those whose tasks have not finished.
RunningFolders == {f \in Folders : tasks[f] # None /\ phase[tasks[f]] # "done"}

-----------------------------------------------------------------------------
(* The runtime: polling a task, leaving it at an await, dropping it.       *)

Ends(g) ==
    /\ phase' = [phase EXCEPT ![g] = "done"]
    /\ work' = [work EXCEPT ![g] = "ended"]
    /\ busy' = [busy EXCEPT ![g] = FALSE]
    /\ UNCHANGED <<engineVars, aborted, owner>>

Poll(g) ==
    /\ phase[g] \in {"spawned", "parked"}
    /\ ~aborted[g]
    /\ phase' = [phase EXCEPT ![g] = "polled"]
    /\ UNCHANGED <<engineVars, boardVars, aborted, owner, work, busy>>

Park(g) ==
    /\ phase[g] = "polled"
    /\ ~aborted[g]
    /\ phase' = [phase EXCEPT ![g] = "parked"]
    /\ UNCHANGED <<engineVars, boardVars, aborted, owner, work, busy>>

\* The runtime drops an aborted task that is not being polled, or that has
\* just come to an await.
DropAborted(g) ==
    /\ phase[g] \in {"spawned", "polled", "parked"}
    /\ aborted[g]
    /\ ReportDrop(g)
    /\ Ends(g)

(* run_folder, seen from the board: the work it does and what it reports.  *)

Polled(g, w) == phase[g] = "polled" /\ work[g] = w

BecomesIdle(g) ==
    /\ work' = [work EXCEPT ![g] = "idle"]
    /\ busy' = [busy EXCEPT ![g] = FALSE]
    /\ UNCHANGED <<engineVars, phase, aborted, owner>>

\* The initial pull is done and the local watcher is up.
InitialSyncDone(g) ==
    /\ Polled(g, "initial sync")
    /\ ReportFinish(g, "initial sync", None)
    /\ BecomesIdle(g)

\* run_folder returns an error and the task ends: the drop that follows the
\* report finds syncing already FALSE.
InitialSyncFailed(g, t) ==
    /\ Polled(g, "initial sync")
    /\ ReportFinish(g, "initial sync", <<g, t>>)
    /\ Ends(g)

\* The select! picks a local change or a tick of the poll timer.
Select(g, w) ==
    /\ Polled(g, "idle")
    /\ revision < MaxRevision
    /\ work' = [work EXCEPT ![g] = w]
    /\ UNCHANGED <<engineVars, boardVars, phase, aborted, owner, busy>>

\* active(): called right before Drive or the local tree is changed, once or
\* more in a batch of remote changes.
Active(g) ==
    /\ phase[g] = "polled"
    /\ work[g] \in LocalWorks \cup {"remote changes"}
    /\ ReportActive(g)
    /\ busy' = [busy EXCEPT ![g] = TRUE]
    /\ UNCHANGED <<engineVars, phase, aborted, owner, work>>

\* handle_local_change answers Ok(false) for a path that is gone, and run_folder
\* goes on without finish(); an untracked path loses its error.
IgnoreAfterActivity(g, untracked) ==
    /\ phase[g] = "polled"
    /\ work[g] \in LocalWorks
    /\ IF untracked THEN ReportClear(g, work[g]) ELSE UNCHANGED boardVars
    /\ BecomesIdle(g)

LocalChangeIgnored(g, untracked) ==
    /\ phase[g] = "polled"
    /\ work[g] \in LocalWorks
    /\ ~busy[g]
    /\ IF untracked THEN ReportClear(g, work[g]) ELSE UNCHANGED boardVars
    /\ BecomesIdle(g)

\* A local change or a batch of remote changes ended, with an error or none.
WorkFinished(g, result) ==
    /\ phase[g] = "polled"
    /\ work[g] \in LocalWorks \cup {"remote changes"}
    /\ ReportFinish(g, work[g], result)
    /\ BecomesIdle(g)

\* A panic unwinds through the task and drops the FolderRun on its way.
Panic(g) ==
    /\ phase[g] = "polled"
    /\ ReportFinish(g, "worker", <<g, "panicked">>)
    /\ Ends(g)

-----------------------------------------------------------------------------
Operation ==
    \/ \E f \in Folders : StartFolder(f) \/ StopFolder(f)
    \/ StartStatus
    \/ StartSpawn
    \/ StartInsert
    \/ StopStatus

Runtime(g) == Poll(g) \/ Park(g) \/ DropAborted(g) \/ Panic(g)

Worker(g) ==
    \/ InitialSyncDone(g)
    \/ \E t \in Texts : InitialSyncFailed(g, t)
    \/ \E w \in LocalWorks \cup {"remote changes"} : Select(g, w)
    \/ Active(g)
    \/ \E untracked \in BOOLEAN : LocalChangeIgnored(g, untracked)
    \/ WorkFinished(g, None)
    \/ \E t \in Texts : WorkFinished(g, <<g, t>>)

Next == Operation \/ \E g \in Gens : Runtime(g) \/ Worker(g)

Spec == Init /\ [][Next]_vars

-----------------------------------------------------------------------------
\* The types, and an entry that is not on the board holds nothing.
TypeOK ==
    /\ generation \in 0..MaxGeneration
    /\ tasks \in [Folders -> Gens \cup {None}]
    /\ lock \in [at     : {"free", "start", "announced", "spawned", "stop"},
                 folder : Folders \cup {None},
                 gen    : Gens \cup {None}]
    /\ revision \in Nat
    /\ board \in [Folders -> FolderStatus]
    /\ \A f \in Folders : board[f].generation = None => board[f] = Absent
    /\ phase \in [Gens -> Phases]
    /\ aborted \in [Gens -> BOOLEAN]
    /\ owner \in [Gens -> Folders \cup {None}]
    /\ work \in [Gens -> Works \cup {"idle", "ended"}]
    /\ busy \in [Gens -> BOOLEAN]

\* The board tells the truth about activity: a folder is shown as syncing
\* exactly when the run its entry belongs to is alive and is either in its
\* initial sync or past active() in a piece of work.  Aborted, failed,
\* panicked and superseded runs never leave it on, and a run that is back at
\* the select! has always switched it off (sync_status.rs, active, finish, Drop).
ActivityIsTruthful ==
    \A f \in Folders : board[f].generation # None =>
        LET g == board[f].generation
        IN  /\ owner[g] = f
            /\ board[f].syncing <=> /\ phase[g] \in Live
                                    /\ work[g] = "initial sync" \/ busy[g]

\* No worker is out of reach: a run that is alive and was not told to stop is
\* the one whose handle is kept for its folder, or the one start_folder is
\* about to keep (engine.rs, start_folder and stop_folder).
NoOrphanWorker ==
    \A g \in Gens : phase[g] \in Live /\ ~aborted[g] =>
        tasks[owner[g]] = g \/ lock.gen = g

\* The error with which a run that failed by itself leaves its folder's entry.
FailureShown(f) ==
    board[f].errors["initial sync"] # None \/ board[f].errors["worker"] # None

\* While nobody holds the tasks mutex, the board lists exactly the folders whose
\* handles the engine keeps, each under the run of that handle.  The board is
\* not running_folders(): that one leaves out the handles of finished tasks, and
\* then the board keeps the folder, not syncing, with the failure of the initial
\* sync or the panic that ended the run (engine.rs, running_folders;
\* crates/gdrive-sync/README.md, sync status).
BoardMatchesHandles ==
    lock = Free =>
        \A f \in Folders :
            /\ board[f].generation = tasks[f]
            /\ board[f].syncing => f \in RunningFolders
            /\ tasks[f] # None /\ f \notin RunningFolders => FailureShown(f)

\* The errors shown for a folder were all recorded by the run it has now: a
\* restart starts from none, and a superseded run cannot add one
\* (sync_status.rs, FolderRun::update).
ErrorsFromCurrentRun ==
    \A f \in Folders : \A w \in Works :
        board[f].errors[w] # None => board[f].errors[w][1] = board[f].generation

\* What a reader of the snapshot can see changes only with the revision, by
\* which the user interface tells new snapshots from old ones.
NoSilentChange ==
    [][Snapshot'.folders # Snapshot.folders => revision' = revision + 1]_vars

\* An outstanding error outlives every other piece of work: within one run it
\* goes away only in the step that ends the work it is about, however many
\* other changes succeed (crates/gdrive-sync/README.md, sync status).
ErrorsOutliveOtherWork ==
    [][\A f \in Folders : \A w \in Works :
         /\ board[f].errors[w] # None
         /\ board'[f].generation = board[f].generation
         /\ board'[f].errors[w] = None
         => \E g \in Gens : /\ g = board[f].generation
                            /\ work[g] = w
                            /\ work'[g] = "idle"]_vars

\* "Restarting an already-running folder first aborts its previous task so
\* there's never more than one watcher/poller per folder id"
\* (engine.rs, start_folder).
AtMostOneWorker ==
    \A g, h \in Gens :
        /\ phase[g] = "polled" /\ phase[h] = "polled"
        /\ owner[g] = owner[h]
        => g = h
=============================================================================
