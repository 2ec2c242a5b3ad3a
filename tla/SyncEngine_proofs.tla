-------------------------- MODULE SyncEngine_proofs --------------------------
(***************************************************************************)
(* Proofs about SyncEngine, for every set of folders, every set of work    *)
(* labels and messages, and every value of the two bounds.                 *)
(***************************************************************************)
EXTENDS SyncEngine, TLAPS

-----------------------------------------------------------------------------
(* The inductive invariant: TypeOK and what the code maintains between the  *)
(* statements of start_folder and stop_folder.                              *)

\* A run's phase says which of the other variables it has a say in.
RunsOK ==
    \A g \in Gens :
        /\ phase[g] = "unborn" <=> g >= generation
        /\ phase[g] # "unborn" => owner[g] \in Folders
        /\ phase[g] \in {"unborn", "created", "spawned"} => work[g] = "initial sync"
        /\ phase[g] \in {"unborn", "created"} => ~aborted[g]
        /\ phase[g] = "created" <=> lock.at = "announced" /\ lock.gen = g
        /\ busy[g] => work[g] \in LocalWorks \cup {"remote changes"}
        /\ phase[g] = "done" => ~busy[g]

\* A kept handle is that of a run that was spawned and never aborted.
TasksOK ==
    \A f \in Folders : tasks[f] # None =>
        /\ owner[tasks[f]] = f
        /\ ~aborted[tasks[f]]
        /\ phase[tasks[f]] \notin {"unborn", "created"}

\* What holds at each statement under the tasks mutex.
LockOK ==
    /\ lock.at = "free" <=> lock = Free
    /\ lock.at # "free" => lock.folder \in Folders /\ tasks[lock.folder] = None
    /\ lock.at \in {"start", "stop"} => lock.gen = None
    /\ lock.at = "start" => generation < MaxGeneration
    /\ lock.at \in {"announced", "spawned"} =>
         /\ lock.gen \in Gens
         /\ owner[lock.gen] = lock.folder
         /\ board[lock.folder].generation = lock.gen
         /\ ~aborted[lock.gen]
         /\ phase[lock.gen] # "unborn"

\* Away from the folder being started or stopped, board and tasks agree.
BoardOK ==
    \A f \in Folders :
        /\ f # lock.folder => board[f].generation = tasks[f]
        /\ board[f].generation # None =>
             /\ owner[board[f].generation] = f
             /\ phase[board[f].generation] # "unborn"

IInv ==
    /\ TypeOK
    /\ RunsOK
    /\ TasksOK
    /\ LockOK
    /\ BoardOK
    /\ ActivityIsTruthful
    /\ NoOrphanWorker
    /\ ErrorsFromCurrentRun

-----------------------------------------------------------------------------
(* Lemmas about the status board's operators.                               *)

\* What a report by run g may do to the board: nothing when the run's entry is
\* gone or newer; otherwise its own entry becomes s, which still is g's.
Reported(g, s) ==
    /\ revision' \in Nat
    /\ ~IsCurrent(g) => board' = board
    /\ IsCurrent(g) => /\ board' = [board EXCEPT ![owner[g]] = s]
                       /\ s \in FolderStatus
                       /\ s.generation = g
                       /\ \A w \in Works : s.errors[w] # None => s.errors[w][1] = g

\* None is not the number of a run.
LEMMA NoneIsNoRun == \A g \in Gens : g # None
BY NoneAssumption, BoundsAssumption DEF Gens

\* A report with an entry that is still g's does to the board what Reported says.
LEMMA FolderUpdateReports ==
    ASSUME TypeOK, NEW g \in Gens, NEW s, NEW c \in BOOLEAN, FolderUpdate(g, s, c),
           IsCurrent(g) => /\ s \in FolderStatus
                           /\ s.generation = g
                           /\ \A w \in Works : s.errors[w] # None => s.errors[w][1] = g
    PROVE  Reported(g, s)
BY DEF FolderUpdate, Update, Reported, TypeOK, boardVars

\* The entry of a current run is well formed and holds only that run's errors.
LEMMA EntryOfCurrentRun ==
    ASSUME IInv, NEW g \in Gens, phase[g] # "unborn"
    PROVE  /\ owner[g] \in Folders
           /\ board[owner[g]] \in FolderStatus
           /\ IsCurrent(g) => \A w \in Works : board[owner[g]].errors[w] # None
                                => board[owner[g]].errors[w][1] = g
BY DEF IInv, TypeOK, RunsOK, IsCurrent, ErrorsFromCurrentRun

\* A board that is left alone counts as a report of the entry it has.
LEMMA UnchangedReports ==
    ASSUME IInv, NEW g \in Gens, phase[g] # "unborn", UNCHANGED boardVars
    PROVE  Reported(g, board[owner[g]])
<1>1. owner[g] \in Folders /\ board[owner[g]] \in FolderStatus
  BY EntryOfCurrentRun
<1>2. board' = [board EXCEPT ![owner[g]] = board[owner[g]]]
  BY <1>1 DEF IInv, TypeOK, boardVars
<1> QED
  BY <1>1, <1>2, EntryOfCurrentRun DEF Reported, IsCurrent, IInv, TypeOK, boardVars

\* active() and the drop of a FolderRun set syncing and nothing else.
LEMMA SyncingReports ==
    ASSUME IInv, NEW g \in Gens, phase[g] # "unborn", NEW b \in BOOLEAN, NEW c \in BOOLEAN,
           FolderUpdate(g, [board[owner[g]] EXCEPT !.syncing = b], c)
    PROVE  Reported(g, [board[owner[g]] EXCEPT !.syncing = b])
<1> DEFINE s == [board[owner[g]] EXCEPT !.syncing = b]
<1>1. board[owner[g]] \in FolderStatus
  BY EntryOfCurrentRun
<1>2. s \in FolderStatus /\ s.generation = board[owner[g]].generation
                         /\ s.errors = board[owner[g]].errors
  BY <1>1 DEF FolderStatus
<1> QED
  BY <1>2, EntryOfCurrentRun, FolderUpdateReports DEF IInv, IsCurrent

\* finish() switches syncing off and replaces the error of one piece of work.
LEMMA FinishReports ==
    ASSUME IInv, NEW g \in Gens, phase[g] # "unborn", NEW w \in Works,
           NEW result \in Errors \cup {None}, result # None => result[1] = g,
           NEW b \in BOOLEAN, NEW c \in BOOLEAN,
           FolderUpdate(g, [board[owner[g]] EXCEPT
                              !.syncing = b,
                              !.errors = [board[owner[g]].errors EXCEPT ![w] = result]], c)
    PROVE  Reported(g, [board[owner[g]] EXCEPT
                              !.syncing = b,
                              !.errors = [board[owner[g]].errors EXCEPT ![w] = result]])
<1> DEFINE e == board[owner[g]]
           s == [e EXCEPT !.syncing = b, !.errors = [e.errors EXCEPT ![w] = result]]
<1>1. e \in FolderStatus
  BY EntryOfCurrentRun
<1>2. /\ s \in FolderStatus
      /\ s.generation = e.generation
      /\ s.errors = [e.errors EXCEPT ![w] = result]
  BY <1>1 DEF FolderStatus
<1>3. IsCurrent(g) => \A v \in Works : s.errors[v] # None => s.errors[v][1] = g
  BY <1>1, <1>2, EntryOfCurrentRun DEF FolderStatus
<1>4. IsCurrent(g) => s.generation = g
  BY <1>2 DEF IsCurrent
<1> QED
  BY <1>2, <1>3, <1>4, FolderUpdateReports DEF IInv

-----------------------------------------------------------------------------
(* A step of one run: it moves its own phase, work and busy, and reports to *)
(* the board.                                                               *)

RunStep(g, p, w, b, s) ==
    /\ UNCHANGED <<engineVars, aborted, owner>>
    /\ phase' = [phase EXCEPT ![g] = p]
    /\ work' = [work EXCEPT ![g] = w]
    /\ busy' = [busy EXCEPT ![g] = b]
    /\ Reported(g, s)

\* A step of one run keeps the invariant when its entry, if it is still current,
\* is syncing exactly when the run is alive and at work.
LEMMA RunStepKeepsIInv ==
    ASSUME IInv,
           NEW g \in Gens, phase[g] \in {"spawned", "polled", "parked"},
           NEW p \in {"spawned", "polled", "parked", "done"},
           NEW w \in Works \cup {"idle", "ended"}, p = "spawned" => w = "initial sync",
           NEW b \in BOOLEAN, p = "done" => ~b,
           b => w \in LocalWorks \cup {"remote changes"},
           NEW s, RunStep(g, p, w, b, s),
           IsCurrent(g) => (s.syncing <=> p \in Live /\ (w = "initial sync" \/ b))
    PROVE  IInv'
<1> USE DEF RunStep
<1> USE NoneIsNoRun
<1>1. /\ phase \in [Gens -> Phases] /\ work \in [Gens -> Works \cup {"idle", "ended"}]
      /\ busy \in [Gens -> BOOLEAN] /\ board \in [Folders -> FolderStatus]
      /\ owner[g] \in Folders /\ board[owner[g]] \in FolderStatus
  BY EntryOfCurrentRun DEF IInv, TypeOK
<1>2. \A f \in Folders :
        \/ board'[f] = board[f] /\ board[f].generation # g
        \/ f = owner[g] /\ board[f].generation = g /\ IsCurrent(g) /\ board'[f] = s
  <2> SUFFICES ASSUME NEW f \in Folders
               PROVE  \/ board'[f] = board[f] /\ board[f].generation # g
                      \/ f = owner[g] /\ board[f].generation = g /\ IsCurrent(g) /\ board'[f] = s
    OBVIOUS
  <2>1. CASE f = owner[g]
    BY <1>1, <2>1 DEF Reported, IsCurrent
  <2>2. CASE f # owner[g]
    <3>1. board'[f] = board[f]
      BY <1>1, <2>2 DEF Reported
    <3>2. board[f].generation # g
      BY <2>2 DEF IInv, BoardOK
    <3> QED
      BY <3>1, <3>2
  <2> QED
    BY <2>1, <2>2
<1>3. \A f \in Folders : /\ board'[f] \in FolderStatus
                         /\ board'[f].generation = board[f].generation
  BY <1>1, <1>2 DEF Reported
<1>4. TypeOK'
  <2>1. board' \in [Folders -> FolderStatus]
    BY <1>1 DEF Reported
  <2>2. \A f \in Folders : board'[f].generation = None => board'[f] = Absent
    BY <1>2, <1>3 DEF IInv, TypeOK
  <2>3. phase' \in [Gens -> Phases] /\ work' \in [Gens -> Works \cup {"idle", "ended"}]
                                    /\ busy' \in [Gens -> BOOLEAN]
    BY <1>1 DEF Phases
  <2>4. revision' \in Nat
    BY DEF Reported
  <2> QED
    BY <2>1, <2>2, <2>3, <2>4 DEF IInv, TypeOK, engineVars, Absent
<1>5. RunsOK'
  BY <1>1 DEF IInv, RunsOK, engineVars
<1>6. TasksOK'
  BY <1>1 DEF IInv, TypeOK, TasksOK, engineVars
<1>7. LockOK'
  BY <1>1, <1>3 DEF IInv, TypeOK, LockOK, engineVars, Free
<1>8. BoardOK'
  <2>1. \A f \in Folders : board[f].generation \in Gens \cup {None}
    BY <1>1 DEF FolderStatus
  <2>2. \A h \in Gens : phase[h] # "unborn" => phase'[h] # "unborn"
    BY <1>1
  <2>3. tasks' = tasks /\ lock' = lock /\ owner' = owner
    BY DEF engineVars
  <2> QED
    BY <1>3, <2>1, <2>2, <2>3 DEF IInv, BoardOK
<1>9. ActivityIsTruthful'
  <2> SUFFICES ASSUME NEW f \in Folders, board'[f].generation # None
               PROVE  /\ owner'[board'[f].generation] = f
                      /\ board'[f].syncing <=>
                           /\ phase'[board'[f].generation] \in Live
                           /\ \/ work'[board'[f].generation] = "initial sync"
                              \/ busy'[board'[f].generation]
    BY DEF ActivityIsTruthful
  <2>1. board[f].generation \in Gens /\ board'[f].generation = board[f].generation
    BY <1>1, <1>3 DEF FolderStatus
  <2>2. CASE board'[f] = board[f] /\ board[f].generation # g
    BY <1>1, <2>1, <2>2 DEF IInv, ActivityIsTruthful, engineVars
  <2>3. CASE f = owner[g] /\ board[f].generation = g /\ IsCurrent(g) /\ board'[f] = s
    <3>1. phase'[g] = p /\ work'[g] = w /\ busy'[g] = b
      BY <1>1
    <3> QED
      BY <2>1, <2>3, <3>1 DEF engineVars
  <2> QED
    BY <1>2, <2>2, <2>3
<1>10. NoOrphanWorker'
  BY <1>1 DEF IInv, NoOrphanWorker, engineVars, Live
<1>11. ErrorsFromCurrentRun'
  BY <1>2, <1>3 DEF IInv, ErrorsFromCurrentRun, Reported
<1> QED
  BY <1>4, <1>5, <1>6, <1>7, <1>8, <1>9, <1>10, <1>11 DEF IInv

\* What a run the runtime can poll is at work on, and what its entry shows of it.
LEMMA PhaseIsKnown ==
    ASSUME IInv, NEW g \in Gens, phase[g] \in {"spawned", "polled", "parked"}
    PROVE  /\ work[g] \in Works \cup {"idle", "ended"}
           /\ busy[g] \in BOOLEAN
           /\ phase[g] = "spawned" => work[g] = "initial sync" /\ ~busy[g]
           /\ busy[g] => work[g] \in LocalWorks \cup {"remote changes"}
           /\ IsCurrent(g) => /\ board[owner[g]].syncing \in BOOLEAN
                              /\ board[owner[g]].syncing <=> (work[g] = "initial sync" \/ busy[g])
<1>1. owner[g] \in Folders /\ board[owner[g]] \in FolderStatus
  BY EntryOfCurrentRun
<1>2. IsCurrent(g) => /\ board[owner[g]].syncing \in BOOLEAN
                      /\ board[owner[g]].syncing <=> (work[g] = "initial sync" \/ busy[g])
  BY <1>1, NoneIsNoRun DEF IInv, ActivityIsTruthful, IsCurrent, Live, FolderStatus
<1> QED
  BY <1>2, LocalWorksAssumption DEF IInv, TypeOK, RunsOK

\* Poll, Park and Select leave the board as it is.
LEMMA SilentStepKeepsIInv ==
    ASSUME IInv, NEW g \in Gens, phase[g] \in {"spawned", "polled", "parked"},
           NEW p \in {"polled", "parked"}, NEW w \in Works \cup {"idle", "ended"},
           w = "initial sync" <=> work[g] = "initial sync",
           busy[g] => w = work[g],
           UNCHANGED <<engineVars, boardVars, aborted, owner>>,
           phase' = [phase EXCEPT ![g] = p],
           work' = [work EXCEPT ![g] = w],
           busy' = busy
    PROVE  IInv'
<1>1. Reported(g, board[owner[g]])
  BY UnchangedReports
<1>2. busy' = [busy EXCEPT ![g] = busy[g]]
  BY DEF IInv, TypeOK
<1>3. RunStep(g, p, w, busy[g], board[owner[g]])
  BY <1>1, <1>2 DEF RunStep
<1>4. IsCurrent(g) => (board[owner[g]].syncing
                         <=> p \in Live /\ (w = "initial sync" \/ busy[g]))
  BY PhaseIsKnown DEF Live
<1> QED
  BY <1>3, <1>4, PhaseIsKnown, RunStepKeepsIInv

\* DropAborted, InitialSyncFailed and Panic end the run with a report.
LEMMA EndKeepsIInv ==
    ASSUME IInv, NEW g \in Gens, phase[g] \in {"spawned", "polled", "parked"},
           NEW s, Reported(g, s), IsCurrent(g) => ~s.syncing, Ends(g)
    PROVE  IInv'
<1>1. RunStep(g, "done", "ended", FALSE, s)
  BY DEF RunStep, Ends
<1> QED
  BY <1>1, RunStepKeepsIInv DEF Live

\* InitialSyncDone, LocalChangeIgnored and WorkFinished go back to the select!.
LEMMA IdleKeepsIInv ==
    ASSUME IInv, NEW g \in Gens, phase[g] = "polled",
           NEW s, Reported(g, s), IsCurrent(g) => ~s.syncing, BecomesIdle(g)
    PROVE  IInv'
<1>1. phase' = [phase EXCEPT ![g] = "polled"]
  BY DEF BecomesIdle, IInv, TypeOK
<1>2. RunStep(g, "polled", "idle", FALSE, s)
  BY <1>1 DEF RunStep, BecomesIdle
<1> QED
  BY <1>2, RunStepKeepsIInv DEF Live

\* The entry finish() leaves is not syncing, whatever the result.
LEMMA FinishedEntry ==
    ASSUME IInv, NEW g \in Gens, phase[g] = "polled", NEW w \in Works,
           NEW result \in Errors \cup {None}, result # None => result[1] = g,
           ReportFinish(g, w, result)
    PROVE  \E s : Reported(g, s) /\ (IsCurrent(g) => ~s.syncing)
<1> DEFINE e == board[owner[g]]
           s == [e EXCEPT !.syncing = FALSE, !.errors = [e.errors EXCEPT ![w] = result]]
<1>1. e \in FolderStatus
  BY EntryOfCurrentRun
<1>2. (e.syncing \/ e.errors[w] # result) \in BOOLEAN
  BY <1>1 DEF FolderStatus
<1>3. Reported(g, s)
  BY <1>2, FinishReports DEF ReportFinish
<1>4. ~s.syncing
  BY <1>1 DEF FolderStatus
<1> QED
  BY <1>3, <1>4

\* Polling, parking, dropping and panicking keep the invariant.
LEMMA RuntimeKeepsIInv ==
    ASSUME IInv, NEW g \in Gens, Runtime(g)
    PROVE  IInv'
<1>1. CASE Poll(g)
  <2>1. work' = [work EXCEPT ![g] = work[g]]
    BY <1>1 DEF Poll, IInv, TypeOK
  <2> QED
    BY <1>1, <2>1, PhaseIsKnown, SilentStepKeepsIInv DEF Poll
<1>2. CASE Park(g)
  <2>1. work' = [work EXCEPT ![g] = work[g]]
    BY <1>2 DEF Park, IInv, TypeOK
  <2> QED
    BY <1>2, <2>1, PhaseIsKnown, SilentStepKeepsIInv DEF Park
<1>3. CASE DropAborted(g)
  <2> DEFINE s == [board[owner[g]] EXCEPT !.syncing = FALSE]
  <2>1. board[owner[g]] \in FolderStatus
    BY <1>3, EntryOfCurrentRun DEF DropAborted
  <2>2. board[owner[g]].syncing \in BOOLEAN /\ ~s.syncing
    BY <2>1 DEF FolderStatus
  <2>3. Reported(g, s)
    BY <1>3, <2>2, SyncingReports DEF DropAborted, ReportDrop
  <2> QED
    BY <1>3, <2>2, <2>3, EndKeepsIInv DEF DropAborted
<1>4. CASE Panic(g)
  <2>1. <<g, "panicked">> \in Errors /\ "worker" \in Works
    BY DEF Errors, Works
  <2>2. PICK s : Reported(g, s) /\ (IsCurrent(g) => ~s.syncing)
    BY <1>4, <2>1, FinishedEntry DEF Panic
  <2> QED
    BY <1>4, <2>2, EndKeepsIInv DEF Panic
<1> QED
  BY <1>1, <1>2, <1>3, <1>4 DEF Runtime

\* Whatever a worker does between two awaits keeps the invariant.
LEMMA WorkerKeepsIInv ==
    ASSUME IInv, NEW g \in Gens, Worker(g)
    PROVE  IInv'
<1>1. CASE InitialSyncDone(g)
  <2>1. PICK s : Reported(g, s) /\ (IsCurrent(g) => ~s.syncing)
    BY <1>1, FinishedEntry DEF InitialSyncDone, Polled, Works
  <2> QED
    BY <1>1, <2>1, IdleKeepsIInv DEF InitialSyncDone, Polled
<1>2. ASSUME NEW t \in Texts, InitialSyncFailed(g, t)
      PROVE  IInv'
  <2>1. <<g, t>> \in Errors /\ "initial sync" \in Works
    BY DEF Errors, Works
  <2>2. PICK s : Reported(g, s) /\ (IsCurrent(g) => ~s.syncing)
    BY <1>2, <2>1, FinishedEntry DEF InitialSyncFailed, Polled
  <2> QED
    BY <1>2, <2>2, EndKeepsIInv DEF InitialSyncFailed, Polled
<1>3. ASSUME NEW w \in LocalWorks \cup {"remote changes"}, Select(g, w)
      PROVE  IInv'
  <2>1. w \in Works /\ w # "initial sync"
    BY LocalWorksAssumption DEF Works
  <2>2. phase' = [phase EXCEPT ![g] = "polled"]
    BY <1>3 DEF Select, Polled, IInv, TypeOK
  <2>3. ~busy[g]
    BY <1>3, PhaseIsKnown, LocalWorksAssumption DEF Select, Polled
  <2> QED
    BY <1>3, <2>1, <2>2, <2>3, SilentStepKeepsIInv DEF Select, Polled
<1>4. CASE Active(g)
  <2> DEFINE s == [board[owner[g]] EXCEPT !.syncing = TRUE]
  <2>1. board[owner[g]] \in FolderStatus
    BY <1>4, EntryOfCurrentRun DEF Active
  <2>2. (~board[owner[g]].syncing) \in BOOLEAN /\ s.syncing
    BY <2>1 DEF FolderStatus
  <2>3. Reported(g, s)
    BY <1>4, <2>2, SyncingReports DEF Active, ReportActive
  <2>4. phase' = [phase EXCEPT ![g] = "polled"] /\ work' = [work EXCEPT ![g] = work[g]]
    BY <1>4 DEF Active, IInv, TypeOK
  <2>5. RunStep(g, "polled", work[g], TRUE, s)
    BY <1>4, <2>3, <2>4 DEF Active, RunStep
  <2> QED
    BY <1>4, <2>2, <2>5, PhaseIsKnown, RunStepKeepsIInv DEF Active, Live
<1>5. ASSUME NEW untracked \in BOOLEAN, LocalChangeIgnored(g, untracked)
      PROVE  IInv'
  <2> DEFINE e == board[owner[g]]
  <2>1. phase[g] = "polled" /\ work[g] \in LocalWorks /\ ~busy[g] /\ BecomesIdle(g)
    BY <1>5 DEF LocalChangeIgnored
  <2>2. e \in FolderStatus /\ work[g] \in Works /\ (IsCurrent(g) => ~e.syncing)
    BY <2>1, EntryOfCurrentRun, PhaseIsKnown, LocalWorksAssumption DEF Works
  <2>3. CASE ~untracked
    <3>1. Reported(g, e)
      BY <1>5, <2>1, <2>3, UnchangedReports DEF LocalChangeIgnored
    <3> QED
      BY <2>1, <2>2, <3>1, IdleKeepsIInv
  <2>4. CASE untracked
    <3> DEFINE s == [e EXCEPT !.errors = [e.errors EXCEPT ![work[g]] = None]]
               r == [e EXCEPT !.syncing = e.syncing,
                              !.errors = [e.errors EXCEPT ![work[g]] = None]]
    <3>1. s = r
      BY <2>2 DEF FolderStatus
    <3>2. e.syncing \in BOOLEAN /\ (e.errors[work[g]] # None) \in BOOLEAN
      BY <2>2 DEF FolderStatus
    <3>3. Reported(g, r)
      BY <1>5, <2>1, <2>2, <2>4, <3>1, <3>2, FinishReports DEF LocalChangeIgnored, ReportClear
    <3>4. r.syncing = e.syncing
      BY <2>2 DEF FolderStatus
    <3> QED
      BY <2>1, <2>2, <3>3, <3>4, IdleKeepsIInv
  <2> QED
    BY <2>3, <2>4
<1>6. ASSUME NEW result \in Errors \cup {None}, result # None => result[1] = g,
             WorkFinished(g, result)
      PROVE  IInv'
  <2>1. PICK s : Reported(g, s) /\ (IsCurrent(g) => ~s.syncing)
    BY <1>6, FinishedEntry DEF WorkFinished, Works
  <2> QED
    BY <1>6, <2>1, IdleKeepsIInv DEF WorkFinished
<1>7. \A t \in Texts : <<g, t>> \in Errors /\ <<g, t>>[1] = g
  BY DEF Errors
<1> QED
  BY <1>1, <1>2, <1>3, <1>4, <1>5, <1>6, <1>7 DEF Worker

-----------------------------------------------------------------------------
(* The statements of start_folder and stop_folder.                          *)

\* Taking the mutex and aborting the previous task keeps the invariant.
LEMMA RemoveAndAbortKeepsRuns ==
    ASSUME IInv, NEW f \in Folders, lock = Free, RemoveAndAbort(f),
           NEW at \in {"start", "stop"}, at = "start" => generation < MaxGeneration,
           lock' = [at |-> at, folder |-> f, gen |-> None],
           UNCHANGED <<generation, boardVars, phase, owner, work, busy>>
    PROVE  IInv'
<1> USE NoneIsNoRun, NoneAssumption
<1>1. /\ tasks' = [tasks EXCEPT ![f] = None]
      /\ aborted' \in [Gens -> BOOLEAN]
      /\ \A g \in Gens : aborted[g] => aborted'[g]
      /\ \A g \in Gens : aborted'[g] /\ ~aborted[g] => g = tasks[f]
      /\ tasks[f] # None => aborted'[tasks[f]]
  BY DEF RemoveAndAbort, IInv, TypeOK
<1>2. TypeOK'
  BY <1>1 DEF IInv, TypeOK, boardVars, Absent
<1>3. RunsOK'
  <2>1. lock.at = "free" /\ lock'.at \in {"start", "stop"}
    BY DEF Free
  <2>2. \A g \in Gens : phase[g] \in {"unborn", "created"} => ~aborted'[g]
    <3> SUFFICES ASSUME NEW g \in Gens, phase[g] \in {"unborn", "created"}, aborted'[g]
                 PROVE  FALSE
      OBVIOUS
    <3>1. ~aborted[g]
      BY DEF IInv, RunsOK
    <3>2. g = tasks[f] /\ tasks[f] # None
      BY <1>1, <3>1
    <3> QED
      BY <3>2 DEF IInv, TasksOK
  <2> QED
    BY <2>1, <2>2 DEF IInv, RunsOK
<1>4. TasksOK'
  BY <1>1 DEF IInv, TypeOK, TasksOK
<1>5. LockOK'
  BY <1>1 DEF IInv, TypeOK, LockOK, Free
<1>6. BoardOK'
  BY <1>1 DEF IInv, TypeOK, BoardOK, Free, boardVars
<1>7. ActivityIsTruthful' /\ ErrorsFromCurrentRun'
  BY DEF IInv, ActivityIsTruthful, ErrorsFromCurrentRun, boardVars
<1>8. NoOrphanWorker'
  BY <1>1 DEF IInv, TypeOK, NoOrphanWorker, Free
<1> QED
  BY <1>2, <1>3, <1>4, <1>5, <1>6, <1>7, <1>8 DEF IInv

\* A new run gets a generation no other run has, and the folder's entry.
LEMMA StartStatusKeepsIInv ==
    ASSUME IInv, StartStatus
    PROVE  IInv'
<1> USE NoneIsNoRun, NoneAssumption, BoundsAssumption
<1> DEFINE f == lock.folder
           g == generation
<1>1. /\ f \in Folders /\ g \in Gens /\ phase[g] = "unborn" /\ ~aborted[g]
      /\ work[g] = "initial sync" /\ ~busy[g] /\ tasks[f] = None /\ g # None
  <2>1. f \in Folders /\ tasks[f] = None /\ g < MaxGeneration /\ g \in Nat
    BY DEF StartStatus, IInv, TypeOK, LockOK
  <2>2. g \in Gens /\ g >= generation
    BY <2>1 DEF Gens
  <2>3. phase[g] = "unborn"
    BY <2>2 DEF IInv, RunsOK
  <2>4. ~aborted[g] /\ work[g] = "initial sync"
    BY <2>2, <2>3 DEF IInv, RunsOK
  <2>5. ~busy[g]
    BY <2>2, <2>4, LocalWorksAssumption DEF IInv, RunsOK
  <2> QED
    BY <2>1, <2>2, <2>3, <2>4, <2>5
<1>2. /\ board' = [board EXCEPT ![f] = Fresh(g)] /\ revision' = revision + 1
      /\ phase' = [phase EXCEPT ![g] = "created"]
      /\ owner' = [owner EXCEPT ![g] = f]
      /\ lock' = [lock EXCEPT !.at = "announced", !.gen = g]
      /\ generation' = g + 1
      /\ UNCHANGED <<tasks, aborted, work, busy>>
  BY DEF StartStatus, Update
<1>3. /\ lock'.at = "announced" /\ lock'.gen = g /\ lock'.folder = f
      /\ lock' \in [at     : {"free", "start", "announced", "spawned", "stop"},
                    folder : Folders \cup {None},
                    gen    : Gens \cup {None}]
  BY <1>1, <1>2 DEF IInv, TypeOK
<1>4. Fresh(g) \in FolderStatus /\ Fresh(g).generation = g /\ Fresh(g).syncing
                               /\ \A w \in Works : Fresh(g).errors[w] = None
  BY <1>1 DEF Fresh, FolderStatus
<1>5. \A h \in Folders : board'[h] = IF h = f THEN Fresh(g) ELSE board[h]
  BY <1>2 DEF IInv, TypeOK
<1>6. \A h \in Gens : /\ phase'[h] = IF h = g THEN "created" ELSE phase[h]
                      /\ owner'[h] = IF h = g THEN f ELSE owner[h]
  BY <1>2 DEF IInv, TypeOK
<1>15. \A h \in Folders : board[h].generation \in Gens \cup {None} /\ board[h].generation # g
  <2>1. \A h \in Folders : board[h] \in FolderStatus
    BY DEF IInv, TypeOK
  <2>2. \A h \in Folders : board[h].generation \in Gens \cup {None}
    BY <2>1 DEF FolderStatus
  <2> QED
    BY <1>1, <2>2 DEF IInv, BoardOK
<1>16. /\ board'[f].generation = g /\ board'[f].syncing
       /\ owner'[g] = f /\ phase'[g] = "created" /\ work'[g] = "initial sync"
  <2>1. board'[f] = Fresh(g)
    BY <1>1, <1>5
  <2>2. board'[f].generation = g /\ board'[f].syncing
    BY <1>4, <2>1
  <2>3. owner'[g] = f /\ phase'[g] = "created"
    BY <1>1, <1>6
  <2>4. work'[g] = "initial sync"
    BY <1>1, <1>2
  <2> QED
    BY <2>2, <2>3, <2>4
<1>7. TypeOK'
  <2>1. board' \in [Folders -> FolderStatus]
    BY <1>1, <1>2, <1>4 DEF IInv, TypeOK
  <2>4. revision' \in Nat
    BY <1>2 DEF IInv, TypeOK
  <2>5. generation' \in 0..MaxGeneration
    <3>1. g \in Nat /\ g < MaxGeneration /\ generation' = g + 1
      <4>1. g \in 0..(MaxGeneration - 1)
        BY <1>1 DEF Gens
      <4> QED
        BY <4>1, <1>2, BoundsAssumption
    <3> QED
      BY <3>1, BoundsAssumption
  <2>2. \A h \in Folders : board'[h].generation = None => board'[h] = Absent
    BY <1>1, <1>4, <1>5 DEF IInv, TypeOK
  <2>3. phase' \in [Gens -> Phases] /\ owner' \in [Gens -> Folders \cup {None}]
    BY <1>1, <1>2 DEF IInv, TypeOK, Phases
  <2> QED
    BY <1>2, <1>3, <2>1, <2>2, <2>3, <2>4, <2>5 DEF IInv, TypeOK, Absent
<1>8. RunsOK'
  <2>1. \A h \in Gens : h >= generation' <=> h >= generation /\ h # g
    BY <1>2 DEF IInv, TypeOK, Gens
  <2>2. \A h \in Gens : phase[h] # "created"
    BY DEF IInv, RunsOK, StartStatus
  <2>3. \A h \in Gens : phase'[h] = "unborn" <=> h >= generation'
    BY <1>6, <2>1 DEF IInv, RunsOK
  <2> SUFFICES ASSUME NEW h \in Gens
               PROVE  /\ phase'[h] # "unborn" => owner'[h] \in Folders
                      /\ phase'[h] \in {"unborn", "created", "spawned"} => work'[h] = "initial sync"
                      /\ phase'[h] \in {"unborn", "created"} => ~aborted'[h]
                      /\ phase'[h] = "created" <=> lock'.at = "announced" /\ lock'.gen = h
                      /\ busy'[h] => work'[h] \in LocalWorks \cup {"remote changes"}
                      /\ phase'[h] = "done" => ~busy'[h]
    BY <2>3 DEF RunsOK
  <2>4. CASE h = g
    BY <1>1, <1>2, <1>3, <1>6, <2>4
  <2>5. CASE h # g
    <3>1. phase'[h] = phase[h] /\ owner'[h] = owner[h] /\ phase[h] # "created"
      BY <1>6, <2>2, <2>5
    <3>2. UNCHANGED <<aborted, work, busy>> /\ lock'.gen # h
      BY <1>2, <1>3, <2>5
    <3> QED
      BY <3>1, <3>2 DEF IInv, RunsOK
  <2> QED
    BY <2>4, <2>5
<1>9. TasksOK'
  BY <1>1, <1>2, <1>6 DEF IInv, TypeOK, TasksOK
<1>10. LockOK'
  <2>1. lock' # Free
    BY <1>3 DEF Free
  <2> QED
    BY <1>1, <1>2, <1>3, <1>16, <2>1 DEF LockOK
<1>11. BoardOK'
  <2> SUFFICES ASSUME NEW h \in Folders
               PROVE  /\ h # lock'.folder => board'[h].generation = tasks'[h]
                      /\ board'[h].generation # None =>
                           /\ owner'[board'[h].generation] = h
                           /\ phase'[board'[h].generation] # "unborn"
    BY DEF BoardOK
  <2>1. CASE h = f
    BY <1>3, <1>16, <2>1
  <2>2. CASE h # f
    BY <1>2, <1>3, <1>5, <1>6, <1>15, <2>2 DEF IInv, BoardOK
  <2> QED
    BY <2>1, <2>2
<1>12. ActivityIsTruthful'
  <2> SUFFICES ASSUME NEW h \in Folders, board'[h].generation # None
               PROVE  /\ owner'[board'[h].generation] = h
                      /\ board'[h].syncing <=>
                           /\ phase'[board'[h].generation] \in Live
                           /\ \/ work'[board'[h].generation] = "initial sync"
                              \/ busy'[board'[h].generation]
    BY DEF ActivityIsTruthful
  <2>1. CASE h = f
    BY <1>16, <2>1 DEF Live
  <2>2. CASE h # f
    <3> DEFINE k == board[h].generation
    <3>1. board'[h] = board[h] /\ k \in Gens /\ k # g
      BY <1>5, <1>15, <2>2
    <3>2. phase'[k] = phase[k] /\ owner'[k] = owner[k] /\ UNCHANGED <<work, busy>>
      BY <1>2, <1>6, <3>1
    <3> QED
      BY <3>1, <3>2, NoneIsNoRun DEF IInv, ActivityIsTruthful
  <2> QED
    BY <2>1, <2>2
<1>13. NoOrphanWorker'
  BY <1>2, <1>3, <1>6 DEF IInv, NoOrphanWorker, LockOK, StartStatus
<1>14. ErrorsFromCurrentRun'
  BY <1>4, <1>5 DEF IInv, ErrorsFromCurrentRun
<1> QED
  BY <1>7, <1>8, <1>9, <1>10, <1>11, <1>12, <1>13, <1>14 DEF IInv

\* The new task may run although its handle is not kept yet.
LEMMA StartSpawnKeepsIInv ==
    ASSUME IInv, StartSpawn
    PROVE  IInv'
<1> DEFINE g == lock.gen
<1>1. /\ g \in Gens /\ phase[g] = "created"
      /\ phase' = [phase EXCEPT ![g] = "spawned"]
      /\ lock' = [lock EXCEPT !.at = "spawned"]
      /\ UNCHANGED <<generation, tasks, boardVars, aborted, owner, work, busy>>
  BY DEF StartSpawn, IInv, LockOK, RunsOK
<1>2. /\ lock'.at = "spawned" /\ lock'.gen = g /\ lock'.folder = lock.folder
      /\ lock' \in [at     : {"free", "start", "announced", "spawned", "stop"},
                    folder : Folders \cup {None},
                    gen    : Gens \cup {None}]
  BY <1>1 DEF IInv, TypeOK
<1>3. \A h \in Gens : phase'[h] = IF h = g THEN "spawned" ELSE phase[h]
  BY <1>1 DEF IInv, TypeOK
<1>4. TypeOK'
  BY <1>1, <1>2 DEF IInv, TypeOK, Phases, boardVars, Absent
<1>5. RunsOK'
  <2>1. \A h \in Gens : phase[h] = "created" => h = g
    BY DEF IInv, RunsOK
  <2>2. ASSUME NEW h \in Gens, h # g
        PROVE  phase'[h] = phase[h] /\ phase[h] # "created"
    BY <1>3, <2>1, <2>2
  <2>3. phase'[g] = "spawned" /\ phase[g] = "created" /\ lock'.at = "spawned"
    BY <1>1, <1>2, <1>3
  <2>4. UNCHANGED <<generation, aborted, owner, work, busy>>
    BY <1>1
  <2> QED
    BY <2>2, <2>3, <2>4 DEF IInv, RunsOK
<1>6. TasksOK'
  BY <1>1, <1>3 DEF IInv, TypeOK, TasksOK
<1>7. LockOK'
  BY <1>1, <1>2, <1>3 DEF IInv, LockOK, StartSpawn, Free, boardVars
<1>8. BoardOK'
  <2>1. \A f \in Folders : board[f].generation \in Gens \cup {None}
    BY DEF IInv, TypeOK, FolderStatus
  <2> QED
    BY <1>1, <1>2, <1>3, <2>1 DEF IInv, BoardOK, boardVars
<1>9. ActivityIsTruthful'
  <2> SUFFICES ASSUME NEW f \in Folders, board[f].generation # None
               PROVE  /\ owner[board[f].generation] = f
                      /\ board[f].syncing <=>
                           /\ phase'[board[f].generation] \in Live
                           /\ \/ work[board[f].generation] = "initial sync"
                              \/ busy[board[f].generation]
    BY <1>1 DEF ActivityIsTruthful, boardVars
  <2>1. board[f].generation \in Gens
    BY DEF IInv, TypeOK, FolderStatus
  <2> QED
    BY <1>1, <1>3, <2>1 DEF IInv, ActivityIsTruthful, Live
<1>10. NoOrphanWorker'
  BY <1>1, <1>2, <1>3 DEF IInv, NoOrphanWorker, Live
<1>11. ErrorsFromCurrentRun'
  BY <1>1 DEF IInv, ErrorsFromCurrentRun, boardVars
<1> QED
  BY <1>4, <1>5, <1>6, <1>7, <1>8, <1>9, <1>10, <1>11 DEF IInv

\* Keeping the handle makes tasks and board agree again.
LEMMA StartInsertKeepsIInv ==
    ASSUME IInv, StartInsert
    PROVE  IInv'
<1> USE NoneIsNoRun, NoneAssumption
<1> DEFINE g == lock.gen
           f == lock.folder
<1>1. /\ f \in Folders /\ g \in Gens /\ owner[g] = f /\ ~aborted[g]
      /\ board[f].generation = g /\ phase[g] \notin {"unborn", "created"}
      /\ lock.at = "spawned"
  BY DEF StartInsert, IInv, LockOK, RunsOK
<1>2. /\ tasks' = [tasks EXCEPT ![f] = g] /\ lock' = Free
      /\ UNCHANGED <<generation, boardVars, runVars>>
  BY DEF StartInsert
<1>3. \A h \in Folders : tasks'[h] = IF h = f THEN g ELSE tasks[h]
  BY <1>2 DEF IInv, TypeOK
<1>4. /\ lock'.at = "free" /\ lock'.gen = None /\ lock'.folder = None
      /\ lock' \in [at     : {"free", "start", "announced", "spawned", "stop"},
                    folder : Folders \cup {None},
                    gen    : Gens \cup {None}]
  BY <1>2 DEF Free
<1>5. TypeOK'
  BY <1>1, <1>2, <1>4 DEF IInv, TypeOK, boardVars, runVars, Absent
<1>6. RunsOK'
  BY <1>1, <1>2, <1>4 DEF IInv, RunsOK, runVars
<1>7. TasksOK'
  BY <1>1, <1>2, <1>3 DEF IInv, TasksOK, runVars
<1>8. LockOK'
  BY <1>2, <1>4 DEF LockOK
<1>9. BoardOK'
  BY <1>1, <1>2, <1>3 DEF IInv, BoardOK, boardVars, runVars
<1>10. ActivityIsTruthful' /\ ErrorsFromCurrentRun'
  BY <1>2 DEF IInv, ActivityIsTruthful, ErrorsFromCurrentRun, boardVars, runVars
<1>11. NoOrphanWorker'
  <2> SUFFICES ASSUME NEW h \in Gens, phase[h] \in Live, ~aborted[h]
               PROVE  tasks'[owner[h]] = h
    BY <1>2 DEF NoOrphanWorker, runVars
  <2>1. owner[h] \in Folders
    BY DEF IInv, RunsOK, Live
  <2>2. CASE h = g
    BY <1>1, <1>3, <2>2
  <2>3. CASE h # g
    BY <1>1, <1>3, <2>1, <2>3 DEF IInv, NoOrphanWorker, LockOK
  <2> QED
    BY <2>2, <2>3
<1> QED
  BY <1>5, <1>6, <1>7, <1>8, <1>9, <1>10, <1>11 DEF IInv

\* Taking the entry off the board makes tasks and board agree again.
LEMMA StopStatusKeepsIInv ==
    ASSUME IInv, StopStatus
    PROVE  IInv'
<1> USE NoneIsNoRun, NoneAssumption
<1> DEFINE f == lock.folder
<1>1. /\ f \in Folders /\ tasks[f] = None /\ lock.gen = None /\ lock.at = "stop"
      /\ board[f] \in FolderStatus
  BY DEF StopStatus, IInv, LockOK, TypeOK
<1>2. /\ board' = [board EXCEPT ![f] = Absent] /\ lock' = Free
      /\ UNCHANGED <<generation, tasks, runVars>>
  BY DEF StopStatus, Update
<1>3. revision' \in Nat
  <2>1. revision' = IF board[f].generation # None THEN revision + 1 ELSE revision
    BY DEF StopStatus, Update
  <2> QED
    BY <2>1 DEF IInv, TypeOK
<1>4. /\ Absent \in FolderStatus /\ Absent.generation = None
      /\ \A w \in Works : Absent.errors[w] = None
  BY DEF Absent, FolderStatus
<1>5. \A h \in Folders : board'[h] = IF h = f THEN Absent ELSE board[h]
  BY <1>2 DEF IInv, TypeOK
<1>6. /\ lock'.at = "free" /\ lock'.gen = None /\ lock'.folder = None
      /\ lock' \in [at     : {"free", "start", "announced", "spawned", "stop"},
                    folder : Folders \cup {None},
                    gen    : Gens \cup {None}]
  BY <1>2 DEF Free
<1>7. TypeOK'
  <2>1. board' \in [Folders -> FolderStatus]
    BY <1>1, <1>2, <1>4 DEF IInv, TypeOK
  <2>2. \A h \in Folders : board'[h].generation = None => board'[h] = Absent
    BY <1>5 DEF IInv, TypeOK
  <2> QED
    BY <1>2, <1>3, <1>6, <2>1, <2>2 DEF IInv, TypeOK, runVars, Absent
<1>8. RunsOK'
  BY <1>1, <1>2, <1>6 DEF IInv, RunsOK, runVars
<1>9. TasksOK'
  BY <1>2 DEF IInv, TasksOK, runVars
<1>10. LockOK'
  BY <1>2, <1>6 DEF LockOK
<1>11. BoardOK'
  BY <1>1, <1>2, <1>4, <1>5 DEF IInv, BoardOK, runVars
<1>12. ActivityIsTruthful' /\ ErrorsFromCurrentRun'
  <2>1. ActivityIsTruthful'
    <3> SUFFICES ASSUME NEW h \in Folders, board'[h].generation # None
                 PROVE  /\ owner[board'[h].generation] = h
                        /\ board'[h].syncing <=>
                             /\ phase[board'[h].generation] \in Live
                             /\ \/ work[board'[h].generation] = "initial sync"
                                \/ busy[board'[h].generation]
      BY <1>2 DEF ActivityIsTruthful, runVars
    <3>1. board'[h] = board[h]
      BY <1>4, <1>5
    <3> QED
      BY <3>1 DEF IInv, ActivityIsTruthful
  <2>2. ErrorsFromCurrentRun'
    BY <1>4, <1>5 DEF IInv, ErrorsFromCurrentRun
  <2> QED
    BY <2>1, <2>2
<1>13. NoOrphanWorker'
  BY <1>1, <1>2 DEF IInv, NoOrphanWorker, runVars
<1> QED
  BY <1>7, <1>8, <1>9, <1>10, <1>11, <1>12, <1>13 DEF IInv

-----------------------------------------------------------------------------
(* The theorems.                                                            *)

\* With no task and an empty board the invariant holds.
LEMMA InitEstablishesIInv == Init => IInv
<1> SUFFICES ASSUME Init
             PROVE  IInv
  OBVIOUS
<1>0. generation = 0 /\ revision = 0
  BY DEF Init
<1>5. generation \in 0..MaxGeneration /\ revision \in Nat /\ \A g \in Gens : g >= generation
  BY <1>0, BoundsAssumption DEF Gens
<1> USE NoneIsNoRun, NoneAssumption DEF Init
<1>1. Absent \in FolderStatus /\ Absent.generation = None
                             /\ \A w \in Works : Absent.errors[w] = None
  BY DEF Absent, FolderStatus
<1>2. TypeOK
  <2>2. /\ tasks \in [Folders -> Gens \cup {None}]
        /\ board \in [Folders -> FolderStatus]
        /\ \A f \in Folders : board[f].generation = None => board[f] = Absent
    BY <1>1
  <2>3. lock \in [at     : {"free", "start", "announced", "spawned", "stop"},
                 folder : Folders \cup {None},
                 gen    : Gens \cup {None}]
    BY DEF Free
  <2>4. /\ phase \in [Gens -> Phases] /\ aborted \in [Gens -> BOOLEAN]
        /\ owner \in [Gens -> Folders \cup {None}]
        /\ work \in [Gens -> Works \cup {"idle", "ended"}] /\ busy \in [Gens -> BOOLEAN]
    BY DEF Phases, Works
  <2> QED
    BY <1>5, <2>2, <2>3, <2>4 DEF TypeOK
<1>3. RunsOK
  <2>2. \A g \in Gens : /\ phase[g] = "unborn" /\ ~aborted[g] /\ ~busy[g]
                        /\ work[g] = "initial sync"
    OBVIOUS
  <2>3. lock.at = "free"
    BY DEF Free
  <2> QED
    BY <1>5, <2>2, <2>3 DEF RunsOK
<1>4. TasksOK /\ LockOK /\ BoardOK /\ ActivityIsTruthful /\ NoOrphanWorker /\ ErrorsFromCurrentRun
  BY <1>1 DEF TasksOK, LockOK, BoardOK, ActivityIsTruthful, NoOrphanWorker,
              ErrorsFromCurrentRun, Free, Live
<1> QED
  BY <1>2, <1>3, <1>4 DEF IInv

\* Every statement of the engine, the runtime and the workers keeps it.
LEMMA NextKeepsIInv == IInv /\ [Next]_vars => IInv'
<1> SUFFICES ASSUME IInv, [Next]_vars
             PROVE  IInv'
  OBVIOUS
<1>1. ASSUME NEW f \in Folders, StartFolder(f)
      PROVE  IInv'
  BY <1>1, RemoveAndAbortKeepsRuns DEF StartFolder
<1>2. ASSUME NEW f \in Folders, StopFolder(f)
      PROVE  IInv'
  BY <1>2, RemoveAndAbortKeepsRuns DEF StopFolder
<1>3. CASE StartStatus
  BY <1>3, StartStatusKeepsIInv
<1>4. CASE StartSpawn
  BY <1>4, StartSpawnKeepsIInv
<1>5. CASE StartInsert
  BY <1>5, StartInsertKeepsIInv
<1>6. CASE StopStatus
  BY <1>6, StopStatusKeepsIInv
<1>7. ASSUME NEW g \in Gens, Runtime(g) \/ Worker(g)
      PROVE  IInv'
  BY <1>7, RuntimeKeepsIInv, WorkerKeepsIInv
<1>8. CASE UNCHANGED vars
  <2>1. UNCHANGED <<generation, tasks, lock, revision, board, phase, aborted, owner, work, busy>>
    BY <1>8 DEF vars, engineVars, boardVars, runVars
  <2>2. TypeOK' /\ RunsOK' /\ TasksOK'
    BY <2>1 DEF IInv, TypeOK, RunsOK, TasksOK, Absent
  <2>3. LockOK' /\ BoardOK'
    BY <2>1 DEF IInv, LockOK, BoardOK, Free
  <2>4. ActivityIsTruthful' /\ NoOrphanWorker' /\ ErrorsFromCurrentRun'
    BY <2>1 DEF IInv, ActivityIsTruthful, NoOrphanWorker, ErrorsFromCurrentRun
  <2> QED
    BY <2>2, <2>3, <2>4 DEF IInv
<1> QED
  BY <1>1, <1>2, <1>3, <1>4, <1>5, <1>6, <1>7, <1>8 DEF Next, Operation

\* Every reachable state satisfies the inductive invariant.
THEOREM Invariance == Spec => []IInv
BY InitEstablishesIInv, NextKeepsIInv, PTL DEF Spec

\* Type correctness; an entry that is not on the board holds nothing.
THEOREM TypeCorrect == Spec => []TypeOK
<1>1. IInv => TypeOK
  BY DEF IInv
<1> QED
  BY <1>1, Invariance, PTL

\* A folder is shown as syncing exactly while its current run is at work,
\* whatever start, stop, abort, panic and report interleave.
THEOREM ActivityTruthful == Spec => []ActivityIsTruthful
<1>1. IInv => ActivityIsTruthful
  BY DEF IInv
<1> QED
  BY <1>1, Invariance, PTL

\* A run nobody told to stop can always be reached through its handle.
THEOREM NoOrphans == Spec => []NoOrphanWorker
<1>1. IInv => NoOrphanWorker
  BY DEF IInv
<1> QED
  BY <1>1, Invariance, PTL

\* A folder never shows an error of a run other than its current one.
THEOREM ErrorsCurrent == Spec => []ErrorsFromCurrentRun
<1>1. IInv => ErrorsFromCurrentRun
  BY DEF IInv
<1> QED
  BY <1>1, Invariance, PTL

-----------------------------------------------------------------------------
(* How a run that ended by itself is seen on the board.                     *)

\* The run of f's entry, if it ended and nobody told it to stop, has left the
\* failure it ended with.
EndShown(f) ==
    LET g == board[f].generation
    IN  g # None /\ ~aborted[g] /\ phase[g] = "done" => FailureShown(f)

FailuresShown == \A f \in Folders : EndShown(f)

\* A step of run g changes no entry but the run's own.
OnlyOwnEntry(g) == \A f \in Folders : board'[f] = board[f] \/ board'[f].generation = g

\* An entry left alone goes on showing its run's end if that run did not end now.
LEMMA KeptEntryShows ==
    ASSUME NEW f \in Folders, EndShown(f), board'[f] = board[f],
           NEW g, g = board[f].generation,
           g # None => /\ phase'[g] = "done" => phase[g] = "done"
                       /\ aborted[g] => aborted'[g]
    PROVE  EndShown(f)'
BY DEF EndShown, FailureShown

\* A report with an entry that is still g's changes no other entry.
LEMMA UpdateOwnEntry ==
    ASSUME TypeOK, NEW g \in Gens, owner[g] \in Folders, NEW s, NEW c,
           FolderUpdate(g, s, c), s.generation = board[owner[g]].generation
    PROVE  OnlyOwnEntry(g)
BY DEF FolderUpdate, Update, IsCurrent, OnlyOwnEntry, TypeOK, boardVars

\* No report of a run changes an entry that is not its own.
LEMMA ReportsOwnEntry ==
    ASSUME IInv, NEW g \in Gens, phase[g] # "unborn",
           \/ UNCHANGED boardVars
           \/ ReportActive(g)
           \/ ReportDrop(g)
           \/ \E w \in Works : ReportClear(g, w)
           \/ \E w \in Works : \E result : ReportFinish(g, w, result)
    PROVE  OnlyOwnEntry(g)
<1> DEFINE e == board[owner[g]]
<1>1. TypeOK /\ owner[g] \in Folders /\ e \in FolderStatus
  BY EntryOfCurrentRun DEF IInv
<1>2. CASE UNCHANGED boardVars
  BY <1>2 DEF boardVars, OnlyOwnEntry
<1>3. CASE ReportActive(g)
  <2>1. [e EXCEPT !.syncing = TRUE].generation = e.generation
    BY <1>1 DEF FolderStatus
  <2> QED
    BY <1>1, <1>3, <2>1, UpdateOwnEntry DEF ReportActive
<1>4. CASE ReportDrop(g)
  <2>1. [e EXCEPT !.syncing = FALSE].generation = e.generation
    BY <1>1 DEF FolderStatus
  <2> QED
    BY <1>1, <1>4, <2>1, UpdateOwnEntry DEF ReportDrop
<1>5. ASSUME NEW w \in Works, ReportClear(g, w)
      PROVE  OnlyOwnEntry(g)
  <2> DEFINE s == [e EXCEPT !.errors = [e.errors EXCEPT ![w] = None]]
  <2>1. s.generation = e.generation
    BY <1>1 DEF FolderStatus
  <2>2. FolderUpdate(g, s, e.errors[w] # None)
    BY <1>5 DEF ReportClear
  <2> HIDE DEF s
  <2> QED
    BY <1>1, <2>1, <2>2, UpdateOwnEntry
<1>6. ASSUME NEW w \in Works, NEW result, ReportFinish(g, w, result)
      PROVE  OnlyOwnEntry(g)
  <2> DEFINE s == [e EXCEPT !.syncing = FALSE, !.errors = [e.errors EXCEPT ![w] = result]]
  <2>1. s.generation = e.generation
    BY <1>1 DEF FolderStatus
  <2>2. FolderUpdate(g, s, e.syncing \/ e.errors[w] # result)
    BY <1>6 DEF ReportFinish
  <2> HIDE DEF s
  <2> QED
    BY <1>1, <2>1, <2>2, UpdateOwnEntry
<1> QED
  BY <1>2, <1>3, <1>4, <1>5, <1>6

\* A step after which the run is alive ends no run.
LEMMA AliveKeepsFailures ==
    ASSUME IInv, FailuresShown, NEW g \in Gens, OnlyOwnEntry(g), aborted' = aborted,
           NEW p \in {"spawned", "polled", "parked"}, phase' = [phase EXCEPT ![g] = p]
    PROVE  FailuresShown'
<1> SUFFICES ASSUME NEW f \in Folders
             PROVE  EndShown(f)'
  BY DEF FailuresShown
<1>1. phase \in [Gens -> Phases] /\ phase'[g] # "done"
  BY DEF IInv, TypeOK
<1>2. CASE board'[f].generation = g
  BY <1>1, <1>2 DEF EndShown
<1>3. CASE board'[f] = board[f] /\ board'[f].generation # g
  <2>1. board[f].generation \in Gens \cup {None}
    BY DEF IInv, TypeOK, FolderStatus
  <2> QED
    BY <1>1, <1>3, <2>1, KeptEntryShows DEF FailuresShown
<1> QED
  BY <1>2, <1>3 DEF OnlyOwnEntry

\* A run ends because it was told to, or with a report of its failure.
LEMMA EndKeepsFailures ==
    ASSUME IInv, FailuresShown, NEW g \in Gens, phase[g] # "unborn", Ends(g), OnlyOwnEntry(g),
           ~aborted[g] => \E w \in {"initial sync", "worker"} : \E result \in Errors :
                            ReportFinish(g, w, result)
    PROVE  FailuresShown'
<1> SUFFICES ASSUME NEW f \in Folders
             PROVE  EndShown(f)'
  BY DEF FailuresShown
<1>1. /\ phase \in [Gens -> Phases] /\ owner[g] \in Folders
      /\ board \in [Folders -> FolderStatus]
      /\ phase' = [phase EXCEPT ![g] = "done"] /\ aborted' = aborted
  BY EntryOfCurrentRun DEF IInv, TypeOK, Ends
<1>2. CASE board'[f].generation # g
  <2>1. board[f].generation \in Gens \cup {None} /\ board'[f] = board[f]
    BY <1>1, <1>2 DEF FolderStatus, OnlyOwnEntry
  <2> QED
    BY <1>1, <1>2, <2>1, KeptEntryShows DEF FailuresShown
<1>3. CASE board'[f].generation = g /\ aborted[g]
  BY <1>1, <1>3 DEF EndShown
<1>4. CASE board'[f].generation = g /\ ~aborted[g]
  <2>1. PICK w \in {"initial sync", "worker"}, result \in Errors : ReportFinish(g, w, result)
    BY <1>4
  <2> DEFINE e == board[owner[g]]
             s == [e EXCEPT !.syncing = FALSE, !.errors = [e.errors EXCEPT ![w] = result]]
  <2>2. e \in FolderStatus /\ w \in Works /\ result # None
    BY <1>1, <2>1, ErrorsAssumption DEF Works
  <2>3. s.errors[w] = result
    BY <2>2 DEF FolderStatus
  <2>4. CASE IsCurrent(g)
    <3>1. board' = [board EXCEPT ![owner[g]] = s]
      BY <2>1, <2>4 DEF ReportFinish, FolderUpdate, Update
    <3>2. f = owner[g]
      <4>1. f # owner[g] => board'[f] = board[f]
        BY <1>1, <3>1
      <4> QED
        BY <1>4, <4>1, NoneIsNoRun DEF IInv, BoardOK
    <3>3. board'[f].errors[w] # None
      BY <1>1, <2>2, <2>3, <3>1, <3>2
    <3> QED
      BY <3>3 DEF EndShown, FailureShown
  <2>5. CASE ~IsCurrent(g)
    <3>1. board' = board
      BY <2>1, <2>5 DEF ReportFinish, FolderUpdate, boardVars
    <3>2. owner[g] = f
      BY <1>4, <3>1, NoneIsNoRun DEF IInv, BoardOK
    <3> QED
      BY <1>4, <2>5, <3>1, <3>2 DEF IsCurrent
  <2> QED
    BY <2>4, <2>5
<1> QED
  BY <1>2, <1>3, <1>4

\* Whatever the runtime and a worker do, an end nobody asked for is shown.
LEMMA RunKeepsFailures ==
    ASSUME IInv, FailuresShown, NEW g \in Gens, Runtime(g) \/ Worker(g)
    PROVE  FailuresShown'
<1>0. phase \in [Gens -> Phases]
  BY DEF IInv, TypeOK
<1>1. CASE Poll(g) \/ Park(g)
  <2>1. OnlyOwnEntry(g)
    BY <1>1, ReportsOwnEntry DEF Poll, Park
  <2> QED
    BY <1>1, <2>1, AliveKeepsFailures DEF Poll, Park
<1>2. CASE DropAborted(g)
  <2>1. OnlyOwnEntry(g)
    BY <1>2, ReportsOwnEntry DEF DropAborted
  <2> QED
    BY <1>2, <2>1, EndKeepsFailures DEF DropAborted
<1>3. CASE Panic(g)
  <2>1. <<g, "panicked">> \in Errors /\ "worker" \in Works
    BY DEF Errors, Works
  <2>2. phase[g] # "unborn" /\ ReportFinish(g, "worker", <<g, "panicked">>) /\ Ends(g)
    BY <1>3 DEF Panic
  <2>3. OnlyOwnEntry(g)
    BY <2>1, <2>2, ReportsOwnEntry
  <2> QED
    BY <2>1, <2>2, <2>3, EndKeepsFailures
<1>4. ASSUME NEW t \in Texts, InitialSyncFailed(g, t)
      PROVE  FailuresShown'
  <2>1. <<g, t>> \in Errors /\ "initial sync" \in Works
    BY DEF Errors, Works
  <2>2. phase[g] # "unborn" /\ ReportFinish(g, "initial sync", <<g, t>>) /\ Ends(g)
    BY <1>4 DEF InitialSyncFailed, Polled
  <2>3. OnlyOwnEntry(g)
    BY <2>1, <2>2, ReportsOwnEntry
  <2> QED
    BY <2>1, <2>2, <2>3, EndKeepsFailures
<1>5. ASSUME phase[g] = "polled", UNCHANGED <<phase, aborted>>, OnlyOwnEntry(g)
      PROVE  FailuresShown'
  <2>1. phase' = [phase EXCEPT ![g] = "polled"]
    BY <1>0, <1>5
  <2> QED
    BY <1>5, <2>1, AliveKeepsFailures
<1>6. CASE InitialSyncDone(g)
  <2>1. "initial sync" \in Works /\ phase[g] = "polled" /\ UNCHANGED <<phase, aborted>>
    BY <1>6 DEF InitialSyncDone, Polled, BecomesIdle, Works
  <2>2. OnlyOwnEntry(g)
    BY <1>6, <2>1, ReportsOwnEntry DEF InitialSyncDone
  <2> QED
    BY <1>5, <2>1, <2>2
<1>7. ASSUME NEW w \in LocalWorks \cup {"remote changes"}, Select(g, w)
      PROVE  FailuresShown'
  <2>1. OnlyOwnEntry(g)
    BY <1>7, ReportsOwnEntry DEF Select, Polled
  <2> QED
    BY <1>5, <1>7, <2>1 DEF Select, Polled
<1>8. CASE Active(g)
  <2>1. OnlyOwnEntry(g)
    BY <1>8, ReportsOwnEntry DEF Active
  <2> QED
    BY <1>5, <1>8, <2>1 DEF Active
<1>9. ASSUME NEW untracked \in BOOLEAN, LocalChangeIgnored(g, untracked)
      PROVE  FailuresShown'
  <2>1. /\ phase[g] = "polled" /\ work[g] \in Works /\ UNCHANGED <<phase, aborted>>
        /\ ReportClear(g, work[g]) \/ UNCHANGED boardVars
    BY <1>9 DEF LocalChangeIgnored, BecomesIdle, Works
  <2>2. OnlyOwnEntry(g)
    BY <2>1, ReportsOwnEntry
  <2> QED
    BY <1>5, <2>1, <2>2
<1>10. ASSUME NEW result, WorkFinished(g, result)
       PROVE  FailuresShown'
  <2>1. /\ phase[g] = "polled" /\ work[g] \in Works /\ UNCHANGED <<phase, aborted>>
        /\ ReportFinish(g, work[g], result)
    BY <1>10 DEF WorkFinished, BecomesIdle, Works
  <2>2. OnlyOwnEntry(g)
    BY <2>1, ReportsOwnEntry
  <2> QED
    BY <1>5, <2>1, <2>2
<1> QED
  BY <1>1, <1>2, <1>3, <1>4, <1>6, <1>7, <1>8, <1>9, <1>10 DEF Runtime, Worker

\* A statement of start_folder or stop_folder ends no run; the entry it replaces
\* is that of a run that is only created, or of none.
LEMMA NextKeepsFailures == IInv /\ FailuresShown /\ [Next]_vars => FailuresShown'
<1> SUFFICES ASSUME IInv, FailuresShown, [Next]_vars
             PROVE  FailuresShown'
  OBVIOUS
<1> USE NoneIsNoRun, NoneAssumption
<1>0. /\ phase \in [Gens -> Phases] /\ aborted \in [Gens -> BOOLEAN]
      /\ board \in [Folders -> FolderStatus]
      /\ \A f \in Folders : board[f].generation \in Gens \cup {None}
  BY DEF IInv, TypeOK, FolderStatus
<1>1. ASSUME NEW f \in Folders, StartFolder(f) \/ StopFolder(f)
      PROVE  FailuresShown'
  <2>1. /\ UNCHANGED <<board, phase>>
        /\ \A g \in Gens : aborted[g] => aborted'[g]
    BY <1>0, <1>1 DEF StartFolder, StopFolder, RemoveAndAbort, boardVars, IInv, TypeOK
  <2> QED
    BY <1>0, <2>1, KeptEntryShows DEF FailuresShown
<1>2. CASE StartStatus
  <2> DEFINE f == lock.folder
             k == generation
  <2>1. f \in Folders /\ k \in Gens /\ phase[k] = "unborn"
    <3>1. f \in Folders /\ k < MaxGeneration /\ k \in Nat
      BY <1>2 DEF StartStatus, IInv, TypeOK, LockOK
    <3>2. k \in Gens /\ k >= generation
      BY <3>1, BoundsAssumption DEF Gens
    <3> QED
      BY <3>1, <3>2 DEF IInv, RunsOK
  <2>2. /\ board' = [board EXCEPT ![f] = Fresh(k)] /\ aborted' = aborted
        /\ phase' = [phase EXCEPT ![k] = "created"]
    BY <1>2 DEF StartStatus, Update
  <2>3. board'[f].generation = k /\ phase'[k] = "created"
    BY <1>0, <2>1, <2>2 DEF Fresh
  <2> SUFFICES ASSUME NEW h \in Folders
               PROVE  EndShown(h)'
    BY DEF FailuresShown
  <2>4. CASE h = f
    BY <2>3, <2>4 DEF EndShown
  <2>5. CASE h # f
    <3>1. board'[h] = board[h]
      BY <1>0, <2>2, <2>5
    <3>2. board[h].generation # None => phase[board[h].generation] # "unborn"
      BY DEF IInv, BoardOK
    <3>3. board[h].generation # None => phase'[board[h].generation] = phase[board[h].generation]
      BY <1>0, <2>1, <2>2, <3>2
    <3> QED
      BY <2>2, <3>1, <3>3, KeptEntryShows DEF FailuresShown
  <2> QED
    BY <2>4, <2>5
<1>3. CASE StartSpawn
  <2>1. /\ lock.gen \in Gens /\ UNCHANGED <<board, aborted>>
        /\ phase' = [phase EXCEPT ![lock.gen] = "spawned"]
    BY <1>3 DEF StartSpawn, boardVars, IInv, LockOK
  <2> QED
    BY <1>0, <2>1, KeptEntryShows DEF FailuresShown
<1>4. CASE StartInsert \/ UNCHANGED vars
  <2>1. UNCHANGED <<board, phase, aborted>>
    BY <1>4 DEF StartInsert, vars, boardVars, runVars
  <2> QED
    BY <2>1, KeptEntryShows DEF FailuresShown
<1>5. CASE StopStatus
  <2> DEFINE f == lock.folder
  <2>1. f \in Folders /\ board' = [board EXCEPT ![f] = Absent] /\ UNCHANGED <<phase, aborted>>
    BY <1>5 DEF StopStatus, Update, runVars, IInv, LockOK
  <2> SUFFICES ASSUME NEW h \in Folders
               PROVE  EndShown(h)'
    BY DEF FailuresShown
  <2>2. CASE h = f
    <3>1. board'[h].generation = None
      BY <1>0, <2>1, <2>2 DEF Absent
    <3> QED
      BY <3>1 DEF EndShown
  <2>3. CASE h # f
    BY <1>0, <2>1, <2>3, KeptEntryShows DEF FailuresShown
  <2> QED
    BY <2>2, <2>3
<1>6. ASSUME NEW g \in Gens, Runtime(g) \/ Worker(g)
      PROVE  FailuresShown'
  BY <1>6, RunKeepsFailures
<1> QED
  BY <1>1, <1>2, <1>3, <1>4, <1>5, <1>6 DEF Next, Operation

\* While nobody holds the tasks mutex, the board lists exactly the folders whose
\* handles are kept, each under the run of its handle.  A folder that shows as
\* syncing is one running_folders() answers; one that it leaves out, because its
\* task has finished, stays on the board with the failure that ended the task.
THEOREM BoardMatchesKeptHandles == Spec => []BoardMatchesHandles
<1>1. Init => FailuresShown
  <2>1. Absent.generation = None
    BY DEF Absent
  <2>2. Init => \A f \in Folders : board[f].generation = None
    BY <2>1 DEF Init
  <2> QED
    BY <2>2 DEF FailuresShown, EndShown
<1>2. IInv /\ FailuresShown => BoardMatchesHandles
  <2> SUFFICES ASSUME IInv, FailuresShown, lock = Free, NEW f \in Folders
               PROVE  /\ board[f].generation = tasks[f]
                      /\ board[f].syncing => f \in RunningFolders
                      /\ tasks[f] # None /\ f \notin RunningFolders => FailureShown(f)
    BY DEF BoardMatchesHandles
  <2>1. board[f].generation = tasks[f]
    BY NoneAssumption DEF IInv, BoardOK, Free
  <2>2. ASSUME board[f].syncing
        PROVE  f \in RunningFolders
    <3>1. board[f].generation # None
      BY <2>2 DEF IInv, TypeOK, Absent
    <3>2. phase[tasks[f]] \in Live
      BY <2>1, <2>2, <3>1 DEF IInv, ActivityIsTruthful
    <3> QED
      BY <2>1, <3>1, <3>2 DEF RunningFolders, Live
  <2>3. ASSUME tasks[f] # None, f \notin RunningFolders
        PROVE  FailureShown(f)
    BY <2>1, <2>3 DEF RunningFolders, IInv, TasksOK, FailuresShown, EndShown
  <2> QED
    BY <2>1, <2>2, <2>3
<1> QED
  BY <1>1, <1>2, InitEstablishesIInv, NextKeepsIInv, NextKeepsFailures, PTL DEF Spec

-----------------------------------------------------------------------------
(* What one step may do to the board: the two action properties.            *)

\* A report that does not count leaves the board as it is.
LEMMA ReportCounts ==
    ASSUME TypeOK, NEW g \in Gens, NEW s, NEW c \in BOOLEAN, FolderUpdate(g, s, c),
           owner[g] \in Folders, ~c => s = board[owner[g]]
    PROVE  board' = board \/ revision' = revision + 1
BY DEF FolderUpdate, Update, TypeOK, boardVars

\* finish() and clear_error() do not count only if nothing is replaced.
LEMMA FinishCounts ==
    ASSUME IInv, NEW g \in Gens, phase[g] # "unborn", NEW w \in Works, NEW result,
           ReportFinish(g, w, result)
    PROVE  board' = board \/ revision' = revision + 1
<1> DEFINE e == board[owner[g]]
           s == [e EXCEPT !.syncing = FALSE, !.errors = [e.errors EXCEPT ![w] = result]]
           c == e.syncing \/ e.errors[w] # result
<1>1. TypeOK /\ owner[g] \in Folders /\ e \in FolderStatus
  BY EntryOfCurrentRun DEF IInv
<1>2. c \in BOOLEAN
  BY <1>1 DEF FolderStatus
<1>3. ~c => s = e
  BY <1>1 DEF FolderStatus
<1>4. FolderUpdate(g, s, c)
  BY DEF ReportFinish
<1> HIDE DEF e, s, c
<1> QED
  BY <1>1, <1>2, <1>3, <1>4, ReportCounts DEF e

LEMMA SyncingCounts ==
    ASSUME IInv, NEW g \in Gens, phase[g] # "unborn", ReportActive(g) \/ ReportDrop(g)
    PROVE  board' = board \/ revision' = revision + 1
<1> DEFINE e == board[owner[g]]
<1>1. TypeOK /\ owner[g] \in Folders /\ e \in FolderStatus
  BY EntryOfCurrentRun DEF IInv
<1>2. /\ e.syncing \in BOOLEAN /\ (~e.syncing) \in BOOLEAN
      /\ e.syncing => [e EXCEPT !.syncing = TRUE] = e
      /\ ~e.syncing => [e EXCEPT !.syncing = FALSE] = e
  BY <1>1 DEF FolderStatus
<1>3. CASE ReportActive(g)
  BY <1>1, <1>2, <1>3, ReportCounts DEF ReportActive
<1>4. CASE ReportDrop(g)
  BY <1>1, <1>2, <1>4, ReportCounts DEF ReportDrop
<1> QED
  BY <1>3, <1>4

LEMMA ClearCounts ==
    ASSUME IInv, NEW g \in Gens, phase[g] # "unborn", NEW w \in Works, ReportClear(g, w)
    PROVE  board' = board \/ revision' = revision + 1
<1> DEFINE e == board[owner[g]]
           s == [e EXCEPT !.errors = [e.errors EXCEPT ![w] = None]]
           c == e.errors[w] # None
<1>1. TypeOK /\ owner[g] \in Folders /\ e \in FolderStatus
  BY EntryOfCurrentRun DEF IInv
<1>2. c \in BOOLEAN /\ (~c => s = e)
  BY <1>1 DEF FolderStatus
<1>3. FolderUpdate(g, s, c)
  BY DEF ReportClear
<1> HIDE DEF e, s, c
<1> QED
  BY <1>1, <1>2, <1>3, ReportCounts DEF e

LEMMA StepCounts ==
    ASSUME IInv, [Next]_vars
    PROVE  board' = board \/ revision' = revision + 1
<1>1. CASE StartStatus
  BY <1>1 DEF StartStatus, Update
<1>2. CASE StopStatus
  <2>1. lock.folder \in Folders
    BY <1>2 DEF StopStatus, IInv, LockOK
  <2>2. board[lock.folder].generation = None => [board EXCEPT ![lock.folder] = Absent] = board
    BY <2>1 DEF IInv, TypeOK
  <2> QED
    BY <1>2, <2>2 DEF StopStatus, Update
<1>3. ASSUME NEW g \in Gens, Runtime(g) \/ Worker(g), board' # board
      PROVE  revision' = revision + 1
  <2>1. phase[g] # "unborn"
    BY <1>3 DEF Runtime, Worker, Poll, Park, DropAborted, Panic, InitialSyncDone,
         InitialSyncFailed, Select, Active, LocalChangeIgnored, WorkFinished, Polled
  <2>2. \/ \E w \in Works : \E result : ReportFinish(g, w, result)
        \/ ReportActive(g) \/ ReportDrop(g)
        \/ \E w \in Works : ReportClear(g, w)
    BY <1>3 DEF Runtime, Worker, Poll, Park, DropAborted, Panic, InitialSyncDone,
         InitialSyncFailed, Select, Active, LocalChangeIgnored, WorkFinished, Works, boardVars
  <2> QED
    BY <1>3, <2>1, <2>2, FinishCounts, SyncingCounts, ClearCounts
<1>4. CASE StartSpawn \/ StartInsert \/ (\E f \in Folders : StartFolder(f) \/ StopFolder(f))
  BY <1>4 DEF StartSpawn, StartInsert, StartFolder, StopFolder, boardVars
<1>5. CASE UNCHANGED vars
  BY <1>5 DEF vars, boardVars
<1> QED
  BY <1>1, <1>2, <1>3, <1>4, <1>5 DEF Next, Operation

\* Error w of folder f goes away although its run stays.
Lost(f, w) ==
    /\ board[f].errors[w] # None
    /\ board'[f].generation = board[f].generation
    /\ board'[f].errors[w] = None

\* A report loses errors only in its own entry, and only those it takes out.
LEMMA LostByReport ==
    ASSUME TypeOK, NEW g \in Gens, owner[g] \in Folders, NEW s, NEW c, FolderUpdate(g, s, c),
           NEW f \in Folders, NEW w \in Works, Lost(f, w)
    PROVE  f = owner[g] /\ board[f].generation = g /\ s.errors[w] = None
BY DEF FolderUpdate, Update, IsCurrent, TypeOK, boardVars, Lost

LEMMA LostByFinish ==
    ASSUME IInv, NEW g \in Gens, phase[g] # "unborn", NEW v \in Works, NEW result,
           ReportFinish(g, v, result), NEW f \in Folders, NEW w \in Works, Lost(f, w)
    PROVE  board[f].generation = g /\ w = v /\ result = None
<1> DEFINE e == board[owner[g]]
           s == [e EXCEPT !.syncing = FALSE, !.errors = [e.errors EXCEPT ![v] = result]]
           c == e.syncing \/ e.errors[v] # result
<1>1. TypeOK /\ owner[g] \in Folders /\ e \in FolderStatus
  BY EntryOfCurrentRun DEF IInv
<1>3. s.errors = [e.errors EXCEPT ![v] = result]
  BY <1>1 DEF FolderStatus
<1>5. FolderUpdate(g, s, c)
  BY DEF ReportFinish
<1> HIDE DEF s, c
<1>2. f = owner[g] /\ board[f].generation = g /\ s.errors[w] = None
  BY <1>1, <1>5, LostByReport
<1>4. e.errors[w] # None
  BY <1>2 DEF Lost
<1> QED
  BY <1>1, <1>2, <1>3, <1>4 DEF FolderStatus

LEMMA LostByClear ==
    ASSUME IInv, NEW g \in Gens, phase[g] # "unborn", NEW v \in Works, ReportClear(g, v),
           NEW f \in Folders, NEW w \in Works, Lost(f, w)
    PROVE  board[f].generation = g /\ w = v
<1> DEFINE e == board[owner[g]]
           s == [e EXCEPT !.errors = [e.errors EXCEPT ![v] = None]]
           c == e.errors[v] # None
<1>1. TypeOK /\ owner[g] \in Folders /\ e \in FolderStatus
  BY EntryOfCurrentRun DEF IInv
<1>3. s.errors = [e.errors EXCEPT ![v] = None]
  BY <1>1 DEF FolderStatus
<1>5. FolderUpdate(g, s, c)
  BY DEF ReportClear
<1> HIDE DEF s, c
<1>2. f = owner[g] /\ board[f].generation = g /\ s.errors[w] = None
  BY <1>1, <1>5, LostByReport
<1>4. e.errors[w] # None
  BY <1>2 DEF Lost
<1> QED
  BY <1>1, <1>2, <1>3, <1>4 DEF FolderStatus

LEMMA NotLostBySyncing ==
    ASSUME IInv, NEW g \in Gens, phase[g] # "unborn", ReportActive(g) \/ ReportDrop(g),
           NEW f \in Folders, NEW w \in Works
    PROVE  ~Lost(f, w)
<1> SUFFICES ASSUME Lost(f, w) PROVE FALSE
  OBVIOUS
<1> DEFINE e == board[owner[g]]
<1>1. TypeOK /\ owner[g] \in Folders /\ e \in FolderStatus
  BY EntryOfCurrentRun DEF IInv
<1>2. ASSUME NEW b \in BOOLEAN, NEW c, FolderUpdate(g, [e EXCEPT !.syncing = b], c)
      PROVE  FALSE
  <2> DEFINE s == [e EXCEPT !.syncing = b]
  <2>2. s.errors = e.errors
    BY <1>1 DEF FolderStatus
  <2>3. FolderUpdate(g, s, c)
    BY <1>2
  <2> HIDE DEF s
  <2>1. f = owner[g] /\ s.errors[w] = None
    BY <1>1, <2>3, LostByReport
  <2> QED
    BY <2>1, <2>2 DEF Lost
<1> QED
  BY <1>2 DEF ReportActive, ReportDrop

LEMMA StepKeepsErrors ==
    ASSUME IInv, [Next]_vars, NEW f \in Folders, NEW w \in Works, Lost(f, w)
    PROVE  \E g \in Gens : g = board[f].generation /\ work[g] = w /\ work'[g] = "idle"
<1>1. board' # board
  BY DEF Lost
<1>2. ~StartStatus
  <2> SUFFICES ASSUME StartStatus PROVE FALSE
    OBVIOUS
  <2>1. /\ lock.folder \in Folders
        /\ board' = [board EXCEPT ![lock.folder] = Fresh(generation)]
        /\ generation \in Gens
    BY BoundsAssumption DEF StartStatus, Update, IInv, LockOK, TypeOK, Gens
  <2>2. f = lock.folder /\ board[f].generation = generation
    BY <2>1 DEF Lost, IInv, TypeOK, Fresh
  <2>3. phase[generation] # "unborn" /\ generation # None
    BY <2>1, <2>2, NoneIsNoRun DEF IInv, BoardOK
  <2>4. generation >= generation
    BY BoundsAssumption DEF IInv, TypeOK
  <2> QED
    BY <2>1, <2>3, <2>4 DEF IInv, RunsOK
<1>3. ~StopStatus
  <2> SUFFICES ASSUME StopStatus PROVE FALSE
    OBVIOUS
  <2>1. lock.folder \in Folders /\ board' = [board EXCEPT ![lock.folder] = Absent]
    BY DEF StopStatus, Update, IInv, LockOK
  <2>2. board[f].generation = None
    BY <2>1 DEF Lost, IInv, TypeOK, Absent
  <2> QED
    BY <2>2 DEF Lost, IInv, TypeOK, Absent
<1>4. PICK g \in Gens : Runtime(g) \/ Worker(g)
  BY <1>1, <1>2, <1>3 DEF Next, Operation, StartSpawn, StartInsert, StartFolder, StopFolder,
     vars, boardVars
<1>5. phase[g] # "unborn"
  BY <1>4 DEF Runtime, Worker, Poll, Park, DropAborted, Panic, InitialSyncDone,
     InitialSyncFailed, Select, Active, LocalChangeIgnored, WorkFinished, Polled
<1>6. <<g, "panicked">> # None /\ \A t \in Texts : <<g, t>> # None
  BY ErrorsAssumption DEF Errors
<1>7. ~Runtime(g)
  <2>1. "worker" \in Works
    BY DEF Works
  <2> QED
    BY <1>1, <1>5, <1>6, <2>1, LostByFinish, NotLostBySyncing
    DEF Runtime, Poll, Park, DropAborted, Panic, boardVars
<1>8. board[f].generation = g /\ work[g] = w /\ BecomesIdle(g)
  <2>1. CASE InitialSyncDone(g)
    <3>1. "initial sync" \in Works
      BY DEF Works
    <3> QED
      BY <1>5, <2>1, <3>1, LostByFinish DEF InitialSyncDone, Polled
  <2>2. ~\E t \in Texts : InitialSyncFailed(g, t)
    <3>1. "initial sync" \in Works
      BY DEF Works
    <3> QED
      BY <1>5, <1>6, <3>1, LostByFinish DEF InitialSyncFailed
  <2>3. ~(\E v \in LocalWorks \cup {"remote changes"} : Select(g, v)) /\ ~Active(g)
    BY <1>1, <1>5, NotLostBySyncing DEF Select, Active, boardVars
  <2>4. CASE \E untracked \in BOOLEAN : LocalChangeIgnored(g, untracked)
    <3>1. work[g] \in Works /\ BecomesIdle(g) /\ ReportClear(g, work[g])
      BY <1>1, <2>4 DEF LocalChangeIgnored, Works, boardVars
    <3> QED
      BY <1>5, <3>1, LostByClear
  <2>5. CASE WorkFinished(g, None)
    <3>1. work[g] \in Works /\ BecomesIdle(g) /\ ReportFinish(g, work[g], None)
      BY <2>5 DEF WorkFinished, Works
    <3> QED
      BY <1>5, <3>1, LostByFinish
  <2>6. ~\E t \in Texts : WorkFinished(g, <<g, t>>)
    <3> SUFFICES ASSUME NEW t \in Texts, WorkFinished(g, <<g, t>>) PROVE FALSE
      OBVIOUS
    <3>1. work[g] \in Works /\ ReportFinish(g, work[g], <<g, t>>)
      BY DEF WorkFinished, Works
    <3> QED
      BY <1>5, <1>6, <3>1, LostByFinish
  <2> QED
    BY <1>4, <1>7, <2>1, <2>2, <2>3, <2>4, <2>5, <2>6 DEF Worker
<1>9. work'[g] = "idle"
  BY <1>8 DEF BecomesIdle, IInv, TypeOK
<1> QED
  BY <1>8, <1>9

\* Nothing visible changes on the board unless its revision does.
THEOREM VisibleChangesCount == Spec => NoSilentChange
<1>1. IInv /\ [Next]_vars
      => [Snapshot'.folders # Snapshot.folders => revision' = revision + 1]_vars
  <2> SUFFICES ASSUME IInv, [Next]_vars, board' = board
               PROVE  Snapshot'.folders = Snapshot.folders
    BY StepCounts
  <2> QED
    BY DEF Snapshot
<1> QED
  BY <1>1, Invariance, PTL DEF Spec, NoSilentChange

\* An error goes away only in the step that ends the work it is about.
THEOREM ErrorsStay == Spec => ErrorsOutliveOtherWork
<1> DEFINE Stay ==
      \A f \in Folders : \A w \in Works :
         /\ board[f].errors[w] # None
         /\ board'[f].generation = board[f].generation
         /\ board'[f].errors[w] = None
         => \E g \in Gens : /\ g = board[f].generation
                            /\ work[g] = w
                            /\ work'[g] = "idle"
<1>1. IInv /\ [Next]_vars => Stay
  BY StepKeepsErrors DEF Lost
<1> HIDE DEF Stay
<1>2. IInv /\ [Next]_vars => [Stay]_vars
  BY <1>1
<1>3. Spec => [][Stay]_vars
  BY <1>2, Invariance, PTL DEF Spec
<1> QED
  BY <1>3 DEF ErrorsOutliveOtherWork, Stay
=============================================================================
