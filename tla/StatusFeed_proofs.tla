-------------------------- MODULE StatusFeed_proofs ---------------------------
(***************************************************************************)
(* Proofs about StatusFeed, for every set of folders and all bounds.       *)
(***************************************************************************)
EXTENDS StatusFeed, TLAPS

\* A snapshot read from a daemon, as opposed to an event of the session.
IsSnapshot(e) == e.life > 0

\* What an event e may look like: no newer than the daemon, and the daemon's own
\* state if it has the daemon's revision.
Genuine(e) ==
    IsSnapshot(e) =>
        /\ e.life < life \/ (e.life = life /\ e.revision <= revision)
        /\ e.life = life /\ e.revision = revision => e.state = Summary(board)

Past == Genuine(shown) /\ Genuine(newest) /\ (\A e \in answer : Genuine(e))
        /\ (\A i \in 1..Len(queue) : Genuine(queue[i]))

\* From the icon through the queue to the reply under way, snapshots only get
\* newer.
Ordered ==
    /\ \A i \in 1..Len(queue) : IsSnapshot(queue[i]) => AtLeast(queue[i], newest)
    /\ \A i, j \in 1..Len(queue) :
          i < j /\ IsSnapshot(queue[i]) /\ IsSnapshot(queue[j]) => AtLeast(queue[j], queue[i])
    /\ \A s \in answer :
          /\ IsSnapshot(s) /\ AtLeast(s, newest)
          /\ \A i \in 1..Len(queue) : IsSnapshot(queue[i]) => AtLeast(s, queue[i])

\* The first daemon is number 1.
Alive == up => life > 0

IInv == Types /\ Alive /\ Past /\ Ordered

-----------------------------------------------------------------------------
LEMMA SummaryType == Summary(board) \in {"error", "syncing", "idle"}
BY DEF Summary

LEMMA InitIInv == Init => IInv
<1> SUFFICES ASSUME Init PROVE IInv
    OBVIOUS
<1>1. Types
  <2>1. up \in BOOLEAN /\ moved \in BOOLEAN
    BY DEF Init
  <2>2. Starting \in Events
    BY BoundsAssumption DEF Starting, Event, Events, Lives, Revisions, States
  <2>3. board \in [Folders -> {"idle", "syncing", "failed"}]
    BY DEF Init, Blank
  <2> QED
    BY <2>1, <2>2, <2>3, BoundsAssumption DEF Init, Types, Lives, Revisions
<1>2. Past /\ Ordered /\ Alive
  BY DEF Init, Past, Ordered, Genuine, IsSnapshot, Starting, Event, Alive
<1> QED
  BY <1>1, <1>2 DEF IInv

\* Steps that touch neither the daemon's board nor the events on their way.
LEMMA QuietStep ==
    ASSUME IInv, Types', UNCHANGED <<life, revision, board, queue, shown, newest>>,
           answer' \subseteq answer, up' => up
    PROVE  IInv'
BY DEF IInv, Alive, Past, Ordered, Genuine, IsSnapshot, AtLeast, Summary

\* The board or the daemon moves on.
LEMMA DaemonStep ==
    ASSUME IInv, Types', UNCHANGED <<queue, shown, newest, answer>>,
           \/ life' = life + 1
           \/ life' = life /\ revision' = revision + 1 /\ up' = up
    PROVE  IInv'
<1>1. life \in Nat /\ revision \in Nat
  BY BoundsAssumption DEF IInv, Types, Lives, Revisions
<1>2. ASSUME NEW e \in Events, Genuine(e)
      PROVE  Genuine(e)'
  BY <1>1, <1>2, BoundsAssumption DEF Genuine, IsSnapshot, Events, Lives, Revisions
<1>3. Past'
  BY <1>2 DEF IInv, Types, Past
<1>4. Ordered'
  BY DEF IInv, Ordered
<1>5. Alive'
  <2>1. CASE life' = life + 1
    BY <1>1, <2>1 DEF Alive
  <2>2. CASE life' = life /\ up' = up
    BY <2>2 DEF IInv, Alive
  <2> QED
    BY <2>1, <2>2
<1> QED
  BY <1>3, <1>4, <1>5 DEF IInv

LEMMA EndSessionStep ==
    ASSUME IInv, EndSession, faults' \in 0..MaxFault
    PROVE  IInv'
<1>1. Unavailable \in Events /\ ~IsSnapshot(Unavailable)
  BY BoundsAssumption DEF Unavailable, Event, Events, Lives, Revisions, States, IsSnapshot
<1>2. queue' = Append(queue, Unavailable) /\ answer' = {}
  BY DEF EndSession, Notify
<1>3. Types'
  <2>1. (up \in BOOLEAN /\ moved \in BOOLEAN)'
    BY DEF EndSession, IInv, Types, daemonVars, forwardVars
  <2>2. queue' \in Seq(Events) /\ owner' \in Lives
    BY <1>1, <1>2, BoundsAssumption DEF EndSession, IInv, Types, Lives
  <2> QED
    BY <2>1, <2>2 DEF EndSession, IInv, Types, daemonVars, forwardVars
<1>4. /\ queue \in Seq(Events) /\ Len(queue') = Len(queue) + 1
      /\ queue'[Len(queue) + 1] = Unavailable
      /\ \A i \in 1..Len(queue) : queue'[i] = queue[i]
  BY <1>1, <1>2 DEF IInv, Types
<1>5. \A i \in 1..Len(queue') : i \in 1..Len(queue) \/ queue'[i] = Unavailable
  BY <1>4
<1>6. UNCHANGED <<up, life, revision, board, shown, newest>>
  BY DEF EndSession, daemonVars
<1>7. Past'
  BY <1>1, <1>2, <1>4, <1>5, <1>6 DEF IInv, Past, Genuine, IsSnapshot, Summary
<1>8. Ordered'
  BY <1>1, <1>2, <1>4, <1>5, <1>6 DEF IInv, Ordered, IsSnapshot, AtLeast
<1> QED
  BY <1>3, <1>6, <1>7, <1>8 DEF IInv, Alive

LEMMA ServeStep ==
    ASSUME IInv, Serve
    PROVE  IInv'
<1>1. Snapshot \in Events
  BY SummaryType DEF Snapshot, Event, Events, States, IInv, Types
<1>2. Types'
  BY <1>1 DEF Serve, IInv, Types, daemonVars, forwardVars, uiVars
<1>3. UNCHANGED <<up, life, revision, board, queue, shown, newest>> /\ answer' = {Snapshot}
  BY DEF Serve, daemonVars, uiVars
<1>4. /\ Snapshot.life = life /\ Snapshot.revision = revision
      /\ Snapshot.state = Summary(board)
      /\ life \in Nat /\ revision \in Nat
  BY BoundsAssumption DEF Snapshot, Event, IInv, Types, Lives, Revisions
<1>5. IsSnapshot(Snapshot)
  BY <1>4 DEF Serve, IInv, Alive, IsSnapshot
<1>6. ASSUME NEW e \in Events, Genuine(e), IsSnapshot(e)
      PROVE  AtLeast(Snapshot, e)
  BY <1>4, <1>6, BoundsAssumption DEF Genuine, AtLeast, Events, Lives, Revisions
<1>7. Past'
  BY <1>3, <1>4 DEF IInv, Past, Genuine, IsSnapshot, Summary
<1>8. AtLeast(Snapshot, newest)
  <2>1. CASE IsSnapshot(newest)
    BY <1>6, <2>1 DEF IInv, Types, Past
  <2>2. CASE ~IsSnapshot(newest)
    BY <1>4, <1>5, <2>2, BoundsAssumption DEF IsSnapshot, AtLeast, IInv, Types, Events, Lives
  <2> QED
    BY <2>1, <2>2
<1>9. \A i \in 1..Len(queue) : IsSnapshot(queue[i]) => AtLeast(Snapshot, queue[i])
  BY <1>6 DEF IInv, Types, Past
<1>10. Ordered'
  BY <1>3, <1>5, <1>8, <1>9 DEF IInv, Ordered
<1> QED
  BY <1>2, <1>3, <1>7, <1>10 DEF IInv, Alive

LEMMA ReceiveStep ==
    ASSUME IInv, Receive
    PROVE  IInv'
<1>1. PICK s \in answer :
          IF \A r \in last : s.revision > r
            THEN last' = {s.revision} /\ queue' = Append(queue, s)
            ELSE UNCHANGED <<last, queue>>
  BY DEF Receive, Notify
<1>2. s \in Events /\ s.revision \in Revisions
  BY <1>1 DEF IInv, Types, Events
<1>3. Types'
  <2>1. (up \in BOOLEAN /\ moved \in BOOLEAN)'
    BY DEF Receive, IInv, Types, daemonVars, forwardVars
  <2>2. queue' \in Seq(Events) /\ last' \in SUBSET Revisions
    BY <1>1, <1>2 DEF IInv, Types
  <2> QED
    BY <2>1, <2>2 DEF Receive, IInv, Types, daemonVars, forwardVars
<1>4. UNCHANGED <<up, life, revision, board, shown, newest>> /\ answer' = {}
  BY DEF Receive, daemonVars
<1>5. CASE UNCHANGED queue
  BY <1>3, <1>4, <1>5, QuietStep
<1>6. CASE queue' = Append(queue, s)
  <2>1. /\ queue \in Seq(Events) /\ Len(queue') = Len(queue) + 1
        /\ queue'[Len(queue) + 1] = s
        /\ \A i \in 1..Len(queue) : queue'[i] = queue[i]
    BY <1>2, <1>6 DEF IInv, Types
  <2>2. \A i \in 1..Len(queue') : i \in 1..Len(queue) \/ i = Len(queue) + 1
    BY <2>1
  <2>3. Past'
    BY <1>1, <1>4, <2>1, <2>2 DEF IInv, Past, Genuine, IsSnapshot, Summary
  <2>4. Ordered'
    <3>1. \A i \in 1..Len(queue) : IsSnapshot(queue[i]) => AtLeast(s, queue[i])
      BY <1>1 DEF IInv, Ordered
    <3>2. AtLeast(s, newest)
      BY <1>1 DEF IInv, Ordered
    <3> QED
      BY <1>4, <2>1, <2>2, <3>1, <3>2 DEF IInv, Ordered, IsSnapshot, AtLeast
  <2> QED
    BY <1>3, <1>4, <2>3, <2>4 DEF IInv, Alive
<1> QED
  BY <1>1, <1>5, <1>6

LEMMA ShowStep ==
    ASSUME IInv, Show
    PROVE  IInv' /\ (shown'.life > 0 => AtLeast(shown', newest))
<1>1. /\ queue \in Seq(Events) /\ Len(queue) >= 1 /\ shown' = queue[1]
      /\ Len(queue') = Len(queue) - 1 /\ queue' \in Seq(Events)
      /\ \A i \in 1..Len(queue') : i + 1 \in 1..Len(queue) /\ queue'[i] = queue[i + 1]
      /\ queue[1] \in Events
  BY DEF Show, IInv, Types
<1>2. newest' = IF IsSnapshot(shown') THEN shown' ELSE newest
  BY DEF Show, IsSnapshot
<1>3. Types'
  <2>1. (up \in BOOLEAN /\ moved \in BOOLEAN)'
    BY DEF Show, IInv, Types, daemonVars, forwardVars
  <2> QED
    BY <1>1, <1>2, <2>1 DEF Show, IInv, Types, daemonVars, forwardVars, sessionVars
<1>4. UNCHANGED <<up, life, revision, board, answer>>
  BY DEF Show, daemonVars, sessionVars
<1>5. Past'
  <2>1. \A e : Genuine(e) => Genuine(e)'
    BY <1>4 DEF Genuine, Summary
  <2>2. \A i \in 1..Len(queue) : Genuine(queue[i])
    BY DEF IInv, Past
  <2>3. Genuine(shown)' /\ Genuine(newest)'
    BY <1>1, <1>2, <1>4, <2>2 DEF IInv, Past, Genuine, IsSnapshot, Summary
  <2>4. \A i \in 1..Len(queue') : Genuine(queue'[i])
    BY <1>1, <2>2
  <2>5. (\A i \in 1..Len(queue) : Genuine(queue[i]))'
    BY <1>4, <2>4 DEF Genuine, Summary
  <2>6. (\A e \in answer : Genuine(e))'
    BY <1>4 DEF IInv, Past, Genuine, Summary
  <2> QED
    BY <2>3, <2>5, <2>6 DEF Past
<1>6. IsSnapshot(shown') => AtLeast(shown', newest)
  BY <1>1 DEF IInv, Ordered
<1>7. Ordered'
  <2>1. \A i \in 1..Len(queue') : IsSnapshot(queue'[i]) => AtLeast(queue'[i], newest')
    <3>1. CASE IsSnapshot(shown')
      BY <1>1, <1>2, <3>1 DEF IInv, Ordered
    <3>2. CASE ~IsSnapshot(shown')
      BY <1>1, <1>2, <3>2 DEF IInv, Ordered
    <3> QED
      BY <3>1, <3>2
  <2>2. \A i, j \in 1..Len(queue') :
           i < j /\ IsSnapshot(queue'[i]) /\ IsSnapshot(queue'[j])
             => AtLeast(queue'[j], queue'[i])
    BY <1>1 DEF IInv, Ordered
  <2>3. \A s \in answer : IsSnapshot(s) /\ AtLeast(s, newest')
    BY <1>1, <1>2 DEF IInv, Ordered
  <2>4. \A s \in answer, i \in 1..Len(queue') :
           IsSnapshot(queue'[i]) => AtLeast(s, queue'[i])
    BY <1>1 DEF IInv, Ordered
  <2> QED
    BY <1>4, <2>1, <2>2, <2>3, <2>4 DEF Ordered, IsSnapshot, AtLeast
<1> QED
  BY <1>3, <1>4, <1>5, <1>6, <1>7 DEF IInv, IsSnapshot, Alive

-----------------------------------------------------------------------------
LEMMA StartDaemonStep == IInv /\ StartDaemon => IInv'
<1> SUFFICES ASSUME IInv, StartDaemon PROVE IInv'
    OBVIOUS
<1>1. Types'
  <2>1. (up \in BOOLEAN /\ moved \in BOOLEAN)'
    BY DEF StartDaemon, OwnerChanges, IInv, Types
  <2>2. /\ life' \in Lives /\ revision' \in Revisions
        /\ seen' \in Revisions /\ signalled' \in Revisions
    BY BoundsAssumption DEF StartDaemon, IInv, Types, Lives, Revisions
  <2>3. board' \in [Folders -> {"idle", "syncing", "failed"}]
    BY DEF StartDaemon, Blank
  <2> QED
    BY <2>1, <2>2, <2>3 DEF StartDaemon, IInv, Types, sessionVars, uiVars
<1> QED
  BY <1>1, DaemonStep DEF StartDaemon, sessionVars, uiVars

LEMMA StopDaemonStep == IInv /\ StopDaemon => IInv'
<1> SUFFICES ASSUME IInv, StopDaemon PROVE IInv'
    OBVIOUS
<1>1. Types'
  <2>1. (up \in BOOLEAN /\ moved \in BOOLEAN)'
    BY DEF StopDaemon, OwnerChanges, IInv, Types
  <2> QED
    BY <2>1 DEF StopDaemon, IInv, Types, sessionVars, uiVars
<1> QED
  BY <1>1, QuietStep DEF StopDaemon, sessionVars, uiVars

LEMMA ChangeStep == IInv /\ Change => IInv'
<1> SUFFICES ASSUME IInv, Change PROVE IInv'
    OBVIOUS
<1>1. Types'
  <2>1. (up \in BOOLEAN /\ moved \in BOOLEAN)'
    BY DEF Change, forwardVars, IInv, Types
  <2>2. revision' \in Revisions
    BY BoundsAssumption DEF Change, IInv, Types, Revisions
  <2>3. board' \in [Folders -> {"idle", "syncing", "failed"}]
    BY DEF Change, IInv, Types
  <2> QED
    BY <2>1, <2>2, <2>3 DEF Change, IInv, Types, forwardVars, sessionVars, uiVars
<1> QED
  BY <1>1, DaemonStep DEF Change, sessionVars, uiVars

\* Steps of the forwarder and of the session between two events.
Between ==
    \/ Forward \/ Emit \/ Subscribe \/ GetNameOwner \/ Ask \/ Wake \/ UNCHANGED vars

LEMMA BetweenStep == IInv /\ Between => IInv'
<1> SUFFICES ASSUME IInv, Between PROVE IInv'
    OBVIOUS
<1>1. Types'
  <2>1. (up \in BOOLEAN /\ moved \in BOOLEAN)'
    BY DEF Between, Forward, Emit, Subscribe, GetNameOwner, Ask, Wake, vars, daemonVars,
       forwardVars, IInv, Types
  <2>2. /\ seen' \in Revisions /\ owner' \in Lives
        /\ emitting' \in SUBSET Revisions /\ signalled' \in Revisions
    BY DEF Between, Forward, Emit, Subscribe, GetNameOwner, Ask, Wake, vars, daemonVars,
       forwardVars, sessionVars, IInv, Types
  <2> QED
    BY <2>1, <2>2 DEF Between, Forward, Emit, Subscribe, GetNameOwner, Ask, Wake, vars,
       daemonVars, sessionVars, uiVars, IInv, Types
<1>2. UNCHANGED <<up, life, revision, board, queue, shown, newest, answer>>
  BY DEF Between, Forward, Emit, Subscribe, GetNameOwner, Ask, Wake, vars, daemonVars,
     sessionVars, uiVars
<1> QED
  BY <1>1, <1>2, QuietStep

LEMMA FailureStep ==
    IInv /\ (NoNameOwner \/ OwnerChanged \/ NoSuchOwner \/ RequestFails) => IInv'
<1> SUFFICES ASSUME IInv, NoNameOwner \/ OwnerChanged \/ NoSuchOwner \/ RequestFails
             PROVE  IInv'
    OBVIOUS
<1>1. EndSession
  BY DEF NoNameOwner, OwnerChanged, NoSuchOwner, RequestFails
<1>2. faults' \in 0..MaxFault
  BY BoundsAssumption DEF NoNameOwner, OwnerChanged, NoSuchOwner, RequestFails, IInv, Types
<1> QED
  BY <1>1, <1>2, EndSessionStep

LEMMA NextCases ==
    ASSUME [Next]_vars
    PROVE  \/ StartDaemon \/ StopDaemon \/ Change \/ Between
           \/ NoNameOwner \/ OwnerChanged \/ NoSuchOwner \/ RequestFails
           \/ Serve \/ Receive \/ Show
BY DEF Next, Daemon, Session, Answers, Between

LEMMA NextKeepsIInv == IInv /\ [Next]_vars => IInv'
BY NextCases, StartDaemonStep, StopDaemonStep, ChangeStep, BetweenStep, FailureStep,
   ServeStep, ReceiveStep, ShowStep

LEMMA Invariance == Spec => []IInv
BY InitIInv, NextKeepsIInv, PTL DEF Spec

-----------------------------------------------------------------------------
(* What belongs together.                                                  *)

\* Between the bindings of two sessions there is nothing left of the first.
Bindings ==
    /\ owner # 0 <=> at \in {"bound", "asking", "waiting"}
    /\ last # {} => owner # 0
    /\ \A s \in answer : at = "asking" /\ s.life = owner

LEMMA BindingsKept == IInv /\ Bindings /\ [Next]_vars => Bindings'
<1> SUFFICES ASSUME IInv, Bindings, [Next]_vars PROVE Bindings'
    OBVIOUS
<1>1. CASE StartDaemon \/ StopDaemon \/ Change \/ Show
  BY <1>1 DEF StartDaemon, StopDaemon, Change, Show, sessionVars, Bindings
<1>2. CASE NoNameOwner \/ OwnerChanged \/ NoSuchOwner \/ RequestFails
  BY <1>2 DEF NoNameOwner, OwnerChanged, NoSuchOwner, RequestFails, EndSession, Bindings
<1>3. CASE Forward \/ Emit \/ UNCHANGED vars
  BY <1>3 DEF Forward, Emit, vars, sessionVars, Bindings
<1>4. CASE Subscribe \/ Ask \/ Wake
  BY <1>4 DEF Subscribe, Ask, Wake, Bindings
<1>5. CASE GetNameOwner
  <2>1. life # 0
    BY <1>5, BoundsAssumption DEF GetNameOwner, IInv, Alive, Types, Lives
  <2> QED
    BY <1>5, <2>1 DEF GetNameOwner, Bindings
<1>6. CASE Serve
  BY <1>6 DEF Serve, Snapshot, Event, Bindings
<1>7. CASE Receive
  BY <1>7 DEF Receive, Bindings
<1> QED
  BY <1>1, <1>2, <1>3, <1>4, <1>5, <1>6, <1>7, NextCases DEF Between

\* Every variable of the feed keeps its type, and the reply a session waits for
\* is one of the daemon it is bound to, across any number of restarts.
THEOREM TypeCorrect == Spec => []TypeOK
<1>1. Init => Bindings
  BY DEF Init, Bindings
<1>2. IInv /\ Bindings => TypeOK
  BY DEF IInv, Bindings, TypeOK
<1> QED
  BY <1>1, <1>2, BindingsKept, Invariance, PTL DEF Spec

\* Whatever is shown or under way with the daemon's present revision is the
\* daemon's present state.
THEOREM RevisionsNameBoards == Spec => []RevisionNamesBoard
<1>1. IInv => RevisionNamesBoard
  BY BoundsAssumption
  DEF IInv, Types, Past, Genuine, IsSnapshot, RevisionNamesBoard, Lives
<1> QED
  BY <1>1, Invariance, PTL

\* The icon never shows a snapshot older than one it has shown before, for any
\* number of daemons, changes, lost signals and failed requests.
THEOREM IconNeverGoesBack == Spec => NeverGoesBack
<1> DEFINE Newer == shown' # shown /\ shown'.life > 0 => AtLeast(shown', newest)
<1>1. IInv /\ [Next]_vars => [Newer]_vars
  <2> SUFFICES ASSUME IInv, Next, shown' # shown PROVE shown'.life > 0 => AtLeast(shown', newest)
    OBVIOUS
  <2>1. Show
    BY NextCases
    DEF StartDaemon, StopDaemon, Change, Between, NoNameOwner, OwnerChanged, NoSuchOwner,
        RequestFails, EndSession, Serve, Receive, Forward, Emit, Subscribe, GetNameOwner,
        Ask, Wake, vars, uiVars
  <2> QED
    BY <2>1, ShowStep
<1> QED
  BY <1>1, Invariance, PTL DEF Spec, NeverGoesBack
===============================================================================
