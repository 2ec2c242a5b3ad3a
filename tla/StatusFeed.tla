----------------------------- MODULE StatusFeed -------------------------------
(***************************************************************************)
(* How the status board of the daemon reaches the tray icon: the revision  *)
(* on a watch channel (gdrive-sync/sync_status.rs), the task that forwards *)
(* it as a D-Bus signal (gdrived/dbus_service.rs, forward_status), the     *)
(* session that reads snapshots (gdrive-ui/dbus_client.rs) and the queue   *)
(* to the Qt thread (gdrive-ui/cxxqt_object.rs, initialize).               *)
(*                                                                         *)
(* The channel keeps the last revision only, a signal may be lost, a       *)
(* request may time out, and the daemon may be replaced by another, whose  *)
(* revisions start over, at any point of a session.                        *)
(***************************************************************************)
EXTENDS Naturals, Sequences

CONSTANTS
    Folders,       \* folders on the board
    MaxLife,       \* bound of the model: lifetimes of the daemon
    MaxRevision,   \* bound of the model: changes of the board in a lifetime
    MaxFault,      \* bound of the model: requests that fail or time out
    MaxQueue       \* bound of the model: events waiting for the Qt thread

ASSUME BoundsAssumption ==
    MaxLife \in Nat /\ MaxRevision \in Nat /\ MaxFault \in Nat /\ MaxQueue \in Nat \ {0}

VARIABLES
    up,         \* the daemon runs, and owns the bus name
    life,       \* number of its lifetime
    revision,   \* State.revision
    board,      \* State.folders, by what the tray icon tells apart
    seen,       \* the revision forward_status marked as seen
    emitting,   \* the revision of the signal forward_status is emitting, {} if none
    signalled,  \* history: the revision of the last signal it emitted, or gave up
    at,         \* where watch_sync_status is
    owner,      \* the lifetime the session is bound to, 0 for none
    moved,      \* a NameOwnerChanged waits in the session's stream
    last,       \* the session's filter: revision of its last snapshot, {} if none
    answer,     \* the reply to the session's request, {} if none
    queue,      \* events queued to the Qt thread
    shown,      \* sync_state
    faults,     \* number of failed requests
    newest      \* history: the newest snapshot shown

daemonVars  == <<up, life, revision, board>>
forwardVars == <<seen, emitting, signalled>>
sessionVars == <<at, owner, last, answer, faults>>
uiVars      == <<queue, shown, newest>>
vars == <<daemonVars, forwardVars, moved, sessionVars, uiVars>>

Lives == 0..MaxLife
Revisions == 0..MaxRevision

\* summarize_sync_status
Summary(b) ==
    IF \E f \in Folders : b[f] = "failed" THEN "error"
    ELSE IF \E f \in Folders : b[f] = "syncing" THEN "syncing"
    ELSE "idle"

Event(l, r, s) == [life |-> l, revision |-> r, state |-> s]
Starting    == Event(0, 0, "starting")
Unavailable == Event(0, 0, "unavailable")

\* StatusTracker::snapshot, with the mutex of the board held.
Snapshot == Event(life, revision, Summary(board))

States == {"starting", "unavailable", "error", "syncing", "idle"}
Events == [life : Lives, revision : Revisions, state : States]

AtLeast(a, b) ==
    a.life > b.life \/ (a.life = b.life /\ a.revision >= b.revision)

Blank == [f \in Folders |-> "idle"]

Init ==
    /\ up = FALSE /\ life = 0 /\ revision = 0 /\ board = Blank
    /\ seen = 0 /\ emitting = {} /\ signalled = 0
    /\ at = "sleeping" /\ owner = 0 /\ last = {} /\ answer = {} /\ faults = 0
    /\ moved = FALSE
    /\ queue = <<>> /\ shown = Starting /\ newest = Starting

-----------------------------------------------------------------------------
(* The daemon.                                                             *)

\* The session's stream of owner changes exists between subscribe and failure.
OwnerChanges == moved' = (at # "sleeping")

StartDaemon ==
    /\ ~up /\ life < MaxLife
    /\ up' = TRUE /\ life' = life + 1 /\ revision' = 0 /\ board' = Blank
    /\ seen' = 0 /\ emitting' = {} /\ signalled' = 0
    /\ OwnerChanges
    /\ UNCHANGED <<sessionVars, uiVars>>

StopDaemon ==
    /\ up /\ up' = FALSE
    /\ emitting' = {}
    /\ OwnerChanges
    /\ UNCHANGED <<life, revision, board, seen, signalled, sessionVars, uiVars>>

\* Mutant: a change that does not count.
ChangeWithoutRevision ==
    /\ up /\ revision < MaxRevision
    /\ \E f \in Folders, s \in {"idle", "syncing", "failed"} :
          s # board[f] /\ board' = [board EXCEPT ![f] = s]
    /\ UNCHANGED <<up, life, revision, forwardVars, moved, sessionVars, uiVars>>

\* StatusTracker::update: the change and its revision, then send_replace.
Change ==
    /\ up /\ revision < MaxRevision
    /\ revision' = revision + 1
    /\ \E f \in Folders, s \in {"idle", "syncing", "failed"} :
          s # board[f] /\ board' = [board EXCEPT ![f] = s]
    /\ UNCHANGED <<up, life, forwardVars, moved, sessionVars, uiVars>>

\* forward_status: changed().await, then borrow_and_update.  What changes from
\* here on, the emission included, counts as a change not seen.
Forward ==
    /\ up /\ emitting = {} /\ seen # revision
    /\ seen' = revision /\ emitting' = {revision}
    /\ UNCHANGED <<daemonVars, signalled, moved, sessionVars, uiVars>>

\* Mutant: the revision is marked as seen when its signal is out.
EmitAndMark ==
    /\ up /\ emitting # {} /\ emitting' = {}
    /\ signalled' \in emitting /\ seen' = revision
    /\ UNCHANGED <<daemonVars, moved, sessionVars, uiVars>>

\* The signal is sent, refused, or given up after two seconds: a session takes it
\* for a reason to ask, as it takes the next tick of its poll (Wake).
Emit ==
    /\ up /\ emitting # {} /\ emitting' = {}
    /\ signalled' \in emitting
    /\ UNCHANGED <<daemonVars, seen, moved, sessionVars, uiVars>>

-----------------------------------------------------------------------------
(* The session of the user interface.                                      *)

Notify(event) == Len(queue) < MaxQueue /\ queue' = Append(queue, event)

\* Mutant: the filter outlives the session.
EndSessionKeepingFilter ==
    /\ Notify(Unavailable)
    /\ at' = "sleeping" /\ owner' = 0 /\ answer' = {}
    /\ moved' = FALSE
    /\ UNCHANGED <<daemonVars, forwardVars, shown, newest, last>>

\* An error ends the session: unavailable, and three seconds of sleep.
EndSession ==
    /\ Notify(Unavailable)
    /\ at' = "sleeping" /\ owner' = 0 /\ last' = {} /\ answer' = {}
    /\ moved' = FALSE
    /\ UNCHANGED <<daemonVars, forwardVars, shown, newest>>

\* receive_name_owner_changed comes before get_name_owner.
Subscribe ==
    /\ at = "sleeping" /\ at' = "subscribed"
    /\ UNCHANGED <<daemonVars, forwardVars, moved, owner, last, answer, faults, uiVars>>

GetNameOwner ==
    /\ at = "subscribed" /\ up
    /\ owner' = life /\ at' = "bound"
    /\ UNCHANGED <<daemonVars, forwardVars, moved, last, answer, faults, uiVars>>

NoNameOwner ==
    at = "subscribed" /\ ~up /\ EndSession /\ UNCHANGED faults

\* Both selects are biased: an owner change that waits comes first.
OwnerChanged ==
    /\ at \in {"bound", "asking", "waiting"} /\ moved
    /\ EndSession /\ UNCHANGED faults

Ask ==
    /\ at = "bound" /\ ~moved /\ at' = "asking"
    /\ UNCHANGED <<daemonVars, forwardVars, moved, owner, last, answer, faults, uiVars>>

\* Mutant: the proxy is bound to the well-known name.
ServeAnySession ==
    /\ at = "asking" /\ answer = {}
    /\ up
    /\ answer' = {Snapshot}
    /\ UNCHANGED <<daemonVars, forwardVars, moved, at, owner, last, faults, uiVars>>

\* The SyncStatus handler of the daemon the session is bound to.
Serve ==
    /\ at = "asking" /\ answer = {}
    /\ up /\ life = owner
    /\ answer' = {Snapshot}
    /\ UNCHANGED <<daemonVars, forwardVars, moved, at, owner, last, faults, uiVars>>

Receive ==
    /\ at = "asking" /\ ~moved
    /\ \E s \in answer :
          IF \A r \in last : s.revision > r
            THEN last' = {s.revision} /\ Notify(s)
            ELSE UNCHANGED <<last, queue>>
    /\ at' = "waiting" /\ answer' = {}
    /\ UNCHANGED <<daemonVars, forwardVars, moved, owner, faults, shown, newest>>

\* Nobody owns the unique name any more.
NoSuchOwner ==
    /\ at = "asking" /\ answer = {} /\ ~(up /\ life = owner)
    /\ EndSession /\ UNCHANGED faults

\* A request fails or times out.
RequestFails ==
    /\ at \in {"subscribed", "bound", "asking"} /\ faults < MaxFault
    /\ EndSession /\ faults' = faults + 1

\* A signal, or the tick of the three-second poll, which comes in any case.
Wake ==
    /\ at = "waiting" /\ ~moved /\ at' = "bound"
    /\ UNCHANGED <<daemonVars, forwardVars, moved, owner, last, answer, faults, uiVars>>

-----------------------------------------------------------------------------
(* The Qt thread.                                                          *)

\* Mutant: queued events overtake each other.
ShowAny ==
    /\ \E i \in 1..Len(queue) :
          /\ shown' = queue[i]
          /\ queue' = SubSeq(queue, 1, i - 1) \o SubSeq(queue, i + 1, Len(queue))
    /\ newest' = IF shown'.life > 0 THEN shown' ELSE newest
    /\ UNCHANGED <<daemonVars, forwardVars, moved, sessionVars>>

Show ==
    /\ queue # <<>>
    /\ shown' = Head(queue) /\ queue' = Tail(queue)
    /\ newest' = IF shown'.life > 0 THEN shown' ELSE newest
    /\ UNCHANGED <<daemonVars, forwardVars, moved, sessionVars>>

-----------------------------------------------------------------------------
Daemon  == StartDaemon \/ StopDaemon \/ Change
Answers == Serve \/ Receive \/ NoSuchOwner
Session ==
    \/ Subscribe \/ GetNameOwner \/ NoNameOwner \/ OwnerChanged
    \/ Ask \/ Answers \/ Wake

Next == Daemon \/ Forward \/ Emit \/ Session \/ RequestFails \/ Show

\* Tasks that can run do, timers fire, a request is answered or fails and the
\* Qt event loop turns.  Nothing makes the daemon start, or keeps it from it.
Fairness ==
    WF_vars(Forward) /\ WF_vars(Emit) /\ WF_vars(Session) /\ WF_vars(Show)

Spec == Init /\ [][Next]_vars /\ Fairness
-----------------------------------------------------------------------------
(* Properties.                                                             *)

\* The sets the variables range over.
Types ==
    /\ up \in BOOLEAN /\ moved \in BOOLEAN
    /\ life \in Lives /\ owner \in Lives
    /\ revision \in Revisions /\ seen \in Revisions
    /\ emitting \in SUBSET Revisions /\ signalled \in Revisions
    /\ board \in [Folders -> {"idle", "syncing", "failed"}]
    /\ at \in {"sleeping", "subscribed", "bound", "asking", "waiting"}
    /\ last \in SUBSET Revisions /\ answer \in SUBSET Events
    /\ queue \in Seq(Events) /\ shown \in Events /\ newest \in Events
    /\ faults \in 0..MaxFault

\* The types, and what belongs together: a session that is bound has an owner,
\* a filter is that of a bound session, and the reply it waits for is one of the
\* daemon it is bound to, never of a daemon that took over the name
\* (dbus_client.rs, sync_status_session: "Bind to this unique owner").
TypeOK ==
    /\ Types
    /\ owner # 0 <=> at \in {"bound", "asking", "waiting"}
    /\ last # {} => owner # 0
    /\ \A s \in answer : at = "asking" /\ s.life = owner

\* The icon never goes back: what is shown is at least as new as every snapshot
\* shown before, across lost signals, failed requests and restarts, although a
\* new daemon's revisions start over.
NeverGoesBack == [][shown' # shown /\ shown'.life > 0 => AtLeast(shown', newest)]_vars

\* A revision names one state of the board: what is shown, or on its way, with
\* the daemon's present revision is the daemon's present state.
RevisionNamesBoard ==
    \A e \in answer \cup {queue[i] : i \in 1..Len(queue)} \cup {shown} :
        e.life = life /\ life > 0 /\ e.revision = revision => e.state = Summary(board)

\* Once the board rests the icon shows it, and once the daemon is gone for good
\* it says so.  The bounds make every board come to rest.
Settles == <>[](shown = IF up THEN Snapshot ELSE Unavailable)

\* The last change of the board gets its signal, or an emission that fails or times
\* out, although the channel keeps only the last revision and changes go on while
\* a signal is being emitted: there is no revision that forward_status takes for
\* seen and never tries to signal, while its daemon runs (dbus_service.rs,
\* forward_status).
LastRevisionSignalled == <>[](up => signalled = revision)
===============================================================================
