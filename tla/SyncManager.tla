----------------------------- MODULE SyncManager ------------------------------
(***************************************************************************)
(* The object behind the window (gdrive-ui/cxxqt_object.rs), its requests  *)
(* to the daemon and its subscription to sign-in changes (dbus_client.rs). *)
(*                                                                         *)
(* Every request is a task of its own on its own connection.  Its reply is *)
(* queued to the Qt thread, where it counts only if its slot still has the *)
(* generation the request was given: a slot that was cancelled meanwhile   *)
(* may have aborted the task too late.                                     *)
(***************************************************************************)
EXTENDS Naturals, Sequences, FiniteSets

CONSTANTS
    DriveFolders,    \* folders the picker can browse
    Root,            \* My Drive, where it opens
    MaxGeneration,   \* generations of a slot, standing for the 2^64 of the code
    MaxFlight,       \* bound of the model: tasks of a slot on the runtime
    MaxQueue,        \* bound of the model: events queued to the Qt thread
    MaxOperations,   \* bound of the model: operations, a restored session counts
                     \* as one; a behaviour has operations or picks
    MaxPicks,        \* bound of the model: folders loaded by the picker
    MaxFault         \* bound of the model: failures of requests and subscriptions

ASSUME RootAssumption == Root \in DriveFolders

ASSUME BoundsAssumption ==
    /\ MaxGeneration \in Nat /\ MaxFlight \in Nat \ {0} /\ MaxQueue \in Nat \ {0}
    /\ MaxOperations \in Nat \ {0} /\ MaxPicks \in Nat /\ MaxFault \in Nat

VARIABLES
    list,            \* the daemon's folder list and which folders run, by the number
                     \* of its changes
    account,         \* the daemon's sign-in state, by the number of its changes
    attempt,         \* a browser sign-in is under way
    late,            \* operations given up by the window, still to be carried out
    runtime,         \* the window's tokio runtime could be built: decided once
    flight,          \* tasks of requests
    watching,        \* the session is subscribed to AuthenticationChanged
    signals,         \* signals in its stream
    queue,           \* replies and events queued to the Qt thread
    generation,      \* PendingRequest.generation of the three slots
    busy, refreshing, connected,
    folders,         \* folders_json: the list it was read from
    shown,           \* authenticated: the sign-in state it was learned from
    revision,        \* authentication_revision
    message,         \* operation_message
    waiting,         \* waiting_for_sign_in
    asked,           \* the picker's current folder, {} when it is closed
    loading,         \* drive_folders_loading
    listing,         \* drive_folders_json: the folder listed, {} for none
    listError,       \* drive_folders_error is not empty
    operations, picks, faults,
    acknowledged,    \* history: the list the last successful operation left
    told             \* history: the newest sign-in change signalled

daemonVars == <<list, account, attempt, late>>
watchVars  == <<watching, signals>>
windowVars == <<busy, refreshing, connected, folders, shown, revision, message, waiting>>
pickVars   == <<asked, loading, listing, listError>>
countVars  == <<operations, picks, faults>>
pastVars   == <<acknowledged, told>>
vars == <<daemonVars, runtime, flight, watchVars, queue, generation, windowVars, pickVars,
          countVars, pastVars>>

Slots == {"snapshot", "mutation", "browse"}
Operations == {"folders", "signIn", "signOut"}
Generations == 0..MaxGeneration

\* What a task works on, and what it queues: rows and account hold what it has
\* got so far.
Requests ==
    {r \in [slot : Slots \cup {"auth"}, what : Operations \cup {"refresh", "list", "event"},
            generation : Generations, revision : Nat, folder : SUBSET DriveFolders,
            rows : SUBSET Nat, account : SUBSET Nat] :
        r.slot = "mutation" => r.what \in Operations}

AuthenticationEvent(changes) ==
    [slot |-> "auth", what |-> "event", generation |-> 0, revision |-> 0,
     folder |-> {}, rows |-> {}, account |-> changes]

\* Signed in and signed out take turns.
SignedIn(n) == n % 2 = 1
NextState(in) ==
    IF SignedIn(account) # in THEN account + 1
    ELSE IF in THEN account + 2 ELSE account

Init ==
    /\ list = 0 /\ account \in {0, 1} /\ attempt = FALSE /\ late = {}
    /\ runtime \in BOOLEAN /\ flight = {} /\ watching = FALSE /\ signals = <<>> /\ queue = <<>>
    /\ generation = [s \in Slots |-> 0]
    /\ busy = FALSE /\ refreshing = FALSE /\ connected = FALSE
    /\ folders = 0 /\ shown = 0 /\ revision = 0 /\ message = "none" /\ waiting = FALSE
    /\ asked = {} /\ loading = FALSE /\ listing = {} /\ listError = FALSE
    /\ operations = account /\ picks = 0 /\ faults = 0
    /\ acknowledged = 0 /\ told = 0

-----------------------------------------------------------------------------
(* PendingRequest.                                                         *)

Outstanding == flight \cup {queue[i] : i \in 1..Len(queue)}
Carried(slot) == {r.generation : r \in {q \in Outstanding : q.slot = slot}}

\* A generation no outstanding request of the slot carries.
NextGeneration(slot) == CHOOSE g \in Generations : g \notin Carried(slot)
CanAdvance(slot) == \E g \in Generations : g \notin Carried(slot)

Cancelled(slot) ==
    CanAdvance(slot) /\ generation' = [generation EXCEPT ![slot] = NextGeneration(slot)]

\* Mutant: any reply of the slot counts.
FinishAny(reply) == TRUE

Finish(reply) == reply.generation = generation[reply.slot]

\* begin and dispatch: the task, with the generation its slot has from now on.
Dispatch(slot, what, rev, folder) ==
    /\ runtime /\ Cardinality({r \in flight : r.slot = slot}) < MaxFlight
    /\ flight' = flight \cup
         {[slot |-> slot, what |-> what, generation |-> NextGeneration(slot),
           revision |-> rev, folder |-> folder, rows |-> {}, account |-> {}]}

Enqueue(event) == Len(queue) < MaxQueue /\ queue' = Append(queue, event)

-----------------------------------------------------------------------------
(* The window: what the user and the timer do.                             *)

\* refresh, past its early return; rev is the authentication_revision it starts at.
StartRefresh(rev) ==
    /\ Cancelled("snapshot") /\ Dispatch("snapshot", "refresh", rev, {})
    /\ refreshing' = TRUE

\* Mutant: the timer starts over a refresh that is under way.
RefreshOver ==
    /\ ~busy /\ StartRefresh(revision)
    /\ UNCHANGED <<runtime, daemonVars, watchVars, queue, busy, connected, folders, shown,
                   revision, message, waiting, pickVars, countVars, pastVars>>

\* dispatch cannot start a task: refresh, mutate and list_drive_folders take their
\* flag back in the same turn, and the slot keeps its new generation.
RefreshUnstarted ==
    /\ ~runtime /\ ~busy /\ ~refreshing /\ Cancelled("snapshot")
    /\ UNCHANGED <<daemonVars, runtime, flight, watchVars, queue, windowVars, pickVars,
                   countVars, pastVars>>

\* The timer, or the button.
Refresh ==
    /\ ~busy /\ ~refreshing /\ StartRefresh(revision)
    /\ UNCHANGED <<runtime, daemonVars, watchVars, queue, busy, connected, folders, shown,
                   revision, message, waiting, pickVars, countVars, pastVars>>

\* The button reads Sign out when signed in, Sign in otherwise; the picker is
\* modal.
Offered(what) ==
    /\ asked = {}
    /\ what = "folders" \/ (what = "signOut" <=> SignedIn(shown))

Clicked(what) ==
    /\ operations < MaxOperations /\ operations' = operations + 1 /\ picks = 0
    /\ Offered(what)
    /\ message' = "none" /\ waiting' = FALSE

StartOperation(what) ==
    Clicked(what) /\ Dispatch("mutation", what, revision, {}) /\ busy' = TRUE

\* Mutant: the refresh cut off by the operation still counts as running.
MutateWhileRefreshing(what) ==
    /\ ~busy /\ StartOperation(what)
    /\ CanAdvance("snapshot") /\ CanAdvance("mutation")
    /\ generation' = [generation EXCEPT !["snapshot"] = NextGeneration("snapshot"),
                                        !["mutation"] = NextGeneration("mutation")]
    /\ UNCHANGED <<runtime, refreshing, daemonVars, watchVars, queue, connected, folders, shown,
                   revision, pickVars, picks, faults, pastVars>>

\* Mutant: the operation does not cut the refresh off.
MutateKeepingSnapshot(what) ==
    /\ ~busy /\ StartOperation(what)
    /\ CanAdvance("mutation")
    /\ generation' = [generation EXCEPT !["mutation"] = NextGeneration("mutation")]
    /\ UNCHANGED <<runtime, refreshing, daemonVars, watchVars, queue, connected, folders, shown,
                   revision, pickVars, picks, faults, pastVars>>

Mutate(what) ==
    /\ ~busy /\ StartOperation(what)
    /\ CanAdvance("snapshot") /\ CanAdvance("mutation")
    /\ generation' = [generation EXCEPT !["snapshot"] = NextGeneration("snapshot"),
                                        !["mutation"] = NextGeneration("mutation")]
    /\ refreshing' = FALSE
    /\ UNCHANGED <<runtime, daemonVars, watchVars, queue, connected, folders, shown,
                   revision, pickVars, picks, faults, pastVars>>

MutateUnstarted(what) ==
    /\ ~runtime /\ ~busy /\ Clicked(what)
    /\ CanAdvance("snapshot") /\ CanAdvance("mutation")
    /\ generation' = [generation EXCEPT !["snapshot"] = NextGeneration("snapshot"),
                                        !["mutation"] = NextGeneration("mutation")]
    /\ refreshing' = FALSE
    /\ UNCHANGED <<daemonVars, runtime, flight, watchVars, queue, busy, connected, folders,
                   shown, revision, pickVars, picks, faults, pastVars>>

\* load of the picker, which opens at the root, enters a folder it has listed,
\* and goes back or tries again at any time.
Browse(d) ==
    /\ picks < MaxPicks /\ picks' = picks + 1 /\ operations = 0
    /\ IF asked = {} THEN ~busy /\ d = Root ELSE d = Root \/ d \in asked \/ ~loading
    /\ Cancelled("browse") /\ asked' = {d} /\ listing' = {}

ListDriveFolders(d) ==
    /\ Browse(d) /\ Dispatch("browse", "list", 0, {d})
    /\ loading' = TRUE /\ listError' = FALSE
    /\ UNCHANGED <<runtime, daemonVars, watchVars, queue, windowVars, operations,
                   faults, pastVars>>

ListUnstarted(d) ==
    /\ ~runtime /\ Browse(d) /\ loading' = FALSE /\ listError' = TRUE
    /\ UNCHANGED <<runtime, daemonVars, flight, watchVars, queue, windowVars, operations,
                   faults, pastVars>>

\* The picker is hidden.
CancelDriveFolders ==
    /\ asked # {} /\ asked' = {}
    /\ Cancelled("browse") /\ loading' = FALSE
    /\ UNCHANGED <<runtime, daemonVars, flight, watchVars, queue, windowVars, listing,
                   listError, countVars, pastVars>>

-----------------------------------------------------------------------------
(* The daemon, as the window sees it.                                      *)

\* A signal is lost, or reaches the stream of a session that is subscribed.
Tell(n) == signals' \in {signals, IF watching THEN Append(signals, n) ELSE signals}

\* add_sync_folder, remove_sync_folder and set_folder_enabled.
ChangeFolders == list' = list + 1 /\ UNCHANGED <<account, attempt, signals>>

\* sign_in.
BeginSignIn == ~attempt /\ attempt' = TRUE /\ UNCHANGED <<list, account, signals>>

\* sign_out: every run of a folder is stopped, whether or not the token could be
\* removed; only then is the window told.
StopAll == attempt' = FALSE /\ list' = list + 1
SignOut == StopAll /\ account' = NextState(FALSE) /\ Tell(account')
RemovalFails == StopAll /\ UNCHANGED <<account, signals>>

CarryOut(what) ==
    \/ what = "folders" /\ ChangeFolders
    \/ what = "signIn" /\ BeginSignIn
    \/ what = "signOut" /\ SignOut

\* An operation whose request timed out is carried out all the same, and a
\* sign-out that failed has stopped the runs.
CarryOutLate ==
    /\ \E what \in late : /\ CarryOut(what) \/ (what = "signOut" /\ RemovalFails)
                          /\ late' = late \ {what}
    /\ UNCHANGED <<runtime, flight, watching, queue, generation, windowVars, pickVars,
                   countVars, pastVars>>

\* The task of sign_in: the folders are started with the new session.
SignInEnds ==
    /\ attempt /\ attempt' = FALSE
    /\ \/ account' = NextState(TRUE) /\ list' = list + 1 /\ Tell(account')
       \/ UNCHANGED <<list, account, signals>>
    /\ UNCHANGED <<runtime, late, flight, watching, queue, generation, windowVars,
                   pickVars, countVars, pastVars>>

-----------------------------------------------------------------------------
(* The tasks of requests.                                                  *)

Becomes(old, new) == flight' = (flight \ {old}) \cup {new}
Reply(old, new) == flight' = flight \ {old} /\ Enqueue(new)

\* execute: the operation, at the daemon.
Perform ==
    /\ \E r \in flight :
          /\ r.slot = "mutation" /\ r.rows = {} /\ CarryOut(r.what)
          /\ Becomes(r, [r EXCEPT !.rows = {list'}])
    /\ UNCHANGED <<runtime, late, watching, queue, generation, windowVars, pickVars,
                   countVars, pastVars>>

\* A refresh reads the list first, the sign-in state second.
ReadRows ==
    /\ \E r \in flight :
          /\ r.slot = "snapshot" /\ r.rows = {}
          /\ Becomes(r, [r EXCEPT !.rows = {list}])
    /\ UNCHANGED <<runtime, daemonVars, watchVars, queue, generation, windowVars, pickVars,
                   countVars, pastVars>>

\* sign_in, while an attempt is under way.
Refused(r) == r.what = "signIn" /\ attempt

\* Mutant: the sign-in state is asked for though the list could not be read.
AnswerWithoutRows ==
    /\ \E r \in flight :
          \/ r.slot = "snapshot" /\ Reply(r, [r EXCEPT !.account = {account}])
          \/ r.slot = "mutation" /\ (r.rows # {} \/ Refused(r)) /\ Reply(r, r)
          \/ r.slot = "browse" /\ Reply(r, [r EXCEPT !.rows = {0}])
    /\ UNCHANGED <<runtime, daemonVars, watchVars, generation, windowVars, pickVars,
                   countVars, pastVars>>

Answer ==
    /\ \E r \in flight :
          \/ r.slot = "snapshot" /\ r.rows # {} /\ Reply(r, [r EXCEPT !.account = {account}])
          \/ r.slot = "mutation" /\ (r.rows # {} \/ Refused(r)) /\ Reply(r, r)
          \/ r.slot = "browse" /\ Reply(r, [r EXCEPT !.rows = {0}])
    /\ UNCHANGED <<runtime, daemonVars, watchVars, generation, windowVars, pickVars,
                   countVars, pastVars>>

\* The request fails or its deadline passes; a refresh keeps the list it read.
RequestFails ==
    /\ faults < MaxFault /\ faults' = faults + 1
    /\ \E r \in flight :
          /\ Reply(r, IF r.slot = "snapshot" THEN r ELSE [r EXCEPT !.rows = {}])
          /\ late' = IF r.slot = "mutation" /\ r.rows = {} THEN late \cup {r.what} ELSE late
    /\ UNCHANGED <<runtime, list, account, attempt, watchVars, generation, windowVars, pickVars,
                   operations, picks, pastVars>>

\* abort, of a task that has not queued its reply.
Abort ==
    /\ \E r \in flight : ~Finish(r) /\ flight' = flight \ {r}
    /\ UNCHANGED <<runtime, daemonVars, watchVars, queue, generation, windowVars, pickVars,
                   countVars, pastVars>>

-----------------------------------------------------------------------------
(* authentication_session.                                                 *)

Subscribe ==
    /\ runtime /\ ~watching /\ watching' = TRUE /\ Enqueue(AuthenticationEvent({}))
    /\ UNCHANGED <<runtime, daemonVars, flight, signals, generation, windowVars, pickVars,
                   countVars, pastVars>>

Signalled ==
    /\ signals # <<>> /\ signals' = Tail(signals)
    /\ Enqueue(AuthenticationEvent({Head(signals)}))
    /\ UNCHANGED <<runtime, daemonVars, flight, watching, generation, windowVars, pickVars,
                   countVars, pastVars>>

\* An error, or another owner of the name: a new session is opened.
Interrupted ==
    /\ watching /\ faults < MaxFault /\ faults' = faults + 1
    /\ watching' = FALSE /\ signals' = <<>>
    /\ UNCHANGED <<runtime, daemonVars, flight, queue, generation, windowVars, pickVars,
                   operations, picks, pastVars>>

-----------------------------------------------------------------------------
(* The Qt thread: the head of its queue.                                   *)

Handled(slot) == queue # <<>> /\ Head(queue).slot = slot /\ queue' = Tail(queue)

Rejected ==
    /\ queue # <<>> /\ queue' = Tail(queue)
    /\ Head(queue).slot # "auth" /\ ~Finish(Head(queue))
    /\ UNCHANGED <<runtime, daemonVars, flight, watchVars, generation, windowVars, pickVars,
                   countVars, pastVars>>

\* Signed in at last: the message that asks to wait goes.
Waited(in) ==
    IF in /\ waiting THEN message' = "none" /\ waiting' = FALSE
                     ELSE UNCHANGED <<message, waiting>>

CompleteRefresh ==
    LET reply == Head(queue) IN
    /\ Handled("snapshot") /\ Finish(reply)
    /\ refreshing' = FALSE /\ connected' = (reply.rows # {})
    /\ IF reply.rows = {} THEN folders' = folders ELSE folders' \in reply.rows
    /\ IF reply.rows # {} /\ reply.account # {} /\ reply.revision = revision
         THEN shown' \in reply.account /\ Waited(SignedIn(shown'))
         ELSE UNCHANGED <<shown, message, waiting>>
    /\ UNCHANGED <<runtime, daemonVars, flight, watchVars, generation, busy, revision, pickVars,
                   countVars, pastVars>>

AfterOperation(reply, said) ==
    /\ Handled("mutation") /\ Finish(reply)
    /\ busy' = FALSE
    /\ message' = said /\ waiting' = (said = "browser")
    /\ IF refreshing THEN UNCHANGED <<generation, flight, refreshing>>
                     ELSE StartRefresh(revision)
    /\ acknowledged' = IF reply.rows = {} THEN acknowledged
                       ELSE CHOOSE n \in reply.rows : TRUE
    /\ UNCHANGED <<runtime, daemonVars, watchVars, connected, folders, shown, revision, pickVars,
                   countVars, told>>

\* Mutant: the sign-in may have ended before its own reply is handled.
CompleteWithoutRevision ==
    LET reply == Head(queue) IN
    AfterOperation(reply,
        IF reply.rows = {} THEN "error"
        ELSE IF reply.what = "signIn" THEN "browser" ELSE "none")

CompleteOperation ==
    LET reply == Head(queue) IN
    AfterOperation(reply,
        IF reply.rows = {} THEN "error"
        ELSE IF reply.what = "signIn" /\ reply.revision = revision THEN "browser" ELSE "none")

CompleteBrowse ==
    LET reply == Head(queue) IN
    /\ Handled("browse") /\ Finish(reply)
    /\ loading' = FALSE
    /\ listing' = (IF reply.rows = {} THEN listing ELSE reply.folder)
    /\ listError' = (listError \/ reply.rows = {})
    /\ UNCHANGED <<runtime, daemonVars, flight, watchVars, generation, windowVars, asked,
                   countVars, pastVars>>

Changed(changes) ==
    IF changes = {}
      THEN UNCHANGED <<revision, shown, told, message, waiting>>
      ELSE /\ revision' = revision + 1
           /\ shown' \in changes /\ told' = shown'
           /\ Waited(TRUE)

Authentication ==
    /\ Handled("auth") /\ Changed(Head(queue).account)
    /\ IF busy THEN Cancelled("snapshot") /\ refreshing' = FALSE /\ UNCHANGED flight
               ELSE StartRefresh(revision')
    /\ UNCHANGED <<runtime, daemonVars, watchVars, busy, connected, folders, pickVars, countVars,
                   acknowledged>>

-----------------------------------------------------------------------------
Click ==
    \/ \E what \in Operations : Mutate(what)
    \/ \E d \in DriveFolders : ListDriveFolders(d)
    \/ CancelDriveFolders
Unstarted ==
    \/ RefreshUnstarted
    \/ \E what \in Operations : MutateUnstarted(what)
    \/ \E d \in DriveFolders : ListUnstarted(d)
Daemon == CarryOutLate \/ SignInEnds
Tasks  == Perform \/ ReadRows \/ Answer \/ Abort
Watch  == Subscribe \/ Signalled
Turn   == Rejected \/ CompleteRefresh \/ CompleteOperation \/ CompleteBrowse \/ Authentication

Next ==
    \/ Refresh \/ Click \/ Unstarted \/ Watch \/ Turn
    \/ Daemon \/ Tasks \/ RequestFails \/ Interrupted

\* The timer of the window fires, requests are answered or fail, a session that
\* ended is opened again and the Qt event loop turns.
Fairness ==
    WF_vars(Refresh) /\ WF_vars(Tasks) /\ WF_vars(Watch) /\ WF_vars(Turn)

Spec == Init /\ [][Next]_vars /\ Fairness
-----------------------------------------------------------------------------
(* Properties.                                                             *)

Types ==
    /\ list \in Nat /\ account \in Nat /\ attempt \in BOOLEAN
    /\ late \in SUBSET Operations
    /\ runtime \in BOOLEAN /\ flight \in SUBSET Requests /\ queue \in Seq(Requests)
    /\ watching \in BOOLEAN /\ signals \in Seq(Nat)
    /\ generation \in [Slots -> Generations]
    /\ busy \in BOOLEAN /\ refreshing \in BOOLEAN /\ connected \in BOOLEAN
    /\ folders \in Nat /\ shown \in Nat /\ revision \in Nat
    /\ message \in {"none", "browser", "error"} /\ waiting \in BOOLEAN
    /\ asked \in SUBSET DriveFolders /\ listing \in SUBSET DriveFolders
    /\ loading \in BOOLEAN /\ listError \in BOOLEAN
    /\ operations \in 0..MaxOperations /\ picks \in 0..MaxPicks /\ faults \in 0..MaxFault
    /\ acknowledged \in Nat /\ told \in Nat

\* Types, and the shape of what is on its way: a refresh that has a sign-in state
\* has the list it is shown with, a stream of signals belongs to a session, and a
\* window that can start no task says of none that it is under way.
TypeOK ==
    /\ Types
    /\ busy \/ refreshing \/ loading => runtime
    /\ \A r \in Outstanding : r.slot = "snapshot" /\ r.account # {} => r.rows # {}
    /\ watching \/ signals = <<>>

Current(slot) == {r \in Outstanding : r.slot = slot /\ Finish(r)}

\* The window is never stuck: what disables its buttons has a request behind it
\* whose reply will be accepted, and no accepted reply finds the flag cleared.
FlagsTruthful ==
    /\ busy <=> Current("mutation") # {}
    /\ refreshing <=> Current("snapshot") # {}
    /\ loading <=> Current("browse") # {}

\* The window never shows less than it was told: the sign-in state is no older
\* than the last change signalled to it, whatever snapshots were under way, and
\* when it rests its list is no older than the last operation that succeeded.
NoOlderThanTold ==
    /\ shown >= told
    /\ connected /\ ~busy /\ ~refreshing => folders >= acknowledged

\* The window asks to wait for the browser only while it shows signed out.
WaitingMeansSignedOut ==
    (waiting <=> message = "browser") /\ (waiting => ~SignedIn(shown))

\* The picker never lists the folders of a place the user has left.
PickerShowsAskedFolder ==
    asked # {} => listing \subseteq asked /\ (~loading => listing = asked \/ listError)

\* Once clicks and failures are over, the window comes to show the daemon's
\* list and sign-in state, lost signals and late operations notwithstanding; a
\* window whose runtime could not be built shows what it began with.
Settles ==
    <>[](runtime => folders = list /\ SignedIn(shown) = SignedIn(account) /\ connected)
===============================================================================
