-------------------------- MODULE SyncManager_proofs --------------------------
(***************************************************************************)
(* What TLAPS checks about the window, for every set of folders and every  *)
(* bound.                                                                  *)
(***************************************************************************)
EXTENDS SyncManager, TLAPS

Numbers ==
    /\ list \in Nat /\ account \in Nat /\ folders \in Nat /\ shown \in Nat
    /\ revision \in Nat /\ acknowledged \in Nat /\ told \in Nat
    /\ operations \in 0..MaxOperations /\ picks \in 0..MaxPicks /\ faults \in 0..MaxFault

Switches ==
    /\ attempt \in BOOLEAN /\ watching \in BOOLEAN /\ runtime \in BOOLEAN
    /\ busy \in BOOLEAN /\ refreshing \in BOOLEAN /\ connected \in BOOLEAN
    /\ message \in {"none", "browser", "error"} /\ waiting \in BOOLEAN
    /\ loading \in BOOLEAN /\ listError \in BOOLEAN
    /\ late \in SUBSET Operations
    /\ asked \in SUBSET DriveFolders /\ listing \in SUBSET DriveFolders

Traffic ==
    /\ flight \in SUBSET Requests /\ queue \in Seq(Requests)
    /\ signals \in Seq(Nat) /\ generation \in [Slots -> Generations]

LEMMA TypeParts == Types <=> Numbers /\ Switches /\ Traffic
BY DEF Types, Numbers, Switches, Traffic

-----------------------------------------------------------------------------
(* Types.                                                                  *)

LEMMA AdvanceType ==
    ASSUME NEW slot \in Slots, CanAdvance(slot)
    PROVE  NextGeneration(slot) \in Generations /\ NextGeneration(slot) \notin Carried(slot)
BY DEF CanAdvance, NextGeneration

LEMMA HeadType ==
    ASSUME Traffic, queue # <<>>
    PROVE  Head(queue) \in Requests /\ Tail(queue) \in Seq(Requests)
BY DEF Traffic

LEMMA StartRefreshType ==
    ASSUME Traffic, NEW rev \in Nat, StartRefresh(rev)
    PROVE  flight' \in SUBSET Requests /\ generation' \in [Slots -> Generations]
<1>1. CanAdvance("snapshot") BY DEF StartRefresh, Cancelled
<1>2. NextGeneration("snapshot") \in Generations BY <1>1, AdvanceType DEF Slots
<1>3. generation' \in [Slots -> Generations]
  BY <1>2 DEF Traffic, StartRefresh, Cancelled
<1>4. [slot |-> "snapshot", what |-> "refresh", generation |-> NextGeneration("snapshot"),
       revision |-> rev, folder |-> {}, rows |-> {}, account |-> {}] \in Requests
  BY <1>2 DEF Requests, Slots
<1> QED BY <1>3, <1>4 DEF Traffic, StartRefresh, Dispatch

LEMMA NextStateType ==
    ASSUME account \in Nat, NEW in
    PROVE  NextState(in) \in Nat /\ NextState(in) >= account
BY DEF NextState

\* What the daemon does for a request, a sign-out that failed included.
Served(what) == CarryOut(what) \/ RemovalFails

LEMMA ServedShape ==
    ASSUME NEW what, Served(what)
    PROVE  /\ list' = list \/ list' = list + 1
           /\ account' = account \/ account' = NextState(FALSE)
           /\ attempt' = attempt \/ attempt' = TRUE \/ attempt' = FALSE
           /\ signals' = signals \/ signals' = Append(signals, account')
<1>1. UNCHANGED signals \/ Tell(account')
  BY Zenon DEF Served, CarryOut, ChangeFolders, BeginSignIn, SignOut, RemovalFails
<1>2. signals' = signals \/ signals' = Append(signals, account')
  <2>1. CASE Tell(account')
    <3>1. signals' = signals \/ signals' = IF watching THEN Append(signals, account') ELSE signals
      BY <2>1, Zenon DEF Tell
    <3> QED BY <3>1, Zenon
  <2> QED BY <1>1, <2>1, Zenon
<1>3. /\ list' = list \/ list' = list + 1
      /\ account' = account \/ account' = NextState(FALSE)
      /\ attempt' = attempt \/ attempt' = TRUE \/ attempt' = FALSE
  BY Zenon DEF Served, CarryOut, ChangeFolders, BeginSignIn, SignOut, RemovalFails, StopAll
<1> QED BY <1>2, <1>3

LEMMA CarryOutType ==
    ASSUME Numbers, Switches, Traffic, NEW what, Served(what)
    PROVE  /\ list' \in Nat /\ list' >= list /\ account' \in Nat /\ account' >= account
           /\ attempt' \in BOOLEAN /\ signals' \in Seq(Nat)
<1>1. list' = list + 1 \/ list' = list BY ServedShape
<1>2. list' \in Nat /\ list' >= list BY <1>1 DEF Numbers
<1>3. account' = account \/ account' = NextState(FALSE) BY ServedShape
<1> account \in Nat BY DEF Numbers
<1> DEFINE next == NextState(FALSE)
<1>9. next \in Nat /\ next >= account BY NextStateType
<1> HIDE DEF next
<1>10. account' = account \/ account' = next BY <1>3 DEF next
<1>4. account' \in Nat /\ account' >= account BY <1>9, <1>10
<1>6. attempt' \in BOOLEAN BY ServedShape DEF Switches
<1>7. signals' = signals \/ signals' = Append(signals, account') BY ServedShape
<1>8. signals' \in Seq(Nat) BY <1>4, <1>7 DEF Traffic
<1> QED BY <1>2, <1>4, <1>6, <1>8

LEMMA LateServed ==
    ASSUME CarryOutLate
    PROVE  \E what \in late : Served(what) /\ late' = late \ {what}
BY Zenon DEF CarryOutLate, Served

LEMMA InitTypes == Init => Types
<1> SUFFICES ASSUME Init PROVE Numbers /\ Switches /\ Traffic BY TypeParts
<1>1. Numbers BY BoundsAssumption DEF Init, Numbers
<1>2. Switches BY DEF Init, Switches
<1>3. Traffic BY BoundsAssumption DEF Init, Traffic, Slots, Generations
<1> QED BY <1>1, <1>2, <1>3

Measured == <<list, account, folders, shown, revision, acknowledged, told,
              operations, picks, faults>>

LEMMA NumbersKept == Numbers /\ Switches /\ Traffic /\ [Next]_vars => Numbers'
<1> SUFFICES ASSUME Numbers, Switches, Traffic, [Next]_vars PROVE Numbers' OBVIOUS
<1>0. ASSUME UNCHANGED Measured PROVE Numbers' BY <1>0 DEF Measured, Numbers
<1> USE DEF pastVars, countVars, windowVars, daemonVars
<1>1. CASE Refresh \/ RefreshUnstarted
  <2>1. UNCHANGED Measured BY <1>1, Zenon DEF Refresh, RefreshUnstarted, Measured
  <2> QED BY <2>1, <1>0
<1>2. ASSUME NEW what \in Operations, Mutate(what) \/ MutateUnstarted(what) PROVE Numbers'
  <2>1. operations < MaxOperations /\ operations' = operations + 1
    BY <1>2, Zenon DEF Mutate, MutateUnstarted, StartOperation, Clicked
  <2>2. UNCHANGED <<list, account, folders, shown, revision, acknowledged, told, picks, faults>>
    BY <1>2, Zenon DEF Mutate, MutateUnstarted
  <2> QED BY <2>1, <2>2, BoundsAssumption DEF Numbers
<1>3. ASSUME NEW d \in DriveFolders, ListDriveFolders(d) \/ ListUnstarted(d) PROVE Numbers'
  <2>1. picks < MaxPicks /\ picks' = picks + 1
    BY <1>3, Zenon DEF ListDriveFolders, ListUnstarted, Browse
  <2>2. UNCHANGED <<list, account, folders, shown, revision,
                    acknowledged, told, operations, faults>>
    BY <1>3, Zenon DEF ListDriveFolders, ListUnstarted
  <2> QED BY <2>1, <2>2, BoundsAssumption DEF Numbers
<1>4. CASE CancelDriveFolders
  <2>1. UNCHANGED Measured BY <1>4, Zenon DEF CancelDriveFolders, Measured
  <2> QED BY <2>1, <1>0
<1>5. CASE CarryOutLate
  <2>1. PICK what \in late : Served(what) BY <1>5, LateServed, Zenon
  <2>2. list' \in Nat /\ account' \in Nat BY <2>1, CarryOutType
  <2>3. UNCHANGED <<folders, shown, revision, acknowledged, told, operations, picks, faults>>
    BY <1>5, Zenon DEF CarryOutLate
  <2> QED BY <2>2, <2>3 DEF Numbers
<1>6. CASE SignInEnds
  <2>1. account' = account \/ account' = NextState(TRUE) BY <1>6, Zenon DEF SignInEnds
  <2>2. account' \in Nat BY <2>1, NextStateType DEF Numbers
  <2>4. list' = list \/ list' = list + 1 BY <1>6, Zenon DEF SignInEnds
  <2>5. list' \in Nat BY <2>4 DEF Numbers
  <2>3. UNCHANGED <<folders, shown, revision, acknowledged, told, operations, picks, faults>>
    BY <1>6, Zenon DEF SignInEnds
  <2> QED BY <2>2, <2>3, <2>5 DEF Numbers
<1>7. CASE Perform
  <2>1. PICK r \in flight : Served(r.what) BY <1>7, Zenon DEF Perform, Served
  <2>2. list' \in Nat /\ account' \in Nat BY <2>1, CarryOutType
  <2>3. UNCHANGED <<folders, shown, revision, acknowledged, told, operations, picks, faults>>
    BY <1>7, Zenon DEF Perform
  <2> QED BY <2>2, <2>3 DEF Numbers
<1>8. CASE ReadRows \/ Answer \/ Abort
  <2>1. UNCHANGED Measured BY <1>8, Zenon DEF ReadRows, Answer, Abort, Measured
  <2> QED BY <2>1, <1>0
<1>9. CASE RequestFails \/ Interrupted
  <2>1. faults < MaxFault /\ faults' = faults + 1 BY <1>9, Zenon DEF RequestFails, Interrupted
  <2>2. UNCHANGED <<list, account, folders, shown, revision,
                    acknowledged, told, operations, picks>>
    BY <1>9, Zenon DEF RequestFails, Interrupted
  <2> QED BY <2>1, <2>2, BoundsAssumption DEF Numbers
<1>10. CASE Subscribe \/ Signalled
  <2>1. UNCHANGED Measured BY <1>10, Zenon DEF Subscribe, Signalled, Measured
  <2> QED BY <2>1, <1>0
<1>12. CASE Rejected \/ CompleteBrowse
  <2>1. UNCHANGED Measured BY <1>12, Zenon DEF Rejected, CompleteBrowse, Measured
  <2> QED BY <2>1, <1>0
<1>13. CASE CompleteRefresh
  <2>1. Head(queue).rows \in SUBSET Nat /\ Head(queue).account \in SUBSET Nat
    BY <1>13, HeadType DEF CompleteRefresh, Handled, Requests
  <2>2. folders' = folders \/ folders' \in Head(queue).rows BY <1>13, Zenon DEF CompleteRefresh
  <2>3. shown' = shown \/ shown' \in Head(queue).account BY <1>13, Zenon DEF CompleteRefresh
  <2>4. UNCHANGED <<list, account, revision, acknowledged, told, operations, picks, faults>>
    BY <1>13, Zenon DEF CompleteRefresh
  <2> QED BY <2>1, <2>2, <2>3, <2>4 DEF Numbers
<1>14. CASE CompleteOperation
  <2>1. Head(queue).rows \in SUBSET Nat
    BY <1>14, HeadType DEF CompleteOperation, AfterOperation, Handled, Requests
  <2>2. acknowledged' = IF Head(queue).rows = {} THEN acknowledged
                        ELSE CHOOSE n \in Head(queue).rows : TRUE
    BY <1>14, Zenon DEF CompleteOperation, AfterOperation
  <2>3. acknowledged' \in Nat BY <2>1, <2>2 DEF Numbers
  <2>4. UNCHANGED <<list, account, folders, shown, revision, told, operations, picks, faults>>
    BY <1>14, Zenon DEF CompleteOperation, AfterOperation
  <2> QED BY <2>3, <2>4 DEF Numbers
<1>16. CASE Authentication
  <2>1. Head(queue).account \in SUBSET Nat
    BY <1>16, HeadType DEF Authentication, Handled, Requests
  <2>2. \/ UNCHANGED <<revision, shown, told>>
        \/ revision' = revision + 1 /\ shown' \in Head(queue).account /\ told' = shown'
    BY <1>16, Zenon DEF Authentication, Changed
  <2>3. UNCHANGED <<list, account, folders, acknowledged, operations, picks, faults>>
    BY <1>16, Zenon DEF Authentication
  <2> QED BY <2>1, <2>2, <2>3 DEF Numbers
<1>17. CASE UNCHANGED vars
  <2>1. UNCHANGED Measured BY <1>17, Zenon DEF vars, Measured
  <2> QED BY <2>1, <1>0
<1> QED BY <1>1, <1>2, <1>3, <1>4, <1>5, <1>6, <1>7, <1>8, <1>9, <1>10, <1>12,
           <1>13, <1>14, <1>16, <1>17, Zenon
        DEF Next, Click, Unstarted, Daemon, Tasks, Watch, Turn

LEMMA SwitchesKept == Numbers /\ Switches /\ Traffic /\ [Next]_vars => Switches'
<1> SUFFICES ASSUME Numbers, Switches, Traffic, [Next]_vars PROVE Switches' OBVIOUS
<1> USE DEF pastVars, countVars, windowVars, daemonVars, pickVars, watchVars
<1>1. CASE Refresh BY <1>1, Zenon DEF Refresh, StartRefresh, Switches
<1>20. CASE RefreshUnstarted BY <1>20, Zenon DEF RefreshUnstarted, Switches
<1>2. ASSUME NEW what \in Operations, Mutate(what) PROVE Switches'
  BY <1>2, Zenon DEF Mutate, StartOperation, Clicked, Switches
<1>21. ASSUME NEW what \in Operations, MutateUnstarted(what) PROVE Switches'
  BY <1>21, Zenon DEF MutateUnstarted, Clicked, Switches
<1>3. ASSUME NEW d \in DriveFolders, ListDriveFolders(d) PROVE Switches'
  BY <1>3, Zenon DEF ListDriveFolders, Browse, Switches
<1>22. ASSUME NEW d \in DriveFolders, ListUnstarted(d) PROVE Switches'
  BY <1>22, Zenon DEF ListUnstarted, Browse, Switches
<1>4. CASE CancelDriveFolders BY <1>4, Zenon DEF CancelDriveFolders, Switches
<1>5. CASE CarryOutLate
  <2>1. PICK what \in late : Served(what) /\ late' = late \ {what}
    BY <1>5, LateServed, Zenon
  <2>2. attempt' \in BOOLEAN BY <2>1, CarryOutType
  <2>3. late' \in SUBSET Operations BY <2>1 DEF Switches
  <2> QED BY <1>5, <2>2, <2>3, Zenon DEF CarryOutLate, Switches
<1>6. CASE SignInEnds BY <1>6, Zenon DEF SignInEnds, Switches
<1>7. CASE Perform
  <2>1. PICK r \in flight : Served(r.what) BY <1>7, Zenon DEF Perform, Served
  <2>2. attempt' \in BOOLEAN BY <2>1, CarryOutType
  <2> QED BY <1>7, <2>2, Zenon DEF Perform, Switches
<1>8. CASE ReadRows BY <1>8, Zenon DEF ReadRows, Switches
<1>9. CASE Answer BY <1>9, Zenon DEF Answer, Switches
<1>10. CASE Abort BY <1>10, Zenon DEF Abort, Switches
<1>11. CASE RequestFails
  <2>1. PICK r \in flight :
           late' = IF r.slot = "mutation" /\ r.rows = {} THEN late \cup {r.what} ELSE late
    BY <1>11, Zenon DEF RequestFails
  <2>3. r.slot = "mutation" => r.what \in Operations BY DEF Traffic, Requests
  <2>4. late' \in SUBSET Operations BY <2>1, <2>3 DEF Switches
  <2> QED BY <1>11, <2>4, Zenon DEF RequestFails, Switches
<1>12. CASE Subscribe BY <1>12, Zenon DEF Subscribe, Switches
<1>23. CASE Signalled BY <1>23, Zenon DEF Signalled, Switches
<1>13. CASE Interrupted BY <1>13, Zenon DEF Interrupted, Switches
<1>14. CASE Rejected BY <1>14, Zenon DEF Rejected, Switches
<1>15. CASE CompleteRefresh
  <2>1. connected' \in BOOLEAN /\ refreshing' \in BOOLEAN
    BY <1>15, Zenon DEF CompleteRefresh
  <2>2. message' \in {"none", "browser", "error"} /\ waiting' \in BOOLEAN
    BY <1>15, Zenon DEF CompleteRefresh, Waited, Switches
  <2> QED BY <1>15, <2>1, <2>2, Zenon DEF CompleteRefresh, Switches
<1>16. CASE CompleteOperation
  <2>1. refreshing' \in BOOLEAN
    BY <1>16, Zenon DEF CompleteOperation, AfterOperation, StartRefresh, Switches
  <2>2. message' \in {"none", "browser", "error"} /\ waiting' \in BOOLEAN
    BY <1>16, Zenon DEF CompleteOperation, AfterOperation, Switches
  <2> QED BY <1>16, <2>1, <2>2, Zenon DEF CompleteOperation, AfterOperation, Switches
<1>17. CASE CompleteBrowse
  <2>1. Head(queue).folder \in SUBSET DriveFolders
    BY <1>17, HeadType DEF CompleteBrowse, Handled, Requests
  <2> QED BY <1>17, <2>1, Zenon DEF CompleteBrowse, Switches
<1>18. CASE Authentication
  <2>1. refreshing' \in BOOLEAN BY <1>18, Zenon DEF Authentication, StartRefresh
  <2>2. message' \in {"none", "browser", "error"} /\ waiting' \in BOOLEAN
    BY <1>18, Zenon DEF Authentication, Changed, Waited, Switches
  <2> QED BY <1>18, <2>1, <2>2, Zenon DEF Authentication, Switches
<1>19. CASE UNCHANGED vars BY <1>19, Zenon DEF vars, Switches
<1> QED BY <1>1, <1>2, <1>3, <1>4, <1>5, <1>6, <1>7, <1>8, <1>9, <1>10, <1>11, <1>12,
           <1>13, <1>14, <1>15, <1>16, <1>17, <1>18, <1>19, <1>20, <1>21, <1>22,
           <1>23, Zenon
        DEF Next, Click, Unstarted, Daemon, Tasks, Watch, Turn

LEMMA ReplyType ==
    ASSUME Traffic, NEW old, NEW new \in Requests, Reply(old, new)
    PROVE  flight' \in SUBSET Requests /\ queue' \in Seq(Requests)
BY DEF Traffic, Reply, Enqueue

LEMMA TrafficKept == Numbers /\ Switches /\ Traffic /\ [Next]_vars => Traffic'
<1> SUFFICES ASSUME Numbers, Switches, Traffic, [Next]_vars PROVE Traffic' OBVIOUS
<1> DEFINE Same == UNCHANGED <<flight, queue, signals, generation>>
<1>0. Same => Traffic' BY DEF Traffic
<1> USE DEF pastVars, countVars, windowVars, daemonVars, pickVars, watchVars
<1>r. ASSUME NEW r \in flight, NEW k \in SUBSET Nat
      PROVE  /\ r \in Requests /\ [r EXCEPT !.rows = k] \in Requests
             /\ [r EXCEPT !.account = k] \in Requests
  BY <1>r DEF Traffic, Requests
<1>1. CASE Refresh
  <2>1. StartRefresh(revision) /\ UNCHANGED <<queue, signals>> BY <1>1, Zenon DEF Refresh
  <2>2. revision \in Nat BY DEF Numbers
  <2>3. flight' \in SUBSET Requests /\ generation' \in [Slots -> Generations]
    BY <2>1, <2>2, StartRefreshType
  <2> QED BY <2>1, <2>3 DEF Traffic
<1>2. ASSUME NEW what \in Operations, Mutate(what) PROVE Traffic'
  <2>1. /\ CanAdvance("snapshot") /\ CanAdvance("mutation")
        /\ generation' = [generation EXCEPT !["snapshot"] = NextGeneration("snapshot"),
                                            !["mutation"] = NextGeneration("mutation")]
        /\ UNCHANGED <<queue, signals>>
        /\ flight' = flight \cup
             {[slot |-> "mutation", what |-> what, generation |-> NextGeneration("mutation"),
               revision |-> revision, folder |-> {}, rows |-> {}, account |-> {}]}
    BY <1>2, Zenon DEF Mutate, StartOperation, Dispatch
  <2>2. NextGeneration("snapshot") \in Generations /\ NextGeneration("mutation") \in Generations
    BY <2>1, AdvanceType DEF Slots
  <2>3. revision \in Nat BY DEF Numbers
  <2>4. [slot |-> "mutation", what |-> what, generation |-> NextGeneration("mutation"),
         revision |-> revision, folder |-> {}, rows |-> {}, account |-> {}] \in Requests
    BY <2>2, <2>3 DEF Requests, Slots
  <2>5. flight' \in SUBSET Requests BY <2>1, <2>4 DEF Traffic
  <2>6. generation' \in [Slots -> Generations] BY <2>1, <2>2 DEF Traffic
  <2> QED BY <2>1, <2>5, <2>6 DEF Traffic
<1>3. ASSUME NEW d \in DriveFolders, ListDriveFolders(d) PROVE Traffic'
  <2>1. /\ CanAdvance("browse")
        /\ generation' = [generation EXCEPT !["browse"] = NextGeneration("browse")]
        /\ UNCHANGED <<queue, signals>>
        /\ flight' = flight \cup
             {[slot |-> "browse", what |-> "list", generation |-> NextGeneration("browse"),
               revision |-> 0, folder |-> {d}, rows |-> {}, account |-> {}]}
    BY <1>3, Zenon DEF ListDriveFolders, Browse, Dispatch, Cancelled
  <2>2. NextGeneration("browse") \in Generations BY <2>1, AdvanceType DEF Slots
  <2>4. [slot |-> "browse", what |-> "list", generation |-> NextGeneration("browse"),
         revision |-> 0, folder |-> {d}, rows |-> {}, account |-> {}] \in Requests
    BY <2>2 DEF Requests, Slots
  <2>5. flight' \in SUBSET Requests BY <2>1, <2>4 DEF Traffic
  <2>6. generation' \in [Slots -> Generations] BY <2>1, <2>2 DEF Traffic
  <2> QED BY <2>1, <2>5, <2>6 DEF Traffic
<1>4. CASE CancelDriveFolders
  <2>1. /\ CanAdvance("browse")
        /\ generation' = [generation EXCEPT !["browse"] = NextGeneration("browse")]
        /\ UNCHANGED <<flight, queue, signals>>
    BY <1>4, Zenon DEF CancelDriveFolders, Cancelled
  <2>2. NextGeneration("browse") \in Generations BY <2>1, AdvanceType DEF Slots
  <2> QED BY <2>1, <2>2 DEF Traffic
<1>19. ASSUME UNCHANGED <<flight, queue, signals>>,
              NEW a \in Slots, NEW b \in Slots, CanAdvance(a), CanAdvance(b),
              \/ generation' = [generation EXCEPT ![a] = NextGeneration(a)]
              \/ generation' = [generation EXCEPT ![a] = NextGeneration(a),
                                                 ![b] = NextGeneration(b)]
       PROVE  Traffic'
  <2>1. NextGeneration(a) \in Generations /\ NextGeneration(b) \in Generations
    BY <1>19, AdvanceType
  <2> QED BY <1>19, <2>1 DEF Traffic
<1>20. CASE RefreshUnstarted
  <2>1. /\ CanAdvance("snapshot") /\ UNCHANGED <<flight, queue, signals>>
        /\ generation' = [generation EXCEPT !["snapshot"] = NextGeneration("snapshot")]
    BY <1>20, Zenon DEF RefreshUnstarted, Cancelled
  <2> QED BY <2>1, <1>19 DEF Slots
<1>21. ASSUME NEW what \in Operations, MutateUnstarted(what) PROVE Traffic'
  <2>1. /\ CanAdvance("snapshot") /\ CanAdvance("mutation")
        /\ UNCHANGED <<flight, queue, signals>>
        /\ generation' = [generation EXCEPT !["snapshot"] = NextGeneration("snapshot"),
                                            !["mutation"] = NextGeneration("mutation")]
    BY <1>21, Zenon DEF MutateUnstarted
  <2> QED BY <2>1, <1>19 DEF Slots
<1>22. ASSUME NEW d \in DriveFolders, ListUnstarted(d) PROVE Traffic'
  <2>1. /\ CanAdvance("browse") /\ UNCHANGED <<flight, queue, signals>>
        /\ generation' = [generation EXCEPT !["browse"] = NextGeneration("browse")]
    BY <1>22, Zenon DEF ListUnstarted, Browse, Cancelled
  <2> QED BY <2>1, <1>19 DEF Slots
<1>5. CASE CarryOutLate
  <2>1. PICK what \in late : Served(what) BY <1>5, LateServed, Zenon
  <2>2. signals' \in Seq(Nat) BY <2>1, CarryOutType
  <2>3. UNCHANGED <<flight, queue, generation>> BY <1>5, Zenon DEF CarryOutLate
  <2> QED BY <2>2, <2>3 DEF Traffic
<1>6. CASE SignInEnds
  <2>1. signals' = signals \/ (account' = NextState(TRUE) /\ Tell(account'))
    BY <1>6, Zenon DEF SignInEnds
  <2>2. account' \in Nat BY NumbersKept DEF Numbers
  <2>3. signals' = signals \/ signals' = Append(signals, account')
    <3>1. \/ signals' = signals
          \/ signals' \in {signals, IF watching THEN Append(signals, account') ELSE signals}
      BY <2>1, Zenon DEF Tell
    <3> QED BY <3>1, Zenon
  <2>4. UNCHANGED <<flight, queue, generation>> BY <1>6, Zenon DEF SignInEnds
  <2> QED BY <2>2, <2>3, <2>4 DEF Traffic
<1>7. CASE Perform
  <2>1. PICK r \in flight : Served(r.what) /\ Becomes(r, [r EXCEPT !.rows = {list'}])
    BY <1>7, Zenon DEF Perform, Served
  <2>2. list' \in Nat /\ signals' \in Seq(Nat) BY <2>1, CarryOutType
  <2>3. flight' = (flight \ {r}) \cup {[r EXCEPT !.rows = {list'}]} BY <2>1 DEF Becomes
  <2>4. UNCHANGED <<queue, generation>> BY <1>7, Zenon DEF Perform
  <2>5. [r EXCEPT !.rows = {list'}] \in Requests BY <2>2, <1>r
  <2> QED BY <2>2, <2>3, <2>4, <2>5 DEF Traffic
<1>8. CASE ReadRows
  <2>1. PICK r \in flight : flight' = (flight \ {r}) \cup {[r EXCEPT !.rows = {list}]}
    BY <1>8, Zenon DEF ReadRows, Becomes
  <2>2. [r EXCEPT !.rows = {list}] \in Requests BY <1>r DEF Numbers
  <2>3. UNCHANGED <<queue, signals, generation>> BY <1>8, Zenon DEF ReadRows
  <2> QED BY <2>1, <2>2, <2>3 DEF Traffic
<1>9. CASE Answer
  <2>1. PICK r \in flight : \/ Reply(r, [r EXCEPT !.account = {account}])
                            \/ Reply(r, r) \/ Reply(r, [r EXCEPT !.rows = {0}])
    BY <1>9, Zenon DEF Answer
  <2>5. {account} \in SUBSET Nat /\ {0} \in SUBSET Nat BY DEF Numbers
  <2>2. r \in Requests /\ [r EXCEPT !.account = {account}] \in Requests
        /\ [r EXCEPT !.rows = {0}] \in Requests
    BY <1>r, <2>5
  <2>3. flight' \in SUBSET Requests /\ queue' \in Seq(Requests) BY <2>1, <2>2, ReplyType
  <2>4. UNCHANGED <<signals, generation>> BY <1>9, Zenon DEF Answer
  <2> QED BY <2>3, <2>4 DEF Traffic
<1>10. CASE Abort
  <2>1. PICK r \in flight : flight' = flight \ {r} BY <1>10, Zenon DEF Abort
  <2>2. UNCHANGED <<queue, signals, generation>> BY <1>10, Zenon DEF Abort
  <2> QED BY <2>1, <2>2 DEF Traffic
<1>11. CASE RequestFails
  <2>1. PICK r \in flight : Reply(r, r) \/ Reply(r, [r EXCEPT !.rows = {}])
    BY <1>11, Zenon DEF RequestFails
  <2>2. r \in Requests /\ [r EXCEPT !.rows = {}] \in Requests BY <1>r
  <2>3. flight' \in SUBSET Requests /\ queue' \in Seq(Requests) BY <2>1, <2>2, ReplyType
  <2>4. UNCHANGED <<signals, generation>> BY <1>11, Zenon DEF RequestFails
  <2> QED BY <2>3, <2>4 DEF Traffic
<1>12. CASE Subscribe
  <2>1. queue' = Append(queue, AuthenticationEvent({})) BY <1>12, Zenon DEF Subscribe, Enqueue
  <2>2. AuthenticationEvent({}) \in Requests
    BY BoundsAssumption DEF AuthenticationEvent, Requests, Generations
  <2>3. UNCHANGED <<flight, signals, generation>> BY <1>12, Zenon DEF Subscribe
  <2> QED BY <2>1, <2>2, <2>3 DEF Traffic
<1>13. CASE Signalled
  <2>1. /\ signals # <<>> /\ signals' = Tail(signals)
        /\ queue' = Append(queue, AuthenticationEvent({Head(signals)}))
    BY <1>13, Zenon DEF Signalled, Enqueue
  <2>2. Head(signals) \in Nat /\ Tail(signals) \in Seq(Nat) BY <2>1 DEF Traffic
  <2>3. AuthenticationEvent({Head(signals)}) \in Requests
    BY <2>2, BoundsAssumption DEF AuthenticationEvent, Requests, Generations
  <2>4. UNCHANGED <<flight, generation>> BY <1>13, Zenon DEF Signalled
  <2> QED BY <2>1, <2>2, <2>3, <2>4 DEF Traffic
<1>14. CASE Interrupted
  <2>1. signals' = <<>> /\ UNCHANGED <<flight, queue, generation>>
    BY <1>14, Zenon DEF Interrupted
  <2> QED BY <2>1 DEF Traffic
<1>15. CASE Rejected \/ CompleteRefresh \/ CompleteBrowse
  <2>1. queue # <<>> /\ queue' = Tail(queue) /\ UNCHANGED <<flight, signals, generation>>
    BY <1>15, Zenon DEF Rejected, CompleteRefresh, CompleteBrowse, Handled
  <2> QED BY <2>1, HeadType DEF Traffic
<1>16. CASE CompleteOperation
  <2>1. queue # <<>> /\ queue' = Tail(queue) /\ UNCHANGED signals
    BY <1>16, Zenon DEF CompleteOperation, AfterOperation, Handled
  <2>2. UNCHANGED <<generation, flight>> \/ StartRefresh(revision)
    BY <1>16, Zenon DEF CompleteOperation, AfterOperation
  <2>3. revision \in Nat BY DEF Numbers
  <2>4. flight' \in SUBSET Requests /\ generation' \in [Slots -> Generations]
    BY <2>2, <2>3, StartRefreshType DEF Traffic
  <2> QED BY <2>1, <2>4, HeadType DEF Traffic
<1>17. CASE Authentication
  <2>1. queue # <<>> /\ queue' = Tail(queue) /\ UNCHANGED signals
    BY <1>17, Zenon DEF Authentication, Handled
  <2>2. (Cancelled("snapshot") /\ UNCHANGED flight) \/ StartRefresh(revision')
    BY <1>17, Zenon DEF Authentication
  <2>3. revision' \in Nat BY NumbersKept DEF Numbers
  <2>4. CASE StartRefresh(revision')
    BY <2>1, <2>3, <2>4, StartRefreshType, HeadType DEF Traffic
  <2>5. CASE Cancelled("snapshot") /\ UNCHANGED flight
    <3>1. NextGeneration("snapshot") \in Generations
      BY <2>5, AdvanceType DEF Slots, Cancelled
    <3> QED BY <2>1, <2>5, <3>1, HeadType DEF Traffic, Cancelled
  <2> QED BY <2>2, <2>4, <2>5
<1>18. CASE UNCHANGED vars BY <1>18, <1>0, Zenon DEF vars
<1> QED BY <1>1, <1>2, <1>3, <1>4, <1>5, <1>6, <1>7, <1>8, <1>9, <1>10, <1>11, <1>12,
           <1>13, <1>14, <1>15, <1>16, <1>17, <1>18, <1>20, <1>21, <1>22, Zenon
        DEF Next, Click, Unstarted, Daemon, Tasks, Watch, Turn

LEMMA TypeKept == Types /\ [Next]_vars => Types'
BY TypeParts, NumbersKept, SwitchesKept, TrafficKept DEF Types, Numbers, Switches, Traffic

-----------------------------------------------------------------------------
(* Tasks and queued replies: no two of a slot carry the same generation.   *)

Out(F, Q) == F \cup {Q[i] : i \in 1..Len(Q)}
SameKey(r, q) == r.slot = q.slot /\ r.generation = q.generation

Distinct(F, Q) ==
    /\ \A r \in F : r.slot # "auth"
    /\ \A r, q \in F : SameKey(r, q) => r = q
    /\ \A i, j \in 1..Len(Q) : Q[i].slot # "auth" /\ SameKey(Q[i], Q[j]) => i = j
    /\ \A r \in F, i \in 1..Len(Q) : ~SameKey(r, Q[i])

LEMMA TailOut ==
    ASSUME NEW F, NEW S, NEW Q \in Seq(S), Q # <<>>, Distinct(F, Q)
    PROVE  /\ Distinct(F, Tail(Q))
           /\ Out(F, Q) = Out(F, Tail(Q)) \cup {Head(Q)}
           /\ Head(Q).slot # "auth" => \A r \in Out(F, Tail(Q)) : ~SameKey(r, Head(Q))
<1>1. /\ Len(Tail(Q)) = Len(Q) - 1 /\ Len(Q) \in Nat \ {0} /\ Head(Q) = Q[1]
      /\ \A i \in 1..Len(Tail(Q)) : Tail(Q)[i] = Q[i + 1] /\ i + 1 \in 1..Len(Q)
  OBVIOUS
<1>2. Distinct(F, Tail(Q))
  <2>1. \A i, j \in 1..Len(Tail(Q)) :
            Tail(Q)[i].slot # "auth" /\ SameKey(Tail(Q)[i], Tail(Q)[j]) => i = j
    <3> SUFFICES ASSUME NEW i \in 1..Len(Tail(Q)), NEW j \in 1..Len(Tail(Q)),
                        Q[i + 1].slot # "auth", SameKey(Q[i + 1], Q[j + 1])
                 PROVE  i = j
      BY <1>1
    <3>1. i + 1 = j + 1 BY <1>1 DEF Distinct
    <3> QED BY <3>1
  <2>2. \A r \in F, i \in 1..Len(Tail(Q)) : ~SameKey(r, Tail(Q)[i]) BY <1>1 DEF Distinct
  <2> QED BY <2>1, <2>2 DEF Distinct
<1>3. Out(F, Q) = Out(F, Tail(Q)) \cup {Head(Q)}
  <2>1. ASSUME NEW i \in 1..Len(Q) PROVE Q[i] \in Out(F, Tail(Q)) \cup {Head(Q)}
    <3>1. CASE i = 1 BY <3>1, <1>1
    <3>2. CASE i # 1
      <4>1. i - 1 \in 1..Len(Tail(Q)) /\ Tail(Q)[i - 1] = Q[i] BY <3>2, <1>1
      <4> QED BY <4>1 DEF Out
    <3> QED BY <3>1, <3>2
  <2>2. ASSUME NEW i \in 1..Len(Tail(Q)) PROVE Tail(Q)[i] \in Out(F, Q) BY <1>1 DEF Out
  <2>3. Head(Q) \in Out(F, Q) BY <1>1 DEF Out
  <2> QED BY <2>1, <2>2, <2>3 DEF Out
<1>4. ASSUME Head(Q).slot # "auth", NEW r \in Out(F, Tail(Q)) PROVE ~SameKey(r, Head(Q))
  <2>1. CASE r \in F BY <2>1, <1>1 DEF Distinct
  <2>2. ASSUME NEW i \in 1..Len(Tail(Q)), r = Tail(Q)[i] PROVE ~SameKey(r, Head(Q))
    <3>1. r = Q[i + 1] /\ i + 1 \in 1..Len(Q) /\ 1 \in 1..Len(Q) /\ i + 1 # 1 BY <2>2, <1>1
    <3>2. ~SameKey(Q[1], Q[i + 1]) BY <3>1, <1>1, <1>4 DEF Distinct
    <3> QED BY <3>1, <3>2, <1>1 DEF SameKey
  <2> QED BY <2>1, <2>2 DEF Out
<1> QED BY <1>2, <1>3, <1>4

LEMMA AppendFacts ==
    ASSUME NEW S, NEW Q \in Seq(S), NEW e \in S
    PROVE  /\ Len(Append(Q, e)) = Len(Q) + 1 /\ Len(Q) \in Nat
           /\ \A i \in 1..Len(Q) : Append(Q, e)[i] = Q[i]
           /\ Append(Q, e)[Len(Q) + 1] = e
           /\ 1..Len(Append(Q, e)) = 1..Len(Q) \cup {Len(Q) + 1}
OBVIOUS

LEMMA PushOut ==
    ASSUME NEW F, NEW S, NEW Q \in Seq(S), NEW e \in S, Distinct(F, Q),
           \A r \in F : ~SameKey(r, e),
           e.slot # "auth" => \A i \in 1..Len(Q) : ~SameKey(Q[i], e)
    PROVE  Distinct(F, Append(Q, e)) /\ Out(F, Append(Q, e)) = Out(F, Q) \cup {e}
<1> DEFINE A == Append(Q, e)
           n == Len(Q) + 1
<1>1. /\ 1..Len(A) = 1..Len(Q) \cup {n} /\ A[n] = e /\ n \notin 1..Len(Q)
      /\ \A i \in 1..Len(Q) : A[i] = Q[i]
  BY AppendFacts
<1> HIDE DEF A, n
<1>2. Out(F, A) = Out(F, Q) \cup {e} BY <1>1 DEF Out
<1>3. Distinct(F, A)
  <2>1. \A i, j \in 1..Len(A) : A[i].slot # "auth" /\ SameKey(A[i], A[j]) => i = j
    <3> SUFFICES ASSUME NEW i \in 1..Len(A), NEW j \in 1..Len(A),
                        A[i].slot # "auth", SameKey(A[i], A[j])
                 PROVE  i = j
      OBVIOUS
    <3>1. CASE i \in 1..Len(Q) /\ j \in 1..Len(Q) BY <3>1, <1>1 DEF Distinct
    <3>2. CASE i \in 1..Len(Q) /\ j = n BY <3>2, <1>1 DEF SameKey
    <3>3. CASE i = n /\ j \in 1..Len(Q) BY <3>3, <1>1 DEF SameKey
    <3> QED BY <3>1, <3>2, <3>3, <1>1
  <2>2. \A r \in F, i \in 1..Len(A) : ~SameKey(r, A[i]) BY <1>1 DEF Distinct
  <2> QED BY <2>1, <2>2 DEF Distinct
<1> QED BY <1>2, <1>3 DEF A

LEMMA AddOut ==
    ASSUME NEW F, NEW Q, NEW r, Distinct(F, Q), r.slot # "auth",
           \A q \in Out(F, Q) : ~SameKey(q, r),
           NEW G, G = F \cup {r}
    PROVE  Distinct(G, Q) /\ Out(G, Q) = Out(F, Q) \cup {r}
<1>1. Out(G, Q) = Out(F, Q) \cup {r} BY DEF Out
<1>2. \A q \in F : ~SameKey(q, r) /\ ~SameKey(r, q) BY DEF Out, SameKey
<1>3. \A i \in 1..Len(Q) : ~SameKey(r, Q[i]) BY DEF Out, SameKey
<1> QED BY <1>1, <1>2, <1>3 DEF Distinct

LEMMA RemoveOut ==
    ASSUME NEW F, NEW Q, NEW r \in F, Distinct(F, Q), NEW G, G = F \ {r}
    PROVE  /\ Distinct(G, Q) /\ Out(G, Q) = Out(F, Q) \ {r}
           /\ \A q \in Out(G, Q) : ~SameKey(q, r)
<1>1. \A i \in 1..Len(Q) : ~SameKey(r, Q[i]) /\ ~SameKey(Q[i], r) BY DEF Distinct, SameKey
<1>2. \A i \in 1..Len(Q) : Q[i] # r BY <1>1 DEF SameKey
<1>3. Out(G, Q) = Out(F, Q) \ {r} BY <1>2 DEF Out
<1>4. \A q \in G : ~SameKey(q, r) BY DEF Distinct
<1> QED BY <1>1, <1>3, <1>4 DEF Distinct, Out

\* A task works on, or queues its reply.
Moves(F, Q, r, n, G, P) ==
    \/ G = (F \ {r}) \cup {n} /\ P = Q
    \/ G = F \ {r} /\ P = Append(Q, n)
Moved(F, Q, r, n, G, P) ==
    Distinct(G, P) /\ Out(G, P) = (Out(F, Q) \ {r}) \cup {n}

LEMMA MoveOut ==
    ASSUME NEW F, NEW S, NEW Q \in Seq(S), NEW r \in F, NEW n \in S, SameKey(n, r), Distinct(F, Q),
           NEW G, NEW P, Moves(F, Q, r, n, G, P)
    PROVE  Moved(F, Q, r, n, G, P)
<1> DEFINE H == F \ {r}
<1>1. Distinct(H, Q) /\ Out(H, Q) = Out(F, Q) \ {r} /\ \A q \in Out(H, Q) : ~SameKey(q, r)
  BY RemoveOut
<1>2. n.slot # "auth" BY DEF SameKey, Distinct
<1>3. \/ G = H \cup {n} /\ P = Q
      \/ G = H /\ P = Append(Q, n)
  BY DEF Moves
<1> HIDE DEF H
<1>4. \A q \in Out(H, Q) : ~SameKey(q, n) BY <1>1 DEF SameKey
<1>5. (\A q \in H : ~SameKey(q, n)) /\ (\A i \in 1..Len(Q) : ~SameKey(Q[i], n))
  BY <1>4 DEF Out
<1>6. CASE G = H \cup {n} /\ P = Q
  <2>1. Distinct(G, Q) /\ Out(G, Q) = Out(H, Q) \cup {n} BY <1>1, <1>2, <1>4, <1>6, AddOut
  <2> QED BY <1>1, <1>6, <2>1, Zenon DEF Moved
<1>7. CASE G = H /\ P = Append(Q, n)
  <2>1. Distinct(H, Append(Q, n)) /\ Out(H, Append(Q, n)) = Out(H, Q) \cup {n}
    BY <1>1, <1>5, PushOut
  <2> QED BY <1>1, <1>7, <2>1, Zenon DEF Moved
<1> QED BY <1>3, <1>6, <1>7

-----------------------------------------------------------------------------
(* The inductive invariant.                                                *)

\* What is known of a task or a queued reply: it was started by what the window
\* showed, and has read nothing newer than the daemon has; if it will be
\* accepted, nothing older than the window was told.
Good(r) ==
    /\ r.slot = "snapshot" /\ r.account # {} => r.rows # {}
    /\ r.revision <= revision
    /\ \A n \in r.rows : n <= list
    /\ \A n \in r.account : n <= account
    /\ r.slot = "snapshot" /\ Finish(r) =>
          (\A n \in r.rows : n >= acknowledged) /\ (\A n \in r.account : n >= told)
    /\ r.slot = "mutation" /\ Finish(r) /\ r.what = "signIn" /\ r.revision = revision =>
          ~SignedIn(shown)
    /\ r.slot = "browse" /\ Finish(r) => r.folder = asked

Sound == \A r \in Outstanding : Good(r)
Quiet == busy => ~refreshing
Told  == told <= account /\ \A i \in 1..Len(signals) : signals[i] <= account
Known == acknowledged <= list

Consistent ==
    /\ Distinct(flight, queue) /\ Sound /\ FlagsTruthful /\ Quiet /\ Told /\ Known
    /\ NoOlderThanTold /\ WaitingMeansSignedOut /\ PickerShowsAskedFolder

Live(slot) == \E r \in Outstanding : r.slot = slot /\ r.generation = generation[slot]

LEMMA OutstandingIs == Outstanding = Out(flight, queue)
BY DEF Outstanding, Out

LEMMA OutstandingType == Types => \A r \in Outstanding : r \in Requests
BY DEF Types, Outstanding

Matching ==
    /\ busy <=> Live("mutation")
    /\ refreshing <=> Live("snapshot")
    /\ loading <=> Live("browse")

LEMMA LiveFlags == FlagsTruthful <=> Matching
<1>1. ASSUME NEW slot PROVE Current(slot) # {} <=> Live(slot)
  BY Zenon DEF Current, Live, Finish
<1> QED BY <1>1, Zenon DEF FlagsTruthful, Matching

\* A window that can start no task says of none that it is under way, and a
\* stream of signals ends with its session.
Modes ==
    /\ busy \/ refreshing \/ loading => runtime
    /\ watching \/ signals = <<>>

\* What a step may do to the flags and to the stream.
Idle ==
    /\ runtime' = runtime
    /\ busy' => busy \/ runtime
    /\ refreshing' => refreshing \/ runtime
    /\ loading' => loading \/ runtime
Stream ==
    \/ UNCHANGED <<watching, signals>>
    \/ signals # <<>> /\ watching' = watching
    \/ watching' = watching /\ Tell(account')
    \/ watching'
    \/ signals' = <<>>

LEMMA ModesFrom == Modes /\ Idle /\ Stream => Modes'
<1> SUFFICES ASSUME Modes, Idle, Stream PROVE Modes' OBVIOUS
<1>1. (busy \/ refreshing \/ loading => runtime)' BY Zenon DEF Modes, Idle
<1>2. (watching \/ signals = <<>>)'
  <2>1. CASE watching' = watching /\ Tell(account')
    <3>1. ~watching => signals' = signals BY <2>1 DEF Tell
    <3> QED BY <2>1, <3>1 DEF Modes
  <2> QED BY <2>1 DEF Modes, Stream
<1> QED BY <1>1, <1>2 DEF Modes

LEMMA ModesKept == Modes /\ [Next]_vars => Modes'
<1> SUFFICES ASSUME Modes, [Next]_vars PROVE Idle /\ Stream BY ModesFrom
<1> USE DEF windowVars, pickVars, watchVars, Idle, Stream
<1>1. CASE Refresh BY <1>1, Zenon DEF Refresh, StartRefresh, Dispatch
<1>2. ASSUME NEW what \in Operations, Mutate(what) PROVE Idle /\ Stream
  BY <1>2, Zenon DEF Mutate, StartOperation, Dispatch
<1>3. ASSUME NEW d \in DriveFolders, ListDriveFolders(d) PROVE Idle /\ Stream
  BY <1>3, Zenon DEF ListDriveFolders, Dispatch
<1>4. CASE RefreshUnstarted BY <1>4, Zenon DEF RefreshUnstarted
<1>5. ASSUME NEW what \in Operations, MutateUnstarted(what) PROVE Idle /\ Stream
  BY <1>5, Zenon DEF MutateUnstarted
<1>6. ASSUME NEW d \in DriveFolders, ListUnstarted(d) PROVE Idle /\ Stream
  BY <1>6, Zenon DEF ListUnstarted
<1>7. CASE CancelDriveFolders BY <1>7, Zenon DEF CancelDriveFolders
<1>8. CASE CarryOutLate \/ Perform
  <2>1. runtime' = runtime /\ UNCHANGED <<watching, windowVars, pickVars>>
    BY <1>8, Zenon DEF CarryOutLate, Perform
  <2>2. UNCHANGED signals \/ Tell(account')
    BY <1>8, Zenon DEF CarryOutLate, Perform, CarryOut, ChangeFolders, BeginSignIn, SignOut,
       RemovalFails
  <2> QED BY <2>1, <2>2, Zenon
<1>9. CASE SignInEnds BY <1>9, Zenon DEF SignInEnds
<1>10. CASE ReadRows \/ Answer \/ Abort
  <2>1. UNCHANGED <<runtime, watching, signals, busy, refreshing, loading>>
    BY <1>10, Zenon DEF ReadRows, Answer, Abort
  <2> QED BY <2>1, Zenon
<1>11. CASE RequestFails BY <1>11, Zenon DEF RequestFails
<1>12. CASE Subscribe BY <1>12, Zenon DEF Subscribe
<1>20. CASE Signalled BY <1>20, Zenon DEF Signalled
<1>13. CASE Interrupted BY <1>13, Zenon DEF Interrupted
<1>14. CASE Rejected BY <1>14, Zenon DEF Rejected
<1>15. CASE CompleteRefresh BY <1>15, Zenon DEF CompleteRefresh
<1>16. CASE CompleteOperation
  BY <1>16, Zenon DEF CompleteOperation, AfterOperation, StartRefresh, Dispatch
<1>17. CASE CompleteBrowse BY <1>17, Zenon DEF CompleteBrowse
<1>18. CASE Authentication BY <1>18, Zenon DEF Authentication, StartRefresh, Dispatch
<1>19. CASE UNCHANGED vars BY <1>19, Zenon DEF vars
<1> QED BY <1>1, <1>2, <1>3, <1>4, <1>5, <1>6, <1>7, <1>8, <1>9, <1>10, <1>11, <1>12,
           <1>13, <1>14, <1>15, <1>16, <1>17, <1>18, <1>19, <1>20, Zenon
        DEF Next, Click, Unstarted, Daemon, Tasks, Watch, Turn

LEMMA InitConsistent == Init => Consistent
<1> SUFFICES ASSUME Init PROVE Consistent OBVIOUS
<1>1. Outstanding = {} /\ Len(queue) = 0 /\ Len(signals) = 0 BY DEF Init, Outstanding
<1>2. Distinct(flight, queue) BY <1>1 DEF Distinct, Init
<1>3. Sound BY <1>1 DEF Sound
<1>4. FlagsTruthful BY <1>1, LiveFlags, Zenon DEF Matching, Live, Init
<1>5. Quiet /\ Known /\ Told BY <1>1 DEF Quiet, Known, Told, Init
<1>6. NoOlderThanTold BY DEF NoOlderThanTold, Init
<1>7. WaitingMeansSignedOut /\ PickerShowsAskedFolder
  BY Zenon DEF WaitingMeansSignedOut, PickerShowsAskedFolder, Init
<1> QED BY <1>2, <1>3, <1>4, <1>5, <1>6, <1>7 DEF Consistent

\* Steps that leave the window alone.
Still == UNCHANGED <<generation, windowVars, pickVars, pastVars>>

LEMMA StillGood ==
    ASSUME Types, Types', Still, list' >= list, account' >= account,
           NEW r \in Requests, Good(r)
    PROVE  Good(r)'
<1>1. UNCHANGED <<generation, revision, acknowledged, told, shown, asked>>
  BY Zenon DEF Still, windowVars, pickVars, pastVars
<1>2. /\ list \in Nat /\ list' \in Nat /\ account \in Nat /\ account' \in Nat
      /\ r.rows \in SUBSET Nat /\ r.account \in SUBSET Nat
  BY DEF Types, Requests
<1>3. (\A n \in r.rows : n <= list') /\ (\A n \in r.account : n <= account')
  BY <1>2 DEF Good
<1>4. Finish(r)' <=> Finish(r) BY <1>1 DEF Finish
<1> QED BY <1>1, <1>3, <1>4 DEF Good

LEMMA StillConsistent ==
    ASSUME Types, Types', Consistent, Still, list' >= list, account' >= account,
           Distinct(flight', queue'),
           \A r \in Outstanding' : r \in Outstanding \/ Good(r)',
           \A slot \in Slots : Live(slot)' <=> Live(slot),
           \A i \in 1..Len(signals') : signals'[i] <= account'
    PROVE  Consistent'
<1>1. Sound'
  <2> SUFFICES ASSUME NEW r \in Outstanding' PROVE Good(r)' BY DEF Sound
  <2>1. CASE r \in Outstanding
    <3>1. r \in Requests /\ Good(r) BY <2>1, OutstandingType DEF Consistent, Sound
    <3> QED BY <3>1, StillGood
  <2> QED BY <2>1
<1>2. FlagsTruthful'
  <2>1. Matching BY LiveFlags, Zenon DEF Consistent
  <2>2. \A slot \in {"mutation", "snapshot", "browse"} : Live(slot)' <=> Live(slot)
    BY DEF Slots
  <2>3. Matching'
    BY <2>1, <2>2, Zenon DEF Matching, Still, windowVars, pickVars
  <2> QED BY <2>3, LiveFlags, PTL
<1>3. Quiet' BY Zenon DEF Consistent, Quiet, Still, windowVars
<1>4. Told' /\ Known'
  <2>1. UNCHANGED <<told, acknowledged>> BY Zenon DEF Still, pastVars
  <2>2. told \in Nat /\ acknowledged \in Nat /\ list \in Nat /\ list' \in Nat
        /\ account \in Nat /\ account' \in Nat
    BY DEF Types
  <2>3. told <= account /\ acknowledged <= list BY DEF Consistent, Told, Known
  <2>4. told' <= account' /\ acknowledged' <= list' BY <2>1, <2>2, <2>3
  <2> QED BY <2>4 DEF Told, Known
<1>5. NoOlderThanTold'
  <2>1. UNCHANGED <<shown, told, folders, acknowledged, connected, busy, refreshing>>
    BY Zenon DEF Still, windowVars, pastVars
  <2> QED BY <2>1 DEF Consistent, NoOlderThanTold
<1>6. WaitingMeansSignedOut' /\ PickerShowsAskedFolder'
  <2>1. UNCHANGED <<waiting, message, shown, asked, listing, loading, listError>>
    BY Zenon DEF Still, windowVars, pickVars
  <2> QED BY <2>1, Zenon DEF Consistent, WaitingMeansSignedOut, PickerShowsAskedFolder
<1> QED BY <1>1, <1>2, <1>3, <1>4, <1>5, <1>6 DEF Consistent

LEMMA SameTraffic ==
    ASSUME Consistent, UNCHANGED <<flight, queue, generation>>
    PROVE  /\ Distinct(flight', queue')
           /\ \A r \in Outstanding' : r \in Outstanding
           /\ \A slot \in Slots : Live(slot)' <=> Live(slot)
BY DEF Consistent, Outstanding, Live

\* A task works on, or queues its reply.
LEMMA MovedTraffic ==
    ASSUME Types, Consistent, UNCHANGED generation,
           NEW r \in flight, NEW n \in Requests, SameKey(n, r),
           \/ Becomes(r, n) /\ UNCHANGED queue
           \/ Reply(r, n)
    PROVE  /\ Distinct(flight', queue')
           /\ \A q \in Outstanding' : q \in Outstanding \/ q = n
           /\ \A slot \in Slots : Live(slot)' <=> Live(slot)
<1>1. queue \in Seq(Requests) /\ Distinct(flight, queue) BY DEF Types, Consistent
<1>3. \/ flight' = (flight \ {r}) \cup {n} /\ queue' = queue
      \/ flight' = flight \ {r} /\ queue' = Append(queue, n)
  BY DEF Becomes, Reply, Enqueue
<1>4. Distinct(flight', queue') /\ Out(flight', queue') = (Out(flight, queue) \ {r}) \cup {n}
  <2>1. Moves(flight, queue, r, n, flight', queue') BY <1>3, Zenon DEF Moves
  <2>2. Moved(flight, queue, r, n, flight', queue') BY <1>1, <2>1, MoveOut
  <2> QED BY <2>2 DEF Moved
<1>5. Outstanding' = (Outstanding \ {r}) \cup {n} BY <1>4, Zenon DEF Outstanding, Out
<1>6. r \in Outstanding BY DEF Outstanding
<1>7. ASSUME NEW slot \in Slots PROVE Live(slot)' <=> Live(slot)
  <2>1. r.slot = n.slot /\ r.generation = n.generation BY DEF SameKey
  <2> QED BY <1>5, <1>6, <2>1 DEF Live
<1> QED BY <1>4, <1>5, <1>7

LEMMA PushedTraffic ==
    ASSUME Types, Consistent, UNCHANGED <<generation, flight>>,
           NEW e \in Requests, e.slot = "auth", queue' = Append(queue, e)
    PROVE  /\ Distinct(flight', queue')
           /\ \A q \in Outstanding' : q \in Outstanding \/ q = e
           /\ \A slot \in Slots : Live(slot)' <=> Live(slot)
<1>1. queue \in Seq(Requests) /\ Distinct(flight, queue) BY DEF Types, Consistent
<1>2. \A r \in flight : ~SameKey(r, e) BY <1>1 DEF Distinct, SameKey
<1>3. Distinct(flight, Append(queue, e)) /\ Out(flight, Append(queue, e)) = Out(flight, queue) \cup {e}
  BY <1>1, <1>2, PushOut
<1>4. Distinct(flight', queue') /\ Out(flight', queue') = Out(flight, queue) \cup {e} BY <1>3
<1>5. Outstanding' = Outstanding \cup {e} BY <1>4, Zenon DEF Outstanding, Out
<1>6. ASSUME NEW slot \in Slots PROVE Live(slot)' <=> Live(slot)
  <2>1. slot # "auth" BY DEF Slots
  <2> QED BY <1>5, <2>1 DEF Live
<1> QED BY <1>4, <1>5, <1>6

\* The head of the queue leaves it.
LEMMA TakenTraffic ==
    ASSUME Types, Consistent, queue # <<>>
    PROVE  /\ Distinct(flight, Tail(queue))
           /\ Outstanding = Out(flight, Tail(queue)) \cup {Head(queue)}
           /\ Head(queue) \in Outstanding /\ Head(queue) \in Requests
           /\ Head(queue).slot # "auth" =>
                 \A r \in Out(flight, Tail(queue)) : ~SameKey(r, Head(queue))
<1>1. queue \in Seq(Requests) /\ Distinct(flight, queue) BY DEF Types, Consistent
<1> DEFINE T == Tail(queue)
           h == Head(queue)
<1>2. /\ Distinct(flight, T) /\ Out(flight, queue) = Out(flight, T) \cup {h}
      /\ h.slot # "auth" => \A r \in Out(flight, T) : ~SameKey(r, h)
  BY <1>1, TailOut
<1>3. h \in Requests BY <1>1
<1> QED BY <1>2, <1>3, OutstandingIs

LEMMA SignalsKept ==
    ASSUME Types, Types', Consistent, account' >= account,
           \/ UNCHANGED signals
           \/ signals' = Append(signals, account')
           \/ signals # <<>> /\ signals' = Tail(signals)
           \/ signals' = <<>>
    PROVE  \A i \in 1..Len(signals') : signals'[i] <= account'
<1>1. signals \in Seq(Nat) /\ account \in Nat /\ account' \in Nat BY DEF Types
<1>2. \A i \in 1..Len(signals) : signals[i] \in Nat /\ signals[i] <= account
  BY <1>1 DEF Consistent, Told
<1>3. CASE UNCHANGED signals BY <1>1, <1>2, <1>3
<1>4. CASE signals' = Append(signals, account') BY <1>1, <1>2, <1>4, AppendFacts
<1>5. CASE signals # <<>> /\ signals' = Tail(signals)
  <2>1. \A i \in 1..Len(Tail(signals)) : i + 1 \in 1..Len(signals) /\ Tail(signals)[i] = signals[i + 1]
    BY <1>1, <1>5
  <2> QED BY <1>1, <1>2, <1>5, <2>1
<1>6. CASE signals' = <<>> BY <1>6
<1> QED BY <1>3, <1>4, <1>5, <1>6

LEMMA CarriedOut ==
    ASSUME Types, NEW what, Served(what)
    PROVE  /\ list' >= list /\ account' >= account
           /\ (UNCHANGED signals \/ signals' = Append(signals, account'))
<1>1. Numbers /\ Switches /\ Traffic BY TypeParts
<1> QED BY <1>1, ServedShape, CarryOutType

LEMMA DaemonConsistent ==
    ASSUME Types, Types', Consistent, Daemon \/ Interrupted
    PROVE  Consistent'
<1>1. Still /\ UNCHANGED <<flight, queue, generation>>
  BY Zenon DEF Daemon, CarryOutLate, SignInEnds, Interrupted, Still, windowVars, pickVars,
                   pastVars
<1>2. /\ list' >= list /\ account' >= account
      /\ \/ UNCHANGED signals \/ signals' = Append(signals, account') \/ signals' = <<>>
  <2>1. CASE CarryOutLate
    <3>1. PICK what \in late : Served(what) BY <2>1, LateServed, Zenon
    <3> QED BY <3>1, CarriedOut
  <2>2. CASE SignInEnds
    <3>1. list' = list \/ list' = list + 1 BY <2>2, Zenon DEF SignInEnds
    <3>2. account' = account \/ account' = NextState(TRUE) BY <2>2, Zenon DEF SignInEnds
    <3>3. account \in Nat /\ list \in Nat BY DEF Types
    <3> DEFINE next == NextState(TRUE)
    <3>7. next >= account BY <3>3, NextStateType
    <3>8. account' = account \/ account' = next BY <3>2
    <3> HIDE DEF next
    <3>4. list' >= list /\ account' >= account BY <3>1, <3>3, <3>7, <3>8
    <3>5. UNCHANGED signals \/ Tell(account') BY <2>2, Zenon DEF SignInEnds
    <3>6. UNCHANGED signals \/ signals' = Append(signals, account')
      <4>1. CASE Tell(account')
        <5>1. signals' = signals \/ signals' = IF watching THEN Append(signals, account') ELSE signals
          BY <4>1, Zenon DEF Tell
        <5> QED BY <5>1, Zenon
      <4> QED BY <3>5, <4>1, Zenon
    <3> QED BY <3>4, <3>6
  <2>3. CASE Interrupted
    <3>1. list' = list /\ account' = account /\ signals' = <<>>
      BY <2>3, Zenon DEF Interrupted, daemonVars
    <3>2. account \in Nat /\ list \in Nat BY DEF Types
    <3> QED BY <3>1, <3>2
  <2> QED BY <2>1, <2>2, <2>3 DEF Daemon
<1>3. \A i \in 1..Len(signals') : signals'[i] <= account' BY <1>2, SignalsKept
<1> QED BY <1>1, <1>2, <1>3, SameTraffic, StillConsistent

LEMMA ReadingConsistent ==
    ASSUME Types, Types', Consistent, Perform \/ ReadRows \/ Answer \/ RequestFails
    PROVE  Consistent'
<1>1. Still /\ UNCHANGED generation
  BY Zenon DEF Perform, ReadRows, Answer, RequestFails, Still, windowVars, pickVars, pastVars
<1>2. /\ list \in Nat /\ account \in Nat /\ acknowledged \in Nat /\ told \in Nat
      /\ list' \in Nat /\ account' \in Nat /\ told <= account /\ acknowledged <= list
  BY DEF Types, Consistent, Told, Known
<1> DEFINE Turned(r, n) ==
        /\ \/ Becomes(r, n) /\ UNCHANGED queue
           \/ Reply(r, n)
        /\ \/ n = [r EXCEPT !.rows = {list'}] /\ Served(r.what) /\ r.slot = "mutation"
           \/ n = [r EXCEPT !.rows = {list}] /\ UNCHANGED <<list, account, signals>>
           \/ /\ n = [r EXCEPT !.account = {account}] /\ r.rows # {}
              /\ UNCHANGED <<list, account, signals>>
           \/ /\ n = [r EXCEPT !.rows = {0}] /\ r.slot = "browse"
              /\ UNCHANGED <<list, account, signals>>
           \/ /\ n = [r EXCEPT !.rows = {}] /\ r.slot # "snapshot"
              /\ UNCHANGED <<list, account, signals>>
           \/ n = r /\ UNCHANGED <<list, account, signals>>
<1>0. PICK r \in flight : \E n : Turned(r, n)
  BY Zenon DEF Perform, Served, ReadRows, Answer, RequestFails, daemonVars, watchVars
<1>3. PICK n : Turned(r, n) BY <1>0, Zenon
<1>4. /\ list' >= list /\ account' >= account
      /\ (UNCHANGED signals \/ signals' = Append(signals, account'))
  BY <1>2, <1>3, CarriedOut
<1>5. r \in Requests /\ Good(r)
  BY DEF Types, Consistent, Sound, Outstanding
<1>6. Good(r)' BY <1>1, <1>4, <1>5, StillGood
<1>7. n \in Requests /\ SameKey(n, r)
  <2>1. {list'} \in SUBSET Nat /\ {list} \in SUBSET Nat /\ {account} \in SUBSET Nat
        /\ {0} \in SUBSET Nat
    BY <1>2
  <2> QED BY <1>3, <1>5, <2>1 DEF Requests, SameKey
<1>8. Good(n)'
  <2>0. /\ r.rows \in SUBSET Nat /\ r.account \in SUBSET Nat BY <1>5 DEF Requests
  <2>1. CASE n = [r EXCEPT !.rows = {list'}] /\ r.slot = "mutation"
    <3>1. /\ n.slot = r.slot /\ n.generation = r.generation /\ n.what = r.what
          /\ n.revision = r.revision /\ n.account = r.account /\ n.rows = {list'}
      BY <1>5, <2>1 DEF Requests
    <3> QED BY <1>2, <1>6, <2>1, <3>1 DEF Good, Finish
  <2>2. CASE n = [r EXCEPT !.rows = {list}] /\ UNCHANGED <<list, account, signals>>
    <3>1. /\ n.slot = r.slot /\ n.generation = r.generation /\ n.what = r.what
          /\ n.revision = r.revision /\ n.account = r.account /\ n.rows = {list}
          /\ n.folder = r.folder
      BY <1>5, <2>2 DEF Requests
    <3>2. acknowledged' <= list' BY <1>1, <1>2, <2>2 DEF Still, pastVars
    <3> QED BY <1>2, <1>6, <2>2, <3>1, <3>2 DEF Good, Finish
  <2>3. CASE /\ n = [r EXCEPT !.account = {account}] /\ r.rows # {}
             /\ UNCHANGED <<list, account, signals>>
    <3>1. /\ n.slot = r.slot /\ n.generation = r.generation /\ n.what = r.what
          /\ n.revision = r.revision /\ n.account = {account} /\ n.rows = r.rows
          /\ n.folder = r.folder
      BY <1>5, <2>3 DEF Requests
    <3>2. told' <= account' BY <1>1, <1>2, <2>3 DEF Still, pastVars
    <3> QED BY <1>2, <1>6, <2>3, <3>1, <3>2 DEF Good, Finish
  <2>4. CASE n = [r EXCEPT !.rows = {0}] /\ r.slot = "browse"
    <3>1. /\ n.slot = r.slot /\ n.generation = r.generation
          /\ n.revision = r.revision /\ n.account = r.account /\ n.rows = {0}
          /\ n.folder = r.folder
      BY <1>5, <2>4 DEF Requests
    <3> QED BY <1>2, <1>6, <2>4, <3>1 DEF Good, Finish
  <2>5. CASE n = [r EXCEPT !.rows = {}] /\ r.slot # "snapshot"
    <3>1. /\ n.slot = r.slot /\ n.generation = r.generation /\ n.what = r.what
          /\ n.revision = r.revision /\ n.account = r.account /\ n.rows = {}
          /\ n.folder = r.folder
      BY <1>5, <2>5 DEF Requests
    <3> QED BY <1>6, <2>5, <3>1 DEF Good, Finish
  <2>6. CASE n = r BY <1>6, <2>6
  <2> QED BY <1>3, <2>1, <2>2, <2>3, <2>4, <2>5, <2>6
<1>9. \/ Becomes(r, n) /\ UNCHANGED queue
      \/ Reply(r, n)
  BY <1>3
<1>10. /\ Distinct(flight', queue')
       /\ \A q \in Outstanding' : q \in Outstanding \/ q = n
       /\ \A slot \in Slots : Live(slot)' <=> Live(slot)
  BY <1>1, <1>7, <1>9, MovedTraffic
<1>11. \A q \in Outstanding' : q \in Outstanding \/ Good(q)' BY <1>8, <1>10
<1>12. \A i \in 1..Len(signals') : signals'[i] <= account' BY <1>4, SignalsKept
<1> QED BY <1>1, <1>4, <1>10, <1>11, <1>12, StillConsistent

LEMMA DroppedConsistent ==
    ASSUME Types, Types', Consistent, Abort \/ Rejected
    PROVE  Consistent'
<1>1. Still /\ UNCHANGED <<list, account, signals, generation>>
  BY Zenon DEF Abort, Rejected, Still, windowVars, pickVars, pastVars, daemonVars, watchVars
<1>2. list' >= list /\ account' >= account BY <1>1 DEF Types
<1>3. PICK r \in Outstanding :
        /\ r.slot # "auth" /\ r.generation # generation[r.slot]
        /\ Distinct(flight', queue') /\ Outstanding' \subseteq Outstanding
        /\ Outstanding \subseteq Outstanding' \cup {r}
  <2>1. CASE Abort
    <3>1. PICK r \in flight : ~Finish(r) /\ flight' = flight \ {r} BY <2>1, Zenon DEF Abort
    <3>2. UNCHANGED queue BY <2>1, Zenon DEF Abort
    <3>3. Distinct(flight, queue) BY DEF Consistent
    <3>4. Distinct(flight', queue) /\ Out(flight', queue) = Out(flight, queue) \ {r}
      BY <3>1, <3>3, RemoveOut
    <3>5. Outstanding' = Outstanding \ {r} BY <3>2, <3>4, Zenon DEF Outstanding, Out
    <3>6. r.slot # "auth" /\ r \in Outstanding BY <3>3 DEF Distinct, Outstanding
    <3> QED BY <3>1, <3>2, <3>4, <3>5, <3>6 DEF Finish
  <2>2. CASE Rejected
    <3>1. /\ queue # <<>> /\ queue' = Tail(queue) /\ UNCHANGED flight
          /\ Head(queue).slot # "auth" /\ ~Finish(Head(queue))
      BY <2>2, Zenon DEF Rejected
    <3>2. /\ Distinct(flight, Tail(queue))
          /\ Outstanding = Out(flight, Tail(queue)) \cup {Head(queue)}
          /\ Head(queue) \in Outstanding
      BY <3>1, TakenTraffic
    <3>3. Outstanding' = Out(flight, Tail(queue)) BY <3>1, Zenon DEF Outstanding, Out
    <3> QED BY <3>1, <3>2, <3>3 DEF Finish
  <2> QED BY <2>1, <2>2
<1>4. \A slot \in Slots : Live(slot)' <=> Live(slot) BY <1>1, <1>3 DEF Live
<1>5. \A q \in Outstanding' : q \in Outstanding BY <1>3
<1>6. \A i \in 1..Len(signals') : signals'[i] <= account' BY <1>1, <1>2, SignalsKept
<1> QED BY <1>1, <1>2, <1>3, <1>4, <1>5, <1>6, StillConsistent

LEMMA WatchConsistent ==
    ASSUME Types, Types', Consistent, Watch
    PROVE  Consistent'
<1>1. Still /\ UNCHANGED <<list, account, generation, flight>>
  BY Zenon DEF Watch, Subscribe, Signalled, Still, windowVars, pickVars, pastVars, daemonVars
<1>2. list' >= list /\ account' >= account BY <1>1 DEF Types
<1>3. PICK changes :
        /\ queue' = Append(queue, AuthenticationEvent(changes))
        /\ \/ changes = {} /\ UNCHANGED signals
           \/ signals # <<>> /\ signals' = Tail(signals) /\ changes = {Head(signals)}
  BY Zenon DEF Watch, Subscribe, Signalled, Enqueue
<1>4. signals # <<>> => Head(signals) \in Nat /\ Head(signals) <= account
  <2>1. signals \in Seq(Nat) BY DEF Types
  <2>2. signals # <<>> => 1 \in 1..Len(signals) /\ Head(signals) = signals[1] BY <2>1
  <2> QED BY <2>1, <2>2 DEF Consistent, Told
<1> DEFINE e == AuthenticationEvent(changes)
<1>5. e \in Requests /\ e.slot = "auth"
  BY <1>3, <1>4, BoundsAssumption DEF AuthenticationEvent, Requests, Generations
<1>6. Good(e)'
  <2>1. /\ e.revision = 0 /\ e.rows = {} /\ e.account = changes /\ e.slot = "auth"
    BY DEF AuthenticationEvent
  <2>2. revision' \in Nat BY DEF Types
  <2>3. \A n \in changes : n <= account' BY <1>1, <1>3, <1>4
  <2> HIDE DEF e
  <2> QED BY <2>1, <2>2, <2>3 DEF Good
<1> HIDE DEF e
<1>7. /\ Distinct(flight', queue')
      /\ \A q \in Outstanding' : q \in Outstanding \/ q = e
      /\ \A slot \in Slots : Live(slot)' <=> Live(slot)
  <2>1. queue' = Append(queue, e) BY <1>3 DEF e
  <2> QED BY <1>1, <1>5, <2>1, PushedTraffic
<1>8. \A q \in Outstanding' : q \in Outstanding \/ Good(q)' BY <1>6, <1>7
<1>9. \A i \in 1..Len(signals') : signals'[i] <= account' BY <1>2, <1>3, SignalsKept
<1> QED BY <1>1, <1>2, <1>7, <1>8, <1>9, StillConsistent

(* Steps of the window. *)

New(slot, what, rev, folder) ==
    [slot |-> slot, what |-> what, generation |-> NextGeneration(slot),
     revision |-> rev, folder |-> folder, rows |-> {}, account |-> {}]

LEMMA FreshGeneration ==
    ASSUME NEW slot \in Slots, CanAdvance(slot)
    PROVE  \A q \in Outstanding : q.slot = slot => q.generation # NextGeneration(slot)
BY AdvanceType DEF Carried

LEMMA BegunTraffic ==
    ASSUME NEW slot \in Slots, NEW what, NEW rev, NEW folder, CanAdvance(slot),
           Dispatch(slot, what, rev, folder), NEW x, x = New(slot, what, rev, folder),
           Distinct(flight, queue'), Out(flight, queue') \subseteq Outstanding
    PROVE  Distinct(flight', queue') /\ Outstanding' = Out(flight, queue') \cup {x}
<1>1. x.slot = slot /\ x.generation = NextGeneration(slot) BY DEF New
<1>2. flight' = flight \cup {x} BY DEF Dispatch, New
<1>3. \A q \in Out(flight, queue') : ~SameKey(q, x)
  BY <1>1, FreshGeneration DEF SameKey
<1>4. x.slot # "auth" BY <1>1 DEF Slots
<1>5. Distinct(flight', queue') /\ Out(flight', queue') = Out(flight, queue') \cup {x}
  BY <1>2, <1>3, <1>4, AddOut
<1> QED BY <1>5, Zenon DEF Outstanding, Out

\* A reply that was good stays good, or will not be accepted.
LEMMA AdvancedGood ==
    ASSUME Types, NEW r, Good(r), UNCHANGED <<list, account, acknowledged, told, shown, revision>>,
           r.slot \in Slots => \/ generation'[r.slot] # r.generation
                               \/ /\ generation'[r.slot] = generation[r.slot]
                                  /\ r.slot = "browse" => asked' = asked
    PROVE  Good(r)'
BY DEF Good, Finish, Slots

LEMMA NewGood ==
    ASSUME NEW slot, NEW what, NEW rev, NEW folder, NEW x, x = New(slot, what, rev, folder),
           rev <= revision',
           slot = "browse" => folder = asked',
           slot = "mutation" /\ what = "signIn" => ~SignedIn(shown)'
    PROVE  Good(x)'
<1>1. /\ x.slot = slot /\ x.what = what /\ x.revision = rev /\ x.folder = folder
      /\ x.rows = {} /\ x.account = {}
  BY DEF New
<1> QED BY <1>1 DEF Good

\* Distinct, Sound and the flags from what a step does to the requests.
LEMMA FlagsFrom ==
    ASSUME FlagsTruthful, NEW M \in SUBSET Slots, NEW N \in SUBSET Slots,
           \A slot \in Slots \ (M \cup N) : Live(slot)' <=> Live(slot),
           \A slot \in M : Live(slot)',
           \A slot \in N : ~Live(slot)',
           IF "mutation" \in M THEN busy' ELSE IF "mutation" \in N THEN ~busy'
           ELSE busy' <=> busy,
           IF "snapshot" \in M THEN refreshing' ELSE IF "snapshot" \in N THEN ~refreshing'
           ELSE refreshing' <=> refreshing,
           IF "browse" \in M THEN loading' ELSE IF "browse" \in N THEN ~loading'
           ELSE loading' <=> loading
    PROVE  FlagsTruthful'
<1>1. Matching BY LiveFlags
<1>2. "mutation" \in Slots /\ "snapshot" \in Slots /\ "browse" \in Slots BY DEF Slots
<1>3. busy' <=> Live("mutation")' BY <1>1, <1>2, Zenon DEF Matching
<1>4. refreshing' <=> Live("snapshot")' BY <1>1, <1>2, Zenon DEF Matching
<1>5. loading' <=> Live("browse")' BY <1>1, <1>2, Zenon DEF Matching
<1>6. Matching' BY <1>3, <1>4, <1>5, Zenon DEF Matching
<1> QED BY <1>6, LiveFlags, PTL

LEMMA RefreshConsistent ==
    ASSUME Types, Types', Consistent, Refresh
    PROVE  Consistent'
<1>1. /\ ~busy /\ ~refreshing /\ CanAdvance("snapshot")
      /\ generation' = [generation EXCEPT !["snapshot"] = NextGeneration("snapshot")]
      /\ Dispatch("snapshot", "refresh", revision, {}) /\ refreshing'
      /\ queue' = queue /\ UNCHANGED <<signals, list, account, busy, connected, folders, shown,
                   revision, message, waiting, asked, loading, listing, listError, acknowledged,
                   told>>
  BY Zenon DEF Refresh, StartRefresh, Cancelled, daemonVars, watchVars, pickVars, pastVars
<1>2. Distinct(flight, queue') /\ Out(flight, queue') = Outstanding
  BY <1>1, OutstandingIs DEF Consistent
<1> PICK x : x = New("snapshot", "refresh", revision, {}) OBVIOUS
<1>3. "snapshot" \in Slots /\ generation \in [Slots -> Generations] BY DEF Slots, Types
<1>4. Distinct(flight', queue') /\ Outstanding' = Outstanding \cup {x}
  <2>1. Out(flight, queue') \subseteq Outstanding BY <1>2
  <2>2. Distinct(flight', queue') /\ Outstanding' = Out(flight, queue') \cup {x}
    BY <1>1, <1>2, <1>3, <2>1, BegunTraffic
  <2> QED BY <1>2, <2>2
<1>5. /\ generation'["snapshot"] = NextGeneration("snapshot")
      /\ \A slot \in Slots \ {"snapshot"} : generation'[slot] = generation[slot]
  BY <1>1, <1>3
<1>6. \A q \in Outstanding : q.slot = "snapshot" => q.generation # generation'["snapshot"]
  BY <1>1, <1>3, <1>5, FreshGeneration
<1>7. x.slot = "snapshot" /\ x.generation = generation'["snapshot"] BY <1>5 DEF New
<1>8. Good(x)'
  <2>1. revision \in Nat /\ revision <= revision' BY <1>1 DEF Types
  <2> QED BY <2>1, NewGood
<1>9. Sound'
  <2> SUFFICES ASSUME NEW q \in Outstanding PROVE Good(q)' BY <1>4, <1>8 DEF Sound
  <2>1. Good(q) BY DEF Consistent, Sound
  <2>2. q.slot \in Slots => \/ generation'[q.slot] # q.generation
                            \/ /\ generation'[q.slot] = generation[q.slot]
                               /\ q.slot = "browse" => asked' = asked
    BY <1>1, <1>5, <1>6
  <2> QED BY <1>1, <2>1, <2>2, AdvancedGood
<1>10. FlagsTruthful'
  <2>1. \A slot \in Slots \ ({"snapshot"} \cup {}) : Live(slot)' <=> Live(slot)
    BY <1>4, <1>5, <1>7 DEF Live
  <2>2. \A slot \in {"snapshot"} : Live(slot)' BY <1>4, <1>7 DEF Live
  <2>3. FlagsTruthful BY DEF Consistent
  <2>4. {"snapshot"} \in SUBSET Slots /\ {} \in SUBSET Slots BY <1>3
  <2>5. (busy' <=> busy) /\ refreshing' /\ (loading' <=> loading) BY <1>1, Zenon
  <2> QED BY <2>1, <2>2, <2>3, <2>4, <2>5, FlagsFrom
<1>11. Quiet' BY <1>1, Zenon DEF Quiet
<1>12. Told' /\ Known' BY <1>1 DEF Consistent, Told, Known
<1>13. NoOlderThanTold'
  <2>1. shown' >= told' BY <1>1 DEF Consistent, NoOlderThanTold
  <2> QED BY <1>1, <2>1, Zenon DEF NoOlderThanTold
<1>14. WaitingMeansSignedOut' /\ PickerShowsAskedFolder'
  BY <1>1, Zenon DEF Consistent, WaitingMeansSignedOut, PickerShowsAskedFolder
<1> QED BY <1>4, <1>9, <1>10, <1>11, <1>12, <1>13, <1>14 DEF Consistent

LEMMA MutateConsistent ==
    ASSUME Types, Types', Consistent, NEW what \in Operations, Mutate(what)
    PROVE  Consistent'
<1>1. /\ ~busy /\ asked = {} /\ Offered(what)
      /\ CanAdvance("snapshot") /\ CanAdvance("mutation")
      /\ generation' = [generation EXCEPT !["snapshot"] = NextGeneration("snapshot"),
                                          !["mutation"] = NextGeneration("mutation")]
      /\ Dispatch("mutation", what, revision, {})
      /\ busy' /\ ~refreshing' /\ message' = "none" /\ ~waiting'
      /\ queue' = queue /\ UNCHANGED <<signals, list, account, folders, shown, revision,
                   asked, loading, listing, listError, acknowledged, told>>
  BY Zenon DEF Mutate, StartOperation, Clicked, Offered, daemonVars, watchVars, pickVars, pastVars
<1>2. Distinct(flight, queue') /\ Out(flight, queue') = Outstanding
  BY <1>1, OutstandingIs DEF Consistent
<1> PICK x : x = New("mutation", what, revision, {}) OBVIOUS
<1>3. /\ "snapshot" \in Slots /\ "mutation" \in Slots /\ "browse" \in Slots
      /\ generation \in [Slots -> Generations]
  BY DEF Slots, Types
<1>4. Distinct(flight', queue') /\ Outstanding' = Outstanding \cup {x}
  <2>1. Out(flight, queue') \subseteq Outstanding BY <1>2
  <2>2. Distinct(flight', queue') /\ Outstanding' = Out(flight, queue') \cup {x}
    BY <1>1, <1>2, <1>3, <2>1, BegunTraffic
  <2> QED BY <1>2, <2>2
<1>5. /\ generation'["snapshot"] = NextGeneration("snapshot")
      /\ generation'["mutation"] = NextGeneration("mutation")
      /\ generation'["browse"] = generation["browse"]
  BY <1>1, <1>3
<1>6. /\ \A q \in Outstanding : q.slot = "snapshot" => q.generation # generation'["snapshot"]
      /\ \A q \in Outstanding : q.slot = "mutation" => q.generation # generation'["mutation"]
  BY <1>1, <1>3, <1>5, FreshGeneration
<1>7. x.slot = "mutation" /\ x.generation = generation'["mutation"] BY <1>5 DEF New
<1>8. Good(x)'
  <2>1. revision <= revision' BY <1>1 DEF Types
  <2>2. what = "signIn" => ~SignedIn(shown) BY <1>1, Zenon DEF Offered
  <2>3. what = "signIn" => ~SignedIn(shown)' BY <1>1, <2>2 DEF SignedIn
  <2> QED BY <2>1, <2>3, NewGood
<1>9. Sound'
  <2> SUFFICES ASSUME NEW q \in Outstanding PROVE Good(q)' BY <1>4, <1>8 DEF Sound
  <2>1. Good(q) BY DEF Consistent, Sound
  <2>2. q.slot \in Slots => \/ generation'[q.slot] # q.generation
                            \/ /\ generation'[q.slot] = generation[q.slot]
                               /\ q.slot = "browse" => asked' = asked
    BY <1>1, <1>5, <1>6 DEF Slots
  <2> QED BY <1>1, <2>1, <2>2, AdvancedGood
<1>10. FlagsTruthful'
  <2>1. \A slot \in Slots \ ({"mutation"} \cup {"snapshot"}) : Live(slot)' <=> Live(slot)
    BY <1>4, <1>5, <1>7 DEF Live, Slots
  <2>2. \A slot \in {"mutation"} : Live(slot)' BY <1>4, <1>7 DEF Live
  <2>6. \A slot \in {"snapshot"} : ~Live(slot)' BY <1>4, <1>6, <1>7 DEF Live
  <2>3. FlagsTruthful BY DEF Consistent
  <2>4. {"mutation"} \in SUBSET Slots /\ {"snapshot"} \in SUBSET Slots BY <1>3
  <2>5. busy' /\ ~refreshing' /\ (loading' <=> loading) BY <1>1, Zenon
  <2> QED BY <2>1, <2>2, <2>3, <2>4, <2>5, <2>6, FlagsFrom
<1>11. Quiet' BY <1>1, Zenon DEF Quiet
<1>12. Told' /\ Known' BY <1>1 DEF Consistent, Told, Known
<1>13. NoOlderThanTold'
  <2>1. shown' >= told' BY <1>1 DEF Consistent, NoOlderThanTold
  <2> QED BY <1>1, <2>1, Zenon DEF NoOlderThanTold
<1>14. WaitingMeansSignedOut'
  <2>1. message' # "browser" BY <1>1
  <2> QED BY <1>1, <2>1, Zenon DEF WaitingMeansSignedOut
<1>15. PickerShowsAskedFolder'
  BY <1>1, Zenon DEF Consistent, PickerShowsAskedFolder
<1> QED BY <1>4, <1>9, <1>10, <1>11, <1>12, <1>13, <1>14, <1>15 DEF Consistent

LEMMA ListConsistent ==
    ASSUME Types, Types', Consistent, NEW d \in DriveFolders, ListDriveFolders(d)
    PROVE  Consistent'
<1>1. /\ CanAdvance("browse")
      /\ generation' = [generation EXCEPT !["browse"] = NextGeneration("browse")]
      /\ Dispatch("browse", "list", 0, {d})
      /\ loading' /\ asked' = {d} /\ listing' = {} /\ ~listError'
      /\ queue' = queue /\ UNCHANGED <<signals, list, account, busy, refreshing, connected,
                   folders, shown, revision, message, waiting, acknowledged, told>>
  BY Zenon DEF ListDriveFolders, Browse, Cancelled, daemonVars, watchVars, windowVars, pastVars
<1>2. Distinct(flight, queue') /\ Out(flight, queue') = Outstanding
  BY <1>1, OutstandingIs DEF Consistent
<1> PICK x : x = New("browse", "list", 0, {d}) OBVIOUS
<1>3. "browse" \in Slots /\ generation \in [Slots -> Generations] BY DEF Slots, Types
<1>4. Distinct(flight', queue') /\ Outstanding' = Outstanding \cup {x}
  <2>1. Out(flight, queue') \subseteq Outstanding BY <1>2
  <2>2. Distinct(flight', queue') /\ Outstanding' = Out(flight, queue') \cup {x}
    BY <1>1, <1>2, <1>3, <2>1, BegunTraffic
  <2> QED BY <1>2, <2>2
<1>5. /\ generation'["browse"] = NextGeneration("browse")
      /\ \A slot \in Slots \ {"browse"} : generation'[slot] = generation[slot]
  BY <1>1, <1>3
<1>6. \A q \in Outstanding : q.slot = "browse" => q.generation # generation'["browse"]
  BY <1>1, <1>3, <1>5, FreshGeneration
<1>7. x.slot = "browse" /\ x.generation = generation'["browse"] BY <1>5 DEF New
<1>8. Good(x)'
  <2>1. 0 <= revision' BY <1>1 DEF Types
  <2> QED BY <1>1, <2>1, NewGood
<1>9. Sound'
  <2> SUFFICES ASSUME NEW q \in Outstanding PROVE Good(q)' BY <1>4, <1>8 DEF Sound
  <2>1. Good(q) BY DEF Consistent, Sound
  <2>2. q.slot \in Slots => \/ generation'[q.slot] # q.generation
                            \/ /\ generation'[q.slot] = generation[q.slot]
                               /\ q.slot = "browse" => asked' = asked
    BY <1>1, <1>5, <1>6
  <2> QED BY <1>1, <2>1, <2>2, AdvancedGood
<1>10. FlagsTruthful'
  <2>1. \A slot \in Slots \ ({"browse"} \cup {}) : Live(slot)' <=> Live(slot)
    BY <1>4, <1>5, <1>7 DEF Live
  <2>2. \A slot \in {"browse"} : Live(slot)' BY <1>4, <1>7 DEF Live
  <2>3. FlagsTruthful BY DEF Consistent
  <2>4. {"browse"} \in SUBSET Slots /\ {} \in SUBSET Slots BY <1>3
  <2>5. (busy' <=> busy) /\ (refreshing' <=> refreshing) /\ loading' BY <1>1, Zenon
  <2> QED BY <2>1, <2>2, <2>3, <2>4, <2>5, FlagsFrom
<1>11. Quiet' BY <1>1, Zenon DEF Consistent, Quiet
<1>12. Told' /\ Known' BY <1>1 DEF Consistent, Told, Known
<1>13. NoOlderThanTold' BY <1>1 DEF Consistent, NoOlderThanTold
<1>14. WaitingMeansSignedOut'
  BY <1>1, Zenon DEF Consistent, WaitingMeansSignedOut, SignedIn
<1>15. PickerShowsAskedFolder' BY <1>1, Zenon DEF PickerShowsAskedFolder
<1> QED BY <1>4, <1>9, <1>10, <1>11, <1>12, <1>13, <1>14, <1>15 DEF Consistent

LEMMA CancelConsistent ==
    ASSUME Types, Types', Consistent, CancelDriveFolders
    PROVE  Consistent'
<1>1. /\ CanAdvance("browse")
      /\ generation' = [generation EXCEPT !["browse"] = NextGeneration("browse")]
      /\ ~loading' /\ asked' = {}
      /\ UNCHANGED <<flight, queue, signals, list, account, busy, refreshing, connected,
                   folders, shown, revision, message, waiting, acknowledged, told>>
  BY Zenon DEF CancelDriveFolders, Cancelled, daemonVars, watchVars, windowVars, pastVars
<1>2. Distinct(flight', queue') /\ Outstanding' = Outstanding
  BY <1>1 DEF Consistent, Outstanding
<1>3. "browse" \in Slots /\ generation \in [Slots -> Generations] BY DEF Slots, Types
<1>5. /\ generation'["browse"] = NextGeneration("browse")
      /\ \A slot \in Slots \ {"browse"} : generation'[slot] = generation[slot]
  BY <1>1, <1>3
<1>6. \A q \in Outstanding : q.slot = "browse" => q.generation # generation'["browse"]
  BY <1>1, <1>3, <1>5, FreshGeneration
<1>9. Sound'
  <2> SUFFICES ASSUME NEW q \in Outstanding PROVE Good(q)' BY <1>2 DEF Sound
  <2>1. Good(q) BY DEF Consistent, Sound
  <2>2. q.slot \in Slots => \/ generation'[q.slot] # q.generation
                            \/ /\ generation'[q.slot] = generation[q.slot]
                               /\ q.slot = "browse" => asked' = asked
    BY <1>1, <1>5, <1>6
  <2> QED BY <1>1, <2>1, <2>2, AdvancedGood
<1>10. FlagsTruthful'
  <2>1. \A slot \in Slots \ ({} \cup {"browse"}) : Live(slot)' <=> Live(slot)
    BY <1>2, <1>5 DEF Live
  <2>2. \A slot \in {"browse"} : ~Live(slot)' BY <1>2, <1>6 DEF Live
  <2>3. FlagsTruthful BY DEF Consistent
  <2>4. {"browse"} \in SUBSET Slots /\ {} \in SUBSET Slots BY <1>3
  <2>5. (busy' <=> busy) /\ (refreshing' <=> refreshing) /\ ~loading' BY <1>1, Zenon
  <2> QED BY <2>1, <2>2, <2>3, <2>4, <2>5, FlagsFrom
<1>11. Quiet' BY <1>1, Zenon DEF Consistent, Quiet
<1>12. Told' /\ Known' BY <1>1 DEF Consistent, Told, Known
<1>13. NoOlderThanTold' BY <1>1 DEF Consistent, NoOlderThanTold
<1>14. WaitingMeansSignedOut'
  BY <1>1, Zenon DEF Consistent, WaitingMeansSignedOut, SignedIn
<1>15. PickerShowsAskedFolder' BY <1>1, Zenon DEF PickerShowsAskedFolder
<1> QED BY <1>2, <1>9, <1>10, <1>11, <1>12, <1>13, <1>14, <1>15 DEF Consistent

\* A request that could not be started: its slots only get generations nothing
\* carries.
LEMMA UnstartedTraffic ==
    ASSUME Types, Consistent, UNCHANGED <<flight, queue>>, NEW A \in SUBSET Slots,
           \A slot \in A : CanAdvance(slot) /\ generation'[slot] = NextGeneration(slot),
           \A slot \in Slots \ A : generation'[slot] = generation[slot],
           UNCHANGED <<list, account, acknowledged, told, shown, revision>>,
           "browse" \notin A => asked' = asked
    PROVE  /\ Distinct(flight', queue') /\ Sound'
           /\ \A slot \in Slots \ A : Live(slot)' <=> Live(slot)
           /\ \A slot \in A : ~Live(slot)'
<1>1. Distinct(flight', queue') /\ Outstanding' = Outstanding BY DEF Consistent, Outstanding
<1>2. \A slot \in A : \A q \in Outstanding : q.slot = slot => q.generation # generation'[slot]
  BY FreshGeneration
<1>3. Sound'
  <2> SUFFICES ASSUME NEW q \in Outstanding PROVE Good(q)' BY <1>1 DEF Sound
  <2>1. Good(q) BY DEF Consistent, Sound
  <2>2. q.slot \in Slots => \/ generation'[q.slot] # q.generation
                            \/ /\ generation'[q.slot] = generation[q.slot]
                               /\ q.slot = "browse" => asked' = asked
    BY <1>2
  <2> QED BY <2>1, <2>2, AdvancedGood
<1>4. \A slot \in A : ~Live(slot)' BY <1>1, <1>2 DEF Live
<1>5. \A slot \in Slots \ A : Live(slot)' <=> Live(slot) BY <1>1 DEF Live
<1> QED BY <1>1, <1>3, <1>4, <1>5

LEMMA RefreshUnstartedConsistent ==
    ASSUME Types, Types', Consistent, RefreshUnstarted
    PROVE  Consistent'
<1>1. /\ ~busy /\ ~refreshing /\ CanAdvance("snapshot")
      /\ generation' = [generation EXCEPT !["snapshot"] = NextGeneration("snapshot")]
      /\ UNCHANGED <<flight, queue, signals, list, account, busy, refreshing, connected, folders,
                   shown, revision, message, waiting, asked, loading, listing, listError,
                   acknowledged, told>>
  BY Zenon DEF RefreshUnstarted, Cancelled, daemonVars, watchVars, windowVars, pickVars, pastVars
<1> DEFINE A == {"snapshot"}
<1>2. /\ A \in SUBSET Slots /\ {} \in SUBSET Slots /\ "browse" \notin A
      /\ generation \in [Slots -> Generations]
  BY DEF Slots, Types
<1>3. /\ \A slot \in A : CanAdvance(slot) /\ generation'[slot] = NextGeneration(slot)
      /\ \A slot \in Slots \ A : generation'[slot] = generation[slot]
  BY <1>1, <1>2
<1>4. /\ Distinct(flight', queue') /\ Sound'
      /\ \A slot \in Slots \ A : Live(slot)' <=> Live(slot)
      /\ \A slot \in A : ~Live(slot)'
  BY <1>1, <1>2, <1>3, UnstartedTraffic
<1>5. FlagsTruthful'
  <2>1. \A slot \in Slots \ ({} \cup A) : Live(slot)' <=> Live(slot) BY <1>4
  <2>2. FlagsTruthful BY DEF Consistent
  <2>3. (busy' <=> busy) /\ ~refreshing' /\ (loading' <=> loading) BY <1>1, Zenon
  <2> QED BY <1>2, <1>4, <2>1, <2>2, <2>3, FlagsFrom
<1>6. Quiet' /\ Told' /\ Known' /\ NoOlderThanTold'
  BY <1>1 DEF Consistent, Quiet, Told, Known, NoOlderThanTold
<1>7. WaitingMeansSignedOut' /\ PickerShowsAskedFolder'
  BY <1>1, Zenon DEF Consistent, WaitingMeansSignedOut, SignedIn, PickerShowsAskedFolder
<1> QED BY <1>4, <1>5, <1>6, <1>7 DEF Consistent

LEMMA MutateUnstartedConsistent ==
    ASSUME Types, Types', Modes, Consistent, NEW what \in Operations, MutateUnstarted(what)
    PROVE  Consistent'
<1>1. /\ ~busy /\ CanAdvance("snapshot") /\ CanAdvance("mutation")
      /\ generation' = [generation EXCEPT !["snapshot"] = NextGeneration("snapshot"),
                                          !["mutation"] = NextGeneration("mutation")]
      /\ ~refreshing' /\ message' = "none" /\ ~waiting'
      /\ UNCHANGED <<flight, queue, signals, list, account, busy, connected, folders, shown,
                   revision, asked, loading, listing, listError, acknowledged, told>>
  BY Zenon DEF MutateUnstarted, Clicked, daemonVars, watchVars, pickVars, pastVars
<1> DEFINE A == {"snapshot", "mutation"}
<1>2. /\ A \in SUBSET Slots /\ {} \in SUBSET Slots /\ "browse" \notin A
      /\ generation \in [Slots -> Generations]
  BY DEF Slots, Types
<1>3. /\ \A slot \in A : CanAdvance(slot) /\ generation'[slot] = NextGeneration(slot)
      /\ \A slot \in Slots \ A : generation'[slot] = generation[slot]
  BY <1>1, <1>2
<1>4. /\ Distinct(flight', queue') /\ Sound'
      /\ \A slot \in Slots \ A : Live(slot)' <=> Live(slot)
      /\ \A slot \in A : ~Live(slot)'
  BY <1>1, <1>2, <1>3, UnstartedTraffic
<1>5. FlagsTruthful'
  <2>1. \A slot \in Slots \ ({} \cup A) : Live(slot)' <=> Live(slot) BY <1>4
  <2>2. FlagsTruthful BY DEF Consistent
  <2>3. ~busy' /\ ~refreshing' /\ (loading' <=> loading) BY <1>1, Zenon
  <2> QED BY <1>2, <1>4, <2>1, <2>2, <2>3, FlagsFrom
<1>6. Quiet' /\ Told' /\ Known' BY <1>1 DEF Consistent, Quiet, Told, Known
<1>7. NoOlderThanTold'
  <2>1. ~refreshing BY Zenon DEF Modes, MutateUnstarted
  <2> QED BY <1>1, <2>1 DEF Consistent, NoOlderThanTold
<1>8. WaitingMeansSignedOut' BY <1>1, Zenon DEF WaitingMeansSignedOut
<1>9. PickerShowsAskedFolder' BY <1>1, Zenon DEF Consistent, PickerShowsAskedFolder
<1> QED BY <1>4, <1>5, <1>6, <1>7, <1>8, <1>9 DEF Consistent

LEMMA ListUnstartedConsistent ==
    ASSUME Types, Types', Consistent, NEW d \in DriveFolders, ListUnstarted(d)
    PROVE  Consistent'
<1>1. /\ CanAdvance("browse")
      /\ generation' = [generation EXCEPT !["browse"] = NextGeneration("browse")]
      /\ ~loading' /\ asked' = {d} /\ listing' = {} /\ listError'
      /\ UNCHANGED <<flight, queue, signals, list, account, busy, refreshing, connected, folders,
                   shown, revision, message, waiting, acknowledged, told>>
  BY Zenon DEF ListUnstarted, Browse, Cancelled, daemonVars, watchVars, windowVars, pastVars
<1> DEFINE A == {"browse"}
<1>2. /\ A \in SUBSET Slots /\ {} \in SUBSET Slots /\ "browse" \in A
      /\ generation \in [Slots -> Generations]
  BY DEF Slots, Types
<1>3. /\ \A slot \in A : CanAdvance(slot) /\ generation'[slot] = NextGeneration(slot)
      /\ \A slot \in Slots \ A : generation'[slot] = generation[slot]
  BY <1>1, <1>2
<1>4. /\ Distinct(flight', queue') /\ Sound'
      /\ \A slot \in Slots \ A : Live(slot)' <=> Live(slot)
      /\ \A slot \in A : ~Live(slot)'
  BY <1>1, <1>2, <1>3, UnstartedTraffic
<1>5. FlagsTruthful'
  <2>1. \A slot \in Slots \ ({} \cup A) : Live(slot)' <=> Live(slot) BY <1>4
  <2>2. FlagsTruthful BY DEF Consistent
  <2>3. (busy' <=> busy) /\ (refreshing' <=> refreshing) /\ ~loading' BY <1>1, Zenon
  <2> QED BY <1>2, <1>4, <2>1, <2>2, <2>3, FlagsFrom
<1>6. Quiet' /\ Told' /\ Known' /\ NoOlderThanTold'
  BY <1>1 DEF Consistent, Quiet, Told, Known, NoOlderThanTold
<1>7. WaitingMeansSignedOut'
  BY <1>1, Zenon DEF Consistent, WaitingMeansSignedOut, SignedIn
<1>8. PickerShowsAskedFolder' BY <1>1, Zenon DEF PickerShowsAskedFolder
<1> QED BY <1>4, <1>5, <1>6, <1>7, <1>8 DEF Consistent

(* Steps of the Qt thread. *)

LEMMA FinishedTraffic ==
    ASSUME Types, Consistent, NEW slot \in Slots, Handled(slot), Finish(Head(queue))
    PROVE  /\ Distinct(flight, queue') /\ Out(flight, queue') \subseteq Outstanding
           /\ Outstanding = Out(flight, queue') \cup {Head(queue)}
           /\ Head(queue) \in Requests /\ Good(Head(queue)) /\ Live(slot)
           /\ Head(queue).slot = slot /\ Head(queue).generation = generation[slot]
           /\ \A q \in Out(flight, queue') : q.slot = slot => q.generation # generation[slot]
<1>1. queue # <<>> /\ queue' = Tail(queue) /\ Head(queue).slot = slot BY DEF Handled
<1>2. slot # "auth" BY DEF Slots
<1>3. /\ Distinct(flight, Tail(queue))
      /\ Outstanding = Out(flight, Tail(queue)) \cup {Head(queue)}
      /\ Head(queue) \in Outstanding /\ Head(queue) \in Requests
      /\ \A r \in Out(flight, Tail(queue)) : ~SameKey(r, Head(queue))
  BY <1>1, <1>2, TakenTraffic
<1>4. Good(Head(queue)) BY <1>3 DEF Consistent, Sound
<1>5. Head(queue).generation = generation[slot] BY <1>1 DEF Finish
<1>6. Live(slot) BY <1>1, <1>3, <1>5 DEF Live
<1>7. \A q \in Out(flight, queue') : q.slot = slot => q.generation # generation[slot]
  BY <1>1, <1>3, <1>5 DEF SameKey
<1> QED BY <1>1, <1>3, <1>4, <1>5, <1>6, <1>7

LEMMA StartedTraffic ==
    ASSUME Types, NEW rev, StartRefresh(rev),
           Distinct(flight, queue'), Out(flight, queue') \subseteq Outstanding
    PROVE  /\ \E x : /\ x = New("snapshot", "refresh", rev, {})
                     /\ x.slot = "snapshot" /\ x.generation = generation'["snapshot"]
                     /\ Outstanding' = Out(flight, queue') \cup {x}
           /\ Distinct(flight', queue') /\ refreshing'
           /\ \A slot \in Slots \ {"snapshot"} : generation'[slot] = generation[slot]
           /\ \A q \in Outstanding : q.slot = "snapshot" => q.generation # generation'["snapshot"]
<1>1. /\ CanAdvance("snapshot") /\ refreshing'
      /\ generation' = [generation EXCEPT !["snapshot"] = NextGeneration("snapshot")]
      /\ Dispatch("snapshot", "refresh", rev, {})
  BY Zenon DEF StartRefresh, Cancelled
<1>2. "snapshot" \in Slots /\ generation \in [Slots -> Generations] BY DEF Slots, Types
<1>3. PICK x : x = New("snapshot", "refresh", rev, {}) OBVIOUS
<1>4. Distinct(flight', queue') /\ Outstanding' = Out(flight, queue') \cup {x}
  BY <1>1, <1>2, <1>3, BegunTraffic
<1>5. /\ generation'["snapshot"] = NextGeneration("snapshot")
      /\ \A slot \in Slots \ {"snapshot"} : generation'[slot] = generation[slot]
  BY <1>1, <1>2
<1>6. \A q \in Outstanding : q.slot = "snapshot" => q.generation # generation'["snapshot"]
  BY <1>1, <1>2, <1>5, FreshGeneration
<1>7. x.slot = "snapshot" /\ x.generation = generation'["snapshot"] BY <1>3, <1>5 DEF New
<1> QED BY <1>1, <1>3, <1>4, <1>5, <1>6, <1>7

LEMMA CompleteRefreshConsistent ==
    ASSUME Types, Types', Consistent, CompleteRefresh
    PROVE  Consistent'
<1> DEFINE reply == Head(queue)
<1>1. /\ Handled("snapshot") /\ Finish(reply)
      /\ ~refreshing' /\ connected' = (reply.rows # {})
      /\ reply.rows # {} => folders' \in reply.rows
      /\ \/ shown' \in reply.account /\ Waited(SignedIn(shown'))
         \/ UNCHANGED <<shown, message, waiting>>
      /\ UNCHANGED <<flight, generation, signals, list, account, busy, revision, asked,
                     loading, listing, listError, acknowledged, told>>
  BY Zenon DEF CompleteRefresh, daemonVars, watchVars, pickVars, pastVars
<1>2. "snapshot" \in Slots /\ "mutation" \in Slots /\ "browse" \in Slots BY DEF Slots
<1>3. /\ Distinct(flight, queue') /\ Out(flight, queue') \subseteq Outstanding
      /\ Outstanding = Out(flight, queue') \cup {reply}
      /\ reply \in Requests /\ Good(reply) /\ Live("snapshot")
      /\ reply.slot = "snapshot" /\ reply.generation = generation["snapshot"]
      /\ \A q \in Out(flight, queue') :
           q.slot = "snapshot" => q.generation # generation["snapshot"]
  BY <1>1, <1>2, FinishedTraffic
<1>4. Distinct(flight', queue') /\ Outstanding' = Out(flight, queue')
  BY <1>1, <1>3, Zenon DEF Outstanding, Out
<1>5. Matching BY LiveFlags DEF Consistent
<1>6. refreshing /\ ~busy BY <1>3, <1>5, Zenon DEF Matching, Consistent, Quiet
<1>7. ~Live("mutation") BY <1>5, <1>6, Zenon DEF Matching
<1>8. /\ \A n \in reply.rows : n >= acknowledged
      /\ \A n \in reply.account : n >= told
  BY <1>3 DEF Good, Finish
<1> HIDE DEF reply
<1>9. Sound'
  <2> SUFFICES ASSUME NEW q \in Outstanding' PROVE Good(q)' BY DEF Sound
  <2>1. Good(q) BY <1>3, <1>4 DEF Consistent, Sound
  <2>2. q.slot = "mutation" => q.generation # generation["mutation"]
    BY <1>3, <1>4, <1>7 DEF Live
  <2>3. q.slot = "snapshot" => q.generation # generation["snapshot"] BY <1>3, <1>4
  <2> QED BY <1>1, <2>1, <2>2, <2>3 DEF Good, Finish
<1>10. FlagsTruthful'
  <2>1. \A slot \in Slots \ ({} \cup {"snapshot"}) : Live(slot)' <=> Live(slot)
    BY <1>1, <1>3, <1>4 DEF Live
  <2>2. \A slot \in {"snapshot"} : ~Live(slot)' BY <1>1, <1>3, <1>4 DEF Live
  <2>3. FlagsTruthful BY DEF Consistent
  <2>4. {"snapshot"} \in SUBSET Slots /\ {} \in SUBSET Slots BY <1>2
  <2>5. (busy' <=> busy) /\ ~refreshing' /\ (loading' <=> loading) BY <1>1, Zenon
  <2> QED BY <2>1, <2>2, <2>3, <2>4, <2>5, FlagsFrom
<1>11. Quiet' BY <1>1, Zenon DEF Quiet
<1>12. Told' /\ Known' BY <1>1 DEF Consistent, Told, Known
<1>13. NoOlderThanTold'
  <2>1. shown >= told BY DEF Consistent, NoOlderThanTold
  <2>2. shown' >= told' BY <1>1, <1>8, <2>1
  <2>3. reply.rows # {} => folders' >= acknowledged' BY <1>1, <1>8
  <2>4. connected' => reply.rows # {} BY <1>1, Zenon
  <2> QED BY <2>2, <2>3, <2>4, Zenon DEF NoOlderThanTold
<1>14. WaitingMeansSignedOut'
  <2>1. (waiting <=> message = "browser") /\ (waiting => ~SignedIn(shown))
    BY DEF Consistent, WaitingMeansSignedOut
  <2>2. CASE Waited(SignedIn(shown'))
    <3>1. CASE SignedIn(shown') /\ waiting
      <4>1. message' = "none" /\ ~waiting' BY <2>2, <3>1, Zenon DEF Waited
      <4>2. message' # "browser" BY <4>1
      <4> QED BY <4>1, <4>2, Zenon DEF WaitingMeansSignedOut
    <3>2. CASE ~(SignedIn(shown') /\ waiting)
      <4>1. UNCHANGED <<message, waiting>> BY <2>2, <3>2, Zenon DEF Waited
      <4>2. waiting' => ~SignedIn(shown') BY <3>2, <4>1, Zenon
      <4> QED BY <2>1, <4>1, <4>2, Zenon DEF WaitingMeansSignedOut, SignedIn
    <3> QED BY <3>1, <3>2
  <2>3. CASE UNCHANGED <<shown, message, waiting>>
    BY <2>1, <2>3, Zenon DEF WaitingMeansSignedOut, SignedIn
  <2> QED BY <1>1, <2>2, <2>3
<1>15. PickerShowsAskedFolder' BY <1>1, Zenon DEF Consistent, PickerShowsAskedFolder
<1> QED BY <1>4, <1>9, <1>10, <1>11, <1>12, <1>13, <1>14, <1>15 DEF Consistent

LEMMA CompleteBrowseConsistent ==
    ASSUME Types, Types', Consistent, CompleteBrowse
    PROVE  Consistent'
<1> DEFINE reply == Head(queue)
<1>1. /\ Handled("browse") /\ Finish(reply)
      /\ ~loading' /\ listing' = (IF reply.rows = {} THEN listing ELSE reply.folder)
      /\ listError' = (listError \/ reply.rows = {})
      /\ UNCHANGED <<flight, generation, signals, list, account, busy, refreshing, connected,
                     folders, shown, revision, message, waiting, asked, acknowledged, told>>
  BY Zenon DEF CompleteBrowse, daemonVars, watchVars, windowVars, pastVars
<1>2. "snapshot" \in Slots /\ "mutation" \in Slots /\ "browse" \in Slots BY DEF Slots
<1>3. /\ Distinct(flight, queue') /\ Out(flight, queue') \subseteq Outstanding
      /\ Outstanding = Out(flight, queue') \cup {reply}
      /\ Good(reply)
      /\ reply.slot = "browse" /\ reply.generation = generation["browse"]
      /\ \A q \in Out(flight, queue') : q.slot = "browse" => q.generation # generation["browse"]
  BY <1>1, <1>2, FinishedTraffic
<1>4. Distinct(flight', queue') /\ Outstanding' = Out(flight, queue')
  BY <1>1, <1>3, Zenon DEF Outstanding, Out
<1>5. reply.folder = asked BY <1>3 DEF Good, Finish
<1> HIDE DEF reply
<1>9. Sound'
  <2> SUFFICES ASSUME NEW q \in Outstanding' PROVE Good(q)' BY DEF Sound
  <2>1. Good(q) BY <1>3, <1>4 DEF Consistent, Sound
  <2>2. q.slot \in Slots => \/ generation'[q.slot] # q.generation
                            \/ /\ generation'[q.slot] = generation[q.slot]
                               /\ q.slot = "browse" => asked' = asked
    BY <1>1
  <2> QED BY <1>1, <2>1, <2>2, AdvancedGood
<1>10. FlagsTruthful'
  <2>1. \A slot \in Slots \ ({} \cup {"browse"}) : Live(slot)' <=> Live(slot)
    BY <1>1, <1>3, <1>4 DEF Live
  <2>2. \A slot \in {"browse"} : ~Live(slot)' BY <1>1, <1>3, <1>4 DEF Live
  <2>3. FlagsTruthful BY DEF Consistent
  <2>4. {"browse"} \in SUBSET Slots /\ {} \in SUBSET Slots BY <1>2
  <2>5. (busy' <=> busy) /\ (refreshing' <=> refreshing) /\ ~loading' BY <1>1, Zenon
  <2> QED BY <2>1, <2>2, <2>3, <2>4, <2>5, FlagsFrom
<1>11. Quiet' BY <1>1, Zenon DEF Consistent, Quiet
<1>12. Told' /\ Known' BY <1>1 DEF Consistent, Told, Known
<1>13. NoOlderThanTold' BY <1>1 DEF Consistent, NoOlderThanTold
<1>14. WaitingMeansSignedOut'
  BY <1>1, Zenon DEF Consistent, WaitingMeansSignedOut, SignedIn
<1>15. PickerShowsAskedFolder'
  <2>1. asked # {} => listing \subseteq asked BY DEF Consistent, PickerShowsAskedFolder
  <2>2. CASE reply.rows = {}
    <3>1. listing' = listing /\ listError' /\ asked' = asked BY <1>1, <2>2, Zenon
    <3> QED BY <2>1, <3>1, Zenon DEF PickerShowsAskedFolder
  <2>3. CASE reply.rows # {}
    <3>1. listing' = asked' BY <1>1, <1>5, <2>3
    <3>2. listing' \subseteq asked' BY <3>1
    <3> QED BY <3>1, <3>2, Zenon DEF PickerShowsAskedFolder
  <2> QED BY <2>2, <2>3
<1> QED BY <1>4, <1>9, <1>10, <1>11, <1>12, <1>13, <1>14, <1>15 DEF Consistent

LEMMA CompleteOperationConsistent ==
    ASSUME Types, Types', Consistent, CompleteOperation
    PROVE  Consistent'
<1> DEFINE reply == Head(queue)
           said == IF reply.rows = {} THEN "error"
                   ELSE IF reply.what = "signIn" /\ reply.revision = revision
                        THEN "browser" ELSE "none"
<1>1. /\ Handled("mutation") /\ Finish(reply)
      /\ ~busy' /\ message' = said /\ waiting' = (said = "browser")
      /\ refreshing \/ StartRefresh(revision)
      /\ acknowledged' = IF reply.rows = {} THEN acknowledged ELSE CHOOSE n \in reply.rows : TRUE
      /\ UNCHANGED <<signals, list, account, folders, shown, revision, asked,
                     loading, listing, listError, told>>
  BY Zenon DEF CompleteOperation, AfterOperation, daemonVars, watchVars, pickVars
<1>2. "snapshot" \in Slots /\ "mutation" \in Slots /\ "browse" \in Slots BY DEF Slots
<1>3. /\ Distinct(flight, queue') /\ Out(flight, queue') \subseteq Outstanding
      /\ Outstanding = Out(flight, queue') \cup {reply}
      /\ reply \in Requests /\ Good(reply) /\ Live("mutation")
      /\ reply.slot = "mutation" /\ reply.generation = generation["mutation"]
      /\ \A q \in Out(flight, queue') :
           q.slot = "mutation" => q.generation # generation["mutation"]
  BY <1>1, <1>2, FinishedTraffic
<1>4. Matching BY LiveFlags DEF Consistent
<1>5. busy /\ ~refreshing BY <1>3, <1>4, Zenon DEF Matching, Consistent, Quiet
<1>6. StartRefresh(revision) BY <1>1, <1>5
<1>7. PICK x : /\ x = New("snapshot", "refresh", revision, {})
               /\ x.slot = "snapshot" /\ x.generation = generation'["snapshot"]
               /\ Outstanding' = Out(flight, queue') \cup {x}
  BY <1>3, <1>6, StartedTraffic
<1>8. /\ Distinct(flight', queue') /\ refreshing'
      /\ \A slot \in Slots \ {"snapshot"} : generation'[slot] = generation[slot]
      /\ \A q \in Outstanding : q.slot = "snapshot" => q.generation # generation'["snapshot"]
  BY <1>3, <1>6, StartedTraffic
<1>9. /\ reply.rows # {} => acknowledged' \in reply.rows
      /\ \A n \in reply.rows : n <= list
      /\ reply.what = "signIn" /\ reply.revision = revision => ~SignedIn(shown)
  BY <1>1, <1>3 DEF Good, Finish
<1>10. Sound'
  <2>1. Good(x)'
    <3>1. revision <= revision' BY <1>1 DEF Types
    <3> QED BY <1>7, <3>1, NewGood
  <2> SUFFICES ASSUME NEW q \in Out(flight, queue') PROVE Good(q)'
    BY <1>7, <2>1 DEF Sound
  <2>2. q \in Outstanding /\ Good(q) BY <1>3 DEF Consistent, Sound
  <2>3. q.slot = "snapshot" => q.generation # generation'["snapshot"] BY <1>8, <2>2
  <2>4. q.slot \in Slots \ {"snapshot"} => generation'[q.slot] = generation[q.slot] BY <1>8
  <2> QED BY <1>1, <1>2, <2>2, <2>3, <2>4 DEF Good, Finish
<1>11. FlagsTruthful'
  <2>1. \A slot \in Slots \ ({"snapshot"} \cup {"mutation"}) : Live(slot)' <=> Live(slot)
    BY <1>3, <1>7, <1>8 DEF Live, Slots
  <2>2. \A slot \in {"snapshot"} : Live(slot)' BY <1>7 DEF Live
  <2>3. \A slot \in {"mutation"} : ~Live(slot)' BY <1>2, <1>3, <1>7, <1>8 DEF Live
  <2>4. FlagsTruthful BY DEF Consistent
  <2>5. {"mutation"} \in SUBSET Slots /\ {"snapshot"} \in SUBSET Slots BY <1>2
  <2>6. ~busy' /\ refreshing' /\ (loading' <=> loading) BY <1>1, <1>8, Zenon
  <2> QED BY <2>1, <2>2, <2>3, <2>4, <2>5, <2>6, FlagsFrom
<1>12. Quiet' BY <1>1, Zenon DEF Quiet
<1>13. Told' BY <1>1 DEF Consistent, Told
<1>14. Known'
  <2>1. acknowledged <= list BY DEF Consistent, Known
  <2>2. acknowledged' <= list BY <1>1, <1>9, <2>1
  <2>3. list' = list BY <1>1
  <2> QED BY <2>2, <2>3 DEF Known
<1>15. NoOlderThanTold'
  <2>1. shown >= told BY DEF Consistent, NoOlderThanTold
  <2>2. shown' >= told' BY <1>1, <2>1
  <2> QED BY <1>8, <2>2, Zenon DEF NoOlderThanTold
<1>16. WaitingMeansSignedOut'
  <2>1. said = "browser" => reply.what = "signIn" /\ reply.revision = revision OBVIOUS
  <2>2. said = "browser" => ~SignedIn(shown) BY <1>9, <2>1
  <2> HIDE DEF said
  <2> QED BY <1>1, <2>2, Zenon DEF WaitingMeansSignedOut, SignedIn
<1>17. PickerShowsAskedFolder' BY <1>1, Zenon DEF Consistent, PickerShowsAskedFolder
<1> QED BY <1>8, <1>10, <1>11, <1>12, <1>13, <1>14, <1>15, <1>16, <1>17 DEF Consistent

LEMMA AuthenticationConsistent ==
    ASSUME Types, Types', Consistent, Authentication
    PROVE  Consistent'
<1> DEFINE event == Head(queue)
<1>1. /\ Handled("auth")
      /\ \/ busy /\ Cancelled("snapshot") /\ ~refreshing' /\ UNCHANGED flight
         \/ ~busy /\ StartRefresh(revision')
      /\ \/ UNCHANGED <<revision, shown, told, message, waiting>>
         \/ /\ revision' = revision + 1 /\ shown' \in event.account /\ told' = shown'
            /\ Waited(TRUE)
      /\ UNCHANGED <<signals, list, account, busy, folders, asked, loading, listing,
                     listError, acknowledged>>
  BY Zenon DEF Authentication, Changed, daemonVars, watchVars, pickVars
<1>2. /\ "snapshot" \in Slots /\ "mutation" \in Slots /\ "browse" \in Slots
      /\ generation \in [Slots -> Generations]
  BY DEF Slots, Types
<1>3. /\ Distinct(flight, queue') /\ Out(flight, queue') \subseteq Outstanding
      /\ Outstanding = Out(flight, queue') \cup {event}
      /\ Good(event) /\ event.slot = "auth" /\ event \in Requests
  <2>1. queue # <<>> /\ queue' = Tail(queue) /\ event.slot = "auth" BY <1>1 DEF Handled
  <2>2. /\ Distinct(flight, Tail(queue))
        /\ Outstanding = Out(flight, Tail(queue)) \cup {event}
        /\ event \in Outstanding /\ event \in Requests
    BY <2>1, TakenTraffic
  <2> QED BY <2>1, <2>2 DEF Consistent, Sound
<1>4. /\ Distinct(flight', queue')
      /\ \A slot \in Slots \ {"snapshot"} : generation'[slot] = generation[slot]
      /\ \A q \in Outstanding : q.slot = "snapshot" => q.generation # generation'["snapshot"]
      /\ \/ busy /\ ~refreshing' /\ Outstanding' = Out(flight, queue')
         \/ /\ ~busy /\ refreshing'
            /\ \E x : /\ x = New("snapshot", "refresh", revision', {})
                      /\ x.slot = "snapshot" /\ x.generation = generation'["snapshot"]
                      /\ Outstanding' = Out(flight, queue') \cup {x}
  <2>1. CASE ~busy /\ StartRefresh(revision') BY <1>3, <2>1, StartedTraffic
  <2>2. CASE busy /\ Cancelled("snapshot") /\ ~refreshing' /\ UNCHANGED flight
    <3>1. /\ CanAdvance("snapshot")
          /\ generation' = [generation EXCEPT !["snapshot"] = NextGeneration("snapshot")]
      BY <2>2, Zenon DEF Cancelled
    <3>2. /\ generation'["snapshot"] = NextGeneration("snapshot")
          /\ \A slot \in Slots \ {"snapshot"} : generation'[slot] = generation[slot]
      BY <1>2, <3>1
    <3>3. \A q \in Outstanding : q.slot = "snapshot" => q.generation # generation'["snapshot"]
      BY <1>2, <3>1, <3>2, FreshGeneration
    <3>4. Distinct(flight', queue') /\ Outstanding' = Out(flight, queue')
      BY <1>3, <2>2, Zenon DEF Outstanding, Out
    <3> QED BY <2>2, <3>2, <3>3, <3>4
  <2> QED BY <1>1, <2>1, <2>2
<1>14. \/ /\ revision' = revision /\ shown' = shown /\ told' = told
       \/ revision' = revision + 1 /\ shown' \in event.account /\ told' = shown'
  BY <1>1, Zenon
<1>15. /\ revision \in Nat /\ revision' \in Nat
       /\ shown \in Nat /\ shown' \in Nat /\ told \in Nat /\ told' \in Nat
  BY DEF Types
<1>5. revision' >= revision BY <1>14, <1>15
<1>6. \A n \in event.account : n <= account BY <1>3 DEF Good
<1> HIDE DEF event
<1>7. Sound'
  <2>1. ASSUME NEW x, x = New("snapshot", "refresh", revision', {}) PROVE Good(x)'
    BY <1>15, <2>1, NewGood
  <2>2. ASSUME NEW q \in Out(flight, queue') PROVE Good(q)'
    <3>1. q \in Outstanding /\ Good(q) BY <1>3, <2>2 DEF Consistent, Sound
    <3>2. q.slot = "snapshot" => q.generation # generation'["snapshot"] BY <1>4, <3>1
    <3>3. q.slot \in Slots \ {"snapshot"} => generation'[q.slot] = generation[q.slot] BY <1>4
    <3>4. q \in Requests BY <3>1, OutstandingType
    <3>5. q.revision \in Nat /\ q.revision <= revision BY <3>1, <3>4 DEF Good, Requests
    <3>6. q.revision <= revision' BY <1>5, <1>15, <3>5
    <3>7. q.slot = "mutation" /\ Finish(q)' /\ q.what = "signIn" /\ q.revision = revision'
          => ~SignedIn(shown)'
      <4> SUFFICES ASSUME q.slot = "mutation", q.generation = generation'[q.slot],
                          q.what = "signIn", q.revision = revision'
                   PROVE  ~SignedIn(shown)'
        BY DEF Finish
      <4>1. UNCHANGED <<revision, shown>> BY <1>14, <1>15, <3>5
      <4>2. Finish(q) BY <1>2, <3>3 DEF Finish
      <4>3. ~SignedIn(shown) BY <3>1, <4>1, <4>2 DEF Good
      <4> QED BY <4>1, <4>3 DEF SignedIn
    <3>8. q.slot = "browse" /\ Finish(q)' => q.folder = asked'
      BY <1>1, <1>2, <3>1, <3>3 DEF Good, Finish
    <3>9. \A n \in q.rows : n <= list' BY <1>1, <3>1 DEF Good
    <3>10. \A n \in q.account : n <= account' BY <1>1, <3>1 DEF Good
    <3>11. q.slot = "snapshot" => ~Finish(q)' BY <3>2 DEF Finish
    <3>12. q.slot = "snapshot" /\ q.account # {} => q.rows # {} BY <3>1 DEF Good
    <3> QED BY <3>6, <3>7, <3>8, <3>9, <3>10, <3>11, <3>12 DEF Good
  <2> QED BY <1>4, <2>1, <2>2 DEF Sound
<1>8. FlagsTruthful'
  <2>1. FlagsTruthful BY DEF Consistent
  <2>2. {"snapshot"} \in SUBSET Slots /\ {} \in SUBSET Slots BY <1>2
  <2>3. (busy' <=> busy) /\ (loading' <=> loading) BY <1>1, Zenon
  <2>4. CASE busy /\ ~refreshing' /\ Outstanding' = Out(flight, queue')
    <3>1. \A slot \in Slots \ ({} \cup {"snapshot"}) : Live(slot)' <=> Live(slot)
      BY <1>3, <1>4, <2>4 DEF Live, Slots
    <3>2. \A slot \in {"snapshot"} : ~Live(slot)' BY <1>3, <1>4, <2>4 DEF Live
    <3>3. ~refreshing' BY <2>4
    <3> QED BY <2>1, <2>2, <2>3, <3>1, <3>2, <3>3, FlagsFrom
  <2>5. ASSUME ~busy, refreshing', NEW x, x.slot = "snapshot",
               x.generation = generation'["snapshot"],
               Outstanding' = Out(flight, queue') \cup {x}
        PROVE  FlagsTruthful'
    <3>1. \A slot \in Slots \ ({"snapshot"} \cup {}) : Live(slot)' <=> Live(slot)
      BY <1>3, <1>4, <2>5 DEF Live, Slots
    <3>2. \A slot \in {"snapshot"} : Live(slot)' BY <2>5 DEF Live
    <3> QED BY <2>1, <2>2, <2>3, <2>5, <3>1, <3>2, FlagsFrom
  <2> QED BY <1>4, <2>4, <2>5
<1>9. Quiet' BY <1>1, <1>4, Zenon DEF Quiet
<1>10. Told' /\ Known'
  <2>1. told <= account /\ \A i \in 1..Len(signals) : signals[i] <= account
    BY DEF Consistent, Told
  <2>2. told' <= account' BY <1>1, <1>6, <2>1
  <2> QED BY <1>1, <2>1, <2>2 DEF Consistent, Told, Known
<1>11. NoOlderThanTold'
  <2>1. shown >= told BY DEF Consistent, NoOlderThanTold
  <2>3. shown' >= told' BY <1>14, <1>15, <2>1
  <2>4. busy' \/ refreshing' BY <1>1, <1>4, Zenon
  <2> QED BY <2>3, <2>4, Zenon DEF NoOlderThanTold
<1>12. WaitingMeansSignedOut'
  <2>1. (waiting <=> message = "browser") /\ (waiting => ~SignedIn(shown))
    BY DEF Consistent, WaitingMeansSignedOut
  <2>2. CASE UNCHANGED <<revision, shown, told, message, waiting>>
    BY <2>1, <2>2, Zenon DEF WaitingMeansSignedOut, SignedIn
  <2>3. CASE Waited(TRUE)
    <3>1. ~waiting' /\ message' # "browser"
      <4>1. CASE waiting
        <5>1. message' = "none" /\ ~waiting' BY <2>3, <4>1, Zenon DEF Waited
        <5> QED BY <5>1
      <4>2. CASE ~waiting
        <5>1. UNCHANGED <<message, waiting>> BY <2>3, <4>2, Zenon DEF Waited
        <5> QED BY <2>1, <4>2, <5>1, Zenon
      <4> QED BY <4>1, <4>2
    <3> QED BY <3>1, Zenon DEF WaitingMeansSignedOut
  <2> QED BY <1>1, <2>2, <2>3
<1>13. PickerShowsAskedFolder' BY <1>1, Zenon DEF Consistent, PickerShowsAskedFolder
<1> QED BY <1>4, <1>7, <1>8, <1>9, <1>10, <1>11, <1>12, <1>13 DEF Consistent

LEMMA ConsistentKept == Types /\ Modes /\ Consistent /\ [Next]_vars => Consistent'
<1> SUFFICES ASSUME Types, Modes, Consistent, [Next]_vars PROVE Consistent' OBVIOUS
<1>0. Types' BY TypeKept
<1>1. CASE Refresh BY <1>0, <1>1, RefreshConsistent
<1>2. CASE Click BY <1>0, <1>2, MutateConsistent, ListConsistent, CancelConsistent DEF Click
<1>12. CASE Unstarted
  BY <1>0, <1>12, RefreshUnstartedConsistent, MutateUnstartedConsistent, ListUnstartedConsistent
     DEF Unstarted
<1>3. CASE Daemon \/ Interrupted BY <1>0, <1>3, DaemonConsistent
<1>4. CASE Perform \/ ReadRows \/ Answer \/ RequestFails BY <1>0, <1>4, ReadingConsistent
<1>5. CASE Abort \/ Rejected BY <1>0, <1>5, DroppedConsistent
<1>6. CASE Watch BY <1>0, <1>6, WatchConsistent
<1>7. CASE CompleteRefresh BY <1>0, <1>7, CompleteRefreshConsistent
<1>8. CASE CompleteOperation BY <1>0, <1>8, CompleteOperationConsistent
<1>9. CASE CompleteBrowse BY <1>0, <1>9, CompleteBrowseConsistent
<1>10. CASE Authentication BY <1>0, <1>10, AuthenticationConsistent
<1>11. CASE UNCHANGED vars
  <2>1. Still /\ UNCHANGED <<list, account, flight, queue, generation, signals>>
    BY <1>11, Zenon DEF vars, Still, windowVars, pickVars, pastVars, daemonVars, watchVars
  <2>2. list' >= list /\ account' >= account BY <2>1 DEF Types
  <2>3. \A i \in 1..Len(signals') : signals'[i] <= account' BY <1>0, <2>1, <2>2, SignalsKept
  <2> QED BY <1>0, <2>1, <2>2, <2>3, SameTraffic, StillConsistent
<1> QED BY <1>1, <1>2, <1>3, <1>4, <1>5, <1>6, <1>7, <1>8, <1>9, <1>10, <1>11,
           <1>12, Zenon
        DEF Next, Tasks, Turn

LEMMA Invariance == Spec => [](Types /\ Modes /\ Consistent)
<1>1. Init => Types /\ Modes /\ Consistent BY InitTypes, InitConsistent DEF Init, Modes
<1>2. Types /\ Modes /\ Consistent /\ [Next]_vars => (Types /\ Modes /\ Consistent)'
  BY TypeKept, ModesKept, ConsistentKept
<1> QED BY <1>1, <1>2, PTL DEF Spec

-----------------------------------------------------------------------------
(* The theorems.                                                           *)

\* Every variable keeps its type; a refresh that has read a sign-in state has read
\* the list before it, and only an open session has signals on their way.
THEOREM TypeCorrect == Spec => []TypeOK
<1>1. Types /\ Modes /\ Consistent => TypeOK
  BY Zenon DEF TypeOK, Modes, Consistent, Sound, Good
<1> QED BY <1>1, Invariance, PTL

\* No button stays disabled without a request whose reply will be accepted.
THEOREM WindowIsNeverStuck == Spec => []FlagsTruthful
<1>1. Consistent => FlagsTruthful BY DEF Consistent
<1> QED BY <1>1, Invariance, PTL

\* No snapshot undoes a signal or an operation the window was told of.
THEOREM WindowKeepsUp == Spec => []NoOlderThanTold
<1>1. Consistent => NoOlderThanTold BY DEF Consistent
<1> QED BY <1>1, Invariance, PTL

\* The window never asks to wait for a sign-in it shows as done.
THEOREM WaitingIsTrue == Spec => []WaitingMeansSignedOut
<1>1. Consistent => WaitingMeansSignedOut BY DEF Consistent
<1> QED BY <1>1, Invariance, PTL

\* The picker never takes a late answer for the folder the user is in.
THEOREM PickerIsCurrent == Spec => []PickerShowsAskedFolder
<1>1. Consistent => PickerShowsAskedFolder BY DEF Consistent
<1> QED BY <1>1, Invariance, PTL
===============================================================================
