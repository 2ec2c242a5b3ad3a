------------------------ MODULE TokenSession_proofs ------------------------
(***************************************************************************)
(* The session is safe whatever requests, sign-ins, sign-outs, restarts    *)
(* and answers of Google interleave, for any number of them: the proofs of *)
(* TokenSession's invariants from one inductive invariant.                 *)
(***************************************************************************)
EXTENDS TokenSession, TLAPS

\* A token Google has issued, or none.
Known(token) == token = NoToken \/ (token.session \in Sessions /\ token.access \in 1..issued)

\* A state read from the client: not newer than what is installed, and of the
\* same session when nothing has replaced it.
Read(state) ==
    /\ state.token # NoToken
    /\ state.generation <= tokens.generation
    /\ state.generation = tokens.generation =>
         tokens.token # NoToken /\ state.token.session = tokens.token.session

TokensKnown ==
    /\ Known(cache) /\ Known(tokens.token)
    /\ \A r \in Requests :
         Known(held[r].token) /\ Known(rejected[r].token) /\ Known(answer[r])

RequestOK(r) ==
    /\ at[r] = "idle" => held[r] = NoState /\ rejected[r] = NoState
    /\ at[r] # "idle" => Read(held[r])
    /\ rejected[r] # NoState => /\ Read(rejected[r])
                                /\ held[r].token.session = rejected[r].token.session
    /\ at[r] # "answered" => answer[r] = NoToken
    /\ at[r] = "answered" => /\ answer[r] # NoToken
                             /\ answer[r].session = held[r].token.session
                             /\ rejected[r] # NoState =>
                                  answer[r].access # rejected[r].token.access

IInv ==
    /\ TypeOK
    /\ TokensKnown
    /\ \A r \in Requests : RequestOK(r)
    /\ OnlyLastSession
    /\ MemoryIsOnDisk
    /\ signingOut => tokens.token = NoToken
    /\ ReplayInSameSession
    /\ RefreshIsOfCurrentToken

\* What the invariant says of one request in a state where nobody moved but it.
OnlyMoves(r) ==
    \A q \in Requests \ {r} : /\ at'[q] = at[q] /\ held'[q] = held[q]
                              /\ rejected'[q] = rejected[q] /\ answer'[q] = answer[q]

-----------------------------------------------------------------------------
(* The steps of a request.                                                 *)

\* A request that ends leaves nothing of itself but, it may be, a lost answer.
LEMMA EndKeepsIInv ==
    ASSUME IInv, NEW r \in Requests, NEW b \in BOOLEAN, EndsAs(r, b),
           broken' \subseteq Sessions,
           UNCHANGED <<tokenVars, diskVars, googleVars, session, signedOut, signOuts, restarts>>
    PROVE  IInv'
<1> USE DEF EndsAs, Goes, tokenVars, diskVars, googleVars
<1>1. /\ at'[r] = "idle" /\ held'[r] = NoState /\ rejected'[r] = NoState
      /\ answer'[r] = NoToken /\ OnlyMoves(r)
  BY DEF IInv, TypeOK, OnlyMoves
<1>2. NoState \in State /\ NoToken \in Token /\ NoState.token = NoToken
  BY BoundsAssumption DEF NoState, NoToken, State, Token
<1>3. TypeOK'
  BY <1>1, <1>2, NobodyAssumption DEF IInv, TypeOK, OnlyMoves, Places
<1>4. TokensKnown'
  BY <1>1, <1>2 DEF IInv, TokensKnown, Known, OnlyMoves
<1>5. ASSUME NEW q \in Requests
      PROVE  RequestOK(q)'
  <2>1. CASE q = r
    BY <1>1, <2>1 DEF RequestOK
  <2>2. CASE q # r
    BY <1>1, <2>2 DEF IInv, RequestOK, OnlyMoves, Read
  <2> QED
    BY <2>1, <2>2
<1>6. OnlyLastSession' /\ MemoryIsOnDisk' /\ (signingOut => tokens.token = NoToken)'
  BY DEF IInv, OnlyLastSession, MemoryIsOnDisk
<1>7. ReplayInSameSession' /\ RefreshIsOfCurrentToken'
  BY <1>1 DEF IInv, ReplayInSameSession, RefreshIsOfCurrentToken, OnlyMoves
<1> QED
  BY <1>3, <1>4, <1>5, <1>6, <1>7 DEF IInv

\* A request that has looked at the tokens and goes on with what it saw.
LEMMA LookKeepsIInv ==
    ASSUME IInv, NEW r \in Requests, NEW before \in State,
           NEW place \in {"waiting", "refreshing", "sent"},
           Goes(r, place, tokens),
           rejected' = [rejected EXCEPT ![r] = before],
           refresh' = IF place = "refreshing" THEN r ELSE refresh,
           at[r] \notin {"refreshing", "answered"},
           place = "refreshing" => refresh = Nobody,
           before = NoState \/ (Read(before) /\ Known(before.token)),
           ~Refused(before),
           place = "sent" => ~NeedsRefresh(before),
           UNCHANGED <<answer, told, tokenVars, diskVars, googleVars, historyVars>>
    PROVE  IInv'
<1> USE DEF Goes, tokenVars, diskVars, googleVars, historyVars
<1>1. /\ at'[r] = place /\ held'[r] = tokens /\ rejected'[r] = before
      /\ answer'[r] = answer[r] /\ OnlyMoves(r)
  BY DEF IInv, TypeOK, OnlyMoves
<1>2. NoState \in State /\ NoToken \in Token /\ NoState.token = NoToken
  BY BoundsAssumption DEF NoState, NoToken, State, Token
<1>3. TypeOK'
  BY <1>1, <1>2, NobodyAssumption DEF IInv, TypeOK, OnlyMoves, Places
<1>4. TokensKnown'
  BY <1>1, <1>2 DEF IInv, TokensKnown, Known, OnlyMoves
<1>5. tokens.token # NoToken
  BY DEF Refused, NoToken
<1>6. before # NoState => /\ before.generation = tokens.generation
                          /\ before.token.session = tokens.token.session
  BY DEF Refused, Read
<1>7. ASSUME NEW q \in Requests
      PROVE  RequestOK(q)'
  <2>1. CASE q = r
    <3>1. Read(tokens)'
      BY <1>5 DEF Read, IInv, TypeOK, State
    <3>2. before # NoState => Read(before)'
      BY DEF Read
    <3>3. answer[r] = NoToken
      BY DEF IInv, RequestOK
    <3> QED
      BY <1>1, <1>6, <2>1, <3>1, <3>2, <3>3 DEF RequestOK, Read
  <2>2. CASE q # r
    BY <1>1, <2>2 DEF IInv, RequestOK, OnlyMoves, Read
  <2> QED
    BY <2>1, <2>2
<1>8. OnlyLastSession' /\ MemoryIsOnDisk' /\ (signingOut => tokens.token = NoToken)'
  BY DEF IInv, OnlyLastSession, MemoryIsOnDisk
<1>9. ReplayInSameSession'
  BY <1>1, <1>6 DEF IInv, ReplayInSameSession, OnlyMoves, NeedsRefresh
<1>10. RefreshIsOfCurrentToken'
  BY <1>1 DEF IInv, RefreshIsOfCurrentToken, OnlyMoves
<1> QED
  BY <1>3, <1>4, <1>7, <1>8, <1>9, <1>10 DEF IInv

\* A request that gives up after Google answered may lose the new refresh token
\* of its session, and of no other.
LEMMA LostAnswerIsOfASession ==
    ASSUME IInv, NEW r \in Requests, at[r] # "idle", LosesAnswer(r)
    PROVE  broken' \subseteq Sessions
<1>1. held[r].token.session \in Sessions
  BY DEF IInv, TokensKnown, Known, RequestOK, Read
<1> QED
  BY <1>1 DEF LosesAnswer, IInv, TypeOK

\* The look without the mutex, of a new request and of one that got a 401.
LEMMA CheckKeepsIInv ==
    ASSUME IInv, NEW r \in Requests, NEW before \in State, Check(r, before),
           at[r] \notin {"refreshing", "answered"},
           before = NoState \/ (Read(before) /\ Known(before.token)),
           UNCHANGED <<tokenVars, diskVars, googleVars, historyVars>>
    PROVE  IInv'
<1>1. CASE Refused(before) /\ Ends(r)
  <2>1. broken' \subseteq Sessions
    BY DEF historyVars, IInv, TypeOK
  <2> QED
    BY <1>1, <2>1, EndKeepsIInv DEF Ends, historyVars
<1>2. CASE ~Refused(before)
  <2> DEFINE place == IF NeedsRefresh(before) THEN "waiting" ELSE "sent"
  <2>1. ~(Refused(before) /\ Ends(r))
    BY <1>2
  <2>2. Goes(r, place, tokens) /\ rejected' = [rejected EXCEPT ![r] = before]
        /\ UNCHANGED <<refresh, answer, told>>
    BY <2>1 DEF Check
  <2>3. place \in {"waiting", "refreshing", "sent"} /\ place # "refreshing"
        /\ (place = "sent" => ~NeedsRefresh(before))
    OBVIOUS
  <2> HIDE DEF place
  <2> QED
    BY <1>2, <2>2, <2>3, LookKeepsIInv
<1> QED
  BY <1>1, <1>2 DEF Check

\* The look with the mutex.
LEMMA TakeMutexKeepsIInv ==
    ASSUME IInv, NEW r \in Requests, TakeMutex(r)
    PROVE  IInv'
<1> DEFINE before == rejected[r]
<1>1. /\ at[r] = "waiting" /\ refresh = Nobody
      /\ Look(r, tokens, before)
      /\ UNCHANGED <<tokenVars, diskVars, googleVars, historyVars>>
  BY DEF TakeMutex, SecondLook
<1>2. broken' \subseteq Sessions
  BY <1>1 DEF historyVars, IInv, TypeOK
<1>3. /\ before \in State
      /\ before = NoState \/ (Read(before) /\ Known(before.token))
      /\ rejected = [rejected EXCEPT ![r] = before]
  BY DEF IInv, TypeOK, RequestOK, TokensKnown
<1> HIDE DEF before
<1>4. CASE \E b \in BOOLEAN : EndsAs(r, b)
  BY <1>1, <1>2, <1>4, EndKeepsIInv DEF historyVars
<1>5. CASE /\ ~Refused(before) /\ ~NeedsRefresh(before)
           /\ Goes(r, "sent", tokens)
           /\ UNCHANGED <<refresh, rejected, answer, told>>
  BY <1>1, <1>3, <1>5, LookKeepsIInv
<1>6. CASE /\ ~Refused(before)
           /\ Goes(r, "refreshing", tokens)
           /\ refresh' = r
           /\ UNCHANGED <<rejected, answer, told>>
  BY <1>1, <1>3, <1>6, LookKeepsIInv
<1> QED
  BY <1>1, <1>4, <1>5, <1>6 DEF Look, Ends, Reauthenticate

\* Google's answer carries an access token nobody has seen before.
LEMMA ExchangeKeepsIInv ==
    ASSUME IInv, NEW r \in Requests, NEW rotated \in BOOLEAN, Exchange(r, rotated)
    PROVE  IInv'
<1> USE DEF tokenVars, diskVars, historyVars
<1> DEFINE old == held[r].token
           new == [old EXCEPT !.access = issued + 1,
                              !.refresh = IF rotated THEN issued + 1 ELSE @]
<1>1. at[r] = "refreshing" /\ old \in Token /\ old.session \in Sessions /\ Read(held[r])
  BY DEF Exchange, IInv, TypeOK, State, RequestOK, TokensKnown, Known, Read
<1>2. CASE Reauthenticate(r) /\ UNCHANGED <<issued, valid>>
  <2>1. broken' \subseteq Sessions
    BY DEF Exchange, IInv, TypeOK
  <2> QED
    BY <1>2, <2>1, EndKeepsIInv DEF Exchange, Reauthenticate, googleVars
<1>3. CASE /\ issued < MaxAccess
           /\ issued' = issued + 1
           /\ valid' = [valid EXCEPT ![old.session] = new.refresh]
           /\ at' = [at EXCEPT ![r] = "answered"]
           /\ answer' = [answer EXCEPT ![r] = new]
           /\ UNCHANGED <<refresh, held, rejected, told>>
  <2>1. UNCHANGED <<tokens, due, cache, signingOut, session, signedOut, broken, signOuts,
                    restarts>>
    BY DEF Exchange
  <2>2. issued \in Nat /\ issued' \in 1..MaxAccess
    BY <1>3, BoundsAssumption DEF IInv, TypeOK
  <2>3. /\ new \in Token /\ new.session = old.session /\ new.access = issued + 1
        /\ new # NoToken
    <3>1. issued + 1 \in Access /\ issued + 1 # 0
      BY <1>3, <2>2 DEF Access
    <3>2. new \in Token /\ new.session = old.session /\ new.access = issued + 1
      BY <1>1, <3>1 DEF Token
    <3> HIDE DEF new
    <3> QED
      BY <3>1, <3>2 DEF NoToken
  <2> HIDE DEF new
  <2>4. at'[r] = "answered" /\ answer'[r] = new /\ OnlyMoves(r)
    BY <1>3 DEF IInv, TypeOK, OnlyMoves
  <2>5. new.refresh \in Access \cup {0}
    BY <2>3 DEF Token
  <2>6. TypeOK'
    BY <1>1, <1>3, <2>1, <2>2, <2>3, <2>4, <2>5, NobodyAssumption
       DEF IInv, TypeOK, Places, OnlyMoves
  <2>7. issued' = issued + 1 /\ new.session \in Sessions /\ new.access \in 1..issued'
    BY <1>1, <1>3, <2>2, <2>3
  <2>8. \A q \in Requests : answer'[q] = answer[q] \/ answer'[q] = new
    BY <2>4 DEF OnlyMoves
  <2>9. TokensKnown'
    BY <1>3, <2>1, <2>2, <2>7, <2>8 DEF IInv, TokensKnown, Known
  <2>10. ASSUME NEW q \in Requests
         PROVE  RequestOK(q)'
    <3>1. CASE q = r
      <4>1. rejected[r] # NoState => new.access # rejected[r].token.access
        BY <2>2, <2>3 DEF IInv, RequestOK, Read, TokensKnown, Known
      <4> QED
        BY <1>1, <1>3, <2>1, <2>3, <2>4, <3>1, <4>1 DEF IInv, RequestOK, Read
    <3>2. CASE q # r
      BY <1>3, <2>1, <2>4, <3>2 DEF IInv, RequestOK, Read, OnlyMoves
    <3> QED
      BY <3>1, <3>2
  <2>11. OnlyLastSession' /\ MemoryIsOnDisk' /\ (signingOut => tokens.token = NoToken)'
    BY <2>1 DEF IInv, OnlyLastSession, MemoryIsOnDisk
  <2>12. ReplayInSameSession' /\ RefreshIsOfCurrentToken'
    BY <1>1, <1>3, <2>1, <2>4
       DEF IInv, ReplayInSameSession, RefreshIsOfCurrentToken, OnlyMoves
  <2> QED
    BY <2>6, <2>9, <2>10, <2>11, <2>12 DEF IInv
<1> QED
  BY <1>2, <1>3 DEF Exchange

\* An answer that is installed belongs to the session that is installed: its
\* generation says so, and nobody else holds the mutex.
LEMMA InstallKeepsIInv ==
    ASSUME IInv, NEW r \in Requests, NEW saved \in BOOLEAN, Install(r, saved)
    PROVE  IInv'
<1>1. at[r] = "answered" /\ Read(held[r]) /\ RequestOK(r) /\ held[r] \in State
  BY DEF Install, IInv, TypeOK, RequestOK
<1>2. CASE Ends(r) /\ LosesAnswer(r) /\ UNCHANGED <<cache, tokenVars>>
  <2>1. broken' \subseteq Sessions
    BY <1>1, <1>2, LostAnswerIsOfASession
  <2> QED
    BY <1>2, <2>1, EndKeepsIInv DEF Ends, Install, diskVars
<1>3. CASE held[r].generation = tokens.generation /\ saved
  <2>1. /\ cache' = answer[r]
        /\ tokens' = [tokens EXCEPT !.token = answer[r]] /\ due' = FALSE
        /\ at' = [at EXCEPT ![r] = "sent"] /\ held' = [held EXCEPT ![r] = tokens']
        /\ answer' = [answer EXCEPT ![r] = NoToken]
        /\ refresh' = Nobody
        /\ UNCHANGED <<rejected, told, broken, signingOut, issued, valid, session,
                       signedOut, signOuts, restarts>>
    BY <1>3 DEF Install, Goes, googleVars
  <2>2. /\ tokens.token # NoToken /\ held[r].token.session = tokens.token.session
        /\ answer[r] # NoToken /\ answer[r].session = tokens.token.session
        /\ answer[r] \in Token /\ Known(answer[r])
    BY <1>1, <1>3 DEF Read, RequestOK, IInv, TypeOK, TokensKnown
  <2>3. tokens.token.session = session /\ ~signedOut /\ ~signingOut
    BY <2>2 DEF IInv, OnlyLastSession
  <2>4. /\ tokens' \in State /\ tokens'.token = answer[r]
        /\ tokens'.generation = tokens.generation
    BY <2>1, <2>2 DEF IInv, TypeOK, State
  <2>5. /\ at'[r] = "sent" /\ held'[r] = tokens' /\ answer'[r] = NoToken
        /\ rejected'[r] = rejected[r] /\ OnlyMoves(r)
    BY <2>1 DEF IInv, TypeOK, OnlyMoves
  <2>6. \A q \in Requests \ {r} : at[q] \notin {"refreshing", "answered"}
    BY <1>1, NobodyAssumption DEF IInv, TypeOK
  <2>7. NoToken \in Token
    BY DEF NoToken, Token
  <2>8. TypeOK'
    BY <2>1, <2>2, <2>4, <2>5, <2>6, <2>7, NobodyAssumption
       DEF IInv, TypeOK, OnlyMoves, Places
  <2>9. TokensKnown'
    BY <2>1, <2>2, <2>4, <2>5 DEF IInv, TokensKnown, Known, OnlyMoves
  <2>10. ASSUME NEW state \in State, Read(state)
         PROVE  /\ state.generation <= tokens'.generation
                /\ state.generation = tokens'.generation =>
                     tokens'.token # NoToken /\ state.token.session = tokens'.token.session
    BY <2>2, <2>4, <2>10 DEF Read
  <2>11. ASSUME NEW q \in Requests
         PROVE  RequestOK(q)'
    <3>1. rejected[q] \in State /\ held[q] \in State
      BY DEF IInv, TypeOK
    <3>2. rejected[q] # NoState => Read(rejected[q])'
      BY <2>1, <2>10, <3>1 DEF IInv, RequestOK, Read
    <3>3. CASE q = r
      <4>1. Read(tokens)'
        BY <2>2, <2>4 DEF Read, IInv, TypeOK, State
      <4>2. rejected[r] # NoState => answer[r].session = rejected[r].token.session
        BY <1>1 DEF RequestOK
      <4> QED
        BY <2>1, <2>4, <2>5, <3>2, <3>3, <4>1, <4>2 DEF RequestOK, Read
    <3>4. CASE q # r
      <4>1. at[q] # "idle" => Read(held[q])'
        BY <2>5, <2>10, <3>1, <3>4 DEF IInv, RequestOK, Read, OnlyMoves
      <4> QED
        BY <2>1, <2>5, <2>6, <3>2, <3>4, <4>1 DEF IInv, RequestOK, OnlyMoves
    <3> QED
      BY <3>3, <3>4
  <2>12. OnlyLastSession' /\ MemoryIsOnDisk' /\ (signingOut => tokens.token = NoToken)'
    BY <2>1, <2>2, <2>3, <2>4 DEF OnlyLastSession, MemoryIsOnDisk
  <2>13. ReplayInSameSession'
    <3>1. rejected[r] # NoState => /\ answer[r].session = rejected[r].token.session
                                   /\ answer[r].access # rejected[r].token.access
      BY <1>1 DEF RequestOK
    <3>2. rejected[r] # NoState => /\ held'[r].token.session = rejected'[r].token.session
                                   /\ held'[r].token.access # rejected'[r].token.access
      BY <2>4, <2>5, <3>1
    <3> QED
      BY <2>5, <3>2 DEF IInv, ReplayInSameSession, OnlyMoves
  <2>14. RefreshIsOfCurrentToken'
    BY <2>5, <2>6 DEF RefreshIsOfCurrentToken, OnlyMoves
  <2> QED
    BY <2>3, <2>8, <2>9, <2>11, <2>12, <2>13, <2>14 DEF IInv
<1> QED
  BY <1>2, <1>3 DEF Install

\* Every step of a request.
LEMMA RequestKeepsIInv ==
    ASSUME IInv, NEW r \in Requests, Request(r)
    PROVE  IInv'
<1> USE DEF historyVars
<1>1. broken \subseteq Sessions /\ NoState \in State
  BY DEF IInv, TypeOK, NoState, State, NoToken, Token
<1>2. CASE Send(r)
  BY <1>1, <1>2, CheckKeepsIInv DEF Send
<1>3. CASE Served(r)
  BY <1>1, <1>3, EndKeepsIInv DEF Served, Ends
<1>4. CASE Unauthorized(r)
  <2>1. at[r] = "sent" /\ Read(held[r]) /\ Known(held[r].token) /\ held[r] \in State
    BY <1>4 DEF Unauthorized, IInv, TypeOK, RequestOK, TokensKnown
  <2>2. CASE Check(r, held[r])
    BY <1>4, <2>1, <2>2, CheckKeepsIInv DEF Unauthorized
  <2>3. CASE Reauthenticate(r)
    BY <1>1, <1>4, <2>3, EndKeepsIInv DEF Unauthorized, Reauthenticate
  <2> QED
    BY <1>4, <2>2, <2>3 DEF Unauthorized
<1>5. CASE GivesUp(r)
  <2>1. broken' \subseteq Sessions
    BY <1>5, LostAnswerIsOfASession DEF GivesUp
  <2> QED
    BY <1>5, <2>1, EndKeepsIInv DEF GivesUp, Ends
<1> QED
  BY <1>2, <1>3, <1>4, <1>5, TakeMutexKeepsIInv, ExchangeKeepsIInv, InstallKeepsIInv
     DEF Request

-----------------------------------------------------------------------------
(* The daemon and Google.                                                  *)

\* A generation that nobody has read yet is installed: what requests hold is
\* stale, and stays what it was.
LEMMA ReplaceKeepsRequests ==
    ASSUME IInv, NEW r \in Requests,
           tokens'.generation = tokens.generation + 1,
           issued' \in Nat, issued <= issued',
           UNCHANGED requestVars
    PROVE  /\ RequestOK(r)'
           /\ Known(held[r].token)' /\ Known(rejected[r].token)' /\ Known(answer[r])'
           /\ held[r].generation # tokens'.generation \/ at[r] = "idle"
<1> USE DEF requestVars
<1>1. /\ held[r] \in State /\ rejected[r] \in State /\ tokens.generation \in Nat
      /\ issued \in Nat
  BY BoundsAssumption DEF IInv, TypeOK, State
<1>2. ASSUME NEW state \in State, Read(state)
      PROVE  state.token # NoToken /\ state.generation < tokens'.generation
  BY <1>1, <1>2 DEF Read, State
<1>3. \A state \in State : state.generation < tokens'.generation =>
        state.generation <= tokens'.generation /\ state.generation # tokens'.generation
  BY <1>1 DEF State
<1>4. RequestOK(r)'
  BY <1>1, <1>2, <1>3 DEF IInv, RequestOK, Read
<1>5. Known(held[r].token)' /\ Known(rejected[r].token)' /\ Known(answer[r])'
  BY <1>1 DEF IInv, TokensKnown, Known
<1>6. held[r].generation # tokens'.generation \/ at[r] = "idle"
  BY <1>1, <1>2, <1>3 DEF IInv, RequestOK
<1> QED
  BY <1>4, <1>5, <1>6

\* A new session is on disk, in memory and at Google at once.
LEMMA SignInKeepsIInv ==
    ASSUME IInv, SignIn
    PROVE  IInv'
<1> USE DEF diskVars, requestVars
<1> DEFINE token == [session |-> session + 1, access |-> issued + 1, refresh |-> issued + 1]
<1>1. /\ cache' = token /\ tokens' = Replaced(token) /\ due' = FALSE
      /\ valid' = [valid EXCEPT ![session + 1] = issued + 1]
      /\ issued' = issued + 1 /\ session' = session + 1 /\ signedOut' = FALSE
      /\ ~signingOut
      /\ UNCHANGED <<refresh, signingOut, requestVars, broken, signOuts, restarts>>
  BY DEF SignIn
<1>2. /\ session' \in Sessions /\ issued' \in Access /\ issued \in Nat
      /\ issued' \in 0..MaxAccess /\ issued <= issued'
  BY <1>1, BoundsAssumption DEF SignIn, IInv, TypeOK, Sessions, Access
<1>3. /\ token \in Token /\ token.session = session' /\ token.access = issued'
      /\ token # NoToken
  <2>1. token \in Token /\ token.session = session' /\ token.access = issued'
    BY <1>1, <1>2 DEF Token
  <2>2. issued' # 0
    BY <1>2 DEF Access
  <2> QED
    BY <2>1, <2>2 DEF NoToken
<1> HIDE DEF token
<1>4. /\ tokens' \in State /\ tokens'.token = token
      /\ tokens'.generation = tokens.generation + 1
  BY <1>1, <1>3 DEF Replaced, State, IInv, TypeOK
<1>5. TypeOK'
  BY <1>1, <1>2, <1>3, <1>4 DEF IInv, TypeOK
<1>6. \A r \in Requests :
        /\ RequestOK(r)'
        /\ Known(held[r].token)' /\ Known(rejected[r].token)' /\ Known(answer[r])'
        /\ held[r].generation # tokens'.generation \/ at[r] = "idle"
  BY <1>1, <1>2, <1>4, ReplaceKeepsRequests
<1>7. token.session \in Sessions /\ token.access \in 1..issued'
  BY <1>2, <1>3 DEF Access
<1>8. TokensKnown'
  BY <1>1, <1>4, <1>6, <1>7 DEF TokensKnown, Known
<1>9. OnlyLastSession' /\ MemoryIsOnDisk' /\ (signingOut => tokens.token = NoToken)'
  BY <1>1, <1>3, <1>4 DEF OnlyLastSession, MemoryIsOnDisk
<1>10. ReplayInSameSession' /\ RefreshIsOfCurrentToken'
  BY <1>1, <1>6 DEF IInv, ReplayInSameSession, RefreshIsOfCurrentToken
<1> QED
  BY <1>5, <1>6, <1>8, <1>9, <1>10 DEF IInv

\* A sign-out has cleared the memory, and what is under way is stale.
LEMMA SignOutKeepsIInv ==
    ASSUME IInv, SignOut
    PROVE  IInv'
<1> USE DEF requestVars, googleVars
<1>1. /\ signOuts < MaxSignOut /\ signOuts' = signOuts + 1 /\ signingOut' = TRUE
      /\ tokens' = Replaced(NoToken) /\ due' = FALSE
      /\ UNCHANGED <<cache, refresh, requestVars, googleVars, session, signedOut, broken,
                     restarts>>
  BY DEF SignOut
<1>2. signOuts' \in 0..MaxSignOut /\ issued' \in Nat /\ issued <= issued'
  BY <1>1, BoundsAssumption DEF IInv, TypeOK
<1>3. /\ tokens' \in State /\ tokens'.token = NoToken
      /\ tokens'.generation = tokens.generation + 1
  BY <1>1 DEF Replaced, State, IInv, TypeOK, NoToken, Token
<1>4. TypeOK'
  BY <1>1, <1>2, <1>3 DEF IInv, TypeOK
<1>5. \A r \in Requests :
        /\ RequestOK(r)'
        /\ Known(held[r].token)' /\ Known(rejected[r].token)' /\ Known(answer[r])'
        /\ held[r].generation # tokens'.generation \/ at[r] = "idle"
  BY <1>1, <1>2, <1>3, ReplaceKeepsRequests
<1>6. TokensKnown'
  BY <1>1, <1>3, <1>5 DEF IInv, TokensKnown, Known
<1>7. OnlyLastSession' /\ MemoryIsOnDisk' /\ (signingOut => tokens.token = NoToken)'
  BY <1>1, <1>3 DEF IInv, OnlyLastSession, MemoryIsOnDisk
<1>8. ReplayInSameSession' /\ RefreshIsOfCurrentToken'
  BY <1>1, <1>5 DEF IInv, ReplayInSameSession, RefreshIsOfCurrentToken
<1> QED
  BY <1>4, <1>5, <1>6, <1>7, <1>8 DEF IInv

\* The second half of a sign-out finds no token in memory.
LEMMA RemoveCacheKeepsIInv ==
    ASSUME IInv, NEW removed \in BOOLEAN, RemoveCache(removed)
    PROVE  IInv'
<1> USE DEF tokenVars, requestVars, googleVars
<1>1. /\ signingOut /\ tokens.token = NoToken
      /\ cache' = IF removed THEN NoToken ELSE cache
      /\ signedOut' = (removed \/ signedOut)
      /\ signingOut' = FALSE
      /\ UNCHANGED <<tokens, due, refresh, at, held, rejected, answer, told, issued, valid,
                     session, broken, signOuts, restarts>>
  BY DEF RemoveCache, IInv
<1>2. NoToken \in Token
  BY DEF NoToken, Token
<1>3. TypeOK'
  BY <1>1, <1>2 DEF IInv, TypeOK
<1>4. TokensKnown'
  BY <1>1 DEF IInv, TokensKnown, Known
<1>5. \A r \in Requests : RequestOK(r)'
  BY <1>1 DEF IInv, RequestOK, Read
<1>6. OnlyLastSession' /\ MemoryIsOnDisk' /\ (signingOut => tokens.token = NoToken)'
  BY <1>1 DEF IInv, OnlyLastSession, MemoryIsOnDisk
<1>7. ReplayInSameSession' /\ RefreshIsOfCurrentToken'
  BY <1>1 DEF IInv, ReplayInSameSession, RefreshIsOfCurrentToken
<1> QED
  BY <1>3, <1>4, <1>5, <1>6, <1>7 DEF IInv

\* After a restart nothing is under way and memory is what the disk holds.
LEMMA RestartKeepsIInv ==
    ASSUME IInv, NEW readable \in BOOLEAN, Restart(readable)
    PROVE  IInv'
<1> USE DEF googleVars
<1>1. /\ restarts < MaxRestart /\ restarts' = restarts + 1
      /\ tokens' = IF readable /\ cache # NoToken THEN [token |-> cache, generation |-> 1]
                                                  ELSE NoState
      /\ due' = FALSE /\ refresh' = Nobody /\ signingOut' = FALSE
      /\ at' = [r \in Requests |-> "idle"]
      /\ held' = [r \in Requests |-> NoState]
      /\ rejected' = [r \in Requests |-> NoState]
      /\ answer' = [r \in Requests |-> NoToken]
      /\ told' = {}
      /\ UNCHANGED <<cache, issued, valid, session, signedOut, signOuts>>
  BY DEF Restart
<1>2. /\ NoState \in State /\ NoToken \in Token /\ NoState.token = NoToken
      /\ tokens' \in State /\ tokens'.token \in {cache, NoToken}
  BY <1>1 DEF NoState, NoToken, State, Token, IInv, TypeOK
<1>3. broken' \subseteq Sessions
  <2>1. ASSUME NEW r \in Requests, answer[r] # NoToken,
               answer[r].refresh # held[r].token.refresh
        PROVE  held[r].token.session \in Sessions
    BY <2>1 DEF IInv, RequestOK, Read, TokensKnown, Known
  <2> QED
    BY <2>1 DEF Restart, IInv, TypeOK
<1>4. restarts' \in 0..MaxRestart
  BY <1>1, BoundsAssumption DEF IInv, TypeOK
<1>5. TypeOK'
  BY <1>1, <1>2, <1>3, <1>4, NobodyAssumption DEF IInv, TypeOK, Places
<1>6. TokensKnown' /\ \A r \in Requests : RequestOK(r)'
  BY <1>1, <1>2 DEF IInv, TokensKnown, Known, RequestOK
<1>7. OnlyLastSession' /\ MemoryIsOnDisk' /\ (signingOut => tokens.token = NoToken)'
  BY <1>1, <1>2 DEF IInv, OnlyLastSession, MemoryIsOnDisk
<1>8. ReplayInSameSession' /\ RefreshIsOfCurrentToken'
  BY <1>1 DEF ReplayInSameSession, RefreshIsOfCurrentToken
<1> QED
  BY <1>5, <1>6, <1>7, <1>8 DEF IInv

\* What Google and the clock do leaves the tokens as they are.
LEMMA GoogleKeepsIInv ==
    ASSUME IInv, Google
    PROVE  IInv'
<1>1. /\ UNCHANGED <<tokens, refresh, diskVars, requestVars, issued, session, signedOut,
                     signOuts, restarts>>
      /\ due' \in BOOLEAN /\ broken' \subseteq Sessions
      /\ valid' \in [Sessions -> Access \cup {0}]
  BY DEF Google, Expires, Revokes, IInv, TypeOK, tokenVars, googleVars, historyVars
<1> USE <1>1 DEF diskVars, requestVars
<1>2. TypeOK'
  BY DEF IInv, TypeOK
<1>3. TokensKnown' /\ \A r \in Requests : RequestOK(r)'
  BY DEF IInv, TokensKnown, Known, RequestOK, Read
<1>4. OnlyLastSession' /\ MemoryIsOnDisk' /\ (signingOut => tokens.token = NoToken)'
  BY DEF IInv, OnlyLastSession, MemoryIsOnDisk
<1>5. ReplayInSameSession' /\ RefreshIsOfCurrentToken'
  BY DEF IInv, ReplayInSameSession, RefreshIsOfCurrentToken
<1> QED
  BY <1>2, <1>3, <1>4, <1>5 DEF IInv

-----------------------------------------------------------------------------
\* The daemon starts with a session from an earlier run.
LEMMA InitEstablishesIInv ==
    ASSUME Init
    PROVE  IInv
<1> USE DEF Init
<1>1. /\ 0 \in Nat /\ 1 \in Nat /\ 1 \in Sessions /\ 1 \in Access /\ 0..MaxAccess \subseteq Nat
      /\ 1 \in 0..MaxAccess /\ 0 \in 0..MaxSignOut /\ 0 \in 0..MaxRestart
  BY BoundsAssumption DEF Sessions, Access
<1>2. PICK old \in {0, 1} :
        /\ cache = [session |-> 1, access |-> 1, refresh |-> old]
        /\ broken = IF old = 0 THEN {1} ELSE {}
        /\ valid = [s \in Sessions |-> IF s = 1 THEN old ELSE 0]
  OBVIOUS
<1>3. /\ cache \in Token /\ cache.session = 1 /\ cache.access = 1 /\ cache # NoToken
  BY <1>1, <1>2 DEF Token, NoToken
<1>4. /\ NoState \in State /\ NoToken \in Token /\ NoState.token = NoToken
  BY DEF NoState, NoToken, State, Token
<1>5. tokens \in State /\ tokens.token = cache
  BY <1>1, <1>3 DEF State
<1>6. broken \subseteq Sessions /\ valid \in [Sessions -> Access \cup {0}]
  BY <1>1, <1>2
<1>7. TypeOK
  BY <1>1, <1>3, <1>4, <1>5, <1>6, NobodyAssumption DEF TypeOK, Places
<1>8. TokensKnown /\ \A r \in Requests : RequestOK(r)
  BY <1>1, <1>3, <1>4, <1>5 DEF TokensKnown, Known, RequestOK
<1>9. OnlyLastSession /\ MemoryIsOnDisk /\ (signingOut => tokens.token = NoToken)
  BY <1>3, <1>5 DEF OnlyLastSession, MemoryIsOnDisk
<1>10. ReplayInSameSession /\ RefreshIsOfCurrentToken
  BY DEF ReplayInSameSession, RefreshIsOfCurrentToken
<1> QED
  BY <1>7, <1>8, <1>9, <1>10 DEF IInv

\* A step that changes nothing keeps the invariant.
LEMMA StutterKeepsIInv ==
    ASSUME IInv, UNCHANGED vars
    PROVE  IInv'
  BY DEF vars, tokenVars, diskVars, requestVars, googleVars, historyVars, IInv, TypeOK,
         TokensKnown, Known, RequestOK, Read, OnlyLastSession, MemoryIsOnDisk,
         ReplayInSameSession, RefreshIsOfCurrentToken

\* Every step of requests, daemon and Google keeps the invariant.
LEMMA NextKeepsIInv ==
    ASSUME IInv, [Next]_vars
    PROVE  IInv'
<1>1. CASE \E r \in Requests : Request(r)
  BY <1>1, RequestKeepsIInv
<1>2. CASE Daemon
  BY <1>2, SignInKeepsIInv, SignOutKeepsIInv, RemoveCacheKeepsIInv, RestartKeepsIInv
     DEF Daemon
<1>3. CASE Google
  BY <1>3, GoogleKeepsIInv
<1>4. CASE UNCHANGED vars
  BY <1>4, StutterKeepsIInv
<1> QED
  BY <1>1, <1>2, <1>3, <1>4 DEF Next

\* The inductive invariant holds in every state of every behaviour.
THEOREM Invariance == Spec => []IInv
<1>1. Init => IInv
  BY InitEstablishesIInv
<1>2. IInv /\ [Next]_vars => IInv'
  BY NextKeepsIInv
<1> QED
  BY <1>1, <1>2, PTL DEF Spec

-----------------------------------------------------------------------------
(* What the daemon promises about its session.                             *)

\* The session's variables have their types, and the mutex is held by exactly
\* the request that talks to Google about a refresh.
THEOREM TypeCorrect == Spec => []TypeOK
<1>1. IInv => TypeOK
  BY DEF IInv
<1> QED
  BY <1>1, Invariance, PTL

\* No refresh, save or restart brings back a session that was signed out or
\* replaced.
THEOREM LastSessionOnly == Spec => []OnlyLastSession
<1>1. IInv => OnlyLastSession
  BY DEF IInv
<1> QED
  BY <1>1, Invariance, PTL

\* The installed token is the one on disk.
THEOREM PersistedBeforeInstalled == Spec => []MemoryIsOnDisk
<1>1. IInv => MemoryIsOnDisk
  BY DEF IInv
<1> QED
  BY <1>1, Invariance, PTL

\* A replay stays in its session and has a token that was not rejected.
THEOREM ReplaySafe == Spec => []ReplayInSameSession
<1>1. IInv => ReplayInSameSession
  BY DEF IInv
<1> QED
  BY <1>1, Invariance, PTL

\* A refresh under way is one of the installed token.
THEOREM OneSharedRefresh == Spec => []RefreshIsOfCurrentToken
<1>1. IInv => RefreshIsOfCurrentToken
  BY DEF IInv
<1> QED
  BY <1>1, Invariance, PTL
=============================================================================
