---------------------- MODULE Reauthentication_proofs ----------------------
(***************************************************************************)
(* Nobody is asked to sign in again without need: the proof of             *)
(* ReauthenticationIsNeeded.  What the daemon keeps of a session's refresh *)
(* token is what Google accepts, unless the session is broken, or the      *)
(* holder of the refresh mutex has the new one in its hands.               *)
(***************************************************************************)
EXTENDS TokenSession_proofs

\* Google has answered a refresh with this refresh token, and nobody has
\* stored the answer yet.
Pending(token) ==
    \E q \in Requests : /\ at[q] = "answered"
                        /\ held[q].token.session = token.session
                        /\ held[q].token.refresh = token.refresh

CopyAgrees(token) ==
    \/ token = NoToken
    \/ token.session \in broken
    \/ valid[token.session] = token.refresh
    \/ Pending(token)

RequestAgrees(r) ==
    /\ held[r].token.session <= session
    /\ at[r] = "refreshing" => \/ held[r].token.session \in broken
                               \/ valid[held[r].token.session] = held[r].token.refresh
    /\ at[r] = "answered" => \/ held[r].token.session \in broken
                             \/ valid[held[r].token.session] = answer[r].refresh

SessionsAccepted == \A s \in Sessions : s <= session /\ s \notin broken => valid[s] # 0

GoogleAgrees ==
    /\ SessionsAccepted
    /\ CopyAgrees(cache) /\ CopyAgrees(tokens.token)
    /\ \A r \in Requests : RequestAgrees(r)

\* What the property asks of a request that ends.
Needed(r) ==
    \/ broken \cap {held[r].token.session, tokens.token.session} # {}
    \/ at[r] = "sent" /\ rejected[r] \notin {NoState, held[r]}

-----------------------------------------------------------------------------
(* The steps of a request.                                                 *)

\* While one request talks to Google about a refresh, no other one does.
LEMMA MutexExcludes ==
    ASSUME IInv, NEW r \in Requests, at[r] \in {"refreshing", "answered"},
           NEW q \in Requests, at[q] \in {"refreshing", "answered"}
    PROVE  q = r
BY DEF IInv, TypeOK

\* A request that ends may take a refresh token with it: then it has broken
\* the session.
LEMMA EndAgrees ==
    ASSUME IInv, GoogleAgrees, NEW r \in Requests, NEW b \in BOOLEAN, EndsAs(r, b),
           \/ LosesAnswer(r)
           \/ at[r] # "answered" /\ broken' = broken,
           UNCHANGED <<tokenVars, diskVars, googleVars, session>>
    PROVE  GoogleAgrees'
<1> USE DEF EndsAs, Goes, tokenVars, diskVars, googleVars
<1>1. at'[r] = "idle" /\ held'[r] = NoState /\ OnlyMoves(r)
  BY DEF IInv, TypeOK, OnlyMoves
<1>2. broken \subseteq broken'
  BY DEF LosesAnswer
<1>3. ASSUME NEW token, CopyAgrees(token) PROVE CopyAgrees(token)'
  <2>1. ASSUME at[r] = "answered", held[r].token.session = token.session,
               held[r].token.refresh = token.refresh
        PROVE  token.session \in broken' \/ valid[token.session] = token.refresh
    BY <2>1 DEF LosesAnswer, GoogleAgrees, RequestAgrees
  <2>2. ASSUME NEW q \in Requests, q # r, at[q] = "answered",
               held[q].token.session = token.session, held[q].token.refresh = token.refresh
        PROVE  Pending(token)'
    BY <1>1, <2>2 DEF Pending, OnlyMoves
  <2> QED
    BY <1>2, <1>3, <2>1, <2>2 DEF CopyAgrees, Pending
<1>4. ASSUME NEW q \in Requests PROVE RequestAgrees(q)'
  <2>1. CASE q = r
    BY <1>1, <2>1 DEF RequestAgrees, NoState, NoToken, IInv, TypeOK, Sessions
  <2>2. CASE q # r
    BY <1>1, <1>2, <2>2 DEF RequestAgrees, GoogleAgrees, OnlyMoves
  <2> QED
    BY <2>1, <2>2
<1> QED
  BY <1>2, <1>3, <1>4 DEF GoogleAgrees, SessionsAccepted

\* A request that takes the tokens to refresh them has Google's refresh token:
\* nobody else has an answer in its hands.
LEMMA LookAgrees ==
    ASSUME IInv, GoogleAgrees, NEW r \in Requests,
           NEW place \in {"waiting", "refreshing", "sent"}, Goes(r, place, tokens),
           at[r] \notin {"refreshing", "answered"},
           place = "refreshing" => refresh = Nobody,
           ~Refused(NoState),
           UNCHANGED <<answer, tokenVars, diskVars, googleVars, historyVars>>
    PROVE  GoogleAgrees'
<1> USE DEF Goes, tokenVars, diskVars, googleVars, historyVars
<1>2. /\ at'[r] = place /\ held'[r] = tokens
      /\ \A q \in Requests \ {r} : at'[q] = at[q] /\ held'[q] = held[q]
  BY DEF IInv, TypeOK
<1>3. tokens.token # NoToken
  BY DEF Refused, NoToken
<1>4. ASSUME NEW token, CopyAgrees(token) PROVE CopyAgrees(token)'
  <2>1. Pending(token) => Pending(token)'
    BY <1>2 DEF Pending
  <2> QED
    BY <1>4, <2>1 DEF CopyAgrees
<1>5. ASSUME NEW q \in Requests PROVE RequestAgrees(q)'
  <2>1. CASE q = r
    <3>1. tokens.token.session <= session
      BY <1>3 DEF IInv, OnlyLastSession, TypeOK, Sessions
    <3>2. place = "refreshing" => ~Pending(tokens.token)
      BY NobodyAssumption DEF Pending, IInv, TypeOK
    <3>3. place = "refreshing" => \/ tokens.token.session \in broken
                                  \/ valid[tokens.token.session] = tokens.token.refresh
      BY <1>3, <3>2 DEF GoogleAgrees, CopyAgrees
    <3> QED
      BY <1>2, <2>1, <3>1, <3>3 DEF RequestAgrees
  <2>2. CASE q # r
    BY <1>2, <2>2 DEF RequestAgrees, GoogleAgrees
  <2> QED
    BY <2>1, <2>2
<1> QED
  BY <1>4, <1>5 DEF GoogleAgrees, SessionsAccepted

\* The look without the mutex, and the one with it.
LEMMA ChecksAgree ==
    ASSUME IInv, GoogleAgrees, NEW r \in Requests, NEW before \in State,
           at[r] \notin {"refreshing", "answered"},
           UNCHANGED <<tokenVars, diskVars, googleVars, historyVars>>
    PROVE  /\ Check(r, before) => GoogleAgrees'
           /\ refresh = Nobody /\ Look(r, tokens, before) => GoogleAgrees'
<1>1. ASSUME NEW b \in BOOLEAN, EndsAs(r, b) PROVE GoogleAgrees'
  BY <1>1, EndAgrees DEF historyVars
<1>2. ASSUME NEW place \in {"waiting", "refreshing", "sent"}, Goes(r, place, tokens),
             place = "refreshing" => refresh = Nobody, ~Refused(before), UNCHANGED answer
      PROVE  GoogleAgrees'
  BY <1>2, LookAgrees DEF Refused
<1>3. Check(r, before) => GoogleAgrees'
  BY <1>1, <1>2 DEF Check, Ends
<1>4. refresh = Nobody /\ Look(r, tokens, before) => GoogleAgrees'
  BY <1>1, <1>2 DEF Look, Ends, Reauthenticate
<1> QED
  BY <1>3, <1>4

\* Google takes the refresh token, and its successor is in the answer.
LEMMA ExchangeAgrees ==
    ASSUME IInv, GoogleAgrees, NEW r \in Requests, NEW rotated \in BOOLEAN,
           Exchange(r, rotated)
    PROVE  GoogleAgrees'
<1> USE DEF tokenVars, diskVars, historyVars
<1> DEFINE old == held[r].token
           new == [old EXCEPT !.access = issued + 1,
                              !.refresh = IF rotated THEN issued + 1 ELSE @]
<1>1. at[r] = "refreshing" /\ old \in Token /\ old.session \in Sessions
  BY DEF Exchange, IInv, TypeOK, State, RequestOK, TokensKnown, Known, Read
<1>2. CASE Reauthenticate(r) /\ UNCHANGED <<issued, valid>>
  BY <1>1, <1>2, EndAgrees DEF Exchange, Reauthenticate, googleVars
<1>3. CASE /\ valid[old.session] = old.refresh
           /\ issued < MaxAccess
           /\ issued' = issued + 1
           /\ valid' = [valid EXCEPT ![old.session] = new.refresh]
           /\ at' = [at EXCEPT ![r] = "answered"]
           /\ answer' = [answer EXCEPT ![r] = new]
           /\ UNCHANGED <<refresh, held, rejected, told>>
  <2>1. new.refresh = (IF rotated THEN issued + 1 ELSE old.refresh)
    BY <1>1 DEF Token
  <2> HIDE DEF new
  <2>2. /\ at'[r] = "answered" /\ answer'[r] = new /\ OnlyMoves(r)
        /\ valid'[old.session] = new.refresh
        /\ \A s \in Sessions \ {old.session} : valid'[s] = valid[s]
    BY <1>1, <1>3 DEF IInv, TypeOK, OnlyMoves
  <2>3. UNCHANGED <<tokens, cache, session, broken, held>>
    BY <1>3 DEF Exchange
  <2>4. \A q \in Requests \ {r} : at[q] \notin {"refreshing", "answered"}
    BY <1>1, MutexExcludes
  <2>5. ASSUME NEW token, token # NoToken => token.session \in Sessions, CopyAgrees(token)
        PROVE  CopyAgrees(token)'
    <3>1. token = NoToken \/ token.session \in broken \/ valid[token.session] = token.refresh
      BY <1>1, <2>4, <2>5 DEF CopyAgrees, Pending
    <3>2. CASE token # NoToken /\ token.session = old.session /\ token.session \notin broken
      <4>1. Pending(token)'
        BY <1>3, <2>2, <2>3, <3>1, <3>2 DEF Pending
      <4> QED
        BY <4>1 DEF CopyAgrees
    <3>3. CASE token = NoToken \/ token.session # old.session \/ token.session \in broken
      BY <2>2, <2>3, <2>5, <3>1, <3>3 DEF CopyAgrees
    <3> QED
      BY <3>2, <3>3
  <2>6. CopyAgrees(cache)' /\ CopyAgrees(tokens.token)'
    <3>1. \A token \in {cache, tokens.token} : token # NoToken => token.session \in Sessions
      BY DEF IInv, TokensKnown, Known
    <3>2. \A token \in {cache, tokens.token} : CopyAgrees(token) => CopyAgrees(token)'
      BY <2>5, <3>1
    <3>3. CopyAgrees(cache) /\ CopyAgrees(tokens.token)
      BY DEF GoogleAgrees
    <3> QED
      BY <2>3, <3>2, <3>3 DEF CopyAgrees, Pending
  <2>7. \A q \in Requests : RequestAgrees(q)'
    BY <1>1, <2>2, <2>3, <2>4 DEF GoogleAgrees, RequestAgrees, OnlyMoves
  <2>8. SessionsAccepted'
    <3>1. rotated => issued + 1 # 0
      BY BoundsAssumption DEF IInv, TypeOK
    <3>2. old.session <= session /\ (old.session \notin broken => old.refresh # 0)
      BY <1>1, <1>3 DEF GoogleAgrees, SessionsAccepted, RequestAgrees
    <3>3. old.session \notin broken => valid'[old.session] # 0
      BY <2>1, <2>2, <3>1, <3>2
    <3> QED
      BY <2>2, <2>3, <3>3 DEF GoogleAgrees, SessionsAccepted
  <2> QED
    BY <2>6, <2>7, <2>8 DEF GoogleAgrees
<1> QED
  BY <1>2, <1>3 DEF Exchange

\* The answer that is installed has the refresh token Google accepts.
LEMMA InstallAgrees ==
    ASSUME IInv, GoogleAgrees, NEW r \in Requests, NEW saved \in BOOLEAN, Install(r, saved)
    PROVE  GoogleAgrees'
<1>1. CASE Ends(r) /\ LosesAnswer(r) /\ UNCHANGED <<cache, tokenVars>>
  BY <1>1, EndAgrees DEF Ends, Install, diskVars
<1>2. CASE held[r].generation = tokens.generation /\ saved
  <2>1. /\ at[r] = "answered" /\ cache' = answer[r]
        /\ tokens' = [tokens EXCEPT !.token = answer[r]]
        /\ at' = [at EXCEPT ![r] = "sent"] /\ held' = [held EXCEPT ![r] = tokens']
        /\ UNCHANGED <<broken, valid, session>>
    BY <1>2 DEF Install, Goes, googleVars
  <2>2. /\ answer[r].session = held[r].token.session
        /\ held[r].token.session = tokens.token.session /\ tokens.token # NoToken
    BY <1>2, <2>1 DEF IInv, RequestOK, Read
  <2>3. /\ tokens'.token = answer[r] /\ at'[r] = "sent" /\ held'[r] = tokens'
        /\ \A q \in Requests \ {r} : at'[q] = at[q] /\ held'[q] = held[q]
    BY <2>1 DEF IInv, TypeOK, State
  <2>4. CopyAgrees(cache)' /\ CopyAgrees(tokens.token)'
    BY <2>1, <2>2, <2>3 DEF GoogleAgrees, RequestAgrees, CopyAgrees
  <2>5. ASSUME NEW q \in Requests PROVE RequestAgrees(q)'
    <3>1. q # r => at[q] \notin {"refreshing", "answered"}
      BY <2>1, MutexExcludes
    <3> QED
      BY <2>1, <2>2, <2>3, <3>1 DEF GoogleAgrees, RequestAgrees
  <2> QED
    BY <2>1, <2>4, <2>5 DEF GoogleAgrees, SessionsAccepted
<1> QED
  BY <1>1, <1>2 DEF Install

\* Every step of a request.
LEMMA RequestKeepsAgreement ==
    ASSUME IInv, GoogleAgrees, NEW r \in Requests, Request(r)
    PROVE  GoogleAgrees'
<1>1. NoState \in State /\ held[r] \in State /\ rejected[r] \in State
  BY DEF IInv, TypeOK, NoState, State, NoToken, Token
<1>2. CASE Send(r)
  BY <1>1, <1>2, ChecksAgree DEF Send
<1>3. CASE TakeMutex(r)
  BY <1>1, <1>3, ChecksAgree DEF TakeMutex, SecondLook
<1>4. CASE Served(r)
  BY <1>4, EndAgrees DEF Served, Ends, historyVars
<1>5. CASE Unauthorized(r)
  BY <1>1, <1>5, ChecksAgree, EndAgrees DEF Unauthorized, Reauthenticate, historyVars
<1>6. CASE GivesUp(r)
  BY <1>6, EndAgrees DEF GivesUp, Ends
<1> QED
  BY <1>2, <1>3, <1>4, <1>5, <1>6, ExchangeAgrees, InstallAgrees DEF Request

-----------------------------------------------------------------------------
(* The daemon and Google.                                                  *)

\* A new session comes with a refresh token of its own.
LEMMA SignInAgrees ==
    ASSUME IInv, GoogleAgrees, SignIn
    PROVE  GoogleAgrees'
<1> DEFINE token == [session |-> session + 1, access |-> issued + 1, refresh |-> issued + 1]
<1>1. /\ cache' = token /\ tokens'.token = token
      /\ valid' = [valid EXCEPT ![session + 1] = issued + 1]
      /\ session' = session + 1
      /\ UNCHANGED <<at, held, answer, broken>>
  BY DEF SignIn, Replaced, requestVars
<1>2. session \in Nat /\ session + 1 \in Sessions /\ issued + 1 # 0
  BY BoundsAssumption DEF SignIn, IInv, TypeOK, Sessions
<1>3. /\ valid'[session + 1] = issued + 1
      /\ \A s \in Sessions \ {session + 1} : valid'[s] = valid[s]
  BY <1>1, <1>2 DEF IInv, TypeOK
<1>4. SessionsAccepted'
  BY <1>1, <1>2, <1>3 DEF GoogleAgrees, SessionsAccepted, Sessions
<1>5. CopyAgrees(cache)' /\ CopyAgrees(tokens.token)'
  BY <1>1, <1>3 DEF CopyAgrees
<1>6. ASSUME NEW q \in Requests PROVE RequestAgrees(q)'
  <2>1. held[q].token.session <= session /\ held[q].token.session \in Nat
    BY DEF GoogleAgrees, RequestAgrees, IInv, TypeOK, State, Token, Sessions
  <2>2. at[q] # "idle" => held[q].token.session \in Sessions \ {session + 1}
    BY <1>2, <2>1 DEF IInv, RequestOK, Read, TokensKnown, Known
  <2> QED
    BY <1>1, <1>2, <1>3, <2>1, <2>2 DEF GoogleAgrees, RequestAgrees
<1> QED
  BY <1>4, <1>5, <1>6 DEF GoogleAgrees

\* A sign-out only forgets.
LEMMA SignOutAgrees ==
    ASSUME IInv, GoogleAgrees,
           SignOut \/ \E removed \in BOOLEAN : RemoveCache(removed)
    PROVE  GoogleAgrees'
<1>1. /\ UNCHANGED <<at, held, answer, valid, session, broken>>
      /\ cache' \in {cache, NoToken} /\ tokens'.token \in {tokens.token, NoToken}
  BY DEF SignOut, RemoveCache, Replaced, tokenVars, requestVars, googleVars
<1>2. CopyAgrees(NoToken)' /\ \A token : CopyAgrees(token) => CopyAgrees(token)'
  BY <1>1 DEF CopyAgrees, Pending
<1>3. CopyAgrees(cache)' /\ CopyAgrees(tokens.token)'
  BY <1>1, <1>2 DEF GoogleAgrees, CopyAgrees, Pending
<1> QED
  BY <1>1, <1>3 DEF GoogleAgrees, SessionsAccepted, RequestAgrees

\* An answer that a crash loses breaks its session if it had a new refresh
\* token; what the disk holds is good otherwise.
LEMMA RestartAgrees ==
    ASSUME IInv, GoogleAgrees, NEW readable \in BOOLEAN, Restart(readable)
    PROVE  GoogleAgrees'
<1>1. /\ UNCHANGED <<cache, valid, session>> /\ tokens'.token \in {cache, NoToken}
      /\ at' = [r \in Requests |-> "idle"] /\ held' = [r \in Requests |-> NoState]
      /\ broken \subseteq broken'
  BY DEF Restart, googleVars, NoState
<1>2. CopyAgrees(cache)'
  <2>1. ASSUME NEW q \in Requests, at[q] = "answered", held[q].token.session = cache.session,
               held[q].token.refresh = cache.refresh
        PROVE  cache.session \in broken' \/ valid[cache.session] = cache.refresh
    <3>1. answer[q] # NoToken
      BY <2>1 DEF IInv, RequestOK
    <3>2. CASE answer[q].refresh # held[q].token.refresh
      BY <2>1, <3>1, <3>2 DEF Restart
    <3>3. CASE answer[q].refresh = held[q].token.refresh
      BY <1>1, <2>1, <3>3 DEF GoogleAgrees, RequestAgrees
    <3> QED
      BY <3>2, <3>3
  <2> QED
    BY <1>1, <2>1 DEF GoogleAgrees, CopyAgrees, Pending
<1>3. CopyAgrees(tokens.token)'
  BY <1>1, <1>2 DEF CopyAgrees, Pending
<1>4. \A q \in Requests : RequestAgrees(q)'
  BY <1>1 DEF RequestAgrees, NoState, NoToken, IInv, TypeOK, Sessions
<1> QED
  BY <1>1, <1>2, <1>3, <1>4 DEF GoogleAgrees, SessionsAccepted

\* A session whose consent is withdrawn is broken.
LEMMA GoogleKeepsAgreement ==
    ASSUME IInv, GoogleAgrees, Google
    PROVE  GoogleAgrees'
<1>1. UNCHANGED <<tokens, cache, at, held, answer, session>> /\ broken \subseteq broken'
  BY DEF Google, Expires, Revokes, tokenVars, diskVars, requestVars, historyVars
<1>2. \A s \in Sessions : s \in broken' \/ valid'[s] = valid[s]
  BY DEF Google, Expires, Revokes, googleVars, IInv, TypeOK
<1>3. \A token \in {cache, tokens.token} : token # NoToken => token.session \in Sessions
  BY DEF IInv, TokensKnown, Known
<1>4. CopyAgrees(cache)' /\ CopyAgrees(tokens.token)'
  BY <1>1, <1>2, <1>3 DEF GoogleAgrees, CopyAgrees, Pending
<1>5. ASSUME NEW q \in Requests PROVE RequestAgrees(q)'
  <2>1. at[q] # "idle" => held[q].token.session \in Sessions
    BY DEF IInv, RequestOK, Read, TokensKnown, Known
  <2> QED
    BY <1>1, <1>2, <2>1 DEF GoogleAgrees, RequestAgrees
<1> QED
  BY <1>1, <1>2, <1>4, <1>5 DEF GoogleAgrees, SessionsAccepted

-----------------------------------------------------------------------------
\* The daemon starts with a session whose refresh token Google accepts, or
\* with one that never had any.
LEMMA InitAgrees ==
    ASSUME Init
    PROVE  GoogleAgrees
<1> USE DEF Init
<1>1. 1 \in Sessions
  BY BoundsAssumption DEF Sessions
<1>2. PICK old \in {0, 1} :
        /\ cache = [session |-> 1, access |-> 1, refresh |-> old]
        /\ broken = IF old = 0 THEN {1} ELSE {}
        /\ valid = [s \in Sessions |-> IF s = 1 THEN old ELSE 0]
  OBVIOUS
<1>3. CopyAgrees(cache) /\ CopyAgrees(tokens.token)
  BY <1>1, <1>2 DEF CopyAgrees
<1>4. SessionsAccepted
  BY <1>1, <1>2 DEF SessionsAccepted, Sessions
<1>5. ASSUME NEW r \in Requests PROVE RequestAgrees(r)
  <2>1. at[r] = "idle" /\ held[r].token.session = 0 /\ session = 1
    BY DEF NoState, NoToken
  <2> QED
    BY <2>1 DEF RequestAgrees
<1> QED
  BY <1>3, <1>4, <1>5 DEF GoogleAgrees

\* Every step of requests, daemon and Google keeps the agreement.
LEMMA NextKeepsAgreement ==
    ASSUME IInv, GoogleAgrees, [Next]_vars
    PROVE  GoogleAgrees'
<1>1. CASE \E r \in Requests : Request(r)
  BY <1>1, RequestKeepsAgreement
<1>2. CASE Daemon
  BY <1>2, SignInAgrees, SignOutAgrees, RestartAgrees DEF Daemon
<1>3. CASE Google
  BY <1>3, GoogleKeepsAgreement
<1>4. CASE UNCHANGED vars
  BY <1>4 DEF vars, tokenVars, diskVars, requestVars, googleVars, historyVars, GoogleAgrees,
     SessionsAccepted, CopyAgrees, Pending, RequestAgrees
<1> QED
  BY <1>1, <1>2, <1>3, <1>4 DEF Next

\* What the daemon keeps of a session is what Google accepts, as far as the
\* session is not broken.
THEOREM Agreement == Spec => []GoogleAgrees
<1>1. Init => GoogleAgrees
  BY InitAgrees
<1>2. IInv /\ GoogleAgrees /\ [Next]_vars => GoogleAgrees'
  BY NextKeepsAgreement
<1> QED
  BY <1>1, <1>2, Invariance, PTL DEF Spec

-----------------------------------------------------------------------------
\* A step that leaves a request at "reauthenticate" had to.
LEMMA StepIsNeeded ==
    ASSUME IInv, GoogleAgrees, [Next]_vars, NEW r \in Requests,
           at[r] # "idle", at'[r] = "idle", r \in told'
    PROVE  Needed(r)
<1>1. PICK q \in Requests : Request(q)
  BY DEF Next, Daemon, SignIn, SignOut, RemoveCache, Restart, Google, Expires, Revokes, vars,
     requestVars
<1>2. q = r
  <2> SUFFICES ASSUME q # r PROVE at'[r] = at[r]
    OBVIOUS
  <2> QED
    BY <1>1 DEF Request, Send, Check, TakeMutex, SecondLook, Look, Exchange, Install, Served,
       Unauthorized, GivesUp, Ends, Reauthenticate, EndsAs, Goes, IInv, TypeOK
<1>3. ~EndsAs(r, FALSE)
  BY DEF EndsAs
<1>4. CASE TakeMutex(r)
  <2>1. /\ refresh = Nobody
        /\ Look(r, tokens, rejected[r])
        /\ \A place \in Places \ {"idle"} : ~Goes(r, place, tokens)
    BY <1>4 DEF TakeMutex, SecondLook, Goes, IInv, TypeOK
  <2>2. ~Refused(rejected[r]) /\ tokens.token.refresh = 0
    BY <1>3, <2>1 DEF Look, Ends, Places
  <2>3. tokens.token # NoToken
    BY <2>2 DEF Refused, NoToken
  <2>4. ~Pending(tokens.token)
    BY <2>1, NobodyAssumption DEF Pending, IInv, TypeOK
  <2>5. tokens.token.session = session /\ session \in Sessions
    BY <2>3 DEF IInv, OnlyLastSession, TypeOK
  <2>6. session \notin broken => valid[session] # 0
    BY <2>5 DEF GoogleAgrees, SessionsAccepted, Sessions
  <2> QED
    BY <2>2, <2>3, <2>4, <2>5, <2>6 DEF GoogleAgrees, CopyAgrees, Needed
<1>5. CASE \E rotated \in BOOLEAN : Exchange(r, rotated)
  <2>1. at[r] = "refreshing" /\ valid[held[r].token.session] # held[r].token.refresh
    BY <1>5 DEF Exchange, IInv, TypeOK
  <2> QED
    BY <2>1 DEF GoogleAgrees, RequestAgrees, Needed
<1>6. CASE Unauthorized(r)
  <2>1. at[r] = "sent" /\ rejected[r] # NoState
    BY <1>3, <1>6 DEF Unauthorized, Check, Ends, Goes, IInv, TypeOK
  <2>2. held[r].token.access # rejected[r].token.access
    BY <2>1 DEF IInv, ReplayInSameSession
  <2> QED
    BY <2>1, <2>2 DEF Needed
<1>7. CASE Send(r) \/ (\E saved \in BOOLEAN : Install(r, saved)) \/ Served(r) \/ GivesUp(r)
  BY <1>3, <1>7 DEF Send, Check, Install, Served, GivesUp, Ends, Goes, IInv, TypeOK
<1> QED
  BY <1>1, <1>2, <1>4, <1>5, <1>6, <1>7 DEF Request

\* The user is asked to sign in again only when there is no other way.
THEOREM AskedOnlyWhenNeeded == Spec => ReauthenticationIsNeeded
<1> DEFINE Justified ==
      \A r \in Requests :
         /\ at[r] # "idle" /\ at'[r] = "idle"
         /\ r \in told'
         => \/ broken \cap {held[r].token.session, tokens.token.session} # {}
            \/ at[r] = "sent" /\ rejected[r] \notin {NoState, held[r]}
<1>1. IInv /\ GoogleAgrees /\ [Next]_vars => Justified
  BY StepIsNeeded DEF Needed
<1> HIDE DEF Justified
<1>2. IInv /\ GoogleAgrees /\ [Next]_vars => [Justified]_vars
  BY <1>1
<1>3. Spec => [][Justified]_vars
  BY <1>2, Invariance, Agreement, PTL DEF Spec
<1> QED
  BY <1>3 DEF ReauthenticationIsNeeded, Justified
=============================================================================
