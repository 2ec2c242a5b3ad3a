---------------------------- MODULE TokenSession ----------------------------
(***************************************************************************)
(* The OAuth session of the daemon: the token state shared by all Drive    *)
(* requests and its refresh (gdrive-sync/drive_client.rs), the token cache *)
(* on disk (gdrive-sync/auth.rs), and what a sign-in, a sign-out and a     *)
(* restart of the daemon do to both (gdrived/dbus_service.rs, main.rs).    *)
(*                                                                         *)
(* A request reads the tokens under a short read lock, waits for the       *)
(* refresh mutex and for Google across awaits, and writes the answer under *)
(* the write lock: each of these is an action.  A sign-out changes memory  *)
(* first and the disk later.  An access token is the number of the answer  *)
(* that issued it, a refresh token the number of the answer it came with.  *)
(***************************************************************************)
EXTENDS Naturals

CONSTANTS
    Requests,     \* requests that may be under way at once
    MaxAccess,    \* bound of the model: access tokens Google ever issues
    MaxSession,   \* bound of the model: sign-ins
    MaxSignOut,   \* bound of the model: sign-outs
    MaxRestart,   \* bound of the model: restarts of the daemon
    Nobody        \* holder of the refresh mutex when it is free

ASSUME BoundsAssumption ==
    /\ MaxAccess \in Nat \ {0} /\ MaxSession \in Nat \ {0}
    /\ MaxSignOut \in Nat /\ MaxRestart \in Nat
ASSUME NobodyAssumption == Nobody \notin Requests

VARIABLES
    tokens,        \* DriveClient.tokens: the token and its generation
    due,           \* the expires_at of that token is at most 30 seconds away
    refresh,       \* DriveClient.refresh: the request that holds the mutex
    cache,         \* the token file, NoToken when there is none
    signingOut,    \* a sign-out has cleared the memory, not yet the disk
    at,            \* of each request: where send() is
    held,          \* of each request: the state it read last
    rejected,      \* of each request: the state whose token got a 401
    answer,        \* of each request: what Google answered to its refresh
    told,          \* the requests that ended with ReauthenticationRequired
    issued,        \* Google: number of access tokens issued
    valid,         \* Google: the refresh token each session accepts, 0 for none
    session,       \* history: number of the last sign-in that was saved
    signedOut,     \* history: the last sign-out came after the last sign-in
    broken,        \* history: sessions whose refresh token got lost or revoked
    signOuts,      \* number of sign-outs
    restarts       \* number of restarts

tokenVars   == <<tokens, due>>
diskVars    == <<cache, signingOut>>
requestVars == <<at, held, rejected, answer, told>>
googleVars  == <<issued, valid>>
historyVars == <<session, signedOut, broken, signOuts, restarts>>
vars == <<tokenVars, refresh, diskVars, requestVars, googleVars, historyVars>>

Sessions == 1..MaxSession
Access   == 1..MaxAccess

\* StoredToken
Token   == [session : Sessions \cup {0}, access : Access \cup {0}, refresh : Access \cup {0}]
NoToken == [session |-> 0, access |-> 0, refresh |-> 0]

\* TokenState; its path is there exactly when its access token is.
State   == [token : Token, generation : Nat]
NoState == [token |-> NoToken, generation |-> 0]

\* TokenState::replace
Replaced(token) == [token |-> token, generation |-> tokens.generation + 1]

Places  == {"idle", "waiting", "refreshing", "answered", "sent"}

Init ==
    /\ \E r \in {0, 1} :
         /\ cache = [session |-> 1, access |-> 1, refresh |-> r]
         /\ broken = IF r = 0 THEN {1} ELSE {}
         /\ valid = [s \in Sessions |-> IF s = 1 THEN r ELSE 0]
    /\ tokens = [token |-> cache, generation |-> 1]
    /\ due = FALSE
    /\ refresh = Nobody
    /\ signingOut = FALSE
    /\ at = [r \in Requests |-> "idle"]
    /\ held = [r \in Requests |-> NoState]
    /\ rejected = [r \in Requests |-> NoState]
    /\ answer = [r \in Requests |-> NoToken]
    /\ told = {}
    /\ issued = 1
    /\ session = 1
    /\ signedOut = FALSE
    /\ signOuts = 0
    /\ restarts = 0

-----------------------------------------------------------------------------
(* send() and refresh_if_needed().                                         *)

Goes(r, place, state) ==
    /\ at' = [at EXCEPT ![r] = place]
    /\ held' = [held EXCEPT ![r] = state]

\* send() returns: its guard, if it has one, is dropped.
EndsWithMutex(r, reauthenticate) ==
    /\ Goes(r, "idle", NoState)
    /\ rejected' = [rejected EXCEPT ![r] = NoState]
    /\ answer' = [answer EXCEPT ![r] = NoToken]
    /\ told' = IF reauthenticate THEN told \cup {r} ELSE told \ {r}
    /\ UNCHANGED refresh

EndsAs(r, reauthenticate) ==
    /\ Goes(r, "idle", NoState)
    /\ rejected' = [rejected EXCEPT ![r] = NoState]
    /\ answer' = [answer EXCEPT ![r] = NoToken]
    /\ told' = IF reauthenticate THEN told \cup {r} ELSE told \ {r}
    /\ refresh' = IF refresh = r THEN Nobody ELSE refresh

Ends(r) == EndsAs(r, FALSE)
Reauthenticate(r) == EndsAs(r, TRUE)

Refused(before) ==
    \/ tokens.token.access = 0
    \/ before # NoState /\ before.generation # tokens.generation

NeedsRefresh(before) ==
    \/ due
    \/ before # NoState /\ before.token.access = tokens.token.access

\* The first look at the tokens, without the refresh mutex; `before` is the
\* state a 401 was answered to.
Check(r, before) ==
    \/ /\ Refused(before)
       /\ Ends(r)
    \/ /\ ~Refused(before)
       /\ Goes(r, IF NeedsRefresh(before) THEN "waiting" ELSE "sent", tokens)
       /\ rejected' = [rejected EXCEPT ![r] = before]
       /\ UNCHANGED <<refresh, answer, told>>

Send(r) ==
    /\ at[r] = "idle"
    /\ Check(r, NoState)
    /\ UNCHANGED <<tokenVars, diskVars, googleVars, historyVars>>

\* With the mutex the tokens are looked at again: somebody else may have
\* refreshed them, or the session may be over.
Look(r, state, before) ==
    \/ /\ Refused(before)
       /\ Ends(r)
    \/ /\ ~Refused(before) /\ ~NeedsRefresh(before)
       /\ Goes(r, "sent", state)
       /\ UNCHANGED <<refresh, rejected, answer, told>>
    \/ /\ ~Refused(before) /\ NeedsRefresh(before)
       /\ state.token.refresh = 0
       /\ Reauthenticate(r)
    \/ /\ ~Refused(before) /\ NeedsRefresh(before)
       /\ state.token.refresh # 0
       /\ Goes(r, "refreshing", state)
       /\ refresh' = r
       /\ UNCHANGED <<rejected, answer, told>>

LookAtFirstSnapshot(r, state, before) ==
    IF held[r].token.refresh = 0
    THEN Reauthenticate(r)
    ELSE /\ Goes(r, "refreshing", held[r])
         /\ refresh' = r
         /\ UNCHANGED <<rejected, answer, told>>

LookWithoutRejection(r, state, before) == Look(r, state, NoState)

SecondLook(r, state, before) == Look(r, state, before)

TakeMutex(r) ==
    /\ at[r] = "waiting" /\ refresh = Nobody
    /\ SecondLook(r, tokens, rejected[r])
    /\ UNCHANGED <<tokenVars, diskVars, googleVars, historyVars>>

\* Google serves the refresh, and may replace the refresh token with it; an
\* answer without a refresh token keeps the previous one.
Exchange(r, rotated) ==
    LET old == held[r].token
        new == [old EXCEPT !.access = issued + 1,
                           !.refresh = IF rotated THEN issued + 1 ELSE @]
    IN  /\ at[r] = "refreshing"
        /\ \/ /\ valid[old.session] = old.refresh
              /\ issued < MaxAccess
              /\ issued' = issued + 1
              /\ valid' = [valid EXCEPT ![old.session] = new.refresh]
              /\ at' = [at EXCEPT ![r] = "answered"]
              /\ answer' = [answer EXCEPT ![r] = new]
              /\ UNCHANGED <<refresh, held, rejected, told>>
           \/ /\ valid[old.session] # old.refresh
              /\ ~rotated
              /\ Reauthenticate(r)
              /\ UNCHANGED <<issued, valid>>
        /\ UNCHANGED <<tokenVars, diskVars, historyVars>>

\* Google has replaced the refresh token, and nobody will ever store the new one.
LosesAnswer(r) ==
    broken' = IF answer[r].refresh # held[r].token.refresh /\ at[r] = "answered"
              THEN broken \cup {held[r].token.session} ELSE broken

\* Under the write lock: a session that has been replaced wins; else the token
\* is written to disk, and only then installed.
InstallInAnySession(r, saved) ==
    /\ at[r] = "answered"
    /\ IF saved
       THEN /\ cache' = answer[r]
            /\ tokens' = [tokens EXCEPT !.token = answer[r]] /\ due' = FALSE
            /\ Goes(r, "sent", tokens')
            /\ refresh' = Nobody
            /\ UNCHANGED <<rejected, answer, told, broken>>
       ELSE /\ Ends(r)
            /\ LosesAnswer(r)
            /\ UNCHANGED <<cache, tokenVars>>
    /\ UNCHANGED <<signingOut, googleVars, session, signedOut, signOuts, restarts>>

InstallEvenIfNotSaved(r, saved) ==
    /\ at[r] = "answered"
    /\ IF held[r].generation # tokens.generation
       THEN /\ Ends(r)
            /\ LosesAnswer(r)
            /\ UNCHANGED <<cache, tokenVars>>
       ELSE /\ cache' = IF saved THEN answer[r] ELSE cache
            /\ tokens' = [tokens EXCEPT !.token = answer[r]] /\ due' = FALSE
            /\ Goes(r, "sent", tokens')
            /\ refresh' = Nobody
            /\ UNCHANGED <<rejected, answer, told, broken>>
    /\ UNCHANGED <<signingOut, googleVars, session, signedOut, signOuts, restarts>>

Install(r, saved) ==
    /\ at[r] = "answered"
    /\ IF held[r].generation = tokens.generation /\ saved
       THEN /\ cache' = answer[r]
            /\ tokens' = [tokens EXCEPT !.token = answer[r]] /\ due' = FALSE
            /\ Goes(r, "sent", tokens')
            /\ answer' = [answer EXCEPT ![r] = NoToken]
            /\ refresh' = Nobody
            /\ UNCHANGED <<rejected, told, broken>>
       ELSE /\ Ends(r)
            /\ LosesAnswer(r)
            /\ UNCHANGED <<cache, tokenVars>>
    /\ UNCHANGED <<signingOut, googleVars, session, signedOut, signOuts, restarts>>

Served(r) ==
    /\ at[r] = "sent"
    /\ Ends(r)
    /\ UNCHANGED <<tokenVars, diskVars, googleVars, historyVars>>

\* Google may stop accepting an access token at any time.  A 401 is followed by
\* at most one refresh and replay; check_status answers to the second one.
Unauthorized(r) ==
    /\ at[r] = "sent"
    /\ IF rejected[r] = NoState THEN Check(r, held[r]) ELSE Reauthenticate(r)
    /\ UNCHANGED <<tokenVars, diskVars, googleVars, historyVars>>

\* The deadline of the refresh or of the request passes, the connection
\* breaks, or the caller is aborted at an await.
GivesUp(r) ==
    /\ at[r] # "idle"
    /\ Ends(r)
    /\ LosesAnswer(r)
    /\ UNCHANGED <<tokenVars, diskVars, googleVars, session, signedOut, signOuts, restarts>>

-----------------------------------------------------------------------------
(* The daemon; sign-in and sign-out hold the service's state mutex.        *)

\* complete_sign_in: save_token() writes the disk and replaces the session
\* under the write lock.  When the file cannot be written nothing changes.
SignIn ==
    /\ ~signingOut
    /\ session < MaxSession /\ issued < MaxAccess
    /\ LET token == [session |-> session + 1, access |-> issued + 1, refresh |-> issued + 1]
       IN  /\ cache' = token
           /\ tokens' = Replaced(token) /\ due' = FALSE
           /\ valid' = [valid EXCEPT ![session + 1] = issued + 1]
    /\ issued' = issued + 1
    /\ session' = session + 1
    /\ signedOut' = FALSE
    /\ UNCHANGED <<refresh, signingOut, requestVars, broken, signOuts, restarts>>

\* sign_out: set_access_token(""), and then the file is removed or cannot be.
SignOut ==
    /\ ~signingOut
    /\ signOuts < MaxSignOut
    /\ signOuts' = signOuts + 1
    /\ signingOut' = TRUE
    /\ tokens' = Replaced(NoToken) /\ due' = FALSE
    /\ UNCHANGED <<cache, refresh, requestVars, googleVars, session, signedOut, broken,
                   restarts>>

RemoveCache(removed) ==
    /\ signingOut
    /\ signingOut' = FALSE
    /\ cache' = IF removed THEN NoToken ELSE cache
    /\ signedOut' = (removed \/ signedOut)
    /\ UNCHANGED <<tokenVars, refresh, requestVars, googleVars, session, broken, signOuts,
                   restarts>>

\* The daemon dies and is started again: main() restores what the file holds,
\* and goes on as signed out when it cannot be read.
Restart(readable) ==
    /\ restarts < MaxRestart
    /\ restarts' = restarts + 1
    /\ tokens' = IF readable /\ cache # NoToken THEN [token |-> cache, generation |-> 1]
                                                ELSE NoState
    /\ due' = FALSE
    /\ refresh' = Nobody
    /\ signingOut' = FALSE
    /\ at' = [r \in Requests |-> "idle"]
    /\ held' = [r \in Requests |-> NoState]
    /\ rejected' = [r \in Requests |-> NoState]
    /\ answer' = [r \in Requests |-> NoToken]
    /\ told' = {}
    /\ broken' = broken \cup {held[r].token.session : r \in
                     {q \in Requests : answer[q] # NoToken
                                       /\ answer[q].refresh # held[q].token.refresh}}
    /\ UNCHANGED <<cache, googleVars, session, signedOut, signOuts>>

-----------------------------------------------------------------------------
(* Google and the clock.                                                   *)

Expires ==
    /\ tokens.token # NoToken
    /\ due' = TRUE
    /\ UNCHANGED <<tokens, refresh, diskVars, requestVars, googleVars, historyVars>>

\* The user withdraws the consent of a session at Google.
Revokes(s) ==
    /\ valid[s] # 0
    /\ valid' = [valid EXCEPT ![s] = 0]
    /\ broken' = broken \cup {s}
    /\ UNCHANGED <<tokenVars, refresh, diskVars, requestVars, issued, session, signedOut,
                   signOuts, restarts>>

-----------------------------------------------------------------------------
Request(r) ==
    \/ Send(r) \/ TakeMutex(r)
    \/ \E rotated \in BOOLEAN : Exchange(r, rotated)
    \/ \E saved \in BOOLEAN : Install(r, saved)
    \/ Served(r) \/ Unauthorized(r) \/ GivesUp(r)

Daemon == SignIn \/ SignOut \/ (\E done \in BOOLEAN : RemoveCache(done) \/ Restart(done))

Google == Expires \/ \E s \in Sessions : Revokes(s)

Next == (\E r \in Requests : Request(r)) \/ Daemon \/ Google

Spec == Init /\ [][Next]_vars

-----------------------------------------------------------------------------
\* The types; the mutex is held by the request that talks to Google.
TypeOK ==
    /\ tokens \in State /\ cache \in Token
    /\ refresh \in Requests \cup {Nobody}
    /\ \A r \in Requests : refresh = r <=> at[r] \in {"refreshing", "answered"}
    /\ signingOut \in BOOLEAN /\ signedOut \in BOOLEAN
    /\ at \in [Requests -> Places]
    /\ held \in [Requests -> State]
    /\ rejected \in [Requests -> State]
    /\ answer \in [Requests -> Token]
    /\ told \subseteq Requests
    /\ issued \in 0..MaxAccess
    /\ valid \in [Sessions -> Access \cup {0}]
    /\ due \in BOOLEAN
    /\ session \in Sessions
    /\ broken \subseteq Sessions
    /\ signOuts \in 0..MaxSignOut /\ restarts \in 0..MaxRestart

\* "A sign-out or newer sign-in invalidates in-flight refreshes so they cannot
\* overwrite or recreate the token cache" (gdrive-sync/README.md): on disk and
\* in memory there is the session of the last sign-in, and after a sign-out
\* that succeeded there is none, restarts included (refresh_if_needed).
OnlyLastSession ==
    \A token \in {cache, tokens.token} \ {NoToken} : token.session = session /\ ~signedOut

\* "tokens are persisted before installation": whatever the requests use is
\* what a restart would find, so a crash loses no refresh (save_token).
MemoryIsOnDisk == tokens.token # NoToken => cache = tokens.token

\* A replay after a 401 belongs to the session the first attempt belonged to,
\* and never repeats the token that was rejected (refresh_if_needed).
ReplayInSameSession ==
    \A r \in Requests : at[r] = "sent" /\ rejected[r] # NoState =>
        /\ held[r].token.session = rejected[r].token.session
        /\ held[r].token.access # rejected[r].token.access

\* "Concurrent operations share one refresh": a refresh that is under way is
\* one of the token that is installed, unless the session has been replaced.
RefreshIsOfCurrentToken ==
    \A r \in Requests :
        /\ at[r] \in {"refreshing", "answered"}
        /\ held[r].generation = tokens.generation
        => held[r].token = tokens.token

\* The user is asked to sign in again only when there is no other way: Google
\* has revoked the session, or replaced its refresh token by one that was lost
\* with a failed save, a deadline, an abort or a crash, or has rejected two
\* different tokens of the session in a row (refresh_if_needed, check_status).
ReauthenticationIsNeeded ==
    [][\A r \in Requests :
         /\ at[r] # "idle" /\ at'[r] = "idle"
         /\ r \in told'
         => \/ broken \cap {held[r].token.session, tokens.token.session} # {}
            \/ at[r] = "sent" /\ rejected[r] \notin {NoState, held[r]}]_vars
=============================================================================
