---------------------------- MODULE MobileClient ----------------------------
(***************************************************************************)
(* The API client of the mobile app: services/api/client.js, storage/      *)
(* secureStore.js and context/AuthContext.js of mobile/src.  Unlike the    *)
(* web client it keeps both tokens in SecureStore, which is read and       *)
(* written asynchronously, one key at a time: callbacks of other calls run *)
(* in between, and the system may kill the app there.  The server is       *)
(* TokenServer, and its answers may be lost.                               *)
(*                                                                         *)
(* An access token is named by the refresh token that came with it.        *)
(***************************************************************************)
EXTENDS Integers

CONSTANTS Users, Calls,
          MaxTokens,    \* bound of the number of tokens ever issued
          Lossy,        \* whether requests and answers may be lost
          MaxKills,     \* bound of the number of times the app is killed
          NoToken, NoCall

VARIABLES issued, live, \* TokenServer
          stale,        \* the access tokens that have expired
          stored,       \* SecureStore: the access and the refresh token
          access,       \* accessToken of client.js
          app,          \* isBootstrapping and isAuthenticated of AuthContext
          promise,      \* refreshPromise: the call that posted the pending refresh
          call,         \* what each API call is doing
          post,         \* the refresh request each call has posted
          kills         \* how often the app was killed

server == <<issued, live>>
clientVars == <<issued, live, stale, stored, access, app, promise, call, post, kills>>

Server == INSTANCE TokenServer

Held == Server!Token \cup {NoToken}

ASSUME MobileClientAssumption ==
    MaxTokens \in Nat /\ MaxKills \in Nat /\ NoToken \notin Server!Token /\ NoCall \notin Calls

Call == [pc : {"idle", "load", "loaded", "sent", "expired", "waiting",
               "save.access", "save.refresh", "forget", "answered", "signout"},
         kind : {"screen", "me", "login", "logout"},
         arg : Held \cup Users,         \* who logs in, or the token to log out
         bearer : Held,                 \* the Authorization header
         retried : BOOLEAN,             \* config._retried
         awaits : Calls \cup {NoCall},  \* whose refresh it waits for
         got : Held,                    \* the token read, or to be saved
         ok : BOOLEAN]                  \* it was answered without an error

Post == [state : {"none", "sent", "done", "failed"}, token : Held, got : Held]

ClientTypeOK ==
    /\ issued \subseteq Server!Token /\ live \subseteq issued /\ stale \subseteq issued
    /\ stored \in [{"access", "refresh"} -> issued \cup {NoToken}]
    /\ access \in issued \cup {NoToken}
    /\ app \in {"closed", "booting", "signedOut", "signedIn"}
    /\ promise \in Calls \cup {NoCall}
    /\ call \in [Calls -> Call]
    /\ post \in [Calls -> Post]
    /\ \A c \in Calls : call[c].pc = "waiting" => call[c].awaits \in Calls
    /\ kills \in 0 .. MaxKills

Idle == [pc |-> "idle", kind |-> "screen", arg |-> NoToken, bearer |-> NoToken,
         retried |-> FALSE, awaits |-> NoCall, got |-> NoToken, ok |-> FALSE]
NoPost == [state |-> "none", token |-> NoToken, got |-> NoToken]

NothingStored == [key \in {"access", "refresh"} |-> NoToken]

ClientInit ==
    /\ Server!Init
    /\ stale = {}
    /\ stored = NothingStored
    /\ access = NoToken
    /\ app = "signedOut"
    /\ promise = NoCall
    /\ call = [c \in Calls |-> Idle]
    /\ post = [c \in Calls |-> NoPost]
    /\ kills = 0

\* The token the server signs in this step.
Signed == CHOOSE t \in issued' : t \notin issued

-----------------------------------------------------------------------------
(* Requests, and what the server makes of them. *)

Start(c, kind, pc, arg) ==
    /\ call[c].pc = "idle"
    /\ call' = [call EXCEPT ![c] = [Idle EXCEPT !.pc = pc, !.kind = kind, !.arg = arg,
                                                !.bearer = access]]
    /\ UNCHANGED <<server, stale, stored, access, app, promise, post, kills>>

SendScreen(c) == app = "signedIn" /\ Start(c, "screen", "sent", NoToken)
SendLogin(c, u) == app = "signedOut" /\ Start(c, "login", "sent", u)

\* logout() reads the refresh token to revoke from the store first.
StartLogout(c) == app = "signedIn" /\ Start(c, "logout", "load", NoToken)

To(c, pc) == call' = [call EXCEPT ![c].pc = pc]

\* 401 TOKEN_EXPIRED, whatever the endpoint.
RefuseExpired(c) ==
    /\ call[c].pc = "sent"
    /\ call[c].bearer \in stale
    /\ To(c, "expired")
    /\ UNCHANGED <<server, stale, stored, access, app, promise, post, kills>>

Accepted(c) == call[c].pc = "sent" /\ call[c].bearer \notin stale

\* A logout revokes its argument; without an Authorization header all is refused.
Serve(c) ==
    /\ Accepted(c)
    /\ call[c].kind # "login"
    /\ IF call[c].bearer # NoToken /\ call[c].arg \in live
       THEN Server!Retire(call[c].arg) ELSE UNCHANGED server
    /\ call' = [call EXCEPT ![c].pc = "answered", ![c].ok = call[c].bearer # NoToken]
    /\ UNCHANGED <<stale, stored, access, app, promise, post, kills>>

\* login() goes on to persistTokens, whose first statement sets accessToken.
ServeLogin(c) ==
    /\ Accepted(c)
    /\ call[c].kind = "login"
    /\ Server!Login(call[c].arg)
    /\ call' = [call EXCEPT ![c].pc = "save.access", ![c].got = Signed,
                            ![c].ok = TRUE]
    /\ access' = Signed
    /\ UNCHANGED <<stale, stored, app, promise, post, kills>>

\* No answer, or an error that is none of the interceptor's business.
Fail(c) ==
    /\ call[c].pc = "sent"
    /\ Lossy
    /\ To(c, "answered")
    /\ UNCHANGED <<server, stale, stored, access, app, promise, post, kills>>

\* POST /auth/refresh is processed, and its answer arrives.
ServeRefresh(c) ==
    LET t == post[c].token
    IN  /\ post[c].state = "sent"
        /\ IF t \in live
           THEN /\ Server!Rotate(t)
                /\ post' = [post EXCEPT ![c].state = "done", ![c].got = Signed]
           ELSE /\ Server!RetireAll(t.user)
                /\ post' = [post EXCEPT ![c].state = "failed"]
        /\ UNCHANGED <<stale, stored, access, app, promise, call, kills>>

\* The refresh fails on its way, or its answer on the way back.
LoseRefresh(c) ==
    /\ post[c].state \in {"sent", "done"}
    /\ Lossy
    /\ post' = [post EXCEPT ![c].state = "failed"]
    /\ UNCHANGED <<server, stale, stored, access, app, promise, call, kills>>

Expire(t) ==
    /\ t \notin stale
    /\ stale' = stale \cup {t}
    /\ UNCHANGED <<server, stored, access, app, promise, call, post, kills>>

-----------------------------------------------------------------------------
(* The response interceptor. *)

\* `await loadTokens()': the keys are read ...
Load(c) ==
    /\ \/ call[c].pc = "load"
       \/ call[c].pc = "expired" /\ ~call[c].retried
    /\ call' = [call EXCEPT ![c].pc = "loaded", ![c].got = stored["refresh"]]
    /\ UNCHANGED <<server, stale, stored, access, app, promise, post, kills>>

RejectRetried(c) ==
    /\ call[c].pc = "expired"
    /\ call[c].retried
    /\ To(c, "answered")
    /\ UNCHANGED <<server, stale, stored, access, app, promise, post, kills>>

\* ... and what follows the await runs with what was read.
SendLogout(c) ==
    /\ call[c].pc = "loaded"
    /\ call[c].kind = "logout" /\ call[c].arg = NoToken
    /\ call' = [call EXCEPT ![c].pc = IF call[c].got = NoToken THEN "answered" ELSE "sent",
                            ![c].arg = call[c].got, ![c].got = NoToken, ![c].bearer = access]
    /\ UNCHANGED <<server, stale, stored, access, app, promise, post, kills>>

\* Mutation of Joined: a refresh is joined, and never posted.
PendingOnly(c) == promise

\* refreshPromise || axios.post(...)
Joined(c) == IF promise # NoCall THEN promise ELSE c

Refresh(c) ==
    LET token == call[c].got
    IN  /\ call[c].pc = "loaded"
        /\ call[c].kind = "logout" => call[c].arg # NoToken
        /\ token # NoToken
        /\ promise' = Joined(c)
        /\ call' = [call EXCEPT ![c].pc = "waiting", ![c].retried = TRUE,
                                ![c].awaits = Joined(c), ![c].got = NoToken]
        /\ post' = IF Joined(c) # c THEN post
                   ELSE [post EXCEPT ![c] = [state |-> "sent", token |-> token,
                                             got |-> NoToken]]
        /\ UNCHANGED <<server, stale, stored, access, app, kills>>

\* "No refresh token available": the catch block, as when a refresh fails.
NothingToRefresh(c) ==
    /\ call[c].pc = "loaded"
    /\ call[c].kind = "logout" => call[c].arg # NoToken
    /\ call[c].got = NoToken
    /\ promise' = NoCall
    /\ access' = NoToken
    /\ call' = [call EXCEPT ![c].pc = "forget", ![c].retried = TRUE]
    /\ UNCHANGED <<server, stale, stored, app, post, kills>>

Waiting(c) == {d \in Calls : call[d].pc = "waiting" /\ call[d].awaits = c}

\* Every call that awaited the promise goes on to persistTokens.
Resume(c) ==
    /\ post[c].state = "done"
    /\ promise' = NoCall
    /\ access' = post[c].got
    /\ call' = [d \in Calls |->
                  IF d \in Waiting(c)
                  THEN [call[d] EXCEPT !.pc = "save.access", !.got = post[c].got,
                                       !.awaits = NoCall]
                  ELSE call[d]]
    /\ post' = [post EXCEPT ![c] = NoPost]
    /\ UNCHANGED <<server, stale, stored, app, kills>>

GiveUp(c) ==
    /\ post[c].state = "failed"
    /\ promise' = NoCall
    /\ access' = NoToken
    /\ call' = [d \in Calls |->
                  IF d \in Waiting(c)
                  THEN [call[d] EXCEPT !.pc = "forget", !.awaits = NoCall]
                  ELSE call[d]]
    /\ post' = [post EXCEPT ![c] = NoPost]
    /\ UNCHANGED <<server, stale, stored, app, kills>>

SaveAccess(c) ==
    /\ call[c].pc = "save.access"
    /\ stored' = [stored EXCEPT !["access"] = call[c].got]
    /\ To(c, "save.refresh")
    /\ UNCHANGED <<server, stale, access, app, promise, post, kills>>

\* Mutation of Saved: the rotated refresh token is not written.
AccessOnly(t) == UNCHANGED stored

\* Mutation of Saved: rotation keeps the refresh token that is stored.
FirstKept(t) ==
    stored' = IF stored["refresh"] = NoToken THEN [stored EXCEPT !["refresh"] = t] ELSE stored

Saved(t) == stored' = [stored EXCEPT !["refresh"] = t]

\* A refreshed call is sent again, and the request interceptor gives it the
\* access token of the moment.
SaveRefresh(c) ==
    /\ call[c].pc = "save.refresh"
    /\ Saved(call[c].got)
    /\ call' = [call EXCEPT
                  ![c].pc = IF call[c].ok THEN "answered" ELSE "sent",
                  ![c].bearer = IF access = NoToken THEN call[c].got ELSE access,
                  ![c].got = NoToken]
    /\ UNCHANGED <<server, stale, access, app, promise, post, kills>>

\* clearTokens() is done; then onAuthExpired, or what logout() or a failed launch
\* does after it.
Forget(c) ==
    /\ call[c].pc \in {"forget", "signout"}
    /\ stored' = [stored EXCEPT !["access"] = NoToken, !["refresh"] = NoToken]
    /\ IF call[c].pc = "forget"
       THEN To(c, "answered") /\ app' = IF app = "signedIn" THEN "signedOut" ELSE app
       ELSE call' = [call EXCEPT ![c] = Idle] /\ app' = "signedOut"
    /\ UNCHANGED <<server, stale, access, promise, post, kills>>

-----------------------------------------------------------------------------
(* AuthContext goes on. *)

SignIn(c) ==
    /\ call[c].kind \in {"login", "me"}
    /\ call[c].ok
    /\ call' = [call EXCEPT ![c] = Idle]
    /\ app' = "signedIn"
    /\ UNCHANGED access

\* The `finally' block of logout(), and a launch that could not load the user.
SignsOut(c) == call[c].kind = "logout" \/ (call[c].kind = "me" /\ ~call[c].ok)

SignOut(c) ==
    /\ SignsOut(c)
    /\ To(c, "signout")
    /\ access' = NoToken
    /\ UNCHANGED app

GoOn(c) ==
    /\ \/ call[c].kind = "screen"
       \/ call[c].kind = "login" /\ ~call[c].ok
    /\ call' = [call EXCEPT ![c] = Idle]
    /\ UNCHANGED <<access, app>>

Finish(c) ==
    /\ call[c].pc = "answered"
    /\ SignIn(c) \/ SignOut(c) \/ GoOn(c)
    /\ UNCHANGED <<server, stale, stored, promise, post, kills>>

\* The system kills the app: only SecureStore is left.
Kill ==
    /\ app # "closed"
    /\ kills < MaxKills
    /\ kills' = kills + 1
    /\ app' = "closed"
    /\ access' = NoToken /\ promise' = NoCall
    /\ call' = [c \in Calls |-> Idle]
    /\ post' = [c \in Calls |-> NoPost]
    /\ UNCHANGED <<server, stale, stored>>

\* The AuthProvider of a launched app: hydrateTokens, and GET /auth/me.
Launch(c) ==
    /\ app = "closed"
    /\ access' = stored["access"]
    /\ IF access' = NoToken
       THEN app' = "signedOut" /\ UNCHANGED call
       ELSE /\ app' = "booting"
            /\ call' = [call EXCEPT ![c] = [Idle EXCEPT !.pc = "sent", !.kind = "me",
                                                        !.bearer = access']]
    /\ UNCHANGED <<server, stale, stored, promise, post, kills>>

Answered(c) == RefuseExpired(c) \/ Serve(c) \/ ServeLogin(c) \/ Fail(c)
Refreshed(c) == ServeRefresh(c) \/ LoseRefresh(c)
Callback(c) ==
    \/ Load(c) \/ RejectRetried(c) \/ SendLogout(c) \/ Refresh(c) \/ NothingToRefresh(c)
    \/ Resume(c) \/ GiveUp(c) \/ SaveAccess(c) \/ SaveRefresh(c) \/ Forget(c) \/ Finish(c)

ClientNext ==
    \/ \E c \in Calls : \/ SendScreen(c) \/ StartLogout(c) \/ Launch(c)
                        \/ \E u \in Users : SendLogin(c, u)
                        \/ Answered(c) \/ Refreshed(c) \/ Callback(c)
    \/ \E t \in issued : Expire(t)
    \/ Kill

\* The app runs the callbacks that are due, and every request ends by an answer
\* or by a network error.
ClientFairness ==
    \A c \in Calls : /\ WF_clientVars(Answered(c))
                     /\ WF_clientVars(Refreshed(c))
                     /\ WF_clientVars(Callback(c))

ClientSpec == ClientInit /\ [][ClientNext]_clientVars /\ ClientFairness

-----------------------------------------------------------------------------
(* Properties. *)

\* docs/04-PROJECT-STRUCTURE.md:271: an expired access token costs one silent
\* refresh.  No refresh token that already has a successor is on its way to the
\* server, which would end every session of the user.
NoReplay ==
    \A c \in Calls : post[c].state = "sent" =>
        \A t \in issued : t.parent # post[c].token.jti

\* With one call at a time, only an app that was killed may replay a token: lost
\* answers, logouts and expiries never make it.
ReplayOnlyAfterKill == kills = 0 => NoReplay

\* With one call at a time, and as long as the app was not killed, a signed-in
\* user finds at rest the same, live session in memory and in SecureStore, so
\* that the next launch can refresh it.
StoredSessionIsLive ==
    kills = 0 /\ app = "signedIn" /\ (\A c \in Calls : call[c].pc = "idle")
    => /\ stored["access"] = access /\ stored["refresh"] = access
       /\ access \in live

\* A launch leaves the splash screen, whatever was stored and whatever becomes
\* of its requests.
LaunchEnds == app = "booting" ~> app # "booting"

=============================================================================
