------------------------------ MODULE WebClient ------------------------------
(***************************************************************************)
(* The API client of the two web applications: src/api/client.js and       *)
(* src/context/AuthContext.jsx, the same in both.  JavaScript runs one     *)
(* callback at a time, and requests overlap: between a request and the     *)
(* callback on its answer, or between two callbacks, anything else may     *)
(* run.  The server is TokenServer, and its answers may be lost.           *)
(*                                                                         *)
(* An access token is named by the refresh token that came with it.        *)
(***************************************************************************)
EXTENDS Integers

CONSTANTS Users, Calls,
          MaxTokens,    \* bound of the number of tokens ever issued
          NoToken, NoCall

VARIABLES issued, live, \* TokenServer
          stale,        \* the access tokens that have expired
          access,       \* accessToken of client.js
          refresh,      \* refreshToken of client.js
          session,      \* refreshToken and user of AuthContext: set by a login only
          promise,      \* refreshPromise: the call that posted the pending refresh
          call,         \* what each API call is doing
          post          \* the refresh request each call has posted

server == <<issued, live>>
tokens == <<access, refresh, session>>
vars == <<issued, live, stale, access, refresh, session, promise, call, post>>

Server == INSTANCE TokenServer

Held == Server!Token \cup {NoToken}

ASSUME WebClientAssumption ==
    MaxTokens \in Nat /\ NoToken \notin Server!Token \cup Users /\ NoCall \notin Calls

Call == [pc : {"idle", "sent", "expired", "waiting", "answered"},
         kind : {"page", "login", "logout"},
         body : Held \cup Users,        \* who logs in, or the token to log out
         bearer : Held,                 \* the Authorization header
         retried : BOOLEAN,             \* config._retried
         awaits : Calls \cup {NoCall},  \* whose refresh it waits for
         got : Held]                    \* the token a login was answered with

Post == [state : {"none", "sent", "done", "failed"}, token : Held, got : Held]

\* At most one refresh is pending, it is the one the next expired call will join,
\* and the call that posted it still waits for it.
OneRefreshAtATime(c) == promise = c /\ call[c].pc = "waiting" /\ call[c].awaits = c

\* The variables have their types, and whoever waits for a refresh waits for the one
\* that is pending.
TypeOK ==
    /\ issued \subseteq Server!Token /\ live \subseteq issued /\ stale \subseteq issued
    /\ {access, refresh, session} \subseteq issued \cup {NoToken}
    /\ promise \in Calls \cup {NoCall}
    /\ call \in [Calls -> Call]
    /\ post \in [Calls -> Post]
    /\ \A c \in Calls : call[c].pc = "waiting" => call[c].awaits \in Calls
    /\ \A c \in Calls : post[c].state # "none" => OneRefreshAtATime(c)

Idle == [pc |-> "idle", kind |-> "page", body |-> NoToken, bearer |-> NoToken,
         retried |-> FALSE, awaits |-> NoCall, got |-> NoToken]
NoPost == [state |-> "none", token |-> NoToken, got |-> NoToken]

Init ==
    /\ Server!Init
    /\ stale = {}
    /\ access = NoToken /\ refresh = NoToken /\ session = NoToken
    /\ promise = NoCall
    /\ call = [c \in Calls |-> Idle]
    /\ post = [c \in Calls |-> NoPost]

\* The token the server signs in this step.
Signed == CHOOSE t \in issued' : t \notin issued

-----------------------------------------------------------------------------
(* Requests, and what the server makes of them. *)

Send(c, kind, body) ==
    /\ call[c].pc = "idle"
    /\ call' = [call EXCEPT ![c] =
                   [pc |-> "sent", kind |-> kind, body |-> body, bearer |-> access,
                    retried |-> FALSE, awaits |-> NoCall, got |-> NoToken]]
    /\ UNCHANGED <<server, stale, tokens, promise, post>>

\* ProtectedRoute: a page is shown, and calls the API, only to a signed-in user.
SendPage(c) == session # NoToken /\ Send(c, "page", NoToken)
SendLogin(c, u) == session = NoToken /\ Send(c, "login", u)
SendLogout(c) == session # NoToken /\ Send(c, "logout", session)

\* 401 TOKEN_EXPIRED, whatever the endpoint.
RefuseExpired(c) ==
    /\ call[c].pc = "sent"
    /\ call[c].bearer \in stale
    /\ call' = [call EXCEPT ![c].pc = "expired"]
    /\ UNCHANGED <<server, stale, tokens, promise, post>>

Accepted(c) == call[c].pc = "sent" /\ call[c].bearer \notin stale

ServePage(c) ==
    /\ Accepted(c)
    /\ call[c].kind = "page"
    /\ call' = [call EXCEPT ![c].pc = "answered"]
    /\ UNCHANGED <<server, stale, tokens, promise, post>>

ServeLogin(c) ==
    /\ Accepted(c)
    /\ call[c].kind = "login"
    /\ Server!Login(call[c].body)
    /\ call' = [call EXCEPT ![c].pc = "answered", ![c].got = Signed]
    /\ UNCHANGED <<stale, tokens, promise, post>>

\* Without an Authorization header logout is refused, and revokes nothing.
ServeLogout(c) ==
    /\ Accepted(c)
    /\ call[c].kind = "logout"
    /\ IF call[c].bearer # NoToken /\ call[c].body \in live
       THEN Server!Retire(call[c].body) ELSE UNCHANGED server
    /\ call' = [call EXCEPT ![c].pc = "answered"]
    /\ UNCHANGED <<stale, tokens, promise, post>>

\* No answer, or an error that is none of the interceptor's business.
Fail(c) ==
    /\ call[c].pc = "sent"
    /\ call' = [call EXCEPT ![c].pc = "answered"]
    /\ UNCHANGED <<server, stale, tokens, promise, post>>

\* POST /auth/refresh is processed, and its answer may be lost on the way back.
ServeRefresh(c) ==
    LET t == post[c].token
    IN  /\ post[c].state = "sent"
        /\ IF t \in live
           THEN /\ Server!Rotate(t)
                /\ \E state \in {"done", "failed"} :
                     post' = [post EXCEPT ![c].state = state, ![c].got = Signed]
           ELSE /\ Server!RetireAll(t.user)
                /\ post' = [post EXCEPT ![c].state = "failed"]
        /\ UNCHANGED <<stale, tokens, promise, call>>

LoseRefresh(c) ==
    /\ post[c].state = "sent"
    /\ post' = [post EXCEPT ![c].state = "failed"]
    /\ UNCHANGED <<server, stale, tokens, promise, call>>

Expire(t) ==
    /\ t \notin stale
    /\ stale' = stale \cup {t}
    /\ UNCHANGED <<server, tokens, promise, call, post>>

-----------------------------------------------------------------------------
(* The response interceptor. *)

\* Mutations of Joined: every call posts a refresh of its own, or none does.
OwnPost(c) == c
PendingOnly(c) == promise

\* refreshPromise || axios.post(...)
Joined(c) == IF promise # NoCall THEN promise ELSE c

Intercept(c) ==
    /\ call[c].pc = "expired"
    /\ IF call[c].retried \/ refresh = NoToken
       THEN /\ call' = [call EXCEPT ![c].pc = "answered"]
            /\ UNCHANGED <<promise, post>>
       ELSE /\ promise' = Joined(c)
            /\ call' = [call EXCEPT ![c].pc = "waiting", ![c].retried = TRUE,
                                    ![c].awaits = Joined(c)]
            /\ post' = IF Joined(c) # c THEN post
                       ELSE [post EXCEPT ![c] = [state |-> "sent", token |-> refresh,
                                                 got |-> NoToken]]
    /\ UNCHANGED <<server, stale, tokens>>

\* Mutation of Waiting: only the call that posted hears of the answer.
OnlyPoster(c) == {c}

Waiting(c) == {d \in Calls : call[d].pc = "waiting" /\ call[d].awaits = c}

\* Mutation of Stored: the rotated refresh token is dropped.
OldKept(t) == access' = t /\ UNCHANGED refresh

Stored(t) == access' = t /\ refresh' = t

\* The callbacks of all calls that awaited the promise run one after the other,
\* before any other callback.
Resume(c) ==
    /\ post[c].state = "done"
    /\ promise' = NoCall
    /\ Stored(post[c].got)
    /\ call' = [d \in Calls |->
                  IF d \in Waiting(c)
                  THEN [call[d] EXCEPT !.pc = "sent", !.bearer = post[c].got,
                                       !.awaits = NoCall]
                  ELSE call[d]]
    /\ post' = [post EXCEPT ![c] = NoPost]
    /\ UNCHANGED <<server, stale, session>>

\* clearAuthTokens() and onAuthExpired().
GiveUp(c) ==
    /\ post[c].state = "failed"
    /\ promise' = NoCall
    /\ access' = NoToken /\ refresh' = NoToken /\ session' = NoToken
    /\ call' = [d \in Calls |->
                  IF d \in Waiting(c)
                  THEN [call[d] EXCEPT !.pc = "answered", !.awaits = NoCall]
                  ELSE call[d]]
    /\ post' = [post EXCEPT ![c] = NoPost]
    /\ UNCHANGED <<server, stale>>

-----------------------------------------------------------------------------
(* login and logout of AuthContext go on, and a page gets its data or an error. *)

FinishLogin(c) ==
    /\ call[c].kind = "login"
    /\ call[c].got # NoToken
    /\ access' = call[c].got /\ refresh' = call[c].got /\ session' = call[c].got

\* The `finally' block: whatever came of the request.
FinishLogout(c) ==
    /\ call[c].kind = "logout"
    /\ access' = NoToken /\ refresh' = NoToken /\ session' = NoToken

Finish(c) ==
    /\ call[c].pc = "answered"
    /\ \/ FinishLogin(c)
       \/ FinishLogout(c)
       \/ call[c].kind # "logout" /\ call[c].got = NoToken /\ UNCHANGED tokens
    /\ call' = [call EXCEPT ![c] = Idle]
    /\ UNCHANGED <<server, stale, promise, post>>

Answered(c) == RefuseExpired(c) \/ ServePage(c) \/ ServeLogin(c) \/ ServeLogout(c) \/ Fail(c)
Refreshed(c) == ServeRefresh(c) \/ LoseRefresh(c)
Callback(c) == Intercept(c) \/ Resume(c) \/ GiveUp(c) \/ Finish(c)

Next ==
    \/ \E c \in Calls : \/ SendPage(c) \/ SendLogout(c)
                        \/ \E u \in Users : SendLogin(c, u)
                        \/ Answered(c) \/ Refreshed(c) \/ Callback(c)
    \/ \E t \in issued : Expire(t)

\* The browser runs the callbacks that are due, and ends every request by an
\* answer or by a network error.  Nothing obliges a user to act or a token to
\* expire.
Fairness ==
    \A c \in Calls : /\ WF_vars(Answered(c))
                     /\ WF_vars(Refreshed(c))
                     /\ WF_vars(Callback(c))

Spec == Init /\ [][Next]_vars /\ Fairness

-----------------------------------------------------------------------------
(* Properties. *)

\* client.js: however the answers of overlapping calls, logins and logouts
\* arrive, the client never has the server process a refresh token that already
\* has a successor, which would end every session of the user.
NoReplay ==
    \A c \in Calls : post[c].state = "sent" =>
        \A t \in issued : t.parent # post[c].token.jti

\* Every call comes to an end: none waits for a refresh that was answered to
\* others, and the retry of a call does not loop.
EveryCallEnds == \A c \in Calls : call[c].pc # "idle" ~> call[c].pc = "idle"

=============================================================================
