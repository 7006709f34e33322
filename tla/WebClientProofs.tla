-------------------------- MODULE WebClientProofs --------------------------
(***************************************************************************)
(* Proofs about WebClient, for any number of users, calls and tokens.  A   *)
(* token is presented unspent because there is one refresh at a time, and  *)
(* because every token that waits to be stored waits at one place only.    *)
(***************************************************************************)
EXTENDS WebClient, TLAPS

\* No token was rotated from t.
Unspent(t) == \A s \in issued : s.parent # t.jti

\* Tokens are told apart by their jti, and rotated from tokens.
Numbered ==
    /\ \A s, t \in issued : s.jti = t.jti => s = t
    /\ \A s \in issued : s.parent = Server!NoParent \/ \E t \in issued : s.parent = t.jti

\* A login knows its user, and is done once it has a token.
CallsSound ==
    \A c \in Calls :
        /\ call[c].kind = "login" => call[c].body \in Users
        /\ call[c].got \in issued \cup {NoToken}
        /\ call[c].got # NoToken => call[c].pc = "answered"

\* The pending refresh was posted, with a token that nobody has used before, and
\* was answered with another one.
PostsSound ==
    /\ promise # NoCall => post[promise].state # "none"
    /\ \A c \in Calls :
        /\ post[c].state # "none" => post[c].token \in issued
        /\ post[c].state = "sent" => Unspent(post[c].token)
        /\ post[c].state = "done" => post[c].got \in issued /\ Unspent(post[c].got)

\* The token held is unspent, unless it is about to be replaced or cleared.
HeldSound ==
    refresh # NoToken =>
        Unspent(refresh) \/ (promise # NoCall /\ post[promise].state # "sent")

\* The token that a login was answered with is unspent, and at no other place.
LoginsSound ==
    \A c \in Calls : call[c].got # NoToken =>
        /\ Unspent(call[c].got) /\ call[c].got # refresh
        /\ \A d \in Calls : /\ d # c => call[d].got # call[c].got
                            /\ post[d].state # "none" => post[d].token # call[c].got
                            /\ post[d].state = "done" => post[d].got # call[c].got

IInv == TypeOK /\ Numbered /\ CallsSound /\ PostsSound /\ HeldSound /\ LoginsSound

-----------------------------------------------------------------------------
\* The client starts without tokens and calls.
LEMMA InitEstablishes == Init => IInv
<1> SUFFICES ASSUME Init PROVE IInv
  OBVIOUS
<1> USE DEF Init, Server!Init
<1>1. Idle \in Call /\ NoPost \in Post
  BY DEF Idle, NoPost, Call, Post, Held
<1>2. TypeOK
  BY <1>1 DEF TypeOK, Idle, NoPost
<1>3. Numbered /\ HeldSound
  BY DEF Numbered, HeldSound
<1>4. CallsSound /\ PostsSound /\ LoginsSound
  BY DEF CallsSound, PostsSound, LoginsSound, Idle, NoPost
<1>5. QED
  BY <1>2, <1>3, <1>4 DEF IInv

-----------------------------------------------------------------------------
(* One call moves, and has no token. *)

\* Calls that are not waiting change and may lose a login's token; nothing else does,
\* but that the server may retire tokens.
LEMMA CallStep ==
    ASSUME IInv, NEW c \in Calls, NEW j \in Call, call' = [call EXCEPT ![c] = j],
           UNCHANGED <<issued, stale, tokens, promise, post>>, live' \subseteq live,
           call[c].pc # "waiting", j.pc # "waiting", j.got = NoToken,
           j.kind = "login" => j.body \in Users
    PROVE IInv'
<1>1. /\ call \in [Calls -> Call] /\ call' \in [Calls -> Call]
      /\ \A d \in Calls : call'[d] = IF d = c THEN j ELSE call[d]
  BY DEF IInv, TypeOK
<1>2. TypeOK'
  BY <1>1 DEF IInv, TypeOK, tokens, OneRefreshAtATime
<1>3. Numbered' /\ HeldSound' /\ PostsSound'
  BY DEF IInv, Numbered, HeldSound, PostsSound, Unspent, tokens
<1>4. CallsSound'
  BY <1>1 DEF IInv, CallsSound
<1>5. LoginsSound'
  BY <1>1 DEF IInv, LoginsSound, Unspent, tokens
<1>6. QED
  BY <1>2, <1>3, <1>4, <1>5 DEF IInv

\* A request is sent.
LEMMA SendStep ==
    ASSUME IInv, NEW c \in Calls,
           SendPage(c) \/ SendLogout(c) \/ \E u \in Users : SendLogin(c, u)
    PROVE IInv'
<1>1. PICK kind \in {"page", "login", "logout"}, body \in Held \cup Users :
         Send(c, kind, body) /\ (kind = "login" => body \in Users)
  BY DEF SendPage, SendLogout, SendLogin, IInv, TypeOK, Held
<1> DEFINE j == [pc |-> "sent", kind |-> kind, body |-> body, bearer |-> access,
                 retried |-> FALSE, awaits |-> NoCall, got |-> NoToken]
<1>2. j \in Call
  BY DEF Call, Held, IInv, TypeOK
<1>3. call' = [call EXCEPT ![c] = j] /\ call[c].pc = "idle"
  BY <1>1 DEF Send, Idle
<1>4. UNCHANGED <<issued, live, stale, tokens, promise, post>>
  BY <1>1 DEF Send, server
<1>5. j.pc = "sent" /\ j.got = NoToken /\ j.kind = kind /\ j.body = body
  OBVIOUS
<1> HIDE DEF j
<1>6. QED
  BY <1>1, <1>2, <1>3, <1>4, <1>5, CallStep

\* A call is refused, served a page, logged out, or fails.
LEMMA AnsweredStep ==
    ASSUME IInv, NEW c \in Calls,
           RefuseExpired(c) \/ ServePage(c) \/ ServeLogout(c) \/ Fail(c)
    PROVE IInv'
<1>1. PICK pc \in {"expired", "answered"} : call' = [call EXCEPT ![c].pc = pc]
  BY DEF RefuseExpired, ServePage, ServeLogout, Fail
<1>2. call[c].pc = "sent"
  BY DEF RefuseExpired, ServePage, ServeLogout, Fail, Accepted
<1>3. UNCHANGED <<issued, stale, tokens, promise, post>> /\ live' \subseteq live
  BY DEF RefuseExpired, ServePage, ServeLogout, Fail, server, Server!Retire
<1> DEFINE j == [call[c] EXCEPT !.pc = pc]
<1>4. call[c] \in Call /\ call[c].got = NoToken /\ (call[c].kind = "login" => call[c].body \in Users)
  BY <1>2 DEF IInv, TypeOK, CallsSound
<1>5. /\ j \in Call /\ j.pc = pc /\ j.got = call[c].got
      /\ j.kind = call[c].kind /\ j.body = call[c].body
  BY <1>4 DEF Call
<1>6. call' = [call EXCEPT ![c] = j]
  BY <1>1
<1> HIDE DEF j
<1>7. QED
  BY <1>2, <1>3, <1>4, <1>5, <1>6, CallStep

-----------------------------------------------------------------------------
(* The server signs a token. *)

\* The new token is the one that was not there, and spends nothing but its parent.
LEMMA SignsOne ==
    ASSUME IInv, NEW new \in Server!Token, Server!IsNext(new.jti),
           issued' = issued \cup {new},
           new.parent = Server!NoParent \/ \E t \in issued : new.parent = t.jti
    PROVE /\ Signed = new /\ new \notin issued /\ new # NoToken
          /\ Numbered' /\ Unspent(new)'
          /\ \A t \in issued : t.jti # new.parent /\ Unspent(t) => Unspent(t)'
<1>1. issued \subseteq Server!Token /\ Numbered
  BY DEF IInv, TypeOK
<1>2. new \notin issued /\ \A s \in issued : s.jti # new.jti
  BY DEF Server!IsNext
<1>3. Signed = new
  BY <1>2 DEF Signed
<1>4. new.jti \in Nat /\ new # NoToken
  BY WebClientAssumption DEF Server!Token
<1>5. new.parent # new.jti
  BY <1>2, <1>4 DEF Server!NoParent
<1>6. Numbered'
  BY <1>1, <1>2 DEF Numbered
<1>7. Unspent(new)'
  BY <1>1, <1>2, <1>4, <1>5 DEF Numbered, Unspent, Server!NoParent
<1>8. QED
  BY <1>2, <1>3, <1>4, <1>6, <1>7 DEF Unspent

\* A login is answered with a token of its own.
LEMMA ServeLoginStep == ASSUME IInv, NEW c \in Calls, ServeLogin(c) PROVE IInv'
<1>1. call[c] \in Call /\ call[c].pc = "sent" /\ call[c].body \in Users
  BY DEF ServeLogin, Accepted, IInv, TypeOK, CallsSound
<1>2. PICK new \in Server!Token :
        /\ new.parent = Server!NoParent /\ Server!IsNext(new.jti)
        /\ issued' = issued \cup {new} /\ live' = live \cup {new}
  <2>1. PICK jti \in 0 .. MaxTokens :
          LET new == Server!NewToken(jti, call[c].body, Server!NoParent) IN
            /\ Server!IsNext(jti) /\ issued' = issued \cup {new} /\ live' = live \cup {new}
    BY DEF ServeLogin, Server!Login
  <2> DEFINE new == Server!NewToken(jti, call[c].body, Server!NoParent)
  <2>2. new \in Server!Token /\ new.jti = jti /\ new.parent = Server!NoParent
    BY <1>1, WebClientAssumption DEF Server!NewToken, Server!Token
  <2>3. QED
    BY <2>1, <2>2
<1>4. /\ Signed = new /\ new \notin issued /\ new # NoToken /\ Numbered' /\ Unspent(new)'
      /\ \A t \in issued : Unspent(t) => Unspent(t)'
  <2>1. \A t \in issued : t.jti # new.parent
    BY <1>2 DEF IInv, TypeOK, Server!Token, Server!NoParent
  <2>2. QED
    BY <1>2, <2>1, SignsOne
<1> DEFINE j == [call[c] EXCEPT !.pc = "answered", !.got = new]
<1>5. /\ j \in Call /\ j.pc = "answered" /\ j.got = new
      /\ j.kind = call[c].kind /\ j.body = call[c].body
  BY <1>1, <1>2 DEF Call, Held
<1>6. UNCHANGED <<stale, tokens, promise, post>> /\ call' = [call EXCEPT ![c] = j]
  BY <1>4 DEF ServeLogin
<1> HIDE DEF j
<1>7. /\ call \in [Calls -> Call] /\ call' \in [Calls -> Call]
      /\ \A d \in Calls : call'[d] = IF d = c THEN j ELSE call[d]
  BY <1>5, <1>6 DEF IInv, TypeOK
<1>8. TypeOK'
  BY <1>1, <1>2, <1>5, <1>6, <1>7 DEF IInv, TypeOK, tokens, OneRefreshAtATime
<1>9. CallsSound'
  BY <1>1, <1>2, <1>5, <1>7 DEF IInv, CallsSound
<1>10. PostsSound' /\ HeldSound'
  BY <1>2, <1>4, <1>6 DEF IInv, TypeOK, PostsSound, HeldSound, tokens
<1>11. LoginsSound'
  <2>1. refresh' = refresh /\ post' = post /\ new # refresh
    BY <1>4, <1>6 DEF tokens, IInv, TypeOK
  <2>2. \A d \in Calls : /\ call[d].got # new /\ (post[d].state # "none" => post[d].token # new)
                         /\ (post[d].state = "done" => post[d].got # new)
    BY <1>4 DEF IInv, CallsSound, PostsSound
  <2>3. \A d \in Calls : call[d].got # NoToken => call[d].got \in issued /\ Unspent(call[d].got)
    BY <1>4 DEF IInv, CallsSound, LoginsSound
  <2>4. QED
    BY <1>4, <1>5, <1>7, <2>1, <2>2, <2>3 DEF IInv, LoginsSound, Unspent
<1>12. QED
  BY <1>4, <1>8, <1>9, <1>10, <1>11 DEF IInv

\* A refresh is answered, or its answer lost: either way, its token is spent.
LEMMA RotateStep ==
    ASSUME IInv, NEW c \in Calls, ServeRefresh(c), post[c].token \in live PROVE IInv'
<1> DEFINE t == post[c].token
<1>1. /\ post[c] \in Post /\ post[c].state = "sent" /\ t \in issued /\ t \in Server!Token
      /\ t.jti \in Nat /\ Unspent(t) /\ promise = c
  BY DEF ServeRefresh, IInv, TypeOK, PostsSound, OneRefreshAtATime, Server!Token
<1>2. PICK new \in Server!Token :
        /\ new.parent = t.jti /\ Server!IsNext(new.jti)
        /\ issued' = issued \cup {new} /\ live' = (live \ {t}) \cup {new}
  <2>1. PICK jti \in 0 .. MaxTokens :
          LET new == Server!NewToken(jti, t.user, t.jti) IN
            /\ Server!IsNext(jti) /\ issued' = issued \cup {new}
            /\ live' = (live \ {t}) \cup {new}
    BY DEF ServeRefresh, Server!Rotate
  <2> DEFINE new == Server!NewToken(jti, t.user, t.jti)
  <2>2. new \in Server!Token /\ new.jti = jti /\ new.parent = t.jti
    BY <1>1, WebClientAssumption DEF Server!NewToken, Server!Token
  <2>3. QED
    BY <2>1, <2>2
<1>3. /\ Signed = new /\ new \notin issued /\ new # NoToken /\ Numbered' /\ Unspent(new)'
      /\ \A s \in issued : s # t /\ Unspent(s) => Unspent(s)'
  <2>1. \A s \in issued : s # t => s.jti # new.parent
    BY <1>1, <1>2 DEF IInv, Numbered
  <2>2. QED
    BY <1>1, <1>2, <2>1, SignsOne
<1>4. PICK state \in {"done", "failed"} :
        post' = [post EXCEPT ![c].state = state, ![c].got = new]
  BY <1>3 DEF ServeRefresh
<1>5. UNCHANGED <<stale, tokens, promise, call>>
  BY DEF ServeRefresh
<1> DEFINE p == [post[c] EXCEPT !.state = state, !.got = new]
<1>6. p \in Post /\ p.state = state /\ p.got = new /\ p.token = t
  BY <1>1, <1>2 DEF Post, Held
<1>7. post' = [post EXCEPT ![c] = p]
  BY <1>4
<1> HIDE DEF p
<1>8. /\ post' \in [Calls -> Post]
      /\ \A d \in Calls : post'[d] = IF d = c THEN p ELSE post[d]
  BY <1>6, <1>7 DEF IInv, TypeOK
<1>9. TypeOK'
  BY <1>1, <1>2, <1>5, <1>6, <1>8 DEF IInv, TypeOK, tokens, OneRefreshAtATime
<1>10. CallsSound'
  BY <1>2, <1>5 DEF IInv, CallsSound
<1>11. \A d \in Calls : d # c => post[d].state = "none"
  BY <1>1 DEF IInv, TypeOK, OneRefreshAtATime
<1>12. PostsSound' /\ HeldSound'
  BY <1>1, <1>2, <1>3, <1>5, <1>6, <1>8, <1>11, WebClientAssumption DEF PostsSound, HeldSound
<1>13. LoginsSound'
  <2>1. \A d \in Calls : call[d].got # NoToken =>
           /\ call[d].got \in issued /\ call[d].got # t /\ call[d].got # refresh
           /\ Unspent(call[d].got)
    BY <1>1 DEF IInv, CallsSound, LoginsSound
  <2>2. \A d, e \in Calls : call[d].got # NoToken /\ e # d => call[e].got # call[d].got
    BY DEF IInv, LoginsSound
  <2>3. refresh' = refresh /\ call' = call
    BY <1>5 DEF tokens
  <2>4. \A d \in Calls : call[d].got # NoToken =>
           \A e \in Calls : /\ post'[e].state # "none" => post'[e].token # call[d].got
                            /\ post'[e].state = "done" => post'[e].got # call[d].got
    BY <1>3, <1>6, <1>8, <1>11, <2>1
  <2>5. QED
    BY <1>3, <2>1, <2>2, <2>3, <2>4 DEF LoginsSound, Unspent
<1>14. QED
  BY <1>3, <1>9, <1>10, <1>12, <1>13 DEF IInv

\* A refresh fails, because its token is not live or for another reason.
LEMMA FailedRefreshStep ==
    ASSUME IInv, NEW c \in Calls,
           LoseRefresh(c) \/ (ServeRefresh(c) /\ post[c].token \notin live)
    PROVE IInv'
<1>1. /\ post[c] \in Post /\ post[c].state = "sent" /\ post[c].token \in issued /\ promise = c
  BY DEF ServeRefresh, LoseRefresh, IInv, TypeOK, PostsSound, OneRefreshAtATime
<1>2. /\ UNCHANGED <<issued, stale, tokens, promise, call>> /\ live' \subseteq live
      /\ post' = [post EXCEPT ![c].state = "failed"]
  BY DEF ServeRefresh, LoseRefresh, server, Server!RetireAll
<1>3. /\ post' \in [Calls -> Post]
      /\ \A d \in Calls : /\ d # c => post'[d] = post[d]
                          /\ post'[d].token = post[d].token /\ post'[d].got = post[d].got
      /\ post'[c].state = "failed"
  <2> DEFINE p == [post[c] EXCEPT !.state = "failed"]
  <2>1. p \in Post /\ p.state = "failed" /\ p.token = post[c].token /\ p.got = post[c].got
    BY <1>1 DEF Post
  <2>2. post' = [post EXCEPT ![c] = p]
    BY <1>2
  <2> HIDE DEF p
  <2>3. QED
    BY <2>1, <2>2 DEF IInv, TypeOK
<1>4. TypeOK'
  BY <1>1, <1>2, <1>3 DEF IInv, TypeOK, tokens, OneRefreshAtATime
<1>5. Numbered' /\ CallsSound' /\ HeldSound'
  BY <1>1, <1>2, <1>3, WebClientAssumption DEF IInv, Numbered, CallsSound, HeldSound, tokens
<1>6. PostsSound'
  BY <1>1, <1>2, <1>3 DEF IInv, PostsSound, Unspent
<1>7. LoginsSound'
  BY <1>1, <1>2, <1>3 DEF IInv, LoginsSound, Unspent, tokens
<1>8. QED
  BY <1>4, <1>5, <1>6, <1>7 DEF IInv

-----------------------------------------------------------------------------
(* The interceptor, and the end of a call. *)

\* A call that is refused gives up, or waits for the refresh it joins or posts.
LEMMA InterceptStep == ASSUME IInv, NEW c \in Calls, Intercept(c) PROVE IInv'
<1>1. /\ call[c] \in Call /\ call[c].pc = "expired" /\ call[c].got = NoToken
      /\ call[c].kind = "login" => call[c].body \in Users
      /\ UNCHANGED <<issued, live, stale, tokens>>
  BY DEF Intercept, server, IInv, TypeOK, CallsSound
<1>2. CASE call[c].retried \/ refresh = NoToken
  <2> DEFINE j == [call[c] EXCEPT !.pc = "answered"]
  <2>1. /\ j \in Call /\ j.pc = "answered" /\ j.got = call[c].got
        /\ j.kind = call[c].kind /\ j.body = call[c].body
    BY <1>1 DEF Call
  <2>2. call' = [call EXCEPT ![c] = j] /\ UNCHANGED <<promise, post>>
    BY <1>2 DEF Intercept
  <2> HIDE DEF j
  <2>3. QED
    BY <1>1, <2>1, <2>2, CallStep
<1>3. CASE ~(call[c].retried \/ refresh = NoToken)
  <2> DEFINE j == [call[c] EXCEPT !.pc = "waiting", !.retried = TRUE, !.awaits = Joined(c)]
  <2>1. Joined(c) \in Calls /\ promise' = Joined(c) /\ Joined(c) # NoCall
    BY <1>3, WebClientAssumption DEF Intercept, Joined, IInv, TypeOK
  <2>2. /\ j \in Call /\ j.pc = "waiting" /\ j.awaits = Joined(c) /\ j.got = call[c].got
        /\ j.kind = call[c].kind /\ j.body = call[c].body
    <3> HIDE DEF Joined
    <3> QED BY <1>1, <2>1 DEF Call
  <2>3. call' = [call EXCEPT ![c] = j]
    BY <1>3 DEF Intercept
  <2> HIDE DEF j
  <2>4. /\ call' \in [Calls -> Call]
        /\ \A d \in Calls : call'[d] = IF d = c THEN j ELSE call[d]
    BY <2>2, <2>3 DEF IInv, TypeOK
  <2>5. CallsSound'
    BY <1>1, <2>2, <2>4 DEF IInv, CallsSound
  <2>6. Numbered'
    BY <1>1 DEF IInv, Numbered
  <2>7. CASE promise # NoCall
    <3>1. Joined(c) = promise /\ promise # c /\ post' = post /\ promise' = promise
      BY <1>1, <1>3, <2>1, <2>7 DEF Intercept, Joined, IInv, TypeOK, PostsSound, OneRefreshAtATime
    <3>2. TypeOK'
      BY <1>1, <2>1, <2>2, <2>4, <3>1 DEF IInv, TypeOK, OneRefreshAtATime, tokens
    <3>3. PostsSound' /\ HeldSound' /\ LoginsSound'
      BY <1>1, <2>2, <2>4, <3>1
      DEF IInv, PostsSound, HeldSound, LoginsSound, Unspent, tokens
    <3>4. QED
      BY <2>5, <2>6, <3>2, <3>3 DEF IInv
  <2>8. CASE promise = NoCall
    <3> DEFINE p == [state |-> "sent", token |-> refresh, got |-> NoToken]
    <3>1. refresh \in issued /\ Unspent(refresh) /\ refresh # NoToken
      BY <1>3, <2>8 DEF IInv, TypeOK, HeldSound
    <3>2. p \in Post /\ p.state = "sent" /\ p.token = refresh
      BY <3>1 DEF Post, Held, IInv, TypeOK
    <3>3. Joined(c) = c /\ promise' = c /\ post' = [post EXCEPT ![c] = p]
      BY <1>3, <2>8 DEF Intercept, Joined
    <3> HIDE DEF p
    <3>4. /\ post' \in [Calls -> Post] /\ \A d \in Calls : post'[d] = IF d = c THEN p ELSE post[d]
      BY <3>2, <3>3 DEF IInv, TypeOK
    <3>5. \A d \in Calls : post[d].state = "none"
      BY <2>8, WebClientAssumption DEF IInv, TypeOK, OneRefreshAtATime
    <3>6. TypeOK'
      BY <1>1, <2>1, <2>2, <2>4, <3>2, <3>3, <3>4, <3>5 DEF IInv, TypeOK, OneRefreshAtATime, tokens
    <3>7. PostsSound' /\ HeldSound'
      BY <1>1, <3>1, <3>2, <3>3, <3>4, <3>5 DEF PostsSound, HeldSound, Unspent, tokens
    <3>8. LoginsSound'
      BY <1>1, <2>2, <2>4, <3>2, <3>4, <3>5 DEF IInv, LoginsSound, Unspent, tokens
    <3>9. QED
      BY <2>5, <2>6, <3>6, <3>7, <3>8 DEF IInv
  <2>9. QED
    BY <2>7, <2>8
<1>4. QED
  BY <1>2, <1>3

\* The refresh is over, and the calls that waited for it go on with what it gave, or
\* without a token.
LEMMA ResolvedStep ==
    ASSUME IInv, NEW c \in Calls, Resume(c) \/ GiveUp(c) PROVE IInv'
<1>1. /\ post[c] \in Post /\ post[c].state \in {"done", "failed"} /\ promise = c
      /\ \A d \in Calls : d # c => post[d].state = "none"
  BY DEF Resume, GiveUp, IInv, TypeOK, OneRefreshAtATime
<1>2. /\ UNCHANGED <<issued, live, stale>> /\ promise' = NoCall
      /\ post' = [post EXCEPT ![c] = NoPost]
  BY DEF Resume, GiveUp, server
<1>3. /\ post' \in [Calls -> Post] /\ \A d \in Calls : post'[d].state = "none"
  <2>1. NoPost \in Post /\ NoPost.state = "none"
    BY DEF NoPost, Post, Held
  <2>2. QED
    BY <1>1, <1>2, <2>1 DEF IInv, TypeOK
<1>4. \/ /\ GiveUp(c) /\ access' = NoToken /\ refresh' = NoToken /\ session' = NoToken
      \/ /\ Resume(c) /\ access' = post[c].got /\ refresh' = post[c].got /\ session' = session
         /\ post[c].got \in issued /\ Unspent(post[c].got)
  BY DEF Resume, GiveUp, Stored, IInv, PostsSound
<1>5. ASSUME NEW d \in Calls
      PROVE /\ call'[d] \in Call /\ call'[d].got = call[d].got /\ call'[d].kind = call[d].kind
            /\ call'[d].body = call[d].body
            /\ call'[d].pc = "waiting" => call'[d].awaits \in Calls
            /\ call[d].pc = "answered" => call'[d].pc = "answered"
  <2>1. call[d] \in Call /\ (call[d].pc = "waiting" => call[d].awaits \in Calls)
    BY DEF IInv, TypeOK
  <2>2. CASE d \notin Waiting(c)
    BY <2>1, <2>2 DEF Resume, GiveUp
  <2>3. CASE d \in Waiting(c) /\ Resume(c)
    <3> DEFINE j == [call[d] EXCEPT !.pc = "sent", !.bearer = post[c].got, !.awaits = NoCall]
    <3>1. call'[d] = j /\ call[d].pc = "waiting"
      BY <2>3 DEF Resume, Waiting
    <3>2. /\ j \in Call /\ j.pc = "sent" /\ j.got = call[d].got /\ j.kind = call[d].kind
          /\ j.body = call[d].body
      BY <1>1, <2>1 DEF Call, Post
    <3> HIDE DEF j
    <3>3. QED
      BY <3>1, <3>2
  <2>4. CASE d \in Waiting(c) /\ GiveUp(c)
    <3> DEFINE j == [call[d] EXCEPT !.pc = "answered", !.awaits = NoCall]
    <3>1. call'[d] = j
      BY <2>4 DEF GiveUp
    <3>2. /\ j \in Call /\ j.pc = "answered" /\ j.got = call[d].got /\ j.kind = call[d].kind
          /\ j.body = call[d].body
      BY <2>1 DEF Call
    <3> HIDE DEF j
    <3>3. QED
      BY <3>1, <3>2
  <2>5. QED
    BY <2>2, <2>3, <2>4
<1>6. call' \in [Calls -> Call]
  <2>1. call' = [d \in Calls |-> call'[d]]
    BY DEF Resume, GiveUp
  <2>2. QED
    BY <1>5, <2>1
<1>7. TypeOK'
  BY <1>2, <1>3, <1>4, <1>5, <1>6 DEF IInv, TypeOK
<1>8. Numbered' /\ CallsSound' /\ PostsSound'
  BY <1>2, <1>3, <1>5 DEF IInv, Numbered, CallsSound, PostsSound
<1>9. HeldSound'
  BY <1>2, <1>4 DEF HeldSound, Unspent
<1>10. LoginsSound'
  <2>1. \A d \in Calls : call[d].got # NoToken =>
           /\ Unspent(call[d].got) /\ call[d].got # refresh'
           /\ \A e \in Calls : e # d => call[e].got # call[d].got
    <3>1. TAKE d \in Calls
    <3>2. HAVE call[d].got # NoToken
    <3>3. /\ Unspent(call[d].got) /\ \A e \in Calls : e # d => call[e].got # call[d].got
          /\ post[c].state = "done" => post[c].got # call[d].got
      BY <3>2 DEF IInv, LoginsSound
    <3>4. CASE Resume(c)
      BY <3>3, <3>4 DEF Resume, Stored
    <3>5. CASE GiveUp(c)
      BY <3>2, <3>3, <3>5 DEF GiveUp
    <3>6. QED
      BY <3>4, <3>5
  <2>2. QED
    BY <1>2, <1>3, <1>5, <2>1 DEF LoginsSound, Unspent
<1>11. QED
  BY <1>7, <1>8, <1>9, <1>10 DEF IInv

\* A page gets its answer, a login puts its tokens in place, a logout clears them.
LEMMA FinishStep == ASSUME IInv, NEW c \in Calls, Finish(c) PROVE IInv'
<1>1. /\ call[c].pc = "answered" /\ call' = [call EXCEPT ![c] = Idle]
      /\ UNCHANGED <<issued, live, stale, promise, post>>
  BY DEF Finish, server
<1>2. \/ /\ refresh' = call[c].got /\ access' = call[c].got /\ session' = call[c].got
         /\ call[c].got # NoToken
      \/ refresh' = NoToken /\ access' = NoToken /\ session' = NoToken
      \/ UNCHANGED tokens
  BY DEF Finish, FinishLogin, FinishLogout
<1>3. /\ Idle \in Call /\ Idle.pc = "idle" /\ Idle.kind = "page" /\ Idle.got = NoToken
  BY DEF Idle, Call, Held
<1>4. /\ call' \in [Calls -> Call]
      /\ \A d \in Calls : call'[d] = IF d = c THEN Idle ELSE call[d]
  BY <1>1, <1>3 DEF IInv, TypeOK
<1>5. TypeOK'
  BY <1>1, <1>2, <1>3, <1>4 DEF IInv, TypeOK, CallsSound, OneRefreshAtATime, tokens
<1>6. Numbered' /\ CallsSound' /\ PostsSound'
  BY <1>1, <1>3, <1>4 DEF IInv, Numbered, CallsSound, PostsSound, Unspent
<1>7. HeldSound'
  BY <1>1, <1>2 DEF IInv, HeldSound, LoginsSound, Unspent, tokens
<1>8. LoginsSound'
  BY <1>1, <1>2, <1>3, <1>4 DEF IInv, LoginsSound, Unspent, tokens
<1>9. QED
  BY <1>5, <1>6, <1>7, <1>8 DEF IInv

\* Every step of WebClient keeps the invariant.
LEMMA StepPreserves == IInv /\ [Next]_vars => IInv'
<1> SUFFICES ASSUME IInv, [Next]_vars PROVE IInv'
  OBVIOUS
<1>1. CASE UNCHANGED vars
  BY <1>1 DEF vars, IInv, TypeOK, Numbered, CallsSound, PostsSound, HeldSound, LoginsSound,
              Unspent, OneRefreshAtATime
<1>2. ASSUME NEW t \in issued, Expire(t) PROVE IInv'
  BY <1>2 DEF Expire, server, tokens, IInv, TypeOK, Numbered, CallsSound, PostsSound, HeldSound,
              LoginsSound, Unspent, OneRefreshAtATime
<1>3. ASSUME NEW c \in Calls, Answered(c) PROVE IInv'
  BY <1>3, AnsweredStep, ServeLoginStep DEF Answered
<1>4. ASSUME NEW c \in Calls, Refreshed(c) PROVE IInv'
  BY <1>4, RotateStep, FailedRefreshStep DEF Refreshed
<1>5. ASSUME NEW c \in Calls, Callback(c) PROVE IInv'
  BY <1>5, InterceptStep, ResolvedStep, FinishStep DEF Callback
<1>6. QED
  BY <1>1, <1>2, <1>3, <1>4, <1>5, SendStep DEF Next

-----------------------------------------------------------------------------

\* The inductive invariant holds at all times.
THEOREM Invariance == Spec => []IInv
BY InitEstablishes, StepPreserves, PTL DEF Spec

\* Type correctness; and there is one refresh at a time, which those who wait for a
\* refresh wait for.
THEOREM TypeCorrect == Spec => []TypeOK
<1>1. IInv => TypeOK
  BY DEF IInv
<1>2. QED
  BY <1>1, Invariance, PTL

\* However many calls, logins and logouts overlap, and whichever answers are lost, the
\* client never presents a token that has a successor.
THEOREM NoReplayHolds == Spec => []NoReplay
<1>1. IInv => NoReplay
  BY DEF IInv, PostsSound, Unspent, NoReplay
<1>2. QED
  BY <1>1, Invariance, PTL

=============================================================================
