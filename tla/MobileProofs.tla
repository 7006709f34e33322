---------------------------- MODULE MobileProofs -----------------------------
(***************************************************************************)
(* Proofs about the mobile app, for any value of its bounds.               *)
(*                                                                         *)
(* The client: what SecureStore holds is the live session of memory, and   *)
(* the token a refresh sends was never used, as long as the app's calls do *)
(* not overlap and the app is not killed: the two ways in which it happens *)
(* otherwise are those of the runs mobile_replay and mobile_client.        *)
(*                                                                         *)
(* The screens: an invariant for each, and then for the app, from which    *)
(* what they show agrees with the server.                                  *)
(***************************************************************************)
EXTENDS MobileApp, TLAPS, FiniteSetTheorems

\* No call begins while another is on its way.
OneAtATime == \A c, d \in Calls : call[c].pc # "idle" /\ call[d].pc # "idle" => c = d

\* No token was rotated from t.
Unspent(t) == \A s \in issued : s.parent # t.jti

\* Tokens are told apart by their jti, and rotated from tokens; a live one was never
\* rotated.
Numbered ==
    /\ \A s, t \in issued : s.jti = t.jti => s = t
    /\ \A s \in issued : s.parent = Server!NoParent \/ \E t \in issued : s.parent = t.jti
    /\ \A t \in live : Unspent(t)

\* A token in a call's hands was issued.
CallTyped(j) ==
    /\ j \in Call
    /\ j.kind = "login" => j.arg \in Users
    /\ j.kind \in {"screen", "me"} => j.arg = NoToken
    /\ j.got \in issued \cup {NoToken}
    /\ j.pc = "waiting" => j.awaits \in Calls

PostTyped(p) == p \in Post /\ p.got \in issued \cup {NoToken}

Typed == ClientTypeOK /\ (\A c \in Calls : CallTyped(call[c]) /\ PostTyped(post[c])) /\ Numbered

\* Memory and SecureStore hold one live session, or nothing.
Session == access \in live /\ stored["access"] = access /\ stored["refresh"] = access
Empty == access = NoToken /\ stored["access"] = NoToken /\ stored["refresh"] = NoToken

Settled ==
    /\ app \in {"signedIn", "signedOut"}
    /\ app = "signedIn" => Session
    /\ app = "signedOut" => Empty

\* A login, from its request until AuthContext knows of it.
LoginStage(j) ==
    /\ app = "signedOut"
    /\ j.pc \in {"sent", "save.access", "save.refresh", "answered"}
    /\ j.pc = "sent" => Empty /\ j.bearer = NoToken /\ ~j.ok
    /\ j.pc \in {"save.access", "save.refresh"} => j.ok
    /\ j.pc = "answered" => IF j.ok THEN Session ELSE Empty

\* Any other call: until it is refused the session is as it was at rest, and a
\* refresh that succeeds or fails puts a new one or none in its place.
SessionStage(j) ==
    /\ j.kind \in {"screen", "logout"} /\ app \in {"signedIn", "signedOut"}
    /\ j.pc \notin {"answered", "signout"} => app = "signedIn"
    /\ j.pc \in {"load", "sent", "expired", "loaded"} => Session
    /\ j.pc = "load" => j.kind = "logout"
    /\ j.pc = "loaded" => j.got = access
    /\ j.pc \in {"forget", "signout"} => access = NoToken
    /\ j.pc = "signout" => j.kind = "logout"
    /\ j.pc = "answered" /\ j.kind = "screen" => Settled

\* A call waits for the refresh it posted itself.
PostStage(c, j, p) ==
    /\ j.pc # "waiting" => promise = NoCall /\ p.state = "none"
    /\ j.pc = "waiting" =>
          /\ promise = c /\ j.awaits = c /\ j.kind # "login"
          /\ p.state \in {"sent", "done", "failed"}
          /\ p.state = "sent" => Session /\ p.token = access
          /\ p.state = "done" => p.got \in live

\* What was received is the session of memory, and written key by key.
SaveStage(j) ==
    /\ j.pc \in {"save.access", "save.refresh"} => access = j.got /\ j.got \in live
    /\ j.pc = "save.refresh" => stored["access"] = j.got

Stage(c) ==
    IF call[c].pc = "idle" THEN post[c].state = "none"
    ELSE /\ IF call[c].kind = "login" THEN LoginStage(call[c]) ELSE SessionStage(call[c])
         /\ PostStage(c, call[c], post[c]) /\ SaveStage(call[c])

Undisturbed ==
    /\ \A c \in Calls : Stage(c)
    /\ (\A c \in Calls : call[c].pc = "idle") => promise = NoCall /\ Settled

IInv == Typed /\ (kills = 0 => Undisturbed)

-----------------------------------------------------------------------------
(* What every step of the app keeps, however calls overlap. *)

\* The call of a client at rest, and its post.
LEMMA IdleTyped ==
    /\ CallTyped(Idle) /\ PostTyped(NoPost) /\ NoPost.state = "none"
    /\ Idle.pc = "idle" /\ Idle.kind = "screen" /\ Idle.got = NoToken /\ ~Idle.ok
BY DEF CallTyped, PostTyped, Idle, NoPost, Call, Post, Held

\* One call moves.
Moves(c, j) == call' = [call EXCEPT ![c] = j]

\* A call that moves to a typed one leaves all typed.
LEMMA MovesTyped ==
    ASSUME Typed, NEW c \in Calls, NEW j, CallTyped(j)', Moves(c, j), issued \subseteq issued'
    PROVE /\ call' \in [Calls -> Call] /\ \A d \in Calls : CallTyped(call[d])'
          /\ \A d \in Calls : call'[d] = IF d = c THEN j ELSE call[d]
<1>1. call \in [Calls -> Call] /\ j \in Call /\ \A d \in Calls : CallTyped(call[d])
  BY DEF Typed, ClientTypeOK, CallTyped
<1>2. call' \in [Calls -> Call] /\ \A d \in Calls : call'[d] = IF d = c THEN j ELSE call[d]
  BY <1>1 DEF Moves
<1>3. \A d \in Calls : CallTyped(call[d])'
  BY <1>1, <1>2 DEF CallTyped
<1>4. QED
  BY <1>2, <1>3

\* The rest is typed while the server at most retires tokens.
LEMMA TypedStep ==
    ASSUME Typed, issued' = issued, live' \subseteq live, stale' \subseteq issued,
           stored' \in [{"access", "refresh"} -> issued \cup {NoToken}],
           access' \in issued \cup {NoToken},
           app' \in {"closed", "booting", "signedOut", "signedIn"},
           promise' \in Calls \cup {NoCall}, kills' \in 0 .. MaxKills,
           call' \in [Calls -> Call], \A d \in Calls : CallTyped(call[d])',
           post' \in [Calls -> Post], \A d \in Calls : PostTyped(post[d])'
    PROVE Typed'
<1>1. Numbered'
  BY DEF Typed, Numbered, Unspent
<1>2. ClientTypeOK'
  BY DEF Typed, ClientTypeOK, CallTyped
<1>3. QED
  BY <1>1, <1>2 DEF Typed

\* One call moves, and nothing else but the app's own state.
LEMMA OneMoves ==
    ASSUME Typed, NEW c \in Calls, NEW j, CallTyped(j), Moves(c, j),
           UNCHANGED <<issued, stale, promise, post, kills>>, live' \subseteq live,
           stored' \in [{"access", "refresh"} -> issued \cup {NoToken}],
           access' \in issued \cup {NoToken},
           app' \in {"closed", "booting", "signedOut", "signedIn"}
    PROVE Typed' /\ \A d \in Calls : call'[d] = IF d = c THEN j ELSE call[d]
<1>1. CallTyped(j)'
  BY DEF CallTyped
<1>2. /\ call' \in [Calls -> Call] /\ \A d \in Calls : CallTyped(call[d])'
      /\ \A d \in Calls : call'[d] = IF d = c THEN j ELSE call[d]
  BY <1>1, MovesTyped
<1>3. /\ stale' \subseteq issued /\ promise' \in Calls \cup {NoCall} /\ kills' \in 0 .. MaxKills
      /\ post' \in [Calls -> Post] /\ \A d \in Calls : PostTyped(post[d])'
  BY DEF Typed, ClientTypeOK, PostTyped
<1>4. QED
  BY <1>2, <1>3, TypedStep

\* Nothing but the call c moves.
Others(c) == \A d \in Calls : d # c => call'[d] = call[d]

\* A call goes on, with all it has.
LEMMA ToFacts ==
    ASSUME Typed, NEW c \in Calls,
           NEW pc \in {"expired", "save.refresh", "forget", "answered", "signout"}, To(c, pc),
           UNCHANGED <<issued, stale, promise, post, kills>>, live' \subseteq live,
           stored' \in [{"access", "refresh"} -> issued \cup {NoToken}],
           access' \in issued \cup {NoToken},
           app' \in {"closed", "booting", "signedOut", "signedIn"}
    PROVE /\ Typed' /\ Others(c)
          /\ call'[c].pc = pc /\ call'[c].kind = call[c].kind /\ call'[c].bearer = call[c].bearer
          /\ call'[c].got = call[c].got /\ call'[c].ok = call[c].ok
<1>1. PICK i : i = call[c]
  OBVIOUS
<1>2. CallTyped(i)
  BY <1>1 DEF Typed
<1>3. PICK j : j = [i EXCEPT !.pc = pc]
  OBVIOUS
<1>4. /\ CallTyped(j) /\ j.pc = pc /\ j.kind = i.kind /\ j.bearer = i.bearer
      /\ j.got = i.got /\ j.ok = i.ok
  BY <1>2, <1>3 DEF CallTyped, Call
<1>5. Moves(c, j)
  BY <1>1, <1>3 DEF To, Moves
<1>6. Typed' /\ \A d \in Calls : call'[d] = IF d = c THEN j ELSE call[d]
  BY <1>4, <1>5, OneMoves
<1>7. QED
  BY <1>1, <1>4, <1>6 DEF Others

\* A call begins.
LEMMA StartFacts ==
    ASSUME Typed, NEW c \in Calls, NEW kind \in {"screen", "login", "logout"},
           NEW pc \in {"sent", "load"}, NEW arg \in Users \cup {NoToken},
           kind = "login" => arg \in Users, kind = "screen" => arg = NoToken, Start(c, kind, pc, arg)
    PROVE /\ Typed' /\ Others(c)
          /\ call[c].pc = "idle" /\ call'[c].pc = pc /\ call'[c].kind = kind
          /\ call'[c].bearer = access /\ ~call'[c].ok
          /\ UNCHANGED <<server, stale, stored, access, app, promise, post, kills>>
<1>1. PICK i : i = Idle
  OBVIOUS
<1>2. CallTyped(i) /\ i.got = NoToken /\ ~i.ok
  BY <1>1, IdleTyped
<1>3. PICK j : j = [i EXCEPT !.pc = pc, !.kind = kind, !.arg = arg, !.bearer = access]
  OBVIOUS
<1>4. access \in Held
  BY DEF Typed, ClientTypeOK, Held
<1>5. /\ CallTyped(j) /\ j.pc = pc /\ j.kind = kind /\ j.bearer = access /\ j.got = NoToken /\ ~j.ok
  BY <1>2, <1>3, <1>4 DEF CallTyped, Call, Held
<1>6. Moves(c, j) /\ call[c].pc = "idle"
  BY <1>1, <1>3 DEF Start, Moves
<1>7. UNCHANGED <<server, stale, stored, access, app, promise, post, kills>>
  BY DEF Start
<1>8. Typed' /\ \A d \in Calls : call'[d] = IF d = c THEN j ELSE call[d]
  BY <1>5, <1>6, <1>7, OneMoves DEF server, Typed, ClientTypeOK
<1>9. QED
  BY <1>5, <1>6, <1>7, <1>8 DEF Others

\* A call ends.
LEMMA EndFacts ==
    ASSUME Typed, NEW c \in Calls, call' = [call EXCEPT ![c] = Idle],
           UNCHANGED <<issued, live, stale, promise, post, kills>>,
           stored' \in [{"access", "refresh"} -> issued \cup {NoToken}],
           access' \in issued \cup {NoToken},
           app' \in {"closed", "booting", "signedOut", "signedIn"}
    PROVE Typed' /\ Others(c) /\ call'[c].pc = "idle"
<1>1. PICK j : j = Idle
  OBVIOUS
<1>2. CallTyped(j) /\ j.pc = "idle"
  BY <1>1, IdleTyped
<1>3. Moves(c, j)
  BY <1>1 DEF Moves
<1>4. Typed' /\ \A d \in Calls : call'[d] = IF d = c THEN j ELSE call[d]
  BY <1>2, <1>3, OneMoves
<1>5. QED
  BY <1>2, <1>4 DEF Others

\* The server answers a call, and a logout retires its token.
LEMMA ServeFacts ==
    ASSUME Typed, NEW c \in Calls, Serve(c)
    PROVE /\ Typed' /\ Others(c)
          /\ call[c].pc = "sent" /\ call[c].kind # "login"
          /\ call'[c].pc = "answered" /\ call'[c].kind = call[c].kind
          /\ UNCHANGED <<issued, stale, stored, access, app, promise, post, kills>>
          /\ call[c].kind = "screen" => UNCHANGED live
<1>1. PICK i : i = call[c]
  OBVIOUS
<1>2. CallTyped(i)
  BY <1>1 DEF Typed
<1>3. PICK ok \in BOOLEAN : ok = (i.bearer # NoToken)
  OBVIOUS
<1>4. PICK j : j = [i EXCEPT !.pc = "answered", !.ok = ok]
  OBVIOUS
<1>5. CallTyped(j) /\ j.pc = "answered" /\ j.kind = i.kind
  BY <1>2, <1>3, <1>4 DEF CallTyped, Call
<1>6. Moves(c, j)
  BY <1>1, <1>3, <1>4 DEF Serve, Moves
<1>7. /\ UNCHANGED <<issued, stale, stored, access, app, promise, post, kills>>
      /\ live' \subseteq live /\ (i.arg \notin live => UNCHANGED live)
      /\ call[c].pc = "sent" /\ call[c].kind # "login"
  BY <1>1 DEF Serve, Accepted, Server!Retire, server
<1>8. Typed' /\ \A d \in Calls : call'[d] = IF d = c THEN j ELSE call[d]
  BY <1>5, <1>6, <1>7, OneMoves DEF Typed, ClientTypeOK
<1>9. call[c].kind = "screen" => UNCHANGED live
  BY <1>1, <1>2, <1>7, MobileClientAssumption DEF CallTyped, Typed, ClientTypeOK
<1>10. QED
  BY <1>1, <1>5, <1>7, <1>8, <1>9 DEF Others

\* The stored refresh token is read.
LEMMA LoadFacts ==
    ASSUME Typed, NEW c \in Calls, Load(c)
    PROVE /\ Typed' /\ Others(c)
          /\ call[c].pc \in {"load", "expired"} /\ call'[c].pc = "loaded"
          /\ call'[c].kind = call[c].kind /\ call'[c].got = stored["refresh"]
          /\ UNCHANGED <<server, stale, stored, access, app, promise, post, kills>>
<1>1. PICK i : i = call[c]
  OBVIOUS
<1>2. CallTyped(i) /\ stored["refresh"] \in issued \cup {NoToken} /\ issued \subseteq Server!Token
  BY <1>1 DEF Typed, ClientTypeOK
<1>3. PICK j : j = [i EXCEPT !.pc = "loaded", !.got = stored["refresh"]]
  OBVIOUS
<1>4. CallTyped(j) /\ j.pc = "loaded" /\ j.kind = i.kind /\ j.got = stored["refresh"]
  BY <1>2, <1>3 DEF CallTyped, Call, Held
<1>5. Moves(c, j)
  BY <1>1, <1>3 DEF Load, Moves
<1>6. /\ UNCHANGED <<server, stale, stored, access, app, promise, post, kills>>
      /\ call[c].pc \in {"load", "expired"}
  BY DEF Load
<1>7. Typed' /\ \A d \in Calls : call'[d] = IF d = c THEN j ELSE call[d]
  BY <1>4, <1>5, <1>6, OneMoves DEF server, Typed, ClientTypeOK
<1>8. QED
  BY <1>1, <1>4, <1>6, <1>7 DEF Others

\* A logout goes to the server, or ends if there is no token to revoke.
LEMMA SendLogoutFacts ==
    ASSUME Typed, NEW c \in Calls, SendLogout(c)
    PROVE /\ Typed' /\ Others(c)
          /\ call[c].pc = "loaded" /\ call[c].kind = "logout"
          /\ call'[c].pc = IF call[c].got = NoToken THEN "answered" ELSE "sent"
          /\ call'[c].kind = "logout"
          /\ UNCHANGED <<server, stale, stored, access, app, promise, post, kills>>
<1>1. PICK i : i = call[c]
  OBVIOUS
<1>2. CallTyped(i) /\ access \in Held /\ i.kind = "logout" /\ i.pc = "loaded"
  BY <1>1 DEF Typed, ClientTypeOK, Held, SendLogout
<1>3. PICK pc \in {"answered", "sent"} : pc = IF i.got = NoToken THEN "answered" ELSE "sent"
  OBVIOUS
<1>4. PICK j : j = [i EXCEPT !.pc = pc, !.arg = i.got, !.got = NoToken, !.bearer = access]
  OBVIOUS
<1>5. CallTyped(j) /\ j.pc = pc /\ j.kind = "logout"
  BY <1>2, <1>4 DEF CallTyped, Call, Held
<1>6. Moves(c, j)
  BY <1>1, <1>3, <1>4 DEF SendLogout, Moves
<1>7. UNCHANGED <<server, stale, stored, access, app, promise, post, kills>>
  BY DEF SendLogout
<1>8. Typed' /\ \A d \in Calls : call'[d] = IF d = c THEN j ELSE call[d]
  BY <1>5, <1>6, <1>7, OneMoves DEF server, Typed, ClientTypeOK
<1>9. QED
  BY <1>1, <1>2, <1>3, <1>5, <1>7, <1>8 DEF Others

\* A call joins the pending refresh, or posts one.
LEMMA RefreshFacts ==
    ASSUME Typed, NEW c \in Calls, Refresh(c)
    PROVE /\ Typed' /\ Others(c)
          /\ call[c].pc = "loaded" /\ call'[c].pc = "waiting"
          /\ call'[c].kind = call[c].kind /\ call'[c].awaits = Joined(c)
          /\ promise' = Joined(c)
          /\ \A d \in Calls : d # c => post'[d] = post[d]
          /\ Joined(c) = c => post'[c].state = "sent" /\ post'[c].token = call[c].got
          /\ UNCHANGED <<server, stale, stored, access, app, kills>>
<1>1. PICK i : i = call[c]
  OBVIOUS
<1>2. CallTyped(i)
  BY <1>1 DEF Typed
<1>3. PICK p \in Calls : p = Joined(c)
  BY DEF Joined, Typed, ClientTypeOK
<1>4. PICK j : j = [i EXCEPT !.pc = "waiting", !.retried = TRUE, !.awaits = p, !.got = NoToken]
  OBVIOUS
<1>5. /\ CallTyped(j) /\ j.pc = "waiting" /\ j.kind = i.kind /\ j.awaits = p
  BY <1>2, <1>4 DEF CallTyped, Call, Held
<1>6. Moves(c, j) /\ call[c].pc = "loaded"
  BY <1>1, <1>3, <1>4 DEF Refresh, Moves
<1>7. /\ UNCHANGED <<server, stale, stored, access, app, kills>> /\ promise' = p
  BY <1>3 DEF Refresh
<1> DEFINE q == [state |-> "sent", token |-> i.got, got |-> NoToken]
<1>8. PostTyped(q) /\ q.state = "sent" /\ q.token = i.got
  BY <1>2 DEF CallTyped, Call, PostTyped, Post, Held
<1>9. post' = IF p # c THEN post ELSE [post EXCEPT ![c] = q]
  BY <1>1, <1>3 DEF Refresh
<1> HIDE DEF q
<1>10. /\ post \in [Calls -> Post] /\ \A d \in Calls : PostTyped(post[d])
       /\ issued' = issued
  BY <1>7 DEF Typed, ClientTypeOK, server
<1>11. post' \in [Calls -> Post] /\ \A d \in Calls : PostTyped(post[d])'
  BY <1>8, <1>9, <1>10 DEF PostTyped
<1>12. CallTyped(j)'
  BY <1>5, <1>10 DEF CallTyped
<1>13. /\ call' \in [Calls -> Call] /\ \A d \in Calls : CallTyped(call[d])'
       /\ \A d \in Calls : call'[d] = IF d = c THEN j ELSE call[d]
  BY <1>6, <1>10, <1>12, MovesTyped
<1>14. Typed'
  BY <1>7, <1>11, <1>13, TypedStep DEF Typed, ClientTypeOK, server
<1>15. \A d \in Calls : d # c => post'[d] = post[d]
  BY <1>9, <1>10
<1>16. p = c => post'[c] = q
  BY <1>9, <1>10
<1>17. QED
  BY <1>1, <1>3, <1>5, <1>6, <1>7, <1>8, <1>13, <1>14, <1>15, <1>16 DEF Others

\* There is no token to refresh with.
LEMMA NothingFacts ==
    ASSUME Typed, NEW c \in Calls, NothingToRefresh(c)
    PROVE Typed' /\ call[c].pc = "loaded" /\ call[c].got = NoToken
<1>1. PICK i : i = call[c]
  OBVIOUS
<1>2. CallTyped(i)
  BY <1>1 DEF Typed
<1>3. PICK j : j = [i EXCEPT !.pc = "forget", !.retried = TRUE]
  OBVIOUS
<1>4. CallTyped(j)
  BY <1>2, <1>3 DEF CallTyped, Call
<1>5. Moves(c, j) /\ call[c].pc = "loaded" /\ call[c].got = NoToken
  BY <1>1, <1>3 DEF NothingToRefresh, Moves
<1>6. /\ UNCHANGED <<server, stale, stored, app, post, kills>>
      /\ promise' = NoCall /\ access' = NoToken /\ issued' = issued
  BY DEF NothingToRefresh, server
<1>7. /\ call' \in [Calls -> Call] /\ \A d \in Calls : CallTyped(call[d])'
  <2>1. CallTyped(j)'
    BY <1>4, <1>6 DEF CallTyped
  <2>2. QED
    BY <1>5, <1>6, <2>1, MovesTyped
<1>8. \A d \in Calls : PostTyped(post[d])'
  BY <1>6 DEF Typed, PostTyped
<1>9. Typed'
  BY <1>6, <1>7, <1>8, TypedStep DEF Typed, ClientTypeOK, server
<1>10. QED
  BY <1>5, <1>9

\* A refresh is answered without a token, or not at all.
LEMMA PostFails ==
    ASSUME Typed, NEW c \in Calls, post' = [post EXCEPT ![c].state = "failed"],
           live' \subseteq live, UNCHANGED <<issued, stale, stored, access, app, promise, call, kills>>
    PROVE /\ Typed' /\ post'[c].state = "failed"
          /\ \A d \in Calls : d # c => post'[d] = post[d]
<1>1. PICK o : o = post[c]
  OBVIOUS
<1>2. PostTyped(o)
  BY <1>1 DEF Typed
<1>3. PICK q : q = [o EXCEPT !.state = "failed"]
  OBVIOUS
<1>4. PostTyped(q) /\ q.state = "failed"
  BY <1>2, <1>3 DEF PostTyped, Post
<1>5. post' = [post EXCEPT ![c] = q]
  BY <1>1, <1>3
<1>6. post \in [Calls -> Post] /\ \A d \in Calls : PostTyped(post[d])
  BY DEF Typed, ClientTypeOK
<1>7. /\ post' \in [Calls -> Post] /\ \A d \in Calls : PostTyped(post[d])'
      /\ \A d \in Calls : post'[d] = IF d = c THEN q ELSE post[d]
  BY <1>4, <1>5, <1>6 DEF PostTyped
<1>8. call' \in [Calls -> Call] /\ \A d \in Calls : CallTyped(call[d])'
  BY DEF Typed, ClientTypeOK, CallTyped
<1>9. Typed'
  BY <1>7, <1>8, TypedStep DEF Typed, ClientTypeOK
<1>10. QED
  BY <1>4, <1>7, <1>9

\* The calls that awaited the refresh c go on to write its token, or to forget the
\* session.
LEMMA SettleFacts ==
    ASSUME Typed, NEW c \in Calls, Resume(c) \/ GiveUp(c)
    PROVE /\ Typed' /\ post'[c].state = "none"
          /\ \A d \in Calls : d # c => post'[d] = post[d]
          /\ \A d \in Calls : d \notin Waiting(c) => call'[d] = call[d]
          /\ promise' = NoCall /\ UNCHANGED <<server, stale, stored, app, kills>>
          /\ \A d \in Waiting(c) : call'[d].kind = call[d].kind /\ call'[d].ok = call[d].ok
          /\ Resume(c) => /\ post[c].state = "done" /\ access' = post[c].got
                          /\ \A d \in Waiting(c) : call'[d].pc = "save.access"
                                                   /\ call'[d].got = post[c].got
          /\ GiveUp(c) => /\ post[c].state = "failed" /\ access' = NoToken
                          /\ \A d \in Waiting(c) : call'[d].pc = "forget"
<1>1. PICK o : o = post[c]
  OBVIOUS
<1>2. PostTyped(o) /\ post \in [Calls -> Post] /\ call \in [Calls -> Call]
      /\ \A d \in Calls : CallTyped(call[d])
  BY <1>1 DEF Typed, ClientTypeOK
<1>3. /\ promise' = NoCall /\ UNCHANGED <<server, stale, stored, app, kills>>
      /\ post' = [post EXCEPT ![c] = NoPost] /\ issued' = issued
  BY DEF Resume, GiveUp, server
<1>4. /\ post' \in [Calls -> Post] /\ \A d \in Calls : PostTyped(post[d])'
      /\ post'[c].state = "none" /\ \A d \in Calls : d # c => post'[d] = post[d]
  <2>1. PICK n : n = NoPost
    OBVIOUS
  <2>2. PostTyped(n) /\ n.state = "none" /\ n \in Post
    BY <2>1, IdleTyped DEF PostTyped
  <2>3. post' = [post EXCEPT ![c] = n]
    BY <1>3, <2>1
  <2>4. \A d \in Calls : PostTyped(post[d])
    BY DEF Typed
  <2>5. QED
    BY <1>2, <1>3, <2>2, <2>3, <2>4 DEF PostTyped
<1>5. CASE Resume(c)
  <2>1. /\ o.state = "done" /\ access' = o.got
        /\ call' = [d \in Calls |->
                      IF d \in Waiting(c)
                      THEN [call[d] EXCEPT !.pc = "save.access", !.got = o.got, !.awaits = NoCall]
                      ELSE call[d]]
    BY <1>1, <1>5 DEF Resume
  <2>2. ASSUME NEW d \in Calls
        PROVE /\ CallTyped(call'[d])
              /\ d \notin Waiting(c) => call'[d] = call[d]
              /\ d \in Waiting(c) => /\ call'[d].pc = "save.access" /\ call'[d].got = o.got
                                     /\ call'[d].kind = call[d].kind /\ call'[d].ok = call[d].ok
    <3>1. CASE d \notin Waiting(c)
      BY <1>2, <2>1, <3>1
    <3>2. CASE d \in Waiting(c)
      <4>1. PICK i : i = call[d]
        OBVIOUS
      <4>2. CallTyped(i) /\ o.got \in Held
        BY <1>2, <4>1 DEF PostTyped, Post
      <4>3. PICK j : j = [i EXCEPT !.pc = "save.access", !.got = o.got, !.awaits = NoCall]
        OBVIOUS
      <4>4. CallTyped(j) /\ j.pc = "save.access" /\ j.got = o.got /\ j.kind = i.kind /\ j.ok = i.ok
        BY <1>2, <4>2, <4>3 DEF CallTyped, Call, PostTyped
      <4>5. call'[d] = j
        BY <2>1, <3>2, <4>1, <4>3
      <4>6. QED
        BY <3>2, <4>1, <4>4, <4>5
    <3>3. QED
      BY <3>1, <3>2
  <2>3. call' \in [Calls -> Call] /\ \A d \in Calls : CallTyped(call[d])'
    BY <1>3, <2>1, <2>2 DEF CallTyped
  <2>4. Typed'
    BY <1>2, <1>3, <1>4, <2>1, <2>3, TypedStep DEF Typed, ClientTypeOK, server, PostTyped
  <2>5. ~GiveUp(c)
    BY <1>1, <2>1 DEF GiveUp
  <2>6. Waiting(c) \subseteq Calls
    BY DEF Waiting
  <2>7. QED
    BY <1>1, <1>3, <1>4, <2>1, <2>2, <2>4, <2>5, <2>6
<1>6. CASE GiveUp(c)
  <2>1. /\ o.state = "failed" /\ access' = NoToken
        /\ call' = [d \in Calls |->
                      IF d \in Waiting(c)
                      THEN [call[d] EXCEPT !.pc = "forget", !.awaits = NoCall] ELSE call[d]]
    BY <1>1, <1>6 DEF GiveUp
  <2>2. ASSUME NEW d \in Calls
        PROVE /\ CallTyped(call'[d])
              /\ d \notin Waiting(c) => call'[d] = call[d]
              /\ d \in Waiting(c) => /\ call'[d].pc = "forget"
                                     /\ call'[d].kind = call[d].kind /\ call'[d].ok = call[d].ok
    <3>1. CASE d \notin Waiting(c)
      BY <1>2, <2>1, <3>1
    <3>2. CASE d \in Waiting(c)
      <4>1. PICK i : i = call[d]
        OBVIOUS
      <4>2. CallTyped(i)
        BY <1>2, <4>1
      <4>3. PICK j : j = [i EXCEPT !.pc = "forget", !.awaits = NoCall]
        OBVIOUS
      <4>4. CallTyped(j) /\ j.pc = "forget" /\ j.kind = i.kind /\ j.ok = i.ok
        BY <4>2, <4>3 DEF CallTyped, Call
      <4>5. call'[d] = j
        BY <2>1, <3>2, <4>1, <4>3
      <4>6. QED
        BY <3>2, <4>1, <4>4, <4>5
    <3>3. QED
      BY <3>1, <3>2
  <2>3. call' \in [Calls -> Call] /\ \A d \in Calls : CallTyped(call[d])'
    BY <1>3, <2>1, <2>2 DEF CallTyped
  <2>4. Typed'
    BY <1>2, <1>3, <1>4, <2>1, <2>3, TypedStep DEF Typed, ClientTypeOK, server
  <2>5. ~Resume(c)
    BY <1>1, <2>1 DEF Resume
  <2>6. Waiting(c) \subseteq Calls
    BY DEF Waiting
  <2>7. QED
    BY <1>1, <1>3, <1>4, <2>1, <2>2, <2>4, <2>5, <2>6
<1>7. QED
  BY <1>5, <1>6

\* The access token is written.
LEMMA SaveAccessFacts ==
    ASSUME Typed, NEW c \in Calls, SaveAccess(c)
    PROVE /\ Typed' /\ Others(c)
          /\ call[c].pc = "save.access" /\ call'[c].pc = "save.refresh"
          /\ call'[c].kind = call[c].kind /\ call'[c].got = call[c].got /\ call'[c].ok = call[c].ok
          /\ stored'["access"] = call[c].got
          /\ UNCHANGED <<server, stale, access, app, promise, post, kills>>
<1>1. /\ UNCHANGED <<server, stale, access, app, promise, post, kills>>
      /\ stored' = [stored EXCEPT !["access"] = call[c].got]
      /\ call[c].pc = "save.access" /\ To(c, "save.refresh")
  BY DEF SaveAccess
<1>2. stored \in [{"access", "refresh"} -> issued \cup {NoToken}] /\ call[c].got \in issued \cup {NoToken}
  BY DEF Typed, ClientTypeOK, CallTyped
<1>3. stored' \in [{"access", "refresh"} -> issued \cup {NoToken}] /\ stored'["access"] = call[c].got
  BY <1>1, <1>2
<1>4. UNCHANGED <<issued, stale, promise, post, kills>> /\ live' \subseteq live
      /\ access' \in issued \cup {NoToken}
      /\ app' \in {"closed", "booting", "signedOut", "signedIn"}
  BY <1>1 DEF server, Typed, ClientTypeOK
<1>5. /\ Typed' /\ Others(c)
      /\ call'[c].pc = "save.refresh" /\ call'[c].kind = call[c].kind
      /\ call'[c].got = call[c].got /\ call'[c].ok = call[c].ok
  BY <1>1, <1>3, <1>4, ToFacts
<1>6. QED
  BY <1>1, <1>3, <1>5

\* The refresh token is written, and the call is sent again or the login answered.
LEMMA SaveRefreshFacts ==
    ASSUME Typed, NEW c \in Calls, SaveRefresh(c)
    PROVE /\ Typed' /\ Others(c)
          /\ call[c].pc = "save.refresh"
          /\ call'[c].pc = IF call[c].ok THEN "answered" ELSE "sent"
          /\ call'[c].kind = call[c].kind /\ call'[c].ok = call[c].ok
          /\ stored'["access"] = stored["access"] /\ stored'["refresh"] = call[c].got
          /\ UNCHANGED <<server, stale, access, app, promise, post, kills>>
<1>1. /\ UNCHANGED <<server, stale, access, app, promise, post, kills>>
      /\ stored' = [stored EXCEPT !["refresh"] = call[c].got] /\ call[c].pc = "save.refresh"
  BY DEF SaveRefresh, Saved
<1>2. PICK i : i = call[c]
  OBVIOUS
<1>3. /\ stored \in [{"access", "refresh"} -> issued \cup {NoToken}] /\ i.got \in issued \cup {NoToken}
      /\ CallTyped(i) /\ access \in issued \cup {NoToken} /\ issued \subseteq Server!Token
  BY <1>2 DEF Typed, ClientTypeOK, CallTyped
<1>4. /\ stored' \in [{"access", "refresh"} -> issued \cup {NoToken}]
      /\ stored'["access"] = stored["access"] /\ stored'["refresh"] = i.got
  BY <1>1, <1>2, <1>3
<1>5. PICK pc \in {"answered", "sent"} : pc = IF i.ok THEN "answered" ELSE "sent"
  OBVIOUS
<1>6. PICK bearer \in Held : bearer = IF access = NoToken THEN i.got ELSE access
  BY <1>3 DEF Held
<1>7. PICK j : j = [i EXCEPT !.pc = pc, !.bearer = bearer, !.got = NoToken]
  OBVIOUS
<1>8. CallTyped(j) /\ j.pc = pc /\ j.kind = i.kind /\ j.ok = i.ok
  BY <1>3, <1>7 DEF CallTyped, Call, Held
<1>9. Moves(c, j)
  BY <1>2, <1>5, <1>6, <1>7 DEF SaveRefresh, Moves
<1>10. Typed' /\ \A d \in Calls : call'[d] = IF d = c THEN j ELSE call[d]
  BY <1>1, <1>4, <1>8, <1>9, OneMoves DEF server, Typed, ClientTypeOK
<1>11. QED
  BY <1>1, <1>2, <1>4, <1>5, <1>8, <1>10 DEF Others

\* The keys are deleted.
LEMMA ForgetFacts ==
    ASSUME Typed, NEW c \in Calls, Forget(c)
    PROVE /\ Typed' /\ Others(c)
          /\ stored'["access"] = NoToken /\ stored'["refresh"] = NoToken
          /\ UNCHANGED <<server, stale, access, promise, post, kills>>
          /\ \/ /\ call[c].pc = "forget" /\ call'[c].pc = "answered"
                /\ call'[c].kind = call[c].kind
                /\ app' = IF app = "signedIn" THEN "signedOut" ELSE app
             \/ call[c].pc = "signout" /\ call'[c].pc = "idle" /\ app' = "signedOut"
<1>1. /\ UNCHANGED <<server, stale, access, promise, post, kills>>
      /\ stored' = [stored EXCEPT !["access"] = NoToken, !["refresh"] = NoToken]
  BY DEF Forget
<1>2. /\ stored \in [{"access", "refresh"} -> issued \cup {NoToken}]
      /\ access \in issued \cup {NoToken} /\ app \in {"closed", "booting", "signedOut", "signedIn"}
  BY DEF Typed, ClientTypeOK
<1>3. /\ stored' \in [{"access", "refresh"} -> issued \cup {NoToken}]
      /\ stored'["access"] = NoToken /\ stored'["refresh"] = NoToken
  BY <1>1, <1>2
<1>4. UNCHANGED <<issued, live, stale, promise, post, kills>> /\ access' \in issued \cup {NoToken}
  BY <1>1, <1>2 DEF server
<1>5. CASE /\ call[c].pc = "forget" /\ To(c, "answered")
           /\ app' = IF app = "signedIn" THEN "signedOut" ELSE app
  <2>1. app' \in {"closed", "booting", "signedOut", "signedIn"}
    BY <1>2, <1>5
  <2>2. Typed' /\ Others(c) /\ call'[c].pc = "answered" /\ call'[c].kind = call[c].kind
    BY <1>3, <1>4, <1>5, <2>1, ToFacts
  <2>3. QED
    BY <1>1, <1>3, <1>5, <2>2
<1>6. CASE call[c].pc = "signout" /\ call' = [call EXCEPT ![c] = Idle] /\ app' = "signedOut"
  <2>1. Typed' /\ Others(c) /\ call'[c].pc = "idle"
    BY <1>3, <1>4, <1>6, EndFacts
  <2>2. QED
    BY <1>1, <1>3, <1>6, <2>1
<1>7. QED
  BY <1>5, <1>6 DEF Forget

\* AuthContext goes on with an answer: the user is signed in, or out, or neither.
LEMMA FinishFacts ==
    ASSUME Typed, NEW c \in Calls, Finish(c)
    PROVE /\ Typed' /\ Others(c) /\ call[c].pc = "answered"
          /\ UNCHANGED <<server, stale, stored, promise, post, kills>>
          /\ \/ /\ call[c].kind \in {"login", "me"} /\ call[c].ok
                /\ call'[c].pc = "idle" /\ app' = "signedIn" /\ UNCHANGED access
             \/ /\ SignsOut(c) /\ call'[c].pc = "signout" /\ call'[c].kind = call[c].kind
                /\ access' = NoToken /\ UNCHANGED app
             \/ /\ call[c].kind = "screen" \/ (call[c].kind = "login" /\ ~call[c].ok)
                /\ call'[c].pc = "idle" /\ UNCHANGED <<access, app>>
<1>1. UNCHANGED <<server, stale, stored, promise, post, kills>> /\ call[c].pc = "answered"
  BY DEF Finish
<1>2. /\ UNCHANGED <<issued, live, stale, promise, post, kills>> /\ live' \subseteq live
      /\ stored' \in [{"access", "refresh"} -> issued \cup {NoToken}]
      /\ access \in issued \cup {NoToken} /\ app \in {"closed", "booting", "signedOut", "signedIn"}
  BY <1>1 DEF server, Typed, ClientTypeOK
<1>3. CASE SignIn(c)
  <2>1. /\ call[c].kind \in {"login", "me"} /\ call[c].ok
        /\ call' = [call EXCEPT ![c] = Idle] /\ app' = "signedIn" /\ UNCHANGED access
    BY <1>3 DEF SignIn
  <2>2. Typed' /\ Others(c) /\ call'[c].pc = "idle"
    BY <1>2, <2>1, EndFacts
  <2>3. QED
    BY <1>1, <2>1, <2>2
<1>4. CASE SignOut(c)
  <2>1. SignsOut(c) /\ To(c, "signout") /\ access' = NoToken /\ UNCHANGED app
    BY <1>4 DEF SignOut
  <2>2. Typed' /\ Others(c) /\ call'[c].pc = "signout" /\ call'[c].kind = call[c].kind
    BY <1>2, <2>1, ToFacts
  <2>3. QED
    BY <1>1, <2>1, <2>2
<1>5. CASE GoOn(c)
  <2>1. /\ call[c].kind = "screen" \/ (call[c].kind = "login" /\ ~call[c].ok)
        /\ call' = [call EXCEPT ![c] = Idle] /\ UNCHANGED <<access, app>>
    BY <1>5 DEF GoOn
  <2>2. Typed' /\ Others(c) /\ call'[c].pc = "idle"
    BY <1>2, <2>1, EndFacts
  <2>3. QED
    BY <1>1, <2>1, <2>2
<1>6. QED
  BY <1>3, <1>4, <1>5 DEF Finish

\* The server signs a token: it is the one that was not there, and nothing but its
\* parent is spent.
LEMMA SignsOne ==
    ASSUME Typed, NEW new \in Server!Token, Server!IsNext(new.jti),
           issued' = issued \cup {new},
           new.parent = Server!NoParent \/ \E t \in issued : new.parent = t.jti,
           \A t \in live' : t = new \/ (t \in live /\ t.jti # new.parent)
    PROVE Signed = new /\ new \notin issued /\ new # NoToken /\ Numbered' /\ live' \subseteq issued'
<1>1. /\ issued \subseteq Server!Token /\ live \subseteq issued
      /\ \A s, t \in issued : s.jti = t.jti => s = t
      /\ \A s \in issued : s.parent = Server!NoParent \/ \E t \in issued : s.parent = t.jti
      /\ \A t \in live : Unspent(t)
  BY DEF Typed, ClientTypeOK, Numbered
<1>2. new \notin issued /\ \A s \in issued : s.jti # new.jti
  BY DEF Server!IsNext
<1>3. Signed = new
  BY <1>2 DEF Signed
<1>4. new.jti \in Nat /\ new # NoToken
  BY MobileClientAssumption DEF Server!Token
<1>5. new.parent # new.jti
  BY <1>2, <1>4 DEF Server!NoParent
<1>6. /\ \A s, t \in issued' : s.jti = t.jti => s = t
      /\ \A s \in issued' : s.parent = Server!NoParent \/ \E t \in issued' : s.parent = t.jti
  BY <1>1, <1>2
<1>7. ASSUME NEW t \in live' PROVE Unspent(t)'
  <2>1. CASE t = new
    <3>1. \A s \in issued : s.parent # new.jti
      BY <1>1, <1>2, <1>4 DEF Server!NoParent
    <3>2. QED
      BY <1>5, <2>1, <3>1 DEF Unspent
  <2>2. CASE t \in live /\ t.jti # new.parent
    BY <1>1, <2>2 DEF Unspent
  <2>3. QED
    BY <2>1, <2>2
<1>8. Numbered'
  BY <1>6, <1>7 DEF Numbered
<1>9. live' \subseteq issued'
  BY <1>1
<1>10. QED
  BY <1>2, <1>3, <1>4, <1>8, <1>9

\* The rest is typed when a token was signed.
LEMMA TypedGrows ==
    ASSUME Typed, Numbered', issued \subseteq issued', issued' \subseteq Server!Token,
           live' \subseteq issued', UNCHANGED <<stale, stored, app, promise, kills>>,
           access' \in issued' \cup {NoToken},
           call' \in [Calls -> Call], \A d \in Calls : CallTyped(call[d])',
           post' \in [Calls -> Post], \A d \in Calls : PostTyped(post[d])'
    PROVE Typed'
<1>1. ClientTypeOK'
  <2>1. stored' \in [{"access", "refresh"} -> issued' \cup {NoToken}]
    BY DEF Typed, ClientTypeOK
  <2>2. QED
    BY <2>1 DEF Typed, ClientTypeOK, CallTyped
<1>2. QED
  BY <1>1 DEF Typed

\* A login is answered with a token, which client.js holds first of all.
LEMMA ServeLoginFacts ==
    ASSUME Typed, NEW c \in Calls, ServeLogin(c)
    PROVE /\ Typed' /\ Others(c)
          /\ call[c].pc = "sent" /\ call[c].kind = "login"
          /\ call'[c].pc = "save.access" /\ call'[c].kind = "login" /\ call'[c].ok
          /\ call'[c].got = access' /\ access' \in live'
          /\ UNCHANGED <<stale, stored, app, promise, post, kills>>
<1>1. PICK i : i = call[c]
  OBVIOUS
<1>2. CallTyped(i) /\ i.kind = "login" /\ i.arg \in Users /\ i.pc = "sent"
  BY <1>1 DEF ServeLogin, Accepted, Typed, CallTyped
<1>3. PICK new \in Server!Token :
        /\ new.parent = Server!NoParent /\ Server!IsNext(new.jti)
        /\ issued' = issued \cup {new} /\ live' = live \cup {new}
  <2>1. PICK jti \in 0 .. MaxTokens :
          LET new == Server!NewToken(jti, i.arg, Server!NoParent) IN
            /\ Server!IsNext(jti) /\ issued' = issued \cup {new} /\ live' = live \cup {new}
    BY <1>1 DEF ServeLogin, Server!Login
  <2> DEFINE new == Server!NewToken(jti, i.arg, Server!NoParent)
  <2>2. new \in Server!Token /\ new.jti = jti /\ new.parent = Server!NoParent
    BY <1>2, MobileClientAssumption DEF Server!NewToken, Server!Token
  <2>3. QED
    BY <2>1, <2>2
<1>4. Signed = new /\ new # NoToken /\ Numbered' /\ live' \subseteq issued'
  <2>1. \A t \in live : t.jti # new.parent
    BY <1>3 DEF Typed, ClientTypeOK, Server!Token, Server!NoParent
  <2>2. \A t \in live' : t = new \/ (t \in live /\ t.jti # new.parent)
    BY <1>3, <2>1
  <2>3. QED
    BY <1>3, <2>2, SignsOne
<1>5. PICK j : j = [i EXCEPT !.pc = "save.access", !.got = new, !.ok = TRUE]
  OBVIOUS
<1>6. /\ CallTyped(j)' /\ j.pc = "save.access" /\ j.got = new /\ j.kind = "login" /\ j.ok
  BY <1>2, <1>3, <1>5 DEF CallTyped, Call, Held
<1>7. Moves(c, j) /\ access' = new /\ UNCHANGED <<stale, stored, app, promise, post, kills>>
  BY <1>1, <1>4, <1>5 DEF ServeLogin, Moves
<1>8. /\ call' \in [Calls -> Call] /\ \A d \in Calls : CallTyped(call[d])'
      /\ \A d \in Calls : call'[d] = IF d = c THEN j ELSE call[d]
  <2>1. issued \subseteq issued'
    BY <1>3
  <2>2. QED
    BY <1>6, <1>7, <2>1, MovesTyped
<1>9. post' \in [Calls -> Post] /\ \A d \in Calls : PostTyped(post[d])'
  BY <1>3, <1>7 DEF Typed, ClientTypeOK, PostTyped
<1>10. Typed'
  <2>1. issued \subseteq issued' /\ issued' \subseteq Server!Token /\ access' \in issued' \cup {NoToken}
    BY <1>3, <1>7 DEF Typed, ClientTypeOK
  <2>2. QED
    BY <1>4, <1>7, <1>8, <1>9, <2>1, TypedGrows
<1>11. QED
  BY <1>1, <1>2, <1>3, <1>6, <1>7, <1>8, <1>10 DEF Others

\* A refresh with a live token is answered with its successor, any other one with an
\* error.
LEMMA ServeRefreshFacts ==
    ASSUME Typed, NEW c \in Calls, ServeRefresh(c)
    PROVE /\ Typed' /\ post[c].state = "sent"
          /\ \A d \in Calls : d # c => post'[d] = post[d]
          /\ \/ post'[c].state = "done" /\ post'[c].got \in live'
             \/ post'[c].state = "failed"
          /\ UNCHANGED <<stale, stored, access, app, promise, call, kills>>
<1>1. PICK o : o = post[c]
  OBVIOUS
<1>2. PostTyped(o) /\ o.state = "sent"
  BY <1>1 DEF Typed, ServeRefresh
<1>3. UNCHANGED <<stale, stored, access, app, promise, call, kills>>
  BY DEF ServeRefresh
<1>4. /\ post \in [Calls -> Post] /\ \A d \in Calls : PostTyped(post[d])
      /\ call \in [Calls -> Call] /\ \A d \in Calls : CallTyped(call[d])
      /\ live \subseteq issued /\ issued \subseteq Server!Token
      /\ access \in issued \cup {NoToken}
  BY DEF Typed, ClientTypeOK
<1>5. CASE o.token \in live
  <2>1. PICK new \in Server!Token :
          /\ new.parent = o.token.jti /\ Server!IsNext(new.jti)
          /\ issued' = issued \cup {new} /\ live' = (live \ {o.token}) \cup {new}
    <3>1. PICK jti \in 0 .. MaxTokens :
            LET new == Server!NewToken(jti, o.token.user, o.token.jti) IN
              /\ Server!IsNext(jti) /\ issued' = issued \cup {new}
              /\ live' = (live \ {o.token}) \cup {new}
      BY <1>1, <1>5 DEF ServeRefresh, Server!Rotate
    <3> DEFINE new == Server!NewToken(jti, o.token.user, o.token.jti)
    <3>2. new \in Server!Token /\ new.jti = jti /\ new.parent = o.token.jti
      BY <1>4, <1>5, MobileClientAssumption DEF Server!NewToken, Server!Token
    <3>3. QED
      BY <3>1, <3>2
  <2>2. Signed = new /\ Numbered' /\ live' \subseteq issued'
    <3>1. \A t \in live : t # o.token => t.jti # new.parent
      BY <1>4, <1>5, <2>1 DEF Typed, Numbered
    <3>2. \A t \in live' : t = new \/ (t \in live /\ t.jti # new.parent)
      BY <2>1, <3>1
    <3>3. \E t \in issued : new.parent = t.jti
      BY <1>4, <1>5, <2>1
    <3>4. QED
      BY <2>1, <3>2, <3>3, SignsOne
  <2>3. PICK q : q = [o EXCEPT !.state = "done", !.got = new]
    OBVIOUS
  <2>4. q \in Post /\ q.state = "done" /\ q.got = new
    BY <1>2, <2>1, <2>3 DEF PostTyped, Post, Held
  <2>5. post' = [post EXCEPT ![c] = q]
    BY <1>1, <1>5, <2>2, <2>3 DEF ServeRefresh
  <2>6. /\ post' \in [Calls -> Post] /\ \A d \in Calls : PostTyped(post[d])'
        /\ \A d \in Calls : post'[d] = IF d = c THEN q ELSE post[d]
    BY <1>4, <2>1, <2>4, <2>5 DEF PostTyped
  <2>7. call' \in [Calls -> Call] /\ \A d \in Calls : CallTyped(call[d])'
    BY <1>3, <1>4, <2>1 DEF CallTyped
  <2>8. Typed'
    <3>1. issued \subseteq issued' /\ issued' \subseteq Server!Token /\ access' \in issued' \cup {NoToken}
      BY <1>3, <1>4, <2>1
    <3>2. QED
      BY <1>3, <2>2, <2>6, <2>7, <3>1, TypedGrows
  <2>9. QED
    BY <1>1, <1>2, <1>3, <2>1, <2>4, <2>6, <2>8
<1>6. CASE o.token \notin live
  <2>1. post' = [post EXCEPT ![c].state = "failed"] /\ live' \subseteq live /\ UNCHANGED issued
    BY <1>1, <1>6 DEF ServeRefresh, Server!RetireAll
  <2>2. /\ Typed' /\ post'[c].state = "failed"
        /\ \A d \in Calls : d # c => post'[d] = post[d]
    BY <1>3, <2>1, PostFails
  <2>3. QED
    BY <1>1, <1>2, <1>3, <2>2
<1>7. QED
  BY <1>5, <1>6

\* The system kills the app.
LEMMA KillFacts ==
    ASSUME Typed, Kill PROVE Typed' /\ kills' # 0
<1>1. PICK j, q : j = Idle /\ q = NoPost
  OBVIOUS
<1>2. CallTyped(j) /\ PostTyped(q)
  BY <1>1, IdleTyped
<1>3. /\ kills' = kills + 1 /\ kills < MaxKills /\ kills \in 0 .. MaxKills
      /\ app' = "closed" /\ access' = NoToken /\ promise' = NoCall
      /\ call' = [c \in Calls |-> j] /\ post' = [c \in Calls |-> q]
      /\ UNCHANGED <<issued, live, stale, stored>>
  BY <1>1 DEF Kill, server, Typed, ClientTypeOK
<1>4. /\ call' \in [Calls -> Call] /\ \A d \in Calls : CallTyped(call[d])'
      /\ post' \in [Calls -> Post] /\ \A d \in Calls : PostTyped(post[d])'
  BY <1>2, <1>3 DEF CallTyped, PostTyped
<1>5. kills' \in 0 .. MaxKills /\ kills' # 0
  BY <1>3, MobileClientAssumption
<1>6. Typed'
  BY <1>3, <1>4, <1>5, TypedStep DEF Typed, ClientTypeOK
<1>7. QED
  BY <1>5, <1>6

\* The user opens the app again.
LEMMA LaunchFacts ==
    ASSUME Typed, NEW c \in Calls, Launch(c) PROVE Typed' /\ app = "closed"
<1>1. /\ UNCHANGED <<server, stale, stored, promise, post, kills>>
      /\ access' = stored["access"] /\ app = "closed"
  BY DEF Launch
<1>2. access' \in issued \cup {NoToken} /\ issued \subseteq Server!Token
  BY <1>1 DEF Typed, ClientTypeOK
<1>3. CASE access' = NoToken
  <2>1. app' = "signedOut" /\ UNCHANGED call
    BY <1>3 DEF Launch
  <2>2. /\ call' \in [Calls -> Call] /\ \A d \in Calls : CallTyped(call[d])'
        /\ post' \in [Calls -> Post] /\ \A d \in Calls : PostTyped(post[d])'
    BY <1>1, <2>1 DEF Typed, ClientTypeOK, CallTyped, PostTyped, server
  <2>3. Typed'
    BY <1>1, <1>2, <2>1, <2>2, TypedStep DEF Typed, ClientTypeOK, server
  <2>4. QED
    BY <1>1, <2>3
<1>4. CASE access' # NoToken
  <2>1. PICK i, a : i = Idle /\ a = access'
    OBVIOUS
  <2>2. CallTyped(i) /\ i.got = NoToken
    BY <2>1, IdleTyped
  <2>3. PICK j : j = [i EXCEPT !.pc = "sent", !.kind = "me", !.bearer = a]
    OBVIOUS
  <2>4. i.arg = NoToken
    BY <2>1 DEF Idle
  <2>5. CallTyped(j)
    BY <1>2, <2>1, <2>2, <2>3, <2>4 DEF CallTyped, Call, Held
  <2>6. Moves(c, j) /\ app' = "booting"
    BY <1>4, <2>1, <2>3 DEF Launch, Moves
  <2>7. Typed'
    BY <1>1, <1>2, <2>5, <2>6, OneMoves DEF Typed, ClientTypeOK, server
  <2>8. QED
    BY <1>1, <2>7
<1>5. QED
  BY <1>3, <1>4

\* The client starts without tokens and calls.
LEMMA InitTyped == ClientInit => Typed /\ Undisturbed
<1> SUFFICES ASSUME ClientInit PROVE Typed /\ Undisturbed
  OBVIOUS
<1>1. PICK j, q : j = Idle /\ q = NoPost
  OBVIOUS
<1>2. CallTyped(j) /\ PostTyped(q) /\ j.pc = "idle" /\ q.state = "none"
  BY <1>1, IdleTyped
<1>3. /\ issued = {} /\ live = {} /\ stale = {} /\ access = NoToken /\ app = "signedOut"
      /\ promise = NoCall /\ kills = 0
      /\ stored = [key \in {"access", "refresh"} |-> NoToken]
      /\ call = [c \in Calls |-> j] /\ post = [c \in Calls |-> q]
  BY <1>1 DEF ClientInit, Server!Init, NothingStored
<1>4. Numbered
  BY <1>3 DEF Numbered
<1>5. ClientTypeOK
  <2>1. kills \in 0 .. MaxKills
    BY <1>3, MobileClientAssumption
  <2>2. \A c \in Calls : call[c].pc = "waiting" => call[c].awaits \in Calls
    BY <1>2, <1>3
  <2>3. QED
    BY <1>2, <1>3, <2>1, <2>2 DEF ClientTypeOK, CallTyped, PostTyped
<1>6. Typed
  BY <1>2, <1>3, <1>4, <1>5 DEF Typed
<1>7. Undisturbed
  BY <1>2, <1>3 DEF Undisturbed, Stage, Settled, Empty
<1>8. QED
  BY <1>6, <1>7

\* A request is sent, or a logout begins.
LEMMA BeginFacts ==
    ASSUME Typed, NEW c \in Calls,
           SendScreen(c) \/ StartLogout(c) \/ \E u \in Users : SendLogin(c, u)
    PROVE /\ Typed' /\ Others(c)
          /\ call[c].pc = "idle" /\ call'[c].bearer = access /\ ~call'[c].ok
          /\ \/ app = "signedIn" /\ call'[c].kind = "screen" /\ call'[c].pc = "sent"
             \/ app = "signedIn" /\ call'[c].kind = "logout" /\ call'[c].pc = "load"
             \/ app = "signedOut" /\ call'[c].kind = "login" /\ call'[c].pc = "sent"
          /\ UNCHANGED <<server, stale, stored, access, app, promise, post, kills>>
<1>1. CASE SendScreen(c)
  <2>1. app = "signedIn" /\ Start(c, "screen", "sent", NoToken)
    BY <1>1 DEF SendScreen
  <2>2. QED
    BY <2>1, StartFacts
<1>2. CASE StartLogout(c)
  <2>1. app = "signedIn" /\ Start(c, "logout", "load", NoToken)
    BY <1>2 DEF StartLogout
  <2>2. QED
    BY <2>1, StartFacts
<1>3. ASSUME NEW u \in Users, SendLogin(c, u) PROVE app = "signedOut" /\ Start(c, "login", "sent", u)
  BY <1>3 DEF SendLogin
<1>4. CASE \E u \in Users : SendLogin(c, u)
  BY <1>3, <1>4, StartFacts
<1>5. QED
  BY <1>1, <1>2, <1>4

\* A call is refused as expired, fails, or is given up after its second refusal.
LEMMA RefusedFacts ==
    ASSUME Typed, NEW c \in Calls, RefuseExpired(c) \/ Fail(c) \/ RejectRetried(c)
    PROVE /\ Typed' /\ Others(c)
          /\ call'[c].kind = call[c].kind /\ call'[c].ok = call[c].ok
          /\ UNCHANGED <<server, stale, stored, access, app, promise, post, kills>>
          /\ \/ call[c].pc = "sent" /\ call'[c].pc = "expired" /\ call[c].bearer \in stale
             \/ call[c].pc \in {"sent", "expired"} /\ call'[c].pc = "answered"
<1>1. PICK pc \in {"expired", "answered"} :
        /\ To(c, pc) /\ UNCHANGED <<server, stale, stored, access, app, promise, post, kills>>
        /\ \/ call[c].pc = "sent" /\ pc = "expired" /\ call[c].bearer \in stale
           \/ call[c].pc \in {"sent", "expired"} /\ pc = "answered"
  BY DEF RefuseExpired, Fail, RejectRetried
<1>2. /\ UNCHANGED <<issued, stale, promise, post, kills>> /\ live' \subseteq live
      /\ stored' \in [{"access", "refresh"} -> issued \cup {NoToken}]
      /\ access' \in issued \cup {NoToken}
      /\ app' \in {"closed", "booting", "signedOut", "signedIn"}
  BY <1>1 DEF server, Typed, ClientTypeOK
<1>3. /\ Typed' /\ Others(c)
      /\ call'[c].pc = pc /\ call'[c].kind = call[c].kind /\ call'[c].ok = call[c].ok
  BY <1>1, <1>2, ToFacts
<1>4. QED
  BY <1>1, <1>3

\* A refresh is lost on its way.
LEMMA LoseFacts ==
    ASSUME Typed, NEW c \in Calls, LoseRefresh(c)
    PROVE /\ Typed' /\ post'[c].state = "failed" /\ post[c].state \in {"sent", "done"}
          /\ \A d \in Calls : d # c => post'[d] = post[d]
          /\ UNCHANGED <<server, stale, stored, access, app, promise, call, kills>>
<1>1. /\ UNCHANGED <<server, stale, stored, access, app, promise, call, kills>>
      /\ post[c].state \in {"sent", "done"} /\ post' = [post EXCEPT ![c].state = "failed"]
  BY DEF LoseRefresh
<1>2. live' \subseteq live /\ UNCHANGED <<issued, stale, stored, access, app, promise, call, kills>>
  BY <1>1 DEF server
<1>3. QED
  BY <1>1, <1>2, PostFails

\* Steps of time.
LEMMA ExpireFacts ==
    ASSUME Typed, NEW t \in issued, Expire(t)
    PROVE Typed' /\ UNCHANGED <<server, stored, access, app, promise, call, post, kills>>
<1>1. /\ UNCHANGED <<server, stored, access, app, promise, call, post, kills>>
      /\ stale' = stale \cup {t}
  BY DEF Expire
<1>2. /\ call' \in [Calls -> Call] /\ \A d \in Calls : CallTyped(call[d])'
      /\ post' \in [Calls -> Post] /\ \A d \in Calls : PostTyped(post[d])'
      /\ issued' = issued /\ live' \subseteq live /\ stale' \subseteq issued
  BY <1>1 DEF Typed, ClientTypeOK, CallTyped, PostTyped, server
<1>3. Typed'
  BY <1>1, <1>2, TypedStep DEF Typed, ClientTypeOK
<1>4. QED
  BY <1>1, <1>3

\* Every step keeps the types, however many calls are under way.
LEMMA NextTyped == Typed /\ [ClientNext]_clientVars => Typed'
<1> SUFFICES ASSUME Typed, [ClientNext]_clientVars PROVE Typed'
  OBVIOUS
<1>1. CASE UNCHANGED clientVars
  BY <1>1 DEF clientVars, Typed, ClientTypeOK, CallTyped, PostTyped, Numbered, Unspent
<1>2. ASSUME NEW c \in Calls, SendScreen(c) \/ StartLogout(c) \/ \E u \in Users : SendLogin(c, u)
      PROVE Typed'
  BY <1>2, BeginFacts
<1>3. ASSUME NEW c \in Calls, Answered(c) PROVE Typed'
  BY <1>3, RefusedFacts, ServeFacts, ServeLoginFacts DEF Answered
<1>4. ASSUME NEW c \in Calls, Refreshed(c) PROVE Typed'
  BY <1>4, ServeRefreshFacts, LoseFacts DEF Refreshed
<1>5. ASSUME NEW c \in Calls, Callback(c) PROVE Typed'
  BY <1>5, LoadFacts, RefusedFacts, SendLogoutFacts, RefreshFacts, NothingFacts, SettleFacts,
     SaveAccessFacts, SaveRefreshFacts, ForgetFacts, FinishFacts DEF Callback
<1>6. QED
  BY <1>1, <1>2, <1>3, <1>4, <1>5, LaunchFacts, KillFacts, ExpireFacts DEF ClientNext

\* Variables keep their types, however calls overlap and whenever the app is killed.
THEOREM TypeCorrect == ClientSpec => []ClientTypeOK
<1>1. Typed => ClientTypeOK
  BY DEF Typed
<1>2. QED
  BY <1>1, InitTyped, NextTyped, PTL DEF ClientSpec

-----------------------------------------------------------------------------
(* One call at a time, in an app that was not killed. *)

\* While a call is under way, no other one is, before or after its step.
LEMMA Alone ==
    ASSUME OneAtATime, OneAtATime', NEW c \in Calls, Others(c),
           call[c].pc # "idle" \/ call'[c].pc # "idle"
    PROVE \A d \in Calls : d # c => call[d].pc = "idle" /\ call'[d].pc = "idle"
BY DEF OneAtATime, Others

\* Then only its own stage matters, and what it leaves if it ends.
LEMMA OwnStage ==
    ASSUME Undisturbed, NEW c \in Calls,
           \A d \in Calls : d # c => call[d].pc = "idle" /\ call'[d].pc = "idle",
           \A d \in Calls : d # c => post'[d] = post[d],
           Stage(c)', call'[c].pc = "idle" => promise' = NoCall /\ Settled'
    PROVE Undisturbed'
<1>1. \A d \in Calls : Stage(d)'
  BY DEF Undisturbed, Stage
<1>2. (\A d \in Calls : call'[d].pc = "idle") => promise' = NoCall /\ Settled'
  OBVIOUS
<1>3. QED
  BY <1>1, <1>2 DEF Undisturbed

\* Who is neither is not launched.
LEMMA AppIsOpen ==
    ASSUME Undisturbed PROVE app \in {"signedIn", "signedOut"}
<1>1. CASE \A c \in Calls : call[c].pc = "idle"
  BY <1>1 DEF Undisturbed, Settled
<1>2. ASSUME NEW c \in Calls, call[c].pc # "idle" PROVE app \in {"signedIn", "signedOut"}
  <2>1. Stage(c)
    BY DEF Undisturbed
  <2>2. QED
    BY <1>2, <2>1 DEF Stage, LoginStage, SessionStage
<1>3. QED
  BY <1>1, <1>2

\* A live session is a token.
LEMMA SessionIsToken == ASSUME Typed, Session PROVE access # NoToken
BY MobileClientAssumption DEF Typed, ClientTypeOK, Session

\* Requests and logouts begin at rest.
LEMMA BeginKeeps ==
    ASSUME Typed, Undisturbed, OneAtATime, OneAtATime', NEW c \in Calls,
           SendScreen(c) \/ StartLogout(c) \/ \E u \in Users : SendLogin(c, u)
    PROVE Undisturbed'
<1>1. /\ Others(c) /\ call[c].pc = "idle" /\ call'[c].bearer = access /\ ~call'[c].ok
      /\ \/ app = "signedIn" /\ call'[c].kind = "screen" /\ call'[c].pc = "sent"
         \/ app = "signedIn" /\ call'[c].kind = "logout" /\ call'[c].pc = "load"
         \/ app = "signedOut" /\ call'[c].kind = "login" /\ call'[c].pc = "sent"
      /\ UNCHANGED <<live, stored, access, app, promise, post>>
  BY BeginFacts DEF server
<1>2. \A d \in Calls : d # c => call[d].pc = "idle" /\ call'[d].pc = "idle"
  BY <1>1, Alone
<1>3. promise = NoCall /\ Settled /\ Stage(c)
  BY <1>1, <1>2 DEF Undisturbed
<1>4. Stage(c)'
  BY <1>1, <1>3
     DEF Stage, LoginStage, SessionStage, PostStage, SaveStage, Settled, Session, Empty
<1>5. QED
  BY <1>1, <1>2, <1>4, OwnStage

\* What a refused or failing call leaves.
LEMMA RefusedKeeps ==
    ASSUME Typed, Undisturbed, OneAtATime, OneAtATime', NEW c \in Calls,
           RefuseExpired(c) \/ Fail(c) \/ RejectRetried(c)
    PROVE Undisturbed'
<1>1. /\ Others(c) /\ call'[c].kind = call[c].kind /\ call'[c].ok = call[c].ok
      /\ UNCHANGED <<live, stored, access, app, promise, post>>
      /\ \/ call[c].pc = "sent" /\ call'[c].pc = "expired" /\ call[c].bearer \in stale
         \/ call[c].pc \in {"sent", "expired"} /\ call'[c].pc = "answered"
  BY RefusedFacts DEF server
<1>2. \A d \in Calls : d # c => call[d].pc = "idle" /\ call'[d].pc = "idle"
  BY <1>1, Alone
<1>3. Stage(c) /\ call[c].pc # "idle"
  BY <1>1 DEF Undisturbed
<1>4. call[c].bearer \in stale => call[c].bearer # NoToken
  BY MobileClientAssumption DEF Typed, ClientTypeOK
<1>5. Stage(c)'
  <2>1. CASE call[c].kind = "login"
    <3>1. LoginStage(call[c]) /\ PostStage(c, call[c], post[c])
      BY <1>3, <2>1 DEF Stage
    <3>2. call[c].pc = "sent" /\ call'[c].pc = "answered" /\ Empty /\ ~call[c].ok
      BY <1>1, <1>4, <3>1 DEF LoginStage
    <3>3. QED
      BY <1>1, <2>1, <3>1, <3>2
         DEF Stage, LoginStage, PostStage, SaveStage, Empty
  <2>2. CASE call[c].kind # "login"
    <3>1. SessionStage(call[c]) /\ PostStage(c, call[c], post[c])
      BY <1>3, <2>2 DEF Stage
    <3>2. QED
      BY <1>1, <2>2, <3>1
         DEF Stage, SessionStage, PostStage, SaveStage, Session, Settled
  <2>3. QED
    BY <2>1, <2>2
<1>6. QED
  BY <1>1, <1>2, <1>5, OwnStage

\* A screen is served with its session, which only a logout ends.
LEMMA ServeKeeps ==
    ASSUME Typed, Undisturbed, OneAtATime, OneAtATime', NEW c \in Calls, Serve(c)
    PROVE Undisturbed'
<1>1. /\ Others(c) /\ call[c].pc = "sent" /\ call[c].kind # "login"
      /\ call'[c].pc = "answered" /\ call'[c].kind = call[c].kind
      /\ UNCHANGED <<stored, access, app, promise, post>>
      /\ call[c].kind = "screen" => UNCHANGED live
  BY ServeFacts
<1>2. \A d \in Calls : d # c => call[d].pc = "idle" /\ call'[d].pc = "idle"
  BY <1>1, Alone
<1>3. SessionStage(call[c]) /\ PostStage(c, call[c], post[c])
  BY <1>1 DEF Undisturbed, Stage
<1>4. Stage(c)'
  BY <1>1, <1>3 DEF Stage, SessionStage, PostStage, SaveStage, Session, Settled
<1>5. QED
  BY <1>1, <1>2, <1>4, OwnStage

\* A login holds its token before it is written.
LEMMA ServeLoginKeeps ==
    ASSUME Typed, Undisturbed, OneAtATime, OneAtATime', NEW c \in Calls, ServeLogin(c)
    PROVE Undisturbed'
<1>1. /\ Others(c) /\ call[c].pc = "sent" /\ call[c].kind = "login"
      /\ call'[c].pc = "save.access" /\ call'[c].kind = "login" /\ call'[c].ok
      /\ call'[c].got = access' /\ access' \in live'
      /\ UNCHANGED <<stored, app, promise, post>>
  BY ServeLoginFacts
<1>2. \A d \in Calls : d # c => call[d].pc = "idle" /\ call'[d].pc = "idle"
  BY <1>1, Alone
<1>3. LoginStage(call[c]) /\ PostStage(c, call[c], post[c])
  BY <1>1 DEF Undisturbed, Stage
<1>4. Stage(c)'
  BY <1>1, <1>3 DEF Stage, LoginStage, PostStage, SaveStage
<1>5. QED
  BY <1>1, <1>2, <1>4, OwnStage

\* The refresh of the only call is answered, or fails.
LEMMA RefreshedKeeps ==
    ASSUME Typed, Undisturbed, OneAtATime, OneAtATime', NEW c \in Calls, Refreshed(c)
    PROVE Undisturbed'
<1>1. /\ post[c].state \in {"sent", "done"}
      /\ \A d \in Calls : d # c => post'[d] = post[d]
      /\ \/ post'[c].state = "done" /\ post'[c].got \in live'
         \/ post'[c].state = "failed"
      /\ UNCHANGED <<stored, access, app, promise, call>>
  BY ServeRefreshFacts, LoseFacts DEF Refreshed
<1>2. Stage(c)
  BY DEF Undisturbed
<1>3. call[c].pc = "waiting" /\ call[c].kind # "login"
  BY <1>1, <1>2 DEF Stage, PostStage
<1>4. \A d \in Calls : d # c => call[d].pc = "idle" /\ call'[d].pc = "idle"
  BY <1>1, <1>3 DEF OneAtATime
<1>5. SessionStage(call[c]) /\ PostStage(c, call[c], post[c])
  BY <1>2, <1>3 DEF Stage
<1>6. Stage(c)'
  BY <1>1, <1>3, <1>5 DEF Stage, SessionStage, PostStage, SaveStage
<1>7. QED
  BY <1>1, <1>3, <1>4, <1>6, OwnStage

\* The session of memory is the one that is read.
LEMMA LoadKeeps ==
    ASSUME Typed, Undisturbed, OneAtATime, OneAtATime', NEW c \in Calls, Load(c)
    PROVE Undisturbed'
<1>1. /\ Others(c) /\ call[c].pc \in {"load", "expired"} /\ call'[c].pc = "loaded"
      /\ call'[c].kind = call[c].kind /\ call'[c].got = stored["refresh"]
      /\ UNCHANGED <<live, stored, access, app, promise, post>>
  BY LoadFacts DEF server
<1>2. \A d \in Calls : d # c => call[d].pc = "idle" /\ call'[d].pc = "idle"
  BY <1>1, Alone
<1>3. call[c].kind # "login" /\ SessionStage(call[c]) /\ PostStage(c, call[c], post[c])
  BY <1>1 DEF Undisturbed, Stage, LoginStage
<1>4. Stage(c)'
  BY <1>1, <1>3 DEF Stage, SessionStage, PostStage, SaveStage, Session
<1>5. QED
  BY <1>1, <1>2, <1>4, OwnStage

\* A logout sends it.
LEMMA SendLogoutKeeps ==
    ASSUME Typed, Undisturbed, OneAtATime, OneAtATime', NEW c \in Calls, SendLogout(c)
    PROVE Undisturbed'
<1>1. /\ Others(c) /\ call[c].pc = "loaded" /\ call[c].kind = "logout"
      /\ call'[c].pc \in {"answered", "sent"} /\ call'[c].kind = "logout"
      /\ UNCHANGED <<live, stored, access, app, promise, post>>
  BY SendLogoutFacts DEF server
<1>2. \A d \in Calls : d # c => call[d].pc = "idle" /\ call'[d].pc = "idle"
  BY <1>1, Alone
<1>3. SessionStage(call[c]) /\ PostStage(c, call[c], post[c])
  BY <1>1 DEF Undisturbed, Stage
<1>4. Stage(c)'
  BY <1>1, <1>3 DEF Stage, SessionStage, PostStage, SaveStage, Session
<1>5. QED
  BY <1>1, <1>2, <1>4, OwnStage

\* The only call posts a refresh of its own, with the token of the session.
LEMMA RefreshKeeps ==
    ASSUME Typed, Undisturbed, OneAtATime, OneAtATime', NEW c \in Calls, Refresh(c)
    PROVE Undisturbed'
<1>1. /\ Others(c) /\ call[c].pc = "loaded" /\ call'[c].pc = "waiting"
      /\ call'[c].kind = call[c].kind /\ call'[c].awaits = Joined(c) /\ promise' = Joined(c)
      /\ \A d \in Calls : d # c => post'[d] = post[d]
      /\ Joined(c) = c => post'[c].state = "sent" /\ post'[c].token = call[c].got
      /\ UNCHANGED <<live, stored, access, app>>
  BY RefreshFacts DEF server
<1>2. \A d \in Calls : d # c => call[d].pc = "idle" /\ call'[d].pc = "idle"
  BY <1>1, Alone
<1>3. call[c].kind # "login" /\ SessionStage(call[c]) /\ PostStage(c, call[c], post[c])
  BY <1>1 DEF Undisturbed, Stage, LoginStage
<1>4. Joined(c) = c
  BY <1>1, <1>3 DEF PostStage, Joined
<1>5. Session /\ call[c].got = access
  BY <1>1, <1>3 DEF SessionStage
<1>6. Stage(c)'
  BY <1>1, <1>3, <1>4, <1>5 DEF Stage, SessionStage, PostStage, SaveStage, Session
<1>7. QED
  BY <1>1, <1>2, <1>6, OwnStage

\* There is a token to refresh with.
LEMMA NothingNever ==
    ASSUME Typed, Undisturbed, NEW c \in Calls, NothingToRefresh(c) PROVE FALSE
<1>1. call[c].pc = "loaded" /\ call[c].got = NoToken
  BY NothingFacts
<1>2. call[c].kind # "login" /\ SessionStage(call[c])
  BY <1>1 DEF Undisturbed, Stage, LoginStage
<1>3. Session /\ call[c].got = access
  BY <1>1, <1>2 DEF SessionStage
<1>4. QED
  BY <1>1, <1>3, SessionIsToken

\* The only call goes on with the answer to its own refresh.
LEMMA SettleKeeps ==
    ASSUME Typed, Undisturbed, OneAtATime, OneAtATime', NEW c \in Calls, Resume(c) \/ GiveUp(c)
    PROVE Undisturbed'
<1>1. post[c].state \in {"done", "failed"}
  BY DEF Resume, GiveUp
<1>2. Stage(c)
  BY DEF Undisturbed
<1>3. call[c].pc = "waiting" /\ call[c].kind # "login"
  BY <1>1, <1>2 DEF Stage, PostStage
<1>4. SessionStage(call[c]) /\ PostStage(c, call[c], post[c]) /\ c \in Waiting(c)
  BY <1>2, <1>3 DEF Stage, PostStage, Waiting
<1>5. \A d \in Calls : d # c => call[d].pc = "idle"
  BY <1>3 DEF OneAtATime
<1>6. \A d \in Calls : d # c => d \notin Waiting(c)
  BY <1>5 DEF Waiting
<1>7. /\ \A d \in Calls : d # c => post'[d] = post[d] /\ call'[d] = call[d]
      /\ post'[c].state = "none" /\ promise' = NoCall
      /\ UNCHANGED <<live, stored, app>> /\ call'[c].kind = call[c].kind
      /\ \/ /\ post[c].state = "done" /\ access' = post[c].got
            /\ call'[c].pc = "save.access" /\ call'[c].got = post[c].got
         \/ access' = NoToken /\ call'[c].pc = "forget"
  BY <1>4, <1>6, SettleFacts DEF server
<1>8. Stage(c)'
  BY <1>3, <1>4, <1>7 DEF Stage, SessionStage, PostStage, SaveStage
<1>9. \A d \in Calls : d # c => call[d].pc = "idle" /\ call'[d].pc = "idle"
  BY <1>5, <1>7
<1>10. QED
  BY <1>7, <1>8, <1>9, OwnStage

\* The session of memory is written key by key.
LEMMA SaveKeeps ==
    ASSUME Typed, Undisturbed, OneAtATime, OneAtATime', NEW c \in Calls,
           SaveAccess(c) \/ SaveRefresh(c)
    PROVE Undisturbed'
<1>1. /\ Others(c) /\ call[c].pc \in {"save.access", "save.refresh"}
      /\ call'[c].kind = call[c].kind /\ call'[c].ok = call[c].ok
      /\ UNCHANGED <<live, access, app, promise, post>>
  BY SaveAccessFacts, SaveRefreshFacts DEF server
<1>2. \A d \in Calls : d # c => call[d].pc = "idle" /\ call'[d].pc = "idle"
  BY <1>1, Alone
<1>3. Stage(c)
  BY DEF Undisturbed
<1>4. PostStage(c, call[c], post[c]) /\ SaveStage(call[c])
  BY <1>1, <1>3 DEF Stage
<1>5. CASE SaveAccess(c)
  <2>1. /\ call'[c].pc = "save.refresh" /\ call'[c].got = call[c].got
        /\ stored'["access"] = call[c].got /\ call[c].pc = "save.access"
    BY <1>5, SaveAccessFacts
  <2>2. SaveStage(call[c])' /\ PostStage(c, call[c], post[c])'
    BY <1>1, <1>4, <2>1 DEF SaveStage, PostStage
  <2>3. call[c].kind = "login" => LoginStage(call[c])'
    BY <1>1, <1>3, <2>1 DEF Stage, LoginStage
  <2>4. call[c].kind # "login" => SessionStage(call[c])'
    BY <1>1, <1>3, <2>1 DEF Stage, SessionStage
  <2>5. Stage(c)'
    BY <1>1, <2>1, <2>2, <2>3, <2>4 DEF Stage
  <2>6. QED
    BY <1>1, <1>2, <2>1, <2>5, OwnStage
<1>6. CASE SaveRefresh(c)
  <2>1. /\ call'[c].pc = IF call[c].ok THEN "answered" ELSE "sent"
        /\ stored'["access"] = stored["access"] /\ stored'["refresh"] = call[c].got
        /\ call[c].pc = "save.refresh"
    BY <1>6, SaveRefreshFacts
  <2>2. Session'
    BY <1>1, <1>4, <2>1 DEF SaveStage, Session
  <2>3. SaveStage(call[c])' /\ PostStage(c, call[c], post[c])'
    BY <1>1, <1>4, <2>1 DEF SaveStage, PostStage
  <2>4. call[c].kind = "login" => LoginStage(call[c])'
    BY <1>1, <1>3, <2>1, <2>2 DEF Stage, LoginStage
  <2>5. call[c].kind # "login" => SessionStage(call[c])'
    BY <1>1, <1>3, <2>1, <2>2 DEF Stage, SessionStage, Settled
  <2>6. call'[c].pc # "idle"
    BY <2>1
  <2>7. Stage(c)'
    BY <1>1, <2>3, <2>4, <2>5, <2>6 DEF Stage
  <2>8. QED
    BY <1>1, <1>2, <2>6, <2>7, OwnStage
<1>7. QED
  BY <1>5, <1>6

\* A session that is forgotten is forgotten everywhere.
LEMMA ForgetKeeps ==
    ASSUME Typed, Undisturbed, OneAtATime, OneAtATime', NEW c \in Calls, Forget(c)
    PROVE Undisturbed'
<1>1. /\ Others(c) /\ stored'["access"] = NoToken /\ stored'["refresh"] = NoToken
      /\ UNCHANGED <<live, access, promise, post>>
      /\ \/ /\ call[c].pc = "forget" /\ call'[c].pc = "answered"
            /\ call'[c].kind = call[c].kind
            /\ app' = IF app = "signedIn" THEN "signedOut" ELSE app
         \/ call[c].pc = "signout" /\ call'[c].pc = "idle" /\ app' = "signedOut"
  BY ForgetFacts DEF server
<1>2. \A d \in Calls : d # c => call[d].pc = "idle" /\ call'[d].pc = "idle"
  BY <1>1, Alone
<1>3. call[c].kind # "login" /\ SessionStage(call[c]) /\ PostStage(c, call[c], post[c])
  BY <1>1 DEF Undisturbed, Stage, LoginStage
<1>4. Settled' /\ promise' = NoCall
  BY <1>1, <1>3 DEF SessionStage, PostStage, Settled, Empty
<1>5. Stage(c)'
  BY <1>1, <1>3, <1>4 DEF Stage, SessionStage, PostStage, SaveStage, Settled
<1>6. QED
  BY <1>1, <1>2, <1>4, <1>5, OwnStage

\* AuthContext says of the session what memory and SecureStore hold.
LEMMA FinishKeeps ==
    ASSUME Typed, Undisturbed, OneAtATime, OneAtATime', NEW c \in Calls, Finish(c)
    PROVE Undisturbed'
<1>1. /\ Others(c) /\ call[c].pc = "answered" /\ UNCHANGED <<live, stored, promise, post>>
      /\ \/ /\ call[c].kind \in {"login", "me"} /\ call[c].ok
            /\ call'[c].pc = "idle" /\ app' = "signedIn" /\ UNCHANGED access
         \/ /\ SignsOut(c) /\ call'[c].pc = "signout" /\ call'[c].kind = call[c].kind
            /\ access' = NoToken /\ UNCHANGED app
         \/ /\ call[c].kind = "screen" \/ (call[c].kind = "login" /\ ~call[c].ok)
            /\ call'[c].pc = "idle" /\ UNCHANGED <<access, app>>
  BY FinishFacts DEF server
<1>2. \A d \in Calls : d # c => call[d].pc = "idle" /\ call'[d].pc = "idle"
  BY <1>1, Alone
<1>3. Stage(c)
  BY DEF Undisturbed
<1>4. PostStage(c, call[c], post[c])
  BY <1>1, <1>3 DEF Stage
<1>5. post'[c].state = "none" /\ promise' = NoCall
  BY <1>1, <1>4 DEF PostStage
<1>6. CASE call[c].kind = "login"
  <2>1. LoginStage(call[c])
    BY <1>1, <1>3, <1>6 DEF Stage
  <2>2. call'[c].pc = "idle" /\ Settled'
    BY <1>1, <1>6, <2>1 DEF LoginStage, SignsOut, Settled, Session, Empty
  <2>3. Stage(c)'
    BY <1>5, <2>2 DEF Stage
  <2>4. QED
    BY <1>1, <1>2, <1>5, <2>2, <2>3, OwnStage
<1>7. CASE call[c].kind # "login"
  <2>1. SessionStage(call[c])
    BY <1>1, <1>3, <1>7 DEF Stage
  <2>2. CASE call[c].kind = "screen"
    <3>1. call'[c].pc = "idle" /\ Settled'
      BY <1>1, <2>1, <2>2 DEF SessionStage, SignsOut, Settled, Session, Empty
    <3>2. Stage(c)'
      BY <1>5, <3>1 DEF Stage
    <3>3. QED
      BY <1>1, <1>2, <1>5, <3>1, <3>2, OwnStage
  <2>3. CASE call[c].kind = "logout"
    <3>1. /\ call'[c].pc = "signout" /\ call'[c].kind = "logout"
          /\ access' = NoToken /\ UNCHANGED app
      BY <1>1, <2>3
    <3>2. Stage(c)'
      BY <1>5, <2>1, <3>1 DEF Stage, SessionStage, PostStage, SaveStage
    <3>3. QED
      BY <1>1, <1>2, <3>1, <3>2, OwnStage
  <2>4. QED
    BY <2>1, <2>2, <2>3 DEF SessionStage
<1>8. QED
  BY <1>6, <1>7

\* What was known stays known while nothing of the app changes.
LEMMA ExpireKeeps ==
    ASSUME Undisturbed, UNCHANGED <<live, stored, access, app, promise, call, post>>
    PROVE Undisturbed'
<1>1. \A c \in Calls : Stage(c) => Stage(c)'
  BY DEF Stage, LoginStage, SessionStage, PostStage, SaveStage, Settled, Session, Empty
<1>2. Settled => Settled'
  BY DEF Settled, Session, Empty
<1>3. QED
  BY <1>1, <1>2 DEF Undisturbed

\* Every step of one call at a time keeps the invariant.
LEMMA NextKeeps == OneAtATime /\ OneAtATime' /\ IInv /\ [ClientNext]_clientVars => IInv'
<1> SUFFICES ASSUME OneAtATime, OneAtATime', Typed, [ClientNext]_clientVars,
                    kills = 0 => Undisturbed, kills' = 0
             PROVE Undisturbed'
  BY NextTyped DEF IInv
<1>1. ~Kill
  BY KillFacts
<1>2. kills = 0
  <2>1. kills' = kills
    BY <1>1, BeginFacts, RefusedFacts, ServeFacts, ServeLoginFacts, ServeRefreshFacts, LoseFacts
       DEF clientVars, ClientNext, SendScreen, SendLogin, StartLogout, Start, Launch, Answered,
           RefuseExpired, Serve, ServeLogin, Fail, Refreshed, ServeRefresh, LoseRefresh, Callback,
           Load, RejectRetried, SendLogout, Refresh, NothingToRefresh, Resume, GiveUp, SaveAccess,
           SaveRefresh, Forget, Finish, Expire
  <2>2. QED
    BY <2>1
<1>3. Undisturbed /\ app # "closed"
  BY <1>2, AppIsOpen
<1>4. CASE UNCHANGED clientVars
  BY <1>3, <1>4, ExpireKeeps DEF clientVars
<1>5. ASSUME NEW c \in Calls, SendScreen(c) \/ StartLogout(c) \/ \E u \in Users : SendLogin(c, u)
      PROVE Undisturbed'
  BY <1>3, <1>5, BeginKeeps
<1>6. ASSUME NEW c \in Calls, Answered(c) PROVE Undisturbed'
  BY <1>3, <1>6, RefusedKeeps, ServeKeeps, ServeLoginKeeps DEF Answered
<1>7. ASSUME NEW c \in Calls, Refreshed(c) PROVE Undisturbed'
  BY <1>3, <1>7, RefreshedKeeps
<1>8. ASSUME NEW c \in Calls, Callback(c) PROVE Undisturbed'
  BY <1>3, <1>8, LoadKeeps, RefusedKeeps, SendLogoutKeeps, RefreshKeeps, NothingNever, SettleKeeps,
     SaveKeeps, ForgetKeeps, FinishKeeps DEF Callback
<1>9. ASSUME NEW t \in issued, Expire(t) PROVE Undisturbed'
  BY <1>3, <1>9, ExpireFacts, ExpireKeeps DEF server
<1>10. ~\E c \in Calls : Launch(c)
  BY <1>3, LaunchFacts
<1>11. QED
  BY <1>1, <1>4, <1>5, <1>6, <1>7, <1>8, <1>9, <1>10 DEF ClientNext

\* With one call at a time, and until the app is killed, every call stands on the
\* session that memory and SecureStore hold.
THEOREM Invariance == ClientSpec /\ []OneAtATime => []IInv
<1>1. ClientInit => IInv
  BY InitTyped DEF IInv
<1>2. QED
  BY <1>1, NextKeeps, PTL DEF ClientSpec

\* client.js: the refresh token that is sent is that of the live session, which no
\* other was rotated from, whichever answers are lost, tokens expire or users log out.
\* A conditional result, as the next one: calls that overlap do replay (mobile_replay).
THEOREM ReplayOnlyAfterKillHolds == ClientSpec /\ []OneAtATime => []ReplayOnlyAfterKill
<1>1. IInv => ReplayOnlyAfterKill
  <2> SUFFICES ASSUME Typed, Undisturbed, NEW c \in Calls, post[c].state = "sent", NEW t \in issued
               PROVE t.parent # post[c].token.jti
    BY DEF IInv, ReplayOnlyAfterKill, NoReplay
  <2>1. Stage(c)
    BY DEF Undisturbed
  <2>2. PostStage(c, call[c], post[c])
    BY <2>1 DEF Stage
  <2>3. Session /\ post[c].token = access
    BY <2>2 DEF PostStage
  <2>4. Unspent(post[c].token)
    BY <2>3 DEF Session, Typed, Numbered
  <2>5. QED
    BY <2>4 DEF Unspent
<1>2. QED
  BY <1>1, Invariance, PTL

\* AuthContext.js: a user who is signed in finds at rest the live session of memory in
\* SecureStore.
THEOREM StoredSessionIsLiveHolds == ClientSpec /\ []OneAtATime => []StoredSessionIsLive
<1>1. IInv => StoredSessionIsLive
  BY DEF IInv, Undisturbed, Settled, Session, StoredSessionIsLive
<1>2. QED
  BY <1>1, Invariance, PTL

-----------------------------------------------------------------------------
(* The screens: what each of them keeps, with the server it talks to. *)

\* The day d has got as far as a screen says.
Reached(state, d) ==
    /\ state = "in" => rows[d] \in {"in", "out"}
    /\ state = "out" => rows[d] = "out"

\* What the check-in screen shows was done, and is all that was done today, unless an
\* answer is on its way or was missed; nothing is pressed before the first load.
CheckInInv ==
    /\ CheckIn!CheckInTypeOK
    /\ today.of <= day /\ loads.of <= day /\ press.of <= day
    /\ today.state = "loading" => press.stage = "idle"
    /\ loads.stage \in {"today", "answered"} => today.state = "loading"
    /\ Reached(today.state, today.of)
    /\ loads.stage = "answered" => loads.got = CheckIn!OnScreen(rows[loads.of])
    /\ press.stage = "done" => rows[press.of] = press.kind
    /\ ~missed /\ press.stage # "done" /\ today.state # "loading" /\ today.of = day =>
          today.state = CheckIn!OnScreen(rows[day])

\* The count of the dashboard is that of a set, or less one at a time.
DashboardInv ==
    /\ Dashboard!DashboardTypeOK
    /\ shown.count \in Nat /\ shown.unread \subseteq shown.listed
    /\ load.unread \subseteq load.listed

\* Until the language changes there is one load at a time: of the first page, or of the
\* one that follows those on screen.
InOrder ==
    /\ firsts = 1 => isLoading /\ shownPages = <<>> /\ nextUrl = 0
    /\ \A i \in DOMAIN shownPages : shownPages[i] = i
    /\ nextUrl \in {0, Len(shownPages) + 1}
    /\ \A p \in 1..Pages : mores[p] # 0 => mores[p] = 1 /\ p = nextUrl /\ isLoadingMore

HistoryInv ==
    /\ History!HistoryTypeOK /\ shownPages \in Seq(1..Pages)
    /\ firsts <= switches + 1
    /\ switches = 0 => InOrder

\* A screen of the leave tab never knows less than it owes, unless it says that it knows
\* nothing, nor owes more than is booked.
LeaveScreen ==
    [kind: {"list", "form"}, rows: 0..Leaves!NotYet, error: BOOLEAN,
     asked: 0..(MaxSwitches + 1), answers: SUBSET Leaves!Booked, owes: Leaves!Booked, types: BOOLEAN, dates: BOOLEAN,
     busy: BOOLEAN]
ScreenSound(s) ==
    /\ s.asked <= switches + 1 /\ s.owes <= booked
    /\ s.owes <= s.rows \/ (s.rows = 0 /\ s.error)
    /\ \A b \in s.answers : s.owes <= b
StackSound == stack \in Seq(LeaveScreen) /\ \A i \in DOMAIN stack : ScreenSound(stack[i])

Submissions == Seq([stage: {"sent", "done", "failed", "over"}, of: 0..MaxScreens])
Served == {n \in DOMAIN submission : submission[n].stage # "sent"}
Over == {n \in DOMAIN submission : submission[n].stage = "over"}

\* Each submission books at most once, and opens at most one list.
LeaveInv ==
    /\ StackSound
    /\ submission \in Submissions /\ Len(submission) <= MaxSubmits
    /\ switches \in 0..MaxSwitches
    /\ booked \in Nat /\ booked <= Cardinality(Served)
    /\ 1 <= Len(stack) /\ Len(stack) + MaxSubmits <= MaxScreens + Cardinality(Over)

\* A number that was saved is the server's, and a picture that was uploaded is stored.
ProfileInv ==
    /\ Profile!ProfileTypeOK
    /\ saving.stage # "done" /\ ~unheard => employee.phone = record.phone
    /\ saving.stage = "done" => saving.phone = record.phone
    /\ {pictureUrl, employee.picture} \subseteq pictures \cup {0}
    /\ upload.stage = "done" => upload.picture \in pictures

\* The temporary password is not the one the user was let in with.
NotTemporary(password) == account.must => account.password # password

\* The user is not asked for a change that is not due, unless it was made unheard of.
Due == account.must \/ unknown

\* Only passwords that were handed out are seen or asked for.
HandedOut == {account.password, seen, entry.seen, entry.fresh, change.fresh} \subseteq 0..next - 1

\* What is called saved has been the account's.
SavedWas ==
    /\ {0, passwordSaved} \subseteq had
    /\ change.answer = "ok" => change.fresh \in had

\* Who is let in, and who is asked for a change.
FlagsSound ==
    /\ entry.step = "idle" => entry.answer = "none"
    /\ user => entry.step = "idle" /\ ~mustChangePassword /\ NotTemporary(seen)
    /\ entry.step \in {"boot", "login"} => ~mustChangePassword
    /\ entry.step = "login" => entry.answer # "expired"
    /\ entry.step # "change" /\ entry.answer = "ok" => NotTemporary(entry.seen)
    /\ mustChangePassword => Due
    /\ entry.answer = "must" => Due

EntryInv == Entry!SignInTypeOK /\ HandedOut /\ SavedWas /\ FlagsSound

\* All of them.
Screens == CheckInInv /\ DashboardInv /\ HistoryInv /\ LeaveInv /\ ProfileInv /\ EntryInv


\* The button at rest.
LEMMA NoPressTyped ==
    /\ CheckIn!NoPress \in [stage: {"idle", "asking", "locating", "sent", "done", "failed"},
                            kind: {"in", "out"}, of: 1..MaxDays]
    /\ CheckIn!NoPress.stage = "idle" /\ CheckIn!NoPress.of = 1
<1>1. 1 \in 1..MaxDays
  BY MobileAppAssumption
<1> QED
  BY <1>1 DEF CheckIn!NoPress

\* The screen before its first load, on a day without a record.
LEMMA CheckInStart == CheckIn!CheckInInit => CheckInInv
<1> SUFFICES ASSUME CheckIn!CheckInInit PROVE CheckInInv
  OBVIOUS
<1>1. 1 \in CheckIn!Days
  BY MobileAppAssumption DEF CheckIn!Days
<1>2. today = CheckIn!Loading /\ press = CheckIn!NoPress
      /\ loads = [stage |-> "today", got |-> "null", of |-> 1]
  BY DEF CheckIn!CheckInInit
<1>3. /\ today \in [state: {"loading", "null", "in", "out"}, of: CheckIn!Days]
      /\ today.state = "loading" /\ today.of = 1
  BY <1>1, <1>2 DEF CheckIn!Loading
<1>4. /\ press \in [stage: {"idle", "asking", "locating", "sent", "done", "failed"},
                     kind: {"in", "out"}, of: CheckIn!Days]
      /\ press.stage = "idle" /\ press.of = 1
  BY <1>2, NoPressTyped DEF CheckIn!Days
<1>5. /\ loads \in [stage: {"today", "answered", "history", "done"}, got: {"null", "in", "out"},
                     of: CheckIn!Days]
      /\ loads.stage = "today" /\ loads.of = 1
  BY <1>1, <1>2
<1>6. day = 1 /\ rows \in [CheckIn!Days -> {"none", "in", "out"}] /\ presses = 0 /\ missed = FALSE
  BY DEF CheckIn!CheckInInit
<1>7. presses \in 0..MaxPresses
  BY <1>6, MobileAppAssumption
<1>8. missed \in BOOLEAN
  BY <1>6
<1>9. CheckIn!CheckInTypeOK
  BY <1>1, <1>3, <1>4, <1>5, <1>6, <1>7, <1>8 DEF CheckIn!CheckInTypeOK
<1> QED
  BY <1>3, <1>4, <1>5, <1>6, <1>9 DEF CheckInInv, Reached

\* A load of the screen: the record that was read is the record, since nothing is
\* pressed meanwhile.
LEMMA LoadTodayKeeps == CheckInInv /\ CheckIn!loadToday => CheckInInv'
<1> SUFFICES ASSUME CheckInInv, CheckIn!loadToday PROVE CheckInInv'
  OBVIOUS
<1> USE DEF CheckInInv, CheckIn!CheckInTypeOK, CheckIn!Days, Reached, CheckIn!OnScreen
<1>1. CASE CheckIn!ServeToday
  BY <1>1 DEF CheckIn!ServeToday
<1>2. CASE CheckIn!TodayLoaded
  BY <1>2 DEF CheckIn!TodayLoaded
<1>3. CASE CheckIn!TodayNotLoaded
  BY <1>3 DEF CheckIn!TodayNotLoaded
<1>4. CASE CheckIn!WeekSummary
  BY <1>4 DEF CheckIn!WeekSummary
<1> QED
  BY <1>1, <1>2, <1>3, <1>4 DEF CheckIn!loadToday

\* A press that is under way, or that ends: rows and screen move together, or an answer
\* is missed.
LEMMA PressKeeps ==
    CheckInInv /\ (\/ CheckIn!handlePress \/ CheckIn!requestLocationPermission \/ CheckIn!Fix
                   \/ CheckIn!GiveUpLocating \/ CheckIn!ServePress \/ CheckIn!Answered
                   \/ CheckIn!Refused)
      => CheckInInv'
<1> SUFFICES ASSUME CheckInInv,
                    \/ CheckIn!handlePress \/ CheckIn!requestLocationPermission \/ CheckIn!Fix
                    \/ CheckIn!GiveUpLocating \/ CheckIn!ServePress \/ CheckIn!Answered
                    \/ CheckIn!Refused
             PROVE  CheckInInv'
  OBVIOUS
<1> USE DEF CheckInInv, CheckIn!CheckInTypeOK, CheckIn!Days, Reached, CheckIn!OnScreen, CheckIn!To,
            CheckIn!busy, CheckIn!hasCheckedIn, CheckIn!hasCheckedOut
<1>1. CASE CheckIn!handlePress
  BY <1>1, MobileAppAssumption DEF CheckIn!handlePress, CheckIn!Offered
<1>2. CASE CheckIn!requestLocationPermission
  BY <1>2 DEF CheckIn!requestLocationPermission
<1>3. CASE CheckIn!Fix
  BY <1>3 DEF CheckIn!Fix
<1>4. CASE CheckIn!GiveUpLocating
  BY <1>4 DEF CheckIn!GiveUpLocating, CheckIn!withTimeout
<1>5. CASE CheckIn!ServePress
  <2>1. CASE UNCHANGED <<rows, missed>> /\ press' = [press EXCEPT !.stage = "failed"]
    BY <1>5, <2>1 DEF CheckIn!ServePress
  <2>2. CASE /\ CheckIn!Accepted /\ rows' = [rows EXCEPT ![day] = press.kind]
             /\ press' = [press EXCEPT !.stage = "failed"] /\ missed' = TRUE
    BY <1>5, <2>2 DEF CheckIn!ServePress, CheckIn!Accepted
  <2>3. CASE /\ CheckIn!Accepted /\ rows' = [rows EXCEPT ![day] = press.kind]
             /\ press' = [press EXCEPT !.stage = "done", !.of = day] /\ UNCHANGED missed
    <3>1. PICK p : p = [press EXCEPT !.stage = "done", !.of = day]
      OBVIOUS
    <3>2. /\ p \in [stage: {"idle", "asking", "locating", "sent", "done", "failed"},
                   kind: {"in", "out"}, of: 1..MaxDays]
          /\ p.stage = "done" /\ p.of = day /\ p.kind = press.kind
      BY <3>1
    <3>3. /\ rows' \in [1..MaxDays -> {"none", "in", "out"}] /\ rows'[day] = p.kind
          /\ \A d \in 1..MaxDays : d # day => rows'[d] = rows[d]
      BY <2>3, <3>2
    <3>4. press.stage = "sent" /\ UNCHANGED <<day, today, loads, presses>> /\ press' = p
      BY <1>5, <2>3, <3>1 DEF CheckIn!ServePress
    <3> QED
      BY <2>3, <3>2, <3>3, <3>4 DEF CheckIn!Accepted
  <2> QED
    BY <1>5, <2>1, <2>2, <2>3 DEF CheckIn!ServePress
<1>6. CASE CheckIn!Answered
  <2>1. PICK t : t = [state |-> press.kind, of |-> press.of]
    OBVIOUS
  <2>2. /\ t \in [state: {"loading", "null", "in", "out"}, of: 1..MaxDays]
        /\ t.state = press.kind /\ t.of = press.of /\ t.state # "loading"
    BY <2>1
  <2>3. /\ press.stage = "done" /\ today' = t /\ press' = CheckIn!NoPress
        /\ UNCHANGED <<day, rows, loads, presses, missed>>
    BY <1>6, <2>1 DEF CheckIn!Answered, CheckIn!Answer
  <2> QED
    BY <2>2, <2>3, NoPressTyped
<1>7. CASE CheckIn!Refused
  BY <1>7, NoPressTyped DEF CheckIn!Refused
<1> QED
  BY <1>1, <1>2, <1>3, <1>4, <1>5, <1>6, <1>7

\* Every step of the check-in screen.
LEMMA CheckInStep == CheckInInv /\ [CheckIn!CheckInNext]_checkInVars => CheckInInv'
<1> SUFFICES ASSUME CheckInInv, [CheckIn!CheckInNext]_checkInVars PROVE CheckInInv'
  OBVIOUS
<1> USE DEF CheckInInv, CheckIn!CheckInTypeOK, CheckIn!Days, Reached, CheckIn!OnScreen
<1>1. CASE CheckIn!Midnight
  BY <1>1, MobileAppAssumption DEF CheckIn!Midnight
<1>2. CASE CheckIn!Relaunch
  <2>1. PICK l : l = [stage |-> "today", got |-> "null", of |-> day]
    OBVIOUS
  <2>2. /\ l \in [stage: {"today", "answered", "history", "done"}, got: {"null", "in", "out"},
                  of: 1..MaxDays]
        /\ l.stage = "today" /\ l.of = day
    BY <2>1
  <2>3. /\ CheckIn!Loading \in [state: {"loading", "null", "in", "out"}, of: 1..MaxDays]
        /\ CheckIn!Loading.state = "loading" /\ CheckIn!Loading.of = 1
    BY MobileAppAssumption DEF CheckIn!Loading
  <2>4. /\ press.stage = "idle" /\ today' = CheckIn!Loading /\ missed' = FALSE /\ loads' = l
        /\ UNCHANGED <<day, rows, press, presses>>
    BY <1>2, <2>1 DEF CheckIn!Relaunch, CheckIn!busy
  <2>5. missed' \in BOOLEAN
    BY <2>4
  <2> QED
    BY <2>2, <2>3, <2>4, <2>5
<1>3. CASE UNCHANGED checkInVars
  BY <1>3 DEF checkInVars
<1> QED
  BY <1>1, <1>2, <1>3, LoadTodayKeeps, PressKeeps DEF CheckIn!CheckInNext

\* What the screen promises.
LEMMA CheckInAgrees == CheckInInv => CheckIn!ScreenAgrees
BY DEF CheckInInv, CheckIn!CheckInTypeOK, Reached, CheckIn!ScreenAgrees, CheckIn!hasCheckedIn,
       CheckIn!hasCheckedOut, CheckIn!busy

-----------------------------------------------------------------------------
(* The dashboard *)

\* The standard module that the dashboard instantiates counts as this one's.
LEMMA DashboardCounts == \A S : Dashboard!Cardinality(S) = Cardinality(S)
BY Zenon DEF Dashboard!Cardinality, Cardinality

\* What a load is made of.
Loads ==
    [asked: BOOLEAN, open: SUBSET Dashboard!Requests, count: 0..Cardinality(Notes),
     listed: SUBSET Notes, unread: SUBSET Notes]

\* No load, and a load of which all is asked.
LEMMA NoLoadTyped ==
    /\ Dashboard!NoLoad \in Loads /\ Dashboard!NoLoad.unread \subseteq Dashboard!NoLoad.listed
    /\ Dashboard!AllAsked \in Loads /\ Dashboard!AllAsked.unread \subseteq Dashboard!AllAsked.listed
<1>1. 0 \in 0..Cardinality(Notes)
  BY MobileAppAssumption, FS_CardinalityType
<1>2. PICK n : n = Dashboard!NoLoad
  OBVIOUS
<1>3. n = [asked |-> FALSE, open |-> {}, count |-> 0, listed |-> {}, unread |-> {}]
  BY <1>2 DEF Dashboard!NoLoad
<1>4. n \in Loads /\ n.unread = {} /\ n.listed = {}
  BY <1>1, <1>3 DEF Loads
<1>5. PICK a : a = [n EXCEPT !.asked = TRUE, !.open = Dashboard!Requests]
  OBVIOUS
<1>6. a \in Loads /\ a.unread = {} /\ a.listed = {}
  BY <1>4, <1>5 DEF Loads
<1> QED
  BY <1>2, <1>4, <1>5, <1>6 DEF Dashboard!AllAsked

\* The screen before its first load.
LEMMA DashboardStart == Dashboard!DashboardInit => DashboardInv
<1> SUFFICES ASSUME Dashboard!DashboardInit PROVE DashboardInv
  OBVIOUS
<1>1. shown = [ready |-> FALSE, listed |-> {}, unread |-> {}, count |-> 0]
  BY DEF Dashboard!DashboardInit
<1>2. /\ shown \in [ready: BOOLEAN, listed: SUBSET Notes, unread: SUBSET Notes, count: Int]
      /\ shown.count = 0 /\ shown.unread = {}
  BY <1>1
<1>3. load = Dashboard!AllAsked
  BY DEF Dashboard!DashboardInit
<1>4. load \in Loads /\ load.unread \subseteq load.listed
  BY <1>3, NoLoadTyped
<1>5. loaded \in 0..MaxLoads
  BY MobileAppAssumption DEF Dashboard!DashboardInit
<1>6. there \subseteq Notes /\ unread \subseteq there /\ refreshing \in BOOLEAN /\ marks \subseteq Notes
  BY DEF Dashboard!DashboardInit
<1>7. Dashboard!DashboardTypeOK
  BY <1>2, <1>4, <1>5, <1>6, DashboardCounts DEF Dashboard!DashboardTypeOK, Loads
<1> QED
  BY <1>2, <1>4, <1>7 DEF DashboardInv

\* A request of a load is answered, or falls back: the list and what is unread of it
\* come together.
LEMMA AnswerKeeps ==
  ASSUME DashboardInv, NEW r \in Dashboard!Requests, Dashboard!Answered(r)
  PROVE  DashboardInv'
<1>1. load \in Loads /\ unread \subseteq there /\ there \subseteq Notes /\ load.unread \subseteq load.listed
  BY DashboardCounts DEF DashboardInv, Dashboard!DashboardTypeOK, Loads
<1>2. Cardinality(unread) \in 0..Cardinality(Notes)
  <2>1. unread \subseteq Notes
    BY <1>1
  <2>2. IsFiniteSet(unread) /\ Cardinality(unread) <= Cardinality(Notes)
    BY <2>1, FS_Subset, MobileAppAssumption
  <2> QED
    BY <2>2, FS_CardinalityType, MobileAppAssumption
<1>3. PICK n \in Dashboard!AnswerOf(r) : load' = [n EXCEPT !.open = @ \ {r}]
  BY DEF Dashboard!Answered, Dashboard!Caught
<1>4. n \in Loads /\ n.unread \subseteq n.listed
  <2>1. CASE n = load
    BY <1>1, <2>1
  <2>2. CASE n = [load EXCEPT !.count = Dashboard!Cardinality(unread)]
    BY <1>1, <1>2, <2>2, DashboardCounts DEF Loads
  <2>3. CASE n = [load EXCEPT !.listed = there, !.unread = unread]
    BY <1>1, <2>3 DEF Loads
  <2> QED
    BY <1>3, <2>1, <2>2, <2>3 DEF Dashboard!AnswerOf
<1>5. load' \in Loads /\ load'.unread \subseteq load'.listed
  BY <1>3, <1>4 DEF Loads
<1>6. UNCHANGED <<there, unread, shown, loaded, refreshing, marks>>
  BY DEF Dashboard!Answered
<1> QED
  BY <1>5, <1>6, DashboardCounts DEF DashboardInv, Dashboard!DashboardTypeOK, Loads

\* Every step of the dashboard.
LEMMA DashboardStep == DashboardInv /\ [Dashboard!DashboardNext]_dashboardVars => DashboardInv'
<1> SUFFICES ASSUME DashboardInv, [Dashboard!DashboardNext]_dashboardVars PROVE DashboardInv'
  OBVIOUS
<1>0. /\ there \subseteq Notes /\ unread \subseteq there /\ marks \subseteq Notes
      /\ shown \in [ready: BOOLEAN, listed: SUBSET Notes, unread: SUBSET Notes, count: Int]
      /\ load \in Loads /\ loaded \in 0..MaxLoads /\ refreshing \in BOOLEAN
      /\ shown.count \in Nat /\ shown.unread \subseteq shown.listed /\ load.unread \subseteq load.listed
  BY DashboardCounts DEF DashboardInv, Dashboard!DashboardTypeOK, Loads
<1>1. ASSUME there' \subseteq Notes, unread' \subseteq there', marks' \subseteq Notes,
             shown' \in [ready: BOOLEAN, listed: SUBSET Notes, unread: SUBSET Notes, count: Int],
             load' \in Loads, loaded' \in 0..MaxLoads, refreshing' \in BOOLEAN,
             shown'.count \in Nat, shown'.unread \subseteq shown'.listed,
             load'.unread \subseteq load'.listed
      PROVE  DashboardInv'
  BY <1>1, DashboardCounts DEF DashboardInv, Dashboard!DashboardTypeOK, Loads
<1>2. CASE Dashboard!Loaded
  <2>1. /\ shown' \in [ready: BOOLEAN, listed: SUBSET Notes, unread: SUBSET Notes, count: Int]
        /\ shown'.count = load.count /\ shown'.unread = load.unread /\ shown'.listed = load.listed
    <3>1. shown' = [ready |-> TRUE, listed |-> load.listed, unread |-> load.unread,
                    count |-> load.count]
      BY <1>2 DEF Dashboard!Loaded
    <3>2. load.count \in Int /\ load.listed \subseteq Notes /\ load.unread \subseteq Notes
      BY <1>0, FS_CardinalityType, MobileAppAssumption DEF Loads
    <3> QED
      BY <3>1, <3>2
  <2>2. shown'.count \in Nat
    BY <1>0, <2>1, FS_CardinalityType, MobileAppAssumption DEF Loads
  <2>3. load' = Dashboard!NoLoad /\ UNCHANGED <<there, unread, loaded, marks>>
    BY <1>2 DEF Dashboard!Loaded
  <2>4. refreshing' \in BOOLEAN
    BY <1>2 DEF Dashboard!Loaded
  <2> QED
    BY <1>0, <1>1, <2>1, <2>2, <2>3, <2>4, NoLoadTyped
<1>3. CASE Dashboard!handleRefresh
  <2>1. load' = Dashboard!AllAsked /\ UNCHANGED <<there, unread, shown, marks>>
        /\ loaded < MaxLoads /\ loaded' = loaded + 1
    BY <1>3 DEF Dashboard!handleRefresh
  <2>2. refreshing' \in BOOLEAN
    BY <1>3 DEF Dashboard!handleRefresh
  <2>3. loaded' \in 0..MaxLoads
    BY <1>0, <2>1, MobileAppAssumption
  <2> QED
    BY <1>0, <1>1, <2>1, <2>2, <2>3, NoLoadTyped
<1>4. ASSUME NEW n \in Notes, Dashboard!handleMarkRead(n) PROVE DashboardInv'
  <2>0. PICK k, u : k = Dashboard!OneLess(shown.count) /\ u = shown.unread \ {n}
    OBVIOUS
  <2>1. PICK s : s = [shown EXCEPT !.unread = u, !.count = k]
    OBVIOUS
  <2>2. k \in Nat /\ u \subseteq Notes /\ u \subseteq shown.listed
    BY <1>0, <2>0 DEF Dashboard!OneLess
  <2>3. /\ s \in [ready: BOOLEAN, listed: SUBSET Notes, unread: SUBSET Notes, count: Int]
        /\ s.count \in Nat /\ s.unread \subseteq s.listed
    <3>1. k \in Int
      BY <2>2
    <3>2. s \in [ready: BOOLEAN, listed: SUBSET Notes, unread: SUBSET Notes, count: Int]
      BY <1>0, <2>1, <2>2, <3>1
    <3>3. s.count = k /\ s.unread = u /\ s.listed = shown.listed
      BY <1>0, <2>1
    <3> QED
      BY <2>2, <3>2, <3>3
  <2>4. /\ shown' = s /\ marks' = marks \cup {n}
        /\ UNCHANGED <<there, unread, load, loaded, refreshing>>
    BY <1>4, <2>0, <2>1 DEF Dashboard!handleMarkRead
  <2> QED
    BY <1>0, <1>1, <2>3, <2>4
<1>5. ASSUME NEW n \in Notes, Dashboard!MarkServed(n) PROVE DashboardInv'
  <2>1. /\ unread' \subseteq unread /\ marks' \subseteq marks
        /\ UNCHANGED <<there, shown, load, loaded, refreshing>>
    BY <1>5 DEF Dashboard!MarkServed
  <2> QED
    BY <1>0, <1>1, <2>1
<1>6. ASSUME NEW n \in Notes, Dashboard!Notify(n) PROVE DashboardInv'
  <2>1. /\ there' = there \cup {n} /\ unread' = unread \cup {n}
        /\ UNCHANGED <<shown, load, loaded, refreshing, marks>>
    BY <1>6 DEF Dashboard!Notify
  <2> QED
    BY <1>0, <1>1, <2>1
<1>7. CASE UNCHANGED dashboardVars
  BY <1>0, <1>1, <1>7 DEF dashboardVars
<1>8. ASSUME NEW r \in Dashboard!Requests, Dashboard!Answered(r) PROVE DashboardInv'
  BY <1>8, AnswerKeeps
<1> QED
  BY <1>2, <1>3, <1>4, <1>5, <1>6, <1>7, <1>8
     DEF Dashboard!DashboardNext, Dashboard!Screen, Dashboard!Answers

-----------------------------------------------------------------------------
(* The attendance history *)

\* The screen while its first page is loaded.
LEMMA HistoryStart == History!HistoryInit => HistoryInv
<1> SUFFICES ASSUME History!HistoryInit PROVE HistoryInv
  OBVIOUS
<1>1. /\ shownPages = <<>> /\ nextUrl = 0 /\ mores = [p \in 1..Pages |-> 0] /\ switches = 0
      /\ firsts = 1
  BY DEF History!HistoryInit
<1>2. isLoading \in BOOLEAN /\ isLoading /\ isLoadingMore \in BOOLEAN /\ failed \in BOOLEAN
  BY DEF History!HistoryInit
<1>3. shownPages \in Seq(1..Pages) /\ DOMAIN shownPages = {} /\ Len(shownPages) = 0
  BY <1>1
<1>4. History!HistoryTypeOK
  BY <1>1, <1>2, <1>3, MobileAppAssumption DEF History!HistoryTypeOK
<1> QED
  BY <1>1, <1>2, <1>3, <1>4 DEF HistoryInv, InOrder

\* The page after p, if there is one.
LEMMA AfterIs == \A p \in 1..Pages : History!After(p) \in 0..Pages /\ History!After(p) \in {0, p + 1}
BY MobileAppAssumption DEF History!After

\* The first page replaces what is there.
LEMMA FirstPageKeeps == HistoryInv /\ History!loadFirstPage => HistoryInv'
<1> SUFFICES ASSUME HistoryInv, History!loadFirstPage PROVE HistoryInv'
  OBVIOUS
<1>1. /\ firsts \in 0..(MaxSwitches + 1) /\ firsts <= switches + 1 /\ switches \in 0..MaxSwitches
      /\ mores \in [1..Pages -> 0..2] /\ firsts > 0 /\ firsts' = firsts - 1
      /\ UNCHANGED <<mores, isLoadingMore, switches>>
  BY DEF HistoryInv, History!HistoryTypeOK, History!loadFirstPage
<1>2. firsts' \in 0..(MaxSwitches + 1) /\ firsts' <= switches' + 1 /\ switches' \in 0..MaxSwitches
  BY <1>1, MobileAppAssumption
<1>3. isLoading' \in BOOLEAN /\ failed' \in BOOLEAN /\ isLoadingMore' \in BOOLEAN
  <2>1. isLoading' = FALSE /\ (failed' = TRUE \/ UNCHANGED failed) /\ UNCHANGED isLoadingMore
    BY DEF History!loadFirstPage
  <2> QED
    BY <2>1 DEF HistoryInv, History!HistoryTypeOK
<1>4. CASE shownPages' = <<1>> /\ nextUrl' = History!After(1)
  <2>1. 1 \in 1..Pages
    BY MobileAppAssumption
  <2>2. /\ shownPages' \in Seq(1..Pages) /\ Len(shownPages') = 1 /\ DOMAIN shownPages' = {1}
        /\ shownPages'[1] = 1 /\ shownPages'[1] \in 1..Pages
    BY <1>4, <2>1
  <2>3. nextUrl' \in 0..Pages /\ nextUrl' \in {0, 2}
    BY <1>4, <2>1, AfterIs
  <2>4. switches' = 0 => firsts' = 0 /\ InOrder'
    <3> SUFFICES ASSUME switches' = 0 PROVE firsts' = 0 /\ InOrder'
      OBVIOUS
    <3>1. firsts = 1 /\ firsts' = 0
      BY <1>1
    <3>2. switches = 0
      BY <1>1
    <3>3. InOrder
      BY <3>2 DEF HistoryInv
    <3>4. \A p \in 1..Pages : mores[p] = 0
      BY <3>1, <3>3, <1>1 DEF InOrder
    <3>5. \A p \in 1..Pages : mores'[p] = 0
      BY <3>4, <1>1
    <3> QED
      BY <3>1, <3>5, <2>2, <2>3 DEF InOrder
  <2> QED
    BY <1>1, <1>2, <1>3, <2>2, <2>3, <2>4 DEF HistoryInv, History!HistoryTypeOK
<1>5. CASE UNCHANGED <<shownPages, nextUrl>>
  <2>1. switches' = 0 => InOrder'
    <3> SUFFICES ASSUME switches' = 0 PROVE InOrder'
      OBVIOUS
    <3>1. firsts = 1 /\ firsts' = 0 /\ switches = 0
      BY <1>1
    <3>2. InOrder
      BY <3>1 DEF HistoryInv
    <3> QED
      BY <1>1, <1>5, <3>1, <3>2 DEF InOrder
  <2> QED
    BY <1>1, <1>2, <1>3, <1>5, <2>1 DEF HistoryInv, History!HistoryTypeOK
<1> QED
  BY <1>4, <1>5 DEF History!loadFirstPage

\* The next page is asked for once, and is the one that follows.
LEMMA AskNextKeeps == HistoryInv /\ History!loadNextPage => HistoryInv'
<1> SUFFICES ASSUME HistoryInv, History!loadNextPage PROVE HistoryInv'
  OBVIOUS
<1>1. /\ nextUrl \in 0..Pages /\ nextUrl # 0 /\ mores \in [1..Pages -> 0..2] /\ mores[nextUrl] < 2
      /\ mores' = [mores EXCEPT ![nextUrl] = mores[nextUrl] + 1] /\ ~isLoadingMore /\ ~isLoading
      /\ UNCHANGED <<shownPages, nextUrl, firsts, isLoading, failed, switches>>
  BY DEF HistoryInv, History!HistoryTypeOK, History!loadNextPage, History!MayLoad
<1>2. nextUrl \in 1..Pages
  BY <1>1, MobileAppAssumption
<1>3. /\ mores' \in [1..Pages -> 0..2]
      /\ \A p \in 1..Pages : mores'[p] = IF p = nextUrl THEN mores[nextUrl] + 1 ELSE mores[p]
  BY <1>1, <1>2
<1>4. isLoadingMore' = TRUE
  BY DEF History!loadNextPage
<1>5. switches = 0 => InOrder'
  <2> SUFFICES ASSUME switches = 0 PROVE InOrder'
    OBVIOUS
  <2>1. InOrder
    BY DEF HistoryInv
  <2>2. firsts # 1
    BY <1>1, <2>1 DEF InOrder
  <2>3. \A p \in 1..Pages : mores[p] = 0
    BY <1>1, <2>1 DEF InOrder
  <2>4. \A p \in 1..Pages : mores'[p] # 0 => mores'[p] = 1 /\ p = nextUrl'
    BY <1>1, <1>2, <1>3, <2>3
  <2>5. nextUrl' \in {0, Len(shownPages') + 1} /\ \A i \in DOMAIN shownPages' : shownPages'[i] = i
    BY <1>1, <2>1 DEF InOrder
  <2> QED
    BY <1>1, <1>4, <2>2, <2>4, <2>5 DEF InOrder
<1>6. isLoadingMore' \in BOOLEAN
  BY <1>4
<1> QED
  BY <1>1, <1>3, <1>5, <1>6 DEF HistoryInv, History!HistoryTypeOK

\* The next page is appended behind the ones it follows.
LEMMA NextPageKeeps ==
  ASSUME HistoryInv, NEW p \in 1..Pages, History!NextPage(p)
  PROVE  HistoryInv'
<1>1. /\ mores \in [1..Pages -> 0..2] /\ mores[p] > 0 /\ mores' = [mores EXCEPT ![p] = mores[p] - 1]
      /\ shownPages \in Seq(1..Pages) /\ nextUrl \in 0..Pages
      /\ UNCHANGED <<firsts, isLoading, failed, switches>>
  BY DEF HistoryInv, History!HistoryTypeOK, History!NextPage
<1>2. /\ mores' \in [1..Pages -> 0..2]
      /\ \A q \in 1..Pages : mores'[q] = IF q = p THEN mores[p] - 1 ELSE mores[q]
  BY <1>1
<1>3. isLoadingMore' = FALSE
  BY DEF History!NextPage
<1>4. isLoadingMore' \in BOOLEAN
  BY <1>3
<1>5. switches = 0 => /\ firsts # 1 /\ p = nextUrl /\ \A q \in 1..Pages : mores'[q] = 0
                      /\ nextUrl = Len(shownPages) + 1 /\ \A i \in DOMAIN shownPages : shownPages[i] = i
  <2> SUFFICES ASSUME switches = 0
               PROVE  /\ firsts # 1 /\ p = nextUrl /\ \A q \in 1..Pages : mores'[q] = 0
                      /\ nextUrl = Len(shownPages) + 1
                      /\ \A i \in DOMAIN shownPages : shownPages[i] = i
    OBVIOUS
  <2>1. InOrder
    BY DEF HistoryInv
  <2>2. mores[p] # 0
    BY <1>1
  <2>3. p = nextUrl /\ mores[p] = 1
    BY <2>1, <2>2 DEF InOrder
  <2>4. \A q \in 1..Pages : q # p => mores[q] = 0
    BY <2>1, <2>3 DEF InOrder
  <2> QED
    BY <1>2, <2>1, <2>3, <2>4 DEF InOrder
<1>6. CASE shownPages' = Append(shownPages, p) /\ nextUrl' = History!After(p)
  <2>1. /\ shownPages' \in Seq(1..Pages) /\ Len(shownPages') = Len(shownPages) + 1
        /\ DOMAIN shownPages' = 1..Len(shownPages) + 1 /\ DOMAIN shownPages = 1..Len(shownPages)
        /\ \A i \in 1..Len(shownPages) + 1 :
              shownPages'[i] = IF i = Len(shownPages) + 1 THEN p ELSE shownPages[i]
    BY <1>1, <1>6
  <2>2. nextUrl' \in 0..Pages /\ nextUrl' \in {0, p + 1}
    BY <1>6, AfterIs
  <2>3. switches' = 0 => InOrder'
    <3> SUFFICES ASSUME switches' = 0 PROVE InOrder'
      OBVIOUS
    <3>1. /\ firsts # 1 /\ p = Len(shownPages) + 1 /\ \A q \in 1..Pages : mores'[q] = 0
          /\ \A i \in DOMAIN shownPages : shownPages[i] = i
      BY <1>1, <1>5
    <3>2. \A i \in DOMAIN shownPages' : shownPages'[i] = i
      BY <2>1, <3>1
    <3> QED
      BY <1>1, <2>1, <2>2, <3>1, <3>2 DEF InOrder
  <2>4. \A i \in DOMAIN shownPages' : shownPages'[i] \in 1..Pages
    <3>1. \A i \in DOMAIN shownPages : shownPages[i] \in 1..Pages
      BY DEF HistoryInv, History!HistoryTypeOK
    <3> QED
      BY <2>1, <3>1
  <2> QED
    BY <1>1, <1>2, <1>4, <2>1, <2>2, <2>3, <2>4 DEF HistoryInv, History!HistoryTypeOK
<1>7. CASE UNCHANGED <<shownPages, nextUrl>>
  <2>1. switches' = 0 => InOrder'
    BY <1>1, <1>5, <1>7 DEF InOrder
  <2> QED
    BY <1>1, <1>2, <1>4, <1>7, <2>1 DEF HistoryInv, History!HistoryTypeOK
<1> QED
  BY <1>6, <1>7 DEF History!NextPage

\* Another language, here or as another tab hears of it: nothing more is promised.
LEMMA SwitchKeeps ==
  ASSUME HistoryInv, switches' \in 0..MaxSwitches, switches < switches',
         firsts' \in {firsts, firsts + 1}, isLoading' \in BOOLEAN, failed' \in BOOLEAN,
         UNCHANGED <<shownPages, nextUrl, mores, isLoadingMore>>
  PROVE  HistoryInv'
<1>1. switches \in 0..MaxSwitches /\ firsts \in 0..(MaxSwitches + 1) /\ firsts <= switches + 1
  BY DEF HistoryInv, History!HistoryTypeOK
<1>2. \A a, b \in 0..MaxSwitches, f \in 0..(MaxSwitches + 1) :
         a < b /\ f <= a + 1 => /\ b # 0 /\ f <= b + 1
                               /\ f + 1 \in 0..(MaxSwitches + 1) /\ f + 1 <= b + 1
  BY MobileAppAssumption
<1>3. switches' # 0 /\ firsts' \in 0..(MaxSwitches + 1) /\ firsts' <= switches' + 1
  <2>1. CASE firsts' = firsts
    BY <1>1, <1>2, <2>1
  <2>2. CASE firsts' = firsts + 1
    BY <1>1, <1>2, <2>2
  <2> QED
    BY <2>1, <2>2
<1> QED
  BY <1>3 DEF HistoryInv, History!HistoryTypeOK

\* The history does not change.
LEMMA HistoryKept ==
  ASSUME HistoryInv, UNCHANGED historyVars, switches' \in 0..MaxSwitches, switches <= switches'
  PROVE  HistoryInv'
<1>1. CASE switches' = switches
  BY <1>1 DEF historyVars, HistoryInv, History!HistoryTypeOK, InOrder
<1>2. CASE switches < switches'
  <2>1. isLoading' \in BOOLEAN /\ failed' \in BOOLEAN
    BY DEF historyVars, HistoryInv, History!HistoryTypeOK
  <2> QED
    BY <1>2, <2>1, SwitchKeeps DEF historyVars
<1> QED
  BY <1>1, <1>2 DEF HistoryInv, History!HistoryTypeOK

\* Every step of the history.
LEMMA HistoryStep == HistoryInv /\ History!HistoryNext => HistoryInv'
<1> SUFFICES ASSUME HistoryInv, History!HistoryNext PROVE HistoryInv'
  OBVIOUS
<1>1. CASE History!SwitchLanguage
  <2>1. switches' \in 0..MaxSwitches /\ switches < switches'
    BY <1>1, MobileAppAssumption DEF History!SwitchLanguage, HistoryInv, History!HistoryTypeOK
  <2>2. isLoading' \in BOOLEAN /\ failed' \in BOOLEAN
    BY <1>1 DEF History!SwitchLanguage
  <2> QED
    BY <1>1, <2>1, <2>2, SwitchKeeps DEF History!SwitchLanguage
<1>2. CASE History!HistoryAnswers
  BY <1>2, FirstPageKeeps, NextPageKeeps DEF History!HistoryAnswers
<1> QED
  BY <1>1, <1>2, AskNextKeeps DEF History!HistoryNext

\* What the screen promises.
LEMMA HistoryAgrees == HistoryInv => History!PagesInOrder
BY DEF HistoryInv, InOrder, History!PagesInOrder

-----------------------------------------------------------------------------
(* The leave tab *)

\* Submissions are finite in number.
LEMMA SubmissionsCounted ==
  ASSUME submission \in Submissions, NEW S \in SUBSET DOMAIN submission
  PROVE  /\ IsFiniteSet(S) /\ Cardinality(S) \in Nat /\ Cardinality(S) <= Len(submission)
         /\ Len(submission) \in Nat /\ DOMAIN submission = 1..Len(submission)
<1>1. Len(submission) \in Nat /\ DOMAIN submission = 1..Len(submission)
  BY DEF Submissions
<1>2. IsFiniteSet(1..Len(submission)) /\ Cardinality(1..Len(submission)) = Len(submission)
  <2>1. IsFiniteSet(1..Len(submission))
    BY <1>1, FS_Interval
  <2>2. Cardinality(1..Len(submission)) = IF 1 > Len(submission) THEN 0 ELSE Len(submission) - 1 + 1
    BY <1>1, FS_Interval
  <2> QED
    BY <1>1, <2>1, <2>2
<1>3. S \subseteq 1..Len(submission)
  BY <1>1
<1>4. IsFiniteSet(S) /\ Cardinality(S) <= Cardinality(1..Len(submission))
  BY <1>2, <1>3, FS_Subset
<1> QED
  BY <1>1, <1>2, <1>4, FS_CardinalityType

\* An element of a sequence is one of its set.
LEMMA ElementOf ==
  ASSUME NEW S, NEW s \in Seq(S), NEW i \in DOMAIN s
  PROVE  s[i] \in S
  OBVIOUS

\* What the invariant bounds: nothing is booked but by a submission, and there is room
\* for what it opens.
LEMMA LeaveBounded ==
  ASSUME LeaveInv
  PROVE  /\ Cardinality(Served) \in Nat /\ Cardinality(Over) \in Nat
         /\ Cardinality(Served) <= Len(submission) /\ Cardinality(Over) <= Len(submission)
         /\ IsFiniteSet(Served) /\ IsFiniteSet(Over)
         /\ booked \in Leaves!Booked /\ Len(stack) \in 1..MaxScreens
         /\ Len(submission) \in 0..MaxSubmits /\ DOMAIN submission = 1..Len(submission)
         /\ DOMAIN stack = 1..Len(stack)
<1>1. submission \in Submissions /\ Len(submission) <= MaxSubmits
  BY DEF LeaveInv
<1>2. /\ Cardinality(Served) \in Nat /\ Cardinality(Served) <= Len(submission) /\ IsFiniteSet(Served)
      /\ Len(submission) \in Nat /\ DOMAIN submission = 1..Len(submission)
  BY <1>1, SubmissionsCounted DEF Served
<1>3. Cardinality(Over) \in Nat /\ Cardinality(Over) <= Len(submission) /\ IsFiniteSet(Over)
  BY <1>1, SubmissionsCounted DEF Over
<1>4. booked \in Nat /\ booked <= Cardinality(Served)
  BY DEF LeaveInv
<1>5. booked \in 0..MaxSubmits
  BY <1>1, <1>2, <1>4, MobileAppAssumption
<1>6. Len(stack) \in Nat /\ DOMAIN stack = 1..Len(stack)
  BY DEF LeaveInv, StackSound
<1>7. 1 <= Len(stack) /\ Len(stack) + MaxSubmits <= MaxScreens + Cardinality(Over)
  BY DEF LeaveInv
<1>8. Len(stack) \in 1..MaxScreens
  BY <1>1, <1>2, <1>3, <1>6, <1>7, MobileAppAssumption
<1>9. Len(submission) \in 0..MaxSubmits
  BY <1>1, <1>2, MobileAppAssumption
<1> QED
  BY <1>2, <1>3, <1>5, <1>6, <1>8, <1>9 DEF Leaves!Booked

\* ... and so the screens have their types.
LEMMA LeaveTypes == LeaveInv => Leaves!LeaveScreensTypeOK
<1> SUFFICES ASSUME LeaveInv PROVE Leaves!LeaveScreensTypeOK
  OBVIOUS
<1>1. \A i \in DOMAIN stack : stack[i] \in LeaveScreen
  BY DEF LeaveInv, StackSound
<1>2. /\ submission \in Submissions /\ Len(submission) <= MaxSubmits /\ switches \in 0..MaxSwitches
  BY DEF LeaveInv
<1>3. booked \in Leaves!Booked /\ Len(stack) \in 1..MaxScreens
  BY LeaveBounded
<1> QED
  BY <1>1, <1>2, <1>3 DEF Leaves!LeaveScreensTypeOK, LeaveScreen, Submissions

\* A new list owes what is booked, and a new form nothing.
LEMMA NewScreens ==
  ASSUME NEW b \in Leaves!Booked
  PROVE  /\ Leaves!List \in LeaveScreen /\ Leaves!List.asked = 1 /\ Leaves!List.owes = 0
         /\ Leaves!List.answers = {} /\ Leaves!List.rows = Leaves!NotYet
         /\ Leaves!RequestForm \in LeaveScreen /\ Leaves!RequestForm.asked = 0
         /\ Leaves!RequestForm.owes = 0 /\ Leaves!RequestForm.answers = {}
         /\ Leaves!RequestForm.rows = Leaves!NotYet
         /\ [Leaves!List EXCEPT !.owes = b] \in LeaveScreen
         /\ [Leaves!List EXCEPT !.owes = b].asked = 1 /\ [Leaves!List EXCEPT !.owes = b].owes = b
         /\ [Leaves!List EXCEPT !.owes = b].answers = {}
         /\ [Leaves!List EXCEPT !.owes = b].rows = Leaves!NotYet
<1>1. /\ Leaves!NotYet \in 0..Leaves!NotYet /\ {0, 1} \subseteq 0..(MaxSwitches + 1)
      /\ 0 \in Leaves!Booked
  BY MobileAppAssumption DEF Leaves!NotYet, Leaves!Booked
<1>2. PICK l : l = Leaves!List
  OBVIOUS
<1>3. l = [kind |-> "list", rows |-> Leaves!NotYet, error |-> FALSE, asked |-> 1,
           answers |-> {}, owes |-> 0, types |-> FALSE, dates |-> FALSE, busy |-> FALSE]
  BY <1>2 DEF Leaves!List
<1>4. l \in LeaveScreen /\ l.asked = 1 /\ l.owes = 0 /\ l.answers = {} /\ l.rows = Leaves!NotYet
  BY <1>1, <1>3 DEF LeaveScreen
<1>5. PICK f : f = [l EXCEPT !.kind = "form", !.asked = 0]
  OBVIOUS
<1>6. f \in LeaveScreen /\ f.asked = 0 /\ f.owes = 0 /\ f.answers = {} /\ f.rows = Leaves!NotYet
  BY <1>1, <1>4, <1>5 DEF LeaveScreen
<1>7. PICK o : o = [l EXCEPT !.owes = b]
  OBVIOUS
<1>8. o \in LeaveScreen /\ o.asked = 1 /\ o.owes = b /\ o.answers = {} /\ o.rows = Leaves!NotYet
  BY <1>4, <1>7 DEF LeaveScreen
<1> QED
  BY <1>2, <1>4, <1>5, <1>6, <1>7, <1>8 DEF Leaves!RequestForm

\* The tab begins with a form, or with a list.
LEMMA LeaveStart == Leaves!LeaveScreensInit => LeaveInv
<1> SUFFICES ASSUME Leaves!LeaveScreensInit PROVE LeaveInv
  OBVIOUS
<1>1. booked = 0 /\ submission = <<>> /\ switches = 0
  BY DEF Leaves!LeaveScreensInit
<1>2. 0 \in Leaves!Booked
  BY MobileAppAssumption DEF Leaves!Booked
<1>3. PICK s \in {Leaves!RequestForm, Leaves!List} : stack = <<s>>
  BY DEF Leaves!LeaveScreensInit
<1>4. s \in LeaveScreen /\ s.asked \in {0, 1} /\ s.owes = 0 /\ s.answers = {} /\ s.rows = Leaves!NotYet
  <2>1. CASE s = Leaves!RequestForm
    BY <1>2, <2>1, NewScreens, Zenon
  <2>2. CASE s = Leaves!List
    BY <1>2, <2>2, NewScreens, Zenon
  <2> QED
    BY <1>3, <2>1, <2>2
<1>5. ScreenSound(s)
  BY <1>1, <1>4, MobileAppAssumption DEF ScreenSound, Leaves!NotYet
<1>6. StackSound /\ Len(stack) = 1
  BY <1>3, <1>4, <1>5 DEF StackSound
<1>7. submission \in Submissions /\ Len(submission) = 0 /\ DOMAIN submission = {}
  BY <1>1 DEF Submissions
<1>8. Served = {} /\ Over = {}
  BY <1>7 DEF Served, Over
<1>9. Cardinality(Served) = 0 /\ Cardinality(Over) = 0
  BY <1>8, FS_EmptySet
<1> QED
  BY <1>1, <1>6, <1>7, <1>9, MobileAppAssumption DEF LeaveInv

\* One screen of the stack changes.
LEMMA OneScreen ==
  ASSUME StackSound, NEW i \in DOMAIN stack, NEW s \in LeaveScreen, ScreenSound(s)',
         stack' = [stack EXCEPT ![i] = s], switches \in Nat, switches' = switches,
         booked \in Nat, booked' \in Nat, booked <= booked'
  PROVE  StackSound' /\ Len(stack') = Len(stack)
<1>1. stack' \in Seq(LeaveScreen) /\ Len(stack') = Len(stack) /\ DOMAIN stack' = DOMAIN stack
  BY DEF StackSound
<1>2. ASSUME NEW j \in DOMAIN stack PROVE ScreenSound(stack[j])'
  <2>1. CASE j = i
    BY <2>1
  <2>2. CASE j # i
    <3>1. stack'[j] = stack[j] /\ ScreenSound(stack[j]) /\ stack[j] \in LeaveScreen
      BY <2>2 DEF StackSound
    <3> QED
      BY <3>1 DEF ScreenSound, LeaveScreen, Leaves!Booked
  <2> QED
    BY <2>1, <2>2
<1> QED
  BY <1>1, <1>2 DEF StackSound

\* A screen is put on top.
LEMMA OnTopSound ==
  ASSUME StackSound, NEW s \in LeaveScreen, ScreenSound(s), stack' = Append(stack, s),
         UNCHANGED <<booked, switches>>
  PROVE  StackSound' /\ Len(stack') = Len(stack) + 1
<1>1. stack \in Seq(LeaveScreen) /\ Len(stack) \in Nat
  BY DEF StackSound
<1>2. /\ stack' \in Seq(LeaveScreen) /\ Len(stack') = Len(stack) + 1
      /\ DOMAIN stack' = 1..Len(stack) + 1 /\ DOMAIN stack = 1..Len(stack)
      /\ \A i \in 1..Len(stack) + 1 : stack'[i] = IF i = Len(stack) + 1 THEN s ELSE stack[i]
  BY <1>1
<1>3. \A i \in DOMAIN stack' : ScreenSound(stack'[i])
  BY <1>2 DEF StackSound
<1>4. \A i \in DOMAIN stack' : ScreenSound(stack[i])'
  BY <1>3 DEF ScreenSound
<1> QED
  BY <1>2, <1>4 DEF StackSound

\* The submissions go on as they are.
LEMMA LeaveKeptBy ==
  ASSUME LeaveInv, StackSound', UNCHANGED <<booked, submission, switches>>,
         Len(stack') \in Nat, 1 <= Len(stack'),
         Len(stack') + MaxSubmits <= MaxScreens \/ Len(stack') <= Len(stack)
  PROVE  LeaveInv'
<1>1. Served' = Served /\ Over' = Over
  BY DEF Served, Over
<1>2. Cardinality(Over) \in Nat /\ Len(stack) \in Nat
  BY LeaveBounded
<1>3. Len(stack') + MaxSubmits <= MaxScreens + Cardinality(Over)
  BY <1>2, MobileAppAssumption DEF LeaveInv
<1> QED
  BY <1>1, <1>3 DEF LeaveInv

\* The list: it is answered, shown, or asked for in another language.
LEMMA ServeListKeeps ==
  ASSUME LeaveInv, NEW i \in DOMAIN stack,
         Leaves!ServeList(i) \/ Leaves!ListLoaded(i) \/ Leaves!ListFailed(i) \/ Leaves!TypesLoaded(i)
  PROVE  LeaveInv'
<1>1. /\ stack[i] \in LeaveScreen /\ ScreenSound(stack[i]) /\ booked \in Leaves!Booked
      /\ Len(stack) \in Nat /\ 1 <= Len(stack)
  BY LeaveBounded DEF LeaveInv, StackSound
<1>2. switches \in 0..MaxSwitches /\ switches \in Nat /\ booked \in Nat
  BY <1>1 DEF LeaveInv
<1>3. UNCHANGED <<booked, submission, switches>>
  BY DEF Leaves!ServeList, Leaves!ListLoaded, Leaves!ListFailed, Leaves!TypesLoaded
<1>4. SUFFICES ASSUME TRUE
               PROVE \E s \in LeaveScreen : ScreenSound(s) /\ stack' = [stack EXCEPT ![i] = s]
  <2>1. PICK s \in LeaveScreen : ScreenSound(s) /\ stack' = [stack EXCEPT ![i] = s]
    BY <1>4
  <2>2. ScreenSound(s)'
    BY <1>3, <2>1 DEF ScreenSound
  <2>3. StackSound' /\ Len(stack') = Len(stack)
    <3>1. /\ StackSound /\ switches' = switches /\ booked' \in Nat /\ booked <= booked'
          /\ stack' = [stack EXCEPT ![i] = s]
      BY <1>2, <1>3, <2>1 DEF LeaveInv
    <3> QED
      BY <1>2, <2>2, <3>1, OneScreen
  <2> QED
    BY <1>1, <1>3, <2>3, LeaveKeptBy
<1>5. CASE Leaves!ServeList(i)
  <2>1. PICK s : s = [stack[i] EXCEPT !.asked = stack[i].asked - 1,
                                      !.answers = stack[i].answers \cup {booked}]
    OBVIOUS
  <2>2. stack[i].asked > 0
    BY <1>5 DEF Leaves!ServeList
  <2>3. /\ s \in LeaveScreen /\ s.asked = stack[i].asked - 1 /\ s.owes = stack[i].owes
        /\ s.rows = stack[i].rows /\ s.error = stack[i].error
        /\ s.answers = stack[i].answers \cup {booked}
    <3>1. stack[i].asked - 1 \in 0..(MaxSwitches + 1)
      BY <1>1, <2>2, MobileAppAssumption DEF LeaveScreen
    <3>2. stack[i].answers \cup {booked} \subseteq Leaves!Booked
      BY <1>1 DEF LeaveScreen
    <3> QED
      BY <1>1, <2>1, <3>1, <3>2 DEF LeaveScreen
  <2>4. ScreenSound(s)
    <3>1. stack[i].asked \in Nat
      BY <1>1, MobileAppAssumption DEF LeaveScreen
    <3> QED
      BY <1>1, <1>2, <2>3, <3>1 DEF ScreenSound
  <2>5. stack' = [stack EXCEPT ![i] = s]
    BY <1>1, <1>5, <2>1 DEF Leaves!ServeList, LeaveInv, StackSound, LeaveScreen
  <2> QED
    BY <2>3, <2>4, <2>5
<1>6. CASE Leaves!ListLoaded(i)
  <2>1. PICK b \in stack[i].answers :
               stack' = [stack EXCEPT ![i].rows = b, ![i].answers = @ \ {b}]
    BY <1>6 DEF Leaves!ListLoaded
  <2>2. PICK s : s = [stack[i] EXCEPT !.rows = b, !.answers = stack[i].answers \ {b}]
    OBVIOUS
  <2>3. b \in 0..Leaves!NotYet
    BY <1>1, MobileAppAssumption DEF LeaveScreen, Leaves!Booked, Leaves!NotYet
  <2>4. /\ s \in LeaveScreen /\ s.asked = stack[i].asked /\ s.owes = stack[i].owes
        /\ s.rows = b /\ s.answers = stack[i].answers \ {b}
    BY <1>1, <2>2, <2>3 DEF LeaveScreen
  <2>5. ScreenSound(s)
    BY <1>1, <2>4 DEF ScreenSound
  <2>6. stack' = [stack EXCEPT ![i] = s]
    BY <1>1, <2>1, <2>2 DEF LeaveInv, StackSound, LeaveScreen
  <2> QED
    BY <2>4, <2>5, <2>6
<1>7. CASE Leaves!ListFailed(i)
  <2>1. PICK s : s = Leaves!Unlisted(stack[i])
    OBVIOUS
  <2>2. stack[i].asked > 0 /\ stack[i].asked \in Nat
    BY <1>1, <1>7, MobileAppAssumption DEF Leaves!ListFailed, LeaveScreen
  <2>3. /\ s \in LeaveScreen /\ s.asked = stack[i].asked - 1 /\ s.owes = stack[i].owes
        /\ s.rows = 0 /\ s.error /\ s.answers = stack[i].answers
    <3>1. stack[i].asked - 1 \in 0..(MaxSwitches + 1) /\ 0 \in 0..Leaves!NotYet
      BY <1>1, <2>2, MobileAppAssumption DEF LeaveScreen, Leaves!NotYet
    <3> QED
      BY <1>1, <2>1, <3>1 DEF LeaveScreen, Leaves!Unlisted
  <2>4. ScreenSound(s)
    BY <1>1, <1>2, <2>2, <2>3 DEF ScreenSound
  <2>5. stack' = [stack EXCEPT ![i] = s]
    BY <1>7, <2>1 DEF Leaves!ListFailed
  <2> QED
    BY <2>3, <2>4, <2>5
<1>8. CASE Leaves!TypesLoaded(i)
  <2>1. PICK s : s = [stack[i] EXCEPT !.types = TRUE]
    OBVIOUS
  <2>2. /\ s \in LeaveScreen /\ s.asked = stack[i].asked /\ s.owes = stack[i].owes
        /\ s.rows = stack[i].rows /\ s.error = stack[i].error /\ s.answers = stack[i].answers
    BY <1>1, <2>1 DEF LeaveScreen
  <2>3. ScreenSound(s)
    BY <1>1, <2>2 DEF ScreenSound
  <2>4. stack' = [stack EXCEPT ![i] = s]
    BY <1>8, <2>1 DEF Leaves!TypesLoaded
  <2> QED
    BY <2>2, <2>3, <2>4
<1> QED
  BY <1>5, <1>6, <1>7, <1>8

\* Another language: each list on the stack is asked for once more.
LEMMA SwitchLeave == LeaveInv /\ Leaves!SwitchLanguage => LeaveInv'
<1> SUFFICES ASSUME LeaveInv, Leaves!SwitchLanguage PROVE LeaveInv'
  OBVIOUS
<1>1. /\ stack \in Seq(LeaveScreen) /\ DOMAIN stack = 1..Len(stack) /\ Len(stack) \in Nat
      /\ 1 <= Len(stack)
  BY LeaveBounded DEF LeaveInv, StackSound
<1>2. /\ switches \in 0..MaxSwitches /\ switches < MaxSwitches /\ switches' = switches + 1
      /\ UNCHANGED <<booked, submission>>
      /\ stack' = [i \in DOMAIN stack |->
                      IF stack[i].kind = "list" THEN [stack[i] EXCEPT !.asked = @ + 1]
                      ELSE stack[i]]
  BY DEF Leaves!SwitchLanguage, LeaveInv
<1>3. switches' \in 0..MaxSwitches
  BY <1>2, MobileAppAssumption
<1>4. ASSUME NEW i \in DOMAIN stack
      PROVE  stack'[i] \in LeaveScreen /\ ScreenSound(stack[i])'
  <2>1. stack[i] \in LeaveScreen /\ ScreenSound(stack[i])
    BY DEF LeaveInv, StackSound
  <2>2. stack[i].asked \in Nat /\ stack[i].asked <= switches + 1
    BY <2>1, MobileAppAssumption DEF ScreenSound, LeaveScreen
  <2>3. CASE stack'[i] = stack[i]
    BY <1>2, <2>1, <2>2, <2>3 DEF ScreenSound
  <2>4. CASE stack'[i] = [stack[i] EXCEPT !.asked = stack[i].asked + 1]
    <3>1. stack[i].asked + 1 \in 0..(MaxSwitches + 1) /\ stack[i].asked + 1 <= switches' + 1
      BY <1>2, <2>2, MobileAppAssumption
    <3>2. PICK s : s = [stack[i] EXCEPT !.asked = stack[i].asked + 1]
      OBVIOUS
    <3>3. /\ s \in LeaveScreen /\ s.asked = stack[i].asked + 1 /\ s.owes = stack[i].owes
          /\ s.rows = stack[i].rows /\ s.error = stack[i].error /\ s.answers = stack[i].answers
      BY <2>1, <3>1, <3>2 DEF LeaveScreen
    <3>4. s.asked <= switches' + 1 /\ s.owes <= booked'
          /\ (s.owes <= s.rows \/ (s.rows = 0 /\ s.error))
          /\ \A b \in s.answers : s.owes <= b
      BY <1>2, <2>1, <3>1, <3>3 DEF ScreenSound
    <3> QED
      BY <2>4, <3>2, <3>3, <3>4 DEF ScreenSound
  <2> QED
    BY <1>2, <2>3, <2>4
<1>5. stack' \in Seq(LeaveScreen) /\ Len(stack') = Len(stack) /\ DOMAIN stack' = DOMAIN stack
  BY <1>1, <1>2, <1>4
<1>6. StackSound'
  BY <1>4, <1>5 DEF StackSound
<1>7. Served' = Served /\ Over' = Over
  BY <1>2 DEF Served, Over
<1> QED
  BY <1>2, <1>3, <1>5, <1>6, <1>7 DEF LeaveInv

\* Screens come and go: a form is opened, or the list, or the one on top is left.
LEMMA NavigateKeeps == LeaveInv /\ Leaves!LeaveHistoryScreen => LeaveInv'
<1> SUFFICES ASSUME LeaveInv, Leaves!LeaveHistoryScreen PROVE LeaveInv'
  OBVIOUS
<1>1. /\ stack \in Seq(LeaveScreen) /\ DOMAIN stack = 1..Len(stack) /\ Len(stack) \in Nat
      /\ 1 <= Len(stack) /\ booked \in Leaves!Booked /\ StackSound
      /\ submission \in Submissions /\ DOMAIN submission = 1..Len(submission)
  BY LeaveBounded DEF LeaveInv, StackSound
<1>2. switches \in Nat /\ booked \in Nat
  BY MobileAppAssumption DEF LeaveInv
<1>3. ASSUME NEW s \in {Leaves!RequestForm, Leaves!List}, Leaves!Room, stack' = Append(stack, s),
             UNCHANGED <<booked, submission, switches>>
      PROVE  LeaveInv'
  <2>1. s \in LeaveScreen /\ s.asked \in {0, 1} /\ s.owes = 0 /\ s.answers = {} /\ s.rows = Leaves!NotYet
    <3>1. CASE s = Leaves!RequestForm
      BY <1>1, <3>1, NewScreens, Zenon
    <3>2. CASE s = Leaves!List
      BY <1>1, <3>2, NewScreens, Zenon
    <3> QED
      BY <3>1, <3>2
  <2>2. ScreenSound(s)
    BY <1>2, <2>1, MobileAppAssumption DEF ScreenSound, Leaves!NotYet
  <2>3. StackSound' /\ Len(stack') = Len(stack) + 1
    BY <1>1, <1>3, <2>1, <2>2, OnTopSound
  <2>4. Len(stack') \in Nat /\ 1 <= Len(stack') /\ Len(stack') + MaxSubmits <= MaxScreens
    BY <1>1, <1>3, <2>3, MobileAppAssumption DEF Leaves!Room
  <2> QED
    BY <1>3, <2>3, <2>4, LeaveKeptBy
<1>4. CASE Leaves!AddLeave
  BY <1>3, <1>4 DEF Leaves!AddLeave
<1>5. CASE Leaves!OpenHistory
  BY <1>3, <1>5 DEF Leaves!OpenHistory
<1>6. CASE Leaves!GoBack
  <2>1. /\ Len(stack) > 1 /\ stack' = SubSeq(stack, 1, Len(stack) - 1) /\ UNCHANGED <<booked, switches>>
        /\ submission' = [n \in DOMAIN submission |->
                             IF submission[n].of = Len(stack) THEN [submission[n] EXCEPT !.of = 0]
                             ELSE submission[n]]
    BY <1>6 DEF Leaves!GoBack, Leaves!OnTop
  <2>2. /\ stack' \in Seq(LeaveScreen) /\ Len(stack') = Len(stack) - 1
        /\ DOMAIN stack' = 1..Len(stack) - 1
        /\ \A i \in 1..Len(stack) - 1 : stack'[i] = stack[i] /\ i \in DOMAIN stack
    BY <1>1, <2>1
  <2>3. StackSound'
    <3>1. \A i \in DOMAIN stack' : ScreenSound(stack[i])'
      BY <1>1, <2>1, <2>2 DEF StackSound, ScreenSound
    <3> QED
      BY <2>2, <3>1 DEF StackSound
  <2>4. \A n \in DOMAIN submission :
           /\ submission'[n] \in [stage: {"sent", "done", "failed", "over"}, of: 0..MaxScreens]
           /\ submission'[n].stage = submission[n].stage
    <3> SUFFICES ASSUME NEW n \in DOMAIN submission
                 PROVE  /\ submission'[n] \in [stage: {"sent", "done", "failed", "over"},
                                               of: 0..MaxScreens]
                        /\ submission'[n].stage = submission[n].stage
      OBVIOUS
    <3>1. submission[n] \in [stage: {"sent", "done", "failed", "over"}, of: 0..MaxScreens]
      BY <1>1, ElementOf DEF Submissions
    <3>2. 0 \in 0..MaxScreens
      BY MobileAppAssumption
    <3>3. submission'[n] \in {submission[n], [submission[n] EXCEPT !.of = 0]}
      BY <2>1
    <3> QED
      BY <3>1, <3>2, <3>3
  <2>5. /\ submission' \in Submissions /\ Len(submission') = Len(submission)
        /\ DOMAIN submission' = DOMAIN submission
    BY <1>1, <2>1, <2>4 DEF Submissions
  <2>6. Served' = Served /\ Over' = Over
    BY <2>4, <2>5 DEF Served, Over
  <2>7. /\ Cardinality(Over) \in Nat /\ Len(stack) + MaxSubmits <= MaxScreens + Cardinality(Over)
        /\ booked \in Nat /\ booked <= Cardinality(Served) /\ switches \in 0..MaxSwitches
        /\ Len(submission) <= MaxSubmits
    BY LeaveBounded DEF LeaveInv
  <2>8. 1 <= Len(stack') /\ Len(stack') + MaxSubmits <= MaxScreens + Cardinality(Over)
    <3>1. Len(stack) \in Nat /\ Len(stack) > 1 /\ Len(stack') = Len(stack) - 1
      BY <1>1, <2>1, <2>2
    <3>2. 1 <= Len(stack')
      BY <3>1
    <3> QED
      BY <2>7, <3>1, <3>2, MobileAppAssumption
  <2> QED
    BY <2>1, <2>3, <2>5, <2>6, <2>7, <2>8 DEF LeaveInv
<1> QED
  BY <1>4, <1>5, <1>6 DEF Leaves!LeaveHistoryScreen

\* The form: its dates, and its button.
LEMMA FormKeeps == LeaveInv /\ Leaves!LeaveRequestScreen => LeaveInv'
<1> SUFFICES ASSUME LeaveInv, Leaves!LeaveRequestScreen PROVE LeaveInv'
  OBVIOUS
<1>1. /\ stack \in Seq(LeaveScreen) /\ DOMAIN stack = 1..Len(stack) /\ Len(stack) \in 1..MaxScreens
      /\ Len(stack) \in Nat /\ 1 <= Len(stack) /\ Len(stack) \in DOMAIN stack /\ StackSound
      /\ submission \in Submissions /\ DOMAIN submission = 1..Len(submission)
      /\ Len(submission) \in Nat
  BY LeaveBounded DEF LeaveInv, StackSound
<1>2. switches \in Nat /\ booked \in Nat
  BY MobileAppAssumption DEF LeaveInv
<1>3. PICK top \in LeaveScreen : top = stack[Len(stack)] /\ ScreenSound(top)
  BY <1>1 DEF StackSound
<1>4. ASSUME NEW s \in LeaveScreen, s.asked = top.asked, s.owes = top.owes, s.rows = top.rows,
             s.error = top.error, s.answers = top.answers, stack' = [stack EXCEPT ![Len(stack)] = s],
             UNCHANGED <<booked, switches>>
      PROVE  StackSound' /\ Len(stack') = Len(stack)
  <2>1. ScreenSound(s)'
    BY <1>3, <1>4 DEF ScreenSound
  <2>2. booked' \in Nat /\ booked <= booked' /\ switches' = switches
    BY <1>2, <1>4
  <2> QED
    BY <1>1, <1>2, <1>4, <2>1, <2>2, OneScreen
<1>5. CASE Leaves!handleDateChange
  <2>1. PICK s : s = [top EXCEPT !.dates = TRUE]
    OBVIOUS
  <2>2. /\ s \in LeaveScreen /\ s.asked = top.asked /\ s.owes = top.owes /\ s.rows = top.rows
        /\ s.error = top.error /\ s.answers = top.answers
    BY <1>3, <2>1 DEF LeaveScreen
  <2>3. stack' = [stack EXCEPT ![Len(stack)] = s] /\ UNCHANGED <<booked, submission, switches>>
    BY <1>3, <1>5, <2>1 DEF Leaves!handleDateChange, Leaves!OnTop
  <2>4. StackSound' /\ Len(stack') = Len(stack)
    BY <1>4, <2>2, <2>3
  <2> QED
    BY <1>1, <2>3, <2>4, LeaveKeptBy
<1>6. CASE Leaves!handleSubmit
  <2>1. PICK s : s = [top EXCEPT !.busy = TRUE]
    OBVIOUS
  <2>2. /\ s \in LeaveScreen /\ s.asked = top.asked /\ s.owes = top.owes /\ s.rows = top.rows
        /\ s.error = top.error /\ s.answers = top.answers
    BY <1>3, <2>1 DEF LeaveScreen
  <2>3. /\ stack' = [stack EXCEPT ![Len(stack)] = s] /\ UNCHANGED <<booked, switches>>
        /\ Len(submission) < MaxSubmits
        /\ submission' = Append(submission, [stage |-> "sent", of |-> Len(stack)])
    BY <1>3, <1>6, <2>1 DEF Leaves!handleSubmit, Leaves!OnTop
  <2>4. StackSound' /\ Len(stack') = Len(stack)
    BY <1>4, <2>2, <2>3
  <2>5. Len(stack) \in 0..MaxScreens
    BY <1>1, MobileAppAssumption
  <2>6. PICK sent : sent = [stage |-> "sent", of |-> Len(stack)]
    OBVIOUS
  <2>7. /\ sent = [stage |-> "sent", of |-> Len(stack)]
        /\ sent \in [stage: {"sent", "done", "failed", "over"}, of: 0..MaxScreens]
        /\ sent.stage = "sent"
    BY <2>5, <2>6
  <2>8. /\ submission' \in Submissions /\ Len(submission') = Len(submission) + 1
        /\ DOMAIN submission' = 1..Len(submission) + 1
        /\ \A n \in 1..Len(submission) + 1 :
              submission'[n] = IF n = Len(submission) + 1 THEN sent ELSE submission[n]
    BY <1>1, <2>3, <2>7 DEF Submissions
  <2>9. Served' = Served /\ Over' = Over
    <3>1. \A n \in DOMAIN submission' :
             (submission'[n].stage # "sent" <=> n \in Served)
             /\ (submission'[n].stage = "over" <=> n \in Over)
      BY <1>1, <2>7, <2>8 DEF Served, Over
    <3>2. DOMAIN submission \subseteq DOMAIN submission'
      BY <1>1, <2>8
    <3>3. Served \subseteq DOMAIN submission /\ Over \subseteq DOMAIN submission
      BY DEF Served, Over
    <3>4. Served' = {n \in DOMAIN submission' : submission'[n].stage # "sent"}
          /\ Over' = {n \in DOMAIN submission' : submission'[n].stage = "over"}
      BY DEF Served, Over
    <3> QED
      BY <3>1, <3>2, <3>3, <3>4
  <2>10. Len(submission') <= MaxSubmits
    BY <1>1, <2>3, <2>8, MobileAppAssumption
  <2> QED
    BY <1>1, <2>3, <2>4, <2>8, <2>9, <2>10 DEF LeaveInv
<1> QED
  BY <1>5, <1>6 DEF Leaves!LeaveRequestScreen

\* A submission goes on, from one stage to the next.
LEMMA StageMoves ==
  ASSUME submission \in Submissions, DOMAIN submission = 1..Len(submission),
         NEW n \in DOMAIN submission,
         NEW sent \in [stage: {"sent", "done", "failed", "over"}, of: 0..MaxScreens],
         submission' = [submission EXCEPT ![n] = sent], sent.stage # "sent"
  PROVE  /\ submission' \in Submissions /\ Len(submission') = Len(submission)
         /\ Served' = Served \cup {n}
         /\ (submission[n].stage # "over" /\ sent.stage # "over" => Over' = Over)
         /\ (sent.stage = "over" => Over' = Over \cup {n})
<1>1. /\ submission' \in Submissions /\ Len(submission') = Len(submission)
      /\ DOMAIN submission' = DOMAIN submission
      /\ \A m \in DOMAIN submission : submission'[m] = IF m = n THEN sent ELSE submission[m]
  BY DEF Submissions
<1>2. Served' = {m \in DOMAIN submission' : submission'[m].stage # "sent"}
      /\ Over' = {m \in DOMAIN submission' : submission'[m].stage = "over"}
  BY DEF Served, Over
<1>3. Served' = Served \cup {n}
  BY <1>1, <1>2 DEF Served
<1>4. submission[n].stage # "over" /\ sent.stage # "over" => Over' = Over
  BY <1>1, <1>2 DEF Over
<1>5. sent.stage = "over" => Over' = Over \cup {n}
  BY <1>1, <1>2 DEF Over
<1> QED
  BY <1>1, <1>3, <1>4, <1>5

\* A submission reaches the server: it books once, or not at all.
LEMMA ServeSubmitKeeps ==
  ASSUME LeaveInv, NEW n \in DOMAIN submission, Leaves!ServeSubmit(n)
  PROVE  LeaveInv'
<1>1. /\ submission \in Submissions /\ DOMAIN submission = 1..Len(submission)
      /\ booked \in Nat /\ booked <= Cardinality(Served) /\ StackSound
      /\ Cardinality(Served) \in Nat /\ IsFiniteSet(Served) /\ switches \in Nat
  BY LeaveBounded, MobileAppAssumption DEF LeaveInv
<1>2. UNCHANGED <<stack, switches>> /\ booked' \in {booked, booked + 1}
      /\ submission[n].stage = "sent"
  BY DEF Leaves!ServeSubmit
<1>3. PICK s \in {"done", "failed"} : submission' = [submission EXCEPT ![n].stage = s]
  BY DEF Leaves!ServeSubmit
<1>4. submission[n] \in [stage: {"sent", "done", "failed", "over"}, of: 0..MaxScreens]
  BY <1>1, ElementOf DEF Submissions
<1>5. PICK sent : sent = [submission[n] EXCEPT !.stage = s]
  OBVIOUS
<1>6. /\ sent \in [stage: {"sent", "done", "failed", "over"}, of: 0..MaxScreens]
      /\ sent.stage = s /\ submission' = [submission EXCEPT ![n] = sent]
  BY <1>3, <1>4, <1>5
<1>7. /\ submission' \in Submissions /\ Len(submission') = Len(submission)
      /\ Served' = Served \cup {n} /\ Over' = Over
  BY <1>1, <1>2, <1>3, <1>6, StageMoves
<1>8. n \notin Served
  BY <1>2 DEF Served
<1>9. Cardinality(Served') = Cardinality(Served) + 1
  BY <1>1, <1>7, <1>8, FS_AddElement
<1>10. booked' \in Nat /\ booked <= booked' /\ booked' <= Cardinality(Served')
  BY <1>1, <1>2, <1>9
<1>11. StackSound'
  <2>1. \A i \in DOMAIN stack : ScreenSound(stack[i])'
    <3> SUFFICES ASSUME NEW i \in DOMAIN stack PROVE ScreenSound(stack[i])'
      OBVIOUS
    <3>1. stack[i] \in LeaveScreen /\ ScreenSound(stack[i])
      BY <1>1 DEF StackSound
    <3>2. stack[i].owes \in Nat
      BY <3>1, MobileAppAssumption DEF LeaveScreen, Leaves!Booked
    <3> QED
      BY <1>1, <1>2, <1>10, <3>1, <3>2 DEF ScreenSound
  <2> QED
    BY <1>1, <1>2, <2>1 DEF StackSound
<1> QED
  BY <1>2, <1>7, <1>10, <1>11 DEF LeaveInv

\* The answer is heard: the form gets its button back, and its fields are emptied.
LEMMA SettledSound ==
  ASSUME StackSound, NEW n \in DOMAIN submission,
         submission[n].of \in 0..MaxScreens,
         NEW screens \in {Leaves!Settled(n, stack), Leaves!Settled(n, Leaves!Emptied(n, stack))}
  PROVE  /\ screens \in Seq(LeaveScreen) /\ Len(screens) = Len(stack)
         /\ DOMAIN screens = DOMAIN stack
         /\ \A i \in DOMAIN screens : ScreenSound(screens[i])
<1> DEFINE of == submission[n].of
           Same(other) ==
               /\ other \in Seq(LeaveScreen) /\ Len(other) = Len(stack)
               /\ DOMAIN other = DOMAIN stack
               /\ \A i \in DOMAIN other : ScreenSound(other[i])
<1>1. stack \in Seq(LeaveScreen) /\ Same(stack)
  BY DEF StackSound
<1>2. ASSUME NEW other, Same(other), NEW i \in DOMAIN other, NEW s \in LeaveScreen,
             s.asked = other[i].asked, s.owes = other[i].owes, s.rows = other[i].rows,
             s.error = other[i].error, s.answers = other[i].answers
      PROVE  Same([other EXCEPT ![i] = s])
  <2>1. PICK o : o = [other EXCEPT ![i] = s]
    OBVIOUS
  <2>2. /\ o \in Seq(LeaveScreen) /\ Len(o) = Len(other) /\ DOMAIN o = DOMAIN other
        /\ \A j \in DOMAIN o : o[j] = IF j = i THEN s ELSE other[j]
    BY <1>2, <2>1
  <2>3. ScreenSound(s)
    BY <1>2 DEF ScreenSound
  <2>4. \A j \in DOMAIN o : ScreenSound(o[j])
    BY <1>2, <2>2, <2>3
  <2> QED
    BY <1>2, <2>1, <2>2, <2>4
<1>3. ASSUME NEW other, Same(other)
      PROVE  /\ Same([other EXCEPT ![of].busy = FALSE])
             /\ Same([other EXCEPT ![of].dates = FALSE])
  <2>1. CASE of \notin DOMAIN other
    <3>1. [other EXCEPT ![of].busy = FALSE] = other /\ [other EXCEPT ![of].dates = FALSE] = other
      BY <1>3, <2>1
    <3> QED
      BY <1>3, <3>1
  <2>2. CASE of \in DOMAIN other
    <3>1. other[of] \in LeaveScreen
      BY <1>3, <2>2, ElementOf
    <3>2. PICK s : s = [other[of] EXCEPT !.busy = FALSE]
      OBVIOUS
    <3>3. /\ s \in LeaveScreen /\ s.asked = other[of].asked /\ s.owes = other[of].owes
          /\ s.rows = other[of].rows /\ s.error = other[of].error /\ s.answers = other[of].answers
      BY <3>1, <3>2 DEF LeaveScreen
    <3>4. PICK t : t = [other[of] EXCEPT !.dates = FALSE]
      OBVIOUS
    <3>5. /\ t \in LeaveScreen /\ t.asked = other[of].asked /\ t.owes = other[of].owes
          /\ t.rows = other[of].rows /\ t.error = other[of].error /\ t.answers = other[of].answers
      BY <3>1, <3>4 DEF LeaveScreen
    <3>6. [other EXCEPT ![of].busy = FALSE] = [other EXCEPT ![of] = s]
          /\ [other EXCEPT ![of].dates = FALSE] = [other EXCEPT ![of] = t]
      BY <3>2, <3>4
    <3>7. Same([other EXCEPT ![of] = s])
      BY ONLY <1>2, <1>3, <2>2, <3>3
    <3>8. Same([other EXCEPT ![of] = t])
      BY ONLY <1>2, <1>3, <2>2, <3>5
    <3> QED
      BY ONLY <3>6, <3>7, <3>8
  <2> QED
    BY <2>1, <2>2
<1>4. \A other : Same(other) => Same(Leaves!Settled(n, other)) /\ Same(Leaves!Emptied(n, other))
  <2> SUFFICES ASSUME NEW other, Same(other)
               PROVE  Same(Leaves!Settled(n, other)) /\ Same(Leaves!Emptied(n, other))
    OBVIOUS
  <2>1. Leaves!Settled(n, other) \in {other, [other EXCEPT ![of].busy = FALSE]}
        /\ Leaves!Emptied(n, other) \in {other, [other EXCEPT ![of].dates = FALSE]}
    BY DEF Leaves!Settled, Leaves!Emptied
  <2>2. Same([other EXCEPT ![of].busy = FALSE]) /\ Same([other EXCEPT ![of].dates = FALSE])
    BY <1>3
  <2> HIDE DEF Same
  <2> QED
    BY <2>1, <2>2
<1>5. Same(screens)
  <2> HIDE DEF Same
  <2> QED
    BY <1>1, <1>4
<1> QED
  BY <1>5

\* Sound screens are a sound stack.
LEMMA StackSoundNext ==
  ASSUME stack' \in Seq(LeaveScreen), \A i \in DOMAIN stack' : ScreenSound(stack'[i]),
         UNCHANGED <<booked, switches>>
  PROVE  StackSound'
  BY DEF StackSound, ScreenSound

\* A submission is over: its form is done with it, and at most one screen is put on top.
LEMMA OverKeeps ==
  ASSUME LeaveInv, NEW n \in DOMAIN submission, submission[n].stage \in {"done", "failed"},
         submission' = [submission EXCEPT ![n] = [stage |-> "over", of |-> 0]],
         UNCHANGED <<booked, switches>>, StackSound',
         Len(stack') \in {Len(stack), Len(stack) + 1}
  PROVE  LeaveInv'
<1>1. /\ submission \in Submissions /\ DOMAIN submission = 1..Len(submission)
      /\ Len(submission) <= MaxSubmits /\ switches \in 0..MaxSwitches
      /\ booked \in Nat /\ booked <= Cardinality(Served) /\ IsFiniteSet(Over)
      /\ Cardinality(Over) \in Nat /\ Len(stack) \in Nat /\ 1 <= Len(stack)
      /\ Len(stack) + MaxSubmits <= MaxScreens + Cardinality(Over)
  BY LeaveBounded DEF LeaveInv, StackSound
<1>2. PICK sent : sent = [stage |-> "over", of |-> 0]
  OBVIOUS
<1>3. 0 \in 0..MaxScreens
  BY MobileAppAssumption
<1>4. /\ sent \in [stage: {"sent", "done", "failed", "over"}, of: 0..MaxScreens]
      /\ sent.stage = "over" /\ submission' = [submission EXCEPT ![n] = sent]
  BY <1>2, <1>3
<1>5. /\ submission' \in Submissions /\ Len(submission') = Len(submission)
      /\ Served' = Served \cup {n} /\ Over' = Over \cup {n}
  BY <1>1, <1>4, StageMoves
<1>6. n \in Served /\ n \notin Over
  BY DEF Served, Over
<1>7. Served' = Served
  BY <1>5, <1>6
<1>8. Cardinality(Over') = Cardinality(Over) + 1
  BY <1>1, <1>5, <1>6, FS_AddElement
<1>9. 1 <= Len(stack') /\ Len(stack') + MaxSubmits <= MaxScreens + Cardinality(Over')
  <2>1. \A l, c, k, a, b \in Int : l + a <= b + c /\ k <= l + 1 => k + a <= b + (c + 1)
    OBVIOUS
  <2>2. Len(stack') \in Nat /\ 1 <= Len(stack') /\ Len(stack') <= Len(stack) + 1
    BY <1>1
  <2>3. MaxSubmits \in Int /\ MaxScreens \in Int /\ Len(stack) \in Int /\ Cardinality(Over) \in Int
        /\ Len(stack') \in Int
    BY <1>1, <2>2, MobileAppAssumption
  <2> QED
    BY <1>1, <1>8, <2>1, <2>2, <2>3
<1> QED
  BY <1>1, <1>5, <1>7, <1>9 DEF LeaveInv

\* A request is booked and heard of: unless a list is on top, a new one is opened, that
\* owes what is booked by now.
LEMMA SubmittedKeeps ==
  ASSUME LeaveInv, NEW n \in DOMAIN submission, Leaves!Submitted(n)
  PROVE  LeaveInv'
<1>1. /\ submission \in Submissions /\ StackSound /\ booked \in Leaves!Booked /\ booked \in Nat
      /\ switches \in 0..MaxSwitches
  BY LeaveBounded DEF LeaveInv
<1>2. submission[n] \in [stage: {"sent", "done", "failed", "over"}, of: 0..MaxScreens]
  BY <1>1, ElementOf DEF Submissions
<1>3. PICK screens : screens = Leaves!Settled(n, Leaves!Emptied(n, stack))
  OBVIOUS
<1>4. /\ screens \in Seq(LeaveScreen) /\ Len(screens) = Len(stack)
      /\ DOMAIN screens = DOMAIN stack /\ \A i \in DOMAIN screens : ScreenSound(screens[i])
  BY <1>1, <1>2, <1>3, SettledSound
<1>5. /\ submission[n].stage = "done" /\ stack' = Leaves!Navigated(screens)
      /\ submission' = [submission EXCEPT ![n] = [stage |-> "over", of |-> 0]]
      /\ UNCHANGED <<booked, switches>>
  BY <1>3 DEF Leaves!Submitted
<1>6. StackSound' /\ Len(stack') \in {Len(stack), Len(stack) + 1}
  <2>1. CASE stack' = screens
    BY <1>4, <1>5, <2>1, StackSoundNext
  <2>2. CASE stack' = Append(screens, Leaves!Opened)
    <3>1. PICK o : o = Leaves!Opened
      OBVIOUS
    <3>2. o \in LeaveScreen /\ o.asked = 1 /\ o.owes = booked /\ o.answers = {}
          /\ o.rows = Leaves!NotYet
      BY <1>1, <3>1, NewScreens DEF Leaves!Opened
    <3>3. 1 <= switches + 1 /\ booked <= Leaves!NotYet
      BY <1>1, MobileAppAssumption DEF Leaves!Booked, Leaves!NotYet
    <3>4. ScreenSound(o)
      BY <1>1, <3>2, <3>3 DEF ScreenSound
    <3>5. /\ stack' \in Seq(LeaveScreen) /\ Len(stack') = Len(screens) + 1
          /\ DOMAIN stack' = 1..Len(screens) + 1 /\ DOMAIN screens = 1..Len(screens)
          /\ \A i \in 1..Len(screens) + 1 :
                stack'[i] = IF i = Len(screens) + 1 THEN o ELSE screens[i]
      BY <1>4, <2>2, <3>1, <3>2
    <3>6. \A i \in DOMAIN stack' : ScreenSound(stack'[i])
      BY <1>4, <3>4, <3>5
    <3> QED
      BY <1>4, <1>5, <3>5, <3>6, StackSoundNext
  <2> QED
    BY <1>5, <2>1, <2>2 DEF Leaves!Navigated
<1> QED
  BY <1>5, <1>6, OverKeeps

\* It was refused, or not heard of: the form gets its button back.
LEMMA NotSubmittedKeeps ==
  ASSUME LeaveInv, NEW n \in DOMAIN submission, Leaves!NotSubmitted(n)
  PROVE  LeaveInv'
<1>1. submission \in Submissions /\ StackSound
  BY DEF LeaveInv
<1>2. submission[n] \in [stage: {"sent", "done", "failed", "over"}, of: 0..MaxScreens]
  BY <1>1, ElementOf DEF Submissions
<1>3. /\ submission[n].stage = "failed" /\ stack' = Leaves!Settled(n, stack)
      /\ submission' = [submission EXCEPT ![n] = [stage |-> "over", of |-> 0]]
      /\ UNCHANGED <<booked, switches>>
  BY DEF Leaves!NotSubmitted
<1>4. /\ stack' \in Seq(LeaveScreen) /\ Len(stack') = Len(stack)
      /\ \A i \in DOMAIN stack' : ScreenSound(stack'[i])
  BY <1>1, <1>2, <1>3, SettledSound
<1>5. StackSound'
  BY <1>3, <1>4, StackSoundNext
<1> QED
  BY <1>3, <1>4, <1>5, OverKeeps

\* No step of the tab breaks it.
LEMMA LeaveStep == LeaveInv /\ Leaves!LeaveScreensNext => LeaveInv'
<1> SUFFICES ASSUME LeaveInv, Leaves!LeaveScreensNext PROVE LeaveInv'
  OBVIOUS
<1>1. CASE Leaves!SwitchLanguage
  BY <1>1, SwitchLeave
<1>2. CASE Leaves!LeaveRequestScreen
  BY <1>2, FormKeeps
<1>3. CASE Leaves!LeaveHistoryScreen
  BY <1>3, NavigateKeeps
<1>4. ASSUME NEW n \in 1..MaxSubmits, Leaves!Submission(n) PROVE LeaveInv'
  BY <1>4, ServeSubmitKeeps, SubmittedKeeps, NotSubmittedKeeps DEF Leaves!Submission
<1>5. ASSUME NEW i \in DOMAIN stack,
             Leaves!TypesLoaded(i) \/ Leaves!ServeList(i) \/ Leaves!ListLoaded(i)
             \/ Leaves!ListFailed(i)
      PROVE  LeaveInv'
  BY <1>5, ServeListKeeps
<1> QED
  BY <1>1, <1>2, <1>3, <1>4, <1>5 DEF Leaves!LeaveScreensNext, Leaves!LeaveScreensAnswers

\* The history of the attendance may hear of a new language first.
LEMMA LeaveKept ==
  LeaveInv /\ UNCHANGED <<booked, stack, submission>> /\ switches' \in 0..MaxSwitches
      /\ switches <= switches' => LeaveInv'
<1> SUFFICES ASSUME LeaveInv, UNCHANGED <<booked, stack, submission>>,
                    switches' \in 0..MaxSwitches, switches <= switches'
             PROVE  LeaveInv'
  OBVIOUS
<1>1. \A i \in DOMAIN stack : ScreenSound(stack[i])'
  <2> SUFFICES ASSUME NEW i \in DOMAIN stack PROVE ScreenSound(stack[i])'
    OBVIOUS
  <2>1. stack[i] \in LeaveScreen /\ ScreenSound(stack[i]) /\ switches \in 0..MaxSwitches
    BY DEF LeaveInv, StackSound
  <2>2. stack[i].asked \in Nat /\ stack[i].asked <= switches + 1
    BY <2>1, MobileAppAssumption DEF LeaveScreen, ScreenSound
  <2>3. stack[i].asked <= switches' + 1
    BY <2>1, <2>2, MobileAppAssumption
  <2> QED
    BY <2>1, <2>3 DEF ScreenSound
<1>2. StackSound'
  BY <1>1 DEF LeaveInv, StackSound
<1>3. Served' = Served /\ Over' = Over
  BY DEF Served, Over
<1> QED
  BY <1>2, <1>3 DEF LeaveInv

\* A list that is answered shows what it owes.
LEMMA SubmittedListed == LeaveInv => Leaves!SubmittedIsListed
<1> SUFFICES ASSUME LeaveInv, NEW i \in DOMAIN stack, stack[i].kind = "list",
                    stack[i].rows # Leaves!NotYet
             PROVE  stack[i].rows >= stack[i].owes \/ (stack[i].rows = 0 /\ stack[i].error)
  BY DEF Leaves!SubmittedIsListed
<1>1. stack[i] \in LeaveScreen /\ ScreenSound(stack[i])
  BY DEF LeaveInv, StackSound
<1>2. stack[i].rows \in Nat /\ stack[i].owes \in Nat
  BY <1>1, MobileAppAssumption DEF LeaveScreen, Leaves!Booked, Leaves!NotYet
<1> QED
  BY <1>1, <1>2 DEF ScreenSound

\* The profile as it is opened.
LEMMA ProfileStart == Profile!ProfileInit => ProfileInv
<1> SUFFICES ASSUME Profile!ProfileInit PROVE ProfileInv
  OBVIOUS
<1>1. /\ record \in [phone: Phones, picture: {0}] /\ employee = record /\ phone = employee.phone
      /\ pictureUrl = employee.picture /\ pictures = {}
      /\ saving = [stage |-> "idle", phone |-> phone, seen |-> employee]
      /\ upload = [stage |-> "idle", picture |-> 0, seen |-> employee]
      /\ saves = 0 /\ uploads = 0
  BY DEF Profile!ProfileInit
<1>2. unheard \in BOOLEAN
  BY DEF Profile!ProfileInit
<1>3. 0 \in Profile!Pictures /\ 0 \in 0..MaxSaves
  BY MobileAppAssumption DEF Profile!Pictures
<1>4. /\ record \in Profile!Employee /\ employee \in Profile!Employee /\ phone \in Phones
      /\ record.phone = employee.phone /\ employee.picture = 0 /\ pictureUrl = 0
  BY <1>1, <1>3 DEF Profile!Employee
<1>5. /\ saving \in [stage: {"idle", "sent", "done", "failed"}, phone: Phones,
                     seen: Profile!Employee]
      /\ saving.stage = "idle"
  BY <1>1, <1>4
<1>6. /\ upload \in [stage: {"idle", "picking", "asking", "putting", "done", "failed"},
                     picture: Profile!Pictures, seen: Profile!Employee]
      /\ upload.stage = "idle"
  BY <1>1, <1>3, <1>4
<1>7. Profile!ProfileTypeOK
  BY <1>1, <1>2, <1>3, <1>4, <1>5, <1>6 DEF Profile!ProfileTypeOK
<1> QED
  BY <1>1, <1>4, <1>5, <1>6, <1>7 DEF ProfileInv

\* A save goes from one stage to the next, for the number it has ...
LEMMA SavingMoves ==
  ASSUME ProfileInv, NEW stage \in {"idle", "sent", "done", "failed"}, Profile!Saving(stage)
  PROVE  /\ saving' \in [stage: {"idle", "sent", "done", "failed"}, phone: Phones,
                         seen: Profile!Employee]
         /\ saving'.stage = stage /\ saving'.phone = saving.phone
<1>1. saving \in [stage: {"idle", "sent", "done", "failed"}, phone: Phones,
                  seen: Profile!Employee]
  BY DEF ProfileInv, Profile!ProfileTypeOK
<1> QED
  BY <1>1 DEF Profile!Saving

\* ... and so does an upload.
LEMMA UploadMoves ==
  ASSUME ProfileInv, NEW stage \in {"idle", "picking", "asking", "putting", "done", "failed"},
         Profile!Upload(stage)
  PROVE  /\ upload' \in [stage: {"idle", "picking", "asking", "putting", "done", "failed"},
                         picture: Profile!Pictures, seen: Profile!Employee]
         /\ upload'.stage = stage /\ upload'.picture = upload.picture
<1>1. upload \in [stage: {"idle", "picking", "asking", "putting", "done", "failed"},
                  picture: Profile!Pictures, seen: Profile!Employee]
  BY DEF ProfileInv, Profile!ProfileTypeOK
<1> QED
  BY <1>1 DEF Profile!Upload

\* A number is typed, saved, and heard to be saved.
LEMMA PhoneKeeps ==
  ProfileInv /\ (Profile!handleSavePhone \/ Profile!PhoneAnswers
                 \/ \E p \in Phones : Profile!Type(p)) => ProfileInv'
<1> SUFFICES ASSUME ProfileInv, Profile!handleSavePhone \/ Profile!PhoneAnswers
                                \/ \E p \in Phones : Profile!Type(p)
             PROVE  ProfileInv'
  OBVIOUS
<1> USE DEF Profile!server
<1>1. /\ record \in Profile!Employee /\ employee \in Profile!Employee /\ phone \in Phones
      /\ pictures \subseteq Profile!Pictures /\ pictureUrl \in Profile!Pictures
      /\ saving \in [stage: {"idle", "sent", "done", "failed"}, phone: Phones,
                     seen: Profile!Employee]
      /\ upload \in [stage: {"idle", "picking", "asking", "putting", "done", "failed"},
                     picture: Profile!Pictures, seen: Profile!Employee]
      /\ saves \in 0..MaxSaves /\ uploads \in Profile!Pictures
      /\ {pictureUrl, employee.picture} \subseteq pictures \cup {0}
      /\ upload.stage = "done" => upload.picture \in pictures
  BY DEF ProfileInv, Profile!ProfileTypeOK
<1>2. unheard \in BOOLEAN
  BY DEF ProfileInv, Profile!ProfileTypeOK
<1>3. saving.stage # "done" /\ ~unheard => employee.phone = record.phone
  BY DEF ProfileInv
<1>4. saving.stage = "done" => saving.phone = record.phone
  BY DEF ProfileInv
<1>5. ASSUME NEW p \in Phones, Profile!Type(p) PROVE ProfileInv'
  <2>1. /\ phone' \in Phones
        /\ UNCHANGED <<record, pictures, employee, pictureUrl, saving, upload, unheard, saves,
                       uploads>>
    BY <1>5 DEF Profile!Type
  <2>2. Profile!ProfileTypeOK'
    BY <1>1, <1>2, <2>1 DEF Profile!ProfileTypeOK
  <2> QED
    BY <1>1, <1>3, <1>4, <2>1, <2>2 DEF ProfileInv
<1>6. CASE Profile!handleSavePhone
  <2>1. /\ saving.stage = "idle" /\ saves < MaxSaves /\ saves' = saves + 1
        /\ saving' = [stage |-> "sent", phone |-> phone, seen |-> employee]
        /\ UNCHANGED <<record, pictures, employee, phone, pictureUrl, upload, unheard, uploads>>
    BY <1>6 DEF Profile!handleSavePhone
  <2>2. /\ saving' \in [stage: {"idle", "sent", "done", "failed"}, phone: Phones,
                        seen: Profile!Employee]
        /\ saving'.stage = "sent"
    BY <1>1, <2>1
  <2>3. saves' \in 0..MaxSaves
    BY <1>1, <2>1, MobileAppAssumption
  <2>4. Profile!ProfileTypeOK'
    BY <1>1, <1>2, <2>1, <2>2, <2>3 DEF Profile!ProfileTypeOK
  <2> QED
    BY <1>1, <1>3, <2>1, <2>2, <2>4 DEF ProfileInv
<1>7. CASE Profile!ServePhone
  <2>1. /\ saving.stage = "sent"
        /\ UNCHANGED <<pictures, employee, phone, pictureUrl, upload, saves, uploads>>
    BY <1>7 DEF Profile!ServePhone
  <2>2. CASE /\ record' = [record EXCEPT !.phone = saving.phone] /\ Profile!Saving("done")
             /\ UNCHANGED unheard
    <3>1. /\ saving' \in [stage: {"idle", "sent", "done", "failed"}, phone: Phones,
                          seen: Profile!Employee]
          /\ saving'.stage = "done" /\ saving'.phone = saving.phone
      BY <2>2, SavingMoves
    <3>2. record' \in Profile!Employee /\ record'.phone = saving.phone
      BY <1>1, <2>2 DEF Profile!Employee
    <3>3. Profile!ProfileTypeOK'
      BY <1>1, <1>2, <2>1, <2>2, <3>1, <3>2 DEF Profile!ProfileTypeOK
    <3> QED
      BY <1>1, <2>1, <3>1, <3>2, <3>3 DEF ProfileInv
  <2>3. CASE /\ record' = [record EXCEPT !.phone = saving.phone] /\ Profile!Saving("failed")
             /\ unheard' = TRUE
    <3>1. /\ saving' \in [stage: {"idle", "sent", "done", "failed"}, phone: Phones,
                          seen: Profile!Employee]
          /\ saving'.stage = "failed"
      BY <2>3, SavingMoves
    <3>2. record' \in Profile!Employee
      BY <1>1, <2>3 DEF Profile!Employee
    <3>3. unheard' /\ unheard' \in BOOLEAN
      BY <2>3
    <3>4. Profile!ProfileTypeOK'
      BY <1>1, <2>1, <3>1, <3>2, <3>3 DEF Profile!ProfileTypeOK
    <3> QED
      BY <1>1, <2>1, <3>1, <3>3, <3>4 DEF ProfileInv
  <2>4. CASE Profile!Saving("failed") /\ UNCHANGED <<record, unheard>>
    <3>1. /\ saving' \in [stage: {"idle", "sent", "done", "failed"}, phone: Phones,
                          seen: Profile!Employee]
          /\ saving'.stage = "failed"
      BY <2>4, SavingMoves
    <3>2. Profile!ProfileTypeOK'
      BY <1>1, <1>2, <2>1, <2>4, <3>1 DEF Profile!ProfileTypeOK
    <3>3. ~unheard' => employee'.phone = record'.phone
      BY <1>3, <2>1, <2>4
    <3> QED
      BY <1>1, <2>1, <3>1, <3>2, <3>3 DEF ProfileInv
  <2> QED
    BY <1>7, <2>2, <2>3, <2>4 DEF Profile!ServePhone
<1>8. CASE Profile!PhoneSaved
  <2>1. /\ saving.stage = "done" /\ Profile!Saving("idle")
        /\ employee' = [employee EXCEPT !.phone = saving.phone]
        /\ UNCHANGED <<record, pictures, phone, pictureUrl, upload, saves, uploads>>
    BY <1>8 DEF Profile!PhoneSaved, Profile!updateEmployee
  <2>2. ~unheard' /\ unheard' \in BOOLEAN
    BY <1>8 DEF Profile!PhoneSaved
  <2>3. /\ saving' \in [stage: {"idle", "sent", "done", "failed"}, phone: Phones,
                        seen: Profile!Employee]
        /\ saving'.stage = "idle"
    BY <2>1, SavingMoves
  <2>4. /\ employee' \in Profile!Employee /\ employee'.phone = saving.phone
        /\ employee'.picture = employee.picture
    BY <1>1, <2>1 DEF Profile!Employee
  <2>5. Profile!ProfileTypeOK'
    BY <1>1, <2>1, <2>2, <2>3, <2>4 DEF Profile!ProfileTypeOK
  <2> QED
    BY <1>1, <1>4, <2>1, <2>3, <2>4, <2>5 DEF ProfileInv
<1>9. CASE Profile!PhoneNotSaved
  <2>1. /\ saving.stage = "failed" /\ Profile!Saving("idle")
        /\ UNCHANGED <<record, pictures, employee, phone, pictureUrl, upload, unheard, saves,
                       uploads>>
    BY <1>9 DEF Profile!PhoneNotSaved
  <2>2. /\ saving' \in [stage: {"idle", "sent", "done", "failed"}, phone: Phones,
                        seen: Profile!Employee]
        /\ saving'.stage = "idle"
    BY <2>1, SavingMoves
  <2>3. Profile!ProfileTypeOK'
    BY <1>1, <1>2, <2>1, <2>2 DEF Profile!ProfileTypeOK
  <2>4. ~unheard' => employee'.phone = record'.phone
    BY <1>3, <2>1
  <2> QED
    BY <1>1, <2>1, <2>2, <2>3, <2>4 DEF ProfileInv
<1> QED
  BY <1>5, <1>6, <1>7, <1>8, <1>9 DEF Profile!PhoneAnswers

\* A picture is picked, uploaded and shown: none is shown before the storage has it.
LEMMA PictureKeeps ==
  ProfileInv /\ (Profile!handlePickPicture \/ Profile!pickerFn \/ Profile!PictureAnswers)
      => ProfileInv'
<1> SUFFICES ASSUME ProfileInv,
                    Profile!handlePickPicture \/ Profile!pickerFn \/ Profile!PictureAnswers
             PROVE  ProfileInv'
  OBVIOUS
<1> DEFINE Uploads == [stage: {"idle", "picking", "asking", "putting", "done", "failed"},
                       picture: Profile!Pictures, seen: Profile!Employee]
<1>1. /\ record \in Profile!Employee /\ employee \in Profile!Employee /\ phone \in Phones
      /\ pictures \subseteq Profile!Pictures /\ pictureUrl \in Profile!Pictures
      /\ saving \in [stage: {"idle", "sent", "done", "failed"}, phone: Phones,
                     seen: Profile!Employee]
      /\ upload \in Uploads
      /\ saves \in 0..MaxSaves /\ uploads \in Profile!Pictures
      /\ {pictureUrl, employee.picture} \subseteq pictures \cup {0}
      /\ upload.stage = "done" => upload.picture \in pictures
  BY DEF ProfileInv, Profile!ProfileTypeOK
<1>2. unheard \in BOOLEAN
  BY DEF ProfileInv, Profile!ProfileTypeOK
<1>3. saving.stage # "done" /\ ~unheard => employee.phone = record.phone
  BY DEF ProfileInv
<1>4. saving.stage = "done" => saving.phone = record.phone
  BY DEF ProfileInv
<1>5. ASSUME UNCHANGED <<phone, saving, unheard, saves>>,
             record' \in Profile!Employee, record'.phone = record.phone,
             employee' \in Profile!Employee, employee'.phone = employee.phone,
             pictures' \subseteq Profile!Pictures, pictureUrl' \in Profile!Pictures,
             {pictureUrl', employee'.picture} \subseteq pictures' \cup {0},
             upload' \in Uploads, uploads' \in Profile!Pictures,
             upload'.stage = "done" => upload'.picture \in pictures'
      PROVE  ProfileInv'
  <2>1. Profile!ProfileTypeOK'
    BY <1>1, <1>2, <1>5 DEF Profile!ProfileTypeOK
  <2>2. saving'.stage # "done" /\ ~unheard' => employee'.phone = record'.phone
    BY <1>3, <1>5
  <2>3. saving'.stage = "done" => saving'.phone = record'.phone
    BY <1>4, <1>5
  <2> QED
    BY <1>5, <2>1, <2>2, <2>3 DEF ProfileInv
<1>6. CASE Profile!handlePickPicture
  <2>1. /\ uploads < MaxUploads /\ uploads' = uploads + 1
        /\ upload' = [stage |-> "picking", picture |-> uploads', seen |-> employee]
        /\ UNCHANGED <<record, pictures, employee, phone, pictureUrl, saving, unheard, saves>>
    BY <1>6 DEF Profile!handlePickPicture, Profile!server
  <2>2. uploads' \in Profile!Pictures
    BY <1>1, <2>1, MobileAppAssumption DEF Profile!Pictures
  <2>3. upload' \in Uploads /\ upload'.stage = "picking"
    BY <1>1, <2>1, <2>2
  <2> QED
    BY <1>1, <1>5, <2>1, <2>2, <2>3
<1>7. CASE Profile!pickerFn
  <2>1. PICK stage \in {"asking", "idle"} : Profile!Upload(stage)
    BY <1>7 DEF Profile!pickerFn
  <2>2. UNCHANGED <<record, pictures, employee, phone, pictureUrl, saving, unheard, saves, uploads>>
    BY <1>7 DEF Profile!pickerFn, Profile!server
  <2>3. upload' \in Uploads /\ upload'.stage = stage
    BY <2>1, UploadMoves
  <2> QED
    BY <1>1, <1>5, <2>2, <2>3
<1>8. CASE Profile!ServeUploadRequest
  <2>1. PICK stage \in {"putting", "failed"} : Profile!Upload(stage)
    BY <1>8 DEF Profile!ServeUploadRequest
  <2>2. /\ record' \in {record, [record EXCEPT !.picture = upload.picture]}
        /\ UNCHANGED <<pictures, employee, phone, pictureUrl, saving, unheard, saves, uploads>>
    BY <1>8 DEF Profile!ServeUploadRequest
  <2>3. upload' \in Uploads /\ upload'.stage = stage
    BY <2>1, UploadMoves
  <2>4. record' \in Profile!Employee /\ record'.phone = record.phone
    BY <1>1, <2>2 DEF Profile!Employee
  <2> QED
    BY <1>1, <1>5, <2>2, <2>3, <2>4
<1>9. CASE Profile!uploadToSignedUrl
  <2>1. UNCHANGED <<record, employee, phone, pictureUrl, saving, unheard, saves, uploads>>
    BY <1>9 DEF Profile!uploadToSignedUrl
  <2>2. PICK stage \in {"done", "failed"} :
           /\ Profile!Upload(stage) /\ pictures' \in {pictures, pictures \cup {upload.picture}}
           /\ stage = "done" => pictures' = pictures \cup {upload.picture}
    BY <1>9 DEF Profile!uploadToSignedUrl
  <2>3. upload' \in Uploads /\ upload'.stage = stage /\ upload'.picture = upload.picture
    BY <2>2, UploadMoves
  <2>4. pictures' \subseteq Profile!Pictures /\ pictures \subseteq pictures'
    BY <1>1, <2>2
  <2> QED
    BY <1>1, <1>5, <2>1, <2>2, <2>3, <2>4
<1>10. CASE Profile!PictureUploaded
  <2>1. /\ upload.stage = "done" /\ Profile!Upload("idle") /\ pictureUrl' = upload.picture
        /\ employee' = [employee EXCEPT !.picture = upload.picture]
        /\ UNCHANGED <<record, pictures, phone, saving, unheard, saves, uploads>>
    BY <1>10 DEF Profile!PictureUploaded, Profile!updateEmployee, Profile!server
  <2>2. upload' \in Uploads /\ upload'.stage = "idle"
    BY <2>1, UploadMoves
  <2>3. /\ employee' \in Profile!Employee /\ employee'.phone = employee.phone
        /\ employee'.picture = upload.picture
    BY <1>1, <2>1 DEF Profile!Employee
  <2> QED
    BY <1>1, <1>5, <2>1, <2>2, <2>3
<1>11. CASE Profile!PictureNotUploaded
  <2>1. /\ Profile!Upload("idle")
        /\ UNCHANGED <<record, pictures, employee, phone, pictureUrl, saving, unheard, saves,
                       uploads>>
    BY <1>11 DEF Profile!PictureNotUploaded, Profile!server
  <2>2. upload' \in Uploads /\ upload'.stage = "idle"
    BY <2>1, UploadMoves
  <2> QED
    BY <1>1, <1>5, <2>1, <2>2
<1> QED
  BY <1>6, <1>7, <1>8, <1>9, <1>10, <1>11 DEF Profile!PictureAnswers

\* No step of the profile breaks it.
LEMMA ProfileStep == ProfileInv /\ Profile!ProfileNext => ProfileInv'
  BY PhoneKeeps, PictureKeeps DEF Profile!ProfileNext, Profile!ProfilePresses

\* ... and it says what the screens show.
LEMMA ProfileShown == ProfileInv => Profile!ProfileAgrees
  BY DEF ProfileInv, Profile!ProfileAgrees

\* A request as it is made.
LEMMA AskedTyped ==
  ASSUME NEW step \in {"idle", "boot", "login", "change", "me"},
         NEW given \in Entry!Passwords, NEW fresh \in Entry!Passwords
  PROVE  /\ Entry!Asked(step, given, fresh) \in Entry!Request
         /\ Entry!Asked(step, given, fresh).step = step
         /\ Entry!Asked(step, given, fresh).fresh = fresh
         /\ Entry!Asked(step, given, fresh).answer = "none"
         /\ Entry!Asked(step, given, fresh).seen = 0
<1>1. 0 \in Entry!Passwords
  BY MobileAppAssumption DEF Entry!Passwords
<1>2. PICK r : r = [step |-> step, given |-> given, fresh |-> fresh, answer |-> "none", seen |-> 0]
  OBVIOUS
<1>3. /\ r \in Entry!Request /\ r.step = step /\ r.fresh = fresh /\ r.answer = "none"
      /\ r.seen = 0
  BY <1>1, <1>2 DEF Entry!Request
<1> QED
  BY <1>2, <1>3 DEF Entry!Asked

\* No request, and that of a launch.
LEMMA QuietTyped ==
  /\ Entry!NoRequest \in Entry!Request /\ Entry!NoRequest.step = "idle"
  /\ Entry!NoRequest.fresh = 0 /\ Entry!NoRequest.answer = "none" /\ Entry!NoRequest.seen = 0
  /\ Entry!Booting \in Entry!Request /\ Entry!Booting.fresh = 0
  /\ Entry!Booting.answer = "none" /\ Entry!Booting.seen = 0
<1>1. 0 \in Entry!Passwords
  BY MobileAppAssumption DEF Entry!Passwords
<1>2. /\ Entry!NoRequest \in Entry!Request /\ Entry!NoRequest.step = "idle"
      /\ Entry!NoRequest.fresh = 0 /\ Entry!NoRequest.answer = "none" /\ Entry!NoRequest.seen = 0
  BY <1>1, AskedTyped DEF Entry!NoRequest
<1>3. PICK boot : boot = Entry!Asked("boot", 0, 0)
  OBVIOUS
<1>4. boot \in Entry!Request /\ boot.fresh = 0 /\ boot.answer = "none" /\ boot.seen = 0
  BY <1>1, <1>3, AskedTyped
<1>5. Entry!Booting = boot \/ Entry!Booting = Entry!NoRequest
  BY <1>3, Zenon DEF Entry!Booting
<1> QED
  BY <1>2, <1>4, <1>5

\* A request that is answered.
LEMMA AnsweredTyped ==
  ASSUME NEW r \in Entry!Request, NEW answer \in {"none", "ok", "must", "error", "expired"},
         NEW s, s = [r EXCEPT !.answer = answer]
  PROVE  /\ s \in Entry!Request /\ s.answer = answer /\ s.step = r.step /\ s.fresh = r.fresh
         /\ s.seen = r.seen
  BY DEF Entry!Request

\* The types, one by one.
LEMMA EntryTyped ==
  ASSUME EntryInv
  PROVE  /\ account \in [password: Entry!Passwords, must: BOOLEAN] /\ account.password \in had
         /\ had \subseteq Entry!Passwords /\ passwordSaved \in Entry!Passwords
         /\ seen \in Entry!Passwords
         /\ {kept, user, mustChangePassword, leaving, unknown} \subseteq BOOLEAN
         /\ entry \in Entry!Request /\ change \in Entry!Request
         /\ next \in 1..MaxPasswords + 1 /\ next \in Nat /\ launches \in 0..MaxLaunches
         /\ account.password \in 0..next - 1 /\ seen \in 0..next - 1
         /\ entry.seen \in 0..next - 1
         /\ entry.fresh \in 0..next - 1 /\ change.fresh \in 0..next - 1
         /\ SavedWas /\ FlagsSound
<1>1. /\ account \in [password: Entry!Passwords, must: BOOLEAN] /\ account.password \in had
      /\ had \subseteq Entry!Passwords /\ passwordSaved \in Entry!Passwords
      /\ seen \in Entry!Passwords
      /\ entry \in Entry!Request /\ change \in Entry!Request
      /\ next \in 1..MaxPasswords + 1 /\ launches \in 0..MaxLaunches
  BY DEF EntryInv, Entry!SignInTypeOK
<1>2. {kept, user, mustChangePassword, leaving, unknown} \subseteq BOOLEAN
  BY Zenon DEF EntryInv, Entry!SignInTypeOK
<1>3. next \in Nat
  BY <1>1, MobileAppAssumption
<1>4. /\ account.password \in 0..next - 1 /\ seen \in 0..next - 1 /\ entry.seen \in 0..next - 1
      /\ entry.fresh \in 0..next - 1 /\ change.fresh \in 0..next - 1
  BY DEF EntryInv, HandedOut
<1>5. SavedWas /\ FlagsSound
  BY DEF EntryInv
<1> QED
  BY <1>1, <1>2, <1>3, <1>4, <1>5

\* ... and back.
LEMMA EntryFrom ==
  ASSUME account' \in [password: Entry!Passwords, must: BOOLEAN], account'.password \in had',
         had' \subseteq Entry!Passwords, passwordSaved' \in had', 0 \in had',
         seen' \in Entry!Passwords,
         {kept', user', mustChangePassword', leaving', unknown'} \subseteq BOOLEAN,
         entry' \in Entry!Request, change' \in Entry!Request,
         next' \in 1..MaxPasswords + 1, launches' \in 0..MaxLaunches,
         account'.password \in 0..next' - 1, seen' \in 0..next' - 1,
         entry'.seen \in 0..next' - 1, entry'.fresh \in 0..next' - 1,
         change'.fresh \in 0..next' - 1,
         change'.answer = "ok" => change'.fresh \in had',
         FlagsSound'
  PROVE  EntryInv'
<1>1. SavedWas'
  BY DEF SavedWas
<1>2. HandedOut'
  BY DEF HandedOut
<1>3. passwordSaved' \in Entry!Passwords
  OBVIOUS
<1>4. /\ account' \in [password: Entry!Passwords, must: BOOLEAN] /\ account'.password \in had'
      /\ had' \subseteq Entry!Passwords /\ {passwordSaved', seen'} \subseteq Entry!Passwords
      /\ {entry', change'} \subseteq Entry!Request
      /\ next' \in 1..MaxPasswords + 1 /\ launches' \in 0..MaxLaunches
  BY <1>3
<1>5. Entry!SignInTypeOK'
  BY <1>4, Zenon DEF Entry!SignInTypeOK
<1> QED
  BY <1>1, <1>2, <1>5 DEF EntryInv

\* The app is launched for the first time.
LEMMA EntryStart == Entry!SignInInit => EntryInv
<1> SUFFICES ASSUME Entry!SignInInit PROVE EntryInv
  OBVIOUS
<1>1. /\ account \in [password: {0}, must: BOOLEAN] /\ had = {0} /\ entry = Entry!Booting
      /\ change = Entry!NoRequest /\ passwordSaved = 0 /\ seen = 0 /\ next = 1 /\ launches = 0
  BY DEF Entry!SignInInit
<1>2. /\ kept \in BOOLEAN /\ user = FALSE /\ mustChangePassword = FALSE /\ leaving = FALSE
      /\ unknown = FALSE
  BY Zenon DEF Entry!SignInInit
<1>3. 0 \in Entry!Passwords /\ 0 \in 0..MaxLaunches /\ 1 \in 1..MaxPasswords + 1
  BY MobileAppAssumption DEF Entry!Passwords
<1>4. /\ account \in [password: Entry!Passwords, must: BOOLEAN] /\ account.password = 0
      /\ {entry, change} \subseteq Entry!Request /\ had \subseteq Entry!Passwords
      /\ {passwordSaved, seen} \subseteq Entry!Passwords
      /\ next \in 1..MaxPasswords + 1 /\ launches \in 0..MaxLaunches
  BY <1>1, <1>3, QuietTyped
<1>5. account.password \in had
  BY <1>1, <1>4
<1>6. {kept, user, mustChangePassword, leaving, unknown} \subseteq BOOLEAN
  BY <1>2, Zenon
<1>7. Entry!SignInTypeOK
  BY <1>4, <1>5, <1>6, Zenon DEF Entry!SignInTypeOK
<1>8. HandedOut
  BY <1>1, <1>4, QuietTyped DEF HandedOut
<1>9. entry.answer = "none" /\ change.answer = "none"
  BY <1>1, QuietTyped
<1>10. SavedWas
  BY <1>1, <1>9 DEF SavedWas
<1>11. /\ ~user /\ ~mustChangePassword /\ entry.answer # "ok" /\ entry.answer # "must"
       /\ entry.answer # "expired"
  BY <1>2, <1>9
<1>12. FlagsSound
  BY <1>9, <1>11, Zenon DEF FlagsSound
<1> QED
  BY <1>7, <1>8, <1>10, <1>12 DEF EntryInv

\* Passwords are numbered as they come.
LEMMA NextGoesOn ==
  ASSUME EntryInv, next' = next \/ (next <= MaxPasswords /\ next' = next + 1)
  PROVE  /\ next' \in 1..MaxPasswords + 1 /\ 0..next - 1 \subseteq 0..next' - 1
         /\ 0 \in 0..next' - 1
         /\ next <= MaxPasswords => next \in Entry!Passwords
         /\ next' = next + 1 => next \in 0..next' - 1
<1>1. next \in 1..MaxPasswords + 1 /\ next \in Nat
  BY EntryTyped
<1>2. next' \in 1..MaxPasswords + 1 /\ next' \in Nat /\ next <= next'
  BY <1>1, MobileAppAssumption
<1>3. next <= MaxPasswords => next \in Entry!Passwords
  BY <1>1, MobileAppAssumption DEF Entry!Passwords
<1>4. \A m, n \in Nat \ {0} : m <= n => 0..m - 1 \subseteq 0..n - 1 /\ 0 \in 0..n - 1
  OBVIOUS
<1>5. next \in Nat \ {0} /\ next' \in Nat \ {0}
  BY <1>1, <1>2, MobileAppAssumption
<1>6. next' = next + 1 => next \in 0..next' - 1
  BY <1>1
<1> QED
  BY <1>2, <1>3, <1>4, <1>5, <1>6

\* A temporary password is one that nobody was let in with.
LEMMA IssueKeeps == EntryInv /\ Entry!IssueTemporary => EntryInv'
<1> SUFFICES ASSUME EntryInv, Entry!IssueTemporary PROVE EntryInv'
  OBVIOUS
<1>1. /\ next <= MaxPasswords /\ next' = next + 1
      /\ account' = [password |-> next, must |-> TRUE] /\ had' = had \cup {next}
      /\ UNCHANGED <<seen, entry, change, passwordSaved, launches>>
  BY DEF Entry!IssueTemporary, Entry!SetPassword, Entry!flags, Entry!settings
<1>2. UNCHANGED <<kept, user, mustChangePassword, unknown, leaving>>
  BY DEF Entry!IssueTemporary, Entry!flags, Entry!settings
<1>3. /\ next' \in 1..MaxPasswords + 1 /\ 0..next - 1 \subseteq 0..next' - 1
      /\ next \in Entry!Passwords /\ next \in 0..next' - 1
  BY <1>1, NextGoesOn
<1>4. /\ account' \in [password: Entry!Passwords, must: BOOLEAN] /\ account'.password = next
      /\ account'.must = TRUE
  BY <1>1, <1>3
<1>5. account'.must
  BY <1>4
<1>6. next # seen /\ next # entry.seen
  BY EntryTyped
<1>7. FlagsSound'
  BY <1>1, <1>2, <1>4, <1>5, <1>6, EntryTyped, Zenon DEF FlagsSound, NotTemporary, Due
<1>8. {kept', user', mustChangePassword', leaving', unknown'} \subseteq BOOLEAN
  BY <1>2, EntryTyped, Zenon
<1>9. 0 \in had /\ passwordSaved \in had /\ (change.answer = "ok" => change.fresh \in had)
  BY EntryTyped DEF SavedWas
<1> QED
  BY <1>1, <1>3, <1>4, <1>7, <1>8, <1>9, EntryTyped, EntryFrom

\* The server answers, by what the account has at that time.
LEMMA ServeEntryKeeps == EntryInv /\ (Entry!ServeMe \/ Entry!ServeLogin) => EntryInv'
<1> SUFFICES ASSUME EntryInv, Entry!ServeMe \/ Entry!ServeLogin PROVE EntryInv'
  OBVIOUS
<1>1. UNCHANGED <<account, had, next, launches, seen, change, passwordSaved>>
  BY DEF Entry!ServeMe, Entry!ServeLogin, Entry!account0, Entry!flags, Entry!settings
<1>2. UNCHANGED <<kept, user, mustChangePassword, unknown, leaving>>
  BY DEF Entry!ServeMe, Entry!ServeLogin, Entry!account0, Entry!flags, Entry!settings
<1>3. PICK answer \in {Entry!MeAnswer, "error", "expired"} :
              entry' = [entry EXCEPT !.answer = answer, !.seen = account.password]
  BY DEF Entry!ServeMe, Entry!ServeLogin, Entry!Failures
<1>4. entry.step \in {"boot", "me", "login"} /\ (entry.step = "login" => answer # "expired")
  <2>1. CASE Entry!ServeMe
    BY <2>1 DEF Entry!ServeMe
  <2>2. CASE Entry!ServeLogin
    <3>1. entry'.answer \in {Entry!MeAnswer, "error"} /\ entry.step = "login"
      BY <2>2, EntryTyped DEF Entry!ServeLogin, Entry!Request
    <3>2. entry'.answer = answer
      BY <1>3, EntryTyped DEF Entry!Request
    <3> QED
      BY <3>1, <3>2 DEF Entry!MeAnswer
  <2> QED
    BY <2>1, <2>2
<1>5. /\ answer \in {"none", "ok", "must", "error", "expired"} /\ answer # "none"
      /\ answer = "ok" => ~account.must
      /\ answer = "must" => account.must
  BY <1>3 DEF Entry!MeAnswer
<1>6. /\ entry' \in Entry!Request /\ entry'.answer = answer /\ entry'.step = entry.step
      /\ entry'.fresh = entry.fresh /\ entry'.seen = account.password
  <2>1. account.password \in Entry!Passwords /\ entry \in Entry!Request
    BY EntryTyped
  <2>2. entry' = [entry EXCEPT !.answer = answer, !.seen = account.password]
    BY <1>3
  <2>3. PICK e \in Entry!Request : e = entry
    BY <2>1
  <2>4. PICK password \in Entry!Passwords : password = account.password
    BY <2>1
  <2>5. PICK s : s = [e EXCEPT !.answer = answer, !.seen = password]
    OBVIOUS
  <2>6. /\ s \in Entry!Request /\ s.answer = answer /\ s.step = e.step /\ s.fresh = e.fresh
        /\ s.seen = password
    BY <1>5, <2>5 DEF Entry!Request
  <2>7. entry' = s
    BY <2>2, <2>3, <2>4, <2>5, Zenon
  <2> QED
    BY <2>3, <2>4, <2>6, <2>7
<1>7. FlagsSound'
  <2>1. entry.step # "idle" /\ entry'.step # "idle"
    BY <1>4, <1>6
  <2> QED
    BY <1>1, <1>2, <1>4, <1>5, <1>6, <2>1, EntryTyped, Zenon DEF FlagsSound, NotTemporary, Due
<1>8. {kept', user', mustChangePassword', leaving', unknown'} \subseteq BOOLEAN
  BY <1>2, EntryTyped, Zenon
<1>9. 0 \in had /\ passwordSaved \in had /\ (change.answer = "ok" => change.fresh \in had)
  BY EntryTyped DEF SavedWas
<1> QED
  BY <1>1, <1>6, <1>7, <1>8, <1>9, EntryTyped, EntryFrom

\* What a change does to the account: the fresh password is its own, and not temporary.
LEMMA ChangedTyped ==
  ASSUME EntryInv, NEW r \in Entry!Request, r.fresh \in 0..next - 1, next' = next,
         NEW answer \in {"ok", "error", "expired"}, Entry!Changed(r, answer)
  PROVE  /\ account' \in [password: Entry!Passwords, must: BOOLEAN]
         /\ account'.password \in had' /\ had' \subseteq Entry!Passwords
         /\ account'.password \in 0..next' - 1 /\ had \subseteq had'
         /\ answer = "ok" => r.fresh \in had'
         /\ account' = account \/ ~account'.must
<1>1. CASE account' = [password |-> r.fresh, must |-> FALSE] /\ had' = had \cup {r.fresh}
  <2>1. r.fresh \in Entry!Passwords
    BY DEF Entry!Request
  <2>2. /\ account' \in [password: Entry!Passwords, must: BOOLEAN]
        /\ account'.password = r.fresh /\ account'.must = FALSE
    BY <1>1, <2>1
  <2> QED
    BY <1>1, <2>1, <2>2, EntryTyped
<1>2. CASE answer # "ok" /\ UNCHANGED <<account, had>>
  BY <1>2, EntryTyped
<1> QED
  BY <1>1, <1>2 DEF Entry!Changed, Entry!SetPassword, Entry!Failures

\* The forced change reaches the server.
LEMMA ServeForcedKeeps == EntryInv /\ Entry!ServeForcedChange => EntryInv'
<1> SUFFICES ASSUME EntryInv, Entry!ServeForcedChange PROVE EntryInv'
  OBVIOUS
<1>1. UNCHANGED <<next, launches, seen, change, passwordSaved>> /\ entry.step = "change"
  BY DEF Entry!ServeForcedChange, Entry!settings
<1>2. /\ UNCHANGED <<kept, user, mustChangePassword, leaving>>
      /\ unknown' = (unknown \/ account' # account)
  BY DEF Entry!ServeForcedChange, Entry!settings
<1>3. PICK answer \in {"ok", "error", "expired"} :
              Entry!Changed(entry, answer) /\ entry' = [entry EXCEPT !.answer = answer]
  BY DEF Entry!ServeForcedChange, Entry!Failures
<1>4. /\ entry' \in Entry!Request /\ entry'.answer = answer /\ entry'.step = "change"
      /\ entry'.fresh = entry.fresh /\ entry'.seen = entry.seen
  <2>1. answer \in {"none", "ok", "must", "error", "expired"} /\ 0 \in Entry!Passwords
    BY MobileAppAssumption DEF Entry!Passwords
  <2> QED
    BY <1>1, <1>3, <2>1, EntryTyped, AnsweredTyped
<1>5. /\ account' \in [password: Entry!Passwords, must: BOOLEAN]
      /\ account'.password \in had' /\ had' \subseteq Entry!Passwords
      /\ account'.password \in 0..next' - 1 /\ had \subseteq had'
      /\ account' = account \/ ~account'.must
  BY <1>1, <1>3, EntryTyped, ChangedTyped
<1>6. ~user
  BY <1>1, EntryTyped, Zenon DEF FlagsSound
<1>7. /\ entry'.step # "idle" /\ entry'.step # "login" /\ entry'.step \notin {"boot", "login"}
      /\ entry'.answer # "must"
  BY <1>3, <1>4
<1>8. mustChangePassword' => Due'
  <2>1. mustChangePassword' => account.must \/ unknown
    BY <1>2, EntryTyped, Zenon DEF FlagsSound, Due
  <2>2. unknown => unknown'
    BY <1>2, Zenon
  <2>3. account' # account => unknown'
    BY <1>2, Zenon
  <2>4. account' = account => (account.must => account'.must)
    OBVIOUS
  <2> QED
    BY <1>5, <2>1, <2>2, <2>3, <2>4, Zenon DEF Due
<1>9. FlagsSound'
  BY <1>2, <1>4, <1>6, <1>7, <1>8, Zenon DEF FlagsSound
<1>10. {kept', user', mustChangePassword', leaving', unknown'} \subseteq BOOLEAN
  <2>1. unknown' \in BOOLEAN
    BY <1>2, Zenon
  <2> QED
    BY <1>2, <2>1, EntryTyped, Zenon
<1>11. 0 \in had /\ passwordSaved \in had /\ (change.answer = "ok" => change.fresh \in had)
  BY EntryTyped DEF SavedWas
<1> QED
  BY <1>1, <1>4, <1>5, <1>9, <1>10, <1>11, EntryTyped, EntryFrom

\* The change of Settings reaches the server, wherever the user is by now.
LEMMA ServeChangeKeeps == EntryInv /\ Entry!ServeChange => EntryInv'
<1> SUFFICES ASSUME EntryInv, Entry!ServeChange PROVE EntryInv'
  OBVIOUS
<1>1. UNCHANGED <<next, launches, seen, entry, passwordSaved>>
  BY DEF Entry!ServeChange
<1>2. /\ UNCHANGED <<kept, user, mustChangePassword, leaving>>
      /\ unknown' = (unknown \/ (Entry!Screen # "tabs" /\ account' # account))
  BY DEF Entry!ServeChange
<1>3. PICK answer \in {"ok", "error", "expired"} :
              Entry!Changed(change, answer) /\ change' = [change EXCEPT !.answer = answer]
  BY DEF Entry!ServeChange, Entry!Failures
<1>4. /\ change' \in Entry!Request /\ change'.answer = answer /\ change'.fresh = change.fresh
  <2>1. answer \in {"none", "ok", "must", "error", "expired"} /\ 0 \in Entry!Passwords
    BY MobileAppAssumption DEF Entry!Passwords
  <2> QED
    BY <1>3, <2>1, EntryTyped, AnsweredTyped
<1>5. /\ account' \in [password: Entry!Passwords, must: BOOLEAN]
      /\ account'.password \in had' /\ had' \subseteq Entry!Passwords
      /\ account'.password \in 0..next' - 1 /\ had \subseteq had'
      /\ answer = "ok" => change.fresh \in had'
      /\ account' = account \/ ~account'.must
  BY <1>1, <1>3, EntryTyped, ChangedTyped
<1>6. ~user => Entry!Screen # "tabs"
  BY Zenon DEF Entry!Screen
<1>7. user => ~mustChangePassword /\ entry.answer # "must" /\ NotTemporary(seen)
  <2>1. user => ~mustChangePassword /\ entry.answer = "none" /\ NotTemporary(seen)
    BY EntryTyped, Zenon DEF FlagsSound
  <2> QED
    BY <2>1
<1>8. \A password : NotTemporary(password) => NotTemporary(password)'
  BY <1>5, Zenon DEF NotTemporary
<1>9. ~user /\ Due => Due'
  <2>1. unknown => unknown'
    BY <1>2, Zenon
  <2>2. ~user /\ account' # account => unknown'
    BY <1>2, <1>6, Zenon
  <2>3. account' = account => (account.must => account'.must)
    OBVIOUS
  <2> QED
    BY <2>1, <2>2, <2>3, Zenon DEF Due
<1>10. FlagsSound'
  <2>1. NotTemporary(seen) => NotTemporary(seen)'
    BY <1>1, <1>8, Zenon DEF NotTemporary
  <2>2. NotTemporary(entry.seen) => NotTemporary(entry.seen)'
    BY <1>1, <1>5, Zenon DEF NotTemporary
  <2> QED
    BY <1>1, <1>2, <1>7, <1>9, <2>1, <2>2, EntryTyped, Zenon DEF FlagsSound
<1>11. {kept', user', mustChangePassword', leaving', unknown'} \subseteq BOOLEAN
  <2>1. unknown' \in BOOLEAN
    BY <1>2, Zenon
  <2> QED
    BY <1>2, <2>1, EntryTyped, Zenon
<1>12. 0 \in had /\ passwordSaved \in had
  BY EntryTyped DEF SavedWas
<1> QED
  BY <1>1, <1>4, <1>5, <1>10, <1>11, <1>12, EntryTyped, EntryFrom

\* What AuthContext sets leaves the account as it is: the flags are sound again.
LEMMA EntryGoesOn ==
  ASSUME EntryInv, UNCHANGED <<account, had>>,
         launches' \in 0..MaxLaunches,
         next' = next \/ (next <= MaxPasswords /\ next' = next + 1),
         seen' \in {seen, entry.seen},
         \/ passwordSaved' \in {0, passwordSaved}
         \/ change.answer = "ok" /\ passwordSaved' = change.fresh,
         {kept', user', mustChangePassword', leaving', unknown'} \subseteq BOOLEAN,
         entry' = entry
             \/ (/\ entry' \in Entry!Request /\ entry'.fresh \in 0..next' - 1
                 /\ entry'.seen = 0),
         change' = change
             \/ (/\ change' \in Entry!Request /\ change'.fresh \in 0..next' - 1
                 /\ change'.answer = "none"),
         FlagsSound'
  PROVE  EntryInv'
<1>1. /\ next' \in 1..MaxPasswords + 1 /\ 0..next - 1 \subseteq 0..next' - 1
      /\ 0 \in 0..next' - 1
  BY NextGoesOn
<1>2. 0 \in had /\ passwordSaved \in had /\ (change.answer = "ok" => change.fresh \in had)
  BY EntryTyped DEF SavedWas
<1>3. /\ account' \in [password: Entry!Passwords, must: BOOLEAN] /\ account'.password \in had'
      /\ had' \subseteq Entry!Passwords /\ account'.password \in 0..next' - 1
  BY <1>1, EntryTyped
<1>4. entry.seen \in Entry!Passwords
  BY EntryTyped DEF Entry!Request
<1>5. seen' \in Entry!Passwords /\ seen' \in 0..next' - 1
  BY <1>1, <1>4, EntryTyped
<1>6. passwordSaved' \in had' /\ 0 \in had'
  BY <1>2
<1>7. /\ entry' \in Entry!Request /\ entry'.fresh \in 0..next' - 1 /\ entry'.seen \in 0..next' - 1
  BY <1>1, EntryTyped
<1>8. /\ change' \in Entry!Request /\ change'.fresh \in 0..next' - 1
      /\ change'.answer = "ok" => change'.fresh \in had'
  <2>1. CASE change' = change
    BY <1>1, <1>2, <2>1, EntryTyped
  <2>2. CASE change' # change
    BY <2>2
  <2> QED
    BY <2>1, <2>2
<1> QED
  BY <1>1, <1>3, <1>5, <1>6, <1>7, <1>8, EntryFrom

\* The app is launched anew.
LEMMA LaunchKeeps == EntryInv /\ Entry!Launch => EntryInv'
<1> SUFFICES ASSUME EntryInv, Entry!Launch PROVE EntryInv'
  OBVIOUS
<1>1. /\ launches < MaxLaunches /\ launches' = launches + 1 /\ entry' = Entry!Booting
      /\ change' = Entry!NoRequest /\ passwordSaved' = 0
      /\ UNCHANGED <<account, had, next, seen>>
  BY DEF Entry!Launch
<1>2. /\ user' = FALSE /\ mustChangePassword' = FALSE /\ unknown' = FALSE /\ leaving' = FALSE
      /\ UNCHANGED kept
  BY Zenon DEF Entry!Launch
<1>3. launches' \in 0..MaxLaunches
  BY <1>1, EntryTyped, MobileAppAssumption
<1>4. 0 \in 0..next' - 1
  BY <1>1, NextGoesOn
<1>5. /\ entry' \in Entry!Request /\ entry'.fresh = 0 /\ entry'.answer = "none" /\ entry'.seen = 0
      /\ change' \in Entry!Request /\ change'.fresh = 0 /\ change'.answer = "none"
  BY <1>1, QuietTyped
<1>6. entry'.answer # "ok" /\ entry'.answer # "must" /\ entry'.answer # "expired"
  BY <1>5
<1>7. FlagsSound'
  BY <1>2, <1>5, <1>6, Zenon DEF FlagsSound
<1>8. {kept', user', mustChangePassword', leaving', unknown'} \subseteq BOOLEAN
  BY <1>2, EntryTyped, Zenon
<1> QED
  BY <1>1, <1>3, <1>4, <1>5, <1>7, <1>8, EntryGoesOn

\* The launch is answered: the user is let in, asked for a change, or signed out.
LEMMA BootsKeeps == EntryInv /\ Entry!Boots => EntryInv'
<1> SUFFICES ASSUME EntryInv, Entry!Boots PROVE EntryInv'
  OBVIOUS
<1>1. /\ entry.step = "boot" /\ entry' = Entry!NoRequest
      /\ UNCHANGED <<account, had, next, launches, change, passwordSaved>>
      /\ entry.answer \in {"ok", "must", "error", "expired"} /\ seen' \in {seen, entry.seen}
  BY DEF Entry!Boots, Entry!account0, Entry!settings, Entry!LetIn, Entry!Failures
<1>2. UNCHANGED leaving
  BY DEF Entry!Boots, Entry!settings
<1>3. /\ entry' \in Entry!Request /\ entry'.fresh = 0 /\ entry'.answer = "none" /\ entry'.seen = 0
      /\ entry'.step = "idle"
  BY <1>1, QuietTyped
<1>4. /\ entry'.answer # "ok" /\ entry'.answer # "must" /\ entry'.answer # "expired"
      /\ entry.step # "idle" /\ entry.step # "change"
  BY <1>1, <1>3
<1>5. entry.step \in {"boot", "login"}
  BY <1>1
<1>6. ~user /\ ~mustChangePassword
  BY <1>4, <1>5, EntryTyped, Zenon DEF FlagsSound
<1>7. CASE entry.answer = "ok"
  <2>1. user' = TRUE /\ unknown' = FALSE /\ UNCHANGED <<kept, mustChangePassword>>
    <3>1. entry.answer # "must" /\ entry.answer \notin Entry!Failures
      BY <1>7 DEF Entry!Failures
    <3> QED
      BY <3>1, Zenon DEF Entry!Boots, Entry!LetIn
  <2>2. seen' = entry.seen
    BY <1>7 DEF Entry!Boots, Entry!LetIn, Entry!Failures
  <2>3. NotTemporary(seen)'
    BY <1>1, <1>4, <1>7, <2>2, EntryTyped, Zenon DEF FlagsSound, NotTemporary
  <2>4. FlagsSound'
    <3>1. ~mustChangePassword'
      BY <1>6, <2>1, Zenon
    <3> QED
      BY <1>3, <1>4, <2>3, <3>1, Zenon DEF FlagsSound
  <2>5. {kept', user', mustChangePassword', leaving', unknown'} \subseteq BOOLEAN
    BY <1>2, <2>1, EntryTyped, Zenon
  <2> QED
    BY <1>1, <1>3, <2>4, <2>5, NextGoesOn, EntryTyped, EntryGoesOn
<1>8. CASE entry.answer = "must"
  <2>1. mustChangePassword' = TRUE /\ UNCHANGED <<kept, user, unknown>>
    <3>1. entry.answer # "ok" /\ entry.answer \notin Entry!Failures
      BY <1>8 DEF Entry!Failures
    <3> QED
      BY <3>1, Zenon DEF Entry!Boots
  <2>2. Due'
    <3>1. Due
      BY <1>8, EntryTyped, Zenon DEF FlagsSound
    <3> QED
      BY <1>1, <2>1, <3>1, Zenon DEF Due
  <2>3. ~user'
    BY <1>6, <2>1, Zenon
  <2>4. FlagsSound'
    <3>1. entry'.step \notin {"boot", "login"} /\ entry'.step # "login"
      BY <1>3
    <3> QED
      BY <1>3, <1>4, <2>2, <2>3, <3>1, Zenon DEF FlagsSound
  <2>5. {kept', user', mustChangePassword', leaving', unknown'} \subseteq BOOLEAN
    BY <1>2, <2>1, EntryTyped, Zenon
  <2> QED
    BY <1>1, <1>3, <2>4, <2>5, NextGoesOn, EntryTyped, EntryGoesOn
<1>9. CASE entry.answer \in {"error", "expired"}
  <2>1. kept' = FALSE /\ user' = FALSE /\ UNCHANGED <<mustChangePassword, unknown>>
    <3>1. entry.answer # "ok" /\ entry.answer # "must"
      BY <1>9
    <3> QED
      BY <3>1, Zenon DEF Entry!Boots, Entry!onAuthExpired
  <2>2. ~user' /\ ~mustChangePassword'
    BY <1>6, <2>1, Zenon
  <2>3. FlagsSound'
    BY <1>3, <1>4, <2>2, Zenon DEF FlagsSound
  <2>4. {kept', user', mustChangePassword', leaving', unknown'} \subseteq BOOLEAN
    BY <1>2, <2>1, EntryTyped, Zenon
  <2> QED
    BY <1>1, <1>3, <2>3, <2>4, NextGoesOn, EntryTyped, EntryGoesOn
<1> QED
  BY <1>1, <1>7, <1>8, <1>9

\* A password is given, to sign in or for the forced change.
LEMMA AsksKeeps ==
  ASSUME EntryInv, NEW given \in 0..next - 1,
         Entry!login(given) \/ Entry!completeForcedPasswordChange(given)
  PROVE  EntryInv'
<1>1. UNCHANGED <<account, had, launches, seen, change, passwordSaved>>
  BY DEF Entry!login, Entry!completeForcedPasswordChange, Entry!account0, Entry!flags,
         Entry!settings
<1>2. UNCHANGED <<kept, user, mustChangePassword, unknown, leaving>>
  BY DEF Entry!login, Entry!completeForcedPasswordChange, Entry!account0, Entry!flags,
         Entry!settings
<1>3. {kept', user', mustChangePassword', leaving', unknown'} \subseteq BOOLEAN
  BY <1>2, EntryTyped, Zenon
<1>4. given \in Entry!Passwords /\ 0 \in Entry!Passwords
  BY EntryTyped, MobileAppAssumption DEF Entry!Passwords
<1>5. ~user
  BY Zenon DEF Entry!login, Entry!completeForcedPasswordChange, Entry!Screen
<1>6. mustChangePassword' => Due'
  BY <1>1, <1>2, EntryTyped, Zenon DEF FlagsSound, Due
<1>7. CASE Entry!login(given)
  <2>1. entry' = Entry!Asked("login", given, 0) /\ next' = next
    BY <1>7 DEF Entry!login, Entry!account0
  <2>2. /\ entry' \in Entry!Request /\ entry'.step = "login" /\ entry'.fresh = 0
        /\ entry'.answer = "none" /\ entry'.seen = 0
    BY <1>4, <2>1, AskedTyped
  <2>3. /\ entry'.step # "idle" /\ entry'.answer # "ok" /\ entry'.answer # "must"
        /\ entry'.answer # "expired"
    BY <2>2
  <2>4. ~mustChangePassword
    BY <1>5, <1>7, Zenon DEF Entry!login, Entry!Screen
  <2>5. FlagsSound'
    BY <1>2, <1>5, <2>3, <2>4, Zenon DEF FlagsSound
  <2> QED
    BY <1>1, <1>3, <2>1, <2>2, <2>5, NextGoesOn, EntryTyped, EntryGoesOn
<1>8. CASE Entry!completeForcedPasswordChange(given)
  <2>1. entry' = Entry!Asked("change", given, next) /\ next <= MaxPasswords /\ next' = next + 1
    BY <1>8 DEF Entry!completeForcedPasswordChange
  <2>2. next \in Entry!Passwords /\ next \in 0..next' - 1
    BY <2>1, NextGoesOn
  <2>3. /\ entry' \in Entry!Request /\ entry'.step = "change" /\ entry'.fresh = next
        /\ entry'.answer = "none" /\ entry'.seen = 0
    BY <1>4, <2>1, <2>2, AskedTyped
  <2>4. /\ entry'.step # "idle" /\ entry'.step # "login" /\ entry'.step \notin {"boot", "login"}
        /\ entry'.answer # "ok" /\ entry'.answer # "must"
    BY <2>3
  <2>5. FlagsSound'
    BY <1>2, <1>5, <1>6, <2>4, Zenon DEF FlagsSound
  <2> QED
    BY <1>1, <1>3, <2>1, <2>2, <2>3, <2>5, EntryTyped, EntryGoesOn
<1> QED
  BY <1>7, <1>8

\* A login is answered.
LEMMA LoggedInKeeps == EntryInv /\ Entry!LoggedIn => EntryInv'
<1> SUFFICES ASSUME EntryInv, Entry!LoggedIn PROVE EntryInv'
  OBVIOUS
<1>1. /\ entry.step = "login" /\ entry' = Entry!NoRequest /\ entry.answer # "none"
      /\ UNCHANGED <<account, had, next, launches, change, passwordSaved>>
      /\ seen' \in {seen, entry.seen}
  BY DEF Entry!LoggedIn, Entry!account0, Entry!settings, Entry!EnteredBy, Entry!LetIn
<1>2. UNCHANGED leaving
  BY DEF Entry!LoggedIn, Entry!settings
<1>3. /\ entry' \in Entry!Request /\ entry'.fresh = 0 /\ entry'.answer = "none" /\ entry'.seen = 0
      /\ entry'.step = "idle"
  BY <1>1, QuietTyped
<1>4. /\ entry'.answer # "ok" /\ entry'.answer # "must" /\ entry'.answer # "expired"
      /\ entry.step # "idle" /\ entry.step # "change" /\ entry.step \in {"boot", "login"}
      /\ entry'.step \notin {"boot", "login"}
  BY <1>1, <1>3
<1>5. ~user /\ ~mustChangePassword /\ entry.answer # "expired"
  BY <1>1, <1>4, EntryTyped, Zenon DEF FlagsSound
<1>6. entry.answer \in {"ok", "must", "error"}
  BY <1>1, <1>5, EntryTyped DEF Entry!Request
<1>7. CASE entry.answer = "error"
  <2>1. UNCHANGED <<kept, user, mustChangePassword, unknown>>
    BY <1>7 DEF Entry!LoggedIn
  <2>2. FlagsSound'
    BY <1>3, <1>4, <1>5, <2>1, Zenon DEF FlagsSound
  <2>3. {kept', user', mustChangePassword', leaving', unknown'} \subseteq BOOLEAN
    BY <1>2, <2>1, EntryTyped, Zenon
  <2> QED
    BY <1>1, <1>3, <2>2, <2>3, NextGoesOn, EntryTyped, EntryGoesOn
<1>8. CASE entry.answer = "must"
  <2>1. kept' = TRUE /\ mustChangePassword' = TRUE /\ UNCHANGED <<user, unknown>>
    <3>1. entry.answer # "error"
      BY <1>8
    <3> QED
      BY <1>8, <3>1, Zenon DEF Entry!LoggedIn, Entry!EnteredBy
  <2>2. Due'
    <3>1. Due
      BY <1>8, EntryTyped, Zenon DEF FlagsSound
    <3> QED
      BY <1>1, <2>1, <3>1, Zenon DEF Due
  <2>3. ~user'
    BY <1>5, <2>1, Zenon
  <2>4. FlagsSound'
    BY <1>3, <1>4, <2>2, <2>3, Zenon DEF FlagsSound
  <2>5. {kept', user', mustChangePassword', leaving', unknown'} \subseteq BOOLEAN
    BY <1>2, <2>1, EntryTyped, Zenon
  <2> QED
    BY <1>1, <1>3, <2>4, <2>5, NextGoesOn, EntryTyped, EntryGoesOn
<1>9. CASE entry.answer = "ok"
  <2>1. kept' = TRUE /\ user' = TRUE /\ unknown' = FALSE /\ UNCHANGED mustChangePassword
    <3>1. entry.answer # "error" /\ entry.answer # "must"
      BY <1>9
    <3> QED
      BY <3>1, Zenon DEF Entry!LoggedIn, Entry!EnteredBy, Entry!LetIn
  <2>2. seen' = entry.seen
    BY <1>9 DEF Entry!LoggedIn, Entry!EnteredBy, Entry!LetIn
  <2>3. NotTemporary(seen)'
    BY <1>1, <1>4, <1>9, <2>2, EntryTyped, Zenon DEF FlagsSound, NotTemporary
  <2>4. FlagsSound'
    <3>1. ~mustChangePassword'
      BY <1>5, <2>1, Zenon
    <3> QED
      BY <1>3, <1>4, <2>3, <3>1, Zenon DEF FlagsSound
  <2>5. {kept', user', mustChangePassword', leaving', unknown'} \subseteq BOOLEAN
    BY <1>2, <2>1, EntryTyped, Zenon
  <2> QED
    BY <1>1, <1>3, <2>4, <2>5, NextGoesOn, EntryTyped, EntryGoesOn
<1> QED
  BY <1>6, <1>7, <1>8, <1>9

\* The forced change is answered, and then the session: the flag is taken back only when
\* the server has let the user in.
LEMMA ForcedKeeps == EntryInv /\ Entry!ForcedChangeGoesOn => EntryInv'
<1> SUFFICES ASSUME EntryInv, Entry!ForcedChangeGoesOn PROVE EntryInv'
  OBVIOUS
<1>1. /\ entry.step \in {"change", "me"} /\ entry.answer # "none"
      /\ UNCHANGED <<account, had, next, launches, change, passwordSaved>>
  BY DEF Entry!ForcedChangeGoesOn, Entry!account0, Entry!settings
<1>2. UNCHANGED leaving
  BY DEF Entry!ForcedChangeGoesOn, Entry!settings
<1>3. /\ Entry!NoRequest \in Entry!Request /\ Entry!NoRequest.step = "idle"
      /\ Entry!NoRequest.step \notin {"boot", "login"} /\ Entry!NoRequest.step # "login"
      /\ Entry!NoRequest.fresh = 0 /\ Entry!NoRequest.answer = "none"
      /\ Entry!NoRequest.answer # "ok" /\ Entry!NoRequest.answer # "must"
      /\ Entry!NoRequest.seen = 0
  BY QuietTyped
<1>4. ~user /\ (mustChangePassword => Due) /\ entry.step # "idle"
  <2>1. entry.step # "idle"
    BY <1>1
  <2> QED
    BY <2>1, EntryTyped, Zenon DEF FlagsSound
<1>5. 0 \in 0..next' - 1 /\ launches' \in 0..MaxLaunches
  BY <1>1, NextGoesOn, EntryTyped
<1>6. entry.answer \in {"ok", "must", "error", "expired"}
  BY <1>1, EntryTyped DEF Entry!Request
<1>7. CASE entry.answer = "ok" /\ entry.step = "change"
  <2>1. entry' = Entry!Asked("me", 0, 0) /\ UNCHANGED seen
    BY <1>7 DEF Entry!ForcedChangeGoesOn
  <2>2. UNCHANGED <<kept, user, mustChangePassword, unknown>>
    BY <1>7 DEF Entry!ForcedChangeGoesOn
  <2>3. /\ entry' \in Entry!Request /\ entry'.fresh = 0 /\ entry'.seen = 0
        /\ entry'.step = "me" /\ entry'.answer = "none"
    <3>1. 0 \in Entry!Passwords
      BY MobileAppAssumption DEF Entry!Passwords
    <3> QED
      BY <2>1, <3>1, AskedTyped
  <2>4. /\ entry'.step # "idle" /\ entry'.step # "login" /\ entry'.step \notin {"boot", "login"}
        /\ entry'.answer # "ok" /\ entry'.answer # "must"
    BY <2>3
  <2>5. FlagsSound'
    BY <1>1, <1>4, <2>2, <2>4, Zenon DEF FlagsSound, Due
  <2>6. {kept', user', mustChangePassword', leaving', unknown'} \subseteq BOOLEAN
    BY <1>2, <2>2, EntryTyped, Zenon
  <2> QED
    BY <1>1, <1>5, <2>1, <2>3, <2>5, <2>6, EntryGoesOn
<1>8. CASE entry.answer = "ok" /\ entry.step = "me"
  <2>1. entry' = Entry!NoRequest /\ seen' = entry.seen
    BY <1>8 DEF Entry!ForcedChangeGoesOn, Entry!LetIn
  <2>2. user' = TRUE /\ unknown' = FALSE /\ mustChangePassword' = FALSE /\ UNCHANGED kept
    <3>1. entry.step # "change" /\ entry.answer # "expired" /\ entry.answer \notin {"must", "error"}
      BY <1>8
    <3> QED
      BY <1>8, <3>1, Zenon DEF Entry!ForcedChangeGoesOn, Entry!LetIn
  <2>3. NotTemporary(seen)'
    <3>1. entry.step # "change"
      BY <1>8
    <3> QED
      BY <1>1, <1>8, <2>1, <3>1, EntryTyped, Zenon DEF FlagsSound, NotTemporary
  <2>4. FlagsSound'
    BY <1>3, <2>1, <2>2, <2>3, Zenon DEF FlagsSound
  <2>5. {kept', user', mustChangePassword', leaving', unknown'} \subseteq BOOLEAN
    BY <1>2, <2>2, EntryTyped, Zenon
  <2> QED
    BY <1>1, <1>3, <1>5, <2>1, <2>4, <2>5, EntryGoesOn
<1>9. CASE entry.answer = "expired"
  <2>1. entry' = Entry!NoRequest /\ UNCHANGED seen
    BY <1>9 DEF Entry!ForcedChangeGoesOn
  <2>2. user' = FALSE /\ kept' = FALSE /\ UNCHANGED <<mustChangePassword, unknown>>
    <3>1. entry.answer # "ok" /\ entry.answer \notin {"must", "error"}
      BY <1>9
    <3> QED
      BY <1>9, <3>1, Zenon DEF Entry!ForcedChangeGoesOn, Entry!onAuthExpired
  <2>3. FlagsSound'
    BY <1>1, <1>3, <1>4, <2>1, <2>2, Zenon DEF FlagsSound, Due
  <2>4. {kept', user', mustChangePassword', leaving', unknown'} \subseteq BOOLEAN
    BY <1>2, <2>2, EntryTyped, Zenon
  <2> QED
    BY <1>1, <1>3, <1>5, <2>1, <2>3, <2>4, EntryGoesOn
<1>10. CASE entry.answer \in {"must", "error"}
  <2>1. entry' = Entry!NoRequest /\ UNCHANGED seen
    BY <1>10 DEF Entry!ForcedChangeGoesOn
  <2>2. UNCHANGED <<kept, user, mustChangePassword, unknown>>
    BY <1>10 DEF Entry!ForcedChangeGoesOn
  <2>3. FlagsSound'
    BY <1>1, <1>3, <1>4, <2>1, <2>2, Zenon DEF FlagsSound, Due
  <2>4. {kept', user', mustChangePassword', leaving', unknown'} \subseteq BOOLEAN
    BY <1>2, <2>2, EntryTyped, Zenon
  <2> QED
    BY <1>1, <1>3, <1>5, <2>1, <2>3, <2>4, EntryGoesOn
<1> QED
  BY <1>1, <1>6, <1>7, <1>8, <1>9, <1>10

\* The user goes: the session ends, or the logout does.
LEMMA LeftKeeps == EntryInv /\ (Entry!SessionEnds \/ Entry!logout \/ Entry!LoggedOut) => EntryInv'
<1> SUFFICES ASSUME EntryInv, Entry!SessionEnds \/ Entry!logout \/ Entry!LoggedOut PROVE EntryInv'
  OBVIOUS
<1>1. UNCHANGED <<account, had, next, launches, seen, entry, change, passwordSaved>>
  BY DEF Entry!SessionEnds, Entry!logout, Entry!LoggedOut, Entry!account0, Entry!flags,
         Entry!settings
<1>2. /\ user' = FALSE \/ UNCHANGED user
      /\ mustChangePassword' = FALSE \/ UNCHANGED mustChangePassword
      /\ kept' = FALSE \/ UNCHANGED kept
      /\ UNCHANGED unknown /\ (leaving' = TRUE \/ leaving' = FALSE \/ UNCHANGED leaving)
  BY Zenon DEF Entry!SessionEnds, Entry!logout, Entry!LoggedOut, Entry!flags, Entry!settings,
         Entry!onAuthExpired
<1>3. (user' => user) /\ (mustChangePassword' => mustChangePassword)
  <2>1. user' => user
    BY <1>2, Zenon
  <2>2. mustChangePassword' => mustChangePassword
    BY <1>2, Zenon
  <2> QED
    BY <2>1, <2>2
<1>4. FlagsSound'
  BY <1>1, <1>2, <1>3, EntryTyped, Zenon DEF FlagsSound, NotTemporary, Due
<1>5. {kept', user', mustChangePassword', leaving', unknown'} \subseteq BOOLEAN
  BY <1>2, EntryTyped, Zenon
<1> QED
  BY <1>1, <1>4, <1>5, EntryTyped, EntryGoesOn

\* Settings asks for a change, and hears of it.
LEMMA SettingsKeeps ==
  EntryInv /\ (Entry!ChangeEnds \/ \E given \in 0..next - 1 : Entry!handleChangePassword(given))
      => EntryInv'
<1> SUFFICES ASSUME EntryInv,
                    Entry!ChangeEnds \/ \E given \in 0..next - 1 : Entry!handleChangePassword(given)
             PROVE  EntryInv'
  OBVIOUS
<1>1. CASE Entry!ChangeEnds
  <2>1. /\ UNCHANGED <<account, had, next, launches, seen, entry>>
        /\ change' = Entry!NoRequest
        /\ passwordSaved' \in {0, passwordSaved}
           \/ (change.answer = "ok" /\ passwordSaved' = change.fresh)
    BY <1>1 DEF Entry!ChangeEnds, Entry!account0
  <2>2. /\ user' = FALSE \/ UNCHANGED user
        /\ kept' = FALSE \/ UNCHANGED kept
        /\ UNCHANGED <<mustChangePassword, unknown, leaving>>
    BY <1>1, Zenon DEF Entry!ChangeEnds, Entry!onAuthExpired
  <2>3. user' => user
    BY <2>2, Zenon
  <2>4. FlagsSound'
    BY <2>1, <2>2, <2>3, EntryTyped, Zenon DEF FlagsSound, NotTemporary, Due
  <2>5. {kept', user', mustChangePassword', leaving', unknown'} \subseteq BOOLEAN
    BY <2>2, EntryTyped, Zenon
  <2>6. change' \in Entry!Request /\ change'.fresh \in 0..next' - 1 /\ change'.answer = "none"
    BY <2>1, QuietTyped, NextGoesOn
  <2> QED
    BY <2>1, <2>4, <2>5, <2>6, EntryTyped, EntryGoesOn
<1>2. ASSUME NEW given \in 0..next - 1, Entry!handleChangePassword(given) PROVE EntryInv'
  <2>1. /\ UNCHANGED <<account, had, launches, seen, entry>> /\ passwordSaved' = 0
        /\ next <= MaxPasswords /\ next' = next + 1
        /\ change' = Entry!Asked("change", given, next)
    BY <1>2 DEF Entry!handleChangePassword, Entry!flags
  <2>2. UNCHANGED <<kept, user, mustChangePassword, unknown, leaving>>
    BY <1>2 DEF Entry!handleChangePassword, Entry!flags
  <2>3. FlagsSound'
    BY <2>1, <2>2, EntryTyped, Zenon DEF FlagsSound, NotTemporary, Due
  <2>4. {kept', user', mustChangePassword', leaving', unknown'} \subseteq BOOLEAN
    BY <2>2, EntryTyped, Zenon
  <2>5. next \in Entry!Passwords /\ next \in 0..next' - 1
    BY <2>1, NextGoesOn
  <2>6. given \in Entry!Passwords
    BY EntryTyped, MobileAppAssumption DEF Entry!Passwords
  <2>7. change' \in Entry!Request /\ change'.fresh \in 0..next' - 1 /\ change'.answer = "none"
    BY <2>1, <2>5, <2>6, AskedTyped
  <2> QED
    BY <2>1, <2>3, <2>4, <2>7, EntryTyped, EntryGoesOn
<1> QED
  BY <1>1, <1>2

\* No step of AuthContext and its screens breaks it.
LEMMA EntryStep == EntryInv /\ Entry!SignInNext => EntryInv'
<1> SUFFICES ASSUME EntryInv, Entry!SignInNext PROVE EntryInv'
  OBVIOUS
<1>1. CASE Entry!IssueTemporary \/ Entry!Launch \/ Entry!SessionEnds \/ Entry!LoggedOut
  BY <1>1, IssueKeeps, LaunchKeeps, LeftKeeps
<1>2. CASE Entry!LoginScreen \/ Entry!ForceChangePasswordScreen
  BY <1>2, AsksKeeps DEF Entry!LoginScreen, Entry!ForceChangePasswordScreen
<1>3. CASE Entry!SettingsScreen
  BY <1>3, LeftKeeps, SettingsKeeps DEF Entry!SettingsScreen
<1>4. CASE Entry!SignInAnswers
  BY <1>4, ServeEntryKeeps, ServeForcedKeeps, BootsKeeps, LoggedInKeeps, ForcedKeeps
  DEF Entry!SignInAnswers
<1>5. CASE Entry!SettingsAnswers
  BY <1>5, ServeChangeKeeps, SettingsKeeps DEF Entry!SettingsAnswers
<1> QED
  BY <1>1, <1>2, <1>3, <1>4, <1>5 DEF Entry!SignInNext

\* ... and it says who sees what.
LEMMA PasswordsKnown == EntryInv => Entry!PasswordsAgree
<1> SUFFICES ASSUME EntryInv PROVE Entry!PasswordsAgree
  OBVIOUS
<1>1. Entry!Screen = "tabs" => user
  <2>1. "splash" # "tabs" /\ "force" # "tabs" /\ "login" # "tabs"
    OBVIOUS
  <2> QED
    BY <2>1, Zenon DEF Entry!Screen
<1>2. Entry!Screen = "force" => mustChangePassword
  <2>1. "splash" # "force" /\ "tabs" # "force" /\ "login" # "force"
    OBVIOUS
  <2> QED
    BY <2>1, Zenon DEF Entry!Screen
<1>3. passwordSaved \in had
  BY EntryTyped DEF SavedWas
<1>4. Entry!Screen = "tabs" /\ account.must => account.password # seen
  BY <1>1, EntryTyped, Zenon DEF FlagsSound, NotTemporary
<1>5. Entry!Screen = "force" => account.must \/ unknown
  BY <1>2, EntryTyped, Zenon DEF FlagsSound, Due
<1> QED
  BY <1>3, <1>4, <1>5, Zenon DEF Entry!PasswordsAgree

-----------------------------------------------------------------------------
(* The app: in whichever mode, its screens go on one at a time *)

\* What another screen does leaves the profile as it is ...
LEMMA ProfileKept == ProfileInv /\ UNCHANGED profileVars => ProfileInv'
  BY DEF ProfileInv, Profile!ProfileTypeOK, profileVars

\* ... and who is signed in.
LEMMA EntryKept == EntryInv /\ UNCHANGED signInVars => EntryInv'
<1> SUFFICES ASSUME EntryInv, UNCHANGED signInVars PROVE EntryInv'
  OBVIOUS
<1>1. /\ UNCHANGED <<account, had, entry, change, passwordSaved, seen, next, launches>>
      /\ UNCHANGED <<kept, user, mustChangePassword, leaving, unknown>>
  BY DEF signInVars
<1>2. FlagsSound'
  BY <1>1, EntryTyped, Zenon DEF FlagsSound, NotTemporary, Due
<1>3. {kept', user', mustChangePassword', leaving', unknown'} \subseteq BOOLEAN
  BY <1>1, EntryTyped, Zenon
<1> QED
  BY <1>1, <1>2, <1>3, EntryTyped, EntryGoesOn

\* Languages are counted, on either of the screens that hear of them.
LEMMA SwitchesGrow ==
  ASSUME HistoryInv, History!HistoryNext \/ Leaves!LeaveScreensNext
  PROVE  switches' \in 0..MaxSwitches /\ switches <= switches'
<1>1. switches \in 0..MaxSwitches
  BY DEF HistoryInv, History!HistoryTypeOK
<1>2. switches' = switches \/ (switches < MaxSwitches /\ switches' = switches + 1)
  <2>1. CASE History!HistoryNext
    BY <2>1 DEF History!HistoryNext, History!SwitchLanguage, History!HistoryAnswers,
                History!loadFirstPage, History!loadNextPage, History!NextPage
  <2>2. CASE Leaves!SwitchLanguage
    BY <2>2 DEF Leaves!SwitchLanguage
  <2>3. CASE Leaves!LeaveRequestScreen \/ Leaves!LeaveHistoryScreen
    BY <2>3 DEF Leaves!LeaveRequestScreen, Leaves!handleDateChange, Leaves!handleSubmit,
                Leaves!LeaveHistoryScreen, Leaves!AddLeave, Leaves!OpenHistory, Leaves!GoBack
  <2>4. CASE Leaves!LeaveScreensAnswers
    BY <2>4 DEF Leaves!LeaveScreensAnswers, Leaves!Submission, Leaves!ServeSubmit,
                Leaves!Submitted, Leaves!NotSubmitted, Leaves!TypesLoaded, Leaves!ServeList,
                Leaves!ListLoaded, Leaves!ListFailed
  <2> QED
    BY <2>1, <2>2, <2>3, <2>4 DEF Leaves!LeaveScreensNext
<1> QED
  BY <1>1, <1>2, MobileAppAssumption

\* The app begins with each of its screens as it is opened.
LEMMA AppStart == Init => Typed /\ Screens
  BY InitTyped, CheckInStart, DashboardStart, HistoryStart, LeaveStart, ProfileStart, EntryStart
  DEF Init, Screens

\* No step of it breaks any of them.
LEMMA AppStep == Typed /\ Screens /\ [Next]_vars => (Typed /\ Screens)'
<1> SUFFICES ASSUME Typed, Screens, [Next]_vars PROVE Typed' /\ Screens'
  OBVIOUS
<1> USE DEF Screens
<1>1. switches \in 0..MaxSwitches /\ switches <= switches
  <2>1. switches \in 0..MaxSwitches
    BY DEF HistoryInv, History!HistoryTypeOK
  <2> QED
    BY <2>1, MobileAppAssumption
<1>2. /\ UNCHANGED clientVars => Typed'
      /\ UNCHANGED checkInVars => CheckInInv'
      /\ UNCHANGED dashboardVars => DashboardInv'
      /\ UNCHANGED profileVars => ProfileInv'
      /\ UNCHANGED signInVars => EntryInv'
  BY NextTyped, CheckInStep, DashboardStep, ProfileKept, EntryKept
<1>3. /\ UNCHANGED historyVars /\ UNCHANGED switches => HistoryInv'
      /\ UNCHANGED leaveVars /\ UNCHANGED switches => LeaveInv'
  BY <1>1, HistoryKept, LeaveKept DEF leaveVars
<1>4. CASE UNCHANGED vars
  BY <1>2, <1>3, <1>4 DEF vars
<1>5. CASE /\ ClientNext
           /\ UNCHANGED <<checkInVars, dashboardVars, historyVars, switches, leaveVars,
                          profileVars, signInVars>>
  BY <1>2, <1>3, <1>5, NextTyped
<1>6. CASE /\ CheckIn!CheckInNext
           /\ UNCHANGED <<clientVars, dashboardVars, historyVars, switches, leaveVars,
                          profileVars, signInVars>>
  BY <1>2, <1>3, <1>6, CheckInStep
<1>7. CASE /\ Dashboard!DashboardNext
           /\ UNCHANGED <<clientVars, checkInVars, historyVars, switches, leaveVars,
                          profileVars, signInVars>>
  BY <1>2, <1>3, <1>7, DashboardStep
<1>8. CASE /\ History!HistoryNext
           /\ UNCHANGED <<clientVars, checkInVars, dashboardVars, leaveVars, profileVars,
                          signInVars>>
  <2>1. LeaveInv'
    BY <1>8, SwitchesGrow, LeaveKept DEF leaveVars
  <2> QED
    BY <1>2, <1>8, <2>1, HistoryStep
<1>9. CASE /\ Leaves!LeaveScreensNext
           /\ UNCHANGED <<clientVars, checkInVars, dashboardVars, historyVars, profileVars,
                          signInVars>>
  <2>1. HistoryInv'
    BY <1>9, SwitchesGrow, HistoryKept
  <2> QED
    BY <1>2, <1>9, <2>1, LeaveStep
<1>10. CASE /\ Profile!ProfileNext
            /\ UNCHANGED <<clientVars, checkInVars, dashboardVars, historyVars, switches,
                           leaveVars, signInVars>>
  BY <1>2, <1>3, <1>10, ProfileStep
<1>11. CASE /\ Entry!SignInNext
            /\ UNCHANGED <<clientVars, checkInVars, dashboardVars, historyVars, switches,
                           leaveVars, profileVars>>
  BY <1>2, <1>3, <1>11, EntryStep
<1> QED
  BY <1>4, <1>5, <1>6, <1>7, <1>8, <1>9, <1>10, <1>11 DEF Next

\* The client and the screens, whatever the order and the fate of their requests: the
\* invariant the two theorems below rest on.
THEOREM ScreensSound == Spec => [](Typed /\ Screens)
  BY AppStart, AppStep, PTL DEF Spec

\* Every variable of the app keeps its type, whichever screen it is of.
THEOREM AppTypeCorrect == Spec => []TypeOK
<1>1. Typed /\ Screens => TypeOK
  <2> SUFFICES ASSUME Typed, Screens PROVE TypeOK
    OBVIOUS
  <2>1. ClientTypeOK
    BY DEF Typed
  <2>2. CheckIn!CheckInTypeOK /\ Dashboard!DashboardTypeOK /\ History!HistoryTypeOK
    BY DEF Screens, CheckInInv, DashboardInv, HistoryInv
  <2>3. Leaves!LeaveScreensTypeOK
    BY LeaveTypes DEF Screens
  <2>4. Profile!ProfileTypeOK /\ Entry!SignInTypeOK
    BY DEF Screens, ProfileInv, EntryInv
  <2> QED
    BY <2>1, <2>2, <2>3, <2>4 DEF TypeOK
<1> QED
  BY <1>1, ScreensSound, PTL

\* The screens of the app agree with the server, for any number of days, presses, pages,
\* notifications, submissions, uploads, passwords and launches: the attendance of today
\* and its button, the badge, the pages of the history, the list that a leave request
\* opens (or an empty one that says it could not be loaded), the phone number and the
\* picture, and who is let in.
THEOREM ScreensAgreeHolds == Spec => []ScreensAgree
<1>1. Screens => ScreensAgree
  <2> SUFFICES ASSUME Screens PROVE ScreensAgree
    OBVIOUS
  <2>1. CheckIn!ScreenAgrees /\ History!PagesInOrder
    BY CheckInAgrees, HistoryAgrees DEF Screens
  <2>2. Dashboard!CountIsNatural
    BY DEF Screens, DashboardInv, Dashboard!CountIsNatural
  <2>3. Leaves!SubmittedIsListed /\ Profile!ProfileAgrees /\ Entry!PasswordsAgree
    BY SubmittedListed, ProfileShown, PasswordsKnown DEF Screens
  <2> QED
    BY <2>1, <2>2, <2>3 DEF ScreensAgree
<1> QED
  BY <1>1, ScreensSound, PTL

=============================================================================
