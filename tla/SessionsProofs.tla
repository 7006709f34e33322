--------------------------- MODULE SessionsProofs ---------------------------
(***************************************************************************)
(* Proofs about Sessions, for any number of users, workers and tokens.     *)
(***************************************************************************)
EXTENDS Sessions, TLAPS

JtisUnique == \A s, t \in issued : s.jti = t.jti => s = t

Refreshing(w) == req[w].pc \in {"refresh.check", "refresh.blacklist", "refresh.outstand"}

\* What a worker knows between two of its queries.
RequestSound(w) ==
    /\ req[w].before \subseteq issued /\ req[w].todo \subseteq issued
    /\ Refreshing(w) \/ req[w].pc \in {"logout.check", "logout.blacklist"}
         => req[w].token \in issued /\ req[w].token.user = req[w].user
    /\ req[w].pc = "refresh.outstand" => req[w].token \in blacklisted
    /\ req[w].pc \in {"refresh.blacklist", "refresh.outstand"}
         => \A t \in req[w].before : t.parent # req[w].token.jti
    /\ req[w].pc = "revoke.list" => req[w].known \subseteq blacklisted
    /\ req[w].pc = "revoke.loop"
         => TokensOf(req[w].user, req[w].before) \subseteq blacklisted \cup req[w].todo

IInv ==
    /\ TypeOK /\ JtisUnique /\ RotationLeavesItsTrace
    /\ \A w \in Workers : RequestSound(w)

-----------------------------------------------------------------------------
\* No token exists and no worker has work.
LEMMA InitEstablishes == Init => IInv
<1> SUFFICES ASSUME Init PROVE IInv
  OBVIOUS
<1>1. TypeOK
  BY DEF Init, Answered, TypeOK, Request, Replies
<1>2. JtisUnique /\ RotationLeavesItsTrace
  BY DEF Init, JtisUnique, RotationLeavesItsTrace
<1>3. \A w \in Workers : RequestSound(w)
  BY DEF Init, Answered, RequestSound, Refreshing
<1>4. QED
  BY <1>1, <1>2, <1>3 DEF IInv

\* What a worker knows stays true while it does not move, since tables only grow.
LEMMA OthersStaySound ==
    ASSUME IInv, NEW w \in Workers, req'[w] = req[w],
           issued \subseteq issued', blacklisted \subseteq blacklisted'
    PROVE RequestSound(w)'
<1>1. RequestSound(w)
  BY DEF IInv
<1>2. QED
  BY <1>1 DEF RequestSound, Refreshing, TokensOf

\* A worker answers; at most the blacklist grows, by a token that exists.
LEMMA AnswerStep ==
    ASSUME IInv, NEW w \in Workers, NEW reply \in Replies, Answer(w, reply),
           blacklisted \subseteq blacklisted', blacklisted' \subseteq issued,
           UNCHANGED <<issued, outstanding, expired>>
    PROVE IInv'
<1>1. req' \in [Workers -> Request]
  BY DEF IInv, TypeOK, Answer, Answered, Request
<1>2. TypeOK'
  BY <1>1 DEF IInv, TypeOK
<1>3. JtisUnique' /\ RotationLeavesItsTrace'
  BY DEF IInv, JtisUnique, RotationLeavesItsTrace
<1>4. RequestSound(w)'
  <2>1. /\ req'[w].pc = "idle" /\ req'[w].todo = {}
        /\ req'[w].before = req[w].before /\ req[w].before \subseteq issued
    BY DEF IInv, TypeOK, RequestSound, Answer, Answered
  <2>2. QED
    BY <2>1 DEF RequestSound, Refreshing
<1>5. \A v \in Workers : v # w => RequestSound(v)'
  <2>1. \A v \in Workers : v # w => req'[v] = req[v]
    BY DEF IInv, TypeOK, Answer
  <2>2. QED
    BY <2>1, OthersStaySound
<1>6. QED
  BY <1>2, <1>3, <1>4, <1>5 DEF IInv

\* A worker goes on; at most the blacklist grows, by a token that exists.
LEMMA ProceedStep ==
    ASSUME IInv, NEW w \in Workers,
           NEW pc \in {"refresh.blacklist", "refresh.outstand", "logout.blacklist",
                       "revoke.known", "revoke.list", "revoke.loop"},
           NEW known \in SUBSET Token, NEW todo \in SUBSET issued,
           Proceed(w, pc, known, todo),
           blacklisted \subseteq blacklisted', blacklisted' \subseteq issued,
           UNCHANGED <<issued, outstanding, expired>>,
           pc \in {"refresh.blacklist", "refresh.outstand", "logout.blacklist"}
             => req[w].token \in issued /\ req[w].token.user = req[w].user,
           pc = "refresh.outstand" => req[w].token \in blacklisted',
           pc \in {"refresh.blacklist", "refresh.outstand"}
             => \A t \in req[w].before : t.parent # req[w].token.jti,
           pc = "revoke.list" => known \subseteq blacklisted',
           pc = "revoke.loop"
             => TokensOf(req[w].user, req[w].before) \subseteq blacklisted' \cup todo
    PROVE IInv'
<1>1. req' \in [Workers -> Request]
  BY DEF IInv, TypeOK, Proceed, Request, Replies
<1>2. TypeOK'
  BY <1>1 DEF IInv, TypeOK
<1>3. JtisUnique' /\ RotationLeavesItsTrace'
  BY DEF IInv, JtisUnique, RotationLeavesItsTrace
<1>4. RequestSound(w)'
  <2>1. /\ req'[w].pc = pc /\ req'[w].todo = todo /\ req'[w].known = known
        /\ req'[w].before = req[w].before /\ req[w].before \subseteq issued
        /\ req'[w].token = req[w].token /\ req'[w].user = req[w].user
    BY DEF IInv, TypeOK, RequestSound, Proceed
  <2>2. QED
    BY <2>1 DEF RequestSound, Refreshing, TokensOf
<1>5. \A v \in Workers : v # w => RequestSound(v)'
  <2>1. \A v \in Workers : v # w => req'[v] = req[v]
    BY DEF IInv, TypeOK, Proceed
  <2>2. QED
    BY <2>1, OthersStaySound
<1>6. QED
  BY <1>2, <1>3, <1>4, <1>5 DEF IInv

\* A request arrives and sees the tokens that exist.
LEMMA BeginStep ==
    ASSUME IInv, NEW w \in Workers,
           NEW pc \in {"refresh.check", "logout.check", "revoke.known"},
           NEW user \in Users, NEW token \in Token \cup {NoToken},
           Begin(w, pc, user, token),
           pc # "revoke.known" => token \in issued /\ token.user = user
    PROVE IInv'
<1>0. UNCHANGED <<issued, outstanding, blacklisted, expired>>
  BY DEF Begin
<1>1. req' \in [Workers -> Request]
  BY DEF IInv, TypeOK, Begin, Request, Replies
<1>2. TypeOK'
  BY <1>0, <1>1 DEF IInv, TypeOK
<1>3. JtisUnique' /\ RotationLeavesItsTrace'
  BY <1>0 DEF IInv, JtisUnique, RotationLeavesItsTrace
<1>4. RequestSound(w)'
  <2>1. /\ req'[w].pc = pc /\ req'[w].todo = {} /\ req'[w].before = issued
        /\ req'[w].token = token /\ req'[w].user = user
    BY DEF IInv, TypeOK, Begin
  <2>2. QED
    BY <1>0, <2>1 DEF RequestSound, Refreshing
<1>5. \A v \in Workers : v # w => RequestSound(v)'
  <2>1. \A v \in Workers : v # w => req'[v] = req[v]
    BY DEF IInv, TypeOK, Begin
  <2>2. QED
    BY <1>0, <2>1, OthersStaySound
<1>6. QED
  BY <1>2, <1>3, <1>4, <1>5 DEF IInv

\* A new token, with its OutstandingToken row and its parent blacklisted.
LEMMA SignStep ==
    ASSUME IInv, NEW jti \in 0 .. MaxTokens, NEW user \in Users,
           NEW parent \in Nat \cup {NoParent}, IsNext(jti),
           issued' = issued \cup {NewToken(jti, user, parent)},
           outstanding' = outstanding \cup {NewToken(jti, user, parent)},
           UNCHANGED <<blacklisted, expired>>,
           parent # NoParent => \E s \in blacklisted : s.jti = parent /\ s.user = user,
           req' \in [Workers -> Request],
           \A w \in Workers : req'[w] = req[w] \/ RequestSound(w)'
    PROVE IInv'
<1> DEFINE new == NewToken(jti, user, parent)
<1>1. new \in Token /\ new.jti = jti /\ new.user = user /\ new.parent = parent
  BY SessionsAssumption DEF NewToken, Token
<1> HIDE DEF new
<1>2. issued' = issued \cup {new} /\ outstanding' = outstanding \cup {new}
  BY DEF new
<1>3. TypeOK'
  BY <1>1, <1>2 DEF IInv, TypeOK
<1>4. JtisUnique'
  BY <1>1, <1>2 DEF IInv, JtisUnique, IsNext
<1>5. RotationLeavesItsTrace'
  BY <1>1, <1>2 DEF IInv, RotationLeavesItsTrace
<1>6. \A w \in Workers : RequestSound(w)'
  BY <1>2, OthersStaySound
<1>7. QED
  BY <1>3, <1>4, <1>5, <1>6 DEF IInv

-----------------------------------------------------------------------------
\* A login signs a token with no parent.
LEMMA LoginStep ==
    ASSUME IInv, NEW user \in Users, Login(user) PROVE IInv'
<1>1. PICK jti \in 0 .. MaxTokens :
        /\ IsNext(jti)
        /\ issued' = issued \cup {NewToken(jti, user, NoParent)}
        /\ outstanding' = outstanding \cup {NewToken(jti, user, NoParent)}
  BY DEF Login
<1>2. UNCHANGED <<blacklisted, expired, req>>
  BY DEF Login
<1>3. req' \in [Workers -> Request]
  BY <1>2 DEF IInv, TypeOK
<1>4. QED
  BY <1>1, <1>2, <1>3, SignStep

\* A token with a successor is blacklisted, so one that passes the check has none.
LEMMA CheckRefreshStep ==
    ASSUME IInv, NEW w \in Workers, CheckRefresh(w) PROVE IInv'
<1> DEFINE t == req[w].token
<1>1. /\ req[w].pc = "refresh.check"
      /\ UNCHANGED <<issued, outstanding, blacklisted, expired>>
  BY DEF CheckRefresh
<1>2. /\ blacklisted \subseteq issued
      /\ t \in issued /\ t.user = req[w].user /\ req[w].before \subseteq issued
  BY <1>1 DEF IInv, TypeOK, RequestSound, Refreshing
<1>3. CASE Answer(w, "TOKEN_INVALID")
  BY <1>1, <1>2, <1>3, AnswerStep DEF Replies
<1>4. CASE Proceed(w, "revoke.known", {}, {})
  BY <1>1, <1>2, <1>4, ProceedStep
<1>5. CASE ~Refused(t) /\ Proceed(w, "refresh.blacklist", {}, {})
  <2>1. ASSUME NEW s \in issued, s.parent = t.jti PROVE FALSE
    <3>1. t \in Token
      BY <1>2 DEF IInv, TypeOK
    <3>2. t.jti \in Nat /\ t.jti # NoParent
      BY <3>1 DEF Token, NoParent
    <3>3. PICK p \in blacklisted : p.jti = s.parent
      BY <2>1, <3>2 DEF IInv, RotationLeavesItsTrace
    <3>4. p = t
      BY <1>2, <2>1, <3>3 DEF IInv, JtisUnique
    <3>5. QED
      BY <1>5, <3>4 DEF Refused
  <2>2. \A s \in req[w].before : s.parent # t.jti
    BY <1>2, <2>1
  <2>3. QED
    BY <1>1, <1>2, <1>5, <2>2, ProceedStep
<1>6. QED
  BY <1>3, <1>4, <1>5 DEF CheckRefresh

\* The old token of a rotation goes to the blacklist.
LEMMA BlacklistRotatedStep ==
    ASSUME IInv, NEW w \in Workers, BlacklistRotated(w) PROVE IInv'
<1>1. /\ req[w].pc = "refresh.blacklist" /\ Proceed(w, "refresh.outstand", {}, {})
      /\ blacklisted' = blacklisted \cup {req[w].token}
      /\ UNCHANGED <<issued, outstanding, expired>>
  BY DEF BlacklistRotated, Blacklist
<1>2. /\ blacklisted \subseteq issued
      /\ req[w].token \in issued /\ req[w].token.user = req[w].user
      /\ \A t \in req[w].before : t.parent # req[w].token.jti
  BY <1>1 DEF IInv, TypeOK, RequestSound, Refreshing
<1>3. QED
  BY <1>1, <1>2, ProceedStep

\* The successor is signed and registered.
LEMMA IssueRotatedStep ==
    ASSUME IInv, NEW w \in Workers, IssueRotated(w) PROVE IInv'
<1> DEFINE old == req[w].token
<1>1. PICK jti \in 0 .. MaxTokens :
        /\ IsNext(jti)
        /\ issued' = issued \cup {NewToken(jti, req[w].user, old.jti)}
        /\ outstanding' = outstanding \cup {NewToken(jti, req[w].user, old.jti)}
  BY DEF IssueRotated, Outstand
<1>2. /\ req[w].pc = "refresh.outstand" /\ Answer(w, "REFRESHED")
      /\ UNCHANGED <<blacklisted, expired>>
  BY DEF IssueRotated
<1>3. /\ old \in blacklisted /\ old \in Token /\ old.user = req[w].user
      /\ req[w].user \in Users /\ req[w].before \subseteq issued
  BY <1>2 DEF IInv, TypeOK, RequestSound, Refreshing, Request
<1>4. old.jti \in Nat
  BY <1>3 DEF Token
<1>5. req' \in [Workers -> Request]
  BY <1>2 DEF IInv, TypeOK, Answer, Answered, Request, Replies
<1>6. RequestSound(w)'
  <2>1. /\ req'[w].pc = "idle" /\ req'[w].todo = {} /\ req'[w].before = req[w].before
    BY <1>2 DEF IInv, TypeOK, Answer, Answered
  <2>2. issued \subseteq issued'
    BY <1>1
  <2>3. QED
    BY <1>3, <2>1, <2>2 DEF RequestSound, Refreshing
<1>7. \A v \in Workers : req'[v] = req[v] \/ RequestSound(v)'
  BY <1>2, <1>6 DEF IInv, TypeOK, Answer
<1>8. QED
  BY <1>1, <1>2, <1>3, <1>4, <1>5, <1>7, SignStep

\* Logout is a check and a blacklisting.
LEMMA LogoutStep ==
    ASSUME IInv, NEW w \in Workers, CheckLogout(w) \/ BlacklistLoggedOut(w) PROVE IInv'
<1>1. CASE CheckLogout(w)
  <2>1. /\ req[w].pc = "logout.check"
        /\ UNCHANGED <<issued, outstanding, blacklisted, expired>>
    BY <1>1 DEF CheckLogout
  <2>2. /\ blacklisted \subseteq issued
        /\ req[w].token \in issued /\ req[w].token.user = req[w].user
    BY <2>1 DEF IInv, TypeOK, RequestSound
  <2>3. CASE Answer(w, "LOGGED_OUT")
    BY <2>1, <2>2, <2>3, AnswerStep DEF Replies
  <2>4. CASE Proceed(w, "logout.blacklist", {}, {})
    BY <2>1, <2>2, <2>4, ProceedStep
  <2>5. QED
    BY <1>1, <2>3, <2>4 DEF CheckLogout
<1>2. CASE BlacklistLoggedOut(w)
  <2>1. /\ req[w].pc = "logout.blacklist" /\ Answer(w, "LOGGED_OUT")
        /\ blacklisted' = blacklisted \cup {req[w].token}
        /\ UNCHANGED <<issued, outstanding, expired>>
    BY <1>2 DEF BlacklistLoggedOut, Blacklist
  <2>2. blacklisted \subseteq issued /\ req[w].token \in issued
    BY <2>1 DEF IInv, TypeOK, RequestSound
  <2>3. QED
    BY <2>1, <2>2, AnswerStep DEF Replies
<1>3. QED
  BY <1>1, <1>2

\* The two queries of revoke_all_sessions.  Every token that existed when the
\* request arrived is in the table, so it is known to be blacklisted or listed.
LEMMA ReadStep ==
    ASSUME IInv, NEW w \in Workers, ReadBlacklisted(w) \/ ReadOutstanding(w) PROVE IInv'
<1>1. UNCHANGED <<issued, outstanding, blacklisted, expired>>
  BY DEF ReadBlacklisted, ReadOutstanding
<1>2. /\ issued = outstanding /\ blacklisted \subseteq issued /\ issued \subseteq Token
      /\ req[w].before \subseteq issued
  BY DEF IInv, TypeOK, RotationLeavesItsTrace, RequestSound
<1>3. CASE ReadBlacklisted(w)
  <2> DEFINE known == TokensOf(req[w].user, outstanding \cap blacklisted)
  <2>1. known \in SUBSET Token /\ known \subseteq blacklisted
    BY <1>2 DEF TokensOf
  <2>2. Proceed(w, "revoke.list", known, {})
    BY <1>3 DEF ReadBlacklisted
  <2> HIDE DEF known
  <2>3. QED
    BY <1>1, <1>2, <2>1, <2>2, ProceedStep
<1>4. CASE ReadOutstanding(w)
  <2> DEFINE todo == TokensOf(req[w].user, outstanding) \ req[w].known
  <2>1. Proceed(w, "revoke.loop", {}, todo) /\ req[w].pc = "revoke.list"
    BY <1>4 DEF ReadOutstanding
  <2>2. req[w].known \subseteq blacklisted
    BY <2>1 DEF IInv, RequestSound
  <2>3. todo \in SUBSET issued
    BY <1>2 DEF TokensOf
  <2>4. TokensOf(req[w].user, req[w].before) \subseteq blacklisted \cup todo
    BY <1>2, <2>2 DEF TokensOf
  <2> HIDE DEF todo
  <2>5. QED
    BY <1>1, <1>2, <2>1, <2>3, <2>4, ProceedStep
<1>5. QED
  BY <1>3, <1>4

\* The loop of revoke_all_sessions.
LEMMA RevokeStep ==
    ASSUME IInv, NEW w \in Workers, RevokeOne(w) \/ EndRevoke(w) PROVE IInv'
<1>1. /\ req[w].pc = "revoke.loop"
      /\ UNCHANGED <<issued, outstanding, expired>>
  BY DEF RevokeOne, EndRevoke
<1>2. /\ blacklisted \subseteq issued /\ req[w].todo \subseteq issued
      /\ TokensOf(req[w].user, req[w].before) \subseteq blacklisted \cup req[w].todo
  BY <1>1 DEF IInv, TypeOK, RequestSound
<1>3. CASE EndRevoke(w)
  <2>1. Answer(w, RevokeReply(req[w])) /\ UNCHANGED blacklisted
    BY <1>3 DEF EndRevoke
  <2>2. RevokeReply(req[w]) \in Replies
    BY DEF RevokeReply, Replies
  <2>3. QED
    BY <1>1, <1>2, <2>1, <2>2, AnswerStep
<1>4. ASSUME NEW t \in req[w].todo, t \in blacklisted,
             Answer(w, "SERVER_ERROR"), UNCHANGED blacklisted
      PROVE IInv'
  BY <1>1, <1>2, <1>4, AnswerStep DEF Replies
<1>5. ASSUME NEW t \in req[w].todo, blacklisted' = blacklisted \cup {t},
             Proceed(w, "revoke.loop", {}, req[w].todo \ {t})
      PROVE IInv'
  BY <1>1, <1>2, <1>5, ProceedStep
<1>6. QED
  BY <1>3, <1>4, <1>5 DEF RevokeOne, DuplicateReply

\* Requests that arrive know a token of their user.
LEMMA ArriveStep ==
    ASSUME IInv, NEW w \in Workers, Arrive(w) PROVE IInv'
<1>1. \A t \in issued : t \in Token /\ t.user \in Users
  BY DEF IInv, TypeOK, Token
<1>2. QED
  BY <1>1, BeginStep DEF Arrive, BeginRefresh, BeginLogout, BeginLogoutAll

\* Time passes, or nothing does.
LEMMA QuietStep ==
    ASSUME IInv, UNCHANGED <<issued, outstanding, blacklisted, req>>, expired' \subseteq issued
    PROVE IInv'
<1>1. TypeOK' /\ JtisUnique' /\ RotationLeavesItsTrace'
  BY DEF IInv, TypeOK, JtisUnique, RotationLeavesItsTrace
<1>2. \A w \in Workers : RequestSound(w)'
  BY OthersStaySound
<1>3. QED
  BY <1>1, <1>2 DEF IInv

\* Every step of the system preserves the invariant.
LEMMA NextPreserves == IInv /\ [Next]_vars => IInv'
<1> SUFFICES ASSUME IInv, [Next]_vars PROVE IInv'
  OBVIOUS
<1>1. ASSUME NEW w \in Workers, Handle(w) PROVE IInv'
  BY <1>1, CheckRefreshStep, BlacklistRotatedStep, IssueRotatedStep, LogoutStep,
     ReadStep, RevokeStep DEF Handle
<1>2. CASE \E t \in issued : Expire(t)
  BY <1>2, QuietStep DEF Expire, IInv, TypeOK
<1>3. CASE UNCHANGED vars
  BY <1>3, QuietStep DEF vars, IInv, TypeOK
<1>4. QED
  BY <1>1, <1>2, <1>3, LoginStep, ArriveStep DEF Next

\* The inductive invariant holds of every reachable state.
THEOREM Invariance == Spec => []IInv
BY InitEstablishes, NextPreserves, PTL DEF Spec

-----------------------------------------------------------------------------
(* What the runs check on small instances. *)

\* The blacklist and the table of outstanding tokens only name signed tokens.
THEOREM TypeCorrect == Spec => []TypeOK
<1>1. IInv => TypeOK
  BY DEF IInv
<1>2. QED
  BY <1>1, Invariance, PTL

\* Every token ever signed can be found and revoked, and none outlives its use.
THEOREM RotationLeavesItsTraceHolds == Spec => []RotationLeavesItsTrace
<1>1. IInv => RotationLeavesItsTrace
  BY DEF IInv
<1>2. QED
  BY <1>1, Invariance, PTL

\* A worker becomes idle only by answering, and only the end of the loop of
\* revoke_all_sessions answers that everything is revoked.
LEMMA OnlyEndRevokeRevokes ==
    ASSUME IInv, [Next]_vars, NEW w \in Workers, req[w].pc # "idle", req'[w].pc = "idle",
           req'[w].reply \in {"LOGGED_OUT_ALL", "TOKEN_REUSE_DETECTED"}
    PROVE EndRevoke(w)
<1>1. ASSUME NEW reply, Answer(w, reply),
             reply \notin {"LOGGED_OUT_ALL", "TOKEN_REUSE_DETECTED"}
      PROVE FALSE
  BY <1>1 DEF IInv, TypeOK, Answer, Answered
<1>2. ASSUME NEW pc, NEW known, NEW todo, Proceed(w, pc, known, todo), pc # "idle"
      PROVE FALSE
  BY <1>2 DEF IInv, TypeOK, Proceed
<1>3. ASSUME NEW v \in Workers, v # w, req'[w] = req[w] PROVE FALSE
  BY <1>3
<1>4. ASSUME NEW v \in Workers, v # w, Handle(v) \/ Arrive(v) PROVE req'[w] = req[w]
  BY <1>4 DEF IInv, TypeOK, Handle, Arrive, BeginRefresh, BeginLogout, BeginLogoutAll, Begin,
     CheckRefresh, BlacklistRotated, IssueRotated, CheckLogout, BlacklistLoggedOut,
     ReadBlacklisted, ReadOutstanding, RevokeOne, EndRevoke, Answer, Proceed
<1>5. req'[w] # req[w]
  OBVIOUS
<1>6. Handle(w)
  BY <1>4, <1>5 DEF Next, vars, Login, Expire, Arrive, BeginRefresh, BeginLogout,
     BeginLogoutAll, Begin
<1>7. QED
  BY <1>1, <1>2, <1>6 DEF Handle, CheckRefresh, BlacklistRotated, IssueRotated, CheckLogout,
     BlacklistLoggedOut, ReadBlacklisted, ReadOutstanding, RevokeOne, DuplicateReply

\* When a logout-all or a reuse detection answers, every token that existed
\* when the request arrived is blacklisted, whatever ran meanwhile.
THEOREM RevokedWhenAnsweredHolds == Spec => RevokedWhenAnswered
<1> DEFINE Revoked ==
      \A w \in Workers :
          /\ req[w].pc # "idle"
          /\ req'[w].pc = "idle"
          /\ req'[w].reply \in {"LOGGED_OUT_ALL", "TOKEN_REUSE_DETECTED"}
          => TokensOf(req[w].user, req[w].before) \subseteq blacklisted'
<1>1. IInv /\ [Next]_vars => [Revoked]_vars
  <2> SUFFICES ASSUME IInv, [Next]_vars, NEW w \in Workers,
                      req[w].pc # "idle", req'[w].pc = "idle",
                      req'[w].reply \in {"LOGGED_OUT_ALL", "TOKEN_REUSE_DETECTED"}
               PROVE TokensOf(req[w].user, req[w].before) \subseteq blacklisted'
    OBVIOUS
  <2>1. req[w].pc = "revoke.loop" /\ req[w].todo = {} /\ UNCHANGED blacklisted
    BY OnlyEndRevokeRevokes DEF EndRevoke
  <2>2. TokensOf(req[w].user, req[w].before) \subseteq blacklisted \cup req[w].todo
    BY <2>1 DEF IInv, RequestSound
  <2>3. QED
    BY <2>1, <2>2
<1>2. QED
  BY <1>1, Invariance, PTL DEF Spec, RevokedWhenAnswered

\* A refresh with a token that already had a successor signs nothing.
THEOREM ReplayBuysNothingHolds == Spec => ReplayBuysNothing
<1> DEFINE Barren ==
      \A w \in Workers :
          req[w].pc = "refresh.outstand" /\ req'[w].pc = "idle"
          => \A t \in req[w].before : t.parent # req[w].token.jti
<1>1. IInv => Barren
  BY DEF IInv, RequestSound
<1>2. IInv /\ [Next]_vars => [Barren]_vars
  BY <1>1
<1>3. QED
  BY <1>2, Invariance, PTL DEF Spec, ReplayBuysNothing

-----------------------------------------------------------------------------
(* One worker: the requests are atomic. *)

\* What the worker also knows when nobody else writes to the blacklist.
Undisturbed(w) ==
    /\ req[w].pc # "revoke.loop" => req[w].todo = {}
    /\ req[w].pc = "revoke.list" => TokensOf(req[w].user, blacklisted) \subseteq req[w].known
    /\ req[w].todo \cap blacklisted = {}

SInv == \A w \in Workers : Undisturbed(w)

Alone == \A v, w \in Workers : v = w

\* A lone worker finds the blacklist as it read it.
LEMMA UndisturbedStep ==
    ASSUME Alone, IInv, SInv, [Next]_vars PROVE SInv'
<1> SUFFICES ASSUME NEW w \in Workers PROVE Undisturbed(w)'
  BY DEF SInv
<1>0. /\ Undisturbed(w) /\ req \in [Workers -> Request] /\ RequestSound(w)
      /\ issued = outstanding /\ blacklisted \subseteq issued
  BY DEF SInv, IInv, TypeOK, RotationLeavesItsTrace
<1> USE <1>0
<1>1. ASSUME UNCHANGED req, UNCHANGED blacklisted PROVE Undisturbed(w)'
  BY <1>1 DEF Undisturbed, TokensOf
<1>2. ASSUME NEW reply, Answer(w, reply) PROVE Undisturbed(w)'
  BY <1>2 DEF Undisturbed, Answer, Answered
<1>3. ASSUME NEW pc, NEW known, Proceed(w, pc, known, {}), pc # "revoke.list"
      PROVE Undisturbed(w)'
  BY <1>3 DEF Undisturbed, Proceed
<1>4. ASSUME ReadBlacklisted(w) PROVE Undisturbed(w)'
  BY <1>4 DEF Undisturbed, ReadBlacklisted, Proceed, TokensOf
<1>5. ASSUME ReadOutstanding(w) PROVE Undisturbed(w)'
  <2>1. /\ req'[w].pc = "revoke.loop" /\ UNCHANGED blacklisted
        /\ req'[w].todo = TokensOf(req[w].user, outstanding) \ req[w].known
    BY <1>5 DEF ReadOutstanding, Proceed
  <2>2. TokensOf(req[w].user, blacklisted) \subseteq req[w].known
    BY <1>5 DEF ReadOutstanding, Undisturbed
  <2>3. QED
    BY <2>1, <2>2 DEF Undisturbed, TokensOf
<1>6. ASSUME NEW t \in req[w].todo, req[w].pc = "revoke.loop",
             blacklisted' = blacklisted \cup {t},
             Proceed(w, "revoke.loop", {}, req[w].todo \ {t})
      PROVE Undisturbed(w)'
  BY <1>6 DEF Undisturbed, Proceed
<1>7. ASSUME NEW pc, NEW user, NEW token, Begin(w, pc, user, token), pc # "revoke.list"
      PROVE Undisturbed(w)'
  BY <1>7 DEF Undisturbed, Begin
<1>8. ASSUME Handle(w) PROVE Undisturbed(w)'
  BY <1>2, <1>3, <1>4, <1>5, <1>6, <1>8
     DEF Handle, CheckRefresh, BlacklistRotated, IssueRotated, CheckLogout,
         BlacklistLoggedOut, RevokeOne, EndRevoke
<1>9. ASSUME Arrive(w) PROVE Undisturbed(w)'
  BY <1>7, <1>9 DEF Arrive, BeginRefresh, BeginLogout, BeginLogoutAll
<1>10. QED
  BY <1>1, <1>8, <1>9 DEF Alone, Next, vars, Login, Expire

\* The live tokens, as a lone worker makes them.
LEMMA LiveAlone ==
    ASSUME Alone, NEW w \in Workers
    PROVE /\ acceptable = (issued \ (blacklisted \cup expired \cup req[w].todo))
                      \cup {x \in {req[w].token} : Rotating(w)}
          /\ acceptable' = (issued' \ (blacklisted' \cup expired' \cup req'[w].todo))
                      \cup {x \in {req'[w].token} : Rotating(w)'}
<1>1. Condemned = req[w].todo /\ Condemned' = req'[w].todo
  BY DEF Alone, Condemned
<1>2. /\ {req[v].token : v \in {v \in Workers : Rotating(v)}}
           = {x \in {req[w].token} : Rotating(w)}
      /\ {req'[v].token : v \in {v \in Workers : Rotating(v)'}}
           = {x \in {req'[w].token} : Rotating(w)'}
  BY DEF Alone
<1>3. QED
  BY <1>1, <1>2 DEF acceptable

\* Requests that end or move on without touching the tables leave the live
\* tokens alone, unless a rotation starts or a list of condemned tokens is made.
LEMMA QuietLive ==
    ASSUME Alone, NEW w \in Workers, req'[w].todo = req[w].todo,
           ~Rotating(w), ~Rotating(w)',
           UNCHANGED <<issued, blacklisted, expired>>
    PROVE UNCHANGED <<issued, acceptable>>
BY LiveAlone

\* A refresh: its check and its blacklisting change nothing yet, its end rotates.
LEMMA RefreshImplements ==
    ASSUME Alone, IInv, SInv, NEW w \in Workers,
           CheckRefresh(w) \/ BlacklistRotated(w) \/ IssueRotated(w)
    PROVE (\E t \in acceptable : Abstract!Rotate(t)) \/ UNCHANGED <<issued, acceptable>>
<1>0. /\ Undisturbed(w) /\ req \in [Workers -> Request] /\ RequestSound(w)
      /\ blacklisted \subseteq issued /\ expired \subseteq issued
      /\ req[w].todo = {} /\ req[w].token \in issued
      /\ req[w].token.user = req[w].user
  BY DEF SInv, IInv, TypeOK, Undisturbed, RequestSound, Refreshing,
         CheckRefresh, BlacklistRotated, IssueRotated
<1> DEFINE t == req[w].token
<1>1. CASE CheckRefresh(w)
  <2>1. ~Rotating(w) /\ UNCHANGED <<issued, blacklisted, expired>>
    BY <1>1 DEF CheckRefresh, Rotating
  <2>2. CASE Answer(w, "TOKEN_INVALID") \/ Proceed(w, "revoke.known", {}, {})
    <3>1. req'[w].todo = {} /\ ~Rotating(w)'
      BY <1>0, <2>2 DEF Answer, Answered, Proceed, Rotating
    <3>2. QED
      BY <1>0, <2>1, <3>1, QuietLive
  <2>3. CASE ~Refused(t) /\ Proceed(w, "refresh.blacklist", {}, {})
    <3>1. req'[w].todo = {} /\ Rotating(w)' /\ req'[w].token = t
      BY <1>0, <2>3 DEF Proceed, Rotating
    <3>2. t \in issued \ (blacklisted \cup expired)
      BY <1>0, <2>3 DEF Refused
    <3>3. acceptable = issued \ (blacklisted \cup expired)
      BY <1>0, <2>1, LiveAlone
    <3>4. acceptable' = (issued \ (blacklisted \cup expired)) \cup {t}
      BY <2>1, <3>1, LiveAlone
    <3>5. QED
      BY <2>1, <3>2, <3>3, <3>4
  <2>4. QED
    BY <1>1, <2>2, <2>3 DEF CheckRefresh
<1>2. CASE BlacklistRotated(w)
  <2>1. /\ Rotating(w) /\ UNCHANGED <<issued, expired>>
        /\ blacklisted' = blacklisted \cup {t}
    BY <1>2 DEF BlacklistRotated, Blacklist, Rotating
  <2>2. req'[w].todo = {} /\ Rotating(w)' /\ req'[w].token = t
    BY <1>0, <1>2 DEF BlacklistRotated, Proceed, Rotating
  <2>3. QED
    BY <1>0, <2>1, <2>2, LiveAlone
<1>3. CASE IssueRotated(w)
  <2>1. PICK jti \in 0 .. MaxTokens :
          IsNext(jti) /\ issued' = issued \cup {NewToken(jti, req[w].user, t.jti)}
    BY <1>3 DEF IssueRotated
  <2> DEFINE new == NewToken(jti, req[w].user, t.jti)
  <2>2. /\ Rotating(w) /\ UNCHANGED <<blacklisted, expired>>
        /\ req'[w].todo = {} /\ ~Rotating(w)' /\ t \in blacklisted
    BY <1>0, <1>3 DEF IssueRotated, Answer, Answered, Rotating, RequestSound
  <2>3. new \notin issued
    BY <2>1 DEF IsNext, NewToken
  <2>4. Abstract!IsNext(jti) /\ new = Abstract!NewToken(jti, t.user, t.jti)
    BY <1>0, <2>1 DEF IsNext, NewToken, Abstract!IsNext, Abstract!NewToken
  <2>5. t \in acceptable
    BY <2>2, LiveAlone
  <2> HIDE DEF new
  <2>6. acceptable' = (acceptable \ {t}) \cup {new}
    BY <1>0, <2>1, <2>2, <2>3, LiveAlone DEF new
  <2>7. Abstract!Rotate(t)
    BY <2>1, <2>4, <2>5, <2>6 DEF Abstract!Rotate, new
  <2>8. QED
    BY <2>5, <2>7
<1>4. QED
  BY <1>1, <1>2, <1>3

\* Logout retires the token it presents, if that token is still live.
LEMMA LogoutImplements ==
    ASSUME Alone, IInv, SInv, NEW w \in Workers, CheckLogout(w) \/ BlacklistLoggedOut(w)
    PROVE (\E t \in acceptable : Abstract!Retire(t)) \/ UNCHANGED <<issued, acceptable>>
<1>0. /\ req \in [Workers -> Request] /\ req[w].todo = {} /\ ~Rotating(w)
  BY DEF SInv, IInv, TypeOK, Undisturbed, CheckLogout, BlacklistLoggedOut, Rotating
<1>1. CASE CheckLogout(w)
  <2>1. /\ req'[w].todo = {} /\ ~Rotating(w)'
        /\ UNCHANGED <<issued, blacklisted, expired>>
    BY <1>0, <1>1 DEF CheckLogout, Answer, Answered, Proceed, Rotating
  <2>2. QED
    BY <1>0, <2>1, QuietLive
<1>2. CASE BlacklistLoggedOut(w)
  <2> DEFINE t == req[w].token
  <2>1. /\ req'[w].todo = {} /\ ~Rotating(w)' /\ UNCHANGED <<issued, expired>>
        /\ blacklisted' = blacklisted \cup {t}
    BY <1>0, <1>2 DEF BlacklistLoggedOut, Blacklist, Answer, Answered, Rotating
  <2>2. acceptable = issued \ (blacklisted \cup expired)
    BY <1>0, LiveAlone
  <2>3. acceptable' = issued \ (blacklisted \cup {t} \cup expired)
    BY <2>1, LiveAlone
  <2>4. acceptable' = acceptable \ {t}
    BY <2>2, <2>3
  <2>5. QED
    BY <2>1, <2>4 DEF Abstract!Retire
<1>3. QED
  BY <1>1, <1>2

\* revoke_all_sessions ends every live token of the user when it lists them.
LEMMA RevokeImplements ==
    ASSUME Alone, IInv, SInv, NEW w \in Workers,
           ReadBlacklisted(w) \/ ReadOutstanding(w) \/ RevokeOne(w) \/ EndRevoke(w)
    PROVE (\E u \in Users : Abstract!RetireAll(u)) \/ UNCHANGED <<issued, acceptable>>
<1>0. /\ req \in [Workers -> Request] /\ ~Rotating(w) /\ RequestSound(w)
      /\ Undisturbed(w) /\ issued = outstanding /\ req[w].user \in Users
  BY DEF SInv, IInv, TypeOK, RotationLeavesItsTrace, Rotating, Request,
         ReadBlacklisted, ReadOutstanding, RevokeOne, EndRevoke
<1>1. CASE ReadBlacklisted(w)
  <2>1. /\ req'[w].todo = {} /\ ~Rotating(w)' /\ req[w].todo = {}
        /\ UNCHANGED <<issued, blacklisted, expired>>
    BY <1>0, <1>1 DEF ReadBlacklisted, Proceed, Rotating, Undisturbed
  <2>2. QED
    BY <1>0, <2>1, QuietLive
<1>2. CASE EndRevoke(w)
  <2>1. /\ req'[w].todo = {} /\ ~Rotating(w)' /\ req[w].todo = {}
        /\ UNCHANGED <<issued, blacklisted, expired>>
    BY <1>0, <1>2 DEF EndRevoke, Answer, Answered, Rotating
  <2>2. QED
    BY <1>0, <2>1, QuietLive
<1>3. CASE ReadOutstanding(w)
  <2> DEFINE todo == TokensOf(req[w].user, outstanding) \ req[w].known
  <2>1. /\ req'[w].todo = todo /\ ~Rotating(w)' /\ req[w].todo = {}
        /\ UNCHANGED <<issued, blacklisted, expired>>
        /\ req[w].pc = "revoke.list"
    BY <1>0, <1>3 DEF ReadOutstanding, Proceed, Rotating, Undisturbed
  <2>2. req[w].known \subseteq blacklisted
    BY <1>0, <2>1 DEF RequestSound
  <2> HIDE DEF todo
  <2>3. acceptable = issued \ (blacklisted \cup expired)
    BY <1>0, <2>1, LiveAlone
  <2>4. acceptable' = issued \ (blacklisted \cup expired \cup todo)
    BY <2>1, LiveAlone
  <2>5. \A t \in acceptable : t \in todo <=> t.user = req[w].user
    BY <1>0, <2>2, <2>3 DEF todo, TokensOf
  <2>6. acceptable' = {t \in acceptable : t.user # req[w].user}
    BY <2>3, <2>4, <2>5
  <2>7. QED
    BY <1>0, <2>1, <2>6 DEF Abstract!RetireAll
<1>4. CASE RevokeOne(w)
  <2>1. PICK t \in req[w].todo :
          /\ t \notin blacklisted /\ blacklisted' = blacklisted \cup {t}
          /\ Proceed(w, "revoke.loop", {}, req[w].todo \ {t})
    BY <1>0, <1>4 DEF RevokeOne, Undisturbed
  <2>2. /\ req'[w].todo = req[w].todo \ {t} /\ ~Rotating(w)'
        /\ UNCHANGED <<issued, expired>>
    BY <1>0, <1>4, <2>1 DEF RevokeOne, Proceed, Rotating
  <2>3. acceptable = issued \ (blacklisted \cup expired \cup req[w].todo)
    BY <1>0, LiveAlone
  <2>4. acceptable' = issued \ (blacklisted \cup {t} \cup expired \cup (req[w].todo \ {t}))
    BY <2>1, <2>2, LiveAlone
  <2>5. QED
    BY <2>2, <2>3, <2>4
<1>5. QED
  BY <1>1, <1>2, <1>3, <1>4

\* A login adds a live token; an expiry retires one, unless a rotation that has
\* passed its check still holds it.
LEMMA OutsideImplements ==
    ASSUME Alone, IInv, SInv, NEW w \in Workers, UNCHANGED req
    PROVE /\ \A u \in Users : Login(u) => Abstract!Login(u)
          /\ \A t \in issued : Expire(t) => Abstract!Retire(t) \/ UNCHANGED <<issued, acceptable>>
<1>0. /\ blacklisted \subseteq issued /\ expired \subseteq issued
      /\ req[w].todo \subseteq issued /\ (Rotating(w)' <=> Rotating(w))
      /\ req'[w] = req[w]
  BY DEF IInv, TypeOK, RequestSound, Rotating
<1>1. ASSUME NEW u \in Users, Login(u) PROVE Abstract!Login(u)
  <2>1. PICK jti \in 0 .. MaxTokens :
          IsNext(jti) /\ issued' = issued \cup {NewToken(jti, u, NoParent)}
    BY <1>1 DEF Login
  <2> DEFINE new == NewToken(jti, u, NoParent)
  <2>2. /\ new \notin issued /\ Abstract!IsNext(jti)
        /\ new = Abstract!NewToken(jti, u, Abstract!NoParent)
    BY <2>1 DEF IsNext, NewToken, NoParent, Abstract!IsNext, Abstract!NewToken,
                Abstract!NoParent
  <2>3. UNCHANGED <<blacklisted, expired>> /\ issued' = issued \cup {new}
    BY <1>1, <2>1 DEF Login
  <2> HIDE DEF new
  <2>4. acceptable' = acceptable \cup {new}
    BY <1>0, <2>2, <2>3, LiveAlone
  <2>5. QED
    BY <2>2, <2>3, <2>4 DEF Abstract!Login
<1>2. ASSUME NEW t \in issued, Expire(t)
      PROVE Abstract!Retire(t) \/ UNCHANGED <<issued, acceptable>>
  <2>1. UNCHANGED <<issued, blacklisted>> /\ expired' = expired \cup {t}
    BY <1>2 DEF Expire
  <2>2. CASE Rotating(w) /\ req[w].token = t
    BY <1>0, <2>1, <2>2, LiveAlone
  <2>3. CASE ~(Rotating(w) /\ req[w].token = t)
    <3>1. acceptable' = acceptable \ {t}
      BY <1>0, <2>1, <2>3, LiveAlone
    <3>2. QED
      BY <2>1, <3>1 DEF Abstract!Retire
  <2>4. QED
    BY <2>2, <2>3
<1>3. QED
  BY <1>1, <1>2

\* A request that arrives changes nothing yet.
LEMMA ArriveImplements ==
    ASSUME Alone, IInv, SInv, NEW w \in Workers, Arrive(w)
    PROVE UNCHANGED <<issued, acceptable>>
<1>1. /\ req \in [Workers -> Request] /\ Undisturbed(w)
  BY DEF IInv, TypeOK, SInv
<1>2. ASSUME NEW pc \in {"refresh.check", "logout.check", "revoke.known"},
             NEW user, NEW token, Begin(w, pc, user, token)
      PROVE UNCHANGED <<issued, acceptable>>
  <2>1. /\ req[w].todo = {} /\ req'[w].todo = {} /\ ~Rotating(w) /\ ~Rotating(w)'
        /\ UNCHANGED <<issued, blacklisted, expired>>
    BY <1>1, <1>2 DEF Begin, Rotating, Undisturbed
  <2>2. QED
    BY <2>1, QuietLive
<1>3. QED
  BY <1>2 DEF Arrive, BeginRefresh, BeginLogout, BeginLogoutAll

\* A conditional result: with one worker the endpoints are atomic, and implement
\* TokenServer.  The code does not keep requests from overlapping, and those that do
\* are not atomic.
THEOREM SerialRequestsAreAtomic ==
    ASSUME Alone, Workers # {} PROVE Spec => ImplementsTokenServer
<1> PICK w \in Workers : TRUE
  OBVIOUS
<1>1. Init => SInv
  BY DEF Init, Answered, SInv, Undisturbed
<1>2. Init => Abstract!Init
  <2> SUFFICES ASSUME Init PROVE issued = {} /\ acceptable = {}
    BY DEF Abstract!Init
  <2>1. req[w].todo = {} /\ ~Rotating(w) /\ issued = {}
    BY DEF Init, Answered, Rotating
  <2>2. QED
    BY <2>1, LiveAlone
<1>3. IInv /\ SInv /\ [Next]_vars => SInv'
  BY UndisturbedStep
<1>4. IInv /\ SInv /\ [Next]_vars => [Abstract!Next]_(Abstract!vars)
  <2> SUFFICES ASSUME IInv, SInv, [Next]_vars
               PROVE Abstract!Next \/ UNCHANGED <<issued, acceptable>>
    BY DEF Abstract!vars
  <2>1. CASE Handle(w)
    <3>1. CASE CheckRefresh(w) \/ BlacklistRotated(w) \/ IssueRotated(w)
      BY <3>1, RefreshImplements DEF Abstract!Next
    <3>2. CASE CheckLogout(w) \/ BlacklistLoggedOut(w)
      BY <3>2, LogoutImplements DEF Abstract!Next
    <3>3. CASE ReadBlacklisted(w) \/ ReadOutstanding(w) \/ RevokeOne(w) \/ EndRevoke(w)
      BY <3>3, RevokeImplements DEF Abstract!Next
    <3>4. QED
      BY <2>1, <3>1, <3>2, <3>3 DEF Handle
  <2>2. CASE Arrive(w)
    BY <2>2, ArriveImplements
  <2>3. ASSUME NEW u \in Users, Login(u) PROVE Abstract!Next
    <3>1. UNCHANGED req
      BY <2>3 DEF Login
    <3>2. QED
      BY <2>3, <3>1, OutsideImplements DEF Abstract!Next
  <2>4. ASSUME NEW t \in issued, Expire(t)
        PROVE Abstract!Next \/ UNCHANGED <<issued, acceptable>>
    <3>1. UNCHANGED req /\ (t \in acceptable \/ ~Abstract!Retire(t))
      BY <2>4 DEF Expire, Abstract!Retire
    <3>2. QED
      BY <2>4, <3>1, OutsideImplements DEF Abstract!Next
  <2>5. CASE UNCHANGED vars
    <3>1. UNCHANGED <<issued, blacklisted, expired, req>>
      BY <2>5 DEF vars
    <3>2. QED
      BY <3>1, LiveAlone DEF Rotating
  <2>6. QED
    BY <2>1, <2>2, <2>3, <2>4, <2>5 DEF Alone, Next
<1>5. QED
  BY <1>1, <1>2, <1>3, <1>4, Invariance, PTL
     DEF Spec, Abstract!Spec, ImplementsTokenServer

=============================================================================
