------------------------------ MODULE Sessions ------------------------------
(***************************************************************************)
(* Refresh tokens on the server: backend/apps/authentication/views.py and  *)
(* revoke_all_sessions of services.py, over the OutstandingToken and       *)
(* BlacklistedToken tables of simplejwt.  Several API workers run, no view *)
(* opens a transaction, so each query commits on its own and requests      *)
(* interleave between queries.                                             *)
(***************************************************************************)
EXTENDS Integers, FiniteSets

CONSTANTS Users, Workers,
          MaxTokens,    \* bound of the number of tokens ever issued
          NoToken

VARIABLES issued,       \* the refresh tokens signed so far
          outstanding,  \* the OutstandingToken table
          blacklisted,  \* the BlacklistedToken table
          expired,      \* the tokens past their exp claim
          req           \* what each worker is doing

vars == <<issued, outstanding, blacklisted, expired, req>>

NoParent == -1          \* the parent of a token issued by a login

Token == [jti : Nat, user : Users, parent : Nat \cup {NoParent}]

ASSUME SessionsAssumption == MaxTokens \in Nat /\ NoToken \notin Token

Replies == {"NONE", "REFRESHED", "LOGGED_OUT", "LOGGED_OUT_ALL", "TOKEN_INVALID",
            "TOKEN_REUSE_DETECTED", "SERVER_ERROR"}

Request ==
    [pc : {"idle", "refresh.check", "refresh.blacklist", "refresh.outstand",
           "logout.check", "logout.blacklist",
           "revoke.known", "revoke.list", "revoke.loop"},
     user : Users, token : Token \cup {NoToken},
     known : SUBSET Token,     \* already_blacklisted
     todo : SUBSET Token,      \* what the loop has still to blacklist
     before : SUBSET Token,    \* the tokens issued when the request arrived
     reply : Replies]

TypeOK ==
    /\ outstanding \subseteq issued /\ issued \subseteq Token
    /\ blacklisted \subseteq issued /\ expired \subseteq issued
    /\ req \in [Workers -> Request]

Answered(user, token, before, reply) ==
    [pc |-> "idle", user |-> user, token |-> token, known |-> {}, todo |-> {},
     before |-> before, reply |-> reply]

Init ==
    /\ issued = {} /\ outstanding = {} /\ blacklisted = {} /\ expired = {}
    /\ \E u \in Users : req = [w \in Workers |-> Answered(u, NoToken, {}, "NONE")]

Answer(w, reply) ==
    req' = [req EXCEPT ![w] = Answered(req[w].user, req[w].token, req[w].before, reply)]

Proceed(w, pc, known, todo) ==
    req' = [req EXCEPT ![w] =
              [pc |-> pc, user |-> req[w].user, token |-> req[w].token, known |-> known,
               todo |-> todo, before |-> req[w].before, reply |-> "NONE"]]

Begin(w, pc, user, token) ==
    /\ req[w].pc = "idle"
    /\ req' = [req EXCEPT ![w] =
                 [pc |-> pc, user |-> user, token |-> token, known |-> {}, todo |-> {},
                  before |-> issued, reply |-> "NONE"]]
    /\ UNCHANGED <<issued, outstanding, blacklisted, expired>>

\* A jti is a uuid4, one that no token has: here, the next number.
NewToken(jti, user, parent) == [jti |-> jti, user |-> user, parent |-> parent]
IsNext(jti) ==
    /\ \A s \in issued : s.jti # jti
    /\ \A n \in 0 .. jti - 1 : \E s \in issued : s.jti = n

\* Only as many logins and refreshes are let start as MaxTokens leaves room for.
Room == Cardinality(issued)
          + Cardinality({w \in Workers : req[w].pc \in
                 {"refresh.check", "refresh.blacklist", "refresh.outstand"}}) < MaxTokens

\* Mutation of Outstand: set_jti() alone touches no table.
Forget(t) == UNCHANGED outstanding

Outstand(t) == outstanding' = outstanding \cup {t}

-----------------------------------------------------------------------------
\* _issue_tokens at the end of a successful login.
Login(user) ==
    /\ Room
    /\ \E jti \in 0 .. MaxTokens : LET t == NewToken(jti, user, NoParent) IN
          /\ IsNext(jti)
          /\ issued' = issued \cup {t}
          /\ outstanding' = outstanding \cup {t}
    /\ UNCHANGED <<blacklisted, expired, req>>

\* Mutation of Refused: the blacklist is not looked at.
RefusedIfExpired(t) == t \in expired

Refused(t) == t \in expired \cup blacklisted

BeginRefresh(w, t) ==
    (Room \/ Refused(t)) /\ Begin(w, "refresh.check", t.user, t)

\* An expired token does not decode; a blacklisted one does, and names its user.
CheckRefresh(w) ==
    LET t == req[w].token
    IN  /\ req[w].pc = "refresh.check"
        /\ IF ~Refused(t) THEN Proceed(w, "refresh.blacklist", {}, {})
           ELSE IF t \in expired THEN Answer(w, "TOKEN_INVALID")
           ELSE Proceed(w, "revoke.known", {}, {})
        /\ UNCHANGED <<issued, outstanding, blacklisted, expired>>

\* Mutation of Blacklist: BLACKLIST_AFTER_ROTATION is off.
KeepOld(t) == UNCHANGED blacklisted

\* refresh.blacklist() is a get_or_create: a second one changes nothing.
Blacklist(t) == blacklisted' = blacklisted \cup {t}

\* Mutation of BlacklistRotated: set_jti() comes before blacklist().
BlacklistSuccessor(w) ==
    /\ req[w].pc = "refresh.blacklist"
    /\ \E jti \in 0 .. MaxTokens :
          IsNext(jti) /\ Blacklist(NewToken(jti, req[w].user, req[w].token.jti))
    /\ Proceed(w, "refresh.outstand", {}, {})
    /\ UNCHANGED <<issued, outstanding, expired>>

BlacklistRotated(w) ==
    /\ req[w].pc = "refresh.blacklist"
    /\ Blacklist(req[w].token)
    /\ Proceed(w, "refresh.outstand", {}, {})
    /\ UNCHANGED <<issued, outstanding, expired>>

IssueRotated(w) ==
    /\ req[w].pc = "refresh.outstand"
    /\ \E jti \in 0 .. MaxTokens :
          LET t == NewToken(jti, req[w].user, req[w].token.jti)
          IN  IsNext(jti) /\ issued' = issued \cup {t} /\ Outstand(t)
    /\ Answer(w, "REFRESHED")
    /\ UNCHANGED <<blacklisted, expired>>

BeginLogout(w, t) == Begin(w, "logout.check", t.user, t)

\* A token that is already invalid makes logout a no-op that answers 204 too.
CheckLogout(w) ==
    /\ req[w].pc = "logout.check"
    /\ IF Refused(req[w].token) THEN Answer(w, "LOGGED_OUT")
       ELSE Proceed(w, "logout.blacklist", {}, {})
    /\ UNCHANGED <<issued, outstanding, blacklisted, expired>>

BlacklistLoggedOut(w) ==
    /\ req[w].pc = "logout.blacklist"
    /\ Blacklist(req[w].token)
    /\ Answer(w, "LOGGED_OUT")
    /\ UNCHANGED <<issued, outstanding, expired>>

BeginLogoutAll(w, user) == Begin(w, "revoke.known", user, NoToken)

TokensOf(user, tokens) == {t \in tokens : t.user = user}

ReadBlacklisted(w) ==
    /\ req[w].pc = "revoke.known"
    /\ Proceed(w, "revoke.list", TokensOf(req[w].user, outstanding \cap blacklisted), {})
    /\ UNCHANGED <<issued, outstanding, blacklisted, expired>>

ReadOutstanding(w) ==
    /\ req[w].pc = "revoke.list"
    /\ Proceed(w, "revoke.loop", {}, TokensOf(req[w].user, outstanding) \ req[w].known)
    /\ UNCHANGED <<issued, outstanding, blacklisted, expired>>

RevokeReply(q) == IF q.token = NoToken THEN "LOGGED_OUT_ALL" ELSE "TOKEN_REUSE_DETECTED"

\* Mutation of DuplicateReply: an IntegrityError is swallowed and ends the loop.
SwallowedError(q) == RevokeReply(q)

\* BlacklistedToken.token is one-to-one: a second row raises IntegrityError.
DuplicateReply(q) == "SERVER_ERROR"

RevokeOne(w) ==
    /\ req[w].pc = "revoke.loop"
    /\ \E t \in req[w].todo :
          IF t \in blacklisted
          THEN Answer(w, DuplicateReply(req[w])) /\ UNCHANGED blacklisted
          ELSE /\ blacklisted' = blacklisted \cup {t}
               /\ Proceed(w, "revoke.loop", {}, req[w].todo \ {t})
    /\ UNCHANGED <<issued, outstanding, expired>>

EndRevoke(w) ==
    /\ req[w].pc = "revoke.loop"
    /\ req[w].todo = {}
    /\ Answer(w, RevokeReply(req[w]))
    /\ UNCHANGED <<issued, outstanding, blacklisted, expired>>

Expire(t) ==
    /\ t \notin expired
    /\ expired' = expired \cup {t}
    /\ UNCHANGED <<issued, outstanding, blacklisted, req>>

Arrive(w) ==
    \/ \E t \in issued : BeginRefresh(w, t) \/ BeginLogout(w, t)
    \/ \E u \in Users : BeginLogoutAll(w, u)

Handle(w) ==
    \/ CheckRefresh(w) \/ BlacklistRotated(w) \/ IssueRotated(w)
    \/ CheckLogout(w) \/ BlacklistLoggedOut(w)
    \/ ReadBlacklisted(w) \/ ReadOutstanding(w) \/ RevokeOne(w) \/ EndRevoke(w)

Next ==
    \/ \E u \in Users : Login(u)
    \/ \E w \in Workers : Arrive(w) \/ Handle(w)
    \/ \E t \in issued : Expire(t)

Spec == Init /\ [][Next]_vars

-----------------------------------------------------------------------------
(* Properties. *)

\* views.py:117-122: logout-all can find every token that was ever signed,
\* those of a rotation included, and never finds one already refreshed from.
RotationLeavesItsTrace ==
    /\ issued = outstanding
    /\ \A t \in issued : t.parent # NoParent
                          => \E s \in blacklisted : s.jti = t.parent /\ s.user = t.user

\* When a logout-all or a reuse detection answers, whatever ran meanwhile, no
\* token that existed when the request arrived can be refreshed any more.
RevokedWhenAnswered ==
    [][\A w \in Workers :
          /\ req[w].pc # "idle"
          /\ req'[w].pc = "idle"
          /\ req'[w].reply \in {"LOGGED_OUT_ALL", "TOKEN_REUSE_DETECTED"}
          => TokensOf(req[w].user, req[w].before) \subseteq blacklisted']_vars

\* A token that had already been traded for its successor when a refresh with it
\* arrived is never traded again.
ReplayBuysNothing ==
    [][\A w \in Workers :
          req[w].pc = "refresh.outstand" /\ req'[w].pc = "idle"
          => \A t \in req[w].before : t.parent # req[w].token.jti]_vars

-----------------------------------------------------------------------------
(***************************************************************************)
(* With one worker, requests do not overlap and Sessions implements        *)
(* TokenServer.  A refresh that has passed its check takes effect when it  *)
(* signs the successor, so its token counts as live until then; a          *)
(* revocation takes effect when it lists the tokens to blacklist.          *)
(***************************************************************************)

Rotating(w) == req[w].pc \in {"refresh.blacklist", "refresh.outstand"}

Condemned == UNION {req[w].todo : w \in Workers}

acceptable == (issued \ (blacklisted \cup expired \cup Condemned))
                \cup {req[w].token : w \in {v \in Workers : Rotating(v)}}

Abstract == INSTANCE TokenServer WITH issued <- issued, live <- acceptable

\* The refresh, logout and logout-all endpoints, one request at a time, are
\* atomic operations on the set of live tokens.
ImplementsTokenServer == Abstract!Spec

=============================================================================
