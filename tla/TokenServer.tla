---------------------------- MODULE TokenServer ----------------------------
(***************************************************************************)
(* What the authentication endpoints promise about refresh tokens, with    *)
(* every request taken as one step (docs/01-SYSTEM-ARCHITECTURE.md §6.1).  *)
(* A token is live from the login or the rotation that issued it until it  *)
(* is rotated, logged out or expired, and a replay or a logout-all ends    *)
(* every live token of the user.                                           *)
(***************************************************************************)
EXTENDS Integers

CONSTANTS Users,
          MaxTokens     \* bound of the number of tokens ever issued

VARIABLES issued,       \* the tokens signed so far
          live          \* those a refresh would still accept

vars == <<issued, live>>

NoParent == -1          \* the parent of a token issued by a login

\* A token knows its user, and the token it was rotated from.
Token == [jti : Nat, user : Users, parent : Nat \cup {NoParent}]

NewToken(jti, user, parent) == [jti |-> jti, user |-> user, parent |-> parent]

\* Tokens are numbered in the order they are signed.
IsNext(jti) ==
    /\ \A s \in issued : s.jti # jti
    /\ \A n \in 0 .. jti - 1 : \E s \in issued : s.jti = n

Init == issued = {} /\ live = {}

Login(user) ==
    \E jti \in 0 .. MaxTokens : LET new == NewToken(jti, user, NoParent) IN
        IsNext(jti) /\ issued' = issued \cup {new} /\ live' = live \cup {new}

\* Refresh with a live token: it is used up, and its successor takes its place.
Rotate(t) ==
    /\ t \in live
    /\ \E jti \in 0 .. MaxTokens : LET new == NewToken(jti, t.user, t.jti) IN
          IsNext(jti) /\ issued' = issued \cup {new} /\ live' = (live \ {t}) \cup {new}

\* Logout, and expiry.
Retire(t) ==
    /\ t \in live
    /\ live' = live \ {t}
    /\ UNCHANGED issued

\* Logout-all, and the answer to the replay of a token that is no longer live.
RetireAll(user) ==
    /\ live' = {t \in live : t.user # user}
    /\ UNCHANGED issued

Next ==
    \/ \E u \in Users : Login(u) \/ RetireAll(u)
    \/ \E t \in live : Rotate(t) \/ Retire(t)

Spec == Init /\ [][Next]_vars

=============================================================================
