------------------------------ MODULE Accounts ------------------------------
(***************************************************************************)
(* The account of one user: sign-in attempts with their counter and lock   *)
(* (authenticate of authentication/services.py), password change and reset *)
(* by the user, and what admins do to it (employees/services.py).          *)
(*                                                                         *)
(* Requests overlap.  Each loads the row, judges the copy and saves some   *)
(* columns of it, so that an attempt may write back a counter and a lock   *)
(* that others have changed since it read them.                            *)
(*                                                                         *)
(* A password is named by the hash set_password stored: every password     *)
(* that is set is a new one.  A password of the user's own is current or   *)
(* Wrong.  Answers and the LoginHistory, which nothing reads, are left out.*)
(***************************************************************************)
EXTENDS Integers, FiniteSets, Combinatorics

CONSTANTS Workers,
          MaxFailed,     \* AUTH_MAX_FAILED_ATTEMPTS
          Lockout,       \* AUTH_LOCKOUT_MINUTES
          LinkLife,      \* PASSWORD_RESET_TIMEOUT
          MaxTime,       \* bound of the clock
          MaxPasswords,  \* bound of the number of passwords set
          MaxLinks       \* bound of the number of reset mails

VARIABLES account,       \* the UserAccount row
          suspended,     \* the organization is SUSPENDED
          links,         \* the reset links that were mailed
          now,
          req,           \* what each worker does
          next,          \* the next password to be set
          temporary,     \* the passwords an admin chose
          guesses        \* wrong passwords judged in this period, as long as a lock

vars == <<account, suspended, links, now, req, next, temporary, guesses>>

ASSUME AccountsAssumption ==
    /\ MaxFailed \in Nat \ {0} /\ Lockout \in Nat \ {0} /\ LinkLife \in Nat
    /\ MaxTime \in Nat \ {0} /\ MaxPasswords \in Nat /\ MaxLinks \in Nat

Passwords == 0 .. MaxPasswords
Wrong == -1
Unlocked == 0      \* locked_until = None
Never == 0         \* last_login = None; the clock starts at 1

Account == [password : Passwords, must : BOOLEAN, attempts : Nat, locked : Nat,
            lastLogin : Nat, active : BOOLEAN]

Link == [password : Passwords, lastLogin : Nat, at : Nat]

\* `seen' is the lock a sign-in attempt found when it loaded the row.
Idle == [pc |-> "idle", given |-> Wrong, attempts |-> 0, locked |-> Unlocked,
         at |-> 0, seen |-> Unlocked]
Request == [pc : {"idle", "find", "fail", "succeed", "reset", "change"},
            given : Passwords \cup {Wrong}, attempts : Nat, locked : Nat,
            at : Nat, seen : Nat]

TypeOK ==
    /\ account \in Account
    /\ suspended \in BOOLEAN
    /\ links \subseteq Link
    /\ now \in 1 .. MaxTime
    /\ req \in [Workers -> Request]
    /\ next \in 1 .. MaxPasswords + 1
    /\ temporary \subseteq 0 .. next - 1
    /\ guesses \in Nat
    \* a password is never set twice, and no stored lock is older than the counter
    /\ account.password < next
    /\ account.attempts >= MaxFailed => account.locked # Unlocked

\* create_employee: a temporary password, to be changed at the first sign-in.
Init ==
    /\ account = [password |-> 0, must |-> TRUE, attempts |-> 0, locked |-> Unlocked,
                  lastLogin |-> Never, active |-> TRUE]
    /\ suspended = FALSE
    /\ links = {}
    /\ now = 1
    /\ req = [w \in Workers |-> Idle]
    /\ next = 1
    /\ temporary = {0}
    /\ guesses = 0

Done(w) == req' = [req EXCEPT ![w] = Idle]

-----------------------------------------------------------------------------
(* Signing in. *)

\* The organization is found, and is not suspended.
BeginLogin(w, given) ==
    /\ req[w].pc = "idle"
    /\ ~suspended
    /\ req' = [req EXCEPT ![w] = [Idle EXCEPT !.pc = "find", !.given = given]]
    /\ UNCHANGED <<account, suspended, links, now, next, temporary, guesses>>

Locked(a) == a.locked > now

\* Mutation of Barred: a lock is not looked at.
OnlyInactive(a) == ~a.active

\* No password is judged, be it right or wrong.
Barred(a) == ~a.active \/ Locked(a)

\* Mutation of LockedBy: the lock is set one attempt late.
OneMore(attempts, locked) == IF attempts > MaxFailed THEN now + Lockout ELSE locked

\* locked_until after a wrong password; a lock that has expired stays.
LockedBy(attempts, locked) == IF attempts >= MaxFailed THEN now + Lockout ELSE locked

\* The user is loaded and judged: inactive, locked, wrong or right password.  The
\* copy then holds the columns to be saved.
Find(w) ==
    LET right    == req[w].given = account.password
        attempts == IF right THEN 0 ELSE account.attempts + 1
    IN  /\ req[w].pc = "find"
        /\ IF Barred(account)
           THEN Done(w) /\ UNCHANGED guesses
           ELSE /\ req' = [req EXCEPT
                     ![w] = [pc |-> IF right THEN "succeed" ELSE "fail", given |-> Wrong,
                             attempts |-> attempts,
                             locked |-> IF right THEN Unlocked
                                        ELSE LockedBy(attempts, account.locked),
                             at |-> IF right THEN now ELSE 0, seen |-> account.locked]]
                /\ guesses' = IF right THEN guesses ELSE guesses + 1
        /\ UNCHANGED <<account, suspended, links, now, next, temporary>>

\* A failure saves the counter and the lock ...
SaveFailure(w) ==
    /\ req[w].pc = "fail"
    /\ account' = [account EXCEPT !.attempts = req[w].attempts, !.locked = req[w].locked]
    /\ Done(w)
    /\ UNCHANGED <<suspended, links, now, next, temporary, guesses>>

\* ... and a success last_login too; tokens follow.
SaveSuccess(w) ==
    /\ req[w].pc = "succeed"
    /\ account' = [account EXCEPT !.attempts = req[w].attempts, !.locked = req[w].locked,
                                  !.lastLogin = req[w].at]
    /\ guesses' = 0
    /\ Done(w)
    /\ UNCHANGED <<suspended, links, now, next, temporary>>

-----------------------------------------------------------------------------
(* Passwords. *)

\* Mutation of NewPassword: must_change_password is not among the saved columns.
FlagForgotten(must) == [account EXCEPT !.password = next]

\* A password is set, and must_change_password with it.
NewPassword(must) == [account EXCEPT !.password = next, !.must = must]

SetPassword(row) ==
    /\ next <= MaxPasswords
    /\ next' = next + 1
    /\ account' = row

\* change_password judges the account the request was authenticated with.
BeginChange(w) ==
    /\ req[w].pc = "idle"
    /\ account.active
    /\ req' = [req EXCEPT ![w] = [Idle EXCEPT !.pc = "change"]]
    /\ UNCHANGED <<account, suspended, links, now, next, temporary, guesses>>

SaveChange(w) ==
    /\ req[w].pc = "change"
    /\ SetPassword(NewPassword(FALSE))
    /\ Done(w)
    /\ UNCHANGED <<suspended, links, now, temporary, guesses>>

\* The hash of a reset link covers the password and the last login.
RequestReset ==
    /\ account.active
    /\ Cardinality(links) < MaxLinks
    /\ links' = links \cup {[password |-> account.password,
                             lastLogin |-> account.lastLogin, at |-> now]}
    /\ UNCHANGED <<account, suspended, now, req, next, temporary, guesses>>

LinkValid(l) ==
    /\ l.password = account.password /\ l.lastLogin = account.lastLogin
    /\ now - l.at <= LinkLife

BeginConfirm(w, l) ==
    /\ req[w].pc = "idle"
    /\ LinkValid(l)
    /\ req' = [req EXCEPT ![w] = [Idle EXCEPT !.pc = "reset"]]
    /\ UNCHANGED <<account, suspended, links, now, next, temporary, guesses>>

SaveConfirm(w) ==
    /\ req[w].pc = "reset"
    /\ SetPassword([NewPassword(FALSE) EXCEPT !.attempts = 0, !.locked = Unlocked])
    /\ guesses' = 0
    /\ Done(w)
    /\ UNCHANGED <<suspended, links, now, temporary>>

-----------------------------------------------------------------------------
(* Admins and time. *)

\* reset_employee_password
IssueTemporary ==
    /\ SetPassword([NewPassword(TRUE) EXCEPT !.attempts = 0, !.locked = Unlocked])
    /\ temporary' = temporary \cup {next}
    /\ guesses' = 0
    /\ UNCHANGED <<suspended, links, now, req>>

Terminate ==
    /\ account.active
    /\ account' = [account EXCEPT !.active = FALSE]
    /\ UNCHANGED <<suspended, links, now, req, next, temporary, guesses>>

\* suspend_organization and activate_organization
SetStatus ==
    /\ suspended' = ~suspended
    /\ UNCHANGED <<account, links, now, req, next, temporary, guesses>>

\* Guesses are counted in periods as long as a lock.
Tick ==
    /\ now < MaxTime
    /\ now' = now + 1
    /\ guesses' = IF now' % Lockout = 0 THEN 0 ELSE guesses
    /\ UNCHANGED <<account, suspended, links, req, next, temporary>>

Handle(w) == Find(w) \/ SaveFailure(w) \/ SaveSuccess(w) \/ SaveChange(w) \/ SaveConfirm(w)

Next ==
    \/ \E w \in Workers : \/ \E given \in {account.password, Wrong} : BeginLogin(w, given)
                          \/ BeginChange(w)
                          \/ \E l \in links : BeginConfirm(w, l)
                          \/ Handle(w)
    \/ RequestReset
    \/ IssueTemporary
    \/ Terminate
    \/ SetStatus
    \/ Tick

Spec == Init /\ [][Next]_vars

-----------------------------------------------------------------------------
(* Properties. *)

\* docs/01-SYSTEM-ARCHITECTURE.md:184 locks after MaxFailed consecutive failures.
\* Attempts that overlap write back the counter and the lock they read, and undo
\* the others' failures, but each worker can do so only so often: in a period as
\* long as a lock, without a success, k workers judge at most (MaxFailed + k over
\* k) - 1 wrong passwords, which is MaxFailed if k = 1, and 20 for 5 if k = 2.
GuessesAreBounded ==
    guesses < choose(MaxFailed + Cardinality(Workers), Cardinality(Workers))

\* A lock in force is shortened or lifted only by a password reset, or by a
\* sign-in attempt that loaded the account before the lock was set: no attempt
\* that begins later touches it.
LockOutlastsLaterAttempts ==
    [][Locked(account) /\ account'.locked < account.locked =>
         \/ account'.password # account.password
         \/ \E w \in Workers : req[w].pc \in {"fail", "succeed"} /\ req'[w] = Idle
                             /\ req[w].seen # account.locked]_vars

\* Whoever sets the password last, the user must change it exactly when an
\* admin chose it (docs/01-SYSTEM-ARCHITECTURE.md:189), however a change or a
\* reset by the user overlaps one by an admin.
TemporaryMustChange == account.must <=> account.password \in temporary

=============================================================================
