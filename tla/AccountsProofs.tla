--------------------------- MODULE AccountsProofs ---------------------------
(***************************************************************************)
(* Proofs about Accounts, for any number of workers, passwords and links,  *)
(* and any limit and length of a lock.  A request that is about to save a  *)
(* counter brings the lock that goes with it and found none in force, and  *)
(* a password that is yet to be set is none that an admin chose.           *)
(***************************************************************************)
EXTENDS Accounts, TLAPS

CopiesKnowTheLock ==
    \A w \in Workers :
        /\ req[w].pc = "fail" /\ req[w].attempts >= MaxFailed => req[w].locked # Unlocked
        /\ req[w].pc = "succeed" => req[w].attempts = 0
        /\ req[w].pc \in {"fail", "succeed"} => req[w].seen <= now

IInv == TypeOK /\ CopiesKnowTheLock /\ TemporaryMustChange

-----------------------------------------------------------------------------

\* A worker without a request is typed.
LEMMA IdleTyped == Idle \in Request
BY AccountsAssumption DEF Idle, Request, Passwords, Wrong, Unlocked

\* A new password is not an admin's, and it is greater than all that were set.
LEMMA NextIsNew ==
    ASSUME TypeOK, next <= MaxPasswords
    PROVE /\ next \in Passwords /\ next \notin temporary
          /\ next + 1 \in 1 .. MaxPasswords + 1
          /\ temporary \subseteq 0 .. next /\ temporary \cup {next} \subseteq 0 .. next
BY AccountsAssumption DEF TypeOK, Passwords

\* The account of a new employee.
LEMMA InitEstablishes == Init => IInv
<1> SUFFICES ASSUME Init PROVE IInv
  OBVIOUS
<1>1. account \in Account
  BY AccountsAssumption DEF Init, Account, Passwords, Unlocked, Never
<1>2. req \in [Workers -> Request]
  BY IdleTyped DEF Init
<1>3. TypeOK
  <2>1. next = 1 /\ now = 1 /\ temporary = {0} /\ guesses = 0 /\ suspended \in BOOLEAN
    BY DEF Init
  <2>2. account.password = 0 /\ account.attempts = 0 /\ links = {}
    BY DEF Init
  <2>3. next \in 1 .. MaxPasswords + 1 /\ now \in 1 .. MaxTime
    BY <2>1, AccountsAssumption
  <2>4. temporary \subseteq 0 .. next - 1
    BY <2>1
  <2>5. QED
    BY <1>1, <1>2, <2>1, <2>2, <2>3, <2>4, AccountsAssumption DEF TypeOK
<1>4. CopiesKnowTheLock
  BY DEF Init, CopiesKnowTheLock, Idle
<1>5. TemporaryMustChange
  BY DEF Init, TemporaryMustChange
<1>6. QED
  BY <1>3, <1>4, <1>5 DEF IInv

\* A worker takes up, goes on with or ends a request.
LEMMA RequestStep ==
    ASSUME IInv, NEW w \in Workers, NEW q \in Request,
           q.pc = "fail" /\ q.attempts >= MaxFailed => q.locked # Unlocked,
           q.pc = "succeed" => q.attempts = 0,
           q.pc \in {"fail", "succeed"} => q.seen <= now,
           now' = now, req' = [req EXCEPT ![w] = q]
    PROVE req' \in [Workers -> Request] /\ CopiesKnowTheLock'
<1>1. req \in [Workers -> Request]
  BY DEF IInv, TypeOK
<1>2. req' \in [Workers -> Request]
  BY <1>1
<1>3. \A v \in Workers : req'[v] = IF v = w THEN q ELSE req[v]
  BY <1>1
<1>4. QED
  BY <1>2, <1>3 DEF IInv, CopiesKnowTheLock

\* A worker ends a request.
LEMMA DoneStep ==
    ASSUME IInv, NEW w \in Workers, Done(w), now' = now
    PROVE req' \in [Workers -> Request] /\ CopiesKnowTheLock'
<1>1. Idle.pc = "idle"
  BY DEF Idle
<1>2. QED
  BY <1>1, IdleTyped, RequestStep DEF Done

\* Nothing happens to the account.
LEMMA ReadingStep ==
    ASSUME IInv, req' \in [Workers -> Request], CopiesKnowTheLock',
           links' \subseteq Link, guesses' \in Nat, suspended' \in BOOLEAN,
           now' \in 1 .. MaxTime, UNCHANGED <<account, next, temporary>>
    PROVE IInv'
<1>1. TypeOK'
  BY DEF IInv, TypeOK
<1>2. TemporaryMustChange'
  BY DEF IInv, TemporaryMustChange
<1>3. QED
  BY <1>1, <1>2 DEF IInv

\* A request begins.
LEMMA BeginStep ==
    ASSUME IInv, NEW w \in Workers, NEW q \in Request, q.pc \in {"find", "change", "reset"},
           req' = [req EXCEPT ![w] = q],
           UNCHANGED <<account, suspended, links, now, next, temporary, guesses>>
    PROVE IInv'
<1>1. req' \in [Workers -> Request] /\ CopiesKnowTheLock'
  BY RequestStep
<1>2. QED
  BY <1>1, ReadingStep DEF IInv, TypeOK

\* The account is loaded and judged.
LEMMA FindStep ==
    ASSUME IInv, NEW w \in Workers, Find(w) PROVE IInv'
<1> DEFINE right    == req[w].given = account.password
           attempts == IF right THEN 0 ELSE account.attempts + 1
           locked   == IF right THEN Unlocked ELSE LockedBy(attempts, account.locked)
           q        == [pc |-> IF right THEN "succeed" ELSE "fail", given |-> Wrong,
                        attempts |-> attempts, locked |-> locked,
                        at |-> IF right THEN now ELSE 0, seen |-> account.locked]
<1>1. account.attempts \in Nat /\ account.locked \in Nat /\ now \in Nat \ {0} /\ guesses \in Nat
  BY DEF IInv, TypeOK, Account
<1>2. /\ attempts \in Nat /\ locked \in Nat
      /\ right => attempts = 0
      /\ attempts >= MaxFailed => locked # Unlocked
  BY <1>1, AccountsAssumption DEF LockedBy, Unlocked
<1>3. guesses' \in Nat
  BY <1>1 DEF Find
<1>4. CASE Barred(account)
  BY <1>3, <1>4, DoneStep, ReadingStep DEF Find, IInv, TypeOK
<1>5. CASE ~Barred(account)
  <2> SUFFICES now' = now /\ account.locked <= now => IInv'
    BY <1>1, <1>5 DEF Barred, Locked, Find
  <2> HAVE now' = now /\ account.locked <= now
  <2>1. req' = [req EXCEPT ![w] = q]
    BY <1>5 DEF Find
  <2>2. /\ q \in Request
        /\ q.pc = "fail" /\ q.attempts >= MaxFailed => q.locked # Unlocked
        /\ q.pc = "succeed" => q.attempts = 0
        /\ q.seen <= now
    <3> HIDE DEF attempts, locked, right
    <3> QED BY <1>1, <1>2, AccountsAssumption DEF Request
  <2> HIDE DEF q
  <2>3. QED
    BY <1>3, <2>1, <2>2, RequestStep, ReadingStep DEF Find, IInv, TypeOK
<1>6. QED
  BY <1>4, <1>5

\* The account is saved with the password it had.
LEMMA SavingStep ==
    ASSUME IInv, req' \in [Workers -> Request], CopiesKnowTheLock',
           account' \in Account, guesses' \in Nat,
           account'.password = account.password, account'.must = account.must,
           account'.attempts >= MaxFailed => account'.locked # Unlocked,
           UNCHANGED <<suspended, links, now, next, temporary>>
    PROVE IInv'
<1>1. TypeOK'
  BY DEF IInv, TypeOK
<1>2. TemporaryMustChange'
  BY DEF IInv, TemporaryMustChange
<1>3. QED
  BY <1>1, <1>2 DEF IInv

\* A sign-in attempt saves its counter and lock.
LEMMA AttemptSaved ==
    ASSUME IInv, NEW w \in Workers, SaveFailure(w) \/ SaveSuccess(w) PROVE IInv'
<1>1. req[w] \in Request /\ account \in Account
  BY DEF IInv, TypeOK
<1>2. req[w].attempts \in Nat /\ req[w].locked \in Nat /\ req[w].at \in Nat
  BY <1>1 DEF Request
<1>3. req[w].attempts >= MaxFailed => req[w].locked # Unlocked
  BY AccountsAssumption DEF IInv, CopiesKnowTheLock, SaveFailure, SaveSuccess
<1>4. /\ account' \in Account
      /\ account'.password = account.password /\ account'.must = account.must
      /\ account'.attempts = req[w].attempts /\ account'.locked = req[w].locked
  <2>1. CASE SaveFailure(w)
    BY <1>1, <1>2, <2>1 DEF SaveFailure, Account
  <2>2. CASE SaveSuccess(w)
    BY <1>1, <1>2, <2>2 DEF SaveSuccess, Account
  <2>3. QED
    BY <2>1, <2>2
<1>5. guesses' \in Nat
  BY DEF SaveFailure, SaveSuccess, IInv, TypeOK
<1>6. QED
  BY <1>3, <1>4, <1>5, DoneStep, SavingStep DEF SaveFailure, SaveSuccess

\* A password is set, by the user or by an admin, with the flag that goes with it.
LEMMA PasswordSet ==
    ASSUME IInv, req' \in [Workers -> Request], CopiesKnowTheLock',
           NEW must \in BOOLEAN, NEW row, SetPassword(row),
           row \in Account, row.password = next, row.must = must,
           row.attempts >= MaxFailed => row.locked # Unlocked,
           temporary' = IF must THEN temporary \cup {next} ELSE temporary,
           guesses' \in Nat, UNCHANGED <<suspended, links, now>>
    PROVE IInv'
<1>1. /\ next \in Passwords /\ next \notin temporary
      /\ next + 1 \in 1 .. MaxPasswords + 1
      /\ temporary \subseteq 0 .. next /\ temporary \cup {next} \subseteq 0 .. next
  BY NextIsNew DEF IInv, SetPassword
<1>2. account' = row /\ next' = next + 1
  BY DEF SetPassword
<1>3. 0 .. next' - 1 = 0 .. next
  BY <1>1, <1>2 DEF Passwords
<1>4. TypeOK'
  BY <1>1, <1>2, <1>3 DEF IInv, TypeOK, Passwords
<1>5. TemporaryMustChange'
  BY <1>1, <1>2 DEF TemporaryMustChange
<1>6. QED
  BY <1>4, <1>5 DEF IInv

\* Rows with a new password, with the counter and the lock as they were or cleared.
LEMMA NewRows ==
    ASSUME IInv, next <= MaxPasswords, NEW must \in BOOLEAN,
           NEW row \in {NewPassword(must),
                        [NewPassword(must) EXCEPT !.attempts = 0, !.locked = Unlocked]}
    PROVE /\ row \in Account /\ row.password = next /\ row.must = must
          /\ row.attempts >= MaxFailed => row.locked # Unlocked
<1>1. /\ account \in Account /\ next \in Passwords
      /\ account.attempts >= MaxFailed => account.locked # Unlocked
  BY NextIsNew DEF IInv, TypeOK
<1>2. /\ NewPassword(must) \in Account
      /\ NewPassword(must).password = next /\ NewPassword(must).must = must
      /\ NewPassword(must).attempts = account.attempts
      /\ NewPassword(must).locked = account.locked
  BY <1>1 DEF NewPassword, Account
<1>3. CASE row = NewPassword(must)
  BY <1>1, <1>2, <1>3
<1>4. CASE row = [NewPassword(must) EXCEPT !.attempts = 0, !.locked = Unlocked]
  <2> DEFINE new == NewPassword(must)
  <2> HIDE DEF new
  <2>1. new \in Account /\ new.password = next /\ new.must = must
    BY <1>2 DEF new
  <2>2. row = [new EXCEPT !.attempts = 0, !.locked = Unlocked]
    BY <1>4 DEF new
  <2>3. row \in Account /\ row.password = next /\ row.must = must /\ row.attempts = 0
    BY <2>1, <2>2 DEF Account, Unlocked
  <2>4. QED
    BY <2>3, AccountsAssumption
<1>5. QED
  BY <1>3, <1>4

\* change_password and confirm_password_reset.
LEMMA UserSetsPassword ==
    ASSUME IInv, NEW w \in Workers, SaveChange(w) \/ SaveConfirm(w) PROVE IInv'
<1>1. guesses' \in Nat /\ temporary' = temporary
  <2>1. CASE SaveChange(w)
    BY <2>1 DEF SaveChange, IInv, TypeOK
  <2>2. CASE SaveConfirm(w)
    BY <2>2 DEF SaveConfirm
  <2>3. QED
    BY <2>1, <2>2
<1>2. PICK row \in {NewPassword(FALSE),
                    [NewPassword(FALSE) EXCEPT !.attempts = 0, !.locked = Unlocked]} :
        SetPassword(row)
  BY DEF SaveChange, SaveConfirm
<1>3. /\ row \in Account /\ row.password = next /\ row.must = FALSE
      /\ row.attempts >= MaxFailed => row.locked # Unlocked
  BY <1>2, NewRows DEF SetPassword
<1>4. QED
  BY <1>1, <1>2, <1>3, DoneStep, PasswordSet DEF SaveChange, SaveConfirm

\* reset_employee_password.
LEMMA AdminSetsPassword ==
    ASSUME IInv, IssueTemporary PROVE IInv'
<1> DEFINE row == [NewPassword(TRUE) EXCEPT !.attempts = 0, !.locked = Unlocked]
<1>1. SetPassword(row) /\ temporary' = temporary \cup {next} /\ guesses' \in Nat
  BY DEF IssueTemporary
<1>2. /\ row \in Account /\ row.password = next /\ row.must = TRUE
      /\ row.attempts >= MaxFailed => row.locked # Unlocked
  BY <1>1, NewRows DEF SetPassword
<1>3. req' \in [Workers -> Request] /\ CopiesKnowTheLock'
  BY DEF IssueTemporary, IInv, TypeOK, CopiesKnowTheLock
<1>4. QED
  <2> HIDE DEF row
  <2> QED BY <1>1, <1>2, <1>3, PasswordSet DEF IssueTemporary

\* Reset links, admins and the clock.
LEMMA OtherStep ==
    ASSUME IInv, RequestReset \/ Terminate \/ SetStatus \/ Tick PROVE IInv'
<1>1. req' \in [Workers -> Request] /\ CopiesKnowTheLock' /\ UNCHANGED <<next, temporary>>
  BY DEF RequestReset, Terminate, SetStatus, Tick, IInv, TypeOK, CopiesKnowTheLock, Request
<1>2. CASE RequestReset
  <2>1. links' \subseteq Link
    BY <1>2 DEF RequestReset, IInv, TypeOK, Account, Link
  <2>2. QED
    BY <1>1, <1>2, <2>1, ReadingStep DEF RequestReset, IInv, TypeOK
<1>3. CASE Terminate
  <2>1. /\ account' \in Account /\ account'.password = account.password
        /\ account'.must = account.must /\ account'.attempts = account.attempts
        /\ account'.locked = account.locked
    BY <1>3 DEF Terminate, IInv, TypeOK, Account
  <2>2. QED
    BY <1>1, <1>3, <2>1, SavingStep DEF Terminate, IInv, TypeOK
<1>4. CASE SetStatus
  BY <1>1, <1>4, ReadingStep DEF SetStatus, IInv, TypeOK
<1>5. CASE Tick
  BY <1>1, <1>5, ReadingStep, AccountsAssumption DEF Tick, IInv, TypeOK
<1>6. QED
  BY <1>2, <1>3, <1>4, <1>5

\* Every step of Accounts keeps the invariant.
LEMMA StepPreserves == IInv /\ [Next]_vars => IInv'
<1> SUFFICES ASSUME IInv, [Next]_vars PROVE IInv'
  OBVIOUS
<1>1. ASSUME NEW w \in Workers, NEW given \in {account.password, Wrong}, BeginLogin(w, given)
      PROVE IInv'
  <2> DEFINE q == [Idle EXCEPT !.pc = "find", !.given = given]
  <2>1. given \in Passwords \cup {Wrong}
    BY DEF IInv, TypeOK, Account
  <2>2. q \in Request /\ q.pc = "find"
    BY <2>1, AccountsAssumption DEF Request, Idle, Passwords, Wrong, Unlocked
  <2>3. req' = [req EXCEPT ![w] = q]
    BY <1>1 DEF BeginLogin
  <2> HIDE DEF q
  <2>4. QED
    BY <1>1, <2>2, <2>3, BeginStep DEF BeginLogin
<1>2. ASSUME NEW w \in Workers, BeginChange(w) \/ \E l \in links : BeginConfirm(w, l)
      PROVE IInv'
  <2>1. PICK pc \in {"change", "reset"} :
          /\ req' = [req EXCEPT ![w] = [Idle EXCEPT !.pc = pc]]
          /\ UNCHANGED <<account, suspended, links, now, next, temporary, guesses>>
    BY <1>2 DEF BeginChange, BeginConfirm
  <2>2. [Idle EXCEPT !.pc = pc] \in Request /\ [Idle EXCEPT !.pc = pc].pc = pc
    BY AccountsAssumption DEF Request, Idle, Passwords, Wrong, Unlocked
  <2>3. QED
    BY <2>1, <2>2, BeginStep
<1>3. ASSUME NEW w \in Workers, Handle(w) PROVE IInv'
  BY <1>3, FindStep, AttemptSaved, UserSetsPassword DEF Handle
<1>4. CASE UNCHANGED vars
  BY <1>4 DEF vars, IInv, TypeOK, CopiesKnowTheLock, TemporaryMustChange
<1>5. QED
  BY <1>1, <1>2, <1>3, <1>4, AdminSetsPassword, OtherStep DEF Next

-----------------------------------------------------------------------------

\* The inductive invariant holds at all times.
THEOREM Invariance == Spec => []IInv
BY InitEstablishes, StepPreserves, PTL DEF Spec

\* Types are kept, and a counter at its limit never stands without a lock.
THEOREM TypeCorrect == Spec => []TypeOK
<1>1. IInv => TypeOK
  BY DEF IInv
<1>2. QED
  BY <1>1, Invariance, PTL

\* No attempt that loads the account while it is locked shortens the lock.
THEOREM LockOutlastsLaterAttemptsHolds == Spec => LockOutlastsLaterAttempts
<1> DEFINE Lasts == Locked(account) /\ account'.locked < account.locked =>
                      \/ account'.password # account.password
                      \/ \E w \in Workers : req[w].pc \in {"fail", "succeed"} /\ req'[w] = Idle
                                          /\ req[w].seen # account.locked
<1>1. IInv /\ [Next]_vars => [Lasts]_vars
  <2> DEFINE Excused(w) == /\ req[w].pc \in {"fail", "succeed"} /\ req'[w] = Idle
                           /\ req[w].seen # account.locked
  <2> SUFFICES ASSUME IInv, Next, Locked(account), account'.locked < account.locked,
                      account'.password = account.password
               PROVE \E w \in Workers : Excused(w)
    OBVIOUS
  <2>1. account' # account /\ account \in Account /\ now \in Nat
    BY DEF IInv, TypeOK, Account
  <2>2. ASSUME NEW must \in BOOLEAN,
               NEW row \in {NewPassword(must),
                            [NewPassword(must) EXCEPT !.attempts = 0, !.locked = Unlocked]},
               SetPassword(row)
        PROVE account'.password = next
    BY <2>2, NewRows DEF SetPassword
  <2>3. account.password # next
    BY DEF IInv, TypeOK, Account, Passwords
  <2>4. ~IssueTemporary /\ \A w \in Workers : ~SaveChange(w) /\ ~SaveConfirm(w)
    BY <2>2, <2>3 DEF IssueTemporary, SaveChange, SaveConfirm
  <2>5. ~Terminate
    BY <2>1 DEF Terminate, Account
  <2>6. PICK w \in Workers : SaveFailure(w) \/ SaveSuccess(w)
    BY <2>1, <2>4, <2>5
       DEF Next, Handle, BeginLogin, BeginChange, BeginConfirm, Find, RequestReset,
           SetStatus, Tick
  <2>7. req[w].pc \in {"fail", "succeed"} /\ Done(w)
    BY <2>6 DEF SaveFailure, SaveSuccess
  <2>8. req'[w] = Idle
    BY <2>7 DEF Done, IInv, TypeOK
  <2>9. req[w].seen <= now /\ req[w].seen \in Nat
    BY <2>7 DEF IInv, CopiesKnowTheLock, TypeOK, Request
  <2>10. req[w].seen # account.locked
    BY <2>1, <2>9 DEF Locked, Account
  <2>11. QED
    BY <2>7, <2>8, <2>10
<1>2. QED
  BY <1>1, Invariance, PTL DEF Spec, LockOutlastsLaterAttempts

\* However changes and resets by user and admin overlap, the user must change the
\* password exactly when an admin chose it.
THEOREM TemporaryMustChangeHolds == Spec => []TemporaryMustChange
<1>1. IInv => TemporaryMustChange
  BY DEF IInv
<1>2. QED
  BY <1>1, Invariance, PTL

=============================================================================
