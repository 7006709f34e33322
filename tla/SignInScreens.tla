---------------------------- MODULE SignInScreens ---------------------------
(***************************************************************************)
(* Who may see what in the mobile app: AuthContext.js with the navigators  *)
(* that go by it, LoginScreen, ForceChangePasswordScreen and the password  *)
(* and logout of SettingsScreen, over an account whose password an admin   *)
(* may replace by a temporary one at any time.  The server answers         *)
(* MUST_CHANGE_PASSWORD to all but change-password while it is temporary.  *)
(* Tokens are kept or not: MobileClient tells how.                         *)
(***************************************************************************)
EXTENDS Naturals

CONSTANTS MaxPasswords, MaxLaunches     \* bounds: passwords ever typed or issued, launches

VARIABLES account,                  \* password and must_change_password of the server
          had,                      \* the passwords the account has had
          kept,                   \* there are tokens in SecureStore
          user, mustChangePassword, \* AuthContext
          entry,                    \* the request of the launch, the login or the forced change
          change,                   \* handleChangePassword of SettingsScreen
          leaving,                  \* logout is posted
          passwordSaved,            \* the password that SettingsScreen calls saved, or 0
          seen,                     \* the password the account had when the user was let in
          unknown,                  \* a change was done that those who ask for it do not know of
          next, launches

signInVars == <<account, had, kept, user, mustChangePassword, entry, change, leaving,
                passwordSaved, seen, unknown, next, launches>>

Passwords == 0..MaxPasswords
Request == [step: {"idle", "boot", "login", "change", "me"}, given: Passwords,
            fresh: Passwords, answer: {"none", "ok", "must", "error", "expired"},
            seen: Passwords]

SignInTypeOK ==
    /\ account \in [password: Passwords, must: BOOLEAN] /\ account.password \in had
    /\ had \subseteq Passwords /\ {passwordSaved, seen} \subseteq Passwords
    /\ {kept, user, mustChangePassword, leaving, unknown} \subseteq BOOLEAN
    /\ {entry, change} \subseteq Request
    /\ next \in 1..MaxPasswords + 1 /\ launches \in 0..MaxLaunches

Asked(step, given, fresh) ==
    [step |-> step, given |-> given, fresh |-> fresh, answer |-> "none", seen |-> 0]
NoRequest == Asked("idle", 0, 0)

\* hydrateTokens, and /auth/me if there are tokens.
Booting == IF kept THEN Asked("boot", 0, 0) ELSE NoRequest

\* Password 0 is that of the creation of the account, temporary or not by now.
SignInInit ==
    /\ account \in [password: {0}, must: BOOLEAN] /\ had = {0}
    /\ kept \in BOOLEAN
    /\ user = FALSE /\ mustChangePassword = FALSE /\ entry = Booting
    /\ change = NoRequest /\ leaving = FALSE /\ passwordSaved = 0
    /\ seen = 0 /\ unknown = FALSE /\ next = 1 /\ launches = 0

\* RootNavigator and AuthNavigator
Screen ==
    IF entry.step = "boot" THEN "splash"
    ELSE IF user THEN "tabs"
    ELSE IF mustChangePassword THEN "force" ELSE "login"

account0 == <<account, had, next, launches>>
flags == <<kept, user, mustChangePassword, seen, unknown>>
settings == <<change, leaving, passwordSaved>>

-----------------------------------------------------------------------------
(* The server. *)

\* set_password, and must_change_password with it
SetPassword(password, must) ==
    /\ account' = [password |-> password, must |-> must]
    /\ had' = had \cup {password}

\* reset_employee_password: sessions go on.
IssueTemporary ==
    /\ next <= MaxPasswords /\ next' = next + 1
    /\ SetPassword(next, TRUE)
    /\ UNCHANGED <<flags, entry, settings, launches>>

\* /auth/me behind NotBlockedByPasswordChange
MeAnswer == IF account.must THEN "must" ELSE "ok"

\* The request fails, or is refused, or its refresh does not succeed.
Failures == {"error", "expired"}

ServeMe ==
    /\ entry.step \in {"boot", "me"} /\ entry.answer = "none"
    /\ \E answer \in {MeAnswer} \cup Failures :
          entry' = [entry EXCEPT !.answer = answer, !.seen = account.password]
    /\ UNCHANGED <<account0, flags, settings>>

\* The answer says whether the password must be changed.
ServeLogin ==
    /\ entry.step = "login" /\ entry.answer = "none"
    /\ \E answer \in {"error"} \cup IF entry.given = account.password THEN {MeAnswer} ELSE {} :
          entry' = [entry EXCEPT !.answer = answer, !.seen = account.password]
    /\ UNCHANGED <<account0, flags, settings>>

\* change-password is open to all; its answer may be lost.
Changed(request, answer) ==
    \/ /\ request.given = account.password /\ answer \in {"ok", "error"}
       /\ SetPassword(request.fresh, FALSE)
    \/ answer \in Failures /\ UNCHANGED <<account, had>>

ServeForcedChange ==
    /\ entry.step = "change" /\ entry.answer = "none"
    /\ \E answer \in {"ok"} \cup Failures :
          Changed(entry, answer) /\ entry' = [entry EXCEPT !.answer = answer]
    /\ unknown' = (unknown \/ account' # account)
    /\ UNCHANGED <<next, launches, kept, user, mustChangePassword, seen, settings>>

ServeChange ==
    /\ change.step = "change" /\ change.answer = "none"
    /\ \E answer \in {"ok"} \cup Failures :
          Changed(change, answer) /\ change' = [change EXCEPT !.answer = answer]
    /\ unknown' = (unknown \/ (Screen # "tabs" /\ account' # account))
    /\ UNCHANGED <<next, launches, kept, user, mustChangePassword, seen, entry, leaving,
                   passwordSaved>>

-----------------------------------------------------------------------------
(* AuthContext. *)

\* The app is launched, again if it was killed: what was under way is lost with it.
Launch ==
    /\ launches < MaxLaunches /\ launches' = launches + 1
    /\ user' = FALSE /\ mustChangePassword' = FALSE /\ unknown' = FALSE
    /\ entry' = Booting
    /\ change' = NoRequest /\ leaving' = FALSE /\ passwordSaved' = 0
    /\ UNCHANGED <<account, had, next, kept, seen>>

LetIn(request) == user' = TRUE /\ seen' = request.seen /\ unknown' = FALSE

\* The interceptor, and the callback of setOnAuthExpired: the flag stays.
onAuthExpired == kept' = FALSE /\ user' = FALSE

\* forgetTokens whatever the error, unless the password must be changed.
Boots ==
    /\ entry.step = "boot" /\ entry.answer # "none"
    /\ entry' = NoRequest
    /\ \/ /\ entry.answer = "ok" /\ LetIn(entry)
          /\ UNCHANGED <<kept, mustChangePassword>>
       \/ /\ entry.answer = "must" /\ mustChangePassword' = TRUE
          /\ UNCHANGED <<kept, user, seen, unknown>>
       \/ /\ entry.answer \in Failures /\ onAuthExpired
          /\ UNCHANGED <<mustChangePassword, seen, unknown>>
    /\ UNCHANGED <<account0, settings>>

\* LoginScreen: handleSubmit
login(given) ==
    /\ Screen = "login" /\ entry.step = "idle"
    /\ entry' = Asked("login", given, 0)
    /\ UNCHANGED <<account0, flags, settings>>

\* Mutation of EnteredBy: the user is set along with the flag.
AlwaysIn(request) == LetIn(request) /\ mustChangePassword' = (request.answer = "must")

\* What a login that succeeds sets.
EnteredBy(request) ==
    IF request.answer = "must"
    THEN mustChangePassword' = TRUE /\ UNCHANGED <<user, seen, unknown>>
    ELSE LetIn(request) /\ UNCHANGED mustChangePassword

LoggedIn ==
    /\ entry.step = "login" /\ entry.answer # "none"
    /\ entry' = NoRequest
    /\ IF entry.answer = "error" THEN UNCHANGED <<kept, user, mustChangePassword, seen, unknown>>
       ELSE kept' = TRUE /\ EnteredBy(entry)
    /\ UNCHANGED <<account0, settings>>

\* ForceChangePasswordScreen: handleSubmit
completeForcedPasswordChange(given) ==
    /\ Screen = "force" /\ entry.step = "idle"
    /\ next <= MaxPasswords /\ next' = next + 1
    /\ entry' = Asked("change", given, next)
    /\ UNCHANGED <<account, had, launches, flags, settings>>

\* Any error is shown on the screen, and the user is still to change the password.
ForcedChangeGoesOn ==
    /\ entry.step \in {"change", "me"} /\ entry.answer # "none"
    /\ CASE entry.answer = "ok" /\ entry.step = "change" ->
              entry' = Asked("me", 0, 0) /\ UNCHANGED <<kept, user, mustChangePassword, seen, unknown>>
         [] entry.answer = "ok" /\ entry.step = "me" ->
              /\ entry' = NoRequest /\ LetIn(entry) /\ mustChangePassword' = FALSE
              /\ UNCHANGED kept
         [] entry.answer = "expired" ->
              entry' = NoRequest /\ onAuthExpired /\ UNCHANGED <<mustChangePassword, seen, unknown>>
         [] entry.answer \in {"must", "error"} ->
              entry' = NoRequest /\ UNCHANGED <<kept, user, mustChangePassword, seen, unknown>>
    /\ UNCHANGED <<account0, settings>>

\* A request of any other screen finds that the session is over.
SessionEnds ==
    /\ Screen = "tabs" /\ onAuthExpired
    /\ UNCHANGED <<account0, mustChangePassword, seen, unknown, entry, settings>>

-----------------------------------------------------------------------------
(* SettingsScreen. *)

handleChangePassword(given) ==
    /\ Screen = "tabs" /\ change.step = "idle"
    /\ next <= MaxPasswords /\ next' = next + 1
    /\ change' = Asked("change", given, next) /\ passwordSaved' = 0
    /\ UNCHANGED <<account, had, launches, flags, entry, leaving>>

ChangeEnds ==
    /\ change.answer # "none"
    /\ change' = NoRequest
    /\ passwordSaved' = IF change.answer = "ok" THEN change.fresh ELSE passwordSaved
    /\ IF change.answer = "expired" THEN onAuthExpired ELSE UNCHANGED <<kept, user>>
    /\ UNCHANGED <<account0, mustChangePassword, seen, unknown, entry, leaving>>

logout ==
    /\ Screen = "tabs" /\ ~leaving /\ leaving' = TRUE
    /\ UNCHANGED <<account0, flags, entry, change, passwordSaved>>

\* The `finally' block, whatever came of the request.
LoggedOut ==
    /\ leaving /\ leaving' = FALSE
    /\ kept' = FALSE /\ user' = FALSE /\ mustChangePassword' = FALSE
    /\ UNCHANGED <<account0, seen, unknown, entry, change, passwordSaved>>

LoginScreen == \E given \in 0..next - 1 : login(given)
ForceChangePasswordScreen == \E given \in 0..next - 1 : completeForcedPasswordChange(given)
SettingsScreen == logout \/ \E given \in 0..next - 1 : handleChangePassword(given)

SignInAnswers ==
    \/ ServeMe \/ ServeLogin \/ ServeForcedChange
    \/ Boots \/ LoggedIn \/ ForcedChangeGoesOn
SettingsAnswers == ServeChange \/ ChangeEnds

SignInNext ==
    \/ IssueTemporary \/ Launch \/ SessionEnds \/ LoggedOut
    \/ LoginScreen \/ ForceChangePasswordScreen \/ SettingsScreen
    \/ SignInAnswers \/ SettingsAnswers

-----------------------------------------------------------------------------
\* AuthContext: in whatever order launches, sign-ins, forced changes and temporary
\* passwords come, the tabs are shown to no one whose password is temporary, unless
\* it was issued after the server let the user in; the forced change is asked for
\* only while it is due, or after one the app has not heard of; and a password that
\* Settings calls saved has been the account's.
PasswordsAgree ==
    /\ Screen = "tabs" /\ account.must => account.password # seen
    /\ Screen = "force" => account.must \/ unknown
    /\ passwordSaved \in had

\* The splash screen and the buttons of LoginScreen, ForceChangePasswordScreen and
\* SettingsScreen.
SignInEnds ==
    /\ entry.step # "idle" ~> entry.step = "idle"
    /\ change.step # "idle" ~> change.step = "idle"
    /\ leaving ~> ~leaving
=============================================================================
