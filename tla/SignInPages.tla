---------------------------- MODULE SignInPages -----------------------------
(***************************************************************************)
(* How one gets into and out of the consoles: AuthContext.jsx with the     *)
(* guard that goes by it (ProtectedRoute.jsx), the pages Login,            *)
(* ForgotPassword, ResetPassword and ForceChangePassword, and the logout   *)
(* of the layout, over an account whose password an admin may replace by a *)
(* temporary one at any time.  A page that is left goes on with what it    *)
(* awaits, and navigates when it is answered.  The super admin's console   *)
(* has the same pages but for the two of a forgotten password.             *)
(***************************************************************************)
EXTENDS Naturals

CONSTANTS MaxPasswords      \* bound of the number of passwords ever typed or issued

VARIABLES account,                      \* password and must_change_password of the server
          had,                          \* the passwords the account has had
          links,                        \* the reset links mailed, by the password they are of
          signedIn, mustChangePassword, \* AuthContext
          route,                        \* the URL
          posted,                       \* what each form awaits
          leaving,                      \* logout is posted
          done,                         \* the password that ResetPassword calls set, or 0
          timeout,                      \* its setTimeout runs
          vouched,                      \* what the answer that opened the console was true of
          next

signInVars == <<account, had, links, signedIn, mustChangePassword, route, posted, leaving,
                done, timeout, vouched, next>>

Passwords == 0..MaxPasswords
Forms == {"login", "force", "reset"}
Routes == Forms \cup {"forgot", "console"}
Request == [stage: {"idle", "sent", "ok", "must", "error", "expired"}, given: Passwords,
            fresh: Passwords, of: Passwords, bearer: BOOLEAN]

SignInTypeOK ==
    /\ account \in [password: Passwords, must: BOOLEAN] /\ account.password \in had
    /\ had \cup links \cup {done, vouched} \subseteq Passwords
    /\ {signedIn, mustChangePassword, leaving, timeout} \subseteq BOOLEAN
    /\ route \in Routes /\ posted \in [Forms -> Request]
    /\ next \in 1..MaxPasswords + 1

NoRequest == [stage |-> "idle", given |-> 0, fresh |-> 0, of |-> 0, bearer |-> FALSE]

\* Password 0 is that of the creation of the account, temporary or not by now.
SignInInit ==
    /\ account \in [password: {0}, must: BOOLEAN] /\ had = {0} /\ links = {}
    /\ signedIn = FALSE /\ mustChangePassword = FALSE /\ route = "console"
    /\ posted = [form \in Forms |-> NoRequest]
    /\ leaving = FALSE /\ done = 0 /\ timeout = FALSE /\ vouched = 0 /\ next = 1

\* Mutation of Guarded: nobody looks at the flag.
SignedInOnly == IF route = "console" /\ ~signedIn THEN "login" ELSE route

\* ProtectedRoute: what is shown at a URL of the console.
Guarded ==
    IF route # "console" THEN route
    ELSE IF ~signedIn THEN "login"
    ELSE IF mustChangePassword THEN "force" ELSE "console"

server == <<account, had, links>>
context == <<signedIn, mustChangePassword, vouched>>

-----------------------------------------------------------------------------
(* The server. *)

SetPassword(password, must) ==
    /\ account' = [password |-> password, must |-> must]
    /\ had' = had \cup {password}
    /\ UNCHANGED links

\* reset_employee_password
IssueTemporary ==
    /\ next <= MaxPasswords /\ next' = next + 1
    /\ SetPassword(next, TRUE)
    /\ UNCHANGED <<context, route, posted, leaving, done, timeout>>

Answer(form, stage) ==
    posted' = [posted EXCEPT ![form].stage = stage, ![form].of = account.password]

\* login, change_password and confirm_password_reset; a link is of a password, as the
\* hash it carries covers it.  Without a session a change is refused.
Accepted(form) ==
    /\ posted[form].given = account.password
    /\ form = "force" => posted[form].bearer
    /\ \/ /\ form = "login" /\ UNCHANGED server
          /\ Answer(form, IF account.must THEN "must" ELSE "ok")
       \/ /\ form # "login" /\ SetPassword(posted[form].fresh, FALSE)
          /\ posted' = [posted EXCEPT ![form].stage = "ok", ![form].of = posted[form].fresh]
       \* The answer is lost.
       \/ form # "login" /\ SetPassword(posted[form].fresh, FALSE) /\ Answer(form, "error")

Refused(form) ==
    /\ Answer(form, "error") \/ (form = "force" /\ Answer(form, "expired"))
    /\ UNCHANGED server

Serve(form) ==
    /\ posted[form].stage = "sent"
    /\ Accepted(form) \/ Refused(form)
    /\ UNCHANGED <<context, route, leaving, done, timeout, next>>

-----------------------------------------------------------------------------
(* The pages. *)

\* Links, the buttons of the browser, and `navigate'.
Go(r) ==
    /\ r # route /\ route' = r
    /\ UNCHANGED <<server, context, posted, leaving, done, timeout, next>>

\* handleSubmit of Login: the button is disabled until it is answered.
SubmitLogin(given) ==
    /\ Guarded = "login" /\ posted["login"].stage = "idle"
    /\ posted' = [posted EXCEPT !["login"] = [NoRequest EXCEPT !.stage = "sent", !.given = given]]
    /\ UNCHANGED <<server, context, route, leaving, done, timeout, next>>

\* handleSubmit of ForceChangePassword and of ResetPassword.
SubmitPassword(form, given) ==
    /\ Guarded = form /\ posted[form].stage = "idle"
    /\ next <= MaxPasswords /\ next' = next + 1
    /\ posted' = [posted EXCEPT ![form] =
                    [stage |-> "sent", given |-> given, fresh |-> next, of |-> 0,
                     bearer |-> signedIn]]
    /\ UNCHANGED <<server, context, route, leaving, done, timeout>>

Settle(form) == posted' = [posted EXCEPT ![form] = NoRequest]

\* login of AuthContext, and navigate("/dashboard").
LoggedIn ==
    /\ posted["login"].stage \in {"ok", "must"} /\ Settle("login")
    /\ signedIn' = TRUE /\ mustChangePassword' = (posted["login"].stage = "must")
    /\ vouched' = posted["login"].of
    /\ route' = "console"
    /\ UNCHANGED <<server, leaving, done, timeout, next>>

\* completeForcedPasswordChange, and navigate("/dashboard").
ForcedChangeDone ==
    /\ posted["force"].stage = "ok" /\ Settle("force")
    /\ mustChangePassword' = FALSE /\ vouched' = posted["force"].of
    /\ route' = "console"
    /\ UNCHANGED <<server, signedIn, leaving, done, timeout, next>>

\* ResetPassword: the message, and the timer to the login.
ResetDone ==
    /\ posted["reset"].stage = "ok" /\ Settle("reset")
    /\ done' = posted["reset"].of /\ timeout' = TRUE
    /\ UNCHANGED <<server, context, route, leaving, next>>

\* The timer is not cleared when the page is left.
TimedOut ==
    /\ timeout /\ timeout' = FALSE /\ route' = "login"
    /\ UNCHANGED <<server, context, posted, leaving, done, next>>

\* The callback of setOnAuthExpired: the flag stays.
onAuthExpired == signedIn' = FALSE /\ UNCHANGED <<mustChangePassword, vouched>>

\* The error is shown on the page.
NotDone(form) ==
    /\ posted[form].stage \in {"error", "expired"} /\ Settle(form)
    /\ IF posted[form].stage = "expired" THEN onAuthExpired ELSE UNCHANGED context
    /\ UNCHANGED <<server, route, leaving, done, timeout, next>>

\* A request of any page of the console finds that the session is over.
SessionEnds ==
    /\ signedIn /\ onAuthExpired
    /\ UNCHANGED <<server, route, posted, leaving, done, timeout, next>>

logout ==
    /\ Guarded = "console" /\ ~leaving /\ leaving' = TRUE
    /\ UNCHANGED <<server, context, route, posted, done, timeout, next>>

\* The `finally' block.
LoggedOut ==
    /\ leaving /\ leaving' = FALSE
    /\ signedIn' = FALSE /\ mustChangePassword' = FALSE
    /\ UNCHANGED <<server, vouched, route, posted, done, timeout, next>>

\* ForgotPassword: a link is mailed if the account is found.
requestPasswordReset ==
    /\ Guarded = "forgot" /\ links' = links \cup {account.password}
    /\ UNCHANGED <<account, had, context, route, posted, leaving, done, timeout, next>>

\* A link of a mail loads the application anew, and so does the browser: the tokens
\* are kept in memory only.
Load(r) ==
    /\ r = "reset" => links # {}
    /\ route' = r
    /\ signedIn' = FALSE /\ mustChangePassword' = FALSE
    /\ posted' = [form \in Forms |-> NoRequest]
    /\ leaving' = FALSE /\ done' = 0 /\ timeout' = FALSE
    /\ UNCHANGED <<server, vouched, next>>

Login == \E given \in 0..next - 1 : SubmitLogin(given)
ForceChangePassword == \E given \in 0..next - 1 : SubmitPassword("force", given)
ResetPassword == \E link \in links : SubmitPassword("reset", link)

SignInNext ==
    \/ IssueTemporary \/ \E form \in Forms : Serve(form) \/ NotDone(form)
    \/ \E r \in Routes \ {"reset"} : Go(r)
    \/ \E r \in Routes : Load(r)
    \/ Login \/ LoggedIn \/ ForceChangePassword \/ ForcedChangeDone
    \/ ResetPassword \/ ResetDone \/ TimedOut \/ requestPasswordReset
    \/ SessionEnds \/ logout \/ LoggedOut

-----------------------------------------------------------------------------
\* ProtectedRoute and AuthContext: in whatever order pages are left, forms answered
\* and temporary passwords issued, the console is shown to no one whose password is
\* temporary, unless it was issued after the answer that opened the console was
\* given; and a password that ResetPassword calls set has been the account's.
ConsoleIsEarned ==
    /\ Guarded = "console" /\ account.must => account.password # vouched
    /\ done \in had
=============================================================================
