# Formal models of SWAMS

TLA+ models of SWAMS, the workforce attendance system of this repository: a
Django backend (`backend/`), two React web applications (`frontend-org-admin/`,
`frontend-super-admin/`) and an Expo mobile app (`mobile/`). TLC checks the
models on small instances; the TLA+ proof system proves the most important
properties for every value of the constants.

## 1. The system

The backend is a REST API served by several worker processes over one
PostgreSQL database, plus Celery workers. Two facts shape every model of it:

* **No view opens a transaction.** `ATOMIC_REQUESTS` is not set and no service
  uses `transaction.atomic`, so each query commits on its own, and the queries
  of two requests interleave.
* **Services work on copies.** A view loads a row, the service tests the copy
  and later saves it, all columns or some (`update_fields`). Nothing is locked
  (`select_for_update`) and no save is conditional.

The clients are single-threaded JavaScript programs whose callbacks interleave
at every `await`, over answers that come late, out of order, as refusals or not
at all.

| Part | State | Operations | Talks to |
| --- | --- | --- | --- |
| Attendance (`apps/attendance`) | `Attendance` rows, shifts, thresholds | check-in, check-out, shift and rule edits | branches, employees, security events |
| Branches (`apps/locations`) | `Branch` rows | create, edit, capture location, delete (`SET_NULL` elsewhere) | attendance, employees |
| Authentication (`apps/authentication`) | accounts with failure counters and locks, devices, refresh tokens issued and blacklisted | login, refresh, logout, logout-all, password change and reset | organizations, clients |
| Leave (`apps/leave`) | leave requests and balances | submit, edit, approve, reject, cancel | employees, notifications |
| Employees (`apps/employees`) | employees, departments, accounts | create, edit, terminate, reset password, scope of managers | authentication, attendance, leave |
| Organizations (`apps/organizations`) | organizations and their status | create, edit, suspend, activate | login, subscriptions |
| Subscriptions (`apps/subscriptions`) | plans, subscriptions | assign, cancel, daily expiry task | organizations, notifications |
| Reports (`apps/reports`) | export jobs | request an export, generate it in Celery, aggregations, dashboards | attendance, leave, storage |
| Tenant context (`core/middleware`, `core/db`) | context variables, a PostgreSQL session setting | bind at authentication, unbind at the next request or the end of a task | every tenant-scoped table |
| Notifications (`apps/notifications`) | notification rows | notify, mark read, mark all read | push, mail |
| Web clients (`src/api/client.js`, `AuthContext.jsx`) | both tokens in memory, the pending refresh | calls, silent refresh, login, logout | authentication |
| Web pages (`src/pages`, `src/routes`) | a query cache, forms in dialogs, confirmations, filters | lists, edits, decisions, exports, sign-in | every service |
| Mobile client (`client.js`, `AuthContext.js`, `secureStore.js`) | access token in memory, both in SecureStore, the pending refresh | the same as the web client, and launch | authentication |
| Mobile screens (`src/screens`, `src/navigation`) | what each screen loaded, typed and was answered | check-in and check-out, leave, profile, notifications, sign-in | attendance, leave, employees, storage |

What is hard about each, and what makes it correct:

* **Attendance.** Requests overlap (double taps, retries), admins edit branches,
  shifts and thresholds between check-in and check-out, midnight passes. One row
  per employee and day; a check-out undoes nothing the check-in or an admin
  wrote; it happens where the check-in did; minutes and status agree.
* **Refresh tokens.** Rotation is check-then-act, and so is revocation.
  A token is used once; a revocation that has answered leaves nothing that
  existed before it; no token is out of revocation's reach.
* **Leave.** Two rows change with each decision. A balance is the sum of the
  approved requests, and a death between the two saves is its only other source; a
  decision is final, but for operations that had begun before it.
* **Clients.** A refresh must happen once for any number of expired calls,
  because a replay ends all sessions of the user. Every call ends.
* **Login.** Counting failures on copies; the lock and its expiry; a temporary
  password must be changed before anything else is done, on the server, and on
  whichever screen a late answer leads to.
* **Subscriptions.** A daily task that may be missed, run twice or die halfway.
* **Exports.** A job must not be left `PROCESSING`, nor a page waiting for a job
  that nobody works on. The page polls by an interval that waits for no answer, so
  answers overtake each other.
* **Tenant context.** No request reads with another request's binding.
* **Pages and screens.** What is on screen was read at one moment and is acted on
  at another. A list must not stay behind a write the user was told of, a form
  must not carry what was typed for another row, an answer must not be shown for
  another question, and whatever is busy must come to an end.

## 2. Modules

The server:

| Module | Models | Read it for |
| --- | --- | --- |
| `AttendanceRules` | `domain/rules.py` | lateness, early departure, overtime, status |
| `DayClock` | nothing of the code: a reference definition that counts minutes one by one | what the arithmetic should give |
| `Attendance` | `check_in`, `check_out`, `_validate_location`, `_detect_implausible_travel`, branch deletion and reassignment, shift and rule edits | overlapping requests on one table |
| `TokenServer` | the abstract specification of refresh tokens: a set of live ones | what the endpoints promise |
| `Sessions` | the refresh, logout and logout-all views and `revoke_all_sessions`, query by query, and the refinement mapping to `TokenServer` | the token tables; when requests are atomic |
| `Accounts` | `authenticate`, password change and reset, temporary passwords, termination | the failure counter and the lock under overlap |
| `Leave` | the five services of `apps/leave/services.py` that move a request, and the balances | two saves per decision, deaths of workers |
| `Subscriptions` | `check_subscription_expiries` row by row, assignment and cancellation, suspension and activation | a daily job that overlaps, runs late or dies |
| `ReportExport` | the export views, the Celery task, and the page that polls | a job handed from process to process, and a page that waits for it |
| `TenantContext` | every place that binds or unbinds the tenant | what a process and its connection carry over |

The consoles (`frontend-org-admin`, `frontend-super-admin`):

| Module | Models | Read it for |
| --- | --- | --- |
| `WebClient` | the interceptors and `AuthContext` of both applications, over `TokenServer` | shared refresh |
| `SignInPages` | `AuthContext`, `ProtectedRoute`, the pages of login, forgotten, reset and forced passwords, the layout's logout | answers that navigate |
| `QueryCache` | one entry of TanStack Query's cache (external) | fetches, invalidation, a refetch that joins one under way |
| `ConsolePage` | what all pages share: query keys, dialogs, confirmations, mutations, leaving and entering | the common properties |
| `PlanList`, `OrganizationList` | plans and subscriptions; organizations | the super admin's lists |
| `DepartmentList`, `EmployeeList`, `BranchList`, `LeaveList`, `ShiftSettings` | the organization's lists, each with its dialogs | captured positions, temporary passwords shown once, reasons of rejections, balances |
| `SeededForm` | the attendance rule and the platform settings | a form seeded once |
| `RecordPages` | the pages that only show records: attendance, events, logs, reports, dashboards, notifications | filters faster than answers |
| `ExpiryBadges` | the days left of a subscription (`ExpiryMonitor.jsx`) | UTC and local midnights |

The mobile app:

| Module | Models | Read it for |
| --- | --- | --- |
| `MobileClient` | the interceptors, `AuthContext`, `secureStore.js`, over `TokenServer` | state used across `await`, kills |
| `SignInScreens` | `AuthContext`, the navigators, login, forced change, the password and the logout of the settings | who may see what |
| `CheckInScreen` | the screen with `useLocation` and `geolocation.js` | today's record, fixes that never come |
| `DashboardScreen`, `HistoryScreen` | the screens of those names | four requests at once; pages of a list |
| `LeaveScreens` | `LeaveRequestScreen`, `LeaveHistoryScreen` and their navigator | a stack of screens |
| `ProfileScreen` | the phone number and the picture, with the upload in two requests | two copies of one record |

`AttendanceProofs`, `SessionsProofs`, `AccountsProofs`, `LeaveProofs`,
`SubscriptionsProofs`, `WebClientProofs`, `MobileProofs` and `ConsoleProofs`
hold the theorems, the `MC*` modules the instances for TLC; where an instance needs
no definitions, its configuration is of the module itself.

`Attendance` extends `AttendanceRules`. `Sessions` instantiates `TokenServer`
under a refinement mapping; `WebClient` and `MobileClient` instantiate
`TokenServer` and take its `Login`, `Rotate`, `Retire` and `RetireAll` as the
server's side of their steps. The clients are thus checked against what the
server promises, and `Sessions` shows when it keeps that promise.
`ConsolePage` extends `QueryCache`, and every list page extends `ConsolePage`.
`WebConsole` puts the pages together, and `MobileApp` the screens: these share
nothing but the cache's rules and the session, so a behaviour is that of one of
them, and the variable `page` or `mode` tells of which. The report job, the
minutes of a day, the badges, the sign-in and the tenant context go along with the
pages in `WebConsole`, for the run and for the proofs. `MobileApp`
extends `MobileClient`, whose properties it checks beside those of the screens.

### Attendance

`rows` is the `Attendance` table, `branches`, `branchOf`, `shiftOf` and `rule`
what admins edit, `events` the `SecurityEvent` table, and `req[w]` the local
variables of worker `w`. A request is `Begin` (the view loads the employee and
the service reads the clock), `Find` (the day's row is read), `Judge` (location,
travel, minutes; the row to save is built) and `Save` (INSERT with its unique
constraint and foreign key, or UPDATE of all columns). `Judge` stands for
several reads: the branch, the last location, the rule. `nextId` hands out
primary keys (`uuid4`). Positions are points of a line and `Distance` stands for
the haversine distance; a branch does not move. Everybody shares one clock and
one time zone.

### Refresh tokens

`issued` holds every refresh token ever signed, `outstanding` and `blacklisted`
the two tables of simplejwt, `expired` those past their `exp`. A token knows its
user and the token it was rotated from (ghost information, used by properties).
A refresh is three steps: check, blacklist, register the successor; a logout two;
a revocation reads the blacklisted tokens, then the outstanding ones, and then
inserts one BlacklistedToken per step, in any order. That table has a
one-to-one key, so a row inserted meanwhile by a logout or a rotation ends the
loop with an `IntegrityError`, a 500. simplejwt itself is outside this
repository and modelled by how the views use it: `blacklist()` is a
`get_or_create`, `outstand()` inserts.

### Leave

`requests` is the table; `used` is `used_days` of each balance (a row that does
not exist yet counts as 0). `job[w]` holds the copy the view loaded, the fields
an edit will save and the balance that was read. An approval is four steps: load
and judge, read the balance, save it, save the status; a worker may die between
any two (`Crash`). `cancel_leave_request` has no URL yet: it is modelled as the
service the tests call. Two variables are history: `lost` counts, per balance, what
workers put into it that died before they saved the status, and `serial` says that no
two operations have met on one request, nor two decisions on one balance. Nothing in
the code keeps them from meeting, and the model lets them; `serial` is how a property
says of which behaviours it speaks.

### Clients

`call[c]` is one API call: sent, refused as expired, waiting for a refresh,
answered. `promise` is `refreshPromise`, named by the call that posted the
refresh, and `post[c]` the refresh request. The callbacks of all calls that
await one promise run one after the other before any other callback (they are
microtasks), so `Resume` and `GiveUp` move all of them. In the web client tokens
change in the same step. In the mobile client each read and write of SecureStore
is a step, the two keys are written one after the other (`SaveAccess`,
`SaveRefresh`), and the system may kill the app at any time (`Kill`, `Launch`).
An access token is named by the refresh token it was issued with. In both, the
branch on `TOKEN_REUSE_DETECTED` is left out: only `/auth/refresh` answers it,
and that request does not pass through the interceptor.

### Accounts

`account` is one `UserAccount` row, `req[w]` the copy a request holds between its
load and its save. A sign-in is three steps: the organization's status, the row
with the judgement of lock and password, and the save of counter and lock (of
`last_login` too, if the password was right). A password is named by the order in
which it was set, since `set_password` salts; `links` holds the reset links that
were mailed, which Django's generator binds to the hash and to `last_login`.
`temporary` and `guesses` are history: which passwords an admin chose, and how
many wrong ones were judged since the last success, reset or start of a period as
long as a lock.

### Subscriptions

`terms` is the `Subscription` table, `status` that of organizations, `job[w]` a
sweep or an admin's `_set_status` between its read and its save. A sweep takes
one organization after the other: `Pick` reads its current term and its status,
`Warn`, `ExpireTerm`, `SuspendLapsed` and `LeaveAsIs` go by the copies. A day
does not pass while a sweep waits to be taken, since a sweep goes by the day it
starts on anyway. `sent` records notices, except the one of a suspension.
`swept` holds the organizations that a sweep of today has passed, and that no
admin edited since it read them; `touched` and `prompt` serve the same purpose.
No code sets a subscription or an organization `ACTIVE` but
`activate_organization`, nor an organization `CANCELLED`.

### Tenant context

`org` is the context variable by which the ORM filters, `setting` the
`app.current_org_id` of the process's connection by which PostgreSQL does, and
`doing` says which process this is (a worker of gunicorn or of Celery), where in a
request or a task it stands and for which organization. Each place of the code
that binds or unbinds is an action: the two middlewares, the authentication, the
login, both tasks. `Eager` runs the tasks inside the request. A connection may be
closed and reopened at any time between two requests, which loses `setting` only;
it may also be kept, whatever `CONN_MAX_AGE` says. The model takes a connection to
be one PostgreSQL session: behind a pooler in transaction mode a setting made in
one statement need not reach the next.

### Report exports

`jobs` is the table of jobs with what the storage holds and where each task is;
`export` and `request` are the page's state for one format, `interval` says which
exports are polled, by the page or by one that was left, `timer` is the handle of the
format, and `polls` the polls under way. The task is started, renders, uploads,
signs, and saves its result, may fail at each of these, and its worker may be killed,
after which the job stays as it was: the message was acknowledged early.

The interval (`Fire`) waits for no poll it sent, and answers come in any order
(`Polled`). A poll that ends an interval ends the one of the handle, which may be
another export's: `pollJob` overwrites the handle, leaving the page clears it and
nothing else, and a request that is answered after that starts an interval no one can
clear. Of an interval of a page that was left (`stray`) any answer that ends one may
end any: more than the code can do, and none of it is seen by the page. `export.late`
is history: the answer on screen is one to a poll whose interval was not, or not any
more, that of the handle. A late `PROCESSING` shows Preparing with nothing left to
end it, and the button is then disabled until the page is left.

### Pages of the consoles

`server` is the list a page is about: its version, which every write raises, and
the status of each row. `cache` holds an entry per query key, of which `flight` is
the fetch under way and what the server had when it answered it. `dialog[d]`
records for which row a dialog is open, the `lastKey` its fields were last seeded
for, and in which opening something was last typed; `confirm` the row a
confirmation asks about; `located` in which opening a captured position arrived;
`calls` the mutations under way, with the form they came
from and whether the page that sent them is still mounted, since `onSuccess` of
`useMutation` runs without it and those of `mutate` do not. `told` is the latest
write whose success the page was told of. A page's module says which dialogs,
confirmations and calls it has, when its buttons are enabled, and what else it
keeps (`extra`).

`SignInPages` has the account, the URL, what each form awaits, and the timer of
`ResetPassword`. A page that is left goes on with what it awaits, and navigates
when it is answered.

### Screens of the mobile app

Each module holds what its screen keeps in React state, the requests under way,
and the part of the server the screen is about. Effects that run again for
another language (`t` in the dependencies) are actions of their own, bounded by
`MaxSwitches`. In `CheckInScreen` the `day` of the server's clock passes while the
screen stays; in `LeaveScreens` the navigator's `stack` is kept, since `navigate` puts a new
list on it unless one is on top, whatever lies below, and a load that fails empties its
list and leaves an error on it that no later load takes away; in `ProfileScreen` the employee of
`AuthContext` is separate from what the screen shows.

`SignInScreens` keeps `entry`, the request of the launch, the login or the forced
change, of which there is one at a time, beside `change` and `leaving`, those of the
settings. Tokens are kept or not there; how they are kept is `MobileClient`'s.

## 3. Runs

Passing runs:

| Run | Instance | Shows |
| --- | --- | --- |
| `attendance_concurrent` | 1 employee, 2 workers, 1 branch, 5 instants over 2 days, 1 admin edit | one row per day, rows stay within their day, check-in evidence is frozen, and a written check-out changes only by a request that had read the row before, whatever overlaps |
| `attendance_sequential` | 1 employee, 1 worker, 2 branches, near and far readings, 2 admin edits | a closed day has the status its minutes tell and the branch of its check-in; impossible travel is flagged |
| `sessions_concurrent` | 1 user, 2 workers, 3 tokens | a revocation that answered has revoked what existed; every token can be found; a replay that arrives late gets nothing |
| `sessions_serial` | 2 users, 1 worker, 4 tokens | one request at a time, the endpoints implement `TokenServer`, and so a token has one successor |
| `accounts` | 2 workers, 2 failures lock for 2 of 4 instants, 2 new passwords, 1 link | overlap lets through at most `C(MaxFailed + k, k) - 1` wrong passwords; a lock resists every later attempt; whoever sets the password last, the flag fits it |
| `leave` | 1 employee, 1 type, 2 years of 1 day, 2 requests, 2 workers, 1 death | until two operations meet on one request or one balance, each balance is its approved leave plus exactly what a dead worker left in it; however they meet, a decided request is changed only by a worker that had loaded it before |
| `subscriptions` | 1 organization, 2 workers, 2 terms on 3 days with a grace of 1, 1 admin edit, 1 death | an organization swept undisturbed is settled; a warning is out when due, and once if there is one sweep a day; no suspension before its time; a lapse ends access in the end |
| `web_client` | 1 user, 2 calls, 2 tokens | no replay, one refresh at a time, every call ends |
| `mobile_client` | the client with 1 user, 1 call, 3 tokens, 1 kill, lost answers; then each screen by itself | without a kill no replay, and SecureStore holds the live session; what each screen shows agrees with the server, and the sign-in with the account (`ScreensAgree`); every launch, press, load and submission ends (`NothingSpins`) |
| `console_pages` | each page by itself; with them the sign-in, the export job, the minutes of a day, the expiry badges and the tenant context | see below |

The properties of `console_pages`, each over all the pages it concerns:

* `Fresh`: what a form sends was typed in the opening of the dialog it is sent
  from, and for its row.
* `ToldIsTrue`: a list at rest shows every write the page was told of, a form
  that says Saved shows what the server holds, and the console is shown to nobody
  whose password was temporary when the server let them in.
* `AnswersFilter`: the rows on screen answer the filter on screen.
* `NothingReused`: a new branch is saved with a position, and with none that its form
  had before it was opened; a reason of which the page was told that it had been used
  is not sent again.
* `ExportIsAnswered`: a job that is `PROCESSING` has a worker that builds it,
  unless it was killed; a page that says Preparing has a request or an interval
  that will end it, unless what it shows is a late answer; and a link leads to a stored
  file, whatever overtakes what.
* `CalendarArithmetic`: `rules.py` agrees with counted minutes, and the days that
  are left of a subscription with those of the browser's calendar, at every hour; in
  the zones of twelve hours and more with one more, so that a subscription that lapsed
  yesterday has "0 days left" there.
* `TenantIsolation`: a request, a task or an admin session reads the rows of the
  tenant it is for, whatever its process did before.

Runs that show the code departing from what a document or comment says:

| Run | Statement | What happens |
| --- | --- | --- |
| `attendance_overnight` | the row of an overnight shift is the one of the day it started (`test_rules.py:115`) | the morning's check-out looks for a row of its own date and answers `NOT_CHECKED_IN_YET` |
| `mobile_replay` | one silent refresh (`docs/04-PROJECT-STRUCTURE.md:271`) | a call whose 401 arrives while another refresh is being stored posts the old token again, and all the user's sessions end |

Seen while modelling, without a run of their own. On the server: two overlapping
refreshes with one token both get a live successor, although refresh tokens are for
one-time use (`docs/02-DATABASE-ERD.md:314`); overlapping decisions of one leave
request, or an edit crossing an approval, leave a balance that is not the sum of the
approved leave (`leave/services.py:6` speaks of the one code path that can
double-count), may overwrite a decision, and may leave a request that ends before it
starts; two overlapping check-outs write the check-out of the day twice; a sweep that holds an older copy turns a cancelled subscription back into
an expired one and suspends the organization; a term that starts in the future is
current at once, and its predecessor is neither expired nor suspended any more; the
expiry monitor's view takes another term than the sweep for the current one when
the latest is cancelled; an overlapping repeated check-in gets a 500 and not the 409
of `docs/03-API-SPECIFICATION.md:31`; a mock location with poor accuracy leaves no
security event (`docs/01-SYSTEM-ARCHITECTURE.md:302`); the radius is extended by the
reading's accuracy (`:256` says the distance is at most the radius); a refresh in
flight survives a logout-all; a concurrent logout turns the answer to a replay into
a 500; the refresh view logs no security event (`:182`); `change_password` and
`reset_employee_password` revoke no session; an export whose task could not be
queued stays `PENDING`.

In the clients: a poll of an export that is answered `PROCESSING` after a later one was
answered `COMPLETED`, or after another export was asked for, leaves the button at
Preparing (`Reports.jsx:34` does not wait, and clears whichever interval has the
handle), and intervals that were overwritten go on when the page is left; a position
that arrives late is put into the form that is open by then, of another branch or of
none (`BranchList.jsx:192`); a reason that was typed and dismissed is there when the
next request is rejected (`LeaveList.jsx:188`); in the zones from twelve hours on, a
lapsed subscription is shown with "0 days left" for a day, instead of as expired
(`ExpiryMonitor.jsx:28`); the error of a list of leave requests that could not be
loaded stays when it is loaded again; the web clients log out with the token of the login, which rotation
has replaced, and leave the query cache as it is, so that the next user of the tab may first be
shown the rows of the last one; `ResetPassword`'s timer goes to the login
wherever the user is by then; a late answer to an earlier forced change clears the
flag of a newer sign-in, after which the server still refuses; a launch of the mobile
app whose `/auth/me` fails for whatever reason, being offline included, forgets the
tokens; a forced change whose following `/auth/me` fails says that it failed, although
the password is changed; and when the session expires on that screen, the flag stays
and keeps the user there, without tokens, until the next launch.

### Bounds

* *Attendance:* two overlapping requests are all it takes for any race on one
  row, since each request reads and writes at most one row. Five instants put
  requests on both sides of a midnight, before and after a shift's start and end.
  `MaxEdits` of one or two lets an edit fall between any two steps.
* *Sessions:* three tokens allow a login, a rotation and a second rotation of
  either token, or two logins; two workers allow any two operations to overlap.
  `MaxTokens` ends logins and rotations, nothing else.
* *Leave:* two days and years of one day give requests that span years and ones
  that move between years; two requests can share a balance, or have one each. There
  is one employee because no query relates two, and one type because it and the year
  are only together the key of a balance. Once two operations have met, the instance
  goes on as long as nobody dies (`MetOrCrashed`), since `UsedIsApproved` says nothing
  there and `DecidedOnce` nothing about deaths.
* *API clients:* two calls are needed for one to be late; a third would only join
  or be late in turn. Two tokens are a login and a rotation, or two logins; when
  `MaxTokens` is reached a refresh can only fail. The mobile instance has one call,
  because two overlapping ones replay a token without any fault (`mobile_replay`),
  and three tokens, for a rotation after the one that the kill cuts short.
* *Accounts:* with two workers and a limit of two the bound of five wrong
  passwords is reached. Four instants hold a lock, its end and another lock. Two new
  passwords let a user's change or reset and an admin's temporary password both be
  saved, in either order, each begun before the other.
* *Subscriptions:* two terms are a renewal; the second one's grace period ends on
  the last day, on which the clock stays while sweeps go on. Two workers overlap
  two sweeps, or a sweep and `_set_status`. The single warning is due one day
  before expiry; the three of the code differ in nothing else. There is one
  organization because the sweep's steps for one read nothing of another.
* *Pages:* two rows, one of which exists, tell an edit from one of another row and
  from a creation. Two openings of each dialog (`MaxOpens`) are one that is
  abandoned and one that is sent; `MaxWrites` of 2 or 3 versions let a fetch be
  answered before or after the write it should show; two calls under way
  (`MaxCalls`) may be answered in either order; pages that disable their buttons
  meanwhile have one (`Within`). Two values of the filter suffice, since the
  entries of a third are as far from the others. The bounds of single pages are
  constants too (`TwoCalls`, `Rewritten`, `WithoutDialogs`), which the proofs leave open.
* *Exports:* two exports and two polls at once, of one export or of both: answers
  overtake each other within an interval and between the intervals of an export and of
  the one before it.
* *Days and badges:* a day of 4 minutes of 3 seconds, 24 shifts and every
  threshold; three days by the hour, in seven zones from -12 to +14, with dates of expiry
  among them, before and after.
* *Tenants:* two organizations, for either to be the other.
* *Screens:* two days and four presses for the check-in, any answer of which may be
  lost; two notifications and two loads; three pages of history and one change
  of language; two submissions over at most four screens; two saves and two uploads.
* *Sign-in:* two passwords beside the first one: the temporary one that an admin
  issues and the one that the user types, or two of either; one further launch.
* Symmetry is used between workers, and between requests of `Leave`, never in a
  run with a liveness property.

### Fairness

The clients' liveness properties assume that the JavaScript runtime runs
callbacks and timers that are due, and that every HTTP request ends with an answer
or a network error, as browsers and React Native do. Users never have to act:
they need not press, close a picker, sign in or launch a killed app. Tokens never
have to expire, and the positioning never has to find anything, since
`geolocation.js` has a timer against that. The requests of one screen are fair
apart from each other, for they are answered apart; those of the settings are fair
apart from those of the sign-in.

`Subscriptions` assumes that days go by, that beat queues a sweep each day, and
that each Celery worker takes what is queued and goes on with what it took; one
sweep dies, at any point. If every sweep died, nothing would be promised, nor is
it. The other server models, and the consoles' pages, are safety only: that a page
waits for something that can still happen is an invariant (`ExportIsAnswered`).

Deadlock is checked in every run but `leave`, where the system may come to rest: two
requests, the bound of the table, may both have been rejected. The screens, the days and the badges may come to
rest at their bounds, which a stuttering step of the instance says.

## 4. Proofs

The proof modules follow one pattern: a theorem (`Invariance`; `ConsolesHold` and
`ScreensSound` for the compositions) proves an inductive invariant, with one lemma
per action or group of actions, and the properties follow from it. Each invariant was
checked by TLC on the instance of its run before it was proved.

* **Attendance.** Types alone do not carry `CheckInEvidenceFrozen`: a check-out
  saves a copy read earlier. The invariant adds that ids below `nextId` are the
  ones in use, that an INSERT's row is not in the table, that a held row's
  check-in columns are those of the stored row with its id (apart from a branch
  deletion), that its day is the request's day, and that ids are unique. From it
  follow `OneRowPerDay` (the unique constraint guards the INSERT, the UPDATE keeps
  key and day), `RowWithinItsDay` and `CheckInEvidenceFrozen`. A row about to be
  saved with a check-out has the status of its own minutes and lies within the fence
  of its own branch, whatever the table holds by then, so `ClosedDayIsConsistent`
  needs no assumption about overlap. Nor does `CheckOutOnce`, which follows from the
  same invariant: a double tap on check-out writes the check-out of the day twice, and
  nothing that begins after it does. Travel rests on a read of other rows (the last
  location): `ImplausibleTravelFlagged` is proved for any number of workers under
  `[]OneRequestEach`, that no two requests of one employee overlap; the invariant
  `SerialInv` says that what such a request read still holds when it saves.
* **Sessions.** For `RevokedWhenAnswered` the invariant says of each revocation in
  progress that the tokens that existed at its arrival are blacklisted or still in
  `todo`: before the list is read, that they are outstanding, which holds because
  `issued = outstanding`. For `ReplayBuysNothing` it says that a token with a
  successor is blacklisted, and that a refresh past its check found its token
  without one.
* **Refinement.** A conditional result, since the code lets requests overlap:
  `SerialRequestsAreAtomic` proves that with at most one worker
  (`Alone`) every step of `Sessions` is a step of `TokenServer` or leaves its
  variables unchanged. A rotation takes effect when it registers the successor, a
  revocation when it lists the tokens; until then the mapping counts a token being
  rotated as live, and from then on listed tokens as dead.
* **Accounts.** A stale attempt is dangerous because it writes back a lock. The
  invariant says that an attempt that will save found no lock in force
  (`seen <= now`), so the lock it finds changed when it saves is another one
  (`LockOutlastsLaterAttempts`); that a counter at the limit is saved with its
  lock; and that the next password is none an admin chose, from which
  `TemporaryMustChange` follows.
* **Subscriptions.** A sweep's copy may be wrong about the term's status, but no
  endpoint deletes a term or edits its dates, so a term with the copy's expiry
  stands; and the sweep's day is not after today. `SuspensionIsEarned` needs no
  more, whatever the sweep has missed. `SweptIsSettled` does: as long as no admin
  edits the organization, a sweep's copy is its current term, or that term before
  another sweep saved its expiry (`UpToDate`), so what the later sweep leaves alone
  the earlier one has settled. For `WarnedOnce` the invariant adds that while each day
  has its one sweep, a term whose expiry was announced is none that a sweep has still
  to expire, and that a warning already sent was due before today, or today with the
  sweep past its organization. It assumes that no two warnings are due on the
  same day and that none is named as the notice of expiry is, as in
  `_WARNING_DAYS = (7, 3, 1)`.
* **Leave.** Decisions are made on copies. `DecidedOnce` needs nothing but that: a
  worker that loads a decided request is refused, unless it cancels an approved one
  (`JInv`), so whoever changes it otherwise had loaded it before. The order of dates and
  the balances do not survive two operations that met on one request, or two decisions
  that met on one balance, since both are read, changed and saved; so the invariant
  speaks of the time before, which the history `serial` marks (`OneJobEach`,
  `OneDecisionEach`), for any number of workers on as many requests and balances. `IInv`
  says that until it saves, a worker finds the request as it judged it, and `BInv` that
  a balance is off the sum of its approved leave by the days of the one decision that
  has saved the balance and not yet the status, if there is one, and by exactly what
  workers that died there had put into it (`lost`). `TypeOK` and `UsedIsApproved`
  follow. What a sum does when a request joins it, leaves it or changes is proved
  from the definition of `SumFunctionOnSet`, by a smallest counterexample among the
  subsets of the finite set; that the table is finite is part of the invariant.
* **Tenant context.** What a process is bound to matters only at the stages where
  it reads. The invariant (`Stages`, `Bindings`) says what each stage is bound to,
  and says nothing of an idle worker of gunicorn: it may be bound to anything,
  since the next request binds anew before it reads. A worker of Celery has no
  middleware and must be idle without an organization, because its next task binds
  only one of the two. `Isolated` follows for any set of organizations, with tasks in
  workers of their own or inside the request; `IsolatedAlone` says the same of the
  processes without the consoles.
* **Pages of the consoles.** All pages rest on one invariant of what they share,
  `Core`: an entry of the cache asked for, was answered and holds what its own key
  names (`Keyed`, from which `AnswersFilter` follows); and an answer that was read
  holds every write the page had been told of by then, unless an invalidation joined
  the fetch, and so does an entry at rest (`Told`, from which `ToldIsTrue` follows).
  It is proved once for each step of `QueryCache` and `ConsolePage`, and each page's
  steps are shown to be made of those. On top of it a page keeps what its dialogs need
  (`Kept`): a dialog is seeded for the row it shows, with nothing typed but in this
  opening, and so is each call it sent (`Seeded`: `Fresh`); the position of an open
  branch form came while it was open (`Positions`), and the reasons used are of openings
  that are over (`Reasons`), from which `NothingReused` follows. `Fresh` speaks of the
  dialogs that are seeded: those that assign a subscription and reject a request keep
  what was typed in them. Steps that are of no concern to a page keep its
  part by `Keeping`. What each form sends is proved for any number of rows, filters,
  openings, writes and calls under way.
* **Report exports.** `ExportInv` says of each job that its status fits its worker
  and its stored file (`Sound`), that only exports that were made are polled and that
  the interval of the handle is the page's (`Acquainted`), and that a page which waits
  for an answer that is not late has a handle or a request, and one which links has a
  file (`Waiting`). A job only grows (`Grown`), so an old answer says nothing that is
  not true any more. `ExportIsAnswered` follows for any number of exports and polls,
  in any order of answers.
* **Sign-in of the consoles.** A password that let the user in, or is about to, is not
  the temporary one (`NotTemporary`), and a form that was answered has one the account
  had (`FormSound`). With that, `ToldIsTrue` covers the sign-in.
* **Calendar.** `CalendarArithmetic` compares floor divisions by a number of seconds
  with a count of minutes. Division by a variable is out of the SMT solver's reach: the
  proofs take of a quotient only that `q * d <= n < (q + 1) * d`, turn the counted
  minutes into an interval and cite the cardinality of intervals. The rounding of the
  badge divides by a number, which the solver can do. `CountsTheCalendar` holds
  for days and minutes of any length, any shifts and every zone from -12 to +14.
* **Web client.** `NoReplay` holds for any number of calls and users, with lost
  answers and overlapping logins and logouts. The invariant says that there is one
  refresh at a time and that it was posted with a token nobody had traded
  (`PostsSound`); that the token in memory is unspent, or the answer that replaces
  or clears it has come and is read before anything else (`HeldSound`); and that a
  token a login was answered with is at no other place (`LoginsSound`).
* **Mobile client.** Each await can be overtaken, so types are proved for any overlap
  and any number of kills, and the session as long as calls do not overlap
  (`OneAtATime`) and the app has not been killed: `mobile_replay` shows what a second
  call does, `mobile_client` what a kill does. `Stage` says of each await of
  the one call what memory, SecureStore and the server then hold; at rest all three
  hold one live session, or none. `ReplayOnlyAfterKill` and `StoredSessionIsLive`
  follow, for any number of calls one after the other, users and tokens, whichever
  answers are lost. These two are conditional results: the dashboard sends four
  requests at once.
* **Screens of the mobile app.** `Screens` has an invariant per screen, and a step of
  one leaves the others as they are; only the count of languages is shared. A check-in
  screen shows what was done on the day it is about (`Reached`), and all of today unless
  an answer is on its way or was missed. Until the language changes the history has one
  load at a time, of the first page or of the one after those on screen (`InOrder`).
  A list of the leave tab owes no more than its answers hold, or is empty and shows an
  error (`ScreenSound`). Two
  counts bound the tab: a submission books at most once (`Served`) and opens at most
  one list (`Over`), from which the stack fits `MaxScreens`. A number whose save was
  heard is the server's; a picture is shown once the storage has it. Of the
  sign-in, `FlagsSound` says who may be let in and who is asked for a change:
  the answer of a login or a launch was true of a password that was not temporary,
  and one issued since is another password, because each has its number
  (`HandedOut`). `AppTypeCorrect` and `ScreensAgreeHolds` follow for any number of
  days, presses, notifications, pages, submissions, uploads, passwords and launches.

Assumptions are the named `ASSUME`s of the modules, which TLC evaluates on each
run: bounds are natural numbers, "no value" constants are outside the sets they
extend, branch fences and rules are records of numbers, warnings are due on different
days; the compositions bound their pages and screens by natural numbers, leave room
on the leave tab's stack for a list per submission, and put zones between -12 and
+14. The conditions on overlap are hypotheses of the theorems that need them
(`ImplausibleTravelFlaggedHolds`, and the conditional results named above, which say
less than a reader of the code may want); each is an invariant of the instance whose
run checks the property.

Model-checked only: `GuessesAreBounded`, whose argument counts what each worker can
still undo, and whose bound is a binomial coefficient, defined by recursion: it would
take induction over data. Every other safety property that a run checks is the
statement of a theorem, some under the conditions on overlap given above. Liveness
(`NothingSpins`, that calls end, that a lapse ends access) is out of the prover's
reach: fairness is stated with `ENABLED`. The two runs that end in a violation
are counterexamples and need no proof.

## 5. Not modelled

* Aggregations and dashboards of the server: sums over rows that no step changes
  while they are read, with no order of events to explore. The pages that show
  them are in `RecordPages`.
* Text: messages, notifications, exports' layout, translations, charts.
* CRUD of a single row with no rule attached: leave types, feedback, plans,
  organizations, branch creation and editing. The pages that do it are modelled,
  and a plan's grace period is a constant of the sweep.
* The two saves of an employee's creation (`employees/services.py:127`), which may
  leave an account without an employee: nothing undoes or repeats it, so no
  property would hold.
* External services: mail, push, simplejwt's cryptography; of the storage, what
  `ReportExport` and `ProfileScreen` need. TanStack Query is modelled by how the
  pages use it.
* Devices and `LoginHistory` of `apps/authentication`.
* Permissions and scopes of views: each model acts for users entitled to the
  operation. The exceptions are the tenant (`TenantContext`) and the permission
  that refuses everything but a change of password (`SignInPages`,
  `SignInScreens`).
* The shell of the consoles (menus, layout, language switch, theme), their profile
  dialogs, and the form for recommendations in the mobile settings: forms of one
  save, as those that are modelled.
* Migrations, seeds, settings, deployment and the components under
  `components/ui`.

## 6. Plan

What is left, in the order of what it would tell:

1. `Staffing`: an employee's creation and the deletion of a department query by
   query, with what a retry leaves.
2. `Aggregations`: the counts of a report against a reference definition.
