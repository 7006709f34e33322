----------------------------- MODULE WebConsole -----------------------------
(***************************************************************************)
(* The pages of the two consoles.  They share the router and the query     *)
(* cache, whose entries are per list, and otherwise nothing: a behaviour   *)
(* is that of one of them, or of the sign-in, and `page' tells of which.   *)
(* The report job, the minutes that reports add up, the badges of the      *)
(* expiry monitor, and whose rows the backend lets a request see go along. *)
(***************************************************************************)
EXTENDS Integers, PlanList, OrganizationList, DepartmentList, EmployeeList, BranchList,
        ShiftSettings, LeaveList, SeededForm, RecordPages, TenantContext

CONSTANTS Existing, Choices,            \* rows there are at first, values of a filter
          MaxJobs, MaxPolls,            \* see ReportExport
          DayLength, MinuteLength, NoShift, Shifts, Thresholds,    \* see DayClock
          Zones, Expiries, LastHour,    \* see ExpiryBadges
          MaxPasswords,                 \* see SignInPages
          TwoCalls, Rewritten, WithoutDialogs \* bounds of single pages, see Within

VARIABLES page,
          jobs, request, export, interval, timer, polls,
          in, out, shift, threshold,
          clock,
          account, had, links, signedIn, mustChangePassword, route, posted, leaving, done,
          timeout, vouched, next

exportVars == <<jobs, request, export, interval, timer, polls>>
dayVars == <<in, out, shift, threshold>>
signInVars == <<account, had, links, signedIn, mustChangePassword, route, posted, leaving,
                done, timeout, vouched, next>>

Export == INSTANCE ReportExport
Days == INSTANCE DayClock
Badges == INSTANCE ExpiryBadges
SignIn == INSTANCE SignInPages

ASSUME WebConsoleAssumption ==
    /\ Nothing \in Choices
    /\ MaxJobs \in Nat /\ MaxPasswords \in Nat
    /\ DayLength \in Nat \ {0} /\ MinuteLength \in Nat \ {0}
    /\ Shifts \subseteq Days!Shift /\ Thresholds \subseteq Nat
    /\ Zones \subseteq -12..14 /\ Expiries \subseteq Int

Starts ==
    \/ page \in {"plans", "reports", "day", "badges", "tenants", "signIn"} /\ PlansInit
    \/ page = "subscriptions" /\ SubscriptionsInit
    \/ page = "organizations" /\ OrganizationsInit
    \/ page = "departments" /\ DepartmentsInit
    \/ page = "employees" /\ EmployeesInit
    \/ page = "branches" /\ BranchesInit
    \/ page = "shifts" /\ ShiftsInit
    \/ page = "requests" /\ RequestsInit({Nothing})
    \/ page = "filtered" /\ RequestsInit(Choices)
    \/ page = "balances" /\ BalancesInit(Choices)
    \/ page = "types" /\ TypesInit
    \/ page \in {"rule", "platform"} /\ FormInit
    \/ page \in {"records", "notifications"} /\ RecordsInit(Choices)

AtFirst == IF page = "branches" THEN Rows ELSE Existing

Init ==
    /\ Starts /\ server.rows = [r \in Rows |-> IF r \in AtFirst THEN "on" ELSE "none"]
    /\ Export!ExportInit
    /\ IF page = "day" THEN Days!Init
       ELSE in = 0 /\ out = 0 /\ shift = NoShift /\ threshold = 0
    /\ IF page = "badges" THEN Badges!BadgesInit
       ELSE clock = [hour |-> 24, zone |-> 0, expiry |-> 1, swept |-> FALSE]
    /\ IF page = "tenants" THEN TenantInit
       ELSE org = None /\ setting = None /\ doing = [process |-> "web", at |-> "idle", who |-> None]
    /\ SignIn!SignInInit /\ (page = "signIn" \/ ~account.must)

Turns ==
    \/ page = "plans" /\ PlansNext
    \/ page = "subscriptions" /\ SubscriptionsNext
    \/ page = "organizations" /\ OrganizationsNext
    \/ page = "departments" /\ DepartmentsNext
    \/ page = "employees" /\ EmployeesNext
    \/ page = "branches" /\ BranchesNext
    \/ page = "shifts" /\ ShiftsNext
    \/ page \in {"requests", "filtered"} /\ RequestsNext
    \/ page = "balances" /\ BalancesNext
    \/ page = "types" /\ TypesNext
    \/ page = "rule" /\ AttendanceRuleSection
    \/ page = "platform" /\ PlatformSettings
    \/ page = "records" /\ (\/ AttendanceList \/ SecurityEvents \/ AuditLogViewer
                            \/ OrgAdminDashboard \/ SuperAdminDashboard \/ ExpiryMonitor
                            \/ Recommendations \/ MonthlyReport)
    \/ page = "notifications" /\ Notifications

\* Bounds of single pages, within those of all: which may have two calls under way,
\* and a third version of the list, and which are explored without their dialogs.
Within ==
    /\ page \in TwoCalls \/ Cardinality(calls') <= 1
    /\ page \in Rewritten \/ server'.version <= 2
    /\ page \in WithoutDialogs => dialog' = dialog

Next ==
    /\ page' = page
    /\ \/ Turns /\ Within /\ UNCHANGED <<exportVars, dayVars, clock, tenantVars, signInVars>>
       \/ /\ page = "reports" /\ Export!ExportNext
          /\ UNCHANGED <<pageVars, dayVars, clock, tenantVars, signInVars>>
       \/ /\ page = "day" /\ Days!Later
          /\ UNCHANGED <<pageVars, exportVars, clock, tenantVars, signInVars>>
       \/ /\ page = "badges" /\ Badges!BadgesNext
          /\ UNCHANGED <<pageVars, exportVars, dayVars, tenantVars, signInVars>>
       \/ /\ page = "tenants" /\ TenantNext
          /\ UNCHANGED <<pageVars, exportVars, dayVars, clock, signInVars>>
       \/ /\ page = "signIn" /\ SignIn!SignInNext
          /\ UNCHANGED <<pageVars, exportVars, dayVars, clock, tenantVars>>
       \* Time has passed to its bound: no deadlock.
       \/ /\ page \in {"day", "badges"}
          /\ UNCHANGED <<pageVars, exportVars, dayVars, clock, tenantVars, signInVars>>

vars == <<page, pageVars, exportVars, dayVars, clock, tenantVars, signInVars>>

Spec == Init /\ [][Next]_vars

-----------------------------------------------------------------------------
Extras ==
    CASE page = "subscriptions" -> BOOLEAN
      [] page = "employees" -> Rows \cup {Closed}
      [] page \in {"requests", "filtered"} -> SUBSET (1..MaxOpens)
      [] page = "types" -> BOOLEAN
      [] page \in {"rule", "platform"} -> Form
      [] OTHER -> {Nothing}

WithFilter == page \in {"filtered", "balances", "records", "notifications"}

\* The pages, their cache and their calls have their types.
TypeOK ==
    /\ Export!ExportTypeOK /\ SignIn!SignInTypeOK
    /\ PageTypeOK(IF WithFilter THEN Choices ELSE {Nothing}, Extras)

\* The seeding of the form dialogs, `if (dialogKey !== lastKey)': nothing of an
\* abandoned edit, of this row or of another, reaches the server.
Fresh ==
    /\ page = "plans" => PlanForms
    /\ page = "organizations" => OrganizationForms
    /\ page = "departments" => DepartmentForms
    /\ page = "employees" => EmployeeForms
    /\ page = "branches" => BranchForms
    /\ page = "shifts" => ShiftForms
    /\ page = "types" => TypeForms

\* The onSuccess of every mutation: a list at rest holds what the page was told had
\* been written, a form that says "Saved" shows what the server holds, and the sign-in
\* opens the console, or calls a password set, as the server said (see SignInPages).
ToldIsTrue ==
    IF page = "signIn" THEN SignIn!ConsoleIsEarned
    ELSE IF page = "types" THEN TypesAreShown
    ELSE IF page \in {"rule", "platform"} THEN ToldIsShown /\ SavedIsTrue
    ELSE page # "balances" => ToldIsShown

\* setLocation(null) of BranchList.jsx:174 and setReason("") of LeaveList.jsx:194: no
\* form is sent with a position that an earlier one had received, or with a reason
\* that was used, although captures and rejections end after other forms were opened.
NothingReused ==
    /\ page = "branches" => PositionIsNew
    /\ page = "requests" => ReasonUsedOnce

\* reports/tasks.py and Reports.jsx: a Download link leads to a file in storage, however
\* the polls of exports, visits and workers overtake each other, and unless a late
\* answer is on screen the page waits only while something can still answer it.
ExportIsAnswered == Export!LinkLeadsToFile /\ Export!NothingHangs

\* rules.py and ExpiryMonitor.jsx:20: the minutes and the status of a day, and the
\* days a subscription has left, are those counted one by one on the calendar (see
\* DayClock and ExpiryBadges).
CalendarArithmetic ==
    /\ page = "day" => Days!DayIsClassified
    /\ Badges!DaysLeftAreCalendarDays

-----------------------------------------------------------------------------
(* Values for TLC: days of four minutes of three seconds each. *)

SomeShifts == [start : {0, 4, 9}, end : {0, 3, 8, 11}, crosses : BOOLEAN]
SomeZones == {-12, -5, 0, 3, 11, 12, 14}
=============================================================================
