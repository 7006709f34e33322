----------------------------- MODULE RecordPages ----------------------------
(***************************************************************************)
(* The pages of the two consoles that only show records: attendance        *)
(* (pages/attendance/AttendanceList.jsx), security events                  *)
(* (pages/security/SecurityEvents.jsx), the audit log                      *)
(* (pages/audit-logs/AuditLogViewer.jsx) and notifications                 *)
(* (pages/notifications/Notifications.jsx) by filters, and the monthly     *)
(* report by month (pages/reports/Reports.jsx); the dashboards, the expiry *)
(* monitor and the recommendations as a whole.  Notifications are also     *)
(* marked as read, which a row's "off" stands for.                         *)
(***************************************************************************)
EXTENDS ConsolePage

RecordsInit(filters) == PageInit(filters, {}, {}, Nothing)

\* updateFilter merges one field into the filters, which are the query's key.
AttendanceFilters == \E f \in Filters : ChooseFilter(f)
SecurityFilters == \E f \in Filters : ChooseFilter(f)
AuditFilters == \E f \in Filters : ChooseFilter(f)
MonthPicker == \E f \in Filters : ChooseFilter(f)

\* No fetch but that of the page's only query; the page has nothing to press.
Watching == EnterPage \/ LeavePage(Nothing) \/ Fetching \/ \E r \in Rows : Elsewhere(r)

AttendanceList == Watching \/ AttendanceFilters
SecurityEvents == Watching \/ SecurityFilters
AuditLogViewer == Watching \/ AuditFilters
MonthlyReport == Watching \/ MonthPicker
OrgAdminDashboard == Watching
SuperAdminDashboard == Watching
ExpiryMonitor == Watching
Recommendations == Watching

-----------------------------------------------------------------------------
(* Notifications *)

NotificationFilter == \E f \in Filters : ChooseFilter(f)

\* The buttons of all rows are disabled while one is being marked.
MarkRead ==
    /\ Unobstructed
    /\ \E r \in Rows : RowOnScreen(r) /\ StatusShown(r) = "on" /\ Send(NewCall("markRead", r))
MarkAllRead == Unobstructed /\ Send(NewCall("markAll", Closed))
NotificationList == MarkRead

AllRead ==
    [version |-> server.version + 1,
     rows |-> [r \in Rows |-> IF r \in Held(Rows) THEN "off" ELSE "none"]]
Marked(c) == SucceedQuietly(c)

Notifications ==
    \/ Watching \/ NotificationFilter \/ MarkAllRead \/ NotificationList
    \/ \E c \in calls :
          \/ c.op = "markRead" /\ Serve(c, TurnedTo(c, "off"))
          \/ c.op = "markAll" /\ Serve(c, {AllRead})
          \/ Marked(c) \/ Fail(c)
=============================================================================
