---------------------------- MODULE EmployeeList ----------------------------
(***************************************************************************)
(* The employees page of the organization console                          *)
(* (pages/employees/EmployeeList.jsx).  `extra' is the employee whose      *)
(* temporary password is on screen, Closed when none is.                   *)
(***************************************************************************)
EXTENDS ConsolePage

EmployeesInit == PageInit({Nothing}, {"employee"}, {"reset", "terminate"}, Closed)

NoPasswordShown == extra = Closed

EditEmployee ==
    Unobstructed /\ NoPasswordShown /\ \E r \in Rows \cup {Create} : OpenDialog("employee", r)
AskReset(r) == ~Pending("reset") /\ AskFirst("reset", r)
AskTerminate(r) ==
    ~Pending("terminate") /\ RowOnScreen(r) /\ StatusShown(r) = "on" /\ AskFirst("terminate", r)
EmployeeTable ==
    EditEmployee \/ (NoPasswordShown /\ \E r \in Rows : AskReset(r) \/ AskTerminate(r))

ResetDialog == Cancel("reset") \/ Confirmed("reset", "reset")
TerminateDialog == Cancel("terminate") \/ Confirmed("terminate", "terminate")

\* The dialog that shows the temporary password is closed for good.
DismissPassword ==
    /\ mounted /\ ~NoPasswordShown /\ extra' = Closed
    /\ UNCHANGED <<mounted, filter, server, cache, dialog, confirm, calls, told>>

SaveEmployee == SubmitForm("employee", "saveEmployee")
EmployeeDialog == DismissDialog("employee") \/ TypeIn("employee") \/ SaveEmployee

EmployeeSaved(c) == c.op = "saveEmployee" /\ SucceedAndClose(c, "employee")
Terminated(c) == c.op = "terminate" /\ SucceedConfirmed(c, "terminate")

\* The list does not change, and is not fetched again.
PasswordReset(c) ==
    /\ c.op = "reset" /\ c.stage = "done"
    /\ calls' = calls \ {c}
    /\ confirm' = IF c.live THEN [confirm EXCEPT !["reset"] = Closed] ELSE confirm
    /\ extra' = IF c.live THEN c.target ELSE extra
    /\ UNCHANGED <<mounted, filter, server, cache, dialog, told>>
ServeReset(c) ==
    /\ c.stage = "sent"
    /\ \E outcome \in {"done", "lost", "refused"} :
          calls' = (calls \ {c}) \cup {[c EXCEPT !.stage = outcome]}
    /\ UNCHANGED <<ui, server, cache, told>>

EmployeesNext ==
    \/ EnterPage \/ LeavePage(Closed) \/ Fetching
    \/ EmployeeTable \/ ResetDialog \/ TerminateDialog \/ DismissPassword \/ EmployeeDialog
    \/ \E r \in Rows : Elsewhere(r)
    \/ \E c \in calls :
          \/ c.op = "saveEmployee" /\ Serve(c, SavedBy(c))
          \/ c.op = "terminate" /\ Serve(c, TurnedTo(c, "off"))
          \/ c.op = "reset" /\ ServeReset(c)
          \/ EmployeeSaved(c) \/ Terminated(c) \/ PasswordReset(c) \/ Fail(c)

\* An employee is saved with what was typed for them.
EmployeeForms == FreshForms({"saveEmployee"})
=============================================================================
