--------------------------- MODULE DepartmentList ---------------------------
(***************************************************************************)
(* The departments page of the organization console                        *)
(* (pages/departments/DepartmentList.jsx).                                 *)
(***************************************************************************)
EXTENDS ConsolePage

DepartmentsInit == PageInit({Nothing}, {"department"}, {"delete"}, Nothing)

\* Delete is disabled while a deletion is under way.
DepartmentTable ==
    \/ Unobstructed /\ \E r \in Rows \cup {Create} : OpenDialog("department", r)
    \/ ~Pending("delete") /\ \E r \in Rows : AskFirst("delete", r)

DeleteDepartment == Cancel("delete") \/ Confirmed("delete", "delete")

SaveDepartment == SubmitForm("department", "saveDepartment")
DepartmentDialog == DismissDialog("department") \/ TypeIn("department") \/ SaveDepartment

DepartmentSaved(c) == c.op = "saveDepartment" /\ SucceedAndClose(c, "department")
DepartmentDeleted(c) == c.op = "delete" /\ SucceedConfirmed(c, "delete")

DepartmentsNext ==
    \/ EnterPage \/ LeavePage(Nothing) \/ Fetching
    \/ DepartmentTable \/ DeleteDepartment \/ DepartmentDialog
    \/ \E r \in Rows : Elsewhere(r)
    \/ \E c \in calls :
          \/ c.op = "saveDepartment" /\ Serve(c, SavedBy(c))
          \/ c.op = "delete" /\ Serve(c, DeletedBy(c))
          \/ DepartmentSaved(c) \/ DepartmentDeleted(c) \/ Fail(c)

\* A department is saved with what was typed for it.
DepartmentForms == FreshForms({"saveDepartment"})
=============================================================================
