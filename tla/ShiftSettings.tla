---------------------------- MODULE ShiftSettings ---------------------------
(***************************************************************************)
(* The shifts section of the settings page of the organization console     *)
(* (ShiftsSection and ShiftDialog of pages/settings/Settings.jsx).         *)
(***************************************************************************)
EXTENDS ConsolePage

ShiftsInit == PageInit({Nothing}, {"shift"}, {"delete"}, Nothing)

\* Delete is disabled while a deletion is under way.
ShiftTable ==
    \/ Unobstructed /\ \E r \in Rows \cup {Create} : OpenDialog("shift", r)
    \/ ~Pending("delete") /\ \E r \in Rows : AskFirst("delete", r)

DeleteShift == Cancel("delete") \/ Confirmed("delete", "delete")

SaveShift == SubmitForm("shift", "saveShift")
ShiftDialog == DismissDialog("shift") \/ TypeIn("shift") \/ SaveShift

ShiftSaved(c) == c.op = "saveShift" /\ SucceedAndClose(c, "shift")
ShiftDeleted(c) == c.op = "delete" /\ SucceedConfirmed(c, "delete")

ShiftsNext ==
    \/ EnterPage \/ LeavePage(Nothing) \/ Fetching
    \/ ShiftTable \/ DeleteShift \/ ShiftDialog
    \/ \E r \in Rows : Elsewhere(r)
    \/ \E c \in calls :
          \/ c.op = "saveShift" /\ Serve(c, SavedBy(c))
          \/ c.op = "delete" /\ Serve(c, DeletedBy(c))
          \/ ShiftSaved(c) \/ ShiftDeleted(c) \/ Fail(c)

\* A shift is saved with what was typed for it.
ShiftForms == FreshForms({"saveShift"})
=============================================================================
