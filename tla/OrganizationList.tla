-------------------------- MODULE OrganizationList --------------------------
(***************************************************************************)
(* The organizations page of the super-admin console                       *)
(* (pages/organizations/OrganizationList.jsx): an organization is created, *)
(* edited, suspended once confirmed, and activated again.                  *)
(***************************************************************************)
EXTENDS ConsolePage

OrganizationsInit == PageInit({Nothing}, {"organization"}, {"suspend"}, Nothing)

\* A row offers Activate when it is SUSPENDED, Suspend otherwise.
EditOrganization == Unobstructed /\ \E r \in Rows \cup {Create} : OpenDialog("organization", r)
ActivateOrganization(r) ==
    /\ Unobstructed /\ RowOnScreen(r) /\ StatusShown(r) = "off"
    /\ Send(NewCall("activate", r))
AskSuspend(r) ==
    /\ ~Pending("suspend") /\ StatusShown(r) # "off"
    /\ AskFirst("suspend", r)
OrganizationTable ==
    EditOrganization \/ \E r \in Rows : RowOnScreen(r) /\ (ActivateOrganization(r) \/ AskSuspend(r))

SuspendDialog == Cancel("suspend") \/ Confirmed("suspend", "suspend")

SaveOrganization == SubmitForm("organization", "saveOrganization")
OrganizationDialog ==
    DismissDialog("organization") \/ TypeIn("organization") \/ SaveOrganization

OrganizationSaved(c) == c.op = "saveOrganization" /\ SucceedAndClose(c, "organization")
Suspended(c) == c.op = "suspend" /\ SucceedConfirmed(c, "suspend")
Activated(c) == c.op = "activate" /\ SucceedQuietly(c)

OrganizationsNext ==
    \/ EnterPage \/ LeavePage(Nothing) \/ Fetching
    \/ OrganizationTable \/ SuspendDialog \/ OrganizationDialog
    \/ \E r \in Rows : Elsewhere(r)
    \/ \E c \in calls :
          \/ c.op = "saveOrganization" /\ Serve(c, SavedBy(c))
          \/ c.op = "suspend" /\ Serve(c, TurnedTo(c, "off"))
          \/ c.op = "activate" /\ Serve(c, TurnedTo(c, "on"))
          \/ OrganizationSaved(c) \/ Suspended(c) \/ Activated(c) \/ Fail(c)

\* An organization is saved with what was typed for it.
OrganizationForms == FreshForms({"saveOrganization"})
=============================================================================
