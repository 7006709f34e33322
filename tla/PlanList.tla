------------------------------ MODULE PlanList ------------------------------
(***************************************************************************)
(* The subscriptions page of the super-admin console                       *)
(* (pages/subscriptions/PlanList.jsx).  Its two halves, the plans and the  *)
(* subscriptions of organizations to them, each have a list and a dialog   *)
(* of their own; all they share is that no subscription can be assigned    *)
(* while no plan is known.  The plan dialog is seeded when it opens; the   *)
(* one that assigns a subscription keeps what was typed in it.             *)
(***************************************************************************)
EXTENDS ConsolePage

(* Plans *)

PlansInit == PageInit({Nothing}, {"plan"}, {}, Nothing)

PlanTable == Unobstructed /\ \E r \in Rows \cup {Create} : OpenDialog("plan", r)

\* No field is required.
SavePlan == SendForm("plan", "savePlan")
PlanDialog == DismissDialog("plan") \/ TypeIn("plan") \/ SavePlan
PlanSaved(c) == SucceedAndClose(c, "plan")

PlansNext ==
    \/ EnterPage \/ LeavePage(Nothing) \/ Fetching
    \/ PlanTable \/ PlanDialog
    \/ \E r \in Rows : Elsewhere(r)
    \/ \E c \in calls : Serve(c, SavedBy(c)) \/ PlanSaved(c) \/ Fail(c)

-----------------------------------------------------------------------------
(* Subscriptions: `extra' tells whether the page knows a plan *)

SubscriptionsInit == PageInit({Nothing}, {"assign"}, {}, FALSE)

PlansArrive ==
    /\ mounted /\ ~extra /\ extra' = TRUE
    /\ UNCHANGED <<mounted, filter, server, cache, dialog, confirm, calls, told>>

AssignButton == Unobstructed /\ extra /\ OpenKept("assign", Create)

\* The Cancel button of a row that is not CANCELLED asks for no confirmation.
SubscriptionTable ==
    /\ Unobstructed
    /\ \E r \in Rows : /\ RowOnScreen(r) /\ StatusShown(r) = "on"
                       /\ Send(NewCall("cancel", r))

AssignSubscription == SubmitForm("assign", "assign")
AssignDialog == DismissKept("assign") \/ TypeIn("assign") \/ AssignSubscription

\* The fields are emptied, and the dialog is closed.
Assigned(c) ==
    /\ c.op = "assign" /\ Succeed(c)
    /\ dialog' = IF c.live THEN [dialog EXCEPT !["assign"].target = Closed,
                                               !["assign"].typed = 0]
                 ELSE dialog
    /\ UNCHANGED <<confirm, extra>>
Cancelled(c) == c.op = "cancel" /\ SucceedQuietly(c)

SubscriptionsNext ==
    \/ EnterPage \/ LeavePage(extra) \/ Fetching \/ PlansArrive
    \/ AssignButton \/ SubscriptionTable \/ AssignDialog
    \/ \E r \in Rows : Elsewhere(r)
    \/ \E c \in calls :
          \/ c.op = "assign" /\ Serve(c, SavedBy(c))
          \/ c.op = "cancel" /\ Serve(c, TurnedTo(c, "off"))
          \/ Assigned(c) \/ Cancelled(c) \/ Fail(c)

-----------------------------------------------------------------------------
\* A plan is saved with what was typed for it; a subscription that was assigned
\* leaves an empty form behind.
PlanForms == FreshForms({"savePlan"})
=============================================================================
