----------------------------- MODULE LeaveList ------------------------------
(***************************************************************************)
(* The leave page of the organization console                              *)
(* (pages/leaves/LeaveList.jsx): the requests by status, the dialog that   *)
(* rejects one, the balances of an employee, and the leave types.  In the  *)
(* types section `extra' tells whether the dialog that lists them is open. *)
(***************************************************************************)
EXTENDS ConsolePage

(* Requests: `extra' holds the openings in which a reason was used *)

RequestsInit(filters) == PageInit(filters, {"reject"}, {}, {})

StatusFilters == \E f \in Filters : ChooseFilter(f)

\* Approve and Reject are offered on PENDING rows only.
Approve(r) == Send(NewCall("approve", r))
RequestTable ==
    /\ Unobstructed
    /\ \E r \in Rows : /\ RowOnScreen(r) /\ StatusShown(r) = "on"
                       /\ Approve(r) \/ OpenKept("reject", r)

Reject ==
    /\ dialog["reject"].typed # 0
    /\ SubmitForm("reject", "reject")

\* The reason survives a dismissal.
RejectDialog == DismissKept("reject") \/ TypeIn("reject") \/ Reject

\* Mutation of NoReason: the reason stays after it was used.
ReasonKept(d) == d.typed

\* setReason("")
NoReason(d) == 0

Rejected(c) ==
    /\ c.op = "reject" /\ Succeed(c)
    /\ dialog' = IF c.live THEN [dialog EXCEPT !["reject"].target = Closed,
                                               !["reject"].typed = NoReason(dialog["reject"])]
                 ELSE dialog
    /\ extra' = IF c.live THEN extra \cup {c.typed} ELSE extra
    /\ UNCHANGED confirm
Approved(c) == c.op = "approve" /\ SucceedQuietly(c)

RequestsNext ==
    \/ EnterPage \/ LeavePage({}) \/ Fetching \/ StatusFilters
    \/ RequestTable \/ RejectDialog
    \/ \E r \in Rows : Elsewhere(r)
    \/ \E c \in calls : \/ Serve(c, TurnedTo(c, "off"))
                        \/ Rejected(c) \/ Approved(c) \/ Fail(c)

\* A reason is given once: what the page was told had been used is never sent again,
\* for the same request or another.  One that was typed and dismissed is another
\* matter: it waits in the field for the next request.
ReasonUsedOnce ==
    \A c \in calls : c.op = "reject" /\ c.live => c.typed \notin extra

-----------------------------------------------------------------------------
(* Balances: the filter is the employee whose dialog is open, Nothing for none *)

BalancesInit(filters) == PageInit(filters, {}, {}, Nothing)

\* The query is enabled while an employee is in the dialog.
ShowPage ==
    /\ ~mounted /\ mounted' = TRUE
    /\ UNCHANGED <<filter, server, cache, dialog, confirm, extra, calls, told>>
OpenBalance == filter = Nothing /\ \E f \in Filters : ChooseFilter(f)
CloseBalance ==
    /\ mounted /\ filter # Nothing /\ filter' = Nothing
    /\ UNCHANGED <<mounted, server, cache, dialog, confirm, extra, calls, told>>
BalanceDialog == OpenBalance \/ CloseBalance

BalancesNext ==
    ShowPage \/ LeavePage(Nothing) \/ Fetching \/ BalanceDialog \/ \E r \in Rows : Elsewhere(r)

-----------------------------------------------------------------------------
(* Types: a form dialog in front of the dialog that lists them *)

TypesInit == PageInit({Nothing}, {"type"}, {}, FALSE)

TypesUnchanged == UNCHANGED <<mounted, filter, server, dialog, confirm, calls, told>>

\* The query is enabled while the dialog is open.
OpenTypes ==
    /\ mounted /\ ~extra /\ extra' = TRUE
    /\ cache' = [cache EXCEPT ![Nothing] = Observed(@, Nothing)]
    /\ TypesUnchanged
CloseTypes ==
    /\ mounted /\ extra /\ dialog["type"].target = Closed
    /\ extra' = FALSE /\ UNCHANGED cache /\ TypesUnchanged
TypeList ==
    /\ extra /\ Unobstructed
    /\ \E r \in Rows \cup {Create} : OpenDialog("type", r)

SaveType == SubmitForm("type", "saveType")
TypeFormDialog == DismissDialog("type") \/ TypeIn("type") \/ SaveType
TypeSaved(c) ==
    /\ SucceedUsing(c, mounted /\ extra)
    /\ dialog' = IF c.live THEN ClosedBy("type") ELSE dialog
    /\ UNCHANGED <<confirm, extra>>

TypesNext ==
    \/ ShowPage \/ LeavePage(FALSE) \/ Fetching
    \/ OpenTypes \/ CloseTypes \/ TypeList \/ TypeFormDialog
    \/ \E r \in Rows : Elsewhere(r)
    \/ \E c \in calls : Serve(c, SavedBy(c)) \/ TypeSaved(c) \/ Fail(c)

\* While the types are listed, every type the page was told of is among them.
TypesAreShown == extra => ToldIsShown

\* A leave type is saved with what was typed for it.
TypeForms == FreshForms({"saveType"})
=============================================================================
