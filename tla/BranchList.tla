----------------------------- MODULE BranchList -----------------------------
(***************************************************************************)
(* The branches page of the organization console                           *)
(* (pages/branches/BranchList.jsx), and the browser's geolocation          *)
(* (hooks/useBrowserLocation.js).  A capture is awaited: the dialog may be  *)
(* dismissed, or opened for another branch, before the position arrives,   *)
(* which is then put into whatever form is open.                           *)
(***************************************************************************)
EXTENDS ConsolePage

BranchesInit == PageInit({Nothing}, {"branch"}, {"delete"}, Nothing)

BranchTable ==
    \/ Unobstructed /\ \E r \in Rows \cup {Create} : OpenDialog("branch", r)
    \/ ~Pending("delete") /\ \E r \in Rows : AskFirst("delete", r)
DeleteBranch == Cancel("delete") \/ Confirmed("delete", "delete")

\* A new branch needs a name and a position.
SaveBranch ==
    /\ dialog["branch"].target = Create => dialog["branch"].located # 0
    /\ SubmitForm("branch", "saveBranch")
BranchDialog == DismissDialog("branch") \/ TypeIn("branch") \/ SaveBranch

\* handleCapture up to its first await: disabled while locating.
Capture ==
    /\ dialog["branch"].target # Closed
    /\ Send(FormCall("locate", dialog["branch"]))

\* Denied, unavailable, timed out, or not precise enough (over 50 m).
NotLocated(c) ==
    /\ c.op = "locate" /\ calls' = calls \ {c}
    /\ UNCHANGED <<ui, server, cache, told>>

\* setLocation: the position arrives in the opening that is last by now, and stays on
\* a closed dialog until it is shown again.
Located == [dialog EXCEPT !["branch"].located = dialog["branch"].session]

\* When a branch was edited, the position is sent at once, for the branch that
\* handleCapture closed over.
Position(c) ==
    /\ c.op = "locate"
    /\ dialog' = IF c.live THEN Located ELSE dialog
    /\ calls' = (calls \ {c}) \cup
                  {[c EXCEPT !.op = "relocate"] : r \in Rows \cap {c.target}}
    /\ UNCHANGED <<mounted, filter, server, cache, confirm, extra, told>>

\* captureBranchLocation was answered: nothing is fetched again.
Relocated(c) ==
    /\ c.op = "relocate" /\ c.stage # "sent" /\ calls' = calls \ {c}
    /\ UNCHANGED <<ui, server, cache, told>>

BranchSaved(c) == c.op = "saveBranch" /\ SucceedAndClose(c, "branch")
BranchDeleted(c) == c.op = "delete" /\ SucceedConfirmed(c, "delete")

BranchesNext ==
    \/ EnterPage \/ LeavePage(Nothing) \/ Fetching
    \/ BranchTable \/ DeleteBranch \/ BranchDialog \/ Capture
    \/ \E r \in Rows : Elsewhere(r)
    \/ \E c \in calls :
          \/ c.op \in {"saveBranch", "relocate"} /\ Serve(c, SavedBy(c))
          \/ c.op = "delete" /\ Serve(c, DeletedBy(c))
          \/ NotLocated(c) \/ Position(c) \/ Relocated(c)
          \/ BranchSaved(c) \/ BranchDeleted(c) \/ (c.op # "relocate" /\ Fail(c))

-----------------------------------------------------------------------------
\* A branch is saved with what was typed for it.
BranchForms == FreshForms({"saveBranch"})

\* A new branch is saved with a position, and with none that was already there when
\* its form was opened: what arrived over an earlier form, or over none, is not used.
PositionIsNew ==
    \A c \in calls : c.op = "saveBranch" =>
        /\ c.located \in {0, c.session}
        /\ c.target = Create => c.located # 0
=============================================================================
