----------------------------- MODULE SeededForm -----------------------------
(***************************************************************************)
(* The settings forms of the two consoles: the attendance rule             *)
(* (AttendanceRuleSection of pages/settings/Settings.jsx) and the platform *)
(* settings (pages/settings/PlatformSettings.jsx of the super-admin        *)
(* console).  The form is seeded from the first data there is, be it a     *)
(* cached copy that is being fetched again, and never again after that.    *)
(*                                                                         *)
(* `extra' is the form: what was last typed in it (0 as seeded), what the  *)
(* last answered save had sent, whether "Saved" is on screen, whether       *)
(* something had been typed between that save and its answer, and whether  *)
(* no working day is left.                                                 *)
(***************************************************************************)
EXTENDS ConsolePage

NoForm == [seeded |-> FALSE, edit |-> 0, sent |-> 0, saved |-> FALSE, late |-> FALSE,
           noDay |-> FALSE]
Form == [seeded: BOOLEAN, edit: 0..MaxOpens, sent: 0..MaxOpens, saved: BOOLEAN,
         late: BOOLEAN, noDay: BOOLEAN]

FormInit == PageInit({Nothing}, {}, {}, NoForm)

FormOnly == UNCHANGED <<mounted, filter, server, cache, dialog, confirm, calls, told>>

\* `if (data && !form) setForm(...)`
Seed ==
    /\ mounted /\ ~extra.seeded /\ Entry.data # NoData
    /\ extra' = [extra EXCEPT !.seeded = TRUE]
    /\ FormOnly

\* Mutation of Unsaved: typing leaves "Saved" on screen.
StillSaved(f) == f

\* setSaved(false)
Unsaved(f) == [f EXCEPT !.saved = FALSE]

\* A field changes.
Type(f) ==
    /\ mounted /\ extra.seeded /\ extra.edit < MaxOpens
    /\ extra' = [f EXCEPT !.edit = @ + 1]
    /\ FormOnly

\* Disabled while saving.  What is sent is remembered with the call.
Save ==
    /\ extra.seeded
    /\ \E r \in Held(Rows) : Send([NewCall("save", r) EXCEPT !.typed = extra.edit])

Saved(c) ==
    /\ Succeed(c)
    /\ extra' = IF c.live THEN [extra EXCEPT !.saved = TRUE, !.sent = c.typed,
                                             !.late = extra.edit # c.typed]
                ELSE extra
    /\ UNCHANGED <<dialog, confirm>>

\* A failed save says so; what it had sent may have been saved.
SaveFailed(c) == Fail(c)

Around ==
    \/ EnterPage \/ LeavePage(NoForm) \/ Fetching \/ Seed
    \/ \E r \in Rows : Elsewhere(r)
    \/ \E c \in calls : Serve(c, SavedBy(c)) \/ Saved(c) \/ SaveFailed(c)

\* A working day is added, or taken away; without any there is nothing to save.
toggleDay == \E none \in BOOLEAN : Type([Unsaved(extra) EXCEPT !.noDay = none])
AttendanceRuleForm == toggleDay \/ Type(Unsaved(extra)) \/ (~extra.noDay /\ Save)
AttendanceRuleSection == Around \/ AttendanceRuleForm

updateField == Type(Unsaved(extra))
PlatformSettings == Around \/ updateField \/ Save

-----------------------------------------------------------------------------
\* "Saved" on screen means that what is in the fields was saved, but for what was
\* typed while the save was under way.
SavedIsTrue == extra.saved /\ ~extra.late => extra.edit = extra.sent
=============================================================================
