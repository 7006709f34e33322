---------------------------- MODULE LeaveScreens ----------------------------
(***************************************************************************)
(* The leave tab of the mobile app: the request form                       *)
(* (screens/leave/LeaveRequestScreen.js) and the list of requests          *)
(* (screens/leave/LeaveHistoryScreen.js).  The tab is a stack of screens   *)
(* that begins with a form, or with the list when the dashboard opens it.  *)
(* `navigate' stays where it is when the screen it names is on top, and    *)
(* otherwise puts a new one there: each instance of the list loads once    *)
(* when it is made, and when the language changes.                         *)
(***************************************************************************)
EXTENDS Naturals, Sequences

CONSTANTS MaxSubmits,    \* bound: submissions
          MaxScreens,    \* bound: screens on the stack, with room for a list per submission
          MaxSwitches    \* bound: changes of language

VARIABLES booked,      \* how many requests the server holds
          stack,       \* the screens, the one on top last
          submission,  \* the submissions that were made, and the place of their forms
          switches

leaveVars == <<booked, stack, submission, switches>>

Booked == 0..MaxSubmits

\* A list, with the answers of its loads that are under way; `rows' is what it
\* shows, NotYet before its first answer, under an error when it shows none, and
\* `owes' what the submission that opened it knew to be booked.  A form, and whether
\* its types are known and its dates chosen.
NotYet == MaxSubmits + 1
List == [kind |-> "list", rows |-> NotYet, error |-> FALSE, asked |-> 1, answers |-> {},
         owes |-> 0, types |-> FALSE, dates |-> FALSE, busy |-> FALSE]
RequestForm == [List EXCEPT !.kind = "form", !.asked = 0]

LeaveScreensTypeOK ==
    /\ booked \in Booked
    /\ \A i \in DOMAIN stack :
          /\ stack[i].kind \in {"list", "form"} /\ stack[i].rows \in 0..NotYet
          /\ stack[i].asked \in 0..(MaxSwitches + 1) /\ stack[i].answers \subseteq Booked
          /\ stack[i].owes \in Booked
          /\ {stack[i].error, stack[i].types, stack[i].dates, stack[i].busy} \subseteq BOOLEAN
    /\ Len(stack) \in 1..MaxScreens
    /\ submission \in Seq([stage: {"sent", "done", "failed", "over"}, of: 0..MaxScreens])
    /\ Len(submission) <= MaxSubmits /\ switches \in 0..MaxSwitches

LeaveScreensInit ==
    /\ booked = 0 /\ stack \in {<<RequestForm>>, <<List>>} /\ submission = <<>> /\ switches = 0

OnTop == Len(stack)
Room == Len(stack) + MaxSubmits < MaxScreens

-----------------------------------------------------------------------------
(* LeaveHistoryScreen *)

\* load: the server answers with the requests there are ...
ServeList(i) ==
    /\ stack[i].asked > 0
    /\ stack' = [stack EXCEPT ![i].asked = @ - 1, ![i].answers = @ \cup {booked}]
    /\ UNCHANGED <<booked, submission, switches>>

\* ... the last answer to arrive is shown ...
ListLoaded(i) ==
    /\ \E rows \in stack[i].answers :
          stack' = [stack EXCEPT ![i].rows = rows, ![i].answers = @ \ {rows}]
    /\ UNCHANGED <<booked, submission, switches>>

\* Mutation of Unlisted: the list is emptied, and nothing is said.
EmptiedQuietly(list) == [list EXCEPT !.asked = @ - 1, !.rows = 0]

\* setError and setRequests([]): no answer clears the error again.
Unlisted(list) == [list EXCEPT !.asked = @ - 1, !.rows = 0, !.error = TRUE]

\* ... and a load that fails empties whatever an earlier one had shown.
ListFailed(i) ==
    /\ stack[i].asked > 0
    /\ stack' = [stack EXCEPT ![i] = Unlisted(@)]
    /\ UNCHANGED <<booked, submission, switches>>

\* Any screen that is on the stack hears of a new language.
SwitchLanguage ==
    /\ switches < MaxSwitches /\ switches' = switches + 1
    /\ stack' = [i \in DOMAIN stack |->
                    IF stack[i].kind = "list" THEN [stack[i] EXCEPT !.asked = @ + 1]
                    ELSE stack[i]]
    /\ UNCHANGED <<booked, submission>>

AddLeave ==
    /\ stack[OnTop].kind = "list" /\ stack[OnTop].rows # NotYet /\ Room
    /\ stack' = Append(stack, RequestForm)
    /\ UNCHANGED <<booked, submission, switches>>

\* navigation.navigate("Leave", { screen: "LeaveHistory" }) of the dashboard.
OpenHistory ==
    /\ stack[OnTop].kind = "form" /\ Room
    /\ stack' = Append(stack, List)
    /\ UNCHANGED <<booked, submission, switches>>

\* The answer to a submission does not care that its form is gone.
GoBack ==
    /\ Len(stack) > 1
    /\ stack' = SubSeq(stack, 1, OnTop - 1)
    /\ submission' = [n \in DOMAIN submission |->
                         IF submission[n].of = OnTop THEN [submission[n] EXCEPT !.of = 0]
                         ELSE submission[n]]
    /\ UNCHANGED <<booked, switches>>

-----------------------------------------------------------------------------
(* LeaveRequestScreen *)

InForm == stack[OnTop].kind = "form"

\* The types are answered.  When that fails, or there are none, the form stays as it
\* is: there is no type to submit.
TypesLoaded(i) ==
    /\ stack[i].kind = "form" /\ ~stack[i].types
    /\ stack' = [stack EXCEPT ![i].types = TRUE]
    /\ UNCHANGED <<booked, submission, switches>>
handleDateChange ==
    /\ InForm /\ stack[OnTop].types /\ ~stack[OnTop].dates
    /\ stack' = [stack EXCEPT ![OnTop].dates = TRUE]
    /\ UNCHANGED <<booked, submission, switches>>

\* Without a type and both dates there is an error instead.
handleSubmit ==
    /\ InForm /\ stack[OnTop].types /\ stack[OnTop].dates /\ ~stack[OnTop].busy
    /\ Len(submission) < MaxSubmits
    /\ submission' = Append(submission, [stage |-> "sent", of |-> OnTop])
    /\ stack' = [stack EXCEPT ![OnTop].busy = TRUE]
    /\ UNCHANGED <<booked, switches>>

\* Booked and answered, booked and the answer lost, or refused.
ServeSubmit(n) ==
    /\ submission[n].stage = "sent"
    /\ \/ /\ booked' = booked + 1
          /\ \E s \in {"done", "failed"} : submission' = [submission EXCEPT ![n].stage = s]
       \/ UNCHANGED booked /\ submission' = [submission EXCEPT ![n].stage = "failed"]
    /\ UNCHANGED <<stack, switches>>

\* The form of submission n gets its button back, unless it is gone.
Settled(n, screens) ==
    IF submission[n].of = 0 THEN screens
    ELSE [screens EXCEPT ![submission[n].of].busy = FALSE]
Emptied(n, screens) ==
    IF submission[n].of = 0 THEN screens
    ELSE [screens EXCEPT ![submission[n].of].dates = FALSE]

Opened == [List EXCEPT !.owes = booked]

\* Mutation of Navigated: a list that lies below is gone back to.
BackToList(screens) ==
    IF \E i \in DOMAIN screens : screens[i].kind = "list"
    THEN LET i == CHOOSE j \in DOMAIN screens : screens[j].kind = "list"
         IN [SubSeq(screens, 1, i) EXCEPT ![i].owes = booked]
    ELSE Append(screens, Opened)

\* navigation.navigate("LeaveHistory"): nothing if a list is on top, and otherwise
\* a new one, whatever lies below.
Navigated(screens) ==
    IF screens[Len(screens)].kind = "list" THEN screens
    ELSE Append(screens, Opened)

\* The fields are emptied, and the list is opened.
Submitted(n) ==
    /\ submission[n].stage = "done"
    /\ stack' = Navigated(Settled(n, Emptied(n, stack)))
    /\ submission' = [submission EXCEPT ![n] = [stage |-> "over", of |-> 0]]
    /\ UNCHANGED <<booked, switches>>

\* The fields stay, for another try: what was booked may be booked again.
NotSubmitted(n) ==
    /\ submission[n].stage = "failed"
    /\ stack' = Settled(n, stack)
    /\ submission' = [submission EXCEPT ![n] = [stage |-> "over", of |-> 0]]
    /\ UNCHANGED <<booked, switches>>

LeaveRequestScreen == handleDateChange \/ handleSubmit
LeaveHistoryScreen == AddLeave \/ OpenHistory \/ GoBack
Submission(n) ==
    n \in DOMAIN submission /\ (ServeSubmit(n) \/ Submitted(n) \/ NotSubmitted(n))
LeaveScreensAnswers ==
    \/ \E n \in 1..MaxSubmits : Submission(n)
    \/ \E i \in DOMAIN stack : TypesLoaded(i) \/ ServeList(i) \/ ListLoaded(i) \/ ListFailed(i)
LeaveScreensNext ==
    SwitchLanguage \/ LeaveRequestScreen \/ LeaveHistoryScreen \/ LeaveScreensAnswers

-----------------------------------------------------------------------------
\* The list that a submission opens has what was submitted, whichever screens were
\* opened and left before the answer came (navigation.navigate in handleSubmit), or
\* it has nothing and says that it could not be loaded.
SubmittedIsListed ==
    \A i \in DOMAIN stack :
        stack[i].kind = "list" /\ stack[i].rows # NotYet =>
            stack[i].rows >= stack[i].owes \/ (stack[i].rows = 0 /\ stack[i].error)

\* A submission ends, and its form can be used again (the finally of handleSubmit).
SubmitEnds ==
    /\ \A n \in 1..MaxSubmits :
          n \in DOMAIN submission ~> n \in DOMAIN submission /\ submission[n].stage = "over"
    /\ \A i \in 1..MaxScreens :
          (i \in DOMAIN stack /\ stack[i].busy) ~> ~(i \in DOMAIN stack /\ stack[i].busy)
=============================================================================
