--------------------------- MODULE DashboardScreen --------------------------
(***************************************************************************)
(* The dashboard of the mobile app (screens/dashboard/DashboardScreen.js): *)
(* four requests are awaited together, and a notification that is pressed  *)
(* is shown as read before the server knows.  The count of unread          *)
(* notifications and their list are answered apart, each as of its own     *)
(* moment.                                                                 *)
(***************************************************************************)
EXTENDS Integers, FiniteSets

CONSTANTS Notes,       \* notifications
          MaxLoads     \* bound: loads of the screen

VARIABLES there,       \* the notifications that exist
          unread,      \* those that the server holds as unread
          shown,       \* the ones listed on screen, those listed as unread, the count
          load,        \* what the load under way has got so far
          loaded,      \* how many loads there were
          refreshing,  \* isRefreshing
          marks        \* POSTs of handleMarkRead under way

dashboardVars == <<there, unread, shown, load, loaded, refreshing, marks>>

\* today and leave stand for an answer or for its fallback, which look the same here.
Requests == {"today", "count", "list", "leave"}
NoLoad == [asked |-> FALSE, open |-> {}, count |-> 0, listed |-> {}, unread |-> {}]
AllAsked == [NoLoad EXCEPT !.asked = TRUE, !.open = Requests]

DashboardTypeOK ==
    /\ there \subseteq Notes /\ unread \subseteq there
    /\ shown \in [ready: BOOLEAN, listed: SUBSET Notes, unread: SUBSET Notes, count: Int]
    /\ load \in [asked: BOOLEAN, open: SUBSET Requests, count: 0..Cardinality(Notes),
                 listed: SUBSET Notes, unread: SUBSET Notes]
    /\ loaded \in 0..MaxLoads /\ refreshing \in BOOLEAN /\ marks \subseteq Notes

DashboardInit ==
    /\ there \in SUBSET Notes /\ unread = there
    /\ shown = [ready |-> FALSE, listed |-> {}, unread |-> {}, count |-> 0]
    /\ load = AllAsked /\ loaded = 1
    /\ refreshing = FALSE /\ marks = {}

Notify(n) ==
    /\ n \notin there
    /\ there' = there \cup {n} /\ unread' = unread \cup {n}
    /\ UNCHANGED <<shown, load, loaded, refreshing, marks>>

-----------------------------------------------------------------------------
(* load *)

\* Each request is answered as the server stands, or its catch gives a fallback.
AnswerOf(r) ==
    IF r = "count" THEN {[load EXCEPT !.count = Cardinality(unread)], load}
    ELSE IF r = "list" THEN {[load EXCEPT !.listed = there, !.unread = unread], load}
    ELSE {load}

\* Mutation of Caught: the count has no catch, and Promise.all rejects.
CountMayThrow(r) == {[n EXCEPT !.asked = (r # "count")] : n \in AnswerOf(r)} \cup AnswerOf(r)
Caught(r) == AnswerOf(r)

Answered(r) ==
    /\ r \in load.open
    /\ \E next \in Caught(r) : load' = [next EXCEPT !.open = @ \ {r}]
    /\ UNCHANGED <<there, unread, shown, loaded, refreshing, marks>>

\* All are there: the screen is drawn from this load, and a refresh is over.
Loaded ==
    /\ load.asked /\ load.open = {}
    /\ shown' = [ready |-> TRUE, listed |-> load.listed, unread |-> load.unread,
                 count |-> load.count]
    /\ load' = NoLoad /\ refreshing' = FALSE
    /\ UNCHANGED <<there, unread, loaded, marks>>

\* The list is pulled down, which it cannot be while it shows that it refreshes.
handleRefresh ==
    /\ shown.ready /\ ~refreshing /\ loaded < MaxLoads
    /\ refreshing' = TRUE /\ load' = AllAsked /\ loaded' = loaded + 1
    /\ UNCHANGED <<there, unread, shown, marks>>

-----------------------------------------------------------------------------
(* handleMarkRead *)

\* Mutation of OneLess: the count is decremented come what may.
PlainlyOneLess(n) == n - 1

\* Math.max(0, prev - 1)
OneLess(n) == IF n > 0 THEN n - 1 ELSE 0

handleMarkRead(n) ==
    /\ shown.ready /\ n \in shown.unread
    /\ shown' = [shown EXCEPT !.unread = @ \ {n}, !.count = OneLess(@)]
    /\ marks' = marks \cup {n}
    /\ UNCHANGED <<there, unread, load, loaded, refreshing>>

\* The POST is served, or fails and is forgotten.
MarkServed(n) ==
    /\ n \in marks /\ marks' = marks \ {n}
    /\ unread' = unread \ {n} \/ unread' = unread
    /\ UNCHANGED <<there, shown, load, loaded, refreshing>>

\* What is drawn depends on the load alone; the links to other tabs do nothing here.
Screen == handleRefresh \/ \E n \in Notes : handleMarkRead(n)
Answers == Loaded \/ \E r \in Requests : Answered(r)
DashboardNext == Screen \/ Answers \/ \E n \in Notes : Notify(n) \/ MarkServed(n)

-----------------------------------------------------------------------------
\* DashboardScreen.js:73: whatever order the count, the list and the marks come in,
\* the badge never counts less than nothing, and no notification is listed as
\* unread that does not exist.
CountIsNatural == shown.count >= 0 /\ shown.unread \subseteq shown.listed

\* A load ends, whichever of its requests fail: the first one shows the screen, and
\* the later ones stop the spinner.
LoadEnds == (~shown.ready ~> shown.ready) /\ (refreshing ~> ~refreshing)
=============================================================================
