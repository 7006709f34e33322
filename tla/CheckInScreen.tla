---------------------------- MODULE CheckInScreen ---------------------------
(***************************************************************************)
(* The check-in screen of the mobile app                                   *)
(* (screens/attendance/CheckInScreen.js, hooks/useLocation.js and          *)
(* services/location/geolocation.js), over days of the attendance of one   *)
(* employee: "none", "in" once checked in, "out" once checked out too.     *)
(* The screen loads today's record once, when it is first shown, and from  *)
(* then on shows what its own presses were answered.                       *)
(***************************************************************************)
EXTENDS Naturals

CONSTANTS MaxDays,     \* bound: days that pass
          MaxPresses   \* bound: presses of the button

VARIABLES day,       \* today
          rows,      \* day -> the attendance record of the server
          today,     \* the record on screen and its day: "loading", "null", "in" or "out"
          loads,     \* loadToday: what it has asked for
          press,     \* handlePress: where it is, and what it does
          presses,   \* how many there were
          missed     \* an answer was lost or a load failed since the launch

checkInVars == <<day, rows, today, loads, press, presses, missed>>

Days == 1..MaxDays
NoPress == [stage |-> "idle", kind |-> "in", of |-> 1]
Loading == [state |-> "loading", of |-> 1]

CheckInTypeOK ==
    /\ day \in Days /\ rows \in [Days -> {"none", "in", "out"}]
    /\ today \in [state: {"loading", "null", "in", "out"}, of: Days]
    /\ loads \in [stage: {"today", "answered", "history", "done"}, got: {"null", "in", "out"},
                  of: Days]
    /\ press \in [stage: {"idle", "asking", "locating", "sent", "done", "failed"},
                  kind: {"in", "out"}, of: Days]
    /\ presses \in 0..MaxPresses /\ missed \in BOOLEAN

CheckInInit ==
    /\ day = 1 /\ rows \in [Days -> {"none"}]
    /\ today = Loading
    /\ loads = [stage |-> "today", got |-> "null", of |-> 1]
    /\ press = NoPress /\ presses = 0 /\ missed = FALSE

Midnight ==
    /\ day < MaxDays /\ day' = day + 1
    /\ UNCHANGED <<rows, today, loads, press, presses, missed>>

OnScreen(row) == IF row = "none" THEN "null" ELSE row

-----------------------------------------------------------------------------
(* loadToday: today's record, then the history of the week *)

ServeToday ==
    /\ loads.stage = "today"
    /\ loads' = [stage |-> "answered", got |-> OnScreen(rows[day]), of |-> day]
    /\ UNCHANGED <<day, rows, today, press, presses, missed>>
TodayLoaded ==
    /\ loads.stage = "answered"
    /\ today' = [state |-> loads.got, of |-> loads.of]
    /\ loads' = [loads EXCEPT !.stage = "history"]
    /\ UNCHANGED <<day, rows, press, presses, missed>>
TodayNotLoaded ==
    /\ loads.stage \in {"today", "answered"}
    /\ today' = [state |-> "null", of |-> day]
    /\ loads' = [loads EXCEPT !.stage = "history"]
    /\ missed' = TRUE
    /\ UNCHANGED <<day, rows, press, presses>>

\* The tally of the week: nothing else depends on it, and it may fail.
WeekSummary ==
    /\ loads.stage = "history"
    /\ loads' = [loads EXCEPT !.stage = "done"]
    /\ UNCHANGED <<day, rows, today, press, presses, missed>>
loadToday == ServeToday \/ TodayLoaded \/ TodayNotLoaded \/ WeekSummary

-----------------------------------------------------------------------------
(* handlePress *)

hasCheckedIn == today.state \in {"in", "out"}
hasCheckedOut == today.state = "out"
busy == press.stage # "idle"
Offered == IF hasCheckedIn THEN "out" ELSE "in"

To(stage) == press' = [press EXCEPT !.stage = stage]

\* The button: gone once checked out, disabled while busy.
handlePress ==
    /\ today.state # "loading" /\ ~hasCheckedOut /\ ~busy
    /\ presses < MaxPresses /\ presses' = presses + 1
    /\ press' = [stage |-> "asking", kind |-> Offered, of |-> day]
    /\ UNCHANGED <<day, rows, today, loads, missed>>

\* The system asks the user for permission, unless it knows the answer.
requestLocationPermission ==
    /\ press.stage = "asking"
    /\ To("locating") \/ To("failed")
    /\ UNCHANGED <<day, rows, today, loads, presses, missed>>

\* A fix may never come, indoors for instance.
Fix ==
    /\ press.stage = "locating"
    /\ To("sent") \/ To("failed")
    /\ UNCHANGED <<day, rows, today, loads, presses, missed>>

\* Mutation of withTimeout: the promise of the fix alone is awaited.
NoTimeout == FALSE /\ To("failed")

\* Promise.race with a timer of 20 seconds
withTimeout == To("failed")
GiveUpLocating ==
    /\ press.stage = "locating"
    /\ withTimeout
    /\ UNCHANGED <<day, rows, today, loads, presses, missed>>

\* The server books under its own day, and refuses what does not follow: a second
\* check-in, a check-out without a check-in, a position outside of the geofence.
Accepted == rows[day] = (IF press.kind = "in" THEN "none" ELSE "in")
ServePress ==
    /\ press.stage = "sent"
    /\ \/ /\ Accepted
          /\ rows' = [rows EXCEPT ![day] = press.kind]
          /\ \/ press' = [press EXCEPT !.stage = "done", !.of = day] /\ UNCHANGED missed
             \/ To("failed") /\ missed' = TRUE
       \/ To("failed") /\ UNCHANGED <<rows, missed>>
    /\ UNCHANGED <<day, today, loads, presses>>

\* Mutation of Answer: the answer is not shown until the screen is loaded again.
NotShown == today

\* setToday(result)
Answer == [state |-> press.kind, of |-> press.of]
Answered ==
    /\ press.stage = "done"
    /\ today' = Answer /\ press' = NoPress
    /\ UNCHANGED <<day, rows, loads, presses, missed>>
Refused ==
    /\ press.stage = "failed"
    /\ press' = NoPress
    /\ UNCHANGED <<day, rows, today, loads, presses, missed>>

\* Nothing else loads the record again: the app is closed and launched once more,
\* with no press under way.
Relaunch ==
    /\ loads.stage = "done" /\ ~busy
    /\ today.of # day \/ missed
    /\ today' = Loading /\ missed' = FALSE
    /\ loads' = [stage |-> "today", got |-> "null", of |-> day]
    /\ UNCHANGED <<day, rows, press, presses>>

CheckInNext ==
    \/ Midnight \/ loadToday
    \/ handlePress \/ requestLocationPermission \/ Fix \/ GiveUpLocating
    \/ ServePress \/ Answered \/ Refused \/ Relaunch

\* Timers fire, requests end, callbacks run; a fix and the user owe nothing.
Loads == ServeToday \/ TodayLoaded \/ TodayNotLoaded
Ends == GiveUpLocating \/ ServePress \/ Answered \/ Refused

-----------------------------------------------------------------------------
\* Until midnight, and unless an answer was lost or the load failed, the screen and
\* the server agree on what was done today, so that the button offers what the
\* server will accept.  A check-in or check-out on screen did happen in any case.
ScreenAgrees ==
    /\ hasCheckedIn => rows[today.of] \in {"in", "out"}
    /\ hasCheckedOut => rows[today.of] = "out"
    /\ ~missed /\ ~busy /\ today.state # "loading" /\ today.of = day =>
          today.state = OnScreen(rows[day])

\* geolocation.js:12: a fix that never comes does not leave the employee waiting: a
\* press ends, as does the load of the screen.
EveryPressEnds ==
    /\ press.stage \notin {"idle", "asking"} ~> press.stage = "idle"
    /\ today.state = "loading" ~> today.state # "loading"
=============================================================================
