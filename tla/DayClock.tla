------------------------------ MODULE DayClock ------------------------------
(***************************************************************************)
(* One working day judged by AttendanceRules: a check-in at a chosen       *)
(* instant, and a check-out instant that slides forward second by second.  *)
(* Every pair of instants, every shift and every threshold is reached, so  *)
(* the rules are compared with their definitions on all bounded inputs.    *)
(***************************************************************************)
EXTENDS AttendanceRules, FiniteSets

CONSTANTS Shifts, Thresholds

VARIABLES in, out, shift, threshold

vars == <<in, out, shift, threshold>>

Horizon == 2 * DayLength     \* the day of the check-in and the next

Init ==
    /\ in \in 0 .. DayLength - 1
    /\ out = in
    /\ shift \in Shifts \cup {NoShift}
    /\ threshold \in Thresholds

Later ==
    /\ out < Horizon
    /\ out' = out + 1
    /\ UNCHANGED <<in, shift, threshold>>

Spec == Init /\ [][Later]_vars

late == MinutesLate(in, 0, shift, threshold)
early == MinutesEarlyDeparture(out, 0, shift, threshold)
over == MinutesOvertime(out, 0, shift, threshold)

-----------------------------------------------------------------------------
(* Reference definitions: minutes counted one by one. *)

\* The number of whole minutes that fit between from and to, 0 if to is earlier.
Elapsed(from, to) ==
    Cardinality({m \in 1 .. Horizon : from + m * MinuteLength <= to})

Counted(from, to) == IF Elapsed(from, to) > threshold THEN Elapsed(from, to) ELSE 0

\* The end of the shift: today's, or tomorrow's when it crosses midnight.
End == IF shift.crosses THEN DayLength + shift.end ELSE shift.end

\* rules.py:5: the threshold is a grace period, not an allowance: inside it no
\* minute counts, past it every whole minute since the scheduled time does.
MinutesAreCounted ==
    IF shift = NoShift
    THEN late = 0 /\ early = 0 /\ over = 0
    ELSE /\ late = Counted(shift.start, in)
         /\ early = Counted(out, End)
         /\ over = Counted(End, out)

\* rules.py:113: LATE > EARLY_DEPARTURE > OVERTIME > PRESENT, and the status of
\* a check-in is kept by its check-out when it was LATE.
StatusPriority ==
    LET final == FinalStatus(late, early, over)
    IN  /\ CheckInStatus(late) = "LATE" => final = "LATE"
        /\ final = "EARLY_DEPARTURE" <=> late = 0 /\ early > 0
        /\ final = "OVERTIME" <=> late = 0 /\ early = 0 /\ over > 0
        /\ early = 0 \/ over = 0

\* Reports add up what the rules count, over the priority of the statuses.
DayIsClassified == MinutesAreCounted /\ StatusPriority

=============================================================================
