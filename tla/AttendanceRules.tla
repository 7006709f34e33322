-------------------------- MODULE AttendanceRules --------------------------
(***************************************************************************)
(* The arithmetic of backend/apps/attendance/domain/rules.py.  An instant  *)
(* is a number of seconds since midnight of day 0, a date is a day number, *)
(* and a shift's start and end are seconds since midnight.  Python's       *)
(* `int(total_seconds() // 60)' is a floor division, as is \div.           *)
(***************************************************************************)
EXTENDS Integers

CONSTANTS DayLength,     \* seconds in a day
          MinuteLength,  \* seconds in a minute
          NoShift        \* an employee with no assigned shift

ASSUME LengthsAssumption ==
    /\ MinuteLength \in Nat \ {0}
    /\ DayLength \in Nat \ {0}

Shift == [start : 0 .. DayLength - 1, end : 0 .. DayLength - 1, crosses : BOOLEAN]

Status == {"PRESENT", "LATE", "EARLY_DEPARTURE", "OVERTIME"}

DateOf(t) == t \div DayLength

WholeMinutes(seconds) == seconds \div MinuteLength

ExpectedStart(date, shift) == date * DayLength + shift.start

ExpectedEnd(date, shift) ==
    (IF shift.crosses THEN date + 1 ELSE date) * DayLength + shift.end

\* Mutation of PastGrace: the threshold taken as an allowance.
PastAllowance(delta, threshold) == IF delta > threshold THEN delta - threshold ELSE 0

\* A delta inside the grace period counts for nothing; past it, in full.
PastGrace(delta, threshold) == IF delta > threshold THEN delta ELSE 0

MinutesLate(in, date, shift, threshold) ==
    IF shift = NoShift THEN 0
    ELSE PastGrace(WholeMinutes(in - ExpectedStart(date, shift)), threshold)

MinutesEarlyDeparture(out, date, shift, threshold) ==
    IF shift = NoShift THEN 0
    ELSE PastGrace(WholeMinutes(ExpectedEnd(date, shift) - out), threshold)

MinutesOvertime(out, date, shift, threshold) ==
    IF shift = NoShift THEN 0
    ELSE PastGrace(WholeMinutes(out - ExpectedEnd(date, shift)), threshold)

\* Mutation of WorkingMinutes: without max(0, ...).
SignedMinutes(in, out) == WholeMinutes(out - in)

WorkingMinutes(in, out) ==
    LET worked == WholeMinutes(out - in)
    IN  IF worked > 0 THEN worked ELSE 0

CheckInStatus(late) == IF late # 0 THEN "LATE" ELSE "PRESENT"

\* Mutation of FinalStatus: leaving early wins over arriving late.
EarlyFirstStatus(late, early, over) ==
    IF early > 0 THEN "EARLY_DEPARTURE"
    ELSE IF late > 0 THEN "LATE" ELSE IF over > 0 THEN "OVERTIME" ELSE "PRESENT"

FinalStatus(late, early, over) ==
    IF late > 0 THEN "LATE"
    ELSE IF early > 0 THEN "EARLY_DEPARTURE"
    ELSE IF over > 0 THEN "OVERTIME"
    ELSE "PRESENT"

=============================================================================
