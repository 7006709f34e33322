----------------------------- MODULE Attendance -----------------------------
(***************************************************************************)
(* Check-in and check-out, backend/apps/attendance.  The API runs in       *)
(* several workers and no view opens a transaction, so every query of      *)
(* check_in and check_out commits on its own and other requests run        *)
(* between any two of them.  A request is three steps:                     *)
(*   Find   reads the row of (employee, today),                            *)
(*   Judge  validates the GPS reading against the branch, looks for        *)
(*          implausible travel and computes the minutes,                   *)
(*   Save   INSERTs the new row or UPDATEs every column of the copy read.  *)
(* Admin requests (branch deletion and reassignment, shift and rule edits) *)
(* are one step each and come between any two of those.                    *)
(*                                                                         *)
(* Positions are points of a line, so that Distance stands for the         *)
(* haversine distance.                                                     *)
(***************************************************************************)
EXTENDS AttendanceRules

CONSTANTS Employees, Workers, Branches,
          Fence,        \* the place, radius and accuracy limit of each branch
          Readings,     \* the GPS readings a phone may report
          Shifts,       \* the shifts an employee may be assigned
          Rules,        \* the thresholds an organization may choose
          MaxSpeed,     \* distance per second above which travel is implausible
          MaxTime,      \* bound of the clock
          MaxEdits,     \* bound of the number of admin edits
          NoBranch, NoRow, NoReading

Null == -1              \* an unset check_out_time

Reading == [place : Int, accuracy : Nat, mock : BOOLEAN]

ASSUME AttendanceAssumption ==
    /\ Fence \in [Branches -> [place : Int, radius : Nat, limit : Nat]]
    /\ Readings \subseteq Reading
    /\ Shifts \subseteq Shift
    /\ NoShift \notin Shift
    /\ Rules \subseteq [late : Nat, early : Nat, over : Nat]
    /\ Rules # {}
    /\ NoBranch \notin Branches
    /\ NoReading \notin Readings
    /\ MaxSpeed \in Nat
    /\ MaxTime \in Nat
    /\ MaxEdits \in Nat

VARIABLES
    rows,      \* the Attendance table
    nextId,    \* source of fresh primary keys (uuid4 in the code)
    branches,  \* the Branch table: which branches exist
    branchOf,  \* employee.branch
    shiftOf,   \* employee.shift
    rule,      \* the organization's AttendanceRule
    events,    \* the SecurityEvent table
    req,       \* what each worker is doing
    now,       \* timezone.now(), in seconds
    edits      \* number of admin edits so far

admin == <<branches, branchOf, shiftOf, rule, edits>>
vars == <<rows, nextId, events, req, now, admin>>

Row == [id : Nat, emp : Employees, date : Nat, branch : Branches \cup {NoBranch},
        inTime : Nat, inGps : Readings, late : Nat,
        outTime : Nat \cup {Null}, outGps : Readings \cup {NoReading},
        early : Nat, over : Nat, worked : Nat, status : Status]

Errors == {"ALREADY_CHECKED_IN", "NOT_CHECKED_IN_YET", "ALREADY_CHECKED_OUT",
           "NO_BRANCH_ASSIGNED", "POOR_GPS_ACCURACY", "OUTSIDE_GEOFENCE",
           "MOCK_LOCATION_DETECTED", "SERVER_ERROR"}

Replies == Errors \cup {"NONE", "CREATED"}

\* A request in progress, or the worker's last answer once it is idle.
Request ==
    [pc : {"idle", "in.find", "in.judge", "in.save", "out.find", "out.judge", "out.save"},
     emp : Employees, at : Nat, gps : Readings \cup {NoReading},
     branch : Branches \cup {NoBranch}, shift : Shifts \cup {NoShift},
     row : Row \cup {NoRow}, reply : Replies]

Event == [type : {"MOCK_LOCATION_DETECTED", "IMPLAUSIBLE_TRAVEL_SPEED"},
          emp : Employees, at : Nat]

TypeOK ==
    /\ rows \subseteq Row
    /\ nextId \in Nat
    /\ branches \subseteq Branches
    /\ branchOf \in [Employees -> Branches \cup {NoBranch}]
    /\ shiftOf \in [Employees -> Shifts \cup {NoShift}]
    /\ rule \in Rules
    /\ events \subseteq Event
    /\ req \in [Workers -> Request]
    /\ now \in 0 .. MaxTime
    /\ edits \in 0 .. MaxEdits

-----------------------------------------------------------------------------
(* The pipeline of validate_location and detect_implausible_travel. *)

Distance(p, q) == IF p > q THEN p - q ELSE q - p

\* The error _validate_location raises for this reading, "NONE" if it accepts.
LocationError(gps, b) ==
    IF b = NoBranch THEN "NO_BRANCH_ASSIGNED"
    ELSE IF gps.accuracy > Fence[b].limit THEN "POOR_GPS_ACCURACY"
    ELSE IF Distance(gps.place, Fence[b].place) > Fence[b].radius + gps.accuracy
         THEN "OUTSIDE_GEOFENCE"
    ELSE IF gps.mock THEN "MOCK_LOCATION_DETECTED"
    ELSE "NONE"

\* The employee's rows with the latest check-in (order_by("-check_in_time")).
LatestRows(e) ==
    {r \in rows : /\ r.emp = e
                  /\ \A s \in rows : s.emp = e => s.inTime <= r.inTime}

\* Mutation of TooFast: the check-out's place and time are ignored.
TooFastFromCheckIn(r, gps, t) ==
    t > r.inTime /\ Distance(gps.place, r.inGps.place) > MaxSpeed * (t - r.inTime)

\* The speed from row r's last location to the reading gps at time t is implausible.
TooFast(r, gps, t) ==
    LET closed == r.outTime # Null
        from   == IF closed THEN r.outGps.place ELSE r.inGps.place
        since  == IF closed THEN r.outTime ELSE r.inTime
    IN  t > since /\ Distance(gps.place, from) > MaxSpeed * (t - since)

\* The SecurityEvents a request of employee e may add before it saves.
TravelEvents(e, gps, t) ==
    IF \E r \in LatestRows(e) : TooFast(r, gps, t)
    THEN {[type |-> "IMPLAUSIBLE_TRAVEL_SPEED", emp |-> e, at |-> t]}
    ELSE {}

MockEvents(e, t, error) ==
    IF error = "MOCK_LOCATION_DETECTED"
    THEN {[type |-> "MOCK_LOCATION_DETECTED", emp |-> e, at |-> t]}
    ELSE {}

-----------------------------------------------------------------------------
\* A worker that has answered has forgotten the request's local state.
Answered(e, reply) ==
    [pc |-> "idle", emp |-> e, at |-> 0, gps |-> NoReading, branch |-> NoBranch,
     shift |-> NoShift, row |-> NoRow, reply |-> reply]

Init ==
    /\ rows = {} /\ nextId = 0 /\ events = {} /\ now = 0 /\ edits = 0
    /\ branches = Branches
    /\ branchOf \in [Employees -> Branches]
    /\ shiftOf \in [Employees -> Shifts \cup {NoShift}]
    /\ rule \in Rules
    /\ \E e \in Employees :
         req = [w \in Workers |-> Answered(e, "NONE")]

Answer(w, reply) == req' = [req EXCEPT ![w] = Answered(req[w].emp, reply)]

\* Worker w goes on to pc, holding the row it read or built.
Proceed(w, pc, row) ==
    req' = [req EXCEPT ![w] =
              [pc |-> pc, emp |-> req[w].emp, at |-> req[w].at, gps |-> req[w].gps,
               branch |-> req[w].branch, shift |-> req[w].shift, row |-> row,
               reply |-> "NONE"]]

\* The view loads the employee (branch_id and shift_id with it) and the service reads the clock.
Begin(w, e, gps, pc) ==
    /\ req[w].pc = "idle"
    /\ req' = [req EXCEPT ![w] =
                 [pc |-> pc, emp |-> e, at |-> now, gps |-> gps,
                  branch |-> branchOf[e], shift |-> shiftOf[e], row |-> NoRow,
                  reply |-> "NONE"]]
    /\ UNCHANGED <<rows, nextId, events, now, admin>>

BeginCheckIn(w, e, gps) == Begin(w, e, gps, "in.find")

BeginCheckOut(w, e, gps) == Begin(w, e, gps, "out.find")

\* Mutation of RowsOfDay: whatever its day, a row of the employee will do.
RowsOfAnyDay(e, date) == {r \in rows : r.emp = e}

RowsOfDay(e, date) == {r \in rows : r.emp = e /\ r.date = date}

FindForCheckIn(w) ==
    /\ req[w].pc = "in.find"
    /\ IF RowsOfDay(req[w].emp, DateOf(req[w].at)) # {}
       THEN Answer(w, "ALREADY_CHECKED_IN")
       ELSE Proceed(w, "in.judge", NoRow)
    /\ UNCHANGED <<rows, nextId, events, now, admin>>

\* A branch that vanished since its id was read makes the lazy load raise.
JudgeFails(w, b, error) ==
    IF b # NoBranch /\ b \notin branches
    THEN Answer(w, "SERVER_ERROR") /\ UNCHANGED events
    ELSE /\ error # "NONE"
         /\ Answer(w, error)
         /\ events' = events \cup MockEvents(req[w].emp, req[w].at, error)

JudgePasses(q, b, error) ==
    /\ b \in branches
    /\ error = "NONE"
    /\ events' = events \cup TravelEvents(q.emp, q.gps, q.at)

JudgeCheckIn(w) ==
    LET q     == req[w]
        error == LocationError(q.gps, q.branch)
        late  == MinutesLate(q.at, DateOf(q.at), q.shift, rule.late)
    IN  /\ q.pc = "in.judge"
        /\ \/ JudgeFails(w, q.branch, error) /\ UNCHANGED nextId
           \/ /\ JudgePasses(q, q.branch, error)
              /\ Proceed(w, "in.save",
                   [id |-> nextId, emp |-> q.emp, date |-> DateOf(q.at),
                    branch |-> q.branch, inTime |-> q.at, inGps |-> q.gps,
                    late |-> late, outTime |-> Null, outGps |-> NoReading,
                    early |-> 0, over |-> 0, worked |-> 0,
                    status |-> CheckInStatus(late)])
              /\ nextId' = nextId + 1
        /\ UNCHANGED <<rows, now, admin>>

\* Mutations of the two constraints below: the database does not check them.
NoUniqueDay(row) == TRUE
NoForeignKey(row) == TRUE

\* UniqueConstraint(employee, attendance_date), then the branch foreign key.
UniqueDay(row) ==
    \A r \in rows : r.emp = row.emp /\ r.date = row.date => r.id = row.id
ForeignKeyHolds(row) == row.branch \in branches \cup {NoBranch}

SaveCheckIn(w) ==
    LET row == req[w].row
    IN  /\ req[w].pc = "in.save"
        /\ IF UniqueDay(row) /\ ForeignKeyHolds(row)
           THEN Answer(w, "CREATED") /\ rows' = rows \cup {row}
           ELSE Answer(w, "SERVER_ERROR") /\ UNCHANGED rows
        /\ UNCHANGED <<nextId, events, now, admin>>

\* Mutation of AlreadyOut: a second check-out is not refused.
NeverOut(r) == FALSE

AlreadyOut(r) == r.outTime # Null

FindForCheckOut(w) ==
    LET found == RowsOfDay(req[w].emp, DateOf(req[w].at))
    IN  /\ req[w].pc = "out.find"
        /\ \/ found = {} /\ Answer(w, "NOT_CHECKED_IN_YET")
           \/ \E r \in found :
                IF AlreadyOut(r)
                THEN Answer(w, "ALREADY_CHECKED_OUT")
                ELSE Proceed(w, "out.judge", r)
        /\ UNCHANGED <<rows, nextId, events, now, admin>>

\* Mutation of CheckOutBranch: the employee's current assignment.
EmployeeBranch(q) == q.branch

\* The branch captured at check-in, not the employee's current assignment.
CheckOutBranch(q) == q.row.branch

\* Row r checked out at time t: the check-in columns as they were read.
Closed(r, t, gps, early, over) ==
    [id |-> r.id, emp |-> r.emp, date |-> r.date, branch |-> r.branch,
     inTime |-> r.inTime, inGps |-> r.inGps, late |-> r.late,
     outTime |-> t, outGps |-> gps, early |-> early, over |-> over,
     worked |-> WorkingMinutes(r.inTime, t),
     status |-> FinalStatus(r.late, early, over)]

JudgeCheckOut(w) ==
    LET q     == req[w]
        b     == CheckOutBranch(q)
        error == LocationError(q.gps, b)
        early == MinutesEarlyDeparture(q.at, DateOf(q.at), q.shift, rule.early)
        over  == MinutesOvertime(q.at, DateOf(q.at), q.shift, rule.over)
    IN  /\ q.pc = "out.judge"
        /\ \/ JudgeFails(w, b, error)
           \/ /\ JudgePasses(q, b, error)
              /\ Proceed(w, "out.save", Closed(q.row, q.at, q.gps, early, over))
        /\ UNCHANGED <<rows, nextId, now, admin>>

SaveCheckOut(w) ==
    LET row == req[w].row
    IN  /\ req[w].pc = "out.save"
        /\ IF ForeignKeyHolds(row)
           THEN /\ Answer(w, "CREATED")
                /\ rows' = {IF r.id = row.id THEN row ELSE r : r \in rows}
           ELSE Answer(w, "SERVER_ERROR") /\ UNCHANGED rows
        /\ UNCHANGED <<nextId, events, now, admin>>

-----------------------------------------------------------------------------
(* What admins do meanwhile. *)

Edit ==
    /\ edits < MaxEdits
    /\ edits' = edits + 1
    /\ UNCHANGED <<nextId, events, req, now>>

\* on_delete=SET_NULL on Attendance.branch and on Employee.branch.
DeleteBranch(b) ==
    /\ Edit
    /\ b \in branches
    /\ branches' = branches \ {b}
    /\ rows' = {IF r.branch = b THEN [r EXCEPT !.branch = NoBranch] ELSE r : r \in rows}
    /\ branchOf' = [e \in Employees |-> IF branchOf[e] = b THEN NoBranch ELSE branchOf[e]]
    /\ UNCHANGED <<shiftOf, rule>>

AssignBranch(e, b) ==
    /\ Edit
    /\ b \in branches
    /\ branchOf' = [branchOf EXCEPT ![e] = b]
    /\ UNCHANGED <<rows, branches, shiftOf, rule>>

AssignShift(e, s) ==
    /\ Edit
    /\ shiftOf' = [shiftOf EXCEPT ![e] = s]
    /\ UNCHANGED <<rows, branches, branchOf, rule>>

UpdateRule(thresholds) ==
    /\ Edit
    /\ rule' = thresholds
    /\ UNCHANGED <<rows, branches, branchOf, shiftOf>>

Tick ==
    /\ now < MaxTime
    /\ now' = now + 1
    /\ UNCHANGED <<rows, nextId, events, req, admin>>

Handle(w) ==
    \/ FindForCheckIn(w) \/ JudgeCheckIn(w) \/ SaveCheckIn(w)
    \/ FindForCheckOut(w) \/ JudgeCheckOut(w) \/ SaveCheckOut(w)

Next ==
    \/ \E w \in Workers, e \in Employees, gps \in Readings :
          BeginCheckIn(w, e, gps) \/ BeginCheckOut(w, e, gps)
    \/ \E w \in Workers : Handle(w)
    \/ \E b \in Branches : DeleteBranch(b)
    \/ \E e \in Employees, b \in Branches : AssignBranch(e, b)
    \/ \E e \in Employees, s \in Shifts \cup {NoShift} : AssignShift(e, s)
    \/ \E thresholds \in Rules : UpdateRule(thresholds)
    \/ Tick

Spec == Init /\ [][Next]_vars

-----------------------------------------------------------------------------
(* Properties. *)

\* However check-ins of one employee interleave, a day has at most one row
\* (docs/02-DATABASE-ERD.md: "one attendance row per employee per day").
OneRowPerDay ==
    \A r, s \in rows : r.emp = s.emp /\ r.date = s.date => r = s

\* Check-in and check-out of a row are both of the row's own day: a request
\* that crosses midnight while it runs never closes another day's row.
RowWithinItsDay ==
    \A r \in rows : /\ DateOf(r.inTime) = r.date
                    /\ r.outTime # Null => DateOf(r.outTime) = r.date

\* The headline status of a closed day agrees with its minutes, whatever edits
\* of shift and rule came between check-in and check-out: lateness found at
\* check-in wins, and a day is never both an early departure and overtime.
StatusTellsTheDay(r) ==
    /\ r.status = "LATE" <=> r.late > 0
    /\ r.status = "PRESENT" <=> r.late = 0 /\ r.early = 0 /\ r.over = 0
    /\ r.early = 0 \/ r.over = 0

\* A check-out is accepted only within the fence of the branch captured at
\* check-in, even when the employee was assigned to another branch meanwhile.
CheckedOutAtCapturedBranch(r) ==
    r.branch # NoBranch => LocationError(r.outGps, r.branch) = "NONE"

\* services.py:192 and rules.py:110: a closed day is judged by what its check-in
\* captured and by the rules at its check-out, whatever was edited in between.
ClosedDayIsConsistent ==
    \A r \in rows : r.outTime # Null => StatusTellsTheDay(r) /\ CheckedOutAtCapturedBranch(r)

SameCheckIn(r, s) ==
    /\ s.id = r.id /\ s.emp = r.emp /\ s.date = r.date
    /\ s.inTime = r.inTime /\ s.inGps = r.inGps /\ s.late = r.late
    /\ s.branch \in {r.branch, NoBranch}

\* No step loses a row, alters what its check-in recorded, reopens a closed day
\* or gives back a branch that deletion took away: the full-row UPDATE of a
\* check-out writes a copy read two steps earlier and must not undo anything.
CheckInEvidenceFrozen ==
    [][\A r \in rows : \E s \in rows' :
          SameCheckIn(r, s) /\ (r.outTime # Null => s.outTime # Null)]_vars

\* The worker has read row id for a check-out that it has not answered yet.
Closing(w, id) == req[w].pc \in {"out.judge", "out.save"} /\ req[w].row.id = id

\* services.py:189: a day is checked out once.  After its check-out is written no
\* request takes hold of the row any more, and only requests that had read it while
\* it was open, so before that check-out, can still write theirs over it.
CheckOutOnce ==
    [][\A r \in rows : r.outTime # Null =>
          /\ \A w \in Workers : Closing(w, r.id)' => Closing(w, r.id)
          /\ \/ \E w \in Workers : Closing(w, r.id)
             \/ \E s \in rows' : /\ s.id = r.id
                                 /\ s.outTime = r.outTime /\ s.outGps = r.outGps]_vars

Flagged(e, t) ==
    [type |-> "IMPLAUSIBLE_TRAVEL_SPEED", emp |-> e, at |-> t] \in events

Follows(r, s) ==
    /\ r.emp = s.emp /\ r.inTime < s.inTime
    /\ \A x \in rows : x.emp = r.emp => x.inTime <= r.inTime \/ x.inTime >= s.inTime

\* Two consecutive recorded locations of an employee, within a day or from one
\* day to the next, that no vehicle could connect always leave a SecurityEvent
\* (docs/01-SYSTEM-ARCHITECTURE.md 6.6).  Requests do not overlap.
ImplausibleTravelFlagged ==
    \A r \in rows :
        /\ r.outTime > r.inTime
           /\ Distance(r.outGps.place, r.inGps.place) > MaxSpeed * (r.outTime - r.inTime)
           => Flagged(r.emp, r.outTime)
        /\ \A s \in rows :
             Follows(r, s) =>
               LET place == IF r.outTime = Null THEN r.inGps.place ELSE r.outGps.place
                   since == IF r.outTime = Null THEN r.inTime ELSE r.outTime
               IN  Distance(s.inGps.place, place) > MaxSpeed * (s.inTime - since)
                   => Flagged(s.emp, s.inTime)

-----------------------------------------------------------------------------
(* What documents and tests say and the code does not do. *)

\* backend/apps/attendance/tests/test_rules.py:115: the row of an overnight
\* shift is the one of the day the shift started, so the morning's check-out
\* must find it.  The service looks for a row of the morning's own date.
OvernightCheckOutFindsItsRow ==
    [][\A w \in Workers :
          LET shift == req[w].shift IN
          (/\ req[w].pc = "out.find"
           /\ shift # NoShift
           /\ shift.crosses
           /\ \E r \in rows : /\ r.emp = req[w].emp /\ r.outTime = Null
                               /\ r.inTime >= ExpectedStart(r.date, shift)
                               /\ r.date + 1 = DateOf(req[w].at))
          => req'[w].reply # "NOT_CHECKED_IN_YET"]_vars

=============================================================================
