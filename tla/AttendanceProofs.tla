-------------------------- MODULE AttendanceProofs --------------------------
(***************************************************************************)
(* Proofs about Attendance, for any number of employees, workers, branches *)
(* and admin edits. The inductive invariant says what a worker's copy of a *)
(* row has to do with the table: between Judge and Save the copy of a      *)
(* check-in carries a primary key nobody else has, and the copy of a       *)
(* check-out agrees with a stored row on everything its check-in recorded. *)
(* A copy that is about to be saved as a closed day is consistent in       *)
(* itself, and so are the closed days. What a request read beside its row  *)
(* may go out of date; the last theorem, about impossible travel, is       *)
(* therefore about employees whose requests do not overlap.                *)
(***************************************************************************)
EXTENDS Attendance, TLAPS

\* The worker holds a row it is about to insert.
Inserting(w) == req[w].pc = "in.save"

\* The worker holds a copy of a stored row, to be written back whole.
Updating(w) == req[w].pc \in {"out.judge", "out.save"}

\* Row r still carries what copy c read; only its branch may be gone since.
SameEvidence(r, c) ==
    /\ c.id = r.id /\ c.emp = r.emp /\ c.date = r.date
    /\ c.inTime = r.inTime /\ c.inGps = r.inGps /\ c.late = r.late
    /\ \/ r.branch = c.branch
       \/ r.branch = NoBranch /\ c.branch \notin branches \cup {NoBranch}

IdsUnique == \A r, s \in rows : r.id = s.id => r = s

IdsUsed ==
    /\ \A r \in rows : r.id < nextId
    /\ \A w \in Workers : Inserting(w) => req[w].row.id < nextId

InsertsAreFresh ==
    /\ \A w \in Workers : Inserting(w) => \A r \in rows : r.id # req[w].row.id
    /\ \A v, w \in Workers :
         Inserting(v) /\ Inserting(w) /\ req[v].row.id = req[w].row.id => v = w

CopiesAgree ==
    \A w \in Workers : Updating(w) => \E r \in rows : SameEvidence(r, req[w].row)

CopiesTyped ==
    \A w \in Workers :
        /\ req[w].pc # "idle" => req[w].gps \in Readings
        /\ Inserting(w) \/ Updating(w) => req[w].row \in Row
        /\ Inserting(w) => /\ req[w].row.outTime = Null
                           /\ req[w].row.date = DateOf(req[w].row.inTime)
        /\ Updating(w) => req[w].row.date = DateOf(req[w].at)
        /\ req[w].pc = "out.judge" => req[w].row.outTime = Null
        /\ req[w].pc = "out.save" => req[w].row.outTime = req[w].at

IInv ==
    /\ TypeOK /\ CopiesTyped
    /\ IdsUnique /\ IdsUsed /\ InsertsAreFresh /\ CopiesAgree
    /\ OneRowPerDay /\ RowWithinItsDay

-----------------------------------------------------------------------------
(* The minutes the rules compute are natural numbers. *)

\* A whole number of minutes, and a date, of integers are integers.
LEMMA WholeMinutesInt ==
    ASSUME NEW s \in Int PROVE WholeMinutes(s) \in Int
BY LengthsAssumption DEF WholeMinutes

\* The date of an instant is a natural number.
LEMMA DateNat ==
    ASSUME NEW t \in Nat PROVE DateOf(t) \in Nat
BY LengthsAssumption, SMT DEF DateOf

\* A delta past its grace period is a natural number of minutes.
LEMMA PastGraceNat ==
    ASSUME NEW d \in Int, NEW threshold \in Nat PROVE PastGrace(d, threshold) \in Nat
BY DEF PastGrace

\* Expected start and end of a shift on a date are integers.
LEMMA ExpectedInt ==
    ASSUME NEW date \in Nat, NEW shift \in Shift
    PROVE ExpectedStart(date, shift) \in Int /\ ExpectedEnd(date, shift) \in Int
<1> USE LengthsAssumption DEF Shift
<1>1. \A d \in Nat : d * DayLength \in Int
  OBVIOUS
<1>2. QED
  BY <1>1 DEF ExpectedStart, ExpectedEnd

\* Lateness, early departure, overtime and worked time are natural numbers.
LEMMA MinutesNat ==
    ASSUME NEW t \in Nat, NEW u \in Nat, NEW date \in Nat,
           NEW shift \in Shift \cup {NoShift}, NEW threshold \in Nat
    PROVE /\ MinutesLate(t, date, shift, threshold) \in Nat
          /\ MinutesEarlyDeparture(t, date, shift, threshold) \in Nat
          /\ MinutesOvertime(t, date, shift, threshold) \in Nat
          /\ WorkingMinutes(t, u) \in Nat
<1>1. WorkingMinutes(t, u) \in Nat
  BY WholeMinutesInt DEF WorkingMinutes
<1>2. CASE shift = NoShift
  BY <1>1, <1>2 DEF MinutesLate, MinutesEarlyDeparture, MinutesOvertime
<1>3. CASE shift # NoShift
  <2> DEFINE begin == ExpectedStart(date, shift)
             end   == ExpectedEnd(date, shift)
  <2>1. begin \in Int /\ end \in Int
    BY <1>3, ExpectedInt
  <2> HIDE DEF begin, end
  <2>2. /\ WholeMinutes(t - begin) \in Int
        /\ WholeMinutes(end - t) \in Int
        /\ WholeMinutes(t - end) \in Int
    BY <2>1, WholeMinutesInt
  <2>3. /\ PastGrace(WholeMinutes(t - begin), threshold) \in Nat
        /\ PastGrace(WholeMinutes(end - t), threshold) \in Nat
        /\ PastGrace(WholeMinutes(t - end), threshold) \in Nat
    BY <2>2, PastGraceNat
  <2>4. QED
    BY <1>1, <1>3, <2>3 DEF MinutesLate, MinutesEarlyDeparture, MinutesOvertime, begin, end
<1>4. QED
  BY <1>2, <1>3

\* The status of a check-in, and of a finished day, is a status.
LEMMA StatusTyped ==
    ASSUME NEW late \in Nat, NEW early \in Nat, NEW over \in Nat
    PROVE CheckInStatus(late) \in Status /\ FinalStatus(late, early, over) \in Status
BY DEF CheckInStatus, FinalStatus, Status

-----------------------------------------------------------------------------
(* The invariant holds initially and every step preserves it. *)

\* No row exists and no worker holds one.
LEMMA InitEstablishes == Init => IInv
<1> SUFFICES ASSUME Init PROVE IInv
  OBVIOUS
<1>1. TypeOK
  BY AttendanceAssumption DEF Init, Answered, TypeOK, Request, Replies, Errors
<1>2. \A w \in Workers : req[w].pc = "idle"
  BY DEF Init, Answered
<1>3. CopiesTyped /\ IdsUnique /\ IdsUsed /\ InsertsAreFresh /\ CopiesAgree
  BY <1>2 DEF Init, CopiesTyped, IdsUnique, IdsUsed, InsertsAreFresh, CopiesAgree,
              Inserting, Updating
<1>4. OneRowPerDay /\ RowWithinItsDay
  BY DEF Init, OneRowPerDay, RowWithinItsDay
<1>5. QED
  BY <1>1, <1>3, <1>4 DEF IInv

\* A worker that answers forgets its copy; nothing else moves.
LEMMA AnswerStep ==
    ASSUME IInv, NEW w \in Workers, NEW reply \in Replies, Answer(w, reply),
           events' \subseteq Event, UNCHANGED <<rows, nextId, now, admin>>
    PROVE IInv'
<1>1. req' \in [Workers -> Request]
  BY DEF IInv, TypeOK, Answer, Answered, Request
<1>2. TypeOK'
  BY <1>1 DEF IInv, TypeOK, admin
<1>3. \A v \in Workers : req'[v].pc # "idle" => v # w /\ req'[v] = req[v]
  BY DEF IInv, TypeOK, Answer, Answered, Request
<1>4. CopiesTyped' /\ IdsUsed' /\ InsertsAreFresh' /\ CopiesAgree'
  BY <1>3 DEF IInv, CopiesTyped, IdsUsed, InsertsAreFresh, CopiesAgree,
              SameEvidence, Inserting, Updating, admin
<1>5. IdsUnique' /\ OneRowPerDay' /\ RowWithinItsDay'
  BY DEF IInv, IdsUnique, OneRowPerDay, RowWithinItsDay
<1>6. QED
  BY <1>2, <1>4, <1>5 DEF IInv

\* A new request holds no copy yet.
LEMMA BeginStep ==
    ASSUME IInv, NEW w \in Workers, NEW e \in Employees, NEW gps \in Readings,
           NEW pc \in {"in.find", "out.find"}, Begin(w, e, gps, pc)
    PROVE IInv'
<1>1. req' \in [Workers -> Request]
  BY DEF IInv, TypeOK, Begin, Request, Replies
<1>2. TypeOK'
  BY <1>1 DEF IInv, TypeOK, Begin, admin
<1>3. \A v \in Workers : ~(Inserting(v)' /\ v = w) /\ ~(Updating(v)' /\ v = w)
  BY DEF IInv, TypeOK, Begin, Inserting, Updating
<1>4. \A v \in Workers : v # w => req'[v] = req[v]
  BY DEF IInv, TypeOK, Begin
<1>5. req'[w].gps \in Readings /\ req'[w].pc = pc
  BY DEF IInv, TypeOK, Begin
<1>6. CopiesTyped'
  BY <1>3, <1>4, <1>5 DEF IInv, CopiesTyped, Inserting, Updating
<1>7. IdsUsed' /\ InsertsAreFresh' /\ CopiesAgree'
  BY <1>3, <1>4 DEF IInv, IdsUsed, InsertsAreFresh, CopiesAgree, SameEvidence,
                    Inserting, Updating, Begin, admin
<1>8. IdsUnique' /\ OneRowPerDay' /\ RowWithinItsDay'
  BY DEF IInv, IdsUnique, OneRowPerDay, RowWithinItsDay, Begin
<1>9. QED
  BY <1>2, <1>6, <1>7, <1>8 DEF IInv

\* Events recorded by a request are typed.
LEMMA EventsTyped ==
    ASSUME TypeOK, NEW w \in Workers, NEW error
    PROVE /\ MockEvents(req[w].emp, req[w].at, error) \subseteq Event
          /\ TravelEvents(req[w].emp, req[w].gps, req[w].at) \subseteq Event
BY DEF TypeOK, Request, MockEvents, TravelEvents, Event

\* Whatever the reading, _validate_location raises a known error or none.
LEMMA ErrorsTyped ==
    ASSUME NEW gps, NEW b PROVE LocationError(gps, b) \in Errors \cup {"NONE"}
BY DEF LocationError, Errors

\* A worker goes on without touching the tables other than SecurityEvent.
LEMMA ProceedStep ==
    ASSUME IInv, NEW w \in Workers, NEW pc \in {"in.judge", "out.judge", "out.save"},
           NEW row \in Row \cup {NoRow}, Proceed(w, pc, row),
           req[w].pc # "idle",
           pc # "in.judge" => /\ row \in Row
                              /\ row.date = DateOf(req[w].at)
                              /\ \E r \in rows : SameEvidence(r, row),
           pc = "out.judge" => row.outTime = Null,
           pc = "out.save" => row.outTime = req[w].at,
           events' \subseteq Event, UNCHANGED <<rows, nextId, now, admin>>
    PROVE IInv'
<1>1. req' \in [Workers -> Request]
  BY DEF IInv, TypeOK, Proceed, Request, Replies
<1>2. TypeOK'
  BY <1>1 DEF IInv, TypeOK, admin
<1>3. /\ \A v \in Workers : v # w => req'[v] = req[v]
      /\ req'[w].pc = pc /\ req'[w].row = row
      /\ req'[w].gps = req[w].gps /\ req'[w].at = req[w].at
  BY DEF IInv, TypeOK, Proceed
<1>4. CopiesTyped'
  BY <1>3 DEF IInv, CopiesTyped, Inserting, Updating
<1>5. IdsUsed' /\ InsertsAreFresh'
  BY <1>3 DEF IInv, IdsUsed, InsertsAreFresh, Inserting
<1>6. CopiesAgree'
  BY <1>3 DEF IInv, CopiesAgree, SameEvidence, Updating, admin
<1>7. IdsUnique' /\ OneRowPerDay' /\ RowWithinItsDay'
  BY DEF IInv, IdsUnique, OneRowPerDay, RowWithinItsDay
<1>8. QED
  BY <1>2, <1>4, <1>5, <1>6, <1>7 DEF IInv

\* check_in's query, with its early return.
LEMMA FindForCheckInStep ==
    ASSUME IInv, NEW w \in Workers, FindForCheckIn(w) PROVE IInv'
<1>1. events' \subseteq Event /\ UNCHANGED <<rows, nextId, now, admin>>
  BY DEF IInv, TypeOK, FindForCheckIn
<1>2. CASE Answer(w, "ALREADY_CHECKED_IN")
  BY <1>1, <1>2, AnswerStep DEF Replies, Errors
<1>3. CASE Proceed(w, "in.judge", NoRow)
  BY <1>1, <1>3, ProceedStep DEF FindForCheckIn
<1>4. QED
  BY <1>2, <1>3 DEF FindForCheckIn

\* check_out's query, with its two early returns.
LEMMA FindForCheckOutStep ==
    ASSUME IInv, NEW w \in Workers, FindForCheckOut(w) PROVE IInv'
<1>1. events' \subseteq Event /\ UNCHANGED <<rows, nextId, now, admin>>
  BY DEF IInv, TypeOK, FindForCheckOut
<1>2. CASE Answer(w, "NOT_CHECKED_IN_YET") \/ Answer(w, "ALREADY_CHECKED_OUT")
  BY <1>1, <1>2, AnswerStep DEF Replies, Errors
<1>3. ASSUME NEW r \in RowsOfDay(req[w].emp, DateOf(req[w].at)),
             ~AlreadyOut(r), Proceed(w, "out.judge", r)
      PROVE IInv'
  <2>1. r \in rows /\ r \in Row /\ r.date = DateOf(req[w].at) /\ r.outTime = Null
    BY <1>3 DEF IInv, TypeOK, RowsOfDay, AlreadyOut
  <2>2. SameEvidence(r, r)
    BY DEF SameEvidence
  <2>3. req[w].pc # "idle"
    BY DEF FindForCheckOut
  <2>4. QED
    BY <1>1, <1>3, <2>1, <2>2, <2>3, ProceedStep
<1>4. QED
  BY <1>2, <1>3 DEF FindForCheckOut

\* A refused reading, or a branch that vanished.
LEMMA JudgeFailsStep ==
    ASSUME IInv, NEW w \in Workers, NEW b, NEW error \in Errors \cup {"NONE"},
           JudgeFails(w, b, error), UNCHANGED <<rows, nextId, now, admin>>
    PROVE IInv'
<1>1. events' \subseteq Event
  BY EventsTyped DEF IInv, TypeOK, JudgeFails
<1>2. Answer(w, "SERVER_ERROR") \/ Answer(w, error)
  BY DEF JudgeFails
<1>3. QED
  BY <1>1, <1>2, AnswerStep DEF Replies, Errors

\* The row check_in builds gets a primary key of its own.
LEMMA JudgeCheckInStep ==
    ASSUME IInv, NEW w \in Workers, JudgeCheckIn(w) PROVE IInv'
<1> DEFINE q     == req[w]
           error == LocationError(q.gps, q.branch)
           late  == MinutesLate(q.at, DateOf(q.at), q.shift, rule.late)
           row   == [id |-> nextId, emp |-> q.emp, date |-> DateOf(q.at),
                     branch |-> q.branch, inTime |-> q.at, inGps |-> q.gps,
                     late |-> late, outTime |-> Null, outGps |-> NoReading,
                     early |-> 0, over |-> 0, worked |-> 0,
                     status |-> CheckInStatus(late)]
<1>1. UNCHANGED <<rows, now, admin>> /\ q.pc = "in.judge"
  BY DEF JudgeCheckIn
<1>2. CASE JudgeFails(w, q.branch, error) /\ UNCHANGED nextId
  BY <1>1, <1>2, ErrorsTyped, JudgeFailsStep
<1>3. CASE /\ JudgePasses(q, q.branch, error) /\ Proceed(w, "in.save", row)
           /\ nextId' = nextId + 1
  <2>1. /\ q.at \in Nat /\ q.emp \in Employees /\ q.branch \in Branches \cup {NoBranch}
        /\ q.shift \in Shift \cup {NoShift} /\ rule.late \in Nat /\ nextId \in Nat
        /\ q.gps \in Readings
    BY <1>1, AttendanceAssumption DEF IInv, TypeOK, CopiesTyped, Request
  <2>2. DateOf(q.at) \in Nat
    BY <2>1, DateNat
  <2>3. late \in Nat
    BY <2>1, <2>2, MinutesNat
  <2>4. CheckInStatus(late) \in Status
    BY <2>3, StatusTyped
  <2>5. row \in Row
    <3> HIDE DEF late
    <3> QED BY <2>1, <2>2, <2>3, <2>4 DEF Row
  <2>6. row.id = nextId /\ row.outTime = Null /\ row.date = DateOf(row.inTime)
    OBVIOUS
  <2> HIDE DEF row
  <2>7. /\ \A v \in Workers : v # w => req'[v] = req[v]
        /\ req'[w].pc = "in.save" /\ req'[w].row = row /\ req'[w].gps = q.gps
    BY <1>3 DEF IInv, TypeOK, Proceed
  <2>8. req' \in [Workers -> Request]
    BY <1>3, <2>1, <2>5 DEF IInv, TypeOK, Proceed, Request, Replies
  <2>9. events' \subseteq Event
    BY <1>3, EventsTyped DEF IInv, TypeOK, JudgePasses
  <2>10. TypeOK'
    BY <1>1, <1>3, <2>1, <2>8, <2>9 DEF IInv, TypeOK, admin
  <2>11. CopiesTyped'
    BY <2>1, <2>5, <2>6, <2>7 DEF IInv, CopiesTyped, Inserting, Updating
  <2>12. IdsUsed'
    BY <1>1, <1>3, <2>1, <2>5, <2>6, <2>7
       DEF IInv, TypeOK, CopiesTyped, IdsUsed, Inserting, Row
  <2>13. InsertsAreFresh'
    BY <1>1, <1>3, <2>1, <2>6, <2>7
       DEF IInv, TypeOK, IdsUsed, InsertsAreFresh, Inserting, Row
  <2>14. CopiesAgree'
    BY <1>1, <2>7 DEF IInv, CopiesAgree, SameEvidence, Updating, admin
  <2>15. IdsUnique' /\ OneRowPerDay' /\ RowWithinItsDay'
    BY <1>1 DEF IInv, IdsUnique, OneRowPerDay, RowWithinItsDay
  <2>16. QED
    BY <2>10, <2>11, <2>12, <2>13, <2>14, <2>15 DEF IInv
<1>4. QED
  BY <1>2, <1>3 DEF JudgeCheckIn

\* The INSERT, and the constraints that stop it.
LEMMA SaveCheckInStep ==
    ASSUME IInv, NEW w \in Workers, SaveCheckIn(w) PROVE IInv'
<1> DEFINE row == req[w].row
<1>1. UNCHANGED <<nextId, events, now, admin>> /\ req[w].pc = "in.save"
  BY DEF SaveCheckIn
<1>2. events' \subseteq Event
  BY <1>1 DEF IInv, TypeOK
<1>3. CASE Answer(w, "SERVER_ERROR") /\ UNCHANGED rows
  BY <1>1, <1>2, <1>3, AnswerStep DEF Replies, Errors
<1>4. CASE Answer(w, "CREATED") /\ rows' = rows \cup {row} /\ UniqueDay(row)
  <2>1. row \in Row /\ row.outTime = Null /\ row.date = DateOf(row.inTime)
    BY <1>1 DEF IInv, CopiesTyped, Inserting
  <2>2. row.id < nextId /\ \A r \in rows : r.id # row.id
    BY <1>1 DEF IInv, IdsUsed, InsertsAreFresh, Inserting
  <2>3. req' \in [Workers -> Request]
    BY <1>4 DEF IInv, TypeOK, Answer, Answered, Request, Replies
  <2>4. \A v \in Workers : req'[v].pc # "idle" => v # w /\ req'[v] = req[v]
    BY <1>4 DEF IInv, TypeOK, Answer, Answered, Request
  <2>5. TypeOK'
    BY <1>1, <1>4, <2>1, <2>3 DEF IInv, TypeOK, admin
  <2>6. CopiesTyped'
    BY <2>4 DEF IInv, CopiesTyped, Inserting, Updating
  <2>7. IdsUnique' /\ IdsUsed'
    BY <1>1, <1>4, <2>2, <2>4 DEF IInv, IdsUnique, IdsUsed, Inserting
  <2>8. InsertsAreFresh'
    BY <1>1, <1>4, <2>4 DEF IInv, InsertsAreFresh, Inserting
  <2>9. CopiesAgree'
    BY <1>1, <1>4, <2>4 DEF IInv, CopiesAgree, SameEvidence, Updating, admin
  <2>10. OneRowPerDay'
    BY <1>4, <2>2 DEF IInv, OneRowPerDay, UniqueDay
  <2>11. RowWithinItsDay'
    BY <1>4, <2>1 DEF IInv, RowWithinItsDay
  <2>12. QED
    BY <2>5, <2>6, <2>7, <2>8, <2>9, <2>10, <2>11 DEF IInv
<1>5. QED
  BY <1>3, <1>4 DEF SaveCheckIn

\* The copy check_out will write back differs from the row only in its check-out.
LEMMA JudgeCheckOutStep ==
    ASSUME IInv, NEW w \in Workers, JudgeCheckOut(w) PROVE IInv'
<1> DEFINE q     == req[w]
           b     == CheckOutBranch(q)
           error == LocationError(q.gps, b)
           early == MinutesEarlyDeparture(q.at, DateOf(q.at), q.shift, rule.early)
           over  == MinutesOvertime(q.at, DateOf(q.at), q.shift, rule.over)
           row   == Closed(q.row, q.at, q.gps, early, over)
<1>1. UNCHANGED <<rows, nextId, now, admin>> /\ q.pc = "out.judge"
  BY DEF JudgeCheckOut
<1>2. CASE JudgeFails(w, b, error)
  BY <1>1, <1>2, ErrorsTyped, JudgeFailsStep
<1>3. CASE JudgePasses(q, b, error) /\ Proceed(w, "out.save", row)
  <2>1. /\ q.at \in Nat /\ q.gps \in Readings /\ q.row \in Row
        /\ q.shift \in Shift \cup {NoShift}
        /\ rule.early \in Nat /\ rule.over \in Nat
        /\ q.row.date = DateOf(q.at)
    BY <1>1, AttendanceAssumption DEF IInv, TypeOK, CopiesTyped, Updating, Request
  <2>2. early \in Nat /\ over \in Nat
    BY <2>1, DateNat, MinutesNat
  <2> HIDE DEF early, over
  <2>3. q.row.inTime \in Nat /\ q.row.late \in Nat
    BY <2>1 DEF Row
  <2>4. WorkingMinutes(q.row.inTime, q.at) \in Nat
    BY <2>1, <2>3, WholeMinutesInt DEF WorkingMinutes
  <2>5. FinalStatus(q.row.late, early, over) \in Status
    BY <2>2, <2>3, StatusTyped
  <2>6. row \in Row
    BY <2>1, <2>2, <2>4, <2>5 DEF Row, Closed
  <2>7. row.outTime = q.at /\ row.date = DateOf(q.at)
    BY <2>1 DEF Closed
  <2>8. \E r \in rows : SameEvidence(r, row)
    BY <1>1 DEF IInv, CopiesAgree, Updating, SameEvidence, Closed
  <2>9. events' \subseteq Event
    BY <1>3, EventsTyped DEF IInv, TypeOK, JudgePasses
  <2> HIDE DEF row
  <2>10. QED
    BY <1>1, <1>3, <2>6, <2>7, <2>8, <2>9, ProceedStep
<1>4. QED
  BY <1>2, <1>3 DEF JudgeCheckOut

\* The full-row UPDATE replaces the one row it is a copy of.
LEMMA SaveCheckOutStep ==
    ASSUME IInv, NEW w \in Workers, SaveCheckOut(w) PROVE IInv'
<1> DEFINE row == req[w].row
<1>1. UNCHANGED <<nextId, events, now, admin>> /\ req[w].pc = "out.save"
  BY DEF SaveCheckOut
<1>2. events' \subseteq Event
  BY <1>1 DEF IInv, TypeOK
<1>3. CASE Answer(w, "SERVER_ERROR") /\ UNCHANGED rows
  BY <1>1, <1>2, <1>3, AnswerStep DEF Replies, Errors
<1>4. CASE /\ Answer(w, "CREATED") /\ ForeignKeyHolds(row)
           /\ rows' = {IF r.id = row.id THEN row ELSE r : r \in rows}
  <2>1. row \in Row /\ row.date = DateOf(req[w].at) /\ row.outTime = req[w].at
    BY <1>1 DEF IInv, CopiesTyped, Updating
  <2>2. PICK old \in rows : SameEvidence(old, row)
    BY <1>1 DEF IInv, CopiesAgree, Updating
  <2>3. rows' = (rows \ {old}) \cup {row}
    BY <1>4, <2>2 DEF IInv, IdsUnique, SameEvidence
  <2>4. req' \in [Workers -> Request]
    BY <1>4 DEF IInv, TypeOK, Answer, Answered, Request, Replies
  <2>5. \A v \in Workers : req'[v].pc # "idle" => v # w /\ req'[v] = req[v]
    BY <1>4 DEF IInv, TypeOK, Answer, Answered, Request
  <2>6. TypeOK'
    BY <1>1, <2>1, <2>3, <2>4 DEF IInv, TypeOK, admin
  <2>7. CopiesTyped'
    BY <2>5 DEF IInv, CopiesTyped, Inserting, Updating
  <2>8. IdsUnique' /\ IdsUsed' /\ InsertsAreFresh'
    BY <1>1, <2>2, <2>3, <2>5
       DEF IInv, IdsUnique, IdsUsed, InsertsAreFresh, Inserting, SameEvidence
  <2>9. CopiesAgree'
    <3> SUFFICES ASSUME NEW v \in Workers, Updating(v)'
                 PROVE \E r \in rows' : SameEvidence(r, req'[v].row)
      BY <1>1 DEF CopiesAgree, SameEvidence, admin
    <3>1. v # w /\ req'[v] = req[v] /\ Updating(v)
      BY <2>5 DEF Updating
    <3>2. PICK r \in rows : SameEvidence(r, req[v].row)
      BY <3>1 DEF IInv, CopiesAgree
    <3>3. CASE r # old
      BY <2>3, <3>1, <3>2, <3>3
    <3>4. CASE r = old
      <4>1. SameEvidence(row, req[v].row)
        BY <1>4, <2>1, <2>2, <3>2, <3>4 DEF SameEvidence, ForeignKeyHolds
      <4>2. QED
        BY <2>3, <3>1, <4>1
    <3>5. QED
      BY <3>3, <3>4
  <2>10. OneRowPerDay'
    BY <2>2, <2>3 DEF IInv, OneRowPerDay, SameEvidence
  <2>11. RowWithinItsDay'
    BY <2>1, <2>2, <2>3 DEF IInv, RowWithinItsDay, SameEvidence
  <2>12. QED
    BY <2>6, <2>7, <2>8, <2>9, <2>10, <2>11 DEF IInv
<1>5. QED
  BY <1>3, <1>4 DEF SaveCheckOut

\* Deleting a branch clears it in the rows that carry it, and only shrinks branches.
LEMMA DeleteBranchStep ==
    ASSUME IInv, NEW b \in Branches, DeleteBranch(b) PROVE IInv'
<1> DEFINE Cleared(r) == IF r.branch = b THEN [r EXCEPT !.branch = NoBranch] ELSE r
<1>1. /\ UNCHANGED <<nextId, events, req, now>>
      /\ branches' = branches \ {b} /\ rows' = {Cleared(r) : r \in rows}
      /\ shiftOf' = shiftOf /\ rule' = rule
      /\ branchOf' = [e \in Employees |-> IF branchOf[e] = b THEN NoBranch ELSE branchOf[e]]
      /\ edits < MaxEdits /\ edits' = edits + 1
  BY DEF DeleteBranch, Edit
<1>2. \A r \in rows : /\ Cleared(r) \in Row
                      /\ Cleared(r).id = r.id /\ Cleared(r).emp = r.emp
                      /\ Cleared(r).date = r.date /\ Cleared(r).inTime = r.inTime
                      /\ Cleared(r).inGps = r.inGps /\ Cleared(r).late = r.late
                      /\ Cleared(r).outTime = r.outTime
                      /\ Cleared(r).branch = IF r.branch = b THEN NoBranch ELSE r.branch
  BY DEF IInv, TypeOK, Row
<1> HIDE DEF Cleared
<1>3. TypeOK'
  BY <1>1, <1>2, AttendanceAssumption DEF IInv, TypeOK
<1>4. CopiesTyped'
  BY <1>1 DEF IInv, CopiesTyped, Inserting, Updating
<1>5. IdsUnique' /\ IdsUsed' /\ InsertsAreFresh'
  BY <1>1, <1>2 DEF IInv, IdsUnique, IdsUsed, InsertsAreFresh, Inserting
<1>6. CopiesAgree'
  <2> SUFFICES ASSUME NEW w \in Workers, Updating(w)
               PROVE \E s \in rows' : SameEvidence(s, req[w].row)'
    BY <1>1 DEF CopiesAgree, Updating, SameEvidence
  <2>1. PICK r \in rows : SameEvidence(r, req[w].row)
    BY DEF IInv, CopiesAgree
  <2>2. Cleared(r) \in rows'
    BY <1>1
  <2>3. SameEvidence(Cleared(r), req[w].row)'
    BY <1>1, <1>2, <2>1, AttendanceAssumption DEF SameEvidence
  <2>4. QED
    BY <2>2, <2>3
<1>7. OneRowPerDay' /\ RowWithinItsDay'
  BY <1>1, <1>2 DEF IInv, OneRowPerDay, RowWithinItsDay
<1>8. QED
  BY <1>3, <1>4, <1>5, <1>6, <1>7 DEF IInv

\* The other steps leave the rows, the branches and the requests alone.
LEMMA QuietStep ==
    ASSUME IInv, UNCHANGED <<rows, nextId, branches, req>>,
           branchOf' \in [Employees -> Branches \cup {NoBranch}],
           shiftOf' \in [Employees -> Shifts \cup {NoShift}],
           rule' \in Rules, events' = events, now' \in 0 .. MaxTime, edits' \in 0 .. MaxEdits
    PROVE IInv'
BY DEF IInv, TypeOK, CopiesTyped, IdsUnique, IdsUsed, InsertsAreFresh, CopiesAgree,
       OneRowPerDay, RowWithinItsDay, SameEvidence, Inserting, Updating

\* Assignments, rule edits and the clock.
LEMMA EditStep ==
    ASSUME IInv,
           \/ \E e \in Employees, b \in Branches : AssignBranch(e, b)
           \/ \E e \in Employees, s \in Shifts \cup {NoShift} : AssignShift(e, s)
           \/ \E thresholds \in Rules : UpdateRule(thresholds)
           \/ Tick
    PROVE IInv'
<1> USE AttendanceAssumption DEF IInv, TypeOK, Edit, admin
<1>1. CASE \E e \in Employees, b \in Branches : AssignBranch(e, b)
  BY <1>1, QuietStep DEF AssignBranch
<1>2. CASE \E e \in Employees, s \in Shifts \cup {NoShift} : AssignShift(e, s)
  BY <1>2, QuietStep DEF AssignShift
<1>3. CASE \E thresholds \in Rules : UpdateRule(thresholds)
  BY <1>3, QuietStep DEF UpdateRule
<1>4. CASE Tick
  BY <1>4, QuietStep DEF Tick
<1>5. QED
  BY <1>1, <1>2, <1>3, <1>4

\* Every step of the system preserves the invariant.
LEMMA NextPreserves == IInv /\ [Next]_vars => IInv'
<1> SUFFICES ASSUME IInv, [Next]_vars PROVE IInv'
  OBVIOUS
<1>1. ASSUME NEW w \in Workers, NEW e \in Employees, NEW gps \in Readings,
             BeginCheckIn(w, e, gps) \/ BeginCheckOut(w, e, gps)
      PROVE IInv'
  BY <1>1, BeginStep DEF BeginCheckIn, BeginCheckOut
<1>2. ASSUME NEW w \in Workers, Handle(w) PROVE IInv'
  BY <1>2, FindForCheckInStep, JudgeCheckInStep, SaveCheckInStep,
     FindForCheckOutStep, JudgeCheckOutStep, SaveCheckOutStep DEF Handle
<1>3. CASE \E b \in Branches : DeleteBranch(b)
  BY <1>3, DeleteBranchStep
<1>4. CASE UNCHANGED vars
  <2>1. UNCHANGED <<rows, nextId, branches, req, branchOf, shiftOf, rule, events, now, edits>>
    BY <1>4 DEF vars, admin
  <2>2. QED
    BY <2>1, QuietStep DEF IInv, TypeOK
<1>5. QED
  BY <1>1, <1>2, <1>3, <1>4, EditStep DEF Next

\* The inductive invariant holds of every reachable state.
THEOREM Invariance == Spec => []IInv
BY InitEstablishes, NextPreserves, PTL DEF Spec

-----------------------------------------------------------------------------
(* What the runs check on small instances. *)

\* Variables keep their types; in particular no stored count of minutes is negative.
THEOREM TypeCorrect == Spec => []TypeOK
<1>1. IInv => TypeOK
  BY DEF IInv
<1>2. QED
  BY <1>1, Invariance, PTL

\* However many check-ins overlap, an employee has one row a day.
THEOREM OneRowPerDayHolds == Spec => []OneRowPerDay
<1>1. IInv => OneRowPerDay
  BY DEF IInv
<1>2. QED
  BY <1>1, Invariance, PTL

\* Both times of a row are of the row's date.
THEOREM RowWithinItsDayHolds == Spec => []RowWithinItsDay
<1>1. IInv => RowWithinItsDay
  BY DEF IInv
<1>2. QED
  BY <1>1, Invariance, PTL

\* No step alters what a check-in recorded or reopens a closed day.
THEOREM CheckInEvidenceFrozenHolds == Spec => CheckInEvidenceFrozen
<1> DEFINE Kept == \A r \in rows : \E s \in rows' :
                     SameCheckIn(r, s) /\ (r.outTime # Null => s.outTime # Null)
<1>1. IInv /\ [Next]_vars => [Kept]_vars
  <2> SUFFICES ASSUME IInv, [Next]_vars, NEW r \in rows
               PROVE \E s \in rows' :
                       SameCheckIn(r, s) /\ (r.outTime # Null => s.outTime # Null)
    OBVIOUS
  <2>1. SameCheckIn(r, r)
    BY DEF SameCheckIn
  <2>2. CASE r \in rows'
    BY <2>1, <2>2
  <2>3. ASSUME NEW w \in Workers, SaveCheckOut(w), r \notin rows'
        PROVE \E s \in rows' :
                SameCheckIn(r, s) /\ (r.outTime # Null => s.outTime # Null)
    <3> DEFINE row == req[w].row
    <3>1. /\ rows' = {IF x.id = row.id THEN row ELSE x : x \in rows}
          /\ req[w].pc = "out.save" /\ ForeignKeyHolds(row)
      BY <2>3 DEF SaveCheckOut
    <3>2. r.id = row.id /\ row \in rows'
      BY <2>3, <3>1
    <3>3. PICK old \in rows : SameEvidence(old, row)
      BY <3>1 DEF IInv, CopiesAgree, Updating
    <3>4. old = r
      BY <3>2, <3>3 DEF IInv, IdsUnique, SameEvidence
    <3>5. SameCheckIn(r, row)
      BY <3>1, <3>3, <3>4 DEF SameEvidence, SameCheckIn, ForeignKeyHolds
    <3>6. row.outTime = req[w].at /\ req[w].at \in Nat
      BY <3>1 DEF IInv, TypeOK, CopiesTyped, Request
    <3>7. QED
      BY <3>2, <3>5, <3>6 DEF Null
  <2>4. ASSUME NEW b \in Branches, DeleteBranch(b)
        PROVE \E s \in rows' :
                SameCheckIn(r, s) /\ (r.outTime # Null => s.outTime # Null)
    <3> DEFINE s == IF r.branch = b THEN [r EXCEPT !.branch = NoBranch] ELSE r
    <3>1. s \in rows'
      BY <2>4 DEF DeleteBranch
    <3>2. SameCheckIn(r, s) /\ s.outTime = r.outTime
      BY DEF IInv, TypeOK, Row, SameCheckIn
    <3>3. QED
      BY <3>1, <3>2
  <2>5. r \in rows' \/ (\E w \in Workers : SaveCheckOut(w))
                     \/ (\E b \in Branches : DeleteBranch(b))
    BY DEF Next, Handle, vars, Begin, BeginCheckIn, BeginCheckOut, FindForCheckIn,
           JudgeCheckIn, SaveCheckIn, FindForCheckOut, JudgeCheckOut, AssignBranch,
           AssignShift, UpdateRule, Tick
  <2>6. QED
    BY <2>2, <2>3, <2>4, <2>5
<1>2. QED
  BY <1>1, Invariance, PTL DEF Spec, CheckInEvidenceFrozen

\* No step lets a worker take hold of a row that is checked out already.
LEMMA NoneTakesHold ==
    ASSUME IInv, [Next]_vars, NEW r \in rows, r.outTime # Null, NEW v \in Workers,
           Closing(v, r.id)'
    PROVE Closing(v, r.id)
<1>0. req \in [Workers -> Request]
  BY DEF IInv, TypeOK
<1>1. CASE req'[v] = req[v]
  BY <1>1 DEF Closing
<1>2. ASSUME NEW w \in Workers, NEW e \in Employees, NEW gps \in Readings,
             BeginCheckIn(w, e, gps) \/ BeginCheckOut(w, e, gps), req'[v] # req[v]
      PROVE FALSE
  BY <1>0, <1>2 DEF BeginCheckIn, BeginCheckOut, Begin, Closing
<1>3. ASSUME NEW w \in Workers, FindForCheckOut(w), req'[v] # req[v] PROVE FALSE
  <2>1. v = w
    BY <1>0, <1>3 DEF FindForCheckOut, Answer, Proceed
  <2>2. PICK c \in rows : ~AlreadyOut(c) /\ req'[w].row = c
    BY <1>0, <1>3, <2>1 DEF FindForCheckOut, RowsOfDay, Answer, Answered, Proceed, Closing
  <2>3. c.id = r.id
    BY <2>1, <2>2 DEF Closing
  <2>4. QED
    BY <2>2, <2>3 DEF IInv, IdsUnique, AlreadyOut
<1>4. ASSUME NEW w \in Workers, JudgeCheckOut(w), req'[v] # req[v] PROVE Closing(v, r.id)
  <2>1. v = w /\ req[w].pc = "out.judge"
    BY <1>0, <1>4 DEF JudgeCheckOut, JudgeFails, Answer, Proceed
  <2>2. \E t, gps, early, over : req'[w].row = Closed(req[w].row, t, gps, early, over)
    BY <1>0, <1>4, <2>1 DEF JudgeCheckOut, JudgeFails, Answer, Answered, Proceed, Closing
  <2>3. req'[w].row.id = req[w].row.id
    BY <2>2 DEF Closed
  <2>4. QED
    BY <2>1, <2>3 DEF Closing
<1>5. ASSUME NEW w \in Workers,
             FindForCheckIn(w) \/ JudgeCheckIn(w) \/ SaveCheckIn(w) \/ SaveCheckOut(w),
             req'[v] # req[v]
      PROVE FALSE
  BY <1>0, <1>5 DEF FindForCheckIn, JudgeCheckIn, SaveCheckIn, SaveCheckOut, JudgeFails,
                    Answer, Answered, Proceed, Closing
<1>6. \/ req'[v] = req[v]
      \/ \E w \in Workers, e \in Employees, gps \in Readings :
            BeginCheckIn(w, e, gps) \/ BeginCheckOut(w, e, gps)
      \/ \E w \in Workers : Handle(w)
  BY DEF Next, vars, DeleteBranch, AssignBranch, AssignShift, UpdateRule, Edit, Tick
<1>7. QED
  BY <1>1, <1>2, <1>3, <1>4, <1>5, <1>6 DEF Handle

\* However check-outs overlap, the check-out of a day changes only through a request
\* that had read the row while the day was open.
THEOREM CheckOutOnceHolds == Spec => CheckOutOnce
<1> DEFINE Final == \A r \in rows : r.outTime # Null =>
                /\ \A w \in Workers : Closing(w, r.id)' => Closing(w, r.id)
                /\ \/ \E w \in Workers : Closing(w, r.id)
                   \/ \E s \in rows' : /\ s.id = r.id
                                       /\ s.outTime = r.outTime /\ s.outGps = r.outGps
<1>1. IInv /\ [Next]_vars => [Final]_vars
  <2> SUFFICES ASSUME IInv, [Next]_vars, NEW r \in rows, r.outTime # Null,
                      \A w \in Workers : ~Closing(w, r.id)
               PROVE \E s \in rows' : /\ s.id = r.id
                                      /\ s.outTime = r.outTime /\ s.outGps = r.outGps
    BY NoneTakesHold
  <2>1. CASE r \in rows'
    BY <2>1
  <2>2. ASSUME NEW w \in Workers, SaveCheckOut(w) PROVE r \in rows'
    BY <2>2 DEF SaveCheckOut, Closing
  <2>3. ASSUME NEW b \in Branches, DeleteBranch(b)
        PROVE \E s \in rows' : s.id = r.id /\ s.outTime = r.outTime /\ s.outGps = r.outGps
    <3> DEFINE s == IF r.branch = b THEN [r EXCEPT !.branch = NoBranch] ELSE r
    <3>1. s \in rows'
      BY <2>3 DEF DeleteBranch
    <3>2. s.id = r.id /\ s.outTime = r.outTime /\ s.outGps = r.outGps
      BY DEF IInv, TypeOK, Row
    <3>3. QED
      BY <3>1, <3>2
  <2>4. r \in rows' \/ (\E w \in Workers : SaveCheckOut(w))
                     \/ (\E b \in Branches : DeleteBranch(b))
    BY DEF Next, Handle, vars, Begin, BeginCheckIn, BeginCheckOut, FindForCheckIn,
           JudgeCheckIn, SaveCheckIn, FindForCheckOut, JudgeCheckOut, AssignBranch,
           AssignShift, UpdateRule, Tick
  <2>5. QED
    BY <2>1, <2>2, <2>3, <2>4
<1>2. QED
  BY <1>1, Invariance, PTL DEF Spec, CheckOutOnce

-----------------------------------------------------------------------------
(***************************************************************************)
(* A closed day is consistent: the copy that a check-out is about to save  *)
(* is, however old it is, because all the status depends on is in the copy *)
(* and no step changes part of it.                                         *)
(***************************************************************************)

\* The copy a check-out is about to save tells its day.
CopiesConsistent ==
    \A w \in Workers : req[w].pc = "out.save" =>
        StatusTellsTheDay(req[w].row) /\ CheckedOutAtCapturedBranch(req[w].row)

CInv == IInv /\ CopiesConsistent /\ ClosedDayIsConsistent

\* A positive number of whole minutes takes a positive number of seconds.
LEMMA PositiveMinutes ==
    ASSUME NEW s \in Int, WholeMinutes(s) > 0 PROVE s > 0
<1>1. MinuteLength \in Nat /\ MinuteLength > 0
  BY LengthsAssumption
<1>2. \A n \in Nat, m \in Int : n > 0 /\ m <= 0 => m \div n <= 0
  OBVIOUS
<1>3. s <= 0 => WholeMinutes(s) <= 0
  BY <1>1, <1>2 DEF WholeMinutes
<1>4. WholeMinutes(s) \in Int
  BY WholeMinutesInt
<1>5. QED
  BY <1>3, <1>4

\* Nobody leaves early and works overtime on the same day.
LEMMA EarlyOrOver ==
    ASSUME NEW t \in Nat, NEW date \in Nat, NEW shift \in Shift \cup {NoShift},
           NEW early \in Nat, NEW over \in Nat
    PROVE \/ MinutesEarlyDeparture(t, date, shift, early) = 0
          \/ MinutesOvertime(t, date, shift, over) = 0
<1>1. CASE shift = NoShift
  BY <1>1 DEF MinutesOvertime
<1>2. CASE shift # NoShift
  <2> DEFINE end == ExpectedEnd(date, shift)
  <2>1. end \in Int
    BY <1>2, ExpectedInt
  <2> HIDE DEF end
  <2>2. WholeMinutes(end - t) \in Int /\ WholeMinutes(t - end) \in Int
    BY <2>1, WholeMinutesInt
  <2>3. WholeMinutes(end - t) <= 0 \/ WholeMinutes(t - end) <= 0
    <3>1. end - t \in Int /\ t - end \in Int /\ (end - t <= 0 \/ t - end <= 0)
      BY <2>1
    <3>2. QED
      BY <2>2, <3>1, PositiveMinutes
  <2>4. PastGrace(WholeMinutes(end - t), early) = 0 \/ PastGrace(WholeMinutes(t - end), over) = 0
    BY <2>2, <2>3 DEF PastGrace
  <2>5. QED
    BY <1>2, <2>4 DEF MinutesEarlyDeparture, MinutesOvertime, end
<1>3. QED
  BY <1>1, <1>2

\* The copy JudgeCheckOut builds tells its day and passed the fence it captured.
LEMMA JudgedConsistent ==
    ASSUME IInv, NEW w \in Workers, JudgeCheckOut(w), req'[w].pc = "out.save"
    PROVE StatusTellsTheDay(req'[w].row) /\ CheckedOutAtCapturedBranch(req'[w].row)
<1> DEFINE q     == req[w]
           b     == CheckOutBranch(q)
           error == LocationError(q.gps, b)
           early == MinutesEarlyDeparture(q.at, DateOf(q.at), q.shift, rule.early)
           over  == MinutesOvertime(q.at, DateOf(q.at), q.shift, rule.over)
           row   == Closed(q.row, q.at, q.gps, early, over)
<1>1. q.pc = "out.judge"
  BY DEF JudgeCheckOut
<1>2. \A reply : ~Answer(w, reply)
  BY DEF Answer, Answered, IInv, TypeOK
<1>3. JudgePasses(q, b, error) /\ Proceed(w, "out.save", row)
  BY <1>2 DEF JudgeCheckOut, JudgeFails
<1>4. /\ q.at \in Nat /\ q.row \in Row /\ q.shift \in Shift \cup {NoShift}
      /\ rule.early \in Nat /\ rule.over \in Nat
  BY <1>1, AttendanceAssumption DEF IInv, TypeOK, CopiesTyped, Updating, Request
<1>5. /\ early \in Nat /\ over \in Nat /\ (early = 0 \/ over = 0)
  <2>1. DateOf(q.at) \in Nat
    BY <1>4, DateNat
  <2>2. early \in Nat /\ over \in Nat
    BY <1>4, <2>1, MinutesNat
  <2>3. early = 0 \/ over = 0
    BY <1>4, <2>1, EarlyOrOver
  <2>4. QED
    BY <2>2, <2>3
<1>6. q.row.late \in Nat
  BY <1>4 DEF Row
<1>7. req'[w].row = row
  BY <1>3 DEF IInv, TypeOK, Proceed
<1>8. /\ row.late = q.row.late /\ row.early = early /\ row.over = over
      /\ row.status = FinalStatus(q.row.late, early, over)
      /\ row.branch = b /\ row.outGps = q.gps
  BY DEF Closed, CheckOutBranch
<1>9. LocationError(row.outGps, row.branch) = "NONE"
  BY <1>3, <1>8 DEF JudgePasses
<1> HIDE DEF row, early, over
<1>10. StatusTellsTheDay(row)
  BY <1>5, <1>6, <1>8 DEF StatusTellsTheDay, FinalStatus
<1>11. QED
  BY <1>7, <1>9, <1>10 DEF CheckedOutAtCapturedBranch

\* A worker comes to hold a closed copy only by judging a check-out.
LEMMA CopiesConsistentKept ==
    ASSUME IInv, CopiesConsistent, [Next]_vars PROVE CopiesConsistent'
<1> SUFFICES ASSUME NEW v \in Workers, req'[v].pc = "out.save"
             PROVE StatusTellsTheDay(req'[v].row) /\ CheckedOutAtCapturedBranch(req'[v].row)
  BY DEF CopiesConsistent, StatusTellsTheDay, CheckedOutAtCapturedBranch
<1>1. CASE JudgeCheckOut(v)
  BY <1>1, JudgedConsistent
<1>2. CASE req'[v] = req[v]
  BY <1>2 DEF CopiesConsistent
<1>3. ASSUME NEW w \in Workers, NEW reply, Answer(w, reply) PROVE req'[v] = req[v]
  BY <1>3 DEF Answer, Answered, IInv, TypeOK
<1>4. ASSUME NEW w \in Workers, NEW pc \in {"in.judge", "in.save", "out.judge"}, NEW row,
             Proceed(w, pc, row)
      PROVE req'[v] = req[v]
  BY <1>4 DEF Proceed, IInv, TypeOK
<1>5. ASSUME NEW w \in Workers, NEW e \in Employees, NEW gps \in Readings,
             BeginCheckIn(w, e, gps) \/ BeginCheckOut(w, e, gps)
      PROVE req'[v] = req[v]
  BY <1>5 DEF BeginCheckIn, BeginCheckOut, Begin, IInv, TypeOK
<1>6. ASSUME NEW w \in Workers, JudgeCheckOut(w) PROVE req'[v] = req[v] \/ v = w
  BY <1>6, <1>3 DEF JudgeCheckOut, JudgeFails, Proceed, IInv, TypeOK
<1>7. ASSUME NEW w \in Workers, FindForCheckIn(w) \/ FindForCheckOut(w) PROVE req'[v] = req[v]
  BY <1>7, <1>3, <1>4 DEF FindForCheckIn, FindForCheckOut
<1>8. ASSUME NEW w \in Workers, JudgeCheckIn(w) PROVE req'[v] = req[v]
  BY <1>8, <1>3, <1>4 DEF JudgeCheckIn, JudgeFails
<1>9. ASSUME NEW w \in Workers, SaveCheckIn(w) \/ SaveCheckOut(w) PROVE req'[v] = req[v]
  BY <1>9, <1>3 DEF SaveCheckIn, SaveCheckOut
<1>10. (\E w \in Workers : Handle(w)) => req'[v] = req[v] \/ JudgeCheckOut(v)
  BY <1>6, <1>7, <1>8, <1>9 DEF Handle
<1>11. (\/ \E b \in Branches : DeleteBranch(b)
        \/ \E e \in Employees, b \in Branches : AssignBranch(e, b)
        \/ \E e \in Employees, s \in Shifts \cup {NoShift} : AssignShift(e, s)
        \/ \E thresholds \in Rules : UpdateRule(thresholds)
        \/ Tick \/ UNCHANGED vars)
        => req' = req
  BY DEF DeleteBranch, AssignBranch, AssignShift, UpdateRule, Edit, Tick, vars
<1>12. QED
  BY <1>1, <1>2, <1>5, <1>10, <1>11 DEF Next

\* A closed row enters the table from such a copy; deleting a branch only frees it.
LEMMA ClosedDaysKept ==
    ASSUME IInv, CopiesConsistent, ClosedDayIsConsistent, [Next]_vars
    PROVE ClosedDayIsConsistent'
<1> SUFFICES ASSUME NEW r \in rows', r.outTime # Null
             PROVE StatusTellsTheDay(r) /\ CheckedOutAtCapturedBranch(r)
  BY DEF ClosedDayIsConsistent
<1>1. CASE r \in rows
  BY <1>1 DEF ClosedDayIsConsistent
<1>2. ASSUME NEW w \in Workers, SaveCheckIn(w) PROVE r \in rows
  BY <1>2 DEF SaveCheckIn, IInv, CopiesTyped, Inserting
<1>3. ASSUME NEW w \in Workers, SaveCheckOut(w), r \notin rows
      PROVE StatusTellsTheDay(r) /\ CheckedOutAtCapturedBranch(r)
  <2>1. req[w].pc = "out.save" /\ r = req[w].row
    BY <1>3 DEF SaveCheckOut
  <2>2. QED
    BY <2>1 DEF CopiesConsistent
<1>4. ASSUME NEW b \in Branches, DeleteBranch(b), r \notin rows
      PROVE StatusTellsTheDay(r) /\ CheckedOutAtCapturedBranch(r)
  <2>1. PICK s \in rows : r = [s EXCEPT !.branch = NoBranch]
    BY <1>4 DEF DeleteBranch
  <2>2. /\ r.outTime = s.outTime /\ r.status = s.status /\ r.late = s.late
        /\ r.early = s.early /\ r.over = s.over /\ r.branch = NoBranch
    BY <2>1 DEF IInv, TypeOK, Row
  <2>3. StatusTellsTheDay(s)
    BY <2>2 DEF ClosedDayIsConsistent
  <2>4. QED
    BY <2>2, <2>3 DEF StatusTellsTheDay, CheckedOutAtCapturedBranch
<1>5. \/ r \in rows \/ (\E w \in Workers : SaveCheckIn(w) \/ SaveCheckOut(w))
      \/ (\E b \in Branches : DeleteBranch(b))
  BY DEF Next, Handle, vars, Begin, BeginCheckIn, BeginCheckOut, FindForCheckIn,
         JudgeCheckIn, FindForCheckOut, JudgeCheckOut, AssignBranch, AssignShift,
         UpdateRule, Tick
<1>6. QED
  BY <1>1, <1>2, <1>3, <1>4, <1>5

\* Whatever shift, rule, branch or assignment was edited between check-in and
\* check-out, the status of a closed day is the one its minutes give, and its
\* check-out was within the fence of the branch its check-in captured.
THEOREM ClosedDayIsConsistentHolds == Spec => []ClosedDayIsConsistent
<1>1. Init => CInv
  BY InitEstablishes DEF Init, Answered, CInv, CopiesConsistent, ClosedDayIsConsistent
<1>2. CInv /\ [Next]_vars => CInv'
  BY NextPreserves, CopiesConsistentKept, ClosedDaysKept DEF CInv
<1>3. CInv => ClosedDayIsConsistent
  BY DEF CInv
<1>4. QED
  BY <1>1, <1>2, <1>3, PTL DEF Spec


-----------------------------------------------------------------------------
(***************************************************************************)
(* One request of each employee at a time.  However many workers serve     *)
(* others meanwhile, what a request read of its employee then stays true   *)
(* until it saves: nobody else adds or closes a row of that employee, so   *)
(* the row it found is still open, the day it found empty still is, and    *)
(* the row it took for the latest still is the latest.                     *)
(***************************************************************************)

\* No two requests of one employee overlap, as none do with a single worker.
OneRequestEach ==
    \A v, w \in Workers :
        req[v].pc # "idle" /\ req[w].pc # "idle" /\ req[v].emp = req[w].emp => v = w

\* Nothing is recorded of the future.
RowsPast == \A r \in rows : r.inTime <= now /\ r.outTime <= now

\* A day whose check-out is further from its check-in than anyone travels is flagged.
DayFlagged(r) ==
    /\ r.outTime > r.inTime
    /\ Distance(r.outGps.place, r.inGps.place) > MaxSpeed * (r.outTime - r.inTime)
    => Flagged(r.emp, r.outTime)

\* So is a check-in too far from the last location of row r.
ArrivalFlagged(r, gps, t) ==
    LET place == IF r.outTime = Null THEN r.inGps.place ELSE r.outGps.place
        since == IF r.outTime = Null THEN r.inTime ELSE r.outTime
    IN  Distance(gps.place, place) > MaxSpeed * (t - since) => Flagged(r.emp, t)

\* Row r is the employee's latest (the members of LatestRows).
Latest(r) == \A s \in rows : s.emp = r.emp => s.inTime <= r.inTime

\* What a request in progress knows and nobody else can change.
Steady(w) ==
    /\ req[w].pc # "idle" =>
          /\ req[w].at <= now
          /\ \A r \in rows : r.emp = req[w].emp
                             => r.inTime <= req[w].at /\ r.outTime <= req[w].at
    /\ req[w].pc \in {"in.judge", "in.save"} =>
          \A r \in rows : r.emp = req[w].emp => r.date # DateOf(req[w].at)
    /\ Inserting(w) =>
          /\ req[w].row.emp = req[w].emp /\ req[w].row.inTime = req[w].at
          /\ \A r \in rows : r.emp = req[w].emp /\ Latest(r) =>
                ArrivalFlagged(r, req[w].row.inGps, req[w].at)
    /\ Updating(w) =>
          /\ req[w].row.emp = req[w].emp
          /\ \E r \in rows : SameEvidence(r, req[w].row) /\ r.outTime = Null
    /\ req[w].pc = "out.save" => DayFlagged(req[w].row)

SerialInv ==
    /\ IInv /\ RowsPast
    /\ \A w \in Workers : Steady(w)
    /\ ImplausibleTravelFlagged

\* Later instants have later dates.
LEMMA DateMonotone ==
    ASSUME NEW s \in Nat, NEW t \in Nat, s <= t PROVE DateOf(s) <= DateOf(t)
<1>1. \A n \in Nat \ {0} : s \div n <= t \div n
  OBVIOUS
<1>2. QED
  BY <1>1, LengthsAssumption DEF DateOf

\* What rows and requests of a state of IInv are made of.
LEMMA SerialTypes ==
    ASSUME IInv, NEW w \in Workers
    PROVE /\ \A r \in rows : /\ r \in Row /\ r.inTime \in Nat /\ r.outTime \in Nat \cup {Null}
                             /\ DateOf(r.inTime) = r.date
                             /\ r.outTime # Null => DateOf(r.outTime) = r.date
          /\ req \in [Workers -> Request] /\ req[w].at \in Nat /\ now \in Nat
BY DEF IInv, TypeOK, RowWithinItsDay, Row, Request

\* An employee has no later check-in on the day of row r, up to any time of that day.
LEMMA LastOfItsDay ==
    ASSUME IInv, NEW r \in rows, NEW s \in rows, r.emp = s.emp, r.inTime <= s.inTime,
           NEW t \in Nat, s.inTime <= t, r.date = DateOf(t)
    PROVE r = s
<1>1. /\ r.inTime \in Nat /\ s.inTime \in Nat
      /\ DateOf(r.inTime) = r.date /\ DateOf(s.inTime) = s.date
  BY DEF IInv, TypeOK, RowWithinItsDay, Row
<1>2. DateOf(r.inTime) <= DateOf(s.inTime) /\ DateOf(s.inTime) <= DateOf(t)
  BY <1>1, DateMonotone
<1>3. DateOf(r.inTime) \in Nat /\ DateOf(s.inTime) \in Nat
  BY <1>1, DateNat
<1>4. r.date = s.date
  BY <1>1, <1>2, <1>3
<1>5. QED
  BY <1>4 DEF IInv, OneRowPerDay

\* Security events are only added, and the clock only advances.
LEMMA OnlyMore ==
    ASSUME IInv, [Next]_vars PROVE events \subseteq events' /\ now <= now' /\ now' \in Nat
<1>1. now \in Nat
  BY DEF IInv, TypeOK
<1>2. \A w \in Workers : JudgeCheckIn(w) \/ JudgeCheckOut(w)
                         => events \subseteq events' /\ now' = now
  BY DEF JudgeCheckIn, JudgeCheckOut, JudgeFails, JudgePasses
<1>3. QED
  BY <1>1, <1>2
     DEF Next, Handle, vars, Begin, BeginCheckIn, BeginCheckOut, FindForCheckIn,
         SaveCheckIn, FindForCheckOut, SaveCheckOut, DeleteBranch, AssignBranch,
         AssignShift, UpdateRule, Edit, Tick

\* While the table stays, so does what was flagged.
LEMMA SameRowsFlagged ==
    ASSUME ImplausibleTravelFlagged, rows' = rows, events \subseteq events'
    PROVE ImplausibleTravelFlagged'
BY DEF ImplausibleTravelFlagged, Flagged, Follows

\* The first half of a step that leaves the table alone.
LEMMA SameRowsSerial ==
    ASSUME SerialInv, [Next]_vars, rows' = rows
    PROVE IInv' /\ RowsPast' /\ ImplausibleTravelFlagged'
<1>1. IInv' /\ events \subseteq events' /\ now <= now' /\ now' \in Nat
  BY NextPreserves, OnlyMore DEF SerialInv
<1>2. ImplausibleTravelFlagged'
  BY <1>1, SameRowsFlagged DEF SerialInv
<1>3. now \in Nat /\ \A r \in rows : r.inTime \in Nat /\ r.outTime \in Nat \cup {Null}
  BY DEF SerialInv, IInv, TypeOK, Row
<1>4. RowsPast'
  BY <1>1, <1>3 DEF SerialInv, RowsPast, Null
<1>5. QED
  BY <1>1, <1>2, <1>4

\* A worker that has answered knows nothing any more.
LEMMA IdleIsSteady ==
    ASSUME NEW w \in Workers, req'[w].pc = "idle" PROVE Steady(w)'
BY DEF Steady, Inserting, Updating

\* A request that nobody moves, while rows and branches stay, stays as it was.
LEMMA RestingSteady ==
    ASSUME IInv, NEW w \in Workers, Steady(w), req'[w] = req[w], rows' = rows,
           branches' = branches, events \subseteq events', now <= now', now' \in Nat
    PROVE Steady(w)'
<1>1. now \in Nat /\ req[w].at \in Nat
  BY DEF IInv, TypeOK, Request
<1>2. \A e, t : Flagged(e, t) => Flagged(e, t)'
  BY DEF Flagged
<1>3. \A r, gps, t : ArrivalFlagged(r, gps, t) => ArrivalFlagged(r, gps, t)'
  BY <1>2 DEF ArrivalFlagged
<1>4. \A r : (DayFlagged(r) => DayFlagged(r)') /\ (Latest(r)' => Latest(r))
  BY <1>2 DEF DayFlagged, Latest
<1>5. \A r, c : SameEvidence(r, c) => SameEvidence(r, c)'
  BY DEF SameEvidence
<1>6. req'[w].pc # "idle" => req'[w].at <= now'
  BY <1>1 DEF Steady
<1>7. QED
  BY <1>3, <1>4, <1>5, <1>6 DEF Steady, Inserting, Updating

\* A new request reads the clock, and nothing recorded is later.
LEMMA BeginSteady ==
    ASSUME SerialInv, NEW w \in Workers, NEW e, NEW gps, NEW pc \in {"in.find", "out.find"},
           Begin(w, e, gps, pc)
    PROVE Steady(w)'
<1>1. /\ req'[w].pc = pc /\ req'[w].at = now /\ now' = now /\ rows' = rows
      /\ now \in Nat
  BY DEF SerialInv, IInv, TypeOK, Begin
<1>2. \A r \in rows : r.inTime <= now /\ r.outTime <= now
  BY DEF SerialInv, RowsPast
<1>3. ~(Inserting(w)') /\ ~(Updating(w)')
  BY <1>1 DEF Inserting, Updating
<1>4. QED
  BY <1>1, <1>2, <1>3 DEF Steady

\* What a request that goes on keeps of what it knew.
LEMMA ProceedKeeps ==
    ASSUME SerialInv, NEW w \in Workers, NEW pc, NEW row, Proceed(w, pc, row),
           req[w].pc # "idle", UNCHANGED <<rows, now>>
    PROVE /\ req'[w].pc = pc /\ req'[w].row = row
          /\ req'[w].at = req[w].at /\ req'[w].emp = req[w].emp
          /\ req'[w].at <= now'
          /\ \A r \in rows' : r.emp = req'[w].emp
                              => r.inTime <= req'[w].at /\ r.outTime <= req'[w].at
<1>1. /\ req'[w].pc = pc /\ req'[w].row = row
      /\ req'[w].at = req[w].at /\ req'[w].emp = req[w].emp
  BY DEF SerialInv, IInv, TypeOK, Proceed
<1>2. Steady(w)
  BY DEF SerialInv
<1>3. QED
  BY <1>1, <1>2 DEF Steady

\* The day found empty.
LEMMA FindForCheckInSteady ==
    ASSUME SerialInv, NEW w \in Workers, FindForCheckIn(w) PROVE Steady(w)'
<1>1. ASSUME NEW reply, Answer(w, reply) PROVE Steady(w)'
  BY <1>1, IdleIsSteady DEF SerialInv, IInv, TypeOK, Answer, Answered
<1>2. CASE /\ Proceed(w, "in.judge", NoRow)
           /\ RowsOfDay(req[w].emp, DateOf(req[w].at)) = {}
  <2>1. UNCHANGED <<rows, now>> /\ req[w].pc # "idle"
    BY DEF FindForCheckIn
  <2>2. /\ req'[w].pc = "in.judge" /\ req'[w].at = req[w].at /\ req'[w].emp = req[w].emp
        /\ req'[w].at <= now'
        /\ \A r \in rows' : r.emp = req'[w].emp
                            => r.inTime <= req'[w].at /\ r.outTime <= req'[w].at
    BY <1>2, <2>1, ProceedKeeps
  <2>3. \A r \in rows : r.emp = req[w].emp => r.date # DateOf(req[w].at)
    BY <1>2 DEF RowsOfDay
  <2>4. ~(Inserting(w)') /\ ~(Updating(w)')
    BY <2>2 DEF Inserting, Updating
  <2>5. QED
    BY <2>1, <2>2, <2>3, <2>4 DEF Steady
<1>3. QED
  BY <1>1, <1>2 DEF FindForCheckIn

\* The row found open.
LEMMA FindForCheckOutSteady ==
    ASSUME SerialInv, NEW w \in Workers, FindForCheckOut(w) PROVE Steady(w)'
<1>1. ASSUME NEW reply, Answer(w, reply) PROVE Steady(w)'
  BY <1>1, IdleIsSteady DEF SerialInv, IInv, TypeOK, Answer, Answered
<1>2. ASSUME NEW r \in RowsOfDay(req[w].emp, DateOf(req[w].at)), ~AlreadyOut(r),
             Proceed(w, "out.judge", r)
      PROVE Steady(w)'
  <2>1. UNCHANGED <<rows, now, branches>> /\ req[w].pc # "idle"
    BY DEF FindForCheckOut, admin
  <2>2. /\ req'[w].pc = "out.judge" /\ req'[w].row = r
        /\ req'[w].at = req[w].at /\ req'[w].emp = req[w].emp
        /\ req'[w].at <= now'
        /\ \A s \in rows' : s.emp = req'[w].emp
                            => s.inTime <= req'[w].at /\ s.outTime <= req'[w].at
    BY <1>2, <2>1, ProceedKeeps
  <2>3. r \in rows' /\ r.emp = req'[w].emp /\ r.outTime = Null
    BY <1>2, <2>1, <2>2 DEF RowsOfDay, AlreadyOut
  <2>4. SameEvidence(r, r)'
    BY DEF SameEvidence
  <2>5. ~(Inserting(w)')
    BY <2>2 DEF Inserting
  <2>6. QED
    BY <2>2, <2>3, <2>4, <2>5 DEF Steady
<1>3. QED
  BY <1>1, <1>2 DEF FindForCheckOut

\* A request that has failed is over.
LEMMA JudgeFailsSteady ==
    ASSUME SerialInv, NEW w \in Workers, NEW b, NEW error, JudgeFails(w, b, error)
    PROVE Steady(w)'
BY IdleIsSteady DEF JudgeFails, SerialInv, IInv, TypeOK, Answer, Answered

\* What implausible travel leaves in the security events.
LEMMA TravelFlagged ==
    ASSUME NEW e, NEW gps, NEW t, events' = events \cup TravelEvents(e, gps, t),
           NEW r \in LatestRows(e), TooFast(r, gps, t)
    PROVE Flagged(e, t)'
BY DEF TravelEvents, Flagged

\* The row about to be inserted is flagged if it is too far from the latest one,
\* whose times are all before it because they are of another day.
LEMMA JudgeCheckInSteady ==
    ASSUME SerialInv, NEW w \in Workers, JudgeCheckIn(w) PROVE Steady(w)'
<1>0. PICK q : q = req[w]
  OBVIOUS
<1> DEFINE error == LocationError(q.gps, q.branch)
           late  == MinutesLate(q.at, DateOf(q.at), q.shift, rule.late)
           built == [id |-> nextId, emp |-> q.emp, date |-> DateOf(q.at),
                     branch |-> q.branch, inTime |-> q.at, inGps |-> q.gps,
                     late |-> late, outTime |-> Null, outGps |-> NoReading,
                     early |-> 0, over |-> 0, worked |-> 0,
                     status |-> CheckInStatus(late)]
<1>1. UNCHANGED <<rows, now>> /\ q.pc = "in.judge"
  BY <1>0 DEF JudgeCheckIn
<1>2. CASE JudgeFails(w, q.branch, error)
  BY <1>2, JudgeFailsSteady
<1>3. CASE JudgePasses(q, q.branch, error) /\ Proceed(w, "in.save", built)
  <2>0. PICK row : row = built
    OBVIOUS
  <2>1. row.emp = q.emp /\ row.inTime = q.at /\ row.inGps = q.gps
    BY <2>0
  <2> HIDE DEF built
  <2>2. /\ req'[w].pc = "in.save" /\ req'[w].row = row
        /\ req'[w].at = q.at /\ req'[w].emp = q.emp /\ req'[w].at <= now'
        /\ \A r \in rows' : r.emp = req'[w].emp
                            => r.inTime <= req'[w].at /\ r.outTime <= req'[w].at
    BY <1>0, <1>1, <1>3, <2>0, ProceedKeeps
  <2>3. Steady(w)
    BY DEF SerialInv
  <2>4. \A r \in rows : r.emp = q.emp => r.date # DateOf(q.at)
    BY <1>0, <1>1, <2>3 DEF Steady
  <2>5. ASSUME NEW r \in rows, r.emp = q.emp, Latest(r)
        PROVE ArrivalFlagged(r, q.gps, q.at)'
    <3>1. /\ r.inTime \in Nat /\ r.outTime \in Nat \cup {Null} /\ q.at \in Nat
          /\ DateOf(r.inTime) = r.date /\ (r.outTime # Null => DateOf(r.outTime) = r.date)
      BY <1>0, SerialTypes DEF SerialInv
    <3>2. r.inTime <= q.at /\ r.outTime <= q.at
      BY <1>0, <1>1, <2>3, <2>5 DEF Steady
    <3>3. r.inTime < q.at /\ r.outTime < q.at
      BY <2>4, <2>5, <3>1, <3>2 DEF Null
    <3>4. r \in LatestRows(q.emp)
      BY <2>5 DEF LatestRows, Latest
    <3>5. events' = events \cup TravelEvents(q.emp, q.gps, q.at)
      BY <1>3 DEF JudgePasses
    <3>6. TooFast(r, q.gps, q.at) => Flagged(q.emp, q.at)'
      BY <3>4, <3>5, TravelFlagged
    <3>7. QED
      BY <2>5, <3>3, <3>6 DEF ArrivalFlagged, TooFast, Flagged
  <2>6. \A r \in rows' : r.emp = q.emp /\ Latest(r)' => ArrivalFlagged(r, q.gps, q.at)'
    BY <1>1, <2>5 DEF Latest
  <2>7. ~(Updating(w)')
    BY <2>2 DEF Updating
  <2>8. QED
    BY <1>1, <2>1, <2>2, <2>4, <2>6, <2>7 DEF Steady
<1>4. QED
  BY <1>0, <1>2, <1>3 DEF JudgeCheckIn

\* The row being closed is the employee's latest, and so the one whose distance
\* from the check-out is looked at.
LEMMA JudgeCheckOutSteady ==
    ASSUME SerialInv, NEW w \in Workers, JudgeCheckOut(w) PROVE Steady(w)'
<1>0. PICK q : q = req[w]
  OBVIOUS
<1> DEFINE b     == CheckOutBranch(q)
           error == LocationError(q.gps, b)
           early == MinutesEarlyDeparture(q.at, DateOf(q.at), q.shift, rule.early)
           over  == MinutesOvertime(q.at, DateOf(q.at), q.shift, rule.over)
           built == Closed(q.row, q.at, q.gps, early, over)
<1>1. UNCHANGED <<rows, now, branches>> /\ q.pc = "out.judge"
  BY <1>0 DEF JudgeCheckOut, admin
<1>2. CASE JudgeFails(w, b, error)
  BY <1>2, JudgeFailsSteady
<1>3. CASE JudgePasses(q, b, error) /\ Proceed(w, "out.save", built)
  <2>0. PICK row : row = built
    OBVIOUS
  <2>1. /\ row.id = q.row.id /\ row.emp = q.row.emp /\ row.date = q.row.date
        /\ row.branch = q.row.branch /\ row.inTime = q.row.inTime
        /\ row.inGps = q.row.inGps /\ row.late = q.row.late
        /\ row.outTime = q.at /\ row.outGps = q.gps
    BY <2>0 DEF Closed
  <2> HIDE DEF built
  <2>2. /\ req'[w].pc = "out.save" /\ req'[w].row = row
        /\ req'[w].at = q.at /\ req'[w].emp = q.emp /\ req'[w].at <= now'
        /\ \A r \in rows' : r.emp = req'[w].emp
                            => r.inTime <= req'[w].at /\ r.outTime <= req'[w].at
    BY <1>0, <1>1, <1>3, <2>0, ProceedKeeps
  <2>3. Steady(w) /\ Updating(w)
    BY <1>0, <1>1 DEF SerialInv, Updating
  <2>4. q.row.emp = q.emp
    BY <1>0, <2>3 DEF Steady
  <2>5. PICK r \in rows : SameEvidence(r, q.row) /\ r.outTime = Null
    BY <1>0, <2>3 DEF Steady
  <2>6. SameEvidence(r, row)'
    BY <1>1, <2>1, <2>5 DEF SameEvidence
  <2>7. DayFlagged(row)'
    <3>1. r.emp = q.emp /\ r.inTime = row.inTime /\ r.inGps = row.inGps /\ r.date = q.row.date
      BY <2>1, <2>4, <2>5 DEF SameEvidence
    <3>2. /\ q.at \in Nat /\ q.row.date = DateOf(q.at)
          /\ \A s \in rows : s.inTime \in Nat
      BY <1>0, <2>3, SerialTypes DEF SerialInv, IInv, CopiesTyped
    <3>3. Latest(r)
      <4> SUFFICES ASSUME NEW s \in rows, s.emp = r.emp, s.inTime > r.inTime PROVE FALSE
        BY <3>2 DEF Latest
      <4>1. s.inTime <= q.at
        BY <1>0, <1>1, <2>3, <3>1 DEF Steady
      <4>2. r.inTime <= s.inTime
        BY <3>2
      <4>3. r = s
        BY <3>1, <3>2, <4>1, <4>2, LastOfItsDay DEF SerialInv
      <4>4. QED
        BY <3>2, <4>3
    <3>4. r \in LatestRows(q.emp)
      BY <3>1, <3>3 DEF LatestRows, Latest
    <3>5. events' = events \cup TravelEvents(q.emp, q.gps, q.at)
      BY <1>3 DEF JudgePasses
    <3>6. TooFast(r, q.gps, q.at) => Flagged(q.emp, q.at)'
      BY <3>4, <3>5, TravelFlagged
    <3>7. TooFast(r, q.gps, q.at)
          <=> /\ q.at > r.inTime
              /\ Distance(q.gps.place, r.inGps.place) > MaxSpeed * (q.at - r.inTime)
      BY <2>5 DEF TooFast
    <3>8. QED
      BY <2>1, <2>4, <3>1, <3>6, <3>7 DEF DayFlagged, Flagged
  <2>8. ~(Inserting(w)')
    BY <2>2 DEF Inserting
  <2>9. QED
    BY <1>1, <2>1, <2>2, <2>4, <2>5, <2>6, <2>7, <2>8 DEF Steady
<1>4. QED
  BY <1>0, <1>2, <1>3 DEF JudgeCheckOut

\* The two halves of ImplausibleTravelFlagged.
LEMMA TravelSplit ==
    ImplausibleTravelFlagged <=>
        \A r \in rows : /\ DayFlagged(r)
                        /\ \A s \in rows : Follows(r, s) => ArrivalFlagged(r, s.inGps, s.inTime)
BY DEF ImplausibleTravelFlagged, DayFlagged, ArrivalFlagged, Follows

\* The INSERT: the new row follows the one its worker took for the latest, and
\* no row follows it.
LEMMA SaveCheckInSerial ==
    ASSUME SerialInv, NEW w \in Workers, SaveCheckIn(w), [Next]_vars
    PROVE Steady(w)' /\ RowsPast' /\ ImplausibleTravelFlagged'
<1>1. UNCHANGED <<events, now>> /\ req[w].pc = "in.save"
  BY DEF SaveCheckIn
<1>2. Steady(w)'
  BY IdleIsSteady DEF SaveCheckIn, SerialInv, IInv, TypeOK, Answer, Answered
<1>3. CASE UNCHANGED rows
  BY <1>2, <1>3, SameRowsSerial
<1>4. PICK row : row = req[w].row
  OBVIOUS
<1>5. CASE rows' = rows \cup {row}
  <2>1. Steady(w) /\ Inserting(w)
    BY <1>1 DEF SerialInv, Inserting
  <2>2. PICK t \in Nat : t = req[w].at
    BY SerialTypes DEF SerialInv
  <2>3. row \in Row /\ row.outTime = Null /\ row.inTime = t /\ row.date = DateOf(t)
    BY <1>4, <2>1, <2>2 DEF SerialInv, IInv, CopiesTyped, Steady
  <2>4. t <= now /\ \A r \in rows : r.emp = row.emp => r.inTime <= t /\ r.outTime <= t
    BY <1>1, <1>4, <2>1, <2>2 DEF Steady
  <2>5. \A r \in rows : r.emp = row.emp => r.date # DateOf(t)
    BY <1>1, <1>4, <2>1, <2>2 DEF Steady
  <2>6. \A r \in rows : r.emp = row.emp /\ Latest(r) => ArrivalFlagged(r, row.inGps, t)
    BY <1>4, <2>1, <2>2 DEF Steady
  <2>7. \A r \in rows : r.inTime \in Nat /\ DateOf(r.inTime) = r.date
    BY SerialTypes DEF SerialInv
  <2>8. \A r \in rows : r.emp = row.emp => r.inTime < t
    BY <2>4, <2>5, <2>7
  <2>9. now \in Nat
    BY SerialTypes DEF SerialInv
  <2>10. RowsPast'
    BY <1>1, <1>5, <2>3, <2>4, <2>9 DEF SerialInv, RowsPast, Null
  <2>11. \A r \in rows : /\ DayFlagged(r)
                         /\ \A s \in rows : Follows(r, s) => ArrivalFlagged(r, s.inGps, s.inTime)
    BY TravelSplit DEF SerialInv
  <2>12. DayFlagged(row)
    BY <2>3 DEF DayFlagged, Null
  <2>13. ASSUME NEW r \in rows', NEW s \in rows', Follows(r, s)'
         PROVE ArrivalFlagged(r, s.inGps, s.inTime)
    <3>1. r # row
      BY <1>5, <2>3, <2>7, <2>8, <2>13 DEF Follows
    <3>2. r \in rows
      BY <1>5, <3>1
    <3>3. CASE s \in rows
      BY <1>5, <2>11, <2>13, <3>2, <3>3 DEF Follows
    <3>4. CASE s = row
      <4>1. r.emp = row.emp
        BY <2>13, <3>4 DEF Follows
      <4>2. Latest(r)
        <5> SUFFICES ASSUME NEW x \in rows, x.emp = r.emp PROVE x.inTime <= r.inTime
          BY DEF Latest
        <5>1. x.inTime < t /\ x.inTime \in Nat
          BY <2>7, <2>8, <4>1
        <5>2. x.inTime <= r.inTime \/ x.inTime >= t
          BY <1>5, <2>3, <2>13, <3>4 DEF Follows
        <5>3. QED
          BY <5>1, <5>2
      <4>3. QED
        BY <2>3, <2>6, <3>2, <3>4, <4>1, <4>2
    <3>5. QED
      BY <1>5, <3>3, <3>4
  <2>14. \A r \in rows' : DayFlagged(r)
    BY <1>5, <2>11, <2>12
  <2>15. ImplausibleTravelFlagged'
    BY <1>1, <2>13, <2>14
       DEF ImplausibleTravelFlagged, DayFlagged, ArrivalFlagged, Follows, Flagged
  <2>16. QED
    BY <1>2, <2>10, <2>15
<1>6. QED
  BY <1>3, <1>4, <1>5 DEF SaveCheckIn

\* The row an UPDATE closes was open, and nothing follows it: it is of the day of
\* the check-out, which comes after everything recorded.
LEMMA SaveCheckOutSerial ==
    ASSUME SerialInv, NEW w \in Workers, SaveCheckOut(w), [Next]_vars
    PROVE Steady(w)' /\ RowsPast' /\ ImplausibleTravelFlagged'
<1>1. UNCHANGED <<events, now>> /\ req[w].pc = "out.save"
  BY DEF SaveCheckOut
<1>2. Steady(w)'
  BY IdleIsSteady DEF SaveCheckOut, SerialInv, IInv, TypeOK, Answer, Answered
<1>3. CASE UNCHANGED rows
  BY <1>2, <1>3, SameRowsSerial
<1>4. PICK row : row = req[w].row
  OBVIOUS
<1>5. CASE rows' = {IF r.id = row.id THEN row ELSE r : r \in rows}
  <2>1. Steady(w) /\ Updating(w)
    BY <1>1 DEF SerialInv, Updating
  <2>2. PICK t \in Nat : t = req[w].at
    BY SerialTypes DEF SerialInv
  <2>3. row.outTime = t /\ row.date = DateOf(t)
    BY <1>1, <1>4, <2>1, <2>2 DEF SerialInv, IInv, CopiesTyped
  <2>4. PICK old \in rows : SameEvidence(old, row) /\ old.outTime = Null
    BY <1>4, <2>1 DEF Steady
  <2>5. /\ row.id = old.id /\ row.emp = old.emp /\ row.date = old.date
        /\ row.inTime = old.inTime /\ row.inGps = old.inGps
    BY <2>4 DEF SameEvidence
  <2>6. rows' = (rows \ {old}) \cup {row}
    BY <1>5, <2>5 DEF SerialInv, IInv, IdsUnique
  <2>7. t <= now /\ \A r \in rows : r.emp = row.emp => r.inTime <= t /\ r.outTime <= t
    BY <1>1, <1>4, <2>1, <2>2 DEF Steady
  <2>8. \A r \in rows : r.inTime \in Nat /\ now \in Nat
    BY SerialTypes DEF SerialInv
  <2>9. RowsPast'
    BY <1>1, <2>3, <2>5, <2>6, <2>7, <2>8 DEF SerialInv, RowsPast
  <2>10. \A r \in rows : /\ DayFlagged(r)
                         /\ \A s \in rows : Follows(r, s) => ArrivalFlagged(r, s.inGps, s.inTime)
    BY TravelSplit DEF SerialInv
  <2>11. DayFlagged(row)
    BY <1>1, <1>4, <2>1 DEF Steady
  <2>12. \A s \in rows : s.emp = old.emp => s.inTime <= old.inTime
    <3> SUFFICES ASSUME NEW s \in rows, s.emp = old.emp, s.inTime > old.inTime PROVE FALSE
      BY <2>8
    <3>1. old.inTime <= s.inTime /\ s.inTime <= t
      BY <2>5, <2>7, <2>8
    <3>2. old = s
      BY <2>3, <2>5, <3>1, LastOfItsDay DEF SerialInv
    <3>3. QED
      BY <2>8, <3>2
  <2>13. ASSUME NEW r \in rows', NEW s \in rows', Follows(r, s)'
         PROVE ArrivalFlagged(r, s.inGps, s.inTime)
    <3>1. r # row
      BY <2>5, <2>6, <2>8, <2>12, <2>13 DEF Follows
    <3>2. r \in rows
      BY <2>6, <3>1
    <3>3. PICK x \in rows : /\ x.emp = s.emp /\ x.inTime = s.inTime /\ x.inGps = s.inGps
      BY <2>5, <2>6
    <3>4. Follows(r, x)
      BY <2>5, <2>6, <2>13, <3>2, <3>3 DEF Follows
    <3>5. QED
      BY <2>10, <3>2, <3>3, <3>4
  <2>14. \A r \in rows' : DayFlagged(r)
    BY <2>6, <2>10, <2>11
  <2>15. ImplausibleTravelFlagged'
    BY <1>1, <2>13, <2>14
       DEF ImplausibleTravelFlagged, DayFlagged, ArrivalFlagged, Follows, Flagged
  <2>16. QED
    BY <1>2, <2>9, <2>15
<1>6. QED
  BY <1>3, <1>4, <1>5 DEF SaveCheckOut

\* Two rows that differ at most in their branch, which may be gone.
LEMMA BranchOnly ==
    ASSUME IInv, NEW b \in Branches, DeleteBranch(b)
    PROVE LET Same(r, s) ==
                /\ s.id = r.id /\ s.emp = r.emp /\ s.date = r.date /\ s.inTime = r.inTime
                /\ s.inGps = r.inGps /\ s.late = r.late /\ s.outTime = r.outTime
                /\ s.outGps = r.outGps /\ s.branch = IF r.branch = b THEN NoBranch ELSE r.branch
          IN  /\ \A r \in rows : \E s \in rows' : Same(r, s)
              /\ \A s \in rows' : \E r \in rows : Same(r, s)
<1> DEFINE Cleared(r) == IF r.branch = b THEN [r EXCEPT !.branch = NoBranch] ELSE r
           Same(r, s) ==
                /\ s.id = r.id /\ s.emp = r.emp /\ s.date = r.date /\ s.inTime = r.inTime
                /\ s.inGps = r.inGps /\ s.late = r.late /\ s.outTime = r.outTime
                /\ s.outGps = r.outGps /\ s.branch = IF r.branch = b THEN NoBranch ELSE r.branch
<1>1. rows' = {Cleared(r) : r \in rows}
  BY DEF DeleteBranch
<1>2. \A r \in rows : Same(r, Cleared(r))
  BY DEF IInv, TypeOK, Row
<1> HIDE DEF Cleared, Same
<1>3. /\ \A r \in rows : \E s \in rows' : Same(r, s)
      /\ \A s \in rows' : \E r \in rows : Same(r, s)
  BY <1>1, <1>2
<1>4. QED
  BY <1>3 DEF Same

\* Deleting a branch moves nobody and no time.
LEMMA DeleteBranchSerial ==
    ASSUME SerialInv, NEW b \in Branches, DeleteBranch(b)
    PROVE (\A w \in Workers : Steady(w)') /\ RowsPast' /\ ImplausibleTravelFlagged'
<1> DEFINE Same(r, s) ==
                /\ s.id = r.id /\ s.emp = r.emp /\ s.date = r.date /\ s.inTime = r.inTime
                /\ s.inGps = r.inGps /\ s.late = r.late /\ s.outTime = r.outTime
                /\ s.outGps = r.outGps /\ s.branch = IF r.branch = b THEN NoBranch ELSE r.branch
<1>1. /\ \A r \in rows : \E s \in rows' : Same(r, s)
      /\ \A s \in rows' : \E r \in rows : Same(r, s)
  BY BranchOnly DEF SerialInv
<1>2. UNCHANGED <<events, req, now>> /\ branches' = branches \ {b}
  BY DEF DeleteBranch, Edit
<1>3. \A w \in Workers : Steady(w)
  BY DEF SerialInv
<1>4. RowsPast'
  BY <1>1, <1>2 DEF SerialInv, RowsPast
<1>5. \A r, s : Same(r, s) => /\ DayFlagged(r) => DayFlagged(s)
                              /\ \A gps, t : ArrivalFlagged(r, gps, t) => ArrivalFlagged(s, gps, t)
  BY DEF DayFlagged, ArrivalFlagged
<1>6. \A r, s : Same(r, s) /\ Latest(s)' => Latest(r)
  BY <1>1 DEF Latest
<1>7. ASSUME NEW w \in Workers PROVE Steady(w)'
  <2>1. ASSUME Updating(w)
        PROVE \E s \in rows' : SameEvidence(s, req[w].row)' /\ s.outTime = Null
    <3>1. PICK c : c = req[w].row
      OBVIOUS
    <3>2. PICK r \in rows : SameEvidence(r, c) /\ r.outTime = Null
      BY <1>3, <2>1, <3>1 DEF Steady
    <3>3. PICK s \in rows' : Same(r, s)
      BY <1>1
    <3>4. c = (req[w].row)'
      BY <1>2, <3>1
    <3>5. SameEvidence(s, c)'
      BY <1>2, <3>2, <3>3, AttendanceAssumption DEF SameEvidence
    <3>6. s.outTime = Null
      BY <3>2, <3>3
    <3>7. QED
      BY <3>4, <3>5, <3>6
  <2>2. ASSUME Inserting(w), NEW s \in rows', s.emp = req[w].emp, Latest(s)'
        PROVE ArrivalFlagged(s, req[w].row.inGps, req[w].at)
    <3>1. PICK r \in rows : Same(r, s)
      BY <1>1
    <3>2. Latest(r) /\ r.emp = req[w].emp
      BY <1>6, <2>2, <3>1
    <3>3. ArrivalFlagged(r, req[w].row.inGps, req[w].at)
      BY <1>3, <2>2, <3>2 DEF Steady
    <3>4. QED
      BY <1>5, <3>1, <3>3
  <2>3. \A s \in rows' : \E r \in rows :
            s.emp = r.emp /\ s.date = r.date /\ s.inTime = r.inTime /\ s.outTime = r.outTime
    BY <1>1
  <2> HIDE DEF Same
  <2>4. \A s \in rows' : \A gps, t : ArrivalFlagged(s, gps, t) => ArrivalFlagged(s, gps, t)'
    BY <1>2 DEF ArrivalFlagged, Flagged
  <2>5. DayFlagged(req[w].row) => DayFlagged(req[w].row)'
    BY <1>2 DEF DayFlagged, Flagged
  <2>6. QED
    BY <1>2, <1>3, <2>1, <2>2, <2>3, <2>4, <2>5 DEF Steady, Inserting, Updating
<1>8. ImplausibleTravelFlagged'
  <2>1. \A r \in rows : /\ DayFlagged(r)
                        /\ \A s \in rows : Follows(r, s) => ArrivalFlagged(r, s.inGps, s.inTime)
    BY TravelSplit DEF SerialInv
  <2>2. \A s \in rows' : DayFlagged(s)
    BY <1>1, <1>5, <2>1
  <2>3. ASSUME NEW r \in rows', NEW s \in rows', Follows(r, s)'
        PROVE ArrivalFlagged(r, s.inGps, s.inTime)
    <3>1. PICK x \in rows, y \in rows : Same(x, r) /\ Same(y, s)
      BY <1>1
    <3>2. Follows(x, y)
      <4>1. /\ r.emp = s.emp /\ r.inTime < s.inTime
            /\ \A z \in rows' : z.emp = r.emp => z.inTime <= r.inTime \/ z.inTime >= s.inTime
        BY <2>3 DEF Follows
      <4>2. \A z \in rows : z.emp = x.emp => z.inTime <= x.inTime \/ z.inTime >= y.inTime
        <5> SUFFICES ASSUME NEW z \in rows, z.emp = x.emp
                     PROVE z.inTime <= x.inTime \/ z.inTime >= y.inTime
          OBVIOUS
        <5>1. PICK u \in rows' : Same(z, u)
          BY <1>1
        <5>2. QED
          BY <3>1, <4>1, <5>1
      <4>3. QED
        BY <3>1, <4>1, <4>2 DEF Follows
    <3>3. ArrivalFlagged(x, y.inGps, y.inTime)
      BY <2>1, <3>2
    <3>4. QED
      BY <1>5, <3>1, <3>3
  <2> HIDE DEF Same
  <2>4. QED
    BY <1>2, <2>2, <2>3
       DEF ImplausibleTravelFlagged, DayFlagged, ArrivalFlagged, Follows, Flagged
<1>9. QED
  BY <1>4, <1>7, <1>8

\* A save of another employee's row is nothing to a request.
LEMMA OtherSteady ==
    ASSUME IInv, NEW v \in Workers, Steady(v), req'[v] = req[v],
           \A r : r.emp = req[v].emp => (r \in rows' <=> r \in rows),
           UNCHANGED <<branches, events, now>>
    PROVE Steady(v)'
<1>1. PICK e : e = req[v].emp
  OBVIOUS
<1>2. \A r : (r \in rows' /\ r.emp = e) <=> (r \in rows /\ r.emp = e)
  BY <1>1
<1>3. \A r : r.emp = e /\ Latest(r)' => Latest(r)
  BY <1>2 DEF Latest
<1>4. \A r, gps, t : ArrivalFlagged(r, gps, t) => ArrivalFlagged(r, gps, t)'
  BY DEF ArrivalFlagged, Flagged
<1>5. \A r : DayFlagged(r) => DayFlagged(r)'
  BY DEF DayFlagged, Flagged
<1>6. \A r, c : SameEvidence(r, c) => SameEvidence(r, c)' /\ r.emp = c.emp
  BY DEF SameEvidence
<1>7. QED
  BY <1>1, <1>2, <1>3, <1>4, <1>5, <1>6 DEF Steady, Inserting, Updating

\* A save moves rows of the worker's own employee only.
LEMMA SaveElsewhere ==
    ASSUME SerialInv, NEW w \in Workers, SaveCheckIn(w) \/ SaveCheckOut(w),
           NEW r, r.emp # req[w].emp
    PROVE r \in rows' <=> r \in rows
<1>1. Steady(w)
  BY DEF SerialInv
<1>2. CASE rows' = rows
  BY <1>2
<1>3. CASE SaveCheckIn(w) /\ rows' = rows \cup {req[w].row}
  <2>1. req[w].row.emp = req[w].emp
    BY <1>1, <1>3 DEF SaveCheckIn, Steady, Inserting
  <2>2. QED
    BY <1>3, <2>1
<1>4. CASE /\ SaveCheckOut(w)
           /\ rows' = {IF x.id = req[w].row.id THEN req[w].row ELSE x : x \in rows}
  <2>1. Updating(w)
    BY <1>4 DEF SaveCheckOut, Updating
  <2>2. req[w].row.emp = req[w].emp
    BY <1>1, <2>1 DEF Steady
  <2>3. PICK old \in rows : old.id = req[w].row.id /\ old.emp = req[w].emp
    BY <1>1, <2>1, <2>2 DEF Steady, SameEvidence
  <2>4. rows' = (rows \ {old}) \cup {req[w].row}
    BY <1>4, <2>3 DEF SerialInv, IInv, IdsUnique
  <2>5. QED
    BY <2>2, <2>3, <2>4
<1>5. QED
  BY <1>2, <1>3, <1>4 DEF SaveCheckIn, SaveCheckOut

\* Other requests rest while one moves.
LEMMA OthersRest ==
    ASSUME IInv, NEW w \in Workers, NEW v \in Workers, v # w,
           \/ Handle(w)
           \/ \E e \in Employees, gps \in Readings :
                 BeginCheckIn(w, e, gps) \/ BeginCheckOut(w, e, gps)
    PROVE req'[v] = req[v] /\ UNCHANGED <<branches, now>>
<1>1. \A reply : Answer(w, reply) => req'[v] = req[v]
  BY DEF Answer, IInv, TypeOK
<1>2. \A pc, row : Proceed(w, pc, row) => req'[v] = req[v]
  BY DEF Proceed, IInv, TypeOK
<1>3. \A e, gps, pc : Begin(w, e, gps, pc) => req'[v] = req[v] /\ UNCHANGED <<branches, now>>
  BY DEF Begin, IInv, TypeOK, admin
<1>4. \A b, error : JudgeFails(w, b, error) => req'[v] = req[v]
  BY <1>1 DEF JudgeFails
<1>5. Handle(w) => req'[v] = req[v]
  BY <1>1, <1>2, <1>4
     DEF Handle, FindForCheckIn, JudgeCheckIn, SaveCheckIn, FindForCheckOut,
         JudgeCheckOut, SaveCheckOut
<1>6. Handle(w) => UNCHANGED <<branches, now>>
  BY DEF Handle, FindForCheckIn, JudgeCheckIn, SaveCheckIn, FindForCheckOut,
         JudgeCheckOut, SaveCheckOut, admin
<1>7. QED
  BY <1>3, <1>5, <1>6 DEF BeginCheckIn, BeginCheckOut

\* Every step keeps the invariant, as long as requests of one employee do not overlap.
LEMMA SerialPreserved == OneRequestEach /\ SerialInv /\ [Next]_vars => SerialInv'
<1> SUFFICES ASSUME OneRequestEach, SerialInv, [Next]_vars PROVE SerialInv'
  OBVIOUS
<1>1. IInv' /\ events \subseteq events' /\ now <= now' /\ now' \in Nat
  BY NextPreserves, OnlyMore DEF SerialInv
<1> DEFINE Kept == (\A w \in Workers : Steady(w)') /\ RowsPast' /\ ImplausibleTravelFlagged'
<1>2. ASSUME UNCHANGED <<rows, branches, req>> PROVE Kept
  BY <1>1, <1>2, SameRowsSerial, RestingSteady DEF SerialInv
<1>3. ASSUME NEW w \in Workers, rows' = rows, Steady(w)',
             \/ Handle(w)
             \/ \E e \in Employees, gps \in Readings :
                   BeginCheckIn(w, e, gps) \/ BeginCheckOut(w, e, gps)
      PROVE Kept
  <2>1. ASSUME NEW v \in Workers, v # w PROVE Steady(v)'
    <3>1. IInv /\ Steady(v)
      BY DEF SerialInv
    <3>2. req'[v] = req[v] /\ UNCHANGED <<branches, now>>
      BY <1>3, <2>1, <3>1, OthersRest
    <3>3. QED
      BY <1>1, <1>3, <3>1, <3>2, RestingSteady
  <2>2. QED
    BY <1>3, <2>1, SameRowsSerial
<1>4. ASSUME NEW w \in Workers, NEW e \in Employees, NEW gps \in Readings,
             BeginCheckIn(w, e, gps) \/ BeginCheckOut(w, e, gps)
      PROVE Kept
  <2>1. PICK pc \in {"in.find", "out.find"} : Begin(w, e, gps, pc)
    BY <1>4 DEF BeginCheckIn, BeginCheckOut
  <2>2. Steady(w)' /\ rows' = rows
    BY <2>1, BeginSteady DEF Begin
  <2>3. QED
    BY <1>3, <1>4, <2>2
<1>5. ASSUME NEW w \in Workers,
             FindForCheckIn(w) \/ FindForCheckOut(w) \/ JudgeCheckIn(w) \/ JudgeCheckOut(w)
      PROVE Kept
  <2>1. Steady(w)'
    BY <1>5, FindForCheckInSteady, FindForCheckOutSteady, JudgeCheckInSteady,
       JudgeCheckOutSteady
  <2>2. rows' = rows /\ Handle(w)
    BY <1>5 DEF FindForCheckIn, FindForCheckOut, JudgeCheckIn, JudgeCheckOut, Handle
  <2>3. QED
    BY <1>3, <2>1, <2>2
<1>6. ASSUME NEW w \in Workers, SaveCheckIn(w) \/ SaveCheckOut(w) PROVE Kept
  <2>1. ASSUME NEW v \in Workers, v # w PROVE Steady(v)'
    <3>1. IInv /\ Steady(v) /\ Handle(w)
      BY <1>6 DEF SerialInv, Handle
    <3>2. req'[v] = req[v] /\ UNCHANGED <<branches, now>>
      BY <2>1, <3>1, OthersRest
    <3>3. UNCHANGED events /\ req[w].pc # "idle"
      BY <1>6 DEF SaveCheckIn, SaveCheckOut
    <3>4. CASE req[v].pc = "idle"
      BY <3>2, <3>4, IdleIsSteady
    <3>5. CASE req[v].pc # "idle"
      <4>1. req[v].emp # req[w].emp
        BY <2>1, <3>3, <3>5 DEF OneRequestEach
      <4>2. \A r : r.emp = req[v].emp => (r \in rows' <=> r \in rows)
        BY <1>6, <4>1, SaveElsewhere
      <4>3. QED
        BY <3>1, <3>2, <3>3, <4>2, OtherSteady
    <3>6. QED
      BY <3>4, <3>5
  <2>2. Steady(w)' /\ RowsPast' /\ ImplausibleTravelFlagged'
    BY <1>6, SaveCheckInSerial, SaveCheckOutSerial
  <2>3. QED
    BY <2>1, <2>2
<1>7. ASSUME NEW b \in Branches, DeleteBranch(b) PROVE Kept
  BY <1>7, DeleteBranchSerial
<1>8. QED
  BY <1>1, <1>2, <1>4, <1>5, <1>6, <1>7
     DEF SerialInv, Next, Handle, AssignBranch, AssignShift, UpdateRule, Edit, Tick, vars, admin

\* The empty table, and workers that do nothing yet.
LEMMA SerialInit == Init => SerialInv
<1> SUFFICES ASSUME Init PROVE SerialInv
  OBVIOUS
<1>1. rows = {} /\ \A w \in Workers : req[w].pc = "idle"
  BY DEF Init, Answered
<1>2. QED
  BY <1>1, InitEstablishes
     DEF SerialInv, RowsPast, Steady, Inserting, Updating, ImplausibleTravelFlagged

\* As long as no two requests of one employee overlap, two consecutive locations
\* of an employee that no vehicle could connect are always flagged, within a day
\* and from one day to the next.
THEOREM ImplausibleTravelFlaggedHolds ==
    Spec /\ []OneRequestEach => []ImplausibleTravelFlagged
<1>1. OneRequestEach /\ SerialInv /\ [Next]_vars => SerialInv'
  BY SerialPreserved
<1>2. SerialInv => ImplausibleTravelFlagged
  BY DEF SerialInv
<1>3. QED
  BY <1>1, <1>2, SerialInit, PTL DEF Spec

=============================================================================
