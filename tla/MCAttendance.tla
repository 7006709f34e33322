---------------------------- MODULE MCAttendance ----------------------------
(* Instances of Attendance for TLC: a day is three or four seconds long. *)
EXTENDS Attendance, TLC

CONSTANTS e1, w1, w2, b1, b2

Workers2 == Permutations({w1, w2})

near == [place |-> 0, accuracy |-> 1, mock |-> FALSE]
edge == [place |-> 2, accuracy |-> 1, mock |-> FALSE]
far  == [place |-> 9, accuracy |-> 1, mock |-> FALSE]
vague == [place |-> 0, accuracy |-> 9, mock |-> FALSE]
fake == [place |-> 0, accuracy |-> 1, mock |-> TRUE]
fakeVague == [place |-> 0, accuracy |-> 9, mock |-> TRUE]

dayShift   == [start |-> 0, end |-> 1, crosses |-> FALSE]
nightShift == [start |-> 2, end |-> 0, crosses |-> TRUE]

noGrace == [late |-> 0, early |-> 0, over |-> 0]
grace   == [late |-> 1, early |-> 1, over |-> 1]

OneFence == [b \in {b1} |-> [place |-> 0, radius |-> 1, limit |-> 5]]
TwoFences == [b \in {b1, b2} |->
                [place |-> IF b = b1 THEN 0 ELSE 9, radius |-> 1, limit |-> 5]]

NearOnly == {near}
NearFar == {near, far}
AllReadings == {near, edge, far, vague, fake, fakeVague}
DayOnly == {dayShift}
NightOnly == {nightShift}
NoGraceOnly == {noGrace}
BothRules == {noGrace, grace}

=============================================================================
