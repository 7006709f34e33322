-------------------------------- MODULE Leave --------------------------------
(***************************************************************************)
(* Leave requests and balances, backend/apps/leave.  The view loads the    *)
(* request, the service judges that copy and then saves, query by query    *)
(* and outside any transaction, first the balance and then the request.    *)
(* Other workers run between the queries, and a worker may die there.      *)
(***************************************************************************)
EXTENDS Integers, Functions

CONSTANTS Employees, Types, Workers,
          Ids,          \* the primary keys leave requests may get
          LastDay,      \* days are 0 .. LastDay
          YearLength,   \* days in a year
          MaxCrashes,   \* bound of the number of workers that die
          NoRequest

VARIABLES requests,     \* the LeaveRequest table
          used,         \* used_days of the LeaveBalance of each key, 0 if it has no row
          job,          \* what each worker is doing
          crashes,      \* number of workers that died so far
          lost,         \* history: what died deciders added to each balance for nothing
          serial        \* history: no operations have met on one request or balance

vars == <<requests, used, job, crashes, lost, serial>>

Days == 0 .. LastDay
Year(day) == day \div YearLength

Status == {"PENDING", "APPROVED", "REJECTED", "CANCELLED"}
LeaveRequest == [emp : Employees, type : Types, start : Days, end : Days, status : Status]
Balances == Employees \X Types \X {Year(d) : d \in Days}
Patch == [type : Types, start : Days, end : Days]
Fields == {"type", "start", "end"}

ASSUME LeaveAssumption ==
    /\ LastDay \in Nat /\ YearLength \in Nat \ {0} /\ MaxCrashes \in Nat
    /\ NoRequest \notin LeaveRequest \cup Ids

Job == [pc : {"idle", "edit.save", "reject.status",
              "approve.read", "approve.balance", "approve.status",
              "cancel.read", "cancel.balance", "cancel.status"},
        id : Ids \cup {NoRequest},
        copy : LeaveRequest \cup {NoRequest},   \* leave_request, as the view loaded it
        fields : SUBSET Fields,                 \* update_fields of an edit
        held : Int]                             \* used_days, as it was read

Made(id) == requests[id] # NoRequest

\* The dates of a request stay in order while edits of it do not overlap.
TypeOK ==
    /\ requests \in [Ids -> LeaveRequest \cup {NoRequest}]
    /\ serial => \A id \in Ids : Made(id) => requests[id].end >= requests[id].start
    /\ used \in [Balances -> Int]
    /\ job \in [Workers -> Job]
    /\ \A w \in Workers :
          job[w].pc # "idle" => job[w].id \in Ids /\ Made(job[w].id) /\ job[w].copy # NoRequest
    /\ crashes \in 0 .. MaxCrashes
    /\ lost \in [Balances -> Int]
    /\ serial \in BOOLEAN

Idle == [pc |-> "idle", id |-> NoRequest, copy |-> NoRequest, fields |-> {}, held |-> 0]

Init ==
    /\ requests = [id \in Ids |-> NoRequest]
    /\ used = [b \in Balances |-> 0]
    /\ job = [w \in Workers |-> Idle]
    /\ crashes = 0
    /\ lost = [b \in Balances |-> 0]
    /\ serial = TRUE

Answer(w) == job' = [job EXCEPT ![w] = Idle]

Proceed(w, pc, id, copy, fields, held) ==
    job' = [job EXCEPT ![w] = [pc |-> pc, id |-> id, copy |-> copy, fields |-> fields,
                               held |-> held]]

\* The view has loaded the request, and the service goes on with it: what the
\* service refuses is answered with an error and changes nothing.
Begin(w, pc, id, copy, fields) ==
    /\ job[w].pc = "idle"
    /\ Proceed(w, pc, id, copy, fields, 0)
    /\ UNCHANGED <<requests, used, crashes, lost>>

\* The inclusive length of a request, in calendar days.
DaysRequested(r) == r.end - r.start + 1

\* The balance of the year the leave starts in, even if it ends in the next.
BalanceOf(r) == <<r.emp, r.type, Year(r.start)>>

-----------------------------------------------------------------------------
(* submit_leave_request, update_leave_request *)

Submit(emp, type, start, end) ==
    /\ end >= start
    /\ \E id \in Ids :
          /\ ~Made(id)
          /\ requests' = [requests EXCEPT ![id] =
                [emp |-> emp, type |-> type, start |-> start, end |-> end,
                 status |-> "PENDING"]]
    /\ UNCHANGED <<used, job, crashes, lost>>

\* Mutation of Pending: the status is not looked at.
AnyStatus(r) == TRUE

Pending(r) == r.status = "PENDING"

\* Mutation of OrderedDates: only an edit of both dates is checked.
OrderedIfBothGiven(r, fields) == {"start", "end"} \subseteq fields => r.end >= r.start

OrderedDates(r, fields) == r.end >= r.start

\* Mutation of Edited: a leave type that is absent from the PATCH is cleared.
ClearsAbsentType(r, copy, fields) ==
    [emp |-> r.emp, type |-> IF "type" \in fields THEN copy.type ELSE NoRequest,
     start |-> copy.start, end |-> copy.end, status |-> r.status]

\* Of row r, the fields to save are those of the edited copy.
Edited(r, copy, fields) ==
    [emp    |-> r.emp,
     type   |-> IF "type" \in fields THEN copy.type ELSE r.type,
     start  |-> IF "start" \in fields THEN copy.start ELSE r.start,
     end    |-> IF "end" \in fields THEN copy.end ELSE r.end,
     status |-> r.status]

\* The PATCH gives new values for some of the fields.
BeginEdit(w, id, data, fields) ==
    /\ Made(id)
    /\ Pending(requests[id])
    /\ LET copy == Edited(requests[id], data, fields)
       IN  OrderedDates(copy, fields) /\ Begin(w, "edit.save", id, copy, fields)

SaveEdit(w) ==
    LET j == job[w]
    IN  /\ j.pc = "edit.save"
        /\ requests' = [requests EXCEPT ![j.id] = Edited(@, j.copy, j.fields)]
        /\ Answer(w)
        /\ UNCHANGED <<used, crashes, lost>>

-----------------------------------------------------------------------------
(* approve_leave_request, reject_leave_request, cancel_leave_request *)

BeginApprove(w, id) ==
    /\ Made(id)
    /\ Pending(requests[id])
    /\ Begin(w, "approve.read", id, requests[id], {})

BeginReject(w, id) ==
    /\ Made(id)
    /\ Pending(requests[id])
    /\ Begin(w, "reject.status", id, requests[id], {})

\* Mutation of WasApproved: a cancellation restores nothing.
NeverRestores(r) == FALSE

WasApproved(r) == r.status = "APPROVED"

\* Nothing was deducted for a request that is still pending.
BeginCancel(w, id) ==
    LET r == requests[id]
    IN  /\ Made(id)
        /\ r.status \in {"PENDING", "APPROVED"}
        /\ Begin(w, IF WasApproved(r) THEN "cancel.read" ELSE "cancel.status", id, r, {})

ReadBalance(w) ==
    LET j == job[w]
    IN  /\ j.pc \in {"approve.read", "cancel.read"}
        /\ Proceed(w, IF j.pc = "approve.read" THEN "approve.balance" ELSE "cancel.balance",
                   j.id, j.copy, {}, used[BalanceOf(j.copy)])
        /\ UNCHANGED <<requests, used, crashes, lost>>

\* balance.used_days += days, or -=, on the number that was read.
SaveBalance(w) ==
    LET j == job[w]
        approving == j.pc = "approve.balance"
        change == IF approving THEN DaysRequested(j.copy) ELSE -DaysRequested(j.copy)
    IN  /\ j.pc \in {"approve.balance", "cancel.balance"}
        /\ used' = [used EXCEPT ![BalanceOf(j.copy)] = j.held + change]
        /\ Proceed(w, IF approving THEN "approve.status" ELSE "cancel.status",
                   j.id, j.copy, {}, 0)
        /\ UNCHANGED <<requests, crashes, lost>>

SaveStatus(w) ==
    LET j == job[w]
        decided == IF j.pc = "approve.status" THEN "APPROVED"
                   ELSE IF j.pc = "reject.status" THEN "REJECTED" ELSE "CANCELLED"
    IN  /\ j.pc \in {"approve.status", "reject.status", "cancel.status"}
        /\ requests' = [requests EXCEPT ![j.id].status = decided]
        /\ Answer(w)
        /\ UNCHANGED <<used, crashes, lost>>

\* The worker has saved the balance, and not yet the status that goes with it.
Midway(w, b) ==
    /\ \/ job[w].pc = "approve.status"
       \/ job[w].pc = "cancel.status" /\ job[w].copy.status = "APPROVED"
    /\ BalanceOf(job[w].copy) = b

\* What it added to the balance.
Change(w) ==
    IF job[w].pc = "approve.status" THEN DaysRequested(job[w].copy)
    ELSE -DaysRequested(job[w].copy)

\* A worker dies between two queries, and its client gets no answer.
Crash(w) ==
    /\ crashes < MaxCrashes
    /\ job[w].pc # "idle"
    /\ crashes' = crashes + 1
    /\ lost' = [b \in Balances |-> lost[b] + (IF Midway(w, b) THEN Change(w) ELSE 0)]
    /\ Answer(w)
    /\ UNCHANGED <<requests, used>>

Handle(w) == SaveEdit(w) \/ ReadBalance(w) \/ SaveBalance(w) \/ SaveStatus(w)

Step ==
    \/ \E e \in Employees, t \in Types, start, end \in Days : Submit(e, t, start, end)
    \/ \E w \in Workers, id \in Ids, data \in Patch, fields \in SUBSET Fields :
          BeginEdit(w, id, data, fields)
    \/ \E w \in Workers, id \in Ids :
          BeginApprove(w, id) \/ BeginReject(w, id) \/ BeginCancel(w, id)
    \/ \E w \in Workers : Handle(w) \/ Crash(w)

\* No two workers work on one leave request.
OneJobEach ==
    \A v, w \in Workers :
        job[v].pc # "idle" /\ job[w].pc # "idle" /\ job[v].id = job[w].id => v = w

\* The worker decides about a balance.
Deciding(w) ==
    job[w].pc \in {"approve.read", "approve.balance", "approve.status",
                   "cancel.read", "cancel.balance", "cancel.status"}

\* No two workers decide about one balance.
OneDecisionEach ==
    \A v, w \in Workers :
        Deciding(v) /\ Deciding(w) /\ BalanceOf(job[v].copy) = BalanceOf(job[w].copy) => v = w

Next == Step /\ serial' = (serial /\ OneJobEach' /\ OneDecisionEach')

Spec == Init /\ [][Next]_vars

-----------------------------------------------------------------------------
(* Properties. *)

Quiet == \A w \in Workers : job[w].pc = "idle"

ApprovedOf(b) ==
    {id \in Ids : /\ Made(id)
                  /\ requests[id].status = "APPROVED" /\ BalanceOf(requests[id]) = b}

ApprovedDays(b) == SumFunction([id \in ApprovedOf(b) |-> DaysRequested(requests[id])])

\* services.py:4-7: approval and the cancellation of an approved request are the
\* only changes of a balance.  While no two operations have met on one request or
\* one balance, each balance therefore sums its approved requests, and is off that
\* sum by exactly what the workers that died between the two saves had put into it.
UsedIsApproved ==
    serial /\ Quiet => \A b \in Balances : used[b] = ApprovedDays(b) + lost[b]

\* The worker of a save loaded the request when its status was another.
SavedFromBefore(id) ==
    \E w \in Workers :
        /\ job[w].pc # "idle" /\ job[w].id = id
        /\ job[w].copy.status # requests[id].status
        /\ job'[w].pc = "idle"

\* docs/03-API-SPECIFICATION.md:230 and services.py:78: a request that has been
\* decided is neither edited nor decided again; only an approved one may still be
\* cancelled.  Where operations overlap, only one that had loaded the request
\* before the decision can still change it.
DecidedOnce ==
    [][\A id \in Ids :
          /\ Made(id) /\ requests[id].status # "PENDING"
          /\ requests'[id] # requests[id]
          => \/ /\ requests[id].status = "APPROVED"
                /\ requests'[id] = [requests[id] EXCEPT !.status = "CANCELLED"]
             \/ SavedFromBefore(id)]_vars

=============================================================================
