------------------------ MODULE SubscriptionsProofs ------------------------
(***************************************************************************)
(* Proofs about Subscriptions, for any number of organizations, workers,   *)
(* terms and edits, any warnings and any grace period. A sweep decides on  *)
(* a copy of a term and on the day it started; the first invariant says    *)
(* what of them never goes out of date: the organization has a term that   *)
(* expires when the copy does, and the sweep's day is not after today. The *)
(* second says what holds until an admin edits the organization: the copy  *)
(* is the current term, up to an expiry that another sweep saved. From it  *)
(* follow what a sweep settles and, while there is one sweep a day, that   *)
(* no notice goes out twice.                                               *)
(***************************************************************************)
EXTENDS Subscriptions, TLAPS, FiniteSetTheorems

\* The worker has a copy of a term.
Judging(w) == job[w].pc \in {"judge", "announce"}

\* Organization o has a term with the copy's expiry.
Stands(o, copy) == \E s \in terms : s.org = o /\ s.expiry = copy.expiry

Typed ==
    /\ day \in Dates
    /\ terms \subseteq Term /\ IsFiniteSet(terms)
    /\ status \in [Orgs -> OrgStatus]
    /\ job \in [Workers -> Job]

CopiesStand ==
    \A w \in Workers :
        /\ job[w].today <= day
        /\ Judging(w) => job[w].term \in Term /\ Stands(job[w].org, job[w].term)

IInv == Typed /\ CopiesStand

-----------------------------------------------------------------------------

\* A worker without a job is typed.
LEMMA IdleTyped == Idle \in Job /\ Idle.pc = "idle" /\ Idle.today = 0
BY SubscriptionsAssumption DEF Idle, Job, Dates, OrgStatus

\* No term, no job.
LEMMA InitEstablishes == Init => IInv
<1> SUFFICES ASSUME Init PROVE IInv
  OBVIOUS
<1>1. Typed
  BY IdleTyped, FS_EmptySet, SubscriptionsAssumption DEF Init, Typed, Dates, OrgStatus
<1>2. CopiesStand
  BY IdleTyped DEF Init, CopiesStand, Judging
<1>3. QED
  BY <1>1, <1>2 DEF IInv

\* What worker v knows is what it knew.
Remembers(v) ==
    /\ job'[v].today = job[v].today
    /\ Judging(v)' => /\ Judging(v)
                      /\ job'[v].org = job[v].org
                      /\ job'[v].term \in Term
                      /\ job'[v].term.expiry = job[v].term.expiry

\* Worker v has no copy, or has just made it.
Informed(v) ==
    /\ job'[v].today <= day
    /\ Judging(v)' => /\ job'[v].term \in terms
                      /\ job'[v].term.org = job'[v].org

\* No term is lost, and none changes its expiry.
TermsKept ==
    /\ terms' \subseteq Term /\ IsFiniteSet(terms')
    /\ \A s \in terms : \E r \in terms' : r.org = s.org /\ r.expiry = s.expiry

\* The invariant is kept by workers that remember or inform themselves.
LEMMA KnowledgeStep ==
    ASSUME IInv, day' \in Dates, day' >= day, TermsKept,
           status' \in [Orgs -> OrgStatus], job' \in [Workers -> Job],
           \A v \in Workers : Remembers(v) \/ Informed(v)
    PROVE IInv'
<1>1. Typed'
  BY DEF Typed, TermsKept
<1>2. ASSUME NEW v \in Workers
      PROVE /\ job'[v].today <= day'
            /\ Judging(v)' => job'[v].term \in Term /\ Stands(job[v].org, job[v].term)'
  <2>1. day \in Nat /\ day' \in Nat /\ job[v].today \in Nat /\ job'[v].today \in Nat
    BY SubscriptionsAssumption DEF IInv, Typed, Job, Dates
  <2>2. job'[v].today <= day'
    BY <2>1 DEF Remembers, Informed, IInv, CopiesStand
  <2>3. ASSUME Judging(v)'
        PROVE job'[v].term \in Term /\ Stands(job[v].org, job[v].term)'
    <3>1. job'[v].term \in Term /\ Stands(job'[v].org, job'[v].term)
      <4>1. CASE Remembers(v)
        BY <2>3, <4>1 DEF Remembers, IInv, CopiesStand, Stands
      <4>2. CASE Informed(v)
        BY <2>3, <4>2 DEF Informed, IInv, Typed, Stands
      <4>3. QED
        BY <4>1, <4>2
    <3>2. QED
      BY <3>1 DEF Stands, TermsKept
  <2>4. QED
    BY <2>2, <2>3
<1>3. CopiesStand'
  BY <1>2 DEF CopiesStand
<1>4. QED
  BY <1>1, <1>3 DEF IInv

\* Terms that stay as they are.
LEMMA SameTerms == ASSUME IInv, terms' = terms PROVE TermsKept
BY DEF IInv, Typed, TermsKept

\* One worker changes its job, and the organizations' status changes at most.
LEMMA JobStep ==
    ASSUME IInv, NEW w \in Workers, NEW j \in Job, job' = [job EXCEPT ![w] = j],
           \/ j.today <= day /\ j.pc \notin {"judge", "announce"}
           \/ j.today <= day /\ j.term \in terms /\ j.term.org = j.org
           \/ /\ Judging(w) /\ j.today = job[w].today /\ j.org = job[w].org
              /\ j.term \in Term /\ j.term.expiry = job[w].term.expiry,
           TermsKept, day' = day, status' \in [Orgs -> OrgStatus]
    PROVE IInv'
<1>1. job \in [Workers -> Job] /\ day \in Dates /\ day \in Nat
  BY SubscriptionsAssumption DEF IInv, Typed, Dates
<1>2. job' \in [Workers -> Job] /\ \A v \in Workers : job'[v] = IF v = w THEN j ELSE job[v]
  BY <1>1
<1>3. Remembers(w) \/ Informed(w)
  BY <1>2 DEF Remembers, Informed, Judging
<1>4. ASSUME NEW v \in Workers, v # w PROVE Remembers(v)
  BY <1>2, <1>4 DEF Remembers, Judging, IInv, CopiesStand
<1>5. QED
  BY <1>1, <1>2, <1>3, <1>4, KnowledgeStep

-----------------------------------------------------------------------------
(* The sweep. *)

\* A sweep starts, dies, or goes on to its next organization.
LEMMA SweepMoves ==
    ASSUME IInv, NEW w \in Workers, StartSweep(w) \/ Die(w) \/ Passed(w),
           terms' = terms, day' = day, status' \in [Orgs -> OrgStatus]
    PROVE IInv'
<1>1. job[w] \in Job /\ job[w].today <= day /\ day \in Dates /\ day \in Nat
  BY SubscriptionsAssumption DEF IInv, Typed, CopiesStand, Dates
<1>2. Idle.today <= day
  BY <1>1, IdleTyped
<1>3. CASE StartSweep(w)
  <2> DEFINE j == [Idle EXCEPT !.pc = "pick", !.today = day, !.todo = Orgs]
  <2>1. j \in Job /\ j.pc \notin {"judge", "announce"} /\ j.today = day
    BY <1>1 DEF Idle, Job, OrgStatus
  <2>2. job' = [job EXCEPT ![w] = j]
    BY <1>3 DEF StartSweep
  <2>3. day <= day
    BY <1>1
  <2> HIDE DEF j
  <2>4. QED
    BY <1>1, <2>1, <2>2, <2>3, SameTerms, JobStep
<1>4. CASE job' = [job EXCEPT ![w] = Idle]
  BY <1>2, <1>4, IdleTyped, SameTerms, JobStep
<1>5. CASE Passed(w) /\ job[w].todo # {}
  <2> DEFINE j == [job[w] EXCEPT !.pc = "pick", !.org = NoOrg, !.term = NoTerm,
                                 !.seen = "TRIAL", !.touched = FALSE]
  <2>1. j \in Job /\ j.pc = "pick" /\ j.today = job[w].today
    BY <1>1 DEF Job, OrgStatus
  <2>2. job' = [job EXCEPT ![w] = j]
    BY <1>5 DEF Passed
  <2> HIDE DEF j
  <2>3. QED
    BY <1>1, <2>1, <2>2, SameTerms, JobStep
<1>6. QED
  BY <1>3, <1>4, <1>5 DEF Die, Passed

\* A sweep reads an organization's current term, or finds none.
LEMMA PickStep ==
    ASSUME IInv, NEW w \in Workers, NEW o \in Orgs, Pick(w, o) PROVE IInv'
<1> DEFINE next == [job[w] EXCEPT !.todo = @ \ {o}, !.org = o]
<1>1. job[w] \in Job /\ job[w].today <= day /\ day \in Nat /\ status[o] \in OrgStatus
  BY SubscriptionsAssumption DEF IInv, Typed, CopiesStand, Dates
<1>2. /\ next \in Job /\ next.today = job[w].today /\ next.pc = job[w].pc /\ next.org = o
  BY <1>1 DEF Job
<1>3. UNCHANGED <<day, terms, status>> /\ status' \in [Orgs -> OrgStatus]
  BY DEF Pick, IInv, Typed
<1>4. Idle.today <= day
  BY IdleTyped, <1>1
<1>5. CASE job' = [job EXCEPT ![w] = Idle]
  BY <1>3, <1>4, <1>5, IdleTyped, SameTerms, JobStep
<1>6. CASE job' = [job EXCEPT ![w] = [next EXCEPT !.org = NoOrg]]
  <2> DEFINE j == [next EXCEPT !.org = NoOrg]
  <2>1. j \in Job /\ j.today = job[w].today /\ j.pc = job[w].pc
    <3> HIDE DEF next
    <3> QED BY <1>2 DEF Job
  <2>2. job' = [job EXCEPT ![w] = j] /\ j.pc = "pick"
    BY <1>6, <2>1 DEF Pick
  <2> HIDE DEF j
  <2>3. QED
    BY <1>1, <1>3, <2>1, <2>2, SameTerms, JobStep
<1>7. ASSUME NEW s \in CurrentTerms(o),
             job' = [job EXCEPT ![w] = [next EXCEPT !.pc = "judge", !.term = s,
                                                    !.seen = status[o]]]
      PROVE IInv'
  <2> DEFINE j == [next EXCEPT !.pc = "judge", !.term = s, !.seen = status[o]]
  <2>1. s \in terms /\ s \in Term /\ s.org = o
    BY DEF CurrentTerms, IInv, Typed
  <2>2. j \in Job /\ j.today = job[w].today /\ j.term = s /\ j.org = o
    <3> HIDE DEF next
    <3> QED BY <1>1, <1>2, <2>1 DEF Job
  <2>3. job' = [job EXCEPT ![w] = j]
    BY <1>7
  <2> HIDE DEF j
  <2>4. QED
    BY <1>1, <1>3, <2>1, <2>2, <2>3, SameTerms, JobStep
<1>8. QED
  BY <1>5, <1>6, <1>7 DEF Pick

\* Marking a term changes nobody's expiry.
LEMMA MarkedTerms ==
    ASSUME IInv, NEW i, NEW new \in TermStatus,
           terms' = {Marked(s, i, new) : s \in terms}
    PROVE TermsKept
<1>1. ASSUME NEW s \in Term
      PROVE /\ Marked(s, i, new) \in Term /\ Marked(s, i, new).org = s.org
            /\ Marked(s, i, new).expiry = s.expiry
  BY DEF Marked, Term
<1>2. terms \subseteq Term /\ IsFiniteSet(terms)
  BY DEF IInv, Typed
<1>3. IsFiniteSet(terms')
  <2> DEFINE f == [s \in terms |-> Marked(s, i, new)]
  <2>1. f \in Surjection(terms, terms')
    BY DEF Surjection
  <2>2. QED
    BY <1>2, <2>1, FS_Surjection
<1>4. QED
  BY <1>1, <1>2, <1>3 DEF TermsKept

\* Edits that are noted in the jobs leave what the workers know.
LEMMA TouchedStep ==
    ASSUME IInv, NEW jobs \in [Workers -> Job], NEW o, job' = Touched(jobs, o)
    PROVE /\ job' \in [Workers -> Job]
          /\ \A v \in Workers :
                /\ job'[v].pc = jobs[v].pc /\ job'[v].today = jobs[v].today
                /\ job'[v].todo = jobs[v].todo /\ job'[v].org = jobs[v].org
                /\ job'[v].term = jobs[v].term /\ job'[v].seen = jobs[v].seen
                /\ job'[v].touched = (jobs[v].touched \/ (Running(v) /\ jobs[v].org = o))
<1> DEFINE Noted(v) ==
      /\ job'[v].pc = jobs[v].pc /\ job'[v].today = jobs[v].today
      /\ job'[v].todo = jobs[v].todo /\ job'[v].org = jobs[v].org
      /\ job'[v].term = jobs[v].term /\ job'[v].seen = jobs[v].seen
      /\ job'[v].touched = (jobs[v].touched \/ (Running(v) /\ jobs[v].org = o))
<1>1. ASSUME NEW v \in Workers PROVE job'[v] \in Job /\ Noted(v)
  <2> DEFINE t == jobs[v].touched \/ (Running(v) /\ jobs[v].org = o)
  <2>1. jobs[v] \in Job /\ t \in BOOLEAN
    BY DEF Job
  <2>2. job'[v] = [jobs[v] EXCEPT !.touched = t]
    BY DEF Touched
  <2>3. t = (jobs[v].touched \/ (Running(v) /\ jobs[v].org = o))
    OBVIOUS
  <2> HIDE DEF t
  <2>4. QED
    BY <2>1, <2>2, <2>3 DEF Job
<1>2. job' = [v \in Workers |-> job'[v]]
  BY DEF Touched
<1>3. QED
  BY <1>1, <1>2

\* A term is marked EXPIRED, in the table and in the copy.
LEMMA ExpireTermStep ==
    ASSUME IInv, NEW w \in Workers, ExpireTerm(w) PROVE IInv'
<1> DEFINE copy  == Marked(job[w].term, job[w].term.id, "EXPIRED")
           j     == [job[w] EXCEPT !.pc = "announce", !.term = copy]
           moved == [job EXCEPT ![w] = j]
<1>1. /\ job \in [Workers -> Job] /\ job[w] \in Job /\ Judging(w) /\ job[w].term \in Term
      /\ UNCHANGED <<day, status>> /\ status' \in [Orgs -> OrgStatus] /\ day \in Dates
      /\ day >= day
  BY SubscriptionsAssumption DEF ExpireTerm, IInv, Typed, CopiesStand, Judging, Dates
<1>2. TermsKept
  BY MarkedTerms DEF ExpireTerm, TermStatus
<1>3. copy \in Term /\ copy.expiry = job[w].term.expiry
  BY <1>1 DEF Marked, Term, TermStatus
<1> HIDE DEF copy
<1>4. j \in Job /\ j.term = copy /\ j.today = job[w].today /\ j.org = job[w].org
  BY <1>1, <1>3 DEF Job
<1> HIDE DEF j
<1>5. CASE job' = moved
  BY <1>1, <1>2, <1>3, <1>4, <1>5, JobStep
<1>6. CASE job' = Touched(moved, job[w].org)
  <2>1. moved \in [Workers -> Job] /\ \A v \in Workers : moved[v] = IF v = w THEN j ELSE job[v]
    BY <1>1, <1>4
  <2> HIDE DEF moved
  <2>2. /\ job' \in [Workers -> Job]
        /\ \A v \in Workers : /\ job'[v].pc = moved[v].pc /\ job'[v].today = moved[v].today
                              /\ job'[v].org = moved[v].org /\ job'[v].term = moved[v].term
    BY <1>6, <2>1, TouchedStep
  <2>3. \A v \in Workers : Remembers(v)
    BY <1>1, <1>3, <1>4, <2>1, <2>2 DEF Remembers, Judging, IInv, CopiesStand
  <2>4. QED
    BY <1>1, <1>2, <2>2, <2>3, KnowledgeStep
<1>7. QED
  BY <1>5, <1>6 DEF ExpireTerm, copy, j, moved

-----------------------------------------------------------------------------
(* The admins and the clock. *)

\* A term is assigned or cancelled.
LEMMA AdminTermStep ==
    ASSUME IInv, NEW o, job' = Touched(job, o), TermsKept, UNCHANGED <<day, status>>
    PROVE IInv'
<1>1. job \in [Workers -> Job] /\ day' \in Dates /\ day' >= day /\ status' \in [Orgs -> OrgStatus]
  BY SubscriptionsAssumption DEF IInv, Typed, Dates
<1>2. \A v \in Workers : Remembers(v)
  BY <1>1, TouchedStep DEF Remembers, Judging, IInv, CopiesStand
<1>3. QED
  BY <1>1, <1>2, TouchedStep, KnowledgeStep

\* A new term has the next id.
LEMMA AssignStep ==
    ASSUME IInv, NEW o \in Orgs, NEW p \in Periods, Assign(o, p) PROVE IInv'
<1> DEFINE s == [id |-> Cardinality(terms), org |-> o, start |-> p.start,
                 expiry |-> p.expiry, status |-> "TRIAL"]
<1>1. terms' = terms \cup {s} /\ terms \subseteq Term /\ IsFiniteSet(terms)
  BY DEF Assign, IInv, Typed
<1>2. Cardinality(terms) \in Ids
  BY <1>1, FS_CardinalityType, SubscriptionsAssumption DEF Assign, Ids
<1>3. s \in Term
  BY <1>2, SubscriptionsAssumption DEF Term, TermStatus
<1>4. IsFiniteSet(terms')
  BY <1>1, FS_AddElement
<1>5. TermsKept
  BY <1>1, <1>3, <1>4 DEF TermsKept
<1>6. QED
  BY <1>5, AdminTermStep DEF Assign

\* Suspension and activation, from the read to the save.
LEMMA SetStatusStep ==
    ASSUME IInv, NEW w \in Workers,
           \/ \E o \in Orgs, pc \in DOMAIN Target : BeginSetStatus(w, o, pc)
           \/ SaveStatus(w)
    PROVE IInv'
<1>1. job \in [Workers -> Job] /\ job[w] \in Job /\ day \in Dates /\ 0 <= day /\ day <= day
  BY SubscriptionsAssumption DEF IInv, Typed, Dates
<1>2. ASSUME NEW o \in Orgs, NEW pc \in {"activate", "suspend"}, BeginSetStatus(w, o, pc)
      PROVE IInv'
  <2> DEFINE j == [Idle EXCEPT !.pc = pc, !.org = o]
  <2>1. j \in Job /\ j.pc \notin {"judge", "announce"} /\ j.today = 0
    <3>1. j.pc = pc /\ j.today = 0
      BY DEF Idle
    <3>2. j \in Job
      BY IdleTyped DEF Job
    <3>3. QED
      BY <3>1, <3>2
  <2>2. job' = [job EXCEPT ![w] = j] /\ status' \in [Orgs -> OrgStatus]
    BY <1>2 DEF BeginSetStatus, IInv, Typed
  <2>3. UNCHANGED <<day, terms>>
    BY <1>2 DEF BeginSetStatus
  <2> HIDE DEF j
  <2>4. QED
    BY <1>1, <2>1, <2>2, <2>3, SameTerms, JobStep
<1>3. CASE SaveStatus(w)
  <2> DEFINE jobs == [job EXCEPT ![w] = Idle]
  <2>1. jobs \in [Workers -> Job] /\ \A v \in Workers : jobs[v] = IF v = w THEN Idle ELSE job[v]
    BY <1>1, IdleTyped
  <2>2. job' = Touched(jobs, job[w].org)
    BY <1>3 DEF SaveStatus
  <2> HIDE DEF jobs
  <2>3. /\ job' \in [Workers -> Job]
        /\ \A v \in Workers : /\ job'[v].pc = jobs[v].pc /\ job'[v].today = jobs[v].today
                              /\ job'[v].org = jobs[v].org /\ job'[v].term = jobs[v].term
    BY <2>1, <2>2, TouchedStep
  <2>4. ASSUME NEW v \in Workers PROVE Remembers(v) \/ Informed(v)
    <3>1. CASE v = w
      BY <1>1, <2>1, <2>3, <3>1, IdleTyped DEF Informed, Judging
    <3>2. CASE v # w
      BY <2>1, <2>3, <3>2 DEF Remembers, Judging, IInv, CopiesStand
    <3>3. QED
      BY <3>1, <3>2
  <2>5. status' \in [Orgs -> OrgStatus]
    <3>1. Target["activate"] \in OrgStatus /\ Target["suspend"] \in OrgStatus
      BY DEF Target, OrgStatus
    <3>2. Target[job[w].pc] \in OrgStatus
      BY <1>3, <3>1 DEF SaveStatus
    <3>3. QED
      BY <1>3, <3>2 DEF SaveStatus, IInv, Typed
  <2>6. UNCHANGED <<day, terms>>
    BY <1>3 DEF SaveStatus
  <2>7. QED
    BY <1>1, <2>3, <2>4, <2>5, <2>6, SameTerms, KnowledgeStep
<1>4. DOMAIN Target = {"activate", "suspend"}
  BY DEF Target
<1>5. QED
  BY <1>2, <1>3, <1>4

\* Every step of Subscriptions keeps the invariant.
LEMMA StepPreserves == IInv /\ [Next]_vars => IInv'
<1> SUFFICES ASSUME IInv, [Next]_vars PROVE IInv'
  OBVIOUS
<1>1. CASE UNCHANGED vars \/ NextDay
  <2>1. UNCHANGED <<job, terms, status>> /\ day \in Nat /\ day' \in Dates /\ day' >= day
    BY <1>1, SubscriptionsAssumption DEF vars, NextDay, IInv, Typed, Dates
  <2>2. \A v \in Workers : Remembers(v)
    BY <2>1 DEF Remembers, Judging, IInv, CopiesStand
  <2>3. QED
    BY <2>1, <2>2, SameTerms, KnowledgeStep DEF IInv, Typed
<1>2. ASSUME NEW w \in Workers, StartSweep(w) \/ Die(w) PROVE IInv'
  BY <1>2, SweepMoves DEF StartSweep, Die, IInv, Typed
<1>3. ASSUME NEW w \in Workers, Handle(w) PROVE IInv'
  <2>1. CASE Warn(w) \/ LeaveAsIs(w)
    BY <2>1, SweepMoves DEF Warn, LeaveAsIs, IInv, Typed
  <2>2. CASE SuspendLapsed(w)
    <3>1. status' \in [Orgs -> OrgStatus]
      BY <2>2 DEF SuspendLapsed, OrgStatus, IInv, Typed
    <3>2. QED
      BY <2>2, <3>1, SweepMoves DEF SuspendLapsed
  <2>3. QED
    BY <1>3, <2>1, <2>2, PickStep, ExpireTermStep, SetStatusStep DEF Handle
<1>4. ASSUME NEW s \in terms, Cancel(s) PROVE IInv'
  BY <1>4, MarkedTerms, AdminTermStep DEF Cancel, TermStatus
<1>5. QED
  BY <1>1, <1>2, <1>3, <1>4, AssignStep, SetStatusStep DEF Next

-----------------------------------------------------------------------------

\* The inductive invariant holds at all times.
THEOREM Invariance == Spec => []IInv
BY InitEstablishes, StepPreserves, PTL DEF Spec

\* No sweep, whatever it missed since it started, suspends an organization none of
\* whose terms is past its grace period.
THEOREM SuspensionIsEarnedHolds == Spec => SuspensionIsEarned
<1> DEFINE Earned ==
      \A w \in Workers, o \in Orgs :
        SuspendLapsed(w) /\ status[o] # status'[o] =>
          \E s \in terms : s.org = o /\ day >= s.expiry + Grace
<1>1. IInv /\ [Next]_vars => [Earned]_vars
  <2> SUFFICES ASSUME IInv, NEW w \in Workers, NEW o \in Orgs,
                      SuspendLapsed(w), status[o] # status'[o]
               PROVE \E s \in terms : s.org = o /\ day >= s.expiry + Grace
    OBVIOUS
  <2>1. job[w].org = o
    BY DEF SuspendLapsed, IInv, Typed
  <2>2. Judging(w) /\ job[w].today >= job[w].term.expiry + Grace
    BY DEF SuspendLapsed, AtGrace, GraceOver, Judging
  <2>3. job[w].today <= day /\ job[w].today \in Nat /\ day \in Nat
    BY SubscriptionsAssumption DEF IInv, Typed, CopiesStand, Job, Dates
  <2>4. PICK s \in terms : s.org = o /\ s.expiry = job[w].term.expiry
    BY <2>1, <2>2 DEF IInv, CopiesStand, Stands
  <2>5. s.expiry \in Nat /\ Grace \in Nat
    BY SubscriptionsAssumption DEF IInv, Typed, Term, Dates
  <2>6. QED
    BY <2>2, <2>3, <2>4, <2>5
<1>2. QED
  BY <1>1, Invariance, PTL DEF Spec, SuspensionIsEarned

(***************************************************************************)
(* What a sweep settles.  While an organization is not edited under it, a  *)
(* sweep's copy is the current term, up to the expiry that another sweep   *)
(* has saved since; and while there is one sweep a day, what it has still  *)
(* to announce has not been announced.                                     *)
(***************************************************************************)

\* Ids tell terms apart, and those to come are not in use.
Numbered ==
    /\ \A r, s \in terms : r.id = s.id => r = s
    /\ \A s \in terms : s.id < Cardinality(terms)

\* Term s is the row of worker w's copy.
Row(w, s) == s.id = job[w].term.id /\ s.org = job[w].org /\ s.expiry = job[w].term.expiry

\* What w has read is what s and its organization are, or they are further on.
UpToDate(w, s) ==
    /\ s \in CurrentTerms(job[w].org)
    /\ \/ s.status = job[w].term.status
       \/ job[w].term.status = "TRIAL" /\ s.status = "EXPIRED" /\ s.expiry <= day
    /\ job[w].seen = "SUSPENDED" => status[job[w].org] = "SUSPENDED"

\* A copy has its row, which is up to date unless the organization was edited.
Follows(w) ==
    Judging(w) =>
        /\ job[w].pc = "announce" => job[w].term.status = "EXPIRED"
        /\ \E s \in terms : /\ Row(w, s)
                            /\ job[w].pc = "announce" => s.status # "TRIAL"
                            /\ ~job[w].touched => UpToDate(w, s)

\* Notices are about terms, and no sweep passes an organization twice.
Known ==
    /\ \A n \in sent : \E s \in terms : s.id = n[1]
    /\ \A w \in Workers : Running(w) => job[w].org \notin job[w].todo

\* There is at most one sweep, queued or running, and it goes by today's date.
OneSweep ==
    prompt => /\ queue <= 1
              /\ \A v \in Workers : Running(v) => queue = 0 /\ job[v].today = day
              /\ \A v, w \in Workers : Running(v) /\ Running(w) => v = w

\* A term whose expiry was announced is over, and no sweep will announce it again.
ExpiredSound ==
    prompt => \A s \in terms : <<s.id, "expired">> \in sent =>
        /\ s.status # "TRIAL"
        /\ \A w \in Workers : Judging(w) /\ job[w].term.id = s.id =>
              job[w].pc = "judge" /\ job[w].term.status # "TRIAL"

\* A sweep of today has organization o before it.
Ahead(o) ==
    \/ queue > 0
    \/ \E w \in Workers : Running(w) /\ (job[w].org = o \/ o \in job[w].todo)

\* A warning went out on its day, and if that is today, today's sweep is past it.
WarningsSound ==
    prompt => \A s \in terms, k \in Warnings : <<s.id, k>> \in sent =>
        /\ s.expiry - WarnAt[k] <= day
        /\ s.expiry - WarnAt[k] = day => ~Ahead(s.org)

\* What is to be shown of an organization that was swept.
SettledAt(o) ==
    \A s \in terms : CurrentTerms(o) = {s} =>
        /\ InTerm(s) => day < s.expiry
        /\ s.status = "EXPIRED" /\ day >= s.expiry + Grace => status[o] = "SUSPENDED"
        /\ \A k \in Warnings :
              InTerm(s) /\ s.expiry - day = WarnAt[k] => <<s.id, k>> \in sent

Once == Known /\ OneSweep /\ ExpiredSound /\ WarningsSound

SInv ==
    /\ IInv /\ queue \in Nat /\ swept \subseteq Orgs /\ Numbered
    /\ \A w \in Workers : Follows(w)
    /\ \A o \in swept : SettledAt(o)
    /\ Once /\ ~twice

-----------------------------------------------------------------------------
(* The table of terms. *)

\* Row r is what has become of row s.
Successor(s, r) ==
    /\ r.id = s.id /\ r.org = s.org /\ r.expiry = s.expiry
    /\ s.status # "TRIAL" => r.status # "TRIAL"

\* Rows go on, and those that are new have an id that was not in use.
TableGoesOn ==
    /\ \A s \in terms : \E r \in terms' : Successor(s, r)
    /\ \A r \in terms' : r.id = Cardinality(terms) \/ \E s \in terms : Successor(s, r)

\* The table stays as it is.
LEMMA SameTable ==
    ASSUME Numbered, terms' = terms
    PROVE Numbered' /\ TableGoesOn /\ \A o \in Orgs : CurrentTerms(o)' = CurrentTerms(o)
BY DEF Numbered, TableGoesOn, Successor, CurrentTerms

\* Marking a row leaves the others, and which rows are current.
LEMMA MarkedTable ==
    ASSUME IInv, Numbered, NEW i, NEW new \in TermStatus, new # "TRIAL",
           terms' = {Marked(s, i, new) : s \in terms}
    PROVE /\ Numbered' /\ TableGoesOn
          /\ \A o \in Orgs : CurrentTerms(o)' = {Marked(s, i, new) : s \in CurrentTerms(o)}
<1>1. ASSUME NEW s \in Term
      PROVE /\ Marked(s, i, new).id = s.id /\ Marked(s, i, new).org = s.org
            /\ Marked(s, i, new).start = s.start /\ Successor(s, Marked(s, i, new))
  BY DEF Marked, Term, Successor
<1>2. terms \subseteq Term /\ IsFiniteSet(terms)
  BY DEF IInv, Typed
<1>3. Cardinality(terms') = Cardinality(terms)
  <2> DEFINE f == [s \in terms |-> Marked(s, i, new)]
  <2>1. f \in Bijection(terms, terms')
    <3>1. f \in [terms -> terms'] /\ \A t \in terms' : \E s \in terms : f[s] = t
      OBVIOUS
    <3>2. \A r, s \in terms : f[r] = f[s] => r = s
      BY <1>1, <1>2 DEF Numbered
    <3>3. QED
      BY <3>1, <3>2 DEF Bijection, Injection, Surjection, IsInjective
  <2> HIDE DEF f
  <2>2. ExistsBijection(terms, terms')
    BY <2>1 DEF ExistsBijection
  <2>3. QED
    BY <1>2, <2>2, FS_Bijection
<1>4. Numbered'
  <2>1. \A r \in terms' : \E s \in terms : s \in Term /\ r = Marked(s, i, new) /\ r.id = s.id
    BY <1>1, <1>2
  <2>2. \A r, s \in terms' : r.id = s.id => r = s
    BY <2>1 DEF Numbered
  <2>3. QED
    BY <1>3, <2>1, <2>2 DEF Numbered
<1>5. TableGoesOn
  BY <1>1, <1>2 DEF TableGoesOn
<1>6. ASSUME NEW o \in Orgs
      PROVE CurrentTerms(o)' = {Marked(s, i, new) : s \in CurrentTerms(o)}
  BY <1>1, <1>2 DEF CurrentTerms
<1>7. QED
  BY <1>4, <1>5, <1>6

\* A row of another organization is current when it was.
LEMMA OthersMarked ==
    ASSUME IInv, Numbered, NEW i, NEW new \in TermStatus, new # "TRIAL",
           terms' = {Marked(s, i, new) : s \in terms},
           NEW o \in Orgs, \A s \in terms : s.id = i => s.org # o
    PROVE CurrentTerms(o)' = CurrentTerms(o)
<1>1. \A s \in CurrentTerms(o) : Marked(s, i, new) = s
  BY DEF CurrentTerms, Marked
<1>2. {Marked(s, i, new) : s \in CurrentTerms(o)} = CurrentTerms(o)
  BY <1>1
<1>3. CurrentTerms(o)' = {Marked(s, i, new) : s \in CurrentTerms(o)}
  BY MarkedTable
<1>4. QED
  BY <1>2, <1>3

\* A new row leaves the terms of the other organizations.
LEMMA AddedTable ==
    ASSUME IInv, Numbered, NEW s \in Term, s.id = Cardinality(terms), terms' = terms \cup {s}
    PROVE /\ Numbered' /\ TableGoesOn
          /\ \A o \in Orgs : s.org # o => CurrentTerms(o)' = CurrentTerms(o)
<1>1. terms \subseteq Term /\ IsFiniteSet(terms) /\ Cardinality(terms) \in Nat
  BY FS_CardinalityType DEF IInv, Typed
<1>2. s \notin terms
  BY <1>1 DEF Numbered
<1>3. Cardinality(terms') = Cardinality(terms) + 1
  BY <1>1, <1>2, FS_AddElement
<1>4. \A r \in terms : r.id \in Int
  BY <1>1, SubscriptionsAssumption DEF Term, Ids
<1>5. Numbered'
  BY <1>1, <1>3, <1>4 DEF Numbered
<1>6. TableGoesOn
  BY DEF TableGoesOn, Successor
<1>7. QED
  BY <1>5, <1>6 DEF CurrentTerms

-----------------------------------------------------------------------------
(* What a step may do to each part of the invariant. *)

\* A worker that keeps its copy follows its row, if whoever changes a row or a status
\* tells it, or moves ahead of it.
LEMMA FollowsKept ==
    ASSUME NEW v \in Workers, Follows(v), day \in Int, day' \in Int, day' >= day,
           terms \subseteq Term,
           Judging(v)' =>
              /\ job'[v].pc = job[v].pc /\ job'[v].org = job[v].org
              /\ job'[v].term = job[v].term /\ job'[v].seen = job[v].seen
              /\ job[v].touched => job'[v].touched,
           ~job'[v].touched /\ status[job[v].org] = "SUSPENDED" =>
              status'[job[v].org] = "SUSPENDED",
           \A s \in terms : \E r \in terms' :
              /\ Successor(s, r)
              /\ Judging(v)' /\ ~job'[v].touched /\ Row(v, s) /\ UpToDate(v, s) =>
                    /\ r \in CurrentTerms(job[v].org)'
                    /\ \/ r.status = s.status
                       \/ s.status = "TRIAL" /\ r.status = "EXPIRED" /\ s.expiry <= day
    PROVE Follows(v)'
<1> SUFFICES ASSUME Judging(v)'
             PROVE /\ job'[v].pc = "announce" => job'[v].term.status = "EXPIRED"
                   /\ \E r \in terms' : /\ Row(v, r)'
                                        /\ job'[v].pc = "announce" => r.status # "TRIAL"
                                        /\ ~job'[v].touched => UpToDate(v, r)'
  BY DEF Follows, Row, UpToDate, CurrentTerms
<1>1. Judging(v)
  BY DEF Judging
<1>2. PICK s \in terms : /\ Row(v, s)
                         /\ job[v].pc = "announce" => s.status # "TRIAL"
                         /\ ~job[v].touched => UpToDate(v, s)
  BY <1>1 DEF Follows
<1>3. PICK r \in terms' :
         /\ Successor(s, r)
         /\ ~job'[v].touched /\ Row(v, s) /\ UpToDate(v, s) =>
               /\ r \in CurrentTerms(job[v].org)'
               /\ \/ r.status = s.status
                  \/ s.status = "TRIAL" /\ r.status = "EXPIRED" /\ s.expiry <= day
  OBVIOUS
<1>4. Row(v, r)' /\ (job'[v].pc = "announce" => r.status # "TRIAL")
  BY <1>2, <1>3 DEF Row, Successor
<1>5. ASSUME ~job'[v].touched PROVE UpToDate(v, r)'
  <2>1. /\ UpToDate(v, s) /\ r \in CurrentTerms(job[v].org)' /\ r.expiry = s.expiry
        /\ \/ r.status = s.status
           \/ s.status = "TRIAL" /\ r.status = "EXPIRED" /\ s.expiry <= day
    BY <1>2, <1>3, <1>5 DEF Successor
  <2>2. s.expiry \in Int
    BY SubscriptionsAssumption DEF Term, Dates
  <2>3. QED
    BY <1>5, <2>1, <2>2 DEF UpToDate
<1>6. QED
  BY <1>1, <1>4, <1>5 DEF Follows

\* What was settled stays so when the current terms stay, and no suspension is undone.
LEMMA SettledStays ==
    ASSUME NEW o \in Orgs, SettledAt(o), CurrentTerms(o)' = CurrentTerms(o), day' = day,
           sent \subseteq sent',
           status[o] = "SUSPENDED" => status'[o] = "SUSPENDED"
    PROVE SettledAt(o)'
<1>1. CurrentTerms(o) \subseteq terms
  BY DEF CurrentTerms
<1>2. QED
  BY <1>1 DEF SettledAt, InTerm


\* Worker v goes on with its sweep, at the most to an organization not yet passed.
GoesOn(v) ==
    Running(v)' =>
        /\ Running(v) /\ job'[v].today = job[v].today
        /\ job'[v].todo \subseteq job[v].todo /\ job'[v].org \notin job'[v].todo
        /\ job'[v].org \in job[v].todo \cup {job[v].org, NoOrg}
        /\ Judging(v)' =>
              \/ job'[v].pc = "judge" /\ job'[v].term \in terms
              \/ /\ Judging(v) /\ job'[v].term.id = job[v].term.id
                 /\ job[v].pc = "judge" /\ job[v].term.status # "TRIAL" =>
                       job'[v].pc = "judge" /\ job'[v].term.status # "TRIAL"

\* Notice n is about the term of a sweep that is done with it.
Fresh(n) ==
    \E w \in Workers, s \in terms :
        /\ Judging(w) /\ Row(w, s)
        /\ Running(w)' => job'[w].org = NoOrg /\ ~Judging(w)'
        /\ \/ n = <<s.id, "expired">> /\ s.status # "TRIAL"
           \/ \E k \in Warnings : n = <<s.id, k>> /\ s.expiry - job[w].today = WarnAt[k]

\* Sweeps that go on announce nothing twice.
LEMMA OnceKept ==
    ASSUME SInv, TableGoesOn, terms' \subseteq Term, \A v \in Workers : GoesOn(v),
           queue' = queue, day' = day, prompt' => prompt,
           sent \subseteq sent', \A n \in sent' : n \in sent \/ Fresh(n)
    PROVE Once'
<1> USE SubscriptionsAssumption
<1>1. /\ terms \subseteq Term /\ Numbered /\ Once
      /\ \A s \in Term : s.org \in Orgs /\ s.expiry \in Int
  BY DEF SInv, IInv, Typed, Term, Dates
<1>2. ASSUME NEW r \in terms', NEW k, <<r.id, k>> \in sent'
      PROVE \E s \in terms : Successor(s, r)
  <2>1. PICK s \in terms : s.id = r.id
    BY <1>1, <1>2 DEF Once, Known, Fresh, Row
  <2>2. r.id # Cardinality(terms)
    BY <1>1, <2>1 DEF Numbered, Term, Ids
  <2>3. QED
    BY <2>2 DEF TableGoesOn
<1>3. Known'
  <2>1. \A n \in sent' : \E s \in terms : s.id = n[1]
    BY <1>1 DEF Once, Known, Fresh, Row
  <2>2. \A n \in sent' : \E r \in terms' : r.id = n[1]
    BY <2>1 DEF TableGoesOn, Successor
  <2>3. \A w \in Workers : Running(w)' => job'[w].org \notin job'[w].todo
    BY DEF GoesOn
  <2>4. QED
    BY <2>2, <2>3 DEF Known
<1>4. OneSweep'
  BY <1>1 DEF Once, OneSweep, GoesOn
<1>5. ExpiredSound'
  <2> SUFFICES ASSUME prompt', NEW r \in terms', <<r.id, "expired">> \in sent'
               PROVE /\ r.status # "TRIAL"
                     /\ \A w \in Workers : Judging(w)' /\ job'[w].term.id = r.id =>
                           job'[w].pc = "judge" /\ job'[w].term.status # "TRIAL"
    BY DEF ExpiredSound
  <2>1. PICK s \in terms : Successor(s, r)
    BY <1>2
  <2>2. CASE <<s.id, "expired">> \in sent
    <3>1. /\ s.status # "TRIAL"
          /\ \A w \in Workers : Judging(w) /\ job[w].term.id = s.id =>
                job[w].pc = "judge" /\ job[w].term.status # "TRIAL"
      BY <1>1, <2>2 DEF Once, ExpiredSound
    <3>2. ASSUME NEW w \in Workers, Judging(w)', job'[w].term.id = r.id
          PROVE job'[w].pc = "judge" /\ job'[w].term.status # "TRIAL"
      <4>1. Running(w)'
        BY <3>2 DEF Judging, Running
      <4>2. CASE job'[w].pc = "judge" /\ job'[w].term \in terms
        BY <1>1, <2>1, <3>1, <3>2, <4>2 DEF Numbered, Successor
      <4>3. CASE /\ Judging(w) /\ job'[w].term.id = job[w].term.id
                 /\ job[w].pc = "judge" /\ job[w].term.status # "TRIAL" =>
                       job'[w].pc = "judge" /\ job'[w].term.status # "TRIAL"
        BY <2>1, <3>1, <3>2, <4>3 DEF Successor
      <4>4. QED
        BY <3>2, <4>1, <4>2, <4>3 DEF GoesOn
    <3>3. QED
      BY <2>1, <3>1, <3>2 DEF Successor
  <2>3. CASE Fresh(<<s.id, "expired">>)
    <3>1. PICK w \in Workers : /\ Judging(w) /\ job[w].term.id = s.id
                               /\ Running(w)' => ~Judging(w)'
                               /\ s.status # "TRIAL"
      BY <1>1, <2>3 DEF Fresh, Row, Numbered
    <3>2. \A v \in Workers : Judging(v)' => Running(v)' /\ Running(v)
      BY DEF Judging, Running, GoesOn
    <3>3. Running(w)
      BY <3>1 DEF Judging, Running
    <3>4. \A v \in Workers : ~Judging(v)'
      BY <1>1, <3>1, <3>2, <3>3 DEF Once, OneSweep
    <3>5. QED
      BY <2>1, <3>1, <3>4 DEF Successor
  <2>4. QED
    BY <2>1, <2>2, <2>3 DEF Successor
<1>6. WarningsSound'
  <2> SUFFICES ASSUME prompt', NEW r \in terms', NEW k \in Warnings, <<r.id, k>> \in sent'
               PROVE /\ r.expiry - WarnAt[k] <= day'
                     /\ r.expiry - WarnAt[k] = day' => ~Ahead(r.org)'
    BY DEF WarningsSound
  <2>1. PICK s \in terms : Successor(s, r)
    BY <1>2
  <2>2. ASSUME NEW o \in Orgs, Ahead(o)' PROVE Ahead(o)
    BY <2>2 DEF Ahead, GoesOn
  <2>3. s.org = r.org /\ s.org \in Orgs /\ r.expiry = s.expiry /\ r.id = s.id
    BY <1>1, <2>1 DEF Successor
  <2>4. Ahead(r.org)' => Ahead(s.org)
    BY <2>2, <2>3
  <2>5. CASE <<s.id, k>> \in sent
    BY <1>1, <2>3, <2>4, <2>5 DEF Once, WarningsSound
  <2>6. CASE Fresh(<<s.id, k>>)
    <3>1. PICK w \in Workers : /\ Judging(w) /\ job[w].org = s.org
                               /\ Running(w)' => job'[w].org = NoOrg
                               /\ s.expiry - job[w].today = WarnAt[k]
      BY <1>1, <2>6 DEF Fresh, Row, Numbered
    <3>2. Running(w) /\ job[w].today = day /\ queue = 0
      BY <1>1, <3>1 DEF Judging, Running, Once, OneSweep
    <3>3. s.expiry - WarnAt[k] = day /\ day \in Int
      BY <1>1, <3>1, <3>2 DEF SInv, IInv, Typed, Dates
    <3>4. s.org \notin job[w].todo
      BY <1>1, <3>1, <3>2 DEF Once, Known
    <3>5. ~Ahead(s.org)'
      <4>1. \A v \in Workers : Running(v)' => v = w
        BY <1>1, <3>2 DEF GoesOn, Once, OneSweep
      <4>2. Running(w)' => job'[w].org # s.org /\ s.org \notin job'[w].todo
        BY <2>3, <3>1, <3>4 DEF GoesOn
      <4>3. QED
        BY <3>2, <4>1, <4>2 DEF Ahead
    <3>6. QED
      BY <2>3, <3>3, <3>5
  <2>7. QED
    BY <2>3, <2>5, <2>6
<1>7. QED
  BY <1>3, <1>4, <1>5, <1>6 DEF Once


-----------------------------------------------------------------------------
(* The steps. *)

\* What the steps are to keep, but for the inductive invariant above.
Settled ==
    /\ queue \in Nat /\ swept \subseteq Orgs /\ Numbered
    /\ \A w \in Workers : Follows(w)
    /\ \A o \in swept : SettledAt(o)
    /\ Once /\ ~twice

\* Types, and a worker with a copy is about an organization.
LEMMA Facts ==
    ASSUME SInv
    PROVE /\ day \in Nat /\ terms \subseteq Term /\ status \in [Orgs -> OrgStatus]
          /\ job \in [Workers -> Job] /\ \A w \in Workers : job[w] \in Job
          /\ \A s \in Term : s.org \in Orgs /\ s.expiry \in Nat
          /\ \A w \in Workers : Judging(w) => /\ Running(w) /\ job[w].org \in Orgs
                                              /\ job[w].term \in Term
<1> USE SubscriptionsAssumption
<1>1. /\ day \in Nat /\ terms \subseteq Term /\ status \in [Orgs -> OrgStatus]
      /\ job \in [Workers -> Job] /\ \A w \in Workers : job[w] \in Job
      /\ \A s \in Term : s.org \in Orgs /\ s.expiry \in Nat
  BY DEF SInv, IInv, Typed, Term, Dates
<1>2. ASSUME NEW w \in Workers, Judging(w)
      PROVE Running(w) /\ job[w].org \in Orgs /\ job[w].term \in Term
  BY <1>1, <1>2 DEF SInv, IInv, CopiesStand, Follows, Row, Judging, Running
<1>3. QED
  BY <1>1, <1>2

\* A worker that is left alone follows its row, in a table that is left alone.
LEMMA OthersFollow ==
    ASSUME SInv, NEW v \in Workers, job'[v] = job[v], terms' = terms,
           day' \in Nat, day' >= day,
           \A o \in Orgs : status[o] = "SUSPENDED" => status'[o] = "SUSPENDED"
    PROVE Follows(v)'
<1>1. Judging(v)' => job[v].org \in Orgs
  BY Facts DEF Judging
<1>2. Follows(v) /\ day \in Int /\ day' \in Int /\ terms \subseteq Term
  BY Facts DEF SInv
<1>3. CASE ~Judging(v)'
  BY <1>3 DEF Follows, Judging
<1>4. CASE Judging(v)'
  <2>1. job[v].org \in Orgs
    BY <1>1, <1>4
  <2>2. \A s \in terms : UpToDate(v, s) => s \in CurrentTerms(job[v].org)'
    BY DEF UpToDate, CurrentTerms
  <2>3. \A s \in terms : \E r \in terms' :
              /\ Successor(s, r)
              /\ Judging(v)' /\ ~job'[v].touched /\ Row(v, s) /\ UpToDate(v, s) =>
                    /\ r \in CurrentTerms(job[v].org)'
                    /\ \/ r.status = s.status
                       \/ s.status = "TRIAL" /\ r.status = "EXPIRED" /\ s.expiry <= day
    BY <2>2 DEF Successor
  <2>4. QED
    BY <1>2, <2>1, <2>3, FollowsKept
<1>5. QED
  BY <1>3, <1>4

\* A sweep dies or reads an organization, or an edit of a status begins.
LEMMA QuietStep ==
    ASSUME SInv, NEW w \in Workers,
           \/ Die(w) \/ \E o \in Orgs : Pick(w, o)
           \/ \E o \in Orgs, pc \in DOMAIN Target : BeginSetStatus(w, o, pc)
    PROVE Settled'
<1>1. /\ UNCHANGED <<day, queue, terms, status, sent, swept>>
      /\ \A v \in Workers : v # w => job'[v] = job[v]
      /\ job[w] \in Job /\ day >= day /\ day \in Nat
  <2>1. /\ UNCHANGED <<day, queue, terms, status, sent, swept>>
        /\ \E j : job' = [job EXCEPT ![w] = j]
    BY DEF Die, Pick, BeginSetStatus
  <2>2. QED
    BY <2>1, Facts
<1>0. (prompt' => prompt) /\ ~twice'
  <2>1. CASE Die(w)
    BY <2>1, Zenon DEF Die, SInv
  <2>2. ASSUME NEW o \in Orgs, Pick(w, o) PROVE (prompt' => prompt) /\ ~twice'
    BY <2>2, Zenon DEF Pick, SInv
  <2>3. ASSUME NEW o \in Orgs, NEW pc \in DOMAIN Target, BeginSetStatus(w, o, pc)
        PROVE (prompt' => prompt) /\ ~twice'
    BY <2>3, Zenon DEF BeginSetStatus, SInv
  <2>4. QED
    BY <2>1, <2>2, <2>3
<1>2. Numbered' /\ TableGoesOn /\ \A o \in Orgs : CurrentTerms(o)' = CurrentTerms(o)
  BY <1>1, SameTable DEF SInv
<1>3. \A o \in swept' : SettledAt(o)'
  BY <1>1, <1>2, SettledStays DEF SInv
<1>4. Follows(w)' /\ GoesOn(w)
  <2>1. CASE job'[w] = Idle
    BY <2>1, IdleTyped DEF Follows, GoesOn, Judging, Running
  <2>2. ASSUME NEW o \in Orgs, NEW pc \in DOMAIN Target, BeginSetStatus(w, o, pc)
        PROVE Follows(w)' /\ GoesOn(w)
    <3>1. job'[w] = [Idle EXCEPT !.pc = pc, !.org = o] /\ pc \in {"activate", "suspend"}
      BY <1>1, <2>2, Facts DEF BeginSetStatus, Target
    <3>2. job'[w].pc = pc
      BY <3>1 DEF Idle
    <3>3. QED
      BY <3>1, <3>2 DEF Follows, GoesOn, Judging, Running
  <2>3. ASSUME NEW o \in Orgs, Pick(w, o), job'[w] # Idle PROVE Follows(w)' /\ GoesOn(w)
    <3> DEFINE next == [job[w] EXCEPT !.todo = @ \ {o}, !.org = o]
    <3>1. /\ next \in Job /\ next.todo = job[w].todo \ {o} /\ next.org = o
          /\ next.pc = "pick" /\ next.today = job[w].today /\ next.touched = job[w].touched
          /\ o \in job[w].todo /\ Running(w) /\ ~Judging(w)
      BY <1>1, <2>3 DEF Pick, Job, Running, Judging
    <3>2. CASE job' = [job EXCEPT ![w] = [next EXCEPT !.org = NoOrg]]
      <4>1. job'[w] = [next EXCEPT !.org = NoOrg]
        BY <3>2, Facts
      <4>2. /\ job'[w].pc = "pick" /\ job'[w].today = job[w].today /\ job'[w].org = NoOrg
            /\ job'[w].todo = job[w].todo \ {o} /\ job[w].todo \subseteq Orgs
        <5> HIDE DEF next
        <5> QED BY <1>1, <3>1, <4>1 DEF Job
      <4>3. QED
        BY <3>1, <4>2, SubscriptionsAssumption DEF Follows, GoesOn, Judging, Running
    <3>3. ASSUME NEW s \in CurrentTerms(o),
                 job' = [job EXCEPT ![w] = [next EXCEPT !.pc = "judge", !.term = s,
                                                        !.seen = status[o]]]
          PROVE Follows(w)' /\ GoesOn(w)
      <4>1. job'[w] = [next EXCEPT !.pc = "judge", !.term = s, !.seen = status[o]]
        BY <3>3, Facts
      <4>2. /\ job'[w].pc = "judge" /\ job'[w].today = job[w].today /\ job'[w].org = o
            /\ job'[w].todo = job[w].todo \ {o} /\ job'[w].term = s
            /\ job'[w].seen = status[o]
        <5> HIDE DEF next
        <5> QED BY <1>1, <3>1, <4>1 DEF Job
      <4>3. s \in terms /\ s.org = o /\ s \in CurrentTerms(o)'
        BY <1>2 DEF CurrentTerms
      <4>4. GoesOn(w)
        BY <3>1, <4>2, <4>3 DEF GoesOn
      <4>5. Row(w, s)' /\ UpToDate(w, s)'
        BY <1>1, <4>2, <4>3 DEF Row, UpToDate
      <4>6. QED
        BY <1>1, <4>2, <4>3, <4>4, <4>5 DEF Follows
    <3>4. job' = [job EXCEPT ![w] = Idle] => job'[w] = Idle
      BY Facts
    <3>5. QED
      BY <2>3, <3>2, <3>3, <3>4 DEF Pick
  <2>4. Die(w) => job'[w] = Idle
    BY Facts DEF Die
  <2>5. QED
    BY <2>1, <2>2, <2>3, <2>4
<1>5. \A v \in Workers : Follows(v)'
  BY <1>1, <1>4, OthersFollow
<1>6. \A v \in Workers : GoesOn(v)
  BY <1>1, <1>4 DEF GoesOn, Running, Judging, SInv, Once, Known
<1>7. Once'
  BY <1>0, <1>1, <1>2, <1>6, Facts, OnceKept
<1>8. QED
  BY <1>0, <1>1, <1>2, <1>3, <1>5, <1>7 DEF Settled, SInv


\* The term or the status of an organization is edited, and the sweep that judges it
\* is told.
LEMMA EditStep ==
    ASSUME SInv, NEW o, NEW jobs \in [Workers -> Job], job' = Touched(jobs, o),
           \A v \in Workers : jobs[v] = job[v] \/ (jobs[v] = Idle /\ ~Running(v)),
           swept' = swept \ {o}, terms' \subseteq Term, Numbered', TableGoesOn,
           \A p \in Orgs : p # o => CurrentTerms(p)' = CurrentTerms(p) /\ status'[p] = status[p],
           UNCHANGED <<day, queue, sent>>, prompt' => prompt, ~twice'
    PROVE Settled'
<1>1. ASSUME NEW v \in Workers, Running(v)'
      PROVE /\ Running(v)
            /\ job'[v].pc = job[v].pc /\ job'[v].today = job[v].today
            /\ job'[v].todo = job[v].todo /\ job'[v].org = job[v].org
            /\ job'[v].term = job[v].term /\ job'[v].seen = job[v].seen
            /\ job[v].touched => job'[v].touched
            /\ job[v].org = o => job'[v].touched
  <2>0. job'[v].pc = jobs[v].pc
    BY TouchedStep DEF SInv
  <2>1. jobs[v] = job[v]
    BY <1>1, <2>0, IdleTyped DEF Running
  <2>2. job'[v].pc = job[v].pc
    BY <2>0, <2>1
  <2>3. Running(v)
    BY <1>1, <2>2 DEF Running
  <2>4. /\ job'[v].pc = jobs[v].pc /\ job'[v].today = jobs[v].today
        /\ job'[v].todo = jobs[v].todo /\ job'[v].org = jobs[v].org
        /\ job'[v].term = jobs[v].term /\ job'[v].seen = jobs[v].seen
        /\ job'[v].touched = (jobs[v].touched \/ (Running(v) /\ jobs[v].org = o))
    BY TouchedStep DEF SInv
  <2>5. job'[v].touched = (job[v].touched \/ (Running(v) /\ job[v].org = o))
    BY <2>1, <2>4
  <2>6. (job[v].touched => job'[v].touched) /\ (job[v].org = o => job'[v].touched)
    BY <2>3, <2>5, Zenon
  <2>7. QED
    BY <2>1, <2>3, <2>4, <2>6
<1>2. \A v \in Workers : Judging(v)' => Running(v)' /\ Judging(v)
  BY <1>1 DEF Judging, Running
<1>3. ASSUME NEW v \in Workers PROVE Follows(v)'
  <2>1. CASE ~Judging(v)'
    BY <2>1 DEF Follows, Judging
  <2>2. CASE Judging(v)'
    <3>1. /\ Judging(v) /\ job[v].org \in Orgs /\ Follows(v)
          /\ terms \subseteq Term /\ day \in Int /\ day' \in Int /\ day' >= day
      BY <1>2, <2>2, Facts DEF SInv
    <3>2. /\ job'[v].pc = job[v].pc /\ job'[v].org = job[v].org
          /\ job'[v].term = job[v].term /\ job'[v].seen = job[v].seen
          /\ job[v].touched => job'[v].touched
          /\ job[v].org = o => job'[v].touched
      BY <1>1, <1>2, <2>2
    <3>3. \A s \in terms : \E r \in terms' :
              /\ Successor(s, r)
              /\ Judging(v)' /\ ~job'[v].touched /\ Row(v, s) /\ UpToDate(v, s) =>
                    /\ r \in CurrentTerms(job[v].org)'
                    /\ \/ r.status = s.status
                       \/ s.status = "TRIAL" /\ r.status = "EXPIRED" /\ s.expiry <= day
      <4>1. TAKE s \in terms
      <4>2. CASE ~job'[v].touched /\ UpToDate(v, s)
        <5>1. s \in CurrentTerms(job[v].org)' /\ s \in terms'
          BY <3>1, <3>2, <4>2 DEF UpToDate, CurrentTerms
        <5>2. QED
          BY <5>1 DEF Successor
      <4>3. QED
        BY <4>2 DEF TableGoesOn
    <3>4. ~job'[v].touched /\ status[job[v].org] = "SUSPENDED" =>
             status'[job[v].org] = "SUSPENDED"
      BY <3>1, <3>2
    <3>5. QED
      BY <3>1, <3>2, <3>3, <3>4, FollowsKept
  <2>3. QED
    BY <2>1, <2>2
<1>4. ASSUME NEW p \in swept' PROVE SettledAt(p)'
  BY SettledStays DEF SInv
<1>5. ASSUME NEW v \in Workers PROVE GoesOn(v)
  BY <1>1, <1>2 DEF GoesOn, SInv, Once, Known, Judging
<1>6. Once'
  BY <1>5, OnceKept
<1>7. QED
  BY <1>3, <1>4, <1>6 DEF Settled, SInv

\* What a sweep announces has not been announced before.
LEMMA NothingTwice ==
    ASSUME SInv, NEW w \in Workers, Judging(w), NEW s \in terms, Row(w, s), prompt
    PROVE /\ job[w].pc = "announce" => <<s.id, "expired">> \notin sent
          /\ \A k \in Warnings :
                s.expiry - job[w].today = WarnAt[k] => <<s.id, k>> \notin sent
<1>1. Running(w) /\ job[w].today = day /\ s.expiry \in Int /\ day \in Int
  BY Facts DEF SInv, Once, OneSweep
<1>2. Ahead(s.org)
  BY <1>1 DEF Ahead, Row
<1>3. job[w].pc = "announce" => <<s.id, "expired">> \notin sent
  BY DEF SInv, Once, ExpiredSound, Row
<1>4. ASSUME NEW k \in Warnings, s.expiry - job[w].today = WarnAt[k]
      PROVE <<s.id, k>> \notin sent
  <2>1. s.expiry - WarnAt[k] = day
    BY <1>1, <1>4, SubscriptionsAssumption
  <2>2. QED
    BY <1>2, <2>1 DEF SInv, Once, WarningsSound
<1>5. QED
  BY <1>3, <1>4

\* A sweep is done with an organization.
LEMMA PassedStep ==
    ASSUME SInv, NEW w \in Workers, Judging(w), Passed(w)
    PROVE /\ \A v \in Workers : v # w => job'[v] = job[v]
          /\ ~Judging(w)' /\ GoesOn(w)
          /\ Running(w)' => job'[w].org = NoOrg
<1>1. /\ job[w] \in Job /\ Running(w) /\ job \in [Workers -> Job]
      /\ job[w].todo \subseteq Orgs /\ NoOrg \notin Orgs
  BY Facts, SubscriptionsAssumption DEF Job
<1>2. CASE job' = [job EXCEPT ![w] = Idle]
  <2>1. job'[w].pc = "idle" /\ \A v \in Workers : v # w => job'[v] = job[v]
    BY <1>1, <1>2, IdleTyped
  <2>2. QED
    BY <2>1 DEF Judging, Running, GoesOn
<1>3. CASE job[w].todo # {}
  <2> DEFINE j == [job[w] EXCEPT !.pc = "pick", !.org = NoOrg, !.term = NoTerm,
                                 !.seen = "TRIAL", !.touched = FALSE]
  <2>1. j.pc = "pick" /\ j.today = job[w].today /\ j.todo = job[w].todo /\ j.org = NoOrg
    BY <1>1 DEF Job
  <2>2. job' = [job EXCEPT ![w] = j]
    BY <1>3 DEF Passed
  <2> HIDE DEF j
  <2>3. QED
    BY <1>1, <2>1, <2>2 DEF Judging, Running, GoesOn
<1>4. QED
  BY <1>2, <1>3 DEF Passed


\* The organization of a sweep of today, that was not edited, is settled by it.
LEMMA NowSettled ==
    ASSUME SInv, NEW w \in Workers, Warn(w) \/ SuspendLapsed(w) \/ LeaveAsIs(w),
           NEW o \in Orgs, o = job[w].org, job[w].today = day, ~job[w].touched
    PROVE SettledAt(o)'
<1> DEFINE copy == job[w].term
<1>1. /\ Judging(w) /\ copy.expiry \in Int /\ day \in Nat /\ Grace \in Nat
      /\ \A k \in Warnings : WarnAt[k] \in Nat /\ WarnAt[k] > 0
      /\ status \in [Orgs -> OrgStatus]
  BY Facts, SubscriptionsAssumption DEF Warn, SuspendLapsed, LeaveAsIs, AtGrace, Judging
<1>2. PICK s \in terms : /\ Row(w, s) /\ UpToDate(w, s)
                         /\ job[w].pc = "announce" => copy.status = "EXPIRED"
  BY <1>1 DEF SInv, Follows
<1>3. UNCHANGED <<day, terms>>
  BY DEF Warn, SuspendLapsed, LeaveAsIs
<1>4. /\ s.id = copy.id /\ s.expiry = copy.expiry /\ s \in CurrentTerms(o)
      /\ \/ s.status = copy.status
         \/ copy.status = "TRIAL" /\ s.status = "EXPIRED" /\ s.expiry <= day
      /\ job[w].seen = "SUSPENDED" => status[o] = "SUSPENDED"
  BY <1>2 DEF Row, UpToDate
<1> DEFINE Holds ==
      /\ s.status = "TRIAL" => day < s.expiry
      /\ s.status = "EXPIRED" /\ day >= s.expiry + Grace => status'[o] = "SUSPENDED"
      /\ \A k \in Warnings :
            s.status = "TRIAL" /\ s.expiry - day = WarnAt[k] => <<s.id, k>> \in sent'
<1> SUFFICES Holds
  <2>1. CurrentTerms(o)' = CurrentTerms(o)
    BY <1>3 DEF CurrentTerms
  <2>2. \A r \in terms' : CurrentTerms(o)' = {r} => r = s
    BY <1>4, <2>1
  <2>3. QED
    BY <1>3, <2>2 DEF SettledAt, InTerm
<1>5. CASE Warn(w)
  <2>1. PICK k \in WarningsDue(w) : Notify(copy.id, k)
    BY <1>5 DEF Warn
  <2>2. k \in Warnings /\ s.expiry - day = WarnAt[k] /\ <<s.id, k>> \in sent'
    BY <1>4, <2>1 DEF WarningsDue, DaysLeft, Notify
  <2>3. s.status = "TRIAL" /\ day < s.expiry
    BY <1>1, <1>4, <1>5, <2>2 DEF Warn, InTerm
  <2>4. \A l \in Warnings : s.expiry - day = WarnAt[l] => l = k
    BY <2>2, SubscriptionsAssumption
  <2>5. QED
    BY <2>2, <2>3, <2>4
<1>6. CASE SuspendLapsed(w)
  <2>1. s.status = "EXPIRED" /\ status'[o] = "SUSPENDED"
    BY <1>1, <1>4, <1>6 DEF SuspendLapsed, GraceOver
  <2>2. QED
    BY <2>1
<1>7. CASE LeaveAsIs(w)
  <2>1. status' = status /\ AtGrace(w) /\ (~GraceOver(w) \/ job[w].seen = "SUSPENDED")
    BY <1>7 DEF LeaveAsIs
  <2>2. CASE copy.status # "TRIAL"
    <3>1. s.status = copy.status
      BY <1>4, <2>2
    <3>2. QED
      BY <1>1, <1>4, <2>1, <2>2, <3>1 DEF GraceOver
  <2>3. CASE copy.status = "TRIAL"
    <3>1. job[w].pc = "judge" /\ WarningsDue(w) = {} /\ ~Over(w)
      BY <1>2, <2>1, <2>3 DEF AtGrace, InTerm
    <3>2. day < s.expiry
      BY <1>1, <1>4, <3>1 DEF Over, DaysLeft
    <3>3. \A k \in Warnings : s.expiry - day # WarnAt[k]
      BY <1>4, <3>1 DEF WarningsDue, DaysLeft
    <3>4. s.status = "TRIAL"
      BY <1>1, <1>4, <2>3, <3>2
    <3>5. QED
      BY <3>2, <3>3, <3>4
  <2>4. QED
    BY <2>2, <2>3
<1>8. QED
  BY <1>5, <1>6, <1>7

\* A sweep is done with an organization, after a warning, a suspension, or neither.
LEMMA EndStep ==
    ASSUME SInv, NEW w \in Workers, Warn(w) \/ SuspendLapsed(w) \/ LeaveAsIs(w)
    PROVE Settled'
<1>1. /\ Judging(w) /\ Passed(w) /\ UNCHANGED <<day, queue, terms>> /\ prompt' = prompt
      /\ \/ UNCHANGED <<sent, twice>>
         \/ job[w].pc = "announce" /\ Notify(job[w].term.id, "expired")
         \/ \E k \in WarningsDue(w) : Notify(job[w].term.id, k)
  BY DEF Warn, SuspendLapsed, LeaveAsIs, AtGrace, Announce, Judging
<1>2. PICK s \in terms : Row(w, s) /\ (job[w].pc = "announce" => s.status # "TRIAL")
  BY <1>1 DEF SInv, Follows
<1>3. /\ job[w].org \in Orgs /\ s.id = job[w].term.id /\ s.expiry = job[w].term.expiry
      /\ day \in Nat /\ day >= day /\ terms \subseteq Term
  BY <1>1, <1>2, Facts DEF Row
<1>4. \A o \in Orgs : status[o] = "SUSPENDED" => status'[o] = "SUSPENDED"
  BY Facts DEF Warn, SuspendLapsed, LeaveAsIs
<1>5. Numbered' /\ TableGoesOn /\ \A o \in Orgs : CurrentTerms(o)' = CurrentTerms(o)
  BY <1>1, SameTable DEF SInv
<1>6. /\ \A v \in Workers : v # w => job'[v] = job[v]
      /\ ~Judging(w)' /\ GoesOn(w)
      /\ Running(w)' => job'[w].org = NoOrg
  BY <1>1, PassedStep
<1>7. \A v \in Workers : Follows(v)'
  <2>1. Follows(w)'
    BY <1>6 DEF Follows, Judging
  <2>2. QED
    BY <1>1, <1>3, <1>4, <1>6, <2>1, OthersFollow
<1>8. sent \subseteq sent' /\ \A n \in sent' : n \in sent \/ Fresh(n)
  <2>1. CASE UNCHANGED <<sent, twice>>
    BY <2>1
  <2>2. CASE job[w].pc = "announce" /\ Notify(job[w].term.id, "expired")
    BY <1>1, <1>2, <1>3, <1>6, <2>2 DEF Notify, Fresh
  <2>3. ASSUME NEW k \in WarningsDue(w), Notify(job[w].term.id, k)
        PROVE sent \subseteq sent' /\ \A n \in sent' : n \in sent \/ Fresh(n)
    <3>1. k \in Warnings /\ s.expiry - job[w].today = WarnAt[k]
      BY <1>3 DEF WarningsDue, DaysLeft
    <3>2. Fresh(<<s.id, k>>)
      BY <1>1, <1>2, <1>6, <3>1 DEF Fresh
    <3>3. QED
      BY <1>3, <2>3, <3>2 DEF Notify
  <2>4. QED
    BY <1>1, <2>1, <2>2, <2>3
<1>9. ~twice'
  <2>1. CASE UNCHANGED <<sent, twice>>
    BY <2>1 DEF SInv
  <2>2. CASE job[w].pc = "announce" /\ Notify(job[w].term.id, "expired")
    <3>1. prompt => <<job[w].term.id, "expired">> \notin sent
      BY <1>1, <1>2, <1>3, <2>2, NothingTwice
    <3>2. QED
      BY <2>2, <3>1, Zenon DEF Notify, SInv
  <2>3. ASSUME NEW k \in WarningsDue(w), Notify(job[w].term.id, k) PROVE ~twice'
    <3>1. k \in Warnings /\ s.expiry - job[w].today = WarnAt[k]
      BY <1>3 DEF WarningsDue, DaysLeft
    <3>2. prompt => <<job[w].term.id, k>> \notin sent
      BY <1>1, <1>2, <1>3, <3>1, NothingTwice
    <3>3. QED
      BY <2>3, <3>2, Zenon DEF Notify, SInv
  <2>4. QED
    BY <1>1, <2>1, <2>2, <2>3
<1>10. \A v \in Workers : GoesOn(v)
  BY <1>1, <1>6 DEF GoesOn, Running, Judging, SInv, Once, Known
<1>11. Once'
  <2>1. prompt' => prompt
    BY <1>1
  <2>2. QED
    BY <1>1, <1>3, <1>5, <1>8, <1>10, <2>1, OnceKept
<1>12. swept' \subseteq Orgs /\ \A o \in swept' : SettledAt(o)'
  <2>1. CASE swept' = swept
    BY <1>1, <1>4, <1>5, <1>8, <2>1, SettledStays DEF SInv
  <2>2. CASE job[w].today = day /\ ~job[w].touched /\ swept' = swept \cup {job[w].org}
    <3>1. \A o \in Orgs : o = job[w].org => SettledAt(o)'
      BY <2>2, NowSettled
    <3>2. \A o \in swept : SettledAt(o)'
      BY <1>1, <1>4, <1>5, <1>8, SettledStays DEF SInv
    <3>3. QED
      BY <1>3, <2>2, <3>1, <3>2 DEF SInv
  <2>3. QED
    BY <1>1, <2>1, <2>2 DEF Passed
<1>13. QED
  BY <1>1, <1>5, <1>7, <1>9, <1>11, <1>12 DEF Settled, SInv


\* The end of a term is saved, over an edit perhaps; other sweeps of the organization
\* have read the term, or its end.
LEMMA ExpireSettles ==
    ASSUME SInv, NEW w \in Workers, ExpireTerm(w) PROVE Settled'
<1> DEFINE i    == job[w].term.id
           copy == Marked(job[w].term, i, "EXPIRED")
           j    == [job[w] EXCEPT !.pc = "announce", !.term = copy]
<1>1. /\ job[w].pc = "judge" /\ job[w].term.status = "TRIAL" /\ Judging(w)
      /\ job[w].term.expiry <= job[w].today
      /\ terms' = {Marked(s, i, "EXPIRED") : s \in terms}
      /\ UNCHANGED <<day, queue, status, sent>>
  <2>1. job[w].pc = "judge" /\ Over(w) /\ Judging(w)
    BY DEF ExpireTerm, Judging
  <2>2. job[w] \in Job /\ job[w].term \in Term
    BY <2>1, Facts
  <2>3. job[w].term.expiry \in Int /\ job[w].today \in Int
    BY <2>2, SubscriptionsAssumption DEF Job, Term, Dates
  <2>4. job[w].term.expiry <= job[w].today
    BY <2>1, <2>3 DEF Over, DaysLeft
  <2>5. QED
    BY <2>1, <2>4 DEF ExpireTerm, InTerm
<1>2. PICK s \in terms : Row(w, s) /\ (~job[w].touched => UpToDate(w, s))
  BY <1>1 DEF SInv, Follows
<1>3. PICK o \in Orgs : o = job[w].org
  BY <1>1, Facts
<1>4. /\ job \in [Workers -> Job] /\ job[w] \in Job /\ Running(w) /\ job[w].term \in Term
      /\ day \in Nat /\ day >= day /\ terms \subseteq Term /\ s.expiry \in Nat
      /\ s.id = i /\ s.org = o /\ s.expiry <= day
  <2>1. job[w].today <= day /\ job[w].today \in Int
    BY SubscriptionsAssumption DEF SInv, IInv, Typed, CopiesStand, Job, Dates
  <2>2. QED
    BY <1>1, <1>2, <1>3, <2>1, Facts DEF Row
<1>5. /\ Numbered' /\ TableGoesOn
      /\ \A p \in Orgs : CurrentTerms(p)' = {Marked(t, i, "EXPIRED") : t \in CurrentTerms(p)}
  BY <1>1, MarkedTable DEF SInv, TermStatus
<1>6. ASSUME NEW p \in Orgs, p # o PROVE CurrentTerms(p)' = CurrentTerms(p)
  <2>1. \A t \in terms : t.id = i => t.org # p
    BY <1>4, <1>6 DEF SInv, Numbered
  <2>2. QED
    BY <1>1, <2>1, OthersMarked DEF SInv, TermStatus
<1>7. copy \in Term /\ copy.id = i /\ copy.expiry = s.expiry /\ copy.status = "EXPIRED"
  BY <1>2, <1>4 DEF Marked, Term, TermStatus, Row
<1>8. \A t \in terms : /\ Successor(t, Marked(t, i, "EXPIRED"))
                       /\ t.id # i => Marked(t, i, "EXPIRED") = t
                       /\ t.id = i => Marked(t, i, "EXPIRED").status = "EXPIRED"
  BY <1>4 DEF Marked, Successor, Term
<1>9. /\ j \in Job /\ j.pc = "announce" /\ j.term = copy /\ j.today = job[w].today
      /\ j.org = o /\ j.todo = job[w].todo /\ j.seen = job[w].seen
      /\ j.touched = job[w].touched
  <2> HIDE DEF copy
  <2> QED
    BY <1>3, <1>4, <1>7 DEF Job
<1>10. \/ /\ job[w].touched /\ job' = Touched([job EXCEPT ![w] = j], o) /\ swept' = swept \ {o}
       \/ ~job[w].touched /\ job' = [job EXCEPT ![w] = j] /\ swept' = swept
  BY <1>3 DEF ExpireTerm, Touch
<1> HIDE DEF j, copy
<1>11. ASSUME NEW v \in Workers
       PROVE /\ v # w => /\ job'[v].pc = job[v].pc /\ job'[v].todo = job[v].todo
                         /\ job'[v].term = job[v].term /\ job'[v].seen = job[v].seen
             /\ v = w => /\ job'[v].pc = "announce" /\ job'[v].todo = job[w].todo
                         /\ job'[v].term = copy /\ job'[v].seen = job[w].seen
             /\ job'[v].today = job[v].today /\ job'[v].org = job[v].org
             /\ job[v].touched => job'[v].touched
             /\ job[w].touched /\ Running(v) /\ job[v].org = o => job'[v].touched
  <2>1. PICK jobs \in [Workers -> Job] : jobs = [job EXCEPT ![w] = j]
    BY <1>4, <1>9
  <2>2. /\ v # w => jobs[v] = job[v]
        /\ v = w => jobs[v] = j
    BY <1>4, <2>1
  <2>3. CASE job[w].touched /\ job' = Touched(jobs, o)
    <3>1. /\ job'[v].pc = jobs[v].pc /\ job'[v].today = jobs[v].today
          /\ job'[v].todo = jobs[v].todo /\ job'[v].org = jobs[v].org
          /\ job'[v].term = jobs[v].term /\ job'[v].seen = jobs[v].seen
          /\ job'[v].touched = (jobs[v].touched \/ (Running(v) /\ jobs[v].org = o))
      BY <2>3, TouchedStep DEF SInv
    <3>2. jobs[v].touched = job[v].touched /\ jobs[v].org = job[v].org
      BY <1>3, <1>9, <2>2
    <3>3. /\ job[v].touched => job'[v].touched
          /\ job[w].touched /\ Running(v) /\ job[v].org = o => job'[v].touched
      BY <3>1, <3>2, Zenon
    <3>4. QED
      BY <1>3, <1>9, <2>2, <3>1, <3>3
  <2>4. CASE ~job[w].touched /\ job' = jobs
    BY <1>3, <1>9, <2>2, <2>4
  <2>5. QED
    BY <1>10, <2>1, <2>3, <2>4
<1>12. ~job[w].touched => /\ s \in CurrentTerms(o) /\ s.status \in {"TRIAL", "EXPIRED"}
                          /\ job[w].seen = "SUSPENDED" => status[o] = "SUSPENDED"
  BY <1>1, <1>2, <1>3 DEF UpToDate
<1>13. Follows(w)'
  <2>0. PICK r \in terms' : r = Marked(s, i, "EXPIRED")
    BY <1>1
  <2>1. /\ r.id = i /\ r.org = o /\ r.expiry = s.expiry
        /\ r.status = "EXPIRED"
    BY <1>4, <1>8, <2>0 DEF Successor
  <2>2. ~job[w].touched => r \in CurrentTerms(o)'
    BY <1>5, <1>12, <2>0
  <2>3. Row(w, r)'
    BY <1>3, <1>7, <1>11, <2>1 DEF Row
  <2>4. job'[w].touched \/ UpToDate(w, r)'
    <3>1. CASE job[w].touched
      BY <1>11, <3>1
    <3>2. CASE ~job[w].touched
      BY <1>1, <1>3, <1>7, <1>11, <1>12, <2>1, <2>2, <3>2 DEF UpToDate
    <3>3. QED
      BY <3>1, <3>2
  <2>5. QED
    BY <1>7, <1>11, <2>1, <2>3, <2>4 DEF Follows
<1>14. ASSUME NEW v \in Workers, v # w PROVE Follows(v)'
  <2>1. CASE ~Judging(v)'
    BY <2>1 DEF Follows, Judging
  <2>2. CASE Judging(v)'
    <3>1. /\ job'[v].pc = job[v].pc /\ job'[v].org = job[v].org
          /\ job'[v].term = job[v].term /\ job'[v].seen = job[v].seen
          /\ job[v].touched => job'[v].touched
          /\ job[w].touched /\ Running(v) /\ job[v].org = o => job'[v].touched
      BY <1>11, <1>14
    <3>2. Judging(v) /\ Running(v) /\ Follows(v)
      BY <2>2, <3>1, Facts DEF Judging, SInv
    <3>3. PICK p \in Orgs : p = job[v].org
      BY <3>2, Facts
    <3>4. \A t \in terms : \E r \in terms' :
              /\ Successor(t, r)
              /\ Judging(v)' /\ ~job'[v].touched /\ Row(v, t) /\ UpToDate(v, t) =>
                    /\ r \in CurrentTerms(job[v].org)'
                    /\ \/ r.status = t.status
                       \/ t.status = "TRIAL" /\ r.status = "EXPIRED" /\ t.expiry <= day
      <4>1. TAKE t \in terms
      <4>2. PICK r \in terms' : r = Marked(t, i, "EXPIRED")
        BY <1>1
      <4>3. t \in CurrentTerms(p) => r \in CurrentTerms(p)'
        BY <1>5, <4>2
      <4>4. ASSUME ~job'[v].touched, Row(v, t), t.id = i
            PROVE /\ t.status \in {"TRIAL", "EXPIRED"} /\ t.expiry <= day
        <5>1. t = s
          BY <1>4, <4>4 DEF SInv, Numbered
        <5>2. ~job[w].touched
          BY <1>4, <3>1, <3>2, <4>4, <5>1 DEF Row
        <5>3. QED
          BY <1>4, <1>12, <5>1, <5>2
      <4>5. QED
        BY <1>8, <3>1, <3>3, <4>2, <4>3, <4>4 DEF UpToDate
    <3>5. /\ day \in Int /\ day' \in Int /\ day' >= day /\ terms \subseteq Term
          /\ status' = status
      BY <1>1, <1>4
    <3>6. QED
      BY <3>1, <3>2, <3>4, <3>5, FollowsKept
  <2>3. QED
    BY <2>1, <2>2
<1>15. ASSUME NEW p \in swept' PROVE SettledAt(p)'
  <2>1. p \in swept /\ p \in Orgs
    BY <1>10, <1>15 DEF SInv
  <2>2. CASE p # o
    BY <1>1, <1>6, <2>1, <2>2, SettledStays DEF SInv
  <2>3. CASE p = o
    <3>1. ~job[w].touched /\ SettledAt(o)
      BY <1>10, <1>15, <2>1, <2>3 DEF SInv
    <3>2. ASSUME NEW r \in terms', CurrentTerms(o)' = {r}
          PROVE r = Marked(s, i, "EXPIRED") /\ CurrentTerms(o) = {s}
      <4>1. \A t \in CurrentTerms(o) : t \in terms /\ Marked(t, i, "EXPIRED") = r
        BY <1>5, <3>2 DEF CurrentTerms
      <4>2. r = Marked(s, i, "EXPIRED")
        BY <1>12, <3>1, <4>1
      <4>3. \A t \in CurrentTerms(o) : t.id = s.id
        BY <1>8, <4>1, <4>2 DEF Successor
      <4>4. QED
        BY <1>12, <3>1, <4>1, <4>2, <4>3 DEF SInv, Numbered
    <3>3. ASSUME NEW r \in terms', CurrentTerms(o)' = {r}
          PROVE /\ ~InTerm(r)
                /\ r.status = "EXPIRED" /\ day >= r.expiry + Grace => status[o] = "SUSPENDED"
      <4>1. r.status = "EXPIRED" /\ r.expiry = s.expiry
        BY <1>4, <1>8, <3>2, <3>3 DEF Successor
      <4>2. s.status = "EXPIRED"
        BY <1>4, <1>12, <3>1, <3>2, <3>3 DEF SettledAt, InTerm
      <4>3. QED
        BY <3>1, <3>2, <3>3, <4>1, <4>2 DEF SettledAt, InTerm
    <3>4. QED
      BY <1>1, <2>3, <3>3 DEF SettledAt, InTerm
  <2>4. QED
    BY <2>2, <2>3
<1>16. ASSUME NEW v \in Workers PROVE GoesOn(v)
  <2>1. CASE v = w
    <3>1. job[w].org \notin job[w].todo
      BY <1>4 DEF SInv, Once, Known
    <3>2. QED
      BY <1>1, <1>4, <1>7, <1>11, <2>1, <3>1 DEF GoesOn
  <2>2. CASE v # w
    BY <1>11, <2>2 DEF GoesOn, Running, Judging, SInv, Once, Known
  <2>3. QED
    BY <2>1, <2>2
<1>17. Once'
  <2>1. terms' \subseteq Term
    BY <1>1, <1>4 DEF Marked, Term, TermStatus
  <2>2. prompt' => prompt
    BY DEF ExpireTerm
  <2>3. QED
    BY <1>1, <1>5, <1>16, <2>1, <2>2, OnceKept
<1>18. swept' \subseteq Orgs
  BY <1>10 DEF SInv
<1>19. ~twice'
  BY DEF ExpireTerm, SInv
<1>20. QED
  BY <1>1, <1>5, <1>13, <1>14, <1>15, <1>17, <1>18, <1>19 DEF Settled, SInv


\* A sweep starts, and it is the only one if it is prompt.
LEMMA StartSettles ==
    ASSUME SInv, NEW w \in Workers, StartSweep(w) PROVE Settled'
<1>1. /\ UNCHANGED <<day, terms, status, sent, swept>> /\ queue > 0 /\ queue' = queue - 1
      /\ job[w].pc = "idle" /\ day \in Nat /\ day >= day
  BY Facts DEF StartSweep
<1>2. (prompt' => prompt) /\ ~twice'
  BY Zenon DEF StartSweep, SInv
<1>3. /\ \A v \in Workers : v # w => job'[v] = job[v]
      /\ job'[w].pc = "pick" /\ job'[w].today = day /\ job'[w].org = NoOrg
      /\ job'[w].todo = Orgs
  <2> DEFINE j == [Idle EXCEPT !.pc = "pick", !.today = day, !.todo = Orgs]
  <2>1. j.pc = "pick" /\ j.today = day /\ j.org = NoOrg /\ j.todo = Orgs
    BY DEF Idle
  <2>2. job' = [job EXCEPT ![w] = j]
    BY DEF StartSweep
  <2> HIDE DEF j
  <2>3. QED
    BY <2>1, <2>2, Facts
<1>4. Numbered' /\ \A o \in Orgs : CurrentTerms(o)' = CurrentTerms(o)
  BY <1>1, SameTable DEF SInv
<1>5. \A o \in swept' : SettledAt(o)'
  BY <1>1, <1>4, SettledStays DEF SInv
<1>6. \A v \in Workers : Follows(v)'
  <2>1. Follows(w)'
    BY <1>3 DEF Follows, Judging
  <2>2. QED
    BY <1>1, <1>3, <2>1, OthersFollow
<1>7. Known'
  BY <1>1, <1>3, SubscriptionsAssumption DEF SInv, Once, Known, Running
<1>8. OneSweep'
  BY <1>1, <1>2, <1>3 DEF SInv, Once, OneSweep, Running
<1>9. ExpiredSound'
  BY <1>1, <1>2, <1>3 DEF SInv, Once, ExpiredSound, Judging
<1>10. WarningsSound'
  BY <1>1, <1>2, <1>3 DEF SInv, Once, WarningsSound, Ahead
<1>11. queue' \in Nat
  BY <1>1 DEF SInv
<1>12. QED
  BY <1>1, <1>2, <1>4, <1>5, <1>6, <1>7, <1>8, <1>9, <1>10, <1>11 DEF Settled, SInv, Once

\* A day goes by; promptly, when its sweep is over.
LEMMA DaySettles == ASSUME SInv, NextDay PROVE Settled'
<1>1. /\ UNCHANGED <<terms, status, sent, job>> /\ swept' = {} /\ queue' = queue + 1
      /\ day \in Nat /\ day' \in Nat /\ day' >= day /\ queue \in Nat
      /\ day' = day + 1 \/ (day = MaxDay /\ day' = day)
  BY Facts, SubscriptionsAssumption DEF NextDay, SInv, IInv, Typed, Dates
<1>2. prompt' => prompt /\ queue = 0 /\ \A w \in Workers : ~Running(w)
  BY Zenon DEF NextDay
<1>3. ~twice'
  BY Zenon DEF NextDay, SInv
<1>4. Numbered'
  BY <1>1, SameTable DEF SInv
<1>5. \A v \in Workers : Follows(v)'
  BY <1>1, OthersFollow
<1>6. Known'
  BY <1>1 DEF SInv, Once, Known, Running
<1>7. OneSweep'
  BY <1>1, <1>2 DEF OneSweep, Running
<1>8. ExpiredSound'
  BY <1>1, <1>2 DEF SInv, Once, ExpiredSound, Judging
<1>9. WarningsSound'
  <2> SUFFICES ASSUME prompt', NEW s \in terms, NEW k \in Warnings, <<s.id, k>> \in sent
               PROVE s.expiry - WarnAt[k] < day'
    <3>1. \A s \in terms, k \in Warnings : s.expiry \in Int /\ WarnAt[k] \in Int /\ day' \in Int
      BY <1>1, Facts, SubscriptionsAssumption
    <3>2. QED
      BY <1>1, <3>1 DEF WarningsSound
  <2>1. s.expiry - WarnAt[k] <= day
    BY <1>2 DEF SInv, Once, WarningsSound
  <2>2. /\ s.expiry \in Nat /\ s.expiry <= MaxDay /\ WarnAt[k] \in Nat /\ WarnAt[k] > 0
        /\ MaxDay \in Nat
    BY Facts, SubscriptionsAssumption DEF Term, Dates
  <2>3. QED
    BY <1>1, <2>1, <2>2
<1>10. QED
  BY <1>1, <1>3, <1>4, <1>5, <1>6, <1>7, <1>8, <1>9 DEF Settled, Once

\* The steps of the admins.
LEMMA AdminSettles ==
    ASSUME SInv,
           \/ \E o \in Orgs, p \in Periods : Assign(o, p)
           \/ \E s \in terms : Cancel(s)
           \/ \E w \in Workers : SaveStatus(w)
    PROVE Settled'
<1>1. ASSUME NEW o \in Orgs, NEW p \in Periods, Assign(o, p) PROVE Settled'
  <2> DEFINE s == [id |-> Cardinality(terms), org |-> o, start |-> p.start,
                   expiry |-> p.expiry, status |-> "TRIAL"]
  <2>1. /\ Cardinality(terms) \in Ids /\ terms' = terms \cup {s} /\ terms \subseteq Term
    BY <1>1, FS_CardinalityType, SubscriptionsAssumption DEF Assign, Ids, SInv, IInv, Typed
  <2>2. s \in Term /\ s.id = Cardinality(terms) /\ s.org = o
    BY <2>1, SubscriptionsAssumption DEF Term, TermStatus
  <2> HIDE DEF s
  <2>3. /\ Numbered' /\ TableGoesOn /\ terms' \subseteq Term
        /\ \A q \in Orgs : q # o => CurrentTerms(q)' = CurrentTerms(q)
    BY <2>1, <2>2, AddedTable DEF SInv
  <2>4. job' = Touched(job, o) /\ swept' = swept \ {o} /\ UNCHANGED <<day, queue, sent, status>>
    BY <1>1 DEF Assign, Touch
  <2>5. (prompt' => prompt) /\ ~twice'
    BY <1>1, Zenon DEF Assign, SInv
  <2>6. job \in [Workers -> Job]
    BY Facts
  <2>7. QED
    BY <2>3, <2>4, <2>5, <2>6, EditStep
<1>2. ASSUME NEW s \in terms, Cancel(s) PROVE Settled'
  <2>1. PICK o, i : o \in Orgs /\ o = s.org /\ i = s.id
    BY Facts
  <2>2. /\ terms' = {Marked(r, i, "CANCELLED") : r \in terms} /\ terms \subseteq Term
        /\ job' = Touched(job, o) /\ swept' = swept \ {o}
        /\ UNCHANGED <<day, queue, sent, status>>
    BY <1>2, <2>1, Facts DEF Cancel, Touch
  <2>3. Numbered' /\ TableGoesOn
    BY <2>2, MarkedTable DEF SInv, TermStatus
  <2>4. terms' \subseteq Term
    BY <2>2 DEF Marked, Term, TermStatus
  <2>5. ASSUME NEW p \in Orgs, p # o PROVE CurrentTerms(p)' = CurrentTerms(p)
    <3>1. \A t \in terms : t.id = i => t.org # p
      BY <2>1, <2>5 DEF SInv, Numbered
    <3>2. QED
      BY <2>2, <3>1, OthersMarked DEF SInv, TermStatus
  <2>6. (prompt' => prompt) /\ ~twice'
    BY <1>2, Zenon DEF Cancel, SInv
  <2>7. job \in [Workers -> Job]
    BY Facts
  <2>8. QED
    BY <2>2, <2>3, <2>4, <2>5, <2>6, <2>7, EditStep
<1>3. ASSUME NEW w \in Workers, SaveStatus(w) PROVE Settled'
  <2>1. PICK o : o = job[w].org
    OBVIOUS
  <2>2. PICK jobs \in [Workers -> Job] : jobs = [job EXCEPT ![w] = Idle]
    BY Facts, IdleTyped
  <2>3. /\ job' = Touched(jobs, o) /\ swept' = swept \ {o}
        /\ UNCHANGED <<day, queue, sent, terms>>
        /\ \A p \in Orgs : p # o => status'[p] = status[p]
    BY <1>3, <2>1, <2>2, Facts DEF SaveStatus, Touch
  <2>4. Numbered' /\ TableGoesOn /\ \A p \in Orgs : CurrentTerms(p)' = CurrentTerms(p)
    BY <2>3, SameTable DEF SInv
  <2>5. \A v \in Workers : jobs[v] = job[v] \/ (jobs[v] = Idle /\ ~Running(v))
    BY <1>3, <2>2, Facts DEF SaveStatus, Running
  <2>6. (prompt' => prompt) /\ ~twice' /\ terms' \subseteq Term
    <3>1. (prompt' => prompt) /\ ~twice'
      BY <1>3, Zenon DEF SaveStatus, SInv
    <3>2. QED
      BY <2>3, <3>1, Facts
  <2>7. QED
    BY <2>3, <2>4, <2>5, <2>6, EditStep
<1>4. QED
  BY <1>1, <1>2, <1>3

\* At the start nothing is swept and nothing was sent.
LEMMA InitSettles == Init => SInv
<1> SUFFICES ASSUME Init PROVE SInv
  OBVIOUS
<1>1. queue \in Nat /\ swept \subseteq Orgs /\ Numbered /\ \A o \in swept : SettledAt(o)
  BY DEF Init, Numbered
<1>2. \A w \in Workers : ~Running(w) /\ ~Judging(w)
  BY IdleTyped DEF Init, Running, Judging
<1>3. \A w \in Workers : Follows(w)
  BY <1>2 DEF Follows
<1>4. Once /\ ~twice
  BY <1>2 DEF Init, Once, Known, OneSweep, ExpiredSound, WarningsSound
<1>5. QED
  BY <1>1, <1>3, <1>4, InitEstablishes DEF SInv

\* Every step of Subscriptions keeps what the sweeps have settled.
LEMMA SettledPreserved == SInv /\ [Next]_vars => SInv'
<1> SUFFICES ASSUME SInv, [Next]_vars PROVE SInv'
  OBVIOUS
<1>1. IInv'
  BY StepPreserves DEF SInv
<1>2. Settled'
  <2>1. CASE UNCHANGED vars
    <3>1. /\ UNCHANGED <<day, queue, terms, status, sent, job, swept>> /\ terms \subseteq Term
          /\ day \in Nat /\ day >= day
      BY <2>1, Facts DEF vars
    <3>2. (prompt' => prompt) /\ ~twice'
      BY <2>1, Zenon DEF vars, SInv
    <3>3. Numbered' /\ TableGoesOn /\ \A o \in Orgs : CurrentTerms(o)' = CurrentTerms(o)
      BY <3>1, SameTable DEF SInv
    <3>4. \A o \in swept' : SettledAt(o)'
      BY <3>1, <3>3, SettledStays DEF SInv
    <3>5. \A v \in Workers : Follows(v)'
      BY <3>1, OthersFollow
    <3>6. \A v \in Workers : GoesOn(v)
      BY <3>1 DEF GoesOn, Running, Judging, SInv, Once, Known
    <3>7. Once'
      BY <3>1, <3>2, <3>3, <3>6, OnceKept
    <3>8. QED
      BY <3>1, <3>2, <3>3, <3>4, <3>5, <3>7 DEF Settled, SInv
  <2>2. ASSUME NEW w \in Workers, StartSweep(w) \/ Handle(w) \/ Die(w) PROVE Settled'
    <3>1. CASE Handle(w)
      BY <3>1, QuietStep, EndStep, ExpireSettles, AdminSettles DEF Handle
    <3>2. QED
      BY <2>2, <3>1, StartSettles, QuietStep
  <2>3. ASSUME NEW w \in Workers, NEW o \in Orgs, NEW pc \in DOMAIN Target,
               BeginSetStatus(w, o, pc)
        PROVE Settled'
    BY <2>3, QuietStep
  <2>4. QED
    BY <2>1, <2>2, <2>3, DaySettles, AdminSettles DEF Next
<1>3. QED
  BY <1>1, <1>2 DEF SInv, Settled

\* What sweeps settle stays settled until the organization is edited or the day is over.
THEOREM SettledInvariance == Spec => []SInv
BY InitSettles, SettledPreserved, PTL DEF Spec

\* A sweep of today that no edit came across has the last word about its organization,
\* whatever sweeps overlapped it, were late or died.
THEOREM SweptIsSettledHolds == Spec => []SweptIsSettled
<1>1. SInv => SweptIsSettled
  BY DEF SInv, SettledAt, SweptIsSettled
<1>2. QED
  BY <1>1, SettledInvariance, PTL

\* While each day has its one sweep, no notice goes out twice; and today's warning is
\* out when the organization is swept.
THEOREM WarnedOnceHolds == Spec => []WarnedOnce
<1>1. SInv => WarnedOnce
  BY DEF SInv, SettledAt, WarnedOnce
<1>2. QED
  BY <1>1, SettledInvariance, PTL

=============================================================================
