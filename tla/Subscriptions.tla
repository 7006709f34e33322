---------------------------- MODULE Subscriptions ----------------------------
(***************************************************************************)
(* Subscription terms, the status of organizations, and the daily sweep    *)
(* check_subscription_expiries (subscriptions/tasks.py).                   *)
(*                                                                         *)
(* Celery beat queues one sweep a day.  A sweep goes by the day it starts   *)
(* on; it may run past midnight, overlap the next one, or die with its     *)
(* worker between any two saves: the message was acknowledged when it was  *)
(* received, so nothing repeats it.  Meanwhile admins assign and cancel    *)
(* terms, and suspend and activate organizations.                          *)
(***************************************************************************)
EXTENDS Integers, FiniteSets

CONSTANTS Workers, Orgs,
          Periods,       \* the [start, expiry] dates admins choose from
          WarnAt,        \* days before the expiry at which each warning is due
          Grace,         \* grace_period_days of the plan
          MaxDay,        \* the clock stays at this day, and days go on
          MaxTerms,      \* bound of the number of terms
          MaxEdits,      \* bound of the number of cancellations, activations, suspensions
          MaxQueue,      \* bound of the number of queued sweeps
          MaxDeaths,     \* bound of the number of sweeps that die
          NoTerm, NoOrg

VARIABLES day,           \* today
          queue,         \* the number of queued sweeps
          terms,         \* the Subscription table
          status,        \* the status of each organization
          sent,          \* the notices sent, by term and kind
          job,           \* what each worker does
          edits, deaths,
          swept,         \* organizations a sweep of today has passed undisturbed
          prompt,        \* so far, each day had one sweep, from start to end
          twice          \* while it was so, a notice was sent again

vars == <<day, queue, terms, status, sent, job, edits, deaths, swept, prompt, twice>>

Warnings == DOMAIN WarnAt
Kinds == Warnings \cup {"expired"}
Dates == 0 .. MaxDay

ASSUME SubscriptionsAssumption ==
    /\ Grace \in Nat /\ MaxDay \in Nat /\ MaxTerms \in Nat /\ MaxEdits \in Nat
    /\ MaxQueue \in Nat \ {0} /\ MaxDeaths \in Nat
    /\ Periods \subseteq {p \in [start : Dates, expiry : Dates] : p.start <= p.expiry}
    /\ \A p \in Periods : p.expiry + Grace <= MaxDay
    /\ WarnAt \in [Warnings -> Nat \ {0}] /\ "expired" \notin Warnings
    /\ \A k, l \in Warnings : WarnAt[k] = WarnAt[l] => k = l
    /\ NoOrg \notin Orgs

Ids == 0 .. MaxTerms - 1
OrgStatus == {"TRIAL", "ACTIVE", "SUSPENDED"}
TermStatus == {"TRIAL", "EXPIRED", "CANCELLED"}

Term == [id : Ids, org : Orgs, start : Dates, expiry : Dates, status : TermStatus]

ASSUME NoTerm \notin Term

Idle == [pc |-> "idle", today |-> 0, todo |-> {}, org |-> NoOrg, term |-> NoTerm,
         seen |-> "TRIAL", touched |-> FALSE]

Job == [pc : {"idle", "pick", "judge", "announce", "activate", "suspend"},
        today : Dates,            \* the day the sweep goes by
        todo : SUBSET Orgs,       \* organizations it has yet to pass
        org : Orgs \cup {NoOrg},
        term : Term \cup {NoTerm},   \* its copy of the current term
        seen : OrgStatus,         \* the status of the organization it read
        touched : BOOLEAN]        \* was that organization edited since?

TypeOK ==
    /\ day \in Dates /\ queue \in 0 .. MaxQueue
    /\ terms \subseteq Term
    /\ \A r, s \in terms : r.id = s.id => r = s
    /\ \A s \in terms : s.id < Cardinality(terms)
    /\ status \in [Orgs -> OrgStatus]
    /\ sent \subseteq Ids \X Kinds
    /\ job \in [Workers -> Job]
    /\ \A w \in Workers : job[w].today <= day
    /\ edits \in 0 .. MaxEdits /\ deaths \in 0 .. MaxDeaths
    /\ swept \subseteq Orgs /\ prompt \in BOOLEAN /\ twice \in BOOLEAN

Init ==
    /\ day = 0 /\ queue = 1
    /\ terms = {}
    /\ status = [o \in Orgs |-> "TRIAL"]
    /\ sent = {}
    /\ job = [w \in Workers |-> Idle]
    /\ edits = 0 /\ deaths = 0
    /\ swept = {} /\ prompt = TRUE /\ twice = FALSE

-----------------------------------------------------------------------------
(* Days, beat and workers. *)

Running(w) == job[w].pc \notin {"idle", "activate", "suspend"}

\* A day goes by, and beat queues the sweep of the next.
NextDay ==
    /\ queue < MaxQueue
    /\ day' = IF day < MaxDay THEN day + 1 ELSE day
    /\ queue' = queue + 1
    /\ swept' = {}
    /\ prompt' = (prompt /\ queue = 0 /\ \A w \in Workers : ~Running(w))
    /\ UNCHANGED <<terms, status, sent, job, edits, deaths, twice>>

\* A worker takes a sweep: its `today', and the list of organizations.
StartSweep(w) ==
    /\ job[w].pc = "idle"
    /\ queue > 0
    /\ queue' = queue - 1
    /\ job' = [job EXCEPT ![w] = [Idle EXCEPT !.pc = "pick", !.today = day, !.todo = Orgs]]
    /\ UNCHANGED <<day, terms, status, sent, edits, deaths, swept, prompt, twice>>

Die(w) ==
    /\ Running(w)
    /\ deaths < MaxDeaths
    /\ deaths' = deaths + 1
    /\ prompt' = FALSE
    /\ job' = [job EXCEPT ![w] = Idle]
    /\ UNCHANGED <<day, queue, terms, status, sent, edits, swept, twice>>

-----------------------------------------------------------------------------
(* History: which organizations a sweep of today has seen as they are now. *)

\* Organization o was edited: a sweep that has read it does not have the last word.
Touch(o) == swept' = swept \ {o}
Touched(jobs, o) ==
    [w \in Workers |-> [jobs[w] EXCEPT !.touched = @ \/ (Running(w) /\ jobs[w].org = o)]]

-----------------------------------------------------------------------------
(* The sweep. *)

\* The rows current_subscription may return: the latest start, ties undecided.
CurrentTerms(o) ==
    {s \in terms : s.org = o /\ \A r \in terms : r.org = o => r.start <= s.start}

InTerm(s) == s.status = "TRIAL"

\* The sweep is done with its organization.
Passed(w) ==
    LET j == job[w]
    IN  /\ job' = [job EXCEPT
                     ![w] = IF j.todo = {} THEN Idle
                            ELSE [j EXCEPT !.pc = "pick", !.org = NoOrg, !.term = NoTerm,
                                           !.seen = "TRIAL", !.touched = FALSE]]
        /\ swept' = IF j.today = day /\ ~j.touched
                    THEN swept \cup {j.org} ELSE swept

Notify(i, kind) ==
    /\ sent' = sent \cup {<<i, kind>>}
    /\ twice' = (twice \/ (prompt /\ <<i, kind>> \in sent))

\* The next organization: its current term if any, and then, through it, its status.
Pick(w, o) ==
    LET next == [job[w] EXCEPT !.todo = @ \ {o}, !.org = o]
    IN  /\ job[w].pc = "pick"
        /\ o \in job[w].todo
        /\ \/ /\ CurrentTerms(o) = {}
              /\ job' = [job EXCEPT ![w] = IF next.todo = {} THEN Idle
                                           ELSE [next EXCEPT !.org = NoOrg]]
           \/ \E s \in CurrentTerms(o) :
                job' = [job EXCEPT ![w] = [next EXCEPT !.pc = "judge", !.term = s,
                                                       !.seen = status[o]]]
        /\ UNCHANGED <<day, queue, terms, status, sent, edits, deaths, swept, prompt, twice>>

DaysLeft(w) == job[w].term.expiry - job[w].today

\* Mutation of WarningsDue: a warning is due from its day on.
FromItsDay(w) == {k \in Warnings : DaysLeft(w) \in 0 .. WarnAt[k]}

WarningsDue(w) == {k \in Warnings : DaysLeft(w) = WarnAt[k]}

Warn(w) ==
    /\ job[w].pc = "judge"
    /\ InTerm(job[w].term)
    /\ \E k \in WarningsDue(w) : Notify(job[w].term.id, k)
    /\ Passed(w)
    /\ UNCHANGED <<day, queue, terms, status, edits, deaths, prompt>>

\* Mutation of Over: a term is over the day after its expiry.
DayAfter(w) == DaysLeft(w) < 0

Over(w) == DaysLeft(w) <= 0

Marked(s, i, new) == IF s.id = i THEN [s EXCEPT !.status = new] ELSE s

\* The save may overwrite an edit, a cancellation, that the copy does not have.
ExpireTerm(w) ==
    LET o     == job[w].org
        i     == job[w].term.id
        copy  == Marked(job[w].term, i, "EXPIRED")
        moved == [job EXCEPT ![w] = [job[w] EXCEPT !.pc = "announce", !.term = copy]]
    IN  /\ job[w].pc = "judge"
        /\ InTerm(job[w].term) /\ WarningsDue(w) = {} /\ Over(w)
        /\ terms' = {Marked(s, i, "EXPIRED") : s \in terms}
        /\ IF job[w].touched
           THEN Touch(o) /\ job' = Touched(moved, o)
           ELSE UNCHANGED swept /\ job' = moved
        /\ UNCHANGED <<day, queue, status, sent, edits, deaths, prompt, twice>>

\* The end of the term is saved, or nothing was due.
AtGrace(w) ==
    \/ job[w].pc = "announce"
    \/ job[w].pc = "judge" /\ ~InTerm(job[w].term)
    \/ job[w].pc = "judge" /\ WarningsDue(w) = {} /\ ~Over(w)

\* (A notice changes nothing that others read, so it is sent with what follows it.)
Announce(w) ==
    IF job[w].pc = "announce" THEN Notify(job[w].term.id, "expired")
                              ELSE UNCHANGED <<sent, twice>>

\* Mutation of GraceOver: the grace period is forgotten.
NoGrace(w) == job[w].term.status = "EXPIRED"

\* Mutation of GraceOver: like the warnings, on its day only.
OnTheDay(w) ==
    job[w].term.status = "EXPIRED" /\ job[w].today = job[w].term.expiry + Grace

GraceOver(w) ==
    job[w].term.status = "EXPIRED" /\ job[w].today >= job[w].term.expiry + Grace

\* (The notice that follows is not counted.)
SuspendLapsed(w) ==
    /\ AtGrace(w)
    /\ GraceOver(w) /\ job[w].seen # "SUSPENDED"
    /\ status' = [status EXCEPT ![job[w].org] = "SUSPENDED"]
    /\ Announce(w)
    /\ Passed(w)
    /\ UNCHANGED <<day, queue, terms, edits, deaths, prompt>>

LeaveAsIs(w) ==
    /\ AtGrace(w)
    /\ ~GraceOver(w) \/ job[w].seen = "SUSPENDED"
    /\ Announce(w)
    /\ Passed(w)
    /\ UNCHANGED <<day, queue, terms, status, edits, deaths, prompt>>

-----------------------------------------------------------------------------
(* The admins. *)

Assign(o, p) ==
    /\ Cardinality(terms) < MaxTerms
    /\ terms' = terms \cup {[id |-> Cardinality(terms), org |-> o, start |-> p.start,
                             expiry |-> p.expiry, status |-> "TRIAL"]}
    /\ Touch(o) /\ job' = Touched(job, o)
    /\ UNCHANGED <<day, queue, status, sent, edits, deaths, prompt, twice>>

Cancel(s) ==
    /\ edits < MaxEdits
    /\ edits' = edits + 1
    /\ terms' = {Marked(r, s.id, "CANCELLED") : r \in terms}
    /\ Touch(s.org) /\ job' = Touched(job, s.org)
    /\ UNCHANGED <<day, queue, status, sent, deaths, prompt, twice>>

Target == [activate |-> "ACTIVE", suspend |-> "SUSPENDED"]

\* _set_status refuses an organization that has the status already ...
BeginSetStatus(w, o, pc) ==
    /\ job[w].pc = "idle"
    /\ edits < MaxEdits
    /\ edits' = edits + 1
    /\ status[o] # Target[pc]
    /\ job' = [job EXCEPT ![w] = [Idle EXCEPT !.pc = pc, !.org = o]]
    /\ UNCHANGED <<day, queue, terms, status, sent, deaths, swept, prompt, twice>>

\* ... when it was loaded, and then saves.
SaveStatus(w) ==
    LET o == job[w].org
    IN  /\ job[w].pc \in {"activate", "suspend"}
        /\ status' = [status EXCEPT ![o] = Target[job[w].pc]]
        /\ Touch(o) /\ job' = Touched([job EXCEPT ![w] = Idle], o)
        /\ UNCHANGED <<day, queue, terms, sent, edits, deaths, prompt, twice>>

-----------------------------------------------------------------------------
Handle(w) ==
    \/ \E o \in Orgs : Pick(w, o)
    \/ Warn(w) \/ ExpireTerm(w)
    \/ SuspendLapsed(w) \/ LeaveAsIs(w) \/ SaveStatus(w)

Next ==
    \/ NextDay
    \/ \E w \in Workers : StartSweep(w) \/ Handle(w) \/ Die(w)
    \/ \E o \in Orgs, p \in Periods : Assign(o, p)
    \/ \E s \in terms : Cancel(s)
    \/ \E w \in Workers, o \in Orgs, pc \in DOMAIN Target : BeginSetStatus(w, o, pc)

\* Days go by, beat runs, and so do the workers, one of which may die now and then.
Fairness ==
    /\ WF_vars(NextDay)
    /\ \A w \in Workers : WF_vars(StartSweep(w)) /\ WF_vars(Handle(w))

Spec == Init /\ [][Next]_vars /\ Fairness

-----------------------------------------------------------------------------
(* Properties. *)

\* tasks.py:44: once a sweep of today has passed an organization that no admin
\* edited meanwhile, its current term is not on past its expiry, and access has
\* ended with the grace period: whatever sweeps overlap, run late or died before.
SweptIsSettled ==
    \A o \in swept, s \in terms :
        CurrentTerms(o) = {s} =>
            /\ InTerm(s) => day < s.expiry
            /\ s.status = "EXPIRED" /\ day >= s.expiry + Grace => status[o] = "SUSPENDED"

\* tasks.py:7: "the task runs once a day, so each threshold is naturally crossed
\* exactly once per subscription term".  The warning of today is out when the
\* organization is swept; and while the task did run once a day, no warning and
\* no notice of expiry was sent twice.
WarnedOnce ==
    /\ \A o \in swept, s \in terms, k \in Warnings :
         CurrentTerms(o) = {s} /\ InTerm(s) /\ s.expiry - day = WarnAt[k]
         => <<s.id, k>> \in sent
    /\ ~twice

\* tasks.py:70: a sweep suspends an organization only if one of its terms is past
\* its grace period that day, although it decides on copies and on a `today' that
\* may be old.
SuspensionIsEarned ==
    [][\A w \in Workers, o \in Orgs :
         SuspendLapsed(w) /\ status[o] # status'[o] =>
             \E s \in terms : s.org = o /\ day >= s.expiry + Grace]_vars

Lapsed(o) ==
    \E s \in CurrentTerms(o) : CurrentTerms(o) = {s} /\ s.status # "CANCELLED"
                               /\ day >= s.expiry + Grace

\* docs/05-DEVELOPMENT-ROADMAP.md:226: an organization past its grace period loses
\* access, unless it is renewed or its term is cancelled; this holds although
\* sweeps are missed or die, and although admins activate it meanwhile.
LapseEndsAccess ==
    \A o \in Orgs : Lapsed(o) ~> (status[o] = "SUSPENDED" \/ ~Lapsed(o))

=============================================================================
