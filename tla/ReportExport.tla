---------------------------- MODULE ReportExport ----------------------------
(***************************************************************************)
(* The export of a report: POST /reports/{report}/export and the status    *)
(* endpoint (apps/reports/views.py), the Celery task that builds the file  *)
(* (apps/reports/tasks.py), and the page of the organization console that  *)
(* asks for it and polls (pages/reports/Reports.jsx), for one format: the  *)
(* two formats have a button, a job and an interval each.  What a report   *)
(* says, who may ask for it and the tenant bindings are left out.          *)
(*                                                                         *)
(* Exports are numbered as they are asked for; the ReportExportJob of an   *)
(* export has its number.  The interval does not wait for the polls it     *)
(* sent, and its handle is the one of the format: answers arrive in any    *)
(* order, and one of them may end the interval of another export.          *)
(***************************************************************************)
EXTENDS Naturals, FiniteSets

CONSTANTS MaxJobs,     \* bound: exports asked for, but for those refused without a job
          MaxPolls     \* bound: polls under way at once

VARIABLES jobs,      \* export -> its ReportExportJob row, its file, and its worker
          request,   \* export -> the request for it, and whether its page is still there
          export,    \* exportJobs[format] of the page: a status, the job it is of, and
                     \* whether the answer came after the interval had ended
          interval,  \* export -> whose interval is running: the page's, or that of one left
          timer,     \* pollHandles[format]: the export of the interval, 0 for none
          polls      \* polls under way

exportVars == <<jobs, request, export, interval, timer, polls>>

Jobs == 1..MaxJobs
Statuses == {"PENDING", "PROCESSING", "COMPLETED", "FAILED"}
Ended == {"COMPLETED", "FAILED"}

\* worker: the task is queued, at work, or gone for good.
NoJob == [status |-> "none", stored |-> FALSE, worker |-> "none"]
Made(worker) == [NoJob EXCEPT !.status = "PENDING", !.worker = worker]
NoRequest == [stage |-> "none", live |-> FALSE]
NotAsked == [open |-> FALSE, status |-> "none", job |-> 0, late |-> FALSE]

ExportTypeOK ==
    /\ jobs \in [Jobs -> [status: Statuses \cup {"none"}, stored: BOOLEAN,
                          worker: {"none", "queued", "building", "uploaded", "gone", "dead"}]]
    /\ request \in [Jobs -> [stage: {"none", "sent", "answered", "failed"}, live: BOOLEAN]]
    /\ export \in [open: BOOLEAN, status: Statuses \cup {"none"}, job: 0..MaxJobs, late: BOOLEAN]
    /\ interval \in [Jobs -> {"none", "page", "stray"}] /\ timer \in 0..MaxJobs
    /\ polls \subseteq [job: Jobs, live: BOOLEAN, answer: Statuses \cup {"asked", "broken"}]

ExportInit ==
    /\ jobs = [j \in Jobs |-> NoJob] /\ request = [j \in Jobs |-> NoRequest]
    /\ export = NotAsked /\ interval = [j \in Jobs |-> "none"] /\ timer = 0 /\ polls = {}

-----------------------------------------------------------------------------
(* The backend *)

\* The row is committed before the task is queued, which may fail (500): the row
\* then stays PENDING.  The answer may be lost as well.
ServeExport(j) ==
    /\ request[j].stage = "sent"
    /\ \/ /\ jobs' = [jobs EXCEPT ![j] = Made("queued")]
          /\ \E answer \in {"answered", "failed"} :
                request' = [request EXCEPT ![j].stage = answer]
       \/ /\ jobs' = [jobs EXCEPT ![j] = Made("gone")]
          /\ request' = [request EXCEPT ![j].stage = "failed"]
       \/ UNCHANGED jobs /\ request' = [request EXCEPT ![j].stage = "failed"]
    /\ UNCHANGED <<export, interval, timer, polls>>

Work(j, from, status, worker) ==
    /\ jobs[j].worker = from
    /\ jobs' = [jobs EXCEPT ![j].status = status, ![j].worker = worker]
    /\ UNCHANGED <<request, export, interval, timer, polls>>

StartTask(j) == Work(j, "queued", "PROCESSING", "building")

\* Mutation of Upload: the file is left for later.
NoUpload(j) == Work(j, "building", jobs[j].status, "uploaded")

Upload(j) ==
    /\ jobs[j].worker = "building"
    /\ jobs' = [jobs EXCEPT ![j].stored = TRUE, ![j].worker = "uploaded"]
    /\ UNCHANGED <<request, export, interval, timer, polls>>
Complete(j) == Work(j, "uploaded", "COMPLETED", "gone")

\* Mutation of FailedStatus: the exception is swallowed.
StatusKept(j) == jobs[j].status

\* Mutation of FailedStatus: a value that is not one of ExportStatus.
AnotherStatus(j) == "ERROR"

\* except Exception: whatever of rendering, upload or signing failed.
FailedStatus(j) == "FAILED"
FailTask(j) == \E from \in {"building", "uploaded"} : Work(j, from, FailedStatus(j), "gone")

generate_report_export(j) == StartTask(j) \/ Upload(j) \/ Complete(j) \/ FailTask(j)

\* The worker is killed: the task was acknowledged when it was taken.
KillWorker(j) ==
    \E from \in {"building", "uploaded"} : Work(j, from, jobs[j].status, "dead")

-----------------------------------------------------------------------------
(* The page *)

OpenReports ==
    /\ ~export.open /\ export' = [NotAsked EXCEPT !.open = TRUE]
    /\ UNCHANGED <<jobs, request, interval, timer, polls>>

\* The effect's cleanup clears the interval of the handle, and nothing else: an
\* interval that was overwritten goes on, and a request under way will start one.
LeaveReports ==
    /\ export.open /\ export' = NotAsked
    /\ request' = [j \in Jobs |-> [request[j] EXCEPT !.live = FALSE]]
    /\ interval' = [j \in Jobs |-> IF j = timer \/ interval[j] = "none" THEN "none" ELSE "stray"]
    /\ timer' = 0
    /\ polls' = {[p EXCEPT !.live = FALSE] : p \in polls}
    /\ UNCHANGED jobs

Fresh == {j \in Jobs : jobs[j].status = "none" /\ request[j].stage = "none"}

\* The button, disabled while the job it shows is PENDING or PROCESSING.
handleExport ==
    /\ export.open /\ export.status \notin {"PENDING", "PROCESSING"}
    /\ export' = [export EXCEPT !.status = "PENDING", !.job = 0, !.late = FALSE]
    /\ \E j \in Fresh : /\ \A i \in Fresh : j <= i
                       /\ request' = [request EXCEPT ![j] = [stage |-> "sent", live |-> TRUE]]
    /\ UNCHANGED <<jobs, interval, timer, polls>>

\* The interval starts; whatever handle there was is overwritten.
pollJob(j) ==
    /\ request[j].stage = "answered"
    /\ request' = [request EXCEPT ![j] = NoRequest]
    /\ interval' = [interval EXCEPT ![j] = IF request[j].live THEN "page" ELSE "stray"]
    /\ timer' = IF request[j].live THEN j ELSE timer
    /\ UNCHANGED <<jobs, export, polls>>
ExportRefused(j) ==
    /\ request[j].stage = "failed"
    /\ request' = [request EXCEPT ![j] = NoRequest]
    /\ export' = IF request[j].live THEN [export EXCEPT !.status = "FAILED", !.job = 0] ELSE export
    /\ UNCHANGED <<jobs, interval, timer, polls>>

\* The interval fires, whether or not its last poll was answered.
Fire(j) ==
    /\ interval[j] # "none" /\ Cardinality(polls) < MaxPolls
    /\ polls' = polls \cup {[job |-> j, live |-> interval[j] = "page", answer |-> "asked"]}
    /\ UNCHANGED <<jobs, request, export, interval, timer>>

ServePoll(p) ==
    /\ p.answer = "asked"
    /\ \E answer \in {jobs[p.job].status, "broken"} :
          polls' = (polls \ {p}) \cup {[p EXCEPT !.answer = answer]}
    /\ UNCHANGED <<jobs, request, export, interval, timer>>

\* Mutation of Outcome: the catch clears the interval, and says nothing.
Unheard(p) == IF p.answer = "broken" THEN export.status ELSE p.answer

\* setExportJobs with the job, or with a failure of its own.
Outcome(p) == IF p.answer = "broken" THEN "FAILED" ELSE p.answer

\* COMPLETED, FAILED, or an error: clearInterval.
Over(answer) == answer \in Ended \cup {"broken"}

\* The page shows what was answered, and clears the interval of its handle, which
\* need not be the one that fired.
Polled(p) ==
    /\ p.answer # "asked" /\ p.live
    /\ export' = [export EXCEPT !.status = Outcome(p),
                                !.job = IF p.answer = "broken" THEN 0 ELSE p.job,
                                !.late = p.job # timer]
    /\ interval' = [j \in Jobs |-> IF Over(p.answer) /\ j = timer THEN "none" ELSE interval[j]]
    /\ timer' = IF Over(p.answer) THEN 0 ELSE timer
    /\ polls' = polls \ {p}
    /\ UNCHANGED <<jobs, request>>

\* The polls of a page that was left: one of its intervals may end.
StrayPolled(p) ==
    /\ p.answer # "asked" /\ ~p.live
    /\ polls' = polls \ {p}
    /\ \/ UNCHANGED interval
       \/ \E j \in Jobs : /\ Over(p.answer) /\ interval[j] = "stray"
                          /\ interval' = [interval EXCEPT ![j] = "none"]
    /\ UNCHANGED <<jobs, request, export, timer>>

ExportNext ==
    \/ OpenReports \/ LeaveReports \/ handleExport
    \/ \E j \in Jobs : \/ ServeExport(j) \/ generate_report_export(j) \/ KillWorker(j)
                       \/ pollJob(j) \/ ExportRefused(j) \/ Fire(j)
    \/ \E p \in polls : ServePoll(p) \/ Polled(p) \/ StrayPolled(p)

-----------------------------------------------------------------------------
\* tasks.py: a job is PROCESSING only while a worker builds it, unless the worker was
\* killed.  Reports.jsx: the page says "Preparing" only while a request or an interval
\* of its own is there to end that, unless what it shows is a late answer: one to a
\* poll whose interval had ended, or been overwritten, before it came.
NothingHangs ==
    /\ \A j \in Jobs : jobs[j].status = "PROCESSING" =>
                          jobs[j].worker \in {"building", "uploaded", "dead"}
    /\ export.status \in {"PENDING", "PROCESSING"} /\ ~export.late =>
          \/ timer # 0 /\ interval[timer] = "page"
          \/ \E j \in Jobs : request[j].live /\ request[j].stage # "none"

\* However late an answer is, and whichever export it is of, a link leads to a file
\* that is in storage.
LinkLeadsToFile == export.status = "COMPLETED" => export.job # 0 /\ jobs[export.job].stored
=============================================================================
