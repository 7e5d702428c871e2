---------------------------- MODULE ScanJobLease ----------------------------
(***************************************************************************)
(* The delivery protocol of signed scan jobs between the dashboard and one *)
(* VulnaScout: the probe endpoints of dash/backend/app/api/v1/probes.py    *)
(* (poll, lease renewal, status report), the operator's cancel_job of      *)
(* api/v1/jobs.py, the reaper of services/reaper.py, and on the Scout the  *)
(* run loop of scout/internal/cli/cli.go over scout/internal/agent.        *)
(*                                                                         *)
(* A job belongs to one probe.  Every offer of it is an immutable attempt  *)
(* with its own fencing token; only the newest attempt may report.  A poll *)
(* locks the rows it reads and is one step.  A status report reads the job *)
(* without a lock, then locks the attempt: report_read and report_apply.   *)
(* cancel_job and the reaper lock nothing: their reads and their writes    *)
(* are separate steps too, and a write uses what the read saw.             *)
(*                                                                         *)
(* Requests may be lost, be overtaken by later ones, or be handled after   *)
(* the Scout has given up waiting, and answers may be lost.  Time is       *)
(* abstracted to the facts the code compares with now: whether the newest  *)
(* lease is still live, whether expires_at has passed, and whether the     *)
(* execution limit (with the reaper's grace) has.  Renewing a live lease   *)
(* therefore changes nothing; a refused renewal stops the worker.          *)
(***************************************************************************)
EXTENDS Naturals, FiniteSets

CONSTANTS
    Jobs,       \* the scan jobs queued for this probe
    MaxFence,   \* bound on the offers of one job
    MaxReports, \* bound on the status reports in flight
    NoJob       \* the Scout holds no job

ASSUME LeaseConstants ==
    /\ MaxFence \in Nat
    /\ MaxReports \in Nat
    /\ NoJob \notin Jobs

Fences == 1..MaxFence

(* _ACTIVE_ATTEMPT_STATUSES; a job has them too, next to "queued". *)
ActiveAttempt == {"offered", "accepted", "running"}

(* _TERMINAL_ATTEMPT_STATUSES and terminal_statuses of report_job_status. *)
Terminal == {"completed", "failed", "cancelled", "expired", "rejected_by_probe"}

JobStatus == {"queued"} \cup ActiveAttempt \cup Terminal

(* What a Scout reports. *)
Reportable == {"accepted", "running", "completed", "failed", "cancelled", "rejected_by_probe"}

Reports == [job : Jobs, fence : Fences, st : Reportable, seen : JobStatus \cup {"unread"}]

VARIABLES
    status,     \* ScanJob.status
    cancelReq,  \* ScanJob.cancel_requested_at IS NOT NULL
    started,    \* ScanJob.started_at IS NOT NULL
    limit,      \* the execution limit, counted from started_at or accepted_at
    early,      \* ScanJob.not_before > now
    expired,    \* ScanJob.expires_at <= now
    fence,      \* the newest fencing token of each job, 0 before the first
    att,        \* ScanJobAttempt.status by job and fencing token, or "none"
    live,       \* the newest attempt's lease_expires_at is in the future
    cancelling, \* cancel_job: what its unlocked read saw
    reaping,    \* reap_stale_jobs: how far it is with a job
    reapFence,  \* the active attempt that reap_stale_jobs selected, or 0
    polling,    \* a poll request is in flight
    reports,    \* status reports in flight
    sc,         \* where the Scout's run loop is
    held,       \* running.JobID
    token,      \* running.Attempt.FencingToken
    stop,       \* running.Cancel() was called
    result      \* the terminal status the Scout must deliver

job == <<status, cancelReq, started, limit, early, expired>>
attempt == <<fence, att, live>>
operator == <<cancelling>>
reaper == <<reaping, reapFence>>
net == <<polling, reports>>
scout == <<sc, held, token, stop, result>>
vars == <<job, attempt, operator, reaper, net, scout>>

RowTypes ==
    /\ status \in [Jobs -> JobStatus]
    /\ cancelReq \in [Jobs -> BOOLEAN]
    /\ started \in [Jobs -> BOOLEAN]
    /\ limit \in [Jobs -> {"off", "counting", "over"}]
    /\ early \in [Jobs -> BOOLEAN]
    /\ expired \in [Jobs -> BOOLEAN]
    /\ fence \in [Jobs -> 0..MaxFence]
    /\ att \in [Jobs -> [Fences -> ActiveAttempt \cup Terminal \cup {"none"}]]
    /\ live \in [Jobs -> BOOLEAN]
    /\ cancelling \in [Jobs -> {"idle", "queued", "active"}]
    /\ reaping \in [Jobs -> {"idle", "job", "attempts"}]
    /\ reapFence \in [Jobs -> 0..MaxFence]

LoopTypes ==
    /\ reports \subseteq Reports
    /\ sc \in {"idle", "poll", "offer", "accept", "run", "done", "final"}
    /\ held \in Jobs \cup {NoJob}
    /\ token \in 0..MaxFence
    /\ result \in {"completed", "failed", "cancelled"}
    /\ sc \notin {"idle", "poll"} => held \in Jobs /\ token \in Fences

FlagTypes == polling \in BOOLEAN /\ stop \in BOOLEAN

(* The rows and the Scout's loop are well formed; a loop past the poll has an attempt. *)
TypeOK == RowTypes /\ LoopTypes /\ FlagTypes

Init ==
    /\ status = [j \in Jobs |-> "queued"]
    /\ cancelReq = [j \in Jobs |-> FALSE]
    /\ started = [j \in Jobs |-> FALSE]
    /\ limit = [j \in Jobs |-> "off"]
    /\ early \in [Jobs -> BOOLEAN]
    /\ expired = [j \in Jobs |-> FALSE]
    /\ fence = [j \in Jobs |-> 0]
    /\ att = [j \in Jobs |-> [f \in Fences |-> "none"]]
    /\ live = [j \in Jobs |-> FALSE]
    /\ cancelling = [j \in Jobs |-> "idle"]
    /\ reaping = [j \in Jobs |-> "idle"]
    /\ reapFence = [j \in Jobs |-> 0]
    /\ polling = FALSE
    /\ reports = {}
    /\ sc = "idle"
    /\ held = NoJob
    /\ token = 0
    /\ stop = FALSE
    /\ result = "completed"

----------------------------------------------------------------------------
(* The dashboard: job polling.                                             *)

(* The jobs whose newest attempt _reclaim_expired_attempts takes back. *)
Reclaimed ==
    {j \in Jobs : /\ status[j] \in ActiveAttempt
                  /\ fence[j] # 0
                  /\ att[j][fence[j]] \in ActiveAttempt
                  /\ ~live[j]}

ReclaimedStatus(j) ==
    IF expired[j] THEN "expired" ELSE IF cancelReq[j] THEN "cancelled" ELSE "queued"

(* The jobs the poll then selects: queued, also just now, and not cancelled. *)
Selected ==
    {j \in Jobs : ~cancelReq[j] /\ (IF j \in Reclaimed THEN ~expired[j] ELSE status[j] = "queued")}

(* Mutant of PollJobRows: the reclaimed attempt is left active. *)
PollJobRows_Unexpired(closed, offer) ==
    /\ status' = [j \in Jobs |->
          IF j = offer THEN "offered"
          ELSE IF j \in closed THEN "expired"
          ELSE IF j \in Reclaimed THEN ReclaimedStatus(j)
          ELSE status[j]]
    /\ fence' = [j \in Jobs |-> IF j = offer THEN fence[j] + 1 ELSE fence[j]]
    /\ att' = [j \in Jobs |-> [f \in Fences |->
          IF j = offer /\ f = fence[j] + 1 THEN "offered" ELSE att[j][f]]]
    /\ live' = [j \in Jobs |-> IF j = offer THEN TRUE ELSE live[j]]
    /\ UNCHANGED <<cancelReq, started, limit, early, expired>>

(***************************************************************************)
(* poll_next_job.  Of the selected jobs some expired ones are closed on    *)
(* the way to the first one that can be offered now; only if there is none *)
(* are all of them visited.  closed are those, offer the job offered.      *)
(***************************************************************************)
PollJobRows(closed, offer) ==
    /\ status' = [j \in Jobs |->
          IF j = offer THEN "offered"
          ELSE IF j \in closed THEN "expired"
          ELSE IF j \in Reclaimed THEN ReclaimedStatus(j)
          ELSE status[j]]
    /\ limit' = [j \in Jobs |-> IF j \in Reclaimed /\ ReclaimedStatus(j) = "queued" /\ ~started[j]
                                THEN "off" ELSE limit[j]]
    /\ fence' = [j \in Jobs |-> IF j = offer THEN fence[j] + 1 ELSE fence[j]]
    /\ att' = [j \in Jobs |-> [f \in Fences |->
          IF j = offer /\ f = fence[j] + 1 THEN "offered"
          ELSE IF j \in Reclaimed /\ f = fence[j] THEN "expired"
          ELSE att[j][f]]]
    /\ live' = [j \in Jobs |-> IF j = offer THEN TRUE ELSE live[j]]
    /\ UNCHANGED <<cancelReq, started, early, expired>>

(* running = nil: the loop holds nothing of an earlier job. *)
Detach ==
    /\ sc' = "idle"
    /\ held' = NoJob
    /\ token' = 0
    /\ stop' = FALSE
    /\ result' = "completed"

(* The Scout gets the offer, or 204; or the answer is lost or too late. *)
PollAnswer(offer) ==
    \/ UNCHANGED scout
    \/ /\ sc = "poll"
       /\ IF offer = NoJob
          THEN Detach
          ELSE /\ sc' = "offer"
               /\ held' = offer
               /\ token' = fence[offer] + 1
               /\ UNCHANGED <<stop, result>>

poll_offer(offer) ==
    /\ polling
    /\ offer \in Selected
    /\ ~expired[offer] /\ ~early[offer]
    /\ fence[offer] < MaxFence
    /\ \E closed \in SUBSET {j \in Selected : expired[j]} : PollJobRows(closed, offer)
    /\ PollAnswer(offer)
    /\ polling' = FALSE
    /\ UNCHANGED <<operator, reaper, reports>>

poll_nothing ==
    /\ polling
    /\ \A j \in Selected : expired[j] \/ early[j]
    /\ PollJobRows({j \in Selected : expired[j]}, NoJob)
    /\ PollAnswer(NoJob)
    /\ polling' = FALSE
    /\ UNCHANGED <<operator, reaper, reports>>

----------------------------------------------------------------------------
(* The dashboard: status reports.                                          *)

(* session.get(ScanJob): the job's status before any lock is taken. *)
report_read(r) ==
    /\ r.seen = "unread"
    /\ reports' = (reports \ {r}) \cup {[r EXCEPT !.seen = status[r.job]]}
    /\ UNCHANGED <<job, attempt, operator, reaper, polling, scout>>

(* _require_current_attempt with allow_terminal, under the attempt's lock. *)
CurrentAttempt(j, f) ==
    /\ f = fence[j]
    /\ att[j][f] \in ActiveAttempt => live[j]

(* Mutant of AllowedReports: any report is allowed after the end. *)
AllowedReports_Reopen(a) ==
    IF a \in Terminal THEN Reportable
    ELSE IF a = "offered" THEN {"accepted", "rejected_by_probe"}
    ELSE Reportable \ {"accepted"}

(* allowed_attempt_transitions *)
AllowedReports(a) ==
    CASE a = "offered"  -> {"accepted", "rejected_by_probe"}
      [] a = "accepted" -> {"accepted", "running", "failed", "cancelled", "rejected_by_probe"}
      [] a = "running"  -> {"running", "completed", "failed", "cancelled", "rejected_by_probe"}
      [] OTHER          -> {}

(* Mutant of Applies: a report is applied to a job that has ended. *)
Applies_Ended(r) ==
    /\ r.seen # "unread"
    /\ CurrentAttempt(r.job, r.fence)
    /\ r.st \in AllowedReports(att[r.job][r.fence])

Applies(r) ==
    /\ r.seen \notin Terminal \cup {"unread"}
    /\ CurrentAttempt(r.job, r.fence)
    /\ r.st \in AllowedReports(att[r.job][r.fence])

(* An already published outcome is acknowledged and kept. *)
Acknowledged(r) ==
    /\ r.seen \in Terminal
    /\ CurrentAttempt(r.job, r.fence)
    /\ r.st = r.seen \/ (r.seen = "expired" /\ r.st \in Terminal)

(* The Scout's request loop is waiting for the answer to r. *)
Awaits(r) ==
    /\ held = r.job
    /\ token = r.fence
    /\ \/ sc = "accept" /\ r.st = "accepted"
       \/ sc = "final" /\ r.st = result

(***************************************************************************)
(* The answer reaches the Scout, or is lost, late or ignored.  Only after  *)
(* the acknowledged acceptance does PollAndStart announce "running" and    *)
(* start the worker.  Finalize releases the slot on success and keeps the  *)
(* report for another try on every error, a 409 included.                  *)
(***************************************************************************)
ReportAnswer(r, ok) ==
    \/ reports' = reports \ {r} /\ UNCHANGED scout
    \/ /\ Awaits(r)
       /\ reports' = (reports \ {r}) \cup
             IF ok /\ sc = "accept"
             THEN {[job |-> held, fence |-> token, st |-> "running", seen |-> "unread"]}
             ELSE {}
       /\ IF (sc = "final") = ok
          THEN Detach
          ELSE /\ sc' = IF ok THEN "run" ELSE "done"
               /\ UNCHANGED <<held, token, stop, result>>

(***************************************************************************)
(* report_job_status applied.  The ORM writes the job's status column only *)
(* if it differs from the status this session read.                        *)
(***************************************************************************)
report_apply(r) ==
    /\ Applies(r)
    /\ status' = [status EXCEPT ![r.job] = IF r.st = r.seen THEN @ ELSE r.st]
    /\ att' = [att EXCEPT ![r.job][r.fence] = r.st]
    /\ started' = [started EXCEPT ![r.job] = IF r.st = "running" THEN TRUE ELSE @]
    /\ limit' = [limit EXCEPT ![r.job] =
          IF ~started[r.job] /\ r.st \in {"accepted", "running"} THEN "counting" ELSE @]
    /\ ReportAnswer(r, TRUE)
    /\ UNCHANGED <<cancelReq, early, expired, fence, live, operator, reaper, polling>>

report_acknowledge(r) ==
    /\ Acknowledged(r)
    /\ ReportAnswer(r, TRUE)
    /\ UNCHANGED <<job, attempt, operator, reaper, polling>>

report_conflict(r) ==
    /\ r.seen # "unread"
    /\ ~Applies(r) /\ ~Acknowledged(r)
    /\ ReportAnswer(r, FALSE)
    /\ UNCHANGED <<job, attempt, operator, reaper, polling>>

(* A request that never reaches the server. *)
LoseReport(r) ==
    /\ r.seen = "unread"
    /\ reports' = reports \ {r}
    /\ UNCHANGED <<job, attempt, operator, reaper, polling, scout>>

LosePoll ==
    /\ polling
    /\ polling' = FALSE
    /\ UNCHANGED <<job, attempt, operator, reaper, reports, scout>>

----------------------------------------------------------------------------
(* The operator and the reaper.                                            *)

cancel_job_read(j) ==
    /\ cancelling[j] = "idle"
    /\ status[j] \notin Terminal
    /\ cancelling' = [cancelling EXCEPT ![j] = IF status[j] = "queued" THEN "queued" ELSE "active"]
    /\ UNCHANGED <<job, attempt, reaper, net, scout>>

cancel_job_write(j) ==
    /\ cancelling[j] # "idle"
    /\ cancelling' = [cancelling EXCEPT ![j] = "idle"]
    /\ cancelReq' = [cancelReq EXCEPT ![j] = TRUE]
    /\ status' = [status EXCEPT ![j] = IF cancelling[j] = "queued" THEN "cancelled" ELSE @]
    /\ UNCHANGED <<started, limit, early, expired, attempt, reaper, net, scout>>

(* _effective_deadline, with the grace that reap_stale_jobs adds. *)
PastDeadline(j) == expired[j] \/ limit[j] = "over"

(* Mutant of reap_read: queued jobs are not swept. *)
reap_read_DeliveredOnly(j) ==
    /\ reaping[j] = "idle"
    /\ status[j] \in ActiveAttempt
    /\ PastDeadline(j)
    /\ reaping' = [reaping EXCEPT ![j] = "job"]
    /\ UNCHANGED <<job, attempt, operator, reapFence, net, scout>>

reap_read(j) ==
    /\ reaping[j] = "idle"
    /\ status[j] \notin Terminal
    /\ PastDeadline(j)
    /\ reaping' = [reaping EXCEPT ![j] = "job"]
    /\ UNCHANGED <<job, attempt, operator, reapFence, net, scout>>

reap_attempts(j) ==
    /\ reaping[j] = "job"
    /\ reaping' = [reaping EXCEPT ![j] = "attempts"]
    /\ reapFence' = [reapFence EXCEPT ![j] =
          IF fence[j] # 0 /\ att[j][fence[j]] \in ActiveAttempt THEN fence[j] ELSE 0]
    /\ UNCHANGED <<job, attempt, operator, net, scout>>

reap_write(j) ==
    /\ reaping[j] = "attempts"
    /\ reaping' = [reaping EXCEPT ![j] = "idle"]
    /\ reapFence' = [reapFence EXCEPT ![j] = 0]
    /\ status' = [status EXCEPT ![j] = "expired"]
    /\ att' = [att EXCEPT ![j] = [f \in Fences |-> IF f = reapFence[j] THEN "expired" ELSE @[f]]]
    /\ UNCHANGED <<cancelReq, started, limit, early, expired, fence, live, operator, net, scout>>

----------------------------------------------------------------------------
(* The Scout.                                                              *)

Send(st) ==
    /\ Cardinality(reports) < MaxReports
    /\ reports' = reports \cup {[job |-> held, fence |-> token, st |-> st, seen |-> "unread"]}

(* The loop polls only while no job is attached. *)
PollJob ==
    /\ sc = "idle"
    /\ sc' = "poll"
    /\ polling' = TRUE
    /\ UNCHANGED <<job, attempt, operator, reaper, reports, held, token, stop, result>>

(* The signed envelope fails verification: report it and forget the job. *)
RejectOffer ==
    /\ sc = "offer"
    /\ Send("rejected_by_probe")
    /\ Detach
    /\ UNCHANGED <<job, attempt, operator, reaper, polling>>

AcceptOffer ==
    /\ sc = "offer"
    /\ Send("accepted")
    /\ sc' = "accept"
    /\ UNCHANGED <<job, attempt, operator, reaper, polling, held, token, stop, result>>

(* A progress report of the worker goroutine; its answer is ignored. *)
ReportProgress ==
    /\ sc = "run"
    /\ Send("running")
    /\ UNCHANGED <<job, attempt, operator, reaper, polling, scout>>

(* The server refuses the renewal, or lists the job among cancellations. *)
StopRequested ==
    \/ ~CurrentAttempt(held, token)
    \/ att[held][token] \in Terminal
    \/ cancelReq[held]

(***************************************************************************)
(* The worker's context is cancelled: by a refused renewal (RenewLease) or *)
(* a heartbeat that lists the job, or locally, when renewals have failed   *)
(* for leaseFailureLimit, the signed deadline of the job is reached or the *)
(* emergency stop is set.                                                  *)
(***************************************************************************)
StopWorker(locally) ==
    /\ sc = "run"
    /\ ~stop
    /\ locally \/ StopRequested
    /\ stop' = TRUE
    /\ UNCHANGED <<job, attempt, operator, reaper, net, sc, held, token, result>>

(* A worker that was stopped may still have finished just before. *)
WorkerDone(outcome) ==
    /\ sc = "run"
    /\ outcome = "cancelled" => stop
    /\ sc' = "done"
    /\ result' = outcome
    /\ UNCHANGED <<job, attempt, operator, reaper, net, held, token, stop>>

(* Finalize: the first send and every retry send the same report. *)
Finalize ==
    /\ sc = "done"
    /\ Send(result)
    /\ sc' = "final"
    /\ UNCHANGED <<job, attempt, operator, reaper, polling, held, token, stop, result>>

(* The HTTP client gives up; the request may still be handled later. *)
RequestTimeout ==
    /\ sc \in {"poll", "accept", "final"}
    /\ IF sc = "final" THEN sc' = "done" /\ UNCHANGED <<held, token, stop, result>> ELSE Detach
    /\ UNCHANGED <<job, attempt, operator, reaper, net>>

(* The Scout process dies and starts again: the attached job is forgotten. *)
Crash ==
    /\ sc # "idle"
    /\ Detach
    /\ UNCHANGED <<job, attempt, operator, reaper, net>>

----------------------------------------------------------------------------
(* The passing of time.                                                    *)

LeaseExpires(j) ==
    /\ live[j]
    /\ att[j][fence[j]] \in ActiveAttempt
    /\ live' = [live EXCEPT ![j] = FALSE]
    /\ UNCHANGED <<job, fence, att, operator, reaper, net, scout>>

(* not_before is reached; expires_at is later than that. *)
JobBecomesDue(j) ==
    /\ early[j]
    /\ early' = [early EXCEPT ![j] = FALSE]
    /\ UNCHANGED <<status, cancelReq, started, limit, expired, attempt, operator, reaper, net, scout>>

JobExpires(j) ==
    /\ ~early[j] /\ ~expired[j]
    /\ expired' = [expired EXCEPT ![j] = TRUE]
    /\ UNCHANGED <<status, cancelReq, started, limit, early, attempt, operator, reaper, net, scout>>

ExecutionLimit(j) ==
    /\ limit[j] = "counting"
    /\ limit' = [limit EXCEPT ![j] = "over"]
    /\ UNCHANGED <<status, cancelReq, started, early, expired, attempt, operator, reaper, net, scout>>

----------------------------------------------------------------------------
ServerPoll == (\E j \in Jobs : poll_offer(j)) \/ poll_nothing

ServerReport(r) ==
    report_read(r) \/ report_apply(r) \/ report_acknowledge(r) \/ report_conflict(r)

Cancel(j) == cancel_job_read(j) \/ cancel_job_write(j)

Reap(j) == reap_read(j) \/ reap_attempts(j) \/ reap_write(j)

Worker == StopWorker(TRUE) \/ StopWorker(FALSE)
          \/ \E o \in {"completed", "failed", "cancelled"} : WorkerDone(o)

ScoutLoop == PollJob \/ RejectOffer \/ AcceptOffer \/ Finalize \/ RequestTimeout

Time(j) == LeaseExpires(j) \/ JobBecomesDue(j) \/ JobExpires(j) \/ ExecutionLimit(j)

Next ==
    \/ ServerPoll \/ LosePoll
    \/ \E r \in reports : ServerReport(r) \/ LoseReport(r)
    \/ \E j \in Jobs : Cancel(j) \/ Reap(j) \/ Time(j)
    \/ ScoutLoop \/ Worker \/ ReportProgress \/ Crash

Spec == Init /\ [][Next]_vars

(* The terminal report the Scout waits for reaches the server ... *)
FinalArrives == sc = "final" /\ \E r \in reports : Awaits(r) /\ report_read(r)

(* ... and its answer the Scout. *)
FinalAnswered ==
    /\ sc = "final"
    /\ \E r \in reports :
          /\ Awaits(r)
          /\ (report_apply(r) \/ report_acknowledge(r) \/ report_conflict(r))
    /\ sc' # "final"

(***************************************************************************)
(* The server handles what reaches it, the sweep runs every minute, time   *)
(* passes, the worker ends (its deadline is signed) and the loop goes on.  *)
(* Requests and answers may be lost for ever, except that of an endless    *)
(* series of terminal reports one arrives and one is answered: the link is *)
(* not dead for good.                                                      *)
(***************************************************************************)
Fairness ==
    /\ WF_vars(ServerPoll)
    /\ WF_vars(\E r \in reports : ServerReport(r))
    /\ WF_vars(ScoutLoop) /\ WF_vars(Worker)
    /\ SF_vars(FinalArrives) /\ SF_vars(FinalAnswered)
    /\ \A j \in Jobs : /\ WF_vars(Reap(j))
                       /\ WF_vars(cancel_job_write(j))
                       /\ WF_vars(JobBecomesDue(j))
                       /\ WF_vars(JobExpires(j))

FairSpec == Spec /\ Fairness

----------------------------------------------------------------------------
(***************************************************************************)
(* At most the newest attempt of a job is active, and none is while the    *)
(* job waits in the queue: a reclaimed job is never offered while an older *)
(* execution still counts as current.                                      *)
(***************************************************************************)
OneActiveAttempt ==
    \A j \in Jobs, f \in Fences :
        att[j][f] \in ActiveAttempt => f = fence[j] /\ status[j] # "queued"

(***************************************************************************)
(* The Scout never executes, or reports the end of, an attempt whose       *)
(* acceptance the server has not recorded, whatever answers were lost.     *)
(***************************************************************************)
AcceptanceRecorded ==
    sc \in {"run", "done", "final"} => att[held][token] \notin {"none", "offered"}

(***************************************************************************)
(* A finished attempt never becomes active again: neither a report that    *)
(* read the job before its end nor one overtaken by a newer report.        *)
(***************************************************************************)
NoAttemptRevives ==
    \A j \in Jobs, f \in Fences : att[j][f] \in Terminal => att'[j][f] \in Terminal

AttemptsNeverRevive == [][NoAttemptRevives]_vars

(***************************************************************************)
(* The rows of the attempts and the Scout's loop implement AttemptLog: no  *)
(* attempt is executed twice, begun unaccepted or opened again, and each   *)
(* is closed before the next one is made.                                  *)
(***************************************************************************)
Log(j) == [f \in 1 .. fence[j] |-> IF att[j][f] \in Terminal THEN "closed" ELSE att[j][f]]

Logs == [j \in Jobs |-> Log(j)]

Executing == IF sc \in {"run", "done", "final"} THEN <<held, token>> ELSE NoJob

Attempts == INSTANCE AttemptLog WITH Nobody <- NoJob, log <- Logs, exec <- Executing

ImplementsAttemptLog == Attempts!Spec

(***************************************************************************)
(* Every job ends and stays ended, in spite of dead Scouts, lost requests, *)
(* cancellations that race a reclaim, and stale writes.                    *)
(***************************************************************************)
AllJobsSettle == \A j \in Jobs : <>[](status[j] \in Terminal)

(***************************************************************************)
(* What is over stays over, and what was delivered is not cancelled as     *)
(* undelivered, except by a write that rests on an older read: only a      *)
(* status report that read the job before it ended takes it back to an     *)
(* active state, and only a cancel_job that read it before a poll leaves   *)
(* it CANCELLED with an active attempt.                                    *)
(***************************************************************************)
UndoneByStaleRead ==
    \A j \in Jobs :
        /\ status[j] \in Terminal /\ status'[j] \notin Terminal =>
              \E r \in reports : r.job = j /\ r.seen \notin Terminal \cup {"unread"}
        /\ status[j] # "cancelled" /\ status'[j] = "cancelled" =>
              cancelling[j] = "queued" \/ \A f \in Fences : att'[j][f] \notin ActiveAttempt

UndoneOnlyByStaleReads == [][UndoneByStaleRead]_vars

============================================================================
