------------------------------ MODULE Workflow ------------------------------
(***************************************************************************)
(* One full-spectrum workflow run: the stage engine of                     *)
(* dash/backend/app/services/workflow.py, the dispatch of one scan job per *)
(* scanning stage (services/workflow_dispatch.py), and the endpoints of    *)
(* api/v1/workflows.py that operators and approvers call.                  *)
(*                                                                         *)
(* No handler locks the run: it reads the row, computes on that object and *)
(* commits later.  Sessions are the handlers in progress; every handler is *)
(* a read step and a write step, and the write uses what the read saw.  A  *)
(* commit writes stages_json whole (flag_modified) and of the other        *)
(* columns those that the handler changed.                                 *)
(*                                                                         *)
(* A scan job is active until it ends: reported by the Scout or reaped,    *)
(* which calls on_scan_job_terminal, or silently, when a queued job is     *)
(* cancelled, or a poll finds it expired or reclaims it for good.          *)
(***************************************************************************)
EXTENDS Naturals, FiniteSetsExt

CONSTANTS
    Sessions,   \* request handlers that may be in progress together
    MaxJobs     \* bound on the scan jobs a run dispatches

ASSUME WorkflowConstants == MaxJobs \in Nat

(***************************************************************************)
(* STAGE_ORDER: 1 authorization_precheck, 2 discovery, 3 vulnerability     *)
(* assessment, 4 web_and_tls, 5 candidate_validation_plan, 6 approval      *)
(* gate, 7 allowlisted_validation, 8 evidence_collection, 9 cleanup,       *)
(* 10 verification_scan, 11 reporting.                                     *)
(***************************************************************************)
Stages == 1..11

APPROVAL_GATE == 6
VALIDATION == 7
CLEANUP == 9
TAIL == {CLEANUP, 10, 11}
SCAN_STAGES == {2, 3, 4}
Intrusive == {VALIDATION, 8, CLEANUP}

StageStatus == {"pending", "running", "awaiting_approval", "completed", "failed", "skipped", "denied"}

Runs ==
    [stages : [Stages -> StageStatus],
     status : {"pending", "running", "awaiting_approval", "completed", "failed"},
     approved : BOOLEAN,
     job : 0..MaxJobs,
     detail : {"none", "under_test", "not_dispatched", "scan_failed"}]

VARIABLES
    opts,       \* include_web, include_intrusive, network_id set, and whether a
                \* notification channel subscribes to finished scans
    run,        \* the workflow_runs row
    jobs,       \* the scan jobs of the run
    other,      \* another job is active on the network
    sess,       \* the handlers in progress
    decisions,  \* history: the decisions approvers made
    validated   \* history: the validation stage was started

vars == <<opts, run, jobs, other, sess, decisions, validated>>

Idle == [kind |-> "idle"]

Busy == [kind : {"advance", "decide", "terminal"}, job : 0..MaxJobs, snap : Runs]

Options == [web : BOOLEAN, intrusive : BOOLEAN, network : BOOLEAN, subscribed : BOOLEAN]

TypeOK ==
    /\ opts \in Options
    /\ run \in Runs
    /\ jobs \in [1..MaxJobs -> {"none", "active", "completed", "failed", "silent"}]
    /\ other \in BOOLEAN
    /\ sess \in [Sessions -> Busy \cup {Idle}]
    /\ decisions \subseteq {"approve", "deny"}
    /\ validated \in BOOLEAN

----------------------------------------------------------------------------
(* The engine: pure functions of a run.                                    *)

_applicable(k, r) ==
    /\ k = 4 => opts.web
    /\ k \in {5, APPROVAL_GATE} => opts.intrusive
    /\ k \in Intrusive => opts.intrusive /\ r.approved

(* The first stage that is running or awaiting approval, 0 if there is none. *)
_current(r) ==
    LET active == {k \in Stages : r.stages[k] \in {"running", "awaiting_approval"}}
    IN  IF active = {} THEN 0 ELSE Min(active)

scanning_stage_active(r) == _current(r) \in SCAN_STAGES

Open == {"pending", "running"}

(* The loop comes to the stage k after i: no stage in between is started. *)
Reached(r, i, k) ==
    /\ k > i /\ r.stages[k] \in Open
    /\ \A l \in (i + 1)..(k - 1) : r.stages[l] \in Open => ~_applicable(l, r)

Started(k) == IF k = APPROVAL_GATE THEN "awaiting_approval" ELSE "running"

(***************************************************************************)
(* Skip the stages after i that do not apply, start the first that does,   *)
(* and close the run when none is left.                                    *)
(***************************************************************************)
_activate_next(r, i) ==
    [r EXCEPT
        !.stages = [k \in Stages |-> IF ~Reached(r, i, k) THEN r.stages[k]
                                    ELSE IF _applicable(k, r) THEN Started(k) ELSE "skipped"],
        !.status = IF \E k \in Stages : Reached(r, i, k) /\ _applicable(k, r)
                   THEN Started(CHOOSE k \in Stages : Reached(r, i, k) /\ _applicable(k, r))
                   ELSE IF \E k \in Stages : r.stages[k] = "failed" THEN "failed" ELSE "completed"]

(* Mutant of advance: a failure skips everything that is still pending. *)
advance_NoTail(r, outcome) ==
    LET c == _current(r)
    IN  _activate_next(
            [r EXCEPT !.stages = [k \in Stages |->
                IF k = c THEN outcome
                ELSE IF outcome = "failed" /\ k > c /\ r.stages[k] = "pending" THEN "skipped"
                ELSE r.stages[k]]], c)

(* A failure skips the pending stages up to the tail. *)
advance(r, outcome) ==
    LET c == _current(r)
    IN  _activate_next(
            [r EXCEPT !.stages = [k \in Stages |->
                IF k = c THEN outcome
                ELSE IF outcome = "failed" /\ k > c /\ k \notin TAIL /\ r.stages[k] = "pending"
                     THEN "skipped"
                ELSE r.stages[k]]], c)

fail_scanning(r, detail) == [advance(r, "failed") EXCEPT !.detail = detail]

decide_intrusive(r, approve) ==
    _activate_next([r EXCEPT !.stages[APPROVAL_GATE] = IF approve THEN "completed" ELSE "denied",
                             !.approved = approve], APPROVAL_GATE)

----------------------------------------------------------------------------
(* The row.                                                                *)

(* create_run and start. *)
Init ==
    /\ opts \in Options
    /\ run = _activate_next([stages |-> [k \in Stages |-> "pending"], status |-> "pending",
                             approved |-> FALSE, job |-> 0, detail |-> "none"], 0)
    /\ jobs = [j \in 1..MaxJobs |-> "none"]
    /\ other = FALSE
    /\ sess = [s \in Sessions |-> Idle]
    /\ decisions = {}
    /\ validated = FALSE

(* What the UPDATE of a session that read snap and computed r leaves. *)
Commit(snap, r) ==
    /\ run' = [stages   |-> r.stages,
               status   |-> IF r.status = snap.status THEN run.status ELSE r.status,
               approved |-> IF r.approved = snap.approved THEN run.approved ELSE r.approved,
               job      |-> IF r.job = snap.job THEN run.job ELSE r.job,
               detail   |-> r.detail]
    /\ validated' = (validated \/ r.stages[VALIDATION] = "running")

Begin(s, kind, j) ==
    /\ sess[s] = Idle
    /\ sess' = [sess EXCEPT ![s] = [kind |-> kind, job |-> j, snap |-> run]]
    /\ UNCHANGED <<opts, run, jobs, other, decisions, validated>>

End(s) == sess' = [sess EXCEPT ![s] = Idle]

(* network_has_active_job, where held are the jobs that look active to the session. *)
network_has_active_job(held) == opts.network /\ (other \/ \E j \in 1..MaxJobs : held[j] = "active")

(***************************************************************************)
(* dispatch_current_scan_stage on r, in the session of snap.  held are the *)
(* jobs as this transaction's queries see them, ended their state after    *)
(* its commit.  A dispatch may always fail: no scout, no ranges, or the    *)
(* job is not valid.                                                       *)
(***************************************************************************)
Dispatch(snap, r, held, ended) ==
    \/ /\ ~scanning_stage_active(r)
       /\ Commit(snap, r)
       /\ jobs' = ended
    \/ /\ scanning_stage_active(r)
       /\ network_has_active_job(held)
       /\ Commit(snap, fail_scanning(r, "under_test"))
       /\ jobs' = ended
    \/ /\ scanning_stage_active(r)
       /\ ~network_has_active_job(held)
       /\ Commit(snap, fail_scanning(r, "not_dispatched"))
       /\ jobs' = ended
    \/ \E j \in 1..MaxJobs :
       /\ scanning_stage_active(r)
       /\ ~network_has_active_job(held)
       /\ ended[j] = "none"
       /\ \A i \in 1..MaxJobs : i < j => ended[i] # "none"
       /\ Commit(snap, [r EXCEPT !.job = j])
       /\ jobs' = [ended EXCEPT ![j] = "active"]

----------------------------------------------------------------------------
(* The endpoints.                                                          *)

(* advance_run: what it refuses, it refuses on the row it read. *)
advance_read(s) ==
    /\ run.job # 0 => ~scanning_stage_active(run)
    /\ _current(run) \notin {0, APPROVAL_GATE}
    /\ Begin(s, "advance", 0)

advance_write(s, outcome) ==
    /\ sess[s].kind = "advance"
    /\ \E r \in {advance(sess[s].snap, outcome)} : Dispatch(sess[s].snap, r, jobs, jobs)
    /\ End(s)
    /\ UNCHANGED <<opts, other, decisions>>

decide_read(s) ==
    /\ run.stages[APPROVAL_GATE] = "awaiting_approval"
    /\ Begin(s, "decide", 0)

(* Mutant of decide_write: a denial leaves the approval gate open to what follows. *)
decide_write_Approve(s, approve) ==
    /\ sess[s].kind = "decide"
    /\ Commit(sess[s].snap, decide_intrusive(sess[s].snap, TRUE))
    /\ decisions' = decisions \cup {IF approve THEN "approve" ELSE "deny"}
    /\ End(s)
    /\ UNCHANGED <<opts, jobs, other>>

decide_write(s, approve) ==
    /\ sess[s].kind = "decide"
    /\ Commit(sess[s].snap, decide_intrusive(sess[s].snap, approve))
    /\ decisions' = decisions \cup {IF approve THEN "approve" ELSE "deny"}
    /\ End(s)
    /\ UNCHANGED <<opts, jobs, other>>

----------------------------------------------------------------------------
(* The end of a scan job.                                                  *)

Outcomes == {"completed", "failed"}

Linked(j) == run.job = j /\ scanning_stage_active(run)

(* A terminal report or the reaper; the run is read in its transaction. *)
on_scan_job_terminal_read(s, j) ==
    /\ jobs[j] = "active"
    /\ Linked(j)
    /\ Begin(s, "terminal", j)

(* Mutant of on_scan_job_terminal_write: the failed scan leaves the stage alone. *)
on_scan_job_terminal_write_Silent(s, outcome) ==
    /\ sess[s].kind = "terminal"
    /\ LET snap  == sess[s].snap
           ended == [jobs EXCEPT ![sess[s].job] = outcome]
       IN  IF outcome = "completed"
           THEN \E r \in {advance(snap, "completed")} :
                    Dispatch(snap, r, IF opts.subscribed THEN ended ELSE jobs, ended)
           ELSE jobs' = ended /\ UNCHANGED <<run, validated>>
    /\ End(s)
    /\ UNCHANGED <<opts, other, decisions>>

(***************************************************************************)
(* The job's new status is in the session only, which does not autoflush:  *)
(* the queries of the dispatch see it if a notification of the finished    *)
(* scan has flushed the session before.                                    *)
(***************************************************************************)
on_scan_job_terminal_write(s, outcome) ==
    /\ sess[s].kind = "terminal"
    /\ LET snap  == sess[s].snap
           ended == [jobs EXCEPT ![sess[s].job] = outcome]
       IN  IF outcome = "completed"
           THEN \E r \in {advance(snap, "completed")} :
                    Dispatch(snap, r, IF opts.subscribed THEN ended ELSE jobs, ended)
           ELSE Commit(snap, fail_scanning(snap, "scan_failed")) /\ jobs' = ended
    /\ End(s)
    /\ UNCHANGED <<opts, other, decisions>>

(***************************************************************************)
(* The run is not told of the end of a job: cancel_job of a queued job,    *)
(* and a poll that expires a queued job or reclaims one that is past its   *)
(* expiry or cancelled, do not call on_scan_job_terminal; and a run that   *)
(* has moved on is not advanced by a job that reports.                     *)
(***************************************************************************)
job_ends_silently(j) ==
    /\ jobs[j] = "active"
    /\ \E o \in {"silent"} \cup (IF Linked(j) THEN {} ELSE Outcomes) : jobs' = [jobs EXCEPT ![j] = o]
    /\ UNCHANGED <<opts, run, other, sess, decisions, validated>>

(* Another job on the network: a schedule, a rescan, a pentest. *)
other_job ==
    /\ opts.network
    /\ IF other THEN other' = FALSE
       ELSE other' = TRUE /\ \A j \in 1..MaxJobs : jobs[j] # "active"
    /\ UNCHANGED <<opts, run, jobs, sess, decisions, validated>>

----------------------------------------------------------------------------
Operate(s) == advance_read(s) \/ \E o \in Outcomes : advance_write(s, o)

Approve(s) == decide_read(s) \/ \E a \in BOOLEAN : decide_write(s, a)

JobEnds(s) ==
    \/ \E j \in 1..MaxJobs : on_scan_job_terminal_read(s, j)
    \/ \E o \in Outcomes : on_scan_job_terminal_write(s, o)

Next ==
    \/ \E s \in Sessions : Operate(s) \/ Approve(s) \/ JobEnds(s)
    \/ \E j \in 1..MaxJobs : job_ends_silently(j)
    \/ other_job

Spec == Init /\ [][Next]_vars

(***************************************************************************)
(* Operators and approvers act on a run that waits for them, and a scan    *)
(* job ends, if only because the reaper expires it.                        *)
(***************************************************************************)
Fairness == \A s \in Sessions : WF_vars(Operate(s) \/ Approve(s) \/ JobEnds(s))

FairSpec == Spec /\ Fairness

----------------------------------------------------------------------------
Final == run.status \in {"completed", "failed"}

(***************************************************************************)
(* The engine's guarantee: a run ends only after verification and          *)
(* reporting were carried out, and cleanup too if the validation was ever  *)
(* started, whatever failed, was denied or could not be dispatched.        *)
(***************************************************************************)
TailTraversed ==
    Final => /\ run.stages[10] \in Outcomes /\ run.stages[11] \in Outcomes
             /\ validated => run.stages[CLEANUP] \in Outcomes

(***************************************************************************)
(* Verification and reporting are never passed over: when no stage is left *)
(* both were carried out, however handlers overlap and whatever stale      *)
(* stages they write back.                                                 *)
(***************************************************************************)
ReportedBeforeOver ==
    _current(run) = 0 => run.stages[10] \in Outcomes /\ run.stages[11] \in Outcomes

(***************************************************************************)
(* Validation, evidence collection and their cleanup are started only for  *)
(* a run that some approver approved, however handlers overlap and         *)
(* whatever stale stages they write back.                                  *)
(***************************************************************************)
IntrusiveOnlyIfApproved ==
    \A k \in Intrusive : run.stages[k] \notin {"pending", "skipped"} => "approve" \in decisions

(* The active scanning stage's job ended without a word. *)
Stranded == scanning_stage_active(run) /\ run.job # 0 /\ jobs[run.job] = "silent"

(***************************************************************************)
(* A run that operators and approvers keep moving ends, unless a scan job  *)
(* of it ends silently.                                                    *)
(***************************************************************************)
RunEndsOrStrands == <>(Final \/ Stranded)

=============================================================================
