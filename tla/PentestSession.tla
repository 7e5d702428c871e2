-------------------------- MODULE PentestSession --------------------------
(***************************************************************************)
(* Controlled pentest sessions under one Rules of Engagement               *)
(* (dash/backend/app/services/pentest.py, pentest_dispatch.py,             *)
(* api/v1/pentest.py), the job of each and the Scout that runs it          *)
(* (scout/internal/scanners/metasploit).                                   *)
(*                                                                         *)
(* A decision reads the session without a lock and only later locks the    *)
(* Rules of Engagement; the sweep reads its rows and the legal holds,      *)
(* then writes.  Everything else is one step.  An exploit of an attempt    *)
(* may leave a live session on the target: the result of the attempt says  *)
(* whether its teardown was verified, and comes through the result queue,  *)
(* apart from the report of the job.                                       *)
(***************************************************************************)
EXTENDS FiniteSets, Naturals, TLC

CONSTANTS
    Sessions,       \* pentest sessions, each of a network of its own
    Watched,        \* those that run, and that operators and time come to
    Deciders,       \* decisions in progress
    Limit,          \* max_concurrent_sessions
    MaxAttempts,    \* bound on the attempts at a job
    MaxEvents,      \* bound on what operators, time and failures do
    None

ASSUME PentestConstants ==
    /\ Limit \in Nat /\ MaxAttempts \in Nat /\ MaxEvents \in Nat
    /\ IsFiniteSet(Sessions) /\ Watched \subseteq Sessions /\ None \notin Sessions

VARIABLES
    retain,     \* retain_evidence of the evidence policy
    ps,         \* the session rows
    job,        \* the job of each session and its attempts
    exec,       \* the attempt a Scout executes
    open,       \* attempts that have a live session on the target
    queue,      \* results in the Scout's queue
    reading,    \* the session each decision has read, pending
    sweep,      \* what the sweep has read
    held,       \* sessions whose job is under a legal hold
    events,     \* what operators, time and failures have done
    excused,    \* closed by an operator, or decided twice at a time
    everHeld

history == <<excused, everHeld>>
vars == <<retain, ps, job, exec, open, queue, reading, sweep, held, events, history>>

Statuses == {"pending", "approved", "rejected", "cleaned", "cleanup_pending",
             "completed", "terminated", "expired"}

(* late: a pending session is a day old, an approved one past its time;    *)
(* aged: an ended one past the retention of its evidence.                  *)
Session == [status : Statuses, required : BOOLEAN, completed : BOOLEAN, verified : BOOLEAN,
            evidence : BOOLEAN, artifact : BOOLEAN, ended : BOOLEAN, late : BOOLEAN,
            aged : BOOLEAN]

Job == [st : {"none", "queued", "active", "ended"}, attempt : 0 .. MaxAttempts]

Idle == [attempt |-> 0, stage |-> "idle"]

NoSweep == [on |-> FALSE, active |-> {}, closing |-> {}, stale |-> {}, due |-> {}, had |-> {}, held |-> {}]

TypeOK ==
    /\ retain \in BOOLEAN
    /\ ps \in [Sessions -> Session] /\ job \in [Sessions -> Job]
    /\ exec \in [Sessions -> [attempt : 0 .. MaxAttempts, stage : {"idle", "offered", "running", "over"}]]
    /\ open \in [Sessions -> SUBSET (1 .. MaxAttempts)]
    /\ queue \in [Sessions -> SUBSET [attempt : 1 .. MaxAttempts, verified : BOOLEAN]]
    /\ reading \in [Deciders -> Sessions \cup {None}]
    /\ sweep \in [on : BOOLEAN, active : SUBSET Sessions, closing : SUBSET Sessions,
                  stale : SUBSET Sessions, due : SUBSET Sessions, had : SUBSET Sessions,
                  held : SUBSET Sessions]
    /\ events \in 0 .. MaxEvents
    /\ held \subseteq Sessions /\ excused \subseteq Sessions /\ everHeld \subseteq Sessions

(* create_session, for each of them.                                       *)
Init ==
    /\ retain \in BOOLEAN
    /\ \E required \in BOOLEAN :
          ps = [s \in Sessions |->
                  [status |-> "pending", required |-> required, completed |-> FALSE,
                   verified |-> FALSE, evidence |-> FALSE, artifact |-> FALSE,
                   ended |-> FALSE, late |-> FALSE, aged |-> FALSE]]
    /\ job = [s \in Sessions |-> [st |-> "none", attempt |-> 0]]
    /\ exec = [s \in Sessions |-> Idle]
    /\ open = [s \in Sessions |-> {}] /\ queue = [s \in Sessions |-> {}]
    /\ reading = [d \in Deciders |-> None]
    /\ sweep = NoSweep
    /\ events = 0 /\ held = {} /\ excused = {} /\ everHeld = {}

(* Bounded.                                                                *)
event(s) == s \in Watched /\ events < MaxEvents /\ events' = events + 1

LiveJob(s) == job[s].st \in {"queued", "active"}

----------------------------------------------------------------------------
(* Decisions.                                                              *)

decide_begin(d, s) ==
    /\ reading[d] = None /\ ps[s].status = "pending"
    /\ reading' = [reading EXCEPT ![d] = s]
    /\ excused' = IF (\E e \in Deciders : reading[e] = s) \/ s \in sweep.stale
                  THEN excused \cup {s} ELSE excused
    /\ UNCHANGED <<retain, ps, job, exec, open, queue, sweep, held, events, everHeld>>

(* Mutant of check_roe_gate: only sessions that a Scout has taken count.   *)
check_roe_gate_Taken(s) ==
    Cardinality({t \in Sessions \ {s} : ps[t].status = "approved" /\ job[t].st = "active"}) < Limit

(* Under the lock on the Rules of Engagement, those approved since count.  *)
check_roe_gate(s) ==
    Cardinality({t \in Sessions \ {s} : ps[t].status = "approved" /\ job[t].st # "none"}) < Limit

(* dispatch_pentest_session: one active job of a network.  Refused, all of *)
(* the decision is rolled back.                                            *)
approve(d) ==
    LET s == reading[d] IN
    /\ s # None /\ reading' = [reading EXCEPT ![d] = None]
    /\ IF check_roe_gate(s) /\ ~LiveJob(s)
       THEN /\ ps' = [ps EXCEPT ![s].status = "approved", ![s].late = FALSE]
            /\ job' = [job EXCEPT ![s] = [st |-> "queued", attempt |-> 0]]
       ELSE UNCHANGED <<ps, job>>
    /\ UNCHANGED <<retain, exec, open, queue, sweep, held, events, history>>

reject(d) ==
    LET s == reading[d] IN
    /\ s # None /\ reading' = [reading EXCEPT ![d] = None]
    /\ ps' = [ps EXCEPT ![s].status = "rejected", ![s].ended = TRUE]
    /\ UNCHANGED <<retain, job, exec, open, queue, sweep, held, events, history>>

----------------------------------------------------------------------------
(* Evidence and the end of a session.                                      *)

(* _store_session_evidence: a legal hold wins.                             *)
store_evidence(s, p, given) ==
    IF s \in held THEN [p EXCEPT !.evidence = @ \/ given]
    ELSE IF (p.ended /\ p.aged) \/ ~retain
    THEN [p EXCEPT !.evidence = FALSE, !.artifact = FALSE]
    ELSE [p EXCEPT !.evidence = given]

(* Mutant of Closed: a report says that the teardown was done.             *)
Closed_Reported(p, how) ==
    CASE how = "never_ran" -> [p EXCEPT !.status = "terminated", !.completed = @ \/ p.required]
      [] ~p.required -> [p EXCEPT !.status = "completed"]
      [] how = "ran" -> [p EXCEPT !.status = "cleaned", !.completed = TRUE]
      [] how = "expired" -> [p EXCEPT !.status = IF p.completed THEN "completed" ELSE "cleanup_pending"]

Closed(p, how) ==
    CASE how = "never_ran" -> [p EXCEPT !.status = "terminated", !.completed = @ \/ p.required]
      [] ~p.required -> [p EXCEPT !.status = "completed"]
      [] how = "ran" -> [p EXCEPT !.status = IF p.verified THEN "cleaned" ELSE "cleanup_pending",
                                  !.completed = p.verified]
      [] how = "expired" -> [p EXCEPT !.status = IF p.completed THEN "completed" ELSE "cleanup_pending"]

(* The summary of a report stands in for evidence that never came.         *)
complete_session_for_job(s, how, summary) ==
    ps' = IF ps[s].status # "approved" THEN ps
          ELSE LET kept == IF ps[s].evidence THEN ps[s] ELSE store_evidence(s, ps[s], summary)
               IN  [ps EXCEPT ![s] = Closed([kept EXCEPT !.ended = TRUE], how)]

(* An operator may record the cleanup of any session.                      *)
record_cleanup(s, given) ==
    /\ event(s)
    /\ LET p == IF given THEN store_evidence(s, ps[s], TRUE) ELSE ps[s]
       IN  ps' = [ps EXCEPT ![s] =
                    IF p.status \in {"rejected", "expired"} THEN [p EXCEPT !.completed = TRUE]
                    ELSE [p EXCEPT !.completed = TRUE, !.status = "cleaned", !.ended = TRUE]]
    /\ excused' = excused \cup {s}
    /\ UNCHANGED <<retain, job, exec, open, queue, reading, sweep, held, everHeld>>

(* record_pentest_result, for an attempt that is the latest of its job:    *)
(* the artifact is stored first.  Others are refused.                      *)
record_pentest_result(s, r) ==
    LET p == store_evidence(s, [ps[s] EXCEPT !.artifact = TRUE], TRUE)
        q == [p EXCEPT !.verified = r.verified]
    IN  /\ r \in queue[s] /\ r.attempt = job[s].attempt
        /\ queue' = [queue EXCEPT ![s] = @ \ {r}]
        /\ ps' = [ps EXCEPT ![s] =
              IF r.verified /\ q.required /\ q.status = "cleanup_pending"
              THEN [q EXCEPT !.status = "cleaned", !.completed = TRUE] ELSE q]
        /\ UNCHANGED <<retain, job, exec, open, reading, sweep, held, events, history>>

(* Fenced, or its lease is over.                                           *)
result_refused(s, r) ==
    /\ r \in queue[s] /\ (r.attempt # job[s].attempt \/ job[s].st = "active")
    /\ queue' = [queue EXCEPT ![s] = @ \ {r}]
    /\ UNCHANGED <<retain, ps, job, exec, open, reading, sweep, held, events, history>>

----------------------------------------------------------------------------
(* The job and its Scout.                                                  *)

poll_next_job(s) ==
    /\ job[s].st = "queued" /\ job[s].attempt < MaxAttempts /\ exec[s] = Idle
    /\ job' = [job EXCEPT ![s].st = "active", ![s].attempt = @ + 1]
    /\ exec' = [exec EXCEPT ![s] = [attempt |-> job'[s].attempt, stage |-> "offered"]]
    /\ UNCHANGED <<retain, ps, open, queue, reading, sweep, held, events, history>>

(* The session is not told when a poll closes an overdue job, or when an   *)
(* operator cancels one that is queued.                                    *)
closed_by_poll(s) ==
    /\ event(s)
    /\ (LiveJob(s) /\ ps[s].late) \/ job[s].st = "queued"
    /\ job' = [job EXCEPT ![s].st = "ended"]
    /\ UNCHANGED <<retain, ps, exec, open, queue, reading, sweep, held, history>>

(* The lease of the attempt is over.                                       *)
reclaim(s) ==
    /\ event(s)
    /\ job[s].st = "active" /\ ~ps[s].late
    /\ job' = [job EXCEPT ![s].st = "queued"]
    /\ UNCHANGED <<retain, ps, exec, open, queue, reading, sweep, held, history>>

Current(s) == job[s].st = "active" /\ job[s].attempt = exec[s].attempt

(* The exploit has opened a session, unless it failed.                     *)
run_module(s) ==
    /\ exec[s].stage = "offered" /\ s \in Watched
    /\ exec' = [exec EXCEPT ![s].stage = "running"]
    /\ open' = [open EXCEPT ![s] = @ \cup {exec[s].attempt}] \/ UNCHANGED open
    /\ UNCHANGED <<retain, ps, job, queue, reading, sweep, held, events, history>>

(* teardown: verified only by the list of the console that ran it.  A run  *)
(* that failed or timed out, or for which the queue is full, has no result.*)
run_ends(s) ==
    LET a == exec[s].attempt IN
    /\ exec[s].stage = "running"
    /\ exec' = [exec EXCEPT ![s].stage = "over"]
    /\ \/ \E verified \in BOOLEAN :
             /\ queue' = [queue EXCEPT ![s] = @ \cup {[attempt |-> a, verified |-> verified]}]
             /\ \/ open' = [open EXCEPT ![s] = @ \ {a}]
                \/ ~verified /\ UNCHANGED open
       \/ UNCHANGED <<open, queue>>
    /\ UNCHANGED <<retain, ps, job, reading, sweep, held, events, history>>

crash(s) ==
    /\ event(s)
    /\ exec[s] # Idle /\ exec' = [exec EXCEPT ![s] = Idle]
    /\ UNCHANGED <<retain, ps, job, open, queue, reading, sweep, held, history>>

(* A report of another attempt, or of an ended job, changes nothing.       *)
report_job_status(s) ==
    /\ exec[s].stage \in {"offered", "over"}
    /\ exec' = [exec EXCEPT ![s] = Idle]
    /\ IF Current(s)
       THEN /\ job' = [job EXCEPT ![s].st = "ended"]
            /\ complete_session_for_job(s, IF exec[s].stage = "offered" THEN "never_ran" ELSE "ran", TRUE)
       ELSE UNCHANGED <<job, ps>>
    /\ UNCHANGED <<retain, open, queue, reading, sweep, held, events, history>>

reap_stale_jobs(s) ==
    /\ LiveJob(s) /\ ps[s].late
    /\ job' = [job EXCEPT ![s].st = "ended"]
    /\ complete_session_for_job(s, "expired", FALSE)
    /\ UNCHANGED <<retain, exec, open, queue, reading, sweep, held, events, history>>

----------------------------------------------------------------------------
(* Time, legal holds and the sweep.                                        *)

time_passes(s) ==
    /\ event(s)
    /\ ps' = [ps EXCEPT ![s] =
          IF @.ended THEN [@ EXCEPT !.aged = TRUE] ELSE [@ EXCEPT !.late = TRUE]]
    /\ ps' # ps
    /\ UNCHANGED <<retain, job, exec, open, queue, reading, sweep, held, history>>

place_hold(s) ==
    /\ event(s)
    /\ job[s].st # "none" /\ s \notin everHeld
    /\ held' = held \cup {s} /\ everHeld' = everHeld \cup {s}
    /\ UNCHANGED <<retain, ps, job, exec, open, queue, reading, sweep, excused>>

release_hold(s) ==
    /\ event(s)
    /\ s \in held /\ held' = held \ {s}
    /\ UNCHANGED <<retain, ps, job, exec, open, queue, reading, sweep, history>>

(* Mutant of Due: the holds are not looked at.                             *)
Due_Held == {s \in Sessions : ps[s].ended /\ ps[s].aged}

(* purge_expired_evidence.                                                 *)
Due == {s \in Sessions : ps[s].ended /\ ps[s].aged} \ held

Overdue == {s \in Sessions : ps[s].status = "approved" /\ ps[s].late}

sweep_begin ==
    /\ ~sweep.on
    /\ sweep' = [on |-> TRUE, active |-> Overdue,
                 closing |-> {s \in Overdue : ~ps[s].required \/ ps[s].completed},
                 stale |-> {s \in Sessions : ps[s].status = "pending" /\ ps[s].late},
                 due |-> Due, had |-> {s \in Due : ps[s].evidence},
                 held |-> held]
    /\ excused' = excused \cup {s \in sweep'.stale : \E d \in Deciders : reading[d] = s}
    /\ UNCHANGED <<retain, ps, job, exec, open, queue, reading, held, events, everHeld>>

(* terminate_expired_sessions and purge_expired_evidence.                  *)
sweep_end ==
    /\ sweep.on /\ sweep' = NoSweep
    /\ ps' = [s \in Sessions |->
          IF s \in sweep.active
          THEN [ps[s] EXCEPT !.ended = TRUE,
                   !.status = IF s \in sweep.closing THEN "terminated" ELSE "cleanup_pending"]
          ELSE IF s \in sweep.stale THEN [ps[s] EXCEPT !.ended = TRUE, !.status = "expired"]
          ELSE IF s \in sweep.due
          THEN [ps[s] EXCEPT !.artifact = FALSE, !.evidence = IF s \in sweep.had THEN FALSE ELSE @]
          ELSE ps[s]]
    /\ UNCHANGED <<retain, job, exec, open, queue, reading, held, events, history>>

----------------------------------------------------------------------------
Next ==
    \/ \E d \in Deciders : approve(d) \/ reject(d) \/ \E s \in Sessions : decide_begin(d, s)
    \/ \E s \in Sessions :
          \/ \E given \in BOOLEAN : record_cleanup(s, given)
          \/ \E r \in queue[s] : record_pentest_result(s, r) \/ result_refused(s, r)
          \/ poll_next_job(s) \/ closed_by_poll(s) \/ reclaim(s)
          \/ run_module(s) \/ run_ends(s) \/ crash(s)
          \/ report_job_status(s) \/ reap_stale_jobs(s)
          \/ time_passes(s) \/ place_hold(s) \/ release_hold(s)
    \/ sweep_begin \/ sweep_end

Spec == Init /\ [][Next]_vars

Symmetry == Permutations(Deciders)

----------------------------------------------------------------------------
(* The jobs of a Rules of Engagement stay within max_concurrent_sessions,  *)
(* however approvals overlap and Scouts come back; sessions that an        *)
(* operator closed or that were decided twice at a time, and those past    *)
(* their time, are not counted.                                            *)
JobsWithinLimit ==
    Cardinality({s \in Sessions \ excused : LiveJob(s) /\ ~ps[s].late}) <= Limit

(* A session is cleaned by no one but an operator while the exploit of its *)
(* only attempt is live: reports, results and timeouts in any order.       *)
CleanedIsTornDown ==
    \A s \in Sessions \ excused :
        ps[s].status = "cleaned" /\ job[s].attempt = 1 => open[s] = {}

(* "retain_evidence=false keeps nothing", whichever path the evidence came *)
(* by; evidence that was once under a legal hold is another matter.        *)
EvidenceByPolicy ==
    \A s \in Sessions \ everHeld : ~retain => ~ps[s].evidence /\ ~ps[s].artifact

(* "A legal hold overrides all deletion": what is held goes away only in a *)
(* purge that had read the holds before it was placed.                     *)
HeldEvidenceKept ==
    \A s \in held : ps[s].evidence /\ ~ps'[s].evidence => s \in sweep.due \ sweep.held

(* Evidence goes and stays by policy and holds, and by nothing else.       *)
EvidenceByRule == [][EvidenceByPolicy' /\ HeldEvidenceKept]_vars
=============================================================================
