-------------------------- MODULE BackgroundTasks --------------------------
(***************************************************************************)
(* The durable task queue of the dashboard: services/background_tasks.py   *)
(* (the queue primitives), tasks/runner.py (worker and scheduler           *)
(* processes) and the two administrator endpoints of api/v1/tasks.py.      *)
(*                                                                         *)
(* A row of background_tasks is identified by its idempotency key.  Every  *)
(* statement that takes FOR UPDATE and every transaction that holds such a *)
(* lock until its commit is one step.  Where the code reads a row WITHOUT  *)
(* a lock and writes it later (renew_lease, the two failure paths of       *)
(* run_worker_once and its cancellation path) the read and the write are   *)
(* separate steps, and the write uses what the read saw.                   *)
(*                                                                         *)
(* Time is abstracted to what the queue tells apart: a lease that is NULL, *)
(* still running or expired, and a scheduled_at that has or has not been   *)
(* reached.  LeaseExpires and BecomesDue are the passing of time.          *)
(* FOR UPDATE SKIP LOCKED may pass over any row that some session holds,   *)
(* so a claim takes any due row and the priority order is not modelled.    *)
(***************************************************************************)
EXTENDS Naturals, FiniteSets

CONSTANTS
    Tasks,              \* idempotency keys
    Workers,            \* worker processes
    Batches,            \* sets of keys the scheduler enqueues in one tick
    BackpressureLimit,  \* settings.background_task_backpressure_limit
    MaxAttempts,        \* settings.background_task_max_attempts
    MaxClaims,          \* bound on the claims of one task
    NoWorker,           \* lease_owner IS NULL
    NoTask              \* a worker that holds no task

ASSUME TaskConstants ==
    /\ MaxAttempts \in Nat \ {0}
    /\ MaxClaims \in Nat
    /\ BackpressureLimit \in Nat
    /\ Batches \subseteq SUBSET Tasks
    /\ NoWorker \notin Workers
    /\ NoTask \notin Tasks

CLAIMABLE == {"queued", "retry"}

TERMINAL == {"completed", "cancelled", "dead_letter"}

Status == CLAIMABLE \cup TERMINAL \cup {"absent", "running"}

VARIABLES
    status,     \* status of every row; "absent" before its INSERT
    attempts,   \* attempts
    maxAtt,     \* max_attempts
    owner,      \* lease_owner
    lease,      \* lease_expires_at: "null", "live" or "expired"
    due,        \* scheduled_at <= now
    cancel,     \* cancel_requested_at IS NOT NULL
    pc,         \* where each worker is in run_worker_once
    cur,        \* the task each worker claimed
    snap,       \* what each worker's unlocked session.get saw
    beat,       \* each worker's _lease_heartbeat coroutine
    commits     \* history: how often a task's handler writes were committed

row == <<status, attempts, maxAtt, owner, lease, due, cancel>>
worker == <<pc, cur, snap, beat>>
vars == <<row, worker, commits>>

(***************************************************************************)
(* What fail_task will do is decided by the attempts, max_attempts and     *)
(* cancel_requested_at of the object it is given.                          *)
(***************************************************************************)
FailOutcome(att, max, cancelled) ==
    IF cancelled THEN "cancelled" ELSE IF att >= max THEN "dead_letter" ELSE "retry"

TypeOK ==
    /\ status \in [Tasks -> Status]
    /\ attempts \in [Tasks -> Nat]
    /\ maxAtt \in [Tasks -> Nat]
    /\ owner \in [Tasks -> Workers \cup {NoWorker}]
    /\ lease \in [Tasks -> {"null", "live", "expired"}]
    /\ due \in [Tasks -> BOOLEAN]
    /\ cancel \in [Tasks -> BOOLEAN]
    /\ pc \in [Workers -> {"idle", "handler", "failPut", "cancelGet", "cancelPut", "drain"}]
    /\ cur \in [Workers -> Tasks \cup {NoTask}]
    /\ snap \in [Workers -> {"cancelled", "dead_letter", "retry"}]
    /\ beat \in [Workers -> {"off", "on", "renew"}]
    /\ commits \in [Tasks -> Nat]
    /\ \A w \in Workers : pc[w] # "idle" => cur[w] \in Tasks

Init ==
    /\ status = [t \in Tasks |-> "absent"]
    /\ attempts = [t \in Tasks |-> 0]
    /\ maxAtt = [t \in Tasks |-> MaxAttempts]
    /\ owner = [t \in Tasks |-> NoWorker]
    /\ lease = [t \in Tasks |-> "null"]
    /\ due = [t \in Tasks |-> TRUE]
    /\ cancel = [t \in Tasks |-> FALSE]
    /\ pc = [w \in Workers |-> "idle"]
    /\ cur = [w \in Workers |-> NoTask]
    /\ snap = [w \in Workers |-> "retry"]
    /\ beat = [w \in Workers |-> "off"]
    /\ commits = [t \in Tasks |-> 0]

----------------------------------------------------------------------------
(* Producers.                                                              *)

(***************************************************************************)
(* enqueue_task from an API request (feeds, reports, connectors): a key    *)
(* that already has a row, also one that another session inserted in the   *)
(* meantime, returns that row and inserts nothing.                         *)
(***************************************************************************)
enqueue_task(t) ==
    /\ status[t] = "absent"
    /\ status' = [status EXCEPT ![t] = "queued"]
    /\ UNCHANGED <<attempts, maxAtt, owner, lease, due, cancel, worker, commits>>

queue_depth == Cardinality({t \in Tasks : status[t] \in {"queued", "retry", "running"}})

(***************************************************************************)
(* run_scheduler_once by the replica that holds the advisory lock: one     *)
(* transaction, so replicas never interleave inside it.  The keys of a     *)
(* tick that exist already are left alone.                                 *)
(***************************************************************************)
run_scheduler_once(b) ==
    /\ queue_depth < BackpressureLimit
    /\ \E t \in b : status[t] = "absent"
    /\ status' = [t \in Tasks |-> IF t \in b /\ status[t] = "absent" THEN "queued" ELSE status[t]]
    /\ UNCHANGED <<attempts, maxAtt, owner, lease, due, cancel, worker, commits>>

----------------------------------------------------------------------------
(* Workers.                                                                *)

(* Mutant of Claimable: expired leases are not recovered. *)
Claimable_NoRecovery(t) == status[t] \in CLAIMABLE /\ due[t]

Claimable(t) ==
    \/ status[t] \in CLAIMABLE /\ due[t]
    \/ status[t] = "running" /\ lease[t] = "expired"

(***************************************************************************)
(* claim_next_task, committed by run_worker_once before the handler runs.  *)
(* A row whose cancellation was requested is closed instead of claimed and *)
(* the worker goes on polling.                                             *)
(***************************************************************************)
claim_cancelled(w, t) ==
    /\ pc[w] = "idle"
    /\ Claimable(t)
    /\ cancel[t]
    /\ status' = [status EXCEPT ![t] = "cancelled"]
    /\ owner' = [owner EXCEPT ![t] = NoWorker]
    /\ lease' = [lease EXCEPT ![t] = "null"]
    /\ UNCHANGED <<attempts, maxAtt, due, cancel, worker, commits>>

claim_next_task(w, t) ==
    /\ pc[w] = "idle"
    /\ Claimable(t)
    /\ ~cancel[t]
    /\ attempts[t] < MaxClaims
    /\ status' = [status EXCEPT ![t] = "running"]
    /\ attempts' = [attempts EXCEPT ![t] = @ + 1]
    /\ owner' = [owner EXCEPT ![t] = w]
    /\ lease' = [lease EXCEPT ![t] = "live"]
    /\ pc' = [pc EXCEPT ![w] = "handler"]
    /\ cur' = [cur EXCEPT ![w] = t]
    /\ beat' = [beat EXCEPT ![w] = "on"]
    /\ UNCHANGED <<maxAtt, due, cancel, snap, commits>>

(* The runner's test that this worker still leases its task. *)
Holds(w) == status[cur[w]] = "running" /\ owner[cur[w]] = w

(***************************************************************************)
(* _lease_heartbeat: renew_lease selects the row without a lock, and the   *)
(* UPDATE of lease_expires_at follows in a later statement.                *)
(***************************************************************************)
renew_lease_get(w) ==
    /\ beat[w] = "on"
    /\ beat' = [beat EXCEPT ![w] = IF Holds(w) THEN "renew" ELSE "off"]
    /\ UNCHANGED <<row, pc, cur, snap, commits>>

renew_lease_put(w) ==
    /\ beat[w] = "renew"
    /\ beat' = [beat EXCEPT ![w] = "on"]
    /\ lease' = [lease EXCEPT ![cur[w]] = "live"]
    /\ UNCHANGED <<status, attempts, maxAtt, owner, due, cancel, pc, cur, snap, commits>>

(* The columns fail_task and complete_task write when they close a lease. *)
Release(t, outcome) ==
    /\ status' = [status EXCEPT ![t] = outcome]
    /\ owner' = [owner EXCEPT ![t] = NoWorker]
    /\ lease' = [lease EXCEPT ![t] = "null"]
    /\ due' = [due EXCEPT ![t] = IF outcome = "retry" THEN FALSE ELSE @]

(* Mutant of finish_completed: the lease is not checked again. *)
finish_completed_Unfenced(w) ==
    /\ pc[w] = "handler"
    /\ ~cancel[cur[w]]
    /\ Release(cur[w], "completed")
    /\ commits' = [commits EXCEPT ![cur[w]] = @ + 1]
    /\ pc' = [pc EXCEPT ![w] = "drain"]
    /\ UNCHANGED <<attempts, maxAtt, cancel, cur, snap, beat>>

(***************************************************************************)
(* The handler returned.  The runner re-reads the row under a lock, so     *)
(* that the decision is made on the committed lease and cancellation; the  *)
(* handler's own writes are committed together with COMPLETED, and rolled  *)
(* back when the lease was lost.                                           *)
(***************************************************************************)
finish_completed(w) ==
    /\ pc[w] = "handler"
    /\ Holds(w)
    /\ ~cancel[cur[w]]
    /\ Release(cur[w], "completed")
    /\ commits' = [commits EXCEPT ![cur[w]] = @ + 1]
    /\ pc' = [pc EXCEPT ![w] = "drain"]
    /\ UNCHANGED <<attempts, maxAtt, cancel, cur, snap, beat>>

finish_lease_lost(w) ==
    /\ pc[w] = "handler"
    /\ ~Holds(w)
    /\ pc' = [pc EXCEPT ![w] = "drain"]
    /\ UNCHANGED <<row, cur, snap, beat, commits>>

(* Cancelled meanwhile: roll back, which drops the lock, and look again. *)
finish_cancel_seen(w) ==
    /\ pc[w] = "handler"
    /\ Holds(w)
    /\ cancel[cur[w]]
    /\ pc' = [pc EXCEPT ![w] = "cancelGet"]
    /\ UNCHANGED <<row, cur, snap, beat, commits>>

cancel_get(w) ==
    /\ pc[w] = "cancelGet"
    /\ pc' = [pc EXCEPT ![w] = IF Holds(w) /\ cancel[cur[w]] THEN "cancelPut" ELSE "drain"]
    /\ UNCHANGED <<row, cur, snap, beat, commits>>

cancel_put(w) ==
    /\ pc[w] = "cancelPut"
    /\ Release(cur[w], "cancelled")
    /\ pc' = [pc EXCEPT ![w] = "drain"]
    /\ UNCHANGED <<attempts, maxAtt, cancel, cur, snap, beat, commits>>

(***************************************************************************)
(* The handler raised PersistedTaskFailure: fail_task under the row lock,  *)
(* committed together with the failure history the handler wrote.          *)
(***************************************************************************)
persisted_failure(w) ==
    /\ pc[w] = "handler"
    /\ Holds(w)
    /\ Release(cur[w], FailOutcome(attempts[cur[w]], maxAtt[cur[w]], cancel[cur[w]]))
    /\ commits' = [commits EXCEPT ![cur[w]] = @ + 1]
    /\ pc' = [pc EXCEPT ![w] = "drain"]
    /\ UNCHANGED <<attempts, maxAtt, cancel, cur, snap, beat>>

(***************************************************************************)
(* The handler raised anything else, or the worker is shutting down        *)
(* (CancelledError): roll back, session.get without a lock, and fail_task  *)
(* on the object that read returned.                                       *)
(***************************************************************************)
failure_get(w) ==
    /\ pc[w] = "handler"
    /\ Holds(w)
    /\ snap' = [snap EXCEPT ![w] = FailOutcome(attempts[cur[w]], maxAtt[cur[w]], cancel[cur[w]])]
    /\ pc' = [pc EXCEPT ![w] = "failPut"]
    /\ UNCHANGED <<row, cur, beat, commits>>

failure_put(w) ==
    /\ pc[w] = "failPut"
    /\ Release(cur[w], snap[w])
    /\ pc' = [pc EXCEPT ![w] = "drain"]
    /\ UNCHANGED <<attempts, maxAtt, cancel, cur, snap, beat, commits>>

(* finally: stop the heartbeat and wait for the iteration it is in. *)
drain(w) ==
    /\ pc[w] = "drain"
    /\ beat[w] # "renew"
    /\ pc' = [pc EXCEPT ![w] = "idle"]
    /\ cur' = [cur EXCEPT ![w] = NoTask]
    /\ beat' = [beat EXCEPT ![w] = "off"]
    /\ UNCHANGED <<row, snap, commits>>

(* The process dies and is started again; what it had not committed is lost. *)
crash(w) ==
    /\ pc[w] # "idle"
    /\ pc' = [pc EXCEPT ![w] = "idle"]
    /\ cur' = [cur EXCEPT ![w] = NoTask]
    /\ beat' = [beat EXCEPT ![w] = "off"]
    /\ UNCHANGED <<row, snap, commits>>

----------------------------------------------------------------------------
(* Administrators: both endpoints lock the row.                            *)

request_cancellation(t) ==
    /\ status[t] \notin TERMINAL \cup {"absent"}
    /\ cancel' = [cancel EXCEPT ![t] = TRUE]
    /\ IF status[t] \in CLAIMABLE
       THEN /\ status' = [status EXCEPT ![t] = "cancelled"]
            /\ owner' = [owner EXCEPT ![t] = NoWorker]
            /\ lease' = [lease EXCEPT ![t] = "null"]
       ELSE UNCHANGED <<status, owner, lease>>
    /\ UNCHANGED <<attempts, maxAtt, due, worker, commits>>

retry_task(t) ==
    /\ status[t] \in {"dead_letter", "cancelled"}
    /\ status' = [status EXCEPT ![t] = "queued"]
    /\ due' = [due EXCEPT ![t] = TRUE]
    /\ maxAtt' = [maxAtt EXCEPT ![t] = IF attempts[t] >= @ THEN attempts[t] + 1 ELSE @]
    /\ cancel' = [cancel EXCEPT ![t] = FALSE]
    /\ owner' = [owner EXCEPT ![t] = NoWorker]
    /\ lease' = [lease EXCEPT ![t] = "null"]
    /\ UNCHANGED <<attempts, worker, commits>>

----------------------------------------------------------------------------
(* The passing of time.                                                    *)

LeaseExpires(t) ==
    /\ lease[t] = "live"
    /\ lease' = [lease EXCEPT ![t] = "expired"]
    /\ UNCHANGED <<status, attempts, maxAtt, owner, due, cancel, worker, commits>>

BecomesDue(t) ==
    /\ ~due[t]
    /\ due' = [due EXCEPT ![t] = TRUE]
    /\ UNCHANGED <<status, attempts, maxAtt, owner, lease, cancel, worker, commits>>

----------------------------------------------------------------------------
Produce ==
    \/ \E t \in Tasks : enqueue_task(t)
    \/ \E b \in Batches : run_scheduler_once(b)

Claim(w) == \E t \in Tasks : claim_cancelled(w, t) \/ claim_next_task(w, t)

Heartbeat(w) == renew_lease_get(w) \/ renew_lease_put(w)

(* What a worker that keeps running does after its handler has ended. *)
Finish(w) ==
    \/ finish_completed(w) \/ finish_lease_lost(w) \/ finish_cancel_seen(w)
    \/ cancel_get(w) \/ cancel_put(w)
    \/ persisted_failure(w) \/ failure_get(w) \/ failure_put(w)
    \/ drain(w)

Administer == \E t \in Tasks : request_cancellation(t) \/ retry_task(t)

Time(t) == LeaseExpires(t) \/ BecomesDue(t)

Next ==
    \/ Produce
    \/ \E w \in Workers : Claim(w) \/ Heartbeat(w) \/ Finish(w) \/ crash(w)
    \/ Administer
    \/ \E t \in Tasks : Time(t)

Spec == Init /\ [][Next]_vars

(***************************************************************************)
(* Handlers end, workers poll forever (worker_loop), and time passes.      *)
(* Nothing obliges administrators or producers to act, or workers to       *)
(* crash.                                                                  *)
(***************************************************************************)
Fairness ==
    /\ \A w \in Workers : WF_vars(Heartbeat(w)) /\ WF_vars(Finish(w)) /\ WF_vars(Claim(w))
    /\ \A t \in Tasks : WF_vars(LeaseExpires(t)) /\ WF_vars(BecomesDue(t))

FairSpec == Spec /\ Fairness

----------------------------------------------------------------------------
(***************************************************************************)
(* A running row always names its owner and carries a lease expiry.  The   *)
(* recovery clause of claim_next_task is lease_expires_at <= now, which is *)
(* never true of NULL: a running row without an expiry would be lost for   *)
(* ever, whichever of the unfenced writers produced it.                    *)
(***************************************************************************)
RunningIsRecoverable ==
    \A t \in Tasks : status[t] = "running" => owner[t] \in Workers /\ lease[t] # "null"

(***************************************************************************)
(* A cancellation that was accepted wins over completion: no row is        *)
(* COMPLETED with a cancellation request on it, whenever the request       *)
(* arrived during the handler and whoever owned the lease then.            *)
(***************************************************************************)
CancellationWins == \A t \in Tasks : status[t] = "completed" => ~cancel[t]

(***************************************************************************)
(* Handler writes are committed only by the worker that owns the lease at  *)
(* that moment, never by one whose task was reclaimed while it ran.        *)
(***************************************************************************)
FencedCommit ==
    \A t \in Tasks : commits'[t] # commits[t] =>
        /\ status[t] = "running"
        /\ cur[owner[t]] = t
        /\ pc'[owner[t]] = "drain"

CommitsAreFenced == [][FencedCommit]_vars

(***************************************************************************)
(* The only way out of COMPLETED is a write that follows an unlocked read: *)
(* no operation that locks the row reopens finished work.                  *)
(***************************************************************************)
StaleReopening ==
    \A t \in Tasks : status[t] = "completed" /\ status'[t] # "completed" =>
        \E w \in Workers : cur[w] = t /\ pc[w] \in {"failPut", "cancelPut"}

ReopenedOnlyByStaleWrite == [][StaleReopening]_vars

(***************************************************************************)
(* No task is lost: one that was enqueued reaches a terminal state unless  *)
(* its claims reach the bound of the model.                                *)
(***************************************************************************)
TaskSettles ==
    \A t \in Tasks : status[t] # "absent" ~> (status[t] \in TERMINAL \/ attempts[t] = MaxClaims)

============================================================================
