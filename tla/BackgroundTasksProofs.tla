----------------------- MODULE BackgroundTasksProofs -----------------------
(***************************************************************************)
(* The safety of the durable task queue for any number of tasks, workers   *)
(* and attempts, of two of the handlers it runs (the dispatch of           *)
(* notifications and the reports with their retention) and of the export,  *)
(* each with an invariant of its own (below).  IInv is inductive:          *)
(* RunningIsRecoverable needs the types (what a stale failure may write),  *)
(* and CancellationWins needs nothing but the fence of finish_completed    *)
(* and the refusal of request_cancellation to touch a terminal row.        *)
(***************************************************************************)
EXTENDS MCBackgroundTasks, TLAPS

IInv == TypeOK /\ RunningIsRecoverable /\ CancellationWins

(* An empty table satisfies the invariant. *)
LEMMA InitIInv == Init => IInv
  BY TaskConstants DEF Init, IInv, TypeOK, RunningIsRecoverable, CancellationWins, Status,
     CLAIMABLE, TERMINAL

(* Every action keeps the types. *)
LEMMA TypeStep ==
  ASSUME TypeOK, [Next]_vars
  PROVE  TypeOK'
<1> USE TaskConstants DEF TypeOK, Status, CLAIMABLE, TERMINAL, row, worker
<1>1. ASSUME NEW t \in Tasks, enqueue_task(t) PROVE TypeOK'
  BY <1>1 DEF enqueue_task
<1>2. ASSUME NEW b \in Batches, run_scheduler_once(b) PROVE TypeOK'
  BY <1>2 DEF run_scheduler_once
<1>3. ASSUME NEW w \in Workers, NEW t \in Tasks, claim_cancelled(w, t) PROVE TypeOK'
  BY <1>3 DEF claim_cancelled
<1>4. ASSUME NEW w \in Workers, NEW t \in Tasks, claim_next_task(w, t) PROVE TypeOK'
  BY <1>4 DEF claim_next_task
<1>5. ASSUME NEW w \in Workers, Heartbeat(w) PROVE TypeOK'
  BY <1>5 DEF Heartbeat, renew_lease_get, renew_lease_put
<1>6. ASSUME NEW w \in Workers, Finish(w) PROVE TypeOK'
  <2>1. CASE finish_completed(w)
    BY <2>1 DEF finish_completed, Release
  <2>2. CASE finish_lease_lost(w) \/ finish_cancel_seen(w) \/ cancel_get(w) \/ drain(w)
    BY <2>2 DEF finish_lease_lost, finish_cancel_seen, cancel_get, drain
  <2>3. CASE cancel_put(w)
    BY <2>3 DEF cancel_put, Release
  <2>6. CASE failure_put(w)
    BY <2>6 DEF failure_put, Release
  <2>4. CASE persisted_failure(w)
    <3>1. FailOutcome(attempts[cur[w]], maxAtt[cur[w]], cancel[cur[w]]) \in {"cancelled", "dead_letter", "retry"}
      BY DEF FailOutcome
    <3>2. cur[w] \in Tasks /\ commits' \in [Tasks -> Nat]
      BY <2>4 DEF persisted_failure
    <3>3. status' \in [Tasks -> Status] /\ lease' \in [Tasks -> {"null", "live", "expired"}]
          /\ owner' \in [Tasks -> Workers \cup {NoWorker}] /\ due' \in [Tasks -> BOOLEAN]
      BY <2>4, <3>1 DEF persisted_failure, Release
    <3> QED BY <2>4, <3>2, <3>3 DEF persisted_failure
  <2>5. CASE failure_get(w)
    BY <2>5 DEF failure_get, FailOutcome
  <2> QED BY <1>6, <2>1, <2>2, <2>3, <2>4, <2>5, <2>6 DEF Finish
<1>7. ASSUME NEW w \in Workers, crash(w) PROVE TypeOK'
  BY <1>7 DEF crash
<1>8. ASSUME NEW t \in Tasks, request_cancellation(t) PROVE TypeOK'
  BY <1>8 DEF request_cancellation
<1>9. ASSUME NEW t \in Tasks, retry_task(t) PROVE TypeOK'
  <2>1. maxAtt' \in [Tasks -> Nat]
    BY <1>9 DEF retry_task
  <2>2. cancel' \in [Tasks -> BOOLEAN] /\ due' \in [Tasks -> BOOLEAN]
    BY <1>9 DEF retry_task
  <2> QED BY <1>9, <2>1, <2>2 DEF retry_task
<1>10. ASSUME NEW t \in Tasks, Time(t) PROVE TypeOK'
  <2>1. CASE LeaseExpires(t)
    BY <2>1 DEF LeaseExpires
  <2>2. CASE BecomesDue(t)
    BY <2>2 DEF BecomesDue
  <2> QED BY <1>10, <2>1, <2>2 DEF Time
<1>11. CASE UNCHANGED vars
  BY <1>11 DEF vars
<1> QED
  BY <1>1, <1>2, <1>3, <1>4, <1>5, <1>6, <1>7, <1>8, <1>9, <1>10, <1>11
     DEF Next, Produce, Claim, Administer

(* Every action keeps the two safety invariants, given the types. *)
LEMMA SafetyStep ==
  ASSUME IInv, [Next]_vars
  PROVE  (RunningIsRecoverable /\ CancellationWins)'
<1> DEFINE Safe == RunningIsRecoverable /\ CancellationWins
<1> USE TaskConstants DEF IInv, TypeOK, RunningIsRecoverable, CancellationWins, Status,
        CLAIMABLE, TERMINAL, row, worker
<1>1. ASSUME NEW t \in Tasks, enqueue_task(t) PROVE Safe'
  BY <1>1 DEF enqueue_task
<1>2. ASSUME NEW b \in Batches, run_scheduler_once(b) PROVE Safe'
  BY <1>2 DEF run_scheduler_once
<1>3. ASSUME NEW w \in Workers, NEW t \in Tasks, claim_cancelled(w, t) PROVE Safe'
  BY <1>3 DEF claim_cancelled
<1>4. ASSUME NEW w \in Workers, NEW t \in Tasks, claim_next_task(w, t) PROVE Safe'
  BY <1>4 DEF claim_next_task
<1>5. ASSUME NEW w \in Workers, Heartbeat(w) PROVE Safe'
  BY <1>5 DEF Heartbeat, renew_lease_get, renew_lease_put
<1>6. ASSUME NEW w \in Workers, Finish(w) PROVE Safe'
  <2>1. CASE finish_completed(w)
    BY <2>1 DEF finish_completed, Release
  <2>2. CASE finish_lease_lost(w) \/ finish_cancel_seen(w) \/ cancel_get(w) \/ drain(w)
    BY <2>2 DEF finish_lease_lost, finish_cancel_seen, cancel_get, drain
  <2>3. CASE cancel_put(w)
    BY <2>3 DEF cancel_put, Release
  <2>6. CASE failure_put(w)
    BY <2>6 DEF failure_put, Release
  <2>4. CASE persisted_failure(w)
    BY <2>4 DEF persisted_failure, Release, FailOutcome
  <2>5. CASE failure_get(w)
    BY <2>5 DEF failure_get
  <2> QED BY <1>6, <2>1, <2>2, <2>3, <2>4, <2>5, <2>6 DEF Finish
<1>7. ASSUME NEW w \in Workers, crash(w) PROVE Safe'
  BY <1>7 DEF crash
<1>8. ASSUME NEW t \in Tasks, request_cancellation(t) PROVE Safe'
  BY <1>8 DEF request_cancellation
<1>9. ASSUME NEW t \in Tasks, retry_task(t) PROVE Safe'
  BY <1>9 DEF retry_task
<1>10. ASSUME NEW t \in Tasks, Time(t) PROVE Safe'
  BY <1>10 DEF Time, LeaseExpires, BecomesDue
<1>11. CASE UNCHANGED vars
  BY <1>11 DEF vars
<1> QED
  BY <1>1, <1>2, <1>3, <1>4, <1>5, <1>6, <1>7, <1>8, <1>9, <1>10, <1>11
     DEF Next, Produce, Claim, Administer

(* The inductive invariant holds in every reachable state. *)
THEOREM Invariance == Spec => []IInv
<1>1. IInv /\ [Next]_vars => IInv'
  BY TypeStep, SafetyStep DEF IInv
<1> QED BY InitIInv, <1>1, PTL DEF Spec

(***************************************************************************)
(* In every reachable state of the queue the columns are well typed.       *)
(***************************************************************************)
THEOREM TasksTypeCorrect == Spec => []TypeOK
  BY Invariance, PTL DEF IInv

(***************************************************************************)
(* No running row can be lost: it always has an owner and an expiry, with  *)
(* stale failures, stale renewals and crashes in any order.                *)
(***************************************************************************)
THEOREM TasksRecoverable == Spec => []RunningIsRecoverable
  BY Invariance, PTL DEF IInv

(***************************************************************************)
(* An accepted cancellation always wins over completion.                   *)
(***************************************************************************)
THEOREM TasksCancellationWins == Spec => []CancellationWins
  BY Invariance, PTL DEF IInv

(***************************************************************************)
(* Only the owner of the lease ever commits handler writes.                *)
(***************************************************************************)
THEOREM TasksCommitsAreFenced == Spec => CommitsAreFenced
<1>1. ASSUME TypeOK, Next PROVE FencedCommit
  <2>1. CASE \E w \in Workers : finish_completed(w) \/ persisted_failure(w)
    <3>1. PICK w \in Workers : finish_completed(w) \/ persisted_failure(w)
      BY <2>1
    <3>2. cur[w] \in Tasks /\ Holds(w) /\ pc'[w] = "drain"
      BY <1>1, <3>1 DEF finish_completed, persisted_failure, TypeOK
    <3>3. \A t \in Tasks : t # cur[w] => commits'[t] = commits[t]
      BY <1>1, <3>1, <3>2 DEF finish_completed, persisted_failure, TypeOK
    <3> QED BY <3>2, <3>3 DEF Holds, FencedCommit
  <2>2. CASE ~ \E w \in Workers : finish_completed(w) \/ persisted_failure(w)
    <3>1. UNCHANGED commits
      BY <1>1, <2>2 DEF Next, Produce, Claim, Heartbeat, Finish, Administer, Time, enqueue_task,
         run_scheduler_once, claim_cancelled, claim_next_task, renew_lease_get, renew_lease_put,
         finish_lease_lost, finish_cancel_seen, cancel_get, cancel_put, failure_get, failure_put, drain, crash, request_cancellation, retry_task, LeaseExpires,
         BecomesDue
    <3> QED BY <3>1 DEF FencedCommit
  <2> QED BY <2>1, <2>2
<1>2. TypeOK /\ [Next]_vars => [FencedCommit]_vars
  BY <1>1
<1> QED BY TasksTypeCorrect, <1>2, PTL DEF Spec, CommitsAreFenced

(***************************************************************************)
(* Finished work is reopened by a stale failure or cancellation write and  *)
(* by nothing else: closing those two windows would make COMPLETED final.  *)
(***************************************************************************)
THEOREM TasksReopenedOnlyByStaleWrite == Spec => ReopenedOnlyByStaleWrite
<1>1. ASSUME TypeOK, Next PROVE StaleReopening
  <2> SUFFICES ASSUME NEW t \in Tasks, status[t] = "completed", status'[t] # "completed"
               PROVE  \E w \in Workers : cur[w] = t /\ pc[w] \in {"failPut", "cancelPut"}
    BY DEF StaleReopening
  <2> USE <1>1 DEF TypeOK, CLAIMABLE, TERMINAL
  <2>1. CASE Produce
    BY <2>1 DEF Produce, enqueue_task, run_scheduler_once
  <2>2. ASSUME NEW w \in Workers, Claim(w) PROVE FALSE
    BY <2>2 DEF Claim, claim_cancelled, claim_next_task, Claimable
  <2>3. ASSUME NEW w \in Workers, Heartbeat(w) \/ crash(w) PROVE FALSE
    BY <2>3 DEF Heartbeat, renew_lease_get, renew_lease_put, crash, row
  <2>4. ASSUME NEW w \in Workers, Finish(w) PROVE cur[w] = t /\ pc[w] \in {"failPut", "cancelPut"}
    BY <2>4 DEF Finish, finish_completed, finish_lease_lost, finish_cancel_seen, cancel_get,
       cancel_put, persisted_failure, failure_get, failure_put, drain, Release, Holds, row
  <2>5. CASE Administer
    BY <2>5 DEF Administer, request_cancellation, retry_task
  <2>6. ASSUME NEW u \in Tasks, Time(u) PROVE FALSE
    BY <2>6 DEF Time, LeaseExpires, BecomesDue
  <2> QED BY <2>1, <2>2, <2>3, <2>4, <2>5, <2>6 DEF Next
<1>2. TypeOK /\ [Next]_vars => [StaleReopening]_vars
  BY <1>1
<1> QED BY TasksTypeCorrect, <1>2, PTL DEF Spec, ReopenedOnlyByStaleWrite

(***************************************************************************)
(* Notifications.  The ids of the rows are never used twice, and a         *)
(* dispatcher's copy of a row is of the same event (Numbered).  What is    *)
(* news and was not missed has a row that is not sent and that nobody is   *)
(* about to record as sent (Told): whoever has sent a row has told its     *)
(* event, and an event that comes after that is one that was missed.       *)
(***************************************************************************)
Open == {"pending", "delayed", "failed"}

Numbered ==
    /\ made \in Nat
    /\ \A d \in deliveries : d = [id |-> d.id, event |-> d.event, attempts |-> d.attempts, status |-> d.status]
    /\ \A d \in deliveries : d.id \in Nat /\ d.id <= made
    /\ \A c, d \in deliveries : c.id = d.id => c = d
    /\ \A s \in Dispatchers : dispatchers[s] # None =>
          /\ DOMAIN dispatchers[s] = {"todo", "digest", "arrived", "done"}
          /\ \A c \in dispatchers[s].todo :
                c.id \in Nat /\ c.id <= made /\ \A d \in deliveries : d.id = c.id => d.event = c.event
          /\ \A c \in dispatchers[s].done :
                /\ c.id \in Nat /\ c.id <= made /\ c.status \in {{}, {"sent"}, {"failed"}}
                /\ c.status = {"sent"} => c.id \in dispatchers[s].arrived

(* Nobody is about to record d as sent. *)
Unrecorded(d) ==
    \A s \in Dispatchers : dispatchers[s] # None =>
        \A c \in dispatchers[s].done : c.id = d.id => c.status # {"sent"}

Told == \A e \in news \ missed : \E d \in deliveries : d.event = e /\ d.status \in Open /\ Unrecorded(d)

Copies == dispatchers = [s \in Dispatchers |-> dispatchers[s]]

NewsInv == Numbered /\ Told /\ Copies

(* Nothing has happened at first. *)
LEMMA InitNews == N!Init => NewsInv
BY DEF N!Init, NewsInv, Numbered, Told, Copies

(* An event adds a row, or finds one that is not sent. *)
LEMMA EmitStep ==
  ASSUME NewsInv, NEW e \in Events, N!emit_event(e)
  PROVE  NewsInv'
<1>0. /\ dispatchers' = dispatchers /\ news' = news \cup {e} /\ made \in Nat
  BY DEF N!emit_event, NewsInv, Numbered
<1>1. CASE N!Queued(e) # {}
  <2>1. /\ deliveries' = deliveries /\ made' = made
        /\ missed' = IF \E d \in N!Queued(e) : N!InFlight(d) THEN missed \cup {e} ELSE missed
    BY <1>1 DEF N!emit_event
  <2>2. Numbered' /\ Copies'
    BY <1>0, <2>1 DEF NewsInv, Numbered, Copies
  <2>3. PICK q \in deliveries : q \in N!Queued(e) /\ q.event = e /\ q.status \in Open
    BY <1>1 DEF N!Queued, N!Unsent, N!DELIVERY_PENDING, N!DELIVERY_DELAYED, Open
  <2>4. ~N!InFlight(q) => Unrecorded(q)
    BY DEF N!InFlight, Unrecorded, NewsInv, Numbered
  <2>5. Told'
    BY <1>0, <2>1, <2>3, <2>4 DEF NewsInv, Told, Unrecorded
  <2> QED BY <2>2, <2>5 DEF NewsInv
<1>2. CASE N!Queued(e) = {}
  <2>1. PICK n : /\ n = [id |-> made + 1, event |-> e, attempts |-> 0,
                          status |-> IF N!should_delay(e) THEN "delayed" ELSE "pending"]
                 /\ made' = made + 1 /\ deliveries' = deliveries \cup {n}
                 /\ missed' = missed \ {e}
    BY <1>2 DEF N!emit_event, N!DELIVERY_PENDING, N!DELIVERY_DELAYED
  <2>2. n.id = made + 1 /\ n.event = e /\ n.status \in Open
        /\ n = [id |-> n.id, event |-> n.event, attempts |-> n.attempts, status |-> n.status]
    BY <2>1 DEF Open
  <2>3. Numbered' /\ Copies'
    BY <1>0, <2>1, <2>2 DEF NewsInv, Numbered, Copies
  <2>4. Unrecorded(n)
    BY <1>0, <2>2 DEF Unrecorded, NewsInv, Numbered
  <2>5. Told'
    BY <1>0, <2>1, <2>2, <2>4 DEF NewsInv, Told, Unrecorded
  <2> QED BY <2>3, <2>5 DEF NewsInv
<1> QED BY <1>1, <1>2

(* What a dispatcher reads are copies of the rows. *)
LEMMA DispatchReads ==
  ASSUME NewsInv, NEW s \in Dispatchers, N!dispatch_pending(s)
  PROVE  NewsInv'
<1>1. PICK w : /\ w = [todo |-> N!Ready, digest |-> channel.digest, arrived |-> {}, done |-> {}]
               /\ dispatchers' = [dispatchers EXCEPT ![s] = w]
               /\ UNCHANGED <<deliveries, made, news, missed>>
  BY DEF N!dispatch_pending
<1>2. w.todo \subseteq deliveries /\ w.done = {}
  BY <1>1 DEF N!Ready
<1>3. \A t \in Dispatchers : dispatchers'[t] = IF t = s THEN w ELSE dispatchers[t]
  BY <1>1 DEF NewsInv, Copies
<1>4. Numbered'
  BY <1>1, <1>2, <1>3 DEF NewsInv, Numbered
<1>5. \A d : Unrecorded(d) => Unrecorded(d)'
  BY <1>2, <1>3 DEF Unrecorded
<1>6. Told'
  BY <1>1, <1>5 DEF NewsInv, Told
<1>7. Copies'
  BY <1>1 DEF NewsInv, Copies
<1> QED BY <1>4, <1>6, <1>7 DEF NewsInv

(* A sending tells the events of what arrives. *)
LEMMA SendStep ==
  ASSUME NewsInv, NEW s \in Dispatchers, dispatchers[s] # None,
         NEW batch \in N!Sendings(dispatchers[s]), NEW ok \in BOOLEAN, N!send(s, batch, ok)
  PROVE  NewsInv'
<1>1. PICK arrived \in SUBSET batch :
         /\ ok => arrived = batch
         /\ dispatchers' = [dispatchers EXCEPT
               ![s].todo = @ \ batch,
               ![s].arrived = @ \cup {d.id : d \in arrived},
               ![s].done = @ \cup {N!Attempted(d, ok) : d \in batch}]
         /\ news' = news \ {d.event : d \in arrived}
  BY DEF N!send
<1>2. deliveries' = deliveries /\ made' = made /\ missed' = missed
  BY DEF N!send
<1>3. batch \subseteq dispatchers[s].todo
  BY DEF N!Sendings
<1>4. PICK w : w = dispatchers'[s]
  OBVIOUS
<1>5. /\ w.todo = dispatchers[s].todo \ batch
      /\ w.arrived = dispatchers[s].arrived \cup {d.id : d \in arrived}
      /\ w.done = dispatchers[s].done \cup {N!Attempted(d, ok) : d \in batch}
  <2>1. DOMAIN dispatchers[s] = {"todo", "digest", "arrived", "done"}
    BY DEF NewsInv, Numbered
  <2>2. s \in DOMAIN dispatchers
    BY DEF NewsInv, Copies
  <2> QED BY <1>1, <1>4, <2>1, <2>2
<1>6. \A t \in Dispatchers : t # s => dispatchers'[t] = dispatchers[t]
  BY <1>1 DEF NewsInv, Copies
<1>7. \A d : /\ N!Attempted(d, ok).id = d.id
             /\ N!Attempted(d, ok).status \in {{}, {"sent"}, {"failed"}}
             /\ N!Attempted(d, ok).status = {"sent"} => ok
  BY DEF N!Attempted
<1>8. \A c \in w.done : c \in dispatchers[s].done \/ \E d \in batch : c = N!Attempted(d, ok)
  BY <1>5
<1>9. Copies' /\ DOMAIN w = DOMAIN dispatchers[s]
  BY <1>1, <1>4 DEF NewsInv, Copies
<1>10. Numbered'
  <2> SUFFICES ASSUME NEW t \in Dispatchers, dispatchers'[t] # None
               PROVE  /\ DOMAIN dispatchers'[t] = {"todo", "digest", "arrived", "done"}
                      /\ \A c \in dispatchers'[t].todo :
                           c.id \in Nat /\ c.id <= made /\ \A d \in deliveries : d.id = c.id => d.event = c.event
                      /\ \A c \in dispatchers'[t].done :
                           /\ c.id \in Nat /\ c.id <= made /\ c.status \in {{}, {"sent"}, {"failed"}}
                           /\ c.status = {"sent"} => c.id \in dispatchers'[t].arrived
    BY <1>2 DEF NewsInv, Numbered
  <2>1. CASE t # s
    BY <2>1, <1>6 DEF NewsInv, Numbered
  <2>2. CASE t = s
    <3>1. \A c \in w.todo : c \in dispatchers[s].todo
      BY <1>5
    <3>2. \A d \in batch : d.id \in Nat /\ d.id <= made
      BY <1>3 DEF NewsInv, Numbered
    <3>3. \A d \in batch : ok => d.id \in w.arrived
      BY <1>1, <1>5
    <3>4. dispatchers[s].arrived \subseteq w.arrived
      BY <1>5
    <3> QED BY <2>2, <1>4, <1>7, <1>8, <1>9, <3>1, <3>2, <3>3, <3>4 DEF NewsInv, Numbered
  <2> QED BY <2>1, <2>2
<1>11. Told'
  <2> SUFFICES ASSUME NEW e \in news' \ missed' PROVE \E d \in deliveries : d.event = e /\ d.status \in Open /\ Unrecorded(d)'
    BY <1>2 DEF Told
  <2>1. PICK d \in deliveries : d.event = e /\ d.status \in Open /\ Unrecorded(d)
    BY <1>1, <1>2 DEF NewsInv, Told
  <2>2. \A b \in batch : b.id = d.id => b.event = e
    BY <1>3, <2>1 DEF NewsInv, Numbered
  <2>3. \A b \in batch : ok => b.event # e
    BY <1>1
  <2>4. \A c \in w.done : c.id = d.id => c.status # {"sent"}
    BY <1>7, <1>8, <2>1, <2>2, <2>3 DEF Unrecorded
  <2>5. Unrecorded(d)'
    BY <1>4, <1>6, <2>1, <2>4 DEF Unrecorded
  <2> QED BY <2>1, <2>5
<1> QED BY <1>9, <1>10, <1>11 DEF NewsInv

(* A dispatcher that ends leaves the row of what it has not sent. *)
LEMMA DispatchCommits ==
  ASSUME NewsInv, NEW s \in Dispatchers, N!Commit(s)
  PROVE  NewsInv'
<1>1. PICK w : w = dispatchers[s]
  OBVIOUS
<1>2. /\ w # None /\ dispatchers' = [dispatchers EXCEPT ![s] = None]
      /\ made' = made /\ news' = news /\ missed' = missed
      /\ deliveries' = {N!Updated(d, w.done) : d \in deliveries} \/ deliveries' = deliveries
  BY <1>1 DEF N!Commit
<1>3. \A t \in Dispatchers : dispatchers'[t] = IF t = s THEN None ELSE dispatchers[t]
  BY <1>2 DEF NewsInv, Copies
<1>4. ASSUME NEW d \in deliveries
      PROVE  LET u == N!Updated(d, w.done) IN
             /\ u = [id |-> u.id, event |-> u.event, attempts |-> u.attempts, status |-> u.status]
             /\ u.id = d.id /\ u.event = d.event
             /\ d.status \in Open /\ Unrecorded(d) => u.status \in Open
  <2> DEFINE mine == {c \in w.done : c.id = d.id}
  <2>1. CASE mine = {}
    BY <2>1 DEF N!Updated, NewsInv, Numbered
  <2>2. CASE mine # {}
    <3>1. PICK c : c = CHOOSE b \in mine : TRUE
      OBVIOUS
    <3>2. c \in mine
      BY <2>2, <3>1
    <3>3. c.status \in {{}, {"sent"}, {"failed"}}
      BY <3>2, <1>1, <1>2 DEF NewsInv, Numbered
    <3>4. Unrecorded(d) => c.status # {"sent"}
      BY <3>2, <1>1, <1>2 DEF Unrecorded
    <3>5. N!Updated(d, w.done) = [d EXCEPT !.attempts = c.attempts,
                         !.status = IF c.status = {} THEN @ ELSE CHOOSE x \in c.status : TRUE]
      BY <2>2, <3>1 DEF N!Updated
    <3>6. (CHOOSE x \in {"failed"} : TRUE) = "failed"
      OBVIOUS
    <3>7. d = [id |-> d.id, event |-> d.event, attempts |-> d.attempts, status |-> d.status]
      BY DEF NewsInv, Numbered
    <3> QED BY <3>3, <3>4, <3>5, <3>6, <3>7 DEF Open
  <2> QED BY <2>1, <2>2
<1>5. CASE deliveries' = deliveries
  BY <1>2, <1>3, <1>5 DEF NewsInv, Numbered, Told, Copies, Unrecorded
<1> DEFINE V == {N!Updated(d, w.done) : d \in deliveries}
<1>6. CASE deliveries' = V
  <2>1. \A u \in V : \E d \in deliveries : u = N!Updated(d, w.done)
    OBVIOUS
  <2> HIDE DEF V
  <2>2. \A u \in V : \E d \in deliveries : u.id = d.id /\ u.event = d.event
    BY <2>1, <1>4
  <2>3. \A u \in V : u = [id |-> u.id, event |-> u.event, attempts |-> u.attempts, status |-> u.status]
    BY <2>1, <1>4
  <2>4. ASSUME NEW x \in V, NEW y \in V, x.id = y.id PROVE x = y
    <3>1. PICK b, c \in deliveries : x = N!Updated(b, w.done) /\ y = N!Updated(c, w.done)
      BY <2>1
    <3>2. b.id = c.id
      BY <3>1, <2>4, <1>4
    <3> QED BY <3>1, <3>2 DEF NewsInv, Numbered
  <2>5. Numbered'
    BY <1>2, <1>3, <1>6, <2>2, <2>3, <2>4 DEF NewsInv, Numbered
  <2>6. \A d \in deliveries : N!Updated(d, w.done) \in deliveries'
    BY <1>6 DEF V
  <2>7. Told'
    <3> SUFFICES ASSUME NEW e \in news \ missed
                 PROVE  \E u \in deliveries' : u.event = e /\ u.status \in Open /\ Unrecorded(u)'
      BY <1>2 DEF Told
    <3>1. PICK d \in deliveries : d.event = e /\ d.status \in Open /\ Unrecorded(d)
      BY DEF NewsInv, Told
    <3>2. \A u : u.id = d.id => Unrecorded(u)'
      BY <1>3, <3>1 DEF Unrecorded
    <3> QED BY <2>6, <1>4, <3>1, <3>2
  <2> QED BY <1>2, <2>5, <2>7 DEF NewsInv, Copies
<1> QED BY <1>2, <1>5, <1>6

(* Every step of the notifications keeps the invariant: one case per action. *)
LEMMA NextNews == NewsInv /\ [N!Next]_(N!vars) => NewsInv'
<1> SUFFICES ASSUME NewsInv, [N!Next]_(N!vars) PROVE NewsInv'
  OBVIOUS
<1>1. CASE \E e \in Events : N!emit_event(e)
  BY <1>1, EmitStep
<1>2. ASSUME NEW s \in Dispatchers, N!dispatch_pending(s) \/ N!Commit(s) PROVE NewsInv'
  BY <1>2, DispatchReads, DispatchCommits
<1>3. ASSUME NEW s \in Dispatchers, N!Abort(s) PROVE NewsInv'
  <2>1. \A t \in Dispatchers : dispatchers'[t] = IF t = s THEN None ELSE dispatchers[t]
    BY <1>3 DEF N!Abort, NewsInv, Copies
  <2> QED BY <1>3, <2>1 DEF N!Abort, NewsInv, Numbered, Told, Copies, Unrecorded
<1>4. ASSUME NEW s \in Dispatchers, dispatchers[s] # None,
             NEW batch \in N!Sendings(dispatchers[s]), NEW ok \in BOOLEAN, N!send(s, batch, ok)
      PROVE  NewsInv'
  BY <1>4, SendStep
<1>5. CASE N!delete_channel
  BY <1>5 DEF N!delete_channel, NewsInv, Numbered, Told, Copies
<1>6. CASE \/ \E enabled, digest \in BOOLEAN : N!update_channel(enabled, digest)
           \/ N!QuietHours \/ N!digest_due \/ UNCHANGED N!vars
  BY <1>6 DEF N!update_channel, N!QuietHours, N!digest_due, N!vars, NewsInv, Numbered, Told, Copies, Unrecorded
<1> QED BY <1>1, <1>2, <1>3, <1>4, <1>5, <1>6 DEF N!Next

(***************************************************************************)
(* What emit_event was told of, and no sending has told since, has a row   *)
(* that is not sent, unless the event came while a dispatcher held the row *)
(* that emit_event found (the window that the variable missed records).    *)
(***************************************************************************)
THEOREM TasksNewsIsQueued == N!Spec => []NewsIsQueued
<1>1. NewsInv => NewsIsQueued
  BY DEF NewsInv, Told, NewsIsQueued, N!NewsIsQueued, Open, N!Unsent, N!DELIVERY_PENDING, N!DELIVERY_DELAYED
<1>2. N!Spec => []NewsInv
  BY InitNews, NextNews, PTL DEF N!Spec
<1> QED BY <1>1, <1>2, PTL

(***************************************************************************)
(* Reports.  While executions of the task do not overlap, an execution     *)
(* that has written a file finds no completed row of that report, and the  *)
(* file is its own until it commits (Writing).  What a cleanup is about to *)
(* remove was neither held nor needed when it made its plan, and what has  *)
(* come up since is remembered (Planned).                                  *)
(***************************************************************************)
Completed(t) == reports[t] # None /\ reports[t].status = "completed"

ReportsTyped ==
    /\ reports \in [Types -> R!Report \cup {None}]
    /\ files = [t \in Types |-> files[t]]
    /\ parted \in BOOLEAN
    /\ \A w \in executions :
          /\ w = [claim |-> w.claim, shows |-> w.shows, todo |-> w.todo, usable |-> w.usable,
                  made |-> w.made, had |-> w.had]
          /\ w.shows \in Nat /\ w.todo \subseteq Types
          /\ w.made \in [Types -> {None, "kept", "failed", "completed"}]
          /\ \A t \in w.todo : w.made[t] = None
    /\ world \in Nat
    /\ cleanup # None => cleanup = [plan |-> cleanup.plan, deleted |-> cleanup.deleted]

Writing ==
    ~parted =>
      /\ \A v, w \in executions : v = w
      /\ \A t \in Types : Completed(t) => files[t] \in {reports[t].sha, None}
      /\ \A w \in executions, t \in Types :
            w.made[t] = "completed" => ~Completed(t) /\ files[t] \in {w.shows, None}

Planned ==
    cleanup # None =>
      LET going == cleanup.plan \cup cleanup.deleted IN
      /\ "scan_job" \in going =>
            /\ (holds \cap {"scan_job"}) \cup needed \subseteq late
            /\ \A t \in Types : reports[t] # None => t \in late \cup going
      /\ \A t \in going \cap Types \cap holds : t \in late

ReportsInv == ReportsTyped /\ Writing /\ Planned

(* "none" is neither a row nor what becomes of an artifact. *)
NoneApart == None \notin R!Report /\ None \notin {"kept", "failed", "completed"} /\ "scan_job" \notin Types

(* At first there is no report. *)
LEMMA InitReports == R!Init => ReportsInv
<1> SUFFICES ASSUME R!Init PROVE ReportsInv
  OBVIOUS
<1>1. /\ world = 0 /\ executions = {} /\ parted = FALSE /\ cleanup = None
      /\ reports = [t \in Types |-> None] /\ files = [t \in Types |-> None]
  BY DEF R!Init
<1>2. ReportsTyped
  BY <1>1 DEF ReportsTyped
<1>3. Writing
  BY <1>1 DEF Writing, Completed
<1>4. Planned
  BY <1>1 DEF Planned
<1> QED BY <1>2, <1>3, <1>4 DEF ReportsInv

(* What an execution stores of an artifact. *)
LEMMA StoredRow ==
  ASSUME NoneApart, ReportsTyped, NEW w \in executions, NEW t \in Types
  PROVE  /\ R!Stored(w, t) \in R!Report \cup {None}
         /\ w.made[t] \in {None, "kept"} => R!Stored(w, t) = reports[t]
         /\ reports[t] # None => R!Stored(w, t) # None
         /\ w.made[t] = "failed" => R!Stored(w, t).status = "failed"
         /\ w.made[t] = "completed" => R!Stored(w, t).status = "completed" /\ R!Stored(w, t).sha = w.shows
<1>1. w.made[t] \in {None, "kept", "failed", "completed"} /\ w.shows \in Nat
      /\ reports[t] \in R!Report \cup {None}
  BY DEF ReportsTyped
<1>2. CASE w.made[t] \in {None, "kept"}
  BY <1>1, <1>2 DEF R!Stored, NoneApart
<1>3. CASE w.made[t] = "failed"
  <2>1. R!Stored(w, t) = IF reports[t] = None THEN [status |-> "failed", sha |-> None, old |-> FALSE]
                         ELSE [reports[t] EXCEPT !.status = "failed"]
    BY <1>3 DEF R!Stored, NoneApart
  <2>2. R!Stored(w, t) \in R!Report /\ R!Stored(w, t).status = "failed"
    BY <1>1, <2>1 DEF R!Report
  <2> QED BY <1>3, <2>2 DEF NoneApart
<1>4. CASE w.made[t] = "completed"
  <2>1. R!Stored(w, t) = [status |-> "completed", sha |-> w.shows, old |-> reports[t] # None /\ reports[t].old]
    BY <1>4 DEF R!Stored, NoneApart
  <2>2. (reports[t] # None /\ reports[t].old) \in BOOLEAN
    OBVIOUS
  <2>3. R!Stored(w, t) \in R!Report
    BY <1>1, <2>1, <2>2 DEF R!Report
  <2> QED BY <1>4, <2>1, <2>3 DEF NoneApart
<1> QED BY <1>1, <1>2, <1>3, <1>4

(* A worker begins to render, unless the run has succeeded. *)
LEMMA ExecuteStep ==
  ASSUME NoneApart, ReportsInv, R!execute_template_task
  PROVE  ReportsInv'
<1>1. UNCHANGED <<reports, files, cleanup, holds, needed, late, world>>
  BY DEF R!execute_template_task, R!keepVars
<1>2. CASE executions' = executions /\ parted' = parted
  BY <1>1, <1>2 DEF ReportsInv, ReportsTyped, Writing, Planned, Completed
<1>3. CASE ~(executions' = executions /\ parted' = parted)
  <2>1. PICK w : /\ w = [claim |-> claims', shows |-> world, todo |-> IF template THEN Types ELSE {},
                         usable |-> template, made |-> [t \in Types |-> None], had |-> {}]
                 /\ executions' = executions \cup {w}
                 /\ parted' = (parted \/ executions # {})
    BY <1>3 DEF R!execute_template_task
  <2>2. /\ w = [claim |-> w.claim, shows |-> w.shows, todo |-> w.todo, usable |-> w.usable,
                made |-> w.made, had |-> w.had]
        /\ w.shows = world /\ w.todo \subseteq Types /\ w.made = [t \in Types |-> None]
    BY <2>1
  <2>3. ReportsTyped'
    BY <1>1, <2>1, <2>2 DEF ReportsInv, ReportsTyped
  <2>4. Writing'
    <3>1. \A t \in Types : w.made[t] # "completed"
      BY <2>2 DEF NoneApart
    <3>2. ~parted' => ~parted /\ executions' = {w}
      BY <2>1
    <3> QED BY <1>1, <3>1, <3>2 DEF ReportsInv, Writing, Completed
  <2> QED BY <1>1, <2>3, <2>4 DEF ReportsInv, Planned
<1> QED BY <1>2, <1>3

(* The next artifact is kept, fails or is written. *)
LEMMA GenerateStep ==
  ASSUME NoneApart, ReportsInv, NEW w \in executions, NEW t \in Types, R!generate_reports(w, t)
  PROVE  ReportsInv'
<1>1. UNCHANGED <<reports, parted, cleanup, holds, needed, late, world>> /\ t \in w.todo
  BY DEF R!generate_reports, R!keepVars
<1>2. PICK r \in {"kept", "failed", "completed"} :
        /\ R!Rendered(w, t, r)
        /\ r = "completed" => ~Completed(t) /\ files' = [files EXCEPT ![t] = w.shows]
        /\ r # "completed" => files' = files
  BY DEF R!generate_reports, R!Reused, Completed
<1>3. PICK v : /\ v = [w EXCEPT !.todo = @ \ {t}, !.made[t] = r,
                                !.had = IF reports[t] = None THEN @ ELSE @ \cup {t}]
               /\ executions' = (executions \ {w}) \cup {v}
  BY <1>2 DEF R!Rendered
<1>4. /\ w = [claim |-> w.claim, shows |-> w.shows, todo |-> w.todo, usable |-> w.usable,
              made |-> w.made, had |-> w.had]
      /\ w.shows \in Nat /\ w.todo \subseteq Types
      /\ w.made \in [Types -> {None, "kept", "failed", "completed"}]
      /\ \A u \in w.todo : w.made[u] = None
  BY DEF ReportsInv, ReportsTyped
<1>5. /\ v = [claim |-> v.claim, shows |-> v.shows, todo |-> v.todo, usable |-> v.usable,
              made |-> v.made, had |-> v.had]
      /\ v.shows = w.shows /\ v.todo = w.todo \ {t}
      /\ v.made = [w.made EXCEPT ![t] = r]
  BY <1>3, <1>4
<1>6. v.made \in [Types -> {None, "kept", "failed", "completed"}] /\ \A u \in v.todo : v.made[u] = None
  BY <1>4, <1>5
<1>7. files' = [u \in Types |-> files'[u]] /\ \A u \in Types : files'[u] = IF r = "completed" /\ u = t THEN w.shows ELSE files[u]
  BY <1>2 DEF ReportsInv, ReportsTyped
<1>8. ReportsTyped'
  BY <1>1, <1>3, <1>4, <1>5, <1>6, <1>7 DEF ReportsInv, ReportsTyped
<1>9. Writing'
  <2> SUFFICES ASSUME ~parted
               PROVE  /\ \A x, y \in executions' : x = y
                      /\ \A u \in Types : Completed(u) => files'[u] \in {reports[u].sha, None}
                      /\ \A x \in executions', u \in Types :
                            x.made[u] = "completed" => ~Completed(u) /\ files'[u] \in {x.shows, None}
    BY <1>1 DEF Writing, Completed
  <2>1. executions' = {v}
    BY <1>3 DEF ReportsInv, Writing
  <2>2. \A u \in Types : Completed(u) => files'[u] \in {reports[u].sha, None}
    BY <1>2, <1>7 DEF ReportsInv, Writing
  <2>3. ASSUME NEW u \in Types, v.made[u] = "completed" PROVE ~Completed(u) /\ files'[u] \in {v.shows, None}
    <3>1. CASE u = t
      BY <3>1, <2>3, <1>2, <1>4, <1>5, <1>7
    <3>2. CASE u # t
      <4>1. w.made[u] = "completed"
        BY <3>2, <2>3, <1>4, <1>5
      <4> QED BY <3>2, <4>1, <1>5, <1>7 DEF ReportsInv, Writing
    <3> QED BY <3>1, <3>2
  <2> QED BY <2>1, <2>2, <2>3
<1> QED BY <1>1, <1>8, <1>9 DEF ReportsInv, Planned

(* An execution commits its rows. *)
LEMMA CommitReports ==
  ASSUME NoneApart, ReportsInv, NEW w \in executions, R!Commit(w)
  PROVE  ReportsInv'
<1>1. /\ UNCHANGED <<files, parted, cleanup, holds, needed, world>>
      /\ executions' = executions \ {w}
      /\ reports' = [t \in Types |-> R!Stored(w, t)]
      /\ late' = IF cleanup # None /\ reports' # reports THEN late \cup Types ELSE late
  BY DEF R!Commit
<1>2. \A t \in Types : reports'[t] = R!Stored(w, t)
  BY <1>1
<1>3. \A t \in Types :
         /\ R!Stored(w, t) \in R!Report \cup {None}
         /\ w.made[t] \in {None, "kept"} => R!Stored(w, t) = reports[t]
         /\ w.made[t] = "failed" => R!Stored(w, t).status = "failed"
         /\ w.made[t] = "completed" => R!Stored(w, t).status = "completed" /\ R!Stored(w, t).sha = w.shows
         /\ w.made[t] \in {None, "kept", "failed", "completed"}
  BY StoredRow DEF ReportsInv, ReportsTyped
<1>4. ReportsTyped'
  BY <1>1, <1>3 DEF ReportsInv, ReportsTyped
<1>5. Writing'
  <2> SUFFICES ASSUME ~parted, NEW t \in Types, Completed(t)' PROVE files[t] \in {reports'[t].sha, None} /\ executions' = {}
    BY <1>1 DEF Writing, ReportsInv
  <2>1. executions' = {}
    BY <1>1 DEF ReportsInv, Writing
  <2>2. w.made[t] # "failed"
    BY <1>2, <1>3 DEF Completed
  <2>3. CASE w.made[t] = "completed"
    BY <1>2, <1>3, <2>1, <2>3 DEF ReportsInv, Writing
  <2>4. CASE w.made[t] \in {None, "kept"}
    BY <1>2, <1>3, <2>1, <2>4 DEF ReportsInv, Writing, Completed
  <2> QED BY <2>1, <2>2, <2>3, <2>4, <1>3
<1>6. Planned'
  BY <1>1 DEF ReportsInv, Planned
<1> QED BY <1>4, <1>5, <1>6 DEF ReportsInv

(* A cleanup plans what nothing protects. *)
LEMMA CleanupPlans ==
  ASSUME NoneApart, ReportsInv, R!retention_cleanup
  PROVE  ReportsInv'
<1>1. PICK c : /\ c = [plan |-> R!build_cleanup_plan, deleted |-> {}]
               /\ cleanup' = c /\ UNCHANGED <<world, executions, parted, reports, files, needed, holds>>
  BY DEF R!retention_cleanup, R!taskVars
<1>2. c.plan = R!build_cleanup_plan /\ c.deleted = {} /\ c = [plan |-> c.plan, deleted |-> c.deleted]
  BY <1>1
<1>3. "scan_job" \in c.plan =>
         /\ (holds \cap {"scan_job"}) \cup needed = {}
         /\ \A t \in Types : reports[t] # None => t \in c.plan
  BY <1>2 DEF R!build_cleanup_plan, R!OldReports, R!Protection, R!Retained, R!Job, NoneApart
<1>4. \A t \in c.plan \cap Types : t \notin holds
  BY <1>2 DEF R!build_cleanup_plan, R!OldReports, R!Job, NoneApart
<1>5. Planned'
  BY <1>1, <1>2, <1>3, <1>4 DEF Planned
<1>6. ReportsTyped' /\ Writing'
  BY <1>1, <1>2 DEF ReportsInv, ReportsTyped, Writing, Completed
<1> QED BY <1>5, <1>6 DEF ReportsInv

(* What is planned is deleted, file by file. *)
LEMMA DeleteStep ==
  ASSUME NoneApart, ReportsInv, NEW x \in Types \cup {R!Job}, R!Delete(x)
  PROVE  ReportsInv'
<1>1. PICK c : /\ c = [plan |-> cleanup.plan \ {x}, deleted |-> cleanup.deleted \cup {x}]
               /\ cleanup' = c /\ cleanup # None /\ x \in cleanup.plan
               /\ files' \in {files, [files EXCEPT ![x] = None]}
               /\ UNCHANGED <<world, executions, parted, reports, needed, holds, late>>
  BY DEF R!Delete, R!taskVars
<1>2. c.plan \cup c.deleted = cleanup.plan \cup cleanup.deleted /\ c = [plan |-> c.plan, deleted |-> c.deleted]
  BY <1>1
<1>3. Planned'
  BY <1>1, <1>2 DEF ReportsInv, Planned
<1>4. files' = [t \in Types |-> files'[t]] /\ \A t \in Types : files'[t] \in {files[t], None}
  BY <1>1 DEF ReportsInv, ReportsTyped
<1>5. ReportsTyped'
  BY <1>1, <1>2, <1>4 DEF ReportsInv, ReportsTyped
<1>6. Writing'
  BY <1>1, <1>4 DEF ReportsInv, ReportsTyped, Writing, Completed
<1> QED BY <1>3, <1>5, <1>6 DEF ReportsInv

(* The rows that a cleanup has deleted go when it commits. *)
LEMMA CleanupCommitStep ==
  ASSUME NoneApart, ReportsInv, R!CleanupCommits
  PROVE  ReportsInv'
<1>1. /\ cleanup' = None /\ UNCHANGED <<world, executions, parted, files, needed, holds, late>>
      /\ reports' = [t \in Types |-> IF t \in cleanup.deleted THEN None ELSE reports[t]]
  BY DEF R!CleanupCommits, R!taskVars
<1>2. \A t \in Types : reports'[t] \in {reports[t], None}
  BY <1>1
<1>3. ReportsTyped'
  BY <1>1 DEF ReportsInv, ReportsTyped
<1>4. \A t \in Types : Completed(t)' => Completed(t) /\ reports'[t] = reports[t]
  BY <1>2 DEF Completed
<1>5. Writing' /\ Planned'
  BY <1>1, <1>4 DEF ReportsInv, Writing, Planned
<1> QED BY <1>3, <1>5 DEF ReportsInv

(* Holds and findings come up and go, also while a cleanup is under way. *)
LEMMA KeepStep ==
  ASSUME NoneApart, ReportsInv,
         R!FindingChanges \/ \E x \in Types \cup {R!Job} : R!place_hold(x) \/ R!lift_hold(x)
  PROVE  ReportsInv'
<1>1. UNCHANGED <<world, executions, parted, reports, files, cleanup>>
  BY DEF R!FindingChanges, R!place_hold, R!lift_hold, R!taskVars
<1>2. \/ needed' = needed /\ \E x : holds' = holds \cup {x} /\ (cleanup # None => late' = late \cup {x})
      \/ needed' = needed /\ holds' \subseteq holds /\ late' = late
      \/ holds' = holds /\ needed' = {} /\ late' = late
      \/ holds' = holds /\ needed' \subseteq {"finding"} /\ (cleanup # None => late' = late \cup {"finding"})
  BY DEF R!FindingChanges, R!place_hold, R!lift_hold, R!Kept
<1>3. Planned'
  BY <1>1, <1>2 DEF ReportsInv, Planned
<1> QED BY <1>1, <1>3 DEF ReportsInv, ReportsTyped, Writing, Completed

(* A report ages. *)
LEMMA AgeStep ==
  ASSUME NoneApart, ReportsInv, NEW t \in Types, R!ReportAges(t)
  PROVE  ReportsInv'
<1>1. /\ executions = {} /\ cleanup = None /\ reports[t] # None
      /\ reports' = [reports EXCEPT ![t].old = TRUE]
      /\ UNCHANGED <<world, executions, parted, files, cleanup, holds, needed, late>>
  BY DEF R!ReportAges, R!taskVars, R!keepVars
<1>2. reports[t] \in R!Report
  BY <1>1 DEF ReportsInv, ReportsTyped
<1>3. PICK r : r = [reports[t] EXCEPT !.old = TRUE]
  OBVIOUS
<1>4. r \in R!Report /\ r.status = reports[t].status /\ r.sha = reports[t].sha
  BY <1>2, <1>3 DEF R!Report
<1>5. \A u \in Types : reports'[u] = IF u = t THEN r ELSE reports[u]
  BY <1>1, <1>3 DEF ReportsInv, ReportsTyped
<1>6. ReportsTyped'
  BY <1>1, <1>3, <1>4 DEF ReportsInv, ReportsTyped
<1>7. Writing' /\ Planned'
  BY <1>1, <1>4, <1>5 DEF ReportsInv, Writing, Planned, Completed, NoneApart
<1> QED BY <1>6, <1>7 DEF ReportsInv

(* Every step of the reports keeps the invariant: one case per action. *)
LEMMA NextReports == NoneApart /\ ReportsInv /\ [R!Next]_(R!vars) => ReportsInv'
<1> SUFFICES ASSUME NoneApart, ReportsInv, [R!Next]_(R!vars) PROVE ReportsInv'
  OBVIOUS
<1>1. CASE \/ R!queue_template_run \/ R!schedule_due_templates \/ R!retry_task \/ R!update_template \/ R!ScheduleIsDue
           \/ R!CleanupAborts \/ R!SnapshotChanges \/ R!RawOutputAges \/ UNCHANGED R!vars
  <2>1. /\ UNCHANGED <<executions, parted, reports, files, needed, holds, late>>
        /\ cleanup' \in {cleanup, None} /\ world' \in {world, world + 1}
    BY <1>1 DEF R!queue_template_run, R!schedule_due_templates, R!retry_task, R!update_template, R!ScheduleIsDue,
       R!CleanupAborts, R!SnapshotChanges, R!RawOutputAges, R!vars, R!keepVars, R!taskVars
  <2> QED BY <2>1 DEF ReportsInv, ReportsTyped, Writing, Planned, Completed
<1>2. CASE R!execute_template_task
  BY <1>2, ExecuteStep
<1>3. ASSUME NEW w \in executions, \E t \in Types : R!generate_reports(w, t) PROVE ReportsInv'
  BY <1>3, GenerateStep
<1>4. ASSUME NEW w \in executions, R!Commit(w) PROVE ReportsInv'
  BY <1>4, CommitReports
<1>5. ASSUME NEW w \in executions, R!Abort(w) \/ R!LeaseLost(w) PROVE ReportsInv'
  <2>1. executions' \subseteq executions /\ UNCHANGED <<world, parted, reports, files, cleanup, needed, holds, late>>
    BY <1>5 DEF R!Abort, R!LeaseLost, R!keepVars
  <2> QED BY <2>1 DEF ReportsInv, ReportsTyped, Writing, Planned, Completed
<1>6. CASE R!retention_cleanup \/ R!CleanupCommits
  BY <1>6, CleanupPlans, CleanupCommitStep
<1>7. CASE R!FindingChanges \/ \E x \in Types \cup {R!Job} : R!place_hold(x) \/ R!lift_hold(x)
  BY <1>7, KeepStep
<1>8. CASE \E x \in Types \cup {R!Job} : R!Delete(x)
  BY <1>8, DeleteStep
<1>9. CASE \E t \in Types : R!ReportAges(t)
  BY <1>9, AgeStep
<1> QED BY <1>1, <1>2, <1>3, <1>4, <1>5, <1>6, <1>7, <1>8, <1>9 DEF R!Next

(* No step removes what is held, open or referred to. *)
LEMMA CleanupSpares ==
  ASSUME NoneApart, ReportsInv, [R!Next]_(R!vars)
  PROVE  R!ReferencedIsKept
<1>1. CASE R!CleanupCommits
  <2>1. /\ cleanup # None /\ cleanup.plan = {}
        /\ reports' = [t \in Types |-> IF t \in cleanup.deleted THEN None ELSE reports[t]]
        /\ raw' = IF "scan_job" \in cleanup.deleted THEN "deleted" ELSE raw
    BY <1>1 DEF R!CleanupCommits, R!Job
  <2> QED BY <2>1 DEF R!ReferencedIsKept, R!Job, ReportsInv, Planned
<1>2. CASE \E w \in executions : R!Commit(w)
  <2>1. PICK w \in executions : R!Commit(w)
    BY <1>2
  <2>2. raw' = raw /\ \A t \in Types : reports'[t] = R!Stored(w, t)
    BY <2>1 DEF R!Commit
  <2>3. \A t \in Types : reports[t] # None => reports'[t] # None
    BY <2>2, StoredRow DEF ReportsInv
  <2> QED BY <2>2, <2>3 DEF R!ReferencedIsKept
<1>3. CASE \E t \in Types : R!ReportAges(t)
  <2>1. PICK t \in Types : R!ReportAges(t)
    BY <1>3
  <2>2. raw' = raw /\ reports[t] # None /\ reports' = [reports EXCEPT ![t].old = TRUE]
    BY <2>1 DEF R!ReportAges, R!keepVars
  <2>3. reports[t] \in R!Report
    BY <2>2 DEF ReportsInv, ReportsTyped
  <2>4. [reports[t] EXCEPT !.old = TRUE] \in R!Report
    BY <2>3 DEF R!Report
  <2>5. \A u \in Types : reports[u] # None => reports'[u] # None
    BY <2>2, <2>4 DEF ReportsInv, ReportsTyped, NoneApart
  <2> QED BY <2>2, <2>5 DEF R!ReferencedIsKept
<1>4. CASE R!RawOutputAges
  BY <1>4 DEF R!RawOutputAges, R!ReferencedIsKept
<1>5. CASE ~(R!CleanupCommits \/ R!RawOutputAges \/ (\E w \in executions : R!Commit(w)) \/ \E t \in Types : R!ReportAges(t))
  <2>1. raw' = raw /\ reports' = reports
    BY <1>5 DEF R!Next, R!queue_template_run, R!schedule_due_templates, R!retry_task, R!update_template, R!ScheduleIsDue,
       R!CleanupAborts, R!SnapshotChanges, R!vars, R!keepVars, R!taskVars, R!execute_template_task, R!generate_reports,
       R!Abort, R!LeaseLost, R!retention_cleanup, R!FindingChanges, R!place_hold, R!lift_hold, R!Delete
  <2> QED BY <2>1 DEF R!ReferencedIsKept
<1> QED BY <1>1, <1>2, <1>3, <1>4, <1>5

(***************************************************************************)
(* While the executions of a run do not overlap, the file of a completed   *)
(* report is what its row says; and a retention cleanup removes nothing    *)
(* that is held, open or referred to, but what came to be so after the     *)
(* cleanup had made its plan.                                              *)
(***************************************************************************)
THEOREM TasksReportsAreKept ==
  ASSUME NoneApart
  PROVE  R!Spec => ReportsAreKept
<1>1. (ReportsInv => R!StoredIsRecorded) /\ (ReportsInv' => R!StoredIsRecorded')
  BY DEF ReportsInv, Writing, R!StoredIsRecorded, Completed
<1>2. ReportsInv /\ [R!Next]_(R!vars) => ReportsInv' /\ [R!StoredIsRecorded' /\ R!ReferencedIsKept]_(R!vars)
  BY <1>1, NextReports, CleanupSpares
<1>3. R!Spec => []ReportsInv
  BY InitReports, NextReports, PTL DEF R!Spec
<1> QED BY <1>2, <1>3, PTL DEF R!Spec, ReportsAreKept, R!ReportsAreKept

----------------------------------------------------------------------------
(***************************************************************************)
(* The export.  The rows of a section that was read are in the bundle or   *)
(* were born since; a reference leads to a row that is there unless it is  *)
(* one that went astray, which asks that ids are given once; and a         *)
(* reference of the bundle is to something known, or to a section that is  *)
(* not read yet and either still has the row or has lost it, or explained. *)
(***************************************************************************)
LeadsTo(i, j) == (<<i, j>> \in stray /\ stored[j] = None) \/ (stored[j] # None /\ stored[j].of = column.to)

Awaited(j) == column.to \notin read /\ ((stored[j] # None /\ stored[j].of = column.to) \/ j \in gone)

RowsLead ==
    \A i \in Ids : stored[i] # None =>
        /\ i \in spent
        /\ stored[i].of \in D!Followed
        /\ stored[i].to # None => stored[i].of = column.of /\ stored[i].to \in spent /\ LeadsTo(i, stored[i].to)

AskedLead ==
    /\ \A i, j \in Ids : <<i, j>> \in asked => j \in spent /\ (stored[j] # None => stored[j].of = column.to)
    /\ \A g, i, j \in Ids : planned[g] # None /\ i \in DOMAIN planned[g] /\ planned[g][i] = j /\ j # None =>
          j \in spent /\ (stored[j] # None => stored[j].of = column.to)

ReadInOrder == \A t \in read, u \in D!Followed : D!Place(u) < D!Place(t) => u \in read

ReadIsBundled ==
    \A i \in Ids : stored[i] # None /\ stored[i].of \in read => i \in born \/ i \in D!Exported(stored[i].of)

BundleLeads ==
    \A e \in bundle : /\ e.of \in read
                      /\ D!Unknown(e) => e.of = column.of /\ e.to \in spent /\ (D!Explained(e) \/ Awaited(e.to))

ExportInv ==
    /\ D!TypeOK /\ RowsLead /\ AskedLead /\ ReadInOrder /\ ReadIsBundled /\ BundleLeads

(* A section has one place in the bundle, and a place has one section.     *)
LEMMA PlaceIsOne ==
  ASSUME NEW t \in D!Sections, NEW u \in D!Sections
  PROVE  D!Place(t) \in Nat /\ (D!Place(t) = D!Place(u) => t = u)
<1>1. DOMAIN D!build_export \subseteq Nat
  BY DEF D!build_export
<1>2. \A x \in D!Sections : D!Place(x) \in DOMAIN D!build_export /\ D!build_export[D!Place(x)][1] = x
  BY DEF D!Place, D!Sections
<1> QED BY <1>1, <1>2

(* A followed column lies between two sections of the bundle.              *)
LEMMA ColumnIsBetween ==
  ASSUME column \in D!Columns
  PROVE  column.of \in D!Sections /\ column.to \in D!Sections
<1>1. PICK k \in DOMAIN D!build_export : \E r \in D!build_export[k][2] :
          column = [of |-> D!build_export[k][1], name |-> r[1], to |-> r[2],
                    rules |-> D!RulesOf(D!build_export[k][1], r[1])]
  BY DEF D!Columns
<1> QED BY <1>1 DEF D!Columns, D!Sections

(* Its rules are those that a foreign key can have.                        *)
LEMMA ColumnHasRules ==
  ASSUME column \in D!Columns
  PROVE  column.rules \subseteq {"CASCADE", "SET NULL", "RESTRICT"}
<1>1. PICK k \in DOMAIN D!build_export : \E r \in D!build_export[k][2] :
          column = [of |-> D!build_export[k][1], name |-> r[1], to |-> r[2],
                    rules |-> D!RulesOf(D!build_export[k][1], r[1])]
  BY DEF D!Columns
<1>2. \A t, name : D!RulesOf(t, name) \subseteq {"CASCADE", "SET NULL", "RESTRICT"}
  BY DEF D!RulesOf
<1>3. PICK r \in D!build_export[k][2] :
          column = [of |-> D!build_export[k][1], name |-> r[1], to |-> r[2],
                    rules |-> D!RulesOf(D!build_export[k][1], r[1])]
  BY <1>1
<1>4. column.rules = D!RulesOf(D!build_export[k][1], r[1])
  BY <1>3
<1> QED BY <1>2, <1>4

(* An empty database satisfies the invariant. *)
LEMMA InitExport == D!Init => ExportInv
<1> SUFFICES ASSUME D!Init PROVE ExportInv
  OBVIOUS
<1>1. D!TypeOK
  BY DEF D!Init, D!TypeOK, D!Followed
<1> QED BY <1>1 DEF D!Init, ExportInv, RowsLead, AskedLead, ReadInOrder, ReadIsBundled, BundleLeads

(* What a write leaves of the rows: their sections, and in born and gone what came and went. *)
Kept ==
    /\ UNCHANGED <<column, bundle, read>>
    /\ stray \subseteq stray' /\ born \subseteq born' /\ gone \subseteq gone' /\ spent \subseteq spent'
    /\ \A i \in Ids : stored'[i] # None => i \in born' \/ (stored[i] # None /\ stored'[i].of = stored[i].of)
    /\ \A i \in Ids : stored[i] # None =>
          i \in gone' \/ (stored'[i] # None /\ stored'[i].of = stored[i].of)

(* A write that leaves the rows in order leaves the bundle so too.         *)
LEMMA WritesKeepBundle ==
  ASSUME ExportInv, Kept, D!TypeOK', RowsLead', AskedLead'
  PROVE  ExportInv'
<1>1. ReadInOrder'
  BY DEF ExportInv, Kept, ReadInOrder, D!Followed
<1>2. ReadIsBundled'
  BY DEF ExportInv, Kept, ReadIsBundled, D!Exported
<1>3. ASSUME NEW e \in bundle', D!Unknown(e)'
      PROVE  e.of = column'.of /\ e.to \in spent' /\ (D!Explained(e)' \/ Awaited(e.to)')
  <2>1. e \in bundle /\ D!Unknown(e)
    BY <1>3 DEF Kept, D!Unknown, D!Exported
  <2>2. e.of = column.of /\ e.to \in spent /\ (D!Explained(e) \/ Awaited(e.to)) /\ e.to \in Ids
    BY <2>1 DEF ExportInv, BundleLeads, D!TypeOK
  <2>3. D!Explained(e) => D!Explained(e)'
    BY DEF Kept, D!Explained
  <2>4. Awaited(e.to) => Awaited(e.to)'
    BY <2>2 DEF Kept, Awaited
  <2> QED BY <2>2, <2>3, <2>4 DEF Kept
<1>4. BundleLeads'
  <2>1. \A e \in bundle' : e.of \in read'
    BY DEF ExportInv, BundleLeads, Kept
  <2> QED BY <2>1, <1>3 DEF BundleLeads
<1> QED BY <1>1, <1>2, <1>4 DEF ExportInv

(* NULL is no row. *)
NullApart == None \notin D!Row

(* A row that is given a reference, which leads to a row or is noted as astray. *)
LEMMA RowIsWritten ==
  ASSUME NullApart, ExportInv, NEW i \in Ids, NEW t \in D!Followed, NEW j \in Ids \cup {None},
         UNCHANGED <<column, bundle, read, planned, gone>>,
         stored' = [stored EXCEPT ![i] = [of |-> t, to |-> j]],
         i \notin spent \/ (stored[i] # None /\ stored[i].of = t),
         spent' = spent \cup {i}, asked' \subseteq asked, stray \subseteq stray', stray' \subseteq Ids \X Ids,
         born \subseteq born', born' \subseteq Ids, i \notin spent => i \in born',
         j # None => t = column.of /\ j \in spent /\ ((<<i, j>> \in stray' /\ stored[j] = None) \/ (stored[j] # None /\ stored[j].of = column.to))
  PROVE  ExportInv'
<1>1. column.of \in D!Sections /\ column.to \in D!Sections
  BY ColumnIsBetween DEF ExportInv, D!TypeOK
<1> DEFINE r == [of |-> t, to |-> j]
<1>2. stored \in [Ids -> D!Row \cup {None}] /\ r \in D!Row /\ r # None
  BY <1>1 DEF ExportInv, D!TypeOK, D!Row, D!Followed, NullApart
<1>3. r.of = t /\ r.to = j
  OBVIOUS
<1>9. stored' = [stored EXCEPT ![i] = r]
  OBVIOUS
<1> HIDE DEF r
<1>4. D!TypeOK'
  BY <1>2, <1>9 DEF ExportInv, D!TypeOK, D!Followed
<1>5. \A k \in Ids : stored[k] # None => stored'[k] # None /\ stored'[k].of = stored[k].of
  BY <1>2, <1>3, <1>9 DEF ExportInv, RowsLead
<1>6. \A k \in Ids : stored'[k] # None => (k = i /\ stored'[k] = r) \/ (stored[k] # None /\ stored'[k] = stored[k])
  BY <1>2, <1>9
<1>7. RowsLead'
  <2>1. \A k, m \in Ids : m \in spent /\ LeadsTo(k, m) => LeadsTo(k, m)'
    BY <1>5, <1>6 DEF LeadsTo, ExportInv, RowsLead
  <2>2. j # None => LeadsTo(i, j)'
    BY <1>5, <1>6 DEF LeadsTo, ExportInv, RowsLead
  <2>3. \A k \in Ids : stored'[k] # None =>
        /\ k \in spent' /\ stored'[k].of \in {column.of, column.to}
        /\ stored'[k].to # None => stored'[k].of = column.of /\ stored'[k].to \in spent'
    BY <1>3, <1>6 DEF ExportInv, RowsLead, D!Followed
  <2>4. ASSUME NEW k \in Ids, NEW m \in Ids, stored'[k] # None, stored'[k].to = m, m # None PROVE LeadsTo(k, m)'
    BY <1>3, <1>6, <2>1, <2>2, <2>4 DEF ExportInv, RowsLead
  <2>5. \A k \in Ids : stored'[k] # None => stored'[k].to \in Ids \cup {None}
    BY <1>4 DEF D!TypeOK, D!Row
  <2> QED BY <2>3, <2>4, <2>5 DEF RowsLead, LeadsTo, D!Followed
<1>8. AskedLead'
  BY <1>6, <1>5 DEF ExportInv, AskedLead
<1>10. Kept
  BY <1>5, <1>6 DEF Kept, ExportInv, RowsLead
<1> QED BY <1>4, <1>7, <1>8, <1>10, WritesKeepBundle

(* Rows that go, with what refers to them gone, cleared or astray.         *)
LEMMA RowsGo ==
  ASSUME NullApart, ExportInv, NEW lost \in SUBSET Ids, NEW nulled \in BOOLEAN,
         UNCHANGED <<column, bundle, read, spent, asked, planned, born>>,
         stored' = D!Left(lost, nulled), gone' = gone \cup lost,
         stray \subseteq stray', stray' \subseteq Ids \X Ids,
         \A i \in Ids \ lost : stored[i] # None /\ stored[i].to \in lost => nulled \/ <<i, stored[i].to>> \in stray'
  PROVE  ExportInv'
<1>1. stored \in [Ids -> D!Row \cup {None}]
  BY DEF ExportInv, D!TypeOK
<1>2. \A i \in lost : stored'[i] = None
  BY DEF D!Left
<1>3. ASSUME NEW i \in Ids \ lost
      PROVE  \/ stored'[i] = stored[i] /\ (stored[i] # None /\ stored[i].to \in lost => <<i, stored[i].to>> \in stray')
             \/ /\ stored[i] # None /\ stored'[i] # None /\ stored'[i] \in D!Row
                /\ stored'[i].of = stored[i].of /\ stored'[i].to = None
  <2>1. CASE stored[i] # None /\ stored[i].to \in lost /\ nulled
    <3>1. stored'[i] = [stored[i] EXCEPT !.to = None] /\ stored[i] \in D!Row
      BY <1>1, <2>1 DEF D!Left, D!Present
    <3>2. stored'[i] = [of |-> stored[i].of, to |-> None] /\ stored'[i] \in D!Row
      BY <3>1 DEF D!Row
    <3>3. stored'[i].of = stored[i].of /\ stored'[i].to = None
      BY <3>2
    <3>4. stored'[i] # None
      BY <3>2 DEF NullApart
    <3> QED BY <2>1, <3>2, <3>3, <3>4
  <2>2. CASE ~(stored[i] # None /\ stored[i].to \in lost /\ nulled)
    BY <2>2 DEF D!Left, D!Present
  <2> QED BY <2>1, <2>2
<1>4. stored' \in [Ids -> D!Row \cup {None}]
  <2>1. stored' = [i \in Ids |-> stored'[i]]
    BY DEF D!Left
  <2>2. \A i \in Ids : stored'[i] \in D!Row \cup {None}
    BY <1>1, <1>2, <1>3
  <2> HIDE DEF D!Left
  <2> QED BY <2>1, <2>2
<1>5. D!TypeOK'
  BY <1>4 DEF ExportInv, D!TypeOK, D!Followed
<1>6. \A i, j \in Ids : LeadsTo(i, j) /\ j \notin lost => LeadsTo(i, j)'
  BY <1>3 DEF LeadsTo
<1>7. RowsLead'
  <2>1. ASSUME NEW i \in Ids, stored'[i] # None
        PROVE  i \in spent' /\ i \notin lost /\ stored[i] # None /\ stored'[i].of = stored[i].of /\ stored'[i].of \in {column.of, column.to}
    BY <1>2, <1>3, <2>1 DEF ExportInv, RowsLead, D!Followed
  <2>2. ASSUME NEW i \in Ids, NEW j \in Ids, stored'[i] # None, stored'[i].to = j, j # None
        PROVE  stored[i].of = column.of /\ j \in spent /\ LeadsTo(i, j)'
    <3>1. i \notin lost /\ stored[i] # None /\ stored[i] = stored'[i] /\ (j \in lost => <<i, j>> \in stray')
      BY <1>3, <2>1, <2>2
    <3>2. stored[i].of = column.of /\ j \in spent /\ LeadsTo(i, j)
      BY <3>1, <2>2 DEF ExportInv, RowsLead
    <3>3. j \in lost => LeadsTo(i, j)'
      BY <1>2, <3>1 DEF LeadsTo
    <3> QED BY <1>6, <3>2, <3>3
  <2>3. \A i \in Ids : stored'[i] # None => stored'[i].to \in Ids \cup {None}
    BY <1>5 DEF D!TypeOK, D!Row
  <2> QED BY <2>1, <2>2, <2>3 DEF RowsLead, LeadsTo, D!Followed
<1>8. AskedLead'
  <2>1. ASSUME NEW j \in Ids, stored'[j] # None PROVE stored[j] # None /\ stored'[j].of = stored[j].of
    BY <1>2, <1>3, <2>1
  <2>2. \A i, j \in Ids : <<i, j>> \in asked => j \in spent /\ (stored'[j] # None => stored'[j].of = column.to)
    BY <2>1 DEF ExportInv, AskedLead
  <2>3. \A g, i, j \in Ids : planned[g] # None /\ i \in DOMAIN planned[g] /\ planned[g][i] = j /\ j # None =>
           j \in spent /\ (stored'[j] # None => stored'[j].of = column.to)
    BY <2>1 DEF ExportInv, AskedLead
  <2> QED BY <2>2, <2>3 DEF AskedLead
<1>9. Kept
  BY <1>2, <1>3 DEF Kept
<1> QED BY <1>5, <1>7, <1>8, <1>9, WritesKeepBundle

(* The SELECT of a section: what it finds is known, awaited or explained.  *)
LEMMA ReadStep ==
  ASSUME NullApart, ExportInv, NEW t \in D!Followed, D!reads(t)
  PROVE  ExportInv'
<1>1. column.of \in D!Sections /\ column.to \in D!Sections /\ t \in {column.of, column.to}
  BY ColumnIsBetween DEF ExportInv, D!TypeOK, D!Followed
<1>2. /\ t \notin read /\ read' = read \cup {t} /\ bundle \subseteq bundle'
      /\ UNCHANGED <<column, stored, spent, asked, planned, stray, born, gone>>
      /\ \A u \in D!Followed \ read : D!Place(t) <= D!Place(u)
  BY DEF D!reads, D!rows
<1>3. \A e \in bundle' : e \in bundle \/ (e.of = t /\ e.id \in Ids /\ stored[e.id] # None /\ stored[e.id].of = t /\ e.to = stored[e.id].to)
  BY DEF D!reads, D!RowsOf, D!Present
<1>4. \A i \in Ids : stored[i] # None /\ stored[i].of = t => i \in D!Exported(t)'
  <2>1. ASSUME NEW i \in Ids, stored[i] # None, stored[i].of = t PROVE [of |-> t, id |-> i, to |-> stored[i].to] \in bundle'
    BY <2>1 DEF D!reads, D!RowsOf, D!Present
  <2>2. ASSUME NEW i \in Ids, stored[i] # None, stored[i].of = t PROVE \E e \in bundle' : e.of = t /\ e.id = i
    BY <2>1, <2>2
  <2> QED BY <2>2 DEF D!Exported
<1>5. \A u : D!Exported(u) \subseteq D!Exported(u)'
  BY <1>2 DEF D!Exported
<1>6. D!TypeOK'
  BY <1>1, <1>2 DEF ExportInv, D!TypeOK, D!Followed, D!reads, D!RowsOf, D!Present, D!Row
<1>7. RowsLead' /\ AskedLead'
  BY <1>2 DEF ExportInv, RowsLead, AskedLead, LeadsTo, D!Followed
<1>8. \A u \in D!Followed : D!Place(u) \in Nat /\ (u # t => D!Place(u) # D!Place(t))
  BY <1>1, PlaceIsOne DEF D!Followed
<1>9. \A u \in D!Followed : D!Place(u) < D!Place(t) => u \in read
  BY <1>2, <1>8
<1>10. ReadInOrder'
  BY <1>2, <1>9 DEF ExportInv, ReadInOrder, D!Followed
<1>11. ReadIsBundled'
  BY <1>2, <1>4, <1>5 DEF ExportInv, ReadIsBundled
<1>12. ASSUME NEW e \in bundle, D!Unknown(e)' PROVE e.of = column'.of /\ e.to \in spent' /\ (D!Explained(e)' \/ Awaited(e.to)')
  <2>1. D!Unknown(e)
    BY <1>2, <1>12, <1>5 DEF D!Unknown
  <2>2. e.of \in read /\ e.of = column.of /\ e.to \in spent /\ (D!Explained(e) \/ Awaited(e.to)) /\ e.to \in Ids
    BY <2>1 DEF ExportInv, BundleLeads, D!TypeOK
  <2>3. D!Explained(e) => D!Explained(e)'
    BY <1>2 DEF D!Explained
  <2>4. CASE Awaited(e.to) /\ t = column.to
    <3>1. D!Place(column.of) < D!Place(column.to)
      BY <1>2, <1>8, <2>2, <2>4 DEF ExportInv, ReadInOrder, D!Followed
    <3>2. e.to \in gone
      BY <1>2, <1>4, <1>12, <2>2, <2>4 DEF Awaited, D!Unknown
    <3> QED BY <1>2, <2>2, <3>1, <3>2 DEF D!Explained
  <2>5. CASE Awaited(e.to) /\ t # column.to
    BY <1>2, <2>2, <2>5 DEF Awaited
  <2> QED BY <1>2, <2>2, <2>3, <2>4, <2>5
<1>13. ASSUME NEW e \in bundle', e \notin bundle, D!Unknown(e)' PROVE e.of = column'.of /\ e.to \in spent' /\ (D!Explained(e)' \/ Awaited(e.to)')
  <2>1. e.of = t /\ e.id \in Ids /\ stored[e.id] # None /\ stored[e.id].of = t /\ e.to = stored[e.id].to /\ e.to # None
    BY <1>3, <1>13 DEF D!Unknown
  <2>2. t = column.of /\ e.to \in spent /\ LeadsTo(e.id, e.to)
    BY <2>1 DEF ExportInv, RowsLead
  <2>3. e.to \in Ids
    BY <2>2 DEF ExportInv, D!TypeOK
  <2>4. CASE <<e.id, e.to>> \in stray
    BY <1>2, <2>1, <2>2, <2>4 DEF D!Explained
  <2>5. CASE stored[e.to] # None /\ stored[e.to].of = column.to
    <3>1. CASE column.to = t
      BY <1>2, <1>4, <1>13, <2>3, <2>5, <3>1 DEF D!Unknown
    <3>2. CASE column.to # t /\ column.to \notin read
      BY <1>2, <2>1, <2>2, <2>5, <3>2 DEF Awaited
    <3>3. CASE column.to # t /\ column.to \in read
      <4>1. e.to \in born
        BY <1>2, <1>5, <1>13, <2>3, <2>5, <3>3 DEF ExportInv, ReadIsBundled, D!Unknown
      <4>2. D!Place(column.to) < D!Place(column.of)
        BY <1>2, <1>8, <2>2, <3>3 DEF ExportInv, ReadInOrder, D!Followed
      <4> QED BY <1>2, <2>1, <2>2, <4>1, <4>2 DEF D!Explained
    <3> QED BY <3>1, <3>2, <3>3
  <2> QED BY <2>2, <2>4, <2>5 DEF LeadsTo
<1>14. BundleLeads'
  <2>1. \A e \in bundle' : e.of \in read'
    BY <1>2, <1>3 DEF ExportInv, BundleLeads
  <2> QED BY <2>1, <1>12, <1>13 DEF BundleLeads
<1> QED BY <1>6, <1>7, <1>10, <1>11, <1>14 DEF ExportInv

(* The requests that write a reference. *)
LEMMA WriteStep ==
  ASSUME NullApart, ExportInv, NEW i \in Ids, NEW t \in D!Followed, NEW j \in Ids \cup {None},
         \/ D!creates(i, t, j) \/ D!updates(i, j) \/ D!update_group_mapping(i, j)
         \/ j \in Ids /\ D!create_grant_writes(i, j)
  PROVE  ExportInv'
<1>1. CASE D!creates(i, t, j)
  <2>1. j # None => t = column.of /\ j \in spent /\ stored[j] # None /\ stored[j].of = column.to
    BY <1>1 DEF D!creates, D!RowsOf, D!Present, ExportInv, RowsLead
  <2>2. stray' \subseteq Ids \X Ids /\ born' \subseteq Ids
    BY <1>1 DEF D!creates, ExportInv, D!TypeOK
  <2> QED BY <1>1, <2>1, <2>2, RowIsWritten DEF D!creates, D!export
<1>2. CASE D!updates(i, j)
  <2>1. stored[i] # None /\ stored[i].of = column.of /\ i \in spent /\ column.of \in D!Followed
    BY <1>2 DEF D!updates, D!RowsOf, D!Present, ExportInv, RowsLead, D!Followed
  <2>2. j # None => j \in spent /\ stored[j] # None /\ stored[j].of = column.to
    BY <1>2 DEF D!updates, D!RowsOf, D!Present, ExportInv, RowsLead
  <2>3. stray' \subseteq Ids \X Ids /\ born' \subseteq Ids /\ spent' = spent \cup {i}
    BY <1>2, <2>1 DEF D!updates, ExportInv, D!TypeOK
  <2>4. UNCHANGED <<column, bundle, read, planned, gone, asked, stray, born>> /\ stored' = [stored EXCEPT ![i] = [of |-> column.of, to |-> j]]
    BY <1>2 DEF D!updates, D!export
  <2> QED BY <2>1, <2>2, <2>3, <2>4, RowIsWritten
<1>3. CASE D!update_group_mapping(i, j)
  <2>1. stored[i] # None /\ stored[i].of = column.of /\ i \in spent /\ column.of \in D!Followed
    BY <1>3 DEF D!update_group_mapping, D!RowsOf, D!Present, ExportInv, RowsLead, D!Followed
  <2>2. j # None => j \in spent /\ ((<<i, j>> \in stray' /\ stored[j] = None) \/ (stored[j] # None /\ stored[j].of = column.to))
    BY <1>3 DEF D!update_group_mapping, D!Astray, D!Present, ExportInv, AskedLead
  <2>3. stray \subseteq stray' /\ stray' \subseteq Ids \X Ids /\ born' \subseteq Ids /\ spent' = spent \cup {i}
    BY <1>3, <2>1 DEF D!update_group_mapping, D!Astray, ExportInv, D!TypeOK
  <2>4. UNCHANGED <<column, bundle, read, planned, gone, born>> /\ asked' \subseteq asked /\ stored' = [stored EXCEPT ![i] = [of |-> column.of, to |-> j]]
    BY <1>3 DEF D!update_group_mapping, D!export
  <2> QED BY <2>1, <2>2, <2>3, <2>4, RowIsWritten
<1>4. CASE j \in Ids /\ D!create_grant_writes(i, j)
  <2>1. column.of \in D!Followed
    BY DEF D!Followed
  <2>2. j # None => j \in spent /\ ((<<i, j>> \in stray' /\ stored[j] = None) \/ (stored[j] # None /\ stored[j].of = column.to))
    BY <1>4 DEF D!create_grant_writes, D!Astray, D!Present, ExportInv, AskedLead
  <2>3. stray \subseteq stray' /\ stray' \subseteq Ids \X Ids /\ born \subseteq born' /\ born' \subseteq Ids
    BY <1>4 DEF D!create_grant_writes, D!Astray, ExportInv, D!TypeOK
  <2>4. /\ UNCHANGED <<column, bundle, read, planned, gone>> /\ asked' \subseteq asked /\ i \notin spent /\ i \in born' /\ spent' = spent \cup {i}
        /\ stored' = [stored EXCEPT ![i] = [of |-> column.of, to |-> j]]
    BY <1>4 DEF D!create_grant_writes, D!export
  <2> QED BY <2>1, <2>2, <2>3, <2>4, RowIsWritten
<1> QED BY <1>1, <1>2, <1>3, <1>4

(* The checks before a reference without a foreign key is written. *)
LEMMA AskStep ==
  ASSUME NullApart, ExportInv, NEW i \in Ids, NEW j \in Ids,
         D!create_grant_checks(i, j) \/ D!_validate_asset_group_ids(i, j)
  PROVE  ExportInv'
<1>1. /\ UNCHANGED <<column, stored, spent, planned, stray, born, gone, bundle, read>>
      /\ asked' = asked \cup {<<i, j>>} /\ stored[j] # None /\ stored[j].of = column.to /\ j \in spent
  BY DEF D!create_grant_checks, D!_validate_asset_group_ids, D!RowsOf, D!Present, D!export, ExportInv, RowsLead
<1>2. D!TypeOK'
  BY <1>1 DEF ExportInv, D!TypeOK, D!Followed
<1>3. RowsLead'
  BY <1>1 DEF ExportInv, RowsLead, LeadsTo, D!Followed
<1>4. AskedLead'
  BY <1>1 DEF ExportInv, AskedLead
<1>5. Kept
  BY <1>1 DEF Kept
<1> QED BY <1>2, <1>3, <1>4, <1>5, WritesKeepBundle

(* What the deletion of an asset group reads of the mappings. *)
LEMMA PlanStep ==
  ASSUME NullApart, ExportInv, NEW g \in Ids, D!delete_group_reads(g)
  PROVE  ExportInv'
<1> DEFINE M == D!RowsOf("scim_groups")
           p == [i \in M |-> stored[i].to]
<1>1. UNCHANGED <<column, stored, spent, asked, stray, born, gone, bundle, read>> /\ planned' = [planned EXCEPT ![g] = p]
  BY DEF D!delete_group_reads, D!export
<1>2. M \subseteq Ids /\ DOMAIN p = M /\ \A i \in M : stored[i] # None /\ p[i] = stored[i].to
  BY DEF D!RowsOf, D!Present
<1>3. \A i \in M : p[i] \in Ids \cup {None}
  BY <1>2 DEF ExportInv, D!TypeOK, D!Row
<1>4. p \in [M -> Ids \cup {None}]
  BY <1>3
<1> HIDE DEF M, p
<1>5. D!TypeOK'
  <2>1. p \in UNION {[X -> Ids \cup {None}] : X \in SUBSET Ids}
    BY <1>2, <1>4
  <2>2. planned' \in [Ids -> {None} \cup UNION {[X -> Ids \cup {None}] : X \in SUBSET Ids}]
    BY <1>1, <2>1 DEF ExportInv, D!TypeOK
  <2> QED BY <1>1, <2>2 DEF ExportInv, D!TypeOK, D!Followed
<1>6. RowsLead'
  BY <1>1 DEF ExportInv, RowsLead, LeadsTo, D!Followed
<1>7. AskedLead'
  <2>1. ASSUME NEW i \in M, NEW j \in Ids, p[i] = j, j # None
        PROVE  j \in spent /\ (stored[j] # None => stored[j].of = column.to)
    <3>1. stored[i] # None /\ stored[i].to = j
      BY <1>2, <2>1
    <3> QED BY <1>2, <2>1, <3>1 DEF ExportInv, RowsLead, LeadsTo
  <2>2. planned'[g] = p /\ \A h \in Ids \ {g} : planned'[h] = planned[h]
    BY <1>1 DEF ExportInv, D!TypeOK
  <2>3. ASSUME NEW h \in Ids, NEW i \in Ids, NEW j \in Ids, planned'[h] # None, i \in DOMAIN planned'[h], planned'[h][i] = j, j # None
        PROVE  j \in spent /\ (stored[j] # None => stored[j].of = column.to)
    <3>1. CASE h = g
      BY <1>2, <2>1, <2>2, <2>3, <3>1
    <3>2. CASE h # g
      BY <2>2, <2>3, <3>2 DEF ExportInv, AskedLead
    <3> QED BY <3>1, <3>2
  <2> QED BY <1>1, <2>3 DEF ExportInv, AskedLead
<1>8. Kept
  BY <1>1 DEF Kept
<1> QED BY <1>5, <1>6, <1>7, <1>8, WritesKeepBundle

(* A row is deleted with all that cascades from it. *)
LEMMA DeletionStep ==
  ASSUME NullApart, ExportInv, NEW lost \in SUBSET Ids, D!delete_site(lost)
  PROVE  ExportInv'
<1> DEFINE nulled == D!Ruled(column, "SET NULL")
<1>1. nulled \in BOOLEAN
  BY DEF D!Ruled
<1>2. /\ UNCHANGED <<column, bundle, read, spent, asked, planned, born>>
      /\ stored' = D!Left(lost, nulled) /\ gone' = gone \cup lost
  BY DEF D!delete_site, D!export
<1>3. stored \in [Ids -> D!Row \cup {None}] /\ stray \subseteq Ids \X Ids
  BY DEF ExportInv, D!TypeOK
<1>4. stray \subseteq stray' /\ stray' \subseteq Ids \X Ids
  <2>1. ASSUME NEW i \in Ids, stored[i] # None, stored[i].to \in lost PROVE <<i, stored[i].to>> \in Ids \X Ids
    BY <2>1
  <2> QED BY <1>3, <2>1 DEF D!delete_site, D!Present
<1>5. ASSUME NEW i \in Ids \ lost, stored[i] # None, stored[i].to \in lost PROVE nulled \/ <<i, stored[i].to>> \in stray'
  <2>1. ~D!Ruled(column, "CASCADE") /\ ~D!Ruled(column, "RESTRICT")
    BY <1>5 DEF D!delete_site, D!Present
  <2>2. CASE ~nulled
    <3>1. column.rules \subseteq {"CASCADE", "SET NULL", "RESTRICT"}
      BY ColumnHasRules DEF ExportInv, D!TypeOK
    <3>2. D!Unguarded(column)
      BY <2>1, <2>2, <3>1 DEF D!Unguarded, D!Ruled
    <3> QED BY <1>5, <3>2 DEF D!delete_site, D!Present
  <2> QED BY <2>2
<1> HIDE DEF nulled
<1> QED BY <1>1, <1>2, <1>4, <1>5, RowsGo
(* An asset group is deleted, with what was read of the mappings written back. *)
LEMMA GroupStep ==
  ASSUME NullApart, ExportInv, NEW g \in Ids, NEW W \in SUBSET Ids, D!delete_group(g, W)
  PROVE  ExportInv'
<1>1. stored \in [Ids -> D!Row \cup {None}] /\ column.of \in D!Sections /\ column.of = "scim_groups"
  BY ColumnIsBetween DEF ExportInv, D!TypeOK, D!delete_group
<1>2. PICK M \in SUBSET Ids : planned[g] \in [M -> Ids \cup {None}] /\ W \subseteq M
  BY DEF ExportInv, D!TypeOK, D!delete_group
<1>3. \A i \in W : stored[i] # None /\ stored[i].of = column.of
  BY <1>1 DEF D!delete_group, D!RowsOf, D!Present
<1> DEFINE held(i) == D!retained_targets(g, i)
           r(i) == [of |-> column.of, to |-> held(i)]
<1>4. \A i \in W : held(i) \in Ids \cup {None} /\ (held(i) # None => held(i) = planned[g][i] /\ held(i) # g)
  BY <1>2 DEF D!retained_targets
<1> HIDE DEF held
<1>5. \A i \in W : r(i) \in D!Row /\ r(i) # None /\ r(i).of = column.of /\ r(i).to = held(i)
  BY <1>1, <1>4 DEF NullApart, D!Row
<1>6. stored' = [i \in Ids |-> IF i = g THEN None ELSE IF i \in W THEN r(i) ELSE stored[i]]
  BY DEF D!delete_group, held
<1> HIDE DEF r
<1>7. /\ UNCHANGED <<column, bundle, read, spent, asked, born>> /\ planned' = [planned EXCEPT ![g] = None]
      /\ gone \subseteq gone' /\ (stored[g] # None => g \in gone') /\ gone' \subseteq gone \cup {g}
  BY DEF D!delete_group, D!export, D!Present
<1>8. /\ stray \subseteq stray' /\ stray' \subseteq Ids \X Ids
      /\ \A i \in W : planned[g][i] # g /\ planned[g][i] # None /\ stored[planned[g][i]] = None => <<i, planned[g][i]>> \in stray'
      /\ \A i \in Ids \ W : stored[i] # None /\ stored[i].of = column.of /\ stored[i].to = g => <<i, g>> \in stray'
  <2>1. stray \subseteq Ids \X Ids
    BY DEF ExportInv, D!TypeOK
  <2>2. \A i \in W : planned[g][i] # None => <<i, planned[g][i]>> \in Ids \X Ids
    BY <1>2
  <2> QED BY <1>1, <2>1, <2>2 DEF D!delete_group, D!Present, D!RowsOf
<1>9. D!TypeOK'
  <2>1. stored' \in [Ids -> D!Row \cup {None}]
    BY <1>1, <1>5, <1>6
  <2>2. planned' \in [Ids -> {None} \cup UNION {[X -> Ids \cup {None}] : X \in SUBSET Ids}]
    BY <1>7 DEF ExportInv, D!TypeOK
  <2> QED BY <1>7, <1>8, <2>1, <2>2 DEF ExportInv, D!TypeOK, D!Followed
<1>10. /\ stored'[g] = None
       /\ \A i \in Ids \ {g} : (stored[i] # None <=> stored'[i] # None) /\ (stored[i] # None => stored'[i].of = stored[i].of)
  BY <1>3, <1>5, <1>6
<1>11. \A i \in Ids \ {g} : (i \in W /\ stored'[i].to = held(i)) \/ (i \notin W /\ stored'[i] = stored[i])
  BY <1>5, <1>6
<1>12. ASSUME NEW i \in Ids, NEW j \in Ids, stored'[i] # None, stored'[i].to = j, j # None
       PROVE  stored'[i].of = column.of /\ j \in spent /\ LeadsTo(i, j)'
  <2>1. i # g /\ stored[i] # None /\ stored'[i].of = stored[i].of
    BY <1>10, <1>12
  <2>2. CASE i \in W
    <3>1. j = planned[g][i] /\ j # g /\ planned[g] # None /\ i \in DOMAIN planned[g]
      BY <1>2, <1>4, <1>11, <1>12, <2>1, <2>2 DEF D!delete_group
    <3>2. j \in spent /\ (stored[j] # None => stored[j].of = column.to)
      BY <1>12, <3>1 DEF ExportInv, AskedLead
    <3>3. LeadsTo(i, j)'
      BY <1>7, <1>8, <1>10, <1>12, <2>2, <3>1, <3>2 DEF LeadsTo
    <3> QED BY <1>3, <2>1, <2>2, <3>2, <3>3
  <2>3. CASE i \notin W
    <3>1. stored'[i] = stored[i]
      BY <1>11, <2>1, <2>3
    <3>2. stored[i].of = column.of /\ j \in spent /\ LeadsTo(i, j)
      BY <1>12, <2>1, <3>1 DEF ExportInv, RowsLead
    <3>3. LeadsTo(i, j)'
      BY <1>7, <1>8, <1>10, <1>12, <2>1, <2>3, <3>1, <3>2 DEF LeadsTo
    <3> QED BY <3>1, <3>2, <3>3
  <2> QED BY <2>2, <2>3
<1>13. RowsLead'
  <2>1. \A i \in Ids : stored'[i] # None => i \in spent' /\ stored'[i].of \in {column.of, column.to}
    BY <1>7, <1>10 DEF ExportInv, RowsLead, D!Followed
  <2>2. \A i \in Ids : stored'[i] # None => stored'[i].to \in Ids \cup {None}
    BY <1>9 DEF D!TypeOK, D!Row
  <2> QED BY <1>7, <1>12, <2>1, <2>2 DEF RowsLead, LeadsTo, D!Followed
<1>14. AskedLead'
  <2>1. \A j \in Ids : (stored[j] # None => stored[j].of = column.to) => (stored'[j] # None => stored'[j].of = column'.to)
    BY <1>7, <1>10
  <2>2. \A h \in Ids : planned'[h] # None => planned'[h] = planned[h]
    BY <1>7 DEF ExportInv, D!TypeOK
  <2> QED BY <1>7, <2>1, <2>2 DEF ExportInv, AskedLead
<1>15. Kept
  BY <1>7, <1>8, <1>10 DEF Kept
<1> QED BY <1>9, <1>13, <1>14, <1>15, WritesKeepBundle

(* Every step of the export and of those around it keeps the invariant. *)
LEMMA NextExport == NullApart /\ ExportInv /\ [D!Next]_(D!vars) => ExportInv'
<1> SUFFICES ASSUME NullApart, ExportInv, [D!Next]_(D!vars) PROVE ExportInv'
  OBVIOUS
<1>1. CASE UNCHANGED D!vars
  <2>1. UNCHANGED <<column, stored, spent, asked, planned, stray, born, gone, bundle, read>>
    BY <1>1 DEF D!vars, D!rows, D!export
  <2> QED BY <2>1 DEF ExportInv, D!TypeOK, RowsLead, AskedLead, ReadInOrder, ReadIsBundled, BundleLeads, LeadsTo,
             Awaited, D!Followed, D!Exported, D!Unknown, D!Explained
<1>2. CASE D!export_data
  BY <1>2 DEF D!export_data, ExportInv, D!TypeOK, RowsLead, AskedLead, ReadInOrder, ReadIsBundled, BundleLeads,
     LeadsTo, D!Followed
<1>3. CASE \E i \in Ids, t \in D!Followed, j \in Ids \cup {None} : D!creates(i, t, j)
  BY <1>3, WriteStep
<1>4. CASE \E i \in Ids, j \in Ids \cup {None} : D!updates(i, j) \/ D!update_group_mapping(i, j)
  <2>1. column.of \in D!Followed
    BY DEF D!Followed
  <2> QED BY <1>4, <2>1, WriteStep
<1>5. CASE \E i \in Ids, j \in Ids :
             D!create_grant_checks(i, j) \/ D!create_grant_writes(i, j) \/ D!_validate_asset_group_ids(i, j)
  <2>1. column.of \in D!Followed
    BY DEF D!Followed
  <2> QED BY <1>5, <2>1, AskStep, WriteStep
<1>6. CASE \E lost \in SUBSET Ids : D!delete_site(lost)
  BY <1>6, DeletionStep
<1>8. CASE \E g \in Ids : D!delete_group_reads(g) \/ \E W \in SUBSET Ids : D!delete_group(g, W)
  BY <1>8, PlanStep, GroupStep
<1>7. CASE \E t \in D!Followed : D!reads(t)
  BY <1>7, ReadStep
<1> QED BY <1>1, <1>2, <1>3, <1>4, <1>5, <1>6, <1>7, <1>8 DEF D!Next

(***************************************************************************)
(* Whatever is inserted, changed and deleted between the SELECTs of an     *)
(* export, a reference of the bundle is to a row of the bundle, unless its *)
(* row was deleted after the reference was read, inserted after its        *)
(* section was, or gone before; and validate_import has nothing to say of  *)
(* an organisation that nothing happened to: for every column and any rows.*)
(***************************************************************************)
THEOREM TasksExportIsClosed ==
  ASSUME NullApart
  PROVE  D!Spec => []ExportIsClosed
<1>1. ExportInv => ExportIsClosed
  <2> SUFFICES ASSUME ExportInv, read = D!Followed PROVE (\A e \in bundle : D!Unknown(e) => D!Explained(e))
                        /\ (born = {} /\ gone = {} /\ stray = {} => D!validate_import = {})
    BY DEF ExportIsClosed, D!ExportIsClosed
  <2>1. \A j : ~Awaited(j)
    BY DEF Awaited, D!Followed
  <2>2. \A e \in bundle : D!Unknown(e) => D!Explained(e)
    BY <2>1 DEF ExportInv, BundleLeads
  <2>3. born = {} /\ gone = {} /\ stray = {} => \A e : ~D!Explained(e)
    BY DEF D!Explained
  <2> QED BY <2>2, <2>3 DEF D!validate_import
<1> QED BY <1>1, InitExport, NextExport, PTL DEF D!Spec
=============================================================================
