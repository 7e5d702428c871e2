---------------------------- MODULE ControlProofs ----------------------------
(***************************************************************************)
(* What administrators control: a workflow run, the relays, the credential *)
(* vault, the accounts and the version of the host, each for any number of *)
(* whatever it counts; and the results of one scan job of a run.  Workflow *)
(* is extended; the others are the instances R, C, A and H of MCControl    *)
(* and Q of MCWorkflow.                                                    *)
(***************************************************************************)
EXTENDS MCControl, MCWorkflow, Sequences, TLAPS

----------------------------------------------------------------------------
(***************************************************************************)
(* The approval gate of a workflow run, for any number of handlers in      *)
(* progress at once and any number of scan jobs.                           *)
(*                                                                         *)
(* A handler writes back the stages it read, however stale, so what holds  *)
(* of the row must hold of every snapshot too (Clean): until an approver   *)
(* approves, no copy of the run is approved and none has touched a stage   *)
(* behind the gate.                                                        *)
(***************************************************************************)
Clean(r) == ~r.approved /\ \A k \in Intrusive : r.stages[k] \in {"pending", "skipped"}

IInv == /\ TypeOK
        /\ "approve" \notin decisions =>
              Clean(run) /\ \A s \in Sessions : sess[s] \in Busy => Clean(sess[s].snap)

(* Of some stages one is the first. *)
LEMMA FirstStage ==
  ASSUME NEW S \in SUBSET Stages, S # {}
  PROVE  \E x \in S : \A y \in S : x <= y
<1> SUFFICES ASSUME \A x \in S : \E y \in S : y < x PROVE FALSE
  BY DEF Stages
<1>0. S \subseteq 1..11
  BY DEF Stages
<1>1. \A k \in 1..11 : S \cap 1..(k - 1) = {} => S \cap 1..k = {}
  BY <1>0
<1>2. S \cap 1..0 = {} /\ S \cap 1..1 = {} /\ S \cap 1..2 = {} /\ S \cap 1..3 = {}
  BY <1>0, <1>1
<1>3. S \cap 1..4 = {} /\ S \cap 1..5 = {} /\ S \cap 1..6 = {}
  BY <1>1, <1>2
<1>4. S \cap 1..7 = {} /\ S \cap 1..8 = {} /\ S \cap 1..9 = {}
  BY <1>1, <1>3
<1>5. S \cap 1..10 = {} /\ S \cap 1..11 = {}
  BY <1>1, <1>4
<1> QED BY <1>0, <1>5

(* The active stage found by _current is active; if it finds none, none is. *)
LEMMA CurrentActive ==
  ASSUME NEW r \in Runs
  PROVE  /\ _current(r) \in 0..11
         /\ _current(r) \in Stages => r.stages[_current(r)] \in {"running", "awaiting_approval"}
         /\ _current(r) = 0 => \A k \in Stages : r.stages[k] \notin {"running", "awaiting_approval"}
<1> DEFINE active == {k \in Stages : r.stages[k] \in {"running", "awaiting_approval"}}
<1>1. CASE active = {}
  BY <1>1 DEF _current, Stages
<1>2. CASE active # {}
  <2>1. \E x \in active : \A y \in active : x <= y
    BY <1>2, FirstStage
  <2>2. Min(active) \in active
    BY <2>1 DEF Min
  <2> QED BY <1>2, <2>2 DEF _current, Stages
<1> QED BY <1>1, <1>2

(* Starting the next stage keeps a run well formed and clean. *)
LEMMA ActivateNext ==
  ASSUME NEW r \in Runs, NEW i \in 0..11
  PROVE  /\ _activate_next(r, i) \in Runs
         /\ Clean(r) => Clean(_activate_next(r, i))
<1>1. \A k \in Stages : Started(k) \in {"running", "awaiting_approval"}
  BY DEF Started
<1>2. _activate_next(r, i) \in Runs
  BY <1>1 DEF _activate_next, Runs, StageStatus
<1>3. ASSUME Clean(r) PROVE Clean(_activate_next(r, i))
  <2>1. \A k \in Intrusive : ~_applicable(k, r)
    BY <1>3 DEF Clean, _applicable
  <2>2. Intrusive \subseteq Stages
    BY DEF Intrusive, Stages, VALIDATION, CLEANUP
  <2>3. _activate_next(r, i).approved = r.approved
    BY DEF _activate_next, Runs
  <2>4. \A k \in Intrusive : _activate_next(r, i).stages[k] \in {r.stages[k], "skipped"}
    BY <2>1, <2>2 DEF _activate_next, Runs
  <2> QED BY <1>3, <2>3, <2>4 DEF Clean
<1> QED BY <1>2, <1>3

(* advance keeps a run well formed, and clean whatever the outcome of the stage. *)
LEMMA Advance ==
  ASSUME NEW r \in Runs, NEW o \in Outcomes
  PROVE  /\ advance(r, o) \in Runs
         /\ Clean(r) => Clean(advance(r, o))
<1> DEFINE c == _current(r)
           a == [r EXCEPT !.stages = [k \in Stages |->
                   IF k = c THEN o
                   ELSE IF o = "failed" /\ k > c /\ k \notin TAIL /\ r.stages[k] = "pending"
                        THEN "skipped"
                   ELSE r.stages[k]]]
<1>1. c \in 0..11 /\ (c \in Stages => r.stages[c] \in {"running", "awaiting_approval"})
  BY CurrentActive
<1> HIDE DEF c
<1>2. a \in Runs
  BY DEF Runs, StageStatus, Outcomes
<1>3. ASSUME Clean(r) PROVE Clean(a)
  <2>1. Intrusive \subseteq Stages
    BY DEF Intrusive, Stages, VALIDATION, CLEANUP
  <2>2. c \notin Intrusive
    BY <1>1, <1>3, <2>1 DEF Clean
  <2>3. \A k \in Intrusive : a.stages[k] \in {r.stages[k], "skipped"}
    BY <2>1, <2>2 DEF Runs
  <2>4. a.approved = r.approved
    BY DEF Runs
  <2> QED BY <1>3, <2>3, <2>4 DEF Clean
<1>4. advance(r, o) = _activate_next(a, c)
  BY DEF advance, c
<1> QED BY <1>1, <1>2, <1>3, <1>4, ActivateNext

(* A failed dispatch or scan keeps a run well formed and clean. *)
LEMMA FailScanning ==
  ASSUME NEW r \in Runs, NEW d \in {"under_test", "not_dispatched", "scan_failed"}
  PROVE  /\ fail_scanning(r, d) \in Runs
         /\ Clean(r) => Clean(fail_scanning(r, d))
<1>1. "failed" \in Outcomes
  BY DEF Outcomes
<1>2. advance(r, "failed") \in Runs /\ (Clean(r) => Clean(advance(r, "failed")))
  BY <1>1, Advance
<1>3. fail_scanning(r, d) \in Runs
  BY <1>2 DEF fail_scanning, Runs
<1>4. /\ fail_scanning(r, d).stages = advance(r, "failed").stages
      /\ fail_scanning(r, d).approved = advance(r, "failed").approved
  BY <1>2 DEF fail_scanning, Runs
<1> QED BY <1>2, <1>3, <1>4 DEF Clean

(* A decision keeps a run well formed; a denial keeps it clean. *)
LEMMA DecideIntrusive ==
  ASSUME NEW r \in Runs, NEW approve \in BOOLEAN
  PROVE  /\ decide_intrusive(r, approve) \in Runs
         /\ Clean(r) /\ ~approve => Clean(decide_intrusive(r, approve))
<1> DEFINE a == [r EXCEPT !.stages[APPROVAL_GATE] = IF approve THEN "completed" ELSE "denied",
                          !.approved = approve]
<1>1. a \in Runs
  BY DEF Runs, StageStatus, APPROVAL_GATE, Stages
<1>2. Clean(r) /\ ~approve => Clean(a)
  BY DEF Runs, Clean, APPROVAL_GATE, Intrusive, VALIDATION, CLEANUP, Stages
<1>3. APPROVAL_GATE \in 0..11
  BY DEF APPROVAL_GATE
<1>4. decide_intrusive(r, approve) = _activate_next(a, APPROVAL_GATE)
  BY DEF decide_intrusive
<1> HIDE DEF a
<1> QED BY <1>1, <1>2, <1>3, <1>4, ActivateNext

(* What a commit leaves in the row is clean if the row and the handler's copies are. *)
LEMMA CommitRow ==
  ASSUME run \in Runs, validated \in BOOLEAN, NEW snap \in Runs, NEW r \in Runs, Commit(snap, r)
  PROVE  /\ run' \in Runs /\ validated' \in BOOLEAN
         /\ Clean(run) /\ Clean(r) => Clean(run')
<1>1. run' \in Runs
  BY DEF Commit, Runs
<1>2. validated' \in BOOLEAN
  BY Zenon DEF Commit
<1>3. run'.stages = r.stages /\ run'.approved \in {run.approved, r.approved}
  BY DEF Commit
<1> QED BY <1>1, <1>2, <1>3 DEF Clean

(* A dispatch leaves the row and the jobs well formed, and the row clean. *)
LEMMA DispatchRow ==
  ASSUME run \in Runs, validated \in BOOLEAN, NEW snap \in Runs, NEW r \in Runs, NEW held,
         NEW ended \in [1..MaxJobs -> {"none", "active", "completed", "failed", "silent"}],
         Dispatch(snap, r, held, ended)
  PROVE  /\ run' \in Runs /\ validated' \in BOOLEAN
         /\ jobs' \in [1..MaxJobs -> {"none", "active", "completed", "failed", "silent"}]
         /\ Clean(run) /\ Clean(r) => Clean(run')
<1>1. CASE ~scanning_stage_active(r) /\ Commit(snap, r) /\ jobs' = ended
  BY <1>1, CommitRow
<1>2. ASSUME NEW d \in {"under_test", "not_dispatched"},
             Commit(snap, fail_scanning(r, d)), jobs' = ended
      PROVE  /\ run' \in Runs /\ validated' \in BOOLEAN
             /\ jobs' \in [1..MaxJobs -> {"none", "active", "completed", "failed", "silent"}]
             /\ Clean(run) /\ Clean(r) => Clean(run')
  BY <1>2, FailScanning, CommitRow
<1>3. ASSUME NEW j \in 1..MaxJobs, Commit(snap, [r EXCEPT !.job = j]), jobs' = [ended EXCEPT ![j] = "active"]
      PROVE  /\ run' \in Runs /\ validated' \in BOOLEAN
             /\ jobs' \in [1..MaxJobs -> {"none", "active", "completed", "failed", "silent"}]
             /\ Clean(run) /\ Clean(r) => Clean(run')
  <2> DEFINE l == [r EXCEPT !.job = j]
  <2>1. l \in Runs
    BY WorkflowConstants DEF Runs
  <2>2. Clean(r) => Clean(l)
    BY DEF Clean, Runs
  <2>3. Commit(snap, l)
    BY <1>3
  <2>4. jobs' \in [1..MaxJobs -> {"none", "active", "completed", "failed", "silent"}]
    BY <1>3
  <2> HIDE DEF l
  <2> QED BY <2>1, <2>2, <2>3, <2>4, CommitRow
<1> QED BY <1>1, <1>2, <1>3 DEF Dispatch

(* A new run, with its precheck started, is clean. *)
LEMMA InitIInv == Init => IInv
<1> SUFFICES ASSUME Init PROVE IInv
  OBVIOUS
<1> DEFINE r == [stages |-> [k \in Stages |-> "pending"], status |-> "pending",
                 approved |-> FALSE, job |-> 0, detail |-> "none"]
<1>1. r \in Runs
  BY WorkflowConstants DEF Runs, StageStatus
<1>2. Clean(r)
  BY DEF Clean, Intrusive, VALIDATION, CLEANUP, Stages
<1>3. run = _activate_next(r, 0)
  BY DEF Init
<1> HIDE DEF r
<1>4. run \in Runs /\ Clean(run)
  BY <1>1, <1>2, <1>3, ActivateNext
<1>5. /\ jobs \in [1..MaxJobs -> {"none", "active", "completed", "failed", "silent"}]
      /\ sess \in [Sessions -> Busy \cup {Idle}] /\ decisions \subseteq {"approve", "deny"}
  BY DEF Init
<1>6. other \in BOOLEAN /\ validated \in BOOLEAN /\ opts \in Options
  BY Zenon DEF Init
<1>7. \A s \in Sessions : sess[s] \notin Busy
  BY DEF Init, Busy, Idle
<1> QED BY <1>4, <1>5, <1>6, <1>7 DEF IInv, TypeOK

(* A handler that begins takes a snapshot of the row. *)
LEMMA BeginStep ==
  ASSUME IInv, NEW s \in Sessions, NEW kind \in {"advance", "decide", "terminal"}, NEW j \in 0..MaxJobs,
         Begin(s, kind, j)
  PROVE  IInv'
<1> DEFINE b == [kind |-> kind, job |-> j, snap |-> run]
<1>1. b \in Busy /\ b.snap = run
  BY DEF IInv, TypeOK, Busy
<1>2. sess' = [sess EXCEPT ![s] = b]
  BY DEF Begin
<1> HIDE DEF b
<1>3. sess' \in [Sessions -> Busy \cup {Idle}]
  BY <1>1, <1>2 DEF IInv, TypeOK
<1>4. \A t \in Sessions : sess'[t] = IF t = s THEN b ELSE sess[t]
  BY <1>2 DEF IInv, TypeOK
<1>5. TypeOK'
  BY <1>3 DEF IInv, TypeOK, Begin
<1>6. ASSUME "approve" \notin decisions, NEW t \in Sessions, sess'[t] \in Busy PROVE Clean(sess'[t].snap)
  BY <1>1, <1>4, <1>6 DEF IInv
<1> QED BY <1>5, <1>6 DEF IInv, Begin, Clean

(* A handler that ends leaves a row that is well formed, and clean unless approved. *)
LEMMA EndStep ==
  ASSUME IInv, NEW s \in Sessions, End(s), UNCHANGED <<opts, other>>,
         run' \in Runs, validated' \in BOOLEAN, decisions' \subseteq {"approve", "deny"},
         jobs' \in [1..MaxJobs -> {"none", "active", "completed", "failed", "silent"}],
         decisions \subseteq decisions',
         "approve" \notin decisions' => Clean(run')
  PROVE  IInv'
<1>1. sess' \in [Sessions -> Busy \cup {Idle}]
  BY DEF IInv, TypeOK, End
<1>2. \A t \in Sessions : sess'[t] = IF t = s THEN Idle ELSE sess[t]
  BY DEF IInv, TypeOK, End
<1>3. Idle \notin Busy
  BY DEF Idle, Busy
<1>4. ASSUME "approve" \notin decisions', NEW t \in Sessions, sess'[t] \in Busy PROVE Clean(sess'[t].snap)
  BY <1>2, <1>3, <1>4 DEF IInv
<1>5. TypeOK'
  BY <1>1 DEF IInv, TypeOK
<1> QED BY <1>4, <1>5 DEF IInv

(* A handler that is not idle holds a snapshot. *)
LEMMA InProgress ==
  ASSUME IInv, NEW s \in Sessions, sess[s].kind \in {"advance", "decide", "terminal"}
  PROVE  /\ sess[s] \in Busy /\ sess[s].snap \in Runs
         /\ "approve" \notin decisions => Clean(sess[s].snap)
<1>1. sess[s] \in Busy
  BY DEF IInv, TypeOK, Idle
<1>2. sess[s].snap \in Runs
  BY <1>1 DEF Busy
<1> QED BY <1>1, <1>2 DEF IInv

(* The write of advance_run keeps the invariant. *)
LEMMA AdvanceStep ==
  ASSUME IInv, NEW s \in Sessions, NEW o \in Outcomes, advance_write(s, o)
  PROVE  IInv'
<1> DEFINE snap == sess[s].snap
<1>1. snap \in Runs /\ ("approve" \notin decisions => Clean(snap))
  BY InProgress DEF advance_write
<1>2. Dispatch(snap, advance(snap, o), jobs, jobs)
  BY DEF advance_write
<1>3. End(s) /\ UNCHANGED <<opts, other, decisions>>
  BY DEF advance_write
<1> HIDE DEF snap
<1>4. /\ advance(snap, o) \in Runs
      /\ Clean(snap) => Clean(advance(snap, o))
  BY <1>1, Advance
<1>5. /\ run' \in Runs /\ validated' \in BOOLEAN
      /\ jobs' \in [1..MaxJobs -> {"none", "active", "completed", "failed", "silent"}]
      /\ Clean(run) /\ Clean(advance(snap, o)) => Clean(run')
  BY <1>1, <1>2, <1>4, DispatchRow DEF IInv, TypeOK
<1>6. "approve" \notin decisions => Clean(run')
  BY <1>1, <1>4, <1>5 DEF IInv
<1>7. decisions' = decisions /\ decisions \subseteq {"approve", "deny"}
  BY <1>3 DEF IInv, TypeOK
<1> QED BY <1>3, <1>5, <1>6, <1>7, EndStep

(* The write of decide_run keeps the invariant: only an approval makes a row unclean. *)
LEMMA DecideStep ==
  ASSUME IInv, NEW s \in Sessions, NEW approve \in BOOLEAN, decide_write(s, approve)
  PROVE  IInv'
<1> DEFINE snap == sess[s].snap
<1>1. snap \in Runs /\ ("approve" \notin decisions => Clean(snap))
  BY InProgress DEF decide_write
<1>2. /\ Commit(snap, decide_intrusive(snap, approve))
      /\ decisions' = decisions \cup {IF approve THEN "approve" ELSE "deny"}
      /\ End(s) /\ UNCHANGED <<opts, jobs, other>>
  BY DEF decide_write
<1> HIDE DEF snap
<1>3. /\ decide_intrusive(snap, approve) \in Runs
      /\ Clean(snap) /\ ~approve => Clean(decide_intrusive(snap, approve))
  BY <1>1, DecideIntrusive
<1>4. /\ run' \in Runs /\ validated' \in BOOLEAN
      /\ Clean(run) /\ Clean(decide_intrusive(snap, approve)) => Clean(run')
  BY <1>1, <1>2, <1>3, CommitRow DEF IInv, TypeOK
<1>5. "approve" \notin decisions' => "approve" \notin decisions /\ ~approve
  BY <1>2
<1>6. "approve" \notin decisions' => Clean(run')
  BY <1>1, <1>3, <1>4, <1>5 DEF IInv
<1>7. decisions \subseteq decisions' /\ decisions' \subseteq {"approve", "deny"}
  BY <1>2 DEF IInv, TypeOK
<1>8. jobs' \in [1..MaxJobs -> {"none", "active", "completed", "failed", "silent"}]
  BY <1>2 DEF IInv, TypeOK
<1> QED BY <1>2, <1>4, <1>6, <1>7, <1>8, EndStep

(* The write of on_scan_job_terminal keeps the invariant. *)
LEMMA TerminalStep ==
  ASSUME IInv, NEW s \in Sessions, NEW o \in Outcomes, on_scan_job_terminal_write(s, o)
  PROVE  IInv'
<1> DEFINE snap  == sess[s].snap
           ended == [jobs EXCEPT ![sess[s].job] = o]
<1>1. snap \in Runs /\ ("approve" \notin decisions => Clean(snap))
  BY InProgress DEF on_scan_job_terminal_write
<1>2. /\ End(s) /\ UNCHANGED <<opts, other, decisions>>
      /\ IF o = "completed"
         THEN Dispatch(snap, advance(snap, "completed"), IF opts.subscribed THEN ended ELSE jobs, ended)
         ELSE Commit(snap, fail_scanning(snap, "scan_failed")) /\ jobs' = ended
  BY DEF on_scan_job_terminal_write
<1>3. ended \in [1..MaxJobs -> {"none", "active", "completed", "failed", "silent"}]
  BY DEF IInv, TypeOK, Outcomes
<1> HIDE DEF snap, ended
<1>4. /\ advance(snap, "completed") \in Runs
      /\ Clean(snap) => Clean(advance(snap, "completed"))
  BY <1>1, Advance DEF Outcomes
<1>5. /\ fail_scanning(snap, "scan_failed") \in Runs
      /\ Clean(snap) => Clean(fail_scanning(snap, "scan_failed"))
  BY <1>1, FailScanning
<1>6. /\ run' \in Runs /\ validated' \in BOOLEAN
      /\ jobs' \in [1..MaxJobs -> {"none", "active", "completed", "failed", "silent"}]
      /\ Clean(run) /\ Clean(snap) => Clean(run')
  <2>1. CASE o = "completed"
    BY <1>1, <1>2, <1>3, <1>4, <2>1, DispatchRow DEF IInv, TypeOK
  <2>2. CASE o # "completed"
    BY <1>1, <1>2, <1>3, <1>5, <2>2, CommitRow DEF IInv, TypeOK
  <2> QED BY <2>1, <2>2
<1>7. "approve" \notin decisions => Clean(run')
  BY <1>1, <1>6 DEF IInv
<1>8. decisions' = decisions /\ decisions \subseteq {"approve", "deny"}
  BY <1>2 DEF IInv, TypeOK
<1> QED BY <1>2, <1>6, <1>7, <1>8, EndStep

(* The end of a job that no handler carries to the run, and the other jobs of the network. *)
LEMMA QuietStep ==
  ASSUME IInv, UNCHANGED <<opts, run, sess, decisions, validated>>, other' \in BOOLEAN,
         jobs' \in [1..MaxJobs -> {"none", "active", "completed", "failed", "silent"}]
  PROVE  IInv'
BY DEF IInv, TypeOK, Clean

(* Every step keeps the invariant: one case per action. *)
LEMMA NextIInv == IInv /\ [Next]_vars => IInv'
<1> SUFFICES ASSUME IInv, [Next]_vars PROVE IInv'
  OBVIOUS
<1> USE DEF IInv, TypeOK
<1>1. ASSUME NEW s \in Sessions, advance_read(s) PROVE IInv'
  BY <1>1, BeginStep, WorkflowConstants DEF advance_read
<1>2. ASSUME NEW s \in Sessions, NEW o \in Outcomes, advance_write(s, o) PROVE IInv'
  BY <1>2, AdvanceStep
<1>3. ASSUME NEW s \in Sessions, decide_read(s) PROVE IInv'
  BY <1>3, BeginStep, WorkflowConstants DEF decide_read
<1>4. ASSUME NEW s \in Sessions, NEW a \in BOOLEAN, decide_write(s, a) PROVE IInv'
  BY <1>4, DecideStep
<1>5. ASSUME NEW s \in Sessions, NEW j \in 1..MaxJobs, on_scan_job_terminal_read(s, j) PROVE IInv'
  BY <1>5, BeginStep, WorkflowConstants DEF on_scan_job_terminal_read
<1>6. ASSUME NEW s \in Sessions, NEW o \in Outcomes, on_scan_job_terminal_write(s, o) PROVE IInv'
  BY <1>6, TerminalStep
<1>7. ASSUME NEW j \in 1..MaxJobs, job_ends_silently(j) PROVE IInv'
  BY <1>7, QuietStep DEF job_ends_silently, Outcomes
<1>8. CASE other_job
  <2>1. other' \in BOOLEAN
    BY <1>8, Zenon DEF other_job
  <2> QED BY <1>8, <2>1, QuietStep DEF other_job
<1>9. CASE UNCHANGED vars
  BY <1>9, QuietStep DEF vars
<1> QED BY <1>1, <1>2, <1>3, <1>4, <1>5, <1>6, <1>7, <1>8, <1>9
        DEF Next, Operate, Approve, JobEnds

(* The inductive invariant holds in every state of every run, however many handlers overlap. *)
THEOREM WorkflowInvariance == Spec => []IInv
BY InitIInv, NextIInv, PTL DEF Spec

(* The row, the jobs and the handlers' snapshots stay well formed. *)
THEOREM WorkflowTypeCorrect == Spec => []TypeOK
<1>1. IInv => TypeOK
  BY DEF IInv
<1> QED BY <1>1, WorkflowInvariance, PTL

(***************************************************************************)
(* Whatever handlers overlap, no stage behind the approval gate is started *)
(* before decide_run has accepted an approval.                             *)
(***************************************************************************)
THEOREM WorkflowIntrusiveOnlyIfApproved == Spec => []IntrusiveOnlyIfApproved
<1>1. IInv => IntrusiveOnlyIfApproved
  BY DEF IInv, Clean, IntrusiveOnlyIfApproved
<1> QED BY <1>1, WorkflowInvariance, PTL

----------------------------------------------------------------------------
(***************************************************************************)
(* The tail of a run.  Of every copy of the stages, in the row or in a     *)
(* handler, at most one is active, the tail behind it is untouched, and    *)
(* verification and reporting were carried out when they are passed        *)
(* (Shape).  A commit writes stages whole, so a stale one cannot mix two   *)
(* copies.                                                                 *)
(***************************************************************************)
Active(r, k) == r.stages[k] \in {"running", "awaiting_approval"}

Passed(r, k) == (\A c \in 1..k : ~Active(r, c)) => r.stages[k] \in Outcomes

Shape(r) ==
    /\ \A k, l \in Stages : Active(r, k) /\ Active(r, l) => k = l
    /\ \A k \in TAIL, c \in Stages : c < k /\ Active(r, c) => r.stages[k] = "pending"
    /\ Passed(r, 10) /\ Passed(r, 11)

Shaped ==
    /\ Shape(run)
    /\ \A s \in Sessions : sess[s] \in Busy =>
          /\ Shape(sess[s].snap) /\ _current(sess[s].snap) # 0
          /\ sess[s].kind = "decide" => sess[s].snap.stages[APPROVAL_GATE] = "awaiting_approval"

(* What is started after stage i of a run that has no active stage.        *)
LEMMA ActivateTail ==
  ASSUME NEW r \in Runs, NEW i \in 0..11, \A k \in Stages : ~Active(r, k),
         \A k \in TAIL : i < k => r.stages[k] = "pending"
  PROVE  LET n == _activate_next(r, i) IN
         /\ \A k, l \in Stages : Active(n, k) /\ Active(n, l) => k = l
         /\ \A k \in TAIL, c \in Stages : c < k /\ Active(n, c) => n.stages[k] = "pending"
         /\ \A k \in TAIL : _applicable(k, r) /\ (k <= i => r.stages[k] \in Outcomes) => Passed(n, k)
         /\ \A k \in Stages : Active(n, k) => k > i /\ _applicable(k, r)
         /\ n.status \in {"completed", "failed"} => \A k \in Stages : ~Active(n, k)
<1> DEFINE n == _activate_next(r, i)
           first == {k \in Stages : Reached(r, i, k) /\ _applicable(k, r)}
<1>1. \A k, l \in first : k = l
  <2> SUFFICES ASSUME NEW k \in first, NEW l \in first, k < l PROVE FALSE
    BY DEF Stages
  <2>1. k \in (i + 1)..(l - 1) /\ r.stages[k] \in Open
    BY DEF Reached, Stages
  <2> QED BY <2>1 DEF Reached
<1>2. \A k \in Stages : Started(k) \in {"running", "awaiting_approval"}
  BY DEF Started
<1>3. \A k \in Stages : n.stages[k] = IF ~Reached(r, i, k) THEN r.stages[k]
                                      ELSE IF _applicable(k, r) THEN Started(k) ELSE "skipped"
  BY DEF _activate_next, Runs
<1>4. \A k \in Stages : Active(n, k) <=> k \in first
  <2> SUFFICES ASSUME NEW k \in Stages PROVE Active(n, k) <=> k \in first
    OBVIOUS
  <2>1. CASE ~Reached(r, i, k)
    BY <1>3, <2>1 DEF Active
  <2>2. CASE Reached(r, i, k) /\ _applicable(k, r)
    BY <1>2, <1>3, <2>2 DEF Active
  <2>3. CASE Reached(r, i, k) /\ ~_applicable(k, r)
    BY <1>3, <2>3 DEF Active
  <2> QED BY <2>1, <2>2, <2>3
<1>5. ASSUME NEW k \in TAIL, NEW c \in Stages, c < k, c \in first PROVE n.stages[k] = "pending"
  <2>1. k \in Stages /\ c > i /\ c \in (i + 1)..(k - 1) /\ r.stages[c] \in Open /\ _applicable(c, r)
    BY <1>5 DEF Reached, Stages, TAIL, CLEANUP
  <2>2. ~Reached(r, i, k)
    BY <2>1 DEF Reached
  <2>3. i < k
    BY <1>5, <2>1 DEF Stages, TAIL, CLEANUP
  <2> QED BY <1>3, <2>1, <2>2, <2>3
<1>6. ASSUME NEW k \in TAIL, _applicable(k, r), k <= i => r.stages[k] \in Outcomes PROVE Passed(n, k)
  <2>0. k \in Stages
    BY DEF TAIL, Stages, CLEANUP
  <2>1. CASE k <= i
    <3>1. ~Reached(r, i, k)
      BY <2>0, <2>1 DEF Reached, Stages
    <3> QED BY <1>3, <1>6, <2>0, <2>1, <3>1 DEF Passed
  <2>2. CASE i < k
    <3> DEFINE S == {l \in (i + 1)..k : r.stages[l] \in Open /\ _applicable(l, r)}
    <3>1. S \subseteq Stages /\ k \in S
      BY <1>6, <2>0, <2>2 DEF Stages, Open
    <3>2. PICK x \in S : \A y \in S : x <= y
      <4> HIDE DEF S
      <4> QED BY <3>1, FirstStage
    <3>3. x \in Stages /\ x \in (i + 1)..k /\ r.stages[x] \in Open /\ _applicable(x, r)
      BY <3>1
    <3>4. ASSUME NEW l \in (i + 1)..(x - 1), r.stages[l] \in Open PROVE ~_applicable(l, r)
      <4>1. l \in (i + 1)..k /\ l < x
        BY <2>0, <3>3 DEF Stages
      <4>2. l \notin S
        BY <3>2, <3>3, <4>1 DEF Stages
      <4> QED BY <3>4, <4>1, <4>2
    <3>5. x \in first
      BY <3>3, <3>4 DEF Reached, Stages
    <3>6. Active(n, x) /\ x \in 1..k
      BY <1>4, <2>0, <3>3, <3>5 DEF Stages
    <3> QED BY <3>6 DEF Passed
  <2> QED BY <2>0, <2>1, <2>2 DEF Stages
<1>7. \A k \in first : k > i /\ _applicable(k, r)
  BY DEF Reached
<1>8. ASSUME n.status \in {"completed", "failed"} PROVE first = {}
  <2> SUFFICES ASSUME first # {} PROVE FALSE
    OBVIOUS
  <2>1. n.status = Started(CHOOSE k \in Stages : Reached(r, i, k) /\ _applicable(k, r))
    BY DEF _activate_next, Runs
  <2> QED BY <1>8, <2>1 DEF Started
<1> HIDE DEF n, first
<1>9. \A k, l \in Stages : Active(n, k) /\ Active(n, l) => k = l
  BY <1>1, <1>4
<1>10. \A k \in TAIL, c \in Stages : c < k /\ Active(n, c) => n.stages[k] = "pending"
  BY <1>4, <1>5
<1>11. \A k \in Stages : Active(n, k) => k > i /\ _applicable(k, r)
  BY <1>4, <1>7
<1>12. n.status \in {"completed", "failed"} => \A k \in Stages : ~Active(n, k)
  BY <1>4, <1>8
<1> QED BY <1>6, <1>9, <1>10, <1>11, <1>12 DEF n

(* advance sets the outcome of the one active stage.                       *)
LEMMA AdvanceTail ==
  ASSUME NEW r \in Runs, NEW o \in Outcomes, Shape(r), _current(r) # 0
  PROVE  \E a \in Runs, c \in Stages :
         /\ advance(r, o) = _activate_next(a, c)
         /\ a.approved = r.approved /\ Active(r, c)
         /\ \A k \in Stages : ~Active(a, k)
         /\ \A k \in TAIL : c < k => a.stages[k] = "pending"
         /\ \A k \in TAIL : k <= c /\ Passed(r, k) => a.stages[k] \in Outcomes
<1> DEFINE c == _current(r)
           a == [r EXCEPT !.stages = [k \in Stages |->
                   IF k = c THEN o
                   ELSE IF o = "failed" /\ k > c /\ k \notin TAIL /\ r.stages[k] = "pending"
                        THEN "skipped"
                   ELSE r.stages[k]]]
<1>1. c \in Stages /\ Active(r, c)
  BY CurrentActive DEF Stages, Active
<1>2. advance(r, o) = _activate_next(a, c)
  BY DEF advance
<1> HIDE DEF c
<1>3. a \in Runs /\ a.approved = r.approved
  BY DEF Runs, StageStatus, Outcomes
<1>4. /\ a.stages[c] = o
      /\ \A k \in Stages : k # c => a.stages[k] \in {r.stages[k], "skipped"}
      /\ \A k \in Stages : k # c /\ (k < c \/ k \in TAIL) => a.stages[k] = r.stages[k]
  BY <1>1 DEF Runs, Stages
<1> HIDE DEF a
<1>5. \A k \in Stages : ~Active(a, k)
  BY <1>1, <1>4 DEF Active, Shape, Outcomes
<1>6. TAIL \subseteq Stages
  BY DEF TAIL, CLEANUP, Stages
<1>7. \A k \in TAIL : c < k => a.stages[k] = "pending"
  BY <1>1, <1>4, <1>6 DEF Shape, Stages
<1>8. ASSUME NEW k \in TAIL, k <= c, Passed(r, k) PROVE a.stages[k] \in Outcomes
  <2>1. CASE k = c
    BY <1>4, <2>1
  <2>2. CASE k < c
    <3>1. \A l \in 1..k : ~Active(r, l)
      BY <1>1, <1>6, <2>2 DEF Shape, Stages
    <3> QED BY <1>4, <1>6, <1>8, <2>2, <3>1 DEF Passed
  <2> QED BY <1>1, <1>6, <1>8, <2>1, <2>2 DEF Stages
<1> QED BY <1>1, <1>2, <1>3, <1>5, <1>7, <1>8

(* A decision sets the outcome of the gate, which is the active stage.     *)
LEMMA DecideTail ==
  ASSUME NEW r \in Runs, NEW approve \in BOOLEAN, Shape(r),
         r.stages[APPROVAL_GATE] = "awaiting_approval"
  PROVE  \E a \in Runs :
         /\ decide_intrusive(r, approve) = _activate_next(a, APPROVAL_GATE)
         /\ Active(r, APPROVAL_GATE)
         /\ \A k \in Stages : ~Active(a, k)
         /\ \A k \in TAIL : a.stages[k] = "pending"
<1> DEFINE a == [r EXCEPT !.stages[APPROVAL_GATE] = IF approve THEN "completed" ELSE "denied",
                          !.approved = approve]
<1>1. a \in Runs
  BY DEF Runs, StageStatus, APPROVAL_GATE, Stages
<1>2. decide_intrusive(r, approve) = _activate_next(a, APPROVAL_GATE)
  BY DEF decide_intrusive
<1>3. /\ a.stages[APPROVAL_GATE] \in {"completed", "denied"}
      /\ \A k \in Stages : k # APPROVAL_GATE => a.stages[k] = r.stages[k]
  BY DEF Runs, APPROVAL_GATE, Stages
<1> HIDE DEF a
<1>4. Active(r, APPROVAL_GATE) /\ APPROVAL_GATE \in Stages
  BY DEF Active, APPROVAL_GATE, Stages
<1>5. \A k \in Stages : ~Active(a, k)
  BY <1>3, <1>4 DEF Active, Shape
<1>6. \A k \in TAIL : k \in Stages /\ APPROVAL_GATE < k
  BY DEF TAIL, CLEANUP, Stages, APPROVAL_GATE
<1>7. \A k \in TAIL : a.stages[k] = "pending"
  BY <1>3, <1>4, <1>6 DEF Shape
<1> QED BY <1>1, <1>2, <1>4, <1>5, <1>7

(* The shape is that of the stages alone.                                  *)
LEMMA SameStages ==
  ASSUME NEW r, NEW q, Shape(r), q.stages = r.stages
  PROVE  Shape(q)
BY DEF Shape, Active, Passed

(* advance keeps the shape of a run that has an active stage.              *)
LEMMA AdvanceShape ==
  ASSUME NEW r \in Runs, NEW o \in Outcomes, Shape(r), _current(r) # 0
  PROVE  Shape(advance(r, o))
<1>1. PICK a \in Runs, c \in Stages :
         /\ advance(r, o) = _activate_next(a, c)
         /\ \A k \in Stages : ~Active(a, k)
         /\ \A k \in TAIL : c < k => a.stages[k] = "pending"
         /\ \A k \in TAIL : k <= c /\ Passed(r, k) => a.stages[k] \in Outcomes
  BY AdvanceTail
<1>2. c \in 0..11 /\ {10, 11} \subseteq TAIL
  BY DEF Stages, TAIL
<1>3. \A k \in {10, 11} : _applicable(k, a) /\ (k <= c => a.stages[k] \in Outcomes)
  BY <1>1, <1>2 DEF _applicable, Shape, Intrusive, VALIDATION, CLEANUP, APPROVAL_GATE
<1> DEFINE n == _activate_next(a, c)
<1>4. /\ \A k, l \in Stages : Active(n, k) /\ Active(n, l) => k = l
      /\ \A k \in TAIL, d \in Stages : d < k /\ Active(n, d) => n.stages[k] = "pending"
      /\ \A k \in TAIL : _applicable(k, a) /\ (k <= c => a.stages[k] \in Outcomes) => Passed(n, k)
  BY <1>1, <1>2, ActivateTail
<1> HIDE DEF n
<1>5. Shape(n)
  BY <1>2, <1>3, <1>4 DEF Shape
<1> QED BY <1>1, <1>5 DEF n

(* So does a decision at the gate.                                         *)
LEMMA DecideShape ==
  ASSUME NEW r \in Runs, NEW approve \in BOOLEAN, Shape(r),
         r.stages[APPROVAL_GATE] = "awaiting_approval"
  PROVE  Shape(decide_intrusive(r, approve))
<1>1. PICK a \in Runs :
         /\ decide_intrusive(r, approve) = _activate_next(a, APPROVAL_GATE)
         /\ \A k \in Stages : ~Active(a, k)
         /\ \A k \in TAIL : a.stages[k] = "pending"
  BY DecideTail
<1>2. APPROVAL_GATE \in 0..11 /\ {10, 11} \subseteq TAIL
  BY DEF APPROVAL_GATE, TAIL
<1>3. \A k \in {10, 11} : _applicable(k, a) /\ ~(k <= APPROVAL_GATE)
  BY DEF _applicable, Intrusive, VALIDATION, CLEANUP, APPROVAL_GATE
<1> DEFINE n == _activate_next(a, APPROVAL_GATE)
<1>4. /\ \A k, l \in Stages : Active(n, k) /\ Active(n, l) => k = l
      /\ \A k \in TAIL, d \in Stages : d < k /\ Active(n, d) => n.stages[k] = "pending"
      /\ \A k \in TAIL : _applicable(k, a) /\ (k <= APPROVAL_GATE => a.stages[k] \in Outcomes) => Passed(n, k)
  BY <1>1, <1>2, ActivateTail
<1> HIDE DEF n
<1>5. Shape(n)
  BY <1>2, <1>3, <1>4 DEF Shape
<1> QED BY <1>1, <1>5 DEF n

(* A failed dispatch or scan is an advance.                                *)
LEMMA FailShape ==
  ASSUME NEW r \in Runs, NEW d, Shape(r), _current(r) # 0
  PROVE  Shape(fail_scanning(r, d))
<1>1. "failed" \in Outcomes
  BY DEF Outcomes
<1>2. advance(r, "failed") \in Runs /\ Shape(advance(r, "failed"))
  BY <1>1, Advance, AdvanceShape
<1>3. fail_scanning(r, d).stages = advance(r, "failed").stages
  BY <1>2 DEF fail_scanning, Runs
<1> QED BY <1>2, <1>3, SameStages

(* Whatever a dispatch commits has the shape.                              *)
LEMMA DispatchShape ==
  ASSUME NEW snap, NEW r \in Runs, NEW held, NEW ended, Shape(r), Dispatch(snap, r, held, ended)
  PROVE  Shape(run')
<1>1. ASSUME NEW q, Shape(q), Commit(snap, q) PROVE Shape(run')
  <2>1. run'.stages = q.stages
    BY <1>1 DEF Commit
  <2> QED BY <1>1, <2>1, SameStages
<1>2. \A j : [r EXCEPT !.job = j].stages = r.stages
  BY DEF Runs
<1>3. \A j : Shape([r EXCEPT !.job = j])
  BY <1>2, SameStages
<1>4. scanning_stage_active(r) => _current(r) # 0
  BY DEF scanning_stage_active, SCAN_STAGES
<1>5. scanning_stage_active(r) => \A d : Shape(fail_scanning(r, d))
  BY <1>4, FailShape
<1> QED BY <1>1, <1>3, <1>5 DEF Dispatch

(* A new run has the shape.                                                *)
LEMMA InitShaped == Init => Shaped
<1> SUFFICES ASSUME Init PROVE Shaped
  OBVIOUS
<1> DEFINE r == [stages |-> [k \in Stages |-> "pending"], status |-> "pending",
                 approved |-> FALSE, job |-> 0, detail |-> "none"]
           n == _activate_next(r, 0)
<1>1. r \in Runs /\ \A k \in Stages : r.stages[k] = "pending"
  BY WorkflowConstants DEF Runs, StageStatus
<1>2. run = n
  BY DEF Init
<1> HIDE DEF r
<1>3. \A k \in Stages : ~Active(r, k)
  BY <1>1 DEF Active
<1>4. TAIL \subseteq Stages /\ {10, 11} \subseteq TAIL
  BY DEF TAIL, Stages, CLEANUP
<1>5. \A k \in {10, 11} : _applicable(k, r) /\ ~(k <= 0)
  BY DEF _applicable, Intrusive, VALIDATION, CLEANUP, APPROVAL_GATE
<1>6. /\ \A k, l \in Stages : Active(n, k) /\ Active(n, l) => k = l
      /\ \A k \in TAIL, d \in Stages : d < k /\ Active(n, d) => n.stages[k] = "pending"
      /\ \A k \in TAIL : _applicable(k, r) /\ (k <= 0 => r.stages[k] \in Outcomes) => Passed(n, k)
  BY <1>1, <1>3, <1>4, ActivateTail
<1> HIDE DEF n
<1>7. Shape(run)
  BY <1>2, <1>4, <1>5, <1>6 DEF Shape
<1>8. \A s \in Sessions : sess[s] \notin Busy
  BY DEF Init, Busy, Idle
<1> QED BY <1>7, <1>8 DEF Shaped

(* A handler that ends leaves a row of that shape.                         *)
LEMMA EndShaped ==
  ASSUME IInv, Shaped, NEW s \in Sessions, End(s), Shape(run')
  PROVE  Shaped'
<1>1. \A t \in Sessions : sess'[t] = IF t = s THEN Idle ELSE sess[t]
  BY DEF IInv, TypeOK, End
<1>2. Idle \notin Busy
  BY DEF Idle, Busy
<1>3. \A t \in Sessions : sess'[t] \in Busy => sess[t] \in Busy /\ sess'[t] = sess[t]
  BY <1>1, <1>2
<1>4. \A t \in Sessions : sess'[t] \in Busy =>
          /\ Shape(sess'[t].snap) /\ _current(sess'[t].snap) # 0
          /\ sess'[t].kind = "decide" => sess'[t].snap.stages[APPROVAL_GATE] = "awaiting_approval"
  BY <1>3 DEF Shaped
<1> QED BY <1>4 DEF Shaped, Shape, Active, Passed, _current

(* A handler that begins reads a row of that shape.                        *)
LEMMA BeginShaped ==
  ASSUME IInv, Shaped, NEW s \in Sessions, NEW kind, NEW j, Begin(s, kind, j), _current(run) # 0,
         kind = "decide" => run.stages[APPROVAL_GATE] = "awaiting_approval"
  PROVE  Shaped'
<1> DEFINE b == [kind |-> kind, job |-> j, snap |-> run]
<1>1. b.kind = kind /\ b.snap = run
  OBVIOUS
<1>2. sess' = [sess EXCEPT ![s] = b] /\ run' = run
  BY DEF Begin
<1> HIDE DEF b
<1>3. \A t \in Sessions : sess'[t] = IF t = s THEN b ELSE sess[t]
  BY <1>2 DEF IInv, TypeOK
<1>4. \A t \in Sessions : sess'[t] \in Busy =>
          /\ Shape(sess'[t].snap) /\ _current(sess'[t].snap) # 0
          /\ sess'[t].kind = "decide" => sess'[t].snap.stages[APPROVAL_GATE] = "awaiting_approval"
  BY <1>1, <1>3 DEF Shaped
<1> QED BY <1>2, <1>4 DEF Shaped, Shape, Active, Passed, _current

(* Every step keeps the shape of the row and of every handler's copy.      *)
LEMMA NextShaped == IInv /\ Shaped /\ [Next]_vars => Shaped'
<1> SUFFICES ASSUME IInv, Shaped, [Next]_vars PROVE Shaped'
  OBVIOUS
<1>0. \A s \in Sessions : sess[s].kind \in {"advance", "decide", "terminal"} =>
         /\ sess[s].snap \in Runs /\ Shape(sess[s].snap) /\ _current(sess[s].snap) # 0
         /\ sess[s].kind = "decide" => sess[s].snap.stages[APPROVAL_GATE] = "awaiting_approval"
  BY InProgress DEF Shaped
<1>1. ASSUME NEW s \in Sessions, advance_read(s) PROVE Shaped'
  BY <1>1, BeginShaped DEF advance_read
<1>2. ASSUME NEW s \in Sessions, NEW o \in Outcomes, advance_write(s, o) PROVE Shaped'
  <2>1. advance(sess[s].snap, o) \in Runs /\ Shape(advance(sess[s].snap, o))
    BY <1>0, <1>2, Advance, AdvanceShape DEF advance_write
  <2>2. Dispatch(sess[s].snap, advance(sess[s].snap, o), jobs, jobs) /\ End(s)
    BY <1>2 DEF advance_write
  <2> QED BY <2>1, <2>2, DispatchShape, EndShaped
<1>3. ASSUME NEW s \in Sessions, decide_read(s) PROVE Shaped'
  <2>1. _current(run) # 0
    BY <1>3, CurrentActive DEF decide_read, IInv, TypeOK, APPROVAL_GATE, Stages
  <2> QED BY <1>3, <2>1, BeginShaped DEF decide_read
<1>4. ASSUME NEW s \in Sessions, NEW a \in BOOLEAN, decide_write(s, a) PROVE Shaped'
  <2>1. Shape(decide_intrusive(sess[s].snap, a))
    BY <1>0, <1>4, DecideShape DEF decide_write
  <2>2. run'.stages = decide_intrusive(sess[s].snap, a).stages /\ End(s)
    BY <1>4 DEF decide_write, Commit
  <2> QED BY <2>1, <2>2, SameStages, EndShaped
<1>5. ASSUME NEW s \in Sessions, NEW j \in 1..MaxJobs, on_scan_job_terminal_read(s, j) PROVE Shaped'
  BY <1>5, BeginShaped DEF on_scan_job_terminal_read, Linked, scanning_stage_active, SCAN_STAGES
<1>6. ASSUME NEW s \in Sessions, NEW o \in Outcomes, on_scan_job_terminal_write(s, o) PROVE Shaped'
  <2>1. sess[s].kind = "terminal" /\ End(s)
    BY <1>6 DEF on_scan_job_terminal_write
  <2>2. CASE o = "completed"
    <3>1. PICK held, ended : Dispatch(sess[s].snap, advance(sess[s].snap, o), held, ended)
      BY <1>6, <2>2 DEF on_scan_job_terminal_write
    <3>2. advance(sess[s].snap, o) \in Runs /\ Shape(advance(sess[s].snap, o))
      BY <1>0, <2>1, Advance, AdvanceShape
    <3> QED BY <2>1, <3>1, <3>2, DispatchShape, EndShaped
  <2>3. CASE o # "completed"
    <3>1. run'.stages = fail_scanning(sess[s].snap, "scan_failed").stages
      BY <1>6, <2>3 DEF on_scan_job_terminal_write, Commit
    <3>2. Shape(fail_scanning(sess[s].snap, "scan_failed"))
      BY <1>0, <2>1, FailShape
    <3> QED BY <2>1, <3>1, <3>2, SameStages, EndShaped
  <2> QED BY <2>2, <2>3
<1>7. CASE UNCHANGED <<run, sess>>
  BY <1>7 DEF Shaped, Shape, Active, Passed, _current
<1>8. /\ \A j \in 1..MaxJobs : job_ends_silently(j) => UNCHANGED <<run, sess>>
      /\ other_job \/ UNCHANGED vars => UNCHANGED <<run, sess>>
  BY DEF job_ends_silently, other_job, vars
<1> QED BY <1>1, <1>2, <1>3, <1>4, <1>5, <1>6, <1>7, <1>8 DEF Next, Operate, Approve, JobEnds

(* The shape holds in every state of every run, however many handlers overlap. *)
THEOREM WorkflowShaped == Spec => []Shaped
BY InitShaped, NextShaped, WorkflowInvariance, PTL DEF Spec

(***************************************************************************)
(* Verification and reporting are never passed over, however many handlers *)
(* overlap and whatever stale stages they write back.                      *)
(***************************************************************************)
THEOREM WorkflowReportedBeforeOver == Spec => []ReportedBeforeOver
<1>1. TypeOK /\ Shaped => ReportedBeforeOver
  <2> SUFFICES ASSUME run \in Runs, Shape(run), _current(run) = 0
               PROVE  run.stages[10] \in Outcomes /\ run.stages[11] \in Outcomes
    BY DEF TypeOK, Shaped, ReportedBeforeOver
  <2>1. \A k \in Stages : ~Active(run, k)
    BY CurrentActive DEF Active
  <2> QED BY <2>1 DEF Shape, Passed, Stages
<1> QED BY <1>1, WorkflowTypeCorrect, WorkflowShaped, PTL

----------------------------------------------------------------------------
(***************************************************************************)
(* One handler at a time.  The snapshot is then the row, a commit writes   *)
(* all that was computed, and the guarantee of the engine is a property of *)
(* one run: nothing is active when it ends, cleanup is carried out when it *)
(* applies and is passed, and once validation was started it stays         *)
(* applicable, because the gate is behind.                                 *)
(***************************************************************************)
Sound(r, v) ==
    /\ r.status \in {"completed", "failed"} => \A k \in Stages : ~Active(r, k)
    /\ _applicable(CLEANUP, r) => Passed(r, CLEANUP)
    /\ v \/ r.stages[VALIDATION] = "running" =>
          _applicable(VALIDATION, r) /\ \A c \in 1..APPROVAL_GATE : ~Active(r, c)

Alone ==
    /\ Sound(run, validated)
    /\ \A s \in Sessions : sess[s] \in Busy => sess[s].snap = run

(* The approval is not changed by starting a stage.                        *)
LEMMA ActivateKeeps ==
  ASSUME NEW r \in Runs, NEW i
  PROVE  /\ _activate_next(r, i).approved = r.approved
         /\ \A k \in Stages : _applicable(k, _activate_next(r, i)) <=> _applicable(k, r)
<1>1. _activate_next(r, i).approved = r.approved
  BY DEF _activate_next, Runs
<1> QED BY <1>1 DEF _applicable

(* What starting a stage establishes.                                      *)
LEMMA ActivateSound ==
  ASSUME NEW a \in Runs, NEW c \in 0..11, NEW v \in BOOLEAN,
         \A k \in Stages : ~Active(a, k),
         \A k \in TAIL : c < k => a.stages[k] = "pending",
         _applicable(CLEANUP, a) /\ CLEANUP <= c => a.stages[CLEANUP] \in Outcomes,
         v => _applicable(VALIDATION, a) /\ APPROVAL_GATE < c
  PROVE  Sound(_activate_next(a, c), v)
<1> DEFINE n == _activate_next(a, c)
<1>1. \A k \in Stages : _applicable(k, n) <=> _applicable(k, a)
  BY ActivateKeeps
<1>2. /\ \A k, l \in Stages : Active(n, k) /\ Active(n, l) => k = l
      /\ \A k \in TAIL : _applicable(k, a) /\ (k <= c => a.stages[k] \in Outcomes) => Passed(n, k)
      /\ \A k \in Stages : Active(n, k) => k > c /\ _applicable(k, a)
      /\ n.status \in {"completed", "failed"} => \A k \in Stages : ~Active(n, k)
  BY ActivateTail
<1> HIDE DEF n
<1>3. /\ CLEANUP \in TAIL /\ CLEANUP \in Stages /\ VALIDATION \in Stages
      /\ 1..APPROVAL_GATE \subseteq Stages
      /\ \A k \in 1..APPROVAL_GATE : k # VALIDATION /\ ~(k > APPROVAL_GATE)
  BY DEF CLEANUP, TAIL, Stages, VALIDATION, APPROVAL_GATE
<1>4. _applicable(CLEANUP, n) => Passed(n, CLEANUP)
  BY <1>1, <1>2, <1>3
<1>5. ASSUME v PROVE _applicable(VALIDATION, n) /\ \A k \in 1..APPROVAL_GATE : ~Active(n, k)
  <2>1. APPROVAL_GATE < c
    BY <1>5
  <2>2. ASSUME NEW k \in 1..APPROVAL_GATE, Active(n, k) PROVE FALSE
    <3>1. k > c /\ k \in Nat
      BY <1>2, <1>3, <2>2 DEF Stages
    <3> QED BY <2>1, <3>1 DEF APPROVAL_GATE
  <2> QED BY <1>1, <1>3, <1>5, <2>2
<1>6. ASSUME n.stages[VALIDATION] = "running"
      PROVE  _applicable(VALIDATION, n) /\ \A k \in 1..APPROVAL_GATE : ~Active(n, k)
  <2>1. Active(n, VALIDATION)
    BY <1>6 DEF Active
  <2> QED BY <1>1, <1>2, <1>3, <2>1
<1>7. Sound(n, v)
  BY <1>2, <1>4, <1>5, <1>6 DEF Sound
<1> QED BY <1>7 DEF n

(* advance keeps a run sound.                                              *)
LEMMA AdvanceSound ==
  ASSUME NEW r \in Runs, NEW o \in Outcomes, NEW v \in BOOLEAN,
         Shape(r), Sound(r, v), _current(r) # 0
  PROVE  Sound(advance(r, o), v)
<1>1. PICK a \in Runs, c \in Stages :
         /\ advance(r, o) = _activate_next(a, c)
         /\ a.approved = r.approved /\ Active(r, c)
         /\ \A k \in Stages : ~Active(a, k)
         /\ \A k \in TAIL : c < k => a.stages[k] = "pending"
         /\ \A k \in TAIL : k <= c /\ Passed(r, k) => a.stages[k] \in Outcomes
  BY AdvanceTail
<1>2. \A k \in Stages : _applicable(k, a) <=> _applicable(k, r)
  BY <1>1 DEF _applicable
<1>3. CLEANUP \in TAIL /\ CLEANUP \in Stages /\ VALIDATION \in Stages /\ c \in 0..11
  BY DEF CLEANUP, TAIL, Stages, VALIDATION
<1>4. _applicable(CLEANUP, a) /\ CLEANUP <= c => a.stages[CLEANUP] \in Outcomes
  BY <1>1, <1>2, <1>3 DEF Sound
<1>5. v => _applicable(VALIDATION, a) /\ c \notin 1..APPROVAL_GATE
  BY <1>1, <1>2, <1>3 DEF Sound
<1>6. v => _applicable(VALIDATION, a) /\ APPROVAL_GATE < c
  BY <1>5 DEF Stages, APPROVAL_GATE
<1> QED BY <1>1, <1>3, <1>4, <1>6, ActivateSound

(* So does a decision, which is taken before validation was started.       *)
LEMMA DecideSound ==
  ASSUME NEW r \in Runs, NEW approve \in BOOLEAN, NEW v \in BOOLEAN, Shape(r), Sound(r, v),
         r.stages[APPROVAL_GATE] = "awaiting_approval"
  PROVE  Sound(decide_intrusive(r, approve), v)
<1>1. PICK a \in Runs :
         /\ decide_intrusive(r, approve) = _activate_next(a, APPROVAL_GATE)
         /\ Active(r, APPROVAL_GATE)
         /\ \A k \in Stages : ~Active(a, k)
         /\ \A k \in TAIL : a.stages[k] = "pending"
  BY DecideTail
<1>2. ~v
  BY <1>1 DEF Sound, APPROVAL_GATE
<1>3. APPROVAL_GATE \in 0..11 /\ ~(CLEANUP <= APPROVAL_GATE)
  BY DEF APPROVAL_GATE, CLEANUP
<1> QED BY <1>1, <1>2, <1>3, ActivateSound

(* Soundness is that of the stages, the status and the approval.           *)
LEMMA SameSound ==
  ASSUME NEW r, NEW q, NEW v, Sound(r, v),
         q.stages = r.stages, q.status = r.status, q.approved = r.approved
  PROVE  Sound(q, v)
BY DEF Sound, Active, Passed, _applicable

(* A failed dispatch or scan is an advance.                                *)
LEMMA FailSound ==
  ASSUME NEW r \in Runs, NEW d, NEW v \in BOOLEAN, Shape(r), Sound(r, v), _current(r) # 0
  PROVE  Sound(fail_scanning(r, d), v)
<1>1. "failed" \in Outcomes
  BY DEF Outcomes
<1>2. advance(r, "failed") \in Runs /\ Sound(advance(r, "failed"), v)
  BY <1>1, Advance, AdvanceSound
<1>3. /\ fail_scanning(r, d).stages = advance(r, "failed").stages
      /\ fail_scanning(r, d).status = advance(r, "failed").status
      /\ fail_scanning(r, d).approved = advance(r, "failed").approved
  BY <1>2 DEF fail_scanning, Runs
<1> QED BY <1>2, <1>3, SameSound

(* A commit on the row that was read leaves what was computed.             *)
LEMMA CommitSound ==
  ASSUME NEW r, Sound(r, validated), Commit(run, r), opts' = opts
  PROVE  Sound(run, validated)'
<1>1. run'.stages = r.stages /\ run'.status = r.status /\ run'.approved = r.approved
  BY DEF Commit
<1>2. validated' <=> validated \/ r.stages[VALIDATION] = "running"
  BY DEF Commit
<1>3. Sound(r, validated')
  BY <1>2 DEF Sound
<1>4. Sound(run', validated')
  BY <1>1, <1>3, SameSound
<1> QED BY <1>4 DEF Sound, _applicable, Active, Passed

(* Whatever a dispatch commits is sound.                                   *)
LEMMA DispatchSound ==
  ASSUME NEW r \in Runs, NEW held, NEW ended, validated \in BOOLEAN, Shape(r), Sound(r, validated),
         Dispatch(run, r, held, ended), opts' = opts
  PROVE  Sound(run, validated)'
<1>1. \A j : /\ [r EXCEPT !.job = j].stages = r.stages
             /\ [r EXCEPT !.job = j].status = r.status
             /\ [r EXCEPT !.job = j].approved = r.approved
  BY DEF Runs
<1>2. \A j : Sound([r EXCEPT !.job = j], validated)
  BY <1>1, SameSound
<1>3. scanning_stage_active(r) => \A d : Sound(fail_scanning(r, d), validated)
  BY FailSound DEF scanning_stage_active, SCAN_STAGES
<1> QED BY <1>2, <1>3, CommitSound DEF Dispatch

(* A new run is sound.                                                     *)
LEMMA InitAlone == Init => Alone
<1> SUFFICES ASSUME Init PROVE Alone
  OBVIOUS
<1> DEFINE r == [stages |-> [k \in Stages |-> "pending"], status |-> "pending",
                 approved |-> FALSE, job |-> 0, detail |-> "none"]
<1>1. r \in Runs /\ \A k \in Stages : r.stages[k] = "pending"
  BY WorkflowConstants DEF Runs, StageStatus
<1>2. run = _activate_next(r, 0) /\ validated = FALSE
  BY DEF Init
<1> HIDE DEF r
<1>3. \A k \in Stages : ~Active(r, k)
  BY <1>1 DEF Active
<1>4. TAIL \subseteq Stages /\ ~(CLEANUP <= 0) /\ 0 \in 0..11 /\ FALSE \in BOOLEAN
  BY DEF TAIL, Stages, CLEANUP
<1>5. Sound(_activate_next(r, 0), FALSE)
  <2>1. \A k \in TAIL : r.stages[k] = "pending"
    BY <1>1, <1>4
  <2> QED BY <1>1, <1>3, <1>4, <2>1, ActivateSound
<1>6. \A s \in Sessions : sess[s] \notin Busy
  BY DEF Init, Busy, Idle
<1> QED BY <1>2, <1>5, <1>6 DEF Alone, Sound

(* With one handler, every step leaves a sound row and a fresh snapshot.   *)
LEMMA NextAlone ==
  ASSUME \A s, t \in Sessions : s = t
  PROVE  IInv /\ Shaped /\ Alone /\ [Next]_vars => Alone'
<1> SUFFICES ASSUME IInv, Shaped, Alone, [Next]_vars PROVE Alone'
  OBVIOUS
<1>0. validated \in BOOLEAN
  BY DEF IInv, TypeOK
<1>1. \A s \in Sessions : sess[s].kind \in {"advance", "decide", "terminal"} =>
         /\ sess[s].snap = run /\ run \in Runs /\ Shape(run) /\ Sound(run, validated) /\ _current(run) # 0
         /\ sess[s].kind = "decide" => run.stages[APPROVAL_GATE] = "awaiting_approval"
  BY InProgress DEF Shaped, Alone
<1>2. ASSUME NEW s \in Sessions, End(s), Sound(run, validated)' PROVE Alone'
  <2>1. \A t \in Sessions : sess'[t] = Idle
    BY <1>2 DEF IInv, TypeOK, End
  <2> QED BY <1>2, <2>1 DEF Alone, Idle, Busy
<1>3. ASSUME NEW s \in Sessions, NEW kind, NEW j, Begin(s, kind, j) PROVE Alone'
  <2> DEFINE b == [kind |-> kind, job |-> j, snap |-> run]
  <2>1. b.snap = run
    OBVIOUS
  <2>2. sess' = [sess EXCEPT ![s] = b] /\ UNCHANGED <<opts, run, validated>>
    BY <1>3 DEF Begin
  <2> HIDE DEF b
  <2>3. \A t \in Sessions : sess'[t] = b
    BY <2>2 DEF IInv, TypeOK
  <2> QED BY <2>1, <2>2, <2>3 DEF Alone, Sound, _applicable, Active, Passed
<1>4. ASSUME NEW s \in Sessions, NEW o \in Outcomes, advance_write(s, o) PROVE Alone'
  <2>1. /\ advance(run, o) \in Runs /\ Shape(advance(run, o))
        /\ Sound(advance(run, o), validated) /\ sess[s].snap = run
    BY <1>0, <1>1, <1>4, Advance, AdvanceShape, AdvanceSound DEF advance_write
  <2>2. Dispatch(run, advance(run, o), jobs, jobs) /\ End(s) /\ opts' = opts
    BY <1>4, <2>1 DEF advance_write
  <2> QED BY <1>0, <1>2, <2>1, <2>2, DispatchSound
<1>5. ASSUME NEW s \in Sessions, NEW a \in BOOLEAN, decide_write(s, a) PROVE Alone'
  <2>1. Sound(decide_intrusive(run, a), validated) /\ sess[s].snap = run
    BY <1>0, <1>1, <1>5, DecideSound DEF decide_write
  <2>2. Commit(run, decide_intrusive(run, a)) /\ End(s) /\ opts' = opts
    BY <1>5, <2>1 DEF decide_write
  <2> QED BY <1>2, <2>1, <2>2, CommitSound
<1>6. ASSUME NEW s \in Sessions, NEW o \in Outcomes, on_scan_job_terminal_write(s, o) PROVE Alone'
  <2>1. sess[s].kind = "terminal" /\ End(s) /\ opts' = opts
    BY <1>6 DEF on_scan_job_terminal_write
  <2>2. /\ sess[s].snap = run /\ run \in Runs /\ Shape(run) /\ Sound(run, validated) /\ _current(run) # 0
    BY <1>1, <2>1
  <2>3. CASE o = "completed"
    <3>1. PICK held, ended : Dispatch(run, advance(run, o), held, ended)
      BY <1>6, <2>2, <2>3 DEF on_scan_job_terminal_write
    <3>2. advance(run, o) \in Runs /\ Shape(advance(run, o)) /\ Sound(advance(run, o), validated)
      BY <1>0, <2>2, Advance, AdvanceShape, AdvanceSound
    <3> QED BY <1>0, <1>2, <2>1, <3>1, <3>2, DispatchSound
  <2>4. CASE o # "completed"
    <3>1. Commit(run, fail_scanning(run, "scan_failed"))
      BY <1>6, <2>2, <2>4 DEF on_scan_job_terminal_write
    <3>2. Sound(fail_scanning(run, "scan_failed"), validated)
      BY <1>0, <2>2, FailSound
    <3> QED BY <1>2, <2>1, <3>1, <3>2, CommitSound
  <2> QED BY <2>3, <2>4
<1>7. CASE UNCHANGED <<opts, run, sess, validated>>
  BY <1>7 DEF Alone, Sound, _applicable, Active, Passed
<1>8. /\ \A j \in 1..MaxJobs : job_ends_silently(j) => UNCHANGED <<opts, run, sess, validated>>
      /\ other_job \/ UNCHANGED vars => UNCHANGED <<opts, run, sess, validated>>
  BY DEF job_ends_silently, other_job, vars
<1> QED BY <1>3, <1>4, <1>5, <1>6, <1>7, <1>8
        DEF Next, Operate, Approve, JobEnds, advance_read, decide_read, on_scan_job_terminal_read

(***************************************************************************)
(* The guarantee of the engine, for handlers that take turns: a run ends   *)
(* only after verification and reporting were carried out, and cleanup if  *)
(* validation was ever started, whatever failed, was denied or could not   *)
(* be dispatched.                                                          *)
(***************************************************************************)
THEOREM WorkflowTailTraversed ==
  ASSUME \A s, t \in Sessions : s = t
  PROVE  Spec => []TailTraversed
<1>1. IInv /\ Shaped /\ Alone => TailTraversed
  <2> SUFFICES ASSUME run \in Runs, Shape(run), Sound(run, validated), Final PROVE TailTraversed
    BY DEF IInv, TypeOK, Shaped, Alone, TailTraversed
  <2>1. \A k \in Stages : ~Active(run, k)
    BY DEF Sound, Final
  <2>2. \A k \in Stages : Passed(run, k) => run.stages[k] \in Outcomes
    BY <2>1 DEF Passed, Stages
  <2>3. validated => _applicable(CLEANUP, run)
    BY DEF Sound, _applicable, Intrusive, CLEANUP, VALIDATION, APPROVAL_GATE
  <2> QED BY <2>2, <2>3 DEF Sound, Shape, TailTraversed, Stages, CLEANUP
<1>2. Spec => []Alone
  BY InitAlone, NextAlone, WorkflowInvariance, WorkflowShaped, PTL DEF Spec
<1> QED BY <1>1, <1>2, WorkflowInvariance, WorkflowShaped, PTL

----------------------------------------------------------------------------
(***************************************************************************)
(* The relays.  A row is written column by column from what the request    *)
(* has read, so two ranges that a relay is approved for overlap only if    *)
(* the one that widens has not seen the other: until two scope changes     *)
(* overlap, the one under way has seen all rows as they are (ScopeHasSeen).*)
(***************************************************************************)
RelayRow == [status : R!Statuses, token : BOOLEAN, fp : Nat, prev : Nat, approved : SUBSET Ranges]

Columns == {"status", "token", "fp", "prev", "approved"}

(* What a request may write. *)
Writes(set) ==
    /\ DOMAIN set \subseteq Columns
    /\ "status" \in DOMAIN set => set["status"] \in R!Statuses \ {"absent"}
    /\ "token" \in DOMAIN set => set["token"] \in BOOLEAN
    /\ "fp" \in DOMAIN set => set["fp"] \in Nat
    /\ "prev" \in DOMAIN set => set["prev"] \in Nat
    /\ "approved" \in DOMAIN set => set["approved"] \in SUBSET Ranges

(* The row that a change leaves: it is well formed, and its scope has been seen. *)
LEMMA RelayWritten ==
  ASSUME NEW x \in RelayRow, NEW set, Writes(set)
  PROVE  LET n == R!Overlaid(x, set) IN
         /\ n \in RelayRow
         /\ n.status = IF "status" \in DOMAIN set THEN set["status"] ELSE x.status
         /\ n.approved = IF "approved" \in DOMAIN set THEN set["approved"] ELSE x.approved
<1> DEFINE y == [status |-> IF "status" \in DOMAIN set THEN set["status"] ELSE x.status,
                 token |-> IF "token" \in DOMAIN set THEN set["token"] ELSE x.token,
                 fp |-> IF "fp" \in DOMAIN set THEN set["fp"] ELSE x.fp,
                 prev |-> IF "prev" \in DOMAIN set THEN set["prev"] ELSE x.prev,
                 approved |-> IF "approved" \in DOMAIN set THEN set["approved"] ELSE x.approved]
<1>1. R!Overlaid(x, set) = [c \in Columns |-> IF c \in DOMAIN set THEN set[c] ELSE x[c]]
  BY DEF RelayRow, Columns, R!Overlaid
<1>2. y = [c \in Columns |-> IF c \in DOMAIN set THEN set[c] ELSE x[c]]
  BY DEF Columns
<1>3. y \in RelayRow
  BY DEF RelayRow, Writes
<1> QED BY <1>1, <1>2, <1>3

RelayTyped ==
    /\ row \in [Relays -> RelayRow]
    /\ issued \in Nat
    /\ pending = [s \in RelayRequests |-> pending[s]]
    /\ \A s \in RelayRequests : pending[s].op # "none" =>
          pending[s].relay \in Relays /\ Writes(pending[s].set)

Live(q) == row[q].status \notin R!Gone \cup {"revoked"}

(* Only scope changes widen what a relay is approved for. *)
ScopesOnly ==
    /\ \A r \in Relays : row[r].status = "absent" => row[r].approved = {}
    /\ \A s \in RelayRequests : pending[s].op \notin {"none", "scope"} =>
          ("approved" \in DOMAIN pending[s].set => pending[s].set["approved"] = {})
    /\ \A s \in RelayRequests : pending[s].op = "scope" => DOMAIN pending[s].set = {"approved"}

(* One scope change at a time, which has seen the ranges of the others. *)
ScopeHasSeen ==
    /\ \A s, t \in RelayRequests : pending[s].op = "scope" /\ pending[t].op = "scope" => s = t
    /\ \A s \in RelayRequests : pending[s].op = "scope" =>
          \A q \in Relays \ revived :
              q # pending[s].relay /\ Live(q) => row[q].approved \cap pending[s].set["approved"] = {}

LiveDisjoint ==
    \A r, q \in Relays \ revived :
        r # q /\ Live(r) /\ Live(q) => row[r].approved \cap row[q].approved = {}

RelayInv == RelayTyped /\ ScopesOnly /\ (~raced => ScopeHasSeen /\ LiveDisjoint)

(* No relay is enrolled at first. *)
LEMMA InitRelay == R!Init => RelayInv
<1> SUFFICES ASSUME R!Init PROVE RelayInv
  OBVIOUS
<1>1. R!Absent \in RelayRow /\ R!Absent.status = "absent" /\ R!Absent.approved = {}
  BY DEF R!Absent, RelayRow, R!Statuses
<1>2. RelayTyped
  BY <1>1 DEF R!Init, RelayTyped, R!Idle
<1>3. ScopesOnly
  BY <1>1 DEF R!Init, ScopesOnly, R!Idle
<1>4. ScopeHasSeen /\ LiveDisjoint
  BY <1>1 DEF R!Init, ScopeHasSeen, LiveDisjoint, R!Idle, Live, R!Gone
<1> QED BY <1>2, <1>3, <1>4 DEF RelayInv

(* A request that begins will write what it changes of the row it has read. *)
LEMMA RelayBegins ==
  ASSUME RelayTyped, NEW s \in RelayRequests, NEW r \in Relays,
         NEW op, NEW new \in RelayRow, new.status # "absent", R!begin(s, op, r, new)
  PROVE  /\ \A t \in RelayRequests : t # s => pending'[t] = pending[t]
         /\ pending' = [t \in RelayRequests |-> pending'[t]]
         /\ pending'[s].op = op /\ pending'[s].relay = r /\ Writes(pending'[s].set)
         /\ \A f \in Columns : f \in DOMAIN pending'[s].set <=> new[f] # row[r][f]
         /\ \A f \in DOMAIN pending'[s].set : f \in Columns /\ pending'[s].set[f] = new[f]
         /\ DOMAIN pending'[s].set # {}
         /\ pending[s].op = "none"
<1> DEFINE changed == {f \in DOMAIN new : new[f] # row[r][f]}
           req == [op |-> op, relay |-> r, set |-> [f \in changed |-> new[f]]]
<1>1. pending' = [pending EXCEPT ![s] = req] /\ changed # {} /\ pending[s].op = "none"
  BY DEF R!begin, R!Idle
<1>2. DOMAIN new = Columns
  BY DEF RelayRow, Columns
<1>3. req.set = [f \in changed |-> new[f]] /\ req.op = op /\ req.relay = r
  OBVIOUS
<1>4. Writes(req.set)
  BY <1>2, <1>3 DEF Writes, RelayRow
<1> HIDE DEF req
<1>5. pending'[s] = req /\ \A t \in RelayRequests : t # s => pending'[t] = pending[t]
  BY <1>1 DEF RelayTyped
<1>6. pending' = [t \in RelayRequests |-> pending'[t]]
  BY <1>1 DEF RelayTyped
<1> QED BY <1>1, <1>2, <1>3, <1>4, <1>5, <1>6

(* What a request that is not a scope change reads and keeps. *)
LEMMA RelayBeginStep ==
  ASSUME RelayInv, NEW s \in RelayRequests, NEW r \in Relays,
         NEW op \in {"kill", "resume", "revoke", "delete", "renew"}, NEW new \in RelayRow, new.status # "absent",
         new.approved \in {row[r].approved, {}},
         R!begin(s, op, r, new), issued' \in Nat, UNCHANGED <<row, raced, revived>>
  PROVE  RelayInv'
<1>1. /\ \A t \in RelayRequests : t # s => pending'[t] = pending[t]
      /\ pending' = [t \in RelayRequests |-> pending'[t]]
      /\ pending'[s].op = op /\ pending'[s].relay = r /\ Writes(pending'[s].set)
      /\ \A f \in Columns : f \in DOMAIN pending'[s].set <=> new[f] # row[r][f]
      /\ \A f \in DOMAIN pending'[s].set : f \in Columns /\ pending'[s].set[f] = new[f]
  BY RelayBegins DEF RelayInv
<1>2. RelayTyped'
  <2>1. row \in [Relays -> RelayRow]
    BY DEF RelayInv, RelayTyped
  <2> QED BY <1>1, <2>1 DEF RelayInv, RelayTyped
<1>3. "approved" \in DOMAIN pending'[s].set => pending'[s].set["approved"] = {}
  BY <1>1 DEF Columns
<1>4. ScopesOnly'
  BY <1>1, <1>3 DEF RelayInv, ScopesOnly
<1>5. ~raced => ScopeHasSeen' /\ LiveDisjoint'
  BY <1>1 DEF RelayInv, ScopeHasSeen, LiveDisjoint, Live
<1> QED BY <1>2, <1>4, <1>5 DEF RelayInv

(* A scope change is judged on the scopes that it reads, and overtakes no other unless raced. *)
LEMMA RelayScopeStep ==
  ASSUME RelayInv, NEW s \in RelayRequests, NEW r \in Relays, NEW a \in SUBSET Ranges, R!set_scope_begin(s, r, a)
  PROVE  RelayInv'
<1> DEFINE new == [row[r] EXCEPT !.approved = a]
<1>0. row[r] \in RelayRow
  BY DEF RelayInv, RelayTyped
<1>1. /\ new \in RelayRow /\ new.approved = a
      /\ \A f \in Columns : f # "approved" => new[f] = row[r][f]
  BY <1>0 DEF RelayRow, Columns
<1>2. /\ R!begin(s, "scope", r, new) /\ UNCHANGED <<on, row, issued, revived>>
      /\ row[r].status \notin R!Gone
      /\ raced' = (raced \/ \E t \in RelayRequests : pending[t].op = "scope")
      /\ ~R!Overlap(r, a)
  BY DEF R!set_scope_begin, R!admin, R!begin
<1> HIDE DEF new
<1>3. new.status # "absent"
  BY <1>1, <1>2 DEF R!Gone, Columns
<1>4. /\ \A t \in RelayRequests : t # s => pending'[t] = pending[t]
      /\ pending' = [t \in RelayRequests |-> pending'[t]]
      /\ pending'[s].op = "scope" /\ pending'[s].relay = r /\ Writes(pending'[s].set)
      /\ \A f \in Columns : f \in DOMAIN pending'[s].set <=> new[f] # row[r][f]
      /\ \A f \in DOMAIN pending'[s].set : f \in Columns /\ pending'[s].set[f] = new[f]
      /\ DOMAIN pending'[s].set # {}
  BY <1>1, <1>2, <1>3, RelayBegins DEF RelayInv
<1>5. DOMAIN pending'[s].set = {"approved"} /\ pending'[s].set["approved"] = a
  BY <1>1, <1>4
<1>6. RelayTyped'
  BY <1>2, <1>4 DEF RelayInv, RelayTyped
<1>7. ScopesOnly'
  BY <1>2, <1>4, <1>5 DEF RelayInv, ScopesOnly
<1>8. ASSUME ~raced' PROVE ScopeHasSeen' /\ LiveDisjoint'
  <2>1. ~raced /\ \A t \in RelayRequests : pending[t].op # "scope"
    BY <1>2, <1>8
  <2>2. \A q \in Relays : q # r /\ Live(q) => row[q].approved \cap a = {}
    BY <1>2 DEF R!Overlap, Live
  <2>3. ScopeHasSeen'
    BY <1>2, <1>4, <1>5, <2>1, <2>2 DEF ScopeHasSeen, Live
  <2> QED BY <1>2, <2>1, <2>3 DEF RelayInv, LiveDisjoint, Live
<1> QED BY <1>6, <1>7, <1>8 DEF RelayInv

(* A commit writes what its request judged, on the row that is there. *)
LEMMA RelayCommitStep ==
  ASSUME RelayInv, NEW s \in RelayRequests, NEW op \in {"kill", "resume", "revoke", "delete", "scope", "renew"},
         R!commit(s, op), UNCHANGED <<issued, raced>>
  PROVE  RelayInv'
<1>0. pending[s].op = op /\ pending[s].relay \in Relays /\ Writes(pending[s].set)
  BY DEF R!commit, RelayInv, RelayTyped
<1>b. PICK r \in Relays : r = pending[s].relay
  BY <1>0
<1>c. PICK set : set = pending[s].set
  OBVIOUS
<1> DEFINE n == R!Overlaid(row[r], set)
<1>a. row[r] \in RelayRow
  BY DEF RelayInv, RelayTyped
<1>1. /\ n \in RelayRow
      /\ n.status = IF "status" \in DOMAIN set THEN set["status"] ELSE row[r].status
      /\ n.approved = IF "approved" \in DOMAIN set THEN set["approved"] ELSE row[r].approved
  BY <1>0, <1>b, <1>c, <1>a, RelayWritten
<1>2. /\ pending' = [pending EXCEPT ![s] = R!Idle]
      /\ IF row[r].status \in R!Gone THEN UNCHANGED <<row, revived>>
         ELSE /\ row' = [row EXCEPT ![r] = n]
              /\ revived' = IF row[r].status = "revoked" /\ n.status # "revoked"
                            THEN revived \cup {r} ELSE revived
  BY <1>b, <1>c DEF R!commit
<1> HIDE DEF n
<1>3. /\ \A t \in RelayRequests : pending'[t] = IF t = s THEN R!Idle ELSE pending[t]
      /\ pending' = [t \in RelayRequests |-> pending'[t]]
  BY <1>2 DEF RelayInv, RelayTyped
<1>4. R!Idle.op = "none"
  BY DEF R!Idle
<1>5. CASE row[r].status \in R!Gone
  BY <1>b, <1>2, <1>3, <1>4, <1>5 DEF RelayInv, RelayTyped, ScopesOnly, ScopeHasSeen, LiveDisjoint, Live
<1>6. CASE row[r].status \notin R!Gone
  <2>1. row' \in [Relays -> RelayRow] /\ \A q \in Relays : row'[q] = IF q = r THEN n ELSE row[q]
    BY <1>0, <1>b, <1>c, <1>1, <1>2, <1>6 DEF RelayInv, RelayTyped
  <2>2. n.status # "absent"
    BY <1>0, <1>b, <1>c, <1>1, <1>6 DEF Writes, R!Gone
  <2>3. revived \subseteq revived' /\ (Live(r)' => Live(r) \/ r \in revived')
    <3>1. revived' = IF row[r].status = "revoked" /\ n.status # "revoked" THEN revived \cup {r} ELSE revived
      BY <1>2, <1>6
    <3>2. row'[r] = n
      BY <1>0, <1>b, <1>c, <2>1
    <3>3. CASE row[r].status = "revoked"
      BY <3>1, <3>2, <3>3 DEF Live
    <3>4. CASE row[r].status # "revoked"
      BY <1>6, <3>1, <3>4 DEF Live
    <3> QED BY <3>3, <3>4
  <2>4. \A q \in Relays : q # r => (Live(q)' <=> Live(q))
    BY <2>1 DEF Live
  <2>5. RelayTyped'
    BY <1>3, <1>4, <2>1 DEF RelayInv, RelayTyped
  <2>6. ScopesOnly'
    BY <1>3, <1>4, <2>1, <2>2 DEF RelayInv, ScopesOnly
  <2>7. ASSUME ~raced PROVE ScopeHasSeen' /\ LiveDisjoint'
    <3>1. CASE op = "scope"
      <4>1. n.approved = set["approved"] /\ \A t \in RelayRequests : pending'[t].op # "scope"
        BY <1>0, <1>b, <1>c, <1>1, <1>3, <1>4, <2>7, <3>1 DEF RelayInv, ScopesOnly, ScopeHasSeen
      <4>2. \A q \in Relays \ revived : q # r /\ Live(q) => row[q].approved \cap n.approved = {}
        BY <1>0, <1>b, <1>c, <2>7, <3>1, <4>1 DEF RelayInv, ScopeHasSeen
      <4> QED BY <2>1, <2>3, <2>4, <2>7, <4>1, <4>2 DEF RelayInv, ScopeHasSeen, LiveDisjoint
    <3>2. CASE op # "scope"
      <4>1. n.approved \in {row[r].approved, {}}
        BY <1>0, <1>b, <1>c, <1>1, <3>2 DEF RelayInv, ScopesOnly
      <4>2. \A q \in Relays : row'[q].approved \subseteq row[q].approved
        BY <2>1, <4>1
      <4>3. \A q \in Relays \ revived' : q \notin revived /\ (Live(q)' => Live(q))
        BY <2>3, <2>4
      <4>4. \A t \in RelayRequests : pending'[t].op = "scope" => pending'[t] = pending[t]
        BY <1>3, <1>4
      <4>5. ScopeHasSeen'
        BY <2>7, <4>2, <4>3, <4>4 DEF RelayInv, ScopeHasSeen
      <4>6. LiveDisjoint'
        BY <2>7, <4>2, <4>3 DEF RelayInv, LiveDisjoint
      <4> QED BY <4>5, <4>6
    <3> QED BY <3>1, <3>2
  <2> QED BY <1>2, <2>5, <2>6, <2>7 DEF RelayInv
<1> QED BY <1>5, <1>6

(* What touches a row itself keeps what it is approved for. *)
LEMMA RelayRowStep ==
  ASSUME RelayInv, NEW r \in Relays, NEW new \in RelayRow, row' = [row EXCEPT ![r] = new],
         new.approved = row[r].approved, new.status # "absent",
         row[r].status = "absent" \/ (new.status \in {row[r].status, "enrolled"} /\ row[r].status \notin {"revoked", "deleted"}),
         issued' \in Nat, UNCHANGED <<pending, raced, revived>>
  PROVE  RelayInv'
<1>1. row' \in [Relays -> RelayRow] /\ \A q \in Relays : row'[q] = IF q = r THEN new ELSE row[q]
  BY DEF RelayInv, RelayTyped
<1>2. \A q \in Relays : row'[q].approved = row[q].approved /\ (Live(q)' => Live(q) \/ row[q].approved = {})
  BY <1>1 DEF RelayInv, ScopesOnly, Live, R!Gone
<1>3. RelayTyped' /\ ScopesOnly'
  BY <1>1 DEF RelayInv, RelayTyped, ScopesOnly
<1>4. ~raced => ScopeHasSeen' /\ LiveDisjoint'
  BY <1>2 DEF RelayInv, ScopeHasSeen, LiveDisjoint
<1> QED BY <1>3, <1>4 DEF RelayInv

(* Every step of the relays keeps the invariant: one case per action. *)
LEMMA NextRelay == RelayInv /\ [R!Next]_(R!vars) => RelayInv'
<1> SUFFICES ASSUME RelayInv, [R!Next]_(R!vars) PROVE RelayInv'
  OBVIOUS
<1>0. \A r \in Relays : row[r] \in RelayRow
  BY DEF RelayInv, RelayTyped
<1>1. ASSUME NEW b \in BOOLEAN, R!update_relay_settings(b) PROVE RelayInv'
  BY <1>1 DEF R!update_relay_settings, R!history, RelayInv, RelayTyped, ScopesOnly, ScopeHasSeen, LiveDisjoint, Live
<1>2. ASSUME NEW r \in Relays, R!enrollment_command(r) PROVE RelayInv'
  <2> DEFINE new == [row[r] EXCEPT !.status = "pending", !.token = TRUE]
  <2>1. new \in RelayRow /\ new.approved = row[r].approved /\ new.status = "pending"
    BY <1>0 DEF RelayRow, R!Statuses
  <2>2. row' = [row EXCEPT ![r] = new]
    BY <1>2 DEF R!enrollment_command
  <2> HIDE DEF new
  <2>3. row[r].status = "absent" /\ UNCHANGED <<pending, issued, raced, revived>>
    BY <1>2 DEF R!enrollment_command, R!history
  <2> QED BY <2>1, <2>2, <2>3, RelayRowStep DEF RelayInv, RelayTyped
<1>3. ASSUME NEW r \in Relays, R!register_relay(r) PROVE RelayInv'
  <2>0. row[r].status = "pending" /\ UNCHANGED <<pending, raced, revived>> /\ issued' \in Nat
    BY <1>3 DEF R!register_relay, R!history, RelayInv, RelayTyped
  <2>1. [row[r] EXCEPT !.token = FALSE] \in RelayRow /\ [row[r] EXCEPT !.token = FALSE].approved = row[r].approved
        /\ [row[r] EXCEPT !.token = FALSE].status = row[r].status
    BY <1>0 DEF RelayRow
  <2> DEFINE new == [row[r] EXCEPT !.status = "enrolled", !.fp = issued + 1, !.token = FALSE]
  <2>2. new \in RelayRow /\ new.approved = row[r].approved /\ new.status = "enrolled"
    <3>1. issued + 1 \in Nat /\ row[r] \in RelayRow
      BY <1>0 DEF RelayInv, RelayTyped
    <3> QED BY ONLY <3>1 DEF RelayRow, R!Statuses
  <2>3. row' = [row EXCEPT ![r] = new] \/ row' = [row EXCEPT ![r] = [row[r] EXCEPT !.token = FALSE]]
    BY <1>3 DEF R!register_relay
  <2> HIDE DEF new
  <2> QED BY <2>0, <2>1, <2>2, <2>3, RelayRowStep
<1>4. ASSUME NEW r \in Relays, R!grace_ends(r) PROVE RelayInv'
  <2> DEFINE new == [row[r] EXCEPT !.prev = 0]
  <2>1. new \in RelayRow /\ new.approved = row[r].approved /\ new.status = row[r].status
    BY <1>0 DEF RelayRow
  <2>2. row' = [row EXCEPT ![r] = new] /\ UNCHANGED <<pending, issued, raced, revived>>
    BY <1>4 DEF R!grace_ends, R!history
  <2> HIDE DEF new
  <2> QED BY <2>1, <2>2 DEF RelayInv, RelayTyped, ScopesOnly, ScopeHasSeen, LiveDisjoint, Live
<1>5. ASSUME NEW r \in Relays, R!agent_gives_up(r) PROVE RelayInv'
  BY <1>5 DEF R!agent_gives_up, R!history, RelayInv, RelayTyped, ScopesOnly, ScopeHasSeen, LiveDisjoint, Live
<1>6. ASSUME NEW s \in RelayRequests, NEW r \in Relays,
             R!kill_begin(s, r) \/ R!resume_begin(s, r) \/ R!revoke_begin(s, r) \/ R!delete_begin(s, r)
      PROVE  RelayInv'
  <2>1. /\ [row[r] EXCEPT !.status = "killed"] \in RelayRow
        /\ [row[r] EXCEPT !.status = "enrolled"] \in RelayRow
        /\ R!revoked(row[r]) \in RelayRow
        /\ [R!Absent EXCEPT !.status = "deleted"] \in RelayRow
    BY <1>0 DEF RelayRow, R!Statuses, R!revoked, R!Absent
  <2>2. /\ [row[r] EXCEPT !.status = "killed"].status = "killed"
        /\ [row[r] EXCEPT !.status = "killed"].approved = row[r].approved
        /\ [row[r] EXCEPT !.status = "enrolled"].status = "enrolled"
        /\ [row[r] EXCEPT !.status = "enrolled"].approved = row[r].approved
        /\ R!revoked(row[r]).status = "revoked" /\ R!revoked(row[r]).approved = {}
        /\ [R!Absent EXCEPT !.status = "deleted"].status = "deleted"
        /\ [R!Absent EXCEPT !.status = "deleted"].approved = {}
    BY <1>0 DEF RelayRow, R!revoked, R!Absent
  <2>3. PICK op \in {"kill", "resume", "revoke", "delete"},
             new \in {[row[r] EXCEPT !.status = "killed"], [row[r] EXCEPT !.status = "enrolled"],
                      R!revoked(row[r]), [R!Absent EXCEPT !.status = "deleted"]} :
          R!begin(s, op, r, new) /\ UNCHANGED <<row, issued, revived, raced>>
    BY <1>6 DEF R!kill_begin, R!resume_begin, R!revoke_begin, R!delete_begin, R!admin
  <2>4. new \in RelayRow /\ new.status # "absent" /\ new.approved \in {row[r].approved, {}}
    BY <2>1, <2>2
  <2> QED BY <2>3, <2>4, RelayBeginStep DEF RelayInv, RelayTyped
<1>7. ASSUME NEW s \in RelayRequests, NEW r \in Relays, R!renew_begin(s, r) PROVE RelayInv'
  <2> DEFINE new == [row[r] EXCEPT !.fp = issued + 1, !.prev = R!Previous(r)]
  <2>1. R!Previous(r) \in Nat /\ issued \in Nat
    BY <1>0 DEF R!Previous, RelayRow, RelayInv, RelayTyped
  <2>2. new \in RelayRow /\ new.approved = row[r].approved /\ new.status = row[r].status
    <3>1. issued + 1 \in Nat /\ row[r] \in RelayRow
      BY <1>0, <2>1
    <3> QED BY ONLY <2>1, <3>1 DEF RelayRow
  <2>3. R!begin(s, "renew", r, new) /\ UNCHANGED <<row, raced, revived>> /\ issued' = issued + 1
    BY <1>7 DEF R!renew_begin
  <2>4. row[r].status = "enrolled"
    BY <1>7 DEF R!renew_begin
  <2> HIDE DEF new
  <2> QED BY <2>1, <2>2, <2>3, <2>4, RelayBeginStep
<1>8. ASSUME NEW s \in RelayRequests, NEW r \in Relays, NEW a \in SUBSET Ranges, R!set_scope_begin(s, r, a) PROVE RelayInv'
  BY <1>8, RelayScopeStep
<1>9. ASSUME NEW s \in RelayRequests,
             R!kill(s) \/ R!resume(s) \/ R!revoke(s) \/ R!delete_relay(s) \/ R!set_scope(s) \/ R!renew_relay_certificate(s)
      PROVE  RelayInv'
  <2>1. PICK op \in {"kill", "resume", "revoke", "delete", "scope", "renew"} :
          R!commit(s, op) /\ UNCHANGED <<issued, raced>>
    BY <1>9 DEF R!kill, R!resume, R!revoke, R!delete_relay, R!set_scope, R!written, R!renew_relay_certificate
  <2> QED BY <2>1, RelayCommitStep
<1>10. CASE UNCHANGED R!vars
  BY <1>10 DEF R!vars, R!history, RelayInv, RelayTyped, ScopesOnly, ScopeHasSeen, LiveDisjoint, Live
<1> QED BY <1>1, <1>2, <1>3, <1>4, <1>5, <1>6, <1>7, <1>8, <1>9, <1>10 DEF R!Next

(***************************************************************************)
(* Two enrolled relays are never approved for a common range, whatever was *)
(* killed, revoked, deleted or enrolled again, unless two set_scope        *)
(* requests overlapped or a revoked relay came back: set_scope reads the   *)
(* scopes of the others before it writes its own.                          *)
(***************************************************************************)
THEOREM ControlRangesDisjoint == R!Spec => []RangesDisjoint
<1>1. RelayInv => RangesDisjoint
  BY DEF RelayInv, LiveDisjoint, RangesDisjoint, R!RangesDisjoint, Live, R!Gone
<1>2. R!Spec => []RelayInv
  BY InitRelay, NextRelay, PTL DEF R!Spec
<1> QED BY <1>1, <1>2, PTL

----------------------------------------------------------------------------
(***************************************************************************)
(* Credentials.  A deactivation stops the jobs that it has read, and those *)
(* are all that carry the credential and were not being created meanwhile  *)
(* (ReadAll).  So a job that nobody has stopped carries an active          *)
(* credential (StoppedOrActive), as does a creation that is under way.     *)
(***************************************************************************)
Carried == [cred : Creds, version : Nat]

JobRow == [status : C!Active \cup {"none", "completed", "failed", "cancelled"},
           envelope : Carried \cup {None}, cancel_requested : BOOLEAN,
           usage : {"encrypted_for_job", "succeeded", "failed"}, tested : Carried \cup {None},
           test : {"pending", "succeeded", "failed"}, late : BOOLEAN, moved : BOOLEAN]

Creation == [tested : Carried \cup {None}, envelope : Carried \cup {None}, late : BOOLEAN, moved : BOOLEAN]

Deactivation == [cred : Creds, jobs : SUBSET Jobs, queued : SUBSET Jobs, usage : SUBSET Jobs]

CredTyped ==
    /\ cred \in [Creds -> [active : BOOLEAN, version : Nat]]
    /\ job \in [Jobs -> JobRow]
    /\ tx \in [Requests -> Creation \cup {None}]
    /\ deact \in [Deactivations -> Deactivation \cup {None}]

ReadAll ==
    \A d \in Deactivations, j \in Jobs :
        deact[d] # None /\ job[j].status \in C!Active /\ job[j].envelope.cred = deact[d].cred /\ ~job[j].late =>
            j \in deact[d].jobs

StoppedOrActive ==
    /\ \A j \in Jobs : job[j].status \in C!Active =>
          /\ job[j].envelope # None
          /\ job[j].cancel_requested \/ job[j].late \/ cred[job[j].envelope.cred].active
    /\ \A r \in Requests : tx[r] # None /\ tx[r].envelope # None =>
          tx[r].late \/ cred[tx[r].envelope.cred].active

CredInv == CredTyped /\ ReadAll /\ StoppedOrActive

(* What is resolved is an active credential in its current version. *)
LEMMA Resolves ==
  ASSUME CredTyped, C!resolve_credential # None
  PROVE  C!resolve_credential \in Carried /\ cred[C!resolve_credential.cred].active
<1>1. PICK c \in Creds : c = CHOOSE e \in Creds : C!First = {e}
  BY DEF C!resolve_credential
<1>2. C!First = {c}
  BY <1>1 DEF C!resolve_credential
<1>3. C!resolve_credential = [cred |-> c, version |-> cred[c].version]
  BY <1>1 DEF C!resolve_credential
<1>4. cred[c].active
  BY <1>2 DEF C!First, C!Matching
<1> QED BY <1>3, <1>4 DEF CredTyped, Carried

(* Nothing is queued or offered at first. *)
LEMMA InitCred == C!Init => CredInv
BY DEF C!Init, CredInv, CredTyped, ReadAll, StoppedOrActive, C!Absent, JobRow, C!Active

(* A change of the vault overtakes the creations. *)
LEMMA VaultTyped ==
  ASSUME CredTyped, NEW S, C!VaultChanges(S)
  PROVE  /\ tx' \in [Requests -> Creation \cup {None}]
         /\ \A r \in Requests : tx'[r] # None /\ tx'[r].envelope # None =>
               /\ tx[r] # None /\ tx'[r].envelope = tx[r].envelope
               /\ tx[r].late => tx'[r].late
               /\ tx[r].envelope.cred \in S => tx'[r].late
<1> DEFINE new(r) == [tx[r] EXCEPT !.moved = @ \/ tx[r].envelope = None,
                        !.late = @ \/ (tx[r].envelope # None /\ tx[r].envelope.cred \in S)]
<1>1. tx' = [r \in Requests |-> IF tx[r] = None THEN None ELSE new(r)]
  BY DEF C!VaultChanges
<1>2. ASSUME NEW r \in Requests, tx[r] # None
      PROVE  /\ new(r) \in Creation /\ new(r).envelope = tx[r].envelope
             /\ new(r).late = (tx[r].late \/ (tx[r].envelope # None /\ tx[r].envelope.cred \in S))
  <2>1. tx[r] \in Creation
    BY <1>2 DEF CredTyped
  <2>2. (tx[r].moved \/ tx[r].envelope = None) \in BOOLEAN /\ (tx[r].late \/ (tx[r].envelope # None /\ tx[r].envelope.cred \in S)) \in BOOLEAN
    OBVIOUS
  <2> QED BY <2>1, <2>2 DEF Creation
<1> HIDE DEF new
<1> QED BY <1>1, <1>2

(* What reports, polls, leases and cancellations write of an active job. *)
LEMMA JobStep ==
  ASSUME CredInv, NEW j \in Jobs, NEW x \in JobRow, C!SetJob(j, x), job[j].status \in C!Active,
         x.envelope = job[j].envelope, x.late = job[j].late, job[j].cancel_requested => x.cancel_requested
  PROVE  CredInv'
<1>1. job' \in [Jobs -> JobRow] /\ \A i \in Jobs : job'[i] = IF i = j THEN x ELSE job[i]
  BY DEF C!SetJob, CredInv, CredTyped
<1>2. UNCHANGED <<cred, tx, deact>>
  BY DEF C!SetJob
<1>3. CredTyped'
  BY <1>1, <1>2 DEF CredInv, CredTyped
<1>4. ReadAll'
  BY <1>1, <1>2 DEF CredInv, ReadAll
<1>5. StoppedOrActive'
  BY <1>1, <1>2 DEF CredInv, StoppedOrActive
<1> QED BY <1>3, <1>4, <1>5 DEF CredInv

(* A change of the vault that leaves the jobs and what is active alone. *)
LEMMA KeepsActive ==
  ASSUME CredInv, C!VaultChanges({}), UNCHANGED <<job, deact>>,
         cred' \in [Creds -> [active : BOOLEAN, version : Nat]],
         \A c \in Creds : cred[c].active => cred'[c].active
  PROVE  CredInv'
<1>1. /\ tx' \in [Requests -> Creation \cup {None}]
      /\ \A r \in Requests : tx'[r] # None /\ tx'[r].envelope # None =>
            /\ tx[r] # None /\ tx'[r].envelope = tx[r].envelope
            /\ tx[r].late => tx'[r].late
  BY VaultTyped DEF CredInv
<1>2. CredTyped' /\ ReadAll'
  BY <1>1 DEF CredInv, CredTyped, ReadAll
<1>3. \A j \in Jobs : job[j].envelope # None => job[j].envelope.cred \in Creds
  BY DEF CredInv, CredTyped, JobRow, Carried
<1>4. \A r \in Requests : tx[r] # None /\ tx[r].envelope # None => tx[r].envelope.cred \in Creds
  BY DEF CredInv, CredTyped, Creation, Carried
<1>5. StoppedOrActive'
  BY <1>1, <1>3, <1>4 DEF CredInv, StoppedOrActive
<1> QED BY <1>2, <1>5 DEF CredInv

(* A deactivation takes the jobs that are active when it reads them. *)
LEMMA DeactivateReadStep ==
  ASSUME CredInv, NEW d \in Deactivations, NEW c \in Creds, C!deactivate_read(d, c)
  PROVE  CredInv'
<1> DEFINE mine == {j \in Jobs : job[j].envelope # None /\ job[j].envelope.cred = c}
           D == [cred |-> c, jobs |-> {j \in mine : job[j].status \in C!Active},
                 queued |-> {j \in mine : job[j].status = "queued"},
                 usage |-> {j \in mine : job[j].usage = "encrypted_for_job"}]
<1>1. deact' = [deact EXCEPT ![d] = D] /\ UNCHANGED <<cred, job, tx>>
  BY DEF C!deactivate_read
<1>2. D \in Deactivation
  BY DEF Deactivation
<1>3. D.cred = c /\ D.jobs = {j \in mine : job[j].status \in C!Active}
  OBVIOUS
<1>4. \A j \in Jobs : job[j].status \in C!Active => job[j].envelope # None
  BY DEF CredInv, StoppedOrActive
<1> HIDE DEF D
<1>5. deact' \in [Deactivations -> Deactivation \cup {None}]
      /\ \A e \in Deactivations : deact'[e] = IF e = d THEN D ELSE deact[e]
  BY <1>1, <1>2 DEF CredInv, CredTyped
<1>6. CredTyped'
  BY <1>1, <1>5 DEF CredInv, CredTyped
<1>7. ReadAll'
  BY <1>1, <1>3, <1>4, <1>5 DEF CredInv, ReadAll
<1>8. StoppedOrActive'
  BY <1>1 DEF CredInv, StoppedOrActive
<1> QED BY <1>6, <1>7, <1>8 DEF CredInv

(* A deactivation that commits has cancelled the jobs that it read. *)
LEMMA DeactivateStep ==
  ASSUME CredInv, NEW d \in Deactivations, C!deactivate(d)
  PROVE  CredInv'
<1> DEFINE x(j) == [job[j] EXCEPT !.cancel_requested = @ \/ C!Signalled(d, j),
                       !.status = IF j \in deact[d].queued THEN "cancelled" ELSE @,
                       !.usage = IF j \in deact[d].usage THEN "failed" ELSE @]
<1>1. PICK c : c = deact[d].cred
  OBVIOUS
<1>2. /\ deact[d] # None /\ C!VaultChanges({c})
      /\ cred' = [cred EXCEPT ![c].active = FALSE]
      /\ job' = [j \in Jobs |-> x(j)]
      /\ deact' = [deact EXCEPT ![d] = None]
  BY <1>1 DEF C!deactivate
<1>3. c \in Creds
  BY <1>1, <1>2 DEF CredInv, CredTyped, Deactivation
<1>4. ASSUME NEW j \in Jobs
      PROVE  /\ x(j) \in JobRow /\ x(j).envelope = job[j].envelope /\ x(j).late = job[j].late
             /\ x(j).cancel_requested = (job[j].cancel_requested \/ j \in deact[d].jobs)
             /\ x(j).status \in C!Active => job[j].status \in C!Active
  <2>1. job[j] \in JobRow
    BY DEF CredInv, CredTyped
  <2>2. (job[j].cancel_requested \/ C!Signalled(d, j)) \in BOOLEAN
    OBVIOUS
  <2>3. x(j) \in JobRow
    BY <2>1, <2>2 DEF JobRow
  <2>4. x(j).envelope = job[j].envelope /\ x(j).late = job[j].late
    BY <2>1 DEF JobRow
  <2>5. x(j).cancel_requested = (job[j].cancel_requested \/ C!Signalled(d, j))
    BY <2>1, Zenon DEF JobRow
  <2>6. x(j).status = IF j \in deact[d].queued THEN "cancelled" ELSE job[j].status
    BY <2>1 DEF JobRow
  <2> QED BY <2>3, <2>4, <2>5, <2>6 DEF C!Signalled, C!Active
<1> HIDE DEF x
<1>5. job' \in [Jobs -> JobRow] /\ \A j \in Jobs : job'[j] = x(j)
  BY <1>2, <1>4
<1>6. cred' \in [Creds -> [active : BOOLEAN, version : Nat]]
      /\ \A e \in Creds : e # c => cred'[e] = cred[e]
  BY <1>2, <1>3 DEF CredInv, CredTyped
<1>7. deact' \in [Deactivations -> Deactivation \cup {None}]
      /\ \A e \in Deactivations : deact'[e] # None => deact'[e] = deact[e]
  BY <1>2 DEF CredInv, CredTyped
<1>8. /\ tx' \in [Requests -> Creation \cup {None}]
      /\ \A r \in Requests : tx'[r] # None /\ tx'[r].envelope # None =>
            /\ tx[r] # None /\ tx'[r].envelope = tx[r].envelope
            /\ tx[r].late => tx'[r].late
            /\ tx[r].envelope.cred \in {c} => tx'[r].late
  BY <1>2, VaultTyped DEF CredInv
<1>9. CredTyped'
  BY <1>5, <1>6, <1>7, <1>8 DEF CredInv, CredTyped
<1>10. ReadAll'
  BY <1>4, <1>5, <1>7 DEF CredInv, ReadAll
<1>11. \A j \in Jobs : job'[j].status \in C!Active =>
          /\ job'[j].envelope # None
          /\ job'[j].cancel_requested \/ job'[j].late \/ cred'[job'[j].envelope.cred].active
  <2> TAKE j \in Jobs
  <2> HAVE job'[j].status \in C!Active
  <2>1. /\ job'[j].envelope = job[j].envelope /\ job'[j].late = job[j].late /\ job[j].status \in C!Active
        /\ job'[j].cancel_requested = (job[j].cancel_requested \/ j \in deact[d].jobs)
    BY <1>4, <1>5
  <2>2. job[j].envelope # None /\ job[j].envelope.cred \in Creds
    BY <2>1 DEF CredInv, CredTyped, JobRow, Carried, StoppedOrActive
  <2>3. CASE job[j].envelope.cred = c
    BY <1>1, <1>2, <2>1, <2>2, <2>3 DEF CredInv, ReadAll
  <2>4. CASE job[j].envelope.cred # c
    BY <1>6, <2>1, <2>2, <2>4 DEF CredInv, StoppedOrActive
  <2> QED BY <2>3, <2>4
<1>12. \A r \in Requests : tx[r] # None /\ tx[r].envelope # None => tx[r].envelope.cred \in Creds
  BY DEF CredInv, CredTyped, Creation, Carried
<1>13. \A r \in Requests : tx'[r] # None /\ tx'[r].envelope # None =>
          tx'[r].late \/ cred'[tx'[r].envelope.cred].active
  BY <1>6, <1>8, <1>12 DEF CredInv, StoppedOrActive
<1> QED BY <1>9, <1>10, <1>11, <1>13 DEF CredInv, StoppedOrActive

(* A creation resolves what is active, and is queued with what it resolved. *)
LEMMA TxStep ==
  ASSUME CredInv, NEW r \in Requests, NEW t \in Creation \cup {None}, tx' = [tx EXCEPT ![r] = t],
         t # None /\ t.envelope # None => t.late \/ cred[t.envelope.cred].active,
         UNCHANGED <<cred, job, deact>>
  PROVE  CredInv'
<1>1. tx' \in [Requests -> Creation \cup {None}] /\ \A q \in Requests : tx'[q] = IF q = r THEN t ELSE tx[q]
  BY DEF CredInv, CredTyped
<1>2. CredTyped' /\ ReadAll'
  BY <1>1 DEF CredInv, CredTyped, ReadAll
<1>3. StoppedOrActive'
  BY <1>1 DEF CredInv, StoppedOrActive
<1> QED BY <1>2, <1>3 DEF CredInv

(* A poll resolves what is active, and offers it in its current version. *)
LEMMA ResolveStep ==
  ASSUME CredInv, NEW r \in Requests, C!resolve_required_credentials(r)
  PROVE  CredInv'
<1>1. UNCHANGED <<cred, job, deact>>
  BY DEF C!resolve_required_credentials
<1>2. CASE C!resolve_credential = None
  <2>1. tx' = [tx EXCEPT ![r] = None]
    BY <1>2 DEF C!resolve_required_credentials
  <2> QED BY <1>1, <2>1, TxStep
<1>3. CASE C!resolve_credential # None
  <2>1. C!resolve_credential \in Carried /\ cred[C!resolve_credential.cred].active
    BY <1>3, Resolves DEF CredInv
  <2>2. PICK e \in Carried : e = C!resolve_credential
    BY <2>1
  <2>3. CASE tx[r] # None
    <3>1. tx' = [tx EXCEPT ![r] = [tx[r] EXCEPT !.envelope = e]]
      BY <1>3, <2>2, <2>3 DEF C!resolve_required_credentials
    <3>2. tx[r] \in Creation
      BY <2>3 DEF CredInv, CredTyped
    <3>3. [tx[r] EXCEPT !.envelope = e] \in Creation /\ [tx[r] EXCEPT !.envelope = e].envelope = e
      BY <3>2 DEF Creation
    <3> QED BY <1>1, <2>1, <2>2, <3>1, <3>3, TxStep
  <2>4. CASE tx[r] = None
    <3>1. tx' = [tx EXCEPT ![r] = [tested |-> None, envelope |-> e, late |-> FALSE, moved |-> FALSE]]
      BY <1>3, <2>2, <2>4 DEF C!resolve_required_credentials
    <3>2. [tested |-> None, envelope |-> e, late |-> FALSE, moved |-> FALSE] \in Creation
      BY DEF Creation
    <3> QED BY <1>1, <2>1, <2>2, <3>1, <3>2, TxStep
  <2> QED BY <2>3, <2>4
<1> QED BY <1>2, <1>3

(* A creation commits a job that names what it resolved. *)
LEMMA CreateStep ==
  ASSUME CredInv, NEW r \in Requests, NEW j \in Jobs, C!create_scan_job(r, j)
  PROVE  CredInv'
<1>1. PICK stale \in BOOLEAN :
        stale = (\/ tx[r].late
                \/ \E d \in Deactivations : deact[d] # None /\ deact[d].cred = tx[r].envelope.cred)
  OBVIOUS
<1> DEFINE x == [C!Absent EXCEPT !.status = "queued", !.envelope = tx[r].envelope,
                    !.tested = tx[r].tested, !.moved = tx[r].moved, !.late = stale]
<1>2. /\ tx[r] # None /\ tx[r].envelope # None /\ job[j].status = "none"
      /\ job' = [job EXCEPT ![j] = x]
      /\ tx' = [tx EXCEPT ![r] = None] /\ UNCHANGED <<cred, deact>>
  BY <1>1 DEF C!create_scan_job
<1>3. tx[r] \in Creation
  BY <1>2 DEF CredInv, CredTyped
<1>4. x \in JobRow /\ x.envelope = tx[r].envelope /\ x.late = stale
  BY <1>3 DEF C!Absent, JobRow, C!Active, Creation
<1> HIDE DEF x
<1>5. job' \in [Jobs -> JobRow] /\ \A i \in Jobs : job'[i] = IF i = j THEN x ELSE job[i]
  BY <1>2, <1>4 DEF CredInv, CredTyped
<1>6. tx' \in [Requests -> Creation \cup {None}] /\ \A q \in Requests : tx'[q] = IF q = r THEN None ELSE tx[q]
  BY <1>2 DEF CredInv, CredTyped
<1>7. CredTyped'
  BY <1>2, <1>5, <1>6 DEF CredInv, CredTyped
<1>8. ReadAll'
  BY <1>1, <1>2, <1>4, <1>5 DEF CredInv, ReadAll
<1>9. stale \/ cred[tx[r].envelope.cred].active
  BY <1>1, <1>2 DEF CredInv, StoppedOrActive
<1>10. StoppedOrActive'
  BY <1>2, <1>4, <1>5, <1>6, <1>9 DEF CredInv, StoppedOrActive
<1> QED BY <1>7, <1>8, <1>10 DEF CredInv

(* Every step of the vault and of its jobs keeps the invariant: one case per action. *)
LEMMA NextCred == CredInv /\ [C!Next]_(C!vars) => CredInv'
<1> SUFFICES ASSUME CredInv, [C!Next]_(C!vars) PROVE CredInv'
  OBVIOUS
<1>0. cred \in [Creds -> [active : BOOLEAN, version : Nat]] /\ \A j \in Jobs : job[j] \in JobRow
  BY DEF CredInv, CredTyped
<1>1. ASSUME NEW c \in Creds, C!store_secret_version(c) PROVE CredInv'
  <2>1. C!VaultChanges({}) /\ cred' = [cred EXCEPT ![c].version = @ + 1] /\ UNCHANGED <<job, deact>>
    BY <1>1 DEF C!store_secret_version
  <2>2. cred' \in [Creds -> [active : BOOLEAN, version : Nat]] /\ \A e \in Creds : cred'[e].active = cred[e].active
    BY <1>0, <2>1
  <2> QED BY <2>1, <2>2, KeepsActive
<1>2. ASSUME NEW c \in Creds, C!activate(c) PROVE CredInv'
  <2>1. C!VaultChanges({}) /\ cred' = [cred EXCEPT ![c].active = TRUE] /\ UNCHANGED <<job, deact>>
    BY <1>2 DEF C!activate
  <2>2. cred' \in [Creds -> [active : BOOLEAN, version : Nat]] /\ \A e \in Creds : cred[e].active => cred'[e].active
    BY <1>0, <2>1
  <2> QED BY <2>1, <2>2, KeepsActive
<1>3. ASSUME NEW c \in Creds, NEW l \in Levels, C!create_assignment(c, l) \/ C!delete_assignment(c, l) PROVE CredInv'
  <2>1. C!VaultChanges({}) /\ UNCHANGED <<cred, job, deact>>
    BY <1>3 DEF C!create_assignment, C!delete_assignment
  <2> QED BY <1>0, <2>1, KeepsActive
<1>4. ASSUME NEW d \in Deactivations, NEW c \in Creds, C!deactivate_read(d, c) PROVE CredInv'
  BY <1>4, DeactivateReadStep
<1>5. ASSUME NEW d \in Deactivations, C!deactivate(d) PROVE CredInv'
  BY <1>5, DeactivateStep
<1>6. ASSUME NEW r \in Requests, NEW c \in Creds, C!test_credential(r, c) PROVE CredInv'
  <2>1. C!resolve_credential # None /\ UNCHANGED <<cred, job, deact>>
    BY <1>6 DEF C!test_credential, C!Resolved
  <2>2. C!resolve_credential \in Carried
    BY <2>1, Resolves DEF CredInv
  <2>3. PICK e \in Carried : e = [cred |-> c, version |-> C!resolve_credential.version]
    BY <2>2 DEF Carried
  <2>4. tx' = [tx EXCEPT ![r] = [tested |-> e, envelope |-> None, late |-> FALSE, moved |-> FALSE]]
    BY <1>6, <2>3 DEF C!test_credential
  <2>5. [tested |-> e, envelope |-> None, late |-> FALSE, moved |-> FALSE] \in Creation
    BY DEF Creation
  <2> QED BY <2>1, <2>4, <2>5, TxStep
<1>7. ASSUME NEW r \in Requests, C!resolve_required_credentials(r) PROVE CredInv'
  BY <1>7, ResolveStep
<1>8. ASSUME NEW r \in Requests, NEW j \in Jobs, C!create_scan_job(r, j) PROVE CredInv'
  BY <1>8, CreateStep
<1>9. ASSUME NEW j \in Jobs, C!poll_next_job(j) \/ C!_reclaim_expired_attempts(j)
                             \/ C!report_job_status(j) \/ C!cancel_job(j)
      PROVE  CredInv'
  <2>1. job[j] \in JobRow
    BY <1>0
  <2>2. CASE C!poll_next_job(j) \/ C!_reclaim_expired_attempts(j)
    <3>1. PICK s \in {"offered", "cancelled", "queued"} : C!SetJob(j, [job[j] EXCEPT !.status = s])
      BY <2>2 DEF C!poll_next_job, C!_reclaim_expired_attempts
    <3>2. job[j].status \in C!Active
      BY <2>2 DEF C!poll_next_job, C!_reclaim_expired_attempts, C!Active
    <3> DEFINE x == [job[j] EXCEPT !.status = s]
    <3>3. x \in JobRow /\ x.envelope = job[j].envelope /\ x.late = job[j].late /\ x.cancel_requested = job[j].cancel_requested
      BY <2>1 DEF JobRow, C!Active
    <3> HIDE DEF x
    <3> QED BY <3>1, <3>2, <3>3, JobStep DEF x
  <2>3. CASE C!report_job_status(j)
    <3>1. job[j].status \in C!Active
      BY <2>3 DEF C!report_job_status, C!Active
    <3>2. CASE C!SetJob(j, [job[j] EXCEPT !.status = "running"])
      <4> DEFINE x == [job[j] EXCEPT !.status = "running"]
      <4>1. x \in JobRow /\ x.envelope = job[j].envelope /\ x.late = job[j].late /\ x.cancel_requested = job[j].cancel_requested
        BY <2>1 DEF JobRow, C!Active
      <4>2. C!SetJob(j, x)
        BY <3>2
      <4> HIDE DEF x
      <4> QED BY <3>1, <4>1, <4>2, JobStep
    <3>3. ASSUME NEW s \in {"completed", "failed", "cancelled"}, NEW o \in {"succeeded", "failed"},
                 C!SetJob(j, [job[j] EXCEPT !.status = s, !.usage = o, !.test = o])
          PROVE  CredInv'
      <4> DEFINE x == [job[j] EXCEPT !.status = s, !.usage = o, !.test = o]
      <4>1. x \in JobRow /\ x.envelope = job[j].envelope /\ x.late = job[j].late /\ x.cancel_requested = job[j].cancel_requested
        BY <2>1 DEF JobRow, C!Active
      <4>2. C!SetJob(j, x)
        BY <3>3
      <4> HIDE DEF x
      <4> QED BY <3>1, <4>1, <4>2, JobStep
    <3> QED BY <2>3, <3>2, <3>3 DEF C!report_job_status
  <2>4. CASE C!cancel_job(j)
    <3>1. job[j].status \in C!Active
      BY <2>4 DEF C!cancel_job
    <3> DEFINE x == [job[j] EXCEPT !.cancel_requested = TRUE, !.status = IF @ = "queued" THEN "cancelled" ELSE @]
    <3>2. x \in JobRow /\ x.envelope = job[j].envelope /\ x.late = job[j].late /\ x.cancel_requested
      BY <2>1 DEF JobRow, C!Active
    <3>3. C!SetJob(j, x)
      BY <2>4 DEF C!cancel_job
    <3> HIDE DEF x
    <3> QED BY <3>1, <3>2, <3>3, JobStep
  <2> QED BY <1>9, <2>2, <2>3, <2>4
<1>10. CASE UNCHANGED C!vars
  BY <1>10 DEF C!vars, CredInv, CredTyped, ReadAll, StoppedOrActive
<1> QED BY <1>1, <1>2, <1>3, <1>4, <1>5, <1>6, <1>7, <1>8, <1>9, <1>10 DEF C!Next, C!Vault, C!Create

(***************************************************************************)
(* poll_next_job never offers a queued job whose credential an             *)
(* administrator has deactivated, unless the job was created while the     *)
(* vault changed: the deactivation cancels every job it reads, and those   *)
(* are all that carry the credential.                                      *)
(***************************************************************************)
THEOREM ControlDeactivatedIsNotOffered == C!Spec => DeactivatedIsNotOffered
<1> DEFINE P == \A j \in Jobs : job[j].status = "queued" /\ job'[j].status = "offered" =>
                   cred[job[j].envelope.cred].active \/ job[j].late
<1>1. CredInv /\ [C!Next]_(C!vars) => [P]_(C!vars)
  <2> SUFFICES ASSUME CredInv, C!Next, NEW j \in Jobs, job[j].status = "queued", job'[j].status = "offered"
               PROVE  ~job[j].cancel_requested
    BY DEF CredInv, StoppedOrActive, C!Active
  <2>1. job' # job
    OBVIOUS
  <2>2. ASSUME NEW d \in Deactivations, C!deactivate(d) PROVE FALSE
    <3>1. job[j] \in JobRow
      BY DEF CredInv, CredTyped
    <3>2. job'[j] = [job[j] EXCEPT !.cancel_requested = @ \/ C!Signalled(d, j),
                        !.status = IF j \in deact[d].queued THEN "cancelled" ELSE @,
                        !.usage = IF j \in deact[d].usage THEN "failed" ELSE @]
      BY <2>2 DEF C!deactivate
    <3>3. job'[j].status = IF j \in deact[d].queued THEN "cancelled" ELSE job[j].status
      BY <3>1, <3>2 DEF JobRow
    <3> QED BY <3>3
  <2>3. \A r \in Requests, i \in Jobs : C!create_scan_job(r, i) => FALSE
    BY DEF C!create_scan_job, CredInv, CredTyped, JobRow, C!Absent
  <2>4. PICK i \in Jobs : C!poll_next_job(i) \/ C!_reclaim_expired_attempts(i) \/ C!report_job_status(i) \/ C!cancel_job(i)
    BY <2>1, <2>2, <2>3 DEF C!Next, C!Vault, C!Create, C!store_secret_version, C!create_assignment, C!delete_assignment,
       C!activate, C!deactivate_read, C!test_credential, C!resolve_required_credentials
  <2>5. C!poll_next_job(i)
    BY <2>4 DEF C!_reclaim_expired_attempts, C!report_job_status, C!cancel_job, C!SetJob, CredInv, CredTyped, JobRow
  <2>6. i = j
    BY <2>5 DEF C!poll_next_job, C!SetJob, CredInv, CredTyped, JobRow
  <2> QED BY <2>5, <2>6 DEF C!poll_next_job
<1>2. C!Spec => []CredInv
  BY InitCred, NextCred, PTL DEF C!Spec
<1> QED BY <1>1, <1>2, PTL DEF C!Spec, DeactivatedIsNotOffered, C!DeactivatedIsNotOffered

----------------------------------------------------------------------------
(***************************************************************************)
(* Accounts.  A handler writes what keeps an administrator (Keeps), judged *)
(* by what it has read; as long as nobody else commits, the one that is    *)
(* under way has read what is there (AccountsInv).                         *)
(***************************************************************************)
Fields == {"role", "account_status", "is_active", "password", "invitation", "break_glass", "factor", "member"}

Kept(x, u) == x[u].role = "admin" /\ x[u].account_status = "active" /\ x[u].is_active

KeptBreakGlass(x, u) == Kept(x, u) /\ u \in Local /\ x[u].break_glass /\ x[u].password /\ x[u].factor

After(sets) == [u \in A!Users |-> IF u \in DOMAIN sets THEN A!Overlaid(user[u], sets[u]) ELSE user[u]]

Keeps(sets, e) ==
    /\ A!Administrators # {} => \E u \in A!Users : Kept(After(sets), u)
    /\ A!Recoverable /\ e =>
          \/ \E u \in A!Users : KeptBreakGlass(After(sets), u)
          \/ \E u \in A!active_break_glass_users : After(sets)[u].role = "other"

AccountRows ==
    /\ user = [u \in A!Users |-> user[u]]
    /\ \A u \in A!Users : DOMAIN user[u] = Fields

AccountsInv ==
    /\ AccountRows /\ enforced \in BOOLEAN
    /\ under # None =>
          /\ under.enforced \in BOOLEAN
          /\ under = [f \in {"sets", "lock", "fresh", "enforced", "maps", "policy", "mapping"} |-> under[f]]
          /\ under.fresh => Keeps(under.sets, IF under.policy THEN under.enforced ELSE enforced)

Stays ==
    /\ A!Administrators # {} /\ A!Administrators' = {} => A!StaleCommit
    /\ A!Recoverable /\ ~A!Recoverable' =>
          A!StaleCommit \/ \E u \in A!active_break_glass_users : user'[u].role = "other"

(* The first administrator is recoverable. *)
LEMMA InitAccounts == A!Init => AccountsInv
<1> SUFFICES ASSUME A!Init PROVE AccountsInv
  OBVIOUS
<1>1. DOMAIN A!Absent = Fields
  BY DEF A!Absent, Fields
<1>2. PICK u \in Local :
        user = [v \in A!Users |-> IF v # u THEN A!Absent
                                  ELSE [A!Absent EXCEPT !.role = "admin", !.password = TRUE,
                                          !.account_status = "active", !.is_active = TRUE]]
  BY DEF A!Init
<1>3. DOMAIN [A!Absent EXCEPT !.role = "admin", !.password = TRUE,
                !.account_status = "active", !.is_active = TRUE] = Fields
  BY <1>1
<1>4. AccountRows
  BY <1>1, <1>2, <1>3 DEF AccountRows
<1> QED BY <1>4 DEF A!Init, AccountsInv

(* A commit of what is sound. *)
LEMMA AccountCommitKeeps ==
  ASSUME AccountRows, NEW sets, NEW e, NEW m, A!Commit(sets, e, m)
  PROVE  /\ AccountRows'
         /\ Keeps(sets, e) => Stays
<1>1. user' = After(sets) /\ enforced' = e
  BY DEF A!Commit, After
<1>2. \A u \in A!Users : user'[u] = IF u \in DOMAIN sets THEN A!Overlaid(user[u], sets[u]) ELSE user[u]
  BY <1>1 DEF After
<1>3. user' = [u \in A!Users |-> user'[u]]
  BY <1>1 DEF After
<1>4. AccountRows'
  BY <1>2, <1>3 DEF AccountRows, A!Overlaid
<1>5. \A u \in A!Users : Kept(user', u) <=> u \in A!Administrators'
  BY DEF Kept, A!Administrators, A!Usable
<1>6. \A u \in A!Users : KeptBreakGlass(user', u) <=> u \in A!active_break_glass_users'
  BY <1>5 DEF KeptBreakGlass, A!active_break_glass_users
<1>7. ASSUME Keeps(sets, e) PROVE Stays
  <2>1. A!Administrators # {} => A!Administrators' # {}
    BY <1>1, <1>5, <1>7 DEF Keeps
  <2>2. A!Recoverable /\ ~A!Recoverable' => \E u \in A!active_break_glass_users : user'[u].role = "other"
    <3>1. A!Recoverable' <=> (e => A!active_break_glass_users' # {})
      BY <1>1 DEF A!Recoverable
    <3> QED BY <1>1, <1>6, <1>7, <3>1 DEF Keeps
  <2> QED BY <2>1, <2>2 DEF Stays
<1> QED BY <1>4, <1>7

(* A handler commits at once, or what is sound now is so until a commit. *)
LEMMA HandleStep ==
  ASSUME AccountsInv, NEW sets, NEW e \in BOOLEAN, NEW m, NEW lock, Keeps(sets, e), A!Handle(sets, e, m, lock)
  PROVE  AccountsInv' /\ Stays
<1>1. CASE /\ A!Commit(sets, e, m)
           /\ IF under = None THEN under' = None ELSE under' = [under EXCEPT !.fresh = FALSE]
  <2>1. AccountRows' /\ Stays /\ enforced' = e
    BY <1>1, AccountCommitKeeps DEF AccountsInv, A!Commit
  <2>2. under' # None => under' = [f \in {"sets", "lock", "fresh", "enforced", "maps", "policy", "mapping"} |-> under'[f]]
                         /\ ~under'.fresh /\ under'.enforced \in BOOLEAN
    BY <1>1 DEF AccountsInv
  <2> QED BY <2>1, <2>2 DEF AccountsInv
<1>2. CASE /\ under' = [sets |-> sets, lock |-> lock, fresh |-> TRUE, enforced |-> e,
                        maps |-> m, policy |-> e # enforced, mapping |-> m # maps]
           /\ UNCHANGED <<user, enforced, maps>>
  <2>1. under' = [f \in {"sets", "lock", "fresh", "enforced", "maps", "policy", "mapping"} |-> under'[f]]
    BY <1>2
  <2>2. under'.sets = sets /\ under'.enforced = e /\ under'.policy = (e # enforced)
    BY <1>2
  <2>3. (IF under'.policy THEN under'.enforced ELSE enforced) = e
    BY <2>2
  <2>4. Keeps(sets, e)'
    BY <1>2 DEF Keeps, After, A!Recoverable, A!active_break_glass_users, A!Administrators, A!Usable
  <2> QED BY <1>2, <2>1, <2>2, <2>3, <2>4 DEF AccountsInv, AccountRows, Stays, A!Administrators, A!Usable,
          A!Recoverable, A!active_break_glass_users
<1> QED BY <1>1, <1>2 DEF A!Handle

(* What a handler writes of one account is sound if the account was no     *)
(* administrator, stays one or another is there; and as a break-glass      *)
(* administrator, unless it loses that role.                               *)
Loses(columns) ==
    \/ "role" \in DOMAIN columns /\ columns["role"] # "admin"
    \/ "account_status" \in DOMAIN columns /\ columns["account_status"] # "active"
    \/ "is_active" \in DOMAIN columns /\ ~columns["is_active"]

LosesBreakGlass(columns) ==
    \/ Loses(columns)
    \/ "break_glass" \in DOMAIN columns /\ ~columns["break_glass"]
    \/ "password" \in DOMAIN columns /\ ~columns["password"]
    \/ "factor" \in DOMAIN columns /\ ~columns["factor"]

(* A write of the columns of one account keeps an administrator if the account is not the last. *)
LEMMA OnlyKeeps ==
  ASSUME AccountsInv, NEW u \in A!Users, NEW columns, DOMAIN columns \subseteq Fields,
         u \in A!Administrators /\ Loses(columns) => A!Administrators \ {u} # {},
         u \in A!active_break_glass_users /\ enforced /\ LosesBreakGlass(columns) =>
             \/ A!active_break_glass_users \ {u} # {}
             \/ "role" \in DOMAIN columns /\ columns["role"] = "other"
  PROVE  Keeps(A!Only(u, columns), enforced)
<1>1. PICK x : x = After(A!Only(u, columns))
  OBVIOUS
<1>2. \A v \in A!Users : v # u => x[v] = user[v]
  BY <1>1 DEF After, A!Only
<1>3. \A f \in Fields : x[u][f] = IF f \in DOMAIN columns THEN columns[f] ELSE user[u][f]
  <2>1. x[u] = A!Overlaid(user[u], A!Changed(u, columns))
    BY <1>1 DEF After, A!Only
  <2>2. DOMAIN user[u] = Fields
    BY DEF AccountsInv, AccountRows
  <2> QED BY <2>1, <2>2 DEF A!Overlaid, A!Changed
<1>4. u \in A!Administrators /\ ~Loses(columns) => Kept(x, u)
  BY <1>3 DEF Loses, Kept, A!Administrators, A!Usable, Fields
<1>5. u \in A!active_break_glass_users /\ ~LosesBreakGlass(columns) => KeptBreakGlass(x, u)
  <2>1. u \in A!active_break_glass_users /\ ~LosesBreakGlass(columns) => Kept(x, u)
    BY <1>4 DEF LosesBreakGlass, A!active_break_glass_users
  <2> QED BY <1>3, <2>1 DEF LosesBreakGlass, KeptBreakGlass, A!active_break_glass_users, Fields
<1>6. \A v \in A!Administrators : v # u => Kept(x, v)
  BY <1>2 DEF Kept, A!Administrators, A!Usable
<1>7. \A v \in A!active_break_glass_users : v # u => KeptBreakGlass(x, v)
  BY <1>2, <1>6 DEF KeptBreakGlass, A!active_break_glass_users, A!Administrators
<1>8. A!Administrators # {} => \E v \in A!Users : Kept(x, v)
  BY <1>4, <1>6 DEF A!Administrators
<1>9. A!Recoverable /\ enforced =>
         \/ \E v \in A!Users : KeptBreakGlass(x, v)
         \/ \E v \in A!active_break_glass_users : x[v].role = "other"
  <2>1. CASE A!active_break_glass_users \ {u} # {}
    BY <1>7, <2>1 DEF A!active_break_glass_users, A!Administrators
  <2>2. CASE u \in A!active_break_glass_users /\ "role" \in DOMAIN columns /\ columns["role"] = "other"
    BY <1>3, <2>2 DEF Fields
  <2> QED BY <1>5, <2>1, <2>2 DEF A!Recoverable
<1> QED BY <1>1, <1>8, <1>9 DEF Keeps

(* What one account is updated with is sound. *)
LEMMA UpdateStep ==
  ASSUME AccountsInv, NEW u \in A!Users, NEW columns, DOMAIN columns \subseteq Fields,
         u \in A!Administrators /\ Loses(columns) => A!Administrators \ {u} # {},
         u \in A!active_break_glass_users /\ enforced /\ LosesBreakGlass(columns) =>
             \/ A!active_break_glass_users \ {u} # {}
             \/ "role" \in DOMAIN columns /\ columns["role"] = "other",
         A!Update(u, columns)
  PROVE  AccountsInv' /\ Stays
BY OnlyKeeps, HandleStep DEF A!Update, AccountsInv

(* What the checks of the handlers say. *)
LEMMA Checks ==
  ASSUME NEW u \in A!Users
  PROVE  /\ u \in A!Administrators /\ A!AnotherStays(u) => A!Administrators \ {u} # {}
         /\ u \in A!active_break_glass_users /\ enforced /\ A!ensure_break_glass_eligibility_can_be_removed(u) =>
               A!active_break_glass_users \ {u} # {}
         /\ u \in A!active_break_glass_users => u \in A!Administrators /\ u \in Local
BY DEF A!AnotherStays, A!active_admin_count, A!Administrators, A!Usable,
       A!ensure_break_glass_eligibility_can_be_removed, A!active_break_glass_users

(* The handlers of the users API: an update, a status, a deletion. *)
LEMMA AdministerStep ==
  ASSUME AccountsInv, NEW u \in A!Users, A!Administer(u)
  PROVE  AccountsInv' /\ Stays
<1> USE DEF Fields, Loses, LosesBreakGlass
<1>0. /\ u \in A!Administrators /\ A!AnotherStays(u) => A!Administrators \ {u} # {}
      /\ u \in A!active_break_glass_users /\ enforced /\ A!ensure_break_glass_eligibility_can_be_removed(u) =>
            A!active_break_glass_users \ {u} # {}
      /\ u \in A!active_break_glass_users => u \in A!Administrators
  BY Checks
<1>1. CASE A!create_user(u)
  <2>1. PICK r \in {"admin", "other"}, s \in {"invited", "deactivated"} :
          A!Update(u, [account_status |-> s, invitation |-> s = "invited", role |-> r])
    BY <1>1 DEF A!create_user
  <2>2. u \notin A!Administrators
    BY <1>1 DEF A!create_user, A!Exists, A!Administrators, A!Usable
  <2> QED BY <1>0, <2>1, <2>2, UpdateStep
<1>2. ASSUME NEW s \in {"active", "deactivated"}, A!_transition_status(u, s) PROVE AccountsInv' /\ Stays
  <2>1. CASE s = "active"
    <3>1. A!Update(u, [account_status |-> "active", is_active |-> TRUE])
      BY <1>2, <2>1 DEF A!_transition_status, A!set_account_status
    <3> QED BY <3>1, UpdateStep
  <2>2. CASE s = "deactivated"
    <3>1. /\ A!Update(u, [account_status |-> "deactivated", is_active |-> FALSE, invitation |-> FALSE])
          /\ A!ensure_break_glass_eligibility_can_be_removed(u) /\ A!AnotherStays(u)
      BY <1>2, <2>2 DEF A!_transition_status, A!withdrawn
    <3> QED BY <1>0, <3>1, UpdateStep
  <2> QED BY <2>1, <2>2
<1>3. CASE A!update_user(u)
  <2>1. CASE A!Update(u, [role |-> "admin"])
    BY <2>1, UpdateStep
  <2>2. CASE /\ A!Update(u, [role |-> "other"])
             /\ A!ensure_break_glass_eligibility_can_be_removed(u) /\ A!AnotherStays(u)
    BY <1>0, <2>2, UpdateStep
  <2> QED BY <1>3, <2>1, <2>2 DEF A!update_user
<1>4. CASE A!issue_invitation(u)
  <2>1. /\ A!Update(u, [account_status |-> "invited", is_active |-> FALSE, password |-> FALSE, invitation |-> TRUE])
        /\ A!ensure_break_glass_eligibility_can_be_removed(u) /\ A!AnotherStays(u)
    BY <1>4 DEF A!issue_invitation
  <2> QED BY <1>0, <2>1, UpdateStep
<1>5. CASE A!accept_invitation(u)
  <2> DEFINE columns == [account_status |-> "active", is_active |-> TRUE, password |-> TRUE, invitation |-> FALSE]
  <2>1. A!Handle(A!Only(u, columns), enforced, maps, u)
    BY <1>5 DEF A!accept_invitation
  <2>2. Keeps(A!Only(u, columns), enforced)
    BY OnlyKeeps
  <2> HIDE DEF columns
  <2> QED BY <2>1, <2>2, HandleStep DEF AccountsInv
<1>6. CASE A!create_grant(u)
  <2>1. A!Update(u, [role |-> "admin"])
    BY <1>6 DEF A!create_grant
  <2> QED BY <2>1, UpdateStep
<1>7. CASE A!delete_grant(u)
  <2>1. A!Update(u, [role |-> "other"]) /\ A!AnotherStays(u)
    BY <1>7 DEF A!delete_grant
  <2> QED BY <1>0, <2>1, UpdateStep
<1> QED BY <1>1, <1>2, <1>3, <1>4, <1>5, <1>6, <1>7 DEF A!Administer, A!set_status, A!delete_user

(* What a sign-on writes of the account that it resolves. *)
LEMMA SignOnStep ==
  ASSUME AccountsInv, NEW u \in A!Users, A!SignOn(u)
  PROVE  AccountsInv' /\ Stays
<1> USE DEF Fields, Loses, LosesBreakGlass
<1>0. /\ u \in A!Administrators /\ A!AnotherStays(u) => A!Administrators \ {u} # {}
      /\ u \in A!active_break_glass_users /\ enforced /\ A!ensure_break_glass_eligibility_can_be_removed(u) =>
            A!active_break_glass_users \ {u} # {}
      /\ u \in A!active_break_glass_users => u \in A!Administrators
  BY Checks
<1>1. CASE A!confirm_totp_setup(u)
  <2>1. A!Update(u, [factor |-> TRUE])
    BY <1>1 DEF A!confirm_totp_setup
  <2> QED BY <2>1, UpdateStep
<1>2. CASE A!disable_totp(u)
  <2>1. A!Update(u, [factor |-> FALSE]) /\ A!ensure_break_glass_eligibility_can_be_removed(u)
    BY <1>2 DEF A!disable_totp
  <2> QED BY <1>0, <2>1, UpdateStep
<1>3. CASE A!set_break_glass(u)
  <2>1. CASE A!Update(u, [break_glass |-> FALSE]) /\ (enforced => A!active_break_glass_users \ {u} # {})
    BY <2>1, UpdateStep
  <2>2. CASE A!Update(u, [break_glass |-> TRUE])
    BY <2>2, UpdateStep
  <2> QED BY <1>3, <2>1, <2>2 DEF A!set_break_glass
<1>4. ASSUME NEW r \in {"admin", "other"}, A!_apply_jit_access(u, r) PROVE AccountsInv' /\ Stays
  <2>1. A!Update(u, [role |-> r])
    BY <1>4 DEF A!_apply_jit_access
  <2>2. r = "other" => A!AnotherStays(u) /\ A!ensure_break_glass_eligibility_can_be_removed(u)
    BY <1>4 DEF A!_apply_jit_access
  <2> QED BY <1>0, <2>1, <2>2, UpdateStep
<1>5. CASE A!Update(u, A!set_account_status("active"))
  <2>1. A!Update(u, [account_status |-> "active", is_active |-> TRUE])
    BY <1>5 DEF A!set_account_status
  <2> QED BY <2>1, UpdateStep
<1> QED BY <1>1, <1>2, <1>3, <1>4, <1>5 DEF A!SignOn, A!resolve_sso_user, A!reconcile_provider_jit_users

(* What a SCIM client creates, replaces and deactivates. *)
LEMMA ProvisionStep ==
  ASSUME Local \cap Scim = {}, AccountsInv, NEW u \in A!Users, A!Provision(u)
  PROVE  AccountsInv' /\ Stays
<1> USE DEF Fields, Loses, LosesBreakGlass
<1>0. /\ u \in Scim
      /\ u \in A!Administrators /\ A!AnotherStays(u) => A!Administrators \ {u} # {}
      /\ u \notin A!active_break_glass_users
  BY Checks DEF A!Provision, A!scim_create_user, A!replace_user, A!_set_user_values, A!_replace_group
<1>1. ASSUME NEW s \in {"active", "deactivated"},
             A!Update(u, A!set_account_status(s)), s = "deactivated" => u \notin A!Administrators \/ A!AnotherStays(u)
      PROVE  AccountsInv' /\ Stays
  <2>1. A!Update(u, [account_status |-> s, is_active |-> s = "active"])
    BY <1>1 DEF A!set_account_status
  <2> QED BY <1>0, <1>1, <2>1, UpdateStep
<1>2. CASE A!scim_create_user(u)
  BY <1>1, <1>2 DEF A!scim_create_user, A!Exists, A!Administrators, A!Usable
<1>3. CASE A!replace_user(u)
  BY <1>1, <1>3 DEF A!replace_user, A!_set_user_values
<1>4. CASE A!_replace_group(u)
  <2>1. PICK r \in {"admin", "other"} :
          A!recompute_scim_access({u}, r) /\ A!Update(u, [member |-> ~user[u].member, role |-> r])
    BY <1>4 DEF A!_replace_group, A!DerivedRole
  <2>2. u \in A!Administrators /\ r = "other" => A!Administrators \ {u} # {}
    BY <2>1 DEF A!recompute_scim_access, A!Administrators, A!Usable
  <2> QED BY <1>0, <2>1, <2>2, UpdateStep
<1> QED BY <1>2, <1>3, <1>4 DEF A!Provision

(* What a change of the mappings does to the accounts that were provisioned by them. *)
LEMMA MappingStep ==
  ASSUME Local \cap Scim = {}, AccountsInv, A!update_group_mapping
  PROVE  AccountsInv' /\ Stays
<1>1. PICK Members : Members = {u \in Scim : user[u].member}
  OBVIOUS
<1>2. PICK r \in {"admin", "other"} : r = A!DerivedRole(TRUE, ~maps)
  BY DEF A!DerivedRole
<1> DEFINE sets == [u \in Members |-> A!Changed(u, [role |-> r])]
<1>3. A!recompute_scim_access(Members, r) /\ A!Handle(sets, enforced, ~maps, None)
  BY <1>1, <1>2 DEF A!update_group_mapping
<1>4. PICK x : x = After(sets)
  OBVIOUS
<1>5. \A u \in A!Users \ Members : x[u] = user[u]
  BY <1>4 DEF After
<1>6. ASSUME NEW u \in A!Users, u \in Members
      PROVE  \A f \in Fields : x[u][f] = IF f = "role" THEN r ELSE user[u][f]
  <2>1. x[u] = A!Overlaid(user[u], A!Changed(u, [role |-> r]))
    BY <1>4, <1>6 DEF After
  <2>2. DOMAIN user[u] = Fields
    BY DEF AccountsInv, AccountRows
  <2> QED BY <2>1, <2>2 DEF A!Overlaid, A!Changed
<1>7. \A u \in A!Administrators : r = "admin" \/ u \notin Members => Kept(x, u)
  BY <1>5, <1>6 DEF Kept, A!Administrators, A!Usable, Fields
<1>8. r = "other" => A!Administrators \cap Members = {} \/ A!Administrators \ Members # {}
  BY <1>3 DEF A!recompute_scim_access, A!Administrators, A!Usable
<1>9. A!Administrators # {} => \E u \in A!Users : Kept(x, u)
  BY <1>7, <1>8 DEF A!Administrators
<1>10. \A u \in A!active_break_glass_users : u \in A!Administrators /\ u \notin Members
  BY <1>1 DEF A!active_break_glass_users
<1>11. \A u \in A!active_break_glass_users : KeptBreakGlass(x, u)
  BY <1>5, <1>7, <1>10 DEF KeptBreakGlass, A!active_break_glass_users, A!Administrators
<1>12. Keeps(sets, enforced)
  BY <1>4, <1>9, <1>10, <1>11 DEF Keeps, A!Recoverable, A!Administrators
<1> HIDE DEF sets
<1> QED BY <1>3, <1>12, HandleStep DEF AccountsInv

(* The policy is enforced only while somebody can recover the installation. *)
LEMMA PolicyStep ==
  ASSUME AccountsInv, A!update_policy
  PROVE  AccountsInv' /\ Stays
<1>1. A!Handle(<<>>, ~enforced, maps, None) /\ (~enforced => A!active_break_glass_users # {})
  BY DEF A!update_policy
<1>2. After(<<>>) = user
  BY DEF After, AccountsInv, AccountRows
<1>3. \A u \in A!Administrators : Kept(user, u)
  BY DEF Kept, A!Administrators, A!Usable
<1>4. \A u \in A!active_break_glass_users : KeptBreakGlass(user, u) /\ u \in A!Users
  BY <1>3 DEF KeptBreakGlass, A!active_break_glass_users, A!Administrators
<1>5. Keeps(<<>>, ~enforced)
  BY <1>1, <1>2, <1>3, <1>4 DEF Keeps, A!Administrators
<1> QED BY <1>1, <1>5, HandleStep DEF AccountsInv

(* A commit of what was read before. *)
LEMMA CommitStep ==
  ASSUME AccountsInv, A!commit
  PROVE  AccountsInv' /\ Stays
<1>1. PICK e \in BOOLEAN : e = IF under.policy THEN under.enforced ELSE enforced
  BY DEF AccountsInv, A!commit
<1>2. /\ under # None /\ under' = None
      /\ A!Commit(under.sets, e, IF under.mapping THEN under.maps ELSE maps)
  BY <1>1 DEF A!commit
<1>3. AccountRows' /\ (Keeps(under.sets, e) => Stays)
  BY <1>2, AccountCommitKeeps DEF AccountsInv
<1>4. CASE under.fresh
  BY <1>1, <1>2, <1>3, <1>4 DEF AccountsInv, A!Commit
<1>5. CASE ~under.fresh
  BY <1>1, <1>2, <1>3, <1>5 DEF AccountsInv, A!Commit, Stays, A!StaleCommit
<1> QED BY <1>4, <1>5

(***************************************************************************)
(* No request takes the last active administrator away, and none the last  *)
(* account with which an enforced single sign-on can be recovered, unless  *)
(* it was judged by accounts that another request has changed since: the   *)
(* users API, sign-on, SCIM and the mappings each check what is left.      *)
(* Accounts that SCIM made are not local ones.                             *)
(***************************************************************************)
THEOREM ControlAdministratorStays ==
  ASSUME Local \cap Scim = {}
  PROVE  A!Spec => AdministratorStays
<1>1. AccountsInv /\ [A!Next]_(A!vars) => AccountsInv' /\ [Stays]_(A!vars)
  <2>1. CASE UNCHANGED A!vars
    BY <2>1 DEF A!vars, AccountsInv, AccountRows, Keeps, After, A!Recoverable, A!active_break_glass_users,
       A!Administrators, A!Usable
  <2>2. AccountsInv /\ A!Next => AccountsInv' /\ Stays
    BY AdministerStep, SignOnStep, ProvisionStep, MappingStep, PolicyStep, CommitStep DEF A!Next
  <2> QED BY <2>1, <2>2
<1>2. A!Spec => []AccountsInv
  BY <1>1, InitAccounts, PTL DEF A!Spec
<1>3. A!Spec => [][Stays]_(A!vars)
  BY <1>1, <1>2, PTL DEF A!Spec
<1> QED BY <1>3, PTL DEF AdministratorStays, A!AdministratorStays, Stays

-----------------------------------------------------------------------------
(***************************************************************************)
(* The host.  What is pinned, what runs and what the database has seen go  *)
(* together in a way that depends on the step of the command (HostSound),  *)
(* as long as no command has gone astray and no other backup has been      *)
(* restored: while a release is tried, the schema is one that the release  *)
(* before can use unless the release migrates it, and then there is a      *)
(* backup of the release before, or none to recover from.                  *)
(***************************************************************************)
HostConstants ==
    /\ Releases \subseteq Nat /\ Migrating \subseteq Releases /\ None \notin Releases /\ MaxArchives \in Nat
    /\ \E v \in Releases : \A w \in Releases : v <= w

Saving == {"quiesce", "dump", "copy", "resume", "assemble"}
Restoring == {"down", "database", "volumes", "env", "start", "ready"}

Cur == IF state.current = None THEN H!Version ELSE state.current

Sane(a) == a.db = a.vol /\ a.schema \subseteq H!Schema(a.pinned)

StoredTyped ==
    /\ pinned \in Releases
    /\ app = [v |-> app.v, up |-> app.up] /\ app.v \in Releases /\ app.up \in BOOLEAN
    /\ taken \in Nat /\ taken <= MaxArchives
    /\ archives = [b \in 1 .. MaxArchives |-> archives[b]]
    /\ \A b \in 1 .. taken : archives[b].pinned \in Releases
    /\ state.current \in Releases \cup {None} /\ state.prior \in Releases \cup {None}
    /\ state.backup \in 0 .. taken /\ state.migrated \in BOOLEAN

CmdTyped ==
    /\ cmd = [name |-> cmd.name, pc |-> cmd.pc, version |-> cmd.version, from |-> cmd.from, was |-> cmd.was,
              archive |-> cmd.archive, snap |-> cmd.snap, failed |-> cmd.failed, undo |-> cmd.undo]
    /\ cmd.archive \in 0 .. taken
    /\ cmd.pc = "copy" => cmd.snap = [db |-> cmd.snap.db, vol |-> cmd.snap.vol, schema |-> cmd.snap.schema,
                                      pinned |-> cmd.snap.pinned]
    /\ cmd.pc \in {"copy", "assemble"} \/ (cmd.pc = "resume" /\ ~cmd.failed) => cmd.snap.pinned \in Releases

HostShape ==
    /\ cmd.pc = "none" => cmd = H!Idle
    /\ cmd.pc # "none" =>
          /\ outcome = "none" /\ cmd.from \in Releases
          /\ cmd.was = [v |-> cmd.was.v, up |-> cmd.was.up] /\ cmd.was.v \in Releases /\ cmd.was.up \in BOOLEAN
    /\ cmd.pc \in Saving \cup {"pin"} => pinned = cmd.from
    /\ cmd.pc \in {"quiesce", "assemble", "pin", "images"} \/ (cmd.pc = "pull" /\ ~cmd.undo) => app = cmd.was
    /\ cmd.pc \in Saving => cmd.name \in {"update", "backup", "restore"} /\ cmd.archive = 0
    /\ cmd.pc \in {"quiesce", "dump", "copy", "assemble"} => ~cmd.failed
    /\ cmd.pc \in Saving \cup {"pin", "wait", "record"} => ~cmd.undo
    /\ cmd.name = "restore" => cmd.version \in 1 .. taken
    /\ cmd.name \in {"update", "rollback"} => cmd.version \in Releases
    /\ cmd.pc \in {"pin", "pull", "up", "wait", "record"} => cmd.name = "update"
    /\ cmd.pc \in {"images", "activate", "forget"} => cmd.name = "rollback"
    /\ cmd.pc \in Restoring => cmd.name \in {"restore", "update", "rollback"} /\ cmd.archive # 0
    /\ cmd.pc = "images" =>
          cmd.version = state.prior /\ cmd.archive = state.backup /\ (state.migrated => cmd.archive # 0)

(* What a rollback rests on. *)
Point ==
    state.prior # None =>
        /\ ~state.migrated => H!Schema(Cur) = H!Schema(H!Version)
        /\ state.migrated /\ state.backup # 0 => archives[state.backup].pinned = state.prior

(* The containers, the schema and the archive that a step may rest on. *)
Backing ==
    /\ cmd.pc \in Saving \cup {"pin"} =>
          app.v = cmd.from /\ cmd.was.v = cmd.from /\ schema \subseteq H!Schema(cmd.from)
    /\ cmd.pc = "copy" =>
          cmd.snap.db = db /\ cmd.snap.schema \subseteq H!Schema(cmd.from) /\ cmd.snap.pinned = cmd.from
    /\ cmd.pc = "assemble" \/ (cmd.pc = "resume" /\ ~cmd.failed) => Sane(cmd.snap) /\ cmd.snap.pinned = cmd.from

Trying ==
    /\ cmd.name = "update" /\ cmd.archive # 0 => archives[cmd.archive].pinned = cmd.from
    /\ cmd.pc \in {"pull", "up"} /\ ~cmd.undo =>
          pinned = cmd.version /\ app.v = cmd.from /\ schema \subseteq H!Schema(cmd.from)
    /\ cmd.pc \in {"pull", "up"} /\ cmd.undo =>
          /\ pinned = cmd.from /\ ~H!HasMigrations(cmd.version)
          /\ schema \subseteq H!Schema(cmd.from) /\ app.v \in {cmd.from, cmd.version}
    /\ cmd.pc = "wait" =>
          /\ pinned = cmd.version /\ app.v = cmd.version /\ app.up
          /\ H!HasMigrations(cmd.version) \/ schema \subseteq H!Schema(cmd.from)
    /\ cmd.pc = "record" =>
          pinned = cmd.version /\ app.v = cmd.version /\ app.up /\ schema = H!Schema(cmd.version)

Recovering ==
    /\ cmd.pc \in {"volumes", "env"} => schema = archives[cmd.archive].schema
    /\ cmd.pc = "volumes" => db = archives[cmd.archive].db
    /\ cmd.pc \in {"start", "ready"} =>
          /\ schema \subseteq H!Schema(pinned)
          /\ cmd.name = "update" => pinned = cmd.from
          /\ cmd.name = "rollback" => pinned = cmd.version
    /\ cmd.pc = "ready" => app.v = pinned /\ app.up
    /\ cmd.name = "rollback" /\ cmd.pc \in Restoring => archives[cmd.archive].pinned = cmd.version

Rolling ==
    /\ cmd.pc = "images" => pinned = cmd.version /\ app.v = cmd.from /\ schema \subseteq H!Schema(cmd.from)
    /\ cmd.pc = "activate" =>
          /\ pinned = cmd.version /\ schema \subseteq H!Schema(cmd.version)
          /\ app.v = cmd.version \/ H!Schema(app.v) = H!Schema(H!Version)
    /\ cmd.pc = "forget" => pinned = cmd.version /\ app.v = cmd.version /\ schema \subseteq H!Schema(cmd.version)

HostSound ==
    /\ \A b \in 1 .. taken : Sane(archives[b])
    /\ Point
    /\ cmd.pc # "volumes" => db = vol
    /\ cmd.pc = "none" => pinned = Cur /\ app.v = pinned /\ schema \subseteq H!Schema(pinned)
    /\ cmd.pc # "none" => cmd.from = Cur
    /\ cmd.pc \in {"dump", "copy", "database", "volumes", "env", "start"} => ~app.up
    /\ Backing /\ Trying /\ Recovering /\ Rolling

HostInv == StoredTyped /\ CmdTyped /\ HostShape /\ (~astray /\ ~replaced => HostSound)

(* What the command says when it ends. *)
Tells ==
    cmd # H!Idle =>
       /\ outcome' = "restored" /\ ~astray /\ ~replaced =>
             /\ app' = [v |-> pinned', up |-> TRUE] /\ schema' \subseteq H!Schema(pinned')
             /\ db' = vol' /\ (cmd.name = "update" => pinned' = cmd.from)
       /\ outcome' = "unchanged" => pinned' = cmd.from /\ app' = cmd.was

----------------------------------------------------------------------------
(* Every release knows what the CLI's own does. *)
LEMMA Schemas ==
  ASSUME HostConstants
  PROVE  H!Version \in Releases /\ \A r \in Releases : H!Schema(H!Version) \subseteq H!Schema(r)
<1>1. H!Version \in Releases /\ \A w \in Releases : H!Version <= w
  BY DEF HostConstants, H!Version
<1>2. \A v, r, w \in Releases : v <= r /\ w <= v => w <= r
  <2> SUFFICES ASSUME NEW v \in Releases, NEW r \in Releases, NEW w \in Releases, v <= r, w <= v PROVE w <= r
    OBVIOUS
  <2>1. v \in Nat /\ r \in Nat /\ w \in Nat
    BY DEF HostConstants
  <2> QED BY <2>1
<1>3. \A r \in Releases : \A w \in Migrating : w <= H!Version => w <= r
  BY <1>1, <1>2 DEF HostConstants
<1>4. \A r : H!Schema(r) = {w \in Migrating : w <= r}
  BY DEF H!Schema
<1> QED BY <1>1, <1>3, <1>4

(* Step pc of a command that goes on. *)
Moved(pc) ==
    /\ cmd' = [name |-> cmd'.name, pc |-> cmd'.pc, version |-> cmd'.version, from |-> cmd'.from, was |-> cmd'.was,
               archive |-> cmd'.archive, snap |-> cmd'.snap, failed |-> cmd'.failed, undo |-> cmd'.undo]
    /\ cmd'.pc = pc /\ cmd'.name = cmd.name /\ cmd'.version = cmd.version /\ cmd'.from = cmd.from /\ cmd'.was = cmd.was

(* What an assignment to fields of the command leaves. *)
LEMMA Moves ==
  ASSUME CmdTyped, NEW pc, NEW failed, NEW undo, NEW archive, NEW snap,
         cmd' = [cmd EXCEPT !.pc = pc, !.failed = failed, !.undo = undo, !.archive = archive, !.snap = snap]
  PROVE  Moved(pc) /\ cmd'.failed = failed /\ cmd'.undo = undo /\ cmd'.archive = archive /\ cmd'.snap = snap
BY DEF CmdTyped, Moved

(* The same, where nothing but the step changes. *)
LEMMA Goes ==
  ASSUME CmdTyped, NEW pc, H!Goto(pc)
  PROVE  /\ Moved(pc) /\ outcome' = outcome
         /\ cmd'.failed = cmd.failed /\ cmd'.undo = cmd.undo /\ cmd'.archive = cmd.archive /\ cmd'.snap = cmd.snap
BY DEF CmdTyped, Moved, H!Goto

(* No command. *)
LEMMA IdleIs ==
  H!Idle = [name |-> "none", pc |-> "none", version |-> None, from |-> None, was |-> [v |-> None, up |-> FALSE],
         archive |-> 0, snap |-> None, failed |-> FALSE, undo |-> FALSE]
BY DEF H!Idle

(* A command that ends leaves nothing to go on with. *)
LEMMA Ends ==
  ASSUME cmd' = H!Idle, StoredTyped'
  PROVE  CmdTyped' /\ HostShape' /\ Backing' /\ Trying' /\ Recovering' /\ Rolling' /\ cmd'.pc = "none"
<1>1. /\ cmd'.name = "none" /\ cmd'.pc = "none" /\ cmd'.archive = 0
      /\ cmd' = [name |-> cmd'.name, pc |-> cmd'.pc, version |-> cmd'.version, from |-> cmd'.from, was |-> cmd'.was,
               archive |-> cmd'.archive, snap |-> cmd'.snap, failed |-> cmd'.failed, undo |-> cmd'.undo]
  BY IdleIs
<1>2. taken' \in Nat
  BY DEF StoredTyped
<1>3. CmdTyped'
  BY <1>1, <1>2 DEF CmdTyped
<1>4. HostShape'
  BY <1>1 DEF HostShape, Saving, Restoring
<1>5. Backing' /\ Trying' /\ Recovering' /\ Rolling'
  BY <1>1 DEF Backing, Trying, Recovering, Rolling, Saving, Restoring
<1> QED BY <1>1, <1>3, <1>4, <1>5

(* A command that fails for good says so. *)
LEMMA Fails ==
  ASSUME StoredTyped', cmd' = H!Idle, outcome' \in {"failed", "none"}, astray' = TRUE
  PROVE  HostInv' /\ Tells
BY Ends DEF HostInv, Tells

(* A command that ends and is not astray. *)
LEMMA EndsSound ==
  ASSUME StoredTyped', cmd' = H!Idle,
         ~astray' /\ ~replaced' =>
            /\ (\A b \in 1 .. taken : Sane(archives[b]))' /\ Point' /\ db' = vol'
            /\ pinned' = Cur' /\ app'.v = pinned' /\ schema' \subseteq H!Schema(pinned')
  PROVE  HostInv'
BY Ends DEF HostInv, HostSound

(* The host of a fresh installation. *)
LEMMA InitHost == HostConstants /\ H!Init => HostInv
<1> SUFFICES ASSUME HostConstants, H!Init PROVE HostInv
  OBVIOUS
<1>1. H!Version \in Releases
  BY Schemas
<1>2. /\ cmd.pc = "none" /\ cmd.name = "none" /\ cmd.archive = 0 /\ cmd = H!Idle
      /\ cmd = [name |-> cmd.name, pc |-> cmd.pc, version |-> cmd.version, from |-> cmd.from, was |-> cmd.was,
              archive |-> cmd.archive, snap |-> cmd.snap, failed |-> cmd.failed, undo |-> cmd.undo]
  BY DEF H!Init, H!Idle
<1>3. /\ pinned = H!Version /\ app = [v |-> H!Version, up |-> TRUE] /\ schema = H!Schema(H!Version)
      /\ db = 0 /\ vol = 0 /\ archives = [b \in 1 .. MaxArchives |-> None] /\ taken = 0
      /\ state = [current |-> None, prior |-> None, backup |-> 0, migrated |-> FALSE]
  BY DEF H!Init
<1>4. StoredTyped
  BY <1>1, <1>3 DEF StoredTyped, HostConstants
<1>5. CmdTyped
  BY <1>2, <1>3 DEF CmdTyped
<1>6. HostShape
  BY <1>2 DEF HostShape, Saving, Restoring
<1>7. HostSound
  BY <1>2, <1>3 DEF HostSound, Point, Cur, Backing, Trying, Recovering, Rolling, Saving, Restoring
<1> QED BY <1>4, <1>5, <1>6, <1>7 DEF HostInv

----------------------------------------------------------------------------
(* The application writes while it runs. *)
LEMMA WriteStep ==
  ASSUME HostConstants, HostInv, H!write
  PROVE  HostInv' /\ Tells
<1>1. /\ app.up /\ vol = db /\ vol' = vol + 1 /\ db' = db + 1
      /\ UNCHANGED <<pinned, app, schema, archives, taken, state, cmd, outcome, astray, replaced>>
  BY DEF H!write, H!Healthy
<1>2. StoredTyped' /\ CmdTyped' /\ HostShape'
  <2>1. StoredTyped'
    BY <1>1 DEF HostInv, StoredTyped
  <2>2. CmdTyped'
    BY <1>1 DEF HostInv, CmdTyped
  <2>3. HostShape'
    BY <1>1 DEF HostInv, HostShape, Saving, Restoring
  <2> QED BY <2>1, <2>2, <2>3
<1>3. ASSUME ~astray, ~replaced PROVE HostSound'
  <2>1. HostSound
    BY <1>3 DEF HostInv
  <2>2. cmd.pc \notin {"dump", "copy", "database", "volumes", "env", "start"}
    BY <1>1, <2>1 DEF HostSound
  <2>3. Point' /\ Trying' /\ Rolling'
    BY <1>1, <2>1 DEF HostSound, Point, Cur, Trying, Rolling
  <2>4. Backing'
    BY <1>1, <2>1, <2>2 DEF HostSound, Backing, Sane, Saving
  <2>5. Recovering'
    BY <1>1, <2>1, <2>2 DEF HostSound, Recovering, Restoring
  <2> QED BY <1>1, <2>1, <2>3, <2>4, <2>5 DEF HostSound, Cur, Sane
<1>4. Tells
  BY <1>1 DEF HostInv, HostShape, CmdTyped, Tells
<1> QED BY <1>1, <1>2, <1>3, <1>4 DEF HostInv

(* alembic brings the schema to that of the version that runs. *)
LEMMA MigrateStep ==
  ASSUME HostConstants, HostInv, H!migrate
  PROVE  HostInv' /\ Tells
<1>1. /\ app.up /\ schema # H!Schema(app.v) /\ schema' = H!Schema(app.v)
      /\ UNCHANGED <<pinned, app, db, vol, archives, taken, state, cmd, outcome, astray, replaced>>
  BY DEF H!migrate
<1>2. StoredTyped' /\ CmdTyped' /\ HostShape'
  <2>1. StoredTyped'
    BY <1>1 DEF HostInv, StoredTyped
  <2>2. CmdTyped'
    BY <1>1 DEF HostInv, CmdTyped
  <2>3. HostShape'
    BY <1>1 DEF HostInv, HostShape, Saving, Restoring
  <2> QED BY <2>1, <2>2, <2>3
<1>3. ASSUME ~astray, ~replaced PROVE HostSound'
  <2>1. HostSound
    BY <1>3 DEF HostInv
  <2>2. Point' /\ Cur' = Cur
    BY <1>1, <2>1 DEF HostSound, Point, Cur
  <2>3. cmd.pc \notin {"dump", "copy", "database", "volumes", "env", "start"}
    BY <1>1, <2>1 DEF HostSound
  <2>4. \A r \in Releases : H!Schema(H!Version) \subseteq H!Schema(r)
    BY Schemas
  <2>5. cmd.pc # "none" => cmd.from \in Releases
    BY DEF HostInv, HostShape
  <2>6. Backing'
    BY <1>1, <2>1, <2>3 DEF HostSound, Backing, Sane, Saving
  <2>7. Trying'
    BY <1>1, <2>1, <2>4, <2>5 DEF HostSound, Trying, H!HasMigrations
  <2>8. Recovering'
    BY <1>1, <2>1, <2>3 DEF HostSound, Recovering, Restoring
  <2>9. cmd.pc \in {"images", "activate", "forget"} => cmd.version \in Releases
    BY DEF HostInv, HostShape
  <2>10. Rolling'
    BY <1>1, <2>1, <2>4, <2>9 DEF HostSound, Rolling
  <2> QED BY <1>1, <2>1, <2>2, <2>6, <2>7, <2>8, <2>10 DEF HostSound, Sane
<1>4. Tells
  BY <1>1 DEF HostInv, HostShape, CmdTyped, Tells
<1> QED BY <1>1, <1>2, <1>3, <1>4 DEF HostInv

----------------------------------------------------------------------------
(* A command begins on what is pinned and runs. *)
LEMMA BeginCommand ==
  ASSUME HostConstants, HostInv, cmd.pc = "none", pinned' \in Releases,
         UNCHANGED <<app, schema, db, vol, archives, taken, state, astray, replaced>>, outcome' = "none",
         NEW c, cmd' = c,
         c = [name |-> c.name, pc |-> c.pc, version |-> c.version, from |-> pinned, was |-> app,
              archive |-> c.archive, snap |-> None, failed |-> FALSE, undo |-> FALSE],
         \/ /\ c.name = "update" /\ c.pc \in {"quiesce", "pin"} /\ c.version \in Releases /\ c.archive = 0 /\ pinned' = pinned
         \/ /\ c.name = "backup" /\ c.pc = "quiesce" /\ c.archive = 0 /\ pinned' = pinned
         \/ /\ c.name = "restore" /\ c.pc = "quiesce" /\ c.version \in 1 .. taken /\ c.archive = 0 /\ pinned' = pinned
         \/ /\ c.name = "rollback" /\ c.pc = "images" /\ c.version = state.prior /\ c.archive = state.backup
            /\ pinned' = state.prior /\ (state.migrated => state.backup # 0)
  PROVE  HostInv' /\ Tells
<1>1. c.from = pinned /\ c.was = app /\ c.failed = FALSE /\ c.undo = FALSE
  OBVIOUS
<1>2. StoredTyped'
  BY DEF HostInv, StoredTyped
<1>3. taken \in Nat /\ state.backup \in 0 .. taken /\ pinned \in Releases
      /\ app = [v |-> app.v, up |-> app.up] /\ app.v \in Releases /\ app.up \in BOOLEAN
  BY DEF HostInv, StoredTyped
<1>4. CmdTyped'
  BY <1>3, <1>1 DEF CmdTyped
<1>5. HostShape'
  BY <1>1, <1>3 DEF HostShape, Saving, Restoring
<1>6. ASSUME ~astray, ~replaced PROVE HostSound'
  <2>1. /\ \A b \in 1 .. taken : Sane(archives[b])
        /\ Point /\ db = vol /\ pinned = Cur /\ app.v = pinned /\ schema \subseteq H!Schema(pinned)
    BY <1>6 DEF HostInv, HostSound
  <2>2. Backing' /\ Trying' /\ Recovering' /\ Rolling'
    BY <1>1, <1>3, <2>1 DEF Backing, Trying, Recovering, Rolling, Saving, Restoring
  <2>3. Point' /\ Cur' = Cur
    BY <2>1 DEF Point, Cur
  <2> QED BY <1>1, <2>1, <2>2, <2>3 DEF HostSound, Sane
<1>7. cmd = H!Idle
  BY DEF HostInv, HostShape
<1> QED BY <1>2, <1>4, <1>5, <1>6, <1>7 DEF HostInv, Tells

(* The four commands that a user gives. *)
LEMMA CommandStep ==
  ASSUME HostConstants, HostInv,
         \/ \E v \in Releases : H!cmdUpdateApply(v)
         \/ \E b \in 1 .. MaxArchives : H!cmdBackupRestore(b)
         \/ H!cmdBackup \/ H!cmdRollback
  PROVE  HostInv' /\ Tells
<1>0. /\ H!Idle.pc = "none" /\ state.prior \in Releases \cup {None} /\ pinned \in Releases /\ None \notin Releases
  BY IdleIs DEF HostInv, StoredTyped, HostConstants
<1>1. CASE \E v \in Releases : H!cmdUpdateApply(v)
  <2>1. PICK v \in Releases, p \in {"quiesce", "pin"} : H!begin("update", v, p)
    BY <1>1 DEF H!cmdUpdateApply
  <2>2. PICK c : c = [H!Idle EXCEPT !.name = "update", !.pc = p, !.version = v, !.from = pinned, !.was = app]
    OBVIOUS
  <2>3. c = [name |-> "update", pc |-> p, version |-> v, from |-> pinned, was |-> app,
             archive |-> 0, snap |-> None, failed |-> FALSE, undo |-> FALSE]
    BY <2>2, IdleIs
  <2>4. /\ cmd = H!Idle /\ cmd' = c /\ outcome' = "none" /\ pinned' = pinned
        /\ UNCHANGED <<app, schema, db, vol, archives, taken, state, astray, replaced>>
    BY <2>1, <2>2 DEF H!begin, H!Kept, H!Data
  <2> QED BY <1>0, <2>3, <2>4, BeginCommand
<1>2. CASE H!cmdBackup
  <2>1. H!begin("backup", None, "quiesce")
    BY <1>2 DEF H!cmdBackup
  <2>2. PICK c : c = [H!Idle EXCEPT !.name = "backup", !.pc = "quiesce", !.version = None, !.from = pinned, !.was = app]
    OBVIOUS
  <2>3. c = [name |-> "backup", pc |-> "quiesce", version |-> None, from |-> pinned, was |-> app,
             archive |-> 0, snap |-> None, failed |-> FALSE, undo |-> FALSE]
    BY <2>2, IdleIs
  <2>4. /\ cmd = H!Idle /\ cmd' = c /\ outcome' = "none" /\ pinned' = pinned
        /\ UNCHANGED <<app, schema, db, vol, archives, taken, state, astray, replaced>>
    BY <2>1, <2>2 DEF H!begin, H!Kept, H!Data
  <2> QED BY <1>0, <2>3, <2>4, BeginCommand
<1>3. CASE \E b \in 1 .. MaxArchives : H!cmdBackupRestore(b)
  <2>1. PICK b : H!cmdBackupRestore(b)
    BY <1>3
  <2>2. PICK c : c = [H!Idle EXCEPT !.name = "restore", !.pc = "quiesce", !.from = pinned, !.was = app, !.version = b]
    OBVIOUS
  <2>3. c = [name |-> "restore", pc |-> "quiesce", version |-> b, from |-> pinned, was |-> app,
             archive |-> 0, snap |-> None, failed |-> FALSE, undo |-> FALSE]
    BY <2>2, IdleIs
  <2>4. /\ b \in 1 .. taken /\ cmd = H!Idle /\ cmd' = c /\ outcome' = "none" /\ pinned' = pinned
        /\ UNCHANGED <<app, schema, db, vol, archives, taken, state, astray, replaced>>
    BY <2>1, <2>2 DEF H!cmdBackupRestore, H!Kept, H!Data
  <2> QED BY <1>0, <2>3, <2>4, BeginCommand
<1>4. CASE H!cmdRollback
  <2>2. PICK c : c = [H!Idle EXCEPT !.name = "rollback", !.pc = "images", !.version = state.prior,
                           !.from = pinned, !.was = app, !.archive = state.backup]
    OBVIOUS
  <2>3. c = [name |-> "rollback", pc |-> "images", version |-> state.prior, from |-> pinned, was |-> app,
             archive |-> state.backup, snap |-> None, failed |-> FALSE, undo |-> FALSE]
    BY <2>2, IdleIs
  <2>4. /\ cmd = H!Idle /\ cmd' = c /\ outcome' = "none" /\ pinned' = state.prior /\ state.prior # None
        /\ (state.migrated => state.backup # 0)
        /\ UNCHANGED <<app, schema, db, vol, archives, taken, state, astray, replaced>>
    BY <1>4, <2>2 DEF H!cmdRollback, H!NeedsBackup, H!Kept, H!Data
  <2> QED BY <1>0, <2>3, <2>4, BeginCommand
<1> QED BY <1>1, <1>2, <1>3, <1>4

----------------------------------------------------------------------------
(* The steps of a backup.  The containers are stopped. *)
LEMMA QuiesceStep ==
  ASSUME HostConstants, HostInv, H!quiesce
  PROVE  HostInv' /\ Tells
<1>1. /\ cmd.pc = "quiesce" /\ UNCHANGED <<pinned, schema, db, vol, archives, taken, state, astray, replaced, outcome>>
      /\ app'.v = app.v /\ app'.up \in {app.up, FALSE} /\ app' = [v |-> app'.v, up |-> app'.up]
      /\ \/ H!Goto("dump") /\ ~app'.up
         \/ cmd' = [cmd EXCEPT !.pc = "resume", !.failed = TRUE]
  BY DEF HostInv, StoredTyped, H!quiesce, H!At, H!Kept, H!Data, H!Goto
<1>2. /\ cmd'.archive = cmd.archive /\ cmd'.undo = cmd.undo /\ cmd'.snap = cmd.snap
      /\ \/ Moved("dump") /\ ~app'.up /\ cmd'.failed = cmd.failed
         \/ Moved("resume") /\ cmd'.failed = TRUE
  BY <1>1, Goes DEF HostInv, CmdTyped, Moved
<1>3. StoredTyped'
  BY <1>1, <1>2 DEF HostInv, StoredTyped
<1>4. CmdTyped'
  BY <1>1, <1>2 DEF HostInv, CmdTyped, Moved
<1>5. HostShape'
  BY <1>1, <1>2 DEF HostInv, HostShape, StoredTyped, Moved, Saving, Restoring
<1>6. ASSUME ~astray, ~replaced PROVE HostSound'
  <2>1. HostSound
    BY <1>6 DEF HostInv
  <2>2. Point' /\ Cur' = Cur
    BY <1>1, <2>1 DEF HostSound, Point, Cur
  <2>3. Backing'
    BY <1>1, <1>2, <2>1 DEF HostSound, Backing, Moved, Saving
  <2>4. Trying' /\ Recovering' /\ Rolling'
    BY <1>1, <1>2, <2>1 DEF HostSound, Trying, Recovering, Rolling, Moved, Restoring
  <2> QED BY <1>1, <1>2, <2>1, <2>2, <2>3, <2>4 DEF HostSound, Sane, Moved
<1> QED BY <1>1, <1>2, <1>3, <1>4, <1>5, <1>6 DEF HostInv, Tells, HostShape, Moved

(* The database is dumped. *)
LEMMA DumpStep ==
  ASSUME HostConstants, HostInv, H!dump
  PROVE  HostInv' /\ Tells
<1>1. /\ cmd.pc = "dump" /\ UNCHANGED <<app, pinned, schema, db, vol, archives, taken, state, astray, replaced, outcome>>
      /\ \/ cmd' = [cmd EXCEPT !.pc = "copy", !.snap = [db |-> db, vol |-> 0, schema |-> schema, pinned |-> pinned]]
         \/ cmd' = [cmd EXCEPT !.pc = "resume", !.failed = TRUE]
  BY DEF H!dump, H!At, H!Kept, H!Data, H!Goto
<1>2. /\ cmd'.archive = cmd.archive /\ cmd'.undo = cmd.undo
      /\ \/ Moved("copy") /\ cmd'.failed = cmd.failed
            /\ cmd'.snap = [db |-> db, vol |-> 0, schema |-> schema, pinned |-> pinned]
         \/ Moved("resume") /\ cmd'.failed = TRUE
  BY <1>1 DEF HostInv, CmdTyped, Moved
<1>3. StoredTyped'
  BY <1>1, <1>2 DEF HostInv, StoredTyped
<1>4. CmdTyped'
  BY <1>1, <1>2 DEF HostInv, CmdTyped, StoredTyped, Moved
<1>5. HostShape'
  BY <1>1, <1>2 DEF HostInv, HostShape, StoredTyped, Moved, Saving, Restoring
<1>6. ASSUME ~astray, ~replaced PROVE HostSound'
  <2>1. HostSound
    BY <1>6 DEF HostInv
  <2>2. Point' /\ Cur' = Cur
    BY <1>1, <2>1 DEF HostSound, Point, Cur
  <2>3. Backing'
    BY <1>1, <1>2, <2>1 DEF HostSound, HostInv, HostShape, Backing, Moved, Saving
  <2>4. Trying' /\ Recovering' /\ Rolling'
    BY <1>1, <1>2, <2>1 DEF HostSound, Trying, Recovering, Rolling, Moved, Restoring
  <2> QED BY <1>1, <1>2, <2>1, <2>2, <2>3, <2>4 DEF HostSound, Sane, Moved
<1> QED BY <1>1, <1>2, <1>3, <1>4, <1>5, <1>6 DEF HostInv, Tells, HostShape, Moved

(* The volumes are copied. *)
LEMMA CopyStep ==
  ASSUME HostConstants, HostInv, H!copy
  PROVE  HostInv' /\ Tells
<1>1. /\ cmd.pc = "copy" /\ UNCHANGED <<app, pinned, schema, db, vol, archives, taken, state, astray, replaced, outcome>>
      /\ \/ cmd' = [cmd EXCEPT !.pc = "resume", !.snap.vol = vol]
         \/ cmd' = [cmd EXCEPT !.pc = "resume", !.failed = TRUE]
  BY DEF H!copy, H!At, H!Kept, H!Data, H!Goto
<1>2. /\ cmd'.archive = cmd.archive /\ cmd'.undo = cmd.undo /\ Moved("resume")
      /\ \/ /\ cmd'.failed = cmd.failed /\ cmd'.snap.vol = vol
            /\ cmd'.snap.db = cmd.snap.db /\ cmd'.snap.schema = cmd.snap.schema /\ cmd'.snap.pinned = cmd.snap.pinned
         \/ cmd'.failed = TRUE
  BY <1>1 DEF HostInv, CmdTyped, Moved
<1>3. StoredTyped'
  BY <1>1, <1>2 DEF HostInv, StoredTyped
<1>4. CmdTyped'
  BY <1>1, <1>2 DEF HostInv, CmdTyped, Moved
<1>5. HostShape'
  BY <1>1, <1>2 DEF HostInv, HostShape, StoredTyped, Moved, Saving, Restoring
<1>6. ASSUME ~astray, ~replaced PROVE HostSound'
  <2>1. HostSound
    BY <1>6 DEF HostInv
  <2>2. Point' /\ Cur' = Cur
    BY <1>1, <2>1 DEF HostSound, Point, Cur
  <2>3. Backing'
    BY <1>1, <1>2, <2>1 DEF HostSound, Backing, Sane, Moved, Saving
  <2>4. Trying' /\ Recovering' /\ Rolling'
    BY <1>1, <1>2, <2>1 DEF HostSound, Trying, Recovering, Rolling, Moved, Restoring
  <2> QED BY <1>1, <1>2, <2>1, <2>2, <2>3, <2>4 DEF HostSound, Sane, Moved
<1> QED BY <1>1, <1>2, <1>3, <1>4, <1>5, <1>6 DEF HostInv, Tells, HostShape, Moved

(* What was running runs again. *)
LEMMA ResumeStep ==
  ASSUME HostConstants, HostInv, H!resume
  PROVE  HostInv' /\ Tells
<1>1. /\ cmd.pc = "resume" /\ UNCHANGED <<pinned, schema, db, vol, archives, taken, state, astray, replaced>>
      /\ \/ app' = cmd.was /\ ~cmd.failed /\ H!Goto("assemble")
         \/ app' = cmd.was /\ cmd' = H!Idle /\ outcome' = "unchanged"
         \/ app' = [app EXCEPT !.up = FALSE] /\ cmd' = H!Idle /\ outcome' = "failed"
  BY DEF H!resume, H!At, H!Kept, H!Data, H!End
<1>2. /\ pinned = cmd.from /\ cmd.was = [v |-> cmd.was.v, up |-> cmd.was.up] /\ cmd.was.v \in Releases /\ cmd.was.up \in BOOLEAN
  BY <1>1 DEF HostInv, HostShape, Saving
<1>3. StoredTyped' /\ app'.v \in {app.v, cmd.was.v}
  BY <1>1, <1>2 DEF HostInv, StoredTyped
<1>4. CASE cmd' # H!Idle
  <2>1. Moved("assemble") /\ UNCHANGED outcome /\ app' = cmd.was /\ ~cmd.failed
        /\ cmd'.failed = cmd.failed /\ cmd'.undo = cmd.undo /\ cmd'.archive = cmd.archive /\ cmd'.snap = cmd.snap
    BY <1>1, <1>4, Goes DEF HostInv
  <2>2. CmdTyped'
    BY <1>1, <2>1 DEF HostInv, CmdTyped, Moved
  <2>3. HostShape'
    BY <1>1, <1>2, <2>1 DEF HostInv, HostShape, Moved, Saving, Restoring
  <2>4. ASSUME ~astray, ~replaced PROVE HostSound'
    <3>1. HostSound
      BY <2>4 DEF HostInv
    <3>2. Point' /\ Cur' = Cur
      BY <1>1, <3>1 DEF HostSound, Point, Cur
    <3>3. Backing'
      BY <1>1, <2>1, <3>1 DEF HostSound, Backing, Moved, Saving
    <3>4. Trying' /\ Recovering' /\ Rolling'
      BY <1>1, <2>1, <3>1 DEF HostSound, Trying, Recovering, Rolling, Moved, Restoring
    <3> QED BY <1>1, <2>1, <3>1, <3>2, <3>3, <3>4 DEF HostSound, Sane, Moved
  <2> QED BY <1>1, <1>3, <2>1, <2>2, <2>3, <2>4 DEF HostInv, Tells, HostShape
<1>5. CASE cmd' = H!Idle
  <2>1. app' = cmd.was \/ outcome' = "failed"
    BY <1>1, <1>5
  <2>2. outcome' \in {"unchanged", "failed", "none"}
    BY <1>1 DEF HostInv, HostShape, H!Goto
  <2>3. outcome' = "unchanged" => app' = cmd.was
    BY <2>1
  <2>4. ASSUME ~astray, ~replaced
        PROVE  /\ (\A b \in 1 .. taken : Sane(archives[b]))' /\ Point' /\ db' = vol'
               /\ pinned' = Cur' /\ app'.v = pinned' /\ schema' \subseteq H!Schema(pinned')
    BY <1>1, <1>2, <1>3, <2>4 DEF HostInv, HostSound, Backing, Point, Cur, Sane, Saving
  <2> QED BY <1>1, <1>2, <1>3, <1>5, <2>2, <2>3, <2>4, EndsSound DEF Tells
<1> QED BY <1>4, <1>5

(* The archive is written. *)
LEMMA AssembleStep ==
  ASSUME HostConstants, HostInv, H!assemble
  PROVE  HostInv' /\ Tells
<1>1. /\ cmd.pc = "assemble" /\ UNCHANGED <<pinned, app, schema, db, vol, state, astray, replaced>>
      /\ \/ cmd' = H!Idle /\ outcome' = "unchanged" /\ UNCHANGED <<archives, taken>>
         \/ /\ taken < MaxArchives /\ taken' = taken + 1 /\ archives' = [archives EXCEPT ![taken + 1] = cmd.snap]
            /\ \/ cmd' = H!Idle /\ outcome' = "backed up"
               \/ /\ cmd.name = "restore" /\ UNCHANGED outcome
                  /\ cmd' = [cmd EXCEPT !.pc = "down", !.archive = cmd.version]
               \/ /\ cmd.name = "update" /\ UNCHANGED outcome
                  /\ cmd' = [cmd EXCEPT !.pc = "pin", !.archive = taken + 1]
  BY DEF H!assemble, H!At, H!End, H!Data
<1>2. /\ pinned = cmd.from /\ app = cmd.was /\ ~cmd.failed /\ ~cmd.undo /\ cmd.name # "rollback"
      /\ cmd.snap.pinned \in Releases /\ taken \in Nat /\ state.backup \in 0 .. taken
      /\ cmd.name = "restore" => cmd.version \in 1 .. taken
  BY <1>1 DEF HostInv, HostShape, CmdTyped, StoredTyped, Saving
<1>3. /\ taken' \in Nat /\ taken <= taken' /\ taken' <= MaxArchives /\ taken' <= taken + 1
      /\ archives' = [b \in 1 .. MaxArchives |-> archives'[b]]
      /\ \A b \in 1 .. taken : archives'[b] = archives[b]
      /\ taken' # taken => archives'[taken'] = cmd.snap
  <2>1. taken \in Nat /\ MaxArchives \in Nat /\ taken <= MaxArchives /\ archives = [b \in 1 .. MaxArchives |-> archives[b]]
    BY DEF HostInv, StoredTyped, HostConstants
  <2>2. CASE archives' = archives /\ taken' = taken
    BY <2>1, <2>2
  <2>3. CASE taken < MaxArchives /\ taken' = taken + 1 /\ archives' = [archives EXCEPT ![taken + 1] = cmd.snap]
    <3>1. DOMAIN archives = 1 .. MaxArchives /\ taken + 1 \in 1 .. MaxArchives
      BY <2>1, <2>3
    <3>2. archives' = [b \in 1 .. MaxArchives |-> IF b = taken + 1 THEN cmd.snap ELSE archives[b]]
      BY <2>3, <3>1
    <3>3. archives' = [b \in 1 .. MaxArchives |-> archives'[b]]
      BY <3>2
    <3>4. archives'[taken'] = cmd.snap
      BY <2>3, <3>1, <3>2
    <3>5. \A b \in 1 .. taken : b \in 1 .. MaxArchives /\ b # taken + 1
      BY <2>1
    <3>6. \A b \in 1 .. taken : archives'[b] = archives[b]
      BY <3>2, <3>5
    <3>7. taken' \in Nat /\ taken <= taken' /\ taken' <= MaxArchives /\ taken' <= taken + 1
      BY <2>1, <2>3
    <3> QED BY <3>3, <3>4, <3>6, <3>7
  <2> QED BY <1>1, <2>2, <2>3
<1>4. \A b \in 1 .. taken' : b \in 1 .. taken \/ (taken' # taken /\ b = taken')
  BY <1>2, <1>3
<1>5. StoredTyped'
  <2>1. \A b \in 1 .. taken' : archives'[b].pinned \in Releases
    BY <1>2, <1>3, <1>4 DEF HostInv, StoredTyped
  <2>2. state.backup \in 0 .. taken'
    BY <1>2, <1>3
  <2> QED BY <1>1, <1>3, <2>1, <2>2 DEF HostInv, StoredTyped
<1>6. ASSUME ~astray, ~replaced
      PROVE  /\ HostSound /\ Sane(cmd.snap) /\ cmd.snap.pinned = cmd.from
             /\ (\A b \in 1 .. taken : Sane(archives[b]))' /\ Point' /\ Cur' = Cur
  <2>1. HostSound
    BY <1>6 DEF HostInv
  <2>2. Sane(cmd.snap) /\ cmd.snap.pinned = cmd.from
    BY <1>1, <2>1 DEF HostSound, Backing
  <2>3. (\A b \in 1 .. taken : Sane(archives[b]))'
    BY <1>3, <1>4, <2>1, <2>2 DEF HostSound, Sane
  <2>4. Cur' = Cur
    BY <1>1 DEF Cur
  <2>5. state.backup # 0 => archives'[state.backup] = archives[state.backup]
    BY <1>2, <1>3
  <2>6. Point'
    BY <1>1, <2>1, <2>4, <2>5 DEF HostSound, Point
  <2> QED BY <2>1, <2>2, <2>3, <2>4, <2>6
<1>7. CASE cmd' = H!Idle
  <2>1. outcome' \in {"unchanged", "backed up", "none"}
    BY <1>1 DEF HostInv, HostShape
  <2>2. ASSUME ~astray, ~replaced
        PROVE  db' = vol' /\ pinned' = Cur' /\ app'.v = pinned' /\ schema' \subseteq H!Schema(pinned')
    BY <1>1, <1>2, <1>6, <2>2 DEF HostSound, Backing, Saving
  <2> QED BY <1>1, <1>2, <1>5, <1>6, <1>7, <2>1, <2>2, EndsSound DEF Tells
<1>8. CASE cmd' # H!Idle
  <2>1. /\ cmd'.failed = cmd.failed /\ cmd'.undo = cmd.undo /\ cmd'.snap = cmd.snap /\ UNCHANGED outcome /\ taken' = taken + 1
        /\ \/ Moved("down") /\ cmd.name = "restore" /\ cmd'.archive = cmd.version
           \/ Moved("pin") /\ cmd.name = "update" /\ cmd'.archive = taken + 1
    BY <1>1, <1>8 DEF HostInv, CmdTyped, Moved
  <2>2. CmdTyped'
    BY <1>2, <1>3, <2>1 DEF CmdTyped, Moved
  <2>3. HostShape'
    BY <1>1, <1>2, <1>3, <2>1 DEF HostInv, HostShape, Moved, Saving, Restoring
  <2>4. ASSUME ~astray, ~replaced PROVE HostSound'
    <3>1. HostSound
      BY <2>4, <1>6
    <3>2. Backing'
      BY <1>1, <2>1, <3>1 DEF HostSound, Backing, Moved, Saving
    <3>3. Recovering' /\ Rolling'
      BY <1>1, <1>2, <2>1 DEF Recovering, Rolling, Moved, Restoring
    <3>4. app.v = cmd.from /\ schema \subseteq H!Schema(cmd.from)
      BY <1>1, <3>1 DEF HostSound, Backing, Saving
    <3>5. Trying'
      BY <1>2, <1>3, <1>6, <2>1, <2>4, <3>4 DEF Trying, Moved
    <3> QED BY <1>1, <1>6, <2>1, <2>4, <3>1, <3>2, <3>3, <3>5 DEF HostSound, Moved
  <2> QED BY <1>1, <1>5, <2>1, <2>2, <2>3, <2>4 DEF HostInv, Tells, HostShape
<1> QED BY <1>7, <1>8
----------------------------------------------------------------------------
(* The steps of an update.  The release is pinned. *)
LEMMA PinStep ==
  ASSUME HostConstants, HostInv, H!pin
  PROVE  HostInv' /\ Tells
<1>1. /\ cmd.pc = "pin" /\ H!Goto("pull") /\ UNCHANGED <<app, schema, db, vol, archives, taken, state, astray, replaced, outcome>>
      /\ pinned' = cmd.version
  BY DEF H!pin, H!At, H!Kept, H!Data, H!Goto
<1>2. /\ cmd'.failed = cmd.failed /\ cmd'.undo = cmd.undo /\ cmd'.archive = cmd.archive /\ cmd'.snap = cmd.snap
      /\ Moved("pull") /\ ~cmd.undo /\ cmd.name = "update" /\ cmd.version \in Releases
  BY <1>1, Goes DEF HostInv, HostShape
<1>3. StoredTyped'
  BY <1>1, <1>2 DEF HostInv, StoredTyped
<1>4. CmdTyped'
  BY <1>1, <1>2 DEF HostInv, CmdTyped, Moved
<1>5. HostShape'
  BY <1>1, <1>2 DEF HostInv, HostShape, StoredTyped, Moved, Saving, Restoring
<1>6. ASSUME ~astray, ~replaced PROVE HostSound'
  <2>1. HostSound
    BY <1>6 DEF HostInv
  <2>2. Point' /\ Cur' = Cur
    BY <1>1, <2>1 DEF HostSound, Point, Cur
  <2>3. Backing' /\ Recovering' /\ Rolling'
    BY <1>1, <1>2, <2>1 DEF HostSound, Backing, Recovering, Rolling, Moved, Saving, Restoring
  <2>4. Trying'
    BY <1>1, <1>2, <2>1 DEF HostSound, Backing, Trying, Moved
  <2> QED BY <1>1, <1>2, <2>1, <2>2, <2>3, <2>4 DEF HostSound, Sane, Moved
<1> QED BY <1>1, <1>2, <1>3, <1>4, <1>5, <1>6 DEF HostInv, Tells, HostShape, Moved

(* Without the images, the version goes back. *)
LEMMA PullStep ==
  ASSUME HostConstants, HostInv, H!pull
  PROVE  HostInv' /\ Tells
<1>1. /\ cmd.pc = "pull" /\ UNCHANGED <<app, schema, db, vol, archives, taken, state, replaced>>
      /\ \/ H!Goto("up") /\ UNCHANGED <<pinned, astray>>
         \/ /\ ~cmd.undo /\ pinned' = cmd.from /\ cmd' = H!Idle /\ outcome' = "unchanged" /\ UNCHANGED astray
         \/ /\ cmd' = H!Idle /\ outcome' = "failed" /\ astray' = TRUE /\ UNCHANGED pinned
  BY DEF H!pull, H!At, H!Kept, H!Data, H!End, H!revertVersion
<1>2. cmd.from \in Releases /\ cmd.name = "update" /\ (~cmd.undo => app = cmd.was)
  BY <1>1 DEF HostInv, HostShape
<1>3. StoredTyped'
  BY <1>1, <1>2 DEF HostInv, StoredTyped
<1>4. CASE H!Goto("up") /\ UNCHANGED <<pinned, astray>>
  <2>1. Moved("up") /\ UNCHANGED outcome
        /\ cmd'.failed = cmd.failed /\ cmd'.undo = cmd.undo /\ cmd'.archive = cmd.archive /\ cmd'.snap = cmd.snap
    BY <1>4, Goes DEF HostInv
  <2>2. CmdTyped'
    BY <1>1, <2>1 DEF HostInv, CmdTyped, Moved
  <2>3. HostShape'
    BY <1>1, <1>2, <2>1 DEF HostInv, HostShape, Moved, Saving, Restoring
  <2>4. ASSUME ~astray, ~replaced PROVE HostSound'
    <3>1. HostSound
      BY <2>4 DEF HostInv
    <3>2. Point' /\ Cur' = Cur
      BY <1>1, <3>1 DEF HostSound, Point, Cur
    <3>3. Backing' /\ Recovering' /\ Rolling'
      BY <1>1, <1>2, <2>1, <3>1 DEF HostSound, Backing, Recovering, Rolling, Moved, Saving, Restoring
    <3>4. Trying'
      BY <1>1, <1>2, <1>4, <2>1, <3>1 DEF HostSound, Trying, Moved
    <3> QED BY <1>1, <1>4, <2>1, <3>1, <3>2, <3>3, <3>4 DEF HostSound, Sane, Moved
  <2>5. outcome = "none"
    BY <1>1 DEF HostInv, HostShape
  <2> QED BY <1>1, <1>3, <1>4, <2>1, <2>2, <2>3, <2>4, <2>5 DEF HostInv, Tells
<1>5. CASE ~cmd.undo /\ pinned' = cmd.from /\ cmd' = H!Idle /\ outcome' = "unchanged" /\ UNCHANGED astray
  <2>1. ASSUME ~astray, ~replaced
        PROVE  /\ (\A b \in 1 .. taken : Sane(archives[b]))' /\ Point' /\ db' = vol'
               /\ pinned' = Cur' /\ app'.v = pinned' /\ schema' \subseteq H!Schema(pinned')
    BY <1>1, <1>5, <2>1 DEF HostInv, HostSound, Trying, Point, Cur, Sane
  <2> QED BY <1>1, <1>2, <1>3, <1>5, <2>1, EndsSound DEF Tells
<1> QED BY <1>1, <1>3, <1>4, <1>5, Fails

(* recoverPrior leads back to the version before, or to the backup. *)
LEMMA RecoverStep ==
  ASSUME HostConstants, HostInv, cmd.pc \in {"up", "wait"}, ~cmd.undo, H!recoverPrior,
         app' = [v |-> app'.v, up |-> app'.up], app'.v \in {app.v, pinned}, app'.up \in BOOLEAN,
         UNCHANGED <<schema, db, vol, archives, taken, state, replaced>>
  PROVE  HostInv' /\ Tells
<1>1. /\ cmd.from \in Releases /\ cmd.name = "update" /\ cmd.version \in Releases /\ outcome = "none"
      /\ cmd.was = [v |-> cmd.was.v, up |-> cmd.was.up] /\ cmd.was.v \in Releases /\ cmd.was.up \in BOOLEAN
  BY DEF HostInv, HostShape
<1>2. \/ /\ ~H!HasMigrations(cmd.version) /\ pinned' = cmd.from
         /\ cmd' = [cmd EXCEPT !.pc = "pull", !.undo = TRUE] /\ UNCHANGED <<outcome, astray>>
      \/ /\ pinned' = pinned /\ cmd' = H!Idle /\ outcome' = "failed" /\ astray' = TRUE
      \/ /\ H!HasMigrations(cmd.version) /\ pinned' = pinned /\ cmd.archive # 0
         /\ cmd' = [cmd EXCEPT !.pc = "down", !.undo = TRUE] /\ UNCHANGED <<outcome, astray>>
  BY DEF H!recoverPrior, H!revertVersion, H!Fail, H!End
<1>3. StoredTyped'
  BY <1>1, <1>2 DEF HostInv, StoredTyped
<1>4. CASE astray' = TRUE /\ cmd' = H!Idle /\ outcome' = "failed"
  BY <1>3, <1>4, Fails
<1>5. CASE UNCHANGED <<outcome, astray>> /\ cmd' # H!Idle
  <2>1. /\ cmd'.failed = cmd.failed /\ cmd'.undo = TRUE /\ cmd'.archive = cmd.archive /\ cmd'.snap = cmd.snap
        /\ \/ Moved("pull") /\ ~H!HasMigrations(cmd.version) /\ pinned' = cmd.from
           \/ Moved("down") /\ pinned' = pinned /\ cmd.archive # 0
    BY <1>2, <1>5 DEF HostInv, CmdTyped, Moved
  <2>2. CmdTyped'
    BY <2>1 DEF HostInv, CmdTyped, Moved
  <2>3. HostShape'
    BY <1>1, <1>5, <2>1 DEF HostInv, HostShape, Moved, Saving, Restoring
  <2>4. ASSUME ~astray, ~replaced PROVE HostSound'
    <3>1. HostSound
      BY <2>4 DEF HostInv
    <3>2. Point' /\ Cur' = Cur
      BY <3>1 DEF HostSound, Point, Cur
    <3>3. Backing' /\ Recovering' /\ Rolling'
      BY <1>1, <2>1 DEF Backing, Recovering, Rolling, Moved, Saving, Restoring
    <3>4. ~H!HasMigrations(cmd.version) => schema \subseteq H!Schema(cmd.from) /\ app'.v \in {cmd.from, cmd.version}
      BY <3>1 DEF HostSound, Trying
    <3>5. Trying'
      BY <1>1, <2>1, <3>1, <3>4 DEF HostSound, Trying, Moved
    <3> QED BY <2>1, <3>1, <3>2, <3>3, <3>5 DEF HostSound, Sane, Moved
  <2> QED BY <1>1, <1>3, <1>5, <2>1, <2>2, <2>3, <2>4 DEF HostInv, Tells
<1>6. (UNCHANGED <<outcome, astray>> /\ cmd' # H!Idle) \/ (astray' = TRUE /\ cmd' = H!Idle /\ outcome' = "failed")
  <2>1. cmd' = [cmd EXCEPT !.pc = "pull", !.undo = TRUE] \/ cmd' = [cmd EXCEPT !.pc = "down", !.undo = TRUE] => cmd'.pc # "none"
    BY DEF HostInv, CmdTyped
  <2> QED BY <1>2, <2>1, IdleIs
<1> QED BY <1>2, <1>4, <1>5, <1>6

(* The release is started, or the one before again. *)
LEMMA UpStep ==
  ASSUME HostConstants, HostInv, H!up
  PROVE  HostInv' /\ Tells
<1>1. /\ cmd.pc = "up" /\ UNCHANGED <<schema, db, vol, archives, taken, state, replaced>>
      /\ \/ cmd.undo /\ UNCHANGED <<pinned, astray>> /\ H!UpOk /\ cmd' = H!Idle /\ outcome' = "restored"
         \/ cmd.undo /\ UNCHANGED pinned /\ H!UpFails /\ cmd' = H!Idle /\ outcome' = "failed" /\ astray' = TRUE
         \/ ~cmd.undo /\ UNCHANGED <<pinned, astray>> /\ H!UpOk /\ H!Goto("wait")
         \/ ~cmd.undo /\ H!UpFails /\ H!recoverPrior
  BY DEF H!up, H!At, H!Data, H!Fail, H!End
<1>2. cmd.name = "update" /\ cmd.version \in Releases /\ pinned \in Releases /\ app.v \in Releases
  BY <1>1 DEF HostInv, HostShape, StoredTyped
<1>3. H!UpFails => app' = [v |-> app'.v, up |-> app'.up] /\ app'.v \in {app.v, pinned} /\ app'.up \in BOOLEAN
  BY DEF H!UpFails
<1>4. H!UpOk => app' = [v |-> app'.v, up |-> app'.up] /\ app'.v = pinned /\ app'.up = TRUE
  BY DEF H!UpOk
<1>5. CASE cmd.undo /\ H!UpFails /\ UNCHANGED pinned /\ cmd' = H!Idle /\ outcome' = "failed" /\ astray' = TRUE
  <2>1. StoredTyped'
    BY <1>1, <1>2, <1>3, <1>5 DEF HostInv, StoredTyped
  <2> QED BY <1>5, <2>1, Fails
<1>6. CASE cmd.undo /\ UNCHANGED <<pinned, astray>> /\ H!UpOk /\ cmd' = H!Idle /\ outcome' = "restored"
  <2>1. StoredTyped'
    BY <1>1, <1>2, <1>4, <1>6 DEF HostInv, StoredTyped
  <2>2. ASSUME ~astray, ~replaced
        PROVE  /\ (\A b \in 1 .. taken : Sane(archives[b]))' /\ Point' /\ db' = vol'
               /\ pinned' = Cur' /\ app'.v = pinned' /\ schema' \subseteq H!Schema(pinned')
               /\ pinned' = cmd.from
    BY <1>1, <1>4, <1>6, <2>2 DEF HostInv, HostSound, Trying, Point, Cur, Sane
  <2>3. HostInv'
    BY <1>1, <1>6, <2>1, <2>2, EndsSound
  <2> QED BY <1>4, <1>6, <2>2, <2>3 DEF Tells, H!UpOk
<1>7. CASE ~cmd.undo /\ UNCHANGED <<pinned, astray>> /\ H!UpOk /\ H!Goto("wait")
  <2>1. Moved("wait") /\ UNCHANGED outcome
        /\ cmd'.failed = cmd.failed /\ cmd'.undo = cmd.undo /\ cmd'.archive = cmd.archive /\ cmd'.snap = cmd.snap
    BY <1>7, Goes DEF HostInv
  <2>2. StoredTyped'
    BY <1>1, <1>2, <1>4, <1>7 DEF HostInv, StoredTyped
  <2>3. CmdTyped'
    BY <1>1, <2>1 DEF HostInv, CmdTyped, Moved
  <2>4. HostShape'
    BY <1>1, <1>2, <1>7, <2>1 DEF HostInv, HostShape, Moved, Saving, Restoring
  <2>5. ASSUME ~astray, ~replaced PROVE HostSound'
    <3>1. HostSound
      BY <2>5 DEF HostInv
    <3>2. Point' /\ Cur' = Cur
      BY <1>1, <3>1 DEF HostSound, Point, Cur
    <3>3. Backing' /\ Recovering' /\ Rolling'
      BY <1>1, <1>2, <2>1 DEF Backing, Recovering, Rolling, Moved, Saving, Restoring
    <3>4. Trying'
      BY <1>1, <1>2, <1>4, <1>7, <2>1, <3>1 DEF HostSound, Trying, Moved
    <3> QED BY <1>1, <2>1, <3>1, <3>2, <3>3, <3>4 DEF HostSound, Sane, Moved
  <2>6. outcome = "none"
    BY <1>1 DEF HostInv, HostShape
  <2> QED BY <1>1, <1>7, <2>1, <2>2, <2>3, <2>4, <2>5, <2>6 DEF HostInv, Tells
<1>8. CASE ~cmd.undo /\ H!UpFails /\ H!recoverPrior
  BY <1>1, <1>3, <1>8, RecoverStep
<1> QED BY <1>1, <1>5, <1>6, <1>7, <1>8

(* The release is healthy, or is given up. *)
LEMMA WaitStep ==
  ASSUME HostConstants, HostInv, H!wait
  PROVE  HostInv' /\ Tells
<1>1. /\ cmd.pc = "wait" /\ UNCHANGED <<app, schema, db, vol, archives, taken, state, replaced>>
      /\ \/ H!Healthy /\ H!Goto("record") /\ UNCHANGED <<pinned, astray>>
         \/ H!recoverPrior
  BY DEF H!wait, H!At, H!Data, H!WaitHealthy
<1>2. /\ cmd.name = "update" /\ cmd.version \in Releases /\ ~cmd.undo /\ outcome = "none"
      /\ app = [v |-> app.v, up |-> app.up] /\ app.up \in BOOLEAN
  BY <1>1 DEF HostInv, HostShape, StoredTyped
<1>3. CASE H!recoverPrior
  BY <1>1, <1>2, <1>3, RecoverStep
<1>4. CASE H!Healthy /\ H!Goto("record") /\ UNCHANGED <<pinned, astray>>
  <2>1. Moved("record") /\ UNCHANGED outcome
        /\ cmd'.failed = cmd.failed /\ cmd'.undo = cmd.undo /\ cmd'.archive = cmd.archive /\ cmd'.snap = cmd.snap
    BY <1>4, Goes DEF HostInv
  <2>2. StoredTyped'
    BY <1>1, <1>4 DEF HostInv, StoredTyped
  <2>3. CmdTyped'
    BY <1>1, <2>1 DEF HostInv, CmdTyped, Moved
  <2>4. HostShape'
    BY <1>1, <1>2, <2>1 DEF HostInv, HostShape, Moved, Saving, Restoring
  <2>5. ASSUME ~astray, ~replaced PROVE HostSound'
    <3>1. HostSound
      BY <2>5 DEF HostInv
    <3>2. Point' /\ Cur' = Cur
      BY <1>1, <3>1 DEF HostSound, Point, Cur
    <3>3. Backing' /\ Recovering' /\ Rolling'
      BY <1>1, <1>2, <2>1 DEF Backing, Recovering, Rolling, Moved, Saving, Restoring
    <3>4. Trying'
      BY <1>1, <1>2, <1>4, <2>1, <3>1 DEF HostSound, Trying, Moved, H!Healthy
    <3> QED BY <1>1, <1>4, <2>1, <3>1, <3>2, <3>3, <3>4 DEF HostSound, Sane, Moved
  <2> QED BY <1>1, <1>2, <1>4, <2>1, <2>2, <2>3, <2>4, <2>5 DEF HostInv, Tells
<1> QED BY <1>1, <1>3, <1>4

(* The update is recorded with the point to roll back to. *)
LEMMA RecordStep ==
  ASSUME HostConstants, HostInv, H!record
  PROVE  HostInv' /\ Tells
<1>1. /\ cmd.pc = "record" /\ UNCHANGED <<pinned, app, schema, db, vol, archives, taken, replaced>>
      /\ cmd' = H!Idle
      /\ \/ state' = H!RecordApplied /\ outcome' = "updated" /\ UNCHANGED astray
         \/ UNCHANGED state /\ outcome' = "failed" /\ astray' = TRUE
  BY DEF H!record, H!At, H!Data, H!Fail, H!End
<1>2. /\ cmd.version \in Releases /\ None \notin Releases /\ H!Version \in Releases
      /\ state.current \in Releases \cup {None} /\ cmd.archive \in 0 .. taken
  BY <1>1, Schemas DEF HostInv, HostShape, HostConstants, StoredTyped, CmdTyped
<1>3. state' = H!RecordApplied =>
         /\ state'.current = cmd.version /\ state'.prior = Cur /\ state'.backup = cmd.archive
         /\ state'.migrated = H!HasMigrations(cmd.version)
  BY DEF H!RecordApplied, Cur
<1>4. H!HasMigrations(cmd.version) \in BOOLEAN
  BY DEF H!HasMigrations
<1>5. StoredTyped'
  BY <1>1, <1>2, <1>3, <1>4 DEF HostInv, StoredTyped, Cur
<1>6. CASE state' = H!RecordApplied /\ outcome' = "updated" /\ UNCHANGED astray
  <2>1. ASSUME ~astray, ~replaced
        PROVE  /\ (\A b \in 1 .. taken : Sane(archives[b]))' /\ Point' /\ db' = vol'
               /\ pinned' = Cur' /\ app'.v = pinned' /\ schema' \subseteq H!Schema(pinned')
    <3>1. /\ HostSound /\ pinned = cmd.version /\ app.v = cmd.version /\ schema = H!Schema(cmd.version)
          /\ cmd.archive # 0 => archives[cmd.archive].pinned = cmd.from
          /\ cmd.from = Cur
      BY <1>1, <2>1 DEF HostInv, HostShape, HostSound, Trying
    <3>2. Cur' = cmd.version
      BY <1>2, <1>3, <1>6 DEF Cur
    <3>3. Point'
      BY <1>1, <1>3, <1>6, <3>1, <3>2 DEF Point, H!HasMigrations
    <3> QED BY <1>1, <3>1, <3>2, <3>3 DEF HostSound, Sane
  <2> QED BY <1>1, <1>5, <1>6, <2>1, EndsSound DEF Tells
<1> QED BY <1>1, <1>5, <1>6, Fails
----------------------------------------------------------------------------
(* The steps of a restore.  The stack is removed. *)
LEMMA DownStep ==
  ASSUME HostConstants, HostInv, H!down
  PROVE  HostInv' /\ Tells
<1>1. /\ cmd.pc = "down" /\ UNCHANGED <<pinned, schema, db, vol, archives, taken, state, replaced>>
      /\ \/ app' = [app EXCEPT !.up = FALSE] /\ H!Goto("database") /\ UNCHANGED astray
         \/ (\E b \in {app.up, FALSE} : app' = [app EXCEPT !.up = b]) /\ cmd' = H!Idle /\ outcome' = "failed" /\ astray' = TRUE
  BY DEF H!down, H!At, H!Data, H!Fail, H!End
<1>2. app' = [v |-> app'.v, up |-> app'.up] /\ app'.v = app.v /\ app'.up \in {app.up, FALSE}
  BY <1>1 DEF HostInv, StoredTyped
<1>3. StoredTyped'
  BY <1>1, <1>2 DEF HostInv, StoredTyped
<1>4. CASE app' = [app EXCEPT !.up = FALSE] /\ H!Goto("database") /\ UNCHANGED astray
  <2>1. Moved("database") /\ UNCHANGED outcome
        /\ cmd'.failed = cmd.failed /\ cmd'.undo = cmd.undo /\ cmd'.archive = cmd.archive /\ cmd'.snap = cmd.snap
    BY <1>4, Goes DEF HostInv
  <2>2. CmdTyped'
    BY <1>1, <2>1 DEF HostInv, CmdTyped, Moved
  <2>3. HostShape' /\ outcome = "none"
    BY <1>1, <2>1 DEF HostInv, HostShape, Moved, Saving, Restoring
  <2>4. app'.up = FALSE
    BY <1>4 DEF HostInv, StoredTyped
  <2>5. ASSUME ~astray, ~replaced PROVE HostSound'
    <3>1. HostSound
      BY <2>5 DEF HostInv
    <3>2. Point' /\ Cur' = Cur
      BY <1>1, <3>1 DEF HostSound, Point, Cur
    <3>3. Backing' /\ Rolling'
      BY <1>1, <2>1 DEF Backing, Rolling, Moved, Saving
    <3>4. Recovering' /\ Trying'
      BY <1>1, <2>1, <3>1 DEF HostSound, Trying, Recovering, Restoring, Moved
    <3> QED BY <1>1, <2>1, <2>4, <3>1, <3>2, <3>3, <3>4 DEF HostSound, Sane, Moved
  <2> QED BY <1>1, <1>3, <1>4, <2>1, <2>2, <2>3, <2>5 DEF HostInv, Tells
<1> QED BY <1>1, <1>3, <1>4, Fails

(* The database. *)
LEMMA DatabaseStep ==
  ASSUME HostConstants, HostInv, H!database
  PROVE  HostInv' /\ Tells
<1>1. /\ cmd.pc = "database" /\ UNCHANGED <<pinned, app, vol, archives, taken, state, replaced>>
      /\ \/ /\ schema' = archives[cmd.archive].schema /\ db' = archives[cmd.archive].db
            /\ H!Goto("volumes") /\ UNCHANGED astray
         \/ cmd' = H!Idle /\ outcome' = "failed" /\ astray' = TRUE
  BY DEF H!database, H!Source, H!At, H!Fail, H!End
<1>3. StoredTyped'
  BY <1>1 DEF HostInv, StoredTyped
<1>4. CASE /\ schema' = archives[cmd.archive].schema /\ db' = archives[cmd.archive].db
           /\ H!Goto("volumes") /\ UNCHANGED astray
  <2>1. Moved("volumes") /\ UNCHANGED outcome
        /\ cmd'.failed = cmd.failed /\ cmd'.undo = cmd.undo /\ cmd'.archive = cmd.archive /\ cmd'.snap = cmd.snap
    BY <1>4, Goes DEF HostInv
  <2>2. CmdTyped'
    BY <1>1, <2>1 DEF HostInv, CmdTyped, Moved
  <2>3. HostShape' /\ outcome = "none"
    BY <1>1, <2>1 DEF HostInv, HostShape, Moved, Saving, Restoring
  <2>5. ASSUME ~astray, ~replaced PROVE HostSound'
    <3>1. HostSound
      BY <2>5 DEF HostInv
    <3>2. Point' /\ Cur' = Cur
      BY <1>1, <3>1 DEF HostSound, Point, Cur
    <3>3. Backing' /\ Rolling'
      BY <1>1, <2>1 DEF Backing, Rolling, Moved, Saving
    <3>4. Recovering' /\ Trying'
      BY <1>1, <1>4, <2>1, <3>1 DEF HostSound, Trying, Recovering, Restoring, Moved
    <3> QED BY <1>1, <2>1, <3>1, <3>2, <3>3, <3>4 DEF HostSound, Sane, Moved
  <2> QED BY <1>1, <1>3, <1>4, <2>1, <2>2, <2>3, <2>5 DEF HostInv, Tells
<1> QED BY <1>1, <1>3, <1>4, Fails

(* The volumes. *)
LEMMA VolumesStep ==
  ASSUME HostConstants, HostInv, H!volumes
  PROVE  HostInv' /\ Tells
<1>1. /\ cmd.pc = "volumes" /\ UNCHANGED <<pinned, app, schema, db, archives, taken, state, replaced>>
      /\ \/ /\ vol' = archives[cmd.archive].vol /\ H!Goto("env") /\ UNCHANGED astray
         \/ cmd' = H!Idle /\ outcome' = "failed" /\ astray' = TRUE
  BY DEF H!volumes, H!Source, H!At, H!Fail, H!End
<1>2. cmd.archive \in 1 .. taken
  BY <1>1 DEF HostInv, HostShape, CmdTyped, StoredTyped, Restoring
<1>3. StoredTyped'
  BY <1>1 DEF HostInv, StoredTyped
<1>4. CASE vol' = archives[cmd.archive].vol /\ H!Goto("env") /\ UNCHANGED astray
  <2>1. Moved("env") /\ UNCHANGED outcome
        /\ cmd'.failed = cmd.failed /\ cmd'.undo = cmd.undo /\ cmd'.archive = cmd.archive /\ cmd'.snap = cmd.snap
    BY <1>4, Goes DEF HostInv
  <2>2. CmdTyped'
    BY <1>1, <2>1 DEF HostInv, CmdTyped, Moved
  <2>3. HostShape' /\ outcome = "none"
    BY <1>1, <2>1 DEF HostInv, HostShape, Moved, Saving, Restoring
  <2>5. ASSUME ~astray, ~replaced PROVE HostSound'
    <3>1. HostSound
      BY <2>5 DEF HostInv
    <3>2. Point' /\ Cur' = Cur
      BY <1>1, <3>1 DEF HostSound, Point, Cur
    <3>3. Backing' /\ Rolling'
      BY <1>1, <2>1 DEF Backing, Rolling, Moved, Saving
    <3>4. Recovering' /\ Trying'
      BY <1>1, <2>1, <3>1 DEF HostSound, Trying, Recovering, Restoring, Moved
    <3>5. db' = vol'
      BY <1>1, <1>2, <1>4, <3>1 DEF HostSound, Recovering, Sane
    <3> QED BY <1>1, <2>1, <3>1, <3>2, <3>3, <3>4, <3>5 DEF HostSound, Sane, Moved
  <2> QED BY <1>1, <1>3, <1>4, <2>1, <2>2, <2>3, <2>5 DEF HostInv, Tells
<1> QED BY <1>1, <1>3, <1>4, Fails

(* The version that was pinned with them. *)
LEMMA EnvStep ==
  ASSUME HostConstants, HostInv, H!env
  PROVE  HostInv' /\ Tells
<1>1. /\ cmd.pc = "env" /\ UNCHANGED <<app, schema, db, vol, archives, taken, state, replaced>>
      /\ \/ /\ pinned' = archives[cmd.archive].pinned /\ H!Goto("start") /\ UNCHANGED astray
         \/ UNCHANGED pinned /\ cmd' = H!Idle /\ outcome' = "failed" /\ astray' = TRUE
  BY DEF H!env, H!Source, H!At, H!Data, H!Fail, H!End
<1>2. cmd.archive \in 1 .. taken
  BY <1>1 DEF HostInv, HostShape, CmdTyped, StoredTyped, Restoring
<1>3. StoredTyped'
  BY <1>1, <1>2 DEF HostInv, StoredTyped
<1>4. CASE pinned' = archives[cmd.archive].pinned /\ H!Goto("start") /\ UNCHANGED astray
  <2>1. Moved("start") /\ UNCHANGED outcome
        /\ cmd'.failed = cmd.failed /\ cmd'.undo = cmd.undo /\ cmd'.archive = cmd.archive /\ cmd'.snap = cmd.snap
    BY <1>4, Goes DEF HostInv
  <2>2. CmdTyped'
    BY <1>1, <2>1 DEF HostInv, CmdTyped, Moved
  <2>3. HostShape' /\ outcome = "none"
    BY <1>1, <2>1 DEF HostInv, HostShape, Moved, Saving, Restoring
  <2>5. ASSUME ~astray, ~replaced PROVE HostSound'
    <3>1. HostSound
      BY <2>5 DEF HostInv
    <3>2. Point' /\ Cur' = Cur
      BY <1>1, <3>1 DEF HostSound, Point, Cur
    <3>3. Backing' /\ Rolling'
      BY <1>1, <2>1 DEF Backing, Rolling, Moved, Saving
    <3>4. Trying'
      BY <1>1, <2>1, <3>1 DEF HostSound, Trying, Moved
    <3>5. schema \subseteq H!Schema(pinned')
      BY <1>1, <1>2, <1>4, <3>1 DEF HostSound, Recovering, Sane
    <3>6. /\ cmd.name = "update" => pinned' = cmd.from
          /\ cmd.name = "rollback" => pinned' = cmd.version
      BY <1>1, <1>2, <1>4, <3>1 DEF HostSound, Recovering, Trying, Restoring
    <3>7. Recovering'
      BY <1>1, <2>1, <3>1, <3>5, <3>6 DEF HostSound, Recovering, Restoring, Moved
    <3> QED BY <1>1, <2>1, <3>1, <3>2, <3>3, <3>4, <3>7 DEF HostSound, Sane, Moved
  <2> QED BY <1>1, <1>3, <1>4, <2>1, <2>2, <2>3, <2>5 DEF HostInv, Tells
<1> QED BY <1>1, <1>3, <1>4, Fails

(* The stack is started on what was restored. *)
LEMMA StartStep ==
  ASSUME HostConstants, HostInv, H!start
  PROVE  HostInv' /\ Tells
<1>1. /\ cmd.pc = "start" /\ UNCHANGED <<pinned, schema, db, vol, archives, taken, state, replaced>>
      /\ \/ H!UpOk /\ H!Goto("ready") /\ UNCHANGED astray
         \/ H!UpFails /\ cmd' = H!Idle /\ outcome' = "failed" /\ astray' = TRUE
  BY DEF H!start, H!At, H!Data, H!Fail, H!End
<1>2. app' = [v |-> app'.v, up |-> app'.up] /\ app'.v \in {app.v, pinned} /\ app'.up \in BOOLEAN
  <2>1. H!UpOk => app' = [v |-> app'.v, up |-> app'.up] /\ app'.v = pinned /\ app'.up = TRUE
    BY DEF H!UpOk
  <2>2. H!UpFails => app' = [v |-> app'.v, up |-> app'.up] /\ app'.v \in {app.v, pinned} /\ app'.up \in BOOLEAN
    BY DEF H!UpFails
  <2> QED BY <1>1, <2>1, <2>2
<1>3. StoredTyped'
  BY <1>1, <1>2 DEF HostInv, StoredTyped
<1>4. CASE H!UpOk /\ H!Goto("ready") /\ UNCHANGED astray
  <2>1. Moved("ready") /\ UNCHANGED outcome
        /\ cmd'.failed = cmd.failed /\ cmd'.undo = cmd.undo /\ cmd'.archive = cmd.archive /\ cmd'.snap = cmd.snap
    BY <1>4, Goes DEF HostInv
  <2>2. CmdTyped'
    BY <1>1, <2>1 DEF HostInv, CmdTyped, Moved
  <2>3. HostShape' /\ outcome = "none"
    BY <1>1, <2>1 DEF HostInv, HostShape, Moved, Saving, Restoring
  <2>4. app'.v = pinned /\ app'.up
    BY <1>4 DEF H!UpOk
  <2>5. ASSUME ~astray, ~replaced PROVE HostSound'
    <3>1. HostSound
      BY <2>5 DEF HostInv
    <3>2. Point' /\ Cur' = Cur
      BY <1>1, <3>1 DEF HostSound, Point, Cur
    <3>3. Backing' /\ Rolling'
      BY <1>1, <2>1 DEF Backing, Rolling, Moved, Saving
    <3>4. Trying'
      BY <1>1, <2>1, <3>1 DEF HostSound, Trying, Moved
    <3>5. Recovering'
      BY <1>1, <2>1, <2>4, <3>1 DEF HostSound, Recovering, Restoring, Moved
    <3> QED BY <1>1, <2>1, <3>1, <3>2, <3>3, <3>4, <3>5 DEF HostSound, Sane, Moved
  <2> QED BY <1>1, <1>3, <1>4, <2>1, <2>2, <2>3, <2>5 DEF HostInv, Tells
<1> QED BY <1>1, <1>3, <1>4, Fails

(* It is healthy: a rollback goes on to the version before, a restore ends. *)
LEMMA ReadyStep ==
  ASSUME HostConstants, HostInv, H!ready
  PROVE  HostInv' /\ Tells
<1>1. /\ cmd.pc = "ready" /\ UNCHANGED <<app, schema, db, vol, archives, taken, state>>
      /\ \/ /\ cmd.name = "rollback" /\ pinned' = cmd.version /\ H!Goto("activate") /\ UNCHANGED <<astray, replaced>>
         \/ /\ cmd.name # "rollback" /\ cmd' = H!Idle /\ outcome' = "restored"
            /\ replaced' = (replaced \/ cmd.name = "restore") /\ UNCHANGED <<pinned, astray>>
         \/ cmd' = H!Idle /\ outcome' = "failed" /\ astray' = TRUE /\ UNCHANGED <<pinned, replaced>>
  BY DEF H!ready, H!At, H!Data, H!Fail, H!End
<1>2. /\ cmd.name \in {"restore", "update", "rollback"} /\ (cmd.name = "rollback" => cmd.version \in Releases)
      /\ app = [v |-> app.v, up |-> app.up] /\ app.up \in BOOLEAN /\ outcome = "none"
  BY <1>1 DEF HostInv, HostShape, StoredTyped, Restoring
<1>3. StoredTyped'
  BY <1>1, <1>2 DEF HostInv, StoredTyped
<1>4. CASE cmd.name = "rollback" /\ pinned' = cmd.version /\ H!Goto("activate") /\ UNCHANGED <<astray, replaced>>
  <2>1. Moved("activate") /\ UNCHANGED outcome
        /\ cmd'.failed = cmd.failed /\ cmd'.undo = cmd.undo /\ cmd'.archive = cmd.archive /\ cmd'.snap = cmd.snap
    BY <1>4, Goes DEF HostInv
  <2>2. CmdTyped'
    BY <1>1, <2>1 DEF HostInv, CmdTyped, Moved
  <2>3. HostShape'
    BY <1>1, <1>2, <1>4, <2>1 DEF HostInv, HostShape, Moved, Saving, Restoring
  <2>5. ASSUME ~astray, ~replaced PROVE HostSound'
    <3>1. HostSound
      BY <2>5 DEF HostInv
    <3>2. Point' /\ Cur' = Cur
      BY <1>1, <3>1 DEF HostSound, Point, Cur
    <3>3. Backing' /\ Recovering'
      BY <1>1, <2>1 DEF Backing, Recovering, Moved, Saving, Restoring
    <3>4. Trying' /\ Rolling'
      BY <1>1, <1>4, <2>1, <3>1 DEF HostSound, Trying, Recovering, Rolling, Moved
    <3> QED BY <1>1, <2>1, <3>1, <3>2, <3>3, <3>4 DEF HostSound, Sane, Moved
  <2> QED BY <1>1, <1>2, <1>3, <1>4, <2>1, <2>2, <2>3, <2>5 DEF HostInv, Tells
<1>5. CASE /\ cmd.name # "rollback" /\ cmd' = H!Idle /\ outcome' = "restored"
           /\ replaced' = (replaced \/ cmd.name = "restore") /\ UNCHANGED <<pinned, astray>>
  <2>1. ASSUME ~astray, ~replaced
        PROVE  /\ HostSound /\ app.v = pinned /\ app.up /\ schema \subseteq H!Schema(pinned) /\ db = vol
               /\ cmd.name = "update" => pinned = cmd.from
    BY <1>1, <2>1 DEF HostInv, HostSound, Recovering
  <2>2. ASSUME ~astray', ~replaced'
        PROVE  /\ (\A b \in 1 .. taken : Sane(archives[b]))' /\ Point' /\ db' = vol'
               /\ pinned' = Cur' /\ app'.v = pinned' /\ schema' \subseteq H!Schema(pinned')
    <3>1. ~astray /\ ~replaced /\ cmd.name = "update"
      BY <1>2, <1>5, <2>2
    <3>2. HostSound
      BY <2>1, <3>1
    <3> QED BY <1>1, <1>5, <2>1, <3>1, <3>2 DEF HostSound, Point, Cur, Sane
  <2>3. HostInv'
    BY <1>3, <1>5, <2>2, EndsSound
  <2>4. Tells
    BY <1>1, <1>2, <1>5, <2>1 DEF Tells
  <2> QED BY <2>3, <2>4
<1> QED BY <1>1, <1>3, <1>4, <1>5, Fails
----------------------------------------------------------------------------
(* The steps of a rollback.  The images, and what they are to run on. *)
LEMMA ImagesStep ==
  ASSUME HostConstants, HostInv, H!images
  PROVE  HostInv' /\ Tells
<1>1. /\ cmd.pc = "images" /\ UNCHANGED <<app, schema, db, vol, archives, taken, state, astray, replaced>>
      /\ \/ UNCHANGED pinned /\ H!Goto("down") /\ state.migrated
         \/ UNCHANGED pinned /\ H!Goto("activate") /\ ~state.migrated
         \/ pinned' = cmd.from /\ cmd' = H!Idle /\ outcome' = "unchanged"
  BY DEF H!images, H!NeedsBackup, H!At, H!Kept, H!Data, H!End, H!revertVersion
<1>2. /\ cmd.name = "rollback" /\ cmd.from \in Releases /\ app = cmd.was /\ cmd.version \in Releases
      /\ cmd.version = state.prior /\ cmd.archive = state.backup /\ (state.migrated => cmd.archive # 0)
      /\ cmd.pc # "none" /\ outcome = "none"
  BY <1>1 DEF HostInv, HostShape
<1>3. StoredTyped'
  BY <1>1, <1>2 DEF HostInv, StoredTyped
<1>4. CASE UNCHANGED pinned /\ ((H!Goto("down") /\ state.migrated) \/ (H!Goto("activate") /\ ~state.migrated))
  <2>1. /\ (Moved("down") /\ state.migrated) \/ (Moved("activate") /\ ~state.migrated)
        /\ UNCHANGED outcome
        /\ cmd'.failed = cmd.failed /\ cmd'.undo = cmd.undo /\ cmd'.archive = cmd.archive /\ cmd'.snap = cmd.snap
    BY <1>4, Goes DEF HostInv
  <2>2. CmdTyped'
    BY <1>1, <2>1 DEF HostInv, CmdTyped, Moved
  <2>3. HostShape'
    BY <1>1, <1>2, <2>1 DEF HostInv, HostShape, Moved, Saving, Restoring
  <2>4. ASSUME ~astray, ~replaced PROVE HostSound'
    <3>1. HostSound
      BY <2>4 DEF HostInv
    <3>2. Point' /\ Cur' = Cur
      BY <1>1, <3>1 DEF HostSound, Point, Cur
    <3>3. Backing' /\ Trying'
      BY <1>1, <1>2, <2>1 DEF Backing, Trying, Moved, Saving
    <3>4. state.prior # None
      BY <1>2 DEF HostConstants
    <3>5. Recovering'
      BY <1>1, <1>2, <2>1, <3>1, <3>4 DEF HostSound, Point, Recovering, Restoring, Moved
    <3>6. ~state.migrated => H!Schema(cmd.from) = H!Schema(H!Version)
      BY <1>2, <3>1, <3>4 DEF HostSound, Point
    <3>7. H!Schema(H!Version) \subseteq H!Schema(cmd.version)
      BY <1>2, Schemas
    <3>8. pinned = cmd.version /\ app.v = cmd.from /\ schema \subseteq H!Schema(cmd.from)
      BY <1>1, <3>1 DEF HostSound, Rolling
    <3>9. Rolling'
      BY <1>1, <1>4, <2>1, <3>6, <3>7, <3>8 DEF Rolling, Moved
    <3> QED BY <1>1, <2>1, <3>1, <3>2, <3>3, <3>5, <3>9 DEF HostSound, Sane, Moved
  <2> QED BY <1>1, <1>2, <1>3, <1>4, <2>1, <2>2, <2>3, <2>4 DEF HostInv, Tells
<1>5. CASE pinned' = cmd.from /\ cmd' = H!Idle /\ outcome' = "unchanged"
  <2>1. ASSUME ~astray, ~replaced
        PROVE  /\ (\A b \in 1 .. taken : Sane(archives[b]))' /\ Point' /\ db' = vol'
               /\ pinned' = Cur' /\ app'.v = pinned' /\ schema' \subseteq H!Schema(pinned')
    BY <1>1, <1>2, <1>5, <2>1 DEF HostInv, HostSound, Rolling, Point, Cur, Sane
  <2> QED BY <1>1, <1>2, <1>3, <1>5, <2>1, EndsSound DEF Tells
<1> QED BY <1>1, <1>4, <1>5

(* The version before is started. *)
LEMMA ActivateStep ==
  ASSUME HostConstants, HostInv, H!activate
  PROVE  HostInv' /\ Tells
<1>1. /\ cmd.pc = "activate" /\ UNCHANGED <<pinned, schema, db, vol, archives, taken, state, replaced>>
      /\ \/ H!UpOk /\ H!Goto("forget") /\ UNCHANGED astray
         \/ H!UpFails /\ cmd' = H!Idle /\ outcome' = "failed" /\ astray' = TRUE
  BY DEF H!activate, H!At, H!Data, H!Fail, H!End
<1>2. app' = [v |-> app'.v, up |-> app'.up] /\ app'.v \in {app.v, pinned} /\ app'.up \in BOOLEAN
  <2>1. H!UpOk => app' = [v |-> app'.v, up |-> app'.up] /\ app'.v = pinned /\ app'.up = TRUE
    BY DEF H!UpOk
  <2>2. H!UpFails => app' = [v |-> app'.v, up |-> app'.up] /\ app'.v \in {app.v, pinned} /\ app'.up \in BOOLEAN
    BY DEF H!UpFails
  <2> QED BY <1>1, <2>1, <2>2
<1>3. StoredTyped'
  BY <1>1, <1>2 DEF HostInv, StoredTyped
<1>4. CASE H!UpOk /\ H!Goto("forget") /\ UNCHANGED astray
  <2>1. Moved("forget") /\ UNCHANGED outcome
        /\ cmd'.failed = cmd.failed /\ cmd'.undo = cmd.undo /\ cmd'.archive = cmd.archive /\ cmd'.snap = cmd.snap
    BY <1>4, Goes DEF HostInv
  <2>2. CmdTyped'
    BY <1>1, <2>1 DEF HostInv, CmdTyped, Moved
  <2>3. HostShape' /\ outcome = "none" /\ cmd.name = "rollback"
    BY <1>1, <2>1 DEF HostInv, HostShape, Moved, Saving, Restoring
  <2>4. app'.v = pinned
    BY <1>4 DEF H!UpOk
  <2>5. ASSUME ~astray, ~replaced PROVE HostSound'
    <3>1. HostSound
      BY <2>5 DEF HostInv
    <3>2. Point' /\ Cur' = Cur
      BY <1>1, <3>1 DEF HostSound, Point, Cur
    <3>3. Backing' /\ Trying' /\ Recovering'
      BY <1>1, <2>1, <2>3 DEF Backing, Trying, Recovering, Moved, Saving, Restoring
    <3>4. Rolling'
      BY <1>1, <2>1, <2>4, <3>1 DEF HostSound, Rolling, Moved
    <3> QED BY <1>1, <2>1, <3>1, <3>2, <3>3, <3>4 DEF HostSound, Sane, Moved
  <2> QED BY <1>1, <1>3, <1>4, <2>1, <2>2, <2>3, <2>5 DEF HostInv, Tells
<1> QED BY <1>1, <1>3, <1>4, Fails

(* The rollback point is used up. *)
LEMMA ForgetStep ==
  ASSUME HostConstants, HostInv, H!forget
  PROVE  HostInv' /\ Tells
<1>1. /\ cmd.pc = "forget" /\ UNCHANGED <<pinned, app, schema, db, vol, archives, taken, replaced>>
      /\ cmd' = H!Idle
      /\ \/ /\ state' = [current |-> cmd.version, prior |-> None, backup |-> 0, migrated |-> FALSE]
            /\ outcome' = "rolled back" /\ UNCHANGED astray
         \/ UNCHANGED state /\ outcome' = "failed" /\ astray' = TRUE
  BY DEF H!forget, H!At, H!Data, H!Fail, H!End
<1>2. cmd.version \in Releases /\ None \notin Releases
  BY <1>1 DEF HostInv, HostShape, HostConstants
<1>3. StoredTyped'
  <2>1. 0 \in 0 .. taken
    BY DEF HostInv, StoredTyped
  <2>2. CASE state' = [current |-> cmd.version, prior |-> None, backup |-> 0, migrated |-> FALSE]
    <3>1. state'.current = cmd.version /\ state'.prior = None /\ state'.backup = 0 /\ state'.migrated = FALSE
      BY <2>2
    <3> QED BY <1>1, <1>2, <2>1, <3>1 DEF HostInv, StoredTyped
  <2>3. CASE UNCHANGED state
    BY <1>1, <2>3 DEF HostInv, StoredTyped
  <2> QED BY <1>1, <2>2, <2>3
<1>4. CASE /\ state' = [current |-> cmd.version, prior |-> None, backup |-> 0, migrated |-> FALSE]
           /\ outcome' = "rolled back" /\ UNCHANGED astray
  <2>1. ASSUME ~astray, ~replaced
        PROVE  /\ (\A b \in 1 .. taken : Sane(archives[b]))' /\ Point' /\ db' = vol'
               /\ pinned' = Cur' /\ app'.v = pinned' /\ schema' \subseteq H!Schema(pinned')
    BY <1>1, <1>2, <1>4, <2>1 DEF HostInv, HostSound, Rolling, Point, Cur, Sane
  <2> QED BY <1>1, <1>3, <1>4, <2>1, EndsSound DEF Tells
<1> QED BY <1>1, <1>3, <1>4, Fails

----------------------------------------------------------------------------
(* Every step of the host keeps the invariant, and what it says is so. *)
LEMMA NextHost == HostConstants /\ HostInv /\ [H!Next]_(H!vars) => HostInv' /\ [Tells]_(H!vars)
<1> SUFFICES ASSUME HostConstants, HostInv, [H!Next]_(H!vars) PROVE HostInv' /\ [Tells]_(H!vars)
  OBVIOUS
<1>1. CASE H!write \/ H!migrate
  BY <1>1, WriteStep, MigrateStep
<1>2. CASE H!killed
  <2>1. StoredTyped' /\ cmd' = H!Idle /\ outcome' = "none" /\ astray' = TRUE
    BY <1>2 DEF H!killed, H!End, H!Data, HostInv, StoredTyped
  <2> QED BY <2>1, Fails
<1>3. CASE \/ \E v \in Releases : H!cmdUpdateApply(v)
           \/ \E b \in 1 .. MaxArchives : H!cmdBackupRestore(b)
           \/ H!cmdBackup \/ H!cmdRollback
  BY <1>3, CommandStep
<1>4. CASE H!quiesce \/ H!dump \/ H!copy \/ H!resume \/ H!assemble
  BY <1>4, QuiesceStep, DumpStep, CopyStep, ResumeStep, AssembleStep
<1>5. CASE H!pin \/ H!pull \/ H!up \/ H!wait \/ H!record
  BY <1>5, PinStep, PullStep, UpStep, WaitStep, RecordStep
<1>6. CASE H!down \/ H!database \/ H!volumes \/ H!env \/ H!start \/ H!ready
  BY <1>6, DownStep, DatabaseStep, VolumesStep, EnvStep, StartStep, ReadyStep
<1>7. CASE H!images \/ H!activate \/ H!forget
  BY <1>7, ImagesStep, ActivateStep, ForgetStep
<1>8. CASE UNCHANGED H!vars
  <2>1. /\ UNCHANGED <<pinned, app, schema, db, vol, archives, taken, state, cmd, outcome, astray, replaced>>
    BY <1>8 DEF H!vars
  <2>2. StoredTyped' /\ CmdTyped'
    BY <2>1 DEF HostInv, StoredTyped, CmdTyped
  <2>3. HostShape'
    BY <2>1 DEF HostInv, HostShape, Saving, Restoring
  <2>4. HostSound => HostSound'
    BY <2>1 DEF HostSound, Point, Cur, Backing, Trying, Recovering, Rolling, Sane, Saving, Restoring
  <2> QED BY <1>8, <2>1, <2>2, <2>3, <2>4 DEF HostInv
<1> QED BY <1>1, <1>2, <1>3, <1>4, <1>5, <1>6, <1>7, <1>8 DEF H!Next

(* Where no command has gone astray, the recorded point can be rolled back to. *)
LEMMA PointUsable ==
  ASSUME HostConstants, HostInv, ~astray, ~replaced
  PROVE  H!RollbackPointUsable
<1> SUFFICES ASSUME cmd = H!Idle, state.prior # None
             PROVE  IF ~state.migrated THEN schema \subseteq H!Schema(state.prior)
                    ELSE state.backup # 0 => archives[state.backup].schema \subseteq H!Schema(state.prior)
  BY DEF H!RollbackPointUsable
<1>1. cmd.pc = "none" /\ HostSound /\ state.prior \in Releases /\ taken \in Nat /\ state.backup \in 0 .. taken
  BY IdleIs DEF HostInv, StoredTyped
<1>2. CASE ~state.migrated
  BY <1>1, <1>2, Schemas DEF HostSound, Point
<1>3. CASE state.migrated /\ state.backup # 0
  <2>1. state.backup \in 1 .. taken
    BY <1>1, <1>3
  <2> QED BY <1>1, <1>3, <2>1 DEF HostSound, Point, Sane
<1> QED BY <1>2, <1>3

(***************************************************************************)
(* What the installer reports is so, for any releases, migrations, writes  *)
(* and archives: a restored prior release is pinned, runs, fits its schema *)
(* and has database and volumes of one moment; an unchanged host is as it  *)
(* was; and a rollback can be made whenever one is offered.                *)
(***************************************************************************)
THEOREM ControlOutcomeIsTrue ==
  ASSUME HostConstants
  PROVE  H!Spec => OutcomeIsTrue
<1>1. HostInv' => (~astray' /\ ~replaced' => H!RollbackPointUsable')
  BY PointUsable, PTL
<1>2. HostInv /\ [H!Next]_(H!vars) =>
         HostInv' /\ [(~astray' /\ ~replaced' => H!RollbackPointUsable') /\ Tells]_(H!vars)
  BY <1>1, NextHost
<1>3. H!Spec => []HostInv
  BY InitHost, NextHost, PTL DEF H!Spec
<1> QED BY <1>2, <1>3, PTL DEF H!Spec, OutcomeIsTrue, H!OutcomeIsTrue, Tells
----------------------------------------------------------------------------
(***************************************************************************)
(* The results of a job, for any number of batches and restarts.           *)
(*                                                                         *)
(* An item that the queue has taken stays on disk until it is accounted    *)
(* for: processed, or refused as that of a stale attempt (Unforgotten).    *)
(* The marker is the last item of its queue, and once it is queued nothing *)
(* else is carried; so when it comes to be uploaded, every batch has been  *)
(* accounted for, and stays so however late the upload is served           *)
(* (MarkerBehind).                                                         *)
(***************************************************************************)
Accounted(i) == ingested[i] > 0 \/ i \in refused

MarkerLast(q) == \A k \in 1 .. Len(q) : q[k] = Q!Marker => k = Len(q)

MarkerBehind ==
    /\ MarkerLast(disk) /\ MarkerLast(outputs)
    /\ Q!Marker \in Q!Range(outputs) => worker = "deliver" /\ reported = "completed"
    /\ Q!Marker \in Q!Range(disk) \cup late \/ ingested[Q!Marker] > 0 => Q!Marker \in durable
    /\ Q!Marker \in durable => Q!Batches \subseteq durable /\ outputs = <<>> /\ worker # "scan"
    /\ Q!Marker \in late \/ ingested[Q!Marker] > 0 => \A i \in Q!Batches : Accounted(i)

Delivered ==
    /\ worker = "scan" => \A i \in Q!Batches : i < next => i \in durable \cup Q!Range(outputs)
    /\ worker = "deliver" /\ reported = "completed" => Q!Items \subseteq durable \cup Q!Range(outputs)
    /\ worker \in {"flush", "report"} /\ reported = "completed" => Q!Items \subseteq durable

Draining ==
    /\ drain = Q!Idle \/ drain = disk
    /\ answer # "none" => drain # Q!Idle /\ drain # <<>>
    /\ answer \in {"accepted", "conflict"} => Accounted(Head(drain))

Unforgotten == \A i \in durable : i \in Q!Range(disk) \/ Accounted(i)

SpoolInv == Q!TypeOK /\ Q!IngestedOnce /\ MarkerBehind /\ Delivered /\ Draining /\ Unforgotten

(* The marker is no batch.                                                 *)
LEMMA MarkerApart ==
  /\ Q!Marker \notin Q!Batches /\ Q!Items = Q!Batches \cup {Q!Marker}
  /\ Q!Batches \subseteq Nat /\ Q!Marker \in Nat
  /\ \A i \in Q!Batches : i < Q!Marker
  /\ \A n \in 1 .. (Chunks + 1) : n = Q!Marker \/ (n \in Q!Batches /\ n + 1 \in 1 .. (Chunks + 1))
BY SpoolConstants DEF Q!Marker, Q!Batches, Q!Items

(* What a queue holds.                                                     *)
LEMMA Appended ==
  ASSUME NEW q \in Seq(Q!Items), NEW i \in Q!Items
  PROVE  /\ Append(q, i) \in Seq(Q!Items) /\ Append(q, i) # <<>>
         /\ Q!Range(Append(q, i)) = Q!Range(q) \cup {i}
         /\ MarkerLast(q) /\ Q!Marker \notin Q!Range(q) => MarkerLast(Append(q, i))
<1> DEFINE r == Append(q, i)
<1>1. /\ r \in Seq(Q!Items) /\ Len(r) = Len(q) + 1 /\ Len(q) \in Nat
      /\ \A k \in 1 .. Len(q) : r[k] = q[k]
      /\ r[Len(q) + 1] = i
  OBVIOUS
<1>2. DOMAIN r = 1 .. (Len(q) + 1) /\ DOMAIN q = 1 .. Len(q)
  BY <1>1
<1> HIDE DEF r
<1>3. r # <<>>
  BY <1>1
<1>4. Q!Range(r) = Q!Range(q) \cup {i}
  <2>1. Q!Range(r) \subseteq Q!Range(q) \cup {i}
    <3> SUFFICES ASSUME NEW k \in 1 .. (Len(q) + 1) PROVE r[k] \in Q!Range(q) \cup {i}
      BY <1>2 DEF Q!Range
    <3>1. k \in 1 .. Len(q) \/ k = Len(q) + 1
      BY <1>1
    <3> QED BY <1>1, <1>2, <3>1 DEF Q!Range
  <2>2. \A k \in 1 .. Len(q) : k \in DOMAIN r
    BY <1>1, <1>2
  <2>3. Q!Range(q) \subseteq Q!Range(r)
    BY <1>1, <1>2, <2>2 DEF Q!Range
  <2>4. i \in Q!Range(r)
    <3>1. Len(q) + 1 \in DOMAIN r
      BY <1>1, <1>2
    <3> QED BY <1>1, <3>1 DEF Q!Range
  <2> QED BY <2>1, <2>3, <2>4
<1>5. ASSUME MarkerLast(q), Q!Marker \notin Q!Range(q) PROVE MarkerLast(r)
  <2> SUFFICES ASSUME NEW k \in 1 .. Len(r), r[k] = Q!Marker PROVE k = Len(r)
    BY DEF MarkerLast
  <2>1. k \in 1 .. Len(q) => q[k] \in Q!Range(q) /\ r[k] = q[k]
    BY <1>1, <1>2 DEF Q!Range
  <2> QED BY <1>1, <1>5, <2>1
<1> QED BY <1>1, <1>3, <1>4, <1>5 DEF r

LEMMA Shortened ==
  ASSUME NEW q \in Seq(Q!Items), q # <<>>
  PROVE  /\ Head(q) \in Q!Items /\ Tail(q) \in Seq(Q!Items)
         /\ Q!Range(q) = Q!Range(Tail(q)) \cup {Head(q)}
         /\ MarkerLast(q) => MarkerLast(Tail(q))
         /\ MarkerLast(q) /\ Head(q) = Q!Marker => Tail(q) = <<>> /\ Q!Range(q) = {Q!Marker}
         /\ Q!Range(<<>>) = {}
<1> DEFINE r == Tail(q)
<1>1. /\ r \in Seq(Q!Items) /\ Len(r) = Len(q) - 1 /\ Head(q) \in Q!Items
      /\ \A k \in 1 .. Len(r) : r[k] = q[k + 1]
  OBVIOUS
<1>2. Len(q) \in Nat \ {0} /\ Head(q) = q[1]
  OBVIOUS
<1>3. DOMAIN r = 1 .. Len(r) /\ DOMAIN q = 1 .. Len(q)
  BY <1>1
<1> HIDE DEF r
<1>4. Q!Range(q) = Q!Range(r) \cup {Head(q)}
  <2>1. Q!Range(q) \subseteq Q!Range(r) \cup {Head(q)}
    <3> SUFFICES ASSUME NEW k \in 1 .. Len(q) PROVE q[k] \in Q!Range(r) \cup {Head(q)}
      BY <1>3 DEF Q!Range
    <3>1. CASE k = 1
      BY <1>2, <3>1
    <3>2. CASE k # 1
      <4>1. k - 1 \in 1 .. Len(r) /\ (k - 1) + 1 = k
        BY <1>1, <1>2, <3>2
      <4>2. r[k - 1] = q[k]
        BY <1>1, <4>1
      <4> QED BY <1>3, <4>1, <4>2 DEF Q!Range
    <3> QED BY <3>1, <3>2
  <2>2. \A k \in 1 .. Len(r) : k + 1 \in 1 .. Len(q)
    BY <1>1, <1>2
  <2>3. Q!Range(r) \subseteq Q!Range(q)
    <3> SUFFICES ASSUME NEW k \in 1 .. Len(r) PROVE r[k] \in Q!Range(q)
      BY <1>3 DEF Q!Range
    <3> QED BY <1>1, <1>3, <2>2 DEF Q!Range
  <2>4. Head(q) \in Q!Range(q)
    BY <1>2, <1>3 DEF Q!Range
  <2> QED BY <2>1, <2>3, <2>4
<1>5. ASSUME MarkerLast(q) PROVE MarkerLast(r)
  <2> SUFFICES ASSUME NEW k \in 1 .. Len(r), r[k] = Q!Marker PROVE k = Len(r)
    BY DEF MarkerLast
  <2>1. k + 1 \in 1 .. Len(q) /\ q[k + 1] = Q!Marker
    BY <1>1, <1>2
  <2>2. k + 1 = Len(q)
    BY <1>5, <2>1 DEF MarkerLast
  <2> QED BY <1>1, <1>2, <2>2
<1>6. Q!Range(<<>>) = {}
  BY DEF Q!Range
<1>7. ASSUME MarkerLast(q), Head(q) = Q!Marker PROVE r = <<>>
  <2>1. 1 \in 1 .. Len(q) /\ q[1] = Q!Marker
    BY <1>2, <1>7
  <2>2. 1 = Len(q)
    BY <1>7, <2>1 DEF MarkerLast
  <2>3. Len(r) = 0
    BY <1>1, <2>2
  <2> QED BY <1>1, <2>3
<1> QED BY <1>1, <1>4, <1>5, <1>6, <1>7 DEF r

(* A Scout that starts scans, and nothing is queued.                       *)
LEMMA InitSpool == Q!Init => SpoolInv
<1> SUFFICES ASSUME Q!Init PROVE SpoolInv
  OBVIOUS
<1>1. Q!Range(<<>>) = {} /\ MarkerLast(<<>>)
  BY DEF Q!Range, MarkerLast
<1>2. Q!TypeOK
  BY SpoolConstants DEF Q!Init, Q!TypeOK, Q!Idle
<1>3. Q!IngestedOnce /\ ingested[Q!Marker] = 0
  BY MarkerApart DEF Q!Init, Q!IngestedOnce
<1>4. \A i \in Q!Batches : ~(i < next)
  BY SpoolConstants DEF Q!Init, Q!Batches
<1> QED BY <1>1, <1>2, <1>3, <1>4 DEF SpoolInv, MarkerBehind, Delivered, Draining, Unforgotten, Q!Init

(* While items are processed, what was accounted for stays so.             *)
LEMMA StaysAccounted ==
  ASSUME Q!TypeOK, NEW i \in Q!Items, Q!Process(i)
  PROVE  /\ ingested' \in [Q!Items -> Nat] /\ refused' \subseteq Q!Items
         /\ \A j \in Q!Items : Accounted(j) => Accounted(j)'
         /\ \A j \in Q!Items \ {i} : ingested'[j] = ingested[j]
         /\ Q!IngestedOnce => Q!IngestedOnce'
         /\ Q!Verdict(i) \in {"accepted", "conflict"} => Accounted(i)'
<1>1. ingested \in [Q!Items -> Nat] /\ refused \subseteq Q!Items
  BY DEF Q!TypeOK
<1>2. CASE Q!Verdict(i) = "accepted" /\ ingested[i] = 0
  <2>1. ingested' = [ingested EXCEPT ![i] = 1] /\ refused' = refused
    BY <1>1, <1>2 DEF Q!Process
  <2> QED BY <1>1, <2>1 DEF Accounted, Q!IngestedOnce
<1>3. CASE ~(Q!Verdict(i) = "accepted" /\ ingested[i] = 0)
  <2>1. ingested' = ingested /\ refused \subseteq refused' /\ refused' \subseteq Q!Items
    BY <1>1, <1>3 DEF Q!Process
  <2>2. Q!Verdict(i) = "conflict" => i \in refused'
    BY DEF Q!Process
  <2>3. ingested[i] \in Nat
    BY <1>1
  <2> QED BY <1>1, <1>3, <2>1, <2>2, <2>3 DEF Accounted, Q!IngestedOnce
<1> QED BY <1>2, <1>3

(* The worker queues an item, or carries it on.                            *)
LEMMA DeliverStep ==
  ASSUME SpoolInv, Q!Deliver
  PROVE  SpoolInv'
<1>1. /\ worker = "scan" /\ next \in Q!Batches /\ drain = Q!Idle /\ next' = next + 1
      /\ reported' \in {reported, "failed"}
      /\ UNCHANGED <<invalid, worker, drain, answer, late, attempt, ingested, refused, restarts>>
  BY DEF Q!Deliver, Q!Unlocked
<1>2. /\ next \in Q!Items /\ next # Q!Marker /\ Q!Marker \notin durable
      /\ Q!Marker \notin Q!Range(disk) /\ Q!Marker \notin Q!Range(outputs)
      /\ disk \in Seq(Q!Items) /\ outputs \in Seq(Q!Items) /\ durable \subseteq Q!Items
      /\ answer = "none"
  BY <1>1, MarkerApart DEF SpoolInv, MarkerBehind, Draining, Q!TypeOK
<1>3. /\ disk' \in Seq(Q!Items) /\ outputs' \in Seq(Q!Items)
      /\ MarkerLast(disk)' /\ MarkerLast(outputs)'
      /\ durable \subseteq durable' /\ durable' \subseteq durable \cup {next}
      /\ Q!Range(disk)' \subseteq Q!Range(disk) \cup {next} /\ Q!Range(disk) \subseteq Q!Range(disk)'
      /\ Q!Range(outputs)' \subseteq Q!Range(outputs) \cup {next} /\ Q!Range(outputs) \subseteq Q!Range(outputs)'
      /\ next \in durable' => next \in durable \/ next \in Q!Range(disk)'
      /\ next \in durable' \/ next \in Q!Range(outputs)'
  <2>1. CASE Q!Enqueue(next) /\ UNCHANGED outputs
    <3>1. disk' = Append(disk, next) /\ durable' = durable \cup {next} /\ outputs' = outputs
      BY <2>1 DEF Q!Enqueue
    <3>2. Q!Range(disk)' = Q!Range(disk') /\ Q!Range(outputs)' = Q!Range(outputs')
            /\ MarkerLast(disk)' = MarkerLast(disk') /\ MarkerLast(outputs)' = MarkerLast(outputs')
      BY DEF Q!Range, MarkerLast, Q!Marker
    <3> QED BY <1>2, <3>1, <3>2, Appended DEF SpoolInv, MarkerBehind
  <2>2. CASE outputs' = Append(outputs, next) /\ UNCHANGED <<disk, durable>>
    <3>2. Q!Range(disk)' = Q!Range(disk') /\ Q!Range(outputs)' = Q!Range(outputs')
            /\ MarkerLast(disk)' = MarkerLast(disk') /\ MarkerLast(outputs)' = MarkerLast(outputs')
      BY DEF Q!Range, MarkerLast, Q!Marker
    <3> QED BY <1>2, <2>2, <3>2, Appended DEF SpoolInv, MarkerBehind
  <2> QED BY <2>1, <2>2 DEF Q!Deliver
<1>4. Q!TypeOK'
  <2>1. next' \in 1 .. (Chunks + 1)
    BY <1>1, MarkerApart DEF SpoolInv, Q!TypeOK
  <2>2. durable' \subseteq Q!Items
    BY <1>2, <1>3
  <2> QED BY <1>1, <1>3, <2>1, <2>2 DEF SpoolInv, Q!TypeOK
<1>5. Q!IngestedOnce' /\ Draining'
  BY <1>1, <1>2 DEF SpoolInv, Draining, Q!IngestedOnce
<1>6. Unforgotten'
  BY <1>1, <1>3 DEF SpoolInv, Unforgotten, Accounted
<1>7. Delivered'
  <2>1. ASSUME NEW i \in Q!Batches, i < next' PROVE i \in durable' \cup Q!Range(outputs)'
    <3>1. i < next \/ i = next
      BY <1>1, <2>1, MarkerApart
    <3> QED BY <1>1, <1>3, <3>1 DEF SpoolInv, Delivered
  <2> QED BY <1>1, <2>1 DEF Delivered
<1>8. MarkerBehind'
  BY <1>1, <1>2, <1>3 DEF SpoolInv, MarkerBehind, Accounted
<1> QED BY <1>4, <1>5, <1>6, <1>7, <1>8 DEF SpoolInv
(* A primed queue is the queue after the step.                             *)
LEMMA Primed ==
  /\ Q!Range(disk)' = Q!Range(disk') /\ Q!Range(outputs)' = Q!Range(outputs')
  /\ MarkerLast(disk)' = MarkerLast(disk') /\ MarkerLast(outputs)' = MarkerLast(outputs')
BY DEF Q!Range, MarkerLast, Q!Marker

(* The marker follows all batches, in the queue or among what is carried.  *)
LEMMA CompleteStep ==
  ASSUME SpoolInv, Q!Complete
  PROVE  SpoolInv'
<1>1. /\ worker = "scan" /\ next = Q!Marker /\ drain = Q!Idle
      /\ worker' = "deliver" /\ reported' = "completed"
      /\ UNCHANGED <<invalid, next, drain, answer, late, attempt, ingested, refused, restarts>>
  BY DEF Q!Complete, Q!Unlocked
<1>2. /\ Q!Marker \notin durable /\ Q!Marker \notin late /\ ~(ingested[Q!Marker] > 0)
      /\ Q!Marker \notin Q!Range(disk) /\ Q!Marker \notin Q!Range(outputs)
      /\ disk \in Seq(Q!Items) /\ outputs \in Seq(Q!Items) /\ durable \subseteq Q!Items
      /\ answer = "none" /\ Q!Marker \in Q!Items
  BY <1>1, MarkerApart DEF SpoolInv, MarkerBehind, Draining, Q!TypeOK
<1>3. \A i \in Q!Batches : i \in durable \cup Q!Range(outputs)
  BY <1>1, MarkerApart DEF SpoolInv, Delivered
<1>4. CASE outputs = <<>> /\ Q!Enqueue(Q!Marker) /\ UNCHANGED outputs
  <2>1. disk' = Append(disk, Q!Marker) /\ durable' = durable \cup {Q!Marker} /\ outputs' = <<>>
    BY <1>4 DEF Q!Enqueue
  <2>2. /\ disk' \in Seq(Q!Items) /\ MarkerLast(disk)' /\ MarkerLast(outputs)'
        /\ Q!Range(disk)' = Q!Range(disk) \cup {Q!Marker} /\ Q!Range(outputs)' = {}
    BY <1>2, <1>4, <2>1, Appended, Primed DEF SpoolInv, MarkerBehind, Q!Range
  <2>3. Q!Items \subseteq durable'
    <3>1. Q!Range(outputs) = {}
      BY <1>4 DEF Q!Range
    <3> QED BY <1>3, <2>1, <3>1, MarkerApart
  <2>4. Q!TypeOK'
    BY <1>1, <1>2, <2>1, <2>2, <2>3 DEF SpoolInv, Q!TypeOK
  <2>5. Q!IngestedOnce' /\ Draining'
    BY <1>1, <1>2 DEF SpoolInv, Draining, Q!IngestedOnce
  <2>6. Unforgotten'
    BY <1>1, <2>1, <2>2 DEF SpoolInv, Unforgotten, Accounted
  <2>7. Delivered'
    BY <1>1, <2>3 DEF Delivered
  <2>8. MarkerBehind'
    BY <1>1, <1>2, <2>1, <2>2, <2>3, MarkerApart DEF MarkerBehind
  <2> QED BY <2>4, <2>5, <2>6, <2>7, <2>8 DEF SpoolInv
<1>5. CASE outputs' = Append(outputs, Q!Marker) /\ UNCHANGED <<disk, durable>>
  <2>1. /\ outputs' \in Seq(Q!Items) /\ MarkerLast(disk)' /\ MarkerLast(outputs)'
        /\ Q!Range(outputs)' = Q!Range(outputs) \cup {Q!Marker} /\ Q!Range(disk)' = Q!Range(disk)
    BY <1>2, <1>5, Appended, Primed DEF SpoolInv, MarkerBehind
  <2>2. Q!Items \subseteq durable' \cup Q!Range(outputs)'
    BY <1>3, <1>5, <2>1, MarkerApart
  <2>3. Q!TypeOK'
    BY <1>1, <1>5, <2>1 DEF SpoolInv, Q!TypeOK
  <2>4. Q!IngestedOnce' /\ Draining'
    BY <1>1, <1>2 DEF SpoolInv, Draining, Q!IngestedOnce
  <2>5. Unforgotten'
    BY <1>1, <1>5, <2>1 DEF SpoolInv, Unforgotten, Accounted
  <2>6. Delivered'
    BY <1>1, <2>2 DEF Delivered
  <2>7. MarkerBehind'
    BY <1>1, <1>2, <1>5, <2>1 DEF MarkerBehind
  <2> QED BY <2>3, <2>4, <2>5, <2>6, <2>7 DEF SpoolInv
<1> QED BY <1>4, <1>5 DEF Q!Complete

(* What was carried is queued, or the job fails.                           *)
LEMMA FinalizeStep ==
  ASSUME SpoolInv, Q!Finalize
  PROVE  SpoolInv'
<1>1. /\ worker = "deliver" /\ drain = Q!Idle /\ outputs # <<>>
      /\ UNCHANGED <<invalid, next, drain, answer, late, attempt, ingested, refused, restarts>>
  BY DEF Q!Finalize, Q!Unlocked
<1>2. PICK i : i = Head(outputs)
  OBVIOUS
<1>3. /\ Q!Marker \notin durable /\ Q!Marker \notin late /\ ~(ingested[Q!Marker] > 0)
      /\ Q!Marker \notin Q!Range(disk) /\ answer = "none"
      /\ disk \in Seq(Q!Items) /\ outputs \in Seq(Q!Items) /\ durable \subseteq Q!Items
  BY <1>1 DEF SpoolInv, MarkerBehind, Draining, Q!TypeOK
<1>4. /\ i \in Q!Items /\ Tail(outputs) \in Seq(Q!Items)
      /\ Q!Range(outputs) = Q!Range(Tail(outputs)) \cup {i} /\ MarkerLast(Tail(outputs))
      /\ i = Q!Marker => Tail(outputs) = <<>> /\ Q!Range(outputs) = {Q!Marker}
  BY <1>1, <1>2, <1>3, Shortened DEF SpoolInv, MarkerBehind
<1>5. CASE Q!Enqueue(i) /\ outputs' = Tail(outputs) /\ UNCHANGED <<worker, reported>>
  <2>1. disk' = Append(disk, i) /\ durable' = durable \cup {i}
    BY <1>5 DEF Q!Enqueue
  <2>2. /\ disk' \in Seq(Q!Items) /\ MarkerLast(disk)' /\ MarkerLast(outputs)'
        /\ Q!Range(disk)' = Q!Range(disk) \cup {i} /\ Q!Range(outputs)' = Q!Range(Tail(outputs))
    BY <1>3, <1>4, <1>5, <2>1, Appended, Primed DEF SpoolInv, MarkerBehind
  <2>3. Q!TypeOK'
    BY <1>1, <1>3, <1>4, <1>5, <2>1, <2>2 DEF SpoolInv, Q!TypeOK
  <2>4. Q!IngestedOnce' /\ Draining'
    BY <1>1, <1>3 DEF SpoolInv, Draining, Q!IngestedOnce
  <2>5. Unforgotten'
    BY <1>1, <2>1, <2>2 DEF SpoolInv, Unforgotten, Accounted
  <2>6. Delivered'
    BY <1>1, <1>4, <1>5, <2>1, <2>2 DEF SpoolInv, Delivered
  <2>7. Q!Marker \in durable' => Q!Batches \subseteq durable' /\ outputs' = <<>>
    <3> SUFFICES ASSUME Q!Marker \in durable' PROVE Q!Batches \subseteq durable' /\ outputs' = <<>>
      OBVIOUS
    <3>1. i = Q!Marker
      BY <1>3, <2>1
    <3>2. Q!Items \subseteq durable \cup {Q!Marker}
      BY <1>1, <1>4, <3>1 DEF SpoolInv, Delivered, MarkerBehind
    <3> QED BY <1>4, <1>5, <2>1, <3>1, <3>2, MarkerApart
  <2>8. MarkerBehind'
    BY <1>1, <1>3, <1>4, <1>5, <2>1, <2>2, <2>7 DEF SpoolInv, MarkerBehind
  <2> QED BY <2>3, <2>4, <2>5, <2>6, <2>8 DEF SpoolInv
<1>6. CASE outputs' = <<>> /\ worker' = "report" /\ reported' = "failed" /\ UNCHANGED <<disk, durable>>
  <2>1. Q!Range(outputs)' = {} /\ MarkerLast(outputs)' /\ Q!Range(disk)' = Q!Range(disk) /\ MarkerLast(disk)'
    BY <1>6, Primed DEF Q!Range, MarkerLast, SpoolInv, MarkerBehind
  <2>2. Q!TypeOK'
    BY <1>1, <1>6 DEF SpoolInv, Q!TypeOK
  <2>3. Q!IngestedOnce' /\ Draining' /\ Unforgotten' /\ Delivered'
    BY <1>1, <1>3, <1>6, <2>1 DEF SpoolInv, Draining, Q!IngestedOnce, Unforgotten, Accounted, Delivered
  <2>4. MarkerBehind'
    BY <1>1, <1>3, <1>6, <2>1 DEF MarkerBehind
  <2> QED BY <2>2, <2>3, <2>4 DEF SpoolInv
<1> QED BY <1>2, <1>5, <1>6 DEF Q!Finalize
(* The item in upload is the first on disk; with the marker first there,   *)
(* every batch is accounted for.                                           *)
LEMMA InUpload ==
  ASSUME SpoolInv, answer # "none"
  PROVE  /\ drain = disk /\ disk # <<>> /\ disk \in Seq(Q!Items) /\ Head(drain) \in Q!Items
         /\ Head(drain) = Q!Marker => Q!Marker \in durable /\ \A i \in Q!Batches : Accounted(i)
<1>1. drain = disk /\ disk # <<>> /\ disk \in Seq(Q!Items) /\ MarkerLast(disk)
  BY DEF SpoolInv, Draining, MarkerBehind, Q!TypeOK
<1>2. Head(disk) \in Q!Items /\ (Head(disk) = Q!Marker => Q!Range(disk) = {Q!Marker})
  BY <1>1, Shortened
<1>3. ASSUME Head(disk) = Q!Marker PROVE Q!Marker \in durable /\ \A i \in Q!Batches : Accounted(i)
  <2>1. Q!Marker \in durable /\ Q!Batches \subseteq durable
    BY <1>2, <1>3 DEF SpoolInv, MarkerBehind
  <2> QED BY <1>2, <1>3, <2>1, MarkerApart DEF SpoolInv, Unforgotten
<1> QED BY <1>1, <1>2, <1>3

(* Steps that neither queue nor process an item; one may be given up.      *)
LEMMA StillStep ==
  ASSUME SpoolInv, Q!TypeOK', UNCHANGED <<disk, ingested, durable, refused>>,
         outputs' = outputs \/ outputs' = <<>>,
         late' = late \/ (answer = "waiting" /\ late' = late \cup {Head(drain)}),
         worker' = "scan" => worker = "scan",
         Q!Marker \in Q!Range(outputs)' => worker' = "deliver" /\ reported' = "completed",
         Delivered', Draining'
  PROVE  SpoolInv'
<1>1. Q!Range(<<>>) = {} /\ MarkerLast(<<>>)
  BY DEF Q!Range, MarkerLast
<1>2. MarkerLast(disk)' /\ MarkerLast(outputs)' /\ Q!Range(disk)' = Q!Range(disk)
  BY <1>1, Primed DEF SpoolInv, MarkerBehind
<1>3. Q!IngestedOnce' /\ Unforgotten'
  BY <1>2 DEF SpoolInv, Q!IngestedOnce, Unforgotten, Accounted
<1>4. Q!Marker \in late' => Q!Marker \in durable /\ \A i \in Q!Batches : Accounted(i)
  BY InUpload DEF SpoolInv, MarkerBehind
<1>5. MarkerBehind'
  BY <1>2, <1>4 DEF SpoolInv, MarkerBehind, Accounted
<1> QED BY <1>3, <1>5 DEF SpoolInv

(* The worker: it stops carrying, drains once more and reports.            *)
LEMMA WorkerSteps ==
  ASSUME SpoolInv, Q!StageFailed \/ Q!Cancelled \/ Q!FinalDrain \/ Q!ReportTerminal
  PROVE  SpoolInv'
<1>1. CASE Q!StageFailed
  <2>1. /\ worker = "scan" /\ worker' = "deliver" /\ reported' = "failed"
        /\ UNCHANGED <<invalid, disk, next, outputs, drain, answer, late, attempt, ingested, durable, refused, restarts>>
    BY <1>1 DEF Q!StageFailed
  <2>2. Q!TypeOK' /\ Delivered' /\ Draining'
    BY <2>1 DEF SpoolInv, Q!TypeOK, Delivered, Draining, Accounted
  <2>3. Q!Marker \notin Q!Range(outputs)'
    BY <2>1, Primed DEF SpoolInv, MarkerBehind
  <2> QED BY <2>1, <2>2, <2>3, StillStep
<1>2. CASE Q!Cancelled
  <2>1. /\ worker' = "report" /\ reported' = "cancelled" /\ outputs' = <<>>
        /\ UNCHANGED <<invalid, disk, next, drain, answer, late, attempt, ingested, durable, refused, restarts>>
    BY <1>2 DEF Q!Cancelled
  <2>2. Q!TypeOK' /\ Delivered' /\ Draining'
    BY <2>1 DEF SpoolInv, Q!TypeOK, Delivered, Draining, Accounted
  <2>3. Q!Marker \notin Q!Range(outputs)'
    BY <2>1, Primed DEF Q!Range
  <2> QED BY <2>1, <2>2, <2>3, StillStep
<1>3. CASE Q!FinalDrain
  <2>1. /\ worker = "deliver" /\ drain = Q!Idle /\ outputs = <<>> /\ worker' = "flush" /\ drain' = disk
        /\ UNCHANGED <<invalid, disk, next, outputs, reported, answer, late, attempt, ingested, durable, refused, restarts>>
    BY <1>3 DEF Q!FinalDrain, Q!Unlocked
  <2>2. Q!Range(outputs) = {}
    BY <2>1 DEF Q!Range
  <2>3. Q!TypeOK' /\ Delivered' /\ Draining'
    BY <2>1, <2>2 DEF SpoolInv, Q!TypeOK, Delivered, Draining, Accounted
  <2>4. Q!Marker \notin Q!Range(outputs)'
    BY <2>1, <2>2, Primed
  <2> QED BY <2>1, <2>3, <2>4, StillStep
<1>4. CASE Q!ReportTerminal
  <2>1. /\ worker = "report" /\ worker' = "idle" /\ attempt' = "closed"
        /\ UNCHANGED <<invalid, disk, next, outputs, reported, drain, answer, late, ingested, durable, refused, restarts>>
    BY <1>4 DEF Q!ReportTerminal
  <2>2. Q!TypeOK' /\ Delivered' /\ Draining'
    BY <2>1 DEF SpoolInv, Q!TypeOK, Delivered, Draining, Accounted
  <2>3. Q!Marker \notin Q!Range(outputs)'
    BY <2>1, Primed DEF SpoolInv, MarkerBehind
  <2> QED BY <2>1, <2>2, <2>3, StillStep
<1> QED BY <1>1, <1>2, <1>3, <1>4

(* A drain that ends leaves on disk what it has not uploaded.              *)
LEMMA EndDrainStep ==
  ASSUME SpoolInv, Q!EndDrain, UNCHANGED <<invalid, disk, next, outputs, reported, attempt, ingested, durable, refused, restarts>>,
         late' = late \/ (answer = "waiting" /\ late' = late \cup {Head(drain)})
  PROVE  SpoolInv'
<1>1. drain' = Q!Idle /\ answer' = "none" /\ worker' = IF worker = "flush" THEN "report" ELSE worker
  BY DEF Q!EndDrain
<1>2. late' \subseteq Q!Items
  BY InUpload DEF SpoolInv, Q!TypeOK
<1>3. Q!TypeOK' /\ Draining'
  BY <1>1, <1>2 DEF SpoolInv, Q!TypeOK, Draining
<1>4. Delivered'
  BY <1>1, Primed DEF SpoolInv, Delivered
<1>5. Q!Marker \in Q!Range(outputs)' => worker' = "deliver" /\ reported' = "completed"
  BY <1>1, Primed DEF SpoolInv, MarkerBehind
<1> QED BY <1>1, <1>3, <1>4, <1>5, StillStep

(* The item that was answered goes from the disk.                          *)
LEMMA UploadedStep ==
  ASSUME SpoolInv, Q!Uploaded
  PROVE  SpoolInv'
<1>1. /\ answer \in {"accepted", "conflict"} /\ disk' = Tail(disk) /\ drain' = Tail(drain) /\ answer' = "none"
      /\ UNCHANGED <<invalid, worker, next, outputs, reported, late, attempt, ingested, durable, refused, restarts>>
  BY DEF Q!Uploaded
<1>2. drain = disk /\ disk # <<>> /\ disk \in Seq(Q!Items) /\ Accounted(Head(disk)) /\ MarkerLast(disk)
  BY <1>1, InUpload DEF SpoolInv, Draining, MarkerBehind
<1>3. /\ Tail(disk) \in Seq(Q!Items) /\ MarkerLast(Tail(disk))
      /\ Q!Range(disk) = Q!Range(Tail(disk)) \cup {Head(disk)}
  BY <1>2, Shortened
<1>4. Q!TypeOK' /\ Q!IngestedOnce' /\ Draining'
  BY <1>1, <1>2, <1>3 DEF SpoolInv, Q!TypeOK, Q!IngestedOnce, Draining
<1>5. Unforgotten'
  BY <1>1, <1>2, <1>3, Primed DEF SpoolInv, Unforgotten, Accounted
<1>6. Delivered'
  BY <1>1, Primed DEF SpoolInv, Delivered
<1>7. MarkerBehind'
  BY <1>1, <1>3, Primed DEF SpoolInv, MarkerBehind, Accounted
<1> QED BY <1>4, <1>5, <1>6, <1>7 DEF SpoolInv

(* The steps of a drain, and a restart in the middle of one.               *)
LEMMA DrainSteps ==
  ASSUME SpoolInv, Q!Drainer \/ Q!Restart
  PROVE  SpoolInv'
<1>1. CASE Q!DrainQueue
  <2>1. /\ drain = Q!Idle /\ drain' = disk
        /\ UNCHANGED <<invalid, disk, worker, next, outputs, reported, answer, late, attempt, ingested, durable, refused, restarts>>
    BY <1>1 DEF Q!DrainQueue, Q!Unlocked
  <2>2. Q!TypeOK' /\ Delivered' /\ Draining'
    BY <2>1, Primed DEF SpoolInv, Q!TypeOK, Delivered, Draining
  <2>3. Q!Marker \in Q!Range(outputs)' => worker' = "deliver" /\ reported' = "completed"
    BY <2>1, Primed DEF SpoolInv, MarkerBehind
  <2> QED BY <2>1, <2>2, <2>3, StillStep
<1>2. CASE Q!UploadItem
  <2>1. /\ drain # Q!Idle /\ drain # <<>> /\ answer' = "waiting"
        /\ UNCHANGED <<invalid, disk, worker, next, outputs, reported, drain, late, attempt, ingested, durable, refused, restarts>>
    BY <1>2 DEF Q!UploadItem, Q!Unlocked
  <2>2. Q!TypeOK' /\ Delivered' /\ Draining'
    BY <2>1, Primed DEF SpoolInv, Q!TypeOK, Delivered, Draining
  <2>3. Q!Marker \in Q!Range(outputs)' => worker' = "deliver" /\ reported' = "completed"
    BY <2>1, Primed DEF SpoolInv, MarkerBehind
  <2> QED BY <2>1, <2>2, <2>3, StillStep
<1>3. CASE Q!DrainDone \/ Q!UploadFails \/ Q!UploadRefused
  BY <1>3, EndDrainStep DEF Q!DrainDone, Q!UploadFails, Q!UploadRefused
<1>4. CASE Q!Restart
  <2>1. /\ worker' = "idle" /\ outputs' = <<>> /\ reported' = "none" /\ drain' = Q!Idle /\ answer' = "none"
        /\ restarts < MaxRestarts /\ restarts' = restarts + 1
        /\ late' = late \/ (answer = "waiting" /\ late' = late \cup {Head(drain)})
        /\ UNCHANGED <<invalid, disk, next, attempt, ingested, durable, refused>>
    BY <1>4 DEF Q!Restart
  <2>2. late' \subseteq Q!Items
    BY <2>1, InUpload DEF SpoolInv, Q!TypeOK
  <2>3. restarts' \in 0 .. MaxRestarts
    BY <2>1, SpoolConstants DEF SpoolInv, Q!TypeOK
  <2>4. Q!TypeOK' /\ Delivered' /\ Draining'
    BY <2>1, <2>2, <2>3 DEF SpoolInv, Q!TypeOK, Delivered, Draining
  <2>5. Q!Marker \notin Q!Range(outputs)'
    BY <2>1, Primed DEF Q!Range
  <2> QED BY <2>1, <2>4, <2>5, StillStep
<1> QED BY <1>1, <1>2, <1>3, <1>4, UploadedStep DEF Q!Drainer

(* The server processes an item that is in upload, or was given up.        *)
LEMMA ProcessStep ==
  ASSUME SpoolInv, NEW i \in Q!Items, Q!Process(i), late' \subseteq late,
         i = Q!Marker => Q!Marker \in durable /\ \A j \in Q!Batches : Accounted(j),
         answer' # "none" => answer # "none" /\ (answer' = answer \/ (i = Head(drain) /\ answer' = Q!Verdict(i))),
         answer' \in {"none", "waiting", "accepted", "conflict", "invalid"},
         UNCHANGED <<invalid, disk, worker, next, outputs, reported, drain, restarts, attempt, durable>>
  PROVE  SpoolInv'
<1>1. /\ ingested' \in [Q!Items -> Nat] /\ refused' \subseteq Q!Items
      /\ \A j \in Q!Items : Accounted(j) => Accounted(j)'
      /\ \A j \in Q!Items \ {i} : ingested'[j] = ingested[j]
      /\ Q!IngestedOnce'
      /\ Q!Verdict(i) \in {"accepted", "conflict"} => Accounted(i)'
  BY StaysAccounted DEF SpoolInv
<1>2. Q!TypeOK'
  BY <1>1 DEF SpoolInv, Q!TypeOK
<1>3. Q!Range(disk)' = Q!Range(disk) /\ Q!Range(outputs)' = Q!Range(outputs)
        /\ MarkerLast(disk)' /\ MarkerLast(outputs)'
  BY Primed DEF SpoolInv, MarkerBehind
<1>4. Unforgotten'
  BY <1>1, <1>3 DEF SpoolInv, Unforgotten, Q!TypeOK
<1>5. Delivered'
  BY <1>3 DEF SpoolInv, Delivered
<1>6. Draining'
  <2>1. ASSUME answer' \in {"accepted", "conflict"} PROVE Accounted(Head(drain))'
    <3>1. Head(drain) \in Q!Items /\ Head(drain)' = Head(drain)
      BY <2>1, InUpload
    <3>2. Accounted(Head(drain)) => Accounted(Head(drain))'
      BY <1>1, <3>1 DEF Accounted
    <3>3. CASE answer' = answer
      BY <2>1, <3>2, <3>3 DEF SpoolInv, Draining
    <3>4. CASE i = Head(drain) /\ answer' = Q!Verdict(i)
      BY <1>1, <2>1, <3>1, <3>4 DEF Accounted
    <3> QED BY <2>1, <3>3, <3>4
  <2> QED BY <2>1 DEF SpoolInv, Draining
<1>7. ingested'[Q!Marker] > 0 => Q!Marker \in durable /\ \A j \in Q!Batches : Accounted(j)
  BY <1>1, MarkerApart DEF SpoolInv, MarkerBehind
<1>8. MarkerBehind'
  BY <1>1, <1>3, <1>7, MarkerApart DEF SpoolInv, MarkerBehind
<1> QED BY <1>1, <1>2, <1>4, <1>5, <1>6, <1>8 DEF SpoolInv

(* What the queue takes stays or is accounted for, and the marker is last, *)
(* in every state.                                                         *)
LEMMA SpoolInvariant == Q!Spec => []SpoolInv
<1>1. SpoolInv /\ [Q!Next]_(Q!vars) => SpoolInv'
  <2> SUFFICES ASSUME SpoolInv, [Q!Next]_(Q!vars) PROVE SpoolInv'
    OBVIOUS
  <2>1. CASE Q!Worker
    BY <2>1, DeliverStep, CompleteStep, FinalizeStep, WorkerSteps DEF Q!Worker
  <2>2. CASE Q!Drainer \/ Q!Restart
    BY <2>2, DrainSteps
  <2>3. CASE Q!Serve
    <3>1. /\ answer = "waiting" /\ Q!Process(Head(drain)) /\ answer' = Q!Verdict(Head(drain))
          /\ UNCHANGED <<invalid, disk, worker, next, outputs, reported, drain, restarts, late, attempt, durable>>
      BY <2>3 DEF Q!Serve
    <3>2. answer' \in {"accepted", "conflict", "invalid"}
      BY <3>1 DEF Q!Verdict
    <3>3. /\ Head(drain) \in Q!Items
          /\ Head(drain) = Q!Marker => Q!Marker \in durable /\ \A j \in Q!Batches : Accounted(j)
      BY <3>1, InUpload
    <3> QED BY <3>1, <3>2, <3>3, ProcessStep
  <2>4. ASSUME NEW i \in Q!Items, Q!ServeLate(i) PROVE SpoolInv'
    <3>1. /\ i \in late /\ Q!Process(i) /\ late' = late \ {i}
          /\ UNCHANGED <<invalid, disk, worker, next, outputs, reported, drain, answer, restarts, attempt, durable>>
      BY <2>4 DEF Q!ServeLate, Q!scoutVars
    <3>2. i = Q!Marker => Q!Marker \in durable /\ \A j \in Q!Batches : Accounted(j)
      BY <3>1 DEF SpoolInv, MarkerBehind
    <3>3. answer' \in {"none", "waiting", "accepted", "conflict", "invalid"}
      BY <3>1 DEF SpoolInv, Q!TypeOK
    <3> QED BY <3>1, <3>2, <3>3, ProcessStep
  <2>5. CASE Q!LeaseLapses \/ Q!Reaped \/ Q!Poll \/ UNCHANGED Q!vars
    <3>1. /\ UNCHANGED <<invalid, disk, worker, next, outputs, reported, drain, answer, restarts, late, ingested, durable, refused>>
          /\ attempt' \in {"live", "lapsed", "requeued", "closed", "fenced"}
      BY <2>5 DEF Q!LeaseLapses, Q!Reaped, Q!Poll, Q!vars, Q!scoutVars, SpoolInv, Q!TypeOK
    <3>2. Q!TypeOK' /\ Delivered' /\ Draining'
      BY <3>1, Primed DEF SpoolInv, Q!TypeOK, Delivered, Draining, Accounted
    <3>3. Q!Marker \in Q!Range(outputs)' => worker' = "deliver" /\ reported' = "completed"
      BY <3>1, Primed DEF SpoolInv, MarkerBehind
    <3> QED BY <3>1, <3>2, <3>3, StillStep
  <2> QED BY <2>1, <2>2, <2>3, <2>4, <2>5 DEF Q!Next
<1> QED BY <1>1, InitSpool, PTL DEF Q!Spec

(***************************************************************************)
(* Property EvidenceArrives: for any number of batches and restarts and    *)
(* any cap, whatever uploads fail, are repeated or come late, an item is   *)
(* processed once, none that the queue took is forgotten, and when the     *)
(* completion marker is processed only batches are missing that the server *)
(* refused.                                                                *)
(***************************************************************************)
THEOREM WorkflowEvidenceArrives == Q!Spec => []EvidenceArrives
<1>1. SpoolInv => EvidenceArrives
  <2> SUFFICES ASSUME SpoolInv PROVE EvidenceArrives
    OBVIOUS
  <2>1. Q!NothingForgotten
    BY DEF SpoolInv, Unforgotten, Accounted, Delivered, Q!NothingForgotten
  <2>2. Q!MarkerMissesOnlyRefused
    BY DEF SpoolInv, MarkerBehind, Accounted, Q!MarkerMissesOnlyRefused
  <2> QED BY <2>1, <2>2 DEF SpoolInv, EvidenceArrives, Q!EvidenceArrives
<1> QED BY <1>1, SpoolInvariant, PTL
=============================================================================
