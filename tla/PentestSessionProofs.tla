------------------------ MODULE PentestSessionProofs ------------------------
(***************************************************************************)
(* Controlled pentest sessions, for any number of sessions, decisions and  *)
(* attempts.                                                               *)
(*                                                                         *)
(* The gate counts the approved sessions that have a job, and the limit is *)
(* about jobs: the two meet because a session that has a live job and is   *)
(* not past its time is an approved one (Approved).  That in turn needs    *)
(* that a decision under way is about a pending session, which no sweep    *)
(* and no other decision has read (DecidedOnce, SweepReads).               *)
(*                                                                         *)
(* That a session is cleaned when its target is follows the attempt: from  *)
(* the moment something says that it was torn down, the row or a result on *)
(* its way, no Scout may open it again (Torn); the numbers of the attempts *)
(* (Ordered) and the empty start (Fresh) are what Torn needs of the rest.  *)
(***************************************************************************)
EXTENDS PentestSession, FiniteSetTheorems, TLAPS

Counted == {s \in Sessions \ excused : LiveJob(s) /\ ~ps[s].late}

Approved == \A s \in Counted : ps[s].status = "approved"

DecidedOnce ==
    /\ \A d \in Deciders : reading[d] # None /\ reading[d] \notin excused =>
          /\ ps[reading[d]].status = "pending"
          /\ reading[d] \notin sweep.active \cup sweep.stale
    /\ \A d, e \in Deciders : d # e /\ reading[d] # None /\ reading[d] = reading[e] =>
          reading[d] \in excused

(* What the sweep has read stays so until it writes.                       *)
SweepReads ==
    /\ \A s \in sweep.active \cup sweep.stale : s \notin excused => ps[s].late
    /\ \A s \in sweep.active : ps[s].status # "pending"
    /\ sweep.due \cap sweep.held = {}

(* An attempt that a Scout has was counted.                                *)
Numbered == \A s \in Sessions : exec[s].stage # "idle" => exec[s].attempt # 0

(* Something says that the attempt the job is at has been torn down.       *)
Vouched(t) ==
    \/ ps[t].verified \/ ps[t].status = "cleaned"
    \/ \E r \in queue[t] : r.verified /\ r.attempt = job[t].attempt

(* What was torn down stays so: no session is open, and no Scout is about  *)
(* to open one or has one open, for the first attempt of a job of which the*)
(* row or a result says that it was torn down.  Before a session is decided*)
(* there is no attempt, and none has a number the job has not come to.     *)
Fresh(s) ==
    ps[s].status = "pending" =>
        /\ job[s].st = "none" /\ job[s].attempt = 0
        /\ exec[s] = Idle /\ open[s] = {} /\ queue[s] = {}

Ordered(s) ==
    /\ exec[s].attempt <= job[s].attempt
    /\ \A a \in open[s] : a <= job[s].attempt
    /\ \A r \in queue[s] : r.attempt <= job[s].attempt

Torn(s) ==
    /\ ps[s].verified \/ ps[s].status = "cleaned" => job[s].attempt # 0
    /\ job[s].attempt = 1 /\ Vouched(s) =>
          open[s] = {} /\ exec[s].stage \notin {"offered", "running"}

Intact(s) == Fresh(s) /\ Ordered(s) /\ Torn(s)

AllIntact == \A s \in Sessions \ excused : Intact(s)

(* Evidence that the policy does not keep was never there, unless it was   *)
(* once held.                                                              *)
ByPolicy == held \subseteq everHeld /\ EvidenceByPolicy

IInv ==
    /\ TypeOK /\ Numbered /\ Approved /\ DecidedOnce /\ SweepReads /\ JobsWithinLimit
    /\ AllIntact /\ ByPolicy

----------------------------------------------------------------------------
(* The row of a session.                                                   *)
LEMMA SessionFields ==
  ASSUME NEW p \in Session
  PROVE  /\ p.status \in Statuses /\ p.required \in BOOLEAN /\ p.completed \in BOOLEAN
         /\ p.verified \in BOOLEAN /\ p.evidence \in BOOLEAN /\ p.artifact \in BOOLEAN
         /\ p.ended \in BOOLEAN /\ p.late \in BOOLEAN /\ p.aged \in BOOLEAN
BY DEF Session

Bare(p) == ~p.evidence /\ ~p.artifact

(* What the storing of evidence changes, and that a hold wins.             *)
StoredAs(p, q) ==
    /\ q.status = p.status /\ q.required = p.required /\ q.completed = p.completed
    /\ q.verified = p.verified /\ q.ended = p.ended /\ q.late = p.late

LEMMA StoreEvidence ==
  ASSUME NEW s \in Sessions, NEW p \in Session, NEW given \in BOOLEAN
  PROVE  /\ store_evidence(s, p, given) \in Session
         /\ StoredAs(p, store_evidence(s, p, given))
         /\ s \in held /\ p.evidence => store_evidence(s, p, given).evidence
         /\ s \notin held /\ ~retain => Bare(store_evidence(s, p, given))
<1> DEFINE b == p.evidence \/ given
           q1 == [p EXCEPT !.evidence = b]
           q2 == [p EXCEPT !.evidence = FALSE, !.artifact = FALSE]
           q3 == [p EXCEPT !.evidence = given]
<1>1. b \in BOOLEAN /\ (p.evidence => b)
  BY SessionFields
<1>2. /\ store_evidence(s, p, given) \in {q1, q2, q3}
      /\ s \in held => store_evidence(s, p, given) = q1
      /\ s \notin held /\ ~retain => store_evidence(s, p, given) = q2
  BY DEF store_evidence
<1> HIDE DEF b
<1>3. q1 \in Session /\ StoredAs(p, q1) /\ (b => q1.evidence)
  BY ONLY <1>1, p \in Session DEF Session, StoredAs
<1>4. q2 \in Session /\ StoredAs(p, q2) /\ Bare(q2)
  BY ONLY p \in Session DEF Session, StoredAs, Bare
<1>5. q3 \in Session /\ StoredAs(p, q3)
  BY ONLY p \in Session, given \in BOOLEAN DEF Session, StoredAs
<1> HIDE DEF q1, q2, q3
<1> QED BY <1>1, <1>2, <1>3, <1>4, <1>5

(* What closing a session changes.                                         *)
LEMMA ClosedSession ==
  ASSUME NEW p \in Session, NEW how \in {"never_ran", "ran", "expired"}
  PROVE  /\ Closed(p, how) \in Session
         /\ Closed(p, how).late = p.late /\ Closed(p, how).evidence = p.evidence
         /\ Closed(p, how).status # "pending"
         /\ Closed(p, how).artifact = p.artifact /\ Closed(p, how).verified = p.verified
         /\ Closed(p, how).status = "cleaned" => p.verified
<1> DEFINE b == p.completed \/ p.required
           st1 == IF p.verified THEN "cleaned" ELSE "cleanup_pending"
           st2 == IF p.completed THEN "completed" ELSE "cleanup_pending"
           v == p.verified
           q1 == [p EXCEPT !.status = "terminated", !.completed = b]
           q2 == [p EXCEPT !.status = "completed"]
           q3 == [p EXCEPT !.status = st1, !.completed = v]
           q4 == [p EXCEPT !.status = st2]
<1>1. /\ b \in BOOLEAN /\ v \in BOOLEAN
      /\ st1 \in Statuses \ {"pending"} /\ (st1 = "cleaned" => p.verified)
      /\ st2 \in Statuses \ {"pending", "cleaned"}
  BY SessionFields DEF Statuses
<1>2. Closed(p, how) \in {q1, q2, q3, q4}
  BY DEF Closed
<1> HIDE DEF b, st1, st2, v
<1>3. /\ q1 \in Session /\ q1.late = p.late /\ q1.evidence = p.evidence /\ q1.status # "pending"
      /\ q1.artifact = p.artifact /\ q1.verified = p.verified
      /\ q1.status = "cleaned" => p.verified
  BY ONLY <1>1, p \in Session DEF Session, Statuses
<1>4. /\ q2 \in Session /\ q2.late = p.late /\ q2.evidence = p.evidence /\ q2.status # "pending"
      /\ q2.artifact = p.artifact /\ q2.verified = p.verified
      /\ q2.status = "cleaned" => p.verified
  BY ONLY p \in Session DEF Session, Statuses
<1>5. /\ q3 \in Session /\ q3.late = p.late /\ q3.evidence = p.evidence /\ q3.status # "pending"
      /\ q3.artifact = p.artifact /\ q3.verified = p.verified
      /\ q3.status = "cleaned" => p.verified
  BY ONLY <1>1, p \in Session DEF Session
<1>6. /\ q4 \in Session /\ q4.late = p.late /\ q4.evidence = p.evidence /\ q4.status # "pending"
      /\ q4.artifact = p.artifact /\ q4.verified = p.verified
      /\ q4.status = "cleaned" => p.verified
  BY ONLY <1>1, p \in Session DEF Session
<1> HIDE DEF q1, q2, q3, q4
<1> QED BY <1>2, <1>3, <1>4, <1>5, <1>6

(* The end of a job touches an approved session only.                      *)
LEMMA CompleteSession ==
  ASSUME ps \in [Sessions -> Session], NEW s \in Sessions,
         NEW how \in {"never_ran", "ran", "expired"}, NEW summary \in BOOLEAN,
         complete_session_for_job(s, how, summary)
  PROVE  /\ ps' \in [Sessions -> Session]
         /\ \A t \in Sessions : t # s => ps'[t] = ps[t]
         /\ ps'[s] = ps[s] \/ (ps[s].status = "approved" /\ ps'[s].status # "pending")
         /\ ps'[s].late = ps[s].late
         /\ s \in held /\ ps[s].evidence => ps'[s].evidence
         /\ s \notin held /\ ~retain /\ Bare(ps[s]) => Bare(ps'[s])
         /\ ps'[s].verified = ps[s].verified
         /\ ps'[s].status = "cleaned" => ps[s].status = "cleaned" \/ ps[s].verified
<1> DEFINE kept == IF ps[s].evidence THEN ps[s] ELSE store_evidence(s, ps[s], summary)
           over == [kept EXCEPT !.ended = TRUE]
           new == Closed(over, how)
<1>1. /\ kept \in Session /\ kept.late = ps[s].late /\ (ps[s].evidence => kept.evidence)
      /\ kept.verified = ps[s].verified /\ kept.status = ps[s].status
      /\ s \notin held /\ ~retain /\ Bare(ps[s]) => Bare(kept)
  BY StoreEvidence DEF StoredAs, Bare
<1>2. IF ps[s].status # "approved" THEN ps' = ps ELSE ps' = [ps EXCEPT ![s] = new]
  BY DEF complete_session_for_job
<1> HIDE DEF kept
<1>3. /\ over \in Session /\ over.late = kept.late /\ over.evidence = kept.evidence
      /\ over.verified = kept.verified /\ over.artifact = kept.artifact
  BY ONLY <1>1 DEF Session
<1> HIDE DEF over
<1>4. /\ new \in Session /\ new.late = over.late /\ new.evidence = over.evidence
      /\ new.status # "pending" /\ new.artifact = over.artifact
      /\ new.verified = over.verified /\ (new.status = "cleaned" => over.verified)
  BY ONLY <1>3, ClosedSession, how \in {"never_ran", "ran", "expired"}
<1> HIDE DEF new
<1> QED BY <1>1, <1>2, <1>3, <1>4 DEF Bare

----------------------------------------------------------------------------
(* What a step makes of a session, when it decides nothing and no sweep    *)
(* ends: it is pending or approved as long as it counts, and what is held  *)
(* keeps its evidence.                                                     *)
LiveNext(t) == job'[t].st \in {"queued", "active"}

Goes(t) ==
    /\ ps[t].late => ps'[t].late
    /\ ps'[t].status = "pending" => ps[t].status = "pending"
    /\ ps[t].status = "pending" => ps'[t].status = "pending" \/ t \in excused'
    /\ ps[t].status = "approved" => \/ ps'[t].status = "approved"
                                    \/ t \in excused' \/ ~LiveNext(t)
    /\ t \in held /\ ps[t].evidence => ps'[t].evidence
    /\ t \notin held /\ ~retain /\ Bare(ps[t]) => Bare(ps'[t])
    /\ ps'[t].verified \/ ps'[t].status = "cleaned" => Vouched(t) \/ t \in excused'

RowsGo == ps' \in [Sessions -> Session] /\ \A t \in Sessions : Goes(t)

LEMMA CleanupGoes ==
  ASSUME TypeOK, NEW s \in Sessions, NEW given \in BOOLEAN, record_cleanup(s, given)
  PROVE  RowsGo
<1> DEFINE p == IF given THEN store_evidence(s, ps[s], TRUE) ELSE ps[s]
           q1 == [p EXCEPT !.completed = TRUE]
           q2 == [p EXCEPT !.completed = TRUE, !.status = "cleaned", !.ended = TRUE]
<1>1. ps \in [Sessions -> Session] /\ ps[s] \in Session
  BY DEF TypeOK
<1>2. /\ p \in Session /\ StoredAs(ps[s], p) /\ (s \in held /\ ps[s].evidence => p.evidence)
      /\ s \notin held /\ ~retain /\ Bare(ps[s]) => Bare(p)
  BY <1>1, StoreEvidence DEF StoredAs
<1>3. /\ excused' = excused \cup {s}
      /\ \/ ps' = [ps EXCEPT ![s] = q1]
         \/ ps' = [ps EXCEPT ![s] = q2]
  BY DEF record_cleanup
<1> HIDE DEF p
<1>4. /\ q1 \in Session /\ q1.status = p.status /\ q1.late = p.late
      /\ q1.evidence = p.evidence /\ q1.artifact = p.artifact
  BY ONLY <1>2 DEF Session
<1>5. /\ q2 \in Session /\ q2.status = "cleaned" /\ q2.late = p.late
      /\ q2.evidence = p.evidence /\ q2.artifact = p.artifact
  BY ONLY <1>2 DEF Session, Statuses
<1> HIDE DEF q1, q2
<1>6. ps' \in [Sessions -> Session] /\ \A t \in Sessions : t # s => ps'[t] = ps[t]
  BY <1>1, <1>3, <1>4, <1>5
<1>7. Goes(s)
  BY <1>1, <1>2, <1>3, <1>4, <1>5 DEF Goes, StoredAs, Bare, Vouched
<1> QED BY <1>6, <1>7 DEF RowsGo, Goes, Vouched

LEMMA ResultGoes ==
  ASSUME TypeOK, NEW s \in Sessions, NEW r \in queue[s], record_pentest_result(s, r)
  PROVE  RowsGo
<1> DEFINE a == [ps[s] EXCEPT !.artifact = TRUE]
           p == store_evidence(s, a, TRUE)
           v == r.verified
           q == [p EXCEPT !.verified = v]
           q1 == [q EXCEPT !.status = "cleaned", !.completed = TRUE]
<1>1. /\ ps \in [Sessions -> Session] /\ ps[s] \in Session
      /\ r \in [attempt : 1 .. MaxAttempts, verified : BOOLEAN]
  BY DEF TypeOK
<1>2. a \in Session /\ a.status = ps[s].status /\ a.late = ps[s].late /\ a.evidence = ps[s].evidence
  BY ONLY <1>1 DEF Session
<1>3. v \in BOOLEAN
  BY <1>1
<1>4. /\ \/ ps' = [ps EXCEPT ![s] = q1] /\ q.status = "cleanup_pending" /\ v
         \/ ps' = [ps EXCEPT ![s] = q]
      /\ v => Vouched(s)
  BY DEF record_pentest_result, Vouched
<1> HIDE DEF a, v
<1>5. /\ p \in Session /\ StoredAs(a, p) /\ (s \in held /\ a.evidence => p.evidence)
      /\ s \notin held /\ ~retain => Bare(p)
  BY <1>2, StoreEvidence
<1> HIDE DEF p
<1>6. /\ q \in Session /\ q.status = p.status /\ q.late = p.late
      /\ q.evidence = p.evidence /\ q.artifact = p.artifact /\ q.verified = v
  BY ONLY <1>3, <1>5 DEF Session
<1> HIDE DEF q
<1>7. /\ q1 \in Session /\ q1.status = "cleaned" /\ q1.late = q.late
      /\ q1.evidence = q.evidence /\ q1.artifact = q.artifact /\ q1.verified = q.verified
  BY ONLY <1>6 DEF Session, Statuses
<1> HIDE DEF q1
<1>8. ps' \in [Sessions -> Session] /\ \A t \in Sessions : t # s => ps'[t] = ps[t]
  BY <1>1, <1>4, <1>6, <1>7
<1>9. Goes(s)
  <2>1. ps[s].status = "cleaned" => Vouched(s)
    BY DEF Vouched
  <2>2. ps'[s].verified \/ ps'[s].status = "cleaned" => Vouched(s)
    BY ONLY <1>1, <1>2, <1>4, <1>5, <1>6, <1>7, <2>1, s \in Sessions DEF StoredAs
  <2> QED
    BY ONLY <1>1, <1>2, <1>4, <1>5, <1>6, <1>7, <2>2, s \in Sessions DEF Goes, StoredAs, Bare
<1> QED BY <1>8, <1>9 DEF RowsGo, Goes, Vouched

LEMMA EndGoes ==
  ASSUME TypeOK, NEW s \in Sessions, report_job_status(s) \/ reap_stale_jobs(s)
  PROVE  RowsGo
<1>1. ps \in [Sessions -> Session] /\ job \in [Sessions -> Job]
  BY DEF TypeOK
<1>2. CASE UNCHANGED <<ps, job>>
  BY <1>1, <1>2 DEF RowsGo, Goes, Vouched, Bare
<1>3. ASSUME NEW how \in {"never_ran", "ran", "expired"}, NEW summary \in BOOLEAN,
             complete_session_for_job(s, how, summary), job' = [job EXCEPT ![s].st = "ended"]
      PROVE  RowsGo
  <2>1. job'[s].st = "ended"
    BY <1>1, <1>3 DEF Job
  <2>2. Goes(s)
    BY <1>1, <1>3, <2>1, CompleteSession DEF Goes, LiveNext, Vouched
  <2>3. ps' \in [Sessions -> Session] /\ \A t \in Sessions : t # s => ps'[t] = ps[t]
    BY <1>1, <1>3, CompleteSession
  <2> QED BY <2>2, <2>3 DEF RowsGo, Goes, Vouched, Bare
<1>4. CASE report_job_status(s)
  <2> DEFINE how == IF exec[s].stage = "offered" THEN "never_ran" ELSE "ran"
  <2>1. \/ UNCHANGED <<ps, job>>
        \/ /\ complete_session_for_job(s, how, TRUE) /\ job' = [job EXCEPT ![s].st = "ended"]
    BY <1>4 DEF report_job_status
  <2>2. how \in {"never_ran", "ran", "expired"}
    OBVIOUS
  <2> HIDE DEF how
  <2> QED BY <1>2, <1>3, <2>1, <2>2
<1>5. CASE reap_stale_jobs(s)
  BY <1>3, <1>5 DEF reap_stale_jobs
<1> QED BY <1>4, <1>5

LEMMA TimeGoes ==
  ASSUME TypeOK, NEW s \in Sessions, time_passes(s)
  PROVE  RowsGo
<1> DEFINE q1 == [ps[s] EXCEPT !.aged = TRUE]
           q2 == [ps[s] EXCEPT !.late = TRUE]
<1>1. ps \in [Sessions -> Session] /\ ps[s] \in Session
  BY DEF TypeOK
<1>2. ps' = [ps EXCEPT ![s] = q1] \/ ps' = [ps EXCEPT ![s] = q2]
  BY <1>1 DEF time_passes
<1>3. /\ q1 \in Session /\ q1.status = ps[s].status /\ q1.late = ps[s].late
      /\ q1.evidence = ps[s].evidence /\ q1.artifact = ps[s].artifact
      /\ q1.verified = ps[s].verified
  BY ONLY <1>1 DEF Session
<1>4. /\ q2 \in Session /\ q2.status = ps[s].status /\ q2.late
      /\ q2.evidence = ps[s].evidence /\ q2.artifact = ps[s].artifact
      /\ q2.verified = ps[s].verified
  BY ONLY <1>1 DEF Session
<1> HIDE DEF q1, q2
<1>5. ps' \in [Sessions -> Session] /\ \A t \in Sessions : t # s => ps'[t] = ps[t]
  BY <1>1, <1>2, <1>3, <1>4
<1>6. Goes(s)
  BY <1>1, <1>2, <1>3, <1>4 DEF Goes, Bare, Vouched
<1> QED BY <1>5, <1>6 DEF RowsGo, Goes, Bare, Vouched

Decides == \E d \in Deciders : approve(d) \/ reject(d)

LEMMA StepGoes ==
  ASSUME TypeOK, [Next]_vars
  PROVE  RowsGo \/ Decides \/ sweep_end
<1>1. ps \in [Sessions -> Session]
  BY DEF TypeOK
<1>2. ASSUME UNCHANGED ps PROVE RowsGo
  BY <1>1, <1>2 DEF RowsGo, Goes, Bare, Vouched
<1> QED
  BY <1>2, CleanupGoes, ResultGoes, EndGoes, TimeGoes
     DEF Next, vars, Decides, decide_begin, result_refused, poll_next_job, closed_by_poll,
         reclaim, run_module, run_ends, crash, place_hold, release_hold, sweep_begin

----------------------------------------------------------------------------
(* Only an approval makes a job live.                                      *)
LEMMA JobStep ==
  ASSUME TypeOK, [Next]_vars
  PROVE  /\ job' \in [Sessions -> Job]
         /\ (~ \E d \in Deciders : approve(d)) => \A t \in Sessions : LiveNext(t) => LiveJob(t)
<1>1. job \in [Sessions -> Job] /\ MaxAttempts \in Nat
  BY PentestConstants DEF TypeOK
<1>2. ASSUME NEW s \in Sessions,
             \E st \in {"ended", "queued", "active"}, n \in 0 .. MaxAttempts :
                job' = [job EXCEPT ![s] = [st |-> st, attempt |-> n]]
      PROVE  job' \in [Sessions -> Job] /\ \A t \in Sessions \ {s} : job'[t] = job[t]
  BY <1>1, <1>2 DEF Job
<1>3. \A s \in Sessions, st \in {"ended", "queued", "active"} :
         [job[s] EXCEPT !.st = st] = [st |-> st, attempt |-> job[s].attempt]
  BY <1>1 DEF Job
<1>4. ASSUME NEW s \in Sessions, NEW st \in {"ended", "queued", "active"},
             job' = [job EXCEPT ![s].st = st], st = "ended" \/ LiveJob(s)
      PROVE  job' \in [Sessions -> Job] /\ \A t \in Sessions : LiveNext(t) => LiveJob(t)
  <2>1. job' = [job EXCEPT ![s] = [st |-> st, attempt |-> job[s].attempt]]
    BY <1>1, <1>3, <1>4
  <2>2. job[s].attempt \in 0 .. MaxAttempts
    BY <1>1 DEF Job
  <2>3. job' \in [Sessions -> Job] /\ \A t \in Sessions \ {s} : job'[t] = job[t]
    BY <1>2, <2>1, <2>2
  <2>4. job'[s].st = st
    BY <1>1, <2>1
  <2> QED BY <1>4, <2>3, <2>4 DEF LiveNext, LiveJob
<1>5. ASSUME UNCHANGED job
      PROVE  job' \in [Sessions -> Job] /\ \A t \in Sessions : LiveNext(t) => LiveJob(t)
  BY <1>1, <1>5 DEF LiveNext, LiveJob
<1>6. ASSUME NEW d \in Deciders, approve(d) PROVE job' \in [Sessions -> Job]
  <2> DEFINE s == reading[d]
             new == [st |-> "queued", attempt |-> 0]
  <2>1. s \in Sessions
    BY <1>6 DEF approve, TypeOK
  <2>2. new \in Job
    BY <1>1 DEF Job
  <2>3. UNCHANGED job \/ job' = [job EXCEPT ![s] = new]
    BY <1>6 DEF approve
  <2> HIDE DEF new, s
  <2> QED BY <1>1, <2>1, <2>2, <2>3
<1>7. ASSUME NEW s \in Sessions, poll_next_job(s)
      PROVE  job' \in [Sessions -> Job] /\ \A t \in Sessions : LiveNext(t) => LiveJob(t)
  <2> DEFINE n == job[s].attempt + 1
  <2>1. n \in 0 .. MaxAttempts
    BY <1>1, <1>7 DEF poll_next_job, Job
  <2>2. job[s] \in Job /\ job' = [job EXCEPT ![s] = [job[s] EXCEPT !.st = "active", !.attempt = n]]
    BY <1>1, <1>7 DEF poll_next_job
  <2> HIDE DEF n
  <2>5. [job[s] EXCEPT !.st = "active", !.attempt = n] \in Job
    BY ONLY <2>1, <2>2 DEF Job
  <2>3. job' \in [Sessions -> Job] /\ \A t \in Sessions \ {s} : job'[t] = job[t]
    BY <1>1, <2>2, <2>5
  <2>4. LiveJob(s)
    BY <1>7 DEF poll_next_job, LiveJob
  <2> QED BY <2>3, <2>4 DEF LiveNext, LiveJob
<1>8. ASSUME NEW s \in Sessions,
             closed_by_poll(s) \/ reclaim(s) \/ report_job_status(s) \/ reap_stale_jobs(s)
      PROVE  job' \in [Sessions -> Job] /\ \A t \in Sessions : LiveNext(t) => LiveJob(t)
  <2>1. \/ job' = [job EXCEPT ![s].st = "ended"]
        \/ job' = [job EXCEPT ![s].st = "queued"] /\ LiveJob(s)
        \/ UNCHANGED job
    BY <1>8 DEF closed_by_poll, reclaim, report_job_status, reap_stale_jobs, LiveJob
  <2> QED BY <1>4, <1>5, <2>1
<1> QED
  BY <1>5, <1>6, <1>7, <1>8
     DEF Next, vars, decide_begin, reject, record_cleanup, record_pentest_result, result_refused,
         run_module, run_ends, crash, time_passes, place_hold, release_hold, sweep_begin, sweep_end

(* What a decision writes.                                                 *)
LEMMA ApproveRows ==
  ASSUME TypeOK, NEW d \in Deciders, approve(d)
  PROVE  /\ reading[d] \in Sessions /\ ps' \in [Sessions -> Session]
         /\ \A t \in Sessions : t # reading[d] => ps'[t] = ps[t] /\ job'[t] = job[t]
         /\ ps'[reading[d]].evidence = ps[reading[d]].evidence
         /\ ps'[reading[d]].artifact = ps[reading[d]].artifact
         /\ ps'[reading[d]].verified = ps[reading[d]].verified
         /\ \/ UNCHANGED <<ps, job>>
            \/ /\ ps'[reading[d]].status = "approved" /\ check_roe_gate(reading[d])
               /\ job' = [job EXCEPT ![reading[d]] = [st |-> "queued", attempt |-> 0]]
<1>1. PICK s \in Sessions : s = reading[d]
  BY DEF TypeOK, approve
<1> DEFINE q1 == [ps[s] EXCEPT !.status = "approved", !.late = FALSE]
<1>2. ps \in [Sessions -> Session] /\ ps[s] \in Session /\ job \in [Sessions -> Job]
  BY DEF TypeOK
<1>3. \/ UNCHANGED <<ps, job>>
      \/ /\ ps' = [ps EXCEPT ![s] = q1] /\ check_roe_gate(s)
         /\ job' = [job EXCEPT ![s] = [st |-> "queued", attempt |-> 0]]
  BY <1>1 DEF approve
<1>4. /\ q1 \in Session /\ q1.status = "approved" /\ q1.evidence = ps[s].evidence
      /\ q1.artifact = ps[s].artifact /\ q1.verified = ps[s].verified
  BY ONLY <1>2 DEF Session, Statuses
<1> HIDE DEF q1
<1> QED BY <1>1, <1>2, <1>3, <1>4

LEMMA RejectRows ==
  ASSUME TypeOK, NEW d \in Deciders, reject(d)
  PROVE  /\ reading[d] \in Sessions /\ ps' \in [Sessions -> Session]
         /\ \A t \in Sessions : t # reading[d] => ps'[t] = ps[t]
         /\ ps'[reading[d]].evidence = ps[reading[d]].evidence
         /\ ps'[reading[d]].late = ps[reading[d]].late
         /\ ps'[reading[d]].artifact = ps[reading[d]].artifact
         /\ ps'[reading[d]].verified = ps[reading[d]].verified
         /\ ps'[reading[d]].status = "rejected"
<1>1. PICK s \in Sessions : s = reading[d]
  BY DEF TypeOK, reject
<1> DEFINE q2 == [ps[s] EXCEPT !.status = "rejected", !.ended = TRUE]
<1>2. ps \in [Sessions -> Session] /\ ps[s] \in Session
  BY DEF TypeOK
<1>3. ps' = [ps EXCEPT ![s] = q2]
  BY <1>1 DEF reject
<1>5. /\ q2 \in Session /\ q2.status = "rejected" /\ q2.evidence = ps[s].evidence
      /\ q2.late = ps[s].late /\ q2.artifact = ps[s].artifact /\ q2.verified = ps[s].verified
  BY ONLY <1>2 DEF Session, Statuses
<1> HIDE DEF q2
<1> QED BY <1>1, <1>2, <1>3, <1>5

(* What the end of a sweep writes.                                         *)
LEMMA SweepRows ==
  ASSUME TypeOK, sweep_end
  PROVE  /\ ps' \in [Sessions -> Session]
         /\ \A t \in Sessions :
              /\ ps'[t].late = ps[t].late
              /\ t \notin sweep.active \cup sweep.stale => ps'[t].status = ps[t].status
              /\ ps'[t].status = "pending" => ps[t].status = "pending"
              /\ ps[t].evidence /\ ~ps'[t].evidence => t \in sweep.due
              /\ Bare(ps[t]) => Bare(ps'[t])
              /\ ps'[t].verified = ps[t].verified
              /\ ps'[t].status = "cleaned" => ps[t].status = "cleaned"
<1>1. ps \in [Sessions -> Session]
  BY DEF TypeOK
<1> SUFFICES ASSUME NEW t \in Sessions
             PROVE  /\ ps'[t] \in Session /\ ps'[t].late = ps[t].late
                    /\ t \notin sweep.active \cup sweep.stale => ps'[t].status = ps[t].status
                    /\ ps'[t].status = "pending" => ps[t].status = "pending"
                    /\ ps[t].evidence /\ ~ps'[t].evidence => t \in sweep.due
                    /\ Bare(ps[t]) => Bare(ps'[t])
                    /\ ps'[t].verified = ps[t].verified
                    /\ ps'[t].status = "cleaned" => ps[t].status = "cleaned"
  BY DEF sweep_end
<1> DEFINE st == IF t \in sweep.closing THEN "terminated" ELSE "cleanup_pending"
           q1 == [ps[t] EXCEPT !.ended = TRUE, !.status = st]
           q2 == [ps[t] EXCEPT !.ended = TRUE, !.status = "expired"]
           ev == IF t \in sweep.had THEN FALSE ELSE ps[t].evidence
           q3 == [ps[t] EXCEPT !.artifact = FALSE, !.evidence = ev]
<1>2. /\ ps[t] \in Session /\ st \in Statuses \ {"pending", "cleaned"}
      /\ ev \in BOOLEAN /\ (ev => ps[t].evidence)
  BY <1>1, SessionFields DEF Statuses
<1>3. ps'[t] = IF t \in sweep.active THEN q1
               ELSE IF t \in sweep.stale THEN q2
               ELSE IF t \in sweep.due THEN q3
               ELSE ps[t]
  BY DEF sweep_end
<1> HIDE DEF st, ev
<1>4. /\ q1 \in Session /\ q1.status = st /\ q1.evidence = ps[t].evidence
      /\ q1.late = ps[t].late /\ q1.artifact = ps[t].artifact /\ q1.verified = ps[t].verified
  BY ONLY <1>2 DEF Session
<1>5. /\ q2 \in Session /\ q2.status = "expired" /\ q2.evidence = ps[t].evidence
      /\ q2.late = ps[t].late /\ q2.artifact = ps[t].artifact /\ q2.verified = ps[t].verified
  BY ONLY <1>2 DEF Session, Statuses
<1>6. /\ q3 \in Session /\ q3.status = ps[t].status /\ q3.late = ps[t].late
      /\ q3.evidence = ev /\ ~q3.artifact /\ q3.verified = ps[t].verified
  BY ONLY <1>2 DEF Session
<1> HIDE DEF q1, q2, q3
<1> QED BY <1>2, <1>3, <1>4, <1>5, <1>6 DEF Bare

LEMMA RowsTyped == ASSUME TypeOK, [Next]_vars PROVE ps' \in [Sessions -> Session]
BY StepGoes, ApproveRows, RejectRows, SweepRows DEF RowsGo, Decides

----------------------------------------------------------------------------
(* The other variables keep their types.                                   *)
Exec == [attempt : 0 .. MaxAttempts, stage : {"idle", "offered", "running", "over"}]

LEMMA ExecStep ==
  ASSUME TypeOK, Numbered, [Next]_vars
  PROVE  exec' \in [Sessions -> Exec] /\ Numbered'
<1>1. exec \in [Sessions -> Exec] /\ job \in [Sessions -> Job] /\ MaxAttempts \in Nat
  BY PentestConstants DEF TypeOK, Exec
<1>2. ASSUME NEW s \in Sessions, NEW x \in Exec, exec' = [exec EXCEPT ![s] = x],
             x.stage # "idle" => x.attempt # 0
      PROVE  exec' \in [Sessions -> Exec] /\ Numbered'
  <2>1. exec' \in [Sessions -> Exec] /\ exec'[s] = x /\ \A t \in Sessions \ {s} : exec'[t] = exec[t]
    BY <1>1, <1>2
  <2> QED BY <1>2, <2>1 DEF Numbered
<1>3. ASSUME NEW s \in Sessions, NEW stage \in {"running", "over"},
             exec' = [exec EXCEPT ![s].stage = stage], exec[s].stage # "idle"
      PROVE  exec' \in [Sessions -> Exec] /\ Numbered'
  <2> DEFINE x == [exec[s] EXCEPT !.stage = stage]
  <2>1. exec[s] \in Exec /\ exec' = [exec EXCEPT ![s] = x]
    BY <1>1, <1>3
  <2>2. x \in Exec /\ x.stage = stage /\ x.attempt = exec[s].attempt
    BY ONLY <2>1, <1>3 DEF Exec
  <2>3. x.attempt # 0
    BY <1>3, <2>2 DEF Numbered
  <2> HIDE DEF x
  <2> QED BY <1>2, <2>1, <2>2, <2>3
<1>4. ASSUME NEW s \in Sessions, exec' = [exec EXCEPT ![s] = Idle]
      PROVE  exec' \in [Sessions -> Exec] /\ Numbered'
  <2>1. Idle \in Exec /\ Idle.stage = "idle"
    BY <1>1 DEF Idle, Exec
  <2> QED BY <1>2, <1>4, <2>1
<1>5. ASSUME NEW s \in Sessions, poll_next_job(s)
      PROVE  exec' \in [Sessions -> Exec] /\ Numbered'
  <2> DEFINE n == job'[s].attempt
             x == [attempt |-> n, stage |-> "offered"]
  <2>1. /\ job[s] \in Job /\ job[s].attempt < MaxAttempts
        /\ job' = [job EXCEPT ![s].st = "active", ![s].attempt = @ + 1]
        /\ exec' = [exec EXCEPT ![s] = x]
    BY <1>1, <1>5 DEF poll_next_job
  <2>2. n = job[s].attempt + 1
    BY ONLY <1>1, <2>1, s \in Sessions DEF Job
  <2>3. n \in 0 .. MaxAttempts /\ n # 0
    BY ONLY <1>1, <2>1, <2>2 DEF Job
  <2> HIDE DEF n
  <2>4. x \in Exec /\ x.attempt = n
    BY <2>3 DEF Exec
  <2> HIDE DEF x
  <2> QED BY <1>2, <2>1, <2>3, <2>4
<1>6. ASSUME UNCHANGED exec PROVE exec' \in [Sessions -> Exec] /\ Numbered'
  BY <1>1, <1>6 DEF Numbered
<1>7. ASSUME NEW s \in Sessions, run_module(s) \/ run_ends(s)
      PROVE  exec' \in [Sessions -> Exec] /\ Numbered'
  BY <1>3, <1>7 DEF run_module, run_ends
<1>8. ASSUME NEW s \in Sessions, crash(s) \/ report_job_status(s)
      PROVE  exec' \in [Sessions -> Exec] /\ Numbered'
  BY <1>4, <1>8 DEF crash, report_job_status
<1> QED
  BY <1>5, <1>6, <1>7, <1>8
     DEF Next, vars, decide_begin, approve, reject, record_cleanup, record_pentest_result,
         result_refused, closed_by_poll, reclaim, reap_stale_jobs, time_passes, place_hold,
         release_hold, sweep_begin, sweep_end

Result == [attempt : 1 .. MaxAttempts, verified : BOOLEAN]

LEMMA TargetStep ==
  ASSUME TypeOK, Numbered, [Next]_vars
  PROVE  open' \in [Sessions -> SUBSET (1 .. MaxAttempts)] /\ queue' \in [Sessions -> SUBSET Result]
<1>1. /\ open \in [Sessions -> SUBSET (1 .. MaxAttempts)] /\ queue \in [Sessions -> SUBSET Result]
      /\ exec \in [Sessions -> Exec] /\ MaxAttempts \in Nat
  BY PentestConstants DEF TypeOK, Exec, Result
<1> DEFINE Typed == /\ open' \in [Sessions -> SUBSET (1 .. MaxAttempts)]
                    /\ queue' \in [Sessions -> SUBSET Result]
<1>2. ASSUME NEW s \in Sessions, exec[s].stage # "idle"
      PROVE  exec[s].attempt \in 1 .. MaxAttempts
  BY <1>1, <1>2 DEF Numbered, Exec
<1>3. ASSUME NEW s \in Sessions, run_module(s) PROVE Typed
  <2>1. exec[s].attempt \in 1 .. MaxAttempts
    BY <1>2, <1>3 DEF run_module
  <2>2. /\ UNCHANGED queue
        /\ open' = [open EXCEPT ![s] = open[s] \cup {exec[s].attempt}] \/ UNCHANGED open
    BY <1>1, <1>3 DEF run_module
  <2> QED BY <1>1, <2>1, <2>2
<1>4. ASSUME NEW s \in Sessions, run_ends(s) PROVE Typed
  <2>1. exec[s].attempt \in 1 .. MaxAttempts
    BY <1>2, <1>4 DEF run_ends
  <2>2. /\ UNCHANGED open \/ open' = [open EXCEPT ![s] = open[s] \ {exec[s].attempt}]
        /\ \/ UNCHANGED queue
           \/ \E v \in BOOLEAN :
                queue' = [queue EXCEPT ![s] = queue[s] \cup {[attempt |-> exec[s].attempt, verified |-> v]}]
    BY <1>1, <1>4 DEF run_ends
  <2>3. \A v \in BOOLEAN : [attempt |-> exec[s].attempt, verified |-> v] \in Result
    BY <2>1 DEF Result
  <2>4. open' \in [Sessions -> SUBSET (1 .. MaxAttempts)]
    BY <1>1, <2>2
  <2>5. queue' \in [Sessions -> SUBSET Result]
    BY <1>1, <2>2, <2>3
  <2> QED BY <2>4, <2>5
<1>5. ASSUME NEW s \in Sessions, NEW r \in queue[s],
             record_pentest_result(s, r) \/ result_refused(s, r)
      PROVE  Typed
  <2>1. UNCHANGED open /\ queue' = [queue EXCEPT ![s] = queue[s] \ {r}]
    BY <1>1, <1>5 DEF record_pentest_result, result_refused
  <2> QED BY <1>1, <2>1
<1>6. ASSUME UNCHANGED <<open, queue>> PROVE Typed
  BY <1>1, <1>6
<1> HIDE DEF Typed
<1>7. Typed
  BY <1>3, <1>4, <1>5, <1>6
     DEF Next, vars, decide_begin, approve, reject, record_cleanup, poll_next_job, closed_by_poll,
         reclaim, crash, report_job_status, reap_stale_jobs, time_passes, place_hold,
         release_hold, sweep_begin, sweep_end
<1> QED BY <1>7 DEF Typed

LEMMA SweepStep ==
  ASSUME TypeOK, [Next]_vars
  PROVE  sweep' \in [on : BOOLEAN, active : SUBSET Sessions, closing : SUBSET Sessions,
                     stale : SUBSET Sessions, due : SUBSET Sessions, had : SUBSET Sessions,
                     held : SUBSET Sessions]
<1>1. CASE sweep_begin
  BY <1>1 DEF sweep_begin, Overdue, Due, TypeOK
<1>2. CASE sweep_end
  BY <1>2 DEF sweep_end, NoSweep
<1>3. CASE UNCHANGED sweep
  BY <1>3 DEF TypeOK
<1> QED
  BY <1>1, <1>2, <1>3
     DEF Next, vars, decide_begin, approve, reject, record_cleanup, record_pentest_result,
         result_refused, poll_next_job, closed_by_poll, reclaim, run_module, run_ends, crash,
         report_job_status, reap_stale_jobs, time_passes, place_hold, release_hold

(* Nothing is ever taken out of excused.                                   *)
LEMMA RestStep ==
  ASSUME TypeOK, [Next]_vars
  PROVE  /\ retain' \in BOOLEAN /\ events' \in 0 .. MaxEvents
         /\ reading' \in [Deciders -> Sessions \cup {None}]
         /\ held' \subseteq Sessions /\ everHeld' \subseteq Sessions
         /\ excused' \subseteq Sessions /\ excused \subseteq excused'
<1>1. retain' = retain
  BY DEF Next, vars, decide_begin, approve, reject, record_cleanup, record_pentest_result,
         result_refused, poll_next_job, closed_by_poll, reclaim, run_module, run_ends, crash,
         report_job_status, reap_stale_jobs, time_passes, place_hold, release_hold, sweep_begin,
         sweep_end
<1>2. UNCHANGED events \/ (events < MaxEvents /\ events' = events + 1)
  BY DEF Next, vars, event, decide_begin, approve, reject, record_cleanup, record_pentest_result,
         result_refused, poll_next_job, closed_by_poll, reclaim, run_module, run_ends, crash,
         report_job_status, reap_stale_jobs, time_passes, place_hold, release_hold, sweep_begin,
         sweep_end
<1>3. events' \in 0 .. MaxEvents
  BY <1>2, PentestConstants DEF TypeOK
<1>4. \/ UNCHANGED reading
      \/ \E d \in Deciders, s \in Sessions \cup {None} : reading' = [reading EXCEPT ![d] = s]
  BY DEF Next, vars, decide_begin, approve, reject, record_cleanup, record_pentest_result,
         result_refused, poll_next_job, closed_by_poll, reclaim, run_module, run_ends, crash,
         report_job_status, reap_stale_jobs, time_passes, place_hold, release_hold, sweep_begin,
         sweep_end
<1>5. reading' \in [Deciders -> Sessions \cup {None}]
  BY <1>4 DEF TypeOK
<1>6. /\ UNCHANGED <<held, everHeld>> \/ \E s \in Sessions : place_hold(s) \/ release_hold(s)
      /\ \/ UNCHANGED excused \/ sweep_begin
         \/ \E s \in Sessions : excused' = excused \cup {s}
  BY DEF Next, vars, history, decide_begin, approve, reject, record_cleanup, record_pentest_result,
         result_refused, poll_next_job, closed_by_poll, reclaim, run_module, run_ends, crash,
         report_job_status, reap_stale_jobs, time_passes, place_hold, release_hold, sweep_begin,
         sweep_end
<1>7. held' \subseteq Sessions /\ everHeld' \subseteq Sessions
  BY <1>6 DEF TypeOK, place_hold, release_hold, history
<1>8. excused' \subseteq Sessions /\ excused \subseteq excused'
  BY <1>6 DEF TypeOK, sweep_begin
<1> QED BY <1>1, <1>3, <1>5, <1>7, <1>8 DEF TypeOK

LEMMA TypeStep == ASSUME TypeOK, Numbered, [Next]_vars PROVE TypeOK'
BY RowsTyped, JobStep, ExecStep, TargetStep, SweepStep, RestStep DEF TypeOK, Exec, Result

----------------------------------------------------------------------------
(* Who starts and ends a decision and a sweep.                             *)
LEMMA OtherSteps ==
  ASSUME [Next]_vars
  PROVE  \/ Decides \/ sweep_begin \/ sweep_end
         \/ \E d \in Deciders, s \in Sessions : decide_begin(d, s)
         \/ UNCHANGED <<reading, sweep>>
BY DEF Next, vars, Decides, record_cleanup, record_pentest_result, result_refused, poll_next_job,
       closed_by_poll, reclaim, run_module, run_ends, crash, report_job_status, reap_stale_jobs,
       time_passes, place_hold, release_hold

(* Only an approval makes a session count.                                 *)
LEMMA CountedStep ==
  ASSUME TypeOK, [Next]_vars, ~ \E d \in Deciders : approve(d)
  PROVE  Counted' \subseteq Counted
<1> SUFFICES ASSUME NEW s \in Sessions, s \notin excused', LiveNext(s), ~ps'[s].late
             PROVE  s \notin excused /\ LiveJob(s) /\ ~ps[s].late
  BY DEF Counted, LiveNext, LiveJob
<1>1. s \notin excused /\ LiveJob(s)
  BY RestStep, JobStep
<1>2. RowsGo => ~ps[s].late
  BY DEF RowsGo, Goes
<1>3. sweep_end => ~ps[s].late
  BY SweepRows
<1>4. ASSUME NEW d \in Deciders, reject(d) PROVE ~ps[s].late
  BY <1>4, RejectRows
<1> QED BY <1>1, <1>2, <1>3, <1>4, StepGoes DEF Decides

LEMMA ApprovedStep ==
  ASSUME TypeOK, Approved, DecidedOnce, SweepReads, [Next]_vars
  PROVE  Approved'
<1> SUFFICES ASSUME NEW s \in Counted' PROVE ps'[s].status = "approved"
  BY DEF Approved
<1>1. s \in Sessions /\ s \notin excused' /\ LiveNext(s) /\ ~ps'[s].late
  BY DEF Counted, LiveNext, LiveJob
<1>2. s \in Counted => ps[s].status = "approved" /\ s \notin excused /\ ~ps[s].late
  BY DEF Approved, Counted
<1>3. ASSUME NEW d \in Deciders, approve(d) PROVE ps'[s].status = "approved"
  <2>1. excused' = excused
    BY <1>3 DEF approve, history
  <2>2. CASE s = reading[d] /\ ~UNCHANGED <<ps, job>>
    BY <1>3, <2>2, ApproveRows
  <2>3. CASE s # reading[d] \/ UNCHANGED <<ps, job>>
    <3>1. ps'[s] = ps[s] /\ job'[s] = job[s]
      BY <1>1, <1>3, <2>3, ApproveRows
    <3>2. s \in Counted
      BY <1>1, <2>1, <3>1 DEF Counted, LiveNext, LiveJob
    <3> QED BY <1>2, <3>1, <3>2
  <2> QED BY <2>2, <2>3
<1>4. CASE ~ \E d \in Deciders : approve(d)
  <2>1. ps[s].status = "approved" /\ s \notin excused /\ ~ps[s].late
    BY <1>2, <1>4, CountedStep
  <2>2. ASSUME NEW d \in Deciders, reject(d) PROVE ps'[s].status = "approved"
    <3>1. reading[d] # s
      BY <1>1, <2>1, PentestConstants DEF DecidedOnce
    <3> QED BY <1>1, <2>1, <2>2, <3>1, RejectRows
  <2>3. CASE sweep_end
    BY <1>1, <2>1, <2>3, SweepRows DEF SweepReads
  <2>4. CASE RowsGo
    BY <1>1, <2>1, <2>4 DEF RowsGo, Goes
  <2> QED BY <1>4, <2>2, <2>3, <2>4, StepGoes DEF Decides
<1> QED BY <1>3, <1>4

LEMMA DecidedOnceStep ==
  ASSUME TypeOK, DecidedOnce, SweepReads, [Next]_vars
  PROVE  DecidedOnce'
<1>0. /\ reading \in [Deciders -> Sessions \cup {None}] /\ excused \subseteq excused'
      /\ None \notin Sessions
  BY RestStep, PentestConstants DEF TypeOK
<1>1. ASSUME NEW d \in Deciders, approve(d) \/ reject(d) PROVE DecidedOnce'
  <2>1. reading' = [reading EXCEPT ![d] = None] /\ UNCHANGED <<sweep, excused>>
    BY <1>1 DEF approve, reject, history
  <2>2. ASSUME NEW e \in Deciders, reading'[e] # None, reading'[e] \notin excused'
        PROVE  e # d /\ reading'[e] = reading[e] /\ ps'[reading[e]] = ps[reading[e]]
    <3>1. e # d /\ reading'[e] = reading[e]
      BY <1>0, <2>1, <2>2
    <3>2. reading[e] # reading[d] /\ reading[e] \in Sessions
      BY <1>0, <2>1, <2>2, <3>1 DEF DecidedOnce
    <3> QED BY <1>1, <3>1, <3>2, ApproveRows, RejectRows
  <2>3. \A e, g \in Deciders : e # g /\ reading'[e] # None /\ reading'[e] = reading'[g] =>
           reading'[e] \in excused'
    BY <1>0, <2>1 DEF DecidedOnce
  <2> QED BY <2>1, <2>2, <2>3 DEF DecidedOnce
<1>2. ASSUME NEW d \in Deciders, NEW s \in Sessions, decide_begin(d, s) PROVE DecidedOnce'
  <2>1. /\ reading' = [reading EXCEPT ![d] = s] /\ UNCHANGED <<ps, sweep>>
        /\ ps[s].status = "pending" /\ reading[d] = None
        /\ (\E e \in Deciders : reading[e] = s) \/ s \in sweep.stale => s \in excused'
    BY <1>2 DEF decide_begin
  <2>2. s \notin sweep.active
    BY <2>1 DEF SweepReads
  <2>3. reading'[d] = s /\ \A e \in Deciders : e # d => reading'[e] = reading[e]
    BY <1>0, <2>1
  <2> QED BY <1>0, <2>1, <2>2, <2>3 DEF DecidedOnce
<1>3. CASE sweep_begin
  <2>1. /\ UNCHANGED <<ps, reading>> /\ sweep'.active = Overdue
        /\ \A d \in Deciders : reading[d] \in sweep'.stale => reading[d] \in excused'
    BY <1>3 DEF sweep_begin
  <2> QED BY <1>0, <2>1 DEF DecidedOnce, Overdue
<1>4. CASE sweep_end
  <2>1. UNCHANGED <<reading, excused>> /\ sweep'.active = {} /\ sweep'.stale = {}
    BY <1>4 DEF sweep_end, NoSweep, history
  <2> QED BY <1>0, <1>4, <2>1, SweepRows DEF DecidedOnce
<1>5. CASE RowsGo /\ UNCHANGED <<reading, sweep>>
  BY <1>0, <1>5 DEF DecidedOnce, RowsGo, Goes
<1> QED BY <1>1, <1>2, <1>3, <1>4, <1>5, StepGoes, OtherSteps DEF Decides

LEMMA SweepReadsStep ==
  ASSUME TypeOK, DecidedOnce, SweepReads, [Next]_vars
  PROVE  SweepReads'
<1>0. /\ excused \subseteq excused' /\ sweep.active \subseteq Sessions /\ sweep.stale \subseteq Sessions
      /\ None \notin Sessions
  BY RestStep, PentestConstants DEF TypeOK
<1>1. CASE sweep_begin
  BY <1>1 DEF SweepReads, sweep_begin, Overdue, Due
<1>2. CASE sweep_end
  BY <1>2 DEF SweepReads, sweep_end, NoSweep
<1>3. ASSUME UNCHANGED sweep, RowsGo PROVE SweepReads'
  BY <1>0, <1>3 DEF SweepReads, RowsGo, Goes
<1>4. ASSUME NEW d \in Deciders, approve(d) PROVE SweepReads'
  <2>1. UNCHANGED <<sweep, excused>>
    BY <1>4 DEF approve, history
  <2>2. reading[d] \in Sessions /\ (reading[d] \in excused \/ reading[d] \notin sweep.active \cup sweep.stale)
    BY <1>0, <1>4, ApproveRows DEF DecidedOnce
  <2>3. \A s \in Sessions : s = reading[d] => UNCHANGED <<ps, job>> \/ ps'[s].status = "approved"
    BY <1>4, ApproveRows
  <2> QED BY <1>0, <1>4, <2>1, <2>2, <2>3, ApproveRows DEF SweepReads
<1>5. ASSUME NEW d \in Deciders, reject(d) PROVE SweepReads'
  <2>1. UNCHANGED <<sweep, excused>>
    BY <1>5 DEF reject, history
  <2> QED BY <1>0, <1>5, <2>1, RejectRows DEF SweepReads
<1>6. ASSUME NEW d \in Deciders, NEW s \in Sessions, decide_begin(d, s) PROVE SweepReads'
  <2>1. UNCHANGED <<sweep, ps>>
    BY <1>6 DEF decide_begin
  <2> QED BY <1>0, <2>1 DEF SweepReads
<1> QED BY <1>1, <1>2, <1>3, <1>4, <1>5, <1>6, StepGoes, OtherSteps DEF Decides

(* The gate counts, under the lock, all that the limit is about.           *)
LEMMA LimitStep ==
  ASSUME TypeOK, Approved, JobsWithinLimit, [Next]_vars
  PROVE  JobsWithinLimit'
<1>1. IsFiniteSet(Sessions) /\ Limit \in Nat
  BY PentestConstants
<1>2. IsFiniteSet(Counted) /\ Cardinality(Counted) <= Limit
  BY <1>1, FS_Subset DEF Counted, JobsWithinLimit
<1>3. CASE Counted' \subseteq Counted
  <2>1. Cardinality(Counted') <= Cardinality(Counted) /\ Cardinality(Counted') \in Nat
    BY <1>2, <1>3, FS_Subset, FS_CardinalityType
  <2>2. Cardinality(Counted) \in Nat
    BY <1>2, FS_CardinalityType
  <2>3. Cardinality(Counted') <= Limit
    BY <1>1, <1>2, <2>1, <2>2
  <2> QED BY <2>3 DEF Counted, JobsWithinLimit
<1>4. ASSUME NEW d \in Deciders, approve(d), ~UNCHANGED <<ps, job>> PROVE JobsWithinLimit'
  <2>1. PICK s \in Sessions : s = reading[d]
    BY <1>4, ApproveRows
  <2> DEFINE T == {t \in Sessions \ {s} : ps[t].status = "approved" /\ job[t].st # "none"}
  <2>2. Cardinality(T) < Limit /\ \A t \in Sessions \ {s} : ps'[t] = ps[t] /\ job'[t] = job[t]
    BY <1>4, <2>1, ApproveRows DEF check_roe_gate
  <2>3. excused' = excused
    BY <1>4 DEF approve, history
  <2>4. Counted' \subseteq T \cup {s}
    <3> SUFFICES ASSUME NEW t \in Counted', t # s PROVE t \in T
      OBVIOUS
    <3>1. t \in Sessions /\ t \notin excused' /\ LiveNext(t) /\ ~ps'[t].late
      BY DEF Counted, LiveNext, LiveJob
    <3>2. t \in Counted
      BY <2>2, <2>3, <3>1 DEF Counted, LiveNext, LiveJob
    <3> QED BY <3>1, <3>2 DEF Approved, Counted, LiveJob
  <2>5. IsFiniteSet(T) /\ s \notin T
    BY <1>1, FS_Subset
  <2> HIDE DEF T
  <2>6. IsFiniteSet(T \cup {s}) /\ Cardinality(T \cup {s}) = Cardinality(T) + 1 /\ Cardinality(T) \in Nat
    BY <2>5, FS_AddElement, FS_CardinalityType
  <2>7. Cardinality(Counted') <= Cardinality(T \cup {s}) /\ Cardinality(Counted') \in Nat
    BY <2>4, <2>6, FS_Subset, FS_CardinalityType
  <2>8. Cardinality(Counted') <= Limit
    BY <1>1, <2>2, <2>6, <2>7
  <2> QED BY <2>8 DEF Counted, JobsWithinLimit
<1>5. ASSUME NEW d \in Deciders, approve(d), UNCHANGED <<ps, job>> PROVE Counted' \subseteq Counted
  <2>1. excused' = excused
    BY <1>5 DEF approve, history
  <2> QED BY <1>5, <2>1 DEF Counted, LiveJob
<1> QED BY <1>3, <1>4, <1>5, CountedStep

----------------------------------------------------------------------------
(* What the row of a session comes to say, whatever happens.               *)
RowKept(t) ==
    /\ ps'[t].status = "pending" => ps[t].status = "pending"
    /\ ps'[t].verified \/ ps'[t].status = "cleaned" => Vouched(t) \/ t \in excused'
    /\ t \notin held /\ ~retain /\ Bare(ps[t]) => Bare(ps'[t])

LEMMA RowsKept ==
  ASSUME TypeOK, [Next]_vars, NEW t \in Sessions
  PROVE  RowKept(t)
<1>1. CASE RowsGo
  BY <1>1 DEF RowsGo, Goes, RowKept
<1>2. CASE sweep_end
  BY <1>2, SweepRows DEF RowKept, Vouched
<1>3. ASSUME NEW d \in Deciders, approve(d) PROVE RowKept(t)
  BY <1>3, ApproveRows DEF RowKept, Vouched, Bare
<1>4. ASSUME NEW d \in Deciders, reject(d) PROVE RowKept(t)
  BY <1>4, RejectRows DEF RowKept, Vouched, Bare
<1> QED BY <1>1, <1>2, <1>3, <1>4, StepGoes DEF Decides

(* What happens to the job of a session and to its Scout.                  *)
Calm(t) ==
    /\ job'[t].attempt = job[t].attempt /\ (job[t].st = "none" => job'[t].st = "none")
    /\ exec'[t] \in {exec[t], Idle}
    /\ open'[t] = open[t] /\ queue'[t] \subseteq queue[t]

LEMMA CalmOrNot ==
  ASSUME TypeOK, [Next]_vars, NEW t \in Sessions
  PROVE  \/ Calm(t)
         \/ poll_next_job(t) \/ run_module(t) \/ run_ends(t)
         \/ \E d \in Deciders : approve(d) /\ reading[d] = t /\ ~UNCHANGED <<ps, job>>
<1>0. /\ job \in [Sessions -> Job] /\ exec \in [Sessions -> Exec]
      /\ open \in [Sessions -> SUBSET (1 .. MaxAttempts)]
      /\ queue \in [Sessions -> SUBSET [attempt : 1 .. MaxAttempts, verified : BOOLEAN]]
  BY DEF TypeOK, Exec
<1>1. ASSUME UNCHANGED <<job, exec, open, queue>> PROVE Calm(t)
  BY <1>1 DEF Calm
<1>2. ASSUME NEW s \in Sessions, NEW st \in {"ended", "queued"},
             job' = [job EXCEPT ![s].st = st], job[s].st # "none",
             exec' = exec \/ exec' = [exec EXCEPT ![s] = Idle], UNCHANGED <<open, queue>>
      PROVE  Calm(t)
  BY <1>0, <1>2 DEF Calm, Job
<1>3. ASSUME NEW s \in Sessions,
             closed_by_poll(s) \/ reclaim(s) \/ report_job_status(s) \/ reap_stale_jobs(s)
      PROVE  Calm(t)
  <2>1. /\ UNCHANGED <<open, queue>>
        /\ exec' = exec \/ exec' = [exec EXCEPT ![s] = Idle]
        /\ \/ \E st \in {"ended", "queued"} : job' = [job EXCEPT ![s].st = st] /\ job[s].st # "none"
           \/ UNCHANGED job
    BY <1>3 DEF closed_by_poll, reclaim, report_job_status, reap_stale_jobs, LiveJob, Current
  <2>2. CASE UNCHANGED job
    BY <1>0, <2>1, <2>2 DEF Calm
  <2> QED BY <1>2, <2>1, <2>2
<1>4. ASSUME NEW s \in Sessions, crash(s) PROVE Calm(t)
  BY <1>0, <1>4 DEF Calm, crash
<1>5. ASSUME NEW s \in Sessions, NEW r \in queue[s],
             record_pentest_result(s, r) \/ result_refused(s, r)
      PROVE  Calm(t)
  BY <1>0, <1>5 DEF Calm, record_pentest_result, result_refused
<1>6. ASSUME NEW s \in Sessions, s # t, poll_next_job(s) \/ run_module(s) \/ run_ends(s)
      PROVE  Calm(t)
  BY <1>0, <1>6 DEF Calm, poll_next_job, run_module, run_ends
<1>7. ASSUME NEW d \in Deciders, approve(d), reading[d] # t \/ UNCHANGED <<ps, job>>
      PROVE  Calm(t)
  BY <1>7, ApproveRows DEF Calm, approve
<1> QED
  BY <1>1, <1>3, <1>4, <1>5, <1>6, <1>7
     DEF Next, vars, decide_begin, reject, record_cleanup, time_passes, place_hold, release_hold,
         sweep_begin, sweep_end

(* A row that is vouched for has an attempt, and calm keeps that.          *)
LEMMA VouchedHasAttempt ==
  ASSUME TypeOK, NEW t \in Sessions, Torn(t), Vouched(t)
  PROVE  job[t].attempt # 0
<1>1. \A r \in queue[t] : r.attempt # 0
  BY PentestConstants DEF TypeOK
<1> QED BY <1>1 DEF Torn, Vouched

LEMMA CalmIntact ==
  ASSUME TypeOK, NEW t \in Sessions, Intact(t), RowKept(t), Calm(t), t \notin excused'
  PROVE  Intact(t)'
<1>0. job[t].attempt \in Nat /\ exec[t].attempt \in Nat /\ Idle.attempt = 0 /\ Idle.stage = "idle"
  BY PentestConstants DEF TypeOK, Job, Idle
<1>1. Fresh(t)'
  <2> SUFFICES ASSUME ps'[t].status = "pending"
               PROVE  /\ job'[t].st = "none" /\ job'[t].attempt = 0
                      /\ exec'[t] = Idle /\ open'[t] = {} /\ queue'[t] = {}
    BY DEF Fresh
  <2>1. ps[t].status = "pending"
    BY DEF RowKept
  <2> QED BY <2>1 DEF Intact, Fresh, Calm
<1>2. Ordered(t)'
  BY <1>0 DEF Intact, Ordered, Calm
<1>3. Vouched(t)' => Vouched(t)
  BY DEF RowKept, Calm, Vouched
<1>4. Torn(t)'
  <2>1. ps'[t].verified \/ ps'[t].status = "cleaned" => job'[t].attempt # 0
    BY VouchedHasAttempt DEF RowKept, Intact, Calm
  <2>2. ASSUME job'[t].attempt = 1, Vouched(t)'
        PROVE  open'[t] = {} /\ exec'[t].stage \notin {"offered", "running"}
    <3>1. open[t] = {} /\ exec[t].stage \notin {"offered", "running"}
      BY <1>3, <2>2 DEF Intact, Torn, Calm
    <3> QED BY <1>0, <3>1 DEF Calm
  <2> QED BY <2>1, <2>2 DEF Torn
<1> QED BY <1>1, <1>2, <1>4 DEF Intact

LEMMA IntactStep ==
  ASSUME TypeOK, Numbered, DecidedOnce, AllIntact, [Next]_vars
  PROVE  AllIntact'
<1>1. excused \subseteq excused'
  BY DEF Next, vars, history, approve, reject, decide_begin, record_cleanup, record_pentest_result,
         result_refused, poll_next_job, closed_by_poll, reclaim, run_module, run_ends, crash,
         report_job_status, reap_stale_jobs, time_passes, place_hold, release_hold,
         sweep_begin, sweep_end
<1> SUFFICES ASSUME NEW t \in Sessions, t \notin excused' PROVE Intact(t)'
  BY DEF AllIntact
<1>2. Intact(t) /\ t \notin excused /\ RowKept(t)
  BY <1>1, RowsKept DEF AllIntact
<1>3. /\ job \in [Sessions -> Job] /\ exec \in [Sessions -> Exec]
      /\ open \in [Sessions -> SUBSET (1 .. MaxAttempts)] /\ open[t] \subseteq 1 .. MaxAttempts
      /\ queue \in [Sessions -> SUBSET [attempt : 1 .. MaxAttempts, verified : BOOLEAN]]
      /\ job[t].attempt \in Nat /\ exec[t].attempt \in Nat
      /\ \A r \in queue[t] : r.attempt \in 1 .. MaxAttempts /\ r.verified \in BOOLEAN
  BY PentestConstants DEF TypeOK, Exec, Job
<1>4. ASSUME NEW d \in Deciders, approve(d), reading[d] = t, ~UNCHANGED <<ps, job>>
      PROVE  Intact(t)'
  <2>1. ps[t].status = "pending" /\ ps'[t].status = "approved" /\ ps'[t].verified = ps[t].verified
    BY <1>2, <1>4, ApproveRows DEF DecidedOnce, approve
  <2>2. job'[t] = [st |-> "queued", attempt |-> 0] /\ UNCHANGED <<exec, open, queue>>
    BY <1>3, <1>4, ApproveRows DEF approve
  <2>3. job[t].attempt = 0 /\ exec[t] = Idle /\ open[t] = {} /\ queue[t] = {}
    BY <1>2, <2>1 DEF Intact, Fresh
  <2>4. ~ps[t].verified
    BY <1>2, <2>3 DEF Intact, Torn
  <2> QED BY <2>1, <2>2, <2>3, <2>4 DEF Intact, Fresh, Ordered, Torn, Idle
<1>5. CASE poll_next_job(t)
  <2>1. /\ job'[t].attempt = job[t].attempt + 1 /\ job[t].st = "queued"
        /\ exec'[t] = [attempt |-> job'[t].attempt, stage |-> "offered"]
        /\ UNCHANGED <<ps, open, queue>>
    BY <1>3, <1>5 DEF poll_next_job, Job
  <2>2. ps'[t].status # "pending"
    BY <1>2, <2>1 DEF Intact, Fresh
  <2>3. Ordered(t)'
    BY <1>2, <1>3, <2>1 DEF Intact, Ordered
  <2>4. job'[t].attempt = 1 => ~Vouched(t)'
    <3> SUFFICES ASSUME job[t].attempt = 0 PROVE ~Vouched(t)'
      BY <1>3, <2>1
    <3>1. queue[t] = {}
      BY <1>2, <1>3 DEF Intact, Ordered
    <3> QED BY <1>2, <2>1, <3>1 DEF Intact, Torn, Vouched
  <2> QED BY <1>3, <2>1, <2>2, <2>3, <2>4 DEF Intact, Fresh, Torn
<1>6. CASE run_module(t)
  <2>1. /\ exec[t].stage = "offered" /\ exec'[t].stage = "running"
        /\ exec'[t].attempt = exec[t].attempt
        /\ open'[t] \subseteq open[t] \cup {exec[t].attempt} /\ UNCHANGED <<ps, job, queue>>
    BY <1>3, <1>6 DEF run_module, Exec
  <2>2. ~(job[t].attempt = 1 /\ Vouched(t))
    BY <1>2, <2>1 DEF Intact, Torn
  <2>3. ps[t].status # "pending"
    BY <1>2, <2>1 DEF Intact, Fresh, Idle
  <2>4. Ordered(t)'
    BY <1>2, <2>1 DEF Intact, Ordered
  <2>5. Torn(t)'
    BY <1>2, <2>1, <2>2 DEF Intact, Torn, Vouched
  <2> QED BY <2>1, <2>3, <2>4, <2>5 DEF Intact, Fresh
<1>7. CASE run_ends(t)
  <2> DEFINE a == exec[t].attempt
  <2>1. /\ exec[t].stage = "running" /\ exec'[t].stage = "over" /\ exec'[t].attempt = a
        /\ UNCHANGED <<ps, job>>
    BY <1>3, <1>7 DEF run_ends, Exec
  <2>2. \/ \E v \in BOOLEAN : /\ queue'[t] = queue[t] \cup {[attempt |-> a, verified |-> v]}
                              /\ open'[t] = open[t] \ {a} \/ (~v /\ open'[t] = open[t])
        \/ open'[t] = open[t] /\ queue'[t] = queue[t]
    BY <1>3, <1>7 DEF run_ends
  <2>3. ps[t].status # "pending" /\ ~(job[t].attempt = 1 /\ Vouched(t))
    BY <1>2, <2>1 DEF Intact, Fresh, Torn, Idle
  <2>4. Ordered(t)'
    BY <1>2, <2>1, <2>2 DEF Intact, Ordered
  <2>5. job[t].attempt = 1 => a = 1 /\ open[t] \subseteq {1}
    <3>1. a # 0 /\ a \in Nat /\ a <= job[t].attempt
      BY <1>2, <1>3, <2>1 DEF Intact, Ordered, Numbered
    <3>2. \A b \in open[t] : b \in 1 .. MaxAttempts /\ b <= job[t].attempt
      BY <1>2, <1>3 DEF Intact, Ordered
    <3> HIDE DEF a
    <3> QED BY ONLY <1>3, <3>1, <3>2
  <2>6. ASSUME job'[t].attempt = 1, Vouched(t)' PROVE open'[t] = {}
    <3>1. job[t].attempt = 1 /\ ~Vouched(t)
      BY <2>1, <2>3, <2>6
    <3>2. PICK r \in queue'[t] : r.verified /\ r \notin queue[t]
      BY <2>1, <2>6, <3>1 DEF Vouched
    <3>3. open'[t] = open[t] \ {a}
      <4> HIDE DEF a
      <4>1. PICK v \in BOOLEAN : /\ queue'[t] = queue[t] \cup {[attempt |-> a, verified |-> v]}
                                 /\ open'[t] = open[t] \ {a} \/ (~v /\ open'[t] = open[t])
        BY ONLY <2>2, <3>2
      <4>2. r = [attempt |-> a, verified |-> v]
        BY ONLY <3>2, <4>1
      <4>3. r.verified = v
        BY ONLY <4>2
      <4> QED BY ONLY <3>2, <4>1, <4>3
    <3> QED BY <2>5, <3>1, <3>3
  <2>7. Torn(t)'
    BY <1>2, <2>1, <2>6 DEF Intact, Torn
  <2> QED BY <2>1, <2>3, <2>4, <2>7 DEF Intact, Fresh
<1> QED BY <1>2, <1>4, <1>5, <1>6, <1>7, CalmOrNot, CalmIntact

LEMMA PolicyStep ==
  ASSUME TypeOK, ByPolicy, [Next]_vars
  PROVE  ByPolicy'
<1>1. everHeld \subseteq everHeld' /\ held' \subseteq everHeld' /\ retain' = retain
  BY DEF ByPolicy, Next, vars, history, approve, reject, decide_begin, record_cleanup,
         record_pentest_result, result_refused, poll_next_job, closed_by_poll, reclaim, run_module,
         run_ends, crash, report_job_status, reap_stale_jobs, time_passes, place_hold, release_hold,
         sweep_begin, sweep_end
<1> SUFFICES ASSUME NEW t \in Sessions \ everHeld', ~retain PROVE Bare(ps'[t])
  BY <1>1 DEF ByPolicy, EvidenceByPolicy, Bare
<1>2. t \notin everHeld /\ t \notin held /\ Bare(ps[t])
  BY <1>1 DEF ByPolicy, EvidenceByPolicy, Bare
<1> QED BY <1>2, RowsKept DEF RowKept

----------------------------------------------------------------------------
LEMMA InitIInv == Init => IInv
<1> SUFFICES ASSUME Init PROVE IInv
  OBVIOUS
<1>1. \A b \in BOOLEAN :
         [status |-> "pending", required |-> b, completed |-> FALSE, verified |-> FALSE,
          evidence |-> FALSE, artifact |-> FALSE, ended |-> FALSE, late |-> FALSE,
          aged |-> FALSE] \in Session
  BY DEF Session, Statuses
<1>2. ps \in [Sessions -> Session]
  BY <1>1 DEF Init
<1>3. TypeOK
  <2>1. [st |-> "none", attempt |-> 0] \in Job
    BY PentestConstants DEF Job
  <2>2. job \in [Sessions -> Job] /\ exec \in [Sessions -> Exec]
    BY <2>1, PentestConstants DEF Init, Exec, Idle
  <2>3. /\ open \in [Sessions -> SUBSET (1 .. MaxAttempts)]
        /\ queue \in [Sessions -> SUBSET [attempt : 1 .. MaxAttempts, verified : BOOLEAN]]
    BY DEF Init
  <2>4. /\ reading \in [Deciders -> Sessions \cup {None}] /\ retain \in BOOLEAN /\ events \in 0 .. MaxEvents
        /\ held \subseteq Sessions /\ excused \subseteq Sessions /\ everHeld \subseteq Sessions
    BY PentestConstants DEF Init
  <2>5. sweep \in [on : BOOLEAN, active : SUBSET Sessions, closing : SUBSET Sessions,
                   stale : SUBSET Sessions, due : SUBSET Sessions, had : SUBSET Sessions,
                   held : SUBSET Sessions]
    BY DEF Init, NoSweep
  <2> QED BY <1>2, <2>2, <2>3, <2>4, <2>5 DEF TypeOK, Exec
<1>4. Counted = {}
  BY DEF Init, Counted, LiveJob
<1>5. Approved /\ JobsWithinLimit
  <2>1. Cardinality(Counted) = 0
    BY <1>4, FS_EmptySet
  <2> QED BY <1>4, <2>1, PentestConstants DEF Approved, JobsWithinLimit, Counted
<1>6. Numbered /\ DecidedOnce /\ SweepReads
  BY DEF Init, Numbered, DecidedOnce, SweepReads, Idle, NoSweep
<1>7. AllIntact /\ ByPolicy
  <2>1. \A s \in Sessions : /\ job[s].st = "none" /\ job[s].attempt = 0 /\ exec[s] = Idle
                            /\ open[s] = {} /\ queue[s] = {} /\ ps[s].status = "pending"
                            /\ ~ps[s].verified /\ Bare(ps[s])
    BY DEF Init, Bare
  <2>2. Idle.attempt = 0
    BY DEF Idle
  <2>3. held = {} /\ everHeld = {} /\ excused = {}
    BY DEF Init
  <2> QED
    BY ONLY <2>1, <2>2, <2>3
       DEF AllIntact, Intact, Fresh, Ordered, Torn, ByPolicy, EvidenceByPolicy, Bare
<1> QED BY <1>3, <1>5, <1>6, <1>7 DEF IInv

LEMMA NextIInv == IInv /\ [Next]_vars => IInv'
BY TypeStep, ExecStep, ApprovedStep, DecidedOnceStep, SweepReadsStep, LimitStep,
   IntactStep, PolicyStep DEF IInv

THEOREM Invariance == Spec => []IInv
BY InitIInv, NextIInv, PTL DEF Spec

(* Every variable has its type: an attempt number never exceeds the bound, *)
(* and every result in a queue is one of an attempt that was made.         *)
THEOREM PentestTypeCorrect == Spec => []TypeOK
BY Invariance, PTL DEF IInv

(* The jobs of the Rules of Engagement stay within its                     *)
(* max_concurrent_sessions (check_roe_gate), for any number of decisions.  *)
THEOREM PentestJobsWithinLimit == Spec => []JobsWithinLimit
BY Invariance, PTL DEF IInv

(* A session that no operator closed is cleaned only when the exploit of   *)
(* its one attempt is torn down (complete_session_for_job and              *)
(* record_pentest_result, which come in any order).                        *)
THEOREM PentestCleanedIsTornDown == Spec => []CleanedIsTornDown
<1>1. IInv => CleanedIsTornDown
  BY DEF IInv, AllIntact, Intact, Torn, Vouched, CleanedIsTornDown
<1> QED BY <1>1, Invariance, PTL

(* Evidence that the policy does not keep is nowhere stored, and evidence  *)
(* under a legal hold goes away in no other step than the end of a purge   *)
(* that read the holds before this one was placed.                         *)
THEOREM PentestEvidenceByRule == Spec => EvidenceByRule
<1>1. ASSUME IInv, [Next]_vars
      PROVE  [HeldEvidenceKept]_vars
  <2> SUFFICES ASSUME NEW s \in held, ps[s].evidence, ~ps'[s].evidence
               PROVE  s \in sweep.due \ sweep.held
    BY DEF HeldEvidenceKept
  <2>1. TypeOK /\ s \in Sessions
    BY <1>1 DEF IInv, TypeOK
  <2>2. ~RowsGo
    BY <2>1 DEF RowsGo, Goes
  <2>3. ~Decides
    BY <2>1, ApproveRows, RejectRows DEF Decides
  <2>4. s \in sweep.due
    BY <1>1, <2>1, <2>2, <2>3, StepGoes, SweepRows
  <2> QED BY <1>1, <2>4 DEF IInv, SweepReads
<1>2. IInv' => [EvidenceByPolicy']_vars
  BY DEF IInv, ByPolicy
<1>3. [EvidenceByPolicy']_vars /\ [HeldEvidenceKept]_vars => [EvidenceByPolicy' /\ HeldEvidenceKept]_vars
  OBVIOUS
<1> QED BY <1>1, <1>2, <1>3, Invariance, PTL DEF Spec, EvidenceByRule
=============================================================================
