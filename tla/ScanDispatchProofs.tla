-------------------------- MODULE ScanDispatchProofs --------------------------
(***************************************************************************)
(* The creation and the start of scan jobs, for any number of networks,    *)
(* Scouts, ranges and jobs.                                                *)
(*                                                                         *)
(* Creators decide on what they have read and insert later, so nothing     *)
(* that a transaction carries says that its network is still free: what    *)
(* keeps the tests of a network apart is the index that the insert meets.  *)
(* OneEach states it of pairs of jobs, which is inductive, and gives the   *)
(* bound on their number.                                                  *)
(***************************************************************************)
EXTENDS ScanDispatch, FiniteSetTheorems, WellFoundedInduction, TLAPS

(* Every change makes one more, and raises one version by one at most.     *)
VersionsFollowEdits == \A r \in Ranges : scope[r] # None => scope[r].ver <= edits + 1

OneEach ==
    \A i, j \in Jobs :
        /\ job[i] # None /\ job[j] # None
        /\ job[i].net = job[j].net /\ job[i].net # None
        => i = j

IInv == TypeOK /\ VersionsFollowEdits /\ OneEach

(* A set of numbers up to a bound has a largest one.                       *)
LEMMA LargestVersion ==
  ASSUME NEW n \in Nat, NEW S \in SUBSET (1..n), S # {}
  PROVE  Max(S) \in S
<1> DEFINE Above(x) == {y \in S : y > x}
           Uppers == {Above(x) : x \in S}
           N == 1..n
<1>1. IsFiniteSet(N)
  BY FS_Interval
<1>2. Uppers \subseteq FiniteSubsetsOf(N) /\ Uppers # {}
  <2>1. Uppers \subseteq SUBSET N /\ Uppers # {}
    OBVIOUS
  <2> QED BY <1>1, <2>1, FS_FiniteSubsetsOfFinite, Zenon
<1>3. IsWellFoundedOn(StrictSubsetOrdering(N), FiniteSubsetsOf(N))
  BY FS_StrictSubsetOrderingWellFounded
<1>4. PICK U \in Uppers : \A W \in Uppers : ~ (<<W, U>> \in StrictSubsetOrdering(N))
  <2> HIDE DEF Uppers, N
  <2> QED BY <1>2, <1>3, WFMin
<1>5. PICK x \in S : U = Above(x)
  OBVIOUS
<1>6. ASSUME NEW y \in S, y > x PROVE FALSE
  <2>1. Above(y) \subseteq Above(x) /\ Above(y) # Above(x)
    <3>1. S \subseteq Int /\ x \in Int /\ y \in Int
      OBVIOUS
    <3>2. \A z \in S : z > y => z > x
      BY ONLY <1>6, <3>1
    <3>3. y \in Above(x) /\ y \notin Above(y)
      BY <1>6, <3>1
    <3> QED BY <3>2, <3>3, Zenon
  <2>2. <<Above(y), Above(x)>> \in StrictSubsetOrdering(N)
    BY <2>1 DEF StrictSubsetOrdering
  <2>3. Above(y) \in Uppers
    OBVIOUS
  <2> HIDE DEF Above, Uppers
  <2> QED BY <1>4, <1>5, <2>2, <2>3
<1>7. \A y \in S : x >= y
  BY <1>6
<1> QED BY <1>7 DEF Max

(* The document of a Scout is well formed.                                 *)
LEMMA DocumentTyped ==
  ASSUME IInv, NEW p \in Probes
  PROVE  build_policy_document(p) \in Policy
<1> DEFINE cidrs == _probe_scopes(p)
           V == {scope[r].ver : r \in cidrs}
<1>1. cidrs \subseteq Ranges /\ \A r \in cidrs : scope[r] # None
  BY DEF _probe_scopes, network_cidrs
<1>2. V \subseteq 1..(MaxEdits + 1)
  BY <1>1 DEF IInv, TypeOK, Row
<1>3. CASE cidrs = {}
  BY <1>1, <1>3, ScanDispatchConstants DEF build_policy_document, Policy
<1>4. CASE cidrs # {}
  <2>1. V # {}
    BY <1>4
  <2> HIDE DEF V
  <2>2. Max(V) \in V
    <3>1. MaxEdits + 1 \in Nat
      BY ScanDispatchConstants
    <3> QED BY <1>2, <2>1, <3>1, LargestVersion
  <2>3. Max(V) \in 0..(MaxEdits + 1)
    <3>1. Max(V) \in 1..(MaxEdits + 1)
      BY <1>2, <2>2, Zenon
    <3> HIDE DEF cidrs
    <3> QED BY ONLY <3>1, ScanDispatchConstants
  <2>4. build_policy_document(p) = [ver |-> Max(V), cidrs |-> cidrs]
    BY <1>4 DEF build_policy_document, V
  <2> QED BY <1>1, <2>3, <2>4 DEF Policy
<1> QED BY <1>3, <1>4

ScopesInOrder == scope \in [Ranges -> Row \cup {None}] /\ VersionsFollowEdits

(* Every change of an administrator leaves ranges and versions in order.  *)
LEMMA AdministratorScopes ==
  ASSUME IInv, Administrator
  PROVE  ScopesInOrder'
<1>0. /\ scope \in [Ranges -> Row \cup {None}]
      /\ VersionsFollowEdits /\ edits \in 0..MaxEdits
      /\ \A r \in Ranges : scope[r] # None => scope[r] \in Row
  BY DEF IInv, TypeOK
<1> USE <1>0, ScanDispatchConstants DEF ScopesInOrder, VersionsFollowEdits, Row, Edit, policyVars
<1>1. ASSUME NEW n \in Networks, NEW rs \in SUBSET Ranges, NEW ps \in SUBSET Probes, create_network(n, rs, ps)
      PROVE  ScopesInOrder'
  BY <1>1 DEF create_network
<1>2. ASSUME NEW n \in Networks, delete_network(n) PROVE ScopesInOrder'
  BY <1>2 DEF delete_network
<1>3. ASSUME NEW n \in Networks, NEW r \in Ranges, add_range(n, r)
      PROVE  ScopesInOrder'
  BY <1>3 DEF add_range
<1>4. ASSUME NEW n \in Networks, NEW r \in Ranges, create_scope(n, r)
      PROVE  ScopesInOrder'
  BY <1>4 DEF create_scope
<1>5. ASSUME NEW r \in Ranges, delete_scope(r) PROVE ScopesInOrder'
  BY <1>5 DEF delete_scope
<1>6. ASSUME NEW r \in Ranges, update_scope(r) PROVE ScopesInOrder'
  <2>1. scope[r] \in Row /\ scope[r].ver <= edits + 1 /\ edits' = edits + 1 /\ edits < MaxEdits
    BY <1>6 DEF update_scope
  <2>2. PICK on \in BOOLEAN : scope' = [scope EXCEPT ![r].on = on, ![r].ver = @ + 1]
    BY <1>6 DEF update_scope
  <2>3. scope'[r] \in Row /\ scope'[r].ver = scope[r].ver + 1
    <3>1. scope'[r] = [net |-> scope[r].net, on |-> on, ver |-> scope[r].ver + 1]
      BY <2>1, <2>2
    <3>2. scope[r].ver + 1 \in 1..(MaxEdits + 1) /\ scope[r].net \in Networks
      BY <2>1
    <3> QED BY <3>1, <3>2
  <2>4. \A q \in Ranges : q # r => scope'[q] = scope[q]
    BY <2>2
  <2>5. scope' \in [Ranges -> Row \cup {None}]
    BY <2>2, <2>3
  <2>6. \A q \in Ranges : scope'[q] # None => scope'[q].ver <= edits' + 1
    BY <2>1, <2>3, <2>4
  <2> QED BY <2>5, <2>6
<1>7. ASSUME NEW n \in Networks, update_network(n) PROVE ScopesInOrder'
  BY <1>7 DEF update_network
<1>8. ASSUME NEW n \in Networks, update_schedule(n) PROVE ScopesInOrder'
  BY <1>8 DEF update_schedule
<1>9. ASSUME NEW n \in Networks, NEW p \in Probes, bind_scout(n, p)
      PROVE  ScopesInOrder'
  BY <1>9 DEF bind_scout
<1>10. ASSUME NEW n \in Networks, NEW p \in Probes, unbind_scout(n, p)
      PROVE  ScopesInOrder'
  BY <1>10 DEF unbind_scout
<1>11. ASSUME NEW p \in Probes, set_probe_status(p) PROVE ScopesInOrder'
  BY <1>11 DEF set_probe_status
<1> QED
  BY <1>1, <1>2, <1>3, <1>4, <1>5, <1>6, <1>7, <1>8, <1>9, <1>10, <1>11
     DEF Administrator

RestTyped ==
    /\ network \in [Networks -> {"on", "off", "absent"}]
    /\ primary \subseteq bound /\ bound \subseteq Networks \X Probes
    /\ enrolled \subseteq Probes /\ edits \in 0..MaxEdits
    /\ schedule \in [Networks -> [on : BOOLEAN, wait : Slot]]
    /\ fired \in [Networks -> 0..2]
    /\ tx \in [Creators -> Tx \cup {None}]
    /\ job \in [Jobs -> Job \cup {None}]
    /\ held \in [Probes -> Policy \cup {None}]
    /\ step \in [Probes -> {"beat", "poll"}]

(* Every change of an administrator keeps the types of the rest.           *)
LEMMA AdministratorTyped ==
  ASSUME IInv, Administrator
  PROVE  RestTyped'
<1>0. RestTyped
  BY DEF IInv, TypeOK, RestTyped
<1>19. 0..Interval \subseteq Slot /\ Interval \in Slot
  BY ScanDispatchConstants DEF Slot
<1> USE <1>0, ScanDispatchConstants DEF RestTyped, Edit, DispatchUnchanged, scheduleVars, scoutVars, policyVars
<1>1. ASSUME NEW n \in Networks, NEW rs \in SUBSET Ranges, NEW ps \in SUBSET Probes, create_network(n, rs, ps)
      PROVE  RestTyped'
  BY <1>1 DEF create_network
<1>2. ASSUME NEW n \in Networks, delete_network(n) PROVE RestTyped'
  <2>1. job' \in [Jobs -> Job \cup {None}]
    <3>1. \A j \in Jobs : job[j] \in Job => [job[j] EXCEPT !.net = None] \in Job
      BY DEF Job
    <3>2. \A j \in Jobs : job'[j] \in Job \cup {None}
      BY <1>2, <3>1 DEF delete_network
    <3>3. job' = [j \in Jobs |-> job'[j]]
      BY <1>2 DEF delete_network
    <3> QED BY <3>2, <3>3
  <2>2. /\ primary' \subseteq bound' /\ bound' \subseteq Networks \X Probes
        /\ schedule' \in [Networks -> [on : BOOLEAN, wait : Slot]]
    BY <1>2, <1>19 DEF delete_network
  <2> QED BY <1>2, <2>1, <2>2 DEF delete_network
<1>3. ASSUME NEW n \in Networks, NEW r \in Ranges, add_range(n, r)
      PROVE  RestTyped'
  BY <1>3 DEF add_range
<1>4. ASSUME NEW n \in Networks, NEW r \in Ranges, create_scope(n, r)
      PROVE  RestTyped'
  BY <1>4 DEF create_scope
<1>5. ASSUME NEW r \in Ranges, delete_scope(r) PROVE RestTyped'
  BY <1>5 DEF delete_scope
<1>6. ASSUME NEW r \in Ranges, update_scope(r) PROVE RestTyped'
  BY <1>6 DEF update_scope
<1>7. ASSUME NEW n \in Networks, update_network(n) PROVE RestTyped'
  BY <1>7 DEF update_network
<1>8. ASSUME NEW n \in Networks, update_schedule(n) PROVE RestTyped'
  <2>1. schedule' \in [Networks -> [on : BOOLEAN, wait : Slot]]
    <3>1. CASE schedule' = [schedule EXCEPT ![n].on = ~@]
      <4> DEFINE b == ~schedule[n].on
      <4>1. b \in BOOLEAN
        OBVIOUS
      <4>2. schedule' = [schedule EXCEPT ![n].on = b]
        BY <3>1
      <4> HIDE DEF b
      <4> QED BY <4>1, <4>2
    <3>2. CASE \E w \in 0..Interval : schedule' = [schedule EXCEPT ![n].wait = w]
      BY <1>8, <1>19, <3>2 DEF update_schedule
    <3> QED BY <1>8, <3>1, <3>2 DEF update_schedule
  <2> QED BY <1>8, <2>1 DEF update_schedule
<1>9. ASSUME NEW n \in Networks, NEW p \in Probes, bind_scout(n, p)
      PROVE  RestTyped'
  BY <1>9 DEF bind_scout
<1>10. ASSUME NEW n \in Networks, NEW p \in Probes, unbind_scout(n, p)
      PROVE  RestTyped'
  BY <1>10 DEF unbind_scout
<1>11. ASSUME NEW p \in Probes, set_probe_status(p) PROVE RestTyped'
  BY <1>11 DEF set_probe_status
<1> QED
  BY <1>1, <1>2, <1>3, <1>4, <1>5, <1>6, <1>7, <1>8, <1>9, <1>10, <1>11
     DEF Administrator

(* The next slot lies within an interval from now.                         *)
LEMMA NextSlot ==
  ASSUME NEW w \in Int, w <= 0
  PROVE  _next_slot(w) \in 1..Interval
<1>1. Interval \in Nat \ {0}
  BY ScanDispatchConstants
<1>2. PICK q \in Int : Interval * q <= -w /\ -w < Interval * (q + 1)
  <2> DEFINE d == (-w) \div Interval
  <2>1. d \in Int /\ Interval * d <= -w /\ -w < Interval * (d + 1)
    BY <1>1
  <2> QED BY <2>1
<1> DEFINE v == w + Interval * (q + 1)
<1>3. v \in 1..Interval
  BY <1>1, <1>2
<1>4. (v - w) % Interval = 0
  BY <1>1, <1>2
<1> QED BY <1>3, <1>4 DEF _next_slot

(* A transaction that begins is well formed, and changes nothing else.     *)
LEMMA BeginTyped ==
  ASSUME IInv, NEW c \in Creators, NEW t \in Tx, Begin(c, t)
  PROVE  tx' \in [Creators -> Tx \cup {None}]
  BY DEF IInv, TypeOK, Begin

(* So is the transaction of the schedule, whoever fires it.                *)
LEMMA FireTyped ==
  ASSUME IInv, NEW c \in Creators, NEW n \in Networks, NEW slot \in Slot,
         fire_schedule_read(c, n, slot)
  PROVE  /\ tx' \in [Creators -> Tx \cup {None}]
         /\ UNCHANGED <<policyVars, edits, schedule, job, scoutVars>>
<1>1. network_cidrs(n) \in SUBSET Ranges /\ select_network_scout(n) \subseteq Probes
  BY DEF IInv, TypeOK, network_cidrs, select_network_scout
<1>2. \A p \in Probes : build_policy_document(p).ver \in 0..(MaxEdits + 1)
  BY DocumentTyped DEF Policy
<1>3. \A p \in Probes \cup {None}, rs \in SUBSET Ranges, v \in 0..(MaxEdits + 1) :
         [net |-> n, probe |-> p, targets |-> rs, ver |-> v, slot |-> slot] \in Tx
  BY DEF Tx
<1>4. 0 \in 0..(MaxEdits + 1)
  BY ScanDispatchConstants
<1>5. PICK t \in Tx : Begin(c, t)
  BY <1>1, <1>2, <1>3, <1>4 DEF fire_schedule_read
<1> QED BY <1>5, BeginTyped DEF Begin

(* A write inserts a well-formed job or none.                              *)
LEMMA PersistTyped ==
  ASSUME IInv, NEW t \in Tx, _persist_job(t)
  PROVE  job' \in [Jobs -> Job \cup {None}]
<1>1. job \in [Jobs -> Job \cup {None}]
  BY DEF IInv, TypeOK
<1>2. CASE Blocked(t)
  BY <1>1, <1>2 DEF _persist_job
<1>3. CASE ~Blocked(t)
  <2>1. t.probe \in Probes
    BY <1>3 DEF Blocked, Tx
  <2>2. [status |-> "queued", net |-> t.net, probe |-> t.probe,
         targets |-> t.targets, ver |-> t.ver] \in Job
    BY <2>1 DEF Tx, Job
  <2> QED BY <1>1, <1>3, <2>2 DEF _persist_job
<1> QED BY <1>2, <1>3

(* The other steps keep the types, and change no range.                    *)
LEMMA DispatchTyped ==
  ASSUME IInv, [Next]_vars, ~Administrator
  PROVE  (RestTyped /\ ScopesInOrder)'
<1>0. RestTyped /\ scope \in [Ranges -> Row \cup {None}] /\ VersionsFollowEdits
  BY DEF IInv, TypeOK, RestTyped
<1> USE <1>0, ScanDispatchConstants
        DEF RestTyped, ScopesInOrder, VersionsFollowEdits, scheduleVars, scoutVars, policyVars
<1>1. ASSUME NEW n \in Networks \cup {None}, NEW p \in Probes, NEW rs \in SUBSET Ranges, create_scan_job_read(n, p, rs)
      PROVE  (RestTyped /\ ScopesInOrder)'
  <2>1. build_policy_document(p).ver \in 0..(MaxEdits + 1)
    BY DocumentTyped DEF Policy
  <2>2. 0 \in Slot
    BY DEF Slot
  <2>3. [net |-> n, probe |-> p, targets |-> rs, ver |-> build_policy_document(p).ver,
         slot |-> 0] \in Tx
    BY <2>1, <2>2 DEF Tx
  <2>4. tx' \in [Creators -> Tx \cup {None}]
    BY <1>1, <2>3, BeginTyped DEF create_scan_job_read, Creators
  <2> QED BY <1>1, <2>4 DEF create_scan_job_read, Begin
<1>2. ASSUME NEW n \in Networks, run_now_read(n) PROVE (RestTyped /\ ScopesInOrder)'
  <2>1. 0 \in Slot /\ "request" \in Creators
    BY DEF Slot, Creators
  <2>2. /\ tx' \in [Creators -> Tx \cup {None}]
        /\ UNCHANGED <<policyVars, edits, schedule, job, scoutVars>>
    BY ONLY IInv, <1>2, <2>1, FireTyped DEF run_now_read
  <2> QED BY <1>2, <2>2 DEF run_now_read
<1>3. ASSUME request_write PROVE (RestTyped /\ ScopesInOrder)'
  <2>1. tx["request"] \in Tx
    BY <1>3 DEF request_write, Creators
  <2>2. job' \in [Jobs -> Job \cup {None}]
    BY ONLY IInv, <1>3, <2>1, PersistTyped DEF request_write
  <2> QED BY <1>3, <2>2 DEF request_write
<1>4. ASSUME sweep_write PROVE (RestTyped /\ ScopesInOrder)'
  <2>1. tx["sweep"] \in Tx
    BY <1>4 DEF sweep_write, Creators
  <2>2. job' \in [Jobs -> Job \cup {None}]
    BY ONLY IInv, <1>4, <2>1, PersistTyped DEF sweep_write
  <2>3. tx["sweep"].slot \in Slot
    BY <2>1 DEF Tx
  <2>4. schedule' \in [Networks -> [on : BOOLEAN, wait : Slot]]
    BY <1>4, <2>3 DEF sweep_write
  <2> QED BY <1>4, <2>2, <2>4 DEF sweep_write
<1>5. ASSUME NEW n \in Networks, run_due_schedules_read(n)
      PROVE  (RestTyped /\ ScopesInOrder)'
  <2>1. schedule[n].wait \in Int /\ schedule[n].wait <= 0 /\ "sweep" \in Creators
    BY <1>5 DEF run_due_schedules_read, Slot, Creators
  <2>2. _next_slot(schedule[n].wait) \in Slot
    BY <2>1, NextSlot DEF Slot
  <2>3. /\ tx' \in [Creators -> Tx \cup {None}]
        /\ UNCHANGED <<policyVars, edits, schedule, job, scoutVars>>
    BY ONLY IInv, <1>5, <2>1, <2>2, FireTyped DEF run_due_schedules_read
  <2>4. fired' \in [Networks -> 0..2]
    BY <1>5 DEF run_due_schedules_read
  <2> QED BY <1>5, <2>3, <2>4 DEF run_due_schedules_read
<1>6. ASSUME Tick PROVE (RestTyped /\ ScopesInOrder)'
  <2>1. schedule' \in [Networks -> [on : BOOLEAN, wait : Slot]]
    <3> DEFINE later(w) == IF w > -MaxLate THEN w - 1 ELSE w
    <3>1. \A w \in Slot : later(w) \in Slot
      BY ONLY ScanDispatchConstants DEF Slot
    <3>2. schedule' = [n \in Networks |-> [schedule[n] EXCEPT !.wait = later(@)]]
      BY <1>6 DEF Tick
    <3> HIDE DEF later
    <3>3. \A s \in [on : BOOLEAN, wait : Slot] :
             [s EXCEPT !.wait = later(@)] \in [on : BOOLEAN, wait : Slot]
      BY ONLY <3>1
    <3> QED BY ONLY <1>0, <3>2, <3>3 DEF RestTyped
  <2> QED BY <1>6, <2>1 DEF Tick
<1>7. ASSUME NEW p \in Probes, heartbeat(p) PROVE (RestTyped /\ ScopesInOrder)'
  BY <1>7 DEF heartbeat, Go
<1>8. ASSUME NEW p \in Probes, SyncPolicy(p) PROVE (RestTyped /\ ScopesInOrder)'
  <2>1. held' \in [Probes -> Policy \cup {None}]
    BY <1>8, DocumentTyped DEF SyncPolicy
  <2> QED BY <1>8, <2>1 DEF SyncPolicy, Go
<1>9. ASSUME NEW p \in Probes, PollAndStart(p) PROVE (RestTyped /\ ScopesInOrder)'
  <2>1. PICK j \in QueuedFor(p) :
           \/ job' = [job EXCEPT ![j].status = "running"]
           \/ job' = [job EXCEPT ![j] = None]
    BY <1>9 DEF PollAndStart
  <2>2. job[j] \in Job /\ j \in Jobs
    BY <2>1 DEF QueuedFor
  <2>3. [job[j] EXCEPT !.status = "running"] \in Job
    BY ONLY <2>2 DEF Job
  <2>4. job' \in [Jobs -> Job \cup {None}]
    <3>1. job \in [Jobs -> Job \cup {None}]
      OBVIOUS
    <3>2. CASE job' = [job EXCEPT ![j].status = "running"]
      <4>1. job' = [job EXCEPT ![j] = [job[j] EXCEPT !.status = "running"]]
        BY <3>2
      <4> QED BY ONLY <2>3, <3>1, <4>1
    <3>3. CASE job' = [job EXCEPT ![j] = None]
      BY ONLY <3>1, <3>3
    <3> QED BY <2>1, <3>2, <3>3
  <2> QED BY <1>9, <2>4 DEF PollAndStart, Go
<1>10. ASSUME NEW p \in Probes, NoPoll(p) PROVE (RestTyped /\ ScopesInOrder)'
  BY <1>10 DEF NoPoll, Go
<1>11. ASSUME NEW j \in Jobs, JobEnds(j) PROVE (RestTyped /\ ScopesInOrder)'
  BY <1>11 DEF JobEnds
<1>12. CASE UNCHANGED vars
  BY <1>12 DEF vars, policyVars, scheduleVars, scoutVars
<1>13. \A n \in Networks : network_cidrs(n) \in SUBSET Ranges
  BY DEF network_cidrs
<1> QED
  BY <1>1, <1>2, <1>3, <1>4, <1>5, <1>6, <1>7, <1>8, <1>9, <1>10, <1>11, <1>12, <1>13
     DEF Next, Create, Sweep, Scout

----------------------------------------------------------------------------
(* Jobs that end, start or lose their network keep the tests apart.        *)
LEMMA FewerKept ==
  ASSUME OneEach,
         \A j \in Jobs : job'[j] # None =>
            /\ job[j] # None
            /\ job'[j].net = job[j].net \/ job'[j].net = None
  PROVE  OneEach'
<1> SUFFICES ASSUME NEW i \in Jobs, NEW j \in Jobs,
                    job'[i] # None, job'[j] # None,
                    job'[i].net = job'[j].net, job'[i].net # None
             PROVE  i = j
  BY DEF OneEach
<1>1. job'[i].net = job[i].net /\ job'[j].net = job[j].net
  OBVIOUS
<1> QED BY <1>1 DEF OneEach

(* An insertion meets the index: the network has no other active job.      *)
LEMMA PersistKeepsApart ==
  ASSUME IInv, NEW t \in Tx, _persist_job(t)
  PROVE  OneEach'
<1>1. job \in [Jobs -> Job \cup {None}] /\ OneEach
  BY DEF IInv, TypeOK
<1>2. CASE Blocked(t)
  BY <1>1, <1>2 DEF _persist_job, OneEach
<1>3. CASE ~Blocked(t)
  <2> DEFINE new == [status |-> "queued", net |-> t.net, probe |-> t.probe,
                     targets |-> t.targets, ver |-> t.ver]
             free == {j \in Jobs : job[j] = None}
  <2>1. PICK k \in free : job' = [job EXCEPT ![k] = new]
    BY <1>3 DEF _persist_job
  <2>2. new.net = t.net
    OBVIOUS
  <2>3. t.net # None => \A j \in Jobs : job[j] # None => job[j].net # t.net
    BY <1>3 DEF Blocked, network_has_active_job
  <2> HIDE DEF new
  <2>4. \A j \in Jobs : job'[j] = IF j = k THEN new ELSE job[j]
    BY <1>1, <2>1
  <2> QED BY <1>1, <2>2, <2>3, <2>4 DEF OneEach
<1> QED BY <1>2, <1>3

(* No step brings a second test of a network into flight.                  *)
LEMMA OneEachStep ==
  ASSUME IInv, [Next]_vars
  PROVE  OneEach'
<1>0. OneEach /\ job \in [Jobs -> Job \cup {None}] /\ tx \in [Creators -> Tx \cup {None}]
  BY DEF IInv, TypeOK
<1>1. ASSUME UNCHANGED job PROVE OneEach'
  BY <1>0, <1>1 DEF OneEach
<1>2. CASE Administrator
  <2>1. ASSUME NEW n \in Networks, delete_network(n) PROVE OneEach'
    <3>1. \A j \in Jobs : job'[j] # None =>
            /\ job[j] # None
            /\ job'[j].net = job[j].net \/ job'[j].net = None
      <4>1. \A j \in Jobs : job[j] # None => [job[j] EXCEPT !.net = None].net = None
        BY <1>0 DEF Job
      <4> QED BY <2>1, <4>1 DEF delete_network
    <3> QED BY <1>0, <3>1, FewerKept
  <2>2. (\E n \in Networks : delete_network(n)) \/ UNCHANGED job
    BY <1>2 DEF Administrator, DispatchUnchanged, create_network, add_range, create_scope,
       delete_scope, update_scope, update_network, update_schedule, bind_scout,
       unbind_scout, set_probe_status
  <2> QED BY <1>1, <2>1, <2>2
<1>3. CASE Create
  <2>1. CASE request_write
    <3>1. tx["request"] \in Tx /\ _persist_job(tx["request"])
      BY <1>0, <2>1 DEF request_write, Creators
    <3> QED BY <3>1, PersistKeepsApart
  <2>2. request_write \/ UNCHANGED job
    BY <1>3 DEF Create, create_scan_job_read, run_now_read, fire_schedule_read, Begin
  <2> QED BY <1>1, <2>1, <2>2
<1>4. CASE Sweep
  <2>1. CASE sweep_write
    <3>1. tx["sweep"] \in Tx /\ _persist_job(tx["sweep"])
      BY <1>0, <2>1 DEF sweep_write, Creators
    <3> QED BY <3>1, PersistKeepsApart
  <2>2. sweep_write \/ UNCHANGED job
    BY <1>4 DEF Sweep, run_due_schedules_read, fire_schedule_read, Begin
  <2> QED BY <1>1, <2>1, <2>2
<1>5. CASE Tick
  BY <1>1, <1>5 DEF Tick
<1>6. ASSUME NEW p \in Probes, Scout(p) PROVE OneEach'
  <2>1. ASSUME PollAndStart(p) PROVE OneEach'
    <3>1. PICK j \in QueuedFor(p) :
             \/ job' = [job EXCEPT ![j].status = "running"]
             \/ job' = [job EXCEPT ![j] = None]
      BY <2>1 DEF PollAndStart
    <3>2. job[j] \in Job /\ j \in Jobs /\ job[j] # None
      BY <1>0, <3>1 DEF QueuedFor
    <3>3. [job[j] EXCEPT !.status = "running"].net = job[j].net
      BY <3>2 DEF Job
    <3>4. \A i \in Jobs : job'[i] # None => job[i] # None /\ job'[i].net = job[i].net
      BY <1>0, <3>1, <3>2, <3>3
    <3> QED BY <1>0, <3>4, FewerKept
  <2>2. PollAndStart(p) \/ UNCHANGED job
    BY <1>6 DEF Scout, heartbeat, SyncPolicy, NoPoll
  <2> QED BY <1>1, <2>1, <2>2
<1>7. ASSUME NEW k \in Jobs, JobEnds(k) PROVE OneEach'
  <2>1. \A i \in Jobs : job'[i] # None => job[i] # None /\ job'[i].net = job[i].net
    BY <1>0, <1>7 DEF JobEnds
  <2> QED BY <1>0, <2>1, FewerKept
<1>8. CASE UNCHANGED vars
  BY <1>1, <1>8 DEF vars
<1> QED BY <1>2, <1>3, <1>4, <1>5, <1>6, <1>7, <1>8 DEF Next

LEMMA InitIInv == Init => IInv
<1> SUFFICES ASSUME Init PROVE IInv
  OBVIOUS
<1> USE ScanDispatchConstants
<1>1. ScopesInOrder
  <2> DEFINE First == [net : {n \in Networks : network[n] = "on"}, on : {TRUE}, ver : {1}]
  <2>1. First \subseteq Row /\ \A f \in First : f.ver = 1
    <3>1. 1 \in 1..(MaxEdits + 1)
      OBVIOUS
    <3>2. ASSUME NEW f \in First PROVE f \in Row /\ f.ver = 1
      BY <3>1 DEF Row
    <3> QED BY <3>2
  <2>2. scope \in [Ranges -> {None} \cup First] /\ edits = 0
    BY DEF Init
  <2> HIDE DEF First
  <2> QED BY ONLY <2>1, <2>2 DEF ScopesInOrder, VersionsFollowEdits
<1>2. Interval \in Slot /\ 0 \in 0..MaxEdits /\ 0 \in 0..2
  BY DEF Slot
<1>3. RestTyped
  BY <1>2 DEF Init, RestTyped
<1>4. OneEach
  BY DEF Init, OneEach
<1> QED BY <1>1, <1>3, <1>4 DEF IInv, TypeOK, RestTyped, ScopesInOrder

LEMMA NextIInv == IInv /\ [Next]_vars => IInv'
<1> SUFFICES ASSUME IInv, [Next]_vars PROVE IInv'
  OBVIOUS
<1>1. (RestTyped /\ ScopesInOrder)'
  BY AdministratorTyped, AdministratorScopes, DispatchTyped
<1>2. OneEach'
  BY OneEachStep
<1> QED BY <1>1, <1>2 DEF IInv, TypeOK, RestTyped, ScopesInOrder

THEOREM Invariance == Spec => []IInv
BY InitIInv, NextIInv, PTL DEF Spec

(* Type correctness of the dispatch.                                       *)
THEOREM DispatchTypeCorrect == Spec => []TypeOK
<1>1. IInv => TypeOK
  BY DEF IInv
<1> QED BY <1>1, Invariance, PTL

(* At most one test of a network is in flight, for any number of creators' *)
(* transactions, networks and jobs: _persist_job meets the unique index.   *)
THEOREM DispatchOneActivePerNetwork == Spec => []OneActivePerNetwork
<1>1. IInv => OneActivePerNetwork
  <2> SUFFICES ASSUME IInv, NEW n \in Networks
               PROVE  Cardinality({j \in Jobs : job[j] # None /\ job[j].net = n}) <= 1
    BY DEF OneActivePerNetwork
  <2> DEFINE active == {j \in Jobs : job[j] # None /\ job[j].net = n}
  <2>1. \A i, j \in active : i = j
    BY ScanDispatchConstants DEF IInv, OneEach
  <2> HIDE DEF active
  <2>2. active = {} \/ \E i : active = {i}
    BY <2>1
  <2>3. Cardinality(active) = 0 \/ Cardinality(active) = 1
    BY ONLY <2>2, FS_EmptySet, FS_Singleton, Zenon
  <2>4. Cardinality(active) <= 1
    BY ONLY <2>3
  <2> QED BY <2>4 DEF active
<1> QED BY <1>1, Invariance, PTL

(* VerifyJob compares the scopes and not only the versions, so a Scout     *)
(* whose copy of the policy is current starts nothing outside it.          *)
THEOREM DispatchScopeChangeWins == Spec => ScopeChangeWins
<1> DEFINE Within == \A j \in Jobs :
              /\ job[j] # None /\ job'[j] # None
              /\ job[j].status = "queued" /\ job'[j].status = "running"
              /\ held[job[j].probe] = build_policy_document(job[j].probe)
              => job[j].targets \subseteq _probe_scopes(job[j].probe)
<1>1. IInv /\ [Next]_vars => [Within]_vars
  <2> SUFFICES ASSUME IInv, [Next]_vars, NEW j \in Jobs,
                      job[j] # None, job'[j] # None,
                      job[j].status = "queued", job'[j].status = "running",
                      held[job[j].probe] = build_policy_document(job[j].probe)
               PROVE  job[j].targets \subseteq _probe_scopes(job[j].probe)
    OBVIOUS
  <2>0. job \in [Jobs -> Job \cup {None}] /\ job[j] \in Job
    BY DEF IInv, TypeOK
  <2>1. PICK p \in Probes : PollAndStart(p)
    <3>1. CASE Administrator
      <4>1. [job[j] EXCEPT !.net = None].status = "queued"
        BY <2>0 DEF Job
      <4> QED
        BY <3>1, <4>1 DEF Administrator, DispatchUnchanged, create_network, add_range,
           create_scope, delete_scope, update_scope, update_network, update_schedule,
           bind_scout, unbind_scout, set_probe_status, delete_network
    <3>2. ASSUME NEW t, _persist_job(t) PROVE FALSE
      <4>1. job'[j] = job[j]
        BY <2>0, <3>2 DEF _persist_job
      <4> QED BY <4>1
    <3>3. CASE Create \/ Sweep
      BY <3>2, <3>3 DEF Create, Sweep, request_write, sweep_write, create_scan_job_read,
         run_now_read, run_due_schedules_read, fire_schedule_read, Begin
    <3>4. CASE Tick
      BY <3>4 DEF Tick
    <3>5. ASSUME NEW k \in Jobs, JobEnds(k) PROVE FALSE
      BY <2>0, <3>5 DEF JobEnds
    <3>6. CASE UNCHANGED vars
      BY <3>6 DEF vars
    <3> QED
      BY <3>1, <3>3, <3>4, <3>5, <3>6
         DEF Next, Scout, heartbeat, SyncPolicy, NoPoll
  <2>2. PICK i \in QueuedFor(p) :
           \/ VerifyJob(p, i) /\ job' = [job EXCEPT ![i].status = "running"]
           \/ job' = [job EXCEPT ![i] = None]
    BY <2>1 DEF PollAndStart
  <2>3. i = j /\ VerifyJob(p, j) /\ job[j].probe = p
    BY <2>0, <2>2 DEF QueuedFor
  <2> QED BY <2>3 DEF VerifyJob, build_policy_document
<1> QED BY <1>1, Invariance, PTL DEF Spec, ScopeChangeWins
=============================================================================
