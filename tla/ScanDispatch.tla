---------------------------- MODULE ScanDispatch ----------------------------
(***************************************************************************)
(* From an approved range to a scan that starts: networks, their ranges    *)
(* and Scout bindings (api/v1/networks.py, api/v1/scopes.py), the policy   *)
(* document built from them (services/policy.py), the creation of scan     *)
(* jobs by a request and by the schedule sweep (services/jobs.py,          *)
(* services/scheduler.py), and the Scout that keeps a copy of its policy   *)
(* and verifies every job against it (scout/internal/policy, cli.go).      *)
(*                                                                         *)
(* Job creation reads in one step and inserts in a later one, so two       *)
(* creators interleave.  A job that has ended leaves the table; leases and *)
(* reports are the subject of ScanJobLease.  Ranges are disjoint, and all  *)
(* networks belong to one site.                                            *)
(***************************************************************************)
EXTENDS Integers, FiniteSets, FiniteSetsExt

CONSTANTS
    Networks, Probes, Ranges, Jobs,
    Interval,   \* a schedule's interval, in ticks
    MaxLate,    \* bound: lateness beyond it is not told apart
    MaxEdits,   \* bound on the changes administrators make
    None

ASSUME ScanDispatchConstants ==
    /\ Interval \in Nat \ {0} /\ MaxLate \in Nat /\ MaxEdits \in Nat
    /\ None \notin Networks \cup Probes

VARIABLES
    scope,      \* ranges: None, or the network, the enabled flag and the version
    network,    \* of a network: "on", "off" or "absent"
    bound,      \* bindings of Scouts to networks
    primary,    \* the bindings marked primary
    enrolled,   \* Scouts whose status is enrolled
    edits,      \* changes made so far
    schedule,   \* of a network: enabled, ticks to the next slot
    fired,      \* history: firings of the sweep since the last tick
    tx,         \* transactions that have read and not yet written
    job,        \* active jobs
    held,       \* the Scout's local policy
    step        \* where the Scout's loop is: "beat" or "poll"

policyVars == <<scope, network, bound, primary, enrolled>>
scheduleVars == <<schedule, fired>>
scoutVars == <<held, step>>
vars == <<policyVars, edits, scheduleVars, tx, job, scoutVars>>

Creators == {"request", "sweep"}

Row == [net : Networks, on : BOOLEAN, ver : 1..(MaxEdits + 1)]
Policy == [ver : 0..(MaxEdits + 1), cidrs : SUBSET Ranges]
Job == [status : {"queued", "running"}, net : Networks \cup {None}, probe : Probes,
        targets : SUBSET Ranges, ver : 0..(MaxEdits + 1)]
Slot == (-MaxLate)..Interval
Tx == [net : Networks \cup {None},
       probe : Probes \cup {None}, targets : SUBSET Ranges, ver : 0..(MaxEdits + 1),
       slot : Slot]

TypeOK ==
    /\ scope \in [Ranges -> Row \cup {None}]
    /\ network \in [Networks -> {"on", "off", "absent"}]
    /\ primary \subseteq bound /\ bound \subseteq Networks \X Probes
    /\ enrolled \subseteq Probes /\ edits \in 0..MaxEdits
    /\ schedule \in [Networks -> [on : BOOLEAN, wait : Slot]]
    /\ fired \in [Networks -> 0..2]
    /\ tx \in [Creators -> Tx \cup {None}]
    /\ job \in [Jobs -> Job \cup {None}]
    /\ held \in [Probes -> Policy \cup {None}]
    /\ step \in [Probes -> {"beat", "poll"}]

(* The site's network exists, with some of its ranges approved, or not.    *)
Init ==
    /\ network \in [Networks -> {"on", "absent"}]
    /\ scope \in [Ranges -> {None} \cup
                    [net : {n \in Networks : network[n] = "on"}, on : {TRUE}, ver : {1}]]
    /\ bound = {n \in Networks : network[n] = "on"} \X Probes
    /\ primary = {} /\ enrolled = Probes /\ edits = 0
    /\ schedule = [n \in Networks |-> [on |-> network[n] = "on", wait |-> Interval]]
    /\ fired = [n \in Networks |-> 0]
    /\ tx = [c \in Creators |-> None]
    /\ job = [j \in Jobs |-> None]
    /\ held = [p \in Probes |-> None] /\ step = [p \in Probes |-> "beat"]

----------------------------------------------------------------------------
(* The policy document.                                                    *)

network_cidrs(n) == {r \in Ranges : scope[r] # None /\ scope[r].net = n /\ scope[r].on}

_probe_scopes(p) ==
    UNION {network_cidrs(n) : n \in {m \in Networks : network[m] = "on" /\ <<m, p>> \in bound}}

(* The version is the largest of the ranges the document names.            *)
build_policy_document(p) ==
    LET cidrs == _probe_scopes(p)
    IN  [ver |-> IF cidrs = {} THEN 0 ELSE Max({scope[r].ver : r \in cidrs}),
         cidrs |-> cidrs]

----------------------------------------------------------------------------
(* What administrators change.                                             *)

Edit == edits < MaxEdits /\ edits' = edits + 1
DispatchUnchanged == UNCHANGED <<tx, job, scoutVars>>

create_network(n, ranges, scouts) ==
    /\ Edit /\ network[n] = "absent" /\ \A r \in ranges : scope[r] = None
    /\ network' = [network EXCEPT ![n] = "on"]
    /\ scope' = [r \in Ranges |-> IF r \in ranges THEN [net |-> n, on |-> TRUE, ver |-> 1]
                                  ELSE scope[r]]
    /\ bound' = bound \cup ({n} \X scouts)
    /\ UNCHANGED <<primary, enrolled, scheduleVars>> /\ DispatchUnchanged

(* Ranges, bindings and the schedule go with the network; its jobs stay,   *)
(* without a network.                                                      *)
delete_network(n) ==
    /\ Edit /\ network[n] # "absent"
    /\ network' = [network EXCEPT ![n] = "absent"]
    /\ scope' = [r \in Ranges |-> IF scope[r] # None /\ scope[r].net = n THEN None ELSE scope[r]]
    /\ bound' = {b \in bound : b[1] # n} /\ primary' = {b \in primary : b[1] # n}
    /\ schedule' = [schedule EXCEPT ![n] = [on |-> FALSE, wait |-> Interval]]
    /\ fired' = [fired EXCEPT ![n] = 0]
    /\ job' = [j \in Jobs |-> IF job[j] # None /\ job[j].net = n
                              THEN [job[j] EXCEPT !.net = None] ELSE job[j]]
    /\ UNCHANGED <<enrolled, tx, scoutVars>>

add_range(n, r) ==
    /\ Edit /\ network[n] # "absent" /\ scope[r] = None
    /\ scope' = [scope EXCEPT ![r] = [net |-> n, on |-> TRUE, ver |-> 1]]
    /\ UNCHANGED <<network, bound, primary, enrolled, scheduleVars>> /\ DispatchUnchanged

(* The site-wide convenience: the range goes to the site's default network *)
(* and every Scout of the site is bound to it, the first one as primary.   *)
create_scope(n, r) ==
    /\ Edit /\ scope[r] = None
    /\ network' = [network EXCEPT ![n] = IF @ = "absent" THEN "on" ELSE @]
    /\ scope' = [scope EXCEPT ![r] = [net |-> n, on |-> TRUE, ver |-> 1]]
    /\ bound' = bound \cup ({n} \X Probes)
    /\ IF \E b \in bound : b[1] = n
       THEN UNCHANGED primary
       ELSE \E p \in Probes : primary' = primary \cup {<<n, p>>}
    /\ UNCHANGED <<enrolled, scheduleVars>> /\ DispatchUnchanged

delete_scope(r) ==
    /\ Edit /\ scope[r] # None
    /\ scope' = [scope EXCEPT ![r] = None]
    /\ UNCHANGED <<network, bound, primary, enrolled, scheduleVars>> /\ DispatchUnchanged

(* An update switches the range or only changes limits; an approval is     *)
(* recorded and consulted by nobody.  Both raise the version.              *)
update_scope(r) ==
    /\ Edit /\ scope[r] # None
    /\ \E on \in BOOLEAN :
         scope' = [scope EXCEPT ![r].on = on, ![r].ver = @ + 1]
    /\ UNCHANGED <<network, bound, primary, enrolled, scheduleVars>> /\ DispatchUnchanged

update_network(n) ==
    /\ Edit /\ network[n] # "absent"
    /\ network' = [network EXCEPT ![n] = IF @ = "on" THEN "off" ELSE "on"]
    /\ UNCHANGED <<scope, bound, primary, enrolled, scheduleVars>> /\ DispatchUnchanged

bind_scout(n, p) ==
    /\ Edit /\ network[n] # "absent"
    /\ bound' = bound \cup {<<n, p>>}
    /\ \/ primary' = {b \in primary : b[1] # n} \cup {<<n, p>>}
       \/ primary' = primary \ {<<n, p>>}
    /\ UNCHANGED <<scope, network, enrolled, scheduleVars>> /\ DispatchUnchanged

unbind_scout(n, p) ==
    /\ Edit /\ <<n, p>> \in bound
    /\ bound' = bound \ {<<n, p>>} /\ primary' = primary \ {<<n, p>>}
    /\ UNCHANGED <<scope, network, enrolled, scheduleVars>> /\ DispatchUnchanged

set_probe_status(p) ==
    /\ Edit
    /\ enrolled' = IF p \in enrolled THEN enrolled \ {p} ELSE enrolled \cup {p}
    /\ UNCHANGED <<scope, network, bound, primary, scheduleVars>> /\ DispatchUnchanged

(* An operator creates or switches the schedule or chooses its next run.   *)
update_schedule(n) ==
    /\ Edit /\ network[n] # "absent"
    /\ \/ schedule' = [schedule EXCEPT ![n].on = ~@]
       \/ \E w \in 0..Interval : schedule' = [schedule EXCEPT ![n].wait = w]
    /\ fired' = [fired EXCEPT ![n] = 0]
    /\ UNCHANGED policyVars /\ DispatchUnchanged

Administrator ==
    \/ \E n \in Networks, rs \in SUBSET Ranges, ps \in SUBSET Probes : create_network(n, rs, ps)
    \/ \E n \in Networks : delete_network(n)
    \/ \E n \in Networks, r \in Ranges : add_range(n, r) \/ create_scope(n, r)
    \/ \E r \in Ranges : delete_scope(r) \/ update_scope(r)
    \/ \E n \in Networks : update_network(n) \/ update_schedule(n)
    \/ \E n \in Networks, p \in Probes : bind_scout(n, p) \/ unbind_scout(n, p)
    \/ \E p \in Probes : set_probe_status(p)

----------------------------------------------------------------------------
(* Creating a job.                                                         *)

network_has_active_job(n) == \E j \in Jobs : job[j] # None /\ job[j].net = n

select_network_scout(n) ==
    LET able == {p \in enrolled : <<n, p>> \in bound}
        first == {p \in able : <<n, p>> \in primary}
    IN  IF first # {} THEN first ELSE able

(* The checks of create_scan_job and _validate_network_job.                *)
Acceptable(n, p, targets) ==
    LET approved == build_policy_document(p).cidrs
    IN  /\ targets # {}
        /\ targets \subseteq IF n = None THEN approved ELSE approved \cap network_cidrs(n)
        /\ n # None => /\ network[n] = "on" /\ <<n, p>> \in bound
                       /\ ~network_has_active_job(n)

Begin(c, t) ==
    /\ tx[c] = None
    /\ tx' = [tx EXCEPT ![c] = t]
    /\ UNCHANGED <<policyVars, edits, schedule, job, scoutVars>>

create_scan_job_read(n, p, targets) ==
    /\ p \in enrolled /\ Acceptable(n, p, targets)
    /\ Begin("request", [net |-> n, probe |-> p, targets |-> targets,
                         ver |-> build_policy_document(p).ver, slot |-> 0])
    /\ UNCHANGED fired

(* Mutant of fire_schedule_read: what cannot be dispatched raises.         *)
fire_schedule_read_Raises(c, n, slot) ==
    \E p \in select_network_scout(n) :
        /\ Acceptable(n, p, network_cidrs(n))
        /\ Begin(c, [net |-> n, probe |-> p, targets |-> network_cidrs(n),
                     ver |-> build_policy_document(p).ver, slot |-> slot])

(* The sweep records a failure and goes on: it keeps no Scout.  A request  *)
(* that fails is answered 409 and its transaction rolled back.             *)
fire_schedule_read(c, n, slot) ==
    LET targets == network_cidrs(n)
        able == {p \in select_network_scout(n) :
                    ~network_has_active_job(n) /\ Acceptable(n, p, targets)}
    IN  \/ \E p \in able :
             Begin(c, [net |-> n, probe |-> p, targets |-> targets,
                       ver |-> build_policy_document(p).ver, slot |-> slot])
        \/ /\ c = "sweep" /\ able = {}
           /\ Begin(c, [net |-> n, probe |-> None, targets |-> {}, ver |-> 0, slot |-> slot])

run_now_read(n) == fire_schedule_read("request", n, 0) /\ UNCHANGED fired

(* Whole intervals are added until the slot lies in the future.            *)
_next_slot(wait) ==
    CHOOSE w \in 1..Interval : (w - wait) % Interval = 0

run_due_schedules_read(n) ==
    /\ schedule[n].on /\ schedule[n].wait <= 0
    /\ fire_schedule_read("sweep", n, _next_slot(schedule[n].wait))
    /\ fired' = [fired EXCEPT ![n] = IF @ < 2 THEN @ + 1 ELSE @]

(* Mutant of Blocked: there is no unique index.                            *)
Blocked_Never(t) == t.probe = None

(* The partial unique index, one active job per network, and the foreign   *)
(* key of a network deleted meanwhile.                                     *)
Blocked(t) ==
    \/ t.probe = None
    \/ t.net # None /\ (network_has_active_job(t.net) \/ network[t.net] = "absent")

_persist_job(t) ==
    IF Blocked(t)
    THEN UNCHANGED job
    ELSE LET free == {j \in Jobs : job[j] = None}
         IN  /\ free # {}
             /\ job' = [job EXCEPT ![CHOOSE j \in free : TRUE] =
                          [status |-> "queued", net |-> t.net, probe |-> t.probe,
                           targets |-> t.targets, ver |-> t.ver]]

request_write ==
    LET t == tx["request"]
    IN  /\ t # None
        /\ _persist_job(t)
        /\ tx' = [tx EXCEPT !["request"] = None]
        /\ UNCHANGED <<policyVars, edits, scheduleVars, scoutVars>>

sweep_write ==
    LET t == tx["sweep"]
    IN  /\ t # None
        /\ _persist_job(t)
        /\ tx' = [tx EXCEPT !["sweep"] = None]
        /\ schedule' = IF network[t.net] = "absent" THEN schedule
                       ELSE [schedule EXCEPT ![t.net].wait = t.slot]
        /\ UNCHANGED <<policyVars, edits, fired, scoutVars>>

(* Time passes, but no tick falls inside a sweep's transaction.            *)
Tick ==
    /\ tx["sweep"] = None
    /\ schedule' = [n \in Networks |->
                      [schedule[n] EXCEPT !.wait = IF @ > -MaxLate THEN @ - 1 ELSE @]]
    /\ fired' = [n \in Networks |-> 0]
    /\ UNCHANGED <<policyVars, edits, tx, job, scoutVars>>

----------------------------------------------------------------------------
(* The Scout.                                                              *)

Go(p, next) == step' = [step EXCEPT ![p] = next]

(* Mutant of update_available: only the version is compared.               *)
update_available_Version(p) ==
    IF held[p] = None THEN TRUE ELSE held[p].ver # build_policy_document(p).ver

update_available(p) == held[p] # build_policy_document(p)

(* The dashboard's answer says whether the copy is current; if not, the     *)
(* Scout fetches the document and replaces the copy, or logs the failure    *)
(* and goes on with the one it has.                                         *)
SyncPolicy(p) ==
    /\ p \in enrolled /\ step[p] = "beat" /\ update_available(p)
    /\ held' = [held EXCEPT ![p] = build_policy_document(p)]
    /\ Go(p, "poll")
    /\ UNCHANGED <<policyVars, edits, scheduleVars, tx, job>>

heartbeat(p) ==
    /\ step[p] = "beat" /\ Go(p, "poll")
    /\ UNCHANGED <<policyVars, edits, scheduleVars, tx, job, held>>

VerifyJob(p, j) ==
    held[p] # None /\ job[j].ver = held[p].ver /\ job[j].targets \subseteq held[p].cidrs

Busy(p) == \E j \in Jobs : job[j] # None /\ job[j].probe = p /\ job[j].status = "running"
QueuedFor(p) == {j \in Jobs : job[j] # None /\ job[j].probe = p /\ job[j].status = "queued"}

(* A job that fails the verification, or has expired, is refused.          *)
PollAndStart(p) ==
    /\ p \in enrolled /\ step[p] = "poll" /\ ~Busy(p)
    /\ \E j \in QueuedFor(p) :
         \/ VerifyJob(p, j) /\ job' = [job EXCEPT ![j].status = "running"]
         \/ job' = [job EXCEPT ![j] = None]
    /\ Go(p, "beat")
    /\ UNCHANGED <<policyVars, edits, scheduleVars, tx, held>>

(* Nothing to poll, a job already running, or no answer.                   *)
NoPoll(p) ==
    /\ step[p] = "poll" /\ Go(p, "beat")
    /\ UNCHANGED <<policyVars, edits, scheduleVars, tx, job, held>>

(* A job completes, fails, is cancelled or is reaped.                      *)
JobEnds(j) ==
    /\ job[j] # None
    /\ job' = [job EXCEPT ![j] = None]
    /\ UNCHANGED <<policyVars, edits, scheduleVars, tx, scoutVars>>

----------------------------------------------------------------------------
Create ==
    \/ \E n \in Networks, p \in Probes : create_scan_job_read(n, p, network_cidrs(n))
    \/ \E p \in Probes, r \in Ranges : create_scan_job_read(None, p, {r})
    \/ \E n \in Networks : run_now_read(n)
    \/ request_write

Sweep == sweep_write \/ \E n \in Networks : run_due_schedules_read(n)

Scout(p) == heartbeat(p) \/ SyncPolicy(p) \/ PollAndStart(p) \/ NoPoll(p)

Next ==
    \/ Administrator \/ Create \/ Sweep \/ Tick
    \/ \E p \in Probes : Scout(p)
    \/ \E j \in Jobs : JobEnds(j)

Spec == Init /\ [][Next]_vars

(* The sweep task recurs, the Scout's loop does not stop, a sync that is   *)
(* asked for again and again succeeds at last, and every job ends.         *)
FairSpec ==
    /\ Spec
    /\ WF_vars(Tick) /\ SF_vars(sweep_write)
    /\ \A n \in Networks : SF_vars(run_due_schedules_read(n))
    /\ \A p \in Probes : SF_vars(SyncPolicy(p)) /\ WF_vars(Scout(p))
    /\ \A j \in Jobs : WF_vars(JobEnds(j))

----------------------------------------------------------------------------
(* At most one test of a network is in flight, whatever the interleaving   *)
(* of requests and the sweep (uq_scan_jobs_active_network).                *)
OneActivePerNetwork ==
    \A n \in Networks :
        Cardinality({j \in Jobs : job[j] # None /\ job[j].net = n}) <= 1

(* A Scout whose policy is current starts nothing outside it: a job signed *)
(* before a range was removed does not run once the Scout has caught up.   *)
ScopeChangeWins ==
    [][\A j \in Jobs :
          /\ job[j] # None /\ job'[j] # None
          /\ job[j].status = "queued" /\ job'[j].status = "running"
          /\ held[job[j].probe] = build_policy_document(job[j].probe)
          => job[j].targets \subseteq _probe_scopes(job[j].probe)]_vars

(* When the administrators are done, every enrolled Scout comes to hold    *)
(* the policy the dashboard would build for it.                            *)
PolicyConverges ==
    \A p \in Probes : <>[](p \in enrolled => held[p] = build_policy_document(p))

(* An enabled schedule keeps firing.                                       *)
ScheduleKeepsFiring ==
    \A n \in Networks : <>[](schedule[n].on) => []<>(fired[n] > 0)
=============================================================================
