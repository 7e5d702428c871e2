----------------------------- MODULE Connectors -----------------------------
(***************************************************************************)
(* One inventory connector: its configuration, its test, and its runs      *)
(* (dash/backend/app/api/v1/passive_inventory.py, services/                *)
(* passive_inventory.py, enqueue_task of services/background_tasks.py).    *)
(*                                                                         *)
(* A request reads the row, may wait for the source or for the body of an  *)
(* upload, and writes the columns that it has changed against what it had  *)
(* read.  The configuration stands for the URL, the public settings, the   *)
(* secret and the uploaded source together, and is numbered by its         *)
(* changes.                                                                *)
(***************************************************************************)
EXTENDS Naturals

CONSTANTS
    Requests,       \* handlers that may be under way
    Runs,           \* ConnectorRun rows, numbered in the order they come
    Keys,           \* idempotency keys of clients
    Slots,          \* due times of the schedule, each of which is a key too
    MaxChanges,     \* bound on the changes of the configuration
    None

ASSUME ConnectorsConstants == MaxChanges \in Nat /\ None \notin Runs

VARIABLES
    conn,       \* the row: the configuration, successful_test_at, enabled
    req,        \* the requests: what they do and the row they have read
    runs,       \* the status and the key of each run, or None
    tasks,      \* the run in the payload of each key's task, or None
    exec,       \* the configuration a worker collects each run by, or None
    fit         \* configurations that a test has found good, or whose
                \* change has overlapped a test

vars == <<conn, req, runs, tasks, exec, fit>>

NoRequest == [does |-> "none", row |-> None, key |-> None, met |-> FALSE]

Init ==
    /\ conn = [conf |-> 0, tested |-> FALSE, enabled |-> FALSE]
    /\ req = [p \in Requests |-> NoRequest]
    /\ runs = [r \in Runs |-> None] /\ tasks = [k \in Keys \cup Slots |-> None]
    /\ exec = [r \in Runs |-> None]
    /\ fit = {}

Does(kind) == {p \in Requests : req[p].does = kind}

(* A request begins: it reads the row.                                     *)
begin(p, kind, k) ==
    /\ req[p] = NoRequest
    /\ req' = [q \in Requests |->
          IF q = p THEN [does |-> kind, row |-> IF kind = "test" THEN conn ELSE [conn EXCEPT !.conf = 0], key |-> k,
                         met |-> kind = "configure" /\ Does("test") # {}]
          ELSE IF kind = "test" /\ q \in Does("configure") THEN [req[q] EXCEPT !.met = TRUE]
          ELSE req[q]]
    /\ UNCHANGED <<conn, runs, tasks, exec, fit>>

ends(p) == req' = [req EXCEPT ![p] = NoRequest]

(* A column is written when it is not what was read.                       *)
Column(read, new, now) == IF read = new THEN now ELSE new

----------------------------------------------------------------------------
(* update_connector, upload_csv_source, clear_csv_source.                  *)

(* Mutant of Configured: the test of the configuration before is kept.     *)
Configured_Tested(row) ==
    [conf |-> conn.conf + 1, tested |-> conn.tested,
     enabled |-> Column(row.enabled, FALSE, conn.enabled)]

Configured(row) ==
    [conf |-> conn.conf + 1, tested |-> Column(row.tested, FALSE, conn.tested),
     enabled |-> Column(row.enabled, FALSE, conn.enabled)]

configure(p) ==
    /\ p \in Does("configure") /\ ends(p) /\ conn.conf < MaxChanges
    /\ conn' = Configured(req[p].row)
    /\ fit' = IF req[p].met THEN fit \cup {conn.conf + 1} ELSE fit
    /\ UNCHANGED <<runs, tasks, exec>>

set_enabled(p, on) ==
    /\ p \in Does("update") /\ ends(p)
    /\ on => req[p].row.tested
    /\ conn' = [conn EXCEPT !.enabled = Column(req[p].row.enabled, on, @)]
    /\ UNCHANGED <<runs, tasks, exec, fit>>

(* test_connector: the test is of the configuration that was read, and its *)
(* time is always new.                                                     *)
test_connector(p, good) ==
    LET row == req[p].row IN
    /\ p \in Does("test") /\ ends(p)
    /\ conn' = IF good THEN [conn EXCEPT !.tested = TRUE]
               ELSE [conn EXCEPT !.tested = Column(row.tested, FALSE, @),
                                 !.enabled = Column(row.enabled, FALSE, @)]
    /\ fit' = IF good THEN fit \cup {row.conf} ELSE fit
    /\ UNCHANGED <<runs, tasks, exec>>

(* The request is given up, or fails: nothing is written.                  *)
fails(p) ==
    /\ req[p] # NoRequest /\ ends(p)
    /\ UNCHANGED <<conn, runs, tasks, exec, fit>>

New(r) == runs[r] = None /\ \A s \in Runs : s < r => runs[s] # None

(* enqueue_run and enqueue_task: who comes first has the key, the others   *)
(* wait for the unique index and return the task of the first.             *)
enqueued(k) ==
    IF tasks[k] # None THEN UNCHANGED <<runs, tasks>>
    ELSE \E r \in Runs :
        /\ New(r) /\ runs' = [runs EXCEPT ![r] = [status |-> "queued", key |-> k]]
        /\ tasks' = [tasks EXCEPT ![k] = r]

queue_connector_run(p) ==
    /\ p \in Does("queue") /\ ends(p) /\ req[p].row.enabled /\ req[p].row.tested
    /\ enqueued(req[p].key)
    /\ UNCHANGED <<conn, exec, fit>>

schedule_due_connectors(t) ==
    /\ conn.enabled /\ conn.tested /\ tasks[t] = None /\ enqueued(t)
    /\ UNCHANGED <<conn, req, exec, fit>>

(* execute_connector_task, when a worker has claimed the task of the run;  *)
(* a lease that ran out lets another worker in, and fences the first.      *)
Open(r) == runs[r] # None /\ runs[r].status # "succeeded"

execute_begin(r) ==
    /\ Open(r) /\ conn.enabled /\ conn.tested
    /\ exec' = [exec EXCEPT ![r] = conn.conf]
    /\ UNCHANGED <<conn, req, runs, tasks, fit>>

(* The run fails, at once when the connector may not be collected.         *)
execute_fails(r) ==
    /\ Open(r) /\ (exec[r] # None \/ ~conn.enabled \/ ~conn.tested)
    /\ runs' = [runs EXCEPT ![r].status = "failed"] /\ exec' = [exec EXCEPT ![r] = None]
    /\ UNCHANGED <<conn, req, tasks, fit>>

execute_connector_task(r) ==
    /\ exec[r] # None
    /\ runs' = [runs EXCEPT ![r].status = "succeeded"] /\ exec' = [exec EXCEPT ![r] = None]
    /\ UNCHANGED <<conn, req, tasks, fit>>

----------------------------------------------------------------------------
Next ==
    \/ \E p \in Requests :
          \/ \E kind \in {"configure", "update", "test"} : begin(p, kind, None)
          \/ \E k \in Keys : begin(p, "queue", k)
          \/ configure(p) \/ fails(p) \/ queue_connector_run(p)
          \/ \E yes \in BOOLEAN : set_enabled(p, yes) \/ test_connector(p, yes)
    \/ \E t \in Slots : schedule_due_connectors(t)
    \/ \E r \in Runs : execute_begin(r) \/ execute_fails(r) \/ execute_connector_task(r)

Spec == Init /\ [][Next]_vars

----------------------------------------------------------------------------
(* A source is collected from only by a configuration that a test has found*)
(* good, whatever changes, tests and uploads overlap; except that a change *)
(* that overlaps a test may pass for tested.                               *)
CollectedIsTested == \A r \in Runs : exec[r] # None => exec[r] \in fit

=============================================================================
