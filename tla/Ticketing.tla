------------------------------ MODULE Ticketing ------------------------------
(***************************************************************************)
(* The ticket of one finding in an external system (services/ticketing.py, *)
(* services/ticket_adapters, api/v1/ticketing.py): the connector that is   *)
(* configured, tested and enabled, the tasks that operators queue, and the *)
(* worker that carries a task out and may lose its lease, its task or the  *)
(* answer of the other side on the way.                                    *)
(*                                                                         *)
(* A ticket carries the mark of the task that wrote it last, by which the  *)
(* adapters look for it before they create one.                            *)
(***************************************************************************)
EXTENDS Naturals, FiniteSets

CONSTANTS
    Syncs,          \* tasks that operators may queue
    MaxTries,       \* attempts of a task (5 in the code)
    MaxConfigs,     \* bound: changes of the connector
    None

VARIABLES
    connector,      \* what is stored of it
    testing,        \* None, or the test in progress
    verified,       \* whether the finding is resolved and verified
    sync,           \* TicketSync.external_ticket_id
    tasks,          \* the tasks
    work,           \* executions in progress
    tickets,        \* the external tickets
    parted,         \* executions overlapped, or one began after another task's was lost
    lost            \* tasks of which an execution ended unrecorded

vars == <<connector, testing, verified, sync, tasks, work, tickets, parted, lost>>

connectorVars == <<connector, testing>>
taskVars == <<sync, tasks, work, tickets, parted, lost>>

Connector == [enabled : BOOLEAN, successful_test_at : BOOLEAN, changes : 0..MaxConfigs]
Task == [action : {"upsert", "close"}, reason : BOOLEAN, attempts : 0..MaxTries,
         state : {"queued", "running", "done", "failed"}]

Init ==
    /\ connector = [enabled |-> FALSE, successful_test_at |-> FALSE, changes |-> 0]
    /\ testing = None /\ verified = FALSE /\ sync = None
    /\ tasks = [s \in Syncs |-> None] /\ work = {} /\ tickets = {}
    /\ parted = FALSE /\ lost = {}

----------------------------------------------------------------------------
(* The connector.                                                          *)

(* Enabling asks for a test that has passed, a new destination, secret or  *)
(* configuration forgets it, and then the request's own fields are stored. *)
update_connector(elsewhere, enabled) ==
    /\ connector.changes < MaxConfigs
    /\ enabled # {TRUE} \/ connector.successful_test_at
    /\ connector' =
         [enabled |-> IF enabled # {} THEN CHOOSE b \in enabled : TRUE
                      ELSE connector.enabled /\ ~elsewhere,
          successful_test_at |-> connector.successful_test_at /\ ~elsewhere,
          changes |-> connector.changes + 1]
    /\ UNCHANGED <<testing, verified, taskVars>>

test_connector ==
    /\ testing = None /\ testing' = connector
    /\ UNCHANGED <<connector, verified, taskVars>>

(* Only the columns that the test changes are written.                     *)
TestEnds ==
    /\ testing # None /\ testing' = None
    /\ \E passed \in BOOLEAN :
         connector' = [connector EXCEPT
             !.successful_test_at =
                 IF passed THEN TRUE ELSE IF testing.successful_test_at THEN FALSE ELSE @,
             !.enabled = IF ~passed /\ testing.enabled THEN FALSE ELSE @]
    /\ UNCHANGED <<verified, taskVars>>

----------------------------------------------------------------------------
(* Tasks.                                                                  *)

(* The finding is resolved by a verification, or comes back.               *)
FixOrRegress ==
    /\ verified' = ~verified
    /\ UNCHANGED <<connectorVars, taskVars>>

enqueue_sync(s, action, reason) ==
    /\ tasks[s] = None
    /\ tasks' = [tasks EXCEPT ![s] =
                   [action |-> action, reason |-> reason, attempts |-> 0, state |-> "queued"]]
    /\ UNCHANGED <<connectorVars, verified, sync, work, tickets, parted, lost>>

Usable == connector.enabled /\ connector.successful_test_at

MayClose(task) == (verified \/ task.reason) /\ sync # None

Refused(task) == ~Usable \/ (task.action = "close" /\ ~MayClose(task))

(* The attempt failed and is recorded as such.                             *)
Failed(task) == [task EXCEPT !.state = IF task.attempts >= MaxTries THEN "failed" ELSE "queued"]

(* A worker claims the task; what it reads decides what it will do.        *)
execute_sync_task(s) ==
    /\ tasks[s] # None /\ tasks[s].state = "queued"
    /\ LET task == [tasks[s] EXCEPT !.attempts = @ + 1, !.state = "running"] IN
         IF Refused(task)
         THEN /\ tasks' = [tasks EXCEPT ![s] = Failed(task)]
              /\ UNCHANGED <<work, parted>>
         ELSE /\ tasks' = [tasks EXCEPT ![s] = task]
              /\ work' = work \cup {[task |-> s, try |-> task.attempts, known |-> sync,
                                     found |-> None, at |-> "read"]}
              /\ parted' = (parted \/ work # {} \/ \E t \in lost : t # s)
    /\ UNCHANGED <<connectorVars, verified, sync, tickets, lost>>

Moved(w, at, found) == (work \ {w}) \cup {[w EXCEPT !.at = at, !.found = found]}

(* Mutant of Marked: the mark is that of the attempt.                      *)
Marked_Attempt(w) == {t \in tickets : t.mark = w.task /\ t.try = w.try}

Marked(w) == {t \in tickets : t.mark = w.task}

(* The adapter looks for its mark only if no ticket is known.              *)
Search(w) ==
    /\ w.at = "read" /\ w.known = None
    /\ IF Marked(w) = {} THEN work' = Moved(w, "missing", None)
       ELSE \E t \in Marked(w) : work' = Moved(w, "answered", t.id)
    /\ UNCHANGED <<connectorVars, verified, sync, tasks, tickets, parted, lost>>

Create(w) ==
    /\ w.at = "missing"
    /\ LET id == Cardinality(tickets) + 1 IN
         /\ tickets' = tickets \cup
              {[id |-> id, by |-> w.task, mark |-> w.task, try |-> w.try, open |-> TRUE]}
         /\ work' = Moved(w, "answered", id)
    /\ UNCHANGED <<connectorVars, verified, sync, tasks, parted, lost>>

(* An update writes the labels or the body anew, with this task's mark.    *)
Rewritten(t, w) ==
    IF tasks[w.task].action = "close" THEN [t EXCEPT !.open = FALSE]
    ELSE [t EXCEPT !.mark = w.task, !.try = w.try]

UpdateOrClose(w) ==
    /\ w.at = "read" /\ w.known # None
    /\ tickets' = {IF t.id = w.known THEN Rewritten(t, w) ELSE t : t \in tickets}
    /\ work' = Moved(w, "answered", w.known)
    /\ UNCHANGED <<connectorVars, verified, sync, tasks, parted, lost>>

(* Whether the worker still holds the lease of the task.                   *)
Holds(w) == tasks[w.task].state = "running" /\ tasks[w.task].attempts = w.try

Record(w) ==
    /\ w.at = "answered" /\ work' = work \ {w}
    /\ IF Holds(w)
       THEN /\ sync' = w.found
            /\ tasks' = [tasks EXCEPT ![w.task].state = "done"]
            /\ UNCHANGED lost
       ELSE lost' = lost \cup {w.task} /\ UNCHANGED <<sync, tasks>>
    /\ UNCHANGED <<connectorVars, verified, tickets, parted>>

(* The request fails or its answer does not arrive, the task is cancelled, *)
(* or the worker dies.                                                     *)
Abort(w) ==
    /\ work' = work \ {w} /\ lost' = lost \cup {w.task}
    /\ tasks' = IF ~Holds(w) THEN tasks
                ELSE [tasks EXCEPT ![w.task] = Failed(tasks[w.task])]
    /\ UNCHANGED <<connectorVars, verified, sync, tickets, parted>>

(* The lease runs out while the worker goes on.                            *)
LeaseLost(w) ==
    /\ Holds(w) /\ tasks' = [tasks EXCEPT ![w.task] = Failed(tasks[w.task])]
    /\ UNCHANGED <<connectorVars, verified, sync, work, tickets, parted, lost>>

Next ==
    \/ \E elsewhere \in BOOLEAN, enabled \in {{}, {TRUE}, {FALSE}} :
          update_connector(elsewhere, enabled)
    \/ test_connector \/ TestEnds \/ FixOrRegress
    \/ \E s \in Syncs, reason \in BOOLEAN :
          enqueue_sync(s, "close", reason) \/ enqueue_sync(s, "upsert", FALSE)
    \/ \E s \in Syncs : execute_sync_task(s)
    \/ \E w \in work : \/ Search(w) \/ Create(w) \/ UpdateOrClose(w)
                       \/ Record(w) \/ Abort(w) \/ LeaseLost(w)

Spec == Init /\ [][Next]_vars

----------------------------------------------------------------------------
(* A finding has one ticket in a system, however often a task is retried   *)
(* and whatever answers are lost.  A second one needs two executions that  *)
(* overlap, or another task after one was lost: the mark is that of a task *)
(* and not of the finding.                                                 *)
OneTicket == parted \/ \A s, t \in tickets : s = t
=============================================================================
