------------------------- MODULE MCBackgroundTasks -------------------------
(***************************************************************************)
(* The task queue for TLC, two of the handlers it runs (the dispatch of    *)
(* notifications and the reports, with their retention), and the export of *)
(* an organisation.  No two of them share state here, so a behaviour       *)
(* follows one of them.                                                    *)
(***************************************************************************)
EXTENDS BackgroundTasks

CONSTANTS
    Events, EMERGENCY_EVENTS, Dispatchers, MaxDeliveries, MaxSends,
    Types, MaxExecutions, MaxEvents,
    Ids, None

VARIABLES channel, quiet, digestDue, deliveries, made, dispatchers, news, missed
VARIABLES world, template, schedule, run, task, claims, executions, reports, files,
          raw, needed, holds, cleanup, late, parted, happened
VARIABLES column, stored, spent, asked, planned, stray, bundle, read, born, gone
VARIABLE follows    \* the part that is followed

N == INSTANCE Notifications WITH due <- digestDue
R == INSTANCE ReportStore WITH MaxClaims <- MaxExecutions, work <- executions, rows <- reports
D == INSTANCE DataExport

newsVars == <<channel, quiet, digestDue, deliveries, made, dispatchers, news, missed>>
reportVars == <<world, template, schedule, run, task, claims, executions, reports, files,
                raw, needed, holds, cleanup, late, parted, happened>>
exportVars == <<column, stored, spent, asked, planned, stray, bundle, read, born, gone>>
allVars == <<vars, newsVars, reportVars, exportVars, follows>>

(* One scheduler tick enqueues every key of the instance that is absent.   *)
MCBatches == {Tasks}

(* What is not followed starts in one state.                               *)
MCInit ==
    /\ Init /\ N!Init /\ R!Init /\ D!Init
    /\ follows \in {"queue", "notifications", "reports", "export"}
    /\ follows = "reports" \/ schedule = "waiting"
    /\ follows = "export" \/ (column.of = "findings" /\ column.name = "site_id")

(* A step of the queue, where that is followed.                            *)
Followed(A) == follows = "queue" /\ A /\ UNCHANGED <<newsVars, reportVars, exportVars, follows>>

MCNext ==
    \/ follows = "queue" /\ Next /\ UNCHANGED <<newsVars, reportVars, exportVars, follows>>
    \/ follows = "notifications" /\ N!Next /\ UNCHANGED <<vars, reportVars, exportVars, follows>>
    \/ follows = "reports" /\ R!Next /\ UNCHANGED <<vars, newsVars, exportVars, follows>>
    \/ follows = "export" /\ D!Next /\ UNCHANGED <<vars, newsVars, reportVars, follows>>

(* The fairness of BackgroundTasks.                                        *)
MCFairSpec ==
    /\ MCInit /\ [][MCNext]_allVars
    /\ \A w \in Workers : /\ WF_allVars(Followed(Heartbeat(w)))
                          /\ WF_allVars(Followed(Finish(w)))
                          /\ WF_allVars(Followed(Claim(w)))
    /\ \A t \in Tasks : /\ WF_allVars(Followed(LeaseExpires(t)))
                        /\ WF_allVars(Followed(BecomesDue(t)))

NewsIsQueued == N!NewsIsQueued
ReportsAreKept == R!ReportsAreKept
ExportIsClosed == D!ExportIsClosed
============================================================================
