----------------------------- MODULE ReportStore -----------------------------
(***************************************************************************)
(* The artifacts of a scan job and their retention: the reports that a     *)
(* template's run renders (services/report_builder.py,                     *)
(* services/reports/generate.py, api/v1/report_templates.py) and the       *)
(* cleanup that removes old raw output and old reports                     *)
(* (services/retention.py, api/v1/maintenance.py).                         *)
(*                                                                         *)
(* One scan job, one template and one run of it.  A report is named by its *)
(* type; its row is committed with the task, its file is written at once.  *)
(* The contents of a file is the number of the snapshot it shows.          *)
(***************************************************************************)
EXTENDS Naturals

CONSTANTS
    Types,          \* the report types of the template
    MaxAttempts,    \* of the task (3 in the code)
    MaxClaims,      \* bound: executions of the task
    MaxEvents,      \* bound: requests of operators and changes of what a snapshot shows
    None

VARIABLES
    world,       \* what a snapshot taken now would show
    template,    \* ReportTemplate.enabled
    schedule,    \* ReportTemplateSchedule: "waiting", "due", "disabled"
    run,         \* ReportTemplateRun.status, or None
    task,        \* the task of the run
    claims,      \* executions so far
    work,        \* executions in progress
    rows,        \* the Report rows
    files,       \* the files
    raw,         \* the job's raw output: "fresh", "old", "deleted"
    needed,      \* what keeps it: "active" job, unresolved "finding"
    holds,       \* RetentionHold: on the job, on reports
    cleanup,     \* the cleanup in progress
    late,        \* reasons to keep that appeared during the cleanup
    parted,      \* two executions of the task overlapped
    happened     \* events so far

taskVars == <<schedule, run, task, claims, work, parted>>
keepVars == <<raw, needed, holds, cleanup, late>>
vars == <<world, template, taskVars, rows, files, keepVars, happened>>

Job == "scan_job"

Report == [status : {"completed", "failed"}, sha : Nat \cup {None}, old : BOOLEAN]

Init ==
    /\ world = 0 /\ template = TRUE /\ schedule \in {"waiting", "disabled"}
    /\ run = None /\ task = [state |-> None, attempts |-> 0]
    /\ claims = 0 /\ work = {} /\ parted = FALSE
    /\ rows = [t \in Types |-> None] /\ files = [t \in Types |-> None]
    /\ raw = "fresh" /\ needed = {} /\ holds = {}
    /\ cleanup = None /\ late = {} /\ happened = 0

----------------------------------------------------------------------------
(* Runs of the template.                                                   *)

(* One run and one task for a key; the request is repeated in vain.        *)
enqueue_template_run ==
    IF run = None THEN run' = "queued" /\ task' = [task EXCEPT !.state = "queued"]
    ELSE UNCHANGED <<run, task>>

queue_template_run ==
    /\ enqueue_template_run
    /\ UNCHANGED <<world, template, schedule, claims, work, parted, rows, files, keepVars, happened>>

(* A schedule of a disabled template is disabled, and otherwise waits for  *)
(* its next time, which is put behind the present.                         *)
schedule_due_templates ==
    /\ schedule = "due"
    /\ IF template THEN schedule' = "waiting" /\ enqueue_template_run
       ELSE schedule' = "disabled" /\ UNCHANGED <<run, task>>
    /\ UNCHANGED <<world, template, claims, work, parted, rows, files, keepVars, happened>>

Fails == [task EXCEPT !.state = IF @ = "running" /\ task.attempts >= MaxAttempts
                                THEN "failed" ELSE "queued"]

(* A worker claims the task.  A run that has succeeded is only answered;   *)
(* one without a template or a completed scan fails, and its snapshot is   *)
(* taken otherwise.                                                        *)
execute_template_task ==
    /\ task.state = "queued" /\ claims < MaxClaims /\ claims' = claims + 1
    /\ task' = [state |-> IF run = "succeeded" THEN "succeeded" ELSE "running",
                attempts |-> task.attempts + 1]
    /\ IF run = "succeeded" THEN UNCHANGED <<work, parted>>
       ELSE /\ work' = work \cup
                 {[claim |-> claims', shows |-> world, todo |-> IF template THEN Types ELSE {},
                   usable |-> template, made |-> [t \in Types |-> None], had |-> {}]}
            /\ parted' = (parted \/ work # {})
    /\ UNCHANGED <<world, template, schedule, run, rows, files, keepVars, happened>>

(* Mutant of Reused: what has been rendered is rendered again.             *)
Reused_Never(t) == FALSE

Reused(t) == rows[t] # None /\ rows[t].status = "completed"

Rendered(w, t, result) ==
    work' = (work \ {w}) \cup {[w EXCEPT !.todo = @ \ {t}, !.made[t] = result,
                                !.had = IF rows[t] = None THEN @ ELSE @ \cup {t}]}

(* The next artifact: kept if an earlier attempt completed it, and else it *)
(* fails on its own or is written to its file.                             *)
generate_reports(w, t) ==
    /\ t \in w.todo
    /\ \/ Reused(t) /\ Rendered(w, t, "kept") /\ UNCHANGED files
       \/ ~Reused(t) /\ Rendered(w, t, "failed") /\ UNCHANGED files
       \/ ~Reused(t) /\ Rendered(w, t, "completed") /\ files' = [files EXCEPT ![t] = w.shows]
    /\ UNCHANGED <<world, template, schedule, run, task, claims, parted, rows, keepVars, happened>>

(* Whether the worker still holds the lease of the task.                   *)
Holds(w) == task.state = "running" /\ w.claim = claims

Succeeded(w) == w.usable /\ \A t \in Types : w.made[t] # "failed"

(* A failure keeps the path and the hash, a row that exists its age.       *)
Stored(w, t) ==
    LET was == rows[t] IN
    CASE w.made[t] \in {None, "kept"} -> was
      [] w.made[t] = "failed" ->
           IF was = None THEN [status |-> "failed", sha |-> None, old |-> FALSE]
           ELSE [was EXCEPT !.status = "failed"]
      [] w.made[t] = "completed" ->
           [status |-> "completed", sha |-> w.shows, old |-> was # None /\ was.old]

(* A row to insert that is there by now, or one to update that is gone.    *)
Conflicts(w) ==
    \E t \in Types : w.made[t] \in {"failed", "completed"} /\ (t \in w.had) # (rows[t] # None)

(* The rows, the run and the task are committed together: also of a failed *)
(* attempt, of which the completed artifacts are kept.                     *)
Commit(w) ==
    /\ w.todo = {} /\ Holds(w) /\ ~Conflicts(w) /\ work' = work \ {w}
    /\ rows' = [t \in Types |-> Stored(w, t)]
    /\ run' = IF Succeeded(w) THEN "succeeded" ELSE "failed"
    /\ task' = IF Succeeded(w) THEN [task EXCEPT !.state = "succeeded"] ELSE Fails
    /\ late' = IF cleanup # None /\ rows' # rows THEN late \cup Types ELSE late
    /\ UNCHANGED <<world, template, schedule, claims, parted, files, raw, needed, holds,
                   cleanup, happened>>

(* The worker dies, has lost the task or is rolled back: its files stay.   *)
Abort(w) ==
    /\ work' = work \ {w} /\ task' = IF Holds(w) THEN Fails ELSE task
    /\ UNCHANGED <<world, template, schedule, run, claims, parted, rows, files, keepVars, happened>>

(* The lease runs out while the worker goes on.                            *)
LeaseLost(w) ==
    /\ Holds(w) /\ task' = Fails
    /\ UNCHANGED <<world, template, schedule, run, claims, work, parted, rows, files, keepVars,
                   happened>>

(* An operator has a failed task tried again.                              *)
retry_task ==
    /\ task.state = "failed" /\ task' = [state |-> "queued", attempts |-> 0]
    /\ UNCHANGED <<world, template, schedule, run, claims, work, parted, rows, files, keepVars,
                   happened>>

----------------------------------------------------------------------------
(* Retention.                                                              *)

(* Reports that stay refer to the raw output.                              *)
Retained(t) == rows[t] # None /\ (~rows[t].old \/ t \in holds)

(* What protects the raw output.                                           *)
Protection == (holds \cap {Job}) \cup needed \cup {t \in Types : Retained(t)}

OldReports == {t \in Types : rows[t] # None /\ rows[t].old /\ t \notin holds}

build_cleanup_plan ==
    OldReports \cup (IF raw = "old" /\ Protection = {} THEN {Job} ELSE {})

retention_cleanup ==
    /\ cleanup = None /\ cleanup' = [plan |-> build_cleanup_plan, deleted |-> {}]
    /\ late' = {}
    /\ UNCHANGED <<world, template, taskVars, rows, files, raw, needed, holds, happened>>

(* The file of a report goes before the row does.                          *)
Delete(x) ==
    /\ cleanup # None /\ x \in cleanup.plan
    /\ cleanup' = [plan |-> cleanup.plan \ {x}, deleted |-> cleanup.deleted \cup {x}]
    /\ files' = IF x \in Types /\ rows[x] # None /\ rows[x].sha # None
                THEN [files EXCEPT ![x] = None] ELSE files
    /\ UNCHANGED <<world, template, taskVars, rows, raw, needed, holds, late, happened>>

CleanupCommits ==
    /\ cleanup # None /\ cleanup.plan = {} /\ cleanup' = None
    /\ rows' = [t \in Types |-> IF t \in cleanup.deleted THEN None ELSE rows[t]]
    /\ raw' = IF Job \in cleanup.deleted THEN "deleted" ELSE raw
    /\ UNCHANGED <<world, template, taskVars, files, needed, holds, late, happened>>

CleanupAborts ==
    /\ cleanup # None /\ cleanup' = None
    /\ UNCHANGED <<world, template, taskVars, rows, files, raw, needed, holds, late, happened>>

----------------------------------------------------------------------------
(* What happens besides.                                                   *)

Happens == happened < MaxEvents /\ happened' = happened + 1

Kept(x) == late' = IF cleanup = None THEN late ELSE late \cup {x}

place_hold(x) ==
    /\ Happens /\ x \notin holds /\ holds' = holds \cup {x} /\ Kept(x)
    /\ UNCHANGED <<world, template, taskVars, rows, files, raw, needed, cleanup>>

lift_hold(x) ==
    /\ x \in holds /\ holds' = holds \ {x}
    /\ UNCHANGED <<world, template, taskVars, rows, files, raw, needed, cleanup, late, happened>>

(* A finding of the job is opened again or resolved; the job's own end is  *)
(* long past when its raw output is old.                                   *)
FindingChanges ==
    /\ Happens /\ needed' = {"finding"} \ needed
    /\ IF needed' = {} THEN UNCHANGED late ELSE Kept("finding")
    /\ UNCHANGED <<world, template, taskVars, rows, files, raw, holds, cleanup>>

update_template ==
    /\ Happens /\ template' = ~template
    /\ UNCHANGED <<world, taskVars, rows, files, keepVars>>

(* Findings and assets change.                                             *)
SnapshotChanges ==
    /\ Happens /\ world' = world + 1
    /\ UNCHANGED <<template, taskVars, rows, files, keepVars>>

ScheduleIsDue ==
    /\ Happens /\ schedule = "waiting" /\ schedule' = "due"
    /\ UNCHANGED <<world, template, run, task, claims, work, parted, rows, files, keepVars>>

(* Months pass: nothing is in progress.                                    *)
RawOutputAges ==
    /\ work = {} /\ cleanup = None /\ raw = "fresh" /\ raw' = "old"
    /\ UNCHANGED <<world, template, taskVars, rows, files, needed, holds, cleanup, late, happened>>

ReportAges(t) ==
    /\ work = {} /\ cleanup = None /\ raw # "fresh"
    /\ rows[t] # None /\ rows' = [rows EXCEPT ![t].old = TRUE]
    /\ UNCHANGED <<world, template, taskVars, files, keepVars, happened>>

Next ==
    \/ queue_template_run \/ schedule_due_templates \/ execute_template_task \/ retry_task
    \/ \E w \in work : \/ \E t \in Types : generate_reports(w, t)
                       \/ Commit(w) \/ Abort(w) \/ LeaseLost(w)
    \/ retention_cleanup \/ CleanupCommits \/ CleanupAborts
    \/ \E x \in Types \cup {Job} : Delete(x) \/ place_hold(x) \/ lift_hold(x)
    \/ FindingChanges \/ update_template \/ SnapshotChanges \/ ScheduleIsDue
    \/ RawOutputAges \/ \E t \in Types : ReportAges(t)

Spec == Init /\ [][Next]_vars

----------------------------------------------------------------------------
(* A completed report is the file that its row was committed with, however *)
(* often the run is retried after a failed artifact, a crash or a cleanup. *)
(* Two workers at one task may leave the file of the one and the row of the*)
(* other: the name of the file is that of the report and not of the attempt.*)
StoredIsRecorded ==
    \A t \in Types :
        (rows[t] # None /\ rows[t].status = "completed" /\ files[t] # None)
        => files[t] = rows[t].sha \/ parted

(* A cleanup removes nothing that is held, open or referred to by a report *)
(* that stays, unless the reason came up while the cleanup was under way.  *)
ReferencedIsKept ==
    /\ raw' # raw /\ raw' = "deleted" =>
          (holds \cap {Job}) \cup needed \cup {t \in Types : rows'[t] # None} \subseteq late
    /\ \A t \in holds \cap Types : rows[t] # None /\ rows'[t] = None => t \in late

(* What is reported is stored, and what is needed stays.                   *)
ReportsAreKept == [][StoredIsRecorded' /\ ReferencedIsKept]_vars
=============================================================================
