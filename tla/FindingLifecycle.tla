-------------------------- MODULE FindingLifecycle --------------------------
(***************************************************************************)
(* The life of one finding of the dashboard: the ingestion of scan results *)
(* (services/findings.py), the verification scan that resolves it          *)
(* (services/remediation.py), the operators' workflow (api/v1/findings.py),*)
(* decisions that dismiss it (services/risk.py), acceptances of its risk   *)
(* and the deadline for its remediation (services/sla.py).                 *)
(*                                                                         *)
(* Ingestion and the end of a verification read in one step and write in a *)
(* later one; the short requests are one step each.  "open" stands for the *)
(* statuses that no guard tells apart (new, triage to ready_for_           *)
(* verification, reopened), "dismissed" for false_positive, duplicate and  *)
(* suppressed.  A deadline is known by the source of its calculation.      *)
(***************************************************************************)
EXTENDS FiniteSets

CONSTANTS
    Acceptances,   \* acceptances of the risk that exist at a time
    None

VARIABLES
    present,     \* whether the weakness is there
    row,         \* the finding, or None before the first ingestion
    tx,          \* what an ingestion in progress has read
    verifier,    \* the verification scan
    acceptance,  \* status of every acceptance that is not closed
    decision,    \* None, or the status before the active decision
    pauses,      \* whether the matching SLA policy pauses on acceptance
    sla,         \* the current calculation of the deadline
    exception    \* whether a request to extend the deadline is pending

slaVars == <<pauses, sla, exception>>
vars == <<present, row, tx, verifier, acceptance, decision, slaVars>>

Scans == {"scan", "verify"}
Workflow == {"open", "resolved", "risk_accepted"}
Statuses == Workflow \cup {"dismissed"}
TERMINAL_STATUSES == {"resolved", "dismissed"}

Finding == [status : Statuses, link : Acceptances \cup {None}, scan_job : Scans]
Verifier == [state : {"none", "scanning", "looked", "fixed", "kept"},
             seen_since : BOOLEAN, absent : BOOLEAN]
Sla == [source : {"policy", "exception", "resume"}, paused : BOOLEAN, completed : BOOLEAN]

(* None is nothing that a column may hold.                                 *)
ASSUME FindingLifecycleConstants ==
    /\ None \notin Acceptances /\ None \notin Statuses
    /\ None \notin Finding /\ None \notin Sla

TypeOK ==
    /\ present \in BOOLEAN /\ pauses \in BOOLEAN /\ exception \in BOOLEAN
    /\ row \in Finding \cup {None}
    /\ tx \in [scan : Scans, does : {"insert", "reopen", "update"}] \cup {None}
    /\ verifier \in Verifier
    /\ acceptance \in [Acceptances -> {"none", "pending", "active"}]
    /\ decision \in Statuses \cup {None}
    /\ sla \in Sla \cup {None}

NoVerifier == [state |-> "none", seen_since |-> FALSE, absent |-> FALSE]

Init ==
    /\ present = TRUE /\ pauses \in BOOLEAN /\ exception = FALSE
    /\ row = None /\ tx = None /\ verifier = NoVerifier
    /\ acceptance = [a \in Acceptances |-> "none"]
    /\ decision = None /\ sla = None

----------------------------------------------------------------------------
(* The deadline.                                                           *)

NewDeadline == [source |-> "policy", paused |-> FALSE, completed |-> FALSE]

(* The first deadline stays.                                               *)
calculate_deadline(s) == IF s = None THEN NewDeadline ELSE s

complete_finding(s) == IF s = None THEN None ELSE [s EXCEPT !.completed = TRUE]

(* Only if the policy behind the deadline says so.                         *)
pause_for_risk_acceptance(s) == [s EXCEPT !.paused = @ \/ pauses]

resume_after_risk_acceptance(s) ==
    IF s.paused THEN [s EXCEPT !.source = "resume", !.paused = FALSE] ELSE s

request_exception ==
    /\ sla # None /\ exception' = TRUE
    /\ UNCHANGED <<present, row, tx, verifier, acceptance, decision, pauses, sla>>

decide_exception ==
    /\ exception /\ exception' = FALSE
    /\ sla' \in {sla, [sla EXCEPT !.source = "exception"]}
    /\ UNCHANGED <<present, row, tx, verifier, acceptance, decision, pauses>>

(* The sweep records the end of what has been resolved or dismissed.       *)
sweep_sla_status ==
    /\ sla # None /\ row.status \in TERMINAL_STATUSES
    /\ sla' = complete_finding(sla)
    /\ UNCHANGED <<present, row, tx, verifier, acceptance, decision, pauses, exception>>

----------------------------------------------------------------------------
(* Ingestion.                                                              *)

(* Mutant of Recurs: a finding that comes back keeps its status.           *)
Recurs_Never == FALSE

Recurs == row.status = "resolved"

(* A scan that sees the weakness reads the row it is about to update.      *)
ingest_findings_read(s) ==
    /\ present /\ tx = None
    /\ s = "verify" => verifier.state = "scanning"
    /\ tx' = [scan |-> s, does |-> IF row = None THEN "insert"
                                  ELSE IF Recurs THEN "reopen" ELSE "update"]
    /\ UNCHANGED <<present, row, verifier, acceptance, decision, slaVars>>

ingest_findings_write ==
    /\ tx # None /\ tx' = None
    /\ row' = CASE tx.does = "insert" -> [status |-> "open", link |-> None, scan_job |-> tx.scan]
                 [] tx.does = "reopen" -> [row EXCEPT !.status = "open", !.scan_job = tx.scan]
                 [] tx.does = "update" -> [row EXCEPT !.scan_job = tx.scan]
    /\ sla' = calculate_deadline(sla)
    /\ verifier' = [verifier EXCEPT !.seen_since = verifier.state # "none",
                      !.state = IF tx.scan = "verify" THEN "looked" ELSE @]
    /\ UNCHANGED <<present, acceptance, decision, pauses, exception>>

(* A targeted scan of the finding's asset.                                 *)
rescan_finding ==
    /\ row # None /\ verifier.state = "none"
    /\ verifier' = [NoVerifier EXCEPT !.state = "scanning", !.absent = ~present]
    /\ UNCHANGED <<present, row, tx, acceptance, decision, slaVars>>

ScanSeesNothing ==
    /\ verifier.state = "scanning" /\ ~present
    /\ IF tx = None THEN TRUE ELSE tx.scan # "verify"
    /\ verifier' = [verifier EXCEPT !.state = "looked"]
    /\ UNCHANGED <<present, row, tx, acceptance, decision, slaVars>>

(* Mutant of Observed: only the scan_job_id tells who has seen it.         *)
Observed_OwnOnly == verifier.seen_since /\ row.scan_job = "verify"

(* Seen by this job, or by any scan since it started.                      *)
Observed == verifier.seen_since

finalize_scanner_verification_read ==
    /\ verifier.state = "looked"
    /\ verifier' = [verifier EXCEPT !.state =
                      IF ~Observed /\ row.status \notin {"resolved", "risk_accepted"}
                      THEN "fixed" ELSE "kept"]
    /\ UNCHANGED <<present, row, tx, acceptance, decision, slaVars>>

apply_verification ==
    /\ verifier.state \in {"fixed", "kept"}
    /\ IF verifier.state = "fixed"
       THEN row' = [row EXCEPT !.status = "resolved"] /\ sla' = complete_finding(sla)
       ELSE UNCHANGED <<row, sla>>
    /\ verifier' = NoVerifier
    /\ UNCHANGED <<present, tx, acceptance, decision, pauses, exception>>

----------------------------------------------------------------------------
(* Operators.                                                              *)

update_finding(status) ==
    /\ row # None /\ decision = None
    /\ row' = [row EXCEPT !.status = status]
    /\ sla' = IF status = "resolved" THEN complete_finding(sla) ELSE sla
    /\ UNCHANGED <<present, tx, verifier, acceptance, decision, pauses, exception>>

(* Assignment, triage and the start of work do not ask for a decision.     *)
bulk_update ==
    /\ row # None
    /\ row' = [row EXCEPT !.status = "open"]
    /\ UNCHANGED <<present, tx, verifier, acceptance, decision, slaVars>>

create_finding_decision ==
    /\ row # None /\ decision = None
    /\ decision' = row.status
    /\ row' = [row EXCEPT !.status = "dismissed"]
    /\ UNCHANGED <<present, tx, verifier, acceptance, slaVars>>

(* Mutant of _restore_decision_projection: the status stays.               *)
_restore_decision_projection_Never == row.status

(* Only if nothing has changed the status since.                           *)
_restore_decision_projection ==
    IF row.status = "dismissed" THEN decision ELSE row.status

(* An operator revokes the decision, or it expires.                        *)
revoke_finding_decision ==
    /\ decision # None /\ decision' = None
    /\ row' = [row EXCEPT !.status = _restore_decision_projection]
    /\ UNCHANGED <<present, tx, verifier, acceptance, slaVars>>

request_risk_acceptance(a) ==
    /\ row # None /\ acceptance[a] = "none"
    /\ acceptance' = [acceptance EXCEPT ![a] = "pending"]
    /\ UNCHANGED <<present, row, tx, verifier, decision, slaVars>>

decide_risk_acceptance(a) ==
    /\ acceptance[a] = "pending"
    /\ \/ /\ acceptance' = [acceptance EXCEPT ![a] = "active"]
          /\ row' = [row EXCEPT !.status = "risk_accepted", !.link = a]
          /\ sla' = pause_for_risk_acceptance(sla)
       \/ /\ acceptance' = [acceptance EXCEPT ![a] = "none"]
          /\ UNCHANGED <<row, sla>>
    /\ UNCHANGED <<present, tx, verifier, decision, pauses, exception>>

(* Only the acceptance the finding is linked to reopens it.                *)
expire_risk_acceptances(a) ==
    /\ acceptance[a] = "active"
    /\ acceptance' = [acceptance EXCEPT ![a] = "none"]
    /\ IF row.link = a
       THEN /\ row' = [row EXCEPT !.status = "open", !.link = None]
            /\ sla' = resume_after_risk_acceptance(sla)
       ELSE UNCHANGED <<row, sla>>
    /\ UNCHANGED <<present, tx, verifier, decision, pauses, exception>>

----------------------------------------------------------------------------
FixOrRegress ==
    /\ present' = ~present
    /\ verifier' = [verifier EXCEPT !.absent = @ \/ (verifier.state # "none" /\ present)]
    /\ UNCHANGED <<row, tx, acceptance, decision, slaVars>>

Ingest == ingest_findings_write \/ \E s \in Scans : ingest_findings_read(s)
Verify == rescan_finding \/ ScanSeesNothing \/ finalize_scanner_verification_read
              \/ apply_verification
Operate == bulk_update \/ \E status \in Workflow : update_finding(status)
Decide == create_finding_decision \/ revoke_finding_decision
Accept == \E a \in Acceptances : \/ request_risk_acceptance(a)
                                 \/ decide_risk_acceptance(a)
                                 \/ expire_risk_acceptances(a)
Deadline == request_exception \/ decide_exception \/ sweep_sla_status

Next == Ingest \/ Verify \/ Operate \/ Decide \/ Accept \/ Deadline \/ FixOrRegress

Spec == Init /\ [][Next]_vars

(* Scans of the network recur and their results are ingested; the system   *)
(* sweep ends expired decisions, but nothing in it calls                   *)
(* expire_risk_acceptances: only an administrator's request does.          *)
FairSpec ==
    /\ Spec
    /\ SF_vars(ingest_findings_read("scan")) /\ WF_vars(ingest_findings_write)
    /\ WF_vars(revoke_finding_decision) /\ WF_vars(sweep_sla_status)

----------------------------------------------------------------------------
(* A finding is shown as dismissed only while a decision is active,        *)
(* whatever the order of decisions, scans and requests.                    *)
DismissedIsDecided == row # None /\ row.status = "dismissed" => decision # None

(* The deadline is paused only under an active acceptance of the finding.  *)
PausedIsAccepted ==
    sla # None /\ sla.paused => row.link # None /\ acceptance[row.link] = "active"

(* Once calculated, a deadline changes only through an approved exception  *)
(* or the end of a pause (ADR 0044).                                       *)
DeadlineByRule ==
    [][sla # None /\ sla'.source # sla.source =>
          \/ exception /\ ~exception'
          \/ sla.paused /\ ~sla'.paused]_vars

(* A verification resolves nothing that was there all the time it ran,     *)
(* also when another scan of the same network is ingested meanwhile.       *)
ResolvedWasAbsent ==
    [][verifier.state = "fixed" /\ verifier'.state = "none" => verifier.absent]_vars

Resolved == IF row = None THEN FALSE ELSE row.status = "resolved"

(* A weakness that stays does not stay hidden behind "resolved", whatever  *)
(* operators and stale verifications write.                                *)
StillPresentResurfaces ==
    <>[]present => []<>(~Resolved)

=============================================================================
