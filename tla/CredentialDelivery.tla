------------------------- MODULE CredentialDelivery -------------------------
(***************************************************************************)
(* The credential vault (services/credentials.py, api/v1/credentials.py)   *)
(* and the jobs whose signed envelopes carry its secrets to a Scout        *)
(* (create_scan_job of services/jobs.py, the polls and reports of          *)
(* api/v1/probes.py, cancel_job of api/v1/jobs.py).                        *)
(*                                                                         *)
(* A request reads its rows and commits later.  A test resolves the        *)
(* credential twice, for its own row and for the job.  Polls lock the jobs *)
(* they change, and of two rotations that overlap the unique key lets one  *)
(* commit: these are one step.  One protocol, one asset and one Scout that *)
(* has opted in; the checks of secrets and of transport metadata, the      *)
(* encryption and the expiry of a job are left out.                        *)
(***************************************************************************)
EXTENDS Naturals

CONSTANTS
    Creds,
    Levels,         \* assignment levels, the most specific the least
    Jobs,           \* rows that requests may insert, numbered as they are
    Requests,       \* creations that may be under way
    Deactivations,  \* deactivations that may be under way
    MaxChanges,     \* bound on the changes of the vault
    None

VARIABLES
    cred,       \* the records: is_active, the version that is not retired
    assigned,   \* pairs of a credential and a level
    job,        \* the scan jobs, with their usage and test rows
    tx,         \* the creations under way, or None
    deact,      \* the deactivations under way, or None
    changes     \* changes so far

vars == <<cred, assigned, job, tx, deact, changes>>

Active == {"queued", "offered", "running"}
Secret == [cred : Creds, version : 1 .. MaxChanges + 1]

(* late and moved are not columns: a deactivation of the credential        *)
(* overlapped the creation; the vault changed between a test's two         *)
(* resolutions.                                                            *)
Job == [status : Active \cup {"none", "completed", "failed", "cancelled"},
        envelope : Secret \cup {None}, cancel_requested : BOOLEAN,
        usage : {"encrypted_for_job", "succeeded", "failed"}, tested : Secret \cup {None},
        test : {"pending", "succeeded", "failed"}, late : BOOLEAN, moved : BOOLEAN]

TypeOK ==
    /\ cred \in [Creds -> [active : BOOLEAN, version : 1 .. MaxChanges + 1]]
    /\ assigned \subseteq Creds \X Levels
    /\ job \in [Jobs -> Job] /\ changes \in 0 .. MaxChanges

Absent == [status |-> "none", envelope |-> None, cancel_requested |-> FALSE,
           usage |-> "encrypted_for_job", tested |-> None, test |-> "pending",
           late |-> FALSE, moved |-> FALSE]

Init ==
    /\ cred = [c \in Creds |-> [active |-> TRUE, version |-> 1]]
    /\ assigned \in SUBSET (Creds \X Levels)
    /\ job = [j \in Jobs |-> Absent]
    /\ tx = [r \in Requests |-> None] /\ deact = [d \in Deactivations |-> None]
    /\ changes = 0

----------------------------------------------------------------------------
Matching(l) == {c \in Creds : cred[c].active /\ <<c, l>> \in assigned}

(* Those of the first level that matches; more than one is a conflict.     *)
First == {c \in Creds : \E l \in Levels :
            c \in Matching(l) /\ \A m \in Levels : m < l => Matching(m) = {}}

resolve_credential ==
    IF \A c \in Creds : First # {c} THEN None
    ELSE LET c == CHOOSE c \in Creds : First = {c} IN [cred |-> c, version |-> cred[c].version]

(* The vault changes; tests that have resolved once are overtaken.         *)
VaultChanges(deactivated) ==
    /\ changes < MaxChanges /\ changes' = changes + 1
    /\ tx' = [r \in Requests |-> IF tx[r] = None THEN None ELSE
                [tx[r] EXCEPT !.moved = @ \/ tx[r].envelope = None,
                   !.late = @ \/ (tx[r].envelope # None /\ tx[r].envelope.cred \in deactivated)]]

store_secret_version(c) ==
    /\ VaultChanges({}) /\ cred' = [cred EXCEPT ![c].version = @ + 1]
    /\ UNCHANGED <<assigned, job, deact>>

create_assignment(c, l) ==
    /\ <<c, l>> \notin assigned /\ VaultChanges({})
    /\ assigned' = assigned \cup {<<c, l>>} /\ UNCHANGED <<cred, job, deact>>

delete_assignment(c, l) ==
    /\ <<c, l>> \in assigned /\ VaultChanges({})
    /\ assigned' = assigned \ {<<c, l>>} /\ UNCHANGED <<cred, job, deact>>

activate(c) ==
    /\ ~cred[c].active /\ VaultChanges({})
    /\ cred' = [cred EXCEPT ![c].active = TRUE] /\ UNCHANGED <<assigned, job, deact>>

(* update_credential with is_active false: the jobs and usage rows of the  *)
(* credential are read, and written by the commit.                         *)
deactivate_read(d, c) ==
    /\ deact[d] = None
    /\ LET mine == {j \in Jobs : job[j].envelope # None /\ job[j].envelope.cred = c}
       IN  deact' = [deact EXCEPT ![d] =
              [cred |-> c, jobs |-> {j \in mine : job[j].status \in Active},
               queued |-> {j \in mine : job[j].status = "queued"},
               usage |-> {j \in mine : job[j].usage = "encrypted_for_job"}]]
    /\ UNCHANGED <<cred, assigned, job, tx, changes>>

(* Mutant of Signalled: only what is queued is stopped.                    *)
Signalled_Queued(d, j) == j \in deact[d].queued

Signalled(d, j) == j \in deact[d].jobs

deactivate(d) ==
    /\ deact[d] # None /\ VaultChanges({deact[d].cred})
    /\ cred' = [cred EXCEPT ![deact[d].cred].active = FALSE]
    /\ job' = [j \in Jobs |->
          [job[j] EXCEPT !.cancel_requested = @ \/ Signalled(d, j),
             !.status = IF j \in deact[d].queued THEN "cancelled" ELSE @,
             !.usage = IF j \in deact[d].usage THEN "failed" ELSE @]]
    /\ deact' = [deact EXCEPT ![d] = None] /\ UNCHANGED assigned

----------------------------------------------------------------------------
(* Jobs.                                                                   *)

Resolved(c) == resolve_credential # None /\ resolve_credential.cred = c

test_credential(r, c) ==
    /\ tx[r] = None /\ Resolved(c)
    /\ tx' = [tx EXCEPT ![r] = [tested |-> [cred |-> c, version |-> resolve_credential.version],
                                envelope |-> None, late |-> FALSE, moved |-> FALSE]]
    /\ UNCHANGED <<cred, assigned, job, deact, changes>>

(* create_scan_job up to the envelope: for a test, or for a request.       *)
resolve_required_credentials(r) ==
    /\ IF tx[r] = None THEN resolve_credential # None ELSE tx[r].envelope = None
    /\ tx' = [tx EXCEPT ![r] =
          IF resolve_credential = None THEN None
          ELSE IF tx[r] # None THEN [tx[r] EXCEPT !.envelope = resolve_credential]
          ELSE [tested |-> None, envelope |-> resolve_credential, late |-> FALSE, moved |-> FALSE]]
    /\ UNCHANGED <<cred, assigned, job, deact, changes>>

create_scan_job(r, j) ==
    /\ tx[r] # None /\ tx[r].envelope # None
    /\ job[j].status = "none" /\ \A i \in Jobs : job[i].status = "none" => j <= i
    /\ job' = [job EXCEPT ![j] =
          [Absent EXCEPT !.status = "queued", !.envelope = tx[r].envelope,
             !.tested = tx[r].tested, !.moved = tx[r].moved,
             !.late = \/ tx[r].late
                      \/ \E d \in Deactivations :
                            deact[d] # None /\ deact[d].cred = tx[r].envelope.cred]]
    /\ tx' = [tx EXCEPT ![r] = None] /\ UNCHANGED <<cred, assigned, deact, changes>>

SetJob(j, x) == job' = [job EXCEPT ![j] = x] /\ UNCHANGED <<cred, assigned, tx, deact, changes>>

poll_next_job(j) ==
    /\ job[j].status = "queued" /\ ~job[j].cancel_requested
    /\ SetJob(j, [job[j] EXCEPT !.status = "offered"])

(* The lease of the attempt has lapsed.                                    *)
_reclaim_expired_attempts(j) ==
    /\ job[j].status \in {"offered", "running"}
    /\ SetJob(j, [job[j] EXCEPT !.status =
                     IF job[j].cancel_requested THEN "cancelled" ELSE "queued"])

report_job_status(j) ==
    \/ job[j].status = "offered" /\ SetJob(j, [job[j] EXCEPT !.status = "running"])
    \/ /\ job[j].status = "running"
       /\ \E s \in {"completed", "failed", "cancelled"} :
             LET outcome == IF s = "completed" THEN "succeeded" ELSE "failed"
             IN  SetJob(j, [job[j] EXCEPT !.status = s, !.usage = outcome, !.test = outcome])

cancel_job(j) ==
    /\ job[j].status \in Active
    /\ SetJob(j, [job[j] EXCEPT !.cancel_requested = TRUE,
                     !.status = IF @ = "queued" THEN "cancelled" ELSE @])

----------------------------------------------------------------------------
Vault ==
    \/ \E c \in Creds :
          \/ store_secret_version(c) \/ activate(c)
          \/ \E l \in Levels : create_assignment(c, l) \/ delete_assignment(c, l)
          \/ \E d \in Deactivations : deactivate_read(d, c)
    \/ \E d \in Deactivations : deactivate(d)

Create ==
    \E r \in Requests :
        \/ \E c \in Creds : test_credential(r, c)
        \/ resolve_required_credentials(r)
        \/ \E j \in Jobs : create_scan_job(r, j)

Next ==
    \/ Vault \/ Create
    \/ \E j \in Jobs :
          \/ poll_next_job(j) \/ _reclaim_expired_attempts(j)
          \/ report_job_status(j) \/ cancel_job(j)

Spec == Init /\ [][Next]_vars

----------------------------------------------------------------------------
(* A credential that is deactivated goes to no Scout any more: no job that *)
(* carries it is offered, whatever was queued, offered or reclaimed when   *)
(* the deactivation came; unless the job was being created meanwhile.      *)
DeactivatedIsNotOffered ==
    [][\A j \in Jobs : job[j].status = "queued" /\ job'[j].status = "offered" =>
          cred[job[j].envelope.cred].active \/ job[j].late]_vars

=============================================================================
