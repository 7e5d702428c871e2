----------------------------- MODULE MCWorkflow -----------------------------
(***************************************************************************)
(* A workflow run, for TLC, and the way the results of a scan job take to  *)
(* the dashboard.  The two share no state here, so a behaviour traces one  *)
(* of them.                                                                *)
(***************************************************************************)
EXTENDS Workflow

CONSTANTS Chunks, Cap, MaxRestarts

VARIABLES invalid, disk, worker, next, outputs, reported, drain, answer, restarts, late,
          attempt, ingested, durable, refused
VARIABLE traced    \* the part that is traced

Q == INSTANCE ResultQueue WITH outcome <- reported

ASSUME SpoolConstants == Chunks \in Nat /\ MaxRestarts \in Nat

spoolVars == <<invalid, disk, worker, next, outputs, reported, drain, answer, restarts, late,
               attempt, ingested, durable, refused>>
partVars == <<vars, spoolVars, traced>>

(* What is not traced starts in one state.                                 *)
PartsInit ==
    /\ Init /\ Q!Init
    /\ traced \in {"run", "spool"}
    /\ traced = "run" \/ opts = [o \in DOMAIN opts |-> FALSE]
    /\ traced = "spool" \/ invalid = {}

(* A step of the run, or of the spool, where that is traced.               *)
Run(A) == traced = "run" /\ A /\ UNCHANGED <<spoolVars, traced>>
Spool(A) == traced = "spool" /\ A /\ UNCHANGED <<vars, traced>>

PartsNext ==
    \/ traced = "run" /\ Next /\ UNCHANGED <<spoolVars, traced>>
    \/ traced = "spool" /\ Q!Next /\ UNCHANGED <<vars, traced>>

(* The fairness of Workflow and of ResultQueue.                            *)
PartsFairSpec ==
    /\ PartsInit /\ [][PartsNext]_partVars
    /\ \A s \in Sessions : WF_partVars(Run(Operate(s) \/ Approve(s) \/ JobEnds(s)))
    /\ WF_partVars(Spool(Q!Worker)) /\ SF_partVars(Spool(Q!DrainQueue))
    /\ WF_partVars(Spool(Q!UploadItem)) /\ WF_partVars(Spool(Q!DrainDone))
    /\ WF_partVars(Spool(Q!UploadRefused))
    /\ SF_partVars(Spool(Q!Serve)) /\ SF_partVars(Spool(Q!Uploaded))

(* Where the run is traced, RunEndsOrStrands.                              *)
RunEnds == traced = "run" => RunEndsOrStrands
EvidenceArrives == Q!EvidenceArrives
DrainsUnlessBlocked == Q!DrainsUnlessBlocked
=============================================================================
