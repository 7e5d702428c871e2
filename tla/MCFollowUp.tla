----------------------------- MODULE MCFollowUp ------------------------------
(***************************************************************************)
(* What becomes of a finding, for TLC: its life, its score, the units it is*)
(* remediated in and its ticket.  No two of them share state here, so a    *)
(* behaviour follows one of them.                                          *)
(***************************************************************************)
EXTENDS FindingLifecycle, TLC

CONSTANTS
    Scored, WithCve, MaxVersion, MaxTransactions,
    Grouping, Keys, MaxEdits,
    Syncs, MaxTries, MaxConfigs

VARIABLES versions, default, exposed, intel, health, rows, alerts, txs, begun, raced
VARIABLES units, members, suggested, edits, asked, contested
VARIABLES connector, testing, verified, sync, tasks, work, tickets, divided, lost
VARIABLE follows    \* the part that is followed

(* Each finding has a key of its own and one that it shares.               *)
KeysOfFinding(f) == {k \in Keys : k = "shared" \/ f # CHOOSE g \in Grouping : TRUE}

S == INSTANCE RiskScoring WITH Findings <- Scored
U == INSTANCE RemediationUnits WITH KeysOf <- KeysOfFinding
T == INSTANCE Ticketing WITH parted <- divided

scoreVars == <<versions, default, exposed, intel, health, rows, alerts, txs, begun, raced>>
unitVars == <<units, members, suggested, edits, asked, contested>>
ticketVars == <<connector, testing, verified, sync, tasks, work, tickets, divided, lost>>
allVars == <<vars, scoreVars, unitVars, ticketVars, follows>>

(* What is not followed starts in one state.                               *)
MCInit ==
    /\ Init /\ S!Init /\ U!Init /\ T!Init
    /\ follows \in {"finding", "score", "units", "ticket"}
    /\ follows = "finding" \/ pauses

MCNext ==
    \/ /\ follows = "finding" /\ Next
       /\ UNCHANGED <<scoreVars, unitVars, ticketVars, follows>>
    \/ /\ follows = "score" /\ S!Next
       /\ UNCHANGED <<vars, unitVars, ticketVars, follows>>
    \/ /\ follows = "units" /\ U!Next
       /\ UNCHANGED <<vars, scoreVars, ticketVars, follows>>
    \/ /\ follows = "ticket" /\ T!Next
       /\ UNCHANGED <<vars, scoreVars, unitVars, follows>>

MCSpec == MCInit /\ [][MCNext]_allVars

(* The fairness of the finding's life, where that is followed.             *)
Followed(A) == follows = "finding" /\ A /\ UNCHANGED <<scoreVars, unitVars, ticketVars, follows>>

MCFairSpec ==
    /\ MCSpec
    /\ SF_allVars(Followed(ingest_findings_read("scan")))
    /\ WF_allVars(Followed(ingest_findings_write))
    /\ WF_allVars(Followed(revoke_finding_decision))
    /\ WF_allVars(Followed(sweep_sla_status))

ScoreIsCurrent == S!ScoreIsCurrent
RejectedStaysOut == U!RejectedStaysOut
OneTicket == T!OneTicket
=============================================================================
