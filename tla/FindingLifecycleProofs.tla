----------------------- MODULE FindingLifecycleProofs -----------------------
(***************************************************************************)
(* The life of a finding for any number of acceptances of its risk, and    *)
(* below it the units that remediation puts findings in, the ticket that   *)
(* one has elsewhere, and its score.                                       *)
(*                                                                         *)
(* Three facts about it are invariants of separate parts of the state, and *)
(* all rest on RowsTogether: a finding and its deadline appear in the same *)
(* transaction and nothing else exists before them.  Dismissal: the status *)
(* an active decision remembers is not itself a dismissal, so that giving  *)
(* it back leaves nothing dismissed.  Pauses: the acceptance a finding is  *)
(* linked to is active, and only a linked one pauses.  Verification: until *)
(* somebody has seen the weakness, a verification that has looked has met  *)
(* its absence.                                                            *)
(***************************************************************************)
EXTENDS MCFollowUp, FiniteSetTheorems, TLAPS

RowsTogether ==
    /\ row = None <=> sla = None
    /\ exception => sla # None
    /\ row = None => /\ decision = None /\ verifier.state = "none"
                     /\ \A a \in Acceptances : acceptance[a] = "none"
    /\ tx # None => (tx.does = "insert" <=> row = None)

Dismissal == DismissedIsDecided /\ decision # "dismissed"

LinkIsActive == row # None /\ row.link # None => acceptance[row.link] = "active"

PauseIsLinked == sla # None /\ sla.paused => row.link # None

Verification ==
    /\ verifier.state # "none" /\ ~present => verifier.absent
    /\ verifier.state = "looked" /\ ~verifier.seen_since => verifier.absent
    /\ verifier.state = "fixed" => verifier.absent
    /\ tx # None /\ tx.scan = "verify" => verifier.state = "scanning"

IInv == /\ TypeOK /\ RowsTogether
        /\ Dismissal /\ LinkIsActive /\ PauseIsLinked
        /\ Verification

(* Before the first ingestion the invariant holds.                         *)
LEMMA InitIInv == Init => IInv
<1> SUFFICES ASSUME Init PROVE IInv
  OBVIOUS
<1> USE DEF Init, NoVerifier
<1>1. TypeOK
  <2>1. verifier \in Verifier
    BY DEF Verifier
  <2>2. acceptance \in [Acceptances -> {"none", "pending", "active"}]
    BY DEF Init
  <2> QED BY <2>1, <2>2 DEF TypeOK
<1>2. RowsTogether /\ LinkIsActive /\ PauseIsLinked /\ Verification
  BY DEF RowsTogether, LinkIsActive, PauseIsLinked, Verification
<1>3. Dismissal
  BY FindingLifecycleConstants DEF Dismissal, DismissedIsDecided, Statuses
<1> QED BY <1>1, <1>2, <1>3 DEF IInv

(* What the functions of the deadline return.                              *)
LEMMA Deadlines ==
  ASSUME NEW s \in Sla, pauses \in BOOLEAN
  PROVE  /\ calculate_deadline(s) = s
         /\ complete_finding(s) \in Sla
         /\ complete_finding(s).source = s.source /\ complete_finding(s).paused = s.paused
         /\ pause_for_risk_acceptance(s) \in Sla
         /\ pause_for_risk_acceptance(s).source = s.source
         /\ resume_after_risk_acceptance(s) \in Sla
         /\ ~resume_after_risk_acceptance(s).paused
         /\ resume_after_risk_acceptance(s).source # s.source => s.paused
<1>1. s # None
  BY FindingLifecycleConstants
<1> QED BY <1>1 DEF calculate_deadline, complete_finding, pause_for_risk_acceptance,
           resume_after_risk_acceptance, Sla

(* Whatever refers to a finding finds it, and its deadline.                *)
LEMMA Existing ==
  ASSUME IInv
  PROVE  /\ row # None => row \in Finding /\ sla \in Sla
         /\ row = None \/ sla = None => row = None /\ sla = None
         /\ exception \/ verifier.state # "none" \/ decision # None => row # None
         /\ \A a \in Acceptances : acceptance[a] # "none" => row # None
         /\ tx # None => tx.scan \in Scans /\ (tx.does = "insert" <=> row = None)
         /\ tx # None => tx.does \in {"insert", "reopen", "update"}
  BY DEF IInv, TypeOK, RowsTogether

(* What there is of the finding and its deadline, they stay in step.       *)
Together ==
    /\ row # None => row \in Finding /\ sla \in Sla
    /\ row = None => sla = None

(* Every action keeps the finding and its deadline, and both well formed.  *)
LEMMA RowStep ==
  ASSUME IInv, [Next]_vars
  PROVE  /\ row' # None => row' \in Finding /\ sla' \in Sla
         /\ row' = None => sla' = None
         /\ row # None => row' # None
<1> DEFINE Kept == /\ row' # None => row' \in Finding /\ sla' \in Sla
                   /\ row' = None => sla' = None
                   /\ row # None => row' # None
<1>0. /\ Together
      /\ exception \/ verifier.state # "none" \/ decision # None => row # None
      /\ \A a \in Acceptances : acceptance[a] # "none" => row # None
      /\ decision \in Statuses \cup {None}
      /\ pauses \in BOOLEAN
  BY Existing DEF IInv, TypeOK, Together
<1> USE <1>0, FindingLifecycleConstants DEF Together, slaVars
<1>1. ASSUME NEW s \in Scans, ingest_findings_read(s) PROVE Kept
  BY <1>1 DEF ingest_findings_read
<1>2. ASSUME ingest_findings_write PROVE Kept
  <2>1. tx.does = "insert" <=> row = None
    BY <1>2, Existing DEF ingest_findings_write
  <2>2. tx.scan \in Scans /\ tx.does \in {"insert", "reopen", "update"}
    BY <1>2, Existing DEF ingest_findings_write
  <2>3. calculate_deadline(sla) \in Sla
    BY Deadlines DEF calculate_deadline, NewDeadline, Sla
  <2>4. CASE row = None
    <3>1. row' \in Finding
      BY <1>2, <2>1, <2>2, <2>4 DEF ingest_findings_write, Finding, Statuses, Workflow
    <3> QED BY <1>2, <2>3, <2>4, <3>1 DEF ingest_findings_write
  <2>5. CASE row # None
    <3>1. row' \in Finding
      BY <1>2, <2>1, <2>2, <2>5 DEF ingest_findings_write, Finding, Statuses, Workflow
    <3> QED BY <1>2, <2>3, <2>5, <3>1 DEF ingest_findings_write
  <2> QED BY <2>4, <2>5
<1>3. ASSUME rescan_finding PROVE Kept
  BY <1>3 DEF rescan_finding
<1>4. ASSUME ScanSeesNothing PROVE Kept
  BY <1>4 DEF ScanSeesNothing
<1>5. ASSUME finalize_scanner_verification_read PROVE Kept
  BY <1>5 DEF finalize_scanner_verification_read
<1>6. ASSUME apply_verification PROVE Kept
  <2>1. row \in Finding /\ sla \in Sla
    BY <1>6 DEF apply_verification
  <2>2. row' \in Finding
    BY <1>6, <2>1 DEF apply_verification, Finding, Statuses, Workflow
  <2>3. sla' \in Sla
    BY <1>6, <2>1, Deadlines DEF apply_verification
  <2> QED BY <2>1, <2>2, <2>3
<1>7. ASSUME bulk_update PROVE Kept
  <2>1. row \in Finding /\ sla \in Sla
    BY <1>7 DEF bulk_update
  <2>2. row' \in Finding
    BY <1>7, <2>1 DEF bulk_update, Finding, Statuses, Workflow
  <2>3. sla' \in Sla
    BY <1>7, <2>1, Deadlines DEF bulk_update
  <2> QED BY <2>1, <2>2, <2>3
<1>8. ASSUME NEW status \in Workflow, update_finding(status) PROVE Kept
  <2>1. row \in Finding /\ sla \in Sla
    BY <1>8 DEF update_finding
  <2>2. row' \in Finding
    BY <1>8, <2>1 DEF update_finding, Finding, Statuses, Workflow
  <2>3. sla' \in Sla
    BY <1>8, <2>1, Deadlines DEF update_finding
  <2> QED BY <2>1, <2>2, <2>3
<1>9. ASSUME create_finding_decision PROVE Kept
  <2>1. row \in Finding /\ sla \in Sla
    BY <1>9 DEF create_finding_decision
  <2>2. row' \in Finding
    BY <1>9, <2>1 DEF create_finding_decision, Finding, Statuses, Workflow
  <2>3. sla' \in Sla
    BY <1>9, <2>1, Deadlines DEF create_finding_decision
  <2> QED BY <2>1, <2>2, <2>3
<1>10. ASSUME revoke_finding_decision PROVE Kept
  <2>1. row \in Finding /\ sla \in Sla
    BY <1>10 DEF revoke_finding_decision
  <2>2. row' \in Finding
    BY <1>10, <2>1 DEF revoke_finding_decision, _restore_decision_projection, Finding, Statuses, Workflow
  <2>3. sla' \in Sla
    BY <1>10, <2>1, Deadlines DEF revoke_finding_decision
  <2> QED BY <2>1, <2>2, <2>3
<1>11. ASSUME NEW a \in Acceptances, request_risk_acceptance(a) PROVE Kept
  BY <1>11 DEF request_risk_acceptance
<1>12. ASSUME NEW a \in Acceptances, decide_risk_acceptance(a) PROVE Kept
  <2>1. row \in Finding /\ sla \in Sla
    BY <1>12 DEF decide_risk_acceptance
  <2>2. row' \in Finding
    BY <1>12, <2>1 DEF decide_risk_acceptance, Finding, Statuses, Workflow
  <2>3. sla' \in Sla
    BY <1>12, <2>1, Deadlines DEF decide_risk_acceptance
  <2> QED BY <2>1, <2>2, <2>3
<1>13. ASSUME NEW a \in Acceptances, expire_risk_acceptances(a) PROVE Kept
  <2>1. row \in Finding /\ sla \in Sla
    BY <1>13 DEF expire_risk_acceptances
  <2>2. row' \in Finding
    BY <1>13, <2>1 DEF expire_risk_acceptances, Finding, Statuses, Workflow
  <2>3. sla' \in Sla
    BY <1>13, <2>1, Deadlines DEF expire_risk_acceptances
  <2> QED BY <2>1, <2>2, <2>3
<1>14. ASSUME request_exception PROVE Kept
  BY <1>14 DEF request_exception
<1>15. ASSUME decide_exception PROVE Kept
  <2>1. sla \in Sla
    BY <1>15 DEF decide_exception
  <2>2. sla' \in Sla
    BY <1>15, <2>1 DEF decide_exception, Sla
  <2> QED BY <1>15, <2>2 DEF decide_exception
<1>16. ASSUME sweep_sla_status PROVE Kept
  <2>1. sla \in Sla
    BY <1>16 DEF sweep_sla_status
  <2>2. sla' \in Sla
    BY <1>16, <2>1, Deadlines DEF sweep_sla_status
  <2> QED BY <1>16, <2>2 DEF sweep_sla_status
<1>17. ASSUME FixOrRegress PROVE Kept
  BY <1>17 DEF FixOrRegress
<1>18. CASE UNCHANGED vars
  BY <1>18 DEF vars, slaVars
<1> QED
  BY <1>1, <1>2, <1>3, <1>4, <1>5, <1>6, <1>7, <1>8, <1>9,
     <1>10, <1>11, <1>12, <1>13, <1>14, <1>15, <1>16, <1>17, <1>18
     DEF Next, Ingest, Verify, Operate, Decide, Accept, Deadline

(* Every action keeps the types.                                           *)
LEMMA TypeStep ==
  ASSUME IInv, [Next]_vars
  PROVE  TypeOK'
<1>0. row' \in Finding \cup {None} /\ sla' \in Sla \cup {None}
  BY RowStep
<1>19. row # None => row \in Finding /\ sla \in Sla
  BY Existing
<1> USE <1>0 DEF IInv, TypeOK, slaVars
<1>1. ASSUME NEW s \in Scans, ingest_findings_read(s) PROVE TypeOK'
  BY <1>1 DEF ingest_findings_read
<1>2. ASSUME ingest_findings_write PROVE TypeOK'
  BY <1>2 DEF ingest_findings_write, Verifier
<1>3. ASSUME rescan_finding PROVE TypeOK'
  BY <1>3 DEF rescan_finding, Verifier, NoVerifier
<1>4. ASSUME ScanSeesNothing PROVE TypeOK'
  BY <1>4 DEF ScanSeesNothing, Verifier
<1>5. ASSUME finalize_scanner_verification_read PROVE TypeOK'
  BY <1>5 DEF finalize_scanner_verification_read, Verifier
<1>6. ASSUME apply_verification PROVE TypeOK'
  BY <1>6 DEF apply_verification, Verifier, NoVerifier
<1>7. ASSUME bulk_update PROVE TypeOK'
  BY <1>7 DEF bulk_update
<1>8. ASSUME NEW status \in Workflow, update_finding(status) PROVE TypeOK'
  BY <1>8 DEF update_finding
<1>9. ASSUME create_finding_decision PROVE TypeOK'
  BY <1>9, <1>19 DEF create_finding_decision, Finding
<1>10. ASSUME revoke_finding_decision PROVE TypeOK'
  BY <1>10 DEF revoke_finding_decision
<1>11. ASSUME NEW a \in Acceptances, request_risk_acceptance(a) PROVE TypeOK'
  BY <1>11 DEF request_risk_acceptance
<1>12. ASSUME NEW a \in Acceptances, decide_risk_acceptance(a) PROVE TypeOK'
  BY <1>12 DEF decide_risk_acceptance
<1>13. ASSUME NEW a \in Acceptances, expire_risk_acceptances(a) PROVE TypeOK'
  BY <1>13 DEF expire_risk_acceptances
<1>14. ASSUME request_exception PROVE TypeOK'
  BY <1>14 DEF request_exception
<1>15. ASSUME decide_exception PROVE TypeOK'
  <2>1. exception' \in BOOLEAN
    BY ONLY <1>15, Zenon DEF decide_exception
  <2> QED BY <1>15, <2>1 DEF decide_exception
<1>16. ASSUME sweep_sla_status PROVE TypeOK'
  BY <1>16 DEF sweep_sla_status
<1>17. ASSUME FixOrRegress PROVE TypeOK'
  BY <1>17 DEF FixOrRegress, Verifier
<1>18. CASE UNCHANGED vars
  BY <1>18 DEF vars, slaVars
<1> QED
  BY <1>1, <1>2, <1>3, <1>4, <1>5, <1>6, <1>7, <1>8, <1>9,
     <1>10, <1>11, <1>12, <1>13, <1>14, <1>15, <1>16, <1>17, <1>18
     DEF Next, Ingest, Verify, Operate, Decide, Accept, Deadline

(* What dismisses a finding is an active decision.                         *)
LEMMA DismissalStep ==
  ASSUME IInv, [Next]_vars
  PROVE  Dismissal'
<1>0. /\ row' # None => row' \in Finding
      /\ row # None => row \in Finding
      /\ row = None => decision = None
      /\ tx # None => (tx.does = "insert" <=> row = None) /\ tx.does \in {"insert", "reopen", "update"}
      /\ exception \/ verifier.state # "none" \/ decision # None => row # None
      /\ \A a \in Acceptances : acceptance[a] # "none" => row # None
  BY RowStep, Existing DEF IInv, RowsTogether
<1> USE <1>0, FindingLifecycleConstants DEF IInv, Dismissal, DismissedIsDecided, Finding, Statuses, Workflow, slaVars
<1>1. ASSUME NEW s \in Scans, ingest_findings_read(s) PROVE Dismissal'
  BY <1>1 DEF ingest_findings_read
<1>2. ASSUME ingest_findings_write PROVE Dismissal'
  BY <1>2 DEF ingest_findings_write
<1>3. ASSUME rescan_finding PROVE Dismissal'
  BY <1>3 DEF rescan_finding
<1>4. ASSUME ScanSeesNothing PROVE Dismissal'
  BY <1>4 DEF ScanSeesNothing
<1>5. ASSUME finalize_scanner_verification_read PROVE Dismissal'
  BY <1>5 DEF finalize_scanner_verification_read
<1>6. ASSUME apply_verification PROVE Dismissal'
  BY <1>6 DEF apply_verification
<1>7. ASSUME bulk_update PROVE Dismissal'
  BY <1>7 DEF bulk_update
<1>8. ASSUME NEW status \in Workflow, update_finding(status) PROVE Dismissal'
  BY <1>8 DEF update_finding
<1>9. ASSUME create_finding_decision PROVE Dismissal'
  BY <1>9 DEF create_finding_decision
<1>10. ASSUME revoke_finding_decision PROVE Dismissal'
  BY <1>10 DEF revoke_finding_decision, _restore_decision_projection
<1>11. ASSUME NEW a \in Acceptances, request_risk_acceptance(a) PROVE Dismissal'
  BY <1>11 DEF request_risk_acceptance
<1>12. ASSUME NEW a \in Acceptances, decide_risk_acceptance(a) PROVE Dismissal'
  BY <1>12 DEF decide_risk_acceptance
<1>13. ASSUME NEW a \in Acceptances, expire_risk_acceptances(a) PROVE Dismissal'
  BY <1>13 DEF expire_risk_acceptances
<1>14. ASSUME request_exception PROVE Dismissal'
  BY <1>14 DEF request_exception
<1>15. ASSUME decide_exception PROVE Dismissal'
  BY <1>15 DEF decide_exception
<1>16. ASSUME sweep_sla_status PROVE Dismissal'
  BY <1>16 DEF sweep_sla_status
<1>17. ASSUME FixOrRegress PROVE Dismissal'
  BY <1>17 DEF FixOrRegress
<1>18. CASE UNCHANGED vars
  BY <1>18 DEF vars, slaVars
<1> QED
  BY <1>1, <1>2, <1>3, <1>4, <1>5, <1>6, <1>7, <1>8, <1>9,
     <1>10, <1>11, <1>12, <1>13, <1>14, <1>15, <1>16, <1>17, <1>18
     DEF Next, Ingest, Verify, Operate, Decide, Accept, Deadline

(* Nothing exists before the finding.                                      *)
LEMMA TogetherStep ==
  ASSUME IInv, [Next]_vars
  PROVE  RowsTogether'
<1>0. /\ row' # None => row' \in Finding /\ sla' \in Sla
      /\ row' = None => sla' = None
      /\ row # None => row' # None /\ row \in Finding /\ sla \in Sla
      /\ row = None \/ sla = None => row = None /\ sla = None
      /\ exception \/ verifier.state # "none" \/ decision # None => row # None
      /\ \A a \in Acceptances : acceptance[a] # "none" => row # None
      /\ tx # None => (tx.does = "insert" <=> row = None) /\ tx.does \in {"insert", "reopen", "update"}
      /\ acceptance \in [Acceptances -> {"none", "pending", "active"}] /\ verifier \in Verifier
  BY RowStep, Existing DEF IInv, RowsTogether, TypeOK
<1> USE <1>0, FindingLifecycleConstants DEF RowsTogether, Verifier, slaVars
<1>1. ASSUME NEW s \in Scans, ingest_findings_read(s) PROVE RowsTogether'
  BY <1>1 DEF ingest_findings_read
<1>2. ASSUME ingest_findings_write PROVE RowsTogether'
  <2>1. row' # None
    <3>1. NewDeadline \in Sla
      BY ONLY TRUE DEF NewDeadline, Sla
    <3>2. calculate_deadline(sla) # None
      BY ONLY <3>1, FindingLifecycleConstants, Zenon DEF calculate_deadline
    <3>3. sla' = calculate_deadline(sla)
      BY <1>2 DEF ingest_findings_write
    <3> QED BY <3>2, <3>3
  <2> QED BY <1>2, <2>1 DEF ingest_findings_write
<1>3. ASSUME rescan_finding PROVE RowsTogether'
  BY <1>3 DEF rescan_finding
<1>4. ASSUME ScanSeesNothing PROVE RowsTogether'
  BY <1>4 DEF ScanSeesNothing
<1>5. ASSUME finalize_scanner_verification_read PROVE RowsTogether'
  BY <1>5 DEF finalize_scanner_verification_read
<1>6. ASSUME apply_verification PROVE RowsTogether'
  BY <1>6 DEF apply_verification, NoVerifier
<1>7. ASSUME bulk_update PROVE RowsTogether'
  BY <1>7 DEF bulk_update
<1>8. ASSUME NEW status \in Workflow, update_finding(status) PROVE RowsTogether'
  BY <1>8 DEF update_finding
<1>9. ASSUME create_finding_decision PROVE RowsTogether'
  BY <1>9 DEF create_finding_decision
<1>10. ASSUME revoke_finding_decision PROVE RowsTogether'
  BY <1>10 DEF revoke_finding_decision
<1>11. ASSUME NEW a \in Acceptances, request_risk_acceptance(a) PROVE RowsTogether'
  BY <1>11 DEF request_risk_acceptance
<1>12. ASSUME NEW a \in Acceptances, decide_risk_acceptance(a) PROVE RowsTogether'
  BY <1>12 DEF decide_risk_acceptance
<1>13. ASSUME NEW a \in Acceptances, expire_risk_acceptances(a) PROVE RowsTogether'
  BY <1>13 DEF expire_risk_acceptances
<1>14. ASSUME request_exception PROVE RowsTogether'
  BY <1>14 DEF request_exception
<1>15. ASSUME decide_exception PROVE RowsTogether'
  BY <1>15 DEF decide_exception
<1>16. ASSUME sweep_sla_status PROVE RowsTogether'
  BY <1>16 DEF sweep_sla_status
<1>17. ASSUME FixOrRegress PROVE RowsTogether'
  BY <1>17 DEF FixOrRegress
<1>18. CASE UNCHANGED vars
  BY <1>18 DEF vars, slaVars
<1> QED
  BY <1>1, <1>2, <1>3, <1>4, <1>5, <1>6, <1>7, <1>8, <1>9,
     <1>10, <1>11, <1>12, <1>13, <1>14, <1>15, <1>16, <1>17, <1>18
     DEF Next, Ingest, Verify, Operate, Decide, Accept, Deadline

(* The linked acceptance is active, and a pause is under one.              *)
LEMMA PauseStep ==
  ASSUME IInv, [Next]_vars
  PROVE  (LinkIsActive /\ PauseIsLinked)'
<1>0. /\ row' # None => row' \in Finding /\ sla' \in Sla
      /\ row' = None => sla' = None
      /\ row # None => row' # None /\ row \in Finding /\ sla \in Sla
      /\ row = None \/ sla = None => row = None /\ sla = None
      /\ exception \/ verifier.state # "none" \/ decision # None => row # None
      /\ \A a \in Acceptances : acceptance[a] # "none" => row # None
      /\ tx # None => (tx.does = "insert" <=> row = None) /\ tx.does \in {"insert", "reopen", "update"}
      /\ acceptance \in [Acceptances -> {"none", "pending", "active"}] /\ verifier \in Verifier
  BY RowStep, Existing DEF IInv, RowsTogether, TypeOK
<1>19. pauses \in BOOLEAN
  BY DEF IInv, TypeOK
<1> USE <1>0, <1>19, FindingLifecycleConstants DEF IInv, LinkIsActive, PauseIsLinked, Finding, slaVars
<1>1. ASSUME NEW s \in Scans, ingest_findings_read(s) PROVE (LinkIsActive /\ PauseIsLinked)'
  BY <1>1 DEF ingest_findings_read
<1>2. ASSUME ingest_findings_write PROVE (LinkIsActive /\ PauseIsLinked)'
  <2>1. CASE row = None
    <3>1. row'.link = None /\ ~sla'.paused
      BY <1>2, <2>1 DEF ingest_findings_write, calculate_deadline, NewDeadline
    <3> QED BY <3>1
  <2>2. CASE row # None
    <3>1. row'.link = row.link
      BY <1>2, <2>2 DEF ingest_findings_write
    <3>2. sla' = sla /\ acceptance' = acceptance
      BY <1>2, <2>2, Deadlines DEF ingest_findings_write
    <3> QED BY <2>2, <3>1, <3>2
  <2> QED BY <2>1, <2>2
<1>3. ASSUME rescan_finding PROVE (LinkIsActive /\ PauseIsLinked)'
  BY <1>3 DEF rescan_finding
<1>4. ASSUME ScanSeesNothing PROVE (LinkIsActive /\ PauseIsLinked)'
  BY <1>4 DEF ScanSeesNothing
<1>5. ASSUME finalize_scanner_verification_read PROVE (LinkIsActive /\ PauseIsLinked)'
  BY <1>5 DEF finalize_scanner_verification_read
<1>6. ASSUME apply_verification PROVE (LinkIsActive /\ PauseIsLinked)'
  <2>1. row # None /\ row'.link = row.link
    BY <1>6 DEF apply_verification
  <2>2. sla'.paused = sla.paused /\ acceptance' = acceptance
    BY <1>6, <2>1, Deadlines DEF apply_verification
  <2> QED BY <2>1, <2>2
<1>7. ASSUME bulk_update PROVE (LinkIsActive /\ PauseIsLinked)'
  BY <1>7 DEF bulk_update
<1>8. ASSUME NEW status \in Workflow, update_finding(status) PROVE (LinkIsActive /\ PauseIsLinked)'
  <2>1. row # None /\ row'.link = row.link
    BY <1>8 DEF update_finding
  <2>2. sla'.paused = sla.paused /\ acceptance' = acceptance
    BY <1>8, <2>1, Deadlines DEF update_finding
  <2> QED BY <2>1, <2>2
<1>9. ASSUME create_finding_decision PROVE (LinkIsActive /\ PauseIsLinked)'
  BY <1>9 DEF create_finding_decision
<1>10. ASSUME revoke_finding_decision PROVE (LinkIsActive /\ PauseIsLinked)'
  BY <1>10 DEF revoke_finding_decision
<1>11. ASSUME NEW a \in Acceptances, request_risk_acceptance(a) PROVE (LinkIsActive /\ PauseIsLinked)'
  BY <1>11 DEF request_risk_acceptance
<1>12. ASSUME NEW a \in Acceptances, decide_risk_acceptance(a) PROVE (LinkIsActive /\ PauseIsLinked)'
  <2>1. row # None
    BY <1>12 DEF decide_risk_acceptance
  <2>2. CASE acceptance' = [acceptance EXCEPT ![a] = "active"]
    <3>1. row'.link = a /\ acceptance'[a] = "active"
      BY <1>12, <2>1, <2>2 DEF decide_risk_acceptance
    <3> QED BY <3>1
  <2>3. CASE acceptance' = [acceptance EXCEPT ![a] = "none"] /\ UNCHANGED <<row, sla>>
    BY <1>12, <2>1, <2>3 DEF decide_risk_acceptance
  <2> QED BY <1>12, <2>2, <2>3 DEF decide_risk_acceptance
<1>13. ASSUME NEW a \in Acceptances, expire_risk_acceptances(a) PROVE (LinkIsActive /\ PauseIsLinked)'
  <2>1. row # None
    BY <1>13 DEF expire_risk_acceptances
  <2>2. CASE row.link = a
    <3>1. row'.link = None
      BY <1>13, <2>1, <2>2 DEF expire_risk_acceptances
    <3>2. ~sla'.paused
      BY ONLY <1>0, <1>13, <1>19, <2>1, <2>2, Deadlines DEF expire_risk_acceptances
    <3> QED BY <3>1, <3>2
  <2>3. CASE row.link # a
    BY <1>13, <2>1, <2>3 DEF expire_risk_acceptances
  <2> QED BY <2>2, <2>3
<1>14. ASSUME request_exception PROVE (LinkIsActive /\ PauseIsLinked)'
  BY <1>14 DEF request_exception
<1>15. ASSUME decide_exception PROVE (LinkIsActive /\ PauseIsLinked)'
  <2>1. sla'.paused = sla.paused /\ row # None
    BY <1>15 DEF decide_exception, Sla
  <2> QED BY <1>15, <2>1 DEF decide_exception
<1>16. ASSUME sweep_sla_status PROVE (LinkIsActive /\ PauseIsLinked)'
  <2>1. sla'.paused = sla.paused /\ row # None
    BY <1>16, Deadlines DEF sweep_sla_status
  <2> QED BY <1>16, <2>1 DEF sweep_sla_status
<1>17. ASSUME FixOrRegress PROVE (LinkIsActive /\ PauseIsLinked)'
  BY <1>17 DEF FixOrRegress
<1>18. CASE UNCHANGED vars
  BY <1>18 DEF vars, slaVars
<1> QED
  BY <1>1, <1>2, <1>3, <1>4, <1>5, <1>6, <1>7, <1>8, <1>9,
     <1>10, <1>11, <1>12, <1>13, <1>14, <1>15, <1>16, <1>17, <1>18
     DEF Next, Ingest, Verify, Operate, Decide, Accept, Deadline

(* What a verification has not seen was absent while it ran.               *)
LEMMA VerificationStep ==
  ASSUME IInv, [Next]_vars
  PROVE  Verification'
<1>0. /\ row' # None => row' \in Finding /\ sla' \in Sla
      /\ row' = None => sla' = None
      /\ row # None => row' # None /\ row \in Finding /\ sla \in Sla
      /\ row = None \/ sla = None => row = None /\ sla = None
      /\ exception \/ verifier.state # "none" \/ decision # None => row # None
      /\ \A a \in Acceptances : acceptance[a] # "none" => row # None
      /\ tx # None => (tx.does = "insert" <=> row = None) /\ tx.does \in {"insert", "reopen", "update"}
      /\ acceptance \in [Acceptances -> {"none", "pending", "active"}] /\ verifier \in Verifier
  BY RowStep, Existing DEF IInv, RowsTogether, TypeOK
<1> USE <1>0 DEF IInv, TypeOK, Verification, Verifier, slaVars
<1>1. ASSUME NEW s \in Scans, ingest_findings_read(s) PROVE Verification'
  BY <1>1 DEF ingest_findings_read
<1>2. ASSUME ingest_findings_write PROVE Verification'
  BY <1>2 DEF ingest_findings_write
<1>3. ASSUME rescan_finding PROVE Verification'
  BY <1>3 DEF rescan_finding, NoVerifier
<1>4. ASSUME ScanSeesNothing PROVE Verification'
  BY <1>4 DEF ScanSeesNothing
<1>5. ASSUME finalize_scanner_verification_read PROVE Verification'
  BY <1>5 DEF finalize_scanner_verification_read, Observed
<1>6. ASSUME apply_verification PROVE Verification'
  BY <1>6 DEF apply_verification, NoVerifier
<1>7. ASSUME bulk_update PROVE Verification'
  BY <1>7 DEF bulk_update
<1>8. ASSUME NEW status \in Workflow, update_finding(status) PROVE Verification'
  BY <1>8 DEF update_finding
<1>9. ASSUME create_finding_decision PROVE Verification'
  BY <1>9 DEF create_finding_decision
<1>10. ASSUME revoke_finding_decision PROVE Verification'
  BY <1>10 DEF revoke_finding_decision
<1>11. ASSUME NEW a \in Acceptances, request_risk_acceptance(a) PROVE Verification'
  BY <1>11 DEF request_risk_acceptance
<1>12. ASSUME NEW a \in Acceptances, decide_risk_acceptance(a) PROVE Verification'
  BY <1>12 DEF decide_risk_acceptance
<1>13. ASSUME NEW a \in Acceptances, expire_risk_acceptances(a) PROVE Verification'
  BY <1>13 DEF expire_risk_acceptances
<1>14. ASSUME request_exception PROVE Verification'
  BY <1>14 DEF request_exception
<1>15. ASSUME decide_exception PROVE Verification'
  BY <1>15 DEF decide_exception
<1>16. ASSUME sweep_sla_status PROVE Verification'
  BY <1>16 DEF sweep_sla_status
<1>17. ASSUME FixOrRegress PROVE Verification'
  BY <1>17 DEF FixOrRegress
<1>18. CASE UNCHANGED vars
  BY <1>18 DEF vars, slaVars
<1> QED
  BY <1>1, <1>2, <1>3, <1>4, <1>5, <1>6, <1>7, <1>8, <1>9,
     <1>10, <1>11, <1>12, <1>13, <1>14, <1>15, <1>16, <1>17, <1>18
     DEF Next, Ingest, Verify, Operate, Decide, Accept, Deadline

(* A deadline moves only by an exception or the end of a pause.            *)
LEMMA RuleStep ==
  ASSUME IInv, [Next]_vars
  PROVE  sla # None /\ sla'.source # sla.source =>
            \/ exception /\ ~exception'
            \/ sla.paused /\ ~sla'.paused
<1> DEFINE Rule == sla # None /\ sla'.source # sla.source =>
                     \/ exception /\ ~exception'
                     \/ sla.paused /\ ~sla'.paused
<1>0. pauses \in BOOLEAN /\ (sla # None => sla \in Sla)
  BY DEF IInv, TypeOK
<1> USE <1>0, Deadlines DEF slaVars
<1>1. ASSUME NEW s \in Scans, ingest_findings_read(s) PROVE Rule
  BY <1>1 DEF ingest_findings_read
<1>2. ASSUME ingest_findings_write PROVE Rule
  BY <1>2 DEF ingest_findings_write
<1>3. ASSUME rescan_finding PROVE Rule
  BY <1>3 DEF rescan_finding
<1>4. ASSUME ScanSeesNothing PROVE Rule
  BY <1>4 DEF ScanSeesNothing
<1>5. ASSUME finalize_scanner_verification_read PROVE Rule
  BY <1>5 DEF finalize_scanner_verification_read
<1>6. ASSUME apply_verification PROVE Rule
  BY <1>6 DEF apply_verification
<1>7. ASSUME bulk_update PROVE Rule
  BY <1>7 DEF bulk_update
<1>8. ASSUME NEW status \in Workflow, update_finding(status) PROVE Rule
  BY <1>8 DEF update_finding
<1>9. ASSUME create_finding_decision PROVE Rule
  BY <1>9 DEF create_finding_decision
<1>10. ASSUME revoke_finding_decision PROVE Rule
  BY <1>10 DEF revoke_finding_decision
<1>11. ASSUME NEW a \in Acceptances, request_risk_acceptance(a) PROVE Rule
  BY <1>11 DEF request_risk_acceptance
<1>12. ASSUME NEW a \in Acceptances, decide_risk_acceptance(a) PROVE Rule
  BY <1>12 DEF decide_risk_acceptance
<1>13. ASSUME NEW a \in Acceptances, expire_risk_acceptances(a) PROVE Rule
  BY <1>13 DEF expire_risk_acceptances
<1>14. ASSUME request_exception PROVE Rule
  BY <1>14 DEF request_exception
<1>15. ASSUME decide_exception PROVE Rule
  BY ONLY <1>15, Zenon DEF decide_exception
<1>16. ASSUME sweep_sla_status PROVE Rule
  BY <1>16 DEF sweep_sla_status
<1>17. ASSUME FixOrRegress PROVE Rule
  BY <1>17 DEF FixOrRegress
<1>18. CASE UNCHANGED vars
  BY <1>18 DEF vars, slaVars
<1> QED
  BY <1>1, <1>2, <1>3, <1>4, <1>5, <1>6, <1>7, <1>8, <1>9,
     <1>10, <1>11, <1>12, <1>13, <1>14, <1>15, <1>16, <1>17, <1>18
     DEF Next, Ingest, Verify, Operate, Decide, Accept, Deadline

(* The inductive invariant holds in every reachable state.                 *)
THEOREM Invariance == Spec => []IInv
<1>1. IInv /\ [Next]_vars => IInv'
  BY TypeStep, TogetherStep, DismissalStep, PauseStep, VerificationStep DEF IInv
<1> QED BY InitIInv, <1>1, PTL DEF Spec

(* In every reachable state the finding and what surrounds it are well     *)
(* formed.                                                                 *)
THEOREM FindingTypeCorrect == Spec => []TypeOK
  BY Invariance, PTL DEF IInv

(* A finding is dismissed only while a decision is active: decisions,      *)
(* revocations, scans, verifications and acceptances in any order.         *)
THEOREM FindingDismissedIsDecided == Spec => []DismissedIsDecided
<1>1. IInv => DismissedIsDecided
  BY DEF IInv, Dismissal
<1> QED BY Invariance, <1>1, PTL

(* A deadline is paused only under an active acceptance of the finding,    *)
(* also when several acceptances are decided and expire in any order.      *)
THEOREM FindingPausedIsAccepted == Spec => []PausedIsAccepted
<1>1. IInv => PausedIsAccepted
  BY DEF IInv, RowsTogether, LinkIsActive, PauseIsLinked, PausedIsAccepted
<1> QED BY Invariance, <1>1, PTL

(* A verification resolves nothing that was there all the time it ran,     *)
(* whatever other scans are ingested between its steps.                    *)
THEOREM FindingResolvedWasAbsent == Spec => ResolvedWasAbsent
<1>1. IInv /\ [Next]_vars => (verifier.state = "fixed" /\ verifier'.state = "none" => verifier.absent)
  BY DEF IInv, Verification
<1>2. IInv /\ [Next]_vars => [verifier.state = "fixed" /\ verifier'.state = "none" => verifier.absent]_vars
  BY <1>1
<1> QED BY Invariance, <1>2, PTL DEF Spec, ResolvedWasAbsent

(* Once calculated a deadline changes only through an exception that was   *)
(* requested or the end of a pause, however often scans see the finding.   *)
THEOREM FindingDeadlineByRule == Spec => DeadlineByRule
<1>1. IInv /\ [Next]_vars =>
        [sla # None /\ sla'.source # sla.source =>
            \/ exception /\ ~exception'
            \/ sla.paused /\ ~sla'.paused]_vars
  BY RuleStep
<1> QED BY Invariance, <1>1, PTL DEF Spec, DeadlineByRule

----------------------------------------------------------------------------
(***************************************************************************)
(* Remediation units.  What a request is to write of suggestions is one    *)
(* step of their life: it suggests what nobody had suggested, or answers   *)
(* what was pending; and it adds a member as reviewed only with its        *)
(* acceptance (Orderly).                                                   *)
(***************************************************************************)
SuggestionsIn(d) == d.suggested = [p \in U!Pairs |-> d.suggested[p]]

Orderly(e) ==
    /\ DOMAIN e = {"read", "new"}
    /\ \A p \in U!Pairs :
          \/ e.new.suggested[p] = e.read.suggested[p]
          \/ e.read.suggested[p] = "none" /\ e.new.suggested[p] = "pending"
          \/ e.read.suggested[p] = "pending" /\ e.new.suggested[p] \in {"accepted", "rejected"}
    /\ \A m \in e.new.members \ e.read.members :
          m[3] = "reviewed" =>
             /\ <<m[1], m[2]>> \in U!Pairs
             /\ e.read.suggested[<<m[1], m[2]>>] = "pending"
             /\ e.new.suggested[<<m[1], m[2]>>] = "accepted"

UnitsInv ==
    /\ suggested = [p \in U!Pairs |-> suggested[p]]
    /\ \A e \in edits : Orderly(e)
    /\ \A m \in members : m[3] = "reviewed" => <<m[1], m[2]>> \in U!Pairs
    /\ RejectedStaysOut

(* No unit at first. *)
LEMMA InitUnits == U!Init => UnitsInv
BY DEF U!Init, UnitsInv, RejectedStaysOut, U!RejectedStaysOut

(* What a request adds. *)
LEMMA AddedRows ==
  ASSUME NEW d, NEW ps, NEW b, NEW m \in U!Adding(d, ps, b) \ d.members
  PROVE  \E p \in ps : m = <<p[1], p[2], b>>
BY DEF U!Adding

(* Every request is orderly. *)
LEMMA RequestIsOrderly ==
  ASSUME NEW d, d = [units |-> d.units, members |-> d.members, suggested |-> d.suggested],
         SuggestionsIn(d), NEW new \in U!Edits(d)
  PROVE  Orderly([read |-> d, new |-> new])
<1> DEFINE e == [read |-> d, new |-> new]
<1> SUFFICES /\ \A p \in U!Pairs :
                  \/ new.suggested[p] = d.suggested[p]
                  \/ d.suggested[p] = "none" /\ new.suggested[p] = "pending"
                  \/ d.suggested[p] = "pending" /\ new.suggested[p] \in {"accepted", "rejected"}
             /\ \A m \in new.members \ d.members :
                  m[3] = "reviewed" =>
                     /\ <<m[1], m[2]>> \in U!Pairs
                     /\ d.suggested[<<m[1], m[2]>>] = "pending"
                     /\ new.suggested[<<m[1], m[2]>>] = "accepted"
  BY DEF Orderly
<1>1. CASE \/ \E k \in Keys \ d.units, fs \in SUBSET Grouping : new = U!create_unit(d, k, fs)
           \/ \E fs \in SUBSET Grouping : new = U!auto_group_findings(d, fs)
           \/ \E k \in d.units, f \in Grouping : new = U!add_membership(d, k, f)
  <2>1. PICK ps, b : new.suggested = d.suggested /\ new.members = U!Adding(d, ps, b) /\ b # "reviewed"
    <3>1. CASE \E k \in Keys \ d.units, fs \in SUBSET Grouping : new = U!create_unit(d, k, fs)
      <4>1. PICK k, fs : new = U!create_unit(d, k, fs)
        BY <3>1
      <4>2. new.suggested = d.suggested /\ new.members = U!Adding(d, {k} \X fs, "manual")
        BY <4>1 DEF U!create_unit
      <4> QED BY <4>2
    <3>2. CASE \E fs \in SUBSET Grouping : new = U!auto_group_findings(d, fs)
      <4>1. PICK fs : new = U!auto_group_findings(d, fs)
        BY <3>2
      <4>2. PICK ps : ps = UNION {KeysOfFinding(f) \X {f} : f \in fs}
        OBVIOUS
      <4>3. new.suggested = d.suggested /\ new.members = U!Adding(d, ps, "exact")
        BY <4>1, <4>2 DEF U!auto_group_findings
      <4> QED BY <4>3
    <3>3. CASE \E k \in d.units, f \in Grouping : new = U!add_membership(d, k, f)
      <4>1. PICK k, f : new = U!add_membership(d, k, f)
        BY <3>3
      <4>2. new.suggested = d.suggested /\ new.members = U!Adding(d, {<<k, f>>}, "manual")
        BY <4>1 DEF U!add_membership
      <4> QED BY <4>2
    <3> QED BY <1>1, <3>1, <3>2, <3>3
  <2>2. \A m \in new.members \ d.members : m[3] # "reviewed"
    BY <2>1, AddedRows
  <2> QED BY <2>1, <2>2
<1>2. CASE \E p \in U!Paired(d) : new = U!remove_membership(d, p[1], p[2])
  <2>1. new.suggested = d.suggested /\ new.members \subseteq d.members
    BY <1>2 DEF U!remove_membership
  <2> QED BY <2>1
<1>3. CASE \E k \in d.units, fs \in SUBSET Grouping : new = U!suggest_fuzzy_memberships(d, k, fs)
  <2>1. PICK k, fs : new = U!suggest_fuzzy_memberships(d, k, fs)
    BY <1>3
  <2>2. new.members = d.members
    BY <2>1 DEF U!suggest_fuzzy_memberships
  <2>3. new.suggested = [p \in U!Pairs |->
           IF p \in ({k} \X fs) \ U!Paired(d) /\ d.suggested[p] = "none" THEN "pending" ELSE d.suggested[p]]
    BY <2>1 DEF U!suggest_fuzzy_memberships
  <2> QED BY <2>2, <2>3
<1>4. CASE \E p \in U!Reviewable(d), accept \in BOOLEAN : new = U!review_suggestion(d, p, accept)
  <2>1. PICK p \in U!Reviewable(d), accept \in BOOLEAN : new = U!review_suggestion(d, p, accept)
    BY <1>4
  <2>2. /\ new.suggested = [d.suggested EXCEPT ![p] = IF accept THEN "accepted" ELSE "rejected"]
        /\ new.members = IF accept THEN U!Adding(d, {p}, "reviewed") ELSE d.members
    BY <2>1 DEF U!review_suggestion
  <2>3. p \in U!Pairs /\ d.suggested[p] = "pending" /\ p = <<p[1], p[2]>>
    BY <2>1 DEF U!Reviewable, U!Pairs
  <2>4. \A q \in U!Pairs : new.suggested[q] = IF q = p THEN IF accept THEN "accepted" ELSE "rejected" ELSE d.suggested[q]
    BY <2>2, <2>3 DEF SuggestionsIn
  <2>5. \A m \in new.members \ d.members : accept /\ m = <<p[1], p[2], "reviewed">>
    BY <2>2, AddedRows
  <2> QED BY <2>3, <2>4, <2>5
<1> QED BY <1>1, <1>2, <1>3, <1>4 DEF U!Edits

(* A request reads. *)
LEMMA BeginUnits ==
  ASSUME UnitsInv, U!Begin
  PROVE  UnitsInv'
<1>1. PICK new \in U!Edits(U!db) : edits' = edits \cup {[read |-> U!db, new |-> new]}
  BY DEF U!Begin
<1>2. UNCHANGED <<members, suggested, contested>>
  BY DEF U!Begin
<1>3. PICK d : d = U!db
  OBVIOUS
<1>4. d = [units |-> d.units, members |-> d.members, suggested |-> d.suggested] /\ d.suggested = suggested
  BY <1>3 DEF U!db
<1>5. Orderly([read |-> d, new |-> new])
  BY <1>1, <1>3, <1>4, RequestIsOrderly DEF SuggestionsIn, UnitsInv
<1> QED BY <1>1, <1>2, <1>3, <1>5 DEF UnitsInv, RejectedStaysOut, U!RejectedStaysOut

(* It commits: an answer that stands and one that does not have overlapped. *)
LEMMA CommitUnits ==
  ASSUME UnitsInv, NEW e \in edits, U!Commit(e)
  PROVE  UnitsInv'
<1>1. CASE U!Conflicts(e)
  <2>1. edits' \subseteq edits /\ UNCHANGED <<members, suggested, contested>>
    BY <1>1 DEF U!Commit
  <2> QED BY <2>1 DEF UnitsInv, RejectedStaysOut, U!RejectedStaysOut
<1>2. CASE ~U!Conflicts(e)
  <2>1. /\ edits' \subseteq edits
        /\ members' = (members \ (e.read.members \ e.new.members)) \cup (e.new.members \ e.read.members)
        /\ suggested' = [p \in U!Pairs |->
              IF e.new.suggested[p] = e.read.suggested[p] THEN suggested[p] ELSE e.new.suggested[p]]
        /\ contested' = contested \cup {p \in U!Reviews(e) : suggested[p] # "pending"}
    BY <1>2 DEF U!Commit
  <2>2. Orderly(e)
    BY DEF UnitsInv
  <2>3. ASSUME NEW m \in members', m[3] = "reviewed"
        PROVE  suggested'[<<m[1], m[2]>>] = "accepted" \/ <<m[1], m[2]>> \in contested'
    <3>1. CASE m \in e.new.members \ e.read.members
      BY <2>1, <2>2, <2>3, <3>1 DEF Orderly
    <3>2. CASE m \in members
      <4> DEFINE q == <<m[1], m[2]>>
      <4>1. suggested[q] = "accepted" \/ q \in contested
        BY <2>3, <3>2 DEF UnitsInv, RejectedStaysOut, U!RejectedStaysOut
      <4>2. CASE q \in contested
        BY <2>1, <4>2
      <4>3. CASE suggested[q] = "accepted" /\ q \in U!Pairs
        <5>1. CASE e.new.suggested[q] = e.read.suggested[q]
          BY <2>1, <4>3, <5>1
        <5>2. CASE e.read.suggested[q] = "none" /\ e.new.suggested[q] = "pending"
          BY <1>2, <4>3, <5>2 DEF U!Conflicts
        <5>3. CASE e.read.suggested[q] = "pending" /\ e.new.suggested[q] \in {"accepted", "rejected"}
          BY <2>1, <4>3, <5>3 DEF U!Reviews
        <5> QED BY <2>2, <4>3, <5>1, <5>2, <5>3 DEF Orderly
      <4>4. q \in U!Pairs
        BY <2>3, <3>2 DEF UnitsInv
      <4> QED BY <4>1, <4>2, <4>3, <4>4
    <3> QED BY <2>1, <2>3, <3>1, <3>2
  <2>4. \A m \in members' : m[3] = "reviewed" => <<m[1], m[2]>> \in U!Pairs
    BY <2>1, <2>2 DEF UnitsInv, Orderly
  <2> QED BY <2>1, <2>3, <2>4 DEF UnitsInv, RejectedStaysOut, U!RejectedStaysOut
<1> QED BY <1>1, <1>2

(***************************************************************************)
(* review_suggestion: a finding is in a unit as reviewed only by an        *)
(* acceptance that stands, for any number of units, findings and requests, *)
(* unless reviews of its suggestion overlapped.                            *)
(***************************************************************************)
THEOREM FindingsRejectedStaysOut == U!Spec => []RejectedStaysOut
<1>1. UnitsInv /\ [U!Next]_(U!vars) => UnitsInv'
  <2> SUFFICES ASSUME UnitsInv, [U!Next]_(U!vars) PROVE UnitsInv'
    OBVIOUS
  <2>1. CASE UNCHANGED U!vars
    BY <2>1 DEF U!vars, UnitsInv, RejectedStaysOut, U!RejectedStaysOut
  <2> QED BY <2>1, BeginUnits, CommitUnits DEF U!Next
<1>2. UnitsInv => RejectedStaysOut
  BY DEF UnitsInv
<1> QED BY <1>1, <1>2, InitUnits, PTL DEF U!Spec

----------------------------------------------------------------------------
(***************************************************************************)
(* The ticket.  Until executions overlap, at most one is in progress, it   *)
(* knows what is recorded, and every execution that was lost is of its     *)
(* task.  So a ticket that is not recorded carries the mark by which the   *)
(* next execution of that task finds it (Findable), and one is created     *)
(* only where there is none.                                               *)
(***************************************************************************)
TicketShapes ==
    /\ \A w \in work : w = [task |-> w.task, try |-> w.try, known |-> w.known, found |-> w.found, at |-> w.at]
    /\ \A t \in tickets : t = [id |-> t.id, by |-> t.by, mark |-> t.mark, try |-> t.try, open |-> t.open]

OneWorker ==
    /\ \A v, w \in work : v = w
    /\ \A w \in work : w.known = sync /\ \A s \in lost : s = w.task

Findable ==
    /\ \A t \in tickets : t.id # None
    /\ \A t \in tickets : \/ sync # None \/ t.mark \in lost
                          \/ \E w \in work : w.at = "answered" /\ w.task = t.mark
    /\ \A w \in work : /\ w.at = "missing" => tickets = {} /\ sync = None
                       /\ w.at = "answered" => w.found # None

TicketInv == TicketShapes /\ (divided \/ (OneWorker /\ Findable /\ \A s, t \in tickets : s = t))

(* Ticket numbers are counted as the sets of the library are. *)
LEMMA FirstTicket == T!Cardinality({}) = 0
<1>1. T!Cardinality({}) = Cardinality({})
  BY DEF T!Cardinality, Cardinality
<1> QED BY <1>1, FS_EmptySet

(* No ticket at first. *)
LEMMA InitTicket == T!Init => TicketInv
BY DEF T!Init, TicketInv, TicketShapes, OneWorker, Findable

(* The connector, the finding and the queue leave the tickets alone. *)
LEMMA QuietTicket ==
  ASSUME TicketInv, UNCHANGED <<sync, work, tickets, divided, lost>>
  PROVE  TicketInv'
BY DEF TicketInv, TicketShapes, OneWorker, Findable

(* An execution begins: it knows what is recorded. *)
LEMMA ExecuteTicket ==
  ASSUME TicketInv, NEW s, T!execute_sync_task(s)
  PROVE  TicketInv'
<1>1. PICK task : task = [tasks[s] EXCEPT !.attempts = @ + 1, !.state = "running"]
  OBVIOUS
<1>2. UNCHANGED <<sync, tickets, lost>>
  BY DEF T!execute_sync_task
<1>3. CASE UNCHANGED <<work, divided>>
  BY <1>2, <1>3, QuietTicket
<1>4. CASE /\ work' = work \cup {[task |-> s, try |-> task.attempts, known |-> sync,
                                  found |-> None, at |-> "read"]}
           /\ divided' = (divided \/ work # {} \/ \E t \in lost : t # s)
  <2>1. PICK n : n = [task |-> s, try |-> task.attempts, known |-> sync, found |-> None, at |-> "read"]
    OBVIOUS
  <2>2. TicketShapes'
    BY <1>2, <1>4, <2>1 DEF TicketInv, TicketShapes
  <2>3. CASE divided'
    BY <2>2, <2>3 DEF TicketInv
  <2>4. CASE ~divided'
    <3>1. ~divided /\ work' = {n} /\ (\A t \in lost : t = s) /\ work = {}
      BY <1>4, <2>1, <2>4
    <3>2. OneWorker'
      BY <1>2, <2>1, <3>1 DEF OneWorker
    <3>3. Findable'
      BY <1>2, <2>1, <3>1 DEF TicketInv, Findable
    <3> QED BY <1>2, <2>2, <3>1, <3>2, <3>3 DEF TicketInv
  <2> QED BY <2>3, <2>4
<1> QED BY <1>1, <1>3, <1>4 DEF T!execute_sync_task

(* An execution goes on: alone, it stays the only one. *)
LEMMA MovedTicket ==
  ASSUME TicketInv, NEW w \in work, NEW at, NEW found, work' = T!Moved(w, at, found),
         UNCHANGED <<sync, divided, lost>>
  PROVE  /\ \A v \in work' : v = [task |-> v.task, try |-> v.try, known |-> v.known, found |-> v.found, at |-> v.at]
         /\ divided \/ /\ OneWorker'
                       /\ \A v \in work' : v.task = w.task /\ v.known = w.known /\ v.at = at /\ v.found = found
                       /\ \E v \in work' : v.task = w.task /\ v.at = at
<1>0. w = [task |-> w.task, try |-> w.try, known |-> w.known, found |-> w.found, at |-> w.at]
  BY DEF TicketInv, TicketShapes
<1>1. PICK n : n = [w EXCEPT !.at = at, !.found = found]
  OBVIOUS
<1>2. /\ n = [task |-> n.task, try |-> n.try, known |-> n.known, found |-> n.found, at |-> n.at]
      /\ n.task = w.task /\ n.known = w.known /\ n.at = at /\ n.found = found
  BY <1>0, <1>1
<1>3. work' = (work \ {w}) \cup {n}
  BY <1>1 DEF T!Moved
<1>4. \A v \in work' : v = [task |-> v.task, try |-> v.try, known |-> v.known, found |-> v.found, at |-> v.at]
  BY <1>2, <1>3 DEF TicketInv, TicketShapes
<1>5. ~divided => work' = {n} /\ OneWorker'
  BY <1>2, <1>3 DEF TicketInv, OneWorker
<1> QED BY <1>2, <1>4, <1>5

(* The adapter looks for the mark: who finds none is the first. *)
LEMMA SearchTicket ==
  ASSUME TicketInv, NEW w \in work, T!Search(w)
  PROVE  TicketInv'
<1>0. UNCHANGED <<sync, tickets, divided, lost>> /\ w.at = "read" /\ w.known = None
  BY DEF T!Search
<1>1. CASE T!Marked(w) = {} /\ work' = T!Moved(w, "missing", None)
  <2>1. ~divided => tickets = {} /\ sync = None
    BY <1>0, <1>1 DEF TicketInv, OneWorker, Findable, T!Marked
  <2>2. ~divided => Findable'
    BY <1>0, <1>1, <2>1, MovedTicket DEF Findable
  <2>3. TicketShapes'
    BY <1>0, <1>1, MovedTicket DEF TicketInv, TicketShapes
  <2> QED BY <1>0, <1>1, <2>2, <2>3, MovedTicket DEF TicketInv
<1>2. CASE \E t \in T!Marked(w) : work' = T!Moved(w, "answered", t.id)
  <2>1. PICK t \in tickets : t.mark = w.task /\ work' = T!Moved(w, "answered", t.id)
    BY <1>2 DEF T!Marked
  <2>2. ~divided => Findable'
    <3> SUFFICES ASSUME ~divided PROVE Findable'
      OBVIOUS
    <3>1. t.id # None /\ (\A v \in tickets : v = t)
      BY DEF TicketInv, Findable
    <3>2. /\ \A v \in work' : v.at = "answered" /\ v.found = t.id
          /\ \E v \in work' : v.task = w.task /\ v.at = "answered"
      BY <1>0, <2>1, MovedTicket
    <3> QED BY <1>0, <2>1, <3>1, <3>2 DEF Findable
  <2>3. TicketShapes'
    BY <1>0, <2>1, MovedTicket DEF TicketInv, TicketShapes
  <2> QED BY <1>0, <2>1, <2>2, <2>3, MovedTicket DEF TicketInv
<1> QED BY <1>1, <1>2 DEF T!Search

(* It creates a ticket: there was none. *)
LEMMA CreateTicket ==
  ASSUME None \notin Nat, TicketInv, NEW w \in work, T!Create(w)
  PROVE  TicketInv'
<1>1. PICK id : /\ id = T!Cardinality(tickets) + 1
                /\ tickets' = tickets \cup
                     {[id |-> id, by |-> w.task, mark |-> w.task, try |-> w.try, open |-> TRUE]}
                /\ work' = T!Moved(w, "answered", id)
  BY DEF T!Create
<1>2. UNCHANGED <<sync, divided, lost>> /\ w.at = "missing"
  BY DEF T!Create
<1>3. TicketShapes'
  BY <1>1, <1>2, MovedTicket DEF TicketInv, TicketShapes
<1>4. CASE divided
  BY <1>2, <1>3, <1>4 DEF TicketInv
<1>5. CASE ~divided
  <2>1. tickets = {}
    BY <1>2, <1>5 DEF TicketInv, Findable
  <2>2. id = 1 /\ id # None
    BY <1>1, <2>1, FirstTicket
  <2>3. PICK t : t.id = id /\ t.mark = w.task /\ tickets' = {t}
    BY <1>1, <2>1
  <2>4. /\ OneWorker'
        /\ \A v \in work' : v.at = "answered" /\ v.found = id
        /\ \E v \in work' : v.task = w.task /\ v.at = "answered"
    BY <1>1, <1>2, <1>5, MovedTicket
  <2>5. Findable'
    BY <2>2, <2>3, <2>4 DEF Findable
  <2> QED BY <1>2, <1>3, <2>3, <2>4, <2>5 DEF TicketInv
<1> QED BY <1>4, <1>5

(* It updates or closes the ticket that it knows. *)
LEMMA UpdateTicket ==
  ASSUME TicketInv, NEW w \in work, T!UpdateOrClose(w)
  PROVE  TicketInv'
<1>1. /\ UNCHANGED <<sync, divided, lost>> /\ w.at = "read" /\ w.known # None
      /\ work' = T!Moved(w, "answered", w.known)
      /\ tickets' = {IF t.id = w.known THEN T!Rewritten(t, w) ELSE t : t \in tickets}
  BY DEF T!UpdateOrClose
<1>2. \A t \in tickets : /\ T!Rewritten(t, w).id = t.id
                         /\ T!Rewritten(t, w) = [id |-> T!Rewritten(t, w).id, by |-> T!Rewritten(t, w).by,
                                mark |-> T!Rewritten(t, w).mark, try |-> T!Rewritten(t, w).try,
                                open |-> T!Rewritten(t, w).open]
  <2> TAKE t \in tickets
  <2>1. t = [id |-> t.id, by |-> t.by, mark |-> t.mark, try |-> t.try, open |-> t.open]
    BY DEF TicketInv, TicketShapes
  <2>2. PICK r : r = T!Rewritten(t, w)
    OBVIOUS
  <2>3. \/ r = [t EXCEPT !.open = FALSE]
        \/ r = [t EXCEPT !.mark = w.task, !.try = w.try]
    BY <2>2 DEF T!Rewritten
  <2>4. CASE r = [t EXCEPT !.open = FALSE]
    BY <2>1, <2>2, <2>4
  <2>5. CASE r = [t EXCEPT !.mark = w.task, !.try = w.try]
    BY <2>1, <2>2, <2>5
  <2> QED BY <2>3, <2>4, <2>5
<1>3. TicketShapes'
  <2>1. \A t \in tickets' : t = [id |-> t.id, by |-> t.by, mark |-> t.mark, try |-> t.try, open |-> t.open]
    BY <1>1, <1>2 DEF TicketInv, TicketShapes
  <2> QED BY <1>1, <2>1, MovedTicket DEF TicketShapes
<1>4. CASE divided
  BY <1>1, <1>3, <1>4 DEF TicketInv
<1>5. CASE ~divided
  <2>1. sync # None /\ (\A s, t \in tickets : s = t) /\ (\A t \in tickets : t.id # None)
    BY <1>1, <1>5 DEF TicketInv, OneWorker, Findable
  <2>2. (\A s, t \in tickets' : s = t) /\ (\A t \in tickets' : t.id # None)
    BY <1>1, <1>2, <2>1
  <2>3. OneWorker' /\ \A v \in work' : v.at = "answered" /\ v.found = w.known
    BY <1>1, <1>5, MovedTicket
  <2>4. Findable'
    BY <1>1, <2>1, <2>2, <2>3 DEF Findable
  <2> QED BY <1>3, <2>2, <2>3, <2>4 DEF TicketInv
<1> QED BY <1>4, <1>5

(* It ends: recorded, or lost, and then its mark is searched for. *)
LEMMA EndTicket ==
  ASSUME TicketInv, NEW w \in work, T!Record(w) \/ T!Abort(w)
  PROVE  TicketInv'
<1>1. /\ UNCHANGED <<tickets, divided>> /\ work' = work \ {w}
      /\ \/ sync' = w.found /\ w.at = "answered" /\ lost' = lost
         \/ sync' = sync /\ lost' = lost \cup {w.task}
  BY DEF T!Record, T!Abort
<1>2. TicketShapes'
  BY <1>1 DEF TicketInv, TicketShapes
<1>3. CASE divided
  BY <1>1, <1>2, <1>3 DEF TicketInv
<1>4. CASE ~divided
  <2>1. work' = {} /\ work = {w}
    BY <1>1, <1>4 DEF TicketInv, OneWorker
  <2>2. Findable'
    BY <1>1, <1>4, <2>1 DEF TicketInv, Findable
  <2> QED BY <1>1, <1>2, <1>4, <2>1, <2>2 DEF TicketInv, OneWorker
<1> QED BY <1>3, <1>4

(***************************************************************************)
(* execute_sync_task and the adapters: a finding has one ticket in a       *)
(* system, for any number of tasks, attempts and lost answers, unless      *)
(* executions overlapped or another task began after one was lost.         *)
(***************************************************************************)
THEOREM FindingsOneTicket == ASSUME None \notin Nat PROVE T!Spec => []OneTicket
<1>1. TicketInv /\ [T!Next]_(T!vars) => TicketInv'
  <2> SUFFICES ASSUME TicketInv, [T!Next]_(T!vars) PROVE TicketInv'
    OBVIOUS
  <2>1. CASE \/ \E elsewhere \in BOOLEAN, enabled \in {{}, {TRUE}, {FALSE}} : T!update_connector(elsewhere, enabled)
             \/ T!test_connector \/ T!TestEnds \/ T!FixOrRegress
    BY <2>1, QuietTicket DEF T!update_connector, T!test_connector, T!TestEnds, T!FixOrRegress, T!taskVars
  <2>2. CASE \E s \in Syncs, reason \in BOOLEAN :
                T!enqueue_sync(s, "close", reason) \/ T!enqueue_sync(s, "upsert", FALSE)
    BY <2>2, QuietTicket DEF T!enqueue_sync
  <2>3. CASE \E s \in Syncs : T!execute_sync_task(s)
    BY <2>3, ExecuteTicket
  <2>4. CASE \E w \in work : \/ T!Search(w) \/ T!Create(w) \/ T!UpdateOrClose(w)
                             \/ T!Record(w) \/ T!Abort(w)
    BY <2>4, SearchTicket, CreateTicket, UpdateTicket, EndTicket
  <2>5. CASE \E w \in work : T!LeaseLost(w)
    BY <2>5, QuietTicket DEF T!LeaseLost
  <2>6. CASE UNCHANGED T!vars
    BY <2>6, QuietTicket DEF T!vars
  <2> QED BY <2>1, <2>2, <2>3, <2>4, <2>5, <2>6 DEF T!Next
<1>2. TicketInv => OneTicket
  BY DEF TicketInv, OneTicket, T!OneTicket
<1> QED BY InitTicket, <1>1, <1>2, PTL DEF T!Spec

----------------------------------------------------------------------------
(***************************************************************************)
(* The score.  What a transaction is to write of a finding is the score of *)
(* what it makes of the factors and the profile, and it scores every       *)
(* finding when it changes what all rest on (Scores): so it is wrong only  *)
(* where something that it has read has changed before it commits.         *)
(***************************************************************************)
Factors == {"severe", "nvd", "kev", "epss", "valid"}

ScoredRow(entry) ==
    entry = [factors |-> entry.factors, score |-> entry.score] /\ entry.factors = [c \in Factors |-> entry.factors[c]]

Database(d) ==
    /\ d = [versions |-> d.versions, default |-> d.default, exposed |-> d.exposed, intel |-> d.intel,
            health |-> d.health, rows |-> d.rows, alerts |-> d.alerts]
    /\ d.versions \in Nat
    /\ d.rows = [f \in Scored |-> d.rows[f]]
    /\ \A f \in Scored : d.rows[f] = None \/ ScoredRow(d.rows[f])

Scores(read, new) ==
    /\ Database(read) /\ Database(new)
    /\ \A f \in Scored : read.rows[f] # None => ScoredRow(new.rows[f])
    /\ \A f \in Scored : new.rows[f] # None =>
          \/ new.rows[f] = read.rows[f] /\ new.default = read.default /\ new.exposed = read.exposed
          \/ new.rows[f].score = S!Score(new, f, S!default_profile(new))

ScoresInv ==
    /\ Database(S!db)
    /\ \A t \in txs : Scores(t.read, t.new)
    /\ ScoreIsCurrent

(* Nothing has been found at first. *)
LEMMA InitScores == S!Init => ScoresInv
BY DEF S!Init, ScoresInv, Database, S!db, ScoreIsCurrent, S!ScoreIsCurrent, S!Present

(* The profile is the one that is marked. *)
LEMMA OneProfile == \A v \in Nat : S!Max({v}) = v
BY DEF S!Max

Scorable(e, fs) == Database(e) /\ \A f \in fs \cap Scored : ScoredRow(e.rows[f])

IsRescored(e, fs, p, n) ==
    /\ Database(n)
    /\ n.default = e.default /\ n.exposed = e.exposed
    /\ \A f \in Scored \cap fs : ScoredRow(n.rows[f]) /\ n.rows[f].score = S!Score(n, f, p)
    /\ \A f \in Scored \ fs : n.rows[f] = e.rows[f]

(* What is scored anew has the score of its factors. *)
LEMMA RescoredRows ==
  ASSUME NEW e, NEW fs, Scorable(e, fs), NEW p, NEW n, n = S!Rescored(e, fs, p)
  PROVE  IsRescored(e, fs, p, n)
<1>0. Database(e) /\ \A f \in fs \cap Scored : ScoredRow(e.rows[f])
  BY DEF Scorable
<1>2. PICK rows1 : rows1 = [f \in Scored |-> IF f \in fs THEN S!score_finding(e, f, p) ELSE e.rows[f]]
  OBVIOUS
<1>3. n = [e EXCEPT !.rows = rows1]
  BY <1>2 DEF S!Rescored
<1>4. n = [versions |-> e.versions, default |-> e.default, exposed |-> e.exposed, intel |-> e.intel,
           health |-> e.health, rows |-> rows1, alerts |-> e.alerts]
  BY <1>0, <1>3 DEF Database
<1>5. \A f \in Scored \cap fs : /\ ScoredRow(rows1[f]) /\ rows1[f].factors = e.rows[f].factors
                                /\ rows1[f].score = S!Score(e, f, p)
  <2> TAKE f \in Scored \cap fs
  <2>1. PICK entry : entry = e.rows[f]
    OBVIOUS
  <2>2. ScoredRow(entry) /\ rows1[f] = [entry EXCEPT !.score = S!Score(e, f, p)]
    BY <1>0, <1>2, <2>1 DEF S!score_finding
  <2>3. entry = [factors |-> entry.factors, score |-> entry.score] /\ entry.factors = [c \in Factors |-> entry.factors[c]]
    BY <2>2 DEF ScoredRow
  <2>4. rows1[f] = [factors |-> entry.factors, score |-> S!Score(e, f, p)]
    BY <2>2, <2>3
  <2> QED BY <2>1, <2>3, <2>4 DEF ScoredRow
<1>6. \A f \in Scored \cap fs : S!Score(n, f, p) = S!Score(e, f, p)
  BY <1>4, <1>5 DEF S!Score, S!_score_inputs
<1>7. \A f \in Scored \ fs : rows1[f] = e.rows[f]
  BY <1>2
<1>8. Database(n)
  BY <1>0, <1>2, <1>4, <1>5, <1>7 DEF Database
<1> QED BY <1>4, <1>5, <1>6, <1>7, <1>8 DEF IsRescored

(* A transaction that changes some findings, or what all rest on, and      *)
(* scores whom that concerns.                                              *)
LEMMA ScoredAnew ==
  ASSUME NEW d, Database(d), NEW e, Database(e), NEW fs, NEW p, p = S!default_profile(e),
         \A f \in fs \cap Scored : ScoredRow(e.rows[f]),
         \A f \in Scored \ fs : \/ e.rows[f] = None /\ d.rows[f] = None
                                \/ e.rows[f] = d.rows[f] /\ e.default = d.default /\ e.exposed = d.exposed
  PROVE  Scores(d, S!Rescored(e, fs, p))
<1>1. PICK n : n = S!Rescored(e, fs, p)
  OBVIOUS
<1>2. /\ Database(n) /\ n.default = e.default /\ n.exposed = e.exposed
      /\ \A f \in Scored \cap fs : ScoredRow(n.rows[f]) /\ n.rows[f].score = S!Score(n, f, p)
      /\ \A f \in Scored \ fs : n.rows[f] = e.rows[f]
  <2>1. Scorable(e, fs)
    BY DEF Scorable
  <2> QED BY <1>1, <2>1, RescoredRows DEF IsRescored
<1>3. S!default_profile(n) = p
  BY <1>2 DEF S!default_profile
<1>4. \A f \in Scored : d.rows[f] # None => ScoredRow(n.rows[f])
  BY <1>2 DEF Database
<1> QED BY <1>1, <1>2, <1>3, <1>4 DEF Scores

(* The profile. *)
LEMMA ProfileEffects ==
  ASSUME NEW d, Database(d),
         NEW n \in {S!create_profile_version(d, b) : b \in BOOLEAN}
                   \cup {S!activate_profile(d, v) : v \in 1..d.versions}
  PROVE  Scores(d, n)
<1>0. /\ d = [versions |-> d.versions, default |-> d.default, exposed |-> d.exposed, intel |-> d.intel,
            health |-> d.health, rows |-> d.rows, alerts |-> d.alerts]
      /\ d.versions \in Nat /\ d.rows = [f \in Scored |-> d.rows[f]]
      /\ \A f \in Scored : d.rows[f] = None \/ ScoredRow(d.rows[f])
  BY DEF Database
<1>1. CASE n = S!create_profile_version(d, TRUE)
  <2>1. PICK v : v = d.versions + 1
    OBVIOUS
  <2>2. PICK e : e = [d EXCEPT !.versions = v, !.default = {v}]
    OBVIOUS
  <2>3. e = [versions |-> v, default |-> {v}, exposed |-> d.exposed, intel |-> d.intel,
             health |-> d.health, rows |-> d.rows, alerts |-> d.alerts]
    BY <1>0, <2>2
  <2>4. n = S!Rescored(e, S!Present(d), v)
    BY <1>1, <2>1, <2>2 DEF S!create_profile_version
  <2>5. Database(e) /\ S!default_profile(e) = v
    BY <1>0, <2>1, <2>3, OneProfile DEF Database, S!default_profile
  <2>6. /\ \A f \in S!Present(d) \cap Scored : ScoredRow(e.rows[f])
        /\ \A f \in Scored \ S!Present(d) : e.rows[f] = None /\ d.rows[f] = None
    BY <1>0, <2>3 DEF S!Present
  <2> QED BY <2>4, <2>5, <2>6, ScoredAnew
<1>2. CASE n = S!create_profile_version(d, FALSE)
  <2>1. n = [d EXCEPT !.versions = d.versions + 1, !.default = d.default]
    BY <1>2 DEF S!create_profile_version
  <2>2. n = [versions |-> d.versions + 1, default |-> d.default, exposed |-> d.exposed, intel |-> d.intel,
             health |-> d.health, rows |-> d.rows, alerts |-> d.alerts]
    BY <1>0, <2>1
  <2>3. Database(n)
    BY <1>0, <2>2 DEF Database
  <2> QED BY <1>0, <2>2, <2>3 DEF Scores
<1>3. CASE \E v \in 1..d.versions : n = S!activate_profile(d, v)
  <2>1. PICK v \in 1..d.versions : n = S!activate_profile(d, v)
    BY <1>3
  <2>2. PICK e : e = [d EXCEPT !.default = {v}]
    OBVIOUS
  <2>3. e = [versions |-> d.versions, default |-> {v}, exposed |-> d.exposed, intel |-> d.intel,
             health |-> d.health, rows |-> d.rows, alerts |-> d.alerts]
    BY <1>0, <2>2
  <2>4. n = S!Rescored(e, S!Present(d), v)
    BY <2>1, <2>2 DEF S!activate_profile
  <2>5. Database(e) /\ S!default_profile(e) = v
    BY <1>0, <2>1, <2>3, OneProfile DEF Database, S!default_profile
  <2>6. /\ \A f \in S!Present(d) \cap Scored : ScoredRow(e.rows[f])
        /\ \A f \in Scored \ S!Present(d) : e.rows[f] = None /\ d.rows[f] = None
    BY <1>0, <2>3 DEF S!Present
  <2> QED BY <2>4, <2>5, <2>6, ScoredAnew
<1> QED BY <1>1, <1>2, <1>3

(* One finding, and the asset's context. *)
LEMMA FindingEffects ==
  ASSUME NEW d, Database(d),
         NEW n \in {S!recalculate_score(d, f) : f \in S!Present(d)}
                   \cup {S!update_asset_context(d, b) : b \in BOOLEAN}
  PROVE  Scores(d, n)
<1>0. /\ d = [versions |-> d.versions, default |-> d.default, exposed |-> d.exposed, intel |-> d.intel,
            health |-> d.health, rows |-> d.rows, alerts |-> d.alerts]
      /\ d.versions \in Nat /\ d.rows = [f \in Scored |-> d.rows[f]]
      /\ \A f \in Scored : d.rows[f] = None \/ ScoredRow(d.rows[f])
  BY DEF Database
<1>1. CASE \E f \in S!Present(d) : n = S!recalculate_score(d, f)
  <2>1. PICK f \in S!Present(d) : n = S!Rescored(d, {f}, S!default_profile(d))
    BY <1>1 DEF S!recalculate_score
  <2>2. \A g \in {f} \cap Scored : ScoredRow(d.rows[g])
    BY <1>0, <2>1 DEF S!Present
  <2> QED BY <2>1, <2>2, ScoredAnew
<1>2. CASE \E b \in BOOLEAN : n = S!update_asset_context(d, b)
  <2>1. PICK b : n = S!update_asset_context(d, b)
    BY <1>2
  <2>2. PICK e : e = [d EXCEPT !.exposed = b]
    OBVIOUS
  <2>3. e = [versions |-> d.versions, default |-> d.default, exposed |-> b, intel |-> d.intel,
             health |-> d.health, rows |-> d.rows, alerts |-> d.alerts]
    BY <1>0, <2>2
  <2>4. n = S!Rescored(e, S!Present(e), S!default_profile(e))
    BY <2>1, <2>2 DEF S!update_asset_context
  <2>5. Database(e)
    BY <1>0, <2>3 DEF Database
  <2>6. /\ \A f \in S!Present(e) \cap Scored : ScoredRow(e.rows[f])
        /\ \A f \in Scored \ S!Present(e) : e.rows[f] = None /\ d.rows[f] = None
    BY <1>0, <2>3 DEF S!Present
  <2> QED BY <2>4, <2>5, <2>6, ScoredAnew
<1> QED BY <1>1, <1>2

(* The row of one finding, put anew into the database. *)
LEMMA OneRow ==
  ASSUME NEW d, Database(d), NEW f \in Scored, NEW entry, ScoredRow(entry), NEW e, e = [d EXCEPT !.rows[f] = entry]
  PROVE  Scores(d, S!Rescored(e, {f}, S!default_profile(d)))
<1>0. /\ d = [versions |-> d.versions, default |-> d.default, exposed |-> d.exposed, intel |-> d.intel,
            health |-> d.health, rows |-> d.rows, alerts |-> d.alerts]
      /\ d.versions \in Nat /\ d.rows = [g \in Scored |-> d.rows[g]]
      /\ \A g \in Scored : d.rows[g] = None \/ ScoredRow(d.rows[g])
  BY DEF Database
<1>1. PICK rows1 : rows1 = [d.rows EXCEPT ![f] = entry]
  OBVIOUS
<1>2. e = [versions |-> d.versions, default |-> d.default, exposed |-> d.exposed, intel |-> d.intel,
           health |-> d.health, rows |-> rows1, alerts |-> d.alerts]
  BY <1>0, <1>1
<1>3. rows1 = [g \in Scored |-> IF g = f THEN entry ELSE d.rows[g]]
  BY <1>0, <1>1
<1>4. Database(e) /\ S!default_profile(e) = S!default_profile(d)
  BY <1>0, <1>2, <1>3 DEF Database, S!default_profile
<1>5. ScoredRow(e.rows[f]) /\ \A g \in Scored \ {f} : e.rows[g] = d.rows[g]
  BY <1>2, <1>3
<1> QED BY <1>2, <1>4, <1>5, ScoredAnew

(* What a scan reports. *)
LEMMA IngestEffects ==
  ASSUME NEW d, Database(d), NEW f \in Scored, NEW severe, NEW cvss
  PROVE  Scores(d, S!ingest_findings(d, f, severe, cvss))
<1>0. /\ d = [versions |-> d.versions, default |-> d.default, exposed |-> d.exposed, intel |-> d.intel,
            health |-> d.health, rows |-> d.rows, alerts |-> d.alerts]
      /\ d.rows[f] = None \/ ScoredRow(d.rows[f])
  BY DEF Database
<1>1. PICK seen : seen = [severe |-> severe, nvd |-> cvss]
  OBVIOUS
<1>2. PICK new : new = [severe |-> severe, nvd |-> cvss, kev |-> FALSE, epss |-> FALSE, valid |-> FALSE]
  OBVIOUS
<1>3. PICK entry : entry = IF d.rows[f] = None THEN [factors |-> new, score |-> None]
                       ELSE [d.rows[f] EXCEPT !.factors = [c \in DOMAIN @ |-> IF c \in DOMAIN seen THEN seen[c] ELSE @[c]]]
  OBVIOUS
<1>4. ScoredRow(entry)
  <2>1. CASE d.rows[f] = None
    <3>1. new = [c \in Factors |-> new[c]]
      BY <1>2 DEF Factors
    <3> QED BY <1>3, <2>1, <3>1 DEF ScoredRow
  <2>2. CASE d.rows[f] # None
    <3>1. PICK r : r = d.rows[f]
      OBVIOUS
    <3>2. r = [factors |-> r.factors, score |-> r.score] /\ r.factors = [c \in Factors |-> r.factors[c]]
      BY <1>0, <2>2, <3>1 DEF ScoredRow
    <3>3. PICK fac : fac = [c \in Factors |-> IF c \in DOMAIN seen THEN seen[c] ELSE r.factors[c]]
      OBVIOUS
    <3>4. DOMAIN r.factors = Factors
      BY <3>2
    <3>5. entry = [r EXCEPT !.factors = fac]
      BY <1>3, <2>2, <3>1, <3>3, <3>4
    <3>6. entry = [factors |-> fac, score |-> r.score]
      BY <3>2, <3>5
    <3> QED BY <3>3, <3>6 DEF ScoredRow
  <2> QED BY <2>1, <2>2
<1>5. S!ingest_findings(d, f, severe, cvss) = S!Rescored([d EXCEPT !.rows[f] = entry], {f}, S!default_profile(d))
  BY <1>1, <1>2, <1>3 DEF S!ingest_findings
<1> QED BY <1>4, <1>5, OneRow

(* What an operator says of a finding. *)
LEMMA VerdictEffects ==
  ASSUME NEW d, Database(d), NEW f \in Scored, d.rows[f] # None, NEW valid
  PROVE  Scores(d, S!update_finding(d, f, valid))
<1>1. PICK r : r = d.rows[f]
  OBVIOUS
<1>2. r = [factors |-> r.factors, score |-> r.score] /\ r.factors = [c \in Factors |-> r.factors[c]]
  BY <1>1 DEF Database, ScoredRow
<1>3. PICK entry : entry = [r EXCEPT !.factors.valid = valid]
  OBVIOUS
<1>4. entry = [factors |-> [r.factors EXCEPT !["valid"] = valid], score |-> r.score]
  BY <1>2, <1>3
<1>5. ScoredRow(entry)
  BY <1>2, <1>4 DEF ScoredRow
<1>6. S!update_finding(d, f, valid) = S!Rescored([d EXCEPT !.rows[f] = entry], {f}, S!default_profile(d))
  <2>1. [d EXCEPT !.rows[f].factors.valid = valid] = [d EXCEPT !.rows[f] = entry]
    BY <1>1, <1>3
  <2> QED BY <2>1 DEF S!update_finding
<1> QED BY <1>5, <1>6, OneRow

(* What is stored of the CVE enriches those that reference it. *)
LEMMA EnrichmentEffects ==
  ASSUME NEW d, Database(d), NEW i, NEW e, e = [d EXCEPT !.intel = i], NEW added
  PROVE  Scores(d, S!apply_enrichment(e, added))
<1>0. /\ d = [versions |-> d.versions, default |-> d.default, exposed |-> d.exposed, intel |-> d.intel,
            health |-> d.health, rows |-> d.rows, alerts |-> d.alerts]
      /\ d.versions \in Nat /\ d.rows = [f \in Scored |-> d.rows[f]]
      /\ \A f \in Scored : d.rows[f] = None \/ ScoredRow(d.rows[f])
  BY DEF Database
<1>1. e = [versions |-> d.versions, default |-> d.default, exposed |-> d.exposed, intel |-> i,
           health |-> d.health, rows |-> d.rows, alerts |-> d.alerts]
  BY <1>0
<1>2. PICK en : en = S!Enriched(e)
  OBVIOUS
<1>3. \A f \in en : f \in Scored /\ ScoredRow(d.rows[f])
  BY <1>0, <1>1, <1>2 DEF S!Enriched, S!Present
<1>4. \A f \in en : ScoredRow(S!Enrich(e, f))
  <2> TAKE f \in en
  <2>1. PICK r : r = e.rows[f]
    OBVIOUS
  <2>2. r = [factors |-> r.factors, score |-> r.score] /\ r.factors = [c \in Factors |-> r.factors[c]]
    BY <1>1, <1>3, <2>1 DEF ScoredRow
  <2>0. PICK v : v = (r.factors.nvd \/ i.nvd)
    OBVIOUS
  <2>3. PICK fac : fac = [r.factors EXCEPT !.kev = i.kev, !.epss = i.epss, !.nvd = v]
    OBVIOUS
  <2>4. fac = [c \in Factors |-> fac[c]]
    BY <2>2, <2>3
  <2>5. S!Enrich(e, f) = [factors |-> fac, score |-> r.score]
    <3>0. e.intel = i
      BY <1>1
    <3>1. S!Enrich(e, f) = [e.rows[f] EXCEPT !.factors = [e.rows[f].factors EXCEPT !.kev = e.intel.kev,
                              !.epss = e.intel.epss, !.nvd = e.rows[f].factors.nvd \/ e.intel.nvd]]
      BY Zenon DEF S!Enrich
    <3>2. S!Enrich(e, f) = [r EXCEPT !.factors = fac]
      BY <2>0, <2>1, <2>3, <3>0, <3>1, Zenon
    <3> QED BY <2>2, <3>2
  <2> QED BY <2>4, <2>5 DEF ScoredRow
<1>5. PICK rows1 : rows1 = [f \in Scored |-> IF f \in en THEN S!Enrich(e, f) ELSE e.rows[f]]
  OBVIOUS
<1>6. PICK x : x = [e EXCEPT !.rows = rows1]
  OBVIOUS
<1>7. x = [versions |-> d.versions, default |-> d.default, exposed |-> d.exposed, intel |-> i,
           health |-> d.health, rows |-> rows1, alerts |-> d.alerts]
  BY <1>1, <1>6
<1>8. PICK alerted : alerted = {f \in en : added /\ ~e.rows[f].factors.kev}
  OBVIOUS
<1>9. PICK a : a = [x EXCEPT !.alerts = [f \in Scored |-> IF f \in alerted THEN x.alerts[f] + 1 ELSE x.alerts[f]]]
  OBVIOUS
<1>10. a = [versions |-> d.versions, default |-> d.default, exposed |-> d.exposed, intel |-> i,
            health |-> d.health, rows |-> rows1, alerts |-> a.alerts]
  BY <1>7, <1>9
<1>11. S!apply_enrichment(e, added) = S!Rescored(a, en, S!default_profile(e))
  <2>1. x = [e EXCEPT !.rows = [f \in Scored |-> IF f \in en THEN S!Enrich(e, f) ELSE @[f]]]
    BY <1>5, <1>6
  <2>2. a = [x EXCEPT !.alerts = [f \in Scored |-> IF f \in alerted THEN @[f] + 1 ELSE @[f]]]
    BY <1>9
  <2> QED BY <1>2, <1>8, <2>1, <2>2 DEF S!apply_enrichment
<1>12. Database(a) /\ S!default_profile(e) = S!default_profile(a)
  BY <1>0, <1>1, <1>3, <1>4, <1>5, <1>10 DEF Database, S!default_profile
<1>13. /\ \A f \in en \cap Scored : ScoredRow(a.rows[f])
       /\ \A f \in Scored \ en : a.rows[f] = d.rows[f]
  <2>1. \A f \in Scored : a.rows[f] = IF f \in en THEN S!Enrich(e, f) ELSE d.rows[f]
    <3>1. a.rows = rows1 /\ e.rows = d.rows
      BY <1>1, <1>10
    <3> QED BY <1>5, <3>1
  <2> QED BY <1>4, <2>1
<1> QED BY <1>10, <1>11, <1>12, <1>13, ScoredAnew

(* How a feed fares is none of the score. *)
LEMMA HealthEffects ==
  ASSUME NEW d, NEW n, Scores(d, n), NEW feed, NEW status
  PROVE  Scores(d, S!_record_feed_health(n, feed, status))
<1>1. n = [versions |-> n.versions, default |-> n.default, exposed |-> n.exposed, intel |-> n.intel,
           health |-> n.health, rows |-> n.rows, alerts |-> n.alerts]
  BY DEF Scores, Database
<1>2. PICK m : m = S!_record_feed_health(n, feed, status)
  OBVIOUS
<1>3. m = [versions |-> n.versions, default |-> n.default, exposed |-> n.exposed, intel |-> n.intel,
           health |-> [n.health EXCEPT ![feed] = status], rows |-> n.rows, alerts |-> n.alerts]
  BY <1>1, <1>2 DEF S!_record_feed_health
<1>4. Database(m) /\ S!default_profile(m) = S!default_profile(n)
  BY <1>3 DEF Scores, Database, S!default_profile
<1>5. \A f \in Scored : \A p : S!Score(m, f, p) = S!Score(n, f, p)
  BY <1>3 DEF S!Score, S!_score_inputs
<1> QED BY <1>2, <1>3, <1>4, <1>5 DEF Scores

(* A feed is synchronised. *)
LEMMA FeedEffects ==
  ASSUME NEW d, Database(d), NEW feed \in S!Feeds, NEW n \in S!Synced(d, feed)
  PROVE  Scores(d, n)
<1>1. CASE feed = "nvd"
  <2>1. n = S!ingest_nvd(d)
    BY <1>1 DEF S!Synced
  <2>2. [d EXCEPT !.intel.nvd = TRUE] = [d EXCEPT !.intel = [d.intel EXCEPT !.nvd = TRUE]]
    BY DEF Database
  <2> QED BY <2>1, <2>2, EnrichmentEffects DEF S!ingest_nvd
<1>2. CASE feed = "kev"
  <2>1. n = S!ingest_kev(d)
    BY <1>2 DEF S!Synced
  <2>2. [d EXCEPT !.intel.kev = TRUE] = [d EXCEPT !.intel = [d.intel EXCEPT !.kev = TRUE]]
    BY DEF Database
  <2> QED BY <2>1, <2>2, EnrichmentEffects DEF S!ingest_kev
<1>3. CASE feed = "epss"
  <2>1. PICK over : n = S!ingest_epss(d, over)
    BY <1>3 DEF S!Synced
  <2>2. [d EXCEPT !.intel.epss = over] = [d EXCEPT !.intel = [d.intel EXCEPT !.epss = over]]
    BY DEF Database
  <2> QED BY <2>1, <2>2, EnrichmentEffects DEF S!ingest_epss
<1> QED BY <1>1, <1>2, <1>3 DEF S!Feeds

(* What does not touch the findings, or what they rest on, keeps the scores. *)
LEMMA ScoresStay ==
  ASSUME Database(S!db), ScoreIsCurrent, \A t \in txs' : Scores(t.read, t.new),
         UNCHANGED <<versions, default, exposed, intel, health, rows, alerts, raced>>
  PROVE  ScoresInv'
<1>1. S!db' = S!db
  BY DEF S!db
<1>2. PICK d : d = S!db
  OBVIOUS
<1>3. Database(d)
  BY <1>2
<1>4. S!db' = d
  BY <1>1, <1>2
<1>5. Database(S!db)'
  BY <1>3, <1>4 DEF Database, ScoredRow
<1>6. \A f \in S!Present(d) \ raced' : rows'[f].score = S!Score(d, f, S!default_profile(d))
  BY <1>2 DEF ScoreIsCurrent, S!ScoreIsCurrent
<1>7. ScoreIsCurrent'
  BY <1>4, <1>6 DEF ScoreIsCurrent, S!ScoreIsCurrent
<1> QED BY <1>5, <1>7 DEF ScoresInv

(* A transaction starts with what it has read. *)
LEMMA StartScores ==
  ASSUME ScoresInv, NEW new, S!Starts(new), Scores(S!db, new)
  PROVE  ScoresInv'
<1>1. txs' = txs \cup {[read |-> S!db, new |-> new, id |-> begun']}
  BY DEF S!Starts
<1>2. UNCHANGED <<versions, default, exposed, intel, health, rows, alerts, raced>>
  BY DEF S!Starts
<1>3. \A t \in txs' : Scores(t.read, t.new)
  BY <1>1 DEF ScoresInv
<1>4. Database(S!db) /\ ScoreIsCurrent
  BY DEF ScoresInv
<1> QED BY <1>2, <1>3, <1>4, ScoresStay

(* Whatever a transaction makes of what it has read. *)
LEMMA BeginScores ==
  ASSUME ScoresInv, S!Begin
  PROVE  ScoresInv'
<1>0. Database(S!db)
  BY DEF ScoresInv
<1>1. CASE \E b \in BOOLEAN : S!Starts(S!create_profile_version(S!db, b))
  BY <1>0, <1>1, ProfileEffects, StartScores
<1>2. CASE \E v \in 1..versions : S!Starts(S!activate_profile(S!db, v))
  <2>1. S!db.versions = versions
    BY DEF S!db
  <2> QED BY <1>0, <1>2, <2>1, ProfileEffects, StartScores
<1>3. CASE \E f \in S!Present(S!db) : S!Starts(S!recalculate_score(S!db, f))
  BY <1>0, <1>3, FindingEffects, StartScores
<1>4. CASE \E f \in Scored, s \in BOOLEAN, c \in BOOLEAN : S!Starts(S!ingest_findings(S!db, f, s, c))
  BY <1>0, <1>4, IngestEffects, StartScores
<1>5. CASE \E f \in S!Present(S!db), b \in BOOLEAN : S!Starts(S!update_finding(S!db, f, b))
  <2>1. \A f \in S!Present(S!db) : f \in Scored /\ S!db.rows[f] # None
    BY DEF S!Present
  <2> QED BY <1>0, <1>5, <2>1, VerdictEffects, StartScores
<1>6. CASE \E b \in BOOLEAN : S!Starts(S!update_asset_context(S!db, b))
  BY <1>0, <1>6, FindingEffects, StartScores
<1>7. CASE \E feed \in S!Feeds : S!_sync(feed)
  <2>1. PICK feed \in S!Feeds : S!_sync(feed)
    BY <1>7
  <2>2. CASE S!Starts(S!_record_feed_health(S!db, feed, "failed"))
    <3>1. Scores(S!db, S!db)
      BY <1>0 DEF Scores, Database
    <3> QED BY <2>2, <3>1, HealthEffects, StartScores
  <2>3. CASE \E status \in S!fetch_with_retry \ {"failed"}, e \in S!Synced(S!db, feed) :
                S!Starts(S!_record_feed_health(e, feed, status))
    BY <1>0, <2>3, FeedEffects, HealthEffects, StartScores
  <2> QED BY <2>1, <2>2, <2>3 DEF S!_sync
<1> QED BY <1>1, <1>2, <1>3, <1>4, <1>5, <1>6, <1>7 DEF S!Begin

(* A transaction commits its row upon what others have. *)
LEMMA MergedRow ==
  ASSUME NEW now, NEW read, NEW new, now = None \/ ScoredRow(now),
         new = None \/ ScoredRow(new), read # None => ScoredRow(new)
  PROVE  /\ S!MergeRow(now, read, new) = None \/ ScoredRow(S!MergeRow(now, read, new))
         /\ now = read => S!MergeRow(now, read, new) = new
         /\ new = read => S!MergeRow(now, read, new) = now
<1>1. CASE new = read \/ now = None
  BY <1>1 DEF S!MergeRow
<1>2. CASE new # read /\ now # None
  <2>1. PICK fac : fac = [c \in DOMAIN now.factors |-> IF new.factors[c] = read.factors[c] THEN now.factors[c]
                                                       ELSE new.factors[c]]
    OBVIOUS
  <2>2. PICK sc : sc = IF new.score = read.score THEN now.score ELSE new.score
    OBVIOUS
  <2>3. S!MergeRow(now, read, new) = [factors |-> fac, score |-> sc]
    BY <1>2, <2>1, <2>2 DEF S!MergeRow, S!Merge
  <2>4. now.factors = [c \in Factors |-> now.factors[c]]
    BY <1>2 DEF ScoredRow
  <2>5. fac = [c \in Factors |-> fac[c]]
    BY <2>1, <2>4
  <2>6. ScoredRow([factors |-> fac, score |-> sc])
    BY <2>5 DEF ScoredRow
  <2>7. ASSUME now = read PROVE new = [factors |-> fac, score |-> sc]
    <3>1. new = [factors |-> new.factors, score |-> new.score] /\ new.factors = [c \in Factors |-> new.factors[c]]
      BY <1>2, <2>7 DEF ScoredRow
    <3>2. fac = [c \in Factors |-> new.factors[c]]
      BY <2>1, <2>4, <2>7
    <3> QED BY <2>2, <2>7, <3>1, <3>2
  <2> QED BY <1>2, <2>3, <2>6, <2>7
<1> QED BY <1>1, <1>2

(* A transaction commits: where nothing that it read has changed, what it  *)
(* makes of a finding is what is then stored.                              *)
LEMMA CommitScores ==
  ASSUME ScoresInv, NEW t \in txs, S!Commit(t)
  PROVE  ScoresInv'
<1>1. txs' \subseteq txs
  BY DEF S!Commit
<1>2. Scores(t.read, t.new) /\ \A u \in txs' : Scores(u.read, u.new)
  BY <1>1 DEF ScoresInv
<1>3. Database(S!db) /\ ScoreIsCurrent
  BY DEF ScoresInv
<1>4. CASE UNCHANGED <<versions, default, exposed, intel, health, rows, alerts, raced>>
  BY <1>2, <1>3, <1>4, ScoresStay
<1>5. CASE /\ versions' = IF t.new.versions = t.read.versions THEN versions ELSE t.new.versions
           /\ default' = S!MergeDefault(default, t.read.default, t.new.default)
           /\ exposed' = IF t.new.exposed = t.read.exposed THEN exposed ELSE t.new.exposed
           /\ rows' = [f \in Scored |-> S!MergeRow(rows[f], t.read.rows[f], t.new.rows[f])]
           /\ raced' = (raced \ S!Written(t)) \cup {f \in S!Concerns(t) : S!Stale(t, f)}
  <2>1. /\ Database(t.read) /\ Database(t.new) /\ versions \in Nat
        /\ \A f \in Scored : rows[f] = None \/ ScoredRow(rows[f])
    BY <1>2, <1>3 DEF Scores, Database, S!db
  <2>2. \A f \in Scored : /\ rows'[f] = None \/ ScoredRow(rows'[f])
                          /\ rows[f] = t.read.rows[f] => rows'[f] = t.new.rows[f]
                          /\ t.new.rows[f] = t.read.rows[f] => rows'[f] = rows[f]
    <3> TAKE f \in Scored
    <3>1. /\ rows[f] = None \/ ScoredRow(rows[f])
          /\ t.new.rows[f] = None \/ ScoredRow(t.new.rows[f])
          /\ t.read.rows[f] # None => ScoredRow(t.new.rows[f])
      BY <1>2, <2>1 DEF Scores, Database
    <3>2. rows'[f] = S!MergeRow(rows[f], t.read.rows[f], t.new.rows[f])
      BY <1>5
    <3> QED BY <3>1, <3>2, MergedRow
  <2>3. versions' \in Nat
    BY <1>5, <2>1 DEF Database
  <2>4. Database(S!db)'
    <3>1. PICK d : d = S!db'
      OBVIOUS
    <3>2. d = [versions |-> versions', default |-> default', exposed |-> exposed', intel |-> intel',
               health |-> health', rows |-> rows', alerts |-> alerts']
      BY <3>1 DEF S!db
    <3>3. Database(d)
      BY <1>5, <2>2, <2>3, <3>2 DEF Database
    <3> QED BY <3>1, <3>3 DEF Database, ScoredRow
  <2>5. default = t.read.default => default' = t.new.default
    BY <1>5 DEF S!MergeDefault
  <2>6. t.new.default = t.read.default => default' = default
    BY <1>5 DEF S!MergeDefault
  <2>7. \A f \in Scored \ raced' : rows'[f] # None => rows'[f].score = S!Score(S!db', f, S!Max(default'))
    <3> TAKE f \in Scored \ raced'
    <3> HAVE rows'[f] # None
    <3>1. PICK d : d = S!db'
      OBVIOUS
    <3>2. d.rows = rows' /\ d.exposed = exposed'
      BY <3>1 DEF S!db
    <3>3. CASE f \in S!Concerns(t)
      <4>1. rows[f] = t.read.rows[f] /\ default = t.read.default /\ exposed = t.read.exposed
        BY <1>5, <3>3 DEF S!Stale
      <4>2. rows'[f] = t.new.rows[f] /\ default' = t.new.default /\ exposed' = t.new.exposed
        BY <1>5, <2>2, <2>5, <4>1
      <4>3. ~(t.new.rows[f] = t.read.rows[f] /\ t.new.default = t.read.default /\ t.new.exposed = t.read.exposed)
        BY <3>3 DEF S!Concerns, S!Written
      <4>4. t.new.rows[f].score = S!Score(t.new, f, S!Max(t.new.default))
        BY <1>2, <4>2, <4>3 DEF Scores, S!default_profile
      <4>5. S!Score(t.new, f, S!Max(t.new.default)) = S!Score(d, f, S!Max(default'))
        BY <3>2, <4>2 DEF S!Score, S!_score_inputs
      <4> QED BY <3>1, <4>2, <4>4, <4>5
    <3>4. CASE f \notin S!Concerns(t)
      <4>1. t.new.rows[f] = t.read.rows[f] /\ t.new.default = t.read.default /\ t.new.exposed = t.read.exposed
        BY <3>4 DEF S!Concerns, S!Written
      <4>2. rows'[f] = rows[f] /\ default' = default /\ exposed' = exposed /\ f \notin raced
        BY <1>5, <2>2, <2>6, <4>1 DEF S!Written
      <4>3. PICK e : e = S!db
        OBVIOUS
      <4>4. e.rows = rows /\ e.exposed = exposed /\ e.default = default
        BY <4>3 DEF S!db
      <4>5. rows[f].score = S!Score(e, f, S!Max(default))
        BY <1>3, <4>2, <4>3, <4>4 DEF ScoreIsCurrent, S!ScoreIsCurrent, S!Present, S!default_profile
      <4>6. S!Score(e, f, S!Max(default)) = S!Score(d, f, S!Max(default'))
        BY <3>2, <4>2, <4>4 DEF S!Score, S!_score_inputs
      <4> QED BY <3>1, <4>2, <4>5, <4>6
    <3> QED BY <3>3, <3>4
  <2>8. ScoreIsCurrent'
    <3>1. PICK d : d = S!db'
      OBVIOUS
    <3>2. d.rows = rows' /\ d.default = default'
      BY <3>1 DEF S!db
    <3>3. \A f \in S!Present(d) \ raced' : rows'[f].score = S!Score(d, f, S!default_profile(d))
      BY <2>7, <3>1, <3>2 DEF S!Present, S!default_profile
    <3> QED BY <3>1, <3>3 DEF ScoreIsCurrent, S!ScoreIsCurrent
  <2> QED BY <1>2, <2>4, <2>8 DEF ScoresInv
<1> QED BY <1>4, <1>5 DEF S!Commit

(***************************************************************************)
(* score_finding and whoever calls it: a finding's score is that of its    *)
(* present factors under the default profile, for any number of findings,  *)
(* versions and transactions, unless one wrote it that rested on a stale   *)
(* read and nothing has scored the finding since.                          *)
(***************************************************************************)
THEOREM FindingsScoreIsCurrent == S!Spec => []ScoreIsCurrent
<1>1. ScoresInv /\ [S!Next]_(S!vars) => ScoresInv'
  <2> SUFFICES ASSUME ScoresInv, [S!Next]_(S!vars) PROVE ScoresInv'
    OBVIOUS
  <2>1. CASE UNCHANGED S!vars
    BY <2>1, ScoresStay DEF S!vars, ScoresInv
  <2> QED BY <2>1, BeginScores, CommitScores DEF S!Next
<1>2. ScoresInv => ScoreIsCurrent
  BY DEF ScoresInv
<1> QED BY InitScores, <1>1, <1>2, PTL DEF S!Spec
=============================================================================
