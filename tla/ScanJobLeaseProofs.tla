------------------------ MODULE ScanJobLeaseProofs ------------------------
(***************************************************************************)
(* The fencing of scan-job attempts, for any number of jobs, offers and    *)
(* reports in flight.                                                      *)
(*                                                                         *)
(* OneActiveAttempt and AcceptanceRecorded are not inductive by            *)
(* themselves.  A poll creates the attempt after the newest one, so it     *)
(* must be known that nothing was ever recorded beyond the newest token    *)
(* (Unissued) and that neither the Scout nor a sweep of the reaper ever    *)
(* holds a token beyond it (TokenIssued, ReapIssued): otherwise the new    *)
(* attempt could overwrite the one the Scout is executing, or be closed    *)
(* before it exists.                                                       *)
(***************************************************************************)
EXTENDS ScanJobLease, SequenceTheorems, TLAPS

Unissued == \A j \in Jobs, f \in Fences : f > fence[j] => att[j][f] = "none"

TokenIssued == sc \notin {"idle", "poll"} => token <= fence[held]

ReapIssued == \A j \in Jobs : reapFence[j] <= fence[j]

IInv == /\ TypeOK /\ OneActiveAttempt /\ AcceptanceRecorded
        /\ Unissued /\ TokenIssued /\ ReapIssued

(* The first state is well formed and has issued no token. *)
LEMMA InitIInv == Init => IInv
<1> USE LeaseConstants DEF Init
<1>1. Init => RowTypes
  BY DEF RowTypes, JobStatus
<1>2. Init => LoopTypes
  BY DEF LoopTypes
<1>3. Init => FlagTypes
  BY Zenon DEF FlagTypes
<1>4. Init => OneActiveAttempt /\ Unissued
  BY DEF OneActiveAttempt, Unissued, ActiveAttempt
<1>5. Init => AcceptanceRecorded /\ TokenIssued /\ ReapIssued
  BY DEF AcceptanceRecorded, TokenIssued, ReapIssued
<1> QED BY <1>1, <1>2, <1>3, <1>4, <1>5 DEF IInv, TypeOK

(***************************************************************************)
(* What a poll does to the rows of one job.                                *)
(***************************************************************************)
LEMMA PollRows ==
  ASSUME IInv, NEW closed \in SUBSET Jobs, NEW offer \in Jobs \cup {NoJob},
         offer \in Jobs => offer \in Selected /\ fence[offer] < MaxFence,
         PollJobRows(closed, offer)
  PROVE  /\ status' \in [Jobs -> JobStatus]
         /\ limit' \in [Jobs -> {"off", "counting", "over"}]
         /\ fence' \in [Jobs -> 0..MaxFence]
         /\ att' \in [Jobs -> [Fences -> ActiveAttempt \cup Terminal \cup {"none"}]]
         /\ live' \in [Jobs -> BOOLEAN]
         /\ OneActiveAttempt'
         /\ Unissued'
         /\ \A j \in Jobs, f \in Fences : f <= fence[j] => att'[j][f] \in Terminal \/ att'[j][f] = att[j][f]
         /\ \A j \in Jobs : fence'[j] = IF j = offer THEN fence[j] + 1 ELSE fence[j]
         /\ \A j \in Jobs, f \in Fences : att[j][f] \in Terminal => att'[j][f] \in Terminal
<1> USE LeaseConstants DEF IInv, TypeOK, RowTypes, Fences
<1>1. status' \in [Jobs -> JobStatus]
  BY DEF PollJobRows, JobStatus, Terminal, ActiveAttempt, ReclaimedStatus
<1>2. limit' \in [Jobs -> {"off", "counting", "over"}]
  BY DEF PollJobRows
<1>3. fence' \in [Jobs -> 0..MaxFence] /\ \A j \in Jobs : fence'[j] = IF j = offer THEN fence[j] + 1 ELSE fence[j]
  BY DEF PollJobRows
<1>4. att' \in [Jobs -> [Fences -> ActiveAttempt \cup Terminal \cup {"none"}]]
  BY DEF PollJobRows, Terminal, ActiveAttempt
<1>5. live' \in [Jobs -> BOOLEAN]
  BY DEF PollJobRows
<1>6. \A j \in Jobs, f \in Fences : att'[j][f] =
        IF j = offer /\ f = fence[j] + 1 THEN "offered"
        ELSE IF j \in Reclaimed /\ f = fence[j] THEN "expired" ELSE att[j][f]
  BY DEF PollJobRows
<1>7. \A j \in Jobs, f \in Fences : f <= fence[j] => att'[j][f] \in Terminal \/ att'[j][f] = att[j][f]
  <2> SUFFICES ASSUME NEW j \in Jobs, NEW f \in Fences, f <= fence[j]
               PROVE  att'[j][f] \in Terminal \/ att'[j][f] = att[j][f]
    OBVIOUS
  <2>1. fence[j] \in Nat /\ f # fence[j] + 1
    OBVIOUS
  <2> QED BY <1>6, <2>1 DEF Terminal
<1>8. Unissued'
  <2> SUFFICES ASSUME NEW j \in Jobs, NEW f \in Fences, f > fence'[j]
               PROVE  att'[j][f] = "none"
    BY DEF Unissued
  <2>1. f > fence[j] /\ ~(j = offer /\ f = fence[j] + 1) /\ f # fence[j]
    BY <1>3
  <2>2. att[j][f] = "none"
    BY <2>1 DEF Unissued
  <2> QED BY <1>6, <2>1, <2>2
<1>9. \A j \in Jobs, f \in Fences : att[j][f] \in Terminal => att'[j][f] \in Terminal
  <2> SUFFICES ASSUME NEW j \in Jobs, NEW f \in Fences, att[j][f] \in Terminal
               PROVE  att'[j][f] \in Terminal
    OBVIOUS
  <2>1. ~(f > fence[j])
    BY DEF Unissued, Terminal
  <2>2. f <= fence[j]
    BY <2>1
  <2> QED BY <1>7, <2>2
<1>10. OneActiveAttempt'
  <2> SUFFICES ASSUME NEW j \in Jobs, NEW f \in Fences, att'[j][f] \in ActiveAttempt
               PROVE  f = fence'[j] /\ status'[j] # "queued"
    BY DEF OneActiveAttempt
  <2>1. CASE j = offer
    <3>1. status'[j] = "offered"
      BY <2>1 DEF PollJobRows
    <3>2. f # fence[j] + 1 => att[j][f] \in ActiveAttempt /\ ~(j \in Reclaimed /\ f = fence[j])
      BY <1>6, <2>1 DEF ActiveAttempt
    <3>3. f # fence[j] + 1 => f = fence[j] /\ status[j] # "queued"
      BY <3>2 DEF OneActiveAttempt
    <3>4. f = fence[j] + 1
      BY <2>1, <3>2, <3>3 DEF Selected
    <3> QED BY <1>3, <2>1, <3>1, <3>4
  <2>2. CASE j # offer
    <3>1. att[j][f] \in ActiveAttempt /\ ~(j \in Reclaimed /\ f = fence[j])
      BY <1>6, <2>2 DEF ActiveAttempt
    <3>2. f = fence[j] /\ status[j] # "queued"
      BY <3>1 DEF OneActiveAttempt
    <3>3. status'[j] # "queued"
      BY <2>2, <3>1, <3>2 DEF PollJobRows
    <3> QED BY <1>3, <2>2, <3>2, <3>3
  <2> QED BY <2>1, <2>2
<1> QED BY <1>1, <1>2, <1>3, <1>4, <1>5, <1>7, <1>8, <1>9, <1>10

(***************************************************************************)
(* A step that leaves the Scout with its attempt keeps what is said of it, *)
(* if no token is taken back and no issued attempt forgets its acceptance. *)
(***************************************************************************)
LEMMA ScoutKept ==
  ASSUME IInv, UNCHANGED <<held, token>>,
         sc' = sc \/ (sc \in {"run", "done", "final"} /\ sc' \in {"done", "final"})
           \/ (sc = "offer" /\ sc' = "accept"),
         \A j \in Jobs : fence'[j] \in Nat /\ fence'[j] >= fence[j],
         \A j \in Jobs, f \in Fences : f <= fence[j] =>
            att'[j][f] \notin {"none", "offered"} \/ att'[j][f] = att[j][f]
  PROVE  AcceptanceRecorded' /\ TokenIssued'
<1> USE LeaseConstants DEF IInv, TypeOK, LoopTypes, RowTypes
<1>1. CASE sc \in {"idle", "poll"}
  BY <1>1 DEF AcceptanceRecorded, TokenIssued
<1>2. CASE sc \notin {"idle", "poll"}
  <2>1. held \in Jobs /\ token \in Fences /\ token <= fence[held] /\ fence[held] \in Nat
        /\ token \in Nat
    BY <1>2 DEF TokenIssued, Fences
  <2>2. TokenIssued'
    BY <2>1 DEF TokenIssued
  <2>3. AcceptanceRecorded'
    BY <1>2, <2>1 DEF AcceptanceRecorded
  <2> QED BY <2>2, <2>3
<1> QED BY <1>1, <1>2

(* A poll preserves the invariant and revives no attempt. *)
LEMMA PollStep ==
  ASSUME IInv, ServerPoll
  PROVE  IInv' /\ NoAttemptRevives
<1> USE LeaseConstants DEF IInv, TypeOK, Fences
<1>1. PICK closed \in SUBSET Jobs, offer \in Jobs \cup {NoJob} :
        /\ offer \in Jobs => offer \in Selected /\ fence[offer] < MaxFence
        /\ PollJobRows(closed, offer)
        /\ PollAnswer(offer)
        /\ polling' = FALSE
        /\ UNCHANGED <<operator, reaper, reports>>
  <2>1. ASSUME NEW j \in Jobs, poll_offer(j)
        PROVE  \E c \in SUBSET Jobs : PollJobRows(c, j) /\ PollAnswer(j) /\ polling' = FALSE
                 /\ UNCHANGED <<operator, reaper, reports>> /\ j \in Selected /\ fence[j] < MaxFence
    BY <2>1 DEF poll_offer, Selected
  <2>2. CASE poll_nothing
    <3>1. {j \in Selected : expired[j]} \in SUBSET Jobs
      BY DEF Selected
    <3> QED BY <2>2, <3>1 DEF poll_nothing
  <2> QED BY <2>1, <2>2 DEF ServerPoll
<1>2. /\ status' \in [Jobs -> JobStatus]
      /\ limit' \in [Jobs -> {"off", "counting", "over"}]
      /\ fence' \in [Jobs -> 0..MaxFence]
      /\ att' \in [Jobs -> [Fences -> ActiveAttempt \cup Terminal \cup {"none"}]]
      /\ live' \in [Jobs -> BOOLEAN]
      /\ OneActiveAttempt'
      /\ Unissued'
      /\ \A j \in Jobs, f \in Fences : f <= fence[j] => att'[j][f] \in Terminal \/ att'[j][f] = att[j][f]
      /\ \A j \in Jobs : fence'[j] = IF j = offer THEN fence[j] + 1 ELSE fence[j]
  BY <1>1, PollRows
<1>3. UNCHANGED <<cancelReq, started, early, expired>>
  BY <1>1 DEF PollJobRows
<1>4. RowTypes'
  BY <1>1, <1>2, <1>3 DEF operator, reaper, RowTypes
<1>9. NoAttemptRevives
  BY <1>1, PollRows DEF NoAttemptRevives
<1>8. ReapIssued'
  <2> SUFFICES ASSUME NEW j \in Jobs PROVE reapFence'[j] <= fence'[j]
    BY DEF ReapIssued
  <2>1. reapFence[j] <= fence[j] /\ fence[j] \in Nat /\ reapFence[j] \in Nat
    BY DEF ReapIssued, RowTypes
  <2>2. fence'[j] = IF j = offer THEN fence[j] + 1 ELSE fence[j]
    BY <1>2
  <2>3. reapFence'[j] = reapFence[j]
    BY <1>1 DEF reaper
  <2> QED BY <2>1, <2>2, <2>3
<1>5. CASE UNCHANGED scout
  <2>1. FlagTypes'
    BY <1>1, <1>5, Zenon DEF FlagTypes, scout
  <2>2. LoopTypes'
    BY <1>1, <1>5 DEF LoopTypes, scout
  <2>3. AcceptanceRecorded' /\ TokenIssued'
    <3>1. ASSUME NEW j \in Jobs PROVE fence'[j] \in Nat /\ fence'[j] >= fence[j]
      <4>1. fence[j] \in Nat
        BY DEF RowTypes
      <4>2. fence'[j] = IF j = offer THEN fence[j] + 1 ELSE fence[j]
        BY <1>2
      <4> QED BY <4>1, <4>2
    <3>2. \A j \in Jobs, f \in Fences : f <= fence[j] =>
            att'[j][f] \notin {"none", "offered"} \/ att'[j][f] = att[j][f]
      BY <1>2 DEF Terminal
    <3> QED BY <1>5, <3>1, <3>2, ScoutKept DEF scout
  <2> QED BY <1>2, <1>4, <1>8, <1>9, <2>1, <2>2, <2>3
<1>6. CASE Detach
  <2>1. FlagTypes'
    BY <1>1, <1>6, Zenon DEF FlagTypes, Detach
  <2>2. LoopTypes'
    BY <1>1, <1>6 DEF LoopTypes, Detach
  <2>3. AcceptanceRecorded' /\ TokenIssued'
    BY <1>6 DEF Detach, AcceptanceRecorded, TokenIssued
  <2> QED BY <1>2, <1>4, <1>8, <1>9, <2>1, <2>2, <2>3
<1>7. CASE /\ offer \in Jobs /\ sc' = "offer" /\ held' = offer /\ token' = fence[offer] + 1
           /\ UNCHANGED <<stop, result>>
  <2>1. FlagTypes'
    BY <1>1, <1>7, Zenon DEF FlagTypes
  <2>2. fence[offer] \in 0..MaxFence /\ fence[offer] < MaxFence
    BY <1>1, <1>7 DEF RowTypes
  <2>3. LoopTypes'
    BY <1>1, <1>7, <2>2 DEF LoopTypes
  <2>4. AcceptanceRecorded' /\ TokenIssued'
    BY <1>2, <1>7, <2>2 DEF AcceptanceRecorded, TokenIssued
  <2> QED BY <1>2, <1>4, <1>8, <1>9, <2>1, <2>3, <2>4
<1> QED BY <1>1, <1>5, <1>6, <1>7 DEF PollAnswer

(***************************************************************************)
(* What the answer to a report does to the Scout: nothing, or the job is   *)
(* let go, or an acknowledged acceptance starts the worker, or a refused   *)
(* terminal report is kept for another try.                                *)
(***************************************************************************)
LEMMA AnswerStep ==
  ASSUME IInv, NEW r \in reports, NEW ok \in BOOLEAN, ReportAnswer(r, ok)
  PROVE  /\ LoopTypes'
         /\ stop' \in BOOLEAN
         /\ \/ UNCHANGED <<sc, held, token>>
            \/ sc' = "idle"
            \/ /\ ok /\ r.st = "accepted" /\ sc' = "run" /\ sc = "accept"
               /\ held = r.job /\ token = r.fence /\ UNCHANGED <<held, token>>
            \/ sc = "final" /\ sc' = "done" /\ UNCHANGED <<held, token>>
<1> USE LeaseConstants DEF IInv, TypeOK
<1>1. r \in Reports
  BY DEF LoopTypes
<1>2. CASE reports' = reports \ {r} /\ UNCHANGED scout
  <2>1. LoopTypes'
    BY <1>2 DEF LoopTypes, scout
  <2>2. stop' \in BOOLEAN
    BY <1>2, Zenon DEF FlagTypes, scout
  <2> QED BY <1>2, <2>1, <2>2 DEF scout
<1>3. CASE /\ Awaits(r)
           /\ reports' = (reports \ {r}) \cup
                 IF ok /\ sc = "accept"
                 THEN {[job |-> held, fence |-> token, st |-> "running", seen |-> "unread"]}
                 ELSE {}
           /\ IF (sc = "final") = ok
              THEN Detach
              ELSE /\ sc' = IF ok THEN "run" ELSE "done"
                   /\ UNCHANGED <<held, token, stop, result>>
  <2>1. held \in Jobs /\ token \in Fences
    BY <1>1, <1>3 DEF Awaits, Reports
  <2>2. reports' \subseteq Reports
    BY <1>3, <2>1 DEF Reports, Reportable, LoopTypes
  <2>3. CASE Detach
    <3>1. LoopTypes'
      BY <2>2, <2>3 DEF Detach, LoopTypes
    <3>2. stop' \in BOOLEAN
      BY <2>3, Zenon DEF Detach
    <3> QED BY <2>3, <3>1, <3>2 DEF Detach
  <2>4. CASE /\ sc = "accept" /\ ok /\ sc' = "run" /\ UNCHANGED <<held, token, stop, result>>
    <3>1. LoopTypes'
      BY <2>1, <2>2, <2>4 DEF LoopTypes
    <3>2. stop' \in BOOLEAN
      BY <2>4, Zenon DEF FlagTypes
    <3>3. r.st = "accepted" /\ held = r.job /\ token = r.fence
      BY <1>3, <2>4 DEF Awaits
    <3> QED BY <2>4, <3>1, <3>2, <3>3
  <2>5. CASE /\ sc = "final" /\ sc' = "done" /\ UNCHANGED <<held, token, stop, result>>
    <3>1. LoopTypes'
      BY <2>1, <2>2, <2>5 DEF LoopTypes
    <3>2. stop' \in BOOLEAN
      BY <2>5, Zenon DEF FlagTypes
    <3> QED BY <2>5, <3>1, <3>2
  <2>6. sc \in {"accept", "final"}
    BY <1>3 DEF Awaits
  <2>7. CASE ok = TRUE
    <3>1. CASE sc = "final"
      BY <1>3, <2>3, <2>7, <3>1
    <3>2. CASE sc = "accept"
      BY <1>3, <2>4, <2>7, <3>2
    <3> QED BY <2>6, <3>1, <3>2
  <2>8. CASE ok = FALSE
    <3>1. CASE sc = "final"
      BY <1>3, <2>5, <2>8, <3>1
    <3>2. CASE sc = "accept"
      BY <1>3, <2>3, <2>8, <3>2
    <3> QED BY <2>6, <3>1, <3>2
  <2> QED BY <2>7, <2>8
<1> QED BY <1>2, <1>3 DEF ReportAnswer

(* The actions that leave the rows of jobs and attempts alone. *)
LEMMA RowsKept ==
  ASSUME IInv, UNCHANGED <<job, attempt>>, LoopTypes', FlagTypes',
         cancelling' \in [Jobs -> {"idle", "queued", "active"}],
         reaping' \in [Jobs -> {"idle", "job", "attempts"}],
         reapFence' \in [Jobs -> 0..MaxFence],
         \A j \in Jobs : reapFence'[j] \in {reapFence[j], fence[j], 0},
         \/ sc' \in {"idle", "poll"}
         \/ /\ UNCHANGED <<held, token>>
            /\ \/ sc' = sc
               \/ sc \in {"run", "done", "final"} /\ sc' \in {"done", "final"}
               \/ sc = "offer" /\ sc' = "accept"
  PROVE  IInv'
<1>1. RowTypes'
  BY DEF IInv, TypeOK, RowTypes, job, attempt
<1>2. OneActiveAttempt' /\ Unissued'
  BY DEF IInv, OneActiveAttempt, Unissued, job, attempt
<1>5. ReapIssued'
  BY LeaseConstants DEF IInv, ReapIssued, attempt, TypeOK, RowTypes
<1>3. CASE sc' \in {"idle", "poll"}
  <2>1. AcceptanceRecorded' /\ TokenIssued'
    BY <1>3 DEF AcceptanceRecorded, TokenIssued
  <2> QED BY <1>1, <1>2, <1>5, <2>1 DEF IInv, TypeOK
<1>4. CASE /\ UNCHANGED <<held, token>>
           /\ \/ sc' = sc
              \/ sc \in {"run", "done", "final"} /\ sc' \in {"done", "final"}
              \/ sc = "offer" /\ sc' = "accept"
  <2>1. \A j \in Jobs : fence'[j] \in Nat /\ fence'[j] >= fence[j]
    BY LeaseConstants DEF IInv, TypeOK, RowTypes, attempt
  <2>2. \A j \in Jobs, f \in Fences : f <= fence[j] =>
          att'[j][f] \notin {"none", "offered"} \/ att'[j][f] = att[j][f]
    BY DEF attempt
  <2>3. AcceptanceRecorded' /\ TokenIssued'
    BY <1>4, <2>1, <2>2, ScoutKept
  <2> QED BY <1>1, <1>2, <1>5, <2>3 DEF IInv, TypeOK
<1> QED BY <1>3, <1>4

(* The attempt of a report, and what applying it does to the rows. *)
LEMMA ReportStep ==
  ASSUME IInv, NEW r \in reports, ServerReport(r)
  PROVE  IInv' /\ NoAttemptRevives
<1> USE LeaseConstants DEF IInv, TypeOK
<1>0. r \in Reports /\ r.job \in Jobs /\ r.fence \in Fences
  BY DEF LoopTypes, Reports
<1>1. CASE report_read(r)
  <2>1. LoopTypes'
    <3>1. status[r.job] \in JobStatus
      BY <1>0 DEF RowTypes
    <3>2. [r EXCEPT !.seen = status[r.job]] \in Reports
      BY <1>0, <3>1 DEF Reports
    <3>3. reports' \subseteq Reports
      BY <1>1, <3>2 DEF report_read, LoopTypes
    <3> QED BY <1>1, <3>3 DEF report_read, scout, LoopTypes
  <2>2. FlagTypes'
    BY <1>1, Zenon DEF report_read, scout, FlagTypes
  <2>3. UNCHANGED <<job, attempt, operator, reaper, sc, held, token>>
    BY <1>1 DEF report_read, scout
  <2> QED BY <2>1, <2>2, <2>3, RowsKept DEF operator, reaper, attempt, RowTypes, NoAttemptRevives
<1>2. CASE report_acknowledge(r)
  <2>1. r.st # "accepted"
    BY <1>2 DEF report_acknowledge, Acknowledged, Terminal
  <2>2. ReportAnswer(r, TRUE)
    BY <1>2 DEF report_acknowledge
  <2>3. /\ LoopTypes' /\ stop' \in BOOLEAN
        /\ \/ UNCHANGED <<sc, held, token>> \/ sc' = "idle"
           \/ sc = "final" /\ sc' = "done" /\ UNCHANGED <<held, token>>
    BY <2>1, <2>2, AnswerStep
  <2>4. FlagTypes'
    BY <1>2, <2>3, Zenon DEF report_acknowledge, FlagTypes
  <2>5. UNCHANGED <<job, attempt, operator, reaper>>
    BY <1>2 DEF report_acknowledge
  <2> QED BY <2>3, <2>4, <2>5, RowsKept DEF operator, reaper, attempt, RowTypes, NoAttemptRevives
<1>3. CASE report_conflict(r)
  <2>2. ReportAnswer(r, FALSE)
    BY <1>3 DEF report_conflict
  <2>3. /\ LoopTypes' /\ stop' \in BOOLEAN
        /\ \/ UNCHANGED <<sc, held, token>> \/ sc' = "idle"
           \/ sc = "final" /\ sc' = "done" /\ UNCHANGED <<held, token>>
    BY <2>2, AnswerStep
  <2>4. FlagTypes'
    BY <1>3, <2>3, Zenon DEF report_conflict, FlagTypes
  <2>5. UNCHANGED <<job, attempt, operator, reaper>>
    BY <1>3 DEF report_conflict
  <2> QED BY <2>3, <2>4, <2>5, RowsKept DEF operator, reaper, attempt, RowTypes, NoAttemptRevives
<1>4. CASE report_apply(r)
  <2> DEFINE j == r.job
             f == r.fence
  <2>1. /\ f = fence[j] /\ att[j][f] \in ActiveAttempt /\ r.st \in Reportable
        /\ r.st \in ActiveAttempt \cup Terminal /\ r.st \notin {"none", "offered", "queued"}
    BY <1>0, <1>4 DEF report_apply, Applies, CurrentAttempt, AllowedReports, ActiveAttempt, Terminal,
       Reports, Reportable
  <2>2. /\ att' = [att EXCEPT ![j][f] = r.st] /\ UNCHANGED <<fence, live, cancelReq, early, expired>>
        /\ status' = [status EXCEPT ![j] = IF r.st = r.seen THEN @ ELSE r.st]
        /\ UNCHANGED <<cancelling, reaping, reapFence, polling>>
    BY <1>4 DEF report_apply, operator, reaper
  <2>3. RowTypes'
    <3>1. status' \in [Jobs -> JobStatus]
      BY <1>0, <2>1, <2>2 DEF RowTypes, JobStatus
    <3>2. att' \in [Jobs -> [Fences -> ActiveAttempt \cup Terminal \cup {"none"}]]
      BY <1>0, <2>1, <2>2 DEF RowTypes
    <3>3. started' \in [Jobs -> BOOLEAN]
      BY <1>0, <1>4 DEF report_apply, RowTypes
    <3>4. limit' \in [Jobs -> {"off", "counting", "over"}]
      BY <1>0, <1>4 DEF report_apply, RowTypes
    <3> QED BY <2>2, <3>1, <3>2, <3>3, <3>4 DEF RowTypes
  <2>4. \A k \in Jobs, g \in Fences : att'[k][g] = IF k = j /\ g = f THEN r.st ELSE att[k][g]
    BY <1>0, <2>2 DEF RowTypes
  <2>5. OneActiveAttempt'
    <3> SUFFICES ASSUME NEW k \in Jobs, NEW g \in Fences, att'[k][g] \in ActiveAttempt
                 PROVE  g = fence'[k] /\ status'[k] # "queued"
      BY DEF OneActiveAttempt
    <3>1. att[k][g] \in ActiveAttempt
      BY <2>1, <2>4
    <3>2. g = fence[k] /\ status[k] # "queued"
      BY <3>1 DEF OneActiveAttempt
    <3> QED BY <2>1, <2>2, <3>2 DEF RowTypes
  <2>6. Unissued'
    <3> SUFFICES ASSUME NEW k \in Jobs, NEW g \in Fences, g > fence'[k]
                 PROVE  att'[k][g] = "none"
      BY DEF Unissued
    <3>1. g > fence[k] /\ ~(k = j /\ g = f)
      BY <1>0, <2>1, <2>2 DEF RowTypes, Fences
    <3> QED BY <2>4, <3>1 DEF Unissued
  <2>7. /\ LoopTypes' /\ stop' \in BOOLEAN
        /\ \/ UNCHANGED <<sc, held, token>>
           \/ sc' = "idle"
           \/ sc' = "run" /\ sc = "accept" /\ held = j /\ token = f /\ UNCHANGED <<held, token>>
           \/ sc = "final" /\ sc' = "done" /\ UNCHANGED <<held, token>>
    <3>1. ReportAnswer(r, TRUE)
      BY <1>4 DEF report_apply
    <3> QED BY <3>1, AnswerStep
  <2>8. FlagTypes'
    BY <2>2, <2>7, Zenon DEF FlagTypes
  <2>9. AcceptanceRecorded' /\ TokenIssued'
    <3>1. \A k \in Jobs : fence'[k] \in Nat /\ fence'[k] >= fence[k]
      BY <2>2 DEF RowTypes
    <3>2. \A k \in Jobs, g \in Fences : g <= fence[k] =>
            att'[k][g] \notin {"none", "offered"} \/ att'[k][g] = att[k][g]
      BY <2>1, <2>4
    <3>3. CASE sc' = "idle"
      BY <3>3 DEF AcceptanceRecorded, TokenIssued
    <3>4. CASE sc' = "run" /\ sc = "accept" /\ held = j /\ token = f /\ UNCHANGED <<held, token>>
      BY <1>0, <2>1, <2>2, <2>4, <3>1, <3>4 DEF AcceptanceRecorded, TokenIssued
    <3> QED BY <2>7, <3>1, <3>2, <3>3, <3>4, ScoutKept
  <2>11. ReapIssued'
    BY <2>2 DEF ReapIssued
  <2>10. NoAttemptRevives
    <3>1. att[j][f] \notin Terminal
      BY <2>1 DEF Terminal, ActiveAttempt
    <3> QED BY <2>4, <3>1 DEF NoAttemptRevives
  <2> QED BY <2>3, <2>5, <2>6, <2>7, <2>8, <2>9, <2>10, <2>11
<1> QED BY <1>1, <1>2, <1>3, <1>4 DEF ServerReport

(* The operator, the reaper and the clock leave the Scout and its messages alone. *)
LEMMA JobStep ==
  ASSUME IInv, NEW k \in Jobs, Cancel(k) \/ Reap(k) \/ Time(k)
  PROVE  IInv' /\ NoAttemptRevives
<1> USE LeaseConstants DEF IInv, TypeOK
<1>1. UNCHANGED <<polling, reports, sc, held, token, stop, result>> /\ fence' = fence
  BY DEF Cancel, Reap, Time, cancel_job_read, cancel_job_write, reap_read, reap_attempts, reap_write,
     LeaseExpires, JobBecomesDue, JobExpires, ExecutionLimit, net, scout, attempt, job
<1>2. LoopTypes'
  BY <1>1 DEF LoopTypes
<1>3. FlagTypes'
  BY <1>1, Zenon DEF FlagTypes
<1>4. ASSUME RowTypes', ReapIssued',
             \A j \in Jobs, f \in Fences : att'[j][f] = att[j][f]
                                        \/ (f = reapFence[j] /\ att'[j][f] = "expired"),
             \A j \in Jobs : status'[j] # "queued" \/ status'[j] = status[j]
      PROVE  IInv' /\ NoAttemptRevives
  <2>1. OneActiveAttempt'
    BY <1>1, <1>4 DEF OneActiveAttempt, ActiveAttempt
  <2>2. Unissued'
    <3> SUFFICES ASSUME NEW j \in Jobs, NEW f \in Fences, f > fence[j]
                 PROVE  att'[j][f] = "none"
      BY <1>1 DEF Unissued
    <3>1. f # reapFence[j]
      BY DEF ReapIssued, RowTypes, Fences
    <3> QED BY <1>4, <3>1 DEF Unissued
  <2>3. \A j \in Jobs : fence'[j] \in Nat /\ fence'[j] >= fence[j]
    BY <1>1 DEF RowTypes
  <2>4. \A j \in Jobs, f \in Fences : f <= fence[j] =>
          att'[j][f] \notin {"none", "offered"} \/ att'[j][f] = att[j][f]
    BY <1>4
  <2>5. AcceptanceRecorded' /\ TokenIssued'
    BY <1>1, <2>3, <2>4, ScoutKept
  <2>6. NoAttemptRevives
    BY <1>4 DEF NoAttemptRevives, Terminal
  <2> QED BY <1>2, <1>3, <1>4, <2>1, <2>2, <2>5, <2>6
<1>5. CASE Cancel(k)
  <2>1. RowTypes'
    <3>1. CASE cancel_job_read(k)
      BY <3>1 DEF cancel_job_read, RowTypes, job, attempt, reaper
    <3>2. CASE cancel_job_write(k)
      <4>1. status' \in [Jobs -> JobStatus]
        BY <3>2 DEF cancel_job_write, RowTypes, JobStatus, Terminal
      <4> QED BY <3>2, <4>1 DEF cancel_job_write, RowTypes, attempt, reaper
    <3> QED BY <1>5, <3>1, <3>2 DEF Cancel
  <2>2. att' = att /\ reapFence' = reapFence
    BY <1>5 DEF Cancel, cancel_job_read, cancel_job_write, attempt, reaper
  <2>3. \A j \in Jobs : status'[j] # "queued" \/ status'[j] = status[j]
    BY <1>5 DEF Cancel, cancel_job_read, cancel_job_write, job, RowTypes
  <2> QED BY <1>1, <1>4, <2>1, <2>2, <2>3 DEF ReapIssued
<1>6. CASE Time(k)
  <2>1. RowTypes'
    BY <1>6 DEF Time, LeaseExpires, JobBecomesDue, JobExpires, ExecutionLimit, RowTypes, job, attempt, reaper, operator
  <2>2. att' = att /\ reapFence' = reapFence /\ status' = status
    BY <1>6 DEF Time, LeaseExpires, JobBecomesDue, JobExpires, ExecutionLimit, attempt, reaper, job
  <2> QED BY <1>1, <1>4, <2>1, <2>2 DEF ReapIssued
<1>7. CASE reap_read(k)
  <2>1. RowTypes'
    BY <1>7 DEF reap_read, RowTypes, job, attempt, operator
  <2>2. att' = att /\ reapFence' = reapFence /\ status' = status
    BY <1>7 DEF reap_read, attempt, job
  <2> QED BY <1>1, <1>4, <2>1, <2>2 DEF ReapIssued
<1>8. CASE reap_attempts(k)
  <2>1. RowTypes'
    <3>1. reapFence' \in [Jobs -> 0..MaxFence] /\ reaping' \in [Jobs -> {"idle", "job", "attempts"}]
      BY <1>8 DEF reap_attempts, RowTypes
    <3> QED BY <1>8, <3>1 DEF reap_attempts, RowTypes, job, attempt, operator
  <2>2. att' = att /\ status' = status
    BY <1>8 DEF reap_attempts, attempt, job
  <2>3. \A j \in Jobs : reapFence'[j] \in {reapFence[j], fence[j], 0}
    BY <1>8 DEF reap_attempts, RowTypes
  <2>4. ReapIssued'
    <3> SUFFICES ASSUME NEW j \in Jobs PROVE reapFence'[j] <= fence'[j]
      BY DEF ReapIssued
    <3>1. reapFence[j] <= fence[j] /\ fence[j] \in Nat
      BY DEF ReapIssued, RowTypes
    <3> QED BY <1>1, <2>3, <3>1
  <2> QED BY <1>4, <2>1, <2>2, <2>4
<1>9. CASE reap_write(k)
  <2>1. RowTypes'
    <3>1. status' \in [Jobs -> JobStatus]
      BY <1>9 DEF reap_write, RowTypes, JobStatus, Terminal
    <3>2. att' \in [Jobs -> [Fences -> ActiveAttempt \cup Terminal \cup {"none"}]]
      BY <1>9 DEF reap_write, RowTypes, Terminal
    <3> QED BY <1>9, <3>1, <3>2 DEF reap_write, RowTypes, operator
  <2>2. \A j \in Jobs, f \in Fences : att'[j][f] = att[j][f]
                                    \/ (f = reapFence[j] /\ att'[j][f] = "expired")
    BY <1>9 DEF reap_write, RowTypes
  <2>3. \A j \in Jobs : status'[j] # "queued" \/ status'[j] = status[j]
    BY <1>9 DEF reap_write, RowTypes
  <2>4. ReapIssued'
    BY <1>1, <1>9 DEF reap_write, ReapIssued, RowTypes
  <2> QED BY <1>4, <2>1, <2>2, <2>3, <2>4
<1> QED BY <1>5, <1>6, <1>7, <1>8, <1>9 DEF Reap

(* What the Scout does by itself, and lost requests. *)
LEMMA ScoutStep ==
  ASSUME IInv, ScoutLoop \/ Worker \/ ReportProgress \/ Crash \/ LosePoll
                 \/ \E r \in reports : LoseReport(r)
  PROVE  IInv' /\ NoAttemptRevives
<1> USE LeaseConstants DEF IInv, TypeOK
<1>1. UNCHANGED <<job, attempt, cancelling, reaping, reapFence>>
  BY DEF ScoutLoop, PollJob, RejectOffer, AcceptOffer, Finalize, RequestTimeout, Worker, StopWorker,
     WorkerDone, ReportProgress, Crash, LosePoll, LoseReport, operator, reaper
<1>2. NoAttemptRevives
  BY <1>1 DEF NoAttemptRevives, attempt
<1>3. ASSUME LoopTypes', FlagTypes',
             \/ sc' \in {"idle", "poll"}
             \/ /\ UNCHANGED <<held, token>>
                /\ \/ sc' = sc
                   \/ sc \in {"run", "done", "final"} /\ sc' \in {"done", "final"}
                   \/ sc = "offer" /\ sc' = "accept"
      PROVE  IInv'
  BY <1>1, <1>3, RowsKept DEF RowTypes
<1>4. ASSUME NEW st \in Reportable, Send(st), sc \notin {"idle", "poll"}
      PROVE  reports' \subseteq Reports
  BY <1>4 DEF Send, Reports, LoopTypes
<1>5. CASE PollJob
  <2>1. LoopTypes'
    BY <1>5 DEF PollJob, LoopTypes
  <2>2. FlagTypes'
    BY <1>5, Zenon DEF PollJob, FlagTypes
  <2> QED BY <1>2, <1>3, <1>5, <2>1, <2>2 DEF PollJob
<1>6. CASE RejectOffer
  <2>1. reports' \subseteq Reports
    BY <1>4, <1>6 DEF RejectOffer, Reportable
  <2>2. LoopTypes'
    BY <1>6, <2>1 DEF RejectOffer, Detach, LoopTypes
  <2>3. FlagTypes'
    BY <1>6, Zenon DEF RejectOffer, Detach, FlagTypes
  <2> QED BY <1>2, <1>3, <1>6, <2>2, <2>3 DEF RejectOffer, Detach
<1>7. CASE AcceptOffer
  <2>1. reports' \subseteq Reports
    BY <1>4, <1>7 DEF AcceptOffer, Reportable
  <2>2. LoopTypes'
    BY <1>7, <2>1 DEF AcceptOffer, LoopTypes
  <2>3. FlagTypes'
    BY <1>7, Zenon DEF AcceptOffer, FlagTypes
  <2> QED BY <1>2, <1>3, <1>7, <2>2, <2>3 DEF AcceptOffer
<1>8. CASE Finalize
  <2>1. reports' \subseteq Reports
    BY <1>4, <1>8 DEF Finalize, Reportable, LoopTypes
  <2>2. LoopTypes'
    BY <1>8, <2>1 DEF Finalize, LoopTypes
  <2>3. FlagTypes'
    BY <1>8, Zenon DEF Finalize, FlagTypes
  <2> QED BY <1>2, <1>3, <1>8, <2>2, <2>3 DEF Finalize
<1>9. CASE ReportProgress
  <2>1. reports' \subseteq Reports
    BY <1>4, <1>9 DEF ReportProgress, Reportable
  <2>2. LoopTypes'
    BY <1>9, <2>1 DEF ReportProgress, LoopTypes, scout
  <2>3. FlagTypes'
    BY <1>9, Zenon DEF ReportProgress, FlagTypes, scout
  <2> QED BY <1>2, <1>3, <1>9, <2>2, <2>3 DEF ReportProgress, scout
<1>10. CASE RequestTimeout
  <2>1. LoopTypes'
    BY <1>10 DEF RequestTimeout, LoopTypes, Detach, net
  <2>2. FlagTypes'
    BY <1>10, Zenon DEF RequestTimeout, FlagTypes, Detach, net
  <2> QED BY <1>2, <1>3, <1>10, <2>1, <2>2 DEF RequestTimeout, Detach
<1>11. CASE Crash
  <2>1. LoopTypes'
    BY <1>11 DEF Crash, LoopTypes, Detach, net
  <2>2. FlagTypes'
    BY <1>11, Zenon DEF Crash, FlagTypes, Detach, net
  <2> QED BY <1>2, <1>3, <1>11, <2>1, <2>2 DEF Crash, Detach
<1>12. CASE Worker
  <2>1. LoopTypes'
    BY <1>12 DEF Worker, StopWorker, WorkerDone, LoopTypes, net
  <2>2. FlagTypes'
    BY <1>12, Zenon DEF Worker, StopWorker, WorkerDone, FlagTypes, net
  <2> QED BY <1>2, <1>3, <1>12, <2>1, <2>2 DEF Worker, StopWorker, WorkerDone
<1>13. CASE LosePoll
  <2>1. LoopTypes'
    BY <1>13 DEF LosePoll, LoopTypes, scout
  <2>2. FlagTypes'
    BY <1>13, Zenon DEF LosePoll, FlagTypes, scout
  <2> QED BY <1>2, <1>3, <1>13, <2>1, <2>2 DEF LosePoll, scout
<1>14. CASE \E r \in reports : LoseReport(r)
  <2>1. LoopTypes'
    BY <1>14 DEF LoseReport, LoopTypes, scout
  <2>2. FlagTypes'
    BY <1>14, Zenon DEF LoseReport, FlagTypes, scout
  <2> QED BY <1>2, <1>3, <1>14, <2>1, <2>2 DEF LoseReport, scout
<1> QED BY <1>5, <1>6, <1>7, <1>8, <1>9, <1>10, <1>11, <1>12, <1>13, <1>14 DEF ScoutLoop

(* Every step preserves the inductive invariant and revives no attempt. *)
LEMMA NextStep ==
  ASSUME IInv, [Next]_vars
  PROVE  IInv' /\ [NoAttemptRevives]_vars
<1>1. CASE UNCHANGED vars
  <2>1. UNCHANGED <<job, attempt, cancelling, reaping, reapFence, polling, reports, sc, held, token,
                    stop, result>>
    BY <1>1 DEF vars, operator, reaper, net, scout
  <2>2. LoopTypes'
    BY <2>1 DEF IInv, TypeOK, LoopTypes
  <2>3. FlagTypes'
    BY <2>1, Zenon DEF IInv, TypeOK, FlagTypes
  <2> QED BY <1>1, <2>1, <2>2, <2>3, RowsKept DEF IInv, TypeOK, RowTypes
<1>2. CASE ServerPoll
  BY <1>2, PollStep
<1>3. ASSUME NEW r \in reports, ServerReport(r) PROVE IInv' /\ NoAttemptRevives
  BY <1>3, ReportStep
<1>4. ASSUME NEW j \in Jobs, Cancel(j) \/ Reap(j) \/ Time(j) PROVE IInv' /\ NoAttemptRevives
  BY <1>4, JobStep
<1>5. CASE ScoutLoop \/ Worker \/ ReportProgress \/ Crash \/ LosePoll \/ \E r \in reports : LoseReport(r)
  BY <1>5, ScoutStep
<1> QED BY <1>1, <1>2, <1>3, <1>4, <1>5 DEF Next

(* The inductive invariant holds in every reachable state. *)
THEOREM LeaseInvariance == Spec => []IInv
<1>1. IInv /\ [Next]_vars => IInv'
  BY NextStep
<1> QED BY InitIInv, <1>1, PTL DEF Spec

(* The rows and the Scout's loop stay well formed; a loop past the poll always has an attempt. *)
THEOREM LeaseTypeCorrect == Spec => []TypeOK
<1>1. IInv => TypeOK
  BY DEF IInv
<1> QED BY LeaseInvariance, <1>1, PTL

(* At most the newest attempt of a job is active, and none while the job is queued. *)
THEOREM LeaseOneActiveAttempt == Spec => []OneActiveAttempt
<1>1. IInv => OneActiveAttempt
  BY DEF IInv
<1> QED BY LeaseInvariance, <1>1, PTL

(* The Scout never runs or ends an attempt whose acceptance the server has not recorded. *)
THEOREM LeaseAcceptanceRecorded == Spec => []AcceptanceRecorded
<1>1. IInv => AcceptanceRecorded
  BY DEF IInv
<1> QED BY LeaseInvariance, <1>1, PTL

(* No step makes a finished attempt active again. *)
THEOREM LeaseAttemptsNeverRevive == Spec => AttemptsNeverRevive
<1>1. IInv /\ [Next]_vars => [NoAttemptRevives]_vars
  BY NextStep
<1> QED BY LeaseInvariance, <1>1, PTL DEF Spec, AttemptsNeverRevive

(* An active job is not ended by a poll as cancelled while an attempt of it stays active. *)
LEMMA PollUndoes ==
  ASSUME IInv, ServerPoll
  PROVE  UndoneByStaleRead
<1> USE LeaseConstants DEF IInv, TypeOK, RowTypes
<1>1. PICK closed \in SUBSET Jobs, offer \in Jobs \cup {NoJob} :
        /\ PollJobRows(closed, offer)
        /\ offer \in Jobs => offer \in Selected /\ fence[offer] < MaxFence
        /\ closed \subseteq Selected
  <2>1. ASSUME NEW j \in Jobs, poll_offer(j)
        PROVE  \E closed \in SUBSET Jobs : /\ PollJobRows(closed, j) /\ closed \subseteq Selected
                                           /\ j \in Selected /\ fence[j] < MaxFence
    BY <2>1 DEF poll_offer, Selected
  <2>2. ASSUME poll_nothing
        PROVE  \E closed \in SUBSET Jobs : PollJobRows(closed, NoJob) /\ closed \subseteq Selected
    BY <2>2 DEF poll_nothing, Selected
  <2> QED BY <2>1, <2>2 DEF ServerPoll
<1> SUFFICES ASSUME NEW j \in Jobs
             PROVE  /\ status[j] \in Terminal => status'[j] \in Terminal
                    /\ status[j] # "cancelled" /\ status'[j] = "cancelled" =>
                          \A f \in Fences : att'[j][f] \notin ActiveAttempt
  BY DEF UndoneByStaleRead
<1>2. status'[j] = IF j = offer THEN "offered" ELSE IF j \in closed THEN "expired"
                   ELSE IF j \in Reclaimed THEN ReclaimedStatus(j) ELSE status[j]
  BY <1>1 DEF PollJobRows
<1>3. status[j] \in Terminal => j \notin Reclaimed /\ j \notin Selected
  BY DEF Reclaimed, Selected, Terminal, ActiveAttempt
<1>4. status[j] \in Terminal => status'[j] \in Terminal
  BY <1>1, <1>2, <1>3
<1>5. ASSUME status[j] # "cancelled", status'[j] = "cancelled", NEW f \in Fences,
             att'[j][f] \in ActiveAttempt
      PROVE  FALSE
  <2>1. j \in Reclaimed /\ j # offer
    BY <1>2, <1>5
  <2>2. att'[j][f] = IF f = fence[j] THEN "expired" ELSE att[j][f]
    BY <1>1, <2>1 DEF PollJobRows
  <2>3. f # fence[j] /\ att[j][f] \in ActiveAttempt
    BY <1>5, <2>2 DEF ActiveAttempt
  <2> QED BY <2>3 DEF OneActiveAttempt
<1> QED BY <1>4, <1>5

(* A report that takes a job back read it before its end; one that cancels it ends its attempt. *)
LEMMA ReportUndoes ==
  ASSUME IInv, NEW r \in reports, ServerReport(r)
  PROVE  UndoneByStaleRead
<1> USE DEF IInv, TypeOK, RowTypes
<1>1. r.job \in Jobs /\ r.fence \in Fences /\ r.st \in Reportable
  BY DEF LoopTypes, Reports
<1>2. CASE report_apply(r)
  <2> SUFFICES ASSUME NEW j \in Jobs
               PROVE  /\ status[j] \in Terminal /\ status'[j] \notin Terminal =>
                            r.job = j /\ r.seen \notin Terminal \cup {"unread"}
                      /\ status[j] # "cancelled" /\ status'[j] = "cancelled" =>
                            \A f \in Fences : att'[j][f] \notin ActiveAttempt
    BY DEF UndoneByStaleRead
  <2>1. r.seen \notin Terminal \cup {"unread"} /\ r.fence = fence[r.job]
    BY <1>2 DEF report_apply, Applies, CurrentAttempt
  <2>2. status'[j] = IF j = r.job /\ r.st # r.seen THEN r.st ELSE status[j]
    BY <1>2 DEF report_apply
  <2>3. ASSUME status[j] # "cancelled", status'[j] = "cancelled", NEW f \in Fences
        PROVE  att'[j][f] \notin ActiveAttempt
    <3>1. j = r.job /\ r.st = "cancelled"
      BY <2>2, <2>3
    <3>2. att'[j][f] = IF f = fence[j] THEN "cancelled" ELSE att[j][f]
      BY <1>1, <1>2, <2>1, <3>1 DEF report_apply
    <3> QED BY <3>2 DEF OneActiveAttempt, ActiveAttempt
  <2> QED BY <2>1, <2>2, <2>3
<1>3. CASE status' = status
  BY <1>3 DEF UndoneByStaleRead
<1> QED BY <1>2, <1>3 DEF ServerReport, report_read, report_acknowledge, report_conflict, job

(* Of the operator, the reaper and time only cancel_job writes CANCELLED, if its read saw QUEUED. *)
LEMMA JobUndoes ==
  ASSUME IInv, NEW j \in Jobs, Cancel(j) \/ Reap(j) \/ Time(j)
  PROVE  UndoneByStaleRead
<1> USE DEF IInv, TypeOK, RowTypes
<1>1. CASE cancel_job_write(j)
  BY <1>1 DEF cancel_job_write, UndoneByStaleRead, Terminal
<1>2. CASE reap_write(j)
  BY <1>2 DEF reap_write, UndoneByStaleRead, Terminal
<1>3. CASE status' = status
  BY <1>3 DEF UndoneByStaleRead
<1> QED BY <1>1, <1>2, <1>3 DEF Cancel, Reap, Time, cancel_job_read, reap_read, reap_attempts,
            LeaseExpires, JobBecomesDue, JobExpires, ExecutionLimit, job

(***************************************************************************)
(* What is over is taken back, and what was delivered is CANCELLED, only   *)
(* by a write that rests on a read made before.                            *)
(***************************************************************************)
THEOREM LeaseUndoneOnlyByStaleReads == Spec => UndoneOnlyByStaleReads
<1>1. ASSUME IInv, [Next]_vars
      PROVE  [UndoneByStaleRead]_vars
  <2>1. CASE UNCHANGED vars
    BY <2>1
  <2>2. CASE ServerPoll
    BY <1>1, <2>2, PollUndoes
  <2>3. ASSUME NEW r \in reports, ServerReport(r) PROVE UndoneByStaleRead
    BY <1>1, <2>3, ReportUndoes
  <2>4. ASSUME NEW j \in Jobs, Cancel(j) \/ Reap(j) \/ Time(j) PROVE UndoneByStaleRead
    BY <1>1, <2>4, JobUndoes
  <2>5. CASE UNCHANGED status
    BY <2>5 DEF UndoneByStaleRead
  <2>6. ScoutLoop \/ Worker \/ ReportProgress \/ Crash \/ LosePoll \/ (\E r \in reports : LoseReport(r))
          => UNCHANGED status
    BY DEF ScoutLoop, PollJob, RejectOffer, AcceptOffer, Finalize, RequestTimeout, Worker, StopWorker,
           WorkerDone, ReportProgress, Crash, LosePoll, LoseReport, job
  <2> QED BY <1>1, <2>1, <2>2, <2>3, <2>4, <2>5, <2>6 DEF Next
<1> QED BY LeaseInvariance, <1>1, PTL DEF Spec, UndoneOnlyByStaleReads

----------------------------------------------------------------------------
(***************************************************************************)
(* ScanJobLease implements AttemptLog.                                     *)
(*                                                                         *)
(* IInv says which attempt may be open.  It does not say that an attempt   *)
(* is begun once: for that an acceptance must be in flight at most once    *)
(* (AcceptOnce), never for a token that was not issued (ReportsIssued),    *)
(* and must not still be in flight when the attempt has already been       *)
(* accepted (Fresh).                                                       *)
(***************************************************************************)

Issued == \A j \in Jobs, f \in Fences : f <= fence[j] => att[j][f] # "none"

ReportsIssued == \A r \in reports : r.fence <= fence[r.job]

AcceptanceOf(r, j, f) == r.job = j /\ r.fence = f /\ r.st = "accepted"

AcceptOnce ==
    \A r1, r2 \in reports :
        r1.st = "accepted" /\ AcceptanceOf(r2, r1.job, r1.fence) => r1 = r2

Unbegun(j, f) == att[j][f] \in {"offered"} \cup Terminal

Fresh ==
    /\ sc = "offer" => Unbegun(held, token) /\ \A r \in reports : ~AcceptanceOf(r, held, token)
    /\ sc = "accept" => Unbegun(held, token) \/ \A r \in reports : ~AcceptanceOf(r, held, token)

JInv == IInv /\ Issued /\ ReportsIssued /\ AcceptOnce /\ Fresh

(* In the first state nothing was issued. *)
LEMMA InitJInv == Init => JInv
<1> SUFFICES ASSUME Init PROVE JInv
  OBVIOUS
<1>1. IInv
  BY InitIInv
<1>2. Issued
  BY LeaseConstants DEF Init, Issued, Fences
<1>3. ReportsIssued /\ AcceptOnce /\ Fresh
  BY DEF Init, ReportsIssued, AcceptOnce, Fresh
<1> QED BY <1>1, <1>2, <1>3 DEF JInv

----------------------------------------------------------------------------
(* What a step does to the attempts at a job: some are closed, ... *)
Closing(j) ==
    /\ fence'[j] = fence[j]
    /\ \A f \in Fences : f <= fence[j] => att'[j][f] = att[j][f] \/ att'[j][f] \in Terminal

(* ... all are closed and another is made, ... *)
Making(j) ==
    /\ fence'[j] = fence[j] + 1 /\ fence'[j] \in Fences
    /\ \A f \in Fences : f <= fence[j] => att'[j][f] \in Terminal
    /\ att'[j][fence'[j]] = "offered"

(* ... or the newest goes on. *)
Reported(j, st) ==
    /\ fence'[j] = fence[j] /\ fence[j] \in Fences
    /\ \A f \in Fences : f # fence[j] => att'[j][f] = att[j][f]
    /\ \/ att[j][fence[j]] = "offered" /\ st = "accepted"
       \/ att[j][fence[j]] = "accepted" /\ st \in {"accepted", "running"}
       \/ att[j][fence[j]] = "running" /\ st = "running"
    /\ att'[j][fence[j]] = st

Onward(j) == Closing(j) \/ Making(j) \/ \E st \in {"accepted", "running"} : Reported(j, st)

(* Attempts that were made stay made. *)
LEMMA IssuedKept ==
  ASSUME JInv, IInv', \A j \in Jobs : Onward(j)
  PROVE  /\ Issued'
         /\ \A j \in Jobs : fence[j] \in Nat /\ fence'[j] \in Nat /\ fence[j] <= fence'[j]
<1>0. \A j \in Jobs : fence[j] \in 0 .. MaxFence /\ fence'[j] \in 0 .. MaxFence
  BY DEF JInv, IInv, TypeOK, RowTypes
<1>1. \A j \in Jobs : fence[j] \in Nat /\ fence'[j] \in Nat /\ fence[j] <= fence'[j]
  BY <1>0, LeaseConstants DEF Onward, Closing, Making, Reported
<1>2. ASSUME NEW j \in Jobs, NEW f \in Fences, f <= fence'[j]
      PROVE  att'[j][f] # "none"
  <2>1. f <= fence[j] => att[j][f] # "none"
    BY DEF JInv, Issued
  <2>2. CASE Closing(j)
    BY <1>2, <2>1, <2>2 DEF Closing, Terminal
  <2>3. CASE Making(j)
    <3>1. f <= fence[j] \/ f = fence'[j]
      BY <1>1, <1>2, <2>3 DEF Making, Fences
    <3> QED BY <2>3, <3>1 DEF Making, Terminal
  <2>4. ASSUME NEW st \in {"accepted", "running"}, Reported(j, st)
        PROVE  att'[j][f] # "none"
    BY <1>2, <2>1, <2>4 DEF Reported
  <2> QED BY <2>2, <2>3, <2>4 DEF Onward
<1> QED BY <1>1, <1>2 DEF Issued

(* A step that sends no acceptance keeps what is said of those in flight. *)
LEMMA AcceptancesKept ==
  ASSUME JInv, IInv', \A j \in Jobs : Onward(j),
         \A r \in reports' : r \in reports \/ (r.st # "accepted" /\ r.fence <= fence[r.job])
  PROVE  ReportsIssued' /\ AcceptOnce'
<1>1. ReportsIssued'
  <2> SUFFICES ASSUME NEW r \in reports' PROVE r.fence <= fence'[r.job]
    BY DEF ReportsIssued
  <2>1. r.job \in Jobs /\ r.fence \in Nat
    BY LeaseConstants DEF IInv, TypeOK, LoopTypes, Reports, Fences
  <2>2. r.fence <= fence[r.job]
    BY DEF JInv, ReportsIssued
  <2> QED BY <2>1, <2>2, IssuedKept
<1>2. AcceptOnce'
  BY DEF JInv, AcceptOnce, AcceptanceOf
<1> QED BY <1>1, <1>2

(***************************************************************************)
(* A step that leaves the Scout where it is, with its attempt, and that    *)
(* accepts no attempt, keeps the offer it holds unbegun.                   *)
(***************************************************************************)
LEMMA FreshKept ==
  ASSUME JInv, UNCHANGED <<sc, held, token>>,
         \A r \in reports' : r \in reports \/ r.st # "accepted",
         sc \in {"offer", "accept"} => (Unbegun(held, token) => Unbegun(held, token)')
  PROVE  Fresh'
  BY DEF JInv, Fresh, Unbegun, AcceptanceOf

(* Closing or making attempts leaves an unbegun attempt unbegun. *)
LEMMA UnbegunKept ==
  ASSUME JInv, \A j \in Jobs : Closing(j) \/ Making(j), UNCHANGED <<held, token>>,
         sc \in {"offer", "accept"}, Unbegun(held, token)
  PROVE  Unbegun(held, token)'
<1>1. held \in Jobs /\ token \in Fences /\ token <= fence[held]
  BY DEF JInv, IInv, TypeOK, LoopTypes, TokenIssued
<1> QED BY <1>1 DEF Unbegun, Closing, Making

----------------------------------------------------------------------------
(* The mapping: a step onward of the rows is a step of the log ... *)
LogShape(j) ==
    /\ fence[j] \in Nat
    /\ Len(Log(j)) = fence[j]
    /\ \A f \in 1 .. fence[j] : /\ f \in Fences
                                /\ Log(j)[f] = IF att[j][f] \in Terminal THEN "closed" ELSE att[j][f]

LogShapes == \A j \in Jobs : LogShape(j)

(* The log of a job has one entry for each token that was issued. *)
LEMMA LogLength == JInv => LogShapes
<1> SUFFICES ASSUME JInv, NEW j \in Jobs PROVE LogShape(j)
  BY DEF LogShapes
<1>1. fence[j] \in 0 .. MaxFence
  BY DEF JInv, IInv, TypeOK, RowTypes
<1>2. fence[j] \in Nat
  BY <1>1, LeaseConstants
<1>3. \A f \in 1 .. fence[j] : f \in Fences
  BY <1>1, LeaseConstants DEF Fences
<1> DEFINE State(f) == IF att[j][f] \in Terminal THEN "closed" ELSE att[j][f]
           S == {State(f) : f \in 1 .. fence[j]}
<1>4. Log(j) = [f \in 1 .. fence[j] |-> State(f)]
  BY DEF Log
<1>5. Log(j) \in [1 .. fence[j] -> S] /\ DOMAIN Log(j) = 1 .. fence[j]
  <2> HIDE DEF State
  <2> QED BY <1>4
<1> HIDE DEF S
<1>6. Log(j) \in Seq(S)
  BY <1>2, <1>5, SeqDef
<1>7. DOMAIN Log(j) = 1 .. Len(Log(j)) /\ Len(Log(j)) \in Nat
  BY <1>6, LenProperties
<1>8. Len(Log(j)) = fence[j]
  BY <1>2, <1>5, <1>7
<1>9. \A f \in 1 .. fence[j] : Log(j)[f] = State(f)
  BY <1>4
<1> QED BY <1>2, <1>3, <1>8, <1>9 DEF LogShape

(* The same of the log after a step. *)
LEMMA LogLengthNext == JInv' => LogShapes'
  BY LogLength, PTL

(* Onward of every job, the rows step as the log may. *)
LEMMA LogStep ==
  ASSUME JInv, JInv', NEW j \in Jobs, Onward(j)
  PROVE  Attempts!JobStep(Log(j), Log(j)')
<1>1. LogShape(j)
  BY LogLength DEF LogShapes
<1>2. LogShape(j)'
  BY LogLengthNext DEF LogShapes
<1>3. ASSUME NEW f \in 1 .. fence[j], f # fence[j]
      PROVE  att[j][f] \in Terminal
  <2>1. f \in Fences /\ f <= fence[j]
    BY <1>1 DEF LogShape
  <2>2. att[j][f] \in ActiveAttempt \cup Terminal \cup {"none"}
    BY <2>1 DEF JInv, IInv, TypeOK, RowTypes
  <2>3. att[j][f] # "none"
    BY <2>1 DEF JInv, Issued
  <2>4. att[j][f] \notin ActiveAttempt
    BY <1>3, <2>1 DEF JInv, IInv, OneActiveAttempt
  <2> QED BY <2>2, <2>3, <2>4
<1>4. ASSUME NEW f \in 1 .. fence[j], att[j][f] \notin Terminal
      PROVE  att[j][f] \in ActiveAttempt
  <2>1. f \in Fences /\ f <= fence[j]
    BY <1>1 DEF LogShape
  <2> QED BY <1>4, <2>1 DEF JInv, IInv, TypeOK, RowTypes, Issued
<1>5. CASE Closing(j)
  BY <1>1, <1>2, <1>3, <1>4, <1>5 DEF LogShape, Closing, Attempts!JobStep, Attempts!After, ActiveAttempt
<1>6. CASE Making(j)
  BY <1>1, <1>2, <1>6 DEF LogShape, Making, Attempts!JobStep, Terminal
<1>7. ASSUME NEW st \in {"accepted", "running"}, Reported(j, st)
      PROVE  Attempts!JobStep(Log(j), Log(j)')
  BY <1>1, <1>2, <1>3, <1>7 DEF LogShape, Reported, Attempts!JobStep, Attempts!After, Terminal
<1> QED BY <1>5, <1>6, <1>7 DEF Onward

----------------------------------------------------------------------------
(* A poll closes what it reclaims and makes the attempt that it offers. *)
LEMMA PollOnward ==
  ASSUME JInv, ServerPoll
  PROVE  /\ JInv'
         /\ \A j \in Jobs : Onward(j)
         /\ Executing' \in {Executing, NoJob}
<1> USE LeaseConstants
<1>0. IInv'
  BY PollStep DEF JInv
<1>1. PICK closed \in SUBSET Jobs, offer \in Jobs \cup {NoJob} :
        /\ offer \in Jobs => offer \in Selected /\ fence[offer] < MaxFence
        /\ PollJobRows(closed, offer)
        /\ PollAnswer(offer)
        /\ reports' = reports
  <2>1. ASSUME NEW j \in Jobs, poll_offer(j)
        PROVE  \E c \in SUBSET Jobs : PollJobRows(c, j) /\ PollAnswer(j) /\ reports' = reports
                 /\ j \in Selected /\ fence[j] < MaxFence
    BY <2>1 DEF poll_offer, Selected
  <2>2. CASE poll_nothing
    <3>1. {j \in Selected : expired[j]} \in SUBSET Jobs
      BY DEF Selected
    <3> QED BY <2>2, <3>1 DEF poll_nothing
  <2> QED BY <2>1, <2>2 DEF ServerPoll
<1>2. /\ OneActiveAttempt'
      /\ \A j \in Jobs, f \in Fences : f <= fence[j] => att'[j][f] \in Terminal \/ att'[j][f] = att[j][f]
      /\ \A j \in Jobs : fence'[j] = IF j = offer THEN fence[j] + 1 ELSE fence[j]
  BY <1>1, PollRows DEF JInv
<1>3. \A j \in Jobs : Closing(j) \/ Making(j)
  <2> SUFFICES ASSUME NEW j \in Jobs PROVE Closing(j) \/ Making(j)
    OBVIOUS
  <2>1. fence[j] \in 0 .. MaxFence
    BY DEF JInv, IInv, TypeOK, RowTypes
  <2>2. CASE j # offer
    BY <1>2, <2>2 DEF Closing
  <2>3. CASE j = offer
    <3>1. fence'[j] = fence[j] + 1 /\ fence'[j] \in Fences
      BY <1>1, <1>2, <2>1, <2>3 DEF Fences
    <3>2. att'[j][fence'[j]] = "offered"
      BY <1>1, <2>3, <3>1 DEF PollJobRows
    <3>3. ASSUME NEW f \in Fences, f <= fence[j]
          PROVE  att'[j][f] \in Terminal
      <4>1. att'[j][f] \notin ActiveAttempt
        BY <1>2, <2>1, <3>1, <3>3 DEF OneActiveAttempt
      <4>2. att[j][f] \in ActiveAttempt \cup Terminal /\ att[j][f] # "none"
        BY <3>3 DEF JInv, IInv, TypeOK, RowTypes, Issued
      <4> QED BY <1>2, <3>3, <4>1, <4>2
    <3> QED BY <3>1, <3>2, <3>3 DEF Making
  <2> QED BY <2>2, <2>3
<1>4. \A j \in Jobs : Onward(j)
  BY <1>3 DEF Onward
<1>5. Issued' /\ ReportsIssued' /\ AcceptOnce'
  BY <1>0, <1>1, <1>4, IssuedKept, AcceptancesKept
<1>6. CASE UNCHANGED scout
  <2>1. UNCHANGED <<sc, held, token>>
    BY <1>6 DEF scout
  <2>2. Fresh'
    BY <1>1, <1>3, <2>1, FreshKept, UnbegunKept
  <2> QED BY <1>0, <1>4, <1>5, <2>1, <2>2 DEF JInv, Executing
<1>7. CASE sc' = "idle"
  BY <1>0, <1>4, <1>5, <1>7 DEF JInv, Fresh, Executing
<1>8. CASE offer \in Jobs /\ sc' = "offer" /\ held' = offer /\ token' = fence[offer] + 1
  <2>1. att'[offer][token'] = "offered"
    <3>1. token' \in Fences
      BY <1>1, <1>8 DEF JInv, IInv, TypeOK, RowTypes, Fences
    <3> QED BY <1>1, <1>8, <3>1 DEF PollJobRows
  <2>2. ASSUME NEW r \in reports, AcceptanceOf(r, offer, token')
        PROVE  FALSE
    <3>1. r.fence <= fence[offer] /\ r.fence = fence[offer] + 1 /\ fence[offer] \in Nat
      BY <1>4, <1>8, <2>2, <1>0, IssuedKept DEF JInv, ReportsIssued, AcceptanceOf
    <3> QED BY <3>1
  <2>3. Fresh'
    BY <1>1, <1>8, <2>1, <2>2 DEF Fresh, Unbegun, AcceptanceOf
  <2> QED BY <1>0, <1>4, <1>5, <1>8, <2>3 DEF JInv, Executing
<1> QED BY <1>1, <1>6, <1>7, <1>8 DEF PollAnswer, Detach

(* The operator, the reaper and the clock only close attempts. *)
LEMMA JobOnward ==
  ASSUME JInv, NEW k \in Jobs, Cancel(k) \/ Reap(k) \/ Time(k)
  PROVE  /\ JInv'
         /\ \A j \in Jobs : Onward(j)
         /\ Executing' \in {Executing, NoJob}
<1>0. IInv'
  BY JobStep DEF JInv
<1>1. UNCHANGED <<reports, sc, held, token>> /\ fence' = fence
  BY DEF Cancel, Reap, Time, cancel_job_read, cancel_job_write, reap_read, reap_attempts, reap_write,
     LeaseExpires, JobBecomesDue, JobExpires, ExecutionLimit, net, scout, attempt, job
<1>2. \A j \in Jobs, f \in Fences : att'[j][f] = att[j][f] \/ att'[j][f] = "expired"
  <2>1. CASE reap_write(k)
    BY <2>1 DEF reap_write, JInv, IInv, TypeOK, RowTypes
  <2>2. CASE att' = att
    BY <2>2
  <2> QED BY <2>1, <2>2 DEF Cancel, Reap, Time, cancel_job_read, cancel_job_write, reap_read,
         reap_attempts, LeaseExpires, JobBecomesDue, JobExpires, ExecutionLimit, attempt, job
<1>3. \A j \in Jobs : Closing(j)
  BY <1>1, <1>2 DEF Closing, Terminal
<1>4. \A j \in Jobs : Onward(j)
  BY <1>3 DEF Onward
<1>5. Issued' /\ ReportsIssued' /\ AcceptOnce'
  BY <1>0, <1>1, <1>4, IssuedKept, AcceptancesKept
<1>6. Fresh'
  BY <1>1, <1>3, FreshKept, UnbegunKept
<1> QED BY <1>0, <1>1, <1>4, <1>5, <1>6 DEF JInv, Executing

(* A step that leaves the rows alone. *)
LEMMA RowsOnward ==
  ASSUME JInv, IInv', UNCHANGED attempt
  PROVE  (\A j \in Jobs : Closing(j) /\ Onward(j)) /\ Issued'
<1>1. \A j \in Jobs : Closing(j) /\ Onward(j)
  BY DEF attempt, Closing, Onward
<1> QED BY <1>1, IssuedKept

(* A report read, and one that changes nothing. *)
LEMMA ReadOnward ==
  ASSUME JInv, NEW r \in reports, report_read(r)
  PROVE  /\ JInv'
         /\ \A j \in Jobs : Onward(j)
         /\ Executing' \in {Executing, NoJob}
<1>0. IInv'
  BY ReportStep DEF JInv, ServerReport
<1>1. UNCHANGED attempt /\ UNCHANGED <<sc, held, token>>
  BY DEF report_read, scout
<1>2. (\A j \in Jobs : Closing(j) /\ Onward(j)) /\ Issued'
  BY <1>0, <1>1, RowsOnward
<1> DEFINE q == [r EXCEPT !.seen = status[r.job]]
<1>3. q.job = r.job /\ q.fence = r.fence /\ q.st = r.st /\ reports' = (reports \ {r}) \cup {q}
  <2>1. r \in Reports
    BY DEF JInv, IInv, TypeOK, LoopTypes
  <2> QED BY <2>1 DEF report_read, Reports
<1> HIDE DEF q
<1>4. ReportsIssued'
  BY <1>1, <1>3 DEF JInv, ReportsIssued, attempt
<1>5. AcceptOnce'
  <2> SUFFICES ASSUME NEW r1 \in reports', NEW r2 \in reports', r1.st = "accepted",
                      AcceptanceOf(r2, r1.job, r1.fence)
               PROVE  r1 = r2
    BY DEF AcceptOnce
  <2> DEFINE old(x) == IF x = q THEN r ELSE x
  <2>1. /\ old(r1) \in reports /\ old(r1).st = "accepted"
        /\ old(r1).job = r1.job /\ old(r1).fence = r1.fence
        /\ old(r2) \in reports /\ AcceptanceOf(old(r2), r1.job, r1.fence)
    BY <1>3 DEF AcceptanceOf
  <2>2. old(r1) = old(r2)
    BY <2>1 DEF JInv, AcceptOnce
  <2>3. (r1 # q => r1 # r) /\ (r2 # q => r2 # r)
    BY <1>3
  <2> QED BY <2>2, <2>3
<1>6. Fresh'
  <2>1. \A x \in reports' : \E y \in reports : x.job = y.job /\ x.fence = y.fence /\ x.st = y.st
    BY <1>3
  <2>2. \A j, f : (\A x \in reports : ~AcceptanceOf(x, j, f)) => \A x \in reports' : ~AcceptanceOf(x, j, f)
    BY <2>1 DEF AcceptanceOf
  <2>3. Unbegun(held, token) => Unbegun(held, token)'
    BY <1>1 DEF Unbegun, attempt
  <2> QED BY <1>1, <2>2, <2>3 DEF JInv, Fresh
<1> QED BY <1>0, <1>1, <1>2, <1>4, <1>5, <1>6 DEF JInv, Executing

(* The answer to a report adds no acceptance to those in flight. *)
LEMMA AnswerAdds ==
  ASSUME JInv, NEW r \in reports, NEW ok \in BOOLEAN, ReportAnswer(r, ok)
  PROVE  /\ \A x \in reports' : x \in reports \/ (x.st # "accepted" /\ x.fence <= fence[x.job])
         /\ r.st = "accepted" => r \notin reports'
<1>1. Awaits(r) /\ sc = "accept" => token <= fence[held]
  BY DEF Awaits, JInv, IInv, TokenIssued
<1> QED BY <1>1 DEF ReportAnswer, Awaits

(* A refused report leaves the rows alone. *)
LEMMA RefusedOnward ==
  ASSUME JInv, NEW r \in reports, report_acknowledge(r) \/ report_conflict(r)
  PROVE  /\ JInv'
         /\ \A j \in Jobs : Onward(j)
         /\ Executing' \in {Executing, NoJob}
<1>0. IInv'
  BY ReportStep DEF JInv, ServerReport
<1>1. UNCHANGED attempt
  BY DEF report_acknowledge, report_conflict
<1>2. PICK ok \in BOOLEAN : ReportAnswer(r, ok) /\ (ok => r.st # "accepted")
  BY DEF report_acknowledge, report_conflict, Acknowledged, Terminal
<1>3. (\A j \in Jobs : Closing(j) /\ Onward(j)) /\ Issued'
  BY <1>0, <1>1, RowsOnward
<1>4. ReportsIssued' /\ AcceptOnce'
  BY <1>0, <1>2, <1>3, AnswerAdds, AcceptancesKept
<1>5. \/ UNCHANGED <<sc, held, token>>
      \/ sc' = "idle"
      \/ sc = "final" /\ sc' = "done" /\ UNCHANGED <<held, token>>
  BY <1>2, AnswerStep DEF JInv
<1>6. Fresh'
  <2>1. CASE UNCHANGED <<sc, held, token>>
    BY <1>2, <1>3, <2>1, AnswerAdds, FreshKept, UnbegunKept
  <2>2. CASE sc' \in {"idle", "done"}
    BY <2>2 DEF Fresh
  <2> QED BY <1>5, <2>1, <2>2
<1> QED BY <1>0, <1>3, <1>4, <1>5, <1>6 DEF JInv, Executing

(***************************************************************************)
(* A report applied: it closes the newest attempt or carries it on, and if *)
(* it is the acceptance that the Scout waits for the attempt is begun.     *)
(***************************************************************************)
LEMMA ApplyOnward ==
  ASSUME JInv, NEW r \in reports, report_apply(r)
  PROVE  /\ JInv'
         /\ \A j \in Jobs : Onward(j)
         /\ \/ Executing' \in {Executing, NoJob}
            \/ /\ r.job \in Jobs /\ Executing = NoJob /\ Executing' = <<r.job, fence[r.job]>>
               /\ Reported(r.job, "accepted") /\ att[r.job][fence[r.job]] = "offered"
<1> DEFINE k == r.job
           f == r.fence
<1>0. IInv'
  BY ReportStep DEF JInv, ServerReport
<1>1. r \in Reports /\ k \in Jobs /\ f \in Fences /\ r.st \in Reportable
  BY DEF JInv, IInv, TypeOK, LoopTypes, Reports
<1>2. /\ f = fence[k] /\ att[k][f] \in ActiveAttempt /\ fence' = fence
      /\ r.st \in AllowedReports(att[k][f])
      /\ \A j \in Jobs, g \in Fences : att'[j][g] = IF j = k /\ g = f THEN r.st ELSE att[j][g]
  BY <1>1 DEF report_apply, Applies, CurrentAttempt, AllowedReports, ActiveAttempt,
     JInv, IInv, TypeOK, RowTypes
<1>3. ReportAnswer(r, TRUE)
  BY DEF report_apply
<1>4. \A j \in Jobs : j # k => Closing(j)
  BY <1>2 DEF Closing
<1>5. r.st \in Terminal => Closing(k)
  BY <1>1, <1>2 DEF Closing
<1>6. r.st \notin Terminal => r.st \in {"accepted", "running"} /\ Reported(k, r.st)
  BY <1>1, <1>2 DEF Reported, Reportable, Terminal, AllowedReports
<1>7. \A j \in Jobs : Onward(j)
  BY <1>4, <1>5, <1>6 DEF Onward
<1>8. Issued' /\ ReportsIssued' /\ AcceptOnce'
  BY <1>0, <1>3, <1>7, AnswerAdds, IssuedKept, AcceptancesKept
<1>9. \/ UNCHANGED <<sc, held, token>>
      \/ sc' = "idle"
      \/ r.st = "accepted" /\ sc' = "run" /\ sc = "accept" /\ held = k /\ token = f /\ UNCHANGED <<held, token>>
      \/ sc = "final" /\ sc' = "done" /\ UNCHANGED <<held, token>>
  BY <1>3, AnswerStep DEF JInv
<1>10. ASSUME sc \in {"offer", "accept"}, held = k, token = f
       PROVE  /\ r.st = "accepted" => sc = "accept" /\ att[k][f] = "offered"
              /\ r.st = "running" => sc = "accept" /\ ~Unbegun(held, token)
  BY <1>1, <1>2, <1>10 DEF JInv, Fresh, Unbegun, AcceptanceOf, AllowedReports, Terminal, ActiveAttempt
<1>11. Fresh'
  <2>1. CASE UNCHANGED <<sc, held, token>>
    <3>1. CASE sc \in {"offer", "accept"} /\ held = k /\ token = f /\ r.st = "accepted"
      <4>1. \A x \in reports' : (x \in reports /\ x # r) \/ x.st # "accepted"
        BY <1>3, <3>1, AnswerAdds
      <4>2. \A x \in reports' : ~AcceptanceOf(x, held, token)
        BY <3>1, <4>1 DEF JInv, AcceptOnce, AcceptanceOf
      <4> QED BY <1>10, <2>1, <3>1, <4>2 DEF Fresh
    <3>2. CASE ~(sc \in {"offer", "accept"} /\ held = k /\ token = f /\ r.st = "accepted")
      <4>1. sc \in {"offer", "accept"} => held \in Jobs /\ token \in Fences
        BY DEF JInv, IInv, TypeOK, LoopTypes
      <4>2. sc \in {"offer", "accept"} => (Unbegun(held, token) => Unbegun(held, token)')
        BY <1>2, <1>6, <1>10, <2>1, <3>2, <4>1 DEF Unbegun
      <4> QED BY <1>3, <2>1, <4>2, AnswerAdds, FreshKept
    <3> QED BY <3>1, <3>2
  <2>2. CASE sc' \in {"idle", "run", "done"}
    BY <2>2 DEF Fresh
  <2> QED BY <1>9, <2>1, <2>2
<1>12. CASE sc' = "run" /\ sc = "accept"
  <2>1. r.st = "accepted" /\ held = k /\ token = f /\ UNCHANGED <<held, token>>
    BY <1>9, <1>12
  <2>2. att[k][f] = "offered" /\ Reported(k, "accepted")
    BY <1>6, <1>10, <1>12, <2>1 DEF Terminal
  <2>3. Executing = NoJob /\ Executing' = <<k, f>>
    BY <1>12, <2>1 DEF Executing
  <2> QED BY <1>0, <1>1, <1>2, <1>7, <1>8, <1>11, <2>2, <2>3 DEF JInv
<1>13. CASE ~(sc' = "run" /\ sc = "accept")
  BY <1>0, <1>7, <1>8, <1>9, <1>11, <1>13 DEF JInv, Executing
<1> QED BY <1>12, <1>13

(* What the Scout does by itself, and lost requests. *)
LEMMA ScoutOnward ==
  ASSUME JInv, ScoutLoop \/ Worker \/ ReportProgress \/ Crash \/ LosePoll
                 \/ \E r \in reports : LoseReport(r)
  PROVE  /\ JInv'
         /\ \A j \in Jobs : Onward(j)
         /\ Executing' \in {Executing, NoJob}
<1>0. IInv'
  BY ScoutStep DEF JInv
<1>1. UNCHANGED attempt
  BY DEF ScoutLoop, PollJob, RejectOffer, AcceptOffer, Finalize, RequestTimeout, Worker, StopWorker,
     WorkerDone, ReportProgress, Crash, LosePoll, LoseReport
<1>2. (\A j \in Jobs : Closing(j) /\ Onward(j)) /\ Issued'
  BY <1>0, <1>1, RowsOnward
<1>3. CASE AcceptOffer
  <2> DEFINE a == [job |-> held, fence |-> token, st |-> "accepted", seen |-> "unread"]
  <2>1. sc = "offer" /\ sc' = "accept" /\ UNCHANGED <<held, token>> /\ reports' = reports \cup {a}
    BY <1>3 DEF AcceptOffer, Send
  <2>2. Unbegun(held, token) /\ \A r \in reports : ~AcceptanceOf(r, held, token)
    BY <2>1 DEF JInv, Fresh
  <2>3. Fresh'
    BY <1>1, <2>1, <2>2 DEF Fresh, Unbegun, attempt
  <2>4. token <= fence[held]
    BY <2>1 DEF JInv, IInv, TokenIssued
  <2>5. ReportsIssued'
    BY <1>1, <2>1, <2>4 DEF JInv, ReportsIssued, attempt
  <2>6. AcceptOnce'
    BY <2>1, <2>2 DEF JInv, AcceptOnce, AcceptanceOf
  <2> QED BY <1>0, <1>2, <2>1, <2>3, <2>5, <2>6 DEF JInv, Executing
<1>4. CASE ~AcceptOffer
  <2>1. \A r \in reports' : r \in reports \/ (r.st # "accepted" /\ r.fence <= fence[r.job])
    <3>1. sc \notin {"idle", "poll"} => token <= fence[held]
      BY DEF JInv, IInv, TokenIssued
    <3>2. result # "accepted"
      BY DEF JInv, IInv, TypeOK, LoopTypes
    <3> QED BY <1>4, <3>1, <3>2 DEF ScoutLoop, PollJob, RejectOffer, Finalize, RequestTimeout, Worker,
           StopWorker, WorkerDone, ReportProgress, Crash, LosePoll, LoseReport, Send, net
  <2>2. ReportsIssued' /\ AcceptOnce'
    BY <1>0, <1>2, <2>1, AcceptancesKept
  <2>3. \/ UNCHANGED <<sc, held, token>>
        \/ sc' \in {"idle", "poll"}
        \/ sc \in {"run", "done", "final"} /\ sc' \in {"done", "final"} /\ UNCHANGED <<held, token>>
    BY <1>4 DEF ScoutLoop, PollJob, RejectOffer, Finalize, RequestTimeout, Worker,
       StopWorker, WorkerDone, ReportProgress, Crash, LosePoll, LoseReport, Detach, scout
  <2>4. Fresh'
    <3>1. CASE UNCHANGED <<sc, held, token>>
      BY <1>2, <2>1, <3>1, FreshKept, UnbegunKept
    <3>2. CASE sc' \in {"idle", "poll", "done", "final"}
      BY <3>2 DEF Fresh
    <3> QED BY <2>3, <3>1, <3>2
  <2> QED BY <1>0, <1>2, <2>2, <2>3, <2>4 DEF JInv, Executing
<1> QED BY <1>3, <1>4

----------------------------------------------------------------------------
(* Rows that go on and an executor that stops or goes on are a step of the log. *)
LEMMA MapQuiet ==
  ASSUME JInv, JInv', \A j \in Jobs : Onward(j), Executing' \in {Executing, NoJob}
  PROVE  Attempts!Next
<1>1. \A j \in Jobs : Attempts!JobStep(Logs[j], Logs'[j])
  BY LogStep DEF Logs
<1> QED BY <1>1 DEF Attempts!Next, Logs

(* The invariant is kept, and every step is a step of the log. *)
LEMMA NextJInv ==
  ASSUME JInv, [Next]_vars
  PROVE  JInv' /\ Attempts!Next
<1>1. CASE UNCHANGED vars
  <2>1. UNCHANGED <<attempt, reports, sc, held, token>>
    BY <1>1 DEF vars, net, scout
  <2>2. IInv'
    BY NextStep DEF JInv
  <2>3. (\A j \in Jobs : Closing(j) /\ Onward(j)) /\ Issued'
    BY <2>1, <2>2, RowsOnward
  <2>4. JInv'
    BY <2>1, <2>2, <2>3 DEF JInv, ReportsIssued, AcceptOnce, Fresh, Unbegun, attempt
  <2>5. Executing' = Executing
    BY <2>1 DEF Executing
  <2> QED BY <2>3, <2>4, <2>5, MapQuiet
<1>2. CASE ServerPoll
  BY <1>2, PollOnward, MapQuiet
<1>3. ASSUME NEW r \in reports, report_read(r) \/ report_acknowledge(r) \/ report_conflict(r)
      PROVE  JInv' /\ Attempts!Next
  BY <1>3, ReadOnward, RefusedOnward, MapQuiet
<1>4. ASSUME NEW r \in reports, report_apply(r)
      PROVE  JInv' /\ Attempts!Next
  <2>1. JInv' /\ \A j \in Jobs : Onward(j)
    BY <1>4, ApplyOnward
  <2>2. CASE Executing' \in {Executing, NoJob}
    BY <2>1, <2>2, MapQuiet
  <2>3. CASE /\ r.job \in Jobs /\ Executing = NoJob /\ Executing' = <<r.job, fence[r.job]>>
             /\ Reported(r.job, "accepted") /\ att[r.job][fence[r.job]] = "offered"
    <3> DEFINE k == r.job
               n == fence[k]
    <3>1. \A j \in Jobs : Attempts!JobStep(Logs[j], Logs'[j])
      BY <2>1, LogStep DEF Logs
    <3>2. LogShape(k) /\ LogShape(k)' /\ fence'[k] = n /\ n > 0 /\ n \in 1 .. n
      BY <2>1, <2>3, LogLength, LogLengthNext DEF LogShapes, Reported, Fences, LogShape
    <3>3. Log(k)[n] = "offered" /\ Log(k)'[n] = "accepted"
      BY <2>3, <3>2 DEF LogShape, Reported, Terminal
    <3>4. Attempts!Begins(k)
      BY <2>3, <3>2, <3>3 DEF Attempts!Begins, Logs, LogShape
    <3> QED BY <2>1, <2>3, <3>1, <3>4 DEF Attempts!Next, Logs
  <2> QED BY <1>4, <2>2, <2>3, ApplyOnward
<1>5. ASSUME NEW j \in Jobs, Cancel(j) \/ Reap(j) \/ Time(j)
      PROVE  JInv' /\ Attempts!Next
  BY <1>5, JobOnward, MapQuiet
<1>6. CASE ScoutLoop \/ Worker \/ ReportProgress \/ Crash \/ LosePoll \/ \E r \in reports : LoseReport(r)
  BY <1>6, ScoutOnward, MapQuiet
<1> QED BY <1>1, <1>2, <1>3, <1>4, <1>5, <1>6 DEF Next, ServerReport

(***************************************************************************)
(* The delivery of scan jobs implements AttemptLog: each attempt is begun  *)
(* at most once, in the step that records its acceptance, and is closed    *)
(* before the next one is made.                                            *)
(***************************************************************************)
THEOREM LeaseImplementsAttemptLog == Spec => ImplementsAttemptLog
<1>1. Init => Attempts!Init
  <2> SUFFICES ASSUME Init PROVE Attempts!Init
    OBVIOUS
  <2>1. ASSUME NEW j \in Jobs PROVE Log(j) = <<>>
    BY DEF Init, Log
  <2> QED BY <2>1 DEF Attempts!Init, Init, Logs, Executing
<1>2. JInv /\ [Next]_vars => JInv' /\ [Attempts!Next]_<<Logs, Executing>>
  BY NextJInv
<1> QED BY InitJInv, <1>1, <1>2, PTL DEF Spec, ImplementsAttemptLog, Attempts!Spec
=============================================================================
