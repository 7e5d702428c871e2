---------------------------- MODULE ResultQueue ----------------------------
(***************************************************************************)
(* How the results of one job attempt reach the dashboard: the Scout's     *)
(* durable queue (scout/internal/queue/queue.go), the worker that streams  *)
(* into it (scanners.go RunStreaming), the run loop that drains it         *)
(* (agent.go, cli.go) and the upload endpoint (upload_job_results).        *)
(*                                                                         *)
(* The attempt has one scanner stage of Chunks result batches, 1..Chunks,  *)
(* and a completion marker.  A batch counts for one unit of the byte cap,  *)
(* the marker, which has no payload, for none.  The worker and the run     *)
(* loop share the queue's mutex, which a drain holds over its uploads.  An *)
(* upload the Scout has given up may still reach the server.               *)
(***************************************************************************)
EXTENDS Naturals, Sequences, Functions

CONSTANTS
    Chunks,     \* result batches of the stage
    Cap,        \* the queue's byte cap, in batches
    MaxRestarts \* bound on the restarts of the Scout

Batches == 1..Chunks
Marker == Chunks + 1
Items == 1..Marker

VARIABLES
    invalid,    \* batches whose content the server cannot parse
    disk,       \* the queue directory: its items in insertion order
    worker,     \* where the job is: "scan", "deliver", "flush", "report" or "idle"
    next,       \* the next batch the scanner yields
    outputs,    \* what the Result carries because the queue was full
    outcome,    \* the terminal status to report
    drain,      \* the items a drain has still to upload; Idle if none runs
    answer,     \* of the upload in progress: "none", "waiting", or the answer
    restarts,   \* restarts so far
    late,       \* uploads given up that may still be served
    attempt,    \* the server's view of the attempt
    ingested,   \* how often each item was processed
    durable,    \* history: items Enqueue has accepted
    refused     \* history: items answered 409

vars == <<invalid, disk, worker, next, outputs, outcome, drain, answer, restarts, late,
          attempt, ingested, durable, refused>>

scoutVars == <<disk, worker, next, outputs, outcome, drain, answer, restarts>>

Idle == <<0>>

TypeOK ==
    /\ invalid \subseteq Batches
    /\ disk \in Seq(Items)
    /\ worker \in {"scan", "deliver", "flush", "report", "idle"}
    /\ next \in 1..(Chunks + 1)
    /\ outputs \in Seq(Items)
    /\ outcome \in {"none", "completed", "failed", "cancelled"}
    /\ drain = Idle \/ drain \in Seq(Items)
    /\ answer \in {"none", "waiting", "accepted", "conflict", "invalid"}
    /\ restarts \in 0..MaxRestarts /\ late \subseteq Items
    /\ attempt \in {"live", "lapsed", "requeued", "closed", "fenced"}
    /\ ingested \in [Items -> Nat]
    /\ durable \subseteq Items /\ refused \subseteq Items

Init ==
    /\ invalid \in SUBSET Batches
    /\ disk = <<>> /\ outputs = <<>> /\ drain = Idle
    /\ worker = "scan" /\ next = 1 /\ outcome = "none"
    /\ answer = "none" /\ restarts = 0 /\ late = {} /\ attempt = "live"
    /\ ingested = [i \in Items |-> 0]
    /\ durable = {} /\ refused = {}

----------------------------------------------------------------------------
(* The queue.                                                              *)

Pending(q) == Len(SelectSeq(q, LAMBDA i : i \in Batches))

Fits(i) == i \in Batches => Pending(disk) + 1 <= Cap

(* The worker waits for the mutex while a drain holds it. *)
Unlocked == drain = Idle

(* Enqueue of i succeeds. *)
Enqueue(i) ==
    /\ Fits(i)
    /\ disk' = Append(disk, i)
    /\ durable' = durable \cup {i}

----------------------------------------------------------------------------
(* The worker: RunStreaming and Finalize.                                  *)

(***************************************************************************)
(* deliver: a batch the queue has no room for is carried in the Result.    *)
(* The scanner may have failed on the chunk after this output; the other   *)
(* chunks are scanned nevertheless.                                        *)
(***************************************************************************)
Deliver ==
    /\ worker = "scan" /\ next \in Batches /\ Unlocked
    /\ \/ Enqueue(next) /\ UNCHANGED outputs
       \/ ~Fits(next) /\ outputs' = Append(outputs, next) /\ UNCHANGED <<disk, durable>>
    /\ next' = next + 1
    /\ outcome' \in {outcome, "failed"}
    /\ UNCHANGED <<invalid, worker, drain, answer, late, attempt, ingested, refused, restarts>>

(* Mutant of Complete: the marker is queued although a batch is still carried. *)
Complete_Always ==
    /\ worker = "scan" /\ next = Marker /\ outcome = "none" /\ Unlocked
    /\ Enqueue(Marker)
    /\ worker' = "deliver" /\ outcome' = "completed"
    /\ UNCHANGED <<invalid, next, outputs, drain, answer, late, attempt, ingested, refused, restarts>>

(* All chunks have been scanned: the marker goes where the last batches went. *)
Complete ==
    /\ worker = "scan" /\ next = Marker /\ outcome = "none" /\ Unlocked
    /\ \/ outputs = <<>> /\ Enqueue(Marker) /\ UNCHANGED outputs
       \/ outputs # <<>> /\ outputs' = Append(outputs, Marker) /\ UNCHANGED <<disk, durable>>
    /\ worker' = "deliver" /\ outcome' = "completed"
    /\ UNCHANGED <<invalid, next, drain, answer, late, attempt, ingested, refused, restarts>>

(* The scanner failed on a chunk: there is no marker, what was carried is delivered. *)
StageFailed ==
    /\ worker = "scan" /\ next = Marker /\ outcome = "failed"
    /\ worker' = "deliver"
    /\ UNCHANGED <<invalid, disk, next, outputs, outcome, drain, answer, late, attempt, ingested, durable, refused, restarts>>

(* Cancelled, or past the job's deadline: what was carried is dropped. *)
Cancelled ==
    /\ worker = "scan"
    /\ worker' = "report" /\ outcome' = "cancelled" /\ outputs' = <<>>
    /\ UNCHANGED <<invalid, disk, next, drain, answer, late, attempt, ingested, durable, refused, restarts>>

(* One of the carried outputs: if it does not fit, the job fails and the rest is dropped. *)
Finalize ==
    /\ worker = "deliver" /\ Unlocked /\ outputs # <<>>
    /\ \/ Enqueue(Head(outputs)) /\ outputs' = Tail(outputs) /\ UNCHANGED <<worker, outcome>>
       \/ /\ ~Fits(Head(outputs))
          /\ outputs' = <<>> /\ worker' = "report" /\ outcome' = "failed"
          /\ UNCHANGED <<disk, durable>>
    /\ UNCHANGED <<invalid, next, drain, answer, late, attempt, ingested, refused, restarts>>

(* The best-effort drain at the end of Finalize. *)
FinalDrain ==
    /\ worker = "deliver" /\ Unlocked /\ outputs = <<>>
    /\ worker' = "flush" /\ drain' = disk
    /\ UNCHANGED <<invalid, disk, next, outputs, outcome, answer, late, attempt, ingested, durable, refused, restarts>>

(***************************************************************************)
(* The terminal report: applied to a live attempt, acknowledged for a      *)
(* closed one, and otherwise refused and repeated, which changes nothing.  *)
(***************************************************************************)
ReportTerminal ==
    /\ worker = "report" /\ Unlocked
    /\ attempt \in {"live", "closed"}
    /\ attempt' = "closed" /\ worker' = "idle"
    /\ UNCHANGED <<invalid, disk, next, outputs, outcome, drain, answer, late, ingested, durable, refused, restarts>>

----------------------------------------------------------------------------
(* The drain, oldest item first.                                           *)

EndDrain ==
    /\ drain' = Idle /\ answer' = "none"
    /\ worker' = IF worker = "flush" THEN "report" ELSE worker

(* The drain of a successful heartbeat. *)
DrainQueue ==
    /\ Unlocked /\ disk # <<>> /\ worker # "flush"
    /\ drain' = disk
    /\ UNCHANGED <<invalid, disk, worker, next, outputs, outcome, answer, late, attempt, ingested, durable, refused, restarts>>

UploadItem ==
    /\ ~Unlocked /\ drain # <<>> /\ answer = "none"
    /\ answer' = "waiting"
    /\ UNCHANGED <<invalid, disk, worker, next, outputs, outcome, drain, late, attempt, ingested, durable, refused, restarts>>

(* Mutant of Uploaded: evidence that was refused as stale stays at the head. *)
Uploaded_KeepStale ==
    /\ answer = "accepted"
    /\ disk' = Tail(disk) /\ drain' = Tail(drain) /\ answer' = "none"
    /\ UNCHANGED <<invalid, worker, next, outputs, outcome, late, attempt, ingested, durable, refused, restarts>>

(***************************************************************************)
(* The item was accepted, or refused as that of a stale attempt: its file  *)
(* is removed.  It is the first on disk: what a drain lists is what is     *)
(* there, and nothing joins while it holds the mutex.                      *)
(***************************************************************************)
Uploaded ==
    /\ answer \in {"accepted", "conflict"}
    /\ disk' = Tail(disk) /\ drain' = Tail(drain) /\ answer' = "none"
    /\ UNCHANGED <<invalid, worker, next, outputs, outcome, late, attempt, ingested, durable, refused, restarts>>

DrainDone ==
    /\ drain = <<>>
    /\ EndDrain
    /\ UNCHANGED <<invalid, disk, next, outputs, outcome, late, attempt, ingested, durable, refused, restarts>>

(* No answer, or a lost one: the item and the rest stay for a later drain. *)
UploadFails ==
    /\ answer \notin {"none", "invalid"}
    /\ late' = IF answer = "waiting" THEN late \cup {Head(drain)} ELSE late
    /\ EndDrain
    /\ UNCHANGED <<invalid, disk, next, outputs, outcome, attempt, ingested, durable, refused, restarts>>

(* Any answer but success and 409 is an error like a lost one: the item stays. *)
UploadRefused ==
    /\ answer = "invalid"
    /\ EndDrain
    /\ UNCHANGED <<invalid, disk, next, outputs, outcome, late, attempt, ingested, durable, refused, restarts>>

(* The Scout restarts: its memory is gone, the directory is opened again. *)
Restart ==
    /\ restarts < MaxRestarts /\ restarts' = restarts + 1
    /\ worker' = "idle" /\ outputs' = <<>> /\ outcome' = "none"
    /\ drain' = Idle /\ answer' = "none"
    /\ late' = IF answer = "waiting" THEN late \cup {Head(drain)} ELSE late
    /\ UNCHANGED <<invalid, disk, next, attempt, ingested, durable, refused>>

----------------------------------------------------------------------------
(* The dashboard.                                                          *)

Verdict(i) ==
    IF attempt \in {"lapsed", "fenced"} THEN "conflict"
    ELSE IF ingested[i] = 0 /\ i \in invalid THEN "invalid"
    ELSE "accepted"

(* upload_job_results under the lock of the attempt: a processed key is a no-op. *)
Process(i) ==
    /\ ingested' = IF Verdict(i) = "accepted" /\ ingested[i] = 0
                   THEN [ingested EXCEPT ![i] = @ + 1] ELSE ingested
    /\ refused' = IF Verdict(i) = "conflict" THEN refused \cup {i} ELSE refused

Serve ==
    /\ answer = "waiting"
    /\ Process(Head(drain))
    /\ answer' = Verdict(Head(drain))
    /\ UNCHANGED <<invalid, disk, worker, next, outputs, outcome, drain, restarts, late, attempt, durable>>

ServeLate(i) ==
    /\ i \in late
    /\ Process(i)
    /\ late' = late \ {i}
    /\ UNCHANGED <<invalid, scoutVars, attempt, durable>>

(* The lease runs out: the link is down, or the Scout restarted and renews no more. *)
LeaseLapses ==
    /\ attempt = "live"
    /\ attempt' = "lapsed"
    /\ UNCHANGED <<invalid, scoutVars, late, ingested, durable, refused>>

(* The reaper expires the job and its attempt. *)
Reaped ==
    /\ attempt \in {"live", "lapsed", "requeued"}
    /\ attempt' = "closed"
    /\ UNCHANGED <<invalid, scoutVars, late, ingested, durable, refused>>

(* A poll of the Scout reclaims the attempt, and that poll or a later one offers the job again. *)
Poll ==
    /\ worker = "idle" /\ Unlocked
    /\ \/ attempt = "lapsed" /\ attempt' \in {"requeued", "closed", "fenced"}
       \/ attempt = "requeued" /\ attempt' = "fenced"
    /\ UNCHANGED <<invalid, scoutVars, late, ingested, durable, refused>>

----------------------------------------------------------------------------
Worker == Deliver \/ Complete \/ StageFailed \/ Cancelled \/ Finalize \/ FinalDrain \/ ReportTerminal

Drainer == DrainQueue \/ UploadItem \/ Uploaded \/ DrainDone \/ UploadFails \/ UploadRefused

Next == Worker \/ Drainer \/ Restart \/ Serve \/ (\E i \in Items : ServeLate(i)) \/ LeaseLapses \/ Reaped \/ Poll

Spec == Init /\ [][Next]_vars

(***************************************************************************)
(* The loop drains after every heartbeat that succeeds, the link does not  *)
(* lose every answer for ever, and the Scout does not restart for ever.    *)
(***************************************************************************)
Fairness ==
    /\ WF_vars(Worker)
    /\ SF_vars(DrainQueue) /\ WF_vars(UploadItem) /\ WF_vars(DrainDone) /\ WF_vars(UploadRefused)
    /\ SF_vars(Serve) /\ SF_vars(Uploaded)

FairSpec == Spec /\ Fairness

----------------------------------------------------------------------------
(* An item whose acknowledgement was lost, that was sent twice or that     *)
(* arrives after the Scout gave it up is processed once.                   *)
IngestedOnce == \A i \in Items : ingested[i] <= 1

(* What Enqueue has accepted is on disk until the server has processed it  *)
(* or refused it as that of a stale attempt; and a job is reported         *)
(* completed only if all its results are in the queue or beyond.           *)
NothingForgotten ==
    /\ \A i \in durable : i \in Range(disk) \/ ingested[i] > 0 \/ i \in refused
    /\ worker = "report" /\ outcome = "completed" => Items \subseteq durable

(* When the completion marker is processed, and findings the stage did not *)
(* see are resolved, only batches that the server itself refused as stale  *)
(* can be missing: none is behind the marker because the queue was full,   *)
(* an upload failed or the Scout restarted.                                *)
MarkerMissesOnlyRefused ==
    ingested[Marker] > 0 => \A i \in Batches : ingested[i] > 0 \/ i \in refused

(* Whatever uploads fail, whichever are repeated and whenever the Scout    *)
(* restarts: evidence is processed once, none is forgotten, and it is there*)
(* when the marker is.                                                     *)
EvidenceArrives == IngestedOnce /\ NothingForgotten /\ MarkerMissesOnlyRefused

Blocked == disk # <<>> /\ Head(disk) \in invalid

(* What is queued leaves the queue, until it is empty, unless a batch that *)
(* the server cannot parse is at its head.                                 *)
DrainsUnlessBlocked == disk # <<>> ~> (disk = <<>> \/ Blocked)
=============================================================================
