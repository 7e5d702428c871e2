---------------------------- MODULE Notifications ----------------------------
(***************************************************************************)
(* Outbound notifications (services/notify.py, services/notifications.py,  *)
(* api/v1/notifications.py): events become deliveries of a channel, and    *)
(* dispatchers, a task and the administrator's request, send what is due.  *)
(*                                                                         *)
(* A dispatcher reads what is due, sends without a lock and commits at the *)
(* end; what it has sent by then cannot be taken back.  One channel and one*)
(* of its policies at a time; an event is its deduplication key.           *)
(***************************************************************************)
EXTENDS Naturals, FiniteSets

CONSTANTS
    Events,           \* deduplication keys of the events the channel subscribes to
    EMERGENCY_EVENTS, \* those that quiet hours do not delay
    Dispatchers,
    MaxDeliveries,    \* bound: deliveries ever made
    MaxSends,         \* attempts of a delivery (_MAX_ATTEMPTS)
    None

VARIABLES
    channel,     \* None, or its row
    quiet,       \* whether its quiet hours are on
    due,         \* whether a digest is due
    deliveries,  \* the rows
    made,        \* rows ever made
    dispatchers, \* what each dispatcher has read and done
    news,        \* events that have happened since one of them last arrived
    missed       \* skipped for a delivery that had been sent and not been recorded

vars == <<channel, quiet, due, deliveries, made, dispatchers, news, missed>>

DELIVERY_PENDING == "pending"
DELIVERY_DELAYED == "delayed"
Unsent == {DELIVERY_PENDING, DELIVERY_DELAYED}

NotificationDelivery ==
    [id : 1..MaxDeliveries, event : Events, attempts : 0..MaxSends,
     status : Unsent \cup {"sent", "failed"}]

Init ==
    /\ channel = [enabled |-> TRUE, digest |-> FALSE]
    /\ quiet = FALSE /\ due = TRUE
    /\ deliveries = {} /\ made = 0
    /\ dispatchers = [s \in Dispatchers |-> None]
    /\ news = {} /\ missed = {}

Enabled == channel # None /\ channel.enabled

should_delay(e) == quiet /\ e \notin EMERGENCY_EVENTS

----------------------------------------------------------------------------
(* Events.                                                                 *)

(* Mutant of Queued: a delivery that was sent is one that exists.          *)
Queued_EverMade(e) == {d \in deliveries : d.event = e /\ d.status # "failed"}

Queued(e) == {d \in deliveries : d.event = e /\ d.status \in Unsent}

(* Those of the rows that a dispatcher has sent and not yet recorded.      *)
InFlight(d) == \E s \in Dispatchers : dispatchers[s] # None /\ d.id \in dispatchers[s].arrived

emit_event(e) ==
    /\ Enabled /\ news' = news \cup {e}
    /\ IF Queued(e) # {}
       THEN /\ missed' = IF \E d \in Queued(e) : InFlight(d) THEN missed \cup {e} ELSE missed
            /\ UNCHANGED <<deliveries, made>>
       ELSE /\ made < MaxDeliveries /\ made' = made + 1
            /\ deliveries' = deliveries \cup
                 {[id |-> made', event |-> e, attempts |-> 0,
                   status |-> IF should_delay(e) THEN DELIVERY_DELAYED ELSE DELIVERY_PENDING]}
            /\ missed' = missed \ {e}
    /\ UNCHANGED <<channel, quiet, due, dispatchers>>

----------------------------------------------------------------------------
(* Dispatch.                                                               *)

(* Rows that are delayed wait until the quiet hours end.                   *)
Ready == {d \in deliveries : \/ d.status = DELIVERY_PENDING
                             \/ d.status = DELIVERY_DELAYED /\ ~should_delay(d.event)}

dispatch_pending(s) ==
    /\ dispatchers[s] = None /\ Enabled
    /\ Ready # {} /\ (channel.digest => due)
    /\ dispatchers' = [dispatchers EXCEPT ![s] =
          [todo |-> Ready, digest |-> channel.digest, arrived |-> {}, done |-> {}]]
    /\ UNCHANGED <<channel, quiet, due, deliveries, made, news, missed>>

Sendings(w) == IF w.digest THEN {w.todo} ELSE {{d} : d \in w.todo}

(* The columns that an attempt changes: a failed one keeps the status until*)
(* the attempts are used up.                                               *)
Attempted(d, ok) ==
    [id |-> d.id, attempts |-> d.attempts + 1,
     status |-> IF ok THEN {"sent"} ELSE IF d.attempts + 1 >= MaxSends THEN {"failed"} ELSE {}]

(* A batch goes out, or fails after some of its events, or all, have       *)
(* arrived: a webhook is called once for each of them.                     *)
send(s, batch, ok) ==
    /\ \E arrived \in SUBSET batch :
         /\ ok => arrived = batch
         /\ dispatchers' = [dispatchers EXCEPT
               ![s].todo = @ \ batch,
               ![s].arrived = @ \cup {d.id : d \in arrived},
               ![s].done = @ \cup {Attempted(d, ok) : d \in batch}]
         /\ news' = news \ {d.event : d \in arrived}
    /\ UNCHANGED <<channel, quiet, due, deliveries, made, missed>>

Updated(d, done) ==
    LET mine == {c \in done : c.id = d.id}
    IN IF mine = {} THEN d
       ELSE LET c == CHOOSE c \in mine : TRUE
            IN [d EXCEPT !.attempts = c.attempts,
                         !.status = IF c.status = {} THEN @ ELSE CHOOSE x \in c.status : TRUE]

(* Rows that were deleted together with their channel fail the whole       *)
(* dispatch.  The time of the digest is set whether or not it was sent.    *)
Commit(s) ==
    /\ dispatchers[s] # None /\ dispatchers[s].todo = {}
    /\ dispatchers' = [dispatchers EXCEPT ![s] = None]
    /\ LET w == dispatchers[s]
       IN IF {c.id : c \in w.done} \subseteq {d.id : d \in deliveries}
          THEN /\ deliveries' = {Updated(d, w.done) : d \in deliveries}
               /\ due' = (due /\ ~w.digest)
          ELSE UNCHANGED <<deliveries, due>>
    /\ UNCHANGED <<channel, quiet, made, news, missed>>

(* The worker dies, or the task has lost its lease.                        *)
Abort(s) ==
    /\ dispatchers[s] # None /\ dispatchers' = [dispatchers EXCEPT ![s] = None]
    /\ UNCHANGED <<channel, quiet, due, deliveries, made, news, missed>>

----------------------------------------------------------------------------
(* Administrators, and time.                                               *)

update_channel(enabled, digest) ==
    /\ channel # None /\ channel' = [enabled |-> enabled, digest |-> digest]
    /\ UNCHANGED <<quiet, due, deliveries, made, dispatchers, news, missed>>

(* The deliveries go with the channel (ON DELETE CASCADE).                 *)
delete_channel ==
    /\ channel # None /\ channel' = None
    /\ deliveries' = {} /\ news' = {} /\ missed' = {}
    /\ UNCHANGED <<quiet, due, made, dispatchers>>

QuietHours ==
    /\ quiet' = ~quiet
    /\ UNCHANGED <<channel, due, deliveries, made, dispatchers, news, missed>>

digest_due ==
    /\ ~due /\ due' = TRUE
    /\ UNCHANGED <<channel, quiet, deliveries, made, dispatchers, news, missed>>

Next ==
    \/ \E e \in Events : emit_event(e)
    \/ \E s \in Dispatchers :
          \/ dispatch_pending(s) \/ Commit(s) \/ Abort(s)
          \/ dispatchers[s] # None /\ dispatchers[s].todo # {} /\
             \E batch \in Sendings(dispatchers[s]), ok \in BOOLEAN : send(s, batch, ok)
    \/ \E enabled, digest \in BOOLEAN : update_channel(enabled, digest)
    \/ delete_channel \/ QuietHours \/ digest_due

Spec == Init /\ [][Next]_vars

----------------------------------------------------------------------------
(* What has happened and not been told since is on its way or is recorded  *)
(* as failed: neither deduplication, quiet hours, digests, failed batches, *)
(* crashes nor two dispatchers at work lose an event.  The exception is an *)
(* event that was skipped for a delivery already sent and not yet recorded.*)
NewsIsQueued ==
    \A e \in news \ missed :
        \E d \in deliveries : d.event = e /\ d.status \in Unsent \cup {"failed"}
=============================================================================
