----------------------------- MODULE RelayRows ----------------------------
(***************************************************************************)
(* VulnaRelay: the relay rows and their endpoints                          *)
(* (dash/backend/app/api/v1/relays.py, api/relay_auth.py,                  *)
(* services/relay.py) and the certificate of the agent on the remote site  *)
(* (scout/internal/relayagent).  The central egress routes to the relays   *)
(* that are enrolled, each its approved ranges, as it reads them every two *)
(* seconds (deploy/relay-egress/controller.sh).                            *)
(*                                                                         *)
(* A request reads its rows and later writes the columns that it has       *)
(* changed; only register locks the row.  A request that changes nothing   *)
(* is left out.  Certificates are numbered as they are issued.  Denied     *)
(* ranges and heartbeats only narrow what is routed; they are left out, as *)
(* are sites and the network scopes made from the approved ranges.         *)
(***************************************************************************)
EXTENDS FiniteSets, Naturals

CONSTANTS
    Relays,
    Ranges,         \* address ranges, disjoint
    Sessions,       \* requests in progress
    MaxCerts,       \* bound on the certificates issued
    MaxChanges,     \* bound on the administrators' requests
    None

VARIABLES
    on,         \* relay mode of the organization
    row,        \* the Relay rows
    sess,       \* the requests in progress
    issued,     \* certificates issued
    changes,    \* administrators' requests made
    agent,      \* the remote agents: the certificate, the answer waited for
    raced,      \* two scope changes have overlapped
    crossed,    \* relays of which two renewals have overlapped
    revived     \* relays that came back after they were revoked

history == <<raced, crossed, revived>>
vars == <<on, row, sess, issued, changes, agent, history>>

Statuses == {"absent", "pending", "enrolled", "killed", "revoked", "deleted"}

Gone == {"absent", "deleted"}

Absent == [status |-> "absent", token |-> FALSE, fp |-> 0, prev |-> 0, approved |-> {}]

Idle == [op |-> "none", relay |-> None, set |-> <<>>]

TypeOK ==
    /\ on \in BOOLEAN /\ raced \in BOOLEAN
    /\ row \in [Relays -> [status : Statuses, token : BOOLEAN, fp : 0 .. MaxCerts,
                           prev : 0 .. MaxCerts, approved : SUBSET Ranges]]
    /\ issued \in 0 .. MaxCerts /\ changes \in 0 .. MaxChanges
    /\ agent \in [Relays -> [cert : 0 .. MaxCerts, waits : Sessions \cup {None}]]
    /\ crossed \subseteq Relays /\ revived \subseteq Relays

Init ==
    /\ on \in BOOLEAN
    /\ row = [r \in Relays |-> Absent]
    /\ sess = [s \in Sessions |-> Idle]
    /\ issued = 0 /\ changes = 0
    /\ agent = [r \in Relays |-> [cert |-> 0, waits |-> None]]
    /\ raced = FALSE /\ crossed = {} /\ revived = {}

----------------------------------------------------------------------------
(* Requests: new is the row that a request makes of the one it has read.   *)

begin(s, op, r, new) ==
    LET changed == {f \in DOMAIN new : new[f] # row[r][f]}
    IN  /\ sess[s] = Idle /\ row[r].status \notin Gone /\ changed # {}
        /\ sess' = [sess EXCEPT ![s] =
              [op |-> op, relay |-> r, set |-> [f \in changed |-> new[f]]]]

Overlaid(x, set) == [f \in DOMAIN x |-> IF f \in DOMAIN set THEN set[f] ELSE x[f]]

(* The row may be gone: the UPDATE then fails and nothing is written.      *)
commit(s, op) ==
    LET r   == sess[s].relay
        new == Overlaid(row[r], sess[s].set)
    IN  /\ sess[s].op = op /\ sess' = [sess EXCEPT ![s] = Idle]
        /\ IF row[r].status \in Gone THEN UNCHANGED <<row, revived>>
           ELSE /\ row' = [row EXCEPT ![r] = new]
                /\ revived' = IF row[r].status = "revoked" /\ new.status # "revoked"
                              THEN revived \cup {r} ELSE revived

admin(s, op, r, new) ==
    /\ changes < MaxChanges /\ changes' = changes + 1
    /\ begin(s, op, r, new)
    /\ UNCHANGED <<on, row, issued, agent, crossed, revived>>

written(s, op) ==
    commit(s, op) /\ UNCHANGED <<on, issued, changes, agent, raced, crossed>>

update_relay_settings(enabled) ==
    /\ changes < MaxChanges /\ changes' = changes + 1 /\ on' = enabled
    /\ UNCHANGED <<row, sess, issued, agent, history>>

enrollment_command(r) ==
    /\ on /\ row[r].status = "absent"
    /\ row' = [row EXCEPT ![r].status = "pending", ![r].token = TRUE]
    /\ UNCHANGED <<on, sess, issued, changes, agent, history>>

(* The row is locked.  An expired token is used up; the answer may be lost *)
(* with the certificate.                                                   *)
register_relay(r) ==
    /\ row[r].status = "pending" /\ row[r].token
    /\ \/ /\ on /\ issued < MaxCerts /\ issued' = issued + 1
          /\ row' = [row EXCEPT ![r].status = "enrolled", ![r].fp = issued + 1,
                                ![r].token = FALSE]
          /\ agent' = [agent EXCEPT ![r].cert = issued + 1] \/ UNCHANGED agent
       \/ row' = [row EXCEPT ![r].token = FALSE] /\ UNCHANGED <<issued, agent>>
    /\ UNCHANGED <<on, sess, changes, history>>

kill_begin(s, r) == admin(s, "kill", r, [row[r] EXCEPT !.status = "killed"]) /\ UNCHANGED raced

resume_begin(s, r) ==
    /\ row[r].status = "killed"
    /\ admin(s, "resume", r, [row[r] EXCEPT !.status = "enrolled"]) /\ UNCHANGED raced

revoked(x) == [x EXCEPT !.status = "revoked", !.approved = {}]

revoke_begin(s, r) == admin(s, "revoke", r, revoked(row[r])) /\ UNCHANGED raced

delete_begin(s, r) ==
    /\ row[r].status \in {"pending", "revoked"}
    /\ admin(s, "delete", r, [Absent EXCEPT !.status = "deleted"]) /\ UNCHANGED raced

(* Mutant of Overlap: only relays that are enrolled are looked at.         *)
Overlap_Enrolled(r, approved) ==
    \E q \in Relays \ {r} : row[q].status = "enrolled" /\ row[q].approved \cap approved # {}

Overlap(r, approved) ==
    \E q \in Relays \ {r} :
        row[q].status \notin Gone \cup {"revoked"} /\ row[q].approved \cap approved # {}

set_scope_begin(s, r, approved) ==
    /\ on /\ ~Overlap(r, approved)
    /\ admin(s, "scope", r, [row[r] EXCEPT !.approved = approved])
    /\ raced' = (raced \/ \E t \in Sessions : sess[t].op = "scope")

kill(s) == written(s, "kill")
resume(s) == written(s, "resume")
revoke(s) == written(s, "revoke")
delete_relay(s) == written(s, "delete")
set_scope(s) == written(s, "scope")

----------------------------------------------------------------------------
(* The agent.                                                              *)

(* get_current_relay, on the current certificate or the one before it.     *)
Accepts(r, cert) ==
    /\ cert # 0 /\ cert \in {row[r].fp, row[r].prev}
    /\ row[r].status \notin Gone \cup {"revoked"}

(* One that renews with the previous certificate keeps it.                 *)
Previous(r) == IF agent[r].cert = row[r].fp THEN row[r].fp ELSE row[r].prev

renew_begin(s, r) ==
    /\ Accepts(r, agent[r].cert) /\ on /\ row[r].status = "enrolled"
    /\ agent[r].waits = None
    /\ issued < MaxCerts /\ issued' = issued + 1
    /\ begin(s, "renew", r, [row[r] EXCEPT !.fp = issued + 1, !.prev = Previous(r)])
    /\ agent' = [agent EXCEPT ![r].waits = s]
    /\ crossed' = IF \E t \in Sessions : sess[t].op = "renew" /\ sess[t].relay = r
                  THEN crossed \cup {r} ELSE crossed
    /\ UNCHANGED <<on, row, changes, raced, revived>>

renew_relay_certificate(s) ==
    LET r == sess[s].relay IN
    /\ commit(s, "renew")
    /\ agent' = IF agent[r].waits # s THEN agent
                ELSE [agent EXCEPT ![r].waits = None, ![r].cert =
                         IF row[r].status \in Gone THEN @ ELSE sess[s].set.fp]
    /\ UNCHANGED <<on, issued, changes, raced, crossed>>

(* The answer is lost, or the agent stops.                                 *)
agent_gives_up(r) ==
    /\ agent[r].waits # None
    /\ agent' = [agent EXCEPT ![r].waits = None]
    /\ UNCHANGED <<on, row, sess, issued, changes, history>>

(* previous_certificate_valid_until: a day later, and a renewal is tried   *)
(* every hour; some answer gets through meanwhile.                         *)
grace_ends(r) ==
    /\ row[r].prev # 0 /\ agent[r].cert # row[r].prev
    /\ row' = [row EXCEPT ![r].prev = 0]
    /\ UNCHANGED <<on, sess, issued, changes, agent, history>>

----------------------------------------------------------------------------
Next ==
    \/ \E b \in BOOLEAN : update_relay_settings(b)
    \/ \E r \in Relays :
          \/ enrollment_command(r) \/ register_relay(r)
          \/ agent_gives_up(r) \/ grace_ends(r)
    \/ \E s \in Sessions, r \in Relays :
          \/ kill_begin(s, r) \/ resume_begin(s, r) \/ revoke_begin(s, r) \/ delete_begin(s, r)
          \/ \E a \in SUBSET Ranges : set_scope_begin(s, r, a)
          \/ renew_begin(s, r)
    \/ \E s \in Sessions :
          \/ kill(s) \/ resume(s) \/ revoke(s) \/ delete_relay(s) \/ set_scope(s)
          \/ renew_relay_certificate(s)

Spec == Init /\ [][Next]_vars

----------------------------------------------------------------------------
(* "The shared data plane cannot route an overlapping range to two peers": *)
(* enrolled relays have no range in common, whatever was killed, revoked,  *)
(* deleted or enrolled again; unless two scope changes overlapped or a     *)
(* revoked relay came back.                                                *)
RangesDisjoint ==
    ~raced => \A r, q \in Relays \ revived :
        r # q /\ row[r].status = "enrolled" /\ row[q].status = "enrolled" =>
            row[r].approved \cap row[q].approved = {}

=============================================================================
