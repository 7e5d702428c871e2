----------------------------- MODULE Enrollment -----------------------------
(***************************************************************************)
(* Enrollment of Scouts and the lifecycle of their identities              *)
(* (dash/backend/app/api/v1/probes.py, api/probe_auth.py, services/        *)
(* bootstrap.py; scout/internal/enrollment, storage and cli).              *)
(*                                                                         *)
(* An identity stands for the row of a probe, its certificate and the keys *)
(* it was signed for.  The request that consumes a token holds the lock on *)
(* the token's row from its read to its commit; the answer may be lost.    *)
(* The host then writes its files one by one, and reset removes them one   *)
(* by one, so that a crash leaves any prefix of either.                    *)
(***************************************************************************)
EXTENDS Naturals

CONSTANTS
    Tokens,         \* enrollment tokens
    Identities,     \* probes that may come to be
    Hosts,          \* machines on which a Scout is installed
    MaxEvents,      \* bound on what failures, administrators and time do
    None

VARIABLES
    local,      \* bootstrap_local_scout: a Scout beside the server
    token,      \* enrollment_tokens
    status,     \* probes
    source,     \* the token each probe was enrolled with
    approving,  \* the probe an approval has read
    disk,       \* the files of each host, by the identity they are of
    cmd,        \* the command each host runs
    events,
    cut         \* hosts on which a reset was cut short

enrollVars == <<local, token, status, source, approving, disk, cmd, events, cut>>

Files == {"key", "cert", "cred", "state"}

NoFiles == [f \in Files |-> None]

NoCommand == [op |-> "none", token |-> None, id |-> None]

(* What a command does next, in order; the CA's certificate and the policy *)
(* belong to the server and are left out.                                  *)
Then == [asked |-> "locked", locked |-> "answered", answered |-> "key", key |-> "cert",
         cert |-> "cred", cred |-> "state", state |-> "none"]

ResetThen == [revoke |-> "rm_key", rm_key |-> "rm_cert", rm_cert |-> "rm_state",
              rm_state |-> "rm_cred", rm_cred |-> "none"]

Removes == [rm_key |-> "key", rm_cert |-> "cert", rm_state |-> "state", rm_cred |-> "cred"]

TypeOK ==
    /\ local \in BOOLEAN
    /\ token \in [Tokens -> [st : {"none", "valid", "expired", "used"}, auto : BOOLEAN]]
    /\ status \in [Identities -> {"none", "pending_enrollment", "enrolled", "disabled", "revoked"}]
    /\ source \in [Identities -> Tokens \cup {None}]
    /\ approving \in Identities \cup {None}
    /\ disk \in [Hosts -> [Files -> Identities \cup {None}]]
    /\ cmd \in [Hosts -> [op : {"none"} \cup DOMAIN Then \cup DOMAIN ResetThen,
                          token : Tokens \cup {None}, id : Identities \cup {None}]]
    /\ events \in 0 .. MaxEvents /\ cut \subseteq Hosts

Init ==
    /\ local \in BOOLEAN
    /\ token = [t \in Tokens |-> [st |-> "none", auto |-> FALSE]]
    /\ status = [p \in Identities |-> "none"]
    /\ source = [p \in Identities |-> None]
    /\ approving = None
    /\ disk = [h \in Hosts |-> NoFiles]
    /\ cmd = [h \in Hosts |-> NoCommand]
    /\ events = 0 /\ cut = {}

event == events < MaxEvents /\ events' = events + 1

IsEnrolled(h) == \A f \in {"key", "cert", "state"} : disk[h][f] # None

----------------------------------------------------------------------------
(* Tokens.                                                                 *)

create_enrollment_token(t) ==
    /\ token[t].st = "none"
    /\ token' = [token EXCEPT ![t].st = "valid"]
    /\ UNCHANGED <<local, status, source, approving, disk, cmd, events, cut>>

(* At a start of the server: never again once a local Scout is on record,  *)
(* in whatever state, nor while its token is good.                         *)
ensure_local_scout_enrollment(t) ==
    /\ local /\ token[t].st = "none"
    /\ \A p \in Identities : source[p] # None => ~token[source[p]].auto
    /\ \A u \in Tokens : token[u].auto => token[u].st # "valid"
    /\ token' = [token EXCEPT ![t] = [st |-> "valid", auto |-> TRUE]]
    /\ UNCHANGED <<local, status, source, approving, disk, cmd, events, cut>>

expires(t) ==
    /\ event
    /\ token[t].st = "valid" /\ token' = [token EXCEPT ![t].st = "expired"]
    /\ UNCHANGED <<local, status, source, approving, disk, cmd, cut>>

----------------------------------------------------------------------------
(* vulnascout enroll.                                                      *)

runEnroll(h, t) ==
    /\ cmd[h].op = "none" /\ ~IsEnrolled(h) /\ token[t].st # "none"
    /\ cmd' = [cmd EXCEPT ![h] = [op |-> "asked", token |-> t, id |-> None]]
    /\ UNCHANGED <<local, token, status, source, approving, disk, events, cut>>

(* Mutant of FreeToLock: the row is read without a lock.                   *)
FreeToLock_Unlocked(t) == TRUE

(* FOR UPDATE.                                                             *)
FreeToLock(t) == \A h \in Hosts : ~(cmd[h].op = "locked" /\ cmd[h].token = t)

(* A token that is used or expired is refused.                             *)
enroll_begin(h) ==
    LET t == cmd[h].token IN
    /\ cmd[h].op = "asked" /\ FreeToLock(t)
    /\ cmd' = [cmd EXCEPT ![h] = IF token[t].st = "valid" THEN [@ EXCEPT !.op = "locked"] ELSE NoCommand]
    /\ UNCHANGED <<local, token, status, source, approving, disk, events, cut>>

(* The token may run out meanwhile; used it cannot be.                     *)
enroll_probe(h) ==
    \E p \in Identities :
        /\ cmd[h].op = "locked" /\ status[p] = "none"
        /\ status' = [status EXCEPT ![p] = IF token[cmd[h].token].auto THEN "enrolled" ELSE "pending_enrollment"]
        /\ source' = [source EXCEPT ![p] = cmd[h].token]
        /\ token' = [token EXCEPT ![cmd[h].token].st = "used"]
        /\ cmd' = [cmd EXCEPT ![h].op = "answered", ![h].id = p]
        /\ UNCHANGED <<local, approving, disk, events, cut>>

(* Lost on the way, timed out, or rolled back by an error of the server.   *)
enroll_fails(h) ==
    /\ event
    /\ cmd[h].op \in {"asked", "locked", "answered"}
    /\ cmd' = [cmd EXCEPT ![h] = NoCommand]
    /\ UNCHANGED <<local, token, status, source, approving, disk, cut>>

(* The key was made before the request, and is written after the answer.   *)
Enroll(h) ==
    LET next == Then[cmd[h].op] IN
    /\ cmd[h].op \in {"answered", "key", "cert", "cred"}
    /\ disk' = [disk EXCEPT ![h][next] = cmd[h].id]
    /\ cmd' = [cmd EXCEPT ![h] = IF next = "state" THEN NoCommand ELSE [@ EXCEPT !.op = next]]
    /\ UNCHANGED <<local, token, status, source, approving, events, cut>>

(* A file that cannot be written ends the command as a crash does.         *)
crash(h) ==
    /\ event
    /\ cmd[h].op \notin {"none", "asked", "locked"}
    /\ cut' = IF cmd[h].op \in {"rm_cert", "rm_state"} THEN cut \cup {h} ELSE cut
    /\ cmd' = [cmd EXCEPT ![h] = NoCommand]
    /\ UNCHANGED <<local, token, status, source, approving, disk>>

----------------------------------------------------------------------------
(* vulnascout reset.                                                       *)

runReset(h) ==
    /\ cmd[h].op = "none" /\ IsEnrolled(h)
    /\ cmd' = [cmd EXCEPT ![h] = [op |-> "revoke", token |-> None, id |-> disk[h]["cert"]]]
    /\ UNCHANGED <<local, token, status, source, approving, disk, events, cut>>

(* get_current_probe: a certificate of no probe is refused as well.        *)
Served(p) == p # None /\ status[p] \notin {"none", "revoked", "disabled"}

(* Best effort: a key that is not the certificate's, a refusal or no       *)
(* connection is only warned of.                                           *)
self_revoke(h) ==
    LET p == cmd[h].id IN
    /\ cmd[h].op = "revoke"
    /\ cmd' = [cmd EXCEPT ![h].op = "rm_key"]
    /\ \/ /\ disk[h]["key"] = p /\ Served(p)
          /\ status' = [status EXCEPT ![p] = "revoked"] /\ UNCHANGED events
       \/ /\ disk[h]["key"] = p => ~Served(p)
          /\ UNCHANGED <<status, events>>
       \/ event /\ UNCHANGED status
    /\ UNCHANGED <<local, token, source, approving, disk, cut>>

Reset(h) ==
    LET op == cmd[h].op IN
    /\ op \in DOMAIN Removes
    /\ disk' = [disk EXCEPT ![h][Removes[op]] = None]
    /\ cmd' = [cmd EXCEPT ![h] = IF op = "rm_cred" THEN NoCommand ELSE [@ EXCEPT !.op = ResetThen[op]]]
    /\ cut' = IF op = "rm_cred" THEN cut \ {h} ELSE cut
    /\ UNCHANGED <<local, token, status, source, approving, events>>

----------------------------------------------------------------------------
(* Administrators: approval reads the row, then writes.                    *)

approve_begin(p) ==
    /\ event
    /\ approving = None /\ status[p] \in {"pending_enrollment", "disabled"}
    /\ approving' = p
    /\ UNCHANGED <<local, token, status, source, disk, cmd, cut>>

approve_probe ==
    /\ approving # None /\ approving' = None
    /\ status' = [status EXCEPT ![approving] = "enrolled"]
    /\ UNCHANGED <<local, token, source, disk, cmd, events, cut>>

(* From any state.                                                         *)
revoke_probe(p) ==
    /\ event
    /\ status[p] # "none" /\ status' = [status EXCEPT ![p] = "revoked"]
    /\ UNCHANGED <<local, token, source, approving, disk, cmd, cut>>

disable_probe(p) ==
    /\ event
    /\ status[p] # "none" /\ status' = [status EXCEPT ![p] = "disabled"]
    /\ UNCHANGED <<local, token, source, approving, disk, cmd, cut>>

----------------------------------------------------------------------------
Next ==
    \/ \E t \in Tokens :
          \/ create_enrollment_token(t) \/ ensure_local_scout_enrollment(t) \/ expires(t)
          \/ \E h \in Hosts : runEnroll(h, t)
    \/ \E h \in Hosts :
          \/ enroll_begin(h) \/ enroll_probe(h) \/ enroll_fails(h) \/ Enroll(h) \/ crash(h)
          \/ runReset(h) \/ self_revoke(h) \/ Reset(h)
    \/ \E p \in Identities : approve_begin(p) \/ revoke_probe(p) \/ disable_probe(p)
    \/ approve_probe

Spec == Init /\ [][Next]_enrollVars

----------------------------------------------------------------------------
(* A token makes one identity, however many present it ("rejected instead  *)
(* of issuing a second Scout identity"), and a host that says that it is   *)
(* enrolled has key, certificate, credential key and state of one identity *)
(* whatever was lost on the way: unless a reset was cut short, of which    *)
(* the next enrollment may meet remains.                                   *)
OneIdentity ==
    /\ \A p, q \in Identities : source[p] # None /\ source[p] = source[q] => p = q
    /\ \A h \in Hosts \ cut : IsEnrolled(h) => \A f \in Files : disk[h][f] = disk[h]["state"]
=============================================================================
