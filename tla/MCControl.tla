----------------------------- MODULE MCControl ------------------------------
(***************************************************************************)
(* What administrators control, for TLC: a workflow run whose handlers     *)
(* overlap, the credential vault, the accounts that administer, the relays *)
(* and the version of the host.  No two of them share state here, so a     *)
(* behaviour follows one of them.                                          *)
(***************************************************************************)
EXTENDS Workflow, TLC

CONSTANTS
    Creds, Levels, Jobs, Requests, Deactivations, MaxChanges, None,
    Local, Scim, Jit, MaxRequests,
    Relays, Ranges, RelayRequests, MaxCerts, MaxRelayChanges,
    Releases, Migrating, MaxWrites, MaxArchives

VARIABLES cred, assigned, job, tx, deact, changes
VARIABLES user, enforced, maps, under, requests
VARIABLES on, row, pending, issued, asked, agent, raced, crossed, revived
VARIABLES pinned, app, schema, db, vol, archives, taken, state, cmd, outcome, astray, replaced
VARIABLE follows    \* the part that is followed

C == INSTANCE CredentialDelivery
A == INSTANCE Accounts WITH tx <- under
R == INSTANCE RelayRows WITH Sessions <- RelayRequests, sess <- pending, changes <- asked,
                             MaxChanges <- MaxRelayChanges
H == INSTANCE HostUpdate

credentialVars == <<cred, assigned, job, tx, deact, changes>>
accountVars == <<user, enforced, maps, under, requests>>
relayVars == <<on, row, pending, issued, asked, agent, raced, crossed, revived>>
hostVars == <<pinned, app, schema, db, vol, archives, taken, state, cmd, outcome, astray, replaced>>

(* What is not followed starts in one state; the host is followed until a  *)
(* command goes astray or has restored another backup.                     *)
MCInit ==
    /\ Init /\ C!Init /\ A!Init /\ R!Init /\ H!Init
    /\ follows \in {"workflow", "credentials", "accounts", "relays", "host"}
    /\ follows = "workflow" \/ opts = [o \in DOMAIN opts |-> FALSE]
    /\ follows = "credentials" \/ assigned = {}
    /\ follows = "accounts" \/ user[CHOOSE u \in Local : TRUE].role = "admin"
    /\ follows = "relays" \/ ~on

MCNext ==
    \/ /\ follows = "workflow" /\ Next
       /\ UNCHANGED <<credentialVars, accountVars, relayVars, hostVars, follows>>
    \/ /\ follows = "credentials" /\ C!Next
       /\ UNCHANGED <<vars, accountVars, relayVars, hostVars, follows>>
    \/ /\ follows = "accounts" /\ A!Next
       /\ UNCHANGED <<vars, credentialVars, relayVars, hostVars, follows>>
    \/ /\ follows = "relays" /\ R!Next
       /\ UNCHANGED <<vars, credentialVars, accountVars, hostVars, follows>>
    \/ /\ follows = "host" /\ ~(astray \/ replaced) /\ H!Next
       /\ UNCHANGED <<vars, credentialVars, accountVars, relayVars, follows>>

MCSpec == MCInit /\ [][MCNext]_<<vars, credentialVars, accountVars, relayVars, hostVars, follows>>

Symmetry == Permutations(Sessions)

DeactivatedIsNotOffered == C!DeactivatedIsNotOffered
AdministratorStays == A!AdministratorStays
RangesDisjoint == R!RangesDisjoint
OutcomeIsTrue == H!OutcomeIsTrue
=============================================================================
