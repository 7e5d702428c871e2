----------------------------- MODULE MCIdentity -----------------------------
(***************************************************************************)
(* Who may act, for TLC: the sessions of a user, an identity provider, the *)
(* provisioning client, API tokens and the Scouts that enroll.  No two of  *)
(* them share state, so a behaviour follows one of them.                   *)
(***************************************************************************)
EXTENDS UserSessions

CONSTANTS
    States, Callbacks, MaxConfigs,
    Members, ScimGroups, ScimTokens, Clients, MaxScim,
    Principals, Services, ApiTokenIds, Handlers, MaxHandlers,
    EnrollTokens, Identities, Hosts, MaxEvents

VARIABLES idp, policy, protocol, callback, request, account, proved, crossed
VARIABLES group, member, access, scimToken, call, calls, beside
VARIABLES version, suspended, granted, role, token, handler, handled, authority, raced
VARIABLES local, enrollToken, status, source, approving, disk, cmd, events, cut
VARIABLE follows    \* the part that is followed

O == INSTANCE SingleSignOn WITH MaxChanges <- MaxConfigs
P == INSTANCE ScimProvisioning WITH token <- scimToken, raced <- beside
T == INSTANCE ApiTokens
E == INSTANCE Enrollment WITH Tokens <- EnrollTokens, token <- enrollToken

ssoVars == <<idp, policy, protocol, callback, request, account, proved, crossed>>
scimVars == <<group, member, access, scimToken, call, calls, beside>>
tokenVars == <<version, suspended, granted, role, token, handler, handled, authority, raced>>
enrollVars == <<local, enrollToken, status, source, approving, disk, cmd, events, cut>>

MCInit ==
    /\ Init /\ O!Init /\ P!Init /\ T!Init /\ E!Init
    /\ follows \in {"sessions", "sso", "scim", "tokens", "scouts"}
    /\ follows = "scouts" \/ ~local

MCNext ==
    \/ follows = "sessions" /\ Next /\ UNCHANGED <<ssoVars, scimVars, tokenVars, enrollVars, follows>>
    \/ follows = "sso" /\ O!Next /\ UNCHANGED <<vars, scimVars, tokenVars, enrollVars, follows>>
    \/ follows = "scim" /\ P!Next /\ UNCHANGED <<vars, ssoVars, tokenVars, enrollVars, follows>>
    \/ follows = "tokens" /\ T!Next /\ UNCHANGED <<vars, ssoVars, scimVars, enrollVars, follows>>
    \/ follows = "scouts" /\ E!Next /\ UNCHANGED <<vars, ssoVars, scimVars, tokenVars, follows>>

MCSpec == MCInit /\ [][MCNext]_<<vars, ssoVars, scimVars, tokenVars, enrollVars, follows>>

SignOnIsCurrent == O!SignOnIsCurrent
AccessFollowsGroups == P!AccessFollowsGroups
OneIdentity == E!OneIdentity
TokensFollowAuthority == T!TokensFollowAuthority
=============================================================================
