---------------------------- MODULE UserSessions ----------------------------
(***************************************************************************)
(* The sessions of one user (services/sessions.py, api/v1/auth.py,         *)
(* api/v1/mfa.py): logins, rotating refresh tokens, second factors and the *)
(* changes of an account that end what was opened before them.             *)
(*                                                                         *)
(* A login, a refresh or a change reads rows and commits later; others run *)
(* between.  The refresh token that is presented is locked, and a handler  *)
(* that revokes a session waits for that lock, takes it and commits, which *)
(* is one step.  auth_version is written as the value read plus one.       *)
(* Expiry, which ends a session as a revocation does, passwords and        *)
(* throttling are left out.  Which active sessions are the oldest depends  *)
(* on their use: any may be.                                               *)
(***************************************************************************)
EXTENDS FiniteSets, FiniteSetsExt, Naturals, TLC

CONSTANTS
    Sessions,               \* rows that logins may insert
    Changes,                \* changes of the account that may be under way
    Refreshers,             \* refreshes that may be under way
    MaxConcurrentSessions,  \* the organisation's session policy
    MaxLogins,              \* bound on the logins under way
    MaxTokens,              \* bound on the tokens of one session
    MaxChanges,             \* bound on the changes of the credentials
    None

ASSUME SessionsConstants ==
    /\ MaxConcurrentSessions \in Nat \ {0} /\ MaxLogins \in Nat \ {0}
    /\ MaxTokens \in Nat \ {0} /\ MaxChanges \in Nat /\ None \notin Sessions

VARIABLES
    user,       \* the row of the account
    sess,       \* the sessions
    change,     \* what each change under way has read, or None
    refresh,    \* what each refresh under way has read, or None
    changes,    \* credential changes committed so far
    clash       \* two of them have overlapped

vars == <<user, sess, change, refresh, changes, clash>>

Symmetry ==
    Permutations(Sessions) \cup Permutations(Changes) \cup Permutations(Refreshers)

(* read and covered are not columns: the changes when the login read the   *)
(* account, and whether no change of the factor overlapped the login.      *)
Row == [state : {"unused", "opening", "open", "revoked"}, auth_version : Nat,
        mfa_pending : BOOLEAN, mfa_authenticated : BOOLEAN,
        issued : 0 .. MaxTokens, live : SUBSET (1 .. MaxTokens),
        overflow : SUBSET Sessions, read : 0 .. MaxChanges, covered : BOOLEAN]

TypeOK ==
    /\ user \in [active : BOOLEAN, auth_version : Nat, factor : BOOLEAN]
    /\ sess \in [Sessions -> Row]
    /\ changes \in 0 .. MaxChanges /\ clash \in BOOLEAN

Unused == [state |-> "unused", auth_version |-> 0,
           mfa_pending |-> FALSE, mfa_authenticated |-> FALSE, issued |-> 0, live |-> {},
           overflow |-> {}, read |-> 0, covered |-> TRUE]

Init ==
    /\ user = [active |-> TRUE, auth_version |-> 1, factor |-> FALSE]
    /\ sess = [s \in Sessions |-> Unused]
    /\ change = [c \in Changes |-> None] /\ refresh = [r \in Refreshers |-> None]
    /\ changes = 0 /\ clash = FALSE

----------------------------------------------------------------------------
is_session_active(s) == sess[s].state = "open"

ActiveSessions == {s \in Sessions : is_session_active(s)}

Valid(s) == is_session_active(s) /\ user.active

(* An access token of the session is accepted; a pending session only by   *)
(* the handlers of the second factor.                                      *)
Authenticates(s) == Valid(s) /\ sess[s].auth_version = user.auth_version

Full(s) == Authenticates(s) /\ ~sess[s].mfa_pending

(* The sessions that are not locked by a refresh under way.                *)
Unlocked(S) == \A r \in Refreshers : refresh[r] # None => refresh[r].session \notin S

(* No column of a revoked session matters again: its tokens are refused.   *)
revoke_session(S) ==
    [s \in Sessions |-> IF s \in S THEN [Unused EXCEPT !.state = "revoked"] ELSE sess[s]]

----------------------------------------------------------------------------
(* As many as leave room for the session that is created.                  *)
Overflow(n) == IF n >= MaxConcurrentSessions THEN n - MaxConcurrentSessions + 1 ELSE 0

login(s) ==
    /\ sess[s].state = "unused" /\ user.active
    /\ Cardinality({t \in Sessions : sess[t].state = "opening"}) < MaxLogins
    /\ \E old \in kSubset(Overflow(Cardinality(ActiveSessions)), ActiveSessions) :
          sess' = [sess EXCEPT ![s].state = "opening", ![s].auth_version = user.auth_version,
                     ![s].mfa_pending = user.factor, ![s].overflow = old, ![s].read = changes,
                     ![s].covered = \A c \in Changes : change[c] = None \/ change[c].by = None]
    /\ UNCHANGED <<user, change, refresh, changes, clash>>

create_session(s) ==
    /\ sess[s].state = "opening" /\ Unlocked(sess[s].overflow)
    /\ sess' = [revoke_session(sess[s].overflow) EXCEPT
                  ![s].state = "open", ![s].overflow = {}, ![s].issued = 1, ![s].live = {1}]
    /\ UNCHANGED <<user, change, refresh, changes, clash>>

----------------------------------------------------------------------------
(* Mutant of TokenLocked: the token is read without the lock.              *)
TokenLocked_Never(s, k) == FALSE

TokenLocked(s, k) ==
    \E r \in Refreshers : refresh[r] # None /\ refresh[r].session = s /\ refresh[r].token = k

(* Any token that was issued may come back: the answer that replaced it    *)
(* was lost, or another window sends it.  What is refused ends the session.*)
refresh_session(r, s, k) ==
    /\ refresh[r] = None /\ k \in 1 .. sess[s].issued /\ ~TokenLocked(s, k)
    /\ IF k \in sess[s].live /\ Full(s)
       THEN /\ sess[s].issued < MaxTokens
            /\ refresh' = [refresh EXCEPT ![r] = [session |-> s, token |-> k]]
            /\ UNCHANGED sess
       ELSE /\ Unlocked({s}) /\ sess' = revoke_session({s}) /\ UNCHANGED refresh
    /\ UNCHANGED <<user, change, changes, clash>>

refresh_commit(r) ==
    /\ refresh[r] # None
    /\ LET s == refresh[r].session IN
       /\ sess[s].issued < MaxTokens
       /\ sess' = [sess EXCEPT ![s].issued = @ + 1,
                     ![s].live = (@ \ {refresh[r].token}) \cup {sess[s].issued + 1}]
    /\ refresh' = [refresh EXCEPT ![r] = None]
    /\ UNCHANGED <<user, change, changes, clash>>

(* Logout, a revocation by the user or by an administrator.                *)
revoke_my_session(s) ==
    /\ is_session_active(s) /\ Unlocked({s})
    /\ sess' = revoke_session({s})
    /\ UNCHANGED <<user, change, refresh, changes, clash>>

logout_all_sessions(s) ==
    /\ Full(s) /\ Unlocked(ActiveSessions)
    /\ sess' = revoke_session(ActiveSessions)
    /\ UNCHANGED <<user, change, refresh, changes, clash>>

verify_totp_login(s) ==
    /\ Authenticates(s) /\ user.factor
    /\ sess' = [sess EXCEPT ![s].mfa_pending = FALSE, ![s].mfa_authenticated = TRUE]
    /\ UNCHANGED <<user, change, refresh, changes, clash>>

----------------------------------------------------------------------------
(* Changes of the account: what is read, and what the commit writes.       *)

OpenSessions(except) == ActiveSessions \ {except}

(* Suspension, deactivation, password reset, new role or access; and       *)
(* activation, which revokes no session.                                   *)
revoke_pending_credentials(c, active) ==
    /\ change[c] = None /\ changes < MaxChanges /\ (active \/ user.active)
    /\ change' = [change EXCEPT ![c] =
          [by |-> None, auth_version |-> user.auth_version + 1, active |-> active, factor |-> FALSE,
           sessions |-> IF user.active THEN OpenSessions(None) ELSE {}, read |-> changes]]
    /\ UNCHANGED <<user, sess, refresh, changes, clash>>

change_commit(c) ==
    /\ change[c] # None /\ change[c].by = None /\ changes < MaxChanges
    /\ Unlocked(change[c].sessions)
    /\ user' = [user EXCEPT !.auth_version = change[c].auth_version, !.active = change[c].active]
    /\ sess' = revoke_session(change[c].sessions)
    /\ changes' = changes + 1 /\ clash' = (clash \/ change[c].read # changes)
    /\ change' = [change EXCEPT ![c] = None] /\ UNCHANGED refresh

(* Enrolling or disabling a second factor ends the user's other sessions;  *)
(* the version stays.                                                      *)
revoke_other_sessions_for_mfa_change(c, s) ==
    /\ change[c] = None /\ IF user.factor THEN Full(s) ELSE Authenticates(s)
    /\ change' = [change EXCEPT ![c] =
          [by |-> s, factor |-> ~user.factor, sessions |-> OpenSessions(s), read |-> changes,
           auth_version |-> 0, active |-> FALSE]]
    /\ sess' = [t \in Sessions |-> IF sess[t].state # "opening" THEN sess[t]
                                   ELSE [sess[t] EXCEPT !.covered = FALSE]]
    /\ UNCHANGED <<user, refresh, changes, clash>>

mfa_commit(c) ==
    /\ change[c] # None /\ change[c].by # None /\ Unlocked(change[c].sessions)
    /\ user' = [user EXCEPT !.factor = change[c].factor]
    /\ sess' = LET ended == revoke_session(change[c].sessions) IN
               IF ~change[c].factor \/ ~is_session_active(change[c].by) THEN ended
               ELSE [ended EXCEPT ![change[c].by].mfa_pending = FALSE,
                                  ![change[c].by].mfa_authenticated = TRUE]
    /\ change' = [change EXCEPT ![c] = None]
    /\ UNCHANGED <<refresh, changes, clash>>

Next ==
    \/ \E s \in Sessions :
          \/ login(s) \/ create_session(s) \/ revoke_my_session(s) \/ logout_all_sessions(s)
          \/ verify_totp_login(s)
          \/ \E r \in Refreshers, k \in 1 .. MaxTokens : refresh_session(r, s, k)
          \/ \E c \in Changes : revoke_other_sessions_for_mfa_change(c, s)
    \/ \E r \in Refreshers : refresh_commit(r)
    \/ \E c \in Changes :
          \/ \E active \in BOOLEAN : revoke_pending_credentials(c, active)
          \/ change_commit(c) \/ mfa_commit(c)

Spec == Init /\ [][Next]_vars

----------------------------------------------------------------------------
(* "Invalidate every credential": once a change of the credentials is      *)
(* committed no session authenticates whose login had read the account     *)
(* before, not even one that was being opened; unless two changes overlap  *)
(* and write the same version (auth_version is read, then written).        *)
ChangeEndsSessions ==
    \A s \in Sessions : Authenticates(s) /\ sess[s].read # changes => clash

(* With a second factor enrolled a session is pending or has verified it,  *)
(* unless its login overlapped the enrolment.                              *)
FactorCoversSessions ==
    \A s \in Sessions :
        Full(s) /\ user.factor => sess[s].mfa_authenticated \/ ~sess[s].covered

(* However often an answer is lost or a token sent twice, a session has    *)
(* one usable refresh token at most.                                       *)
OneLiveToken == \A s \in Sessions : Cardinality(sess[s].live) <= 1

(* What a change of the credentials, or the rotation of a token, replaces  *)
(* is of no use afterwards, whatever logins and refreshes were under way.  *)
ReplacedCredentialsEnd == ChangeEndsSessions /\ OneLiveToken
=============================================================================
