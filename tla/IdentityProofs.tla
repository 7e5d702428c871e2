--------------------------- MODULE IdentityProofs ---------------------------
(***************************************************************************)
(* Who may act: the sessions of a user, and the instances of MCIdentity    *)
(* for the enrollment of Scouts (E), single sign-on (O), provisioning (P)  *)
(* and API tokens (T), each for any number of whatever it counts.          *)
(***************************************************************************)
EXTENDS MCIdentity, FiniteSetTheorems, TLAPS

----------------------------------------------------------------------------
(***************************************************************************)
(* The sessions, for any number of sessions, changes and refreshes under   *)
(* way.                                                                    *)
(*                                                                         *)
(* What ends a session after a change of the credentials is not that the   *)
(* change revokes it, since a login that is under way is not seen, but     *)
(* that the version of the account counts the changes: VersionsCount.  A   *)
(* session keeps one usable refresh token because a refresh holds the row  *)
(* of the token it replaces, and nobody revokes a session whose token is   *)
(* held: TokensLocked.                                                     *)
(***************************************************************************)
Change == [by : Sessions \cup {None}, auth_version : Nat, active : BOOLEAN,
           factor : BOOLEAN, sessions : SUBSET Sessions, read : 0 .. MaxChanges]

Refresh == [session : Sessions, token : 1 .. MaxTokens]

WritersTyped ==
    /\ change \in [Changes -> Change \cup {None}]
    /\ refresh \in [Refreshers -> Refresh \cup {None}]

(* Until two changes overlap, versions and changes go together.            *)
VersionsCount ==
    ~clash =>
      /\ user.auth_version = changes + 1
      /\ \A s \in Sessions :
            sess[s].state \in {"opening", "open"} => sess[s].auth_version = sess[s].read + 1
      /\ \A c \in Changes :
            change[c] # None /\ change[c].by = None =>
               change[c].auth_version = change[c].read + 2

(* A refresh under way holds the only token of an open session.            *)
TokensLocked ==
    /\ \A s \in Sessions : \A j, k \in sess[s].live : j = k
    /\ \A r \in Refreshers : refresh[r] # None =>
          /\ sess[refresh[r].session].state = "open"
          /\ refresh[r].token \in sess[refresh[r].session].live
    /\ \A r, q \in Refreshers :
          /\ refresh[r] # None /\ refresh[q] # None
          /\ refresh[r].session = refresh[q].session
          => r = q

(* A login revokes sessions that were open when it began, not its own.     *)
NotItself == \A s \in Sessions : s \notin sess[s].overflow

IInv == TypeOK /\ WritersTyped /\ VersionsCount /\ TokensLocked /\ NotItself

----------------------------------------------------------------------------
(* The rows that the handlers write.                                             *)
LEMMA RowFields ==
  ASSUME NEW w \in Row
  PROVE  /\ w.state \in {"unused", "opening", "open", "revoked"}
         /\ w.auth_version \in Nat /\ w.mfa_pending \in BOOLEAN
         /\ w.mfa_authenticated \in BOOLEAN /\ w.issued \in 0 .. MaxTokens
         /\ w.live \in SUBSET (1 .. MaxTokens) /\ w.overflow \in SUBSET Sessions
         /\ w.read \in 0 .. MaxChanges /\ w.covered \in BOOLEAN
BY DEF Row

(* A revoked session has no token.                                         *)
LEMMA RevokedTyped ==
  ASSUME TypeOK, NEW S \in SUBSET Sessions
  PROVE  /\ revoke_session(S) \in [Sessions -> Row]
         /\ \A s \in S :
               /\ revoke_session(S)[s].state = "revoked" /\ revoke_session(S)[s].live = {}
               /\ revoke_session(S)[s].overflow = {}
         /\ \A s \in Sessions \ S : revoke_session(S)[s] = sess[s]
<1> DEFINE gone == [Unused EXCEPT !.state = "revoked"]
<1>1. 0 \in 0 .. MaxTokens /\ 0 \in 0 .. MaxChanges
  BY SessionsConstants
<1>2. Unused \in Row
  BY <1>1 DEF Unused, Row
<1>3. gone \in Row
  BY <1>2 DEF Row
<1>4. gone.state = "revoked" /\ gone.live = {} /\ gone.overflow = {}
  BY DEF Unused
<1> HIDE DEF gone
<1>5. revoke_session(S) = [s \in Sessions |-> IF s \in S THEN gone ELSE sess[s]]
  BY DEF revoke_session, gone
<1> QED BY <1>3, <1>4, <1>5 DEF TypeOK

(* Every step keeps the types of the rows and of what is under way.        *)
LEMMA TypeStep ==
  ASSUME TypeOK, WritersTyped, [Next]_vars
  PROVE  (TypeOK /\ WritersTyped)'
<1>0. /\ sess \in [Sessions -> Row] /\ changes \in 0 .. MaxChanges /\ clash \in BOOLEAN
      /\ user \in [active : BOOLEAN, auth_version : Nat, factor : BOOLEAN]
      /\ user.active \in BOOLEAN /\ user.auth_version \in Nat /\ user.factor \in BOOLEAN
      /\ change \in [Changes -> Change \cup {None}]
      /\ refresh \in [Refreshers -> Refresh \cup {None}]
      /\ \A s \in Sessions : sess[s] \in Row
  BY DEF TypeOK, WritersTyped
<1> USE <1>0, SessionsConstants
<1>1. ActiveSessions \in SUBSET Sessions /\ \A e : OpenSessions(e) \in SUBSET Sessions
  BY DEF ActiveSessions, OpenSessions
<1>2. \A S \in SUBSET Sessions : revoke_session(S) \in [Sessions -> Row]
  BY RevokedTyped
<1>3. ASSUME NEW s \in Sessions, login(s) PROVE (TypeOK /\ WritersTyped)'
  <2> DEFINE b == \A c \in Changes : change[c] = None \/ change[c].by = None
             row(old) == [sess[s] EXCEPT !.state = "opening", !.auth_version = user.auth_version,
                            !.mfa_pending = user.factor, !.overflow = old, !.read = changes,
                            !.covered = b]
  <2>1. b \in BOOLEAN
    OBVIOUS
  <2>2. PICK old \in SUBSET Sessions : sess' = [sess EXCEPT ![s] = row(old)]
    <3> DEFINE n == Overflow(Cardinality(ActiveSessions))
    <3>1. \A old \in kSubset(n, ActiveSessions) : old \in SUBSET Sessions
      BY <1>1 DEF kSubset
    <3>2. \E old \in kSubset(n, ActiveSessions) :
             sess' = [sess EXCEPT ![s].state = "opening", ![s].auth_version = user.auth_version,
                        ![s].mfa_pending = user.factor, ![s].overflow = old, ![s].read = changes,
                        ![s].covered = b]
      BY ONLY <1>3 DEF login
    <3>3. \A old : [sess EXCEPT ![s].state = "opening", ![s].auth_version = user.auth_version,
                        ![s].mfa_pending = user.factor, ![s].overflow = old, ![s].read = changes,
                        ![s].covered = b] = [sess EXCEPT ![s] = row(old)]
      BY ONLY <1>0, s \in Sessions
    <3> HIDE DEF n, row, b
    <3> QED BY ONLY <3>1, <3>2, <3>3
  <2> HIDE DEF b
  <2>3. row(old) \in Row
    <3>1. /\ sess[s] \in Row /\ user.auth_version \in Nat /\ user.factor \in BOOLEAN
          /\ changes \in 0 .. MaxChanges
      OBVIOUS
    <3> QED BY ONLY <2>1, <3>1, old \in SUBSET Sessions DEF Row
  <2> HIDE DEF row
  <2>4. sess' \in [Sessions -> Row]
    BY <2>2, <2>3
  <2> QED BY <1>3, <2>4 DEF login, TypeOK, WritersTyped
<1>4. ASSUME NEW s \in Sessions, create_session(s) PROVE (TypeOK /\ WritersTyped)'
  <2> DEFINE ended == revoke_session(sess[s].overflow)
             row == [ended[s] EXCEPT !.state = "open", !.overflow = {}, !.issued = 1, !.live = {1}]
  <2>1. sess' = [ended EXCEPT ![s] = row]
    BY <1>4 DEF create_session
  <2>2. sess[s].overflow \in SUBSET Sessions
    BY RowFields
  <2>3. ended \in [Sessions -> Row]
    BY <1>2, <2>2
  <2> HIDE DEF ended
  <2>4. row \in Row
    <3>1. ended[s] \in Row /\ 1 \in 0 .. MaxTokens /\ {1} \in SUBSET (1 .. MaxTokens)
      BY <2>3
    <3> QED BY ONLY <3>1 DEF Row
  <2> HIDE DEF row
  <2>5. sess' \in [Sessions -> Row]
    BY <2>1, <2>3, <2>4
  <2> QED BY <1>4, <2>5 DEF create_session, TypeOK, WritersTyped
<1>5. ASSUME NEW s \in Sessions, revoke_my_session(s) PROVE (TypeOK /\ WritersTyped)'
  <2>1. sess' \in [Sessions -> Row]
    BY <1>2, <1>5 DEF revoke_my_session
  <2> QED BY <1>5, <2>1 DEF revoke_my_session, TypeOK, WritersTyped
<1>6. ASSUME NEW s \in Sessions, logout_all_sessions(s) PROVE (TypeOK /\ WritersTyped)'
  <2>1. sess' \in [Sessions -> Row]
    BY <1>1, <1>2, <1>6 DEF logout_all_sessions
  <2> QED BY <1>6, <2>1 DEF logout_all_sessions, TypeOK, WritersTyped
<1>7. ASSUME NEW s \in Sessions, verify_totp_login(s) PROVE (TypeOK /\ WritersTyped)'
  <2> DEFINE row == [sess[s] EXCEPT !.mfa_pending = FALSE, !.mfa_authenticated = TRUE]
  <2>1. row \in Row
    BY ONLY sess[s] \in Row DEF Row
  <2>2. sess' = [sess EXCEPT ![s] = row]
    BY <1>7 DEF verify_totp_login
  <2> HIDE DEF row
  <2>3. sess' \in [Sessions -> Row]
    BY <2>1, <2>2
  <2> QED BY <1>7, <2>3 DEF verify_totp_login, TypeOK, WritersTyped
<1>8. ASSUME NEW s \in Sessions, NEW r \in Refreshers, NEW k \in 1 .. MaxTokens,
             refresh_session(r, s, k)
      PROVE  (TypeOK /\ WritersTyped)'
  <2>1. sess' \in [Sessions -> Row]
    BY <1>2, <1>8 DEF refresh_session
  <2>2. [session |-> s, token |-> k] \in Refresh
    BY DEF Refresh
  <2>3. refresh' \in [Refreshers -> Refresh \cup {None}]
    BY <1>8, <2>2 DEF refresh_session
  <2> QED BY <1>8, <2>1, <2>3 DEF refresh_session, TypeOK, WritersTyped
<1>9. ASSUME NEW r \in Refreshers, refresh_commit(r) PROVE (TypeOK /\ WritersTyped)'
  <2> DEFINE s == refresh[r].session
             e == sess[s].issued + 1
             f == (sess[s].live \ {refresh[r].token}) \cup {e}
             row == [sess[s] EXCEPT !.issued = e, !.live = f]
  <2>1. refresh[r] \in Refresh /\ s \in Sessions /\ sess[s].issued < MaxTokens
    BY <1>9 DEF refresh_commit, Refresh
  <2>2. e \in 1 .. MaxTokens
    BY <2>1, RowFields
  <2>3. f \in SUBSET (1 .. MaxTokens)
    BY <2>1, <2>2, RowFields
  <2>4. sess' = [sess EXCEPT ![s] = row]
    BY <1>9 DEF refresh_commit
  <2>5. row \in Row
    <3>1. sess[s] \in Row /\ e \in 0 .. MaxTokens
      BY <2>1, <2>2
    <3> HIDE DEF s, e, f
    <3> QED BY ONLY <2>3, <3>1 DEF Row
  <2>6. sess' \in [Sessions -> Row]
    <3> HIDE DEF s, row
    <3> QED BY <2>1, <2>4, <2>5
  <2> QED BY <1>9, <2>6 DEF refresh_commit, TypeOK, WritersTyped
<1>10. ASSUME NEW c \in Changes, NEW active \in BOOLEAN, revoke_pending_credentials(c, active)
       PROVE  (TypeOK /\ WritersTyped)'
  <2> DEFINE new == [by |-> None, auth_version |-> user.auth_version + 1, active |-> active,
                     factor |-> FALSE,
                     sessions |-> IF user.active THEN OpenSessions(None) ELSE {},
                     read |-> changes]
  <2>1. new \in Change
    BY <1>1 DEF Change
  <2>2. change' = [change EXCEPT ![c] = new]
    BY <1>10 DEF revoke_pending_credentials
  <2> HIDE DEF new
  <2>3. change' \in [Changes -> Change \cup {None}]
    BY <2>1, <2>2
  <2> QED BY <1>10, <2>3 DEF revoke_pending_credentials, TypeOK, WritersTyped
<1>11. ASSUME NEW c \in Changes, change_commit(c) PROVE (TypeOK /\ WritersTyped)'
  <2>1. change[c] \in Change
    BY <1>11 DEF change_commit
  <2>2. /\ change[c].auth_version \in Nat /\ change[c].active \in BOOLEAN
        /\ change[c].sessions \in SUBSET Sessions
    BY <2>1 DEF Change
  <2>3. user' \in [active : BOOLEAN, auth_version : Nat, factor : BOOLEAN]
    BY <1>11, <2>2 DEF change_commit
  <2>4. sess' \in [Sessions -> Row]
    BY <1>2, <1>11, <2>2 DEF change_commit
  <2>5. changes' \in 0 .. MaxChanges /\ clash' \in BOOLEAN
    BY <1>11 DEF change_commit
  <2>6. /\ change' \in [Changes -> Change \cup {None}]
        /\ refresh' \in [Refreshers -> Refresh \cup {None}]
    BY <1>11 DEF change_commit
  <2> QED BY <2>3, <2>4, <2>5, <2>6 DEF TypeOK, WritersTyped
<1>12. ASSUME NEW c \in Changes, NEW s \in Sessions, revoke_other_sessions_for_mfa_change(c, s)
       PROVE  (TypeOK /\ WritersTyped)'
  <2> DEFINE f == ~user.factor
             new == [by |-> s, factor |-> f, sessions |-> OpenSessions(s), read |-> changes,
                     auth_version |-> 0, active |-> FALSE]
  <2>1. f \in BOOLEAN
    OBVIOUS
  <2>2. change' = [change EXCEPT ![c] = new]
    BY <1>12 DEF revoke_other_sessions_for_mfa_change
  <2> HIDE DEF f
  <2>3. new \in Change
    BY <1>1, <2>1 DEF Change
  <2> HIDE DEF new
  <2>4. change' \in [Changes -> Change \cup {None}]
    BY <2>2, <2>3
  <2>5. \A w \in Row : [w EXCEPT !.covered = FALSE] \in Row
    BY ONLY TRUE DEF Row
  <2>6. sess' \in [Sessions -> Row]
    BY <1>12, <2>5 DEF revoke_other_sessions_for_mfa_change
  <2> QED BY <1>12, <2>4, <2>6 DEF revoke_other_sessions_for_mfa_change, TypeOK, WritersTyped
<1>13. ASSUME NEW c \in Changes, mfa_commit(c) PROVE (TypeOK /\ WritersTyped)'
  <2> DEFINE ended == revoke_session(change[c].sessions)
             row == [ended[change[c].by] EXCEPT !.mfa_pending = FALSE, !.mfa_authenticated = TRUE]
  <2>1. change[c] \in Change /\ change[c].by # None
    BY <1>13 DEF mfa_commit
  <2>2. /\ change[c].by \in Sessions /\ change[c].factor \in BOOLEAN
        /\ change[c].sessions \in SUBSET Sessions
    BY <2>1 DEF Change
  <2>3. ended \in [Sessions -> Row]
    BY <1>2, <2>2
  <2>4. sess' = ended \/ sess' = [ended EXCEPT ![change[c].by] = row]
    BY <1>13 DEF mfa_commit
  <2> HIDE DEF ended
  <2>5. row \in Row
    <3>1. ended[change[c].by] \in Row
      BY <2>2, <2>3
    <3> QED BY ONLY <3>1 DEF Row
  <2> HIDE DEF row
  <2>6. sess' \in [Sessions -> Row]
    BY <2>2, <2>3, <2>4, <2>5
  <2>7. user' \in [active : BOOLEAN, auth_version : Nat, factor : BOOLEAN]
    BY <1>13, <2>2 DEF mfa_commit
  <2> QED BY <1>13, <2>6, <2>7 DEF mfa_commit, TypeOK, WritersTyped
<1>14. CASE UNCHANGED vars
  BY <1>14 DEF vars, TypeOK, WritersTyped
<1> QED
  BY <1>3, <1>4, <1>5, <1>6, <1>7, <1>8, <1>9, <1>10, <1>11, <1>12, <1>13, <1>14 DEF Next

----------------------------------------------------------------------------
(* What a step leaves of a session: the columns that count, or nothing of  *)
(* one that no refresh holds.                                              *)
Kept(t) ==
    /\ sess'[t].state = sess[t].state /\ sess'[t].auth_version = sess[t].auth_version
    /\ sess'[t].read = sess[t].read /\ sess'[t].live = sess[t].live
    /\ sess'[t].overflow = sess[t].overflow

Ended(t) ==
    /\ sess'[t].state = "revoked" /\ sess'[t].live = {} /\ sess'[t].overflow = {}
    /\ Unlocked({t})

Frame(S) == \A t \in Sessions \ S : Kept(t) \/ Ended(t)

(* A revocation ends sessions and leaves the others as they are. *)
LEMMA RevokeFrame ==
  ASSUME TypeOK, NEW S \in SUBSET Sessions, Unlocked(S), sess' = revoke_session(S)
  PROVE  Frame({})
<1>1. \A t \in S : Unlocked({t})
  BY DEF Unlocked
<1> QED BY <1>1, RevokedTyped DEF Frame, Kept, Ended

(* Only a login, its commit and the commit of a refresh do more to one.    *)
LEMMA StepFrame ==
  ASSUME IInv, [Next]_vars
  PROVE  \/ Frame({})
         \/ \E s \in Sessions : login(s) \/ create_session(s)
         \/ \E r \in Refreshers : refresh_commit(r)
<1>0. /\ TypeOK /\ sess \in [Sessions -> Row] /\ \A s \in Sessions : sess[s] \in Row
      /\ change \in [Changes -> Change \cup {None}]
  BY DEF IInv, TypeOK, WritersTyped
<1>1. ASSUME UNCHANGED sess PROVE Frame({})
  BY <1>1 DEF Frame, Kept
<1>2. ASSUME NEW s \in Sessions, revoke_my_session(s) PROVE Frame({})
  BY <1>0, <1>2, RevokeFrame DEF revoke_my_session
<1>3. ASSUME NEW s \in Sessions, logout_all_sessions(s) PROVE Frame({})
  <2>1. ActiveSessions \in SUBSET Sessions
    BY DEF ActiveSessions
  <2> QED BY <1>0, <1>3, <2>1, RevokeFrame DEF logout_all_sessions
<1>4. ASSUME NEW s \in Sessions, verify_totp_login(s) PROVE Frame({})
  BY <1>0, <1>4 DEF verify_totp_login, Frame, Kept, Row
<1>5. ASSUME NEW s \in Sessions, NEW r \in Refreshers, NEW k \in 1 .. MaxTokens,
             refresh_session(r, s, k)
      PROVE  Frame({})
  BY <1>0, <1>1, <1>5, RevokeFrame DEF refresh_session
<1>6. ASSUME NEW c \in Changes, change_commit(c) PROVE Frame({})
  <2>1. change[c] \in Change
    BY <1>0, <1>6 DEF change_commit
  <2>2. change[c].sessions \in SUBSET Sessions
    BY <2>1 DEF Change
  <2> QED BY <1>0, <1>6, <2>2, RevokeFrame DEF change_commit
<1>7. ASSUME NEW c \in Changes, NEW s \in Sessions, revoke_other_sessions_for_mfa_change(c, s)
      PROVE  Frame({})
  <2>1. \A t \in Sessions : sess'[t] = sess[t] \/ sess'[t] = [sess[t] EXCEPT !.covered = FALSE]
    BY <1>7 DEF revoke_other_sessions_for_mfa_change
  <2>2. \A w \in Row :
           LET v == [w EXCEPT !.covered = FALSE]
           IN  /\ v.state = w.state /\ v.auth_version = w.auth_version
               /\ v.read = w.read /\ v.live = w.live /\ v.overflow = w.overflow
    BY ONLY TRUE DEF Row
  <2> QED BY <1>0, <2>1, <2>2 DEF Frame, Kept
<1>8. ASSUME NEW c \in Changes, mfa_commit(c) PROVE Frame({})
  <2> DEFINE S == change[c].sessions
             b == change[c].by
             ended == revoke_session(S)
  <2>1. change[c] \in Change /\ b # None /\ Unlocked(S)
    BY <1>0, <1>8 DEF mfa_commit
  <2>2. b \in Sessions /\ S \in SUBSET Sessions
    BY <2>1 DEF Change
  <2>3. /\ ended \in [Sessions -> Row]
        /\ \A t \in S : ended[t].state = "revoked" /\ ended[t].live = {} /\ ended[t].overflow = {}
        /\ \A t \in Sessions \ S : ended[t] = sess[t]
    BY <1>0, <2>2, RevokedTyped
  <2>4. \/ sess' = ended
        \/ sess' = [ended EXCEPT ![b].mfa_pending = FALSE, ![b].mfa_authenticated = TRUE]
    BY <1>8 DEF mfa_commit
  <2> HIDE DEF ended
  <2>5. \A t \in Sessions :
           /\ sess'[t].state = ended[t].state /\ sess'[t].auth_version = ended[t].auth_version
           /\ sess'[t].read = ended[t].read /\ sess'[t].live = ended[t].live
           /\ sess'[t].overflow = ended[t].overflow
    BY ONLY <2>2, <2>3, <2>4 DEF Row
  <2>6. \A t \in S : Unlocked({t})
    BY <2>1 DEF Unlocked
  <2> QED BY <2>3, <2>5, <2>6 DEF Frame, Kept, Ended
<1> QED
  BY <1>1, <1>2, <1>3, <1>4, <1>5, <1>6, <1>7, <1>8
     DEF Next, revoke_pending_credentials, vars

(* What a login, its commit and the commit of a refresh do.                *)
LEMMA LoginFrame ==
  ASSUME IInv, NEW s \in Sessions, login(s)
  PROVE  /\ Frame({s})
         /\ sess[s].state = "unused" /\ sess'[s].state = "opening"
         /\ sess'[s].auth_version = user.auth_version /\ sess'[s].read = changes
         /\ sess'[s].live = sess[s].live /\ s \notin sess'[s].overflow
<1>0. sess \in [Sessions -> Row] /\ sess[s] \in Row
  BY DEF IInv, TypeOK
<1> DEFINE n == Overflow(Cardinality(ActiveSessions))
           b == \A c \in Changes : change[c] = None \/ change[c].by = None
<1>1. PICK old \in kSubset(n, ActiveSessions) :
         sess' = [sess EXCEPT ![s].state = "opening", ![s].auth_version = user.auth_version,
                    ![s].mfa_pending = user.factor, ![s].overflow = old, ![s].read = changes,
                    ![s].covered = b]
  BY DEF login
<1>2. old \subseteq ActiveSessions
  BY DEF kSubset
<1>3. sess[s].state = "unused" /\ s \notin old
  BY <1>2 DEF login, ActiveSessions, is_session_active
<1> HIDE DEF b, n
<1>4. \A t \in Sessions : t # s => sess'[t] = sess[t]
  BY ONLY <1>0, <1>1
<1>5. /\ sess'[s].state = "opening" /\ sess'[s].auth_version = user.auth_version
      /\ sess'[s].read = changes /\ sess'[s].live = sess[s].live /\ sess'[s].overflow = old
  BY ONLY <1>0, <1>1, s \in Sessions DEF Row
<1> QED BY <1>3, <1>4, <1>5 DEF Frame, Kept

(* The commit of a login opens one session. *)
LEMMA CreateFrame ==
  ASSUME IInv, NEW s \in Sessions, create_session(s)
  PROVE  /\ Frame({s})
         /\ sess[s].state = "opening" /\ sess'[s].state = "open"
         /\ sess'[s].auth_version = sess[s].auth_version /\ sess'[s].read = sess[s].read
         /\ sess'[s].live = {1} /\ sess'[s].overflow = {}
<1> DEFINE S == sess[s].overflow
           ended == revoke_session(S)
<1>1. TypeOK /\ S \in SUBSET Sessions /\ s \notin S /\ Unlocked(S) /\ sess[s].state = "opening"
  BY RowFields DEF IInv, TypeOK, NotItself, create_session
<1>2. /\ ended \in [Sessions -> Row]
      /\ \A t \in S : ended[t].state = "revoked" /\ ended[t].live = {} /\ ended[t].overflow = {}
      /\ \A t \in Sessions \ S : ended[t] = sess[t]
  BY <1>1, RevokedTyped
<1>3. sess' = [ended EXCEPT ![s].state = "open", ![s].overflow = {}, ![s].issued = 1, ![s].live = {1}]
  BY DEF create_session
<1> HIDE DEF ended
<1>4. \A t \in Sessions : t # s => sess'[t] = ended[t]
  BY ONLY <1>2, <1>3
<1>5. /\ sess'[s].state = "open" /\ sess'[s].auth_version = ended[s].auth_version
      /\ sess'[s].read = ended[s].read /\ sess'[s].live = {1} /\ sess'[s].overflow = {}
  BY ONLY <1>2, <1>3, s \in Sessions DEF Row
<1>6. \A t \in S : Unlocked({t})
  BY <1>1 DEF Unlocked
<1> QED BY <1>1, <1>2, <1>4, <1>5, <1>6 DEF Frame, Kept, Ended

(* The commit of a refresh changes one session. *)
LEMMA RefreshFrame ==
  ASSUME IInv, NEW r \in Refreshers, refresh_commit(r)
  PROVE  LET s == refresh[r].session
         IN  /\ s \in Sessions /\ Frame({s})
             /\ sess'[s].state = sess[s].state /\ sess'[s].auth_version = sess[s].auth_version
             /\ sess'[s].read = sess[s].read /\ sess'[s].overflow = sess[s].overflow
             /\ sess'[s].live = {sess[s].issued + 1}
<1> DEFINE s == refresh[r].session
           e == sess[s].issued + 1
<1>1. refresh[r] \in Refresh /\ s \in Sessions
  BY DEF IInv, WritersTyped, refresh_commit, Refresh
<1>2. sess[s].live = {refresh[r].token}
  BY <1>1 DEF IInv, TokensLocked, refresh_commit
<1>3. sess' = [sess EXCEPT ![s].issued = e, ![s].live = {e}]
  BY <1>2 DEF refresh_commit
<1>4. sess \in [Sessions -> Row] /\ sess[s] \in Row
  BY <1>1 DEF IInv, TypeOK
<1> HIDE DEF s, e
<1>5. \A t \in Sessions : t # s => sess'[t] = sess[t]
  BY ONLY <1>3, <1>4
<1>6. /\ sess'[s].state = sess[s].state /\ sess'[s].auth_version = sess[s].auth_version
      /\ sess'[s].read = sess[s].read /\ sess'[s].overflow = sess[s].overflow
      /\ sess'[s].live = {e}
  BY ONLY <1>1, <1>3, <1>4 DEF Row
<1>7. Frame({s})
  BY <1>5 DEF Frame, Kept
<1> QED BY <1>1, <1>6, <1>7 DEF s, e

----------------------------------------------------------------------------
(* Versions go on counting the changes.                                    *)
LEMMA VersionStep ==
  ASSUME IInv, [Next]_vars
  PROVE  VersionsCount'
<1>0. /\ VersionsCount /\ clash \in BOOLEAN /\ changes \in 0 .. MaxChanges
      /\ user \in [active : BOOLEAN, auth_version : Nat, factor : BOOLEAN]
      /\ change \in [Changes -> Change \cup {None}]
  BY DEF IInv, TypeOK, WritersTyped
<1>1. ASSUME NEW s \in Sessions, login(s) PROVE VersionsCount'
  <2>1. /\ Frame({s}) /\ sess'[s].auth_version = user.auth_version /\ sess'[s].read = changes
        /\ UNCHANGED <<user, change, changes, clash>>
    BY <1>1, LoginFrame DEF login
  <2>2. ~clash => sess'[s].auth_version = sess'[s].read + 1
    BY <1>0, <2>1 DEF VersionsCount
  <2>3. \A t \in Sessions \ {s} : ~clash /\ sess'[t].state \in {"opening", "open"}
                                 => sess'[t].auth_version = sess'[t].read + 1
    BY <1>0, <2>1 DEF VersionsCount, Frame, Kept, Ended
  <2> QED BY <1>0, <2>1, <2>2, <2>3 DEF VersionsCount
<1>2. ASSUME NEW s \in Sessions, create_session(s) PROVE VersionsCount'
  <2>1. /\ Frame({s}) /\ sess[s].state = "opening"
        /\ sess'[s].auth_version = sess[s].auth_version /\ sess'[s].read = sess[s].read
        /\ UNCHANGED <<user, change, changes, clash>>
    BY <1>2, CreateFrame DEF create_session
  <2>2. ~clash => sess'[s].auth_version = sess'[s].read + 1
    BY <1>0, <2>1 DEF VersionsCount
  <2>3. \A t \in Sessions \ {s} : ~clash /\ sess'[t].state \in {"opening", "open"}
                                 => sess'[t].auth_version = sess'[t].read + 1
    BY <1>0, <2>1 DEF VersionsCount, Frame, Kept, Ended
  <2> QED BY <1>0, <2>1, <2>2, <2>3 DEF VersionsCount
<1>3. ASSUME NEW r \in Refreshers, refresh_commit(r) PROVE VersionsCount'
  <2> DEFINE s == refresh[r].session
  <2>1. /\ s \in Sessions /\ Frame({s}) /\ sess'[s].state = sess[s].state
        /\ sess'[s].auth_version = sess[s].auth_version /\ sess'[s].read = sess[s].read
    BY <1>3, RefreshFrame
  <2>2. UNCHANGED <<user, change, changes, clash>>
    BY <1>3 DEF refresh_commit
  <2> HIDE DEF s
  <2>3. \A t \in Sessions : ~clash /\ sess'[t].state \in {"opening", "open"}
                           => sess'[t].auth_version = sess'[t].read + 1
    BY <1>0, <2>1 DEF VersionsCount, Frame, Kept, Ended
  <2> QED BY <1>0, <2>2, <2>3 DEF VersionsCount
<1>4. ASSUME Frame({}), UNCHANGED <<user, changes, clash>>,
             \A c \in Changes : change'[c] \in {change[c], None}
      PROVE  VersionsCount'
  BY <1>0, <1>4 DEF VersionsCount, Frame, Kept, Ended
<1>5. ASSUME Frame({}), NEW c \in Changes, NEW active \in BOOLEAN,
             revoke_pending_credentials(c, active)
      PROVE  VersionsCount'
  <2> DEFINE open == IF user.active THEN OpenSessions(None) ELSE {}
             new == [by |-> None, auth_version |-> user.auth_version + 1, active |-> active,
                     factor |-> FALSE, sessions |-> open, read |-> changes]
  <2>1. change' = [change EXCEPT ![c] = new]
    BY <1>5 DEF revoke_pending_credentials
  <2>2. new.auth_version = user.auth_version + 1 /\ new.read = changes
    OBVIOUS
  <2> HIDE DEF new
  <2>3. ~clash => change'[c].auth_version = change'[c].read + 2
    BY <1>0, <2>1, <2>2 DEF VersionsCount
  <2>4. \A d \in Changes : d # c => change'[d] = change[d]
    BY <1>0, <2>1
  <2>5. UNCHANGED <<user, changes, clash>>
    BY <1>5 DEF revoke_pending_credentials
  <2> QED BY <1>0, <1>5, <2>3, <2>4, <2>5 DEF VersionsCount, Frame, Kept, Ended
<1>6. ASSUME Frame({}), NEW c \in Changes, change_commit(c) PROVE VersionsCount'
  <2>1. /\ user'.auth_version = change[c].auth_version
        /\ changes' = changes + 1 /\ clash' = (clash \/ change[c].read # changes)
        /\ change[c] # None /\ change[c].by = None
        /\ \A d \in Changes : change'[d] \in {change[d], None}
    BY <1>0, <1>6 DEF change_commit
  <2>2. ~clash' => ~clash /\ change[c].read = changes
    BY <2>1
  <2>3. ~clash' => user'.auth_version = changes' + 1
    BY <1>0, <2>1, <2>2 DEF VersionsCount
  <2> QED BY <1>0, <1>6, <2>1, <2>2, <2>3 DEF VersionsCount, Frame, Kept, Ended
<1>7. ASSUME Frame({}), NEW c \in Changes, NEW s \in Sessions,
             revoke_other_sessions_for_mfa_change(c, s)
      PROVE  VersionsCount'
  <2>1. change'[c].by = s /\ s # None /\ \A d \in Changes : d # c => change'[d] = change[d]
    BY <1>0, <1>7, SessionsConstants DEF revoke_other_sessions_for_mfa_change
  <2>2. UNCHANGED <<user, changes, clash>>
    BY <1>7 DEF revoke_other_sessions_for_mfa_change
  <2> QED BY <1>0, <1>7, <2>1, <2>2 DEF VersionsCount, Frame, Kept, Ended
<1>8. ASSUME Frame({}), NEW c \in Changes, mfa_commit(c) PROVE VersionsCount'
  <2>1. user'.auth_version = user.auth_version /\ UNCHANGED <<changes, clash>>
    BY <1>0, <1>8 DEF mfa_commit
  <2>2. \A d \in Changes : change'[d] \in {change[d], None}
    BY <1>0, <1>8 DEF mfa_commit
  <2> QED BY <1>0, <1>8, <2>1, <2>2 DEF VersionsCount, Frame, Kept, Ended
<1>9. CASE Frame({})
  <2>1. UNCHANGED vars => VersionsCount'
    BY <1>4, <1>9 DEF vars
  <2> QED
    BY <1>1, <1>2, <1>3, <1>4, <1>5, <1>6, <1>7, <1>8, <1>9, <2>1
       DEF Next, revoke_my_session, logout_all_sessions, verify_totp_login, refresh_session
<1> QED BY <1>1, <1>2, <1>3, <1>9, StepFrame

(* No step gives a session a second token, or takes one that is held.      *)
LEMMA TokenStep ==
  ASSUME IInv, [Next]_vars
  PROVE  TokensLocked' /\ NotItself'
<1>0. /\ TokensLocked /\ NotItself
      /\ refresh \in [Refreshers -> Refresh \cup {None}]
      /\ \A r \in Refreshers : refresh[r] # None => refresh[r].session \in Sessions
  BY DEF IInv, WritersTyped, Refresh
<1>1. ASSUME NEW s \in Sessions, login(s) PROVE TokensLocked' /\ NotItself'
  <2>1. /\ Frame({s}) /\ sess[s].state = "unused" /\ sess'[s].live = sess[s].live
        /\ s \notin sess'[s].overflow /\ UNCHANGED refresh
    BY <1>1, LoginFrame DEF login
  <2> QED BY <1>0, <2>1 DEF TokensLocked, NotItself, Frame, Kept, Ended, Unlocked
<1>2. ASSUME NEW s \in Sessions, create_session(s) PROVE TokensLocked' /\ NotItself'
  <2>1. /\ Frame({s}) /\ sess[s].state = "opening" /\ sess'[s].live = {1}
        /\ sess'[s].overflow = {} /\ UNCHANGED refresh
    BY <1>2, CreateFrame DEF create_session
  <2> QED BY <1>0, <2>1 DEF TokensLocked, NotItself, Frame, Kept, Ended, Unlocked
<1>3. ASSUME NEW r \in Refreshers, refresh_commit(r) PROVE TokensLocked' /\ NotItself'
  <2> DEFINE s == refresh[r].session
             e == sess[s].issued + 1
  <2>1. /\ s \in Sessions /\ Frame({s}) /\ sess'[s].live = {e}
        /\ sess'[s].overflow = sess[s].overflow
    BY <1>3, RefreshFrame
  <2>2. /\ refresh[r] # None /\ refresh'[r] = None
        /\ \A q \in Refreshers : q # r => refresh'[q] = refresh[q]
    BY <1>0, <1>3 DEF refresh_commit
  <2>3. \A q \in Refreshers : q # r /\ refresh[q] # None => refresh[q].session # s
    BY <1>0, <2>2 DEF TokensLocked
  <2> HIDE DEF s, e
  <2> QED BY <1>0, <2>1, <2>2, <2>3 DEF TokensLocked, NotItself, Frame, Kept, Ended, Unlocked
<1>4. ASSUME Frame({}), UNCHANGED refresh PROVE TokensLocked' /\ NotItself'
  BY <1>0, <1>4 DEF TokensLocked, NotItself, Frame, Kept, Ended, Unlocked
<1>5. ASSUME NEW s \in Sessions, NEW r \in Refreshers, NEW k \in 1 .. MaxTokens,
             refresh_session(r, s, k), Frame({})
      PROVE  TokensLocked' /\ NotItself'
  <2>1. CASE UNCHANGED refresh
    BY <1>4, <1>5, <2>1
  <2>2. CASE k \in sess[s].live /\ Full(s)
    <3> DEFINE new == [session |-> s, token |-> k]
    <3>1. /\ sess[s].state = "open" /\ UNCHANGED sess /\ ~TokenLocked(s, k)
          /\ refresh' = [refresh EXCEPT ![r] = new]
      BY <1>5, <2>2 DEF refresh_session, Full, Authenticates, Valid, is_session_active
    <3>2. new.session = s /\ new.token = k
      OBVIOUS
    <3>3. \A q \in Refreshers : refresh[q] # None => refresh[q].session # s
      BY <1>0, <2>2, <3>1 DEF TokensLocked, TokenLocked
    <3> HIDE DEF new
    <3>4. refresh'[r] = new /\ \A q \in Refreshers : q # r => refresh'[q] = refresh[q]
      BY <1>0, <3>1
    <3> QED BY <1>0, <2>2, <3>1, <3>2, <3>3, <3>4 DEF TokensLocked, NotItself
  <2> QED BY <1>5, <2>1, <2>2 DEF refresh_session
<1>6. CASE Frame({})
  BY <1>1, <1>2, <1>3, <1>4, <1>5, <1>6
     DEF Next, vars, revoke_my_session, logout_all_sessions, verify_totp_login, change_commit,
         revoke_pending_credentials, revoke_other_sessions_for_mfa_change, mfa_commit
<1> QED BY <1>1, <1>2, <1>3, <1>6, StepFrame

----------------------------------------------------------------------------
(* A session was asked for the factor, or has shown it.                    *)
Asked(t) == sess[t].mfa_pending \/ sess[t].mfa_authenticated

(* What an enrolment under way has not read is asked for the factor later. *)
FactorFollows ==
    /\ \A s \in Sessions :
          sess[s].state \in {"opening", "open"} /\ sess[s].covered /\ user.factor => Asked(s)
    /\ \A c \in Changes : change[c] # None /\ change[c].by # None =>
          /\ sess[change[c].by].state \in {"open", "revoked"}
          /\ change[c].factor =>
                \A s \in Sessions : sess[s].covered =>
                   /\ sess[s].state = "opening" => Asked(s)
                   /\ sess[s].state = "open" =>
                         Asked(s) \/ s \in change[c].sessions \cup {change[c].by}

(* What a step leaves of a session's factor.                               *)
FactorKept(t) ==
    /\ sess'[t].state = sess[t].state
    /\ sess'[t].covered => sess[t].covered
    /\ Asked(t) => Asked(t)'

FactorFrame(S) == \A t \in Sessions \ S : sess'[t].state = "revoked" \/ FactorKept(t)

(* Of the sessions that a step does not handle, it leaves the factor alone or ends them. *)
LEMMA FactorStepFrame ==
  ASSUME IInv, [Next]_vars
  PROVE  \/ FactorFrame({})
         \/ \E s \in Sessions : login(s) \/ create_session(s)
         \/ \E c \in Changes : mfa_commit(c)
<1>0. /\ TypeOK /\ sess \in [Sessions -> Row] /\ \A s \in Sessions : sess[s] \in Row
      /\ change \in [Changes -> Change \cup {None}]
      /\ refresh \in [Refreshers -> Refresh \cup {None}]
  BY DEF IInv, TypeOK, WritersTyped
<1>1. ASSUME UNCHANGED sess PROVE FactorFrame({})
  BY <1>1 DEF FactorFrame, FactorKept, Asked
<1>2. ASSUME NEW S \in SUBSET Sessions, sess' = revoke_session(S) PROVE FactorFrame({})
  <2>1. \A t \in Sessions : sess'[t].state = "revoked" \/ sess'[t] = sess[t]
    BY <1>0, <1>2, RevokedTyped
  <2> QED BY <2>1 DEF FactorFrame, FactorKept, Asked
<1>3. ASSUME NEW s \in Sessions, revoke_my_session(s) PROVE FactorFrame({})
  BY <1>2, <1>3 DEF revoke_my_session
<1>4. ASSUME NEW s \in Sessions, logout_all_sessions(s) PROVE FactorFrame({})
  <2>1. ActiveSessions \in SUBSET Sessions
    BY DEF ActiveSessions
  <2> QED BY <1>2, <1>4, <2>1 DEF logout_all_sessions
<1>5. ASSUME NEW s \in Sessions, verify_totp_login(s) PROVE FactorFrame({})
  <2>1. sess' = [sess EXCEPT ![s].mfa_pending = FALSE, ![s].mfa_authenticated = TRUE]
    BY <1>5 DEF verify_totp_login
  <2>2. /\ sess'[s].state = sess[s].state /\ sess'[s].covered = sess[s].covered
        /\ sess'[s].mfa_authenticated
    BY ONLY <1>0, <2>1, s \in Sessions DEF Row
  <2>3. \A t \in Sessions : t # s => sess'[t] = sess[t]
    BY ONLY <1>0, <2>1
  <2>4. Asked(s)'
    BY ONLY <2>2 DEF Asked
  <2> QED BY <2>2, <2>3, <2>4 DEF FactorFrame, FactorKept, Asked
<1>6. ASSUME NEW s \in Sessions, NEW r \in Refreshers, NEW k \in 1 .. MaxTokens,
             refresh_session(r, s, k)
      PROVE  FactorFrame({})
  BY <1>1, <1>2, <1>6 DEF refresh_session
<1>7. ASSUME NEW r \in Refreshers, refresh_commit(r) PROVE FactorFrame({})
  <2> DEFINE s == refresh[r].session
             e == sess[s].issued + 1
             f == (sess[s].live \ {refresh[r].token}) \cup {e}
  <2>1. s \in Sessions
    BY <1>0, <1>7 DEF refresh_commit, Refresh
  <2>2. sess' = [sess EXCEPT ![s].issued = e, ![s].live = f]
    BY <1>7 DEF refresh_commit
  <2> HIDE DEF s, e, f
  <2>3. \A t \in Sessions :
           /\ sess'[t].state = sess[t].state /\ sess'[t].covered = sess[t].covered
           /\ sess'[t].mfa_pending = sess[t].mfa_pending
           /\ sess'[t].mfa_authenticated = sess[t].mfa_authenticated
    BY ONLY <1>0, <2>1, <2>2 DEF Row
  <2> QED BY <2>3 DEF FactorFrame, FactorKept, Asked
<1>8. ASSUME NEW c \in Changes, change_commit(c) PROVE FactorFrame({})
  <2>1. change[c].sessions \in SUBSET Sessions
    BY <1>0, <1>8 DEF change_commit, Change
  <2> QED BY <1>2, <1>8, <2>1 DEF change_commit
<1>9. ASSUME NEW c \in Changes, NEW s \in Sessions, revoke_other_sessions_for_mfa_change(c, s)
      PROVE  FactorFrame({})
  <2>1. \A t \in Sessions : sess'[t] = sess[t] \/ sess'[t] = [sess[t] EXCEPT !.covered = FALSE]
    BY <1>9 DEF revoke_other_sessions_for_mfa_change
  <2>2. \A w \in Row : \A v : v = [w EXCEPT !.covered = FALSE] =>
           /\ v.state = w.state /\ ~v.covered
           /\ v.mfa_pending = w.mfa_pending /\ v.mfa_authenticated = w.mfa_authenticated
    BY ONLY TRUE DEF Row
  <2>3. \A u \in Sessions :
           /\ sess'[u].state = sess[u].state /\ (sess'[u].covered => sess[u].covered)
           /\ sess'[u].mfa_pending = sess[u].mfa_pending
           /\ sess'[u].mfa_authenticated = sess[u].mfa_authenticated
    BY ONLY <1>0, <2>1, <2>2
  <2> QED BY ONLY <2>3 DEF FactorFrame, FactorKept, Asked
<1> QED
  BY <1>1, <1>3, <1>4, <1>5, <1>6, <1>7, <1>8, <1>9
     DEF Next, revoke_pending_credentials, vars

(* Every step keeps the sessions covered by the factor: one case per action. *)
LEMMA FactorStep ==
  ASSUME IInv, FactorFollows, [Next]_vars
  PROVE  FactorFollows'
<1>0. /\ TypeOK /\ sess \in [Sessions -> Row] /\ \A s \in Sessions : sess[s] \in Row
      /\ change \in [Changes -> Change \cup {None}]
      /\ user \in [active : BOOLEAN, auth_version : Nat, factor : BOOLEAN]
      /\ \A c \in Changes : change[c] # None /\ change[c].by # None => change[c].by \in Sessions
  BY DEF IInv, TypeOK, WritersTyped, Change
<1>1. ASSUME NEW s \in Sessions, login(s) PROVE FactorFollows'
  <2> DEFINE n == Overflow(Cardinality(ActiveSessions))
             b == \A c \in Changes : change[c] = None \/ change[c].by = None
  <2>1. PICK old \in kSubset(n, ActiveSessions) :
           sess' = [sess EXCEPT ![s].state = "opening", ![s].auth_version = user.auth_version,
                      ![s].mfa_pending = user.factor, ![s].overflow = old, ![s].read = changes,
                      ![s].covered = b]
    BY <1>1 DEF login
  <2> HIDE DEF b, n
  <2>2. sess'[s].state = "opening" /\ sess'[s].mfa_pending = user.factor /\ sess'[s].covered = b
    BY ONLY <1>0, <2>1, s \in Sessions DEF Row
  <2>3. \A t \in Sessions : t # s => sess'[t] = sess[t]
    BY ONLY <1>0, <2>1
  <2>4. sess[s].state = "unused" /\ UNCHANGED <<user, change>>
    BY <1>1 DEF login
  <2>5. sess'[s].covered => \A c \in Changes : change[c] = None \/ change[c].by = None
    BY <2>2 DEF b
  <2> QED BY <1>0, <2>2, <2>3, <2>4, <2>5 DEF FactorFollows, Asked
<1>2. ASSUME NEW s \in Sessions, create_session(s) PROVE FactorFollows'
  <2> DEFINE S == sess[s].overflow
             ended == revoke_session(S)
  <2>1. /\ S \in SUBSET Sessions /\ s \notin S /\ sess[s].state = "opening"
        /\ UNCHANGED <<user, change>>
    BY <1>2, RowFields DEF IInv, TypeOK, NotItself, create_session
  <2>2. /\ ended \in [Sessions -> Row]
        /\ \A t \in S : ended[t].state = "revoked"
        /\ \A t \in Sessions \ S : ended[t] = sess[t]
    BY <1>0, <2>1, RevokedTyped
  <2>3. sess' = [ended EXCEPT ![s].state = "open", ![s].overflow = {}, ![s].issued = 1, ![s].live = {1}]
    BY <1>2 DEF create_session
  <2> HIDE DEF ended, S
  <2>4. /\ sess'[s].state = "open" /\ sess'[s].covered = ended[s].covered
        /\ sess'[s].mfa_pending = ended[s].mfa_pending
        /\ sess'[s].mfa_authenticated = ended[s].mfa_authenticated
    BY ONLY <2>2, <2>3, s \in Sessions DEF Row
  <2>5. ended[s] = sess[s] /\ \A t \in Sessions : t # s => sess'[t] = ended[t]
    BY ONLY <2>1, <2>2, <2>3, s \in Sessions
  <2>6. \A t \in Sessions : t # s => sess'[t].state = "revoked" \/ sess'[t] = sess[t]
    BY <2>2, <2>5
  <2> QED BY <1>0, <2>1, <2>4, <2>5, <2>6 DEF FactorFollows, Asked
<1>3. ASSUME NEW c \in Changes, mfa_commit(c) PROVE FactorFollows'
  <2>1. /\ change[c] \in Change /\ change[c] # None /\ change[c].by # None
        /\ change[c].factor \in BOOLEAN
    BY <1>0, <1>3 DEF mfa_commit, Change
  <2>2. PICK b \in Sessions, S \in SUBSET Sessions : b = change[c].by /\ S = change[c].sessions
    BY <2>1 DEF Change
  <2> DEFINE ended == revoke_session(S)
  <2>3. /\ ended \in [Sessions -> Row]
        /\ \A t \in S : ended[t].state = "revoked"
        /\ \A t \in Sessions \ S : ended[t] = sess[t]
    BY <1>0, <2>2, RevokedTyped
  <2>4. /\ user'.factor = change[c].factor /\ change'[c] = None
        /\ \A d \in Changes : d # c => change'[d] = change[d]
    BY <1>0, <1>3 DEF mfa_commit
  <2>5. IF ~change[c].factor \/ ~is_session_active(b) THEN sess' = ended
        ELSE sess' = [ended EXCEPT ![b].mfa_pending = FALSE, ![b].mfa_authenticated = TRUE]
    BY <1>3, <2>2 DEF mfa_commit
  <2>6. /\ \A t \in Sessions : sess'[t].state = ended[t].state /\ sess'[t].covered = ended[t].covered
        /\ \A t \in Sessions \ {b} : sess'[t] = ended[t]
        /\ sess'[b] = ended[b] \/ sess'[b].mfa_authenticated
        /\ change[c].factor /\ is_session_active(b) => sess'[b].mfa_authenticated
    <3> HIDE DEF ended
    <3>1. CASE sess' = ended /\ (~change[c].factor \/ ~is_session_active(b))
      BY <3>1
    <3>2. CASE sess' = [ended EXCEPT ![b].mfa_pending = FALSE, ![b].mfa_authenticated = TRUE]
      BY ONLY <2>2, <2>3, <3>2 DEF Row
    <3> QED BY <2>5, <3>1, <3>2
  <2>7. FactorFrame({})
    <3> HIDE DEF ended
    <3>1. \A t \in Sessions : ended[t].state = "revoked" \/ ended[t] = sess[t]
      BY <2>3
    <3>2. \A t \in Sessions : t # b => sess'[t].state = "revoked" \/ FactorKept(t)
      BY <2>6, <3>1 DEF FactorKept, Asked
    <3>3. sess'[b].state = "revoked" \/ FactorKept(b)
      <4>1. CASE sess'[b] = ended[b]
        BY <2>2, <3>1, <4>1 DEF FactorKept, Asked
      <4>2. CASE sess'[b].mfa_authenticated
        <5>1. Asked(b)'
          BY ONLY <4>2 DEF Asked
        <5> QED BY <2>2, <2>6, <3>1, <5>1 DEF FactorKept
      <4> QED BY <2>6, <4>1, <4>2
    <3> QED BY <3>2, <3>3 DEF FactorFrame
  <2>8. change[c].factor => \A t \in Sessions :
           sess'[t].state \in {"opening", "open"} /\ sess'[t].covered => Asked(t)'
    <3> SUFFICES ASSUME change[c].factor, NEW t \in Sessions,
                        sess'[t].state \in {"opening", "open"}, sess'[t].covered
                 PROVE  Asked(t)'
      OBVIOUS
    <3> HIDE DEF ended
    <3>1. t \notin S /\ FactorKept(t) /\ sess[t].covered
      BY <2>3, <2>6, <2>7 DEF FactorFrame, FactorKept
    <3>2. Asked(t) \/ t = b
      BY <2>1, <2>2, <3>1 DEF FactorFollows, FactorKept
    <3>3. CASE t = b
      <4>1. sess[b].state \in {"open", "revoked"}
        BY <2>1, <2>2 DEF FactorFollows
      <4>2. is_session_active(b)
        BY <3>1, <3>3, <4>1 DEF FactorKept, is_session_active
      <4> QED BY <2>6, <3>3, <4>2 DEF Asked
    <3> QED BY <3>1, <3>2, <3>3 DEF FactorKept
  <2> HIDE DEF ended
  <2> QED BY <1>0, <2>1, <2>2, <2>4, <2>7, <2>8 DEF FactorFollows, FactorFrame, FactorKept
<1>4. ASSUME FactorFrame({}), user'.factor = user.factor,
             \A c \in Changes : change'[c] # None => change'[c] = change[c] \/ change'[c].by = None
      PROVE  FactorFollows'
  BY <1>0, <1>4 DEF FactorFollows, FactorFrame, FactorKept
<1>5. ASSUME FactorFrame({}), NEW c \in Changes, NEW s \in Sessions,
             revoke_other_sessions_for_mfa_change(c, s)
      PROVE  FactorFollows'
  <2> DEFINE f == ~user.factor
             new == [by |-> s, factor |-> f, sessions |-> OpenSessions(s), read |-> changes,
                     auth_version |-> 0, active |-> FALSE]
  <2>1. /\ change' = [change EXCEPT ![c] = new] /\ UNCHANGED user
        /\ sess' = [t \in Sessions |-> IF sess[t].state # "opening" THEN sess[t]
                                       ELSE [sess[t] EXCEPT !.covered = FALSE]]
        /\ sess[s].state = "open"
    BY <1>5 DEF revoke_other_sessions_for_mfa_change, Full, Authenticates, Valid, is_session_active
  <2>2. new.by = s /\ new.factor = f /\ new.sessions = OpenSessions(s)
    OBVIOUS
  <2>3. f => ~user.factor
    BY <1>0
  <2> HIDE DEF new, f
  <2>4. change'[c] = new /\ \A d \in Changes : d # c => change'[d] = change[d]
    BY <1>0, <2>1
  <2>5. /\ \A t \in Sessions : sess'[t].state = sess[t].state
        /\ \A t \in Sessions : sess[t].state = "opening" => sess'[t].covered = FALSE
    BY ONLY <1>0, <2>1 DEF Row
  <2>6. \A t \in Sessions : sess[t].state = "open" => t \in OpenSessions(s) \cup {s}
    BY DEF OpenSessions, ActiveSessions, is_session_active
  <2> QED BY <1>0, <1>5, <2>1, <2>2, <2>4, <2>5, <2>6 DEF FactorFollows, FactorFrame, FactorKept
<1>6. CASE FactorFrame({})
  <2>1. ASSUME NEW c \in Changes, NEW active \in BOOLEAN, revoke_pending_credentials(c, active)
        PROVE  FactorFollows'
    <3>1. change'[c].by = None /\ UNCHANGED user /\ \A d \in Changes : d # c => change'[d] = change[d]
      BY <1>0, <2>1 DEF revoke_pending_credentials
    <3> QED BY <1>4, <1>6, <3>1
  <2>2. ASSUME NEW c \in Changes, change_commit(c) PROVE FactorFollows'
    <3>1. /\ user'.factor = user.factor /\ change'[c] = None
          /\ \A d \in Changes : d # c => change'[d] = change[d]
      BY <1>0, <2>2 DEF change_commit
    <3> QED BY <1>4, <1>6, <3>1
  <2>3. ASSUME UNCHANGED <<user, change>> PROVE FactorFollows'
    BY <1>4, <1>6, <2>3
  <2> QED
    BY <1>1, <1>2, <1>3, <1>5, <1>6, <2>1, <2>2, <2>3
       DEF Next, vars, revoke_my_session, logout_all_sessions, verify_totp_login,
           refresh_session, refresh_commit
<1> QED BY <1>1, <1>2, <1>3, <1>6, FactorStepFrame

(* No session is open at first. *)
LEMMA InitIInv == Init => IInv
<1> SUFFICES ASSUME Init PROVE IInv
  OBVIOUS
<1>1. /\ user = [active |-> TRUE, auth_version |-> 1, factor |-> FALSE]
      /\ sess = [s \in Sessions |-> Unused] /\ changes = 0 /\ clash = FALSE
      /\ change = [c \in Changes |-> None] /\ refresh = [r \in Refreshers |-> None]
  BY DEF Init
<1>2. Unused \in Row
  <2>1. 0 \in 0 .. MaxTokens /\ 0 \in 0 .. MaxChanges
    BY SessionsConstants
  <2> QED BY <2>1 DEF Unused, Row
<1>3. Unused.state = "unused" /\ Unused.live = {} /\ Unused.overflow = {}
  BY DEF Unused
<1>4. TypeOK
  <2>1. sess \in [Sessions -> Row]
    BY ONLY <1>1, <1>2
  <2>2. 0 \in 0 .. MaxChanges
    BY ONLY SessionsConstants
  <2> QED BY ONLY <1>1, <2>1, <2>2 DEF TypeOK
<1>5. WritersTyped
  BY <1>1 DEF WritersTyped
<1>6. VersionsCount
  BY <1>1, <1>3 DEF VersionsCount
<1>7. TokensLocked /\ NotItself
  BY <1>1, <1>3 DEF TokensLocked, NotItself
<1> QED BY <1>4, <1>5, <1>6, <1>7 DEF IInv

(* Every step keeps the invariant. *)
LEMMA NextIInv == IInv /\ [Next]_vars => IInv'
BY TypeStep, VersionStep, TokenStep DEF IInv

THEOREM Invariance == Spec => []IInv
BY InitIInv, NextIInv, PTL DEF Spec

(* Type correctness of the sessions.                                       *)
THEOREM SessionsTypeCorrect == Spec => []TypeOK
<1>1. IInv => TypeOK
  BY DEF IInv
<1> QED BY <1>1, Invariance, PTL

(* A committed change of the credentials ends what was opened, or was      *)
(* being opened, before it; unless two changes overlap.                    *)
THEOREM SessionsChangeEnds == Spec => []ChangeEndsSessions
<1>1. IInv => ChangeEndsSessions
  <2> SUFFICES ASSUME IInv, NEW s \in Sessions, Authenticates(s), ~clash
               PROVE  sess[s].read = changes
    BY DEF ChangeEndsSessions
  <2>1. sess[s].read \in 0 .. MaxChanges /\ changes \in 0 .. MaxChanges
    BY RowFields DEF IInv, TypeOK
  <2>2. sess[s].state = "open" /\ sess[s].auth_version = user.auth_version
    BY DEF Authenticates, Valid, is_session_active
  <2> QED BY <2>1, <2>2 DEF IInv, VersionsCount
<1> QED BY <1>1, Invariance, PTL

(* A session has one usable refresh token at most, however refreshes,      *)
(* repetitions and revocations overlap.                                    *)
THEOREM SessionsOneLiveToken == Spec => []OneLiveToken
<1>1. IInv => OneLiveToken
  <2> SUFFICES ASSUME IInv, NEW s \in Sessions PROVE Cardinality(sess[s].live) <= 1
    BY DEF OneLiveToken
  <2>1. \A j, k \in sess[s].live : j = k
    BY DEF IInv, TokensLocked
  <2> DEFINE L == sess[s].live
  <2>2. L = {} \/ \E k : L = {k}
    BY <2>1
  <2> HIDE DEF L
  <2>3. Cardinality(L) = 0 \/ Cardinality(L) = 1
    BY ONLY <2>2, FS_EmptySet, FS_Singleton, Zenon
  <2>4. Cardinality(L) <= 1
    BY ONLY <2>3
  <2> QED BY <2>4 DEF L
<1> QED BY <1>1, Invariance, PTL

(* What a change of the credentials or the rotation of a token replaces is *)
(* of no use afterwards.                                                   *)
THEOREM SessionsReplacedEnd == Spec => []ReplacedCredentialsEnd
<1>1. ChangeEndsSessions /\ OneLiveToken => ReplacedCredentialsEnd
  BY DEF ReplacedCredentialsEnd
<1> QED BY <1>1, SessionsChangeEnds, SessionsOneLiveToken, PTL

(* With a second factor enrolled no full session goes without it, unless   *)
(* its login overlapped the enrolment: what an enrolment has not read is   *)
(* asked for the factor by its own login.                                  *)
THEOREM SessionsFactorCovers == Spec => []FactorCoversSessions
<1>1. Init => FactorFollows
  <2>1. Unused.state = "unused"
    BY DEF Unused
  <2> QED BY <2>1 DEF Init, FactorFollows
<1>2. IInv /\ FactorFollows /\ [Next]_vars => FactorFollows'
  BY FactorStep
<1>3. FactorFollows => FactorCoversSessions
  BY DEF FactorFollows, FactorCoversSessions, Asked, Full, Authenticates, Valid, is_session_active
<1> QED BY <1>1, <1>2, <1>3, Invariance, PTL DEF Spec

----------------------------------------------------------------------------
(***************************************************************************)
(* Enrollment.  A token is spent by the identity it makes, and the row of  *)
(* the token is locked until then, so no two requests make one each        *)
(* (Spent); and what a host has written of an identity is removed in an    *)
(* order that leaves no later part without an earlier one (FilesInOrder).  *)
(***************************************************************************)
Presenting == {"asked", "locked", "answered"}
Writing == {"key", "cert", "cred"}

Command == [op : {"none", "revoke", "rm_key", "rm_cert", "rm_state", "rm_cred"} \cup Presenting \cup Writing,
            token : EnrollTokens \cup {None}, id : Identities \cup {None}]

EnrollTyped ==
    /\ enrollToken \in [EnrollTokens -> [st : {"none", "valid", "expired", "used"}, auto : BOOLEAN]]
    /\ status \in [Identities -> {"none", "pending_enrollment", "enrolled", "disabled", "revoked"}]
    /\ source \in [Identities -> EnrollTokens \cup {None}]
    /\ approving \in Identities \cup {None}
    /\ disk \in [Hosts -> [E!Files -> Identities \cup {None}]]
    /\ cmd \in [Hosts -> Command]
    /\ \A h \in Hosts : cmd[h].op \in Presenting => cmd[h].token \in EnrollTokens

Spent ==
    /\ \A p \in Identities : status[p] = "none" => source[p] = None
    /\ \A p \in Identities : source[p] # None => enrollToken[source[p]].st = "used"
    /\ \A p, q \in Identities : source[p] # None /\ source[p] = source[q] => p = q
    /\ \A h \in Hosts : cmd[h].op = "locked" =>
          /\ enrollToken[cmd[h].token].st \in {"valid", "expired"}
          /\ \A g \in Hosts : cmd[g].op = "locked" /\ cmd[g].token = cmd[h].token => g = h

FilesInOrder ==
    \A h \in Hosts :
       /\ cmd[h].op = "rm_cred" => disk[h]["state"] = None
       /\ h \notin cut =>
          /\ cmd[h].op \in {"none", "revoke", "rm_key"} /\ disk[h]["state"] # None =>
                \A f \in E!Files : disk[h][f] = disk[h]["state"]
          /\ cmd[h].op \in Presenting \cup Writing => disk[h]["state"] = None
          /\ cmd[h].op \in Writing => disk[h]["key"] = cmd[h].id
          /\ cmd[h].op \in {"cert", "cred"} => disk[h]["cert"] = cmd[h].id
          /\ cmd[h].op = "cred" => disk[h]["cred"] = cmd[h].id
          /\ cmd[h].op \in {"rm_cert", "rm_state"} => disk[h]["key"] = None

EnrollInv == EnrollTyped /\ Spent /\ FilesInOrder

(* No code has been spent and no file written at first. *)
LEMMA InitEnroll == E!Init => EnrollInv
BY DEF E!Init, EnrollInv, EnrollTyped, Spent, FilesInOrder, E!NoFiles, E!NoCommand, E!Files, Presenting, Writing, Command

(* Every step of the dashboard and of the Scout keeps the invariant: one case per action. *)
LEMMA NextEnroll == EnrollInv /\ [E!Next]_enrollVars => EnrollInv'
<1> SUFFICES ASSUME EnrollInv, [E!Next]_enrollVars PROVE EnrollInv'
  OBVIOUS
<1> USE DEF EnrollInv, EnrollTyped, Spent, FilesInOrder, E!NoFiles, E!NoCommand, E!Files, Presenting, Writing, Command
<1>1. ASSUME NEW t \in EnrollTokens, E!create_enrollment_token(t) PROVE EnrollInv'
  BY <1>1 DEF E!create_enrollment_token
<1>2. ASSUME NEW t \in EnrollTokens, E!ensure_local_scout_enrollment(t) PROVE EnrollInv'
  BY <1>2 DEF E!ensure_local_scout_enrollment
<1>3. ASSUME NEW t \in EnrollTokens, E!expires(t) PROVE EnrollInv'
  BY <1>3 DEF E!expires
<1>4. ASSUME NEW h \in Hosts, E!enroll_begin(h) PROVE EnrollInv'
  <2>1. EnrollTyped'
    BY <1>4 DEF E!enroll_begin
  <2>2. Spent'
    <3>1. CASE enrollToken[cmd[h].token].st = "valid"
      BY <1>4, <3>1 DEF E!enroll_begin, E!FreeToLock
    <3>2. CASE enrollToken[cmd[h].token].st # "valid"
      BY <1>4, <3>2 DEF E!enroll_begin
    <3> QED BY <3>1, <3>2
  <2>3. FilesInOrder'
    BY <1>4 DEF E!enroll_begin
  <2> QED BY <2>1, <2>2, <2>3
<1>5. ASSUME NEW h \in Hosts, E!enroll_probe(h) PROVE EnrollInv'
  <2>1. PICK p \in Identities :
          /\ cmd[h].op = "locked" /\ status[p] = "none"
          /\ status' = [status EXCEPT ![p] = IF enrollToken[cmd[h].token].auto THEN "enrolled" ELSE "pending_enrollment"]
          /\ source' = [source EXCEPT ![p] = cmd[h].token]
          /\ enrollToken' = [enrollToken EXCEPT ![cmd[h].token].st = "used"]
          /\ cmd' = [cmd EXCEPT ![h].op = "answered", ![h].id = p]
          /\ UNCHANGED <<local, approving, disk, events, cut>>
    BY <1>5 DEF E!enroll_probe
  <2>2. EnrollTyped'
    <3>0. cmd[h] \in Command
      OBVIOUS
    <3>1. [cmd[h] EXCEPT !.op = "answered", !.id = p] \in Command
      BY ONLY <3>0, p \in Identities DEF Command, Presenting
    <3>2. cmd' \in [Hosts -> Command]
      BY ONLY <2>1, <3>1, cmd \in [Hosts -> Command]
    <3>3. status' \in [Identities -> {"none", "pending_enrollment", "enrolled", "disabled", "revoked"}]
      BY ONLY <2>1, status \in [Identities -> {"none", "pending_enrollment", "enrolled", "disabled", "revoked"}]
    <3>4. source' \in [Identities -> EnrollTokens \cup {None}]
      <4>1. cmd[h].token \in EnrollTokens \cup {None}
        BY ONLY <3>0 DEF Command
      <4> QED BY ONLY <2>1, <4>1, source \in [Identities -> EnrollTokens \cup {None}]
    <3>5. enrollToken' \in [EnrollTokens -> [st : {"none", "valid", "expired", "used"}, auto : BOOLEAN]]
      BY ONLY <2>1, enrollToken \in [EnrollTokens -> [st : {"none", "valid", "expired", "used"}, auto : BOOLEAN]]
    <3>6. \A k \in Hosts : cmd'[k].op \in Presenting => cmd'[k].token \in EnrollTokens
      BY <2>1 DEF Presenting
    <3> HIDE DEF EnrollTyped
    <3>7. approving' \in Identities \cup {None} /\ disk' \in [Hosts -> [E!Files -> Identities \cup {None}]]
      BY <2>1 DEF EnrollTyped
    <3> QED BY ONLY <3>2, <3>3, <3>4, <3>5, <3>6, <3>7 DEF EnrollTyped
  <2>3. Spent'
    <3>1. \A q \in Identities : source'[q] = IF q = p THEN cmd[h].token ELSE source[q]
      BY <2>1
    <3>2. \A t \in EnrollTokens : enrollToken'[t].st = IF t = cmd[h].token THEN "used" ELSE enrollToken[t].st
      BY <2>1
    <3>3. \A g \in Hosts : cmd'[g].op = IF g = h THEN "answered" ELSE cmd[g].op
      BY <2>1
    <3>4. \A g \in Hosts : cmd'[g].token = cmd[g].token
      BY <2>1
    <3>5. \A q \in Identities : status'[q] = "none" => q # p /\ status[q] = "none"
      BY <2>1
    <3> QED BY <2>1, <3>1, <3>2, <3>3, <3>4, <3>5
  <2>4. FilesInOrder'
    <3>1. \A g \in Hosts : g # h => cmd'[g] = cmd[g]
      BY <2>1
    <3>2. cmd'[h].op = "answered"
      BY <2>1
    <3> QED BY <2>1, <3>1, <3>2
  <2> QED BY <2>2, <2>3, <2>4
<1>6. ASSUME NEW h \in Hosts, E!enroll_fails(h) PROVE EnrollInv'
  BY <1>6 DEF E!enroll_fails
<1>7. ASSUME NEW h \in Hosts, E!Enroll(h) PROVE EnrollInv'
  BY <1>7 DEF E!Enroll, E!Then
<1>8. ASSUME NEW h \in Hosts, E!crash(h) PROVE EnrollInv'
  BY <1>8 DEF E!crash
<1>9. ASSUME NEW h \in Hosts, E!runReset(h) PROVE EnrollInv'
  BY <1>9 DEF E!runReset, E!IsEnrolled
<1>10. ASSUME NEW h \in Hosts, E!self_revoke(h) PROVE EnrollInv'
  <2>1. /\ cmd[h].op = "revoke" /\ cmd' = [cmd EXCEPT ![h].op = "rm_key"]
        /\ UNCHANGED <<local, enrollToken, source, approving, disk, cut>>
    BY <1>10 DEF E!self_revoke
  <2>2. status' = status \/ \E p \in Identities : status[p] # "none" /\ status' = [status EXCEPT ![p] = "revoked"]
    BY <1>10 DEF E!self_revoke, E!Served
  <2>3. EnrollTyped'
    <3>1. [cmd[h] EXCEPT !.op = "rm_key"] \in Command
      BY DEF EnrollInv, EnrollTyped
    <3>2. cmd' \in [Hosts -> Command]
      BY ONLY <2>1, <3>1, cmd \in [Hosts -> Command]
    <3>3. status' \in [Identities -> {"none", "pending_enrollment", "enrolled", "disabled", "revoked"}]
      BY <2>2
    <3> QED BY <2>1, <3>2, <3>3
  <2>5. Spent'
    <3>1. \A p \in Identities : status'[p] = "none" => status[p] = "none"
      BY <2>2
    <3> QED BY <2>1, <3>1
  <2>4. FilesInOrder'
    BY <2>1
  <2> QED BY <2>3, <2>4, <2>5
<1>11. ASSUME NEW h \in Hosts, E!Reset(h) PROVE EnrollInv'
  <2>1. ASSUME NEW f \in E!Files, NEW o \in {"rm_cert", "rm_state", "rm_cred", "none"},
               disk' = [disk EXCEPT ![h][f] = None],
               \/ cmd[h].op = "rm_key" /\ f = "key" /\ o = "rm_cert"
               \/ cmd[h].op = "rm_cert" /\ f = "cert" /\ o = "rm_state"
               \/ cmd[h].op = "rm_state" /\ f = "state" /\ o = "rm_cred"
               \/ cmd[h].op = "rm_cred" /\ f = "cred" /\ o = "none",
               cmd' = [cmd EXCEPT ![h] = IF o = "none" THEN E!NoCommand ELSE [@ EXCEPT !.op = o]],
               cut' = IF o = "none" THEN cut \ {h} ELSE cut,
               UNCHANGED <<local, enrollToken, status, source, approving>>
        PROVE  EnrollInv'
    <3>1. \A g \in Hosts : g # h => cmd'[g] = cmd[g] /\ disk'[g] = disk[g]
      BY <2>1
    <3>2. cmd'[h].op = o /\ \A e \in E!Files : disk'[h][e] = IF e = f THEN None ELSE disk[h][e]
      BY <2>1
    <3>3. EnrollTyped'
      <4>0. cmd[h] \in Command /\ o \in {"rm_cert", "rm_state", "rm_cred", "none"}
        OBVIOUS
      <4>1. E!NoCommand \in Command /\ [cmd[h] EXCEPT !.op = o] \in Command
        BY ONLY <4>0 DEF Command, E!NoCommand
      <4>2. cmd' \in [Hosts -> Command]
        BY ONLY <2>1, <4>1, cmd \in [Hosts -> Command]
      <4>3. disk' \in [Hosts -> [E!Files -> Identities \cup {None}]]
        BY <2>1
      <4>4. o # "none" => cmd'[h].token = cmd[h].token
        BY <2>1
      <4> QED BY <2>1, <3>1, <3>2, <4>2, <4>3
    <3>4. Spent'
      BY <2>1, <3>1, <3>2
    <3>5. FilesInOrder'
      BY <2>1, <3>1, <3>2
    <3> QED BY <3>3, <3>4, <3>5
  <2>2. cmd[h].op \in {"rm_key", "rm_cert", "rm_state", "rm_cred"}
    BY <1>11 DEF E!Reset, E!Removes
  <2>3. CASE cmd[h].op = "rm_key"
    BY <1>11, <2>1, <2>3 DEF E!Reset, E!Removes, E!ResetThen
  <2>4. CASE cmd[h].op = "rm_cert"
    BY <1>11, <2>1, <2>4 DEF E!Reset, E!Removes, E!ResetThen
  <2>5. CASE cmd[h].op = "rm_state"
    BY <1>11, <2>1, <2>5 DEF E!Reset, E!Removes, E!ResetThen
  <2>6. CASE cmd[h].op = "rm_cred"
    BY <1>11, <2>1, <2>6 DEF E!Reset, E!Removes, E!ResetThen
  <2> QED BY <2>2, <2>3, <2>4, <2>5, <2>6
<1>12. ASSUME NEW p \in Identities, E!approve_begin(p) PROVE EnrollInv'
  BY <1>12 DEF E!approve_begin
<1>13. ASSUME NEW p \in Identities, E!revoke_probe(p) PROVE EnrollInv'
  BY <1>13 DEF E!revoke_probe
<1>14. ASSUME NEW p \in Identities, E!disable_probe(p) PROVE EnrollInv'
  BY <1>14 DEF E!disable_probe
<1>15. ASSUME NEW h \in Hosts, NEW t \in EnrollTokens, E!runEnroll(h, t) PROVE EnrollInv'
  BY <1>15 DEF E!runEnroll, E!IsEnrolled
<1>16. CASE E!approve_probe
  BY <1>16 DEF E!approve_probe
<1>17. CASE UNCHANGED enrollVars
  BY <1>17 DEF enrollVars
<1> QED BY <1>1, <1>2, <1>3, <1>4, <1>5, <1>6, <1>7, <1>8, <1>9, <1>10, <1>11, <1>12, <1>13, <1>14, <1>15, <1>16, <1>17 DEF E!Next

(***************************************************************************)
(* An enrollment token makes one identity at most, however many hosts      *)
(* present it: enroll_probe locks the row of the token until it is spent.  *)
(* And a host that takes itself for enrolled holds the files of one        *)
(* identity, whatever was lost on the way, unless a reset was cut short.   *)
(***************************************************************************)
THEOREM IdentityOneIdentity == E!Spec => []OneIdentity
<1>1. EnrollInv => OneIdentity
  BY DEF EnrollInv, EnrollTyped, Spent, FilesInOrder, OneIdentity, E!OneIdentity, E!IsEnrolled, E!Files, Presenting, Writing, Command
<1>2. E!Spec => []EnrollInv
  BY InitEnroll, NextEnroll, PTL DEF E!Spec, enrollVars, E!enrollVars
<1> QED BY <1>1, <1>2, PTL

----------------------------------------------------------------------------
(***************************************************************************)
(* Single sign-on.  The numbers of the configuration and of the mappings   *)
(* only grow, so what was read and has the present numbers is of the       *)
(* present provider (ReadBefore); a recorded test is of the present        *)
(* numbers, or was recorded by a callback that had read others             *)
(* (TestedIsProved); and a provider is enabled by a request that had found *)
(* it tested, which with the same numbers it still is (StillTested).       *)
(***************************************************************************)
SsoTyped ==
    /\ idp = [config |-> idp.config, mapping |-> idp.mapping, validated |-> idp.validated,
              tested |-> idp.tested, enabled |-> idp.enabled]
    /\ idp.config \in Nat /\ idp.mapping \in Nat
    /\ crossed = [provider |-> crossed.provider, access |-> crossed.access]
    /\ account = [linked |-> account.linked, from |-> account.from]

ReadBefore ==
    request # None =>
        /\ request.kind \in {"validate", "enable", "enforce"}
        /\ request.idp.config \in Nat /\ request.idp.config <= idp.config
        /\ request.idp.mapping \in Nat /\ request.idp.mapping <= idp.mapping

StillTested ==
    request # None /\ request.kind = "enable" /\ O!Version(request.idp) = O!Version(idp) => idp.tested

TestedIsProved ==
    /\ idp.tested => proved = O!Version(idp) \/ crossed.provider
    /\ idp.enabled => idp.tested \/ crossed.provider
    /\ account.from # None => account.from = idp.mapping \/ crossed.access

SsoInv == SsoTyped /\ ReadBefore /\ StillTested /\ TestedIsProved

(* A provider that was just created. *)
LEMMA InitSso == O!Init => SsoInv
BY DEF O!Init, SsoInv, SsoTyped, ReadBefore, StillTested, TestedIsProved, O!NoMapping

(* Another configuration or other mappings take the test away. *)
LEMMA ChangeSso ==
  ASSUME SsoInv, \/ \E v \in BOOLEAN : O!update_provider(v)
                 \/ O!import_provider_metadata \/ O!replace_group_mappings
  PROVE  SsoInv'
<1>1. /\ request' = request /\ idp'.tested = FALSE /\ idp'.enabled = FALSE
      /\ idp' = [config |-> idp'.config, mapping |-> idp'.mapping, validated |-> idp'.validated,
                 tested |-> idp'.tested, enabled |-> idp'.enabled]
      /\ \/ idp'.config = idp.config + 1 /\ idp'.mapping = idp.mapping
         \/ idp'.config = idp.config /\ idp'.mapping = idp.mapping + 1
  BY DEF SsoInv, SsoTyped, O!update_provider, O!import_provider_metadata, O!replace_group_mappings
<1>2. /\ crossed' = [provider |-> crossed'.provider, access |-> crossed'.access]
      /\ account' = [linked |-> account'.linked, from |-> account'.from]
      /\ \/ account'.from = None
         \/ account' = account /\ crossed'.access = crossed.access /\ idp'.mapping = idp.mapping
  BY DEF SsoInv, SsoTyped, O!update_provider, O!import_provider_metadata, O!replace_group_mappings, O!Baseline
<1>3. SsoTyped' /\ ReadBefore'
  BY <1>1, <1>2 DEF SsoInv, SsoTyped, ReadBefore
<1>4. request # None => O!Version(request.idp) # O!Version(idp')
  BY <1>1 DEF SsoInv, SsoTyped, ReadBefore, O!Version
<1>5. StillTested'
  BY <1>1, <1>4 DEF StillTested
<1>6. TestedIsProved'
  BY <1>1, <1>2 DEF SsoInv, TestedIsProved
<1> QED BY <1>3, <1>5, <1>6 DEF SsoInv

(* A request reads the provider, and writes when it commits. *)
LEMMA RequestReads ==
  ASSUME SsoInv, O!validate_oidc_discovery \/ O!set_provider_enabled \/ O!enforcement_readiness
  PROVE  SsoInv'
<1>1. PICK k \in {"validate", "enable", "enforce"} :
               /\ request' = [kind |-> k, idp |-> idp] /\ (k = "enable" => idp.tested)
               /\ UNCHANGED <<idp, account, proved, crossed>>
  BY DEF O!validate_oidc_discovery, O!set_provider_enabled, O!enforcement_readiness, O!Reads
<1>2. request'.kind = k /\ request'.idp = idp
  BY <1>1
<1>3. SsoTyped' /\ TestedIsProved'
  BY <1>1 DEF SsoInv, SsoTyped, TestedIsProved
<1>4. ReadBefore' /\ StillTested'
  BY <1>1, <1>2 DEF SsoInv, SsoTyped, ReadBefore, StillTested
<1> QED BY <1>3, <1>4 DEF SsoInv

(* And it writes: who enables a provider found it tested. *)
LEMMA RequestCommits ==
  ASSUME SsoInv, O!Commits
  PROVE  SsoInv'
<1>1. /\ request # None /\ request' = None /\ account' = account /\ proved' = proved
      /\ idp' = [config |-> idp.config, mapping |-> idp.mapping, validated |-> idp'.validated,
                 tested |-> idp.tested, enabled |-> idp'.enabled]
      /\ idp'.enabled = idp.enabled \/ (request.kind = "enable" /\ idp'.enabled = TRUE)
  <2>1. request # None /\ request' = None /\ account' = account /\ proved' = proved
        /\ request.kind \in {"validate", "enable", "enforce"}
    BY DEF O!Commits, SsoInv, ReadBefore
  <2>2. CASE request.kind = "validate"
    <3>1. idp' = [idp EXCEPT !.validated = TRUE]
      BY <2>2 DEF O!Commits
    <3> QED BY <2>1, <3>1 DEF SsoInv, SsoTyped
  <2>3. CASE request.kind = "enable"
    <3>1. idp' = [idp EXCEPT !.enabled = TRUE]
      BY <2>3 DEF O!Commits
    <3> QED BY <2>1, <2>3, <3>1 DEF SsoInv, SsoTyped
  <2>4. CASE request.kind = "enforce"
    <3>1. idp' = idp
      BY <2>4 DEF O!Commits
    <3> QED BY <2>1, <3>1 DEF SsoInv, SsoTyped
  <2> QED BY <2>1, <2>2, <2>3, <2>4
<1>2. PICK c : c = (crossed.provider \/ O!Version(request.idp) # O!Version(idp))
  OBVIOUS
<1>3. crossed' = [crossed EXCEPT !.provider = c]
  BY <1>2 DEF O!Commits
<1>4. crossed' = [provider |-> crossed'.provider, access |-> crossed'.access]
      /\ crossed'.provider = c /\ crossed'.access = crossed.access
  BY <1>3 DEF SsoInv, SsoTyped
<1>5. O!Version(idp') = O!Version(idp) /\ idp'.tested = idp.tested /\ idp'.mapping = idp.mapping
  BY <1>1 DEF O!Version
<1>6. SsoTyped'
  BY <1>1, <1>4 DEF SsoInv, SsoTyped
<1>7. crossed.provider => crossed'.provider
  BY <1>2, <1>4
<1>8. O!Version(request.idp) # O!Version(idp) => crossed'.provider
  BY <1>2, <1>4
<1>9. TestedIsProved'
  BY <1>1, <1>4, <1>5, <1>7, <1>8 DEF SsoInv, StillTested, TestedIsProved
<1> QED BY <1>1, <1>6, <1>9 DEF SsoInv, ReadBefore, StillTested

(* A callback ends: a test is recorded, or the account has what it was given. *)
LEMMA LoginEnds ==
  ASSUME SsoInv, NEW k \in Callbacks, O!_finish_login(k)
  PROVE  SsoInv'
<1> DEFINE seen == <<callback[k].idp.config, callback[k].mapping>>
           test == callback[k].purpose = "test"
<1>1. request' = request /\ account' = (IF callback[k].purpose = "login"
                  THEN [linked |-> TRUE, from |-> callback[k].mapping] ELSE account)
      /\ idp' = (IF test THEN [idp EXCEPT !.tested = TRUE] ELSE idp)
      /\ proved' = (IF test THEN seen ELSE proved)
  BY DEF O!_finish_login, O!TestPassed
<1>2. PICK p, a : /\ crossed' = [provider |-> p, access |-> a]
                  /\ (crossed.provider => p) /\ (crossed.access => a)
                  /\ (test /\ seen # O!Version(idp) => p)
                  /\ (~test /\ seen[2] # idp.mapping => a)
  BY DEF O!_finish_login, O!TestPassed
<1>3. crossed' = [provider |-> crossed'.provider, access |-> crossed'.access] /\ crossed'.provider = p /\ crossed'.access = a
  BY <1>2
<1>4. idp' = [config |-> idp.config, mapping |-> idp.mapping, validated |-> idp.validated,
              tested |-> idp'.tested, enabled |-> idp.enabled]
      /\ (idp.tested => idp'.tested) /\ (~test => idp' = idp)
  BY <1>1 DEF SsoInv, SsoTyped
<1>5. O!Version(idp') = O!Version(idp) /\ idp'.config = idp.config /\ idp'.mapping = idp.mapping /\ idp'.enabled = idp.enabled
  BY <1>4 DEF O!Version
<1>6. SsoTyped'
  BY <1>1, <1>3, <1>4 DEF SsoInv, SsoTyped
<1>7. ReadBefore' /\ StillTested'
  BY <1>1, <1>4, <1>5 DEF SsoInv, ReadBefore, StillTested
<1>8. test => proved' = O!Version(idp) \/ p
  BY <1>1, <1>2
<1>9. account'.from # None => account'.from = idp.mapping \/ a
  <2>1. CASE callback[k].purpose = "login"
    <3>1. ~test /\ account'.from = seen[2]
      BY <2>1, <1>1
    <3> QED BY <3>1, <1>2
  <2>2. CASE callback[k].purpose # "login"
    BY <2>2, <1>1, <1>2 DEF SsoInv, TestedIsProved
  <2> QED BY <2>1, <2>2
<1>10. ~test => proved' = proved
  BY <1>1
<1> HIDE DEF seen, test
<1>11. TestedIsProved'
  BY <1>2, <1>3, <1>4, <1>5, <1>8, <1>9, <1>10 DEF SsoInv, TestedIsProved
<1> QED BY <1>6, <1>7, <1>11 DEF SsoInv

(* Every step of single sign-on keeps the invariant: one case per action. *)
LEMMA NextSso == SsoInv /\ [O!Next]_(O!vars) => SsoInv'
<1> SUFFICES ASSUME SsoInv, [O!Next]_(O!vars) PROVE SsoInv'
  OBVIOUS
<1>1. CASE (\E v \in BOOLEAN : O!update_provider(v)) \/ O!import_provider_metadata \/ O!replace_group_mappings
  BY <1>1, ChangeSso
<1>2. CASE O!validate_oidc_discovery \/ O!set_provider_enabled \/ O!enforcement_readiness
  BY <1>2, RequestReads
<1>3. CASE O!Commits
  BY <1>3, RequestCommits
<1>4. CASE O!request_fails
  BY <1>4 DEF O!request_fails, SsoInv, SsoTyped, ReadBefore, StillTested, TestedIsProved
<1>5. CASE O!disable_provider
  <2>1. /\ UNCHANGED <<request, account, proved, crossed>>
        /\ idp' = [config |-> idp.config, mapping |-> idp.mapping, validated |-> idp.validated,
                   tested |-> idp.tested, enabled |-> FALSE]
    BY <1>5 DEF O!disable_provider, SsoInv, SsoTyped
  <2>2. O!Version(idp') = O!Version(idp)
    BY <2>1 DEF O!Version
  <2> QED BY <2>1, <2>2 DEF SsoInv, SsoTyped, ReadBefore, StillTested, TestedIsProved
<1>6. ASSUME NEW k \in Callbacks, O!_finish_login(k) PROVE SsoInv'
  BY <1>6, LoginEnds
<1>7. CASE \/ \E mode \in {"disabled", "optional"}, selected \in BOOLEAN : O!update_policy(mode, selected)
           \/ \E s \in States : \/ O!start_login(s) \/ O!start_test_login(s)
                                \/ \E k \in Callbacks : O!oidc_callback(k, s)
           \/ \E k \in Callbacks : O!callback_fails(k) \/ O!resolve_sso_user(k)
           \/ UNCHANGED O!vars
  <2>1. UNCHANGED <<idp, request, account, proved, crossed>>
    BY <1>7 DEF O!update_policy, O!start_login, O!start_test_login, O!oidc_callback, O!callback_fails,
       O!resolve_sso_user, O!vars
  <2> QED BY <2>1 DEF SsoInv, SsoTyped, ReadBefore, StillTested, TestedIsProved
<1> QED BY <1>1, <1>2, <1>3, <1>4, <1>5, <1>6, <1>7 DEF O!Next

(***************************************************************************)
(* test_provider, update_provider and the callbacks of single sign-on: an  *)
(* enabled provider was tested as it is configured now, and what a sign-on *)
(* gave comes from the present mappings, unless requests crossed.          *)
(***************************************************************************)
THEOREM IdentitySignOnIsCurrent == O!Spec => []SignOnIsCurrent
<1>1. SsoInv => SignOnIsCurrent
  BY DEF SsoInv, TestedIsProved, SignOnIsCurrent, O!SignOnIsCurrent
<1>2. O!Spec => []SsoInv
  BY InitSso, NextSso, PTL DEF O!Spec
<1> QED BY <1>1, <1>2, PTL

----------------------------------------------------------------------------
(***************************************************************************)
(* Provisioning.  What a request is to commit is right as long as nobody   *)
(* has committed since it derived it (Derives); everybody whom its change  *)
(* concerns is recomputed.                                                 *)
(***************************************************************************)
Left(r) == [P!Now EXCEPT ![r.group] = [map |-> r.change.map, members |-> r.change.members]]

AccessLeft(r, u) == IF u \in DOMAIN r.writes THEN r.writes[u] ELSE access[u]

CallTyped(r) ==
    /\ r = [kind |-> r.kind, group |-> r.group, step |-> r.step, saw |-> r.saw, change |-> r.change,
            affected |-> r.affected, writes |-> r.writes, beside |-> r.beside]
    /\ r.group \in ScimGroups
    /\ r.kind \in {"create", "replace", "patch", "delete", "map"}

Derives(r) ==
    /\ member[r.group] \cup r.change.members \subseteq r.affected
    /\ \A u \in r.affected \cap Members : AccessLeft(r, u) = P!Derived(Left(r), u)

ScimInv ==
    /\ group = [g \in ScimGroups |-> group[g]]
    /\ member = [g \in ScimGroups |-> member[g]]
    /\ call = [c \in Clients |-> call[c]]
    /\ \A c \in Clients : call[c] # None =>
          /\ CallTyped(call[c])
          /\ call[c].step = "wrote" =>
                DOMAIN call[c].writes \subseteq call[c].affected /\ (call[c].beside \/ Derives(call[c]))
    /\ P!AccessFollowsGroups

(* What an account derives depends on the groups it is a member of.        *)
LEMMA DerivedFrom ==
  ASSUME NEW gs, NEW hs, NEW u,
         \A g \in ScimGroups :
            \/ gs[g] = hs[g]
            \/ u \notin gs[g].members /\ u \notin hs[g].members
  PROVE  P!Derived(gs, u) = P!Derived(hs, u)
<1> DEFINE In(x) == {h \in ScimGroups : x[h].map # None /\ u \in x[h].members}
           Of(x) == {x[g].map : g \in In(x)}
<1>1. In(gs) = In(hs) /\ \A g \in In(gs) : gs[g].map = hs[g].map
  OBVIOUS
<1>2. Of(gs) = Of(hs)
  BY <1>1
<1> QED BY <1>2 DEF P!Derived

(* Without groups everybody is a viewer. *)
LEMMA InitScim == P!Init => ScimInv
<1> SUFFICES ASSUME P!Init PROVE ScimInv
  OBVIOUS
<1>1. P!Max({1}) = 1 /\ P!Max({0}) = 0
  BY DEF P!Max
<1>2. \A u \in Members : P!Derived(P!Now, u) = P!Viewer
  <2> TAKE u \in Members
  <2>1. {h \in ScimGroups : P!Now[h].map # None /\ u \in P!Now[h].members} = {}
    BY DEF P!Init, P!Now
  <2> QED BY <2>1, <1>1 DEF P!Derived, P!Viewer
<1> QED BY <1>2 DEF P!Init, ScimInv, P!AccessFollowsGroups

(* Until a request commits, what another has derived stays right. *)
LEMMA DerivesStays ==
  ASSUME UNCHANGED <<group, member, access>>
  PROVE  \A c \in Clients : call'[c] = call[c] /\ Derives(call[c]) => Derives(call[c])'
<1>1. P!Now' = P!Now
  BY DEF P!Now
<1> QED BY <1>1 DEF Derives, AccessLeft, Left

(* A step that touches neither memberships nor access keeps the property. *)
LEMMA AccessStays ==
  ASSUME P!AccessFollowsGroups, UNCHANGED <<group, member, access, beside>>
  PROVE  P!AccessFollowsGroups'
<1>1. P!Now' = P!Now
  BY DEF P!Now
<1>2. \A u \in Members \ beside' : access'[u] = P!Derived(P!Now', u)
  BY <1>1 DEF P!AccessFollowsGroups
<1> QED BY <1>2 DEF P!AccessFollowsGroups

(* A request begins, fails, or a token is replaced or revoked. *)
LEMMA QuietScim ==
  ASSUME ScimInv,
         \/ \E c \in Clients, t \in ScimTokens, k \in {"create", "replace", "patch", "delete", "map"}, g \in ScimGroups :
               P!Begins(c, t, k, g)
         \/ \E c \in Clients : P!Fails(c)
         \/ \E t \in ScimTokens : P!rotate_token(t) \/ P!revoke_token(t)
         \/ UNCHANGED scimVars
  PROVE  ScimInv'
<1>1. UNCHANGED <<group, member, access, beside>>
  BY DEF P!Begins, P!Fails, P!rotate_token, P!revoke_token, scimVars
<1>2. call' = [c \in Clients |-> call'[c]]
  BY DEF ScimInv, P!Begins, P!Fails, P!rotate_token, P!revoke_token, scimVars
<1>3. \A c \in Clients : \/ call'[c] = call[c] \/ call'[c] = None
                         \/ CallTyped(call'[c]) /\ call'[c].step = "reads"
  BY DEF ScimInv, P!Begins, P!Fails, P!rotate_token, P!revoke_token, scimVars, CallTyped
<1>4. \A c \in Clients : call'[c] = call[c] /\ Derives(call[c]) => Derives(call[c])'
  BY <1>1, DerivesStays
<1>5. P!AccessFollowsGroups'
  BY <1>1, AccessStays DEF ScimInv
<1>6. (\A c \in Clients : call[c] # None =>
          /\ CallTyped(call[c])
          /\ call[c].step = "wrote" =>
                DOMAIN call[c].writes \subseteq call[c].affected /\ (call[c].beside \/ Derives(call[c])))'
  BY <1>3, <1>4 DEF ScimInv, CallTyped
<1> QED BY <1>1, <1>2, <1>5, <1>6 DEF ScimInv

(* A request derives the access of whoever its change concerns. *)
LEMMA DeriveScim ==
  ASSUME ScimInv, NEW c \in Clients, P!recompute_scim_access(c)
  PROVE  ScimInv'
<1> DEFINE Seen(o) == [P!Now EXCEPT ![call[c].group] = [map |-> o.map, members |-> o.members]]
           Changed(o) == {u \in o.affected : P!Derived(Seen(o), u) # access[u]}
<1>0. /\ call[c] # None /\ CallTyped(call[c])
      /\ UNCHANGED <<group, member, access, beside>>
      /\ call = [k \in Clients |-> call[k]]
  BY DEF ScimInv, P!recompute_scim_access
<1>1. PICK o \in P!Outcomes(call[c]) :
         call' = [call EXCEPT ![c].step = "wrote", ![c].change = o, ![c].affected = o.affected,
                    ![c].writes = [u \in Changed(o) |-> P!Derived(Seen(o), u)]]
  BY DEF P!recompute_scim_access
<1>2. member[call[c].group] \cup o.members \subseteq o.affected
  <2>1. PICK r : r = call[c]
    OBVIOUS
  <2>2. o \in P!Outcomes(r)
    BY <2>1
  <2>3. r.kind \in {"create", "replace", "patch", "delete", "map"}
    BY <1>0, <2>1 DEF CallTyped
  <2>4. \A old, new : old \cup new \subseteq P!replace_group_members(old, new)
    BY DEF P!replace_group_members
  <2>5. CASE r.kind = "create"
    <3>1. PICK m \in SUBSET Members : o.members = m /\ o.affected = P!replace_group_members(member[r.group], m)
      BY <2>2, <2>5 DEF P!Outcomes
    <3> QED BY <3>1, <2>1, <2>4
  <2>6. CASE r.kind = "replace"
    <3>1. PICK m \in SUBSET Members : o.members = m /\ o.affected = P!replace_group_members(member[r.group], m)
      BY <2>2, <2>6 DEF P!Outcomes
    <3> QED BY <3>1, <2>1, <2>4
  <2>7. CASE r.kind = "patch"
    <3>1. PICK m : o.members = m /\ o.affected = P!replace_group_members(member[r.group], m)
      BY <2>2, <2>7 DEF P!Outcomes
    <3> QED BY <3>1, <2>1, <2>4
  <2>8. CASE r.kind = "delete"
    <3>1. o.members = {} /\ o.affected = member[r.group]
      BY <2>2, <2>8 DEF P!Outcomes, P!delete_group
    <3> QED BY <3>1, <2>1
  <2>9. CASE r.kind = "map"
    <3>1. o.members = member[r.group] /\ o.affected = member[r.group]
      BY <2>2, <2>9 DEF P!Outcomes
    <3> QED BY <3>1, <2>1
  <2> QED BY <2>1, <2>3, <2>5, <2>6, <2>7, <2>8, <2>9
<1>3. PICK seen : seen = Seen(o)
  OBVIOUS
<1>4. PICK changed : changed = {u \in o.affected : P!Derived(seen, u) # access[u]}
  OBVIOUS
<1>5. PICK r : /\ r = call'[c]
               /\ r = [kind |-> call[c].kind, group |-> call[c].group, step |-> "wrote", saw |-> call[c].saw,
                       change |-> o, affected |-> o.affected,
                       writes |-> [u \in changed |-> P!Derived(seen, u)], beside |-> call[c].beside]
  BY <1>0, <1>1, <1>3, <1>4 DEF CallTyped
<1>6. \A u \in o.affected : AccessLeft(r, u) = P!Derived(seen, u)
  BY <1>4, <1>5 DEF AccessLeft
<1>7. Left(r) = seen
  BY <1>3, <1>5 DEF Left
<1>8. CallTyped(r) /\ DOMAIN r.writes \subseteq r.affected /\ Derives(r)
  BY <1>0, <1>2, <1>4, <1>5, <1>6, <1>7 DEF CallTyped, Derives
<1>9. P!Now' = P!Now
  BY <1>0 DEF P!Now
<1>10. \A k \in Clients : call'[k] = IF k = c THEN r ELSE call[k]
  BY <1>0, <1>1, <1>5
<1>12. \A k \in Clients : Derives(call[k]) /\ k # c => Derives(call[k])'
  BY <1>0, <1>10, DerivesStays
<1>13. Derives(call[c])'
  BY <1>0, <1>8, <1>9, <1>10 DEF Derives, AccessLeft, Left
<1>14. (\A k \in Clients : call[k] # None =>
          /\ CallTyped(call[k])
          /\ call[k].step = "wrote" =>
                DOMAIN call[k].writes \subseteq call[k].affected /\ (call[k].beside \/ Derives(call[k])))'
  BY <1>8, <1>10, <1>12, <1>13 DEF ScimInv, CallTyped
<1>15. call' = [k \in Clients |-> call'[k]] /\ P!AccessFollowsGroups'
  BY <1>0, <1>1, AccessStays DEF ScimInv
<1> QED BY <1>0, <1>14, <1>15 DEF ScimInv

(* A request commits. *)
LEMMA CommitScim ==
  ASSUME ScimInv, NEW c \in Clients, P!Commits(c)
  PROVE  ScimInv'
<1>1. PICK r : r = call[c]
  OBVIOUS
<1>2. /\ call[c] # None /\ r.step = "wrote" /\ CallTyped(r)
      /\ DOMAIN r.writes \subseteq r.affected /\ (r.beside \/ Derives(r))
  BY <1>1 DEF ScimInv, P!Commits
<1>3. /\ group' = [group EXCEPT ![r.group] = r.change.map]
      /\ member' = [member EXCEPT ![r.group] = r.change.members]
      /\ access' = [u \in Members |-> AccessLeft(r, u)]
      /\ beside' = IF r.beside THEN beside \cup r.affected \cup r.change.members \cup member[r.group]
                   ELSE beside \ r.affected
      /\ call' = [d \in Clients |-> IF d = c THEN None
                                    ELSE IF P!Locked(d) THEN [call[d] EXCEPT !.beside = TRUE] ELSE call[d]]
  BY <1>1 DEF P!Commits, AccessLeft
<1>4. P!Now' = Left(r)
  BY <1>2, <1>3 DEF P!Now, Left, ScimInv, CallTyped
<1>5. \A u \in Members \ beside' : access'[u] = P!Derived(P!Now', u)
  <2> TAKE u \in Members \ beside'
  <2>1. CASE ~r.beside /\ u \in r.affected
    BY <1>2, <1>3, <1>4, <2>1 DEF Derives
  <2>2. CASE r.beside \/ u \notin r.affected
    <3>1. u \notin beside /\ u \notin r.affected /\ u \notin r.change.members /\ u \notin member[r.group]
      BY <1>2, <1>3, <2>2 DEF Derives
    <3>2. access'[u] = access[u] /\ access[u] = P!Derived(P!Now, u)
      BY <1>2, <1>3, <3>1 DEF ScimInv, P!AccessFollowsGroups, AccessLeft
    <3>3. \A g \in ScimGroups : \/ Left(r)[g] = P!Now[g]
                                \/ u \notin Left(r)[g].members /\ u \notin P!Now[g].members
      BY <1>2, <3>1 DEF Left, P!Now, CallTyped
    <3>4. P!Derived(Left(r), u) = P!Derived(P!Now, u)
      BY <3>3, DerivedFrom
    <3> QED BY <1>4, <3>2, <3>4
  <2> QED BY <2>1, <2>2
<1>6. P!AccessFollowsGroups'
  BY <1>5 DEF P!AccessFollowsGroups
<1>7. \A d \in Clients : call'[d] # None =>
         /\ CallTyped(call'[d])
         /\ call'[d].step = "wrote" => DOMAIN call'[d].writes \subseteq call'[d].affected /\ call'[d].beside
  <2> TAKE d \in Clients
  <2>1. CASE d = c
    BY <1>3, <2>1
  <2>2. CASE d # c /\ ~P!Locked(d)
    <3>1. call'[d] = call[d]
      BY <1>3, <2>2
    <3> QED BY <2>2, <3>1 DEF P!Locked, ScimInv
  <2>3. CASE d # c /\ P!Locked(d)
    <3>1. call'[d] = [call[d] EXCEPT !.beside = TRUE] /\ call[d] # None
      BY <1>3, <2>3 DEF P!Locked
    <3>2. CallTyped(call[d]) /\ DOMAIN call[d].writes \subseteq call[d].affected
      BY <2>3 DEF P!Locked, ScimInv
    <3> QED BY <3>1, <3>2 DEF CallTyped
  <2> QED BY <2>1, <2>2, <2>3
<1>8. /\ group' = [g \in ScimGroups |-> group'[g]] /\ member' = [g \in ScimGroups |-> member'[g]]
      /\ call' = [d \in Clients |-> call'[d]]
  BY <1>3 DEF ScimInv
<1> QED BY <1>6, <1>7, <1>8 DEF ScimInv, CallTyped

(***************************************************************************)
(* recompute_scim_access: what an account may do is what its groups are    *)
(* mapped to, for any number of accounts, groups and requests, unless the  *)
(* last request that concerned it derived it before another one committed. *)
(***************************************************************************)
THEOREM IdentityAccessFollowsGroups == P!Spec => []AccessFollowsGroups
<1>1. ScimInv /\ [P!Next]_(P!vars) => ScimInv'
  <2> SUFFICES ASSUME ScimInv, [P!Next]_(P!vars) PROVE ScimInv'
    OBVIOUS
  <2> QED BY QuietScim, DeriveScim, CommitScim DEF P!Next, P!vars, scimVars
<1>2. ScimInv => AccessFollowsGroups
  BY DEF ScimInv, AccessFollowsGroups
<1> QED BY InitScim, <1>1, <1>2, PTL DEF P!Spec

----------------------------------------------------------------------------
(***************************************************************************)
(* The tokens that act for principals.  A handler that none has overlapped *)
(* has read what is still stored (ReadsStand), so a change of authority    *)
(* raises the version past that of every token (VersionOfAuthority), and a *)
(* rotation ends the one live token of its family: the tokens that share a *)
(* first one, which are of one principal (Families, OneOfFamily).          *)
(***************************************************************************)
Kinds == {"issue", "rotate", "revoke", "suspend", "activate", "grant", "ungrant", "update_role", "delete_role"}

RowTyped(r) ==
    /\ r = [of |-> r.of, live |-> r.live, version |-> r.version, first |-> r.first, at |-> r.at]
    /\ r.of \in Principals \cup {None} /\ r.version \in Nat
    /\ r.live => r.of # None

ReadTyped(r) ==
    /\ r = [kind |-> r.kind, of |-> r.of, token |-> r.token, version |-> r.version, granted |-> r.granted,
            tokens |-> r.tokens, at |-> r.at, beside |-> r.beside]
    /\ r.kind \in Kinds
    /\ r.version \in [Principals -> Nat] /\ r.granted \subseteq Principals
    /\ r.kind \notin {"update_role", "delete_role"} => r.of \in Principals
    /\ r.kind \in {"rotate", "revoke"} => r.token \in ApiTokenIds
    /\ r.kind = "rotate" => r.tokens[r.token].live

TokensTyped ==
    /\ version \in [Principals -> Nat] /\ granted \subseteq Principals
    /\ authority \in [Principals -> Nat]
    /\ token = [t \in ApiTokenIds |-> token[t]]
    /\ \A t \in ApiTokenIds : RowTyped(token[t])
    /\ handler = [h \in Handlers |-> handler[h]]
    /\ \A h \in Handlers : handler[h] # None => ReadTyped(handler[h])

ReadsStand ==
    \A h \in Handlers : handler[h] # None =>
        /\ handler[h].kind \in {"rotate", "revoke"} => token[handler[h].token].of = handler[h].of
        /\ ~handler[h].beside =>
              /\ handler[h].version = version /\ handler[h].granted = granted
              /\ handler[h].at = authority /\ handler[h].tokens = token

Families ==
    \A t \in ApiTokenIds : token[t].of # None =>
        token[t].first \in ApiTokenIds /\ token[token[t].first].of = token[t].of

VersionOfAuthority ==
    \A t \in ApiTokenIds : token[t].of # None /\ token[t].of \notin raced =>
        /\ token[t].version <= version[token[t].of]
        /\ token[t].version = version[token[t].of] => token[t].at = authority[token[t].of]

OneOfFamily ==
    \A t \in ApiTokenIds : token[t].live /\ token[t].of \notin raced =>
        \A s \in ApiTokenIds \ {t} : token[s].first = token[t].first => ~token[s].live

TokensInv == TokensTyped /\ ReadsStand /\ Families /\ VersionOfAuthority /\ OneOfFamily

NoneIsNobody == None \notin Principals \cup ApiTokenIds

(* No token at first. *)
LEMMA InitTokens == T!Init => TokensInv
<1> SUFFICES ASSUME T!Init PROVE TokensInv
  OBVIOUS
<1>1. \A t \in ApiTokenIds : token[t] = [of |-> None, live |-> FALSE, version |-> 0, first |-> None, at |-> 0]
  BY DEF T!Init, T!NoToken
<1>2. TokensTyped
  BY <1>1 DEF T!Init, T!NoToken, TokensTyped, RowTyped
<1> QED BY <1>1, <1>2 DEF T!Init, TokensInv, ReadsStand, Families, VersionOfAuthority, OneOfFamily

(* A handler reads, and what it has read is stored. *)
LEMMA BeginTokens ==
  ASSUME TokensInv, NEW h \in Handlers, NEW kind \in Kinds, NEW p, NEW t, T!Begins(h, kind, p, t),
         kind \notin {"update_role", "delete_role"} => p \in Principals,
         kind \in {"rotate", "revoke"} => t \in ApiTokenIds /\ token[t].of = p,
         kind = "rotate" => token[t].live
  PROVE  TokensInv'
<1>0. UNCHANGED <<version, granted, token, authority, raced>>
  BY DEF T!Begins
<1>1. PICK b : b = (T!Others(h) # {})
  OBVIOUS
<1>2. PICK r : r = [kind |-> kind, of |-> p, token |-> t, version |-> version, granted |-> granted,
                    tokens |-> token, at |-> authority, beside |-> b]
  OBVIOUS
<1>3. handler' = [handler EXCEPT ![h] = r]
  BY <1>1, <1>2 DEF T!Begins
<1>4. ReadTyped(r)
  BY <1>2 DEF ReadTyped, TokensInv, TokensTyped
<1>5. \A k \in Handlers : handler'[k] = IF k = h THEN r ELSE handler[k]
  BY <1>3 DEF TokensInv, TokensTyped
<1>6. TokensTyped'
  BY <1>0, <1>3, <1>4, <1>5 DEF TokensInv, TokensTyped, RowTyped, ReadTyped
<1>7. ReadsStand'
  BY <1>0, <1>2, <1>5 DEF TokensInv, ReadsStand
<1> QED BY <1>0, <1>6, <1>7 DEF TokensInv, Families, VersionOfAuthority, OneOfFamily

(* A handler fails and leaves nothing. *)
LEMMA FailTokens ==
  ASSUME TokensInv, \/ \E h \in Handlers : T!Fails(h)
                    \/ UNCHANGED tokenVars
  PROVE  TokensInv'
<1>1. UNCHANGED <<version, granted, token, authority, raced>>
  BY DEF T!Fails, tokenVars
<1>2. \A h \in Handlers : handler'[h] # None => handler'[h] = handler[h]
  BY DEF T!Fails, tokenVars, TokensInv, TokensTyped
<1>3. handler' = [h \in Handlers |-> handler'[h]]
  BY DEF T!Fails, tokenVars, TokensInv, TokensTyped
<1>4. TokensTyped'
  BY <1>1, <1>2, <1>3 DEF TokensInv, TokensTyped, RowTyped, ReadTyped
<1>5. ReadsStand'
  BY <1>1, <1>2 DEF TokensInv, ReadsStand
<1> QED BY <1>1, <1>4, <1>5 DEF TokensInv, Families, VersionOfAuthority, OneOfFamily

(* The row of t stops to be live. *)
Ends(t) == token'[t] = [token[t] EXCEPT !.live = FALSE]

(* What a commit makes of the rows: it ends some, and may fill a free one. *)
Fills(r, t) ==
    /\ token[t].of = None
    /\ \/ r.kind = "issue" /\ token'[t] = T!NewToken(r, t)
       \/ r.kind = "rotate" /\ token'[t] = T!NewToken(r, token[r.token].first) /\ (r.token # t => Ends(r.token))
    /\ \A s \in ApiTokenIds \ {t} : token'[s] = token[s] \/ Ends(s)

(* What a handler writes of the tokens is one of these. *)
LEMMA RowsChange ==
  ASSUME TokensInv, NEW r, ReadTyped(r), token' \in T!Tokens(r)
  PROVE  /\ token' = [t \in ApiTokenIds |-> token'[t]]
         /\ \/ \A t \in ApiTokenIds : token'[t] = token[t] \/ Ends(t)
            \/ \E t \in ApiTokenIds : Fills(r, t)
<1>0. token = [t \in ApiTokenIds |-> token[t]]
  BY DEF TokensInv, TokensTyped
<1> DEFINE After(ts) == [t \in ApiTokenIds |-> IF t \in ts THEN [token[t] EXCEPT !.live = FALSE] ELSE token[t]]
<1>1. CASE r.kind = "issue"
  <2>1. PICK t \in ApiTokenIds : token[t].of = None /\ token' = [token EXCEPT ![t] = T!NewToken(r, t)]
    BY <1>1 DEF T!Tokens
  <2> QED BY <1>0, <1>1, <2>1 DEF Fills
<1>2. CASE r.kind = "rotate"
  <2>1. PICK t \in ApiTokenIds : /\ token[t].of = None
                                 /\ token' = [After({r.token}) EXCEPT ![t] = T!NewToken(r, token[r.token].first)]
    BY <1>2 DEF T!Tokens
  <2>2. r.token \in ApiTokenIds
    BY <1>2 DEF ReadTyped
  <2>3. token'[t] = T!NewToken(r, token[r.token].first)
    BY <2>1
  <2>4. \A s \in ApiTokenIds \ {t} : token'[s] = IF s = r.token THEN [token[s] EXCEPT !.live = FALSE] ELSE token[s]
    BY <2>1
  <2>5. token' = [s \in ApiTokenIds |-> token'[s]]
    BY <2>1
  <2> QED BY <1>2, <2>1, <2>2, <2>3, <2>4, <2>5 DEF Fills, Ends
<1>3. CASE r.kind = "revoke"
  <2>1. token' = After({r.token})
    BY <1>3 DEF T!Tokens
  <2> QED BY <2>1 DEF Ends
<1>4. CASE r.kind = "suspend"
  <2>1. PICK ts : token' = After(ts)
    BY <1>4 DEF T!Tokens
  <2> QED BY <2>1 DEF Ends
<1>5. CASE r.kind \notin {"issue", "rotate", "revoke", "suspend"}
  <2>1. token' = token
    BY <1>5 DEF T!Tokens
  <2> QED BY <1>0, <2>1
<1> QED BY <1>1, <1>2, <1>3, <1>4, <1>5

(* What changes with the rows: the authority of some, and their version,   *)
(* which only a handler that was overlapped may get wrong.                 *)
LEMMA AuthorityChanges ==
  ASSUME TokensInv, NEW h \in Handlers, T!Commits(h)
  PROVE  /\ version' \in [Principals -> Nat] /\ authority' \in [Principals -> Nat] /\ granted' \subseteq Principals
         /\ raced \subseteq raced'
         /\ \A p \in Principals \ raced' :
              \/ version'[p] = version[p] /\ authority'[p] = authority[p]
              \/ version'[p] = version[p] + 1 /\ handler[h].kind \notin {"issue", "rotate"}
<1>1. PICK r : r = handler[h]
  OBVIOUS
<1>2. PICK of : of = T!Affected(r)
  OBVIOUS
<1>3. /\ handler[h] # None
      /\ version' = IF T!AltersAuthority(r) THEN [p \in Principals |-> IF p \in of THEN r.version[p] + 1 ELSE version[p]]
                    ELSE version
      /\ authority' = [p \in Principals |->
            IF T!AltersAuthority(r) /\ p \in of \cup (IF r.kind \in {"update_role", "delete_role"} THEN granted ELSE {})
            THEN authority[p] + 1 ELSE authority[p]]
      /\ raced' = IF r.beside \/ T!Others(h) # {} THEN raced \cup of \cup granted ELSE raced
  BY <1>1, <1>2 DEF T!Commits, T!_after_grant_change
<1>4. ReadTyped(r) /\ version \in [Principals -> Nat] /\ authority \in [Principals -> Nat] /\ granted \subseteq Principals
  BY <1>1, <1>3 DEF TokensInv, TokensTyped
<1>5. version' \in [Principals -> Nat] /\ authority' \in [Principals -> Nat]
  BY <1>3, <1>4 DEF ReadTyped
<1>6. granted' \subseteq Principals
  <2>1. r.kind = "grant" => r.of \in Principals
    BY <1>4 DEF ReadTyped
  <2>2. granted' = CASE r.kind = "grant"       -> granted \cup {r.of}
                     [] r.kind = "ungrant"     -> granted \ {r.of}
                     [] r.kind = "delete_role" -> {}
                     [] OTHER -> granted
    BY <1>1 DEF T!Commits
  <2> QED BY <1>4, <2>1, <2>2
<1>7. r.kind \in {"issue", "rotate"} => ~T!AltersAuthority(r)
  BY DEF T!AltersAuthority
<1>8. CASE r.beside \/ T!Others(h) # {}
  BY <1>1, <1>3, <1>4, <1>5, <1>6, <1>8
<1>9. CASE ~r.beside /\ T!Others(h) = {}
  <2>1. r.version = version /\ r.granted = granted
    BY <1>1, <1>3, <1>9 DEF TokensInv, ReadsStand
  <2>2. r.kind \in {"update_role", "delete_role"} => of = granted
    BY <1>2, <2>1 DEF T!Affected
  <2> QED BY <1>1, <1>3, <1>4, <1>5, <1>6, <1>7, <1>9, <2>1, <2>2
<1> QED BY <1>8, <1>9

(* A row that stays or ends keeps whose it is. *)
LEMMA RowKept ==
  ASSUME TokensInv, NEW t \in ApiTokenIds, token'[t] = token[t] \/ Ends(t)
  PROVE  /\ token'[t].of = token[t].of /\ token'[t].version = token[t].version
         /\ token'[t].first = token[t].first /\ token'[t].at = token[t].at
         /\ token'[t].live => token[t].live
         /\ RowTyped(token'[t])
<1>1. RowTyped(token[t])
  BY DEF TokensInv, TokensTyped
<1> QED BY <1>1 DEF RowTyped, Ends

(* A handler commits. *)
LEMMA CommitTokens ==
  ASSUME NoneIsNobody, TokensInv, NEW h \in Handlers, T!Commits(h)
  PROVE  TokensInv'
<1>1. PICK r : r = handler[h]
  OBVIOUS
<1>2. /\ handler[h] # None /\ token' \in T!Tokens(r)
      /\ handler' = [k \in Handlers |-> IF k = h THEN None
                                        ELSE IF handler[k] # None THEN [handler[k] EXCEPT !.beside = TRUE]
                                        ELSE None]
  BY <1>1 DEF T!Commits
<1>3. ReadTyped(r)
  BY <1>1, <1>2 DEF TokensInv, TokensTyped
<1>4. /\ token' = [t \in ApiTokenIds |-> token'[t]]
      /\ \/ \A t \in ApiTokenIds : token'[t] = token[t] \/ Ends(t)
         \/ \E t \in ApiTokenIds : Fills(r, t)
  BY <1>2, <1>3, RowsChange
<1>5. /\ version' \in [Principals -> Nat] /\ authority' \in [Principals -> Nat] /\ granted' \subseteq Principals
      /\ raced \subseteq raced'
      /\ \A p \in Principals \ raced' :
           \/ version'[p] = version[p] /\ authority'[p] = authority[p]
           \/ version'[p] = version[p] + 1 /\ r.kind \notin {"issue", "rotate"}
  BY <1>1, AuthorityChanges
<1>6. \A k \in Handlers : handler'[k] # None =>
         /\ handler[k] # None /\ k # h /\ ReadTyped(handler'[k]) /\ handler'[k].beside
         /\ handler'[k].kind = handler[k].kind /\ handler'[k].of = handler[k].of
         /\ handler'[k].token = handler[k].token
  <2> TAKE k \in Handlers
  <2> HAVE handler'[k] # None
  <2>1. k # h /\ handler[k] # None /\ handler'[k] = [handler[k] EXCEPT !.beside = TRUE]
    BY <1>2
  <2>2. ReadTyped(handler[k])
    BY <2>1 DEF TokensInv, TokensTyped
  <2> QED BY <2>1, <2>2 DEF ReadTyped
<1>7. handler' = [k \in Handlers |-> handler'[k]]
  BY <1>2
<1>8. \A t \in ApiTokenIds : RowTyped(token[t])
  BY DEF TokensInv, TokensTyped
<1>9. CASE \A t \in ApiTokenIds : token'[t] = token[t] \/ Ends(t)
  <2>1. \A t \in ApiTokenIds :
           /\ token'[t].of = token[t].of /\ token'[t].version = token[t].version
           /\ token'[t].first = token[t].first /\ token'[t].at = token[t].at
           /\ token'[t].live => token[t].live
           /\ RowTyped(token'[t])
    BY <1>9, RowKept
  <2>2. TokensTyped'
    BY <1>4, <1>5, <1>6, <1>7, <2>1 DEF TokensTyped, RowTyped, ReadTyped
  <2>3. ReadsStand'
    <3>1. \A k \in Handlers : handler'[k] # None /\ handler'[k].kind \in {"rotate", "revoke"} =>
             token'[handler'[k].token].of = handler'[k].of
      <4> TAKE k \in Handlers
      <4> HAVE handler'[k] # None /\ handler'[k].kind \in {"rotate", "revoke"}
      <4>1. /\ handler'[k].token = handler[k].token /\ handler'[k].of = handler[k].of
            /\ token[handler[k].token].of = handler[k].of
            /\ handler'[k].token \in ApiTokenIds
        BY <1>6 DEF TokensInv, ReadsStand, ReadTyped
      <4> QED BY <2>1, <4>1
    <3> QED BY <1>6, <3>1 DEF ReadsStand
  <2>4. Families'
    BY <2>1 DEF TokensInv, Families
  <2>5. VersionOfAuthority'
    <3> SUFFICES ASSUME NEW t \in ApiTokenIds, token'[t].of # None, token'[t].of \notin raced'
                 PROVE  /\ token'[t].version <= version'[token'[t].of]
                        /\ token'[t].version = version'[token'[t].of] => token'[t].at = authority'[token'[t].of]
      BY DEF VersionOfAuthority
    <3>1. PICK p : p = token[t].of
      OBVIOUS
    <3>2. p \in Principals /\ token'[t].of = p /\ p \notin raced'
      BY <1>8, <2>1, <3>1 DEF RowTyped
    <3>3. token[t].version <= version[p] /\ (token[t].version = version[p] => token[t].at = authority[p])
      BY <1>5, <2>1, <3>1 DEF TokensInv, VersionOfAuthority
    <3>4. token[t].version \in Nat /\ version[p] \in Nat
      BY <1>8, <3>2 DEF RowTyped, TokensInv, TokensTyped
    <3> QED BY <1>5, <2>1, <3>2, <3>3, <3>4
  <2>6. OneOfFamily'
    BY <1>5, <2>1 DEF TokensInv, OneOfFamily
  <2> QED BY <2>2, <2>3, <2>4, <2>5, <2>6 DEF TokensInv
<1>10. CASE \E t \in ApiTokenIds : Fills(r, t)
  <2>1. PICK n \in ApiTokenIds : Fills(r, n)
    BY <1>10
  <2>2. \A t \in ApiTokenIds \ {n} :
           /\ token'[t].of = token[t].of /\ token'[t].version = token[t].version
           /\ token'[t].first = token[t].first /\ token'[t].at = token[t].at
           /\ token'[t].live => token[t].live
           /\ RowTyped(token'[t])
    BY <2>1, RowKept DEF Fills
  <2>3. r.kind \in {"issue", "rotate"} /\ r.of \in Principals /\ r.of # None
    BY <1>3, <2>1 DEF Fills, ReadTyped, NoneIsNobody
  <2>4. r.kind = "rotate" => /\ r.token \in ApiTokenIds /\ token[r.token].of = r.of /\ r.token # n
                             /\ ~token'[r.token].live /\ r.tokens[r.token].live
    <3> SUFFICES ASSUME r.kind = "rotate"
                 PROVE  /\ r.token \in ApiTokenIds /\ token[r.token].of = r.of /\ r.token # n
                        /\ ~token'[r.token].live /\ r.tokens[r.token].live
      OBVIOUS
    <3>1. r.token \in ApiTokenIds /\ r.tokens[r.token].live /\ token[r.token].of = r.of
      BY <1>1, <1>2, <1>3 DEF ReadTyped, TokensInv, ReadsStand
    <3>2. r.token # n /\ Ends(r.token)
      BY <2>1, <2>3, <3>1 DEF Fills
    <3>3. RowTyped(token[r.token])
      BY <1>8, <3>1
    <3> QED BY <3>1, <3>2, <3>3 DEF Ends, RowTyped
  <2>5. PICK f : /\ token'[n] = T!NewToken(r, f)
                 /\ (r.kind = "issue" /\ f = n) \/ (r.kind = "rotate" /\ f = token[r.token].first)
    BY <2>1 DEF Fills
  <2>6. /\ token'[n] = [of |-> r.of, live |-> TRUE, version |-> r.version[r.of], first |-> f, at |-> r.at[r.of]]
        /\ token'[n].of = r.of /\ token'[n].first = f /\ r.version[r.of] \in Nat
    BY <1>3, <2>3, <2>5 DEF T!NewToken, ReadTyped
  <2>7. RowTyped(token'[n])
    BY <2>3, <2>6 DEF RowTyped
  <2>8. TokensTyped'
    BY <1>4, <1>5, <1>6, <1>7, <2>2, <2>7 DEF TokensTyped, RowTyped, ReadTyped
  <2>9. token[n].of = None
    BY <2>1 DEF Fills
  <2>10. ReadsStand'
    <3>1. \A k \in Handlers : handler'[k] # None /\ handler'[k].kind \in {"rotate", "revoke"} =>
             token'[handler'[k].token].of = handler'[k].of
      <4> TAKE k \in Handlers
      <4> HAVE handler'[k] # None /\ handler'[k].kind \in {"rotate", "revoke"}
      <4>1. /\ handler'[k].token = handler[k].token /\ handler'[k].of = handler[k].of
            /\ token[handler[k].token].of = handler[k].of
            /\ handler'[k].token \in ApiTokenIds /\ handler'[k].of \in Principals
        BY <1>6 DEF TokensInv, ReadsStand, ReadTyped
      <4> QED BY <2>2, <2>9, <4>1 DEF NoneIsNobody
    <3> QED BY <1>6, <3>1 DEF ReadsStand
  <2>11. f \in ApiTokenIds /\ token'[f].of = r.of /\ (r.kind = "rotate" => f # n /\ token[f].of = r.of)
    <3>1. CASE r.kind = "issue"
      BY <2>5, <2>6, <3>1
    <3>2. CASE r.kind = "rotate"
      <4>1. f \in ApiTokenIds /\ token[f].of = r.of
        BY <2>3, <2>4, <2>5, <3>2 DEF TokensInv, Families
      <4> QED BY <2>2, <2>3, <2>9, <4>1
    <3> QED BY <2>3, <3>1, <3>2
  <2>12. Families'
    <3> SUFFICES ASSUME NEW t \in ApiTokenIds, token'[t].of # None
                 PROVE  token'[t].first \in ApiTokenIds /\ token'[token'[t].first].of = token'[t].of
      BY DEF Families
    <3>1. CASE t = n
      BY <2>6, <2>11, <3>1
    <3>2. CASE t # n
      <4>1. token[t].of # None /\ token[t].first \in ApiTokenIds /\ token[token[t].first].of = token[t].of
        BY <2>2, <3>2 DEF TokensInv, Families
      <4>2. token[t].first # n
        BY <2>9, <4>1
      <4> QED BY <2>2, <3>2, <4>1, <4>2
    <3> QED BY <3>1, <3>2
  <2>13. r.of \notin raced' => r.version = version /\ r.at = authority /\ r.tokens = token
    <3>1. r.of \in T!Affected(r)
      BY <2>3 DEF T!Affected
    <3>2. r.beside => r.of \in raced'
      BY <1>1, <3>1 DEF T!Commits
    <3> QED BY <1>1, <1>2, <3>2 DEF TokensInv, ReadsStand
  <2>14. VersionOfAuthority'
    <3> SUFFICES ASSUME NEW t \in ApiTokenIds, token'[t].of # None, token'[t].of \notin raced'
                 PROVE  /\ token'[t].version <= version'[token'[t].of]
                        /\ token'[t].version = version'[token'[t].of] => token'[t].at = authority'[token'[t].of]
      BY DEF VersionOfAuthority
    <3>1. PICK p : p = token'[t].of
      OBVIOUS
    <3>2. p \in Principals /\ version'[p] = version[p] /\ authority'[p] = authority[p]
      BY <1>5, <2>2, <2>3, <2>7, <3>1 DEF RowTyped
    <3>3. CASE t = n
      BY <2>6, <2>13, <3>1, <3>2, <3>3
    <3>4. CASE t # n
      <4>1. token[t].version <= version[p] /\ (token[t].version = version[p] => token[t].at = authority[p])
        BY <1>5, <2>2, <3>1, <3>4 DEF TokensInv, VersionOfAuthority
      <4> QED BY <2>2, <3>1, <3>2, <3>4, <4>1
    <3> QED BY <3>3, <3>4
  <2>15. OneOfFamily'
    <3> SUFFICES ASSUME NEW t \in ApiTokenIds, token'[t].live, token'[t].of \notin raced',
                        NEW s \in ApiTokenIds \ {t}, token'[s].first = token'[t].first, token'[s].live
                 PROVE  FALSE
      BY DEF OneOfFamily
    <3>1. CASE t # n /\ s # n
      BY <1>5, <2>2, <3>1 DEF TokensInv, OneOfFamily
    <3>2. CASE t = n \/ s = n
      <4>1. PICK o \in ApiTokenIds \ {n} : token'[o].live /\ token'[o].first = f
        BY <2>6, <3>2
      <4>2. /\ token[o].live /\ token[o].first = f /\ token[o].of # None /\ token[f].of = token[o].of
        <5>1. token[o].live /\ token[o].first = f
          BY <2>2, <4>1
        <5>2. token[o].of # None
          BY <1>8, <5>1 DEF RowTyped
        <5> QED BY <5>1, <5>2 DEF TokensInv, Families
      <4>3. r.kind = "rotate"
        BY <2>3, <2>5, <2>9, <4>2
      <4>4. token'[t].of = r.of
        <5>1. token[o].of = r.of
          BY <2>11, <4>2, <4>3
        <5>2. CASE t = n
          BY <2>6, <5>2
        <5>3. CASE t # n
          <6>1. token[t].of = token[token[t].first].of
            BY <1>8, <2>2, <5>3 DEF TokensInv, Families, RowTyped
          <6>2. token[t].first = f
            BY <2>2, <2>6, <3>2, <5>3
          <6> QED BY <2>2, <2>11, <4>3, <5>3, <6>1, <6>2
        <5> QED BY <5>2, <5>3
      <4>5. token[r.token].live /\ token[r.token].of \notin raced /\ token[r.token].first = f
        BY <1>5, <2>4, <2>5, <2>13, <4>3, <4>4
      <4>6. o # r.token
        BY <2>4, <4>1, <4>3
      <4> QED BY <2>4, <4>2, <4>3, <4>5, <4>6 DEF TokensInv, OneOfFamily
    <3> QED BY <3>1, <3>2
  <2> QED BY <2>8, <2>10, <2>12, <2>14, <2>15 DEF TokensInv
<1> QED BY <1>4, <1>9, <1>10

(***************************************************************************)
(* authenticate_api_token: a token that works was issued after every       *)
(* change of its principal's authority, and is the only one of those it    *)
(* was rotated from, for any number of principals, tokens and handlers,    *)
(* unless handlers that concern the principal overlapped.                  *)
(***************************************************************************)
THEOREM IdentityTokensFollowAuthority ==
  ASSUME NoneIsNobody
  PROVE  T!Spec => []TokensFollowAuthority
<1>1. TokensInv /\ [T!Next]_(T!vars) => TokensInv'
  <2> SUFFICES ASSUME TokensInv, [T!Next]_(T!vars) PROVE TokensInv'
    OBVIOUS
  <2>1. CASE \E h \in Handlers, p \in Principals :
                \/ T!_issue_token(h, p) \/ T!update_service_account(h, p)
                \/ T!create_grant(h, p) \/ T!delete_grant(h, p)
    <3>1. PICK h \in Handlers, p \in Principals, kind \in Kinds \ {"rotate", "revoke"} : T!Begins(h, kind, p, None)
      BY <2>1 DEF T!_issue_token, T!update_service_account, T!create_grant, T!delete_grant, Kinds
    <3> QED BY <3>1, BeginTokens
  <2>2. CASE \E h \in Handlers, t \in ApiTokenIds : T!_rotate_token(h, t) \/ T!revoke_service_token(h, t)
    <3>1. PICK h \in Handlers, t \in ApiTokenIds : T!_rotate_token(h, t) \/ T!revoke_service_token(h, t)
      BY <2>2
    <3>2. RowTyped(token[t])
      BY DEF TokensInv, TokensTyped
    <3>3. token[t].of \in Principals
      BY <3>1, <3>2 DEF T!_rotate_token, T!revoke_service_token, RowTyped
    <3>4. PICK kind \in {"rotate", "revoke"} : T!Begins(h, kind, token[t].of, t) /\ (kind = "rotate" => token[t].live)
      BY <3>1 DEF T!_rotate_token, T!revoke_service_token
    <3> QED BY <3>3, <3>4, BeginTokens DEF Kinds
  <2>3. CASE \E h \in Handlers : T!update_role(h) \/ T!delete_role(h)
    <3>1. PICK h \in Handlers, kind \in {"update_role", "delete_role"} : T!Begins(h, kind, None, None)
      BY <2>3 DEF T!update_role, T!delete_role
    <3> QED BY <3>1, BeginTokens DEF Kinds
  <2>4. CASE \E h \in Handlers : T!Commits(h)
    BY <2>4, CommitTokens
  <2>5. CASE (\E h \in Handlers : T!Fails(h)) \/ UNCHANGED T!vars
    BY <2>5, FailTokens DEF T!vars, tokenVars
  <2> QED BY <2>1, <2>2, <2>3, <2>4, <2>5 DEF T!Next
<1>2. TokensInv => TokensFollowAuthority
  <2> SUFFICES ASSUME TokensInv PROVE T!TokensFollowAuthority
    BY DEF TokensFollowAuthority
  <2> QED BY DEF TokensInv, VersionOfAuthority, OneOfFamily, T!TokensFollowAuthority, T!authenticate_api_token
<1> QED BY InitTokens, <1>1, <1>2, PTL DEF T!Spec
=============================================================================
