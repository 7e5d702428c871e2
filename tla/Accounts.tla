------------------------------ MODULE Accounts ------------------------------
(***************************************************************************)
(* Who administers an organisation: local accounts (api/v1/users.py), roles*)
(* and grants (api/v1/authorization.py), accounts provisioned by SCIM      *)
(* (api/scim.py, services/scim.py) or by single sign-on (services/sso.py), *)
(* and the break-glass accounts that SSO enforcement relies on.            *)
(*                                                                         *)
(* Every handler reads rows, checks them, and writes the columns it has    *)
(* changed when it commits; no lock orders two of them except the one on   *)
(* an invitation.  A handler is one step, or two (request and commit) with *)
(* others between them; at most one is under way like that at a time.      *)
(* Roles are "admin" or "other"; "deactivated" stands for suspended too.   *)
(* Sites, permissions, service accounts and the sessions that a change     *)
(* revokes are left out.                                                   *)
(***************************************************************************)
EXTENDS Naturals

CONSTANTS
    Local,   \* accounts that log in with a password
    Scim,    \* accounts managed by the provisioning client
    Jit,     \* accounts created by a first single sign-on
    None,
    MaxRequests   \* bound on the handlers that run

VARIABLES
    user,       \* the rows of the accounts
    enforced,   \* SSO is enforced
    maps,       \* the SCIM group is mapped to the administrator role
    tx,         \* the handler that has read and not committed, or None
    requests    \* the handlers so far

vars == <<user, enforced, maps, tx, requests>>

Users == Local \cup Scim \cup Jit

User == [role : {"admin", "other"},
         account_status : {"absent", "invited", "active", "deactivated"},
         is_active : BOOLEAN, password : BOOLEAN, invitation : BOOLEAN,
         break_glass : BOOLEAN, factor : BOOLEAN, member : BOOLEAN]

TypeOK ==
    /\ user \in [Users -> User]
    /\ enforced \in BOOLEAN /\ maps \in BOOLEAN /\ requests \in 0 .. MaxRequests
    /\ tx # None => /\ DOMAIN tx.sets \subseteq Users
                    /\ tx.lock \in Users \cup {None}
                    /\ tx.enforced \in BOOLEAN /\ tx.maps \in BOOLEAN
                    /\ tx.fresh \in BOOLEAN

Absent == [role |-> "other", account_status |-> "absent", is_active |-> FALSE,
           password |-> FALSE, invitation |-> FALSE, break_glass |-> FALSE,
           factor |-> FALSE, member |-> FALSE]

(* The first administrator exists.                                         *)
Init ==
    /\ \E u \in Local :
          user = [v \in Users |-> IF v # u THEN Absent
                                  ELSE [Absent EXCEPT !.role = "admin", !.password = TRUE,
                                          !.account_status = "active", !.is_active = TRUE]]
    /\ enforced = FALSE /\ maps = FALSE /\ tx = None /\ requests = 0

----------------------------------------------------------------------------
(* What a handler reads.                                                   *)

Usable(u) == user[u].account_status = "active" /\ user[u].is_active

Administrators == {u \in Users : user[u].role = "admin" /\ Usable(u)}

(* Mutant of active_admin_count: nobody is left out of the count.          *)
active_admin_count_All(u) == Administrators

(* Those that are counted.                                                 *)
active_admin_count(u) == Administrators \ {u}

(* An active administrator may lose that role or status if another stays.  *)
AnotherStays(u) ==
    user[u].role = "admin" /\ user[u].account_status = "active" => active_admin_count(u) # {}

active_break_glass_users ==
    {u \in Administrators \cap Local :
        user[u].break_glass /\ user[u].password /\ user[u].factor}

ensure_break_glass_eligibility_can_be_removed(u) ==
    user[u].break_glass /\ enforced => active_break_glass_users \ {u} # {}

----------------------------------------------------------------------------
(* What it writes: only the columns whose values it has changed.           *)

Changed(u, columns) ==
    [c \in {d \in DOMAIN columns : columns[d] # user[u][d]} |-> columns[c]]

Only(u, columns) == [v \in {u} |-> Changed(u, columns)]

Overlaid(x, set) == [c \in DOMAIN x |-> IF c \in DOMAIN set THEN set[c] ELSE x[c]]

Commit(sets, e, m) ==
    /\ user' = [u \in Users |-> IF u \in DOMAIN sets THEN Overlaid(user[u], sets[u]) ELSE user[u]]
    /\ enforced' = e /\ maps' = m

(* At once, or later; a commit makes what the other one has read stale.    *)
(* The update that revokes an invitation waits for the one that holds it.  *)
Handle(sets, e, m, lock) ==
    /\ requests < MaxRequests /\ requests' = requests + 1
    /\ \/ /\ Commit(sets, e, m)
          /\ IF tx = None THEN tx' = None
             ELSE /\ \A u \in DOMAIN sets : "invitation" \in DOMAIN sets[u] => tx.lock # u
                  /\ tx' = [tx EXCEPT !.fresh = FALSE]
       \/ /\ tx = None
          /\ tx' = [sets |-> sets, lock |-> lock, fresh |-> TRUE, enforced |-> e,
                    maps |-> m, policy |-> e # enforced, mapping |-> m # maps]
          /\ UNCHANGED <<user, enforced, maps>>

commit ==
    /\ tx # None /\ tx' = None /\ UNCHANGED requests
    /\ Commit(tx.sets, IF tx.policy THEN tx.enforced ELSE enforced,
                       IF tx.mapping THEN tx.maps ELSE maps)

Update(u, columns) == Handle(Only(u, columns), enforced, maps, None)

Exists(u) == user[u].account_status # "absent"

set_account_status(s) == [account_status |-> s, is_active |-> s = "active"]

(* A pending invitation is revoked as well.                                *)
withdrawn(s) == [account_status |-> s, is_active |-> s = "active", invitation |-> FALSE]

----------------------------------------------------------------------------
(* Administrators on local accounts; nobody acts on his own account where  *)
(* the handler says so.                                                    *)

ByAnother(u) == Administrators \ {u} # {}
ByAny == Administrators # {}

create_user(u) ==
    /\ ByAny /\ ~Exists(u) /\ u \in Local
    /\ \E r \in {"admin", "other"}, s \in {"invited", "deactivated"} :
          Update(u, [account_status |-> s, invitation |-> s = "invited", role |-> r])

(* The compatibility field of update_user calls it as well.                *)
_transition_status(u, s) ==
    /\ Exists(u) /\ s # user[u].account_status /\ ByAnother(u)
    /\ IF s = "active" THEN user[u].password /\ Update(u, set_account_status(s))
       ELSE /\ ensure_break_glass_eligibility_can_be_removed(u) /\ AnotherStays(u)
            /\ Update(u, withdrawn(s))

set_status(u) == \E s \in {"active", "deactivated"} : _transition_status(u, s)

delete_user(u) == _transition_status(u, "deactivated")

update_user(u) ==
    /\ Exists(u) /\ ByAnother(u) /\ AnotherStays(u)
    /\ IF user[u].role = "other" THEN Update(u, [role |-> "admin"])
       ELSE /\ ensure_break_glass_eligibility_can_be_removed(u)
            /\ Update(u, [role |-> "other"])

issue_invitation(u) ==
    /\ Exists(u) /\ u \in Local /\ ByAnother(u)
    /\ AnotherStays(u) /\ ensure_break_glass_eligibility_can_be_removed(u)
    /\ Update(u, [account_status |-> "invited", is_active |-> FALSE,
                  password |-> FALSE, invitation |-> TRUE])

(* The invitation's row is locked until the commit.                        *)
accept_invitation(u) ==
    /\ user[u].invitation /\ user[u].account_status = "invited"
    /\ Handle(Only(u, [account_status |-> "active", is_active |-> TRUE,
                       password |-> TRUE, invitation |-> FALSE]), enforced, maps, u)

(* The role is derived from the grants; a grant of one's own may be deleted *)
(* and no break-glass check is made.                                       *)
create_grant(u) == ByAny /\ Exists(u) /\ Update(u, [role |-> "admin"])

delete_grant(u) ==
    /\ ByAny /\ user[u].role = "admin" /\ AnotherStays(u)
    /\ Update(u, [role |-> "other"])

----------------------------------------------------------------------------
(* Single sign-on.                                                         *)

confirm_totp_setup(u) == Usable(u) /\ u \in Local /\ Update(u, [factor |-> TRUE])

disable_totp(u) ==
    /\ Usable(u) /\ user[u].factor /\ ensure_break_glass_eligibility_can_be_removed(u)
    /\ Update(u, [factor |-> FALSE])

set_break_glass(u) ==
    /\ ByAny /\ u \in Local
    /\ IF user[u].break_glass
       THEN /\ enforced => active_break_glass_users \ {u} # {}
            /\ Update(u, [break_glass |-> FALSE])
       ELSE /\ user[u].role = "admin" /\ user[u].password /\ user[u].is_active /\ user[u].factor
            /\ Update(u, [break_glass |-> TRUE])

(* The provider is taken to be validated, tested and enabled.              *)
update_policy ==
    /\ ByAny
    /\ ~enforced => active_break_glass_users # {}
    /\ Handle(<<>>, ~enforced, maps, None)

_apply_jit_access(u, r) ==
    /\ r = "other" => AnotherStays(u) /\ ensure_break_glass_eligibility_can_be_removed(u)
    /\ Update(u, [role |-> r])

(* Sign-on applies the groups asserted by the provider.                    *)
resolve_sso_user(u) ==
    /\ u \in Jit
    /\ IF ~Exists(u) THEN Update(u, set_account_status("active"))
       ELSE Usable(u) /\ \E r \in {"admin", "other"} : _apply_jit_access(u, r)

(* Replacing the mappings of a provider resets the roles it has given.     *)
reconcile_provider_jit_users(u) ==
    ByAny /\ u \in Jit /\ Exists(u) /\ _apply_jit_access(u, "other")

----------------------------------------------------------------------------
(* Provisioning.                                                           *)

scim_create_user(u) ==
    /\ u \in Scim /\ ~Exists(u)
    /\ \E s \in {"active", "deactivated"} : Update(u, set_account_status(s))

_set_user_values(u, s) ==
    /\ u \in Scim /\ Exists(u)
    /\ s = "deactivated" => AnotherStays(u)
    /\ Update(u, set_account_status(s))

(* PUT and PATCH; DELETE deactivates.                                      *)
replace_user(u) == \E s \in {"active", "deactivated"} : _set_user_values(u, s)

DerivedRole(member, mapped) == IF member /\ mapped THEN "admin" ELSE "other"

(* The derived role is refused if it demotes the last administrator; of    *)
(* several members each is counted after the ones before it are demoted.   *)
recompute_scim_access(S, r) ==
    r = "other" /\ (\E u \in S : user[u].role = "admin" /\ user[u].account_status = "active")
        => Administrators \ S # {}

(* Creation, replacement, patch and deletion of a group.                   *)
_replace_group(u) ==
    LET in == ~user[u].member
        r == DerivedRole(in, maps)
    IN /\ u \in Scim /\ Exists(u) /\ recompute_scim_access({u}, r)
       /\ Update(u, [member |-> in, role |-> r])

update_group_mapping ==
    LET Members == {u \in Scim : user[u].member}
        r == DerivedRole(TRUE, ~maps)
    IN /\ ByAny /\ recompute_scim_access(Members, r)
       /\ Handle([u \in Members |-> Changed(u, [role |-> r])], enforced, ~maps, None)

----------------------------------------------------------------------------
Administer(u) ==
    \/ create_user(u) \/ update_user(u) \/ issue_invitation(u) \/ accept_invitation(u)
    \/ set_status(u) \/ delete_user(u)
    \/ create_grant(u) \/ delete_grant(u)

SignOn(u) ==
    \/ confirm_totp_setup(u) \/ disable_totp(u) \/ set_break_glass(u)
    \/ resolve_sso_user(u) \/ reconcile_provider_jit_users(u)

Provision(u) ==
    \/ scim_create_user(u) \/ replace_user(u) \/ _replace_group(u)

Next ==
    \/ \E u \in Users : Administer(u) \/ SignOn(u) \/ Provision(u)
    \/ update_policy \/ update_group_mapping \/ commit

Spec == Init /\ [][Next]_vars

----------------------------------------------------------------------------
StaleCommit == tx # None /\ tx' = None /\ ~tx.fresh

Recoverable == enforced => active_break_glass_users # {}

(* "The last active administrator cannot be deactivated", demoted, invited *)
(* again, deprovisioned or lose the grant; and while SSO is enforced a     *)
(* break-glass administrator can log in.  Either is lost only when two     *)
(* requests overlap, the second also when the administrator grant of the   *)
(* last break-glass account is deleted.                                    *)
AdministratorStays ==
    [][/\ Administrators # {} /\ Administrators' = {} => StaleCommit
       /\ Recoverable /\ ~Recoverable' =>
             StaleCommit \/ \E u \in active_break_glass_users : user'[u].role = "other"]_vars
=============================================================================
