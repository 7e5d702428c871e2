-------------------------- MODULE ScimProvisioning --------------------------
(***************************************************************************)
(* The groups that a provisioning client keeps (api/scim.py), the mappings *)
(* that an administrator gives them (api/v1/scim.py) and the access that   *)
(* the accounts derive from both (services/scim.py).                       *)
(*                                                                         *)
(* A request authenticates and commits its token's use, reads, and commits *)
(* what it writes; at most two are under way, and the statements that lock *)
(* or conflict (a membership deleted or inserted by both) order them.      *)
(* Names, filters, pages, rate limits, sites that are not mapped and what  *)
(* a change of status does to sessions are left out; so is the refusal to  *)
(* demote the last administrator (module Accounts).                        *)
(***************************************************************************)
EXTENDS FiniteSets, FiniteSetsExt, Naturals

CONSTANTS
    Members,        \* accounts that SCIM manages
    ScimGroups,
    ScimTokens,     \* bearer tokens that may be issued, numbered
    Clients,        \* requests that may be under way
    MaxScim,        \* bound on the requests
    None

VARIABLES
    group,      \* the mapping of each group, None if it does not exist
    member,     \* the members of each group
    access,     \* the access of each account
    token,      \* "none", "live" or "revoked"
    call,       \* the requests under way
    calls,      \* how many there have been
    raced       \* history: accounts whose access was derived before another request committed

vars == <<group, member, access, token, call, calls, raced>>

(* Roles by priority (0 is none, 1 the viewer); sites 2 stands for all.    *)
Mapping == [role : 0 .. 2, sites : 0 .. 2]
Unmapped == [role |-> 0, sites |-> 0]
Viewer == [role |-> 1, sites |-> 0]

TypeOK ==
    /\ group \in [ScimGroups -> Mapping \cup {None}]
    /\ member \in [ScimGroups -> SUBSET Members]
    /\ access \in [Members -> [role : 1 .. 2, sites : 0 .. 2]]
    /\ token \in [ScimTokens -> {"none", "live", "revoked"}]
    /\ raced \subseteq Members

(* create_user: the accounts are viewers without sites.                    *)
Init ==
    /\ group = [g \in ScimGroups |-> None]
    /\ member = [g \in ScimGroups |-> {}]
    /\ access = [u \in Members |-> Viewer]
    /\ token = [t \in ScimTokens |-> IF t = 1 THEN "live" ELSE "none"]
    /\ call = [c \in Clients |-> None] /\ calls = 0
    /\ raced = {}

----------------------------------------------------------------------------
(* What the memberships give.                                              *)

Derived(groups, u) ==
    LET of == {groups[g].map : g \in {h \in ScimGroups : groups[h].map # None /\ u \in groups[h].members}}
    IN  [role  |-> Max({1} \cup {m.role : m \in of}),
         sites |-> Max({0} \cup {m.sites : m \in of})]

Now == [g \in ScimGroups |-> [map |-> group[g], members |-> member[g]]]

----------------------------------------------------------------------------
(* A request.  It is authenticated by its token, and what it reads is kept *)
(* until it commits.                                                       *)

get_scim_context(t) == token[t] = "live"

Begins(c, t, kind, g) ==
    /\ call[c] = None /\ calls < MaxScim /\ (kind # "map" => get_scim_context(t))
    /\ calls' = calls + 1
    /\ call' = [call EXCEPT ![c] =
          [kind |-> kind, group |-> g, step |-> "reads", saw |-> member[g], change |-> None,
           affected |-> {}, writes |-> <<>>, beside |-> FALSE]]
    /\ UNCHANGED <<group, member, access, token, raced>>

(* A patch adds to, or removes from, the members that it has read.         *)
PatchedFrom(saw) == {saw \cup {u} : u \in Members} \cup {saw \ {u} : u \in Members}

replace_group_members(old, new) == old \cup new

(* Mutant of delete_group: the members are read after they are deleted.    *)
delete_group_Late(g) == {}

delete_group(g) == member[g]

(* The group as a request leaves it, and whom it recomputes.               *)
Outcomes(r) ==
    LET g == r.group
        set(map, members) == [map |-> map, members |-> members,
                              affected |-> replace_group_members(member[g], members)]
    IN  CASE r.kind = "create"  -> IF group[g] # None THEN {} ELSE {set(Unmapped, m) : m \in SUBSET Members}
          [] r.kind = "replace" -> IF group[g] = None THEN {} ELSE {set(group[g], m) : m \in SUBSET Members}
          [] r.kind = "patch"   -> IF group[g] = None THEN {}
                                   ELSE {set(group[g], m) : m \in PatchedFrom(r.saw)}
          [] r.kind = "delete"  -> IF group[g] = None THEN {}
                                   ELSE {[map |-> None, members |-> {}, affected |-> delete_group(g)]}
          [] r.kind = "map"     -> IF group[g] = None THEN {}
                                   ELSE {[map |-> m, members |-> member[g], affected |-> member[g]] : m \in Mapping}

(* The rows that a request holds until it commits.                         *)
Locked(d) == call[d] # None /\ call[d].step = "wrote"

Conflict(c, o) ==
    \E d \in Clients \ {c} :
        /\ Locked(d)
        /\ \/ call[d].group = call[c].group
           \/ {u \in o.affected : Derived([Now EXCEPT ![call[c].group] = [map |-> o.map, members |-> o.members]], u)
                                     # access[u]} \cap DOMAIN call[d].writes # {}

(* It writes the group, then recompute_scim_access derives the access of   *)
(* whoever is affected from its own writes and what others have committed; *)
(* an account whose access does not change is not written.                 *)
recompute_scim_access(c) ==
    /\ call[c] # None /\ call[c].step = "reads"
    /\ \E o \in Outcomes(call[c]) :
          /\ ~Conflict(c, o)
          /\ LET seen == [Now EXCEPT ![call[c].group] = [map |-> o.map, members |-> o.members]]
                 changed == {u \in o.affected : Derived(seen, u) # access[u]}
             IN  call' = [call EXCEPT ![c].step = "wrote", ![c].change = o, ![c].affected = o.affected,
                             ![c].writes = [u \in changed |-> Derived(seen, u)]]
    /\ UNCHANGED <<group, member, access, token, calls, raced>>

Commits(c) ==
    /\ call[c] # None /\ call[c].step = "wrote"
    /\ LET r == call[c] IN
          /\ group' = [group EXCEPT ![r.group] = r.change.map]
          /\ member' = [member EXCEPT ![r.group] = r.change.members]
          /\ access' = [u \in Members |-> IF u \in DOMAIN r.writes THEN r.writes[u] ELSE access[u]]
          /\ raced' = IF r.beside
                      THEN raced \cup r.affected \cup r.change.members \cup member[r.group]
                      ELSE raced \ r.affected
          /\ call' = [d \in Clients |-> IF d = c THEN None
                                       ELSE IF Locked(d) THEN [call[d] EXCEPT !.beside = TRUE]
                                       ELSE call[d]]
    /\ UNCHANGED <<token, calls>>

(* It is refused (404, 409, 400) or fails, and nothing of it is kept.      *)
Fails(c) ==
    /\ call[c] # None /\ call' = [call EXCEPT ![c] = None]
    /\ UNCHANGED <<group, member, access, token, calls, raced>>

----------------------------------------------------------------------------
(* An administrator replaces or revokes a token.                           *)

rotate_token(t) ==
    /\ t + 1 \in ScimTokens /\ token[t] = "live" /\ token[t + 1] = "none"
    /\ token' = [token EXCEPT ![t] = "revoked", ![t + 1] = "live"]
    /\ UNCHANGED <<group, member, access, call, calls, raced>>

revoke_token(t) ==
    /\ token[t] = "live" /\ token' = [token EXCEPT ![t] = "revoked"]
    /\ UNCHANGED <<group, member, access, call, calls, raced>>

Next ==
    \/ \E c \in Clients :
          \/ \E t \in ScimTokens, g \in ScimGroups, k \in {"create", "replace", "patch", "delete", "map"} :
                Begins(c, t, k, g)
          \/ recompute_scim_access(c) \/ Commits(c) \/ Fails(c)
    \/ \E t \in ScimTokens : rotate_token(t) \/ revoke_token(t)

Spec == Init /\ [][Next]_vars

----------------------------------------------------------------------------
(* "Derive compatibility role/site access from all direct SCIM memberships":*)
(* what an account may do is what its groups are mapped to, whatever was   *)
(* created, replaced, patched, mapped or deleted, unless the last request  *)
(* that concerned it had derived it before another one committed.          *)
AccessFollowsGroups == \A u \in Members \ raced : access[u] = Derived(Now, u)
=============================================================================
