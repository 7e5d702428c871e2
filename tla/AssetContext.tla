---------------------------- MODULE AssetContext ----------------------------
(***************************************************************************)
(* Tags, groups and owners of assets (services/asset_context.py,           *)
(* api/v1/asset_context.py) with the other writers of what they are        *)
(* derived from: ingestion, reconciliation, software inventory and sites.  *)
(*                                                                         *)
(* A request is one transaction, and one step here: it changes rows and    *)
(* derives memberships and owner snapshots from what it then sees.  No lock*)
(* orders requests; two that overlap may leave derived rows behind.  A rule*)
(* looks at the tag or at a field of an asset; the other operators and the *)
(* logical nodes are left out, as are the owners of findings, permissions  *)
(* and explanations.                                                       *)
(***************************************************************************)
EXTENDS FiniteSets, Naturals

CONSTANTS
    Assets,
    Groups,     \* rows that requests may create, numbered
    Sites,
    Priorities,
    None

VARIABLES
    db,         \* the rows
    unrefreshed \* assets whose facts were written by what refreshes no group

vars == <<db, unrefreshed>>

Home == CHOOSE s \in Sites : TRUE   \* the site of the assets

(* Owners are told apart by where they come from; a group, a site, an      *)
(* asset or the department has one or none.                                *)
NoGroup == [exists |-> FALSE, dynamic |-> FALSE, site |-> None, enabled |-> FALSE,
            owned |-> FALSE, priority |-> 0, rule |-> "tag"]

Group == [exists : BOOLEAN, dynamic : BOOLEAN, site : Sites \cup {None}, enabled : BOOLEAN,
          owned : BOOLEAN, priority : Priorities \cup {0}, rule : {"tag", "field"}]

NoAsset == [exists |-> FALSE, tag |-> FALSE, field |-> FALSE, owned |-> FALSE]

Source == {<<"asset", 0>>, <<"site", 0>>, <<"department", 0>>, <<"unassigned", 0>>}
              \cup ({"group"} \X Groups)

TypeOK ==
    /\ db.asset \in [Assets -> [exists : BOOLEAN, tag : BOOLEAN, field : BOOLEAN, owned : BOOLEAN]]
    /\ db.group \in [Groups -> Group] /\ db.members \subseteq Groups \X Assets
    /\ db.fallback \in [{"site", "department"} -> BOOLEAN]
    /\ db.last \in [Assets -> Source \cup {None}]
    /\ unrefreshed \subseteq Assets

Init ==
    /\ db = [asset |-> [a \in Assets |-> NoAsset], group |-> [g \in Groups |-> NoGroup],
             members |-> {}, fallback |-> [f \in {"site", "department"} |-> FALSE],
             last |-> [a \in Assets |-> None]]
    /\ unrefreshed = {}

----------------------------------------------------------------------------
(* What is derived from the rows d.                                        *)

InScope(d, g) == d.group[g].site \in {None, Home}

Matches(d, g, a) ==
    /\ d.group[g].enabled /\ InScope(d, g)
    /\ d.asset[a].exists /\ d.asset[a][d.group[g].rule]

Dynamic(d) == {g \in Groups : d.group[g].exists /\ d.group[g].dynamic}

(* The memberships of the pairs are derived anew.                          *)
Evaluated(d, pairs) ==
    [d EXCEPT !.members = (@ \ pairs) \cup {p \in pairs : Matches(d, p[1], p[2])}]

refresh_dynamic_memberships_for_asset(d, a) == Evaluated(d, Dynamic(d) \X {a})

materialize_dynamic_group(d, g) == Evaluated(d, {g} \X Assets)

Owning(d, a) ==
    {g \in Groups : <<g, a>> \in d.members /\ d.group[g].enabled /\ d.group[g].owned}

Highest(d, a) ==
    {g \in Owning(d, a) : \A h \in Owning(d, a) : d.group[g].priority >= d.group[h].priority}

Tied(d, a) == ~d.asset[a].owned /\ Cardinality(Highest(d, a)) > 1

resolve_ownership(d, a) ==
    IF d.asset[a].owned THEN <<"asset", 0>>
    ELSE IF Highest(d, a) # {} THEN <<"group", CHOOSE g \in Highest(d, a) : TRUE>>
    ELSE IF d.fallback.site THEN <<"site", 0>>
    ELSE IF d.fallback.department THEN <<"department", 0>>
    ELSE <<"unassigned", 0>>

record_ownership_snapshot(d, as) ==
    [d EXCEPT !.last = [a \in Assets |-> IF a \in as /\ d.asset[a].exists
                                         THEN resolve_ownership(d, a) ELSE @[a]]]

Members(d, g) == {a \in Assets : <<g, a>> \in d.members}

----------------------------------------------------------------------------
(* A request makes d of the rows, and resolves the owners of the assets as;*)
(* a tie among them fails it.                                              *)
Request(d, as, refreshed) ==
    /\ \A a \in as : d.asset[a].exists => ~Tied(d, a)
    /\ db' = record_ownership_snapshot(d, as) /\ unrefreshed' = unrefreshed \ refreshed

(* Facts of an asset change, its groups are refreshed, its owner resolved. *)
Reassess(a, row) ==
    Request(refresh_dynamic_memberships_for_asset([db EXCEPT !.asset[a] = row], a), {a}, {a})

update_asset_context(a) ==
    /\ db.asset[a].exists
    /\ \E f, o \in BOOLEAN : Reassess(a, [db.asset[a] EXCEPT !.field = f, !.owned = o])

add_asset_tag(a) ==
    db.asset[a].exists /\ ~db.asset[a].tag /\ Reassess(a, [db.asset[a] EXCEPT !.tag = TRUE])

delete_asset_tag(a) ==
    db.asset[a].exists /\ db.asset[a].tag /\ Reassess(a, [db.asset[a] EXCEPT !.tag = FALSE])

(* Mutant of delete_tag: the groups of the assets are not refreshed.       *)
delete_tag_Unrefreshed ==
    LET as == {a \in Assets : db.asset[a].tag}
    IN  /\ as # {}
        /\ Request([db EXCEPT !.asset = [a \in Assets |-> [@[a] EXCEPT !.tag = FALSE]]], as, as)

delete_tag ==
    LET as == {a \in Assets : db.asset[a].tag}
        d  == [db EXCEPT !.asset = [a \in Assets |-> [@[a] EXCEPT !.tag = FALSE]]]
    IN  as # {} /\ Request(Evaluated(d, Dynamic(d) \X as), as, as)

_ingest_host(a) ==
    \E f \in BOOLEAN : Reassess(a, [db.asset[a] EXCEPT !.exists = TRUE, !.field = f])

delete_asset(a) ==
    /\ db.asset[a].exists
    /\ Request([db EXCEPT !.asset[a] = NoAsset, !.members = {p \in @ : p[2] # a}, !.last[a] = None],
               {}, {a})

(* What writes assets and refreshes nothing: an observation becomes one,   *)
(* an authenticated inventory names the operating system.                  *)
Unrefreshed(a, row) ==
    db' = [db EXCEPT !.asset[a] = row] /\ unrefreshed' = unrefreshed \cup {a}

_create_asset_from_observation(a) ==
    /\ ~db.asset[a].exists
    /\ \E f \in BOOLEAN : Unrefreshed(a, [NoAsset EXCEPT !.exists = TRUE, !.field = f])

ingest_inventory(a) ==
    db.asset[a].exists /\ Unrefreshed(a, [db.asset[a] EXCEPT !.field = ~@])

----------------------------------------------------------------------------
(* Groups.                                                                 *)

(* No other enabled group with an owner may overlap at the same priority.  *)
validate_group_tie(g, row) ==
    row.owned /\ row.enabled =>
        ~\E h \in Groups \ {g} :
            /\ db.group[h].exists /\ db.group[h].enabled /\ db.group[h].owned
            /\ db.group[h].priority = row.priority
            /\ row.site # None => db.group[h].site \in {None, row.site}

create_group(g) ==
    /\ \A h \in Groups : h < g => db.group[h].exists
    /\ ~db.group[g].exists
    /\ \E dynamic, enabled, owned \in BOOLEAN, site \in Sites \cup {None}, p \in Priorities,
          rule \in {"tag", "field"} :
       LET row == [exists |-> TRUE, dynamic |-> dynamic, site |-> site, enabled |-> enabled,
                   owned |-> owned, priority |-> p, rule |-> IF dynamic THEN rule ELSE "tag"]
       IN /\ validate_group_tie(g, row)
          /\ LET d == [db EXCEPT !.group[g] = row]
                 e == IF row.dynamic THEN materialize_dynamic_group(d, g) ELSE d
             IN  Request(e, Members(e, g), {})

Resolves(e, g) == Members(db, g) \cup Members(e, g)

(* One column at a time.                                                   *)
Changed(row) ==
    {[row EXCEPT !.site = s] : s \in Sites \cup {None}}
        \cup {[row EXCEPT !.priority = p] : p \in Priorities}
        \cup {[row EXCEPT !.enabled = ~@], [row EXCEPT !.owned = ~@]}
        \cup {[row EXCEPT !.rule = r] : r \in IF row.dynamic THEN {"tag", "field"} ELSE {}}

update_group(g) ==
    /\ db.group[g].exists
    /\ \E row \in Changed(db.group[g]) :
          /\ validate_group_tie(g, row)
          /\ LET d == [db EXCEPT !.group[g] = row]
                 evaluates == row.dynamic /\ \E c \in {"rule", "site", "enabled"} : row[c] # db.group[g][c]
                 e == IF evaluates THEN materialize_dynamic_group(d, g) ELSE d
             IN  Request(e, Resolves(e, g), {})

delete_group(g) ==
    /\ db.group[g].exists
    /\ Request([db EXCEPT !.group[g] = NoGroup, !.members = {p \in @ : p[1] # g}], Members(db, g), {})

evaluate_group(g) ==
    /\ g \in Dynamic(db)
    /\ LET e == materialize_dynamic_group(db, g) IN Request(e, Resolves(e, g), {})

add_group_members(g, a) ==
    /\ db.group[g].exists /\ ~db.group[g].dynamic /\ InScope(db, g)
    /\ db.asset[a].exists /\ <<g, a>> \notin db.members
    /\ Request([db EXCEPT !.members = @ \cup {<<g, a>>}], {a}, {})

remove_group_members(g, a) ==
    /\ db.group[g].exists /\ ~db.group[g].dynamic /\ <<g, a>> \in db.members
    /\ Request([db EXCEPT !.members = @ \ {<<g, a>>}], {a}, {})

(* The owner of the site, or of the department, of the assets.             *)
update_site == Request([db EXCEPT !.fallback.site = ~@], Assets, {})

upsert_department_owner ==
    ~db.fallback.department /\ Request([db EXCEPT !.fallback.department = TRUE], Assets, {})

delete_department_owner ==
    db.fallback.department /\ Request([db EXCEPT !.fallback.department = FALSE], Assets, {})

----------------------------------------------------------------------------
Next ==
    \/ \E a \in Assets :
          \/ update_asset_context(a) \/ add_asset_tag(a) \/ delete_asset_tag(a)
          \/ _ingest_host(a) \/ delete_asset(a)
          \/ _create_asset_from_observation(a) \/ ingest_inventory(a)
    \/ \E g \in Groups :
          \/ create_group(g) \/ update_group(g) \/ delete_group(g) \/ evaluate_group(g)
          \/ \E a \in Assets : add_group_members(g, a) \/ remove_group_members(g, a)
    \/ delete_tag \/ update_site \/ upsert_department_owner \/ delete_department_owner

Spec == Init /\ [][Next]_vars

----------------------------------------------------------------------------
(* The rows that are derived are those the rules call for.  "Dynamic       *)
(* membership is refreshed after discovery, context, or tag changes":      *)
(* members of a dynamic group are those that its rule, site and switch ask *)
(* for, if the last writer of the asset refreshes groups.  And whatever    *)
(* changes who owns an asset leaves a snapshot: the newest of the history  *)
(* names the source that resolution finds now, unless it fails on a tie.   *)
DerivedRowsFollow ==
    /\ \A g \in Dynamic(db), a \in Assets \ unrefreshed :
          <<g, a>> \in db.members <=> Matches(db, g, a)
    /\ \A a \in Assets :
          db.asset[a].exists /\ db.last[a] # None /\ ~Tied(db, a) =>
              db.last[a] = resolve_ownership(db, a)

(* "An enabled ownership group must have a unique priority among groups    *)
(* that could overlap.  Configuration rejects a potential tie": whatever a *)
(* scan reports of a host, its owner can be resolved, so that the upload is*)
(* not refused.                                                            *)
IngestionMeetsNoTie ==
    \A a \in Assets, f \in BOOLEAN :
        LET row == [db.asset[a] EXCEPT !.exists = TRUE, !.field = f]
        IN  ~Tied(refresh_dynamic_memberships_for_asset([db EXCEPT !.asset[a] = row], a), a)
=============================================================================
