----------------------------- MODULE DataExport -----------------------------
(***************************************************************************)
(* The portability export of an organisation: build_export and             *)
(* validate_import of services/export.py, the foreign keys of the models   *)
(* it reads, and the requests that insert, change and delete those rows    *)
(* while it runs.                                                          *)
(*                                                                         *)
(* build_export reads its sections one SELECT after another in a READ      *)
(* COMMITTED transaction, so each section sees what was committed before   *)
(* that SELECT, and the commits of others fall between two of them.        *)
(*                                                                         *)
(* What matters of a section is the references its rows carry: a section   *)
(* is the set of its reference columns, each with the section it points    *)
(* to (sections are named as the bundle names them).  A behaviour follows  *)
(* ONE column and the rows of its two sections; what another column does   *)
(* to these rows is one of the deletions below.  A reference may be NULL   *)
(* in any column here: NOT NULL is not followed.                           *)
(***************************************************************************)
EXTENDS Naturals

CONSTANTS
    Ids,    \* row ids (uuids are never given twice)
    None    \* NULL, and a row that is not there

----------------------------------------------------------------------------
(* The sections: <<column, the section it refers to>>.                     *)

_users == {}
_user_site_assignments == {<<"user_id", "users">>, <<"site_id", "sites">>}
_authorization_roles == {}
(* principal_id is user_id or service_account_id.                          *)
_scoped_grants == {<<"user_id", "users">>, <<"service_account_id", "service_accounts">>,
                   <<"role_id", "authorization_roles">>, <<"scope_id", "sites">>}
_service_accounts == {}
_api_tokens == {<<"user_id", "users">>, <<"service_account_id", "service_accounts">>}
_credential_records == {}
_credential_assignments == {<<"credential_id", "credential_records">>, <<"site_id", "sites">>}
_credential_tests == {<<"credential_id", "credential_records">>, <<"asset_id", "assets">>,
                      <<"scan_job_id", "scan_jobs">>}
_credential_usage == {<<"credential_id", "credential_records">>, <<"asset_id", "assets">>,
                      <<"probe_id", "scouts">>, <<"scan_job_id", "scan_jobs">>}
(* One of the asset groups of the mapping: they come and go one by one.    *)
_scim_groups == {<<"asset_group_ids", "asset_groups">>}
_scim_group_members == {<<"group_id", "scim_groups">>, <<"user_id", "users">>}
_scim_group_site_mappings == {<<"group_id", "scim_groups">>, <<"site_id", "sites">>}
_scim_provisioning_logs == {}
_sites == {<<"owner_user_id", "users">>}
_scopes == {<<"site_id", "sites">>}
_scouts == {}
_assets == {<<"site_id", "sites">>, <<"owner_user_id", "users">>}
_asset_tags == {}
_asset_tag_assignments == {<<"asset_id", "assets">>, <<"tag_id", "asset_tags">>}
_asset_groups == {<<"site_id", "sites">>, <<"owner_user_id", "users">>}
_asset_group_memberships == {<<"group_id", "asset_groups">>, <<"asset_id", "assets">>}
_department_owners == {<<"owner_user_id", "users">>}
_asset_ownership_history == {<<"asset_id", "assets">>, <<"finding_id", "findings">>,
                             <<"owner_user_id", "users">>}
_services == {<<"asset_id", "assets">>}
_software_inventory == {<<"site_id", "sites">>, <<"asset_id", "assets">>}
_software_history == {<<"site_id", "sites">>, <<"asset_id", "assets">>,
                      <<"software_item_id", "software_inventory">>, <<"scan_job_id", "scan_jobs">>}
_eol_overrides == {<<"software_item_id", "software_inventory">>}
_findings == {<<"site_id", "sites">>, <<"asset_id", "assets">>,
              <<"current_score_snapshot_id", "finding_score_snapshots">>,
              <<"current_sla_calculation_id", "finding_sla_calculations">>}
_risk_profiles == {<<"created_by_user_id", "users">>}
_finding_score_snapshots == {<<"site_id", "sites">>, <<"finding_id", "findings">>,
                             <<"risk_profile_id", "risk_profiles">>}
_remediation_units == {<<"site_id", "sites">>, <<"owner_user_id", "users">>}
_remediation_unit_findings == {<<"remediation_unit_id", "remediation_units">>,
                               <<"finding_id", "findings">>, <<"added_by_user_id", "users">>}
_remediation_suggestions == {<<"site_id", "sites">>, <<"remediation_unit_id", "remediation_units">>,
                             <<"finding_id", "findings">>, <<"reviewed_by_user_id", "users">>}
_finding_decisions == {<<"site_id", "sites">>, <<"finding_id", "findings">>,
                       <<"duplicate_of_finding_id", "findings">>,
                       <<"created_by_user_id", "users">>, <<"revoked_by_user_id", "users">>}
_sla_policies == {}
_finding_sla_calculations == {<<"site_id", "sites">>, <<"finding_id", "findings">>,
                              <<"policy_id", "sla_policies">>,
                              <<"previous_calculation_id", "finding_sla_calculations">>}
_sla_exceptions == {<<"site_id", "sites">>, <<"finding_id", "findings">>,
                    <<"resulting_calculation_id", "finding_sla_calculations">>}
_sla_history == {<<"site_id", "sites">>, <<"finding_id", "findings">>}
_remediation_guidance == {<<"site_id", "sites">>, <<"finding_id", "findings">>}
_ticket_connectors == {}
_ticket_syncs == {<<"site_id", "sites">>, <<"connector_id", "ticket_connectors">>,
                  <<"finding_id", "findings">>}
_ticket_sync_events == {<<"site_id", "sites">>, <<"sync_id", "ticket_syncs">>}
_inventory_connectors == {<<"site_id", "sites">>}
_connector_runs == {<<"site_id", "sites">>, <<"connector_id", "inventory_connectors">>}
_asset_observations == {<<"site_id", "sites">>, <<"connector_id", "inventory_connectors">>,
                        <<"run_id", "connector_runs">>, <<"matched_asset_id", "assets">>}
_asset_source_links == {<<"site_id", "sites">>, <<"connector_id", "inventory_connectors">>,
                        <<"asset_id", "assets">>}
_asset_inventory_states == {<<"asset_id", "assets">>, <<"site_id", "sites">>}
_inventory_lifecycle_events == {<<"site_id", "sites">>, <<"asset_id", "assets">>,
                                <<"source_observation_id", "asset_observations">>}
_reconciliation_candidates == {<<"site_id", "sites">>, <<"observation_id", "asset_observations">>,
                               <<"candidate_asset_id", "assets">>,
                               <<"decided_by_user_id", "users">>}
_daily_finding_aggregates == {<<"site_id", "sites">>}
_report_templates == {<<"site_id", "sites">>}
_report_template_schedules == {<<"site_id", "sites">>, <<"template_id", "report_templates">>}
_report_template_runs == {<<"site_id", "sites">>, <<"template_id", "report_templates">>,
                          <<"schedule_id", "report_template_schedules">>}
_reports == {}
_risk_acceptances == {<<"finding_id", "findings">>}
_finding_notes == {<<"finding_id", "findings">>}

(***************************************************************************)
(* The bundle in the order it is read.  References that name their table   *)
(* in another column (target_id, source_id, resource_id) and those inside  *)
(* a JSON value are left out, but for the asset groups of a SCIM mapping.  *)
(***************************************************************************)
build_export == <<
    <<"users", _users>>,
    <<"user_site_assignments", _user_site_assignments>>,
    <<"authorization_roles", _authorization_roles>>,
    <<"scoped_grants", _scoped_grants>>,
    <<"service_accounts", _service_accounts>>,
    <<"api_tokens", _api_tokens>>,
    <<"credential_records", _credential_records>>,
    <<"credential_assignments", _credential_assignments>>,
    <<"credential_tests", _credential_tests>>,
    <<"credential_usage", _credential_usage>>,
    <<"scim_groups", _scim_groups>>,
    <<"scim_group_members", _scim_group_members>>,
    <<"scim_group_site_mappings", _scim_group_site_mappings>>,
    <<"scim_provisioning_logs", _scim_provisioning_logs>>,
    <<"sites", _sites>>,
    <<"network_scopes", _scopes>>,
    <<"scouts", _scouts>>,
    <<"assets", _assets>>,
    <<"asset_tags", _asset_tags>>,
    <<"asset_tag_assignments", _asset_tag_assignments>>,
    <<"asset_groups", _asset_groups>>,
    <<"asset_group_memberships", _asset_group_memberships>>,
    <<"department_owners", _department_owners>>,
    <<"asset_ownership_history", _asset_ownership_history>>,
    <<"services", _services>>,
    <<"software_inventory", _software_inventory>>,
    <<"software_history", _software_history>>,
    <<"eol_overrides", _eol_overrides>>,
    <<"findings", _findings>>,
    <<"risk_profiles", _risk_profiles>>,
    <<"finding_score_snapshots", _finding_score_snapshots>>,
    <<"remediation_units", _remediation_units>>,
    <<"remediation_unit_findings", _remediation_unit_findings>>,
    <<"remediation_suggestions", _remediation_suggestions>>,
    <<"finding_decisions", _finding_decisions>>,
    <<"sla_policies", _sla_policies>>,
    <<"finding_sla_calculations", _finding_sla_calculations>>,
    <<"sla_exceptions", _sla_exceptions>>,
    <<"sla_history", _sla_history>>,
    <<"remediation_guidance", _remediation_guidance>>,
    <<"ticket_connectors", _ticket_connectors>>,
    <<"ticket_syncs", _ticket_syncs>>,
    <<"ticket_sync_events", _ticket_sync_events>>,
    <<"inventory_connectors", _inventory_connectors>>,
    <<"connector_runs", _connector_runs>>,
    <<"asset_observations", _asset_observations>>,
    <<"asset_source_links", _asset_source_links>>,
    <<"asset_inventory_states", _asset_inventory_states>>,
    <<"inventory_lifecycle_events", _inventory_lifecycle_events>>,
    <<"reconciliation_candidates", _reconciliation_candidates>>,
    <<"daily_finding_aggregates", _daily_finding_aggregates>>,
    <<"report_templates", _report_templates>>,
    <<"report_template_schedules", _report_template_schedules>>,
    <<"report_template_runs", _report_template_runs>>,
    <<"reports", _reports>>,
    <<"risk_acceptances", _risk_acceptances>>,
    <<"finding_notes", _finding_notes>> >>

Sections == {build_export[k][1] : k \in DOMAIN build_export}

(* The position of a section: which of two is read first.                  *)
Place(t) == LET order == build_export IN CHOOSE k \in DOMAIN order : order[k][1] = t

----------------------------------------------------------------------------
(* The foreign keys of these columns, by the models that declare them:     *)
(* what the deletion of the row referred to does to the row that refers.   *)

On(rule, t, names) == {<<t, n, rule>> : n \in names}

UserKeys == On("CASCADE", "user_site_assignments", {"user_id", "site_id"})

(* Only the scope of a grant, a site or the organisation, has none.        *)
GrantKeys ==
    On("CASCADE", "scoped_grants", {"user_id", "service_account_id", "role_id"})
    \cup On("CASCADE", "api_tokens", {"user_id", "service_account_id"})

CredentialKeys ==
    On("CASCADE", "credential_assignments", {"credential_id", "site_id"})
    \cup On("CASCADE", "credential_tests", {"credential_id", "asset_id"})
    \cup On("CASCADE", "credential_usage", {"credential_id", "asset_id", "probe_id"})

(* The asset groups of a mapping are a JSON column.                        *)
ScimKeys ==
    On("CASCADE", "scim_group_members", {"group_id", "user_id"})
    \cup On("CASCADE", "scim_group_site_mappings", {"group_id", "site_id"})

SiteKeys == On("SET NULL", "sites", {"owner_user_id"})

ScopeKeys == On("CASCADE", "network_scopes", {"site_id"})

AssetKeys == On("CASCADE", "assets", {"site_id"}) \cup On("SET NULL", "assets", {"owner_user_id"})

AssetContextKeys ==
    On("CASCADE", "asset_tag_assignments", {"asset_id", "tag_id"})
    \cup On("CASCADE", "asset_groups", {"site_id"})
    \cup On("SET NULL", "asset_groups", {"owner_user_id"})
    \cup On("CASCADE", "asset_group_memberships", {"group_id", "asset_id"})
    \cup On("CASCADE", "department_owners", {"owner_user_id"})
    \cup On("CASCADE", "asset_ownership_history", {"asset_id", "finding_id"})
    \cup On("SET NULL", "asset_ownership_history", {"owner_user_id"})

ServiceKeys == On("CASCADE", "services", {"asset_id"})

SoftwareKeys ==
    On("CASCADE", "software_inventory", {"site_id", "asset_id"})
    \cup On("CASCADE", "software_history", {"site_id", "asset_id", "software_item_id"})
    \cup On("CASCADE", "eol_overrides", {"software_item_id"})

FindingKeys == On("CASCADE", "findings", {"site_id", "asset_id"})

RiskKeys ==
    On("SET NULL", "risk_profiles", {"created_by_user_id"})
    \cup On("CASCADE", "finding_score_snapshots", {"site_id", "finding_id"})
    \cup On("RESTRICT", "finding_score_snapshots", {"risk_profile_id"})
    \cup On("CASCADE", "remediation_units", {"site_id"})
    \cup On("SET NULL", "remediation_units", {"owner_user_id"})

RemediationKeys ==
    On("CASCADE", "remediation_unit_findings", {"remediation_unit_id", "finding_id"})
    \cup On("SET NULL", "remediation_unit_findings", {"added_by_user_id"})
    \cup On("CASCADE", "remediation_suggestions", {"site_id", "remediation_unit_id", "finding_id"})
    \cup On("SET NULL", "remediation_suggestions", {"reviewed_by_user_id"})
    \cup On("CASCADE", "finding_decisions", {"site_id", "finding_id"})
    \cup On("SET NULL", "finding_decisions",
            {"duplicate_of_finding_id", "created_by_user_id", "revoked_by_user_id"})

SlaKeys ==
    On("CASCADE", "finding_sla_calculations", {"site_id", "finding_id"})
    \cup On("SET NULL", "finding_sla_calculations", {"policy_id", "previous_calculation_id"})
    \cup On("CASCADE", "sla_exceptions", {"site_id", "finding_id"})
    \cup On("SET NULL", "sla_exceptions", {"resulting_calculation_id"})
    \cup On("CASCADE", "sla_history", {"site_id", "finding_id"})
    \cup On("CASCADE", "remediation_guidance", {"site_id", "finding_id"})

TicketKeys ==
    On("CASCADE", "ticket_syncs", {"site_id", "connector_id", "finding_id"})
    \cup On("CASCADE", "ticket_sync_events", {"site_id", "sync_id"})

ObservationKeys ==
    On("CASCADE", "inventory_connectors", {"site_id"})
    \cup On("CASCADE", "connector_runs", {"site_id", "connector_id"})
    \cup On("CASCADE", "asset_observations", {"site_id", "connector_id", "run_id"})
    \cup On("SET NULL", "asset_observations", {"matched_asset_id"})

InventoryKeys ==
    On("CASCADE", "asset_source_links", {"site_id", "connector_id", "asset_id"})
    \cup On("CASCADE", "asset_inventory_states", {"asset_id", "site_id"})
    \cup On("CASCADE", "inventory_lifecycle_events", {"site_id", "asset_id"})
    \cup On("SET NULL", "inventory_lifecycle_events", {"source_observation_id"})
    \cup On("CASCADE", "reconciliation_candidates",
            {"site_id", "observation_id", "candidate_asset_id"})
    \cup On("SET NULL", "reconciliation_candidates", {"decided_by_user_id"})

AggregateKeys == On("CASCADE", "daily_finding_aggregates", {"site_id"})

TemplateKeys ==
    On("CASCADE", "report_templates", {"site_id"})
    \cup On("CASCADE", "report_template_schedules", {"site_id", "template_id"})
    \cup On("CASCADE", "report_template_runs", {"site_id", "template_id"})
    \cup On("SET NULL", "report_template_runs", {"schedule_id"})

AcceptanceKeys == On("CASCADE", "risk_acceptances", {"finding_id"})

NoteKeys == On("CASCADE", "finding_notes", {"finding_id"})

Keys ==
    UserKeys \cup GrantKeys \cup CredentialKeys \cup ScimKeys \cup SiteKeys \cup ScopeKeys
    \cup AssetKeys \cup AssetContextKeys \cup ServiceKeys \cup SoftwareKeys \cup FindingKeys
    \cup RiskKeys \cup RemediationKeys \cup SlaKeys \cup TicketKeys \cup ObservationKeys
    \cup InventoryKeys \cup AggregateKeys \cup TemplateKeys \cup AcceptanceKeys \cup NoteKeys

(***************************************************************************)
(* The current snapshot and calculation of a finding are columns without a *)
(* foreign key, but they are inserted with the reference to them and are   *)
(* deleted only with their finding (RiskKeys and SlaKeys cascade).         *)
(***************************************************************************)
OwnRows ==
    On("CASCADE", "findings", {"current_score_snapshot_id", "current_sla_calculation_id"})

RulesOf(t, name) ==
    {rule \in {"CASCADE", "SET NULL", "RESTRICT"} : <<t, name, rule>> \in Keys \cup OwnRows}

(* The columns that refer to a section of the bundle (scan jobs are none), *)
(* with the rules of their foreign keys.                                   *)
Columns ==
    {c \in UNION {{[of |-> build_export[k][1], name |-> r[1], to |-> r[2],
                    rules |-> RulesOf(build_export[k][1], r[1])] : r \in build_export[k][2]}
                  : k \in DOMAIN build_export} : c.to \in Sections}

Ruled(c, rule) == rule \in c.rules

(* The columns whose rows may refer to a row that is gone.                 *)
Unguarded(c) == c.rules = {}

(* Sections whose rows are disabled or superseded and never deleted.       *)
Permanent ==
    {"users", "service_accounts", "api_tokens", "credential_records", "scim_provisioning_logs",
     "risk_profiles", "sla_policies", "ticket_connectors"}

----------------------------------------------------------------------------
VARIABLES
    column,   \* the reference that is followed
    stored,   \* the rows of its two sections: the section and the reference
    spent,    \* ids that were given to a row
    asked,    \* references that a request has checked and not written yet
    planned,  \* for a group that is being deleted, what the SCIM mappings held
    stray,    \* history: references to a row that was gone
    bundle,   \* what the export has read
    read,     \* the sections it has read; both while no export runs
    born,     \* rows inserted since the export began
    gone      \* rows deleted since the export began

rows == <<stored, spent, asked, planned, stray, born, gone>>
export == <<bundle, read>>
vars == <<column, rows, export>>

Followed == {column.of, column.to}

Row == [of : Sections, to : Ids \cup {None}]

Present(i) == stored[i] # None

RowsOf(t) == {i \in Ids : Present(i) /\ stored[i].of = t}

TypeOK ==
    /\ column \in Columns
    /\ stored \in [Ids -> Row \cup {None}]
    /\ spent \subseteq Ids /\ born \subseteq Ids /\ gone \subseteq Ids
    /\ asked \subseteq Ids \X Ids /\ stray \subseteq Ids \X Ids
    /\ planned \in [Ids -> {None} \cup UNION {[M -> Ids \cup {None}] : M \in SUBSET Ids}]
    /\ bundle \subseteq [of : Sections, id : Ids, to : Ids \cup {None}]
    /\ read \subseteq Followed

Init ==
    /\ column \in Columns
    /\ stored = [i \in Ids |-> None]
    /\ spent = {} /\ asked = {} /\ planned = [g \in Ids |-> None] /\ stray = {}
    /\ bundle = {} /\ read = Followed
    /\ born = {} /\ gone = {}

----------------------------------------------------------------------------
(* The requests and handlers that write these rows.                        *)

(* An INSERT.  A foreign key is checked and its row locked with it.        *)
creates(i, t, j) ==
    /\ i \notin spent /\ t \in Followed
    /\ j # None => t = column.of /\ ~Unguarded(column) /\ j \in RowsOf(column.to)
    /\ stored' = [stored EXCEPT ![i] = [of |-> t, to |-> j]]
    /\ spent' = spent \cup {i} /\ born' = born \cup {i}
    /\ UNCHANGED <<column, asked, planned, stray, gone, export>>

(* An UPDATE of a reference, the same way.                                 *)
updates(i, j) ==
    /\ i \in RowsOf(column.of) /\ ~Unguarded(column)
    /\ j # None => j \in RowsOf(column.to)
    /\ stored' = [stored EXCEPT ![i] = [of |-> column.of, to |-> j]]
    /\ UNCHANGED <<column, spent, asked, planned, stray, born, gone, export>>

(* create_grant looks the site up, and inserts the grant in a statement of *)
(* its own: the site may be deleted between.                               *)
create_grant_checks(i, j) ==
    /\ column.of = "scoped_grants" /\ column.name = "scope_id"
    /\ i \notin spent /\ j \in RowsOf(column.to)
    /\ asked' = asked \cup {<<i, j>>}
    /\ UNCHANGED <<column, stored, spent, planned, stray, born, gone, export>>

(* A reference that is written although its row is gone.                   *)
Astray(i, j) == IF j # None /\ ~Present(j) THEN stray \cup {<<i, j>>} ELSE stray

create_grant_writes(i, j) ==
    /\ column.of = "scoped_grants" /\ column.name = "scope_id"
    /\ <<i, j>> \in asked /\ i \notin spent
    /\ stored' = [stored EXCEPT ![i] = [of |-> column.of, to |-> j]]
    /\ spent' = spent \cup {i} /\ born' = born \cup {i}
    /\ asked' = asked \ {<<i, j>>} /\ stray' = Astray(i, j)
    /\ UNCHANGED <<column, planned, gone, export>>

(* update_group_mapping of SCIM: the same of the asset groups it names.    *)
_validate_asset_group_ids(i, j) ==
    /\ column.of = "scim_groups"
    /\ i \in RowsOf(column.of) /\ j \in RowsOf(column.to)
    /\ asked' = asked \cup {<<i, j>>}
    /\ UNCHANGED <<column, stored, spent, planned, stray, born, gone, export>>

update_group_mapping(i, j) ==
    /\ column.of = "scim_groups"
    /\ i \in RowsOf(column.of) /\ (j # None => <<i, j>> \in asked)
    /\ stored' = [stored EXCEPT ![i] = [of |-> column.of, to |-> j]]
    /\ asked' = asked \ {<<i, j>>} /\ stray' = Astray(i, j)
    /\ UNCHANGED <<column, spent, planned, born, gone, export>>

(* What is left of the rows when those of R are deleted.                   *)
Left(R, nulled) ==
    [i \in Ids |-> IF i \in R THEN None
                   ELSE IF Present(i) /\ stored[i].to \in R /\ nulled THEN [stored[i] EXCEPT !.to = None]
                   ELSE stored[i]]

(***************************************************************************)
(* delete_site and the other deletions: a row goes with all the rows that  *)
(* cascade from it, in one statement, and a reference that sets to NULL is *)
(* cleared with it.  A reference without a foreign key stays as it was.    *)
(***************************************************************************)
delete_site(R) ==
    /\ R # {} /\ \A i \in R : Present(i) /\ stored[i].of \notin Permanent
    /\ Ruled(column, "CASCADE") => \A i \in Ids : Present(i) /\ stored[i].to \in R => i \in R
    /\ Ruled(column, "RESTRICT") => \A i \in Ids : Present(i) => stored[i].to \notin R
    /\ stored' = Left(R, Ruled(column, "SET NULL"))
    /\ stray' = IF Unguarded(column)
                THEN stray \cup {<<i, stored[i].to>> : i \in {x \in Ids \ R : Present(x) /\ stored[x].to \in R}}
                ELSE stray
    /\ gone' = gone \cup R
    /\ UNCHANGED <<column, spent, asked, planned, born, export>>

(* delete_group takes an asset group out of the SCIM mappings itself: it   *)
(* reads them,                                                             *)
delete_group_reads(g) ==
    /\ column.of = "scim_groups" /\ g \in RowsOf("asset_groups")
    /\ planned' = [planned EXCEPT ![g] = [i \in RowsOf("scim_groups") |-> stored[i].to]]
    /\ UNCHANGED <<column, stored, spent, asked, stray, born, gone, export>>

(* Mutant of retained_targets: a deleted group stays in the mappings.      *)
retained_targets_All(g, i) == planned[g][i]

retained_targets(g, i) == IF planned[g][i] = g THEN None ELSE planned[g][i]

(***************************************************************************)
(* and writes back, of what it has read, the targets that are not the      *)
(* group, to the mappings W that had the group among theirs.  It does not  *)
(* lock them: a mapping that has been given the group since keeps it, and  *)
(* one that is written may get a group back that has gone since.           *)
(***************************************************************************)
delete_group(g, W) ==
    /\ column.of = "scim_groups" /\ planned[g] # None
    /\ W \subseteq DOMAIN planned[g] \cap RowsOf("scim_groups")
    /\ {i \in DOMAIN planned[g] : planned[g][i] = g} \subseteq W
    /\ stored' = [i \in Ids |->
          IF i = g THEN None
          ELSE IF i \in W THEN [of |-> column.of, to |-> retained_targets(g, i)]
          ELSE stored[i]]
    /\ stray' = stray
          \cup {<<i, planned[g][i]>> : i \in {x \in W : planned[g][x] # g /\ planned[g][x] # None
                                                       /\ ~Present(planned[g][x])}}
          \cup {<<i, g>> : i \in {x \in RowsOf("scim_groups") \ W : stored[x].to = g}}
    /\ gone' = IF Present(g) THEN gone \cup {g} ELSE gone
    /\ planned' = [planned EXCEPT ![g] = None]
    /\ UNCHANGED <<column, spent, asked, born, export>>

----------------------------------------------------------------------------
(* The export.                                                             *)

export_data ==
    /\ read = Followed
    /\ read' = {} /\ bundle' = {}
    /\ born' = {} /\ gone' = {}
    /\ UNCHANGED <<column, stored, spent, asked, planned, stray>>

(* The SELECT of the next section that is followed.                        *)
reads(t) ==
    /\ t \in Followed \ read
    /\ \A u \in Followed \ read : Place(t) <= Place(u)
    /\ bundle' = bundle \cup {[of |-> t, id |-> i, to |-> stored[i].to] : i \in RowsOf(t)}
    /\ read' = read \cup {t}
    /\ UNCHANGED <<column, rows>>

Next ==
    \/ \E i \in Ids, t \in Followed, j \in Ids \cup {None} : creates(i, t, j)
    \/ \E i \in Ids, j \in Ids \cup {None} : updates(i, j) \/ update_group_mapping(i, j)
    \/ \E i \in Ids, j \in Ids :
          create_grant_checks(i, j) \/ create_grant_writes(i, j) \/ _validate_asset_group_ids(i, j)
    \/ \E R \in SUBSET Ids : delete_site(R)
    \/ \E g \in Ids : delete_group_reads(g) \/ \E W \in SUBSET Ids : delete_group(g, W)
    \/ export_data
    \/ \E t \in Followed : reads(t)

Spec == Init /\ [][Next]_vars

----------------------------------------------------------------------------
(* The ids of a section in the bundle.                                     *)
Exported(t) == {e.id : e \in {x \in bundle : x.of = t}}

Unknown(e) == e.to # None /\ e.to \notin Exported(column.to)

(* The references that validate_import looks up in the bundle.             *)
Checked ==
    {"assets", "remediation_units"} \X {"site_id"}
    \cup {"asset_tag_assignments"} \X {"asset_id", "tag_id"}
    \cup {"asset_group_memberships"} \X {"asset_id", "group_id"}
    \cup {"finding_score_snapshots"} \X {"finding_id", "risk_profile_id"}
    \cup {"remediation_unit_findings", "remediation_suggestions"}
         \X {"remediation_unit_id", "finding_id"}
    \cup {"finding_decisions"} \X {"finding_id", "duplicate_of_finding_id"}
    \cup {"user_site_assignments"} \X {"user_id", "site_id"}
    \cup {"scim_groups"} \X {"asset_group_ids"}
    \cup {"scim_group_members"} \X {"group_id", "user_id"}
    \cup {"scim_group_site_mappings"} \X {"group_id", "site_id"}
    \cup {"scoped_grants"} \X {"role_id", "user_id", "service_account_id", "scope_id"}
    \cup {"api_tokens"} \X {"user_id", "service_account_id"}

(* What a bundle is warned of.  A version, checksum or organisation that   *)
(* does not fit is an error of its own, and nothing is ever applied.       *)
validate_import == {e \in bundle : <<column.of, column.name>> \in Checked /\ Unknown(e)}

(* Why a reference may be unknown: the section that it is to was read too  *)
(* late or too early for it, or the reference was to nothing already.      *)
Explained(e) ==
    \/ <<e.id, e.to>> \in stray
    \/ Place(column.of) < Place(column.to) /\ e.to \in gone
    \/ Place(column.to) < Place(column.of) /\ e.to \in born

(***************************************************************************)
(* An export is taken of a database that changes between its SELECTs.      *)
(* Every reference of the bundle is to a row of the bundle, except where   *)
(* its row was deleted after the reference was read, or inserted after its *)
(* section was, or was gone before; and of an organisation that nothing    *)
(* happened to meanwhile, validate_import has nothing to say.              *)
(***************************************************************************)
ExportIsClosed ==
    read = Followed =>
        /\ \A e \in bundle : Unknown(e) => Explained(e)
        /\ born = {} /\ gone = {} /\ stray = {} => validate_import = {}
=============================================================================
