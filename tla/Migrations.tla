----------------------------- MODULE Migrations -----------------------------
(***************************************************************************)
(* The revisions of alembic/versions, each the operations of its upgrade   *)
(* and of its downgrade, and what PostgreSQL does with an operation.       *)
(*                                                                         *)
(* A database is its tables, the labels of its enumerated types, the names *)
(* of the constraints that a migration names, the tables with rows whose   *)
(* owner_id is NULL and the best user: "none", "auditor" or "admin". Other *)
(* rows, indexes that are not unique, defaults and the types of columns    *)
(* are left out, but for the casts and the default PostgreSQL refuses.     *)
(***************************************************************************)
EXTENDS Schema, Sequences, SequencesExt

-----------------------------------------------------------------------------
\* Operations.

CreateType(n, labels)   == [op |-> "create type", n |-> n, labels |-> labels]
DropType(n)             == [op |-> "drop type", n |-> n]
Create(t, def)          == [op |-> "create", t |-> t, def |-> def]
Drop(t)                 == [op |-> "drop", t |-> t]
AddColumn(t, c)         == [op |-> "add", t |-> t, c |-> c]
AddBooleanZero(t, c)    == [op |-> "add boolean 0", t |-> t, c |-> c]
DropColumn(t, c)        == [op |-> "drop column", t |-> t, c |-> c]
AddRef(t, ref, n)       == [op |-> "add ref", t |-> t, ref |-> ref, n |-> n]
DropRef(t, ref, n)      == [op |-> "drop ref", t |-> t, ref |-> ref, n |-> n]
AddKey(t, key, n)       == [op |-> "add key", t |-> t, key |-> key, n |-> n]
DropKey(t, key, n)      == [op |-> "drop key", t |-> t, key |-> key, n |-> n]
NotNull(t, c)           == [op |-> "not null", t |-> t, c |-> c]
Nullable(t, c)          == [op |-> "nullable", t |-> t, c |-> c]
ToText(t, c)            == [op |-> "to text", t |-> t, c |-> c]
ToJson(t, c)            == [op |-> "to json", t |-> t, c |-> c]
Backfill(t, from)       == [op |-> "backfill", t |-> t, from |-> from]
DeleteOwnerless(t)      == [op |-> "delete ownerless", t |-> t]
Rows(t)                 == [op |-> "rows", t |-> t]
Raise                   == [op |-> "raise"]

HasTable(d, t)     == t \in DOMAIN d.tables
HasColumn(d, t, c) == HasTable(d, t) /\ c \in Columns(d.tables[t])

\* What an operation needs of the database. A foreign key needs its target,
\* a dropped table must not be a target, DROP CONSTRAINT needs the name,
\* SET NOT NULL needs every row filled; there is no cast from text to json
\* without a USING clause, nor from the integer 0 to a boolean default.
Possible(d, o) ==
  CASE o.op = "create type" -> o.n \notin DOMAIN d.types
    [] o.op = "create"      -> /\ ~HasTable(d, o.t)
                               /\ Targets(o.def) \subseteq (DOMAIN d.tables) \cup {o.t}
    [] o.op = "drop"        -> /\ HasTable(d, o.t)
                               /\ \A u \in DOMAIN d.tables \ {o.t} :
                                    o.t \notin Targets(d.tables[u])
    [] o.op = "add"         -> HasTable(d, o.t) /\ ~HasColumn(d, o.t, o.c)
    [] o.op \in {"drop column", "nullable", "to text"} -> HasColumn(d, o.t, o.c)
    [] o.op = "add ref"     -> HasColumn(d, o.t, o.ref[1]) /\ HasTable(d, o.ref[2])
    [] o.op \in {"add key", "rows"} -> HasTable(d, o.t)
    [] o.op \in {"drop ref", "drop key"} -> o.n \in d.names
    [] o.op = "not null"    -> HasColumn(d, o.t, o.c) /\ o.t \notin d.ownerless
    [] o.op \in {"backfill", "delete ownerless"} -> HasColumn(d, o.t, "owner_id")
    [] o.op \in {"raise", "to json", "add boolean 0"} -> FALSE
    [] OTHER                -> TRUE

\* The table after an operation on its columns or constraints.
Altered(table, o) ==
  LET With(required, nullable) == Table(required, nullable, table.refs, table.keys)
      Bound(references, unique) == Table(table.req, table.opt, references, unique)
  IN  CASE o.op = "add"      -> With(table.req, table.opt \cup {o.c})
        [] o.op = "not null" -> With(table.req \cup {o.c}, table.opt \ {o.c})
        [] o.op = "nullable" -> With(table.req \ {o.c}, table.opt \cup {o.c})
        [] o.op = "drop column" -> Without(table, {o.c})
        [] o.op = "add ref"  -> Bound(table.refs \cup {o.ref}, table.keys)
        [] o.op = "drop ref" -> Bound(table.refs \ {o.ref}, table.keys)
        [] o.op = "add key"  -> Bound(table.refs, table.keys \cup {o.key})
        [] o.op = "drop key" -> Bound(table.refs, table.keys \ {o.key})
        [] OTHER             -> table

Put(f, x, v) == [y \in DOMAIN f \cup {x} |-> IF y = x THEN v ELSE f[y]]
Cut(f, x)    == [y \in DOMAIN f \ {x} |-> f[y]]

\* Rows exist in the tables that the initial state says; their owner is
\* NULL from the moment the column is added.
Effect(d, o) ==
  CASE o.op = "create type" -> [d EXCEPT !.types = Put(@, o.n, o.labels)]
    [] o.op = "drop type"   -> [d EXCEPT !.types = Cut(@, o.n)]
    [] o.op = "create"      -> [d EXCEPT !.tables = Put(@, o.t, o.def)]
    [] o.op = "drop"        ->
         [d EXCEPT !.tables = Cut(@, o.t),
                   !.ownerless = @ \ {o.t}, !.filled = @ \ {o.t}]
    [] o.op = "backfill"    ->
         [d EXCEPT !.ownerless = IF d.users \in o.from THEN @ \ {o.t} ELSE @]
    [] o.op = "delete ownerless" ->
         IF d.users = "admin" \/ o.t \notin d.ownerless THEN d
         ELSE [d EXCEPT !.ownerless = @ \ {o.t}, !.filled = @ \ {o.t}]
    [] o.op = "rows"        -> d
    [] OTHER                ->
         [d EXCEPT !.tables[o.t] = Altered(@, o),
                   !.names = CASE o.op \in {"add ref", "add key"}   -> @ \cup {o.n}
                               [] o.op \in {"drop ref", "drop key"} -> @ \ {o.n}
                               [] OTHER                             -> @,
                   !.ownerless =
                     IF o.op = "add" /\ o.c = "owner_id" /\ o.t \in d.filled
                     THEN @ \cup {o.t} ELSE @]

Do(d, o) == IF Possible(d, o) THEN Effect(d, o) ELSE [d EXCEPT !.ok = FALSE]

\* What follows an operation that failed is not done.
Then(d, o) == IF d.ok THEN Do(d, o) ELSE d

\* A sequence of operations, one after the other.
Perform(d, ops) ==
  LET after[n \in 0 .. Len(ops)] == IF n = 0 THEN d ELSE Then(after[n - 1], ops[n])
  IN  after[Len(ops)]

-----------------------------------------------------------------------------
\* Revisions. Where a revision asks the database what it holds, so does its
\* operator. A comment names what the values of rows undergo.

Creates(t, def) == [up |-> <<Create(t, def)>>, down |-> <<Drop(t)>>]
Adds(t, c)      == [up |-> <<AddColumn(t, c)>>, down |-> <<DropColumn(t, c)>>]

Unless(here, ops) == IF here THEN <<>> ELSE ops

AddSourceAuthor(d) ==
  LET Missing(c) == Unless(HasColumn(d, "frameworks", c), <<AddColumn("frameworks", c)>>)
  IN  [up   |-> IF HasTable(d, "frameworks") THEN Missing("source") \o Missing("author")
                                             ELSE <<Raise>>,
       down |-> <<DropColumn("frameworks", "author"), DropColumn("frameworks", "source")>>]

LinkPair ==
  {"source_equipement_id", "target_equipement_id", "source_interface", "target_interface"}

AddNetworkMapTables(d) ==
  LET Present(t) == Unless(~HasTable(d, t), <<Drop(t)>>)
  IN  [up   |-> Unless(HasTable(d, "network_links"),
                       <<Create("network_links", NetworkLink),
                         AddKey("network_links", LinkPair, "uq_network_link_pair")>>)
                \o Unless(HasTable(d, "network_map_layouts"),
                          <<Create("network_map_layouts", NetworkMapLayout)>>)
                \o Unless(HasTable(d, "site_connections"),
                          <<Create("site_connections", SiteConnection)>>),
       down |-> Present("site_connections") \o Present("network_map_layouts")
                \o Present("network_links")]

DropNetworkLinkUnique ==
  [up   |-> <<DropKey("network_links", LinkPair, "uq_network_link_pair")>>,
   down |-> <<AddKey("network_links", LinkPair, "uq_network_link_pair")>>]

\* Gives each switch, router and access point a row in equipements_reseau.
MigrateSwitchRouterAp ==
  [up   |-> <<Rows("equipements"), Rows("equipements_reseau")>>,
   down |-> <<Rows("equipements"), Rows("equipements_reseau")>>]

\* Copies ports_status from one table to the other.
MovePortsStatus ==
  [up   |-> <<AddColumn("equipements", "ports_status"),
              DropColumn("equipements_reseau", "ports_status")>>,
   down |-> <<AddColumn("equipements_reseau", "ports_status"),
              DropColumn("equipements", "ports_status")>>]

AddVlanDefinitions == Creates("vlan_definitions", VlanDefinition)

AddMonkey365ScanResults(d) ==
  [up   |-> Unless(HasTable(d, "monkey365_scan_results"),
                   <<CreateType("monkey365scanstatus", {"running", "success", "failed"}),
                     Create("monkey365_scan_results",
                            Table({"entreprise_id", "status", "scan_id", "created_at"},
                                  {"error_message", "config_snapshot", "output_path",
                                   "entreprise_slug", "findings_count", "completed_at",
                                   "duration_seconds"},
                                  {Ref("entreprise_id", "entreprises")}, {{"scan_id"}}))>>),
   down |-> <<Drop("monkey365_scan_results")>>]

AddMonkey365ArchivePath(d) ==
  [up   |-> IF HasTable(d, "monkey365_scan_results")
            THEN Unless(HasColumn(d, "monkey365_scan_results", "archive_path"),
                        <<AddColumn("monkey365_scan_results", "archive_path")>>)
            ELSE <<Raise>>,
   down |-> <<DropColumn("monkey365_scan_results", "archive_path")>>]

RemoveArchivePath ==
  [up   |-> <<DropColumn("monkey365_scan_results", "auth_mode"),
              DropColumn("monkey365_scan_results", "archive_path"),
              DropColumn("monkey365_scan_results", "force_msal_desktop"),
              DropColumn("monkey365_scan_results", "powershell_config")>>,
   down |-> <<AddColumn("monkey365_scan_results", "powershell_config"),
              AddBooleanZero("monkey365_scan_results", "force_msal_desktop"),
              AddColumn("monkey365_scan_results", "archive_path"),
              AddColumn("monkey365_scan_results", "auth_mode")>>]

CreateAgents ==
  [up   |-> <<Create("agents",
                Table({"agent_uuid", "name", "user_id", "enrollment_used", "status",
                       "allowed_tools", "created_at"},
                      {"cert_fingerprint", "cert_serial", "enrollment_token_hash",
                       "enrollment_token_expires", "last_seen", "last_ip", "os_info",
                       "agent_version", "updated_at"},
                      {Ref("user_id", "users")},
                      {{"agent_uuid"}, {"cert_fingerprint"}})),
              Create("agent_tasks",
                Table({"task_uuid", "agent_id", "owner_id", "tool", "parameters",
                       "status", "progress", "created_at"},
                      {"audit_id", "status_message", "result_summary", "result_raw",
                       "error_message", "dispatched_at", "started_at", "completed_at"},
                      {Ref("agent_id", "agents"), Ref("owner_id", "users"),
                       Ref("audit_id", "audits")},
                      {{"task_uuid"}}))>>,
   down |-> <<Drop("agent_tasks"), Drop("agents")>>]

Owned(t, n) ==
  <<AddColumn(t, "owner_id"), AddRef(t, Ref("owner_id", "users"), n)>>

Disowned(t, n) ==
  <<DropRef(t, Ref("owner_id", "users"), n), DropColumn(t, "owner_id")>>

AddOwnerIdAndEncryption ==
  [up   |-> Owned("audits", "fk_audits_owner_id")
            \o <<AddColumn("attachments", "file_uuid"),
                 AddKey("attachments", {"file_uuid"}, "uq_attachments_file_uuid"),
                 AddColumn("attachments", "encrypted_dek"),
                 AddColumn("attachments", "dek_nonce"),
                 AddColumn("attachments", "kek_version")>>
            \o Owned("scans_reseau", "fk_scans_reseau_owner_id")
            \o Owned("ad_audit_results", "fk_ad_audit_results_owner_id")
            \o <<ToText("ad_audit_results", "username"), ToText("ad_audit_results", "findings")>>,
   down |-> <<ToJson("ad_audit_results", "findings")>>
            \o Disowned("ad_audit_results", "fk_ad_audit_results_owner_id")
            \o Disowned("scans_reseau", "fk_scans_reseau_owner_id")
            \o <<DropColumn("attachments", "kek_version"),
                 DropColumn("attachments", "dek_nonce"),
                 DropColumn("attachments", "encrypted_dek"),
                 DropKey("attachments", {"file_uuid"}, "uq_attachments_file_uuid"),
                 DropColumn("attachments", "file_uuid")>>
            \o Disowned("audits", "fk_audits_owner_id")]

AddAnssiCheckpoints == Creates("anssi_checkpoints", AnssiCheckpoint)
AddAuthMethod       == Adds("monkey365_scan_results", "auth_method")

\* Mutant: the revision is left empty.
AddRevokedAtEmpty   == [up |-> <<>>, down |-> <<>>]
AddRevokedAt        == Adds("agents", "revoked_at")

AddOradadConfigs    == Creates("oradad_configs", OradadConfig)

EncryptOradadDomains ==
  [up   |-> <<ToText("oradad_configs", "explicit_domains")>>,
   down |-> <<ToJson("oradad_configs", "explicit_domains")>>]

PingcastleResult ==
  Table({}, {}, {Ref("equipement_id", "equipements")}, {})

DropPingcastleResults ==
  [up   |-> <<Drop("pingcastle_results")>>,
   down |-> <<Create("pingcastle_results", PingcastleResult)>>]

AddTaskArtifacts == Creates("task_artifacts", TaskArtifact)

\* Encrypts, or decrypts, the values with the key of the environment if any.
EncryptSensitiveJson ==
  [up   |-> <<ToText("agent_tasks", "parameters"), ToText("ad_audit_results", "dc_list"),
              ToText("ad_audit_results", "domain_admins"), ToText("collect_results", "username")>>,
   down |-> <<Rows("collect_results"), ToJson("ad_audit_results", "dc_list"),
              ToJson("ad_audit_results", "domain_admins"), ToJson("agent_tasks", "parameters")>>]

MergeHeads == [up |-> <<>>, down |-> <<>>]

BackfillOwnerId ==
  [up   |-> <<Backfill("audits", {"admin"}), NotNull("audits", "owner_id"),
              Backfill("scans_reseau", {"admin"}), Backfill("ad_audit_results", {"admin"})>>,
   down |-> <<Nullable("audits", "owner_id")>>]

\* The owner of an audit of the enterprise first, an admin, any user.
AddEntrepriseOwnerId ==
  [up   |-> <<AddColumn("entreprises", "owner_id"),
              Backfill("entreprises", {"auditor", "admin"}),
              NotNull("entreprises", "owner_id"),
              AddRef("entreprises", Ref("owner_id", "users"), "fk_entreprises_owner_id")>>,
   down |-> Disowned("entreprises", "fk_entreprises_owner_id")]

ScanAdOwnerNotNull ==
  [up   |-> <<Backfill("scans_reseau", {"admin"}), Backfill("ad_audit_results", {"admin"}),
              DeleteOwnerless("scans_reseau"), DeleteOwnerless("ad_audit_results"),
              NotNull("scans_reseau", "owner_id"), NotNull("ad_audit_results", "owner_id")>>,
   down |-> <<Nullable("ad_audit_results", "owner_id"), Nullable("scans_reseau", "owner_id")>>]

CreateTagTables ==
  [up   |-> <<Create("tags", Tag), Create("tag_associations", TagAssociation)>>,
   down |-> <<Drop("tag_associations"), Drop("tags")>>]

CreateChecklistTables ==
  [up   |-> <<Create("checklist_templates", ChecklistTemplate),
              Create("checklist_sections", ChecklistSection),
              Create("checklist_items", ChecklistItem),
              Create("checklist_instances", ChecklistInstance),
              Create("checklist_responses", ChecklistResponse)>>,
   down |-> <<Drop("checklist_responses"), Drop("checklist_instances"),
              Drop("checklist_items"), Drop("checklist_sections"),
              Drop("checklist_templates")>>]

CreateReportTables ==
  [up   |-> <<Create("audit_reports", AuditReport), Create("report_sections", ReportSection)>>,
   down |-> <<Drop("report_sections"), Drop("audit_reports")>>]

InterventionFields ==
  <<"date_fin", "client_contact_name", "client_contact_title", "client_contact_email",
    "client_contact_phone", "access_level", "access_missing_details",
    "intervention_window", "intervention_constraints", "scope_covered",
    "scope_excluded", "audit_type">>

AddAuditInterventionFields ==
  [up   |-> [i \in DOMAIN InterventionFields |-> AddColumn("audits", InterventionFields[i])],
   down |-> Reverse([i \in DOMAIN InterventionFields |->
                       DropColumn("audits", InterventionFields[i])])]

AddFindingTables ==
  [up   |-> <<CreateType("findingstatus", {"open", "assigned", "in_progress", "remediated",
                                           "verified", "closed"}),
              Create("findings", Finding),
              Create("finding_status_history", FindingStatusHistory)>>,
   down |-> <<Drop("finding_status_history"), Drop("findings")>>]

AddCertExpiresAt == Adds("agents", "cert_expires_at")

\* The pipelines as first created, with the scan they then belonged to.
PipelineWithScan ==
  Table(CollectPipeline.req,
        (CollectPipeline.opt \ {"agent_id", "scan_task_uuid"}) \cup {"scan_id"},
        {Ref("created_by", "users"), Ref("scan_id", "scans_reseau"), Ref("site_id", "sites")},
        {})

AddCollectPipeline ==
  [up   |-> <<CreateType("pipelinestatus", {"PENDING", "RUNNING", "COMPLETED", "FAILED"}),
              CreateType("pipelinestepstatus",
                         {"PENDING", "RUNNING", "COMPLETED", "FAILED", "SKIPPED"}),
              Create("collect_pipelines", PipelineWithScan)>>,
   down |-> <<Drop("collect_pipelines"), DropType("pipelinestatus"),
              DropType("pipelinestepstatus")>>]

PipelineUsesAgentNmap ==
  [up   |-> <<DropColumn("collect_pipelines", "scan_id"),
              AddColumn("collect_pipelines", "agent_id"),
              AddColumn("collect_pipelines", "scan_task_uuid"),
              AddRef("collect_pipelines", Ref("agent_id", "agents"),
                     "fk_collect_pipelines_agent_id_agents"),
              AddRef("collect_pipelines", Ref("scan_task_uuid", "agent_tasks"),
                     "fk_collect_pipelines_scan_task_uuid_agent_tasks")>>,
   down |-> <<DropColumn("collect_pipelines", "scan_task_uuid"),
              DropColumn("collect_pipelines", "agent_id"),
              AddColumn("collect_pipelines", "scan_id"),
              AddRef("collect_pipelines", Ref("scan_id", "scans_reseau"),
                     "fk_collect_pipelines_scan_id_scans_reseau")>>]

DropScanTables(d) ==
  LET Present(t) == Unless(~HasTable(d, t), <<Drop(t)>>)
  IN  [up   |-> Present("scan_ports") \o Present("scan_hosts") \o Present("scans_reseau"),
       down |-> <<Raise>>]

CollectViaAgent ==
  [up   |-> <<AddColumn("collect_results", "agent_task_id"),
              AddRef("collect_results", SetsNull("agent_task_id", "agent_tasks"),
                     "fk_collect_results_agent_task_id_agent_tasks")>>,
   down |-> <<DropRef("collect_results", SetsNull("agent_task_id", "agent_tasks"),
                      "fk_collect_results_agent_task_id_agent_tasks"),
              DropColumn("collect_results", "agent_task_id")>>]

AddControlEffortDays == Adds("controls", "effort_days")

-----------------------------------------------------------------------------
\* The history: the revisions in the order alembic applies them. Each revises
\* the one before it, but for the two that revise b8e4c3d91f02, which merge_heads_001
\* merges; they touch different tables.

History ==
  <<"001", "002", "003", "004", "005", "006", "007", "008", "5f73dd19afec",
    "6e27188411e6", "553fec46eb0a", "15396d7282e7", "545ae2396390", "4d902ea37878",
    "03119a21496b", "a7f3b2c41d58", "b8e4c3d91f02", "a941e35e1a43", "c3f7a1b92d04",
    "merge_heads_001", "backfill_owner_id", "add_entreprise_owner_id",
    "scan_ad_owner_not_null", "41f4dca76503", "43d973779ca0", "a11a330219bb",
    "fee3cc8b8c35", "3a7f2c8d1e90", "0dbf56cd8db3", "5fe6333fd834", "8cd801626d19",
    "drop_scan_tables", "9a4e7cd1a2f3", "e9fac305c5bf">>

Revision(i, d) ==
  <<AddSourceAuthor(d), AddNetworkMapTables(d), DropNetworkLinkUnique,
    MigrateSwitchRouterAp, MovePortsStatus, AddVlanDefinitions,
    AddMonkey365ScanResults(d), AddMonkey365ArchivePath(d), RemoveArchivePath,
    CreateAgents, AddOwnerIdAndEncryption, AddAnssiCheckpoints, AddAuthMethod,
    AddRevokedAt, AddOradadConfigs, EncryptOradadDomains, DropPingcastleResults,
    AddTaskArtifacts, EncryptSensitiveJson, MergeHeads, BackfillOwnerId,
    AddEntrepriseOwnerId, ScanAdOwnerNotNull, CreateTagTables, CreateChecklistTables,
    CreateReportTables, AddAuditInterventionFields, AddFindingTables, AddCertExpiresAt,
    AddCollectPipeline, PipelineUsesAgentNmap, DropScanTables(d), CollectViaAgent,
    AddControlEffortDays>>[i]

Newest == Len(History)

\* One revision up from, or down to, the database after i - 1 of them.
UpOne(i, d)   == Perform(d, Revision(i, d).up)
DownOne(i, d) == Perform(d, Revision(i, d).down)

\* The next revision, when those before it went through.
Revised(i, d) == IF d.ok THEN UpOne(i, d) ELSE d

\* alembic upgrade head from the database after i of them, one transaction.
UpToHead(i, d) ==
  LET upTo[k \in i .. Newest] == IF k = i THEN d ELSE Revised(k, upTo[k - 1])
  IN  upTo[Newest]

=============================================================================
