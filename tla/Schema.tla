------------------------------- MODULE Schema -------------------------------
(***************************************************************************)
(* The tables the ORM declares (app/models), as far as the migrations and  *)
(* the copy to PostgreSQL tell them apart.                                 *)
(*                                                                         *)
(* A table is its NOT NULL columns, its nullable columns, its foreign keys *)
(* and its unique keys. The primary key id is left out. Of a table that no *)
(* migration creates only the columns that some migration adds or drops    *)
(* are listed; its foreign keys and unique keys are complete. A key with a *)
(* WHERE clause has the clause among its members.                          *)
(***************************************************************************)

Table(required, nullable, references, unique) ==
  [req |-> required, opt |-> nullable, refs |-> references, keys |-> unique]

\* A foreign key: the column, the table it refers to, the ON DELETE action.
Ref(column, table)      == <<column, table, "NO ACTION">>
Cascades(column, table) == <<column, table, "CASCADE">>
SetsNull(column, table) == <<column, table, "SET NULL">>

Columns(table) == table.req \cup table.opt
Targets(table) == {r[2] : r \in table.refs}

\* Dropping a column drops the constraints it is part of.
Without(table, columns) ==
  Table(table.req \ columns, table.opt \ columns,
        {r \in table.refs : r[1] \notin columns}, {k \in table.keys : k \cap columns = {}})

-----------------------------------------------------------------------------
User ==
  Table({}, {}, {}, {{"username"}, {"email"}})

Entreprise ==
  Table({"owner_id"}, {}, {Ref("owner_id", "users")}, {{"nom"}, {"siret"}})

Contact ==
  Table({}, {}, {Ref("entreprise_id", "entreprises")}, {})

Site ==
  Table({}, {}, {Ref("entreprise_id", "entreprises")}, {})

Audit ==
  Table({"owner_id"},
        {"date_fin", "client_contact_name", "client_contact_title",
        "client_contact_email", "client_contact_phone", "access_level",
        "access_missing_details", "intervention_window", "intervention_constraints",
        "scope_covered", "scope_excluded", "audit_type"},
        {Ref("entreprise_id", "entreprises"), Ref("owner_id", "users")}, {})

Equipement ==
  Table({}, {"ports_status"}, {Ref("site_id", "sites")}, {{"site_id", "ip_address"}})

EquipementReseau ==
  Table({}, {}, {Ref("id", "equipements")}, {})

EquipementServeur ==
  Table({}, {}, {Ref("id", "equipements")}, {})

EquipementFirewall ==
  Table({}, {}, {Ref("id", "equipements")}, {})

VlanDefinition ==
  Table({"site_id", "vlan_id", "name", "color", "created_at", "updated_at"},
        {"subnet", "description"}, {Ref("site_id", "sites")}, {{"site_id", "vlan_id"}})

NetworkLink ==
  Table({"site_id", "source_equipement_id", "target_equipement_id", "link_type",
        "created_at", "updated_at"},
        {"source_interface", "target_interface", "bandwidth", "vlan",
        "network_segment", "description"},
        {Ref("site_id", "sites"), Ref("source_equipement_id", "equipements"),
        Ref("target_equipement_id", "equipements")}, {})

NetworkMapLayout ==
  Table({"site_id", "layout_data", "created_at", "updated_at"}, {},
        {Ref("site_id", "sites")}, {{"site_id"}})

SiteConnection ==
  Table({"entreprise_id", "source_site_id", "target_site_id", "link_type",
        "created_at", "updated_at"}, {"bandwidth", "description"},
        {Ref("entreprise_id", "entreprises"), Ref("source_site_id", "sites"),
        Ref("target_site_id", "sites")},
        {{"entreprise_id", "source_site_id", "target_site_id", "link_type"}})

Framework ==
  Table({}, {"source", "author"}, {Ref("parent_version_id", "frameworks")},
        {{"ref_id", "version"}})

FrameworkCategory ==
  Table({}, {}, {Ref("framework_id", "frameworks")}, {})

Control ==
  Table({}, {"effort_days"}, {Ref("category_id", "framework_categories")}, {})

AssessmentCampaign ==
  Table({}, {}, {Ref("audit_id", "audits")}, {})

Assessment ==
  Table({}, {},
        {Ref("campaign_id", "assessment_campaigns"),
        Ref("equipement_id", "equipements"), Ref("framework_id", "frameworks")}, {})

ControlResult ==
  Table({}, {}, {Ref("assessment_id", "assessments"), Ref("control_id", "controls")},
        {})

Attachment ==
  Table({}, {"file_uuid", "encrypted_dek", "dek_nonce", "kek_version"},
        {Cascades("control_result_id", "control_results")}, {{"file_uuid"}})

Finding ==
  Table({"control_result_id", "assessment_id", "equipment_id", "title", "severity",
        "status", "created_at", "updated_at"},
        {"description", "remediation_note", "assigned_to", "duplicate_of_id",
        "created_by"},
        {Ref("control_result_id", "control_results"),
        Ref("assessment_id", "assessments"), Ref("equipment_id", "equipements"),
        Ref("duplicate_of_id", "findings"), Ref("created_by", "users")}, {})

FindingStatusHistory ==
  Table({"finding_id", "old_status", "new_status", "created_at"},
        {"changed_by", "comment"},
        {Ref("finding_id", "findings"), Ref("changed_by", "users")}, {})

Agent ==
  Table({"agent_uuid", "name", "user_id", "enrollment_used", "status", "allowed_tools",
        "created_at"},
        {"cert_fingerprint", "cert_serial", "cert_expires_at", "enrollment_token_hash",
        "enrollment_token_expires", "last_seen", "last_ip", "os_info", "agent_version",
        "revoked_at", "updated_at"}, {Ref("user_id", "users")},
        {{"agent_uuid"}, {"cert_fingerprint"}})

AgentTask ==
  Table({"task_uuid", "agent_id", "owner_id", "tool", "parameters", "status",
        "progress", "created_at"},
        {"audit_id", "status_message", "result_summary", "result_raw", "error_message",
        "dispatched_at", "started_at", "completed_at"},
        {Ref("agent_id", "agents"), Ref("owner_id", "users"),
        Ref("audit_id", "audits")}, {{"task_uuid"}})

TaskArtifact ==
  Table({"agent_task_id", "file_uuid", "original_filename", "stored_filename",
        "mime_type", "file_size", "uploaded_at"},
        {"encrypted_dek", "dek_nonce", "kek_version"},
        {Cascades("agent_task_id", "agent_tasks")}, {{"file_uuid"}})

CollectPipeline ==
  Table({"site_id", "created_by", "target", "status", "scan_status",
        "hosts_discovered", "equipments_status", "equipments_created", "hosts_skipped",
        "collects_status", "collects_total", "collects_done", "collects_failed",
        "created_at"},
        {"error_message", "agent_id", "scan_task_uuid", "started_at", "completed_at"},
        {Ref("site_id", "sites"), Ref("created_by", "users"),
        Ref("agent_id", "agents"), Ref("scan_task_uuid", "agent_tasks")}, {})

CollectResult ==
  Table({"username"}, {"agent_task_id"},
        {Ref("equipement_id", "equipements"), SetsNull("agent_task_id", "agent_tasks")},
        {})

ConfigAnalysis ==
  Table({}, {}, {Ref("equipement_id", "equipements")}, {})

ADAuditResultModel ==
  Table({"owner_id", "username"}, {"dc_list", "domain_admins", "findings"},
        {Ref("equipement_id", "equipements"), Ref("owner_id", "users")}, {})

OradadConfig ==
  Table({"name", "owner_id", "auto_get_domain", "auto_get_trusts", "level",
        "confidential", "process_sysvol", "output_files", "output_mla", "sleep_time",
        "created_at"}, {"sysvol_filter", "explicit_domains", "updated_at"},
        {Ref("owner_id", "users")}, {})

AnssiCheckpoint ==
  Table({"vuln_id", "level", "title_fr", "description", "recommendation", "category",
        "required_attributes", "target_object_types", "auto_checkable",
        "severity_score"}, {"title_en", "reference_url"}, {}, {{"vuln_id"}})

Monkey365ScanResult ==
  Table({"entreprise_id", "status", "scan_id", "created_at"},
        {"error_message", "config_snapshot", "output_path", "entreprise_slug",
        "auth_method", "findings_count", "completed_at", "duration_seconds"},
        {Ref("entreprise_id", "entreprises")}, {{"scan_id"}})

Tag ==
  Table({"name", "color", "scope", "created_at"}, {"audit_id", "created_by"},
        {Cascades("audit_id", "audits"), Ref("created_by", "users")},
        {{"name", "scope", "audit_id"}, {"name",
        "scope = 'global' AND audit_id IS NULL"}})

TagAssociation ==
  Table({"tag_id", "taggable_type", "taggable_id", "created_at"}, {},
        {Cascades("tag_id", "tags")}, {{"tag_id", "taggable_type", "taggable_id"}})

ChecklistTemplate ==
  Table({"name", "category", "is_predefined", "created_at"}, {"description"}, {},
        {{"name"}})

ChecklistSection ==
  Table({"template_id", "name", "order"}, {"description"},
        {Cascades("template_id", "checklist_templates")}, {})

ChecklistItem ==
  Table({"section_id", "label", "order"}, {"description", "ref_code"},
        {Cascades("section_id", "checklist_sections")}, {})

ChecklistInstance ==
  Table({"template_id", "audit_id", "status", "created_at"},
        {"site_id", "filled_by", "started_at", "completed_at"},
        {Ref("template_id", "checklist_templates"), Cascades("audit_id", "audits"),
        SetsNull("site_id", "sites"), Ref("filled_by", "users")},
        {{"template_id", "audit_id", "site_id"}, {"template_id", "audit_id",
        "site_id IS NULL"}})

ChecklistResponse ==
  Table({"instance_id", "item_id", "status"}, {"note", "responded_by", "responded_at"},
        {Cascades("instance_id", "checklist_instances"),
        Ref("item_id", "checklist_items"), Ref("responded_by", "users")},
        {{"instance_id", "item_id"}})

AuditReport ==
  Table({"audit_id", "status", "template_name", "created_at"},
        {"consultant_logo_path", "client_logo_path", "consultant_name",
        "consultant_contact", "pdf_path", "docx_path", "generated_by", "generated_at"},
        {Cascades("audit_id", "audits"), Ref("generated_by", "users")}, {})

ReportSection ==
  Table({"report_id", "section_key", "title", "order", "included"}, {"custom_content"},
        {Cascades("report_id", "audit_reports")}, {{"report_id", "section_key"}})

ModelTables ==
  [users |-> User, entreprises |-> Entreprise, contacts |-> Contact, sites |-> Site,
   audits |-> Audit, equipements |-> Equipement,
   equipements_reseau |-> EquipementReseau,
   equipements_serveur |-> EquipementServeur,
   equipements_firewall |-> EquipementFirewall, vlan_definitions |-> VlanDefinition,
   network_links |-> NetworkLink, network_map_layouts |-> NetworkMapLayout,
   site_connections |-> SiteConnection, frameworks |-> Framework,
   framework_categories |-> FrameworkCategory, controls |-> Control,
   assessment_campaigns |-> AssessmentCampaign, assessments |-> Assessment,
   control_results |-> ControlResult, attachments |-> Attachment,
   findings |-> Finding, finding_status_history |-> FindingStatusHistory,
   agents |-> Agent, agent_tasks |-> AgentTask, task_artifacts |-> TaskArtifact,
   collect_pipelines |-> CollectPipeline, collect_results |-> CollectResult,
   config_analyses |-> ConfigAnalysis, ad_audit_results |-> ADAuditResultModel,
   oradad_configs |-> OradadConfig, anssi_checkpoints |-> AnssiCheckpoint,
   monkey365_scan_results |-> Monkey365ScanResult, tags |-> Tag,
   tag_associations |-> TagAssociation, checklist_templates |-> ChecklistTemplate,
   checklist_sections |-> ChecklistSection, checklist_items |-> ChecklistItem,
   checklist_instances |-> ChecklistInstance,
   checklist_responses |-> ChecklistResponse, audit_reports |-> AuditReport,
   report_sections |-> ReportSection]

-----------------------------------------------------------------------------
\* The PostgreSQL enumerated types behind Enum(...) columns that a migration
\* creates too. SQLAlchemy stores the NAMES of a Python enumeration.

Monkey365ScanStatus ==
  {"AUTHENTICATING", "RUNNING", "SUCCESS", "FAILED", "CANCELLED"}

FindingStatus ==
  {"OPEN", "ASSIGNED", "IN_PROGRESS", "REMEDIATED", "VERIFIED", "CLOSED"}

PipelineStatus == {"PENDING", "RUNNING", "COMPLETED", "FAILED"}

PipelineStepStatus == PipelineStatus \cup {"SKIPPED"}

ModelTypes ==
  [monkey365scanstatus |-> Monkey365ScanStatus, findingstatus |-> FindingStatus,
   pipelinestatus |-> PipelineStatus, pipelinestepstatus |-> PipelineStepStatus]

\* The tables with columns of these types.
TypedTables ==
  [monkey365scanstatus |-> {"monkey365_scan_results"},
   findingstatus |-> {"findings", "finding_status_history"},
   pipelinestatus |-> {"collect_pipelines"}, pipelinestepstatus |-> {"collect_pipelines"}]

=============================================================================
