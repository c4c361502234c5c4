------------------------------ MODULE Database ------------------------------
(***************************************************************************)
(* The life of the PostgreSQL database: the start of the backend container *)
(* (docker_entrypoint.py), init_db.py, the operator's alembic commands,    *)
(* and the copy of a SQLite database into it (migrate_to_postgres.py).     *)
(*                                                                         *)
(* db is the committed database. alembic runs one transaction per command  *)
(* (alembic/env.py), PostgreSQL's DDL is transactional: a command that     *)
(* fails or is killed leaves db as it was. A container starts with a file  *)
(* of environment variables in which ADMIN_PASSWORD is set.                *)
(***************************************************************************)
EXTENDS Migrations, FiniteSets

CONSTANTS MaxCrashes,  \* bound on the kills of the container
          MaxDown,     \* bound on the operator's downgrades
          Origins      \* what the database may be before the first start

ASSUME BoundsAssumption == MaxCrashes \in Nat /\ MaxDown \in Nat

VARIABLES db,       \* the committed database
          at,       \* the number of revisions alembic_version stands for
          phase,    \* the container
          past,     \* "empty" or "old" at first; old tables marked unmigrated
          copy,     \* migrate_to_postgres.py
          crashes, downs

databaseVars == <<db, at, phase, past, copy, crashes, downs>>

Unversioned == -1     \* there is no table alembic_version

Empty ==
  [tables |-> <<>>, types |-> <<>>, names |-> {}, ownerless |-> {}, filled |-> {},
   users |-> "none", ok |-> TRUE]

\* The tables that no migration creates, without the columns that a
\* migration adds and with those that one drops: what the code that preceded
\* the first revision had created.
BaselineTables ==
  LET Scan == Table({}, {"ports_status"}, {Ref("id", "equipements")}, {})
      Shrunk(t, cs) == Without(ModelTables[t], cs)
      Scanned == Shrunk("monkey365_scan_results", {"auth_method"})
  IN  [users |-> User, contacts |-> Contact, sites |-> Site,
       entreprises |-> Shrunk("entreprises", {"owner_id"}),
       audits |-> Shrunk("audits", Audit.req \cup Audit.opt),
       equipements |-> Shrunk("equipements", {"ports_status"}),
       equipements_reseau |-> Scan,
       equipements_serveur |-> EquipementServeur,
       equipements_firewall |-> EquipementFirewall,
       frameworks |-> Shrunk("frameworks", {"source", "author"}),
       framework_categories |-> FrameworkCategory,
       controls |-> Shrunk("controls", {"effort_days"}),
       assessment_campaigns |-> AssessmentCampaign, assessments |-> Assessment,
       control_results |-> ControlResult,
       attachments |-> Shrunk("attachments", Attachment.opt),
       collect_results |-> Shrunk("collect_results", {"agent_task_id"}),
       config_analyses |-> ConfigAnalysis,
       ad_audit_results |-> Shrunk("ad_audit_results", {"owner_id"}),
       scans_reseau |-> Table({}, {}, {Ref("site_id", "sites")}, {}),
       scan_hosts |-> Table({}, {}, {Ref("scan_id", "scans_reseau")}, {}),
       scan_ports |-> Table({}, {}, {Ref("host_id", "scan_hosts")}, {}),
       pingcastle_results |-> PingcastleResult,
       monkey365_scan_results |->
         Table(Scanned.req \cup {"force_msal_desktop"},
               Scanned.opt \cup {"auth_mode", "powershell_config"}, Scanned.refs, Scanned.keys)]

Baseline(filled, users) ==
  [tables |-> BaselineTables, types |-> [monkey365scanstatus |-> Monkey365ScanStatus],
   names |-> {}, ownerless |-> {},
   filled |-> filled \cup (IF users = "none" THEN {} ELSE {"users"}), users |-> users, ok |-> TRUE]

NoCopy == [phase |-> "idle", left |-> <<>>, superuser |-> FALSE, inserted |-> FALSE,
           torn |-> FALSE]

Users == {"none", "auditor", "admin"}

\* A database that is not empty at first has the tables that preceded the first
\* revision, any of them with rows.
ASSUME OriginsAssumption ==
  \A d \in Origins \ {Empty} :
    /\ d.filled \subseteq DOMAIN BaselineTables
    /\ d.users \in Users
    /\ d = Baseline(d.filled, d.users)

DatabaseInit ==
  /\ db \in Origins
  /\ at = Unversioned
  /\ phase = "down"
  /\ past = IF db = Empty THEN "empty" ELSE "old"
  /\ copy = NoCopy
  /\ crashes = 0 /\ downs = 0

-----------------------------------------------------------------------------
\* The container. It runs main() of docker_entrypoint.py, then uvicorn; when
\* it exits it is started again.

CreateAll ==
  [Empty EXCEPT !.tables = ModelTables, !.types = ModelTypes]

StartEmpty ==
  /\ phase = "down" /\ copy.phase # "running"
  /\ db.tables = <<>> /\ at = Unversioned
  /\ db' = CreateAll
  /\ phase' = "created"
  /\ UNCHANGED <<at, past, copy, crashes, downs>>

\* Mutant: marks the database as before the first revision.
StampBase ==
  /\ \/ phase = "created"
     \/ phase = "down" /\ copy.phase # "running" /\ db.tables # <<>> /\ at = Unversioned
  /\ at' = 0
  /\ phase' = "migrated"
  /\ past' = IF past = "old" THEN "stamped" ELSE past
  /\ UNCHANGED <<db, copy, crashes, downs>>

\* alembic stamp head, after create_all or on tables found without a version.
Stamp ==
  /\ \/ phase = "created"
     \/ phase = "down" /\ copy.phase # "running" /\ db.tables # <<>> /\ at = Unversioned
  /\ at' = Newest
  /\ phase' = "migrated"
  /\ past' = IF past = "old" THEN "stamped" ELSE past
  /\ UNCHANGED <<db, copy, crashes, downs>>

\* alembic upgrade head, which is killed with the container or completes.
Upgrade ==
  /\ phase = "down" /\ copy.phase # "running"
  /\ at # Unversioned
  /\ LET e == UpToHead(at, db)
     IN  IF e.ok THEN db' = e /\ at' = Newest /\ phase' = "migrated"
                 ELSE phase' = "failed" /\ UNCHANGED <<db, at>>
  /\ UNCHANGED <<past, copy, crashes, downs>>

WithAdmin(d) == [d EXCEPT !.users = "admin", !.filled = @ \cup {"users"}]

\* _ensure_admin, the demonstration data, then the application, whose start
\* imports the frameworks. The serial of users decides its next key.
Serve ==
  /\ phase = "migrated"
  /\ db' = [WithAdmin(db) EXCEPT !.filled = @ \cup {"frameworks"}]
  /\ phase' = "serving"
  /\ UNCHANGED <<at, past, copy, crashes, downs>>

Crash ==
  /\ phase \in {"created", "migrated", "serving"} /\ crashes < MaxCrashes
  /\ phase' = "down"
  /\ crashes' = crashes + 1
  /\ UNCHANGED <<db, at, past, copy, downs>>

Restart ==
  /\ phase = "failed"
  /\ phase' = "down"
  /\ UNCHANGED <<db, at, past, copy, crashes, downs>>

-----------------------------------------------------------------------------
\* The operator. alembic finds the revisions applied, none if there is no
\* alembic_version.

Applied == IF at = Unversioned THEN 0 ELSE at

\* init_db.py: alembic upgrade head, the admin. It reads the frameworks in a
\* session that it does not commit.
InitDb ==
  /\ phase = "down" /\ copy.phase # "running"
  /\ LET e == UpToHead(Applied, db) IN e.ok /\ db' = WithAdmin(e)
  /\ at' = Newest
  /\ UNCHANGED <<phase, past, copy, crashes, downs>>

\* The upgrade of a release whose last revision is the next one, on a
\* database older than the models of the last release.
UpgradeOne ==
  /\ phase = "down" /\ copy.phase # "running" /\ Applied < Newest /\ past = "old"
  /\ LET e == UpOne(Applied + 1, db) IN e.ok /\ db' = e
  /\ at' = Applied + 1
  /\ UNCHANGED <<phase, past, copy, crashes, downs>>

\* Mutant: goes on after an operation that failed.
DowngradeAnyway ==
  /\ phase \in {"down", "serving"} /\ copy.phase # "running" /\ at > 0 /\ downs < MaxDown
  /\ db' = DownOne(at, db)
  /\ at' = at - 1
  /\ downs' = downs + 1
  /\ UNCHANGED <<phase, past, copy, crashes>>

\* alembic downgrade -1, in the container or beside it.
DowngradeOne ==
  /\ phase \in {"down", "serving"} /\ copy.phase # "running" /\ at > 0 /\ downs < MaxDown
  /\ LET e == DownOne(at, db) IN e.ok /\ db' = e
  /\ at' = at - 1
  /\ downs' = downs + 1
  /\ UNCHANGED <<phase, past, copy, crashes>>

-----------------------------------------------------------------------------
\* migrate_to_postgres.py, from a SQLite database that has every table of the
\* models, each with rows whose foreign keys are set, numbered from 1.

MigrationOrder ==
  <<"users", "audit_projects", "audit_scopes", "tags", "frameworks",
    "framework_categories", "framework_controls", "agents", "audit_scope_tags",
    "anssi_checklist_items", "collect_results", "config_analyses",
    "monkey365_scan_results", "ad_audit_results", "agent_collect_artifacts">>

\* The tables of the source as SQLite lists them, by name.
SourceTables ==
  <<"ad_audit_results", "agent_tasks", "agents", "anssi_checkpoints",
    "assessment_campaigns", "assessments", "attachments", "audit_reports", "audits",
    "checklist_instances", "checklist_items", "checklist_responses",
    "checklist_sections", "checklist_templates", "collect_pipelines",
    "collect_results", "config_analyses", "contacts", "control_results", "controls",
    "entreprises", "equipements", "equipements_firewall", "equipements_reseau",
    "equipements_serveur", "finding_status_history", "findings",
    "framework_categories", "frameworks", "monkey365_scan_results", "network_links",
    "network_map_layouts", "oradad_configs", "report_sections", "site_connections",
    "sites", "tag_associations", "tags", "task_artifacts", "users",
    "vlan_definitions">>

\* The members of a sequence that are in a set, in their order.
Joined(kept, t, set) == IF t \in set THEN Append(kept, t) ELSE kept

Among(seq, set) ==
  LET upTo[n \in 0 .. Len(seq)] == IF n = 0 THEN <<>> ELSE Joined(upTo[n - 1], seq[n], set)
  IN  upTo[Len(seq)]

\* Mutant: only the tables of the list.
TablesListed(d) == Among(MigrationOrder, ToSet(SourceTables))

TablesToMigrate(d) ==
  Among(MigrationOrder, ToSet(SourceTables))
  \o Among(SourceTables, DOMAIN d.tables \ ToSet(MigrationOrder))

\* Upgrades the target first; the user of the target is a superuser or not.
CopyStart ==
  /\ phase = "down" /\ copy.phase # "running"
  /\ LET e == UpToHead(Applied, db)
     IN  /\ e.ok /\ db' = e
         /\ \E s \in BOOLEAN :
              copy' = [copy EXCEPT !.phase = "running", !.superuser = s,
                                   !.inserted = FALSE, !.left = TablesToMigrate(e)]
  /\ at' = Newest
  /\ UNCHANGED <<phase, past, crashes, downs>>

Stopped(c) == [c EXCEPT !.phase = "failed", !.torn = @ \/ c.inserted]

\* The target stores the names of an enumeration, which is what the rows hold.
Named(n) == n \in DOMAIN db.types /\ db.types[n] = ModelTypes[n]

\* One transaction: the rows keep their keys, which rows of the target with
\* the same keys refuse, as does a foreign key unless a superuser lifted it,
\* and their statuses, which a type with other labels refuses.
Inserts(t) ==
  /\ HasTable(db, t)
  /\ t \notin db.filled
  /\ \A n \in DOMAIN TypedTables : t \in TypedTables[n] => Named(n)
  /\ copy.superuser \/ Targets(db.tables[t]) \ {t} \subseteq db.filled

MigrateTable ==
  /\ copy.phase = "running" /\ copy.left # <<>>
  /\ LET t == Head(copy.left)
     IN  IF Inserts(t)
         THEN /\ db' = [db EXCEPT !.filled = @ \cup {t},
                                  !.users = IF t = "users" THEN "admin" ELSE @]
              /\ copy' = [copy EXCEPT !.left = Tail(@), !.inserted = TRUE]
         ELSE /\ copy' = Stopped(copy)
              /\ UNCHANGED db
  /\ UNCHANGED <<at, phase, past, crashes, downs>>

\* reset_sequences
CopyEnd ==
  /\ copy.phase = "running" /\ copy.left = <<>>
  /\ copy' = [copy EXCEPT !.phase = "done"]
  /\ UNCHANGED <<db, at, phase, past, crashes, downs>>

CopyKilled ==
  /\ copy.phase = "running" /\ crashes < MaxCrashes
  /\ copy' = Stopped(copy)
  /\ crashes' = crashes + 1
  /\ UNCHANGED <<db, at, phase, past, downs>>

-----------------------------------------------------------------------------
Entrypoint == StartEmpty \/ Stamp \/ Upgrade \/ Serve \/ Restart
Copying    == MigrateTable \/ CopyEnd

DatabaseNext ==
  \/ Entrypoint \/ Crash
  \/ InitDb \/ UpgradeOne \/ DowngradeOne
  \/ CopyStart \/ Copying \/ CopyKilled

DatabaseSpec == DatabaseInit /\ [][DatabaseNext]_databaseVars

-----------------------------------------------------------------------------
\* Properties.

DatabaseTypes ==
  /\ db.ok /\ db.users \in Users
  /\ db.ownerless \subseteq db.filled /\ db.filled \subseteq DOMAIN db.tables
  /\ at \in Unversioned .. Newest
  /\ phase \in {"down", "created", "migrated", "serving", "failed"}
  /\ past \in {"empty", "old", "stamped"}
  /\ copy.phase \in {"idle", "running", "done", "failed"}
  /\ ToSet(copy.left) \subseteq DOMAIN db.tables \cup ToSet(MigrationOrder)
  /\ crashes \in 0 .. MaxCrashes /\ downs \in 0 .. MaxDown

\* A database that has every revision has the tables of the models and stores
\* the names of their enumerations, whether it was created whole or brought
\* there revision by revision, in one command or in several, unless it was
\* marked without being migrated. Brought there by revisions it does not store
\* the names of FindingStatus: add_finding_tables.py gives the type its values.
HeadIsModel ==
  at = Newest /\ past # "stamped" =>
    /\ db.tables = ModelTables
    /\ \A n \in DOMAIN ModelTypes :
         IF n = "findingstatus" /\ past = "old" THEN n \in DOMAIN db.types ELSE Named(n)

\* A container that began with an empty database never finds one it cannot
\* upgrade, however often it was killed between two of its steps and whatever
\* the operator downgraded or copied into it.
EmptyIsServed ==
  past = "empty" => phase # "failed"

\* A copy that ends has copied every table, and no other had stopped midway:
\* a copy that stopped after a table cannot be done again.
CopyIsWhole ==
  copy.phase = "done" => ToSet(SourceTables) \subseteq db.filled /\ ~copy.torn

\* Every step that reaches the last revision gives the tables and the labels of
\* the models, but for FindingStatus; and undoing the revision just applied, where
\* alembic can, gives the tables and the types back as they were. Four revisions
\* look before they create: they are undone as if they had created. The one that
\* creates the findings leaves their type behind when it is undone.
Looks == {"001", "002", "007", "008"}

RevisionsHold ==
  [][/\ HeadIsModel'
     /\ UpgradeOne /\ History[at'] \notin Looks =>
          LET e == DownOne(at', db')
          IN  e.ok => /\ e.tables = db.tables
                      /\ e.types = db.types \/ History[at'] = "3a7f2c8d1e90"]_databaseVars

=============================================================================
