# AssistantAudit in TLA+

AssistantAudit is the audit platform of The Forge Hackerspace: a FastAPI backend
over PostgreSQL, a Next.js frontend, and agents, small daemons that an auditor
installs inside the audited network and that run scans and collects on the
backend's orders. This directory models the backend: the WebSocket links, the
agents, their tasks and their certificates, the collect pipelines and the
verdicts drawn from what they bring, the scans launched in the background, the
work of the auditors, the frameworks, the encrypted files, and the database
itself, from its first start through every migration.

- `<Component>.tla` is the specification of a component,
- `MC<Component>.tla` and `MC<Component>_<run>.cfg` instantiate it for TLC
  (`_all` has every property of the component),
- `<Component>Proofs.tla` holds its theorems, checked by TLAPS
  (`ScansAndLibraryProofs` those of `ScanJobs` and of `Frameworks`, `StorageProofs`
  those of `FileStore` and of `Database`, `CollectProofs` those of `CollectPipeline`
  and of `Verdicts`),
- `PROJECT.json` lists components, runs, mutants, the lines each definition
  stands for, the disagreement found by a run, the hazards and the theorems.

Paths are relative to the repository; `app/` is `src/backend/app/`.

To check a run: `tlc -workers 2 -config MCAgentLink_all.cfg MCAgentLink`. To
check the proofs of a module: `tlapm AgentLinkProofs.tla`.


## 1. How the backend runs

ADR-003 makes the backend synchronous by default. What executes at once is:

| actor | where | runs |
|---|---|---|
| REST handlers | threads of FastAPI's pool | one session and one transaction per request, committed by `get_db` on exit (`app/core/database.py:77`) |
| `/ws/agent`, `/ws/user` handlers | coroutines of the event loop, one per socket | interleave at `await` only; each message opens a session of its own and commits it |
| heartbeat sweeper | a loop of the lifespan, the pass in a thread (`app/core/heartbeat_sweeper.py`) | marks silent agents offline |
| collect sweeper | the same, `app/core/collect_sweeper.py` | fails the collects that stay running |
| background jobs | daemon threads of `LocalTaskRunner` (`app/core/task_runner.py`) | pipelines, Monkey365 scans, AD audits; die with the process |
| agents | other machines | report by WebSocket or HTTP, whenever they like, or never |
| users | browsers | any request at any time |

They share the rows of the database, without version columns and at READ
COMMITTED, and the tables of `ConnectionManager` in memory. Rows are locked in
one place, the enrolment. A session writes the columns whose value changed
(SQLAlchemy's unit of work) and keeps the objects it loaded
(`expire_on_commit=False`), so what a handler read may be stale when it writes.


## 2. Inventory

Each part of the system, what it keeps, what it does, what is hard about it and
what makes it correct. The status of each part is in section 8.

**Agent link** (`app/core/websocket_manager.py`, `app/api/v1/websocket.py`).
State: `agent_connections`, `agent_owners` and one `asyncio.Lock` per
`agent_uuid`. A connection takes the lock, registers, accepts, closes the socket
it replaces with code 1012, leaves the lock and activates the agent; messages
are served until a receive raises; the handler then unregisters the uuid and
marks the agent offline. Hard: two sockets of one agent, each between two
awaits; the sweeper reading the registry from a thread; an entry removed by a
handler whose socket it is not. Correct when the two tables agree, a
reconnection closes an established socket only, every connection completes,
superseded handlers end and silent agents end up offline.

**User channel** (same files). State: `user_connections`, and a bounded, ageing
buffer of the events a user without a socket missed. `send_to_user` sends or
buffers; a connection replays. Hard: sends and replays suspend, while others
buffer and sockets come and go. Correct when no event is lost except by the two
limits, none is received twice, the bound holds and replays happen.

**Agent tasks** (`app/services/task_service.py`, `app/services/agent_service.py`,
`app/api/v1/agents.py`, `app/core/heartbeat_sweeper.py`). State: `agents.status`
and `last_seen`, `agent_tasks.status`, `started_at`, `completed_at`. Dispatch,
status and result reports over the socket or HTTP, deletion, revocation,
disconnection, sweep. Hard: every handler reads, decides and commits later.
Correct when no task waits for an offline agent, a revocation is final, a
running task is not deleted, a finished one is not overwritten, the stamps agree
with the status, and the tasks of a dead agent end.

**Enrolment, revocation, CRL** (`agent_service.py`, `app/core/cert_manager.py`).
State: the agent's row with its one-time code, the CRL file. Hard: a code
presented twice at once, a revocation beside an enrolment, two revocations
writing one file. Correct when a code is used once, a revocation stays, and the
file lists every revoked certificate.

**Collect pipelines and collects** (`app/services/pipeline_service.py`,
`app/services/collect/dispatcher.py`, `app/services/collect_service.py`,
`app/core/collect_sweeper.py`). State: `collect_pipelines` (status, three steps,
six counters), `collect_results`, `agent_tasks`, `equipements`. A thread scans
through an agent, creates the equipment found and collects each, polling rows
that the agent, users and the sweeper change. Hard: deadlines against late
answers, deleted rows under a poll, failures of one item among several, a
process that stops. Correct when the counters account for every host, a
completed pipeline has earned it, a row that ended never changes, the pipeline
ends and no collect stays running.

**Scans and audits in the background** (`app/services/monkey365_scan_service.py`,
`app/services/ad_audit_service.py`, `app/core/task_runner.py`). State: a row, a
table of live PowerShell processes, the directory of the output. A Monkey365
scan runs in a thread, or with its output streamed to the browser; an AD audit
in a thread. Launched, cancelled, deleted. Hard: a cancellation against the
start, the end and the last look of the job; a job that keeps the row it read; a
thread submitted before its row is committed; a process that goes on for ever; a
refused last write; a stopped backend. Correct when a success was earned, a
cancellation stays and no job leaves its row in progress.

**Audit work** (`app/services/assessment_service.py`, `finding_service.py`,
`checklist_service.py`, `monkey365_service.py`). State: campaigns, assessments
with one result per control, the audit status of each equipment, findings with
their history, checklists. Hard: requests that check, then write at their
commit, with no constraint behind the check; a status and a history written by
two requests at once; deletions that foreign keys refuse. Correct when an
equipment is assessed once per campaign and framework, a result has one
finding, and a finding's history is a path of the transition table that ends at
its status.

**Frameworks** (`app/services/framework_service.py`). State: YAML files and rows
of the same versions, with a hash and the name of the file in the row. Read at
each start, imported, edited, cloned, deleted. Hard: two copies written by turns,
files of clones, an error of the database in the middle of a synchronisation.
Correct when an assessed version keeps its controls and a start can be repeated.

**Files and keys** (`app/services/file_service.py`, `app/api/v1/attachments.py`,
`app/core/file_encryption.py`, `scripts/rotate_kek.py`). State: files on the disk,
their rows with a wrapped key, encrypted columns, the secrets of the environment
and those each process has. Hard: a disk and a database that no transaction
joins, deletions that take the rows of files and leave the files, a rotation of many
values under two secrets. Correct when nothing becomes unreadable, an upload commits
no row without its file and a deletion that ends leaves neither.

**Collectors and verdicts** (`app/tools/collectors/`,
`app/services/collect/evaluators/`, `app/services/collect/dispatcher.py`,
`app/services/config_analysis_service.py`). State: the collects with what was
parsed and found, the results an assessment was prefilled with. Some ninety
rules read the text that a tool printed. Hard: a command without an answer, a
lost session, a text in another language, several sources for one control.
Correct when a finding says what the device is, what was not read is not
cleared, and a verdict has the source it names.

**Database** (`docker_entrypoint.py`, `init_db.py`, `alembic/`,
`scripts/migrate_to_postgres.py`, `app/models/`). State: the tables, the
revision. The schema exists twice, as models and as 34 revisions. Hard: a
container killed between two steps of its start, an operator's downgrades, a
copy of one transaction per table. Correct when both ways give the same tables and
the same labels, which they do but for the status of a finding, a database that
began empty can always be served, and a copy is whole.

**Rate limiter** (`app/core/rate_limit.py`): a sliding window and a block per
address. **Scan progress** (`app/services/scan_progress.py`): a table of
percentages fed by reports that may be late. **Frontend token refresh**
(`src/frontend/src/lib/api-client.ts`): one refresh for many failed requests.

The rest is CRUD over single rows (users, entities, sites, audits, tags, network
map), remote I/O (AD auditor, Monkey365 runner), rendering (reports), observation
(metrics, logs, health): no protocol between actors, and properties that are
about text.

How the parts interact:

```
 user --REST--> agents.py --> task_service --row--> agent_tasks <--row-- pipeline thread
                     |  push new_task                    ^   ^              |  create / poll
                     v                                   |   |              v
              ConnectionManager --WebSocket--> agent ----+   |       collect_results, equipements
                     |   ^                  reports          |              ^
   user <--WebSocket-+   +-- registry read -- heartbeat sweeper      collect sweeper
```

## 3. The modules

### AgentLink

One agent, any set of sockets that present its token; every operation of the
registry touches one key, so instances for different agents do not interact. A
step runs from one `await` to the next.

| TLA+ | code |
|---|---|
| `agent_connections`, `agent_owners`, `agent_lock` | the tables of `ConnectionManager`, for this uuid |
| `pc[s]`, `old_ws[s]`, `trusted_owner[s]` | the coroutine `ws_agent` of socket `s`, and its locals |
| `Arrive`, `Register`, `AcceptFirst` / `AcceptThenClose` / `AcceptFails`, `OldClosed` | `ws_agent` up to the end of `connect_agent`, cut at `lock.acquire`, `accept` and `close(1012)` |
| `Resolve` | what follows the lock without suspension: `get_agent_owner` and `ws_resolve_and_activate`, whose transaction may fail |
| `HandleDisconnect`, `PushFails` (`Unregister`) | `_handle_agent_disconnect`, and `send_to_agent` on a dead socket |
| `SweepRead`, `SweepCommit`, `SweepRefused` | the sweeper, which reads the registry and the row and commits later, or is refused and rolls back. A disconnection that is refused leaves the agent as it was (`HandleDisconnect`) |

### UserChannel

One user, any set of sockets (tabs, reconnections), a bounded number of events
numbered in the order of the `send_to_user` calls.

| TLA+ | code |
|---|---|
| `buffer`, `aged` | `user_event_buffer[user_id]`; entries are in the order of their timestamps, so that the expired ones are a prefix and `aged` is its length |
| `replay[s]`, `sending[s]` | `valid[idx:]` of a replay loop; the sends suspended in `send_json` on `s` |
| `Connect`, `Accepted`, `AcceptFails`, `ReplayOne`, `ReplayFails` | `connect_user` and `_replay_buffered_events`, cut at each `await` |
| `SendBuffers`, `SendStarts`, `SendCompletes`, `SendFails` | `send_to_user` and `_buffer_event`, cut at `send_json` |
| `delivered`, `purged` | history: received, and dropped by one of the two limits |

A send on an open socket is received and one on a closed socket raises: what
TCP loses without an error is outside the model.

### AgentTasks

One enrolled agent, its tasks, and every transaction that changes their rows. A
handler is two steps: a read that decides which columns it will write (`Open`),
and a `Commit` that writes those and no others, or a `Rollback`. The queries of
one transaction are taken to read one state.

| TLA+ | code |
|---|---|
| `txn[t]` | the session of thread `t`: columns to write, and `fresh`, whether nothing was committed since it read |
| `Dispatch`, `DispatchCollect` | `POST /agents/tasks/dispatch` and the dispatch of a collect: the first queues its push before the commit, the second after |
| `HttpStatus`, `HttpResult`, `WsStatus`, `WsResult` | reports; the HTTP ones pass `get_current_agent`, the socket's do not look at `agents.status` |
| `Revoke`, `Delete` | `revoke_agent`, `delete_task` |
| `registered`, `accepting`, `serving` | what the transactions see of the sockets of `AgentLink`: the entry of the registry, a socket inside `connect_agent`, the number of handlers that serve |
| `Register`, `AcceptFails`, `Resolve`, `Disconnect`, `Heartbeat` | the transactions of `/ws/agent`. A handler that ends removes the entry of whichever socket has it and marks the agent offline; another one goes on, and its reports look at neither |
| `refused` | history: the transaction of a disconnection was refused since the agent is offline |
| `Sweep` | `_sync_sweep_iteration`; `MarkOffline` is `mark_agent_offline_and_fail_tasks`, which it shares with `Disconnect` |
| `pushes`, `Push`, `known` | `new_task` events on their way, and what the agent learned |
| `clean` | history: every commit so far was `fresh` |

`clean` separates two questions: whether the rules are right when transactions
follow one another (the `Clean...` properties, which hold and are proved) and
whether they survive transactions that overlap (section 6: some do not). The
columns of stamps are written by racing transactions whatever `clean` says, and
`StampsFollowStatus` holds without it. `allowed_tools` is not modelled: a
dispatch that it refuses changes nothing.

### BackgroundJob and CollectPipeline

`BackgroundJob` is the abstract specification: what the row of a background job
promises to those who poll it. It starts once, its plan is made once, before
any item is treated, its counters grow by one and never pass the plan, it is
completed only when everything was tried and something succeeded, and a row that
ended never changes.

`CollectPipeline` is the thread of `execute_pipeline_background`, an action from
one commit or poll to the next, with everybody who touches its rows.

| TLA+ | code |
|---|---|
| `pipeline` | the row: status, three steps, six counters |
| `Begin` ... `ScanDone` | `_run_scan_step` and its poll |
| `EquipmentsStart` ... `EquipmentsCollide` | the equipment step, one transaction; `uq_site_ip` refuses an address a user inserted meanwhile |
| `CollectsStart` ... `CollectsDone` | the loop of the collects: create and commit, dispatch, poll, read the collect (`CollectPolled`, `CollectTimeout`), commit the counters (`Count`) |
| `EquipmentGone`, `CollectGone`, `CountRefused` | what a deleted row does to the loop: the exception leaves it |
| `Finish`, `Abort`, `AbortRefused`, `DatabaseError`, `Restart` | the final status, the outer `except` with a session of its own, a database that refuses, a backend that stops |
| `ReportStatus`, `ReportResult`, `ReportHosts`, `TaskEnds` | the agent's reports, with the hydration of the collect where the code hydrates it; a report over HTTP, a revocation or a disconnection changes the task alone |
| `DeleteTask`, `DeleteCollect`, `DeleteEquipment`, `CreateEquipment` | users |
| `SweepReads`, `SweepCommits`, `SweepRefused` | `_sync_collect_sweep`, refused as a whole when a row it read is gone |
| `succeeded` | history: hosts whose collect was once a success |

It composes with `AgentTasks` by abstraction: which transaction gave a task its
status does not matter here, so that any report may come at any time, in any
order, repeated or never; a task is `active`, `completed` or `failed` (which
stands for `cancelled`). `Job` is the refinement mapping: the row's status and
its last three counters.

### AgentEnrolment

The transactions of `enroll_agent` and `revoke_agent` by threads of the pool, on
PostgreSQL. Enrolment locks the row when it reads (`FOR UPDATE`), revocation
when its `UPDATE` is flushed by the query of the CRL; a transaction that waited
for a row sees what the other one committed in it. `RevokeList` writes the file
before the commit, from the agents its transaction sees. `certified` of a
transaction is what the session loaded: an agent that enrolled between the read
and the flush has no serial in the loaded object, the handler raises, and
`Rollback` stands for it. `overlap` records that a list was computed while
another one was not yet committed. "active" stands for "offline" too.
The CA is taken to be installed: without its files no certificate is signed and
no CRL written.

### ScanRows and ScanJobs

`ScanRows` is the abstract specification: what the row of a scan promises to whoever
polls it, between the job that works on it and the user who cancels it. It has
three variables per scan: the row's status, whether a request to cancel is between
its check and its commit (`asked`), and whether the job still owes its last word
(`verdict`). The job may write only after it looked (`Look`) at a row that was not
cancelled, and once; a request may write CANCELLED over any end written since it
began (`Cancel`), which is what `cancel_scan` does.

`ScanJobs` is the detailed one. Scans of three kinds (`Kind`): a Monkey365 scan
in a thread (`"local"`), one whose output is streamed to the browser
(`"stream"`), an AD audit (`"ad"`). Each is a row, the request in flight on it,
a job and its process. A local scan without a device code is `Interactive`: nothing
reads the output of its process.

| TLA+ | code |
|---|---|
| `Launch`, `Submit` | `launch_scan`, which commits, and the handler that then submits the job |
| `LaunchOpen`, `LaunchCommit` | the other two: the job is started by the handler, the row is committed by `get_db` after it |
| `Cancel`, `CancelCommit` | `cancel_scan`: kills what `_running_processes` has, marks the row, commits on exit |
| `Start` | the job looks for its row; `"lost"` when it is not there yet |
| `RequestRefused` | `get_db` cannot commit a launch or a cancellation: a job without a row, or a process killed and its row in progress |
| `Spawn`, `Register`, `NoSpawn`, `Exit`, `Return`, `Audit` | the run: `Popen`, `on_process_start`, the process ends, its output is written where `dir` still is, the `finally` |
| `Mute`, `Expired`, `Timeout` | the process closes its output; the hour of `proc.wait(timeout=3600)`, which runs from then, or from the start of an interactive one |
| `Raise`, `CommitRaises` | anything else in the run raises, or the commit of what it brought: a local job goes on to its last write, another to its `except` clause |
| `MarkRunning`, `FinalRead`, `FinalCommit` | what the job writes. A local job reads the row again in a new session before its last write; the other two hold the object they loaded first |
| `Crash` | the backend stops, with jobs, processes and open transactions |
| `Rows` | the refinement mapping to `ScanRows`: `Verdict` is `due` from the job's last look at the row to its commit; an audit looks when its session has returned, since nothing cancels one |

A streamed scan writes what it holds over whatever it finds (section 6), and has no
place in `Rows`. `FinalRefused` is the last session that raises and is logged or passed
over: `unwritten` remembers the scan, whose row stays as it was. `CancelledIsKept` follows for the local scans.

### AuditWork

One audit: campaigns, assessments with a result per control, findings, one
checklist instance, and the requests on them. A request whose decision rests on
what it read (`StartCampaign`, `CompleteCampaign`, `CreateAssessment`, `Generate`,
`UpdateStatus`, `RespondToItem`) is a `Begin` and a `Save...`; one that writes what
it is told is a single step. Assessments and findings are sequences in the order
of their keys; each has `seen`, how many there were when its request looked, by
which the properties tell the requests that overlapped from those that did not.
`ImportScan` and `SimulateScan` are the Monkey365 import and the simulated scan,
by the levels of their rules. `DeleteCampaign` and `DeleteAssessment` are refused
by the foreign keys of the findings. `Verdicts` leaves the order of the
assessments open, which no query asks for. `Written` and `Moved` are what a commit makes of
the equipments and of a finding.

### Frameworks

The versions of one framework as files (`file`, by name) and as rows (`rows`, by
version). `hash` of a row is the file it was read from, since the code compares
the digests of whole files.

| TLA+ | code |
|---|---|
| `Boot`, `SyncFrameworks` | the lifespan of `app/main.py` and `POST /frameworks/sync`: `ImportFile` over the sorted directory, in one session; `ReadUpTo[i]` is what it has after `i` files |
| `ImportOne` | the import of one file, in a transaction that an error undoes |
| `CreateFramework`, `UpdateFramework`, `DeleteFramework` | the editor: the row is flushed, the file written or removed, and the commit comes last (`CommitOrStop`); an export that fails is only logged |
| `CloneAsNewVersion` | the clone has the original's `source_file` and no hash |
| `Refused` | the foreign key of the results, which refuses to delete controls |
| `Edit` | the operator writes the file that the code ships |

Its specification is `LibrarySpec`, with `LibraryInit`, `LibraryNext` and the type
invariant `LibraryTypes`, so that one module of proofs extends it with `ScanJobs`.

### FileStore

Files known by whether they are on the disk and by the key that wraps theirs,
encrypted columns by the key they are under. `backend` holds the secrets the
process was started with, `env` what a new process gets. An upload writes the
disk, then its row (`Upload`, `SaveRow` or `SaveFails`); a deletion unlinks, then
deletes (`Unlink`, `DeleteRow` or, when its commit is refused, `DeleteFails`). A campaign
or a task that is deleted takes the rows of its files down the relations and leaves the
files (`DeleteResult`, `DeleteTask`). `Rotate`, `RotateKek`, `RotateColumn`,
`CommitRotation`, `RotationFails` are `run_rotation`, one transaction for both
secrets; `Rotate` takes any old key, right or not. `held` are the secrets of the
last rotation that was committed, `careful` says that the operator stopped the
backend for every rotation and started it with `held`. `orphans` and `unlinked` are
history: the files that a stop, a refused row or a deletion down the relations left
without their row, and those whose deletion went no further than the unlink, until
it is repeated.

### Collectors and Verdicts

`Collectors` is what a collect reads on a device and what the checks make of it.
A device has one setting per check (`LinuxSettings`, ...), good or poor;
`...Prints` is what the commands print, `Reads` adds one fault (a command times
out, or the session is lost at some command and no later one answers), `Parse...`
are the parsers and `...Accepts` the values each check passes. The backend holds
these collectors and does not call them: the agent does, and sends what they
return (`app/services/collect/dispatcher.py:170`). For OPNsense, `OpnsenseReads` is
`config.xml` by SFTP with what the menu adds, or else commands through the menu or
a shell.

`Verdicts` has the device, its collects, its scan, the analysis of its
configuration file, and an assessment that each of them prefills.

| TLA+ | code |
|---|---|
| `DetectProfile`, `MethodOf` | `detect_collect_profile`, `_PROFILE_METHOD` |
| `CreateByAuditor`, `CreateByPipeline` | the two ways a collect is made |
| `HydrateOK`, `HydrateFailed` | the dispatcher on a result, with `_analyze_collect_findings` |
| `PrefillFromCollect`, `PrefillFromPipeline`, `PrefillFromConfig` | the three functions that write the results of an assessment, over whatever is there |
| `MonthPasses` | the clock: the age of an update is judged again when a collect prefills |

A check is `read` when every command that its decision consulted answered
(`LinuxReads`, `WindowsReads`: nftables is consulted when ufw told that it has
nothing, iptables when nftables has nothing either); every other check is `left` with the
value that the parser gave it. Two sets make the properties precise. `Misjudged` lists
the settings, and the one text, that a check takes for what they are not,
`ClearedUnread` the values of unread checks that pass. `FindingsAreTrue` and
`UnreadIsFlagged` say that these are all, among the values that the checks tell apart;
section 6 gives their reasons. An error has two lengths, since one parser counts its
words; the exit status of `configctl ids status` is taken for that of the service.

### Schema, Migrations and Database

`Schema` translates the models: the foreign keys and the unique keys of every
table, the columns of the tables that a revision creates, and of the others
those that some revision adds or drops. `Migrations` translates the 34
revisions, each as the sequence of operations of its `upgrade` and its
`downgrade`, and what PostgreSQL does with an operation: `Possible` when it is
accepted (a key needs its target, a constraint to drop its name, `SET NOT NULL`
rows that are filled, `TEXT` to `JSON` a cast that no revision gives, a Boolean column
a default that is not the integer 0), `Effect` what it changes. The types are those
of `Enum` columns, as the sets of their labels: SQLAlchemy stores the names of a
Python enumeration (`ModelTypes`), a revision creates what it writes. `Inserts`
refuses the rows of a table whose type has other labels. A command of alembic is one transaction: `Perform` stops at the first
operation that is refused and the database stays as it was.

| TLA+ | code |
|---|---|
| `StartEmpty`, `Stamp`, `Upgrade`, `Serve` | `docker_entrypoint.py`: three ways to find the database, then the admin and the application |
| `Crash`, `Restart` | the container is killed between two of these, and started again |
| `InitDb` | `init_db.py` where it succeeds |
| `UpgradeOne`, `DowngradeOne` | the upgrade of a release whose last revision is the next one; `alembic downgrade -1` |
| `CopyStart`, `MigrateTable`, `CopyEnd`, `CopyKilled` | `migrate_to_postgres.py`, a transaction per table, with or without a superuser's right to lift the foreign keys |

`Origins` are the databases before the first start: empty, or `Baseline`, the
tables no revision creates as they were before the first one, with rows whose
`owner_id` a revision must find. `UpToHead` is a function over the revisions and
`Perform` one over the operations of a revision, so that the proofs can follow
both.


## 4. The runs

A passing run checks every property of its component in one instance. The
violation run states what a comment says, and TLC's counterexample shows the code
does otherwise (section 6).

| run | instance | states | shows |
|---|---|---|---|
| `link` | 3 sockets | 33 187 | registry coherent and reconnections serial, connections and superseded handlers end, a silent agent goes offline for good |
| `channel` | 2 sockets, 4 events, buffer of 2 | 57 049 | bound, no event twice, sends settle, buffered events are replayed |
| `tasks` | 1 task, 3 threads, 2 sockets | 553 264 | stamps and a revocation's tasks; offline, revocation, deletion and finished-task rules without overlap; tasks of a silent agent end |
| `pipeline` | 3 hosts, 1 address | 376 914 | counters, earned completion, BackgroundJob, end of the pipeline and of the collects |
| `enrolment` | 2 agents, 3 threads | 10 631 | a code is used once, revocations stay, the CRL is complete without overlap |
| `scans` | one scan of either kind, or local and interactive, 1 stop | 2 356 | a success is earned, ScanRows: a cancellation of a local scan stays, an end is written once; a job ends its row |
| `audit` | 1 campaign, equipment, framework and control, 2 requests at once, 7 in all | 1 033 480 | one assessment and one finding unless requests overlapped, histories are paths of the table, a completed checklist stays so |
| `library` | 2 versions, 3 files, 4 writes | 252 780 | an assessed version keeps its controls, a start that worked works again |
| `files` | 2 files, 1 column, 2 secrets, 2 requests | 901 830 | a careful operator can read everything whatever failed; what leaves a row without its file, and a file without its row |
| `verdicts` | 5 kinds of device, 2 poor settings at most, 1 collect | 648 478 | findings say what the device is, what was not read is flagged, verdicts have their source |
| `verdicts_cleared` | same | - | a configuration's finding whose control is compliant |
| `database` | 10 databases before the first start, 2 kills, 2 downgrades | 10 608 | tables and labels agree but for FindingStatus in an old database, an empty database can always be served, a copy that ends is whole |

**Why the bounds are enough.** Each is the smallest in which the cases of the
hazards occur; for the safety properties the theorems cover every larger one.

- `Sessions`: three sockets are a registered one, one being connected and one
  that waits for the lock. Each connects once; a client that returns is another
  socket, which is what the code sees. Two sockets of a user are a replay and
  another socket that receives or breaks beside it.
- `BufferMax = 2`, `MaxEvents = 4` (the code: 1000 and no limit): with four
  events one buffer is trimmed, expires in part and is taken whole by a replay
  while another one fills. `BufferMax >= 2` is assumed because the trim happens
  before the append.
- `Tasks`: one. The tasks of an agent meet only in the transactions that change
  all active ones, each row alike. `Workers`: one REST thread, besides the event
  loop and the sweeper: three transactions that may overlap. `MaxSockets`: two, a
  handler that ends and one that outlives it.
- `Hosts`: three, one that has no profile (`Collectable`) and two that share an
  address, so that the second finds the equipment the first one created, and the
  plan differs from the number of equipments created. `Addresses`: one, with or
  without an equipment at the start.
- `Awaited`: nothing reads the scan's task once its poll is over, and what is
  reported of it later is left out. Users delete equipment while the thread works
  only (`pc \in Working`), and create it until the thread has its own: nothing
  reads the rows of the site afterwards.
- `Agents` and `Threads`: two certificates so that one can be missing from the
  file, three threads so that an enrolment meets two revocations. The instance
  is symmetric in both; the properties are safety properties, for which that is
  sound.
- `MaxScans = 1`: scans share `_running_processes`, in which each has its own key,
  and a stop of the backend, and no action of one reads or writes anything of
  another; the request, the job and the process of one scan are what races. The
  theorems hold for any number. `MaxCrashes = 1`: nothing of a job is left after a
  stop.
- `MaxRequests = 7`: an assessment, a failing result, its finding and two
  transitions at once need six. Two requests in flight are what a race takes;
  one of each row is what they race for. `MaxTrail = 2`, `MaxFindings = 2` and
  `MaxAssessments = 2` let the second one overlap the first.
- `MaxWrites = 4`: two versions created, cloned or edited, and one of them edited
  again on the other side; starts, assessments and imports are not bounded. Two
  contents tell an old one from a new one, and `Order` gives the shipped file and
  the exported ones their places.
- `Files`, `Keys`, `Requests`: two of each, so that a rotation finds one file under
  either key and a deletion meets an upload. `MaxChanges = 1`: from one secret to
  another; a rotation may be tried with any old key any number of times. The
  instance is symmetric in the three, for safety properties.
- `MaxPoor = 2`: the outputs that two checks share (`net accounts`, the firewall,
  the rules of `pf`) are read with each of their settings. `Collects`: one, since a
  collect reads nothing of another; a prefill over an older one is a prefill over
  any verdict. Two months tell a recent update from one that has aged.
- `MaxCrashes = 2`, `MaxDown = 2`: a kill at two steps of two starts, and two
  revisions taken back, after which everything is a repetition. `Origins`: nothing,
  or the old tables with no rows, with rows that need an owner in two places, and
  with no user, an auditor or an administrator to give them to.

Deadlock is checked in `tasks`, `enrolment`, `library` and `files`, where somebody
can always act. It is off in the others, whose finite sets of sockets, events,
hosts, scans, requests, collects or kills are used up at the end.

Every property has a mutant in `PROJECT.json`: an operator next to the definition
it changes, marked `Mutant:`, that makes the property fail. None is used by `Next`.
Where a run checks several promises as one property (`OwnersAreSerial`,
`ConnectionsSettle`, `BufferIsRight`, `EventsSettle`, `RowsAreRight`,
`CleanStatusesHold`, `OutcomesAreTrue`, `JobEnds`), its module defines each of them
by its own name.


## 5. Fairness

- Event loop: a coroutine that can run is resumed, hence WF of every step that
  is not the environment's. `asyncio.Lock` wakes its waiters in the order they
  came, so that one of them cannot be overtaken for ever: SF of `Register`,
  which is disabled each time another socket holds the lock.
- Sweepers: their loops run for ever and catch every exception, hence WF of a
  pass. The commit of the heartbeat sweeper is owed strong fairness, in
  `AgentLink` as in `AgentTasks`: its pass may be refused now and then, and is
  tried again.
- Transactions: an open one ends, by a commit or a rollback.
- Pushes: the event loop gets to every event queued on it, hence SF of `Push`.
- Pipeline: the thread goes on and its polls have deadlines, hence WF of its
  steps. Nothing is owed once the process stopped.
- Scans: handlers return, threads run, an LDAP session times out and an hour passes,
  hence WF of the steps of handlers and of jobs (`ScanJobs`). The process is owed
  nothing, neither its exit nor the end of its output: once the output is closed, or
  where it is not read, the timeout ends the wait; before, nothing does, and
  `JobEndsRow` leaves out the behaviours in which a process keeps it open for ever.
- Agents, users, networks and clocks owe nothing: no property assumes that a
  report, a heartbeat or a request comes. `AgentEnrolment`, `AuditWork`,
  `Frameworks`, `FileStore`, `Verdicts` and `Database` have no fairness, and safety
  properties only.


## 6. Where the code and its words disagree

### With a run

`verdicts_cleared` (`NothingFoundIsCleared`): the findings of a configuration are
matched to the firewall controls by a category and by keywords of their text, and
the keywords of FW-002 and FW-011 are those of the FortiGate parser, not of the
OPNsense one. A control that no finding matches is written `compliant`, so that a
configuration in which the analysis did find the web interface in HTTP, or a rule
from any to any, passes the control about it
(`config_analysis_service.py:45`; the comment above it says "Absence de règle
any-any").

### Without a run

Met while modelling, each with the step that has it where a module does. First
what a property had to make room for.

**Links and tasks**

- `websocket_manager.py:137`: `disconnect_agent` pops the uuid whichever socket is
  registered, so that a superseded handler unregisters its replacement, although
  the lock is taken so that two sockets do not undo each other (`:32-33`).
  `Unregister` has it. It marks the agent offline too, and a status that the
  survivor receives then makes a task run on an offline agent, with no transaction
  that overlaps another (`heartbeat_sweeper.py:4-6`; `CleanOfflineIsQuiet` says
  what is left of the rule). `websocket.py:69`, `disconnect_user`, is the same for the
  tabs of a user. `websocket.py:94` reads the owner after the awaits, and serves
  without one.
- `websocket_manager.py:194`: a failed replay assigns its rest over what was
  buffered since, although events are "rejoues a la reconnexion" (`:8-9`).
- `heartbeat_sweeper.py:70`: a dispatch may commit after the agent was marked
  offline; no sweep looks at its tasks again, which go "en failed" (`:4-6`). At
  `:55`, a pass that found no socket commits `offline` over an agent that
  reconnected since.
- `agent_service.py:235`: a disconnection writes `offline` over a revocation, and
  the next connection activates the agent ("Révocation immédiate possible",
  ADR-002:63; `tests/test_agents_api.py:401`). At `:671`, a status is accepted from
  any status on a socket that a revocation leaves open. At `:415`, the check that
  a task is not running comes before the delete; at `:251`, a result that commits
  during a disconnection is overwritten by `failed`. The `Clean...` properties say
  when not.
- `task_service.py:25`: `new_task` is dropped without a socket and not sent again;
  the polling the comment refers to wants an auditor. `agents.py:278`: FastAPI
  runs the push before `get_db` commits the task.
- `api/v1/websocket.py:100`: when `ws_resolve_and_activate` fails, the handler
  returns and leaves its closed socket registered (`Resolve`, `AcceptFails`).

**Enrolment, pipelines**

- `agent_service.py:147`: the CRL is computed before the commit and overwrites the
  file: of two revocations at once one may be missing, while `:141` says "tous les
  agents revoques".
- `pipeline_service.py:617`: a row deleted under the loop raises out of it, while
  "un echec de collecte individuelle n'arrete pas la boucle" (`:719`). At `:671`,
  a result that arrives after the deadline makes the collect a success and the
  counter stays. At `:176`, rules 4 and 5 of `detect_collect_profile` do not look at
  the operating system: a switch with SSH is collected as Linux.

**Scans**

- `api/v1/tools/ad_audit.py:49`: the thread is submitted before the request
  commits; it may find no audit and leave the row running (`Start`, `"lost"`).
- `monkey365_scan_service.py:426`: a streamed scan tests the row it loaded before it
  ran, so that a cancelled one becomes a success. At `:324`, a cancellation before
  the process is registered kills nothing and the scan runs to its end.
- `executor.py:289`, `monkey365_streaming_executor.py:109`: the output is read to its
  end before `wait(timeout=3600)`. A process that hangs with its output open is
  never timed out, though the stream has "Timeout (1h) depasse" for
  its user (`:153`); its thread and its row stay (`Hangs`).
- `monkey365_scan_service.py:235`, `ad_audit_service.py:186`: when the session that
  writes the end of a scan raises, it is logged, or passed over, and the row stays in
  progress. At `monkey365_scan_service.py:324` the process is killed before the
  commit that marks the row, which `get_db` may be refused.
- `task_runner.py:95`: an exception marks a cancelled task `FAILED`. Nobody calls
  `cancel` or `get_status`.
- `main.py:61`: no start resumes or fails the scans, audits and pipelines a stop
  interrupted.

**Audit work and frameworks**

- `assessment_service.py:205`: at the end of a campaign the last assessment of an
  equipment decides, in no order that is asked for; one with nothing against it
  hides the non-conformities of another framework (`Verdicts`).
- `assessment_service.py:231` promises to delete a campaign with its results; the
  foreign keys of the findings refuse once there are any. `:271` and
  `finding_service.py:50` check and insert without a constraint behind
  (`OnceUnlessOverlap`).
- `framework_service.py:252`: a file that fails in a flush, as one of a version
  that is assessed and was edited, leaves the session unusable; the commit raises
  and the backend does not start (`main.py:61-79`, `Boot`), although errors are
  collected per file. At `:156-181`, a control that is wrong in the second
  category leaves the first one in the session, and it is committed ("partial").
- `framework_service.py:478`: a clone keeps the file of its original, so that
  updating or deleting the one rewrites or removes the file of the other. An
  update drops `effort_days`. A file put back as it was before an edit of the row
  is skipped, since its old hash is still there (requirements.md:59).
- `api/v1/frameworks.py:216`: "Importe (force)" skips the files whose hash is known.

**Files**

- `scripts/rotate_kek.py:156`: the files of tasks keep the old key after a rotation
  (`RotateKek` reads attachments only), although their wrapping follows the "meme
  pattern que Attachment" (`models/task_artifact.py:3`). `CarefulIsReadable` leaves
  them out.
- `runbook.md:130` runs the rotation inside the container, whose backend serves with
  the old secrets meanwhile: what it writes then is under them (`careful`).
- `database_schema.md:155-159` lists columns as encrypted that the models are not.
- `agent_service.py:417`, `assessment_service.py:236`: the cascade to the rows of a task's
  or of a result's files leaves the files on the disk, and no code looks for them
  (`DeleteTask`, `DeleteResult`; `orphans`). `file_service.py:211` unlinks before the
  commit that `get_db` may be refused: the row is there again, its download finds no
  file, and a second deletion takes it away (`DeleteFails`; `unlinked`).
- `api/v1/attachments.py:247` serves the ciphertext of a file uploaded through the
  other interface. `agents.py:426` returns a `download_url` that no route serves.

**Verdicts** (`Misjudged` and `ClearedUnread` list them for TLC)

- `evaluators/linux.py:151-154`: an `sshd` directive that is not set, and a lost
  session, contain "no" and pass; the branch for the default is never reached.
  An antivirus that is absent, a firewall that is installed without a rule or is
  switched off (`iptables -L` prints its chains), the end of life of RHEL ("rhel"
  is not in "Red Hat") and its security updates pass; a shadow file of mode 000 is
  a finding.
- `ssh_collector.py:365`: a command that fails leaves the text of its error as its
  output, and the collect is a success even when the session was lost at once. Of a
  Linux, the system, the antivirus and the security updates pass on it, and so does
  the firewall when the text is that of `nft` and ufw has nothing (`:462`: any text of
  `nft` counts as rules).
- `evaluators/windows.py`: the date and the audit policy of a French Windows, and an
  antivirus other than Defender, are findings; Defender with its antispyware only,
  and a WSUS key without a server, pass. What was not read of the system, of the
  administrator and of RDP passes, and so does a firewall whose error has fewer than
  four words (`winrm_collector.py:276-282`: all on until a longer line says otherwise).
- OPNsense: `pfctl` prints "current entries" whether pf is enabled or not, which is
  taken for enabled; "10 problem" contains "0 problem"; users without a shell are
  counted; an SFTP that fails leaves a success drawn from nothing; in a shell
  "NOT_RUNNING" and "NO_CARP" pass for a tunnel and for CARP, and the whole line
  "PermitRootLogin no" is compared with "no" (`ssh_collector.py:149`,
  `evaluators/opnsense.py:276-285`), so that a device in order has a finding. The menu echoes
  the commands, whose text becomes the value. `PrefillFromCollect` uses the Linux map
  for every SSH collect, so that the OPNS controls are never filled.
- A prefill writes over a verdict given by hand, and an older collect over a newer
  one; the age of the updates is judged by the clock of the prefill.
- A configuration that is not XML has no finding, and every FW control passes.

**Database**

- `init_db.py:4-10`, `runbook.md:72`: on an empty database the script fails at the
  first revision, which alters tables that no revision creates. It does not
  commit the frameworks it synchronises (`:98`).
- `docker_entrypoint.py:86`: tables without a version are stamped as the newest
  revision without being migrated (`past = "stamped"`).
- `runbook.md:90` and `:176`: the downgrade of `9a4e7cd1a2f3` drops a key by a name
  that `create_all` did not give it; those of the encrypted columns need a cast
  that PostgreSQL refuses; so is the default 0 of the Boolean column that the downgrade
  of `5f73dd19afec` (`:30`) adds; `drop_scan_tables` raises; that of
  `add_finding_tables` leaves its type, which the next upgrade finds.
- `add_finding_tables.py:29,57,62` creates `findingstatus` with the values of the
  enumeration ("open"), while `models/finding.py:73-74,135-136` stores its names
  ("OPEN"): in a database brought there by revisions no finding can be stored or
  copied. `HeadIsModel` states this exception, and no other.
- `backfill_owner_id` fails when rows without an owner meet a database without an
  administrator.
- `migrate_to_postgres.py:37`: six of the fifteen names of `MIGRATION_ORDER` are
  no tables; the rest is copied in the order of their names, which the foreign keys refuse
  to all but a superuser. A copy into a database that was served meets its users
  and frameworks. A copy that stopped cannot be done again.


## 7. The proofs

For every value of the constants that meets the named assumptions. TLC
evaluates them in the runs. They say that a bound is a number (`MaxEventsAssumption`,
`ChangesAssumption`, `WritesAssumption`, the `BoundsAssumption`s), that a name which
stands for nobody is nobody's (`NoWsAssumption`, `NoThreadAssumption`, the
`NamesAssumption`s, part of `ThreadsAssumption`), that what is counted is finite
(`HostsAssumption`, `ControlsAssumption`), and: `BufferMaxAssumption`, the buffer has
two places at least; `KindAssumption`, a scan is of one of three kinds and an interactive one is local;
`KindsAssumption`, a device of one of five; `OrderAssumption`, the order of the directory has every name in it.

All are of the form: an inductive invariant holds initially, each action
preserves it (one lemma or step per action), and it implies the property. For the
first five modules of the list the last theorem puts several of them together into the
property that the run checks.

**AgentLinkProofs**: `LinkTypes`, `OwnersFollowConnections`,
`ReconnectionsAreSerial`, `OnlyEstablishedSuperseded`; `OwnersHold`. The
properties speak of sockets that are being connected and are not inductive: that
there is only one is `LockHeld`, and that the socket it replaces is past its own
connection follows from `RegisteredIsPast`.

**UserChannelProofs**: `ChannelTypes`, `BufferIsBounded`, `NoEventIsRepeated`,
for any buffer size from 2 on; `BufferHolds`. The bound needs `ReplayBound`, since
a failed replay puts back a list taken earlier; that a new event is nowhere yet
is `OnlySent`. `SuffixLemma` and `AppendLemma` say what trimming and appending do
to the elements of a sequence and to its duplicates.

**AgentTasksProofs**: `TaskTypes`, `StampsAreRight`, `OfflineAgentsAreQuiet`,
`RevocationIsFinal`, `RunningTasksAreKept`, `FinishedTasksAreKept`,
`RevocationCancels`, for any number of tasks and threads; `RowsHold` and
`StatusesHold`. `TransactionsAgree` says of every open transaction what its
operation can have decided (`Shape`), that it stamps what it starts or ends
(`Stamps`), and that, while fresh, its decision fits the rows (`Decides`).
`LinkAgrees` ties an open report to the handlers: decided for an offline agent, it is
a serving handler's.

**AgentEnrolmentProofs**: `TypeIsCorrect`, `CodesAreUsedOnce`,
`CrlIsCompleteWithoutOverlap`, `RevocationsAreFinal`; `RevocationsAlwaysHold`.
`LockIsHeld` gives each lock to the one transaction that works on the row;
`EnrollingIsPending` follows for an enrolment under way, and with it everything
that its commit must not do. `CrlHolds` includes the revocation that has written
the file and not committed.

**CollectProofs**, `CollectPipeline`: `TypeIsCorrect`, `CountersAlwaysAddUp`,
`CompletionIsEarned`, `DoneWasAlwaysSuccess`, `PipelineIsAJob`, for any finite
set of hosts and any addresses; `OutcomesHold`. `CountersFollow` gives, at each
stage of the thread, the sum of what was counted and what is left;
`OutcomeFollows` what the steps say when the thread comes to its end.
`DoneWasAlwaysSuccess` needs the set of hosts that were counted, which no
variable holds: `Successes` asserts that one exists, disjoint from the hosts
still to come. `PipelineIsAJob` is the refinement: `InitJob`, and each action of
the thread maps to a step of `BackgroundJob` or to a stutter (`StepJob`),
everybody else's to a stutter.

**CollectProofs**, `Verdicts`: `VerdictTypesHold`, `FindingsAreAlwaysTrue`,
`UnreadIsAlwaysFlagged`, `VerdictsAlwaysHaveASource`, for any set of collects and a
device with any number of poor settings (`MaxPoor` bounds what TLC visits only).
There are two parts. What a collect finds is true by the tables alone, check by
check: from the setting to what its commands print, with an error in place of any of
them, to what the parser keeps and the check accepts (`LinuxHonest`,
`WindowsHonest`, `OpnsenseHonest`; `FoundExactly` goes from a check to its control,
since no two have the same one). What the backend keeps is then true by `VerdictInv`: a
collect that succeeded has what its profile may bring of the device (`Brought`), the
profile is one that the device can have been given (`Profiled`), and a verdict says
what its source says (`VerdictHolds`), the collect that gave it having succeeded, or
been deleted since. A prefill judges the checks anew, with another map than the
findings were made with: `PrefillFromCollectKeeps` shows that they agree, since the
controls of Linux, which every SSH collect is matched with, are in the framework of no
other kind (`LinuxControls`), and the clock changes one check (`AcceptsLater`).

**StorageProofs**, `FileStore`: `StoreTypes`, `RowsAlwaysHaveFiles`, `CarefulIsAlwaysReadable`,
for any files, columns, secrets, requests and any number of rotations. `RowsHaveFiles`
excuses the files a request is on, so that it needs what each request knows of its file
while it is open: one to be deleted is off the disk, one to be saved is on it and alone. `CarefulIsReadable` needs `Undisturbed`: while the operator is
careful, the backend is up between rotations only and has the secrets last committed
(`held`), a row about to be inserted is under them, and a rotation that has come to the
columns has read all there is to read; that a rotation with a wrong key fails is the
case where nothing it reads opens.

**AuditWorkProofs**: `WorkTypes`, `OnceForAnyRequests`, `TrailsAreValid`,
`CompletedStays`, for any campaigns, equipments, controls and any number of requests
in flight. `WorkInv` adds to the properties what each open request holds:
`RequestType`, and, as long as nothing was committed since it looked, that what it
saw is still so (`NothingSeen` for an assessment or a finding it found missing,
`StatusSeen` for the status it starts from). The properties compare the counter
`seen` of a row with the place of the rows before it, and these facts are what makes
them inductive.

**ScansAndLibraryProofs**, `ScanJobs`: `ScanTypes`, `SuccessesAreEarned`,
`CancellationsAreKept`, `ScansKeepRows`, for any number of scans of each kind. A
success is earned because a job ends well only after its process did
(`ScanInv`), and a cancellation that comes before the last look is seen by it.
`ScansKeepRows` is the refinement of `ScanRows`: each request, job and stop maps
to a step of it or to a stutter (`RequestRows`, `JobRows`, `EnvironmentRows`).
It needs `RequestHolds` beside the invariant: a local scan whose launch is in
flight has no job yet, the row of an audit whose launch is in flight is absent and
its job has not found it, and nothing cancels an audit. `MappedRows` turns what a step does to one scan
into what it does to the three mapped functions.

`Frameworks`: `LibraryTypesHold`, `AssessmentsKeepControls`,
`StartsCanBeRepeated`, for any versions, contents and any order of any number of
files. A start reads the files one after the other: what holds of its rows is
shown along `ReadUpTo` by `IntervalInduction`, induction on 0 .. n for a set
that may depend on the state, which comes from the well-founded order of
subsets; `ReadExists` says that the recursive function is one.
`StartsCanBeRepeated` needs that each file, read on its own, changes nothing
(`AllDone`), while nothing was written since a start, and that with one file for
each version none undoes another.

**StorageProofs**, `Database`: `DatabaseTypeCorrect`, `EmptyDatabaseIsServed`,
`CopiesAreWhole`, `EveryRevisionHolds`; `DatabaseInvariant`. For any rows in the tables
that were found at the first start (`OriginsAssumption`), any number of kills and of
downgrades. The argument has four stages.

1. *Operations.* `PerformSteps` says what the recursion of `Perform` computes,
   operation by operation, by `IntervalInduction`; what an operation can do to the
   rows (`EffectSane`) and to a table (`Adding` to `Texting`) is stated once.
2. *Revisions.* `Stage(i, m)` is the tables after `i` revisions of `BaselineTables`,
   each table in the version that `Version` gives it; `m` is empty, or the table of the
   Monkey365 scans when its revision was undone, which drops it although it had
   found it (`Losses`). The lemmas `Up1` to `Up34` follow each revision from a
   stage to the next, and `Down1` to `Down34` back, except for five that cannot be
   undone (9, 11, 16, 19 and 32: a default and casts that PostgreSQL refuses, and one
   that raises); `UpStage` and `DownStage` put them together. `Stage(34, {})` is
   `ModelTables`. Three revisions create types; `Typed` says which types are there, with
   which labels, after how many of them, and all the others keep them (`KeepsTypes`).
3. *Commands.* `UpToHead` goes from stage to stage or fails and leaves everything as it
   was; it never fails on what `create_all` made.
4. *Steps.* The invariant `DatabaseInv`. `EmptyIsServed` is not inductive by itself: that
   nothing can be refused needs to be known of the tables. `Shape` says what they are
   by where the database comes from: found and at the stage recorded (`"old"`), found
   and marked unmigrated (`"stamped"`), or made by `create_all`. The last kind can be
   taken down by one revision only, for the next one would drop a key by a name that
   `create_all` did not give. `Copied` says why a copy that stopped midway cannot be
   mistaken for one that ended: the users are the first table it fills, and the next copy
   begins with a table that must be empty. In a database that was marked unmigrated a
   copy never ends, since `agents` is to be filled and is not there (`Owed`).

What `RevisionsHold` leaves out is what the code does not promise: four revisions look
for what they create and are undone as if they had created it (`Looks`), the type of
the findings stays when their tables are dropped, and its labels are not those of the
model.

**Only model-checked**: the liveness properties (`ConnectionsSettle`,
`EventsSettle`, `SilentTasksEnd`, `JobEnds`, `JobEndsRow`), which the prover does
not handle under fairness, and the counterexample of `verdicts_cleared`. Every other
property of a passing run, step properties included, is a theorem.


## 8. What is modelled, and the plan

Modelled whole: the agent link, the user channel, the agent tasks with both
sweepers, the collect pipeline, the Monkey365 scans in the background, the
frameworks, the findings and the campaigns with their assessments, the rotation
of the keys with the files, the schema with its migrations. In part: enrolment
(not the signature, the tokens nor the rate limit), the collects an auditor
starts (not against the sweeper), AD audits (not the dialogue with LDAP nor the
pre-filling), the task runner (its threads, not its table of statuses, which
nobody reads), checklists (not the templates), configuration analysis,
collectors and parsers (Linux, Windows, OPNsense and FortiGate; not Stormshield,
not the AD auditor nor the text of Monkey365), equipment (what races with a
pipeline, and the audit status).
`PROJECT.json` lists every component with its reason.

Left, in the order of what they put at risk:

1. `RateLimit` and `ScanProgress`: tables over bounded time, against a reference
   definition. The frontend's token refresh.
2. ORADAD, the network map, the parser of Stormshield.

Not to be modelled: CRUD over single rows, the dialogue with LDAP and PowerShell,
rendering, observation. Their properties are about text, or about one row in one
transaction.
