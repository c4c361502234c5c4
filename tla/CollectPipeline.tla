-------------------------- MODULE CollectPipeline --------------------------
(***************************************************************************)
(* One run of a collect pipeline: the thread of execute_pipeline_background *)
(* scans a network through an agent, creates the equipment of the hosts it *)
(* found and has the agent collect each of them, polling the rows of the   *)
(* agent's tasks.  Meanwhile the agent reports, its tasks are failed when  *)
(* it is lost, users add and delete equipment, collects and tasks, and the *)
(* collect sweeper fails the collects that stay running.                   *)
(*                                                                         *)
(* The thread commits as it goes: an action runs from one commit, or one   *)
(* poll, to the next.  It reads a collect and writes it in two steps, as   *)
(* the sweeper does, since nothing is locked in between.  How the agent's  *)
(* tasks come to their status is in AgentTasks; here any report may come.  *)
(***************************************************************************)
EXTENDS Naturals, FiniteSets, Functions

CONSTANTS
    Hosts,          \* hosts the scan may find
    Addresses,      \* their addresses
    Ip,             \* the address of a host; two hosts may report the same
    Collectable,    \* hosts with an address and a collect profile
    Scan,           \* the scan's task; a collect's task is named by its host
    NoHost,         \* no collect is under way
    DatabaseErrors  \* whether the database may refuse a transaction

ASSUME HostsAssumption ==
    /\ IsFiniteSet(Hosts)
    /\ Scan \notin Hosts
    /\ NoHost \notin Hosts
    /\ Ip \in [Hosts -> Addresses]
    /\ Collectable \subseteq Hosts
    /\ DatabaseErrors \in BOOLEAN

VARIABLES
    pipeline,   \* the row collect_pipelines
    pc,         \* where the thread stands
    targets,    \* hosts in the scan task's result, then those still to treat
    current,    \* the host whose collect is under way
    verdict,    \* what it read of that collect and has still to commit
    task,       \* agent_tasks.status of the scan and of each collect
    collect,    \* collect_results.status
    sweeping,   \* collects the sweeper's open transaction read as running
    equipment,  \* addresses that have an equipment on the site
    succeeded   \* history: hosts whose collect was a success at some time

thread == <<pc, targets, current, verdict>>
rows == <<task, collect, equipment, succeeded>>
vars == <<pipeline, thread, rows, sweeping>>

Jobs == Hosts \cup {Scan}
Final == {"completed", "failed"}        \* "failed" stands for "cancelled" too
NoRow == {"none", "deleted"}
TaskStatus == {"active"} \cup Final \cup NoRow    \* pending and running are "active"
CollectStatus == {"running", "success", "failed"} \cup NoRow
StepStatus == {"pending", "running", "completed", "failed", "skipped"}

Working == {"start", "scan", "scan_poll", "equipments", "equipping", "collects",
            "next", "dispatch", "collect_poll", "judged", "finish", "aborting"}

Pipelines ==
    [status : {"pending", "running", "completed", "failed"},
     scan : StepStatus, equipments : StepStatus, collects : StepStatus,
     discovered : Nat, created : Nat, skipped : Nat,
     total : Nat, done : Nat, failed : Nat]

TypeOK ==
    /\ pipeline \in Pipelines
    /\ pc \in Working \cup {"idle", "ended", "lost"}
    /\ targets \in SUBSET Hosts
    /\ current \in Hosts \cup {NoHost}
    /\ verdict \in {"none", "done", "failed", "timeout"}
    /\ task \in [Jobs -> TaskStatus]
    /\ collect \in [Hosts -> CollectStatus]
    /\ sweeping \in SUBSET Hosts
    /\ equipment \in SUBSET Addresses
    /\ succeeded \in SUBSET Hosts

Init ==
    /\ pipeline = [status |-> "pending",
                   scan |-> "pending", equipments |-> "pending", collects |-> "pending",
                   discovered |-> 0, created |-> 0, skipped |-> 0,
                   total |-> 0, done |-> 0, failed |-> 0]
    /\ pc = "idle"
    /\ targets = {}
    /\ current = NoHost
    /\ verdict = "none"
    /\ task = [j \in Jobs |-> "none"]
    /\ collect = [h \in Hosts |-> "none"]
    /\ sweeping = {}
    /\ equipment \in SUBSET Addresses
    /\ succeeded = {}

GoTo(from, to) == pc = from /\ pc' = to

\* The thread leaves a phase for good, and forgets its local variables.
Leaves(from, to) ==
    /\ GoTo(from, to)
    /\ targets' = {}
    /\ current' = NoHost
    /\ verdict' = "none"

-----------------------------------------------------------------------------
(* Phase 1: the scan.                                                      *)

\* create_pending_pipeline committed the row; the thread is submitted.
Launch ==
    /\ GoTo("idle", "start")
    /\ UNCHANGED <<pipeline, targets, current, verdict, rows, sweeping>>

Begin ==
    /\ GoTo("start", "scan")
    /\ pipeline' = [pipeline EXCEPT !.status = "running"]
    /\ UNCHANGED <<targets, current, verdict, rows, sweeping>>

DispatchScan ==
    /\ GoTo("scan", "scan_poll")
    /\ task' = [task EXCEPT ![Scan] = "active"]
    /\ pipeline' = [pipeline EXCEPT !.scan = "running"]
    /\ UNCHANGED <<targets, current, verdict, collect, equipment, succeeded, sweeping>>

ScanFails(from) ==
    /\ Leaves(from, "finish")
    /\ pipeline' = [pipeline EXCEPT !.scan = "failed"]
    /\ UNCHANGED <<rows, sweeping>>

\* dispatch_task refuses: the agent is not active any more.
ScanRefused == ScanFails("scan")

\* A poll finds the task in error, or the deadline is reached.
ScanInError == task[Scan] = "failed" /\ ScanFails("scan_poll")

ScanTimeout == ScanFails("scan_poll")

ScanDone ==
    /\ task[Scan] = "completed"
    /\ GoTo("scan_poll", "equipments")
    /\ pipeline' = [pipeline EXCEPT !.scan = "completed",
                                    !.discovered = Cardinality(targets)]
    /\ UNCHANGED <<targets, current, verdict, rows, sweeping>>

-----------------------------------------------------------------------------
(* Phase 2: the equipment.                                                 *)

EquipmentsStart ==
    /\ GoTo("equipments", "equipping")
    /\ pipeline' = [pipeline EXCEPT !.equipments = "running"]
    /\ UNCHANGED <<targets, current, verdict, rows, sweeping>>

Missing(hs) == {Ip[h] : h \in hs} \ equipment

\* One transaction for all hosts: an address that has no equipment gets one,
\* and the next host with that address finds it.
EquipmentsDone ==
    LET chosen == targets \cap Collectable
    IN /\ GoTo("equipping", "collects")
       /\ targets' = chosen
       /\ equipment' = equipment \cup Missing(chosen)
       /\ pipeline' = [pipeline EXCEPT
                !.equipments = "completed",
                !.skipped = Cardinality(targets \ Collectable),
                !.created = Cardinality(Missing(chosen)),
                !.total = Cardinality(chosen)]
       /\ UNCHANGED <<current, verdict, task, collect, succeeded, sweeping>>

\* A user creates one of them after the query: uq_site_ip refuses the insert.
EquipmentsCollide ==
    /\ Leaves("equipping", "aborting")
    /\ \E a \in Missing(targets \cap Collectable) : equipment' = equipment \cup {a}
    /\ UNCHANGED <<pipeline, task, collect, succeeded, sweeping>>

-----------------------------------------------------------------------------
(* Phase 3: one collect after the other.                                   *)

CollectsStart ==
    /\ IF targets = {}
       THEN /\ GoTo("collects", "finish")
            /\ pipeline' = [pipeline EXCEPT !.collects = "skipped"]
       ELSE /\ GoTo("collects", "next")
            /\ pipeline' = [pipeline EXCEPT !.collects = "running"]
    /\ UNCHANGED <<targets, current, verdict, rows, sweeping>>

\* create_pending_collect, committed before the dispatch.
CreateCollect(h) ==
    /\ h \in targets
    /\ Ip[h] \in equipment
    /\ GoTo("next", "dispatch")
    /\ current' = h
    /\ targets' = targets \ {h}
    /\ collect' = [collect EXCEPT ![h] = "running"]
    /\ UNCHANGED <<pipeline, verdict, task, equipment, succeeded, sweeping>>

\* Its equipment was deleted: the foreign key refuses the first collect of the
\* loop, and the expired object cannot be read in a later one; the handler of
\* the loop reads it again, and raises too.
EquipmentGone(h) ==
    /\ h \in targets
    /\ Ip[h] \notin equipment
    /\ Leaves("next", "aborting")
    /\ UNCHANGED <<pipeline, rows, sweeping>>

DispatchCollect ==
    /\ GoTo("dispatch", "collect_poll")
    /\ collect[current] # "deleted"
    /\ task' = [task EXCEPT ![current] = "active"]
    /\ UNCHANGED <<pipeline, targets, current, verdict, collect, equipment,
                   succeeded, sweeping>>

\* The collect was deleted before agent_task_id could be written to it.
CollectGone ==
    /\ Leaves("dispatch", "aborting")
    /\ collect[current] = "deleted"
    /\ UNCHANGED <<pipeline, rows, sweeping>>

\* dispatch_task refuses.  The collect stays running, for the sweeper.
DispatchRefused ==
    /\ GoTo("dispatch", "next")
    /\ current' = NoHost
    /\ pipeline' = [pipeline EXCEPT !.failed = @ + 1]
    /\ UNCHANGED <<targets, verdict, rows, sweeping>>

\* Mutant: the task's status counts, not the collect's.
CollectPolledByTask ==
    /\ GoTo("collect_poll", "judged")
    /\ task[current] \in Final \cup {"deleted"}
    /\ verdict' = IF task[current] = "completed" THEN "done" ELSE "failed"
    /\ UNCHANGED <<pipeline, targets, current, rows, sweeping>>

\* A poll finds the task ended or deleted, and reads the collect.
CollectPolled ==
    /\ GoTo("collect_poll", "judged")
    /\ task[current] \in Final \cup {"deleted"}
    /\ verdict' = IF collect[current] = "success" THEN "done" ELSE "failed"
    /\ UNCHANGED <<pipeline, targets, current, rows, sweeping>>

\* The deadline is reached first.
CollectTimeout ==
    /\ GoTo("collect_poll", "judged")
    /\ verdict' = CASE collect[current] = "success" -> "done"
                    [] collect[current] = "running" -> "timeout"
                    [] OTHER -> "failed"
    /\ UNCHANGED <<pipeline, targets, current, rows, sweeping>>

\* The counters are committed, and on a timeout the collect's failure.
Count ==
    /\ GoTo("judged", "next")
    /\ verdict = "timeout" => collect[current] # "deleted"
    /\ pipeline' = IF verdict = "done"
                   THEN [pipeline EXCEPT !.done = @ + 1]
                   ELSE [pipeline EXCEPT !.failed = @ + 1]
    /\ collect' = IF verdict = "timeout"
                  THEN [collect EXCEPT ![current] = "failed"] ELSE collect
    /\ current' = NoHost
    /\ verdict' = "none"
    /\ UNCHANGED <<targets, task, equipment, succeeded, sweeping>>

\* The collect to fail was deleted after it was read.
CountRefused ==
    /\ Leaves("judged", "aborting")
    /\ verdict = "timeout"
    /\ collect[current] = "deleted"
    /\ UNCHANGED <<pipeline, rows, sweeping>>

CollectsDone ==
    /\ targets = {}
    /\ GoTo("next", "finish")
    /\ pipeline' = [pipeline EXCEPT !.collects =
            IF pipeline.failed = pipeline.total THEN "failed" ELSE "completed"]
    /\ UNCHANGED <<targets, current, verdict, rows, sweeping>>

-----------------------------------------------------------------------------
(* The end of the thread.                                                  *)

Finish ==
    /\ GoTo("finish", "ended")
    /\ pipeline' = [pipeline EXCEPT !.status =
            IF "failed" \in {pipeline.scan, pipeline.collects}
            THEN "failed" ELSE "completed"]
    /\ UNCHANGED <<targets, current, verdict, rows, sweeping>>

\* The database refuses what the thread was doing.
DatabaseError ==
    /\ DatabaseErrors
    /\ pc \in Working \ {"aborting"}
    /\ Leaves(pc, "aborting")
    /\ UNCHANGED <<pipeline, rows, sweeping>>

\* Mutant: the except clause takes the run up again.
AbortRestarts ==
    /\ GoTo("aborting", "ended")
    /\ pipeline' = [pipeline EXCEPT !.status = "pending"]
    /\ UNCHANGED <<targets, current, verdict, rows, sweeping>>

\* The outer except clause, with a session of its own.
Abort ==
    /\ GoTo("aborting", "ended")
    /\ pipeline' = [pipeline EXCEPT !.status = "failed"]
    /\ UNCHANGED <<targets, current, verdict, rows, sweeping>>

\* It is refused as well, and only logged.
AbortRefused ==
    /\ DatabaseErrors
    /\ GoTo("aborting", "lost")
    /\ UNCHANGED <<pipeline, targets, current, verdict, rows, sweeping>>

\* The backend stops.  Its threads are daemons and nothing resumes a pipeline.
Restart ==
    /\ pc \in Working
    /\ Leaves(pc, "lost")
    /\ sweeping' = {}
    /\ UNCHANGED <<pipeline, rows>>

-----------------------------------------------------------------------------
(* The agent.                                                              *)

\* hydrate_collect_from_agent_result, of a collect that still exists.
Hydrate(h, result) ==
    /\ collect' = IF collect[h] \in NoRow THEN collect ELSE [collect EXCEPT ![h] = result]
    /\ succeeded' = IF collect'[h] = "success" THEN succeeded \cup {h} ELSE succeeded

\* Bound: the scan's task is not read again once the thread has left its poll,
\* and what is reported of it after that is left out.
Awaited == pc = "scan_poll"

\* task_status on the socket: any status, from any status; a failure reaches
\* the collect, a completion does not.
ReportStatus(j, new) ==
    /\ task[j] \notin NoRow
    /\ j = Scan => Awaited
    /\ task' = [task EXCEPT ![j] = new]
    /\ IF new = "failed" /\ j # Scan
       THEN Hydrate(j, "failed")
       ELSE UNCHANGED <<collect, succeeded>>
    /\ UNCHANGED <<pipeline, thread, equipment, sweeping>>

\* task_result on the socket.  A collect may be a failure without an error.
ReportResult(h, new) ==
    /\ task[h] \notin NoRow
    /\ task' = [task EXCEPT ![h] = new]
    /\ \E result \in {"success", "failed"} :
        /\ new = "failed" => result = "failed"
        /\ Hydrate(h, result)
    /\ UNCHANGED <<pipeline, thread, equipment, sweeping>>

\* task_result of the scan.
ReportHosts(hs) ==
    /\ Awaited
    /\ task' = [task EXCEPT ![Scan] = "completed"]
    /\ targets' = hs
    /\ UNCHANGED <<pipeline, pc, current, verdict, collect, equipment, succeeded, sweeping>>

\* The agent is lost or revoked, or it reports over HTTP: the task changes
\* and its collect does not.
TaskEnds(h, new) ==
    /\ task[h] \notin NoRow
    /\ task' = [task EXCEPT ![h] = new]
    /\ UNCHANGED <<pipeline, thread, collect, equipment, succeeded, sweeping>>

-----------------------------------------------------------------------------
(* Users, and the collect sweeper.                                         *)

\* A collect's task; the scan's is referenced by the pipeline.  delete_task
\* refuses one it reads as running, which does not protect it (AgentTasks).
DeleteTask(h) ==
    /\ task[h] \notin NoRow
    /\ task' = [task EXCEPT ![h] = "deleted"]
    /\ UNCHANGED <<pipeline, thread, collect, equipment, succeeded, sweeping>>

DeleteCollect(h) ==
    /\ collect[h] \notin NoRow
    /\ collect' = [collect EXCEPT ![h] = "deleted"]
    /\ UNCHANGED <<pipeline, thread, task, equipment, succeeded, sweeping>>

\* Bound: nobody reads the site's equipment when the thread is over.
\* An equipment goes with its collects.
DeleteEquipment(a) ==
    /\ pc \in Working
    /\ a \in equipment
    /\ equipment' = equipment \ {a}
    /\ collect' = [h \in Hosts |-> IF Ip[h] = a /\ collect[h] # "none"
                                   THEN "deleted" ELSE collect[h]]
    /\ UNCHANGED <<pipeline, thread, task, succeeded, sweeping>>

\* Bound: once the thread has its equipment, another row with the same address
\* is nothing to it.
CreateEquipment(a) ==
    /\ pc \in {"start", "scan", "scan_poll", "equipments", "equipping"}
    /\ a \notin equipment
    /\ equipment' = equipment \cup {a}
    /\ UNCHANGED <<pipeline, thread, task, collect, succeeded, sweeping>>

\* Mutant: the query joins agent_tasks to find the owner.
SweepReadsDispatched ==
    /\ sweeping = {}
    /\ sweeping' = {h \in Hosts : collect[h] = "running" /\ task[h] \notin NoRow}
    /\ sweeping' # {}
    /\ UNCHANGED <<pipeline, thread, rows>>

\* _sync_collect_sweep reads the collects older than COLLECT_TIMEOUT_SECONDS.
SweepReads ==
    /\ sweeping = {}
    /\ sweeping' = {h \in Hosts : collect[h] = "running"}
    /\ sweeping' # {}
    /\ UNCHANGED <<pipeline, thread, rows>>

\* Mutant: a status CollectStatus does not have.
SweepCommitsTimeout ==
    /\ sweeping # {}
    /\ \A h \in sweeping : collect[h] # "deleted"
    /\ collect' = [h \in Hosts |-> IF h \in sweeping THEN "timeout" ELSE collect[h]]
    /\ sweeping' = {}
    /\ UNCHANGED <<pipeline, thread, task, equipment, succeeded>>

SweepCommits ==
    /\ sweeping # {}
    /\ \A h \in sweeping : collect[h] # "deleted"
    /\ collect' = [h \in Hosts |-> IF h \in sweeping THEN "failed" ELSE collect[h]]
    /\ sweeping' = {}
    /\ UNCHANGED <<pipeline, thread, task, equipment, succeeded>>

\* One of them was deleted: the whole pass is rolled back.
SweepRefused ==
    /\ \E h \in sweeping : collect[h] = "deleted"
    /\ sweeping' = {}
    /\ UNCHANGED <<pipeline, thread, rows>>

-----------------------------------------------------------------------------
ScanPhase ==
    \/ Begin \/ DispatchScan \/ ScanRefused
    \/ ScanInError \/ ScanTimeout \/ ScanDone

CollectPhase ==
    \/ \E h \in Hosts : CreateCollect(h) \/ EquipmentGone(h)
    \/ DispatchCollect \/ CollectGone \/ DispatchRefused
    \/ CollectPolled \/ CollectTimeout \/ Count \/ CountRefused

Step ==
    \/ ScanPhase
    \/ EquipmentsStart \/ EquipmentsDone \/ EquipmentsCollide
    \/ CollectsStart \/ CollectPhase \/ CollectsDone
    \/ Finish \/ Abort

Agent ==
    \/ \E j \in Jobs, new \in {"active"} \cup Final : ReportStatus(j, new)
    \/ \E h \in Hosts, new \in Final : ReportResult(h, new) \/ TaskEnds(h, new)
    \/ \E hs \in SUBSET Hosts : ReportHosts(hs)

User ==
    \/ \E h \in Hosts : DeleteTask(h) \/ DeleteCollect(h)
    \/ \E a \in Addresses : DeleteEquipment(a) \/ CreateEquipment(a)

Sweep == SweepReads \/ SweepCommits \/ SweepRefused

Next == Launch \/ Step \/ DatabaseError \/ AbortRefused \/ Restart \/ Agent \/ User \/ Sweep

\* The thread goes on, its polls have deadlines; the sweeper starts again with
\* the backend and passes for ever.  Agents and users owe nothing.
Fairness == WF_vars(Step) /\ WF_vars(Sweep)

Spec == Init /\ [][Next]_vars /\ Fairness

-----------------------------------------------------------------------------
(* What the pipeline guarantees.                                           *)

\* The counters of the row account for every host: those discovered are
\* skipped or planned, those planned are treated once at most, and all of
\* them are when the pipeline is completed.
CountersAddUp ==
    /\ pipeline.done + pipeline.failed <= pipeline.total
    /\ pipeline.equipments = "completed" =>
        pipeline.discovered = pipeline.skipped + pipeline.total
    /\ pipeline.status = "completed" =>
        pipeline.done + pipeline.failed = pipeline.total

\* A host is counted as done only if its collect was once a success, whatever
\* the collect became since.
DoneWasSuccess == pipeline.done <= Cardinality(succeeded)

\* A completed pipeline went through its phases, and collected something if
\* there was something to collect.
CompletedIsEarned ==
    pipeline.status = "completed" =>
        /\ pipeline.scan = "completed"
        /\ pipeline.equipments = "completed"
        /\ pipeline.collects = IF pipeline.total = 0 THEN "skipped" ELSE "completed"
        /\ pipeline.total > 0 => pipeline.done > 0

\* The row keeps what BackgroundJob promises to those who poll it.
Job == INSTANCE BackgroundJob WITH
    status <- pipeline.status, total <- pipeline.total,
    done <- pipeline.done, failed <- pipeline.failed
JobIsKept == Job!Spec

\* A pipeline ends, unless the backend stops or refuses even the abort.
PipelineEnds ==
    pc = "start" ~> (pipeline.status \in {"completed", "failed"} \/ pc = "lost")

\* collect_sweeper.py:5-6, no collect stays running, neither one that was never
\* dispatched nor one whose agent, task or pipeline is gone: there comes a time
\* when none is.
CollectsEnd ==
    (\E h \in Hosts : collect[h] = "running")
        ~> (\A h \in Hosts : collect[h] # "running")

\* What the row says of the collects, as one invariant.
OutcomesAreTrue == CountersAddUp /\ DoneWasSuccess /\ CompletedIsEarned

\* The pipeline and its collects come to an end.
JobEnds == PipelineEnds /\ CollectsEnd
=============================================================================
