--------------------------- MODULE CollectProofs ---------------------------
(***************************************************************************)
(* Proofs about CollectPipeline, for any finite set of hosts and any       *)
(* assignment of addresses, and about Verdicts, for any set of collects    *)
(* and a device with any number of poor settings.                          *)
(*                                                                         *)
(* What the counters of a pipeline say at the end does not follow from     *)
(* what they say halfway: the inductive invariant counts, at every stage,  *)
(* the hosts that are left to treat.  That done counts successes needs the *)
(* set of those that were counted, which no variable holds; the invariant  *)
(* asserts that there is one, apart from the hosts that are still to come. *)
(*                                                                         *)
(* That the findings of a collect are true is proved check by check, from  *)
(* what a command prints to the values that the check accepts; that the    *)
(* verdicts are, from an invariant that keeps with each collect what its   *)
(* profile may bring of the device, and with each verdict its source.      *)
(***************************************************************************)
EXTENDS CollectPipeline, Verdicts, FiniteSetTheorems, TLAPS

Early == {"idle", "start", "scan", "scan_poll", "equipments", "equipping"}
Treating == {"dispatch", "collect_poll", "judged"}
Planned == {"collects", "next"} \cup Treating

\* The row is pending until the thread began, and running until it ended.
StatusFollows ==
    /\ pc \in {"idle", "start"} => pipeline.status = "pending"
    /\ pc \in {"scan", "scan_poll", "equipments", "equipping", "finish"} \cup Planned
        => pipeline.status = "running"
    /\ pc \in {"aborting", "lost"} => pipeline.status \in {"pending", "running"}

\* Before the plan nothing is counted; after it, what is treated and what is
\* left make the plan.
CountersFollow ==
    /\ pc \in Early =>
        /\ pipeline.total = 0 /\ pipeline.done = 0 /\ pipeline.failed = 0
        /\ pipeline.equipments # "completed"
    /\ pc \in {"equipments", "equipping"} =>
        /\ pipeline.scan = "completed"
        /\ pipeline.discovered = Cardinality(targets)
    /\ pc \in Planned =>
        /\ pipeline.scan = "completed"
        /\ pipeline.equipments = "completed"
    /\ pc = "collects" =>
        /\ pipeline.done = 0 /\ pipeline.failed = 0
        /\ Cardinality(targets) = pipeline.total
    /\ pc \in {"next"} \cup Treating => pipeline.total > 0
    /\ pc = "next" =>
        pipeline.done + pipeline.failed + Cardinality(targets) = pipeline.total
    /\ pc \in Treating =>
        pipeline.done + pipeline.failed + Cardinality(targets) + 1 = pipeline.total

\* When the thread comes to its end the row tells how its phases went.
OutcomeFollows ==
    pc = "finish" =>
        /\ pipeline.done + pipeline.failed = pipeline.total
        /\ \/ pipeline.scan = "failed"
           \/ /\ pipeline.scan = "completed"
              /\ pipeline.equipments = "completed"
              /\ \/ pipeline.collects = "failed"
                 \/ pipeline.collects = "skipped" /\ pipeline.total = 0
                 \/ /\ pipeline.collects = "completed"
                    /\ pipeline.total > 0 /\ pipeline.done > 0

Stages ==
    /\ StatusFollows
    /\ CountersFollow
    /\ OutcomeFollows
    /\ CountersAddUp
    /\ CompletedIsEarned

-----------------------------------------------------------------------------
\* Every set of hosts is finite.
LEMMA HostsAreFinite ==
    ASSUME NEW hs \in SUBSET Hosts
    PROVE  IsFiniteSet(hs) /\ Cardinality(hs) \in Nat
<1>1. IsFiniteSet(hs)
  BY FS_Subset, HostsAssumption
<1> QED
  BY <1>1, FS_CardinalityType

\* And so is the set of addresses that have no equipment.
LEMMA MissingIsFinite ==
    ASSUME NEW hs \in SUBSET Hosts
    PROVE  IsFiniteSet(Missing(hs)) /\ Cardinality(Missing(hs)) \in Nat
<1> DEFINE addresses == {Ip[h] : h \in hs}
<1> DEFINE f == [h \in hs |-> Ip[h]]
<1>1. f \in Surjection(hs, addresses)
  BY DEF Surjection
<1>2. IsFiniteSet(addresses)
  <2> HIDE DEF f, addresses
  <2> QED
    BY <1>1, HostsAreFinite, FS_Surjection
<1>3. Missing(hs) \in SUBSET addresses
  BY DEF Missing
<1>4. IsFiniteSet(Missing(hs))
  <2> HIDE DEF addresses
  <2> QED
    BY <1>2, <1>3, FS_Subset
<1> QED
  BY <1>4, FS_CardinalityType

\* What the skipped and the chosen hosts add up to.
LEMMA SkippedAndChosen ==
    ASSUME NEW hs \in SUBSET Hosts
    PROVE  Cardinality(hs) = Cardinality(hs \ Collectable) + Cardinality(hs \cap Collectable)
<1>1. IsFiniteSet(hs) /\ Cardinality(hs) \in Nat
  BY HostsAreFinite
<1>2. Cardinality(hs \cap Collectable) \in Nat
  BY HostsAreFinite
<1>3. Cardinality(hs \ Collectable) = Cardinality(hs) - Cardinality(hs \cap Collectable)
  BY <1>1, FS_Difference
<1> QED
  BY <1>1, <1>2, <1>3

-----------------------------------------------------------------------------
\* The steps of the others leave the row and the thread alone; only the scan's
\* result reaches the thread.
LEMMA OthersAreQuiet ==
    ASSUME User \/ Sweep
           \/ (\E j \in Jobs, new \in {"active"} \cup Final : ReportStatus(j, new))
           \/ (\E h \in Hosts, new \in Final : ReportResult(h, new) \/ TaskEnds(h, new))
           \/ UNCHANGED vars
    PROVE  UNCHANGED <<pipeline, pc, targets, current, verdict>>
<1>1. CASE User
  BY <1>1 DEF User, DeleteTask, DeleteCollect, DeleteEquipment, CreateEquipment, thread
<1>2. CASE Sweep
  BY <1>2 DEF Sweep, SweepReads, SweepCommits, SweepRefused, thread
<1>3. CASE \E j \in Jobs, new \in {"active"} \cup Final : ReportStatus(j, new)
  BY <1>3 DEF ReportStatus, thread
<1>4. CASE \E h \in Hosts, new \in Final : ReportResult(h, new) \/ TaskEnds(h, new)
  BY <1>4 DEF ReportResult, TaskEnds, thread
<1>5. CASE UNCHANGED vars
  BY <1>5 DEF vars, thread
<1> QED
  BY <1>1, <1>2, <1>3, <1>4, <1>5

-----------------------------------------------------------------------------
(* Types.                                                                  *)

\* The row, the thread and the other rows have their types at the start.
LEMMA InitType == Init => TypeOK
  BY HostsAssumption DEF Init, TypeOK, Pipelines, StepStatus, TaskStatus, CollectStatus,
     Final, NoRow, Working

\* A step of the thread keeps the types.
LEMMA StepType ==
    ASSUME TypeOK, Launch \/ Step \/ DatabaseError \/ AbortRefused \/ Restart
    PROVE  TypeOK'
<1> USE HostsAssumption DEF rows, GoTo, Leaves, Working
<1>1. CASE Launch \/ DatabaseError \/ AbortRefused \/ Restart
  BY <1>1 DEF TypeOK, Launch, DatabaseError, AbortRefused, Restart
<1>2. CASE Begin
  BY <1>2 DEF TypeOK, Pipelines, Begin
<1>3. CASE DispatchScan
  BY <1>3 DEF TypeOK, Pipelines, StepStatus, TaskStatus, Jobs, DispatchScan
<1>4. CASE ScanRefused \/ ScanInError \/ ScanTimeout
  BY <1>4 DEF TypeOK, Pipelines, StepStatus, ScanRefused, ScanInError, ScanTimeout, ScanFails
<1>5. CASE ScanDone
  <2>1. Cardinality(targets) \in Nat
    BY HostsAreFinite DEF TypeOK
  <2> QED
    BY <1>5, <2>1 DEF TypeOK, Pipelines, StepStatus, ScanDone
<1>6. CASE EquipmentsStart
  BY <1>6 DEF TypeOK, Pipelines, StepStatus, EquipmentsStart
<1>7. CASE EquipmentsDone
  <2> DEFINE chosen == targets \cap Collectable
             skipped == Cardinality(targets \ Collectable)
             created == Cardinality(Missing(chosen))
             total == Cardinality(chosen)
  <2>1. skipped \in Nat /\ created \in Nat /\ total \in Nat
    BY HostsAreFinite, MissingIsFinite DEF TypeOK
  <2>2. /\ pc' = "collects" /\ targets' = chosen
        /\ equipment' = equipment \cup Missing(chosen)
        /\ pipeline' = [pipeline EXCEPT !.equipments = "completed", !.skipped = skipped,
                                        !.created = created, !.total = total]
        /\ UNCHANGED <<current, verdict, task, collect, succeeded, sweeping>>
    BY <1>7 DEF EquipmentsDone
  <2>3. pipeline' \in Pipelines
    <3> HIDE DEF skipped, created, total
    <3> QED
      BY <2>1, <2>2 DEF TypeOK, Pipelines, StepStatus
  <2>4. Missing(chosen) \in SUBSET Addresses
    BY HostsAssumption DEF TypeOK, Missing
  <2> QED
    BY <2>2, <2>3, <2>4 DEF TypeOK
<1>8. CASE EquipmentsCollide
  <2>1. Missing(targets \cap Collectable) \in SUBSET Addresses
    BY HostsAssumption DEF TypeOK, Missing
  <2> QED
    BY <1>8, <2>1 DEF TypeOK, EquipmentsCollide
<1>9. CASE CollectsStart
  BY <1>9 DEF TypeOK, Pipelines, StepStatus, CollectsStart
<1>10. CASE \E h \in Hosts : CreateCollect(h)
  BY <1>10 DEF TypeOK, CollectStatus, CreateCollect
<1>11. CASE \E h \in Hosts : EquipmentGone(h)
  BY <1>11 DEF TypeOK, EquipmentGone
<1>12. CASE DispatchCollect
  BY <1>12 DEF TypeOK, TaskStatus, Jobs, DispatchCollect
<1>13. CASE CollectGone \/ CountRefused
  BY <1>13 DEF TypeOK, CollectGone, CountRefused
<1>14. CASE DispatchRefused
  BY <1>14 DEF TypeOK, Pipelines, DispatchRefused
<1>15. CASE CollectPolled \/ CollectTimeout
  BY <1>15 DEF TypeOK, CollectPolled, CollectTimeout
<1>16. CASE Count
  <2>1. pipeline' \in Pipelines
    BY <1>16 DEF TypeOK, Pipelines, Count
  <2>2. collect' \in [Hosts -> CollectStatus]
    BY <1>16 DEF TypeOK, CollectStatus, Count
  <2> QED
    BY <1>16, <2>1, <2>2 DEF TypeOK, Count
<1>17. CASE CollectsDone
  BY <1>17 DEF TypeOK, Pipelines, StepStatus, CollectsDone
<1>18. CASE Finish \/ Abort
  BY <1>18 DEF TypeOK, Pipelines, Finish, Abort
<1> QED
  BY <1>1, <1>2, <1>3, <1>4, <1>5, <1>6, <1>7, <1>8, <1>9, <1>10, <1>11, <1>12, <1>13,
     <1>14, <1>15, <1>16, <1>17, <1>18 DEF Step, ScanPhase, CollectPhase

\* A step of the agent, of a user or of the sweeper keeps the types.
LEMMA OthersType ==
    ASSUME TypeOK, Agent \/ User \/ Sweep \/ UNCHANGED vars
    PROVE  TypeOK'
<1> USE DEF thread, rows, Jobs, Final, NoRow, TaskStatus, CollectStatus
<1>1. ASSUME NEW j \in Jobs, NEW new \in {"active"} \cup Final, ReportStatus(j, new)
      PROVE  TypeOK'
  BY <1>1 DEF TypeOK, ReportStatus, Hydrate
<1>2. ASSUME NEW h \in Hosts, NEW new \in Final, ReportResult(h, new)
      PROVE  TypeOK'
  BY <1>2 DEF TypeOK, ReportResult, Hydrate
<1>3. ASSUME NEW h \in Hosts, NEW new \in Final, TaskEnds(h, new)
      PROVE  TypeOK'
  BY <1>3 DEF TypeOK, TaskEnds
<1>4. ASSUME NEW hs \in SUBSET Hosts, ReportHosts(hs)
      PROVE  TypeOK'
  BY <1>4 DEF TypeOK, ReportHosts
<1>5. ASSUME NEW h \in Hosts, DeleteTask(h) \/ DeleteCollect(h)
      PROVE  TypeOK'
  BY <1>5 DEF TypeOK, DeleteTask, DeleteCollect
<1>6. ASSUME NEW a \in Addresses, DeleteEquipment(a) \/ CreateEquipment(a)
      PROVE  TypeOK'
  BY <1>6 DEF TypeOK, DeleteEquipment, CreateEquipment
<1>7. CASE Sweep
  BY <1>7 DEF TypeOK, Sweep, SweepReads, SweepCommits, SweepRefused
<1>8. CASE UNCHANGED vars
  BY <1>8 DEF TypeOK, vars
<1> QED
  BY <1>1, <1>2, <1>3, <1>4, <1>5, <1>6, <1>7, <1>8 DEF Agent, User

\* The pipeline's row, its thread and the rows they touch keep their types.
THEOREM TypeIsCorrect == Spec => []TypeOK
<1>1. TypeOK /\ [Next]_vars => TypeOK'
  BY StepType, OthersType DEF Next
<1> QED
  BY <1>1, InitType, PTL DEF Spec

-----------------------------------------------------------------------------
(* The stages.                                                             *)

\* Nothing is counted at the start.
LEMMA InitStages == Init => Stages
  BY DEF Init, Stages, StatusFollows, CountersFollow, OutcomeFollows, CountersAddUp,
     CompletedIsEarned, Early, Planned, Treating

\* A step of the thread keeps the counters with its stage.
LEMMA StepStages ==
    ASSUME TypeOK, Stages, Launch \/ Step \/ DatabaseError \/ AbortRefused \/ Restart
    PROVE  Stages'
<1>0. Cardinality(targets) \in Nat
  BY HostsAreFinite DEF TypeOK
<1> USE DEF rows, GoTo, Leaves, Early, Treating, Planned
<1>1. CASE Launch \/ DatabaseError \/ AbortRefused \/ Restart
  BY <1>1 DEF TypeOK, Pipelines, Working, Launch, DatabaseError, AbortRefused, Restart, Stages,
     StatusFollows, CountersFollow, OutcomeFollows, CountersAddUp, CompletedIsEarned
<1>2. CASE Begin
  BY <1>2 DEF TypeOK, Pipelines, Begin, Stages,
     StatusFollows, CountersFollow, OutcomeFollows, CountersAddUp, CompletedIsEarned
<1>3. CASE DispatchScan
  BY <1>3 DEF TypeOK, Pipelines, DispatchScan, Stages,
     StatusFollows, CountersFollow, OutcomeFollows, CountersAddUp, CompletedIsEarned
<1>4. CASE ScanRefused \/ ScanInError \/ ScanTimeout
  BY <1>4 DEF TypeOK, Pipelines, ScanRefused, ScanInError, ScanTimeout, ScanFails, Stages,
     StatusFollows, CountersFollow, OutcomeFollows, CountersAddUp, CompletedIsEarned
<1>5. CASE ScanDone
  BY <1>0, <1>5 DEF TypeOK, Pipelines, ScanDone, Stages,
     StatusFollows, CountersFollow, OutcomeFollows, CountersAddUp, CompletedIsEarned
<1>6. CASE EquipmentsStart
  BY <1>6 DEF TypeOK, Pipelines, EquipmentsStart, Stages,
     StatusFollows, CountersFollow, OutcomeFollows, CountersAddUp, CompletedIsEarned
<1>7. CASE EquipmentsDone
  <2> DEFINE skipped == Cardinality(targets \ Collectable)
             created == Cardinality(Missing(targets \cap Collectable))
             total == Cardinality(targets \cap Collectable)
             discovered == Cardinality(targets)
  <2>1. skipped \in Nat /\ created \in Nat /\ total \in Nat /\ discovered \in Nat
    BY HostsAreFinite, MissingIsFinite DEF TypeOK
  <2>2. discovered = skipped + total
    BY SkippedAndChosen DEF TypeOK
  <2>3. /\ pc = "equipping" /\ pc' = "collects" /\ Cardinality(targets') = total
        /\ pipeline' = [pipeline EXCEPT !.equipments = "completed", !.skipped = skipped,
                                        !.created = created, !.total = total]
    BY <1>7 DEF EquipmentsDone
  <2>4. pipeline.discovered = discovered
    BY <2>3 DEF Stages, CountersFollow
  <2> HIDE DEF skipped, created, total, discovered
  <2> QED
    BY <2>1, <2>2, <2>3, <2>4 DEF TypeOK, Pipelines, Stages,
       StatusFollows, CountersFollow, OutcomeFollows, CountersAddUp, CompletedIsEarned
<1>8. CASE EquipmentsCollide
  BY <1>8 DEF TypeOK, Pipelines, EquipmentsCollide, Stages,
     StatusFollows, CountersFollow, OutcomeFollows, CountersAddUp, CompletedIsEarned
<1>9. CASE CollectsStart
  <2>1. targets = {} <=> Cardinality(targets) = 0
    BY HostsAreFinite, FS_EmptySet DEF TypeOK
  <2> QED
    BY <1>0, <1>9, <2>1 DEF TypeOK, Pipelines, CollectsStart, Stages,
       StatusFollows, CountersFollow, OutcomeFollows, CountersAddUp, CompletedIsEarned
<1>10. ASSUME NEW h \in Hosts, CreateCollect(h) PROVE Stages'
  <2>1. IsFiniteSet(targets)
    BY HostsAreFinite DEF TypeOK
  <2>2. Cardinality(targets') + 1 = Cardinality(targets) /\ Cardinality(targets') \in Nat
    <3>1. h \in targets /\ targets' = targets \ {h} /\ targets' \in SUBSET Hosts
      BY <1>10 DEF CreateCollect, TypeOK
    <3>2. Cardinality(targets') = Cardinality(targets) - 1
      BY <2>1, <3>1, FS_RemoveElement
    <3>3. Cardinality(targets') \in Nat
      BY <3>1, HostsAreFinite
    <3> QED
      BY <1>0, <3>2, <3>3
  <2> QED
    BY <1>0, <1>10, <2>2 DEF TypeOK, Pipelines, CreateCollect, Stages,
       StatusFollows, CountersFollow, OutcomeFollows, CountersAddUp, CompletedIsEarned
<1>11. CASE \E h \in Hosts : EquipmentGone(h)
  BY <1>11 DEF TypeOK, Pipelines, EquipmentGone, Stages,
     StatusFollows, CountersFollow, OutcomeFollows, CountersAddUp, CompletedIsEarned
<1>12. CASE DispatchCollect
  BY <1>12 DEF TypeOK, Pipelines, DispatchCollect, Stages,
     StatusFollows, CountersFollow, OutcomeFollows, CountersAddUp, CompletedIsEarned
<1>13. CASE CollectGone \/ CountRefused
  BY <1>13 DEF TypeOK, Pipelines, CollectGone, CountRefused, Stages,
     StatusFollows, CountersFollow, OutcomeFollows, CountersAddUp, CompletedIsEarned
<1>14. CASE DispatchRefused
  BY <1>0, <1>14 DEF TypeOK, Pipelines, DispatchRefused, Stages,
     StatusFollows, CountersFollow, OutcomeFollows, CountersAddUp, CompletedIsEarned
<1>15. CASE CollectPolled \/ CollectTimeout
  BY <1>15 DEF TypeOK, Pipelines, CollectPolled, CollectTimeout, Stages,
     StatusFollows, CountersFollow, OutcomeFollows, CountersAddUp, CompletedIsEarned
<1>16. CASE Count
  BY <1>0, <1>16 DEF TypeOK, Pipelines, Count, Stages,
     StatusFollows, CountersFollow, OutcomeFollows, CountersAddUp, CompletedIsEarned
<1>17. CASE CollectsDone
  <2>1. Cardinality(targets) = 0
    BY <1>17, FS_EmptySet DEF CollectsDone
  <2> QED
    BY <1>17, <2>1 DEF TypeOK, Pipelines, CollectsDone, Stages,
       StatusFollows, CountersFollow, OutcomeFollows, CountersAddUp, CompletedIsEarned
<1>18. CASE Finish
  BY <1>18 DEF TypeOK, Pipelines, Finish, Stages,
     StatusFollows, CountersFollow, OutcomeFollows, CountersAddUp, CompletedIsEarned
<1>19. CASE Abort
  BY <1>19 DEF TypeOK, Pipelines, Abort, Stages,
     StatusFollows, CountersFollow, OutcomeFollows, CountersAddUp, CompletedIsEarned
<1> QED
  BY <1>1, <1>2, <1>3, <1>4, <1>5, <1>6, <1>7, <1>8, <1>9, <1>10, <1>11, <1>12, <1>13,
     <1>14, <1>15, <1>16, <1>17, <1>18, <1>19 DEF Step, ScanPhase, CollectPhase

\* The steps of the others keep them too: the only one that reaches the thread
\* comes before anything is counted.
LEMMA OthersStages ==
    ASSUME TypeOK, Stages, Agent \/ User \/ Sweep \/ UNCHANGED vars
    PROVE  Stages'
<1>1. CASE UNCHANGED <<pipeline, pc, targets, current, verdict>>
  BY <1>1 DEF Stages, StatusFollows, CountersFollow, OutcomeFollows, CountersAddUp,
     CompletedIsEarned
<1>2. CASE \E hs \in SUBSET Hosts : ReportHosts(hs)
  BY <1>2 DEF ReportHosts, Awaited, Stages, StatusFollows, CountersFollow, OutcomeFollows,
     CountersAddUp, CompletedIsEarned, Early, Planned, Treating
<1> QED
  BY <1>1, <1>2, OthersAreQuiet DEF Agent

\* The counters follow the stages in every reachable state.
THEOREM StagesHold == Spec => [](TypeOK /\ Stages)
<1>1. TypeOK /\ Stages /\ [Next]_vars => (TypeOK /\ Stages)'
  BY StepType, OthersType, StepStages, OthersStages DEF Next
<1> QED
  BY <1>1, InitType, InitStages, PTL DEF Spec

\* The counters of the row account for every host.
THEOREM CountersAlwaysAddUp == Spec => []CountersAddUp
<1>1. Stages => CountersAddUp
  BY DEF Stages
<1> QED
  BY <1>1, StagesHold, PTL

\* A completed pipeline went through its phases and collected something.
THEOREM CompletionIsEarned == Spec => []CompletedIsEarned
<1>1. Stages => CompletedIsEarned
  BY DEF Stages
<1> QED
  BY <1>1, StagesHold, PTL

-----------------------------------------------------------------------------
(* The row implements BackgroundJob.                                       *)

\* A pipeline starts as a job does.
LEMMA InitJob == Init => Job!Init
  BY DEF Init, Job!Init

\* A step that leaves the row alone is a stutter of the job.
LEMMA QuietIsStutter ==
    ASSUME UNCHANGED pipeline
    PROVE  UNCHANGED Job!vars
  BY DEF Job!vars

\* A step of the thread is a step of the job, or a stutter of it.
LEMMA StepJob ==
    ASSUME TypeOK, Stages, Launch \/ Step \/ DatabaseError \/ AbortRefused \/ Restart
    PROVE  [Job!Next]_(Job!vars)
<1>0. Cardinality(targets) \in Nat
  BY HostsAreFinite DEF TypeOK
<1> USE DEF GoTo, Leaves
<1>1. CASE UNCHANGED pipeline
  BY <1>1, QuietIsStutter
<1>2. CASE Begin
  <2>1. Job!Start
    BY <1>2 DEF TypeOK, Pipelines, Begin, Stages, StatusFollows, Job!Start, Job!progress
  <2> QED
    BY <2>1 DEF Job!Next
<1>3. CASE DispatchScan \/ ScanRefused \/ ScanInError \/ ScanTimeout \/ ScanDone
           \/ EquipmentsStart \/ CollectsStart \/ CollectsDone
  BY <1>3 DEF TypeOK, Pipelines, DispatchScan, ScanRefused, ScanInError, ScanTimeout,
     ScanFails, ScanDone, EquipmentsStart, CollectsStart, CollectsDone, Job!vars
<1>4. CASE EquipmentsDone
  <2> DEFINE skipped == Cardinality(targets \ Collectable)
             created == Cardinality(Missing(targets \cap Collectable))
             total == Cardinality(targets \cap Collectable)
  <2>1. /\ pc = "equipping"
        /\ pipeline' = [pipeline EXCEPT !.equipments = "completed", !.skipped = skipped,
                                        !.created = created, !.total = total]
    BY <1>4 DEF EquipmentsDone
  <2>2. total \in Nat
    BY HostsAreFinite DEF TypeOK
  <2>3. Job!Plan
    <3> HIDE DEF skipped, created, total
    <3> QED
      BY <2>1, <2>2 DEF TypeOK, Pipelines, Stages, StatusFollows, CountersFollow, Early,
         Job!Plan, Job!progress
  <2> QED
    BY <2>3 DEF Job!Next
<1>5. CASE DispatchRefused \/ Count
  <2>1. /\ pc \in Treating
        /\ \/ pipeline' = [pipeline EXCEPT !.done = @ + 1]
           \/ pipeline' = [pipeline EXCEPT !.failed = @ + 1]
    BY <1>5 DEF DispatchRefused, Count, Treating
  <2>2. pipeline.status = "running" /\ pipeline.done + pipeline.failed < pipeline.total
    BY <1>0, <2>1 DEF TypeOK, Pipelines, Stages, StatusFollows, CountersFollow, Planned
  <2>3. Job!Treat
    BY <2>1, <2>2 DEF TypeOK, Pipelines, Job!Treat
  <2> QED
    BY <2>3 DEF Job!Next
<1>6. CASE Finish
  <2>1. Job!Complete \/ Job!Fail
    BY <1>6 DEF TypeOK, Pipelines, Finish, Stages, StatusFollows, OutcomeFollows,
       Job!Complete, Job!Fail, Job!progress
  <2> QED
    BY <2>1 DEF Job!Next
<1>7. CASE Abort
  <2>1. Job!Fail
    BY <1>7 DEF TypeOK, Pipelines, Abort, Stages, StatusFollows, Job!Fail, Job!progress
  <2> QED
    BY <2>1 DEF Job!Next
<1>8. CASE Launch \/ DatabaseError \/ AbortRefused \/ Restart \/ EquipmentsCollide
           \/ (\E h \in Hosts : CreateCollect(h) \/ EquipmentGone(h)) \/ DispatchCollect
           \/ CollectGone \/ CollectPolled \/ CollectTimeout \/ CountRefused
  BY <1>8, <1>1 DEF Launch, DatabaseError, AbortRefused, Restart, EquipmentsCollide,
     CreateCollect, EquipmentGone, DispatchCollect, CollectGone, CollectPolled,
     CollectTimeout, CountRefused
<1> QED
  BY <1>2, <1>3, <1>4, <1>5, <1>6, <1>7, <1>8 DEF Step, ScanPhase, CollectPhase

\* What the others do is a stutter of the job.
LEMMA OthersJob ==
    ASSUME Agent \/ User \/ Sweep \/ UNCHANGED vars
    PROVE  UNCHANGED Job!vars
<1>1. UNCHANGED pipeline
  BY OthersAreQuiet DEF Agent, ReportHosts
<1> QED
  BY <1>1, QuietIsStutter

\* The pipeline's row keeps what BackgroundJob promises, whatever the agent, the
\* users, the sweeper and the database do.
THEOREM PipelineIsAJob == Spec => JobIsKept
<1>1. TypeOK /\ Stages /\ [Next]_vars => [Job!Next]_(Job!vars)
  BY StepJob, OthersJob DEF Next
<1> QED
  BY <1>1, InitJob, StagesHold, PTL DEF Spec, JobIsKept, Job!Spec

-----------------------------------------------------------------------------
(* What is counted as done was a success.                                  *)

\* A set of hosts that were counted: once successes, and neither under way nor
\* still to come.
Counted(hosts) ==
    /\ hosts \subseteq succeeded \ (targets \cup {current})
    /\ Cardinality(hosts) = pipeline.done

Successes ==
    /\ \A h \in Hosts : collect[h] = "success" => h \in succeeded
    /\ current \notin targets
    /\ pc \in Early \cup {"collects", "next"} => current = NoHost
    /\ pc \in Treating => current \in Hosts
    /\ verdict = "done" => current \in succeeded
    /\ pc \in Early \cup {"collects", "next", "dispatch", "collect_poll"} => verdict = "none"
    /\ \E hosts \in SUBSET Hosts : Counted(hosts)

\* Nothing is counted at the start.
LEMMA InitSuccesses == Init => Successes
<1> SUFFICES ASSUME Init PROVE Successes
  OBVIOUS
<1>1. Counted({})
  BY FS_EmptySet DEF Counted, Init
<1> QED
  BY <1>1, HostsAssumption DEF Init, Successes, Early, Treating

\* Who was counted stays counted while the thread goes on and successes grow.
LEMMA CountedStays ==
    ASSUME NEW hosts \in SUBSET Hosts, Counted(hosts),
           pipeline'.done = pipeline.done,
           succeeded \subseteq succeeded',
           targets' \cup {current'} \subseteq targets \cup {current, NoHost}
    PROVE  Counted(hosts)'
<1>1. NoHost \notin hosts
  BY HostsAssumption
<1> QED
  BY <1>1 DEF Counted

\* A step of the thread counts only what it has read as a success.
LEMMA StepSuccesses ==
    ASSUME TypeOK, Stages, Successes,
           Launch \/ Step \/ DatabaseError \/ AbortRefused \/ Restart
    PROVE  Successes'
<1> PICK hosts \in SUBSET Hosts : Counted(hosts)
  BY DEF Successes
<1> USE DEF rows, GoTo, Leaves, Early, Treating
<1>1. CASE Launch \/ Begin \/ DispatchScan \/ ScanDone \/ EquipmentsStart \/ CollectsStart
           \/ DispatchCollect \/ CollectsDone \/ Finish \/ Abort \/ AbortRefused
  <2>1. /\ UNCHANGED <<targets, current, verdict, collect, succeeded>>
        /\ pipeline'.done = pipeline.done
    BY <1>1 DEF TypeOK, Pipelines, Launch, Begin, DispatchScan, ScanDone, EquipmentsStart,
       CollectsStart, DispatchCollect, CollectsDone, Finish, Abort, AbortRefused
  <2>2. /\ pc' \in Early \cup {"collects", "next"} => pc \in Early \cup {"collects", "next"}
        /\ pc' \in Treating => pc \in Treating
        /\ pc' \in Early \cup {"collects", "next", "dispatch", "collect_poll"}
            => pc \in Early \cup {"collects", "next", "dispatch", "collect_poll"}
    BY <1>1 DEF Launch, Begin, DispatchScan, ScanDone, EquipmentsStart, CollectsStart,
       DispatchCollect, CollectsDone, Finish, Abort, AbortRefused
  <2>3. Counted(hosts)'
    BY <2>1, CountedStays
  <2> QED
    BY <2>1, <2>2, <2>3 DEF Successes
<1>2. CASE ScanRefused \/ ScanInError \/ ScanTimeout \/ EquipmentsCollide
           \/ (\E h \in Hosts : EquipmentGone(h)) \/ CollectGone \/ CountRefused
           \/ DatabaseError \/ Restart
  <2>1. /\ pc' \in {"finish", "aborting", "lost"}
        /\ targets' = {} /\ current' = NoHost /\ verdict' = "none"
        /\ UNCHANGED <<collect, succeeded>>
        /\ pipeline'.done = pipeline.done
    BY <1>2 DEF TypeOK, Pipelines, ScanRefused, ScanInError, ScanTimeout, ScanFails,
       EquipmentsCollide, EquipmentGone, CollectGone, CountRefused, DatabaseError, Restart
  <2>2. Counted(hosts)'
    BY <2>1, CountedStays
  <2> QED
    BY <2>1, <2>2 DEF Successes
<1>3. CASE EquipmentsDone
  <2>1. /\ pc = "equipping" /\ pc' = "collects" /\ targets' = targets \cap Collectable
        /\ UNCHANGED <<current, verdict, collect, succeeded>>
    BY <1>3 DEF EquipmentsDone
  <2>2. pipeline'.done = pipeline.done
    BY <1>3 DEF TypeOK, Pipelines, EquipmentsDone
  <2>3. Counted(hosts)'
    BY <2>1, <2>2, CountedStays
  <2> QED
    BY <2>1, <2>3 DEF Successes
<1>4. ASSUME NEW h \in Hosts, CreateCollect(h) PROVE Successes'
  <2>1. /\ pc = "next" /\ pc' = "dispatch" /\ h \in targets
        /\ current' = h /\ targets' = targets \ {h}
        /\ collect' = [collect EXCEPT ![h] = "running"]
        /\ UNCHANGED <<pipeline, verdict, succeeded>>
    BY <1>4 DEF CreateCollect
  <2>2. Counted(hosts)'
    BY <2>1, CountedStays
  <2>3. \A g \in Hosts : collect'[g] = "success" => g \in succeeded'
    BY <2>1 DEF TypeOK, Successes
  <2> QED
    BY <2>1, <2>2, <2>3 DEF Successes
<1>5. CASE DispatchRefused
  <2>1. /\ pc = "dispatch" /\ pc' = "next" /\ current' = NoHost
        /\ UNCHANGED <<targets, verdict, collect, succeeded>>
    BY <1>5 DEF DispatchRefused
  <2>2. pipeline'.done = pipeline.done
    BY <1>5 DEF TypeOK, Pipelines, DispatchRefused
  <2>3. Counted(hosts)'
    BY <2>1, <2>2, CountedStays
  <2> QED
    BY <2>1, <2>3, HostsAssumption DEF TypeOK, Successes
<1>6. CASE CollectPolled \/ CollectTimeout
  <2>1. /\ pc = "collect_poll" /\ pc' = "judged"
        /\ verdict' = "done" => collect[current] = "success"
        /\ UNCHANGED <<pipeline, targets, current, collect, succeeded>>
    BY <1>6 DEF CollectPolled, CollectTimeout
  <2>2. Counted(hosts)'
    BY <2>1, CountedStays
  <2> QED
    BY <2>1, <2>2 DEF Successes
<1>7. CASE Count
  <2>1. /\ pc = "judged" /\ pc' = "next" /\ current' = NoHost /\ verdict' = "none"
        /\ collect' = IF verdict = "timeout"
                      THEN [collect EXCEPT ![current] = "failed"] ELSE collect
        /\ UNCHANGED <<targets, succeeded>>
    BY <1>7 DEF Count
  <2>2. \A g \in Hosts : collect'[g] = "success" => g \in succeeded'
    BY <2>1 DEF TypeOK, Successes
  <2>3. \E counted \in SUBSET Hosts : Counted(counted)'
    <3>1. CASE verdict = "done"
      <4>1. pipeline'.done = pipeline.done + 1
        BY <1>7, <3>1 DEF TypeOK, Pipelines, Count
      <4>2. current \in Hosts /\ current \in succeeded /\ current \notin targets
        BY <2>1, <3>1 DEF Successes
      <4>3. current \notin hosts
        BY DEF Counted
      <4>4. Cardinality(hosts \cup {current}) = Cardinality(hosts) + 1
        BY <4>3, HostsAreFinite, FS_AddElement
      <4>5. PICK counted \in SUBSET Hosts : counted = hosts \cup {current}
        BY <4>2
      <4>6. Cardinality(counted) = pipeline'.done
        BY <4>1, <4>4, <4>5 DEF Counted
      <4>7. counted \subseteq succeeded' \ (targets' \cup {current'})
        BY <2>1, <4>2, <4>5, HostsAssumption DEF Counted
      <4> QED
        BY <4>6, <4>7 DEF Counted
    <3>2. CASE verdict # "done"
      <4>1. pipeline'.done = pipeline.done
        BY <1>7, <3>2 DEF TypeOK, Pipelines, Count
      <4> QED
        BY <2>1, <4>1, CountedStays
    <3> QED
      BY <3>1, <3>2
  <2> QED
    BY <2>1, <2>2, <2>3, HostsAssumption DEF TypeOK, Successes
<1> QED
  BY <1>1, <1>2, <1>3, <1>4, <1>5, <1>6, <1>7 DEF Step, ScanPhase, CollectPhase

\* A report, a deletion or a sweep leaves successes in the history.
LEMMA OthersSuccesses ==
    ASSUME TypeOK, Stages, Successes, Agent \/ User \/ Sweep \/ UNCHANGED vars
    PROVE  Successes'
<1> PICK hosts \in SUBSET Hosts : Counted(hosts)
  BY DEF Successes
<1>1. CASE /\ UNCHANGED <<pipeline, pc, targets, current, verdict>>
           /\ succeeded \subseteq succeeded'
           /\ \A h \in Hosts : collect'[h] = "success" => h \in succeeded'
  <2>1. Counted(hosts)'
    BY <1>1, CountedStays
  <2> QED
    BY <1>1, <2>1 DEF Successes
<1>2. ASSUME NEW hs \in SUBSET Hosts, ReportHosts(hs) PROVE Successes'
  <2>1. /\ pc = "scan_poll" /\ pipeline.done = 0 /\ current = NoHost
        /\ UNCHANGED <<pipeline, pc, current, verdict, collect, succeeded>>
        /\ targets' \in SUBSET Hosts
    BY <1>2 DEF ReportHosts, Awaited, Stages, CountersFollow, Successes, Early
  <2>2. Counted({})'
    BY <2>1, FS_EmptySet DEF Counted
  <2>3. current' \notin targets'
    BY <2>1, HostsAssumption
  <2> QED
    BY <2>1, <2>2, <2>3 DEF Successes
<1>3. CASE Agent \/ User \/ Sweep \/ UNCHANGED vars
  <2>1. ASSUME NEW h \in Hosts, NEW result \in {"success", "failed"}, Hydrate(h, result)
        PROVE  /\ succeeded \subseteq succeeded'
               /\ \A g \in Hosts : collect'[g] = "success" => g \in succeeded'
    BY <2>1 DEF TypeOK, Successes, Hydrate
  <2>2. ASSUME NEW j \in Jobs, NEW new \in {"active"} \cup Final, ReportStatus(j, new)
        PROVE  Successes'
    <3>1. (j \in Hosts /\ Hydrate(j, "failed")) \/ UNCHANGED <<collect, succeeded>>
      BY <2>2 DEF ReportStatus, Jobs
    <3>2. UNCHANGED <<pipeline, pc, targets, current, verdict>>
      BY <2>2 DEF ReportStatus, thread
    <3>3. CASE j \in Hosts /\ Hydrate(j, "failed")
      BY <1>1, <2>1, <3>2, <3>3
    <3>4. CASE UNCHANGED <<collect, succeeded>>
      BY <1>1, <3>2, <3>4 DEF Successes
    <3> QED
      BY <3>1, <3>3, <3>4
  <2>3. ASSUME NEW h \in Hosts, NEW new \in Final, ReportResult(h, new)
        PROVE  Successes'
    BY <1>1, <2>1, <2>3 DEF ReportResult, thread
  <2>4. ASSUME NEW h \in Hosts, NEW new \in Final, TaskEnds(h, new)
        PROVE  Successes'
    BY <1>1, <2>4 DEF TaskEnds, thread, Successes
  <2>5. CASE User
    <3>1. \A h \in Hosts : collect'[h] = "success" => collect[h] = "success"
      BY <2>5 DEF User, DeleteTask, DeleteCollect, DeleteEquipment, CreateEquipment, TypeOK
    <3>2. UNCHANGED <<pipeline, pc, targets, current, verdict, succeeded>>
      BY <2>5 DEF User, DeleteTask, DeleteCollect, DeleteEquipment, CreateEquipment, thread
    <3> QED
      BY <1>1, <3>1, <3>2 DEF Successes
  <2>6. CASE Sweep
    <3>1. \A h \in Hosts : collect'[h] = "success" => collect[h] = "success"
      BY <2>6 DEF Sweep, SweepReads, SweepCommits, SweepRefused, TypeOK, rows
    <3>2. UNCHANGED <<pipeline, pc, targets, current, verdict, succeeded>>
      BY <2>6 DEF Sweep, SweepReads, SweepCommits, SweepRefused, thread, rows
    <3> QED
      BY <1>1, <3>1, <3>2 DEF Successes
  <2>7. CASE UNCHANGED vars
    BY <1>1, <2>7 DEF vars, thread, rows, Successes
  <2> QED
    BY <1>2, <1>3, <2>2, <2>3, <2>4, <2>5, <2>6, <2>7 DEF Agent
<1> QED
  BY <1>3

\* Done never exceeds the hosts that had a success.
THEOREM DoneWasAlwaysSuccess == Spec => []DoneWasSuccess
<1>1. TypeOK /\ Stages /\ Successes /\ [Next]_vars => Successes'
  BY StepSuccesses, OthersSuccesses DEF Next
<1>2. TypeOK /\ Successes => DoneWasSuccess
  <2> SUFFICES ASSUME TypeOK, NEW hosts \in SUBSET Hosts, Counted(hosts)
               PROVE  pipeline.done <= Cardinality(succeeded)
    BY DEF Successes, DoneWasSuccess
  <2>1. IsFiniteSet(succeeded)
    BY HostsAreFinite DEF TypeOK
  <2>2. hosts \in SUBSET succeeded /\ Cardinality(hosts) = pipeline.done
    BY DEF Counted
  <2>3. Cardinality(hosts) <= Cardinality(succeeded)
    BY <2>1, <2>2, FS_Subset
  <2> QED
    BY <2>2, <2>3
<1> QED
  BY <1>1, <1>2, InitSuccesses, StagesHold, PTL DEF Spec

\* What the row of a pipeline says of its collects, as its run checks it.
THEOREM OutcomesHold == Spec => []OutcomesAreTrue
<1>1. CountersAddUp /\ DoneWasSuccess /\ CompletedIsEarned => OutcomesAreTrue
  BY DEF OutcomesAreTrue
<1> QED
  BY <1>1, CountersAlwaysAddUp, DoneWasAlwaysSuccess, CompletionIsEarned, PTL

-----------------------------------------------------------------------------
\* Verdicts: the checks of a device, and what a check makes of a reading.

\* A setting for each check, among those that a device of the kind may have.
Valid(kind, s) ==
  /\ s = [f \in Checks(kind) |-> s[f]]
  /\ \A f \in Checks(kind) : s[f] \in Settings(kind)[f].good \cup Settings(kind)[f].poor

\* The check of a setting that was read: its value is accepted exactly when the
\* device satisfies it, but for the settings and the text that are named.
Judged(kind, f, data, accepts, s, at) ==
  \/ {<<f, s[f]>>, <<f, data[f]>>} \cap Misjudged(kind) # {}
  \/ data[f] \in accepts[f] <=> Satisfied(kind, f, s, at)

\* The check of a setting that could not be read: the value left is not accepted, but
\* for those that are named.
Flagged(kind, f, data, accepts) ==
  <<f, data[f]>> \in ClearedUnread(kind) \/ data[f] \notin accepts[f]

\* An output is what the command prints, or an error.
LEMMA ReadsOne ==
  ASSUME NEW commands, NEW printed, NEW o \in Reads(commands, printed),
         NEW i \in DOMAIN commands
  PROVE  o[commands[i]] \in {printed[commands[i]]} \cup Errors
<1> DEFINE all == [j \in DOMAIN commands |-> printed[commands[j]]]
           cut(k) == [j \in DOMAIN commands |-> IF j < k THEN all[j] ELSE Lost]
           outs == {cut(k) : k \in 1 .. Len(commands) + 1}
                   \cup {[all EXCEPT ![j] = TimedOut] : j \in DOMAIN commands}
           named(p) == [c \in {commands[j] : j \in DOMAIN commands} |->
                     p[CHOOSE j \in DOMAIN commands : commands[j] = c]]
<1>1. PICK p \in outs : o = named(p)
  BY DEF Reads
<1>2. \A j \in DOMAIN commands : p[j] \in {printed[commands[j]]} \cup Errors
  BY DEF Errors
<1>3. PICK j \in DOMAIN commands : j = CHOOSE k \in DOMAIN commands : commands[k] = commands[i]
  OBVIOUS
<1>4. commands[j] = commands[i]
  BY <1>3
<1>5. o[commands[i]] = p[j]
  BY <1>1, <1>3
<1>6. QED
  BY <1>2, <1>4, <1>5

-----------------------------------------------------------------------------
\* Linux.

\* Each check of Linux, by the commands it rests on, what they print and what the
\* parser makes of it.
LEMMA LinuxHonest ==
  ASSUME NEW s, Valid("linux", s), NEW o \in Reads(LINUX_COMMANDS, LinuxPrints(s)), NEW at
  PROVE  /\ \A f \in Answered(LinuxReads(o), o) :
              Judged("linux", f, ParseSSH(o), LinuxAccepts, s, at)
         /\ \A f \in DOMAIN LinuxSettings \ Answered(LinuxReads(o), o) :
              Flagged("linux", f, ParseSSH(o), LinuxAccepts)
<1> DEFINE Good(f) ==
             /\ f \in Answered(LinuxReads(o), o) =>
                  Judged("linux", f, ParseSSH(o), LinuxAccepts, s, at)
             /\ f \notin Answered(LinuxReads(o), o) =>
                  Flagged("linux", f, ParseSSH(o), LinuxAccepts)
<1>1. \A f \in DOMAIN LinuxSettings : s[f] \in LinuxSettings[f].good \cup LinuxSettings[f].poor
  BY DEF Valid, Checks, Settings
<1>2. Range(LINUX_COMMANDS) =
        {"os_release", "apt_security", "unattended_upgrades", "ufw_status", "iptables_rules",
         "nftables_rules", "ssh_root_login", "ssh_password_auth", "rsyslog_active",
         "auditd_active", "passwd_perms", "antivirus", "pam_pwquality"}
  BY DEF Range, LINUX_COMMANDS
<1>3. \A c \in Range(LINUX_COMMANDS) : o[c] \in {LinuxPrints(s)[c]} \cup Errors
  BY ReadsOne DEF Range
<1>4. \A f \in DOMAIN LinuxSettings :
        f \in Answered(LinuxReads(o), o) <=> \A c \in LinuxReads(o)[f] : o[c] \notin Errors
  BY DEF LinuxReads, LinuxSettings, Answered
<1>5. \A f \in DOMAIN LinuxSettings :
        Satisfied("linux", f, s, at) <=> s[f] \in LinuxSettings[f].good
  BY DEF Satisfied, Settings, LinuxSettings
<1>6. /\ DOMAIN LinuxSettings =
           {"os_supported", "no_pending_security_updates", "auto_updates_configured",
            "ssh_root_disabled", "ssh_password_disabled", "pam_configured", "firewall_active",
            "rsyslog_active", "auditd_active", "antivirus_installed", "file_permissions_ok"}
      /\ Answered(LinuxReads(o), o) \subseteq DOMAIN LinuxSettings
  BY DEF LinuxSettings, LinuxReads, Answered
<1>7. Good("os_supported")
  <2>1. /\ ParseSSH(o)["os_supported"] = o["os_release"]
        /\ LinuxReads(o)["os_supported"] = {"os_release"}
        /\ LinuxAccepts["os_supported"] = {"lts", "rhel7", ""} \cup Errors
    BY DEF ParseSSH, LinuxReads, LinuxAccepts
  <2>2. /\ s["os_supported"] \in {"lts", "eol", "rhel7"}
        /\ LinuxSettings["os_supported"].good = {"lts"}
    BY <1>1 DEF LinuxSettings
  <2>3. o["os_release"] \in {s["os_supported"]} \cup Errors
    BY <1>2, <1>3 DEF LinuxPrints
  <2>4. QED
    BY <1>4, <1>5, <1>6, <2>1, <2>2, <2>3
       DEF Judged, Flagged, Misjudged, ClearedUnread, Errors, TimedOut, Lost
<1>8. Good("no_pending_security_updates")
  <2>1. /\ ParseSSH(o)["no_pending_security_updates"] = IF o["apt_security"] = "3" THEN "3" ELSE "0"
        /\ LinuxReads(o)["no_pending_security_updates"] = {"apt_security"}
        /\ LinuxAccepts["no_pending_security_updates"] = {"0"}
    BY DEF ParseSSH, LinuxReads, LinuxAccepts
  <2>2. /\ s["no_pending_security_updates"] \in {"patched", "apt", "yum"}
        /\ LinuxSettings["no_pending_security_updates"].good = {"patched"}
    BY <1>1 DEF LinuxSettings
  <2>3. o["apt_security"]
          \in {IF s["no_pending_security_updates"] = "apt" THEN "3" ELSE "0"} \cup Errors
    BY <1>2, <1>3 DEF LinuxPrints
  <2>4. QED
    BY <1>4, <1>5, <1>6, <2>1, <2>2, <2>3
       DEF Judged, Flagged, Misjudged, ClearedUnread, Errors, TimedOut, Lost
<1>9. Good("auto_updates_configured")
  <2>1. /\ ParseSSH(o)["auto_updates_configured"] = o["unattended_upgrades"]
        /\ LinuxReads(o)["auto_updates_configured"] = {"unattended_upgrades"}
        /\ LinuxAccepts["auto_updates_configured"] = {"1"}
    BY DEF ParseSSH, LinuxReads, LinuxAccepts
  <2>2. /\ s["auto_updates_configured"] \in {"unattended", "manual"}
        /\ LinuxSettings["auto_updates_configured"].good = {"unattended"}
    BY <1>1 DEF LinuxSettings
  <2>3. o["unattended_upgrades"]
          \in {IF s["auto_updates_configured"] = "unattended" THEN "1" ELSE "0"} \cup Errors
    BY <1>2, <1>3 DEF LinuxPrints
  <2>4. QED
    BY <1>4, <1>5, <1>6, <2>1, <2>2, <2>3
       DEF Judged, Flagged, Misjudged, ClearedUnread, Errors, TimedOut, Lost
<1>10. Good("ssh_root_disabled")
  <2>1. /\ ParseSSH(o)["ssh_root_disabled"] = o["ssh_root_login"]
        /\ LinuxReads(o)["ssh_root_disabled"] = {"ssh_root_login"}
        /\ LinuxAccepts["ssh_root_disabled"] = SaysNo
    BY DEF ParseSSH, LinuxReads, LinuxAccepts
  <2>2. /\ s["ssh_root_disabled"] \in {"no", "yes", "without-password", "unset"}
        /\ LinuxSettings["ssh_root_disabled"].good = {"no"}
    BY <1>1 DEF LinuxSettings
  <2>3. o["ssh_root_login"] \in {Directive(s["ssh_root_disabled"])} \cup Errors
    BY <1>2, <1>3 DEF LinuxPrints
  <2>4. QED
    BY <1>4, <1>5, <1>6, <2>1, <2>2, <2>3
       DEF Judged, Flagged, Misjudged, ClearedUnread, Errors, TimedOut, Lost, SaysNo, Directive
<1>11. Good("ssh_password_disabled")
  <2>1. /\ ParseSSH(o)["ssh_password_disabled"] = o["ssh_password_auth"]
        /\ LinuxReads(o)["ssh_password_disabled"] = {"ssh_password_auth"}
        /\ LinuxAccepts["ssh_password_disabled"] = SaysNo
    BY DEF ParseSSH, LinuxReads, LinuxAccepts
  <2>2. /\ s["ssh_password_disabled"] \in {"no", "yes", "unset"}
        /\ LinuxSettings["ssh_password_disabled"].good = {"no"}
    BY <1>1 DEF LinuxSettings
  <2>3. o["ssh_password_auth"] \in {Directive(s["ssh_password_disabled"])} \cup Errors
    BY <1>2, <1>3 DEF LinuxPrints
  <2>4. QED
    BY <1>4, <1>5, <1>6, <2>1, <2>2, <2>3
       DEF Judged, Flagged, Misjudged, ClearedUnread, Errors, TimedOut, Lost, SaysNo, Directive
<1>12. Good("pam_configured")
  <2>1. /\ ParseSSH(o)["pam_configured"] = o["pam_pwquality"]
        /\ LinuxReads(o)["pam_configured"] = {"pam_pwquality"}
        /\ LinuxAccepts["pam_configured"] = {"minlen"}
    BY DEF ParseSSH, LinuxReads, LinuxAccepts
  <2>2. /\ s["pam_configured"] \in {"minlen", "no_minlen", "no_pam"}
        /\ LinuxSettings["pam_configured"].good = {"minlen"}
    BY <1>1 DEF LinuxSettings
  <2>3. o["pam_pwquality"]
          \in {IF s["pam_configured"] = "no_pam" THEN "NOT_CONFIGURED"
              ELSE s["pam_configured"]} \cup Errors
    BY <1>2, <1>3 DEF LinuxPrints
  <2>4. QED
    BY <1>4, <1>5, <1>6, <2>1, <2>2, <2>3
       DEF Judged, Flagged, Misjudged, ClearedUnread, Errors, TimedOut, Lost
<1>13. Good("rsyslog_active")
  <2>1. /\ ParseSSH(o)["rsyslog_active"] = o["rsyslog_active"]
        /\ LinuxReads(o)["rsyslog_active"] = {"rsyslog_active"}
        /\ LinuxAccepts["rsyslog_active"] = {"active"}
    BY DEF ParseSSH, LinuxReads, LinuxAccepts
  <2>2. /\ s["rsyslog_active"] \in {"active", "inactive"}
        /\ LinuxSettings["rsyslog_active"].good = {"active"}
    BY <1>1 DEF LinuxSettings
  <2>3. o["rsyslog_active"] \in {s["rsyslog_active"]} \cup Errors
    BY <1>2, <1>3 DEF LinuxPrints
  <2>4. QED
    BY <1>4, <1>5, <1>6, <2>1, <2>2, <2>3
       DEF Judged, Flagged, Misjudged, ClearedUnread, Errors, TimedOut, Lost
<1>14. Good("auditd_active")
  <2>1. /\ ParseSSH(o)["auditd_active"] = o["auditd_active"]
        /\ LinuxReads(o)["auditd_active"] = {"auditd_active"}
        /\ LinuxAccepts["auditd_active"] = {"active"}
    BY DEF ParseSSH, LinuxReads, LinuxAccepts
  <2>2. /\ s["auditd_active"] \in {"active", "inactive"}
        /\ LinuxSettings["auditd_active"].good = {"active"}
    BY <1>1 DEF LinuxSettings
  <2>3. o["auditd_active"] \in {s["auditd_active"]} \cup Errors
    BY <1>2, <1>3 DEF LinuxPrints
  <2>4. QED
    BY <1>4, <1>5, <1>6, <2>1, <2>2, <2>3
       DEF Judged, Flagged, Misjudged, ClearedUnread, Errors, TimedOut, Lost
<1>15. Good("antivirus_installed")
  <2>1. /\ ParseSSH(o)["antivirus_installed"] = o["antivirus"]
        /\ LinuxReads(o)["antivirus_installed"] = {"antivirus"}
        /\ LinuxAccepts["antivirus_installed"] = {"active", "inactive NONE"} \cup Errors
    BY DEF ParseSSH, LinuxReads, LinuxAccepts
  <2>2. /\ s["antivirus_installed"] \in {"clamav", "absent"}
        /\ LinuxSettings["antivirus_installed"].good = {"clamav"}
    BY <1>1 DEF LinuxSettings
  <2>3. o["antivirus"]
          \in {IF s["antivirus_installed"] = "absent" THEN "inactive NONE"
              ELSE "active"} \cup Errors
    BY <1>2, <1>3 DEF LinuxPrints
  <2>4. QED
    BY <1>4, <1>5, <1>6, <2>1, <2>2, <2>3
       DEF Judged, Flagged, Misjudged, ClearedUnread, Errors, TimedOut, Lost
<1>16. Good("file_permissions_ok")
  <2>1. /\ ParseSSH(o)["file_permissions_ok"] = o["passwd_perms"]
        /\ LinuxReads(o)["file_permissions_ok"] = {"passwd_perms"}
        /\ LinuxAccepts["file_permissions_ok"] = {"640"}
    BY DEF ParseSSH, LinuxReads, LinuxAccepts
  <2>2. /\ s["file_permissions_ok"] \in {"640", "000", "644"}
        /\ LinuxSettings["file_permissions_ok"].good = {"640", "000"}
    BY <1>1 DEF LinuxSettings
  <2>3. o["passwd_perms"] \in {s["file_permissions_ok"]} \cup Errors
    BY <1>2, <1>3 DEF LinuxPrints
  <2>4. QED
    BY <1>4, <1>5, <1>6, <2>1, <2>2, <2>3
       DEF Judged, Flagged, Misjudged, ClearedUnread, Errors, TimedOut, Lost
<1>17. Good("firewall_active")
  <2>1. /\ ParseSSH(o)["firewall_active"] = FirewallStatus(o)
        /\ LinuxReads(o)["firewall_active"] = FirewallTools(o)
        /\ s["firewall_active"] \in {"ufw", "nft", "ufw_off", "no_rules", "no_tool"}
        /\ LinuxSettings["firewall_active"].good = {"ufw", "nft"}
        /\ LinuxAccepts["firewall_active"] = {"ufw_active", "iptables_active", "nftables_active"}
    BY <1>1 DEF ParseSSH, LinuxReads, LinuxSettings, LinuxAccepts
  <2>2. /\ o["ufw_status"] \in {CASE s["firewall_active"] = "ufw" -> "Status: active"
                                    [] s["firewall_active"] = "ufw_off" -> "Status: inactive"
                                    [] OTHER -> "NOT_INSTALLED"} \cup Errors
        /\ o["iptables_rules"]
             \in {IF s["firewall_active"] = "no_tool" THEN "" ELSE "Chain"} \cup Errors
        /\ o["nftables_rules"]
             \in {IF s["firewall_active"] = "nft" THEN "table" ELSE ""} \cup Errors
    BY <1>2, <1>3 DEF LinuxPrints
  <2>3. "firewall_active" \in Answered(LinuxReads(o), o) <=>
          \A c \in FirewallTools(o) : o[c] \notin Errors
    BY <1>4, <1>6, <2>1
  <2>4. CASE "firewall_active" \in Answered(LinuxReads(o), o)
    BY <1>5, <1>6, <2>1, <2>2, <2>3, <2>4
       DEF Judged, Misjudged, FirewallStatus, FirewallTools, Errors, TimedOut, Lost
  <2>5. CASE "firewall_active" \notin Answered(LinuxReads(o), o)
    <3>1. \E c \in FirewallTools(o) : o[c] \in Errors
      BY <2>3, <2>5
    <3>2. FirewallStatus(o) \in {"ufw_inactive", "nftables_active", "none_detected"}
      BY <2>2, <3>1 DEF FirewallStatus, FirewallTools, Errors, TimedOut, Lost
    <3>3. <<"firewall_active", "nftables_active">> \in ClearedUnread("linux")
      BY DEF ClearedUnread
    <3>4. \/ ParseSSH(o)["firewall_active"] = "nftables_active"
          \/ ParseSSH(o)["firewall_active"] \notin LinuxAccepts["firewall_active"]
      BY <2>1, <3>2
    <3>5. QED
      BY <2>5, <3>3, <3>4 DEF Flagged
  <2>6. QED
    BY <2>4, <2>5
<1>18. QED
  BY <1>6, <1>7, <1>8, <1>9, <1>10, <1>11, <1>12, <1>13, <1>14, <1>15, <1>16, <1>17

-----------------------------------------------------------------------------
\* Windows.

\* Each pair that `net accounts` can print has one output.
LEMMA NetAccountsHave ==
  ASSUME NEW length \in {"14", "8"}, NEW lockout \in {"5", "Never"}
  PROVE  LET o == CHOOSE p \in DOMAIN NetAccounts : NetAccounts[p] = <<length, lockout>>
         IN  o \in DOMAIN NetAccounts /\ NetAccounts[o] = <<length, lockout>>
<1>1. \E p \in DOMAIN NetAccounts : NetAccounts[p] = <<length, lockout>>
  <2>1. /\ NetAccounts["14 5"] = <<"14", "5">>
        /\ NetAccounts["14 Never"] = <<"14", "Never">>
        /\ NetAccounts["8 5"] = <<"8", "5">>
        /\ NetAccounts["8 Never"] = <<"8", "Never">>
        /\ {"14 5", "14 Never", "8 5", "8 Never"} = DOMAIN NetAccounts
    BY DEF NetAccounts
  <2>2. QED
    BY <2>1
<1>2. QED
  BY <1>1

\* Each check of Windows, likewise.
LEMMA WindowsHonest ==
  ASSUME NEW s, Valid("windows", s), NEW o \in Reads(WINDOWS_COMMANDS, WindowsPrints(s)), NEW at
  PROVE  /\ \A f \in Answered(WindowsReads(o), o) :
              Judged("windows", f, ParseWinRM(o), WindowsAccepts(at), s, at)
         /\ \A f \in DOMAIN WindowsSettings \ Answered(WindowsReads(o), o) :
              Flagged("windows", f, ParseWinRM(o), WindowsAccepts(at))
<1> DEFINE Good(f) ==
             /\ f \in Answered(WindowsReads(o), o) =>
                  Judged("windows", f, ParseWinRM(o), WindowsAccepts(at), s, at)
             /\ f \notin Answered(WindowsReads(o), o) =>
                  Flagged("windows", f, ParseWinRM(o), WindowsAccepts(at))
<1>1. \A f \in DOMAIN WindowsSettings :
        s[f] \in WindowsSettings[f].good \cup WindowsSettings[f].poor
  BY DEF Valid, Checks, Settings
<1>2. Range(WINDOWS_COMMANDS) =
        {"os_info", "last_update_date", "wsus_config", "firewall_profiles", "rdp_enabled",
         "rdp_nla", "admin_account", "password_policy", "event_log_sizes", "audit_policy",
         "defender_status"}
  BY DEF Range, WINDOWS_COMMANDS
<1>3. \A c \in Range(WINDOWS_COMMANDS) : o[c] \in {WindowsPrints(s)[c]} \cup Errors
  BY ReadsOne DEF Range
<1>4. \A f \in DOMAIN WindowsSettings :
        f \in Answered(WindowsReads(o), o) <=> \A c \in WindowsReads(o)[f] : o[c] \notin Errors
  BY DEF WindowsReads, WindowsSettings, Answered
<1>5. \A f \in DOMAIN WindowsSettings :
        Satisfied("windows", f, s, at) <=>
          s[f] \in WindowsSettings[f].good /\ (f = "updates_recent" => at = 0)
  BY DEF Satisfied, Settings, WindowsSettings
<1>6. /\ DOMAIN WindowsSettings =
           {"os_supported", "updates_recent", "wsus_configured", "admin_renamed",
            "password_policy_ok", "lockout_configured", "firewall_all_enabled", "rdp_nla",
            "audit_policy_configured", "logs_min_100mb", "antivirus_active"}
      /\ Answered(WindowsReads(o), o) \subseteq DOMAIN WindowsSettings
  BY DEF WindowsSettings, WindowsReads, Answered
<1>7. Good("os_supported")
  <2>1. /\ ParseWinRM(o)["os_supported"] =
             IF o["os_info"] \in Errors THEN "Windows Server" ELSE o["os_info"]
        /\ WindowsReads(o)["os_supported"] = {"os_info"}
        /\ WindowsAccepts(at)["os_supported"] = {"2022", "Windows Server"}
    BY DEF ParseWinRM, WindowsReads, WindowsAccepts
  <2>2. s["os_supported"] \in {"2022", "2012"} /\ WindowsSettings["os_supported"].good = {"2022"}
    BY <1>1 DEF WindowsSettings
  <2>3. o["os_info"] \in {s["os_supported"]} \cup Errors
    BY <1>2, <1>3 DEF WindowsPrints
  <2>4. QED
    BY <1>4, <1>5, <1>6, <2>1, <2>2, <2>3
       DEF Judged, Flagged, Misjudged, ClearedUnread, Errors, TimedOut, Lost
<1>8. Good("updates_recent")
  <2>1. /\ ParseWinRM(o)["updates_recent"] = o["last_update_date"]
        /\ WindowsReads(o)["updates_recent"] = {"last_update_date"}
        /\ WindowsAccepts(at)["updates_recent"] = IF at = 0 THEN {"this month"} ELSE {}
    BY DEF ParseWinRM, WindowsReads, WindowsAccepts
  <2>2. /\ s["updates_recent"] \in {"this month", "this month fr", "old", "never"}
        /\ WindowsSettings["updates_recent"].good = {"this month", "this month fr"}
    BY <1>1 DEF WindowsSettings
  <2>3. o["last_update_date"]
          \in {IF s["updates_recent"] = "never" THEN "" ELSE s["updates_recent"]} \cup Errors
    BY <1>2, <1>3 DEF WindowsPrints
  <2>4. QED
    BY <1>4, <1>5, <1>6, <2>1, <2>2, <2>3
       DEF Judged, Flagged, Misjudged, ClearedUnread, Errors, TimedOut, Lost
<1>9. Good("wsus_configured")
  <2>1. /\ ParseWinRM(o)["wsus_configured"] = o["wsus_config"]
        /\ WindowsReads(o)["wsus_configured"] = {"wsus_config"}
        /\ WindowsAccepts(at)["wsus_configured"] = {"server", ""}
    BY DEF ParseWinRM, WindowsReads, WindowsAccepts
  <2>2. /\ s["wsus_configured"] \in {"server", "key only", "no key"}
        /\ WindowsSettings["wsus_configured"].good = {"server"}
    BY <1>1 DEF WindowsSettings
  <2>3. o["wsus_config"] \in {CASE s["wsus_configured"] = "no key" -> "NOT_CONFIGURED"
                 [] s["wsus_configured"] = "key only" -> ""
                 [] s["wsus_configured"] = "server" -> "server"} \cup Errors
    BY <1>2, <1>3 DEF WindowsPrints
  <2>4. QED
    BY <1>4, <1>5, <1>6, <2>1, <2>2, <2>3
       DEF Judged, Flagged, Misjudged, ClearedUnread, Errors, TimedOut, Lost
<1>10. Good("admin_renamed")
  <2>1. /\ ParseWinRM(o)["admin_renamed"] =
             IF o["admin_account"] = "administrator" THEN "administrator" ELSE "renamed"
        /\ WindowsReads(o)["admin_renamed"] = {"admin_account"}
        /\ WindowsAccepts(at)["admin_renamed"] = {"renamed"}
    BY DEF ParseWinRM, WindowsReads, WindowsAccepts
  <2>2. /\ s["admin_renamed"] \in {"renamed", "administrator"}
        /\ WindowsSettings["admin_renamed"].good = {"renamed"}
    BY <1>1 DEF WindowsSettings
  <2>3. o["admin_account"] \in {s["admin_renamed"]} \cup Errors
    BY <1>2, <1>3 DEF WindowsPrints
  <2>4. QED
    BY <1>4, <1>5, <1>6, <2>1, <2>2, <2>3
       DEF Judged, Flagged, Misjudged, ClearedUnread, Errors, TimedOut, Lost
<1>11. Good("firewall_all_enabled")
  <2>1. /\ ParseWinRM(o)["firewall_all_enabled"] =
             IF o["firewall_profiles"] \in {"on", TimedOut} THEN "on" ELSE "one off"
        /\ WindowsReads(o)["firewall_all_enabled"] = {"firewall_profiles"}
        /\ WindowsAccepts(at)["firewall_all_enabled"] = {"on"}
    BY DEF ParseWinRM, WindowsReads, WindowsAccepts
  <2>2. /\ s["firewall_all_enabled"] \in {"on", "one off"}
        /\ WindowsSettings["firewall_all_enabled"].good = {"on"}
    BY <1>1 DEF WindowsSettings
  <2>3. o["firewall_profiles"] \in {s["firewall_all_enabled"]} \cup Errors
    BY <1>2, <1>3 DEF WindowsPrints
  <2>4. QED
    BY <1>4, <1>5, <1>6, <2>1, <2>2, <2>3
       DEF Judged, Flagged, Misjudged, ClearedUnread, Errors, TimedOut, Lost
<1>12. Good("audit_policy_configured")
  <2>1. /\ ParseWinRM(o)["audit_policy_configured"] = o["audit_policy"]
        /\ WindowsReads(o)["audit_policy_configured"] = {"audit_policy"}
        /\ WindowsAccepts(at)["audit_policy_configured"] = {"Success"}
    BY DEF ParseWinRM, WindowsReads, WindowsAccepts
  <2>2. /\ s["audit_policy_configured"] \in {"Success", "fr", "No Auditing"}
        /\ WindowsSettings["audit_policy_configured"].good = {"Success", "fr"}
    BY <1>1 DEF WindowsSettings
  <2>3. o["audit_policy"] \in {s["audit_policy_configured"]} \cup Errors
    BY <1>2, <1>3 DEF WindowsPrints
  <2>4. QED
    BY <1>4, <1>5, <1>6, <2>1, <2>2, <2>3
       DEF Judged, Flagged, Misjudged, ClearedUnread, Errors, TimedOut, Lost
<1>13. Good("logs_min_100mb")
  <2>1. /\ ParseWinRM(o)["logs_min_100mb"] = o["event_log_sizes"]
        /\ WindowsReads(o)["logs_min_100mb"] = {"event_log_sizes"}
        /\ WindowsAccepts(at)["logs_min_100mb"] = {"128"}
    BY DEF ParseWinRM, WindowsReads, WindowsAccepts
  <2>2. s["logs_min_100mb"] \in {"128", "20"} /\ WindowsSettings["logs_min_100mb"].good = {"128"}
    BY <1>1 DEF WindowsSettings
  <2>3. o["event_log_sizes"] \in {s["logs_min_100mb"]} \cup Errors
    BY <1>2, <1>3 DEF WindowsPrints
  <2>4. QED
    BY <1>4, <1>5, <1>6, <2>1, <2>2, <2>3
       DEF Judged, Flagged, Misjudged, ClearedUnread, Errors, TimedOut, Lost
<1>14. Good("antivirus_active")
  <2>1. /\ ParseWinRM(o)["antivirus_active"] = o["defender_status"]
        /\ WindowsReads(o)["antivirus_active"] = {"defender_status"}
        /\ WindowsAccepts(at)["antivirus_active"] = {"True", "False True"}
    BY DEF ParseWinRM, WindowsReads, WindowsAccepts
  <2>2. /\ s["antivirus_active"] \in {"defender", "other", "off", "antispyware"}
        /\ WindowsSettings["antivirus_active"].good = {"defender", "other"}
    BY <1>1 DEF WindowsSettings
  <2>3. o["defender_status"] \in {CASE s["antivirus_active"] = "defender" -> "True"
                 [] s["antivirus_active"] = "antispyware" -> "False True"
                 [] OTHER -> "False"} \cup Errors
    BY <1>2, <1>3 DEF WindowsPrints
  <2>4. QED
    BY <1>4, <1>5, <1>6, <2>1, <2>2, <2>3
       DEF Judged, Flagged, Misjudged, ClearedUnread, Errors, TimedOut, Lost
<1>15. Good("password_policy_ok")
  <2>1. /\ ParseWinRM(o)["password_policy_ok"] =
             (IF o["password_policy"] \in Errors THEN <<"0", "0">>
              ELSE NetAccounts[o["password_policy"]])[1]
        /\ WindowsReads(o)["password_policy_ok"] = {"password_policy"}
        /\ WindowsAccepts(at)["password_policy_ok"] = {"14"}
    BY DEF ParseWinRM, WindowsReads, WindowsAccepts
  <2>2. /\ s["password_policy_ok"] \in {"14", "8"} /\ s["lockout_configured"] \in {"5", "Never"}
        /\ WindowsSettings["password_policy_ok"].good = {"14"}
    BY <1>1 DEF WindowsSettings
  <2>3. o["password_policy"] \in
          {CHOOSE p \in DOMAIN NetAccounts :
             NetAccounts[p] = <<s["password_policy_ok"], s["lockout_configured"]>>} \cup Errors
    BY <1>2, <1>3 DEF WindowsPrints
  <2>4. o["password_policy"] \notin Errors =>
          NetAccounts[o["password_policy"]] = <<s["password_policy_ok"], s["lockout_configured"]>>
    BY <2>2, <2>3, NetAccountsHave
  <2>5. QED
    BY <1>4, <1>5, <1>6, <2>1, <2>2, <2>4 DEF Judged, Flagged
<1>16. Good("lockout_configured")
  <2>1. /\ ParseWinRM(o)["lockout_configured"] =
             (IF o["password_policy"] \in Errors THEN <<"0", "0">>
              ELSE NetAccounts[o["password_policy"]])[2]
        /\ WindowsReads(o)["lockout_configured"] = {"password_policy"}
        /\ WindowsAccepts(at)["lockout_configured"] = {"5"}
    BY DEF ParseWinRM, WindowsReads, WindowsAccepts
  <2>2. /\ s["password_policy_ok"] \in {"14", "8"} /\ s["lockout_configured"] \in {"5", "Never"}
        /\ WindowsSettings["lockout_configured"].good = {"5"}
    BY <1>1 DEF WindowsSettings
  <2>3. o["password_policy"] \in
          {CHOOSE p \in DOMAIN NetAccounts :
             NetAccounts[p] = <<s["password_policy_ok"], s["lockout_configured"]>>} \cup Errors
    BY <1>2, <1>3 DEF WindowsPrints
  <2>4. o["password_policy"] \notin Errors =>
          NetAccounts[o["password_policy"]] = <<s["password_policy_ok"], s["lockout_configured"]>>
    BY <2>2, <2>3, NetAccountsHave
  <2>5. QED
    BY <1>4, <1>5, <1>6, <2>1, <2>2, <2>4 DEF Judged, Flagged
<1>17. Good("rdp_nla")
  <2>1. /\ ParseWinRM(o)["rdp_nla"] = IF o["rdp_enabled"] # "0" THEN "closed"
                                      ELSE IF o["rdp_nla"] = "1" THEN "nla" ELSE "open"
        /\ WindowsReads(o)["rdp_nla"] =
             {"rdp_enabled"} \cup IF o["rdp_enabled"] = "0" THEN {"rdp_nla"} ELSE {}
        /\ WindowsAccepts(at)["rdp_nla"] = {"closed", "nla"}
    BY DEF ParseWinRM, WindowsReads, WindowsAccepts
  <2>2. /\ s["rdp_nla"] \in {"nla", "closed", "open"}
        /\ WindowsSettings["rdp_nla"].good = {"nla", "closed"}
    BY <1>1 DEF WindowsSettings
  <2>3. /\ o["rdp_enabled"] \in {IF s["rdp_nla"] = "closed" THEN "1" ELSE "0"} \cup Errors
        /\ o["rdp_nla"] \in {IF s["rdp_nla"] = "open" THEN "0" ELSE "1"} \cup Errors
    BY <1>2, <1>3 DEF WindowsPrints
  <2>4. "rdp_nla" \in Answered(WindowsReads(o), o) <=>
          o["rdp_enabled"] \notin Errors /\ (o["rdp_enabled"] = "0" => o["rdp_nla"] \notin Errors)
    BY <1>4, <1>6, <2>1
  <2>5. QED
    BY <1>5, <1>6, <2>1, <2>2, <2>3, <2>4
       DEF Judged, Flagged, ClearedUnread, Errors, TimedOut, Lost
<1>18. QED
  BY <1>6, <1>7, <1>8, <1>9, <1>10, <1>11, <1>12, <1>13, <1>14, <1>15, <1>16, <1>17

-----------------------------------------------------------------------------
\* OPNsense.

\* What a check of OPNsense is left with when its commands told nothing.
LeftWith(f) ==
  IF f \in ConfigOnly THEN {None}
  ELSE {"", TimedOut}
       \cup IF f \in First(3) THEN {None, Echoed, "Enabled"}
            ELSE IF f = "vpn_configured" THEN {"NOT_RUNNING", "tunnel"}
            ELSE IF f = "carp_ha_configured" THEN {"NO_CARP", "carp"} ELSE {}

\* The checks of OPNsense.
LEMMA OpnsenseChecks ==
  DOMAIN OpnsenseSettings =
     {"firmware_up_to_date", "no_pkg_vulnerabilities", "ssh_root_disabled",
      "ssh_password_disabled", "limited_shell_accounts", "pf_enabled",
      "pf_rules_defined", "suricata_active", "syslog_remote_configured",
      "vpn_configured", "carp_ha_configured", "config_backups_exist", "webgui_https",
      "no_any_any_rules", "rules_documented", "ids_ips_mode", "firewall_logging",
      "ntp_configured", "dnssec_enabled", "no_unused_interfaces", "wan_bogon_blocked"}
BY DEF OpnsenseSettings

\* The commands that the menu adds.
LEMMA FirstThree == First(3) = {"firmware_up_to_date", "no_pkg_vulnerabilities", "pf_enabled"}
BY DEF First, DYNAMIC_CMDS

\* The check of a setting that was read as it is, and of nothing.
LEMMA OpnsenseFair ==
  ASSUME NEW f \in DOMAIN OpnsenseSettings
  PROVE  /\ \A v \in OpnsenseSettings[f].good \cup OpnsenseSettings[f].poor :
              \/ <<f, v>> \in Misjudged("opnsense")
              \/ v \in OpnsenseAccepts[f] <=> v \in OpnsenseSettings[f].good
         /\ \A v \in LeftWith(f) :
              <<f, v>> \in ClearedUnread("opnsense") \/ v \notin OpnsenseAccepts[f]
<1> DEFINE Fair(g) ==
             /\ \A v \in OpnsenseSettings[g].good \cup OpnsenseSettings[g].poor :
                  \/ <<g, v>> \in Misjudged("opnsense")
                  \/ v \in OpnsenseAccepts[g] <=> v \in OpnsenseSettings[g].good
             /\ \A v \in LeftWith(g) :
                  <<g, v>> \in ClearedUnread("opnsense") \/ v \notin OpnsenseAccepts[g]
<1>1. First(3) = {"firmware_up_to_date", "no_pkg_vulnerabilities", "pf_enabled"}
  BY FirstThree
<1>2. Fair("firmware_up_to_date")
  <2>1. /\ OpnsenseSettings["firmware_up_to_date"].good = {"EXIT=0"}
        /\ OpnsenseSettings["firmware_up_to_date"].poor = {"EXIT=1"}
        /\ OpnsenseAccepts["firmware_up_to_date"] = {"EXIT=0"}
    BY DEF OpnsenseSettings, OpnsenseAccepts
  <2>2. QED
    BY <1>1, <2>1
       DEF Misjudged, ClearedUnread, LeftWith, ConfigOnly, Errors, TimedOut, Lost, None, Echoed
<1>3. Fair("no_pkg_vulnerabilities")
  <2>1. /\ OpnsenseSettings["no_pkg_vulnerabilities"].good = {"0 problem"}
        /\ OpnsenseSettings["no_pkg_vulnerabilities"].poor = {"10 problem", "3 problem"}
        /\ OpnsenseAccepts["no_pkg_vulnerabilities"] = {"0 problem", "10 problem", ""}
    BY DEF OpnsenseSettings, OpnsenseAccepts
  <2>2. QED
    BY <1>1, <2>1
       DEF Misjudged, ClearedUnread, LeftWith, ConfigOnly, Errors, TimedOut, Lost, None, Echoed
<1>4. Fair("ssh_root_disabled")
  <2>1. /\ OpnsenseSettings["ssh_root_disabled"].good = {"no"}
        /\ OpnsenseSettings["ssh_root_disabled"].poor = {"yes"}
        /\ OpnsenseAccepts["ssh_root_disabled"] = {"no", ""}
    BY DEF OpnsenseSettings, OpnsenseAccepts
  <2>2. QED
    BY <1>1, <2>1
       DEF Misjudged, ClearedUnread, LeftWith, ConfigOnly, Errors, TimedOut, Lost, None, Echoed
<1>5. Fair("ssh_password_disabled")
  <2>1. /\ OpnsenseSettings["ssh_password_disabled"].good = {"no"}
        /\ OpnsenseSettings["ssh_password_disabled"].poor = {"yes"}
        /\ OpnsenseAccepts["ssh_password_disabled"] = {"no"}
    BY DEF OpnsenseSettings, OpnsenseAccepts
  <2>2. QED
    BY <1>1, <2>1
       DEF Misjudged, ClearedUnread, LeftWith, ConfigOnly, Errors, TimedOut, Lost, None, Echoed
<1>6. Fair("limited_shell_accounts")
  <2>1. /\ OpnsenseSettings["limited_shell_accounts"].good = {"3 accounts", "4 without shell"}
        /\ OpnsenseSettings["limited_shell_accounts"].poor = {"4 accounts"}
        /\ OpnsenseAccepts["limited_shell_accounts"] = {"3 accounts", ""} \cup Errors
    BY DEF OpnsenseSettings, OpnsenseAccepts
  <2>2. QED
    BY <1>1, <2>1
       DEF Misjudged, ClearedUnread, LeftWith, ConfigOnly, Errors, TimedOut, Lost, None, Echoed
<1>7. Fair("pf_enabled")
  <2>1. /\ OpnsenseSettings["pf_enabled"].good = {"Enabled"}
        /\ OpnsenseSettings["pf_enabled"].poor = {"Disabled"}
        /\ OpnsenseAccepts["pf_enabled"] = {"Enabled"}
    BY DEF OpnsenseSettings, OpnsenseAccepts
  <2>2. QED
    BY <1>1, <2>1
       DEF Misjudged, ClearedUnread, LeftWith, ConfigOnly, Errors, TimedOut, Lost, None, Echoed
<1>8. Fair("pf_rules_defined")
  <2>1. /\ OpnsenseSettings["pf_rules_defined"].good = {"rules"}
        /\ OpnsenseSettings["pf_rules_defined"].poor = {"no rules"}
        /\ OpnsenseAccepts["pf_rules_defined"] = {"rules"}
    BY DEF OpnsenseSettings, OpnsenseAccepts
  <2>2. QED
    BY <1>1, <2>1
       DEF Misjudged, ClearedUnread, LeftWith, ConfigOnly, Errors, TimedOut, Lost, None, Echoed
<1>9. Fair("suricata_active")
  <2>1. /\ OpnsenseSettings["suricata_active"].good = {"RUNNING"}
        /\ OpnsenseSettings["suricata_active"].poor = {"NOT_RUNNING"}
        /\ OpnsenseAccepts["suricata_active"] = {"RUNNING"} \cup Errors
    BY DEF OpnsenseSettings, OpnsenseAccepts
  <2>2. QED
    BY <1>1, <2>1
       DEF Misjudged, ClearedUnread, LeftWith, ConfigOnly, Errors, TimedOut, Lost, None, Echoed
<1>10. Fair("syslog_remote_configured")
  <2>1. /\ OpnsenseSettings["syslog_remote_configured"].good = {"remote"}
        /\ OpnsenseSettings["syslog_remote_configured"].poor = {"NONE"}
        /\ OpnsenseAccepts["syslog_remote_configured"] = {"remote"} \cup Errors
    BY DEF OpnsenseSettings, OpnsenseAccepts
  <2>2. QED
    BY <1>1, <2>1
       DEF Misjudged, ClearedUnread, LeftWith, ConfigOnly, Errors, TimedOut, Lost, None, Echoed
<1>11. Fair("vpn_configured")
  <2>1. /\ OpnsenseSettings["vpn_configured"].good = {"tunnel"}
        /\ OpnsenseSettings["vpn_configured"].poor = {""}
        /\ OpnsenseAccepts["vpn_configured"] = {"tunnel", "NOT_RUNNING"} \cup Errors
    BY DEF OpnsenseSettings, OpnsenseAccepts
  <2>2. QED
    BY <1>1, <2>1
       DEF Misjudged, ClearedUnread, LeftWith, ConfigOnly, Errors, TimedOut, Lost, None, Echoed
<1>12. Fair("carp_ha_configured")
  <2>1. /\ OpnsenseSettings["carp_ha_configured"].good = {"carp"}
        /\ OpnsenseSettings["carp_ha_configured"].poor = {""}
        /\ OpnsenseAccepts["carp_ha_configured"] = {"carp", "NO_CARP"} \cup Errors
    BY DEF OpnsenseSettings, OpnsenseAccepts
  <2>2. QED
    BY <1>1, <2>1
       DEF Misjudged, ClearedUnread, LeftWith, ConfigOnly, Errors, TimedOut, Lost, None, Echoed
<1>13. Fair("config_backups_exist")
  <2>1. /\ OpnsenseSettings["config_backups_exist"].good = {"1"}
        /\ OpnsenseSettings["config_backups_exist"].poor = {"0"}
        /\ OpnsenseAccepts["config_backups_exist"] = {"1"}
    BY DEF OpnsenseSettings, OpnsenseAccepts
  <2>2. QED
    BY <1>1, <2>1
       DEF Misjudged, ClearedUnread, LeftWith, ConfigOnly, Errors, TimedOut, Lost, None, Echoed
<1>14. Fair("webgui_https")
  <2>1. /\ OpnsenseSettings["webgui_https"].good = {"https"}
        /\ OpnsenseSettings["webgui_https"].poor = {"http"}
        /\ OpnsenseAccepts["webgui_https"] = {"https", None}
    BY DEF OpnsenseSettings, OpnsenseAccepts
  <2>2. QED
    BY <1>1, <2>1
       DEF Misjudged, ClearedUnread, LeftWith, ConfigOnly, Errors, TimedOut, Lost, None, Echoed
<1>15. Fair("no_any_any_rules")
  <2>1. /\ OpnsenseSettings["no_any_any_rules"].good = {"0"}
        /\ OpnsenseSettings["no_any_any_rules"].poor = {"1"}
        /\ OpnsenseAccepts["no_any_any_rules"] = {"0", None}
    BY DEF OpnsenseSettings, OpnsenseAccepts
  <2>2. QED
    BY <1>1, <2>1
       DEF Misjudged, ClearedUnread, LeftWith, ConfigOnly, Errors, TimedOut, Lost, None, Echoed
<1>16. Fair("rules_documented")
  <2>1. /\ OpnsenseSettings["rules_documented"].good = {"all"}
        /\ OpnsenseSettings["rules_documented"].poor = {"not all"}
        /\ OpnsenseAccepts["rules_documented"] = {"all", None}
    BY DEF OpnsenseSettings, OpnsenseAccepts
  <2>2. QED
    BY <1>1, <2>1
       DEF Misjudged, ClearedUnread, LeftWith, ConfigOnly, Errors, TimedOut, Lost, None, Echoed
<1>17. Fair("ids_ips_mode")
  <2>1. /\ OpnsenseSettings["ids_ips_mode"].good = {"1"}
        /\ OpnsenseSettings["ids_ips_mode"].poor = {"0"}
        /\ OpnsenseAccepts["ids_ips_mode"] = {"1"}
    BY DEF OpnsenseSettings, OpnsenseAccepts
  <2>2. QED
    BY <1>1, <2>1
       DEF Misjudged, ClearedUnread, LeftWith, ConfigOnly, Errors, TimedOut, Lost, None, Echoed
<1>18. Fair("firewall_logging")
  <2>1. /\ OpnsenseSettings["firewall_logging"].good = {"half"}
        /\ OpnsenseSettings["firewall_logging"].poor = {"few"}
        /\ OpnsenseAccepts["firewall_logging"] = {"half"}
    BY DEF OpnsenseSettings, OpnsenseAccepts
  <2>2. QED
    BY <1>1, <2>1
       DEF Misjudged, ClearedUnread, LeftWith, ConfigOnly, Errors, TimedOut, Lost, None, Echoed
<1>19. Fair("ntp_configured")
  <2>1. /\ OpnsenseSettings["ntp_configured"].good = {"2"}
        /\ OpnsenseSettings["ntp_configured"].poor = {"1", "0"}
        /\ OpnsenseAccepts["ntp_configured"] = {"2"}
    BY DEF OpnsenseSettings, OpnsenseAccepts
  <2>2. QED
    BY <1>1, <2>1
       DEF Misjudged, ClearedUnread, LeftWith, ConfigOnly, Errors, TimedOut, Lost, None, Echoed
<1>20. Fair("dnssec_enabled")
  <2>1. /\ OpnsenseSettings["dnssec_enabled"].good = {"1"}
        /\ OpnsenseSettings["dnssec_enabled"].poor = {"0"}
        /\ OpnsenseAccepts["dnssec_enabled"] = {"1"}
    BY DEF OpnsenseSettings, OpnsenseAccepts
  <2>2. QED
    BY <1>1, <2>1
       DEF Misjudged, ClearedUnread, LeftWith, ConfigOnly, Errors, TimedOut, Lost, None, Echoed
<1>21. Fair("no_unused_interfaces")
  <2>1. /\ OpnsenseSettings["no_unused_interfaces"].good = {"0"}
        /\ OpnsenseSettings["no_unused_interfaces"].poor = {"1"}
        /\ OpnsenseAccepts["no_unused_interfaces"] = {"0", None}
    BY DEF OpnsenseSettings, OpnsenseAccepts
  <2>2. QED
    BY <1>1, <2>1
       DEF Misjudged, ClearedUnread, LeftWith, ConfigOnly, Errors, TimedOut, Lost, None, Echoed
<1>22. Fair("wan_bogon_blocked")
  <2>1. /\ OpnsenseSettings["wan_bogon_blocked"].good = {"both"}
        /\ OpnsenseSettings["wan_bogon_blocked"].poor = {"one", "none"}
        /\ OpnsenseAccepts["wan_bogon_blocked"] = {"both"}
    BY DEF OpnsenseSettings, OpnsenseAccepts
  <2>2. QED
    BY <1>1, <2>1
       DEF Misjudged, ClearedUnread, LeftWith, ConfigOnly, Errors, TimedOut, Lost, None, Echoed
<1>23. QED
  BY OpnsenseChecks, <1>2, <1>3, <1>4, <1>5, <1>6, <1>7, <1>8, <1>9, <1>10, <1>11, <1>12,
     <1>13, <1>14, <1>15, <1>16, <1>17, <1>18, <1>19, <1>20, <1>21, <1>22

\* The settings of an OPNsense, and what its checks ask of them.
LEMMA OpnsenseSatisfied ==
  ASSUME NEW s, Valid("opnsense", s), NEW at, NEW f \in DOMAIN OpnsenseSettings
  PROVE  /\ DOMAIN s = DOMAIN OpnsenseSettings
         /\ s[f] \in OpnsenseSettings[f].good \cup OpnsenseSettings[f].poor
         /\ Satisfied("opnsense", f, s, at) <=>
              /\ s[f] \in OpnsenseSettings[f].good
              /\ f = "ids_ips_mode" => s["suricata_active"] = "RUNNING"
              /\ f = "firewall_logging" => s["pf_rules_defined"] = "rules"
<1>1. Settings("opnsense") = OpnsenseSettings /\ Checks("opnsense") = DOMAIN OpnsenseSettings
  BY DEF Settings, Checks
<1>2. f # "updates_recent"
  BY OpnsenseChecks
<1>3. DOMAIN s = DOMAIN OpnsenseSettings
  BY <1>1 DEF Valid
<1>4. s[f] \in OpnsenseSettings[f].good \cup OpnsenseSettings[f].poor
  BY <1>1 DEF Valid
<1>5. QED
  BY <1>1, <1>2, <1>3, <1>4 DEF Satisfied

\* A check that finds the setting as it is, or one that the device does not
\* satisfy as a value it does not accept, is fair.
LEMMA OpnsenseJudged ==
  ASSUME NEW s, Valid("opnsense", s), NEW at, NEW f \in DOMAIN OpnsenseSettings, NEW data,
         \/ <<f, s[f]>> \in Misjudged("opnsense")
         \/ data[f] = s[f] /\ (f = "ids_ips_mode" => s["suricata_active"] = "RUNNING")
                           /\ (f = "firewall_logging" => s["pf_rules_defined"] = "rules")
         \/ data[f] \notin OpnsenseAccepts[f] /\ ~Satisfied("opnsense", f, s, at)
  PROVE  Judged("opnsense", f, data, OpnsenseAccepts, s, at)
<1>1. /\ s[f] \in OpnsenseSettings[f].good \cup OpnsenseSettings[f].poor
      /\ Satisfied("opnsense", f, s, at) <=>
              /\ s[f] \in OpnsenseSettings[f].good
              /\ f = "ids_ips_mode" => s["suricata_active"] = "RUNNING"
              /\ f = "firewall_logging" => s["pf_rules_defined"] = "rules"
  BY OpnsenseSatisfied
<1>2. \/ <<f, s[f]>> \in Misjudged("opnsense")
      \/ s[f] \in OpnsenseAccepts[f] <=> s[f] \in OpnsenseSettings[f].good
  BY <1>1, OpnsenseFair
<1>3. QED
  BY <1>1, <1>2 DEF Judged

\* config.xml, with what the menu added.
LEMMA ConfigHonest ==
  ASSUME NEW s, Valid("opnsense", s), NEW at, NEW d \in Dynamics(s),
         NEW f \in DOMAIN OpnsenseSettings
  PROVE  LET data == FromConfig(s, d)
             read == (DOMAIN s \ First(3)) \cup {c \in DOMAIN d : d[c] # Echoed}
         IN  /\ DOMAIN data = DOMAIN OpnsenseSettings
             /\ read \subseteq DOMAIN OpnsenseSettings
             /\ f \in read => Judged("opnsense", f, data, OpnsenseAccepts, s, at)
             /\ f \notin read => Flagged("opnsense", f, data, OpnsenseAccepts)
<1> DEFINE data == FromConfig(s, d)
           read == (DOMAIN s \ First(3)) \cup {c \in DOMAIN d : d[c] # Echoed}
           Fine ==
             /\ f \in read => Judged("opnsense", f, data, OpnsenseAccepts, s, at)
             /\ f \notin read => Flagged("opnsense", f, data, OpnsenseAccepts)
<1>1. DOMAIN s = DOMAIN OpnsenseSettings
  BY OpnsenseSatisfied
<1>2. /\ DOMAIN d \subseteq First(3)
      /\ \A c \in DOMAIN d : d[c] \in {IF c = "pf_enabled" THEN "Enabled" ELSE s[c], Echoed}
  BY DEF Dynamics, First
<1>3. /\ DOMAIN data = DOMAIN OpnsenseSettings
      /\ f \in DOMAIN d => data[f] = d[f]
  BY <1>1 DEF FromConfig
<1>4. s[f] \in OpnsenseSettings[f].good \cup OpnsenseSettings[f].poor
  BY OpnsenseSatisfied
<1>5. \A v \in LeftWith(f) :
        <<f, v>> \in ClearedUnread("opnsense") \/ v \notin OpnsenseAccepts[f]
  BY OpnsenseFair
<1>6. (\/ <<f, s[f]>> \in Misjudged("opnsense")
       \/ data[f] = s[f] /\ f \notin {"ids_ips_mode", "firewall_logging"}
       \/ data[f] = s[f] /\ (f = "ids_ips_mode" => s["suricata_active"] = "RUNNING")
                         /\ (f = "firewall_logging" => s["pf_rules_defined"] = "rules")
       \/ data[f] \notin OpnsenseAccepts[f] /\ ~Satisfied("opnsense", f, s, at))
      => Judged("opnsense", f, data, OpnsenseAccepts, s, at)
  BY OpnsenseJudged
<1> HIDE DEF data
<1>7. ASSUME f = "pf_enabled"
      PROVE  Fine
  <2>1. data[f] \in {"Enabled", Echoed} /\ (f \in read => data[f] = "Enabled")
    <3>1. f \notin DOMAIN d => data[f] = "Enabled"
      BY <1>1, <1>7, FirstThree, OpnsenseChecks DEF FromConfig, data
    <3>2. QED
      BY <1>2, <1>3, <1>7, <3>1, FirstThree
  <2>2. s[f] \in {"Enabled", "Disabled"}
    <3>1. /\ OpnsenseSettings["pf_enabled"].good = {"Enabled"}
          /\ OpnsenseSettings["pf_enabled"].poor = {"Disabled"}
      BY DEF OpnsenseSettings
    <3>2. QED
      BY <1>7, <1>4, <3>1
  <2>3. s[f] = "Enabled" \/ <<f, s[f]>> \in Misjudged("opnsense")
    BY <1>7, <2>2 DEF Misjudged
  <2>4. f \in read => Judged("opnsense", f, data, OpnsenseAccepts, s, at)
    BY <1>7, <2>1, <2>3, <1>6
  <2>5. data[f] \in LeftWith(f)
    BY <1>7, <2>1, FirstThree DEF LeftWith, ConfigOnly
  <2>6. QED
    BY <2>4, <2>5, <1>5 DEF Flagged
<1>8. ASSUME f \in First(3) \ {"pf_enabled"}
      PROVE  Fine
  <2>1. f \in DOMAIN d => data[f] \in {s[f], Echoed}
    BY <1>2, <1>3, <1>8
  <2>2. f \notin DOMAIN d => data[f] = None
    BY <1>1, <1>8, FirstThree, OpnsenseChecks DEF FromConfig, data
  <2>3. f \notin {"ids_ips_mode", "firewall_logging"}
    BY <1>8, FirstThree
  <2>4. f \in read => data[f] = s[f]
    BY <1>2, <1>3, <1>8, <2>1
  <2>5. f \notin read => data[f] \in LeftWith(f)
    <3>1. f \notin read => data[f] \in {None, Echoed}
      BY <1>3, <1>8, <2>2
    <3>2. QED
      BY <1>8, <3>1, FirstThree DEF LeftWith, ConfigOnly
  <2>6. f \in read => Judged("opnsense", f, data, OpnsenseAccepts, s, at)
    BY <2>3, <2>4, <1>6
  <2>7. QED
    BY <2>5, <2>6, <1>5 DEF Flagged
<1>9. ASSUME f = "limited_shell_accounts"
      PROVE  Fine
  <2>1. f \in read
    BY <1>1, <1>9, FirstThree
  <2>2. data[f] = IF s[f] = "3 accounts" THEN s[f] ELSE "4 accounts"
    BY <1>1, <1>2, <1>9, FirstThree DEF FromConfig, data
  <2>3. s[f] \in {"3 accounts", "4 without shell", "4 accounts"}
    <3>1. /\ OpnsenseSettings["limited_shell_accounts"].good = {"3 accounts", "4 without shell"}
          /\ OpnsenseSettings["limited_shell_accounts"].poor = {"4 accounts"}
      BY DEF OpnsenseSettings
    <3>2. QED
      BY <1>9, <1>4, <3>1
  <2>4. data[f] = s[f] \/ <<f, s[f]>> \in Misjudged("opnsense")
    BY <1>9, <2>2, <2>3 DEF Misjudged
  <2>5. QED
    BY <1>9, <2>1, <2>4, <1>6
<1>10. ASSUME f \in {"firewall_logging", "ids_ips_mode"}
      PROVE  Fine
  <2>1. f \in read /\ f \notin DOMAIN d
    BY <1>1, <1>2, <1>10, FirstThree
  <2>2. /\ f = "firewall_logging" =>
             data[f] = IF s["pf_rules_defined"] = "rules" THEN s[f] ELSE "few"
        /\ f = "ids_ips_mode" =>
             data[f] = IF s["suricata_active"] = "RUNNING" THEN s[f] ELSE "0"
    BY <1>1, <2>1 DEF FromConfig, data
  <2>3. /\ OpnsenseAccepts["firewall_logging"] = {"half"}
        /\ OpnsenseAccepts["ids_ips_mode"] = {"1"}
    BY DEF OpnsenseAccepts
  <2>4. Satisfied("opnsense", f, s, at) =>
          /\ f = "ids_ips_mode" => s["suricata_active"] = "RUNNING"
          /\ f = "firewall_logging" => s["pf_rules_defined"] = "rules"
    BY OpnsenseSatisfied
  <2>5. Judged("opnsense", f, data, OpnsenseAccepts, s, at)
    BY <1>10, <2>2, <2>3, <2>4, <1>6
  <2>6. QED
    BY <2>1, <2>5
<1>11. ASSUME f \notin First(3) \cup {"pf_enabled", "limited_shell_accounts",
                                     "firewall_logging", "ids_ips_mode"}
      PROVE  Fine
  <2>1. f \in read /\ f \notin DOMAIN d
    BY <1>1, <1>2, <1>11
  <2>2. data[f] = s[f]
    BY <1>1, <1>11, <2>1, FirstThree DEF FromConfig, data
  <2>3. QED
    BY <1>11, <2>1, <2>2, <1>6
<1>12. QED
  <2>1. read \subseteq DOMAIN OpnsenseSettings
    BY <1>1, <1>2, FirstThree, OpnsenseChecks
  <2>2. /\ f \in read => Judged("opnsense", f, data, OpnsenseAccepts, s, at)
        /\ f \notin read => Flagged("opnsense", f, data, OpnsenseAccepts)
    BY <1>7, <1>8, <1>9, <1>10, <1>11
  <2>3. QED
    BY <1>3, <2>1, <2>2 DEF data

\* Without SFTP: what the menu prints instead.
LEMMA MenuHonest ==
  ASSUME NEW output \in {"", TimedOut}, NEW f \in DOMAIN OpnsenseSettings
  PROVE  /\ DOMAIN FromMenu(output) = DOMAIN OpnsenseSettings
         /\ Flagged("opnsense", f, FromMenu(output), OpnsenseAccepts)
<1>1. DOMAIN OPNSENSE_CONTROL_MAP = DOMAIN OpnsenseSettings
  BY OpnsenseChecks DEF OPNSENSE_CONTROL_MAP
<1>2. FromMenu(output)[f] \in LeftWith(f)
  BY <1>1 DEF FromMenu, LeftWith
<1>3. DOMAIN FromMenu(output) = DOMAIN OpnsenseSettings
  BY <1>1 DEF FromMenu
<1>4. <<f, FromMenu(output)[f]>> \in ClearedUnread("opnsense")
      \/ FromMenu(output)[f] \notin OpnsenseAccepts[f]
  BY <1>2, OpnsenseFair
<1>5. QED
  BY <1>3, <1>4 DEF Flagged

\* Without SFTP: what a shell prints.
LEMMA ShellHonest ==
  ASSUME NEW s, Valid("opnsense", s), NEW at, NEW f \in DOMAIN OpnsenseSettings
  PROVE  LET data == FromShell(s)
             read == DOMAIN s \ (ConfigOnly \cup {"vpn_configured", "carp_ha_configured"})
         IN  /\ DOMAIN data = DOMAIN OpnsenseSettings
             /\ read \subseteq DOMAIN OpnsenseSettings
             /\ f \in read => Judged("opnsense", f, data, OpnsenseAccepts, s, at)
             /\ f \notin read => Flagged("opnsense", f, data, OpnsenseAccepts)
<1> DEFINE data == FromShell(s)
           read == DOMAIN s \ (ConfigOnly \cup {"vpn_configured", "carp_ha_configured"})
           Fine ==
             /\ f \in read => Judged("opnsense", f, data, OpnsenseAccepts, s, at)
             /\ f \notin read => Flagged("opnsense", f, data, OpnsenseAccepts)
<1>1. DOMAIN s = DOMAIN OpnsenseSettings
  BY OpnsenseSatisfied
<1>2. DOMAIN data = DOMAIN OpnsenseSettings
  BY <1>1 DEF FromShell
<1>3. s[f] \in OpnsenseSettings[f].good \cup OpnsenseSettings[f].poor
  BY OpnsenseSatisfied
<1>4. \A v \in LeftWith(f) :
        <<f, v>> \in ClearedUnread("opnsense") \/ v \notin OpnsenseAccepts[f]
  BY OpnsenseFair
<1>5. (\/ <<f, s[f]>> \in Misjudged("opnsense")
       \/ data[f] = s[f] /\ f \notin {"ids_ips_mode", "firewall_logging"}
       \/ data[f] = s[f] /\ (f = "ids_ips_mode" => s["suricata_active"] = "RUNNING")
                         /\ (f = "firewall_logging" => s["pf_rules_defined"] = "rules")
       \/ data[f] \notin OpnsenseAccepts[f] /\ ~Satisfied("opnsense", f, s, at))
      => Judged("opnsense", f, data, OpnsenseAccepts, s, at)
  BY OpnsenseJudged
<1> HIDE DEF data
<1>6. ASSUME f = "pf_enabled"
      PROVE  Fine
  <2>1. f \in read /\ data[f] = "Enabled"
    BY <1>1, <1>6 DEF FromShell, data, ConfigOnly
  <2>2. s[f] \in {"Enabled", "Disabled"}
    <3>1. /\ OpnsenseSettings["pf_enabled"].good = {"Enabled"}
          /\ OpnsenseSettings["pf_enabled"].poor = {"Disabled"}
      BY DEF OpnsenseSettings
    <3>2. QED
      BY <1>6, <1>3, <3>1
  <2>3. data[f] = s[f] \/ <<f, s[f]>> \in Misjudged("opnsense")
    BY <1>6, <2>1, <2>2 DEF Misjudged
  <2>4. QED
    BY <1>6, <2>1, <2>3, <1>5
<1>7. ASSUME f = "limited_shell_accounts"
      PROVE  Fine
  <2>1. f \in read /\ data[f] = IF s[f] = "4 accounts" THEN s[f] ELSE "3 accounts"
    BY <1>1, <1>7 DEF FromShell, data, ConfigOnly
  <2>2. s[f] \in {"3 accounts", "4 without shell", "4 accounts"}
    <3>1. /\ OpnsenseSettings["limited_shell_accounts"].good = {"3 accounts", "4 without shell"}
          /\ OpnsenseSettings["limited_shell_accounts"].poor = {"4 accounts"}
      BY DEF OpnsenseSettings
    <3>2. QED
      BY <1>7, <1>3, <3>1
  <2>3. data[f] = s[f] \/ <<f, s[f]>> \in Misjudged("opnsense")
    BY <1>7, <2>1, <2>2 DEF Misjudged
  <2>4. QED
    BY <1>7, <2>1, <2>3, <1>5
<1>8. ASSUME f = "ssh_root_disabled"
       PROVE  Fine
  <2>1. /\ f \in read
        /\ data[f] = IF s[f] = "no" THEN "PermitRootLogin no" ELSE "PermitRootLogin yes"
    BY <1>1, <1>8 DEF FromShell, data, ConfigOnly
  <2>2. /\ "no" \in OpnsenseSettings["ssh_root_disabled"].good
        /\ OpnsenseSettings["ssh_root_disabled"].good = {"no"}
        /\ OpnsenseAccepts["ssh_root_disabled"] = {"no", ""}
    BY DEF OpnsenseSettings, OpnsenseAccepts
  <2>3. CASE s[f] = "no"
    BY <1>8, <2>1, <2>3 DEF Judged, Misjudged
  <2>4. CASE s[f] # "no"
    <3>1. data[f] \notin OpnsenseAccepts[f]
      BY <1>8, <2>1, <2>2, <2>4
    <3>2. ~Satisfied("opnsense", f, s, at)
      BY <1>8, <2>2, <2>4, OpnsenseSatisfied
    <3>3. QED
      BY <2>1, <3>1, <3>2, <1>5
  <2>5. QED
    BY <2>3, <2>4
<1>9. ASSUME f \in ConfigOnly
      PROVE  Fine
  <2>1. f \notin {"pf_enabled", "ssh_root_disabled", "vpn_configured", "carp_ha_configured",
                  "limited_shell_accounts"}
    BY <1>9 DEF ConfigOnly
  <2>2. f \notin read /\ data[f] = None
    BY <1>1, <1>9, <2>1 DEF FromShell, data
  <2>3. data[f] \in LeftWith(f)
    BY <1>9, <2>2 DEF LeftWith
  <2>4. QED
    BY <2>2, <2>3, <1>4 DEF Flagged
<1>10. ASSUME f \in {"vpn_configured", "carp_ha_configured"}
      PROVE  Fine
  <2>1. /\ f = "vpn_configured" => s[f] \in {"tunnel", ""}
        /\ f = "carp_ha_configured" => s[f] \in {"carp", ""}
    <3>1. /\ OpnsenseSettings["vpn_configured"].good = {"tunnel"}
          /\ OpnsenseSettings["vpn_configured"].poor = {""}
          /\ OpnsenseSettings["carp_ha_configured"].good = {"carp"}
          /\ OpnsenseSettings["carp_ha_configured"].poor = {""}
      BY DEF OpnsenseSettings
    <3>2. QED
      BY <1>3, <1>10, <3>1
  <2>2. f \notin ConfigOnly
    BY <1>10 DEF ConfigOnly
  <2>3. f \notin read /\ data[f] \in LeftWith(f)
    BY <1>1, <1>10, <2>1, <2>2, FirstThree DEF FromShell, data, LeftWith
  <2>4. QED
    BY <2>3, <1>4 DEF Flagged
<1>11. ASSUME f \notin ConfigOnly \cup {"pf_enabled", "ssh_root_disabled",
                                     "limited_shell_accounts", "vpn_configured",
                                     "carp_ha_configured"}
      PROVE  Fine
  <2>1. f \in read /\ data[f] = s[f]
    BY <1>1, <1>11 DEF FromShell, data
  <2>2. f \notin {"ids_ips_mode", "firewall_logging"}
    BY <1>11 DEF ConfigOnly
  <2>3. QED
    BY <2>1, <2>2, <1>5
<1>12. QED
  <2>1. /\ f \in read => Judged("opnsense", f, data, OpnsenseAccepts, s, at)
        /\ f \notin read => Flagged("opnsense", f, data, OpnsenseAccepts)
    BY <1>6, <1>7, <1>8, <1>9, <1>10, <1>11
  <2>2. QED
    BY <1>1, <1>2, <2>1 DEF data

\* Whatever the way an OPNsense was read.
LEMMA OpnsenseHonest ==
  ASSUME NEW s, Valid("opnsense", s), NEW at, NEW r \in OpnsenseReads(s)
  PROVE  /\ DOMAIN r.data = DOMAIN OpnsenseSettings
         /\ r.read \subseteq DOMAIN OpnsenseSettings
         /\ \A f \in r.read : Judged("opnsense", f, r.data, OpnsenseAccepts, s, at)
         /\ \A f \in DOMAIN OpnsenseSettings \ r.read :
              Flagged("opnsense", f, r.data, OpnsenseAccepts)
<1> DEFINE Honest(data, read) ==
             /\ DOMAIN data = DOMAIN OpnsenseSettings
             /\ read \subseteq DOMAIN OpnsenseSettings
             /\ \A f \in read : Judged("opnsense", f, data, OpnsenseAccepts, s, at)
             /\ \A f \in DOMAIN OpnsenseSettings \ read :
                  Flagged("opnsense", f, data, OpnsenseAccepts)
<1>1. \A d \in Dynamics(s) :
        Honest(FromConfig(s, d), (DOMAIN s \ First(3)) \cup {c \in DOMAIN d : d[c] # Echoed})
  <2> SUFFICES ASSUME NEW d \in Dynamics(s)
               PROVE  Honest(FromConfig(s, d),
                             (DOMAIN s \ First(3)) \cup {c \in DOMAIN d : d[c] # Echoed})
    OBVIOUS
  <2> DEFINE data == FromConfig(s, d)
             read == (DOMAIN s \ First(3)) \cup {c \in DOMAIN d : d[c] # Echoed}
  <2>1. \A f \in DOMAIN OpnsenseSettings :
          /\ DOMAIN data = DOMAIN OpnsenseSettings
          /\ read \subseteq DOMAIN OpnsenseSettings
          /\ f \in read => Judged("opnsense", f, data, OpnsenseAccepts, s, at)
          /\ f \notin read => Flagged("opnsense", f, data, OpnsenseAccepts)
    BY ConfigHonest
  <2>2. "pf_enabled" \in DOMAIN OpnsenseSettings
    BY OpnsenseChecks
  <2> HIDE DEF data, read
  <2>3. Honest(data, read)
    BY <2>1, <2>2
  <2>4. QED
    BY <2>3 DEF data, read
<1>2. \A output \in {"", TimedOut} : Honest(FromMenu(output), {})
  BY MenuHonest, OpnsenseChecks
<1>3. Honest(FromShell(s), DOMAIN s \ (ConfigOnly \cup {"vpn_configured", "carp_ha_configured"}))
  <2> DEFINE data == FromShell(s)
             read == DOMAIN s \ (ConfigOnly \cup {"vpn_configured", "carp_ha_configured"})
  <2>1. \A f \in DOMAIN OpnsenseSettings :
          /\ DOMAIN data = DOMAIN OpnsenseSettings
          /\ read \subseteq DOMAIN OpnsenseSettings
          /\ f \in read => Judged("opnsense", f, data, OpnsenseAccepts, s, at)
          /\ f \notin read => Flagged("opnsense", f, data, OpnsenseAccepts)
    BY ShellHonest
  <2>2. "pf_enabled" \in DOMAIN OpnsenseSettings
    BY OpnsenseChecks
  <2> HIDE DEF data, read
  <2>3. Honest(data, read)
    BY <2>1, <2>2
  <2>4. QED
    BY <2>3 DEF data, read
<1> HIDE DEF Honest
<1>4. Honest(r.data, r.read)
  <2>1. CASE \E d \in Dynamics(s) :
               r = [data |-> FromConfig(s, d),
                    read |-> (DOMAIN s \ First(3)) \cup {c \in DOMAIN d : d[c] # Echoed}]
    <3>1. PICK d \in Dynamics(s) :
             r = [data |-> FromConfig(s, d),
                  read |-> (DOMAIN s \ First(3)) \cup {c \in DOMAIN d : d[c] # Echoed}]
      BY <2>1
    <3>2. QED
      BY <1>1, <3>1
  <2>2. CASE \E output \in {"", TimedOut} : r = [data |-> FromMenu(output), read |-> {}]
    <3>1. PICK output \in {"", TimedOut} : r = [data |-> FromMenu(output), read |-> {}]
      BY <2>2
    <3>2. r.data = FromMenu(output) /\ r.read = {}
      BY <3>1
    <3>3. QED
      BY <1>2, <3>1, <3>2
  <2>3. CASE r = [data |-> FromShell(s),
                  read |-> DOMAIN s \ (ConfigOnly \cup {"vpn_configured", "carp_ha_configured"})]
    BY <1>3, <2>3
  <2>4. QED
    BY <2>1, <2>2, <2>3 DEF OpnsenseReads
<1>5. QED
  BY <1>4 DEF Honest

-----------------------------------------------------------------------------
\* The controls of the checks.

\* Each check has a control of its own.
Separate(control) ==
  \A f \in DOMAIN control : \A g \in DOMAIN control : control[f] = control[g] => f = g

\* No two checks of a system have the same control.
LEMMA ControlsAreSeparate ==
  /\ Separate(LINUX_CONTROL_MAP)
  /\ Separate(WINDOWS_CONTROL_MAP)
  /\ Separate(OPNSENSE_CONTROL_MAP)
<1>1. Separate(LINUX_CONTROL_MAP)
  BY DEF Separate, LINUX_CONTROL_MAP
<1>2. Separate(WINDOWS_CONTROL_MAP)
  BY DEF Separate, WINDOWS_CONTROL_MAP
<1>3. Separate(OPNSENSE_CONTROL_MAP)
  BY DEF Separate, OPNSENSE_CONTROL_MAP
<1>4. QED
  BY <1>1, <1>2, <1>3

\* The control of a check is among those found when its value is not accepted.
LEMMA FoundExactly ==
  ASSUME NEW control, Separate(control), NEW data, DOMAIN data = DOMAIN control,
         NEW accepts, NEW f \in DOMAIN control
  PROVE  control[f] \in {control[g] : g \in {x \in DOMAIN data : data[x] \notin accepts[x]}}
           <=> data[f] \notin accepts[f]
BY DEF Separate

\* The parsers have a value for each check that has a control.
LEMMA SameChecks ==
  /\ DOMAIN LINUX_CONTROL_MAP = DOMAIN LinuxSettings
  /\ \A o : DOMAIN LinuxReads(o) = DOMAIN LINUX_CONTROL_MAP
  /\ \A o : DOMAIN ParseSSH(o) = DOMAIN LINUX_CONTROL_MAP
  /\ DOMAIN WINDOWS_CONTROL_MAP = DOMAIN WindowsSettings
  /\ \A o : DOMAIN WindowsReads(o) = DOMAIN WINDOWS_CONTROL_MAP
  /\ \A o : DOMAIN ParseWinRM(o) = DOMAIN WINDOWS_CONTROL_MAP
  /\ DOMAIN OPNSENSE_CONTROL_MAP = DOMAIN OpnsenseSettings
<1>1. DOMAIN LINUX_CONTROL_MAP = DOMAIN LinuxSettings
      /\ \A o : DOMAIN LinuxReads(o) = DOMAIN LINUX_CONTROL_MAP
  BY DEF LINUX_CONTROL_MAP, LinuxSettings, LinuxReads
<1>2. \A o : DOMAIN ParseSSH(o) = DOMAIN LINUX_CONTROL_MAP
  BY DEF LINUX_CONTROL_MAP, ParseSSH
<1>3. DOMAIN WINDOWS_CONTROL_MAP = DOMAIN WindowsSettings
      /\ \A o : DOMAIN WindowsReads(o) = DOMAIN WINDOWS_CONTROL_MAP
  BY DEF WINDOWS_CONTROL_MAP, WindowsSettings, WindowsReads
<1>4. \A o : DOMAIN ParseWinRM(o) = DOMAIN WINDOWS_CONTROL_MAP
  BY DEF WINDOWS_CONTROL_MAP, ParseWinRM
<1>5. DOMAIN OPNSENSE_CONTROL_MAP = DOMAIN OpnsenseSettings
  BY OpnsenseChecks DEF OPNSENSE_CONTROL_MAP
<1>6. QED
  BY <1>1, <1>2, <1>3, <1>4, <1>5

-----------------------------------------------------------------------------
\* What a collect brings, whatever the profile it was made for.

\* A collect for a device of a kind: Linux alone is guessed for another system.
Profiled(kind, profile, method) ==
  /\ profile \in {"linux_server", "windows_server", "opnsense", "fortigate"}
  /\ method = MethodOf(profile)
  /\ profile = "windows_server" => kind = "windows"
  /\ profile = "opnsense" => kind = "opnsense"
  /\ profile = "fortigate" => kind = "fortigate"

\* The two properties of a successful collect.
TellsTruth(kind, s, read, data, findings, at) ==
  \A f \in read :
    \/ {<<f, s[f]>>, <<f, data[f]>>} \cap Misjudged(kind) # {}
    \/ (Control(kind)[f] \in findings <=> ~Satisfied(kind, f, s, at))

Unread(kind, left, findings) ==
  \A x \in left \ ClearedUnread(kind) : Control(kind)[x[1]] \in findings

\* A collect of Linux, of Windows, of OPNsense.
LEMMA LinuxCollect ==
  ASSUME NEW s, Valid("linux", s), NEW at, NEW r \in Readings("linux", "linux_server", s)
  PROVE  /\ TellsTruth("linux", s, r.read, r.data,
                       Findings("linux_server", "ssh", r.data, at), at)
         /\ Unread("linux", r.left, Findings("linux_server", "ssh", r.data, at))
         /\ DOMAIN r.data = DOMAIN LINUX_CONTROL_MAP
<1>1. PICK o \in Reads(LINUX_COMMANDS, LinuxPrints(s)) :
        r = Reading(ParseSSH(o), Answered(LinuxReads(o), o))
  BY DEF Readings
<1>2. Control("linux") = LINUX_CONTROL_MAP
  BY DEF Control
<1>3. Findings("linux_server", "ssh", r.data, at) =
        {LINUX_CONTROL_MAP[f] : f \in {x \in DOMAIN r.data : r.data[x] \notin LinuxAccepts[x]}}
  BY DEF Findings
<1>4. \A f \in DOMAIN LINUX_CONTROL_MAP :
        LINUX_CONTROL_MAP[f] \in Findings("linux_server", "ssh", r.data, at)
          <=> ParseSSH(o)[f] \notin LinuxAccepts[f]
  BY <1>1, <1>3, FoundExactly, ControlsAreSeparate, SameChecks DEF Reading
<1>5. /\ r.data = ParseSSH(o) /\ r.read = Answered(LinuxReads(o), o)
      /\ r.left = {<<f, ParseSSH(o)[f]>> : f \in DOMAIN LINUX_CONTROL_MAP \ r.read}
      /\ r.read \subseteq DOMAIN LINUX_CONTROL_MAP
  BY <1>1, SameChecks DEF Reading, Answered
<1>6. /\ \A f \in Answered(LinuxReads(o), o) :
           Judged("linux", f, ParseSSH(o), LinuxAccepts, s, at)
      /\ \A f \in DOMAIN LINUX_CONTROL_MAP \ Answered(LinuxReads(o), o) :
           Flagged("linux", f, ParseSSH(o), LinuxAccepts)
  BY LinuxHonest, SameChecks
<1>7. TellsTruth("linux", s, r.read, r.data,
                 Findings("linux_server", "ssh", r.data, at), at)
  BY <1>2, <1>4, <1>5, <1>6 DEF TellsTruth, Judged
<1>8. Unread("linux", r.left, Findings("linux_server", "ssh", r.data, at))
  BY <1>2, <1>4, <1>5, <1>6 DEF Unread, Flagged
<1>9. QED
  BY <1>5, <1>7, <1>8, SameChecks

\* The same of a collect over WinRM,
LEMMA WindowsCollect ==
  ASSUME NEW s, Valid("windows", s), NEW at, NEW r \in Readings("windows", "windows_server", s)
  PROVE  /\ TellsTruth("windows", s, r.read, r.data,
                       Findings("windows_server", "winrm", r.data, at), at)
         /\ Unread("windows", r.left, Findings("windows_server", "winrm", r.data, at))
         /\ DOMAIN r.data = DOMAIN WINDOWS_CONTROL_MAP
<1>1. PICK o \in Reads(WINDOWS_COMMANDS, WindowsPrints(s)) :
        r = Reading(ParseWinRM(o), Answered(WindowsReads(o), o))
  BY DEF Readings
<1>2. Control("windows") = WINDOWS_CONTROL_MAP
  BY DEF Control
<1>3. Findings("windows_server", "winrm", r.data, at) =
        {WINDOWS_CONTROL_MAP[f] :
           f \in {x \in DOMAIN r.data : r.data[x] \notin WindowsAccepts(at)[x]}}
  BY DEF Findings
<1>4. \A f \in DOMAIN WINDOWS_CONTROL_MAP :
        WINDOWS_CONTROL_MAP[f] \in Findings("windows_server", "winrm", r.data, at)
          <=> ParseWinRM(o)[f] \notin WindowsAccepts(at)[f]
  BY <1>1, <1>3, FoundExactly, ControlsAreSeparate, SameChecks DEF Reading
<1>5. /\ r.data = ParseWinRM(o) /\ r.read = Answered(WindowsReads(o), o)
      /\ r.left = {<<f, ParseWinRM(o)[f]>> : f \in DOMAIN WINDOWS_CONTROL_MAP \ r.read}
      /\ r.read \subseteq DOMAIN WINDOWS_CONTROL_MAP
  BY <1>1, SameChecks DEF Reading, Answered
<1>6. /\ \A f \in Answered(WindowsReads(o), o) :
           Judged("windows", f, ParseWinRM(o), WindowsAccepts(at), s, at)
      /\ \A f \in DOMAIN WINDOWS_CONTROL_MAP \ Answered(WindowsReads(o), o) :
           Flagged("windows", f, ParseWinRM(o), WindowsAccepts(at))
  BY WindowsHonest, SameChecks
<1>7. TellsTruth("windows", s, r.read, r.data,
                 Findings("windows_server", "winrm", r.data, at), at)
  BY <1>2, <1>4, <1>5, <1>6 DEF TellsTruth, Judged
<1>8. Unread("windows", r.left, Findings("windows_server", "winrm", r.data, at))
  BY <1>2, <1>4, <1>5, <1>6 DEF Unread, Flagged
<1>9. QED
  BY <1>5, <1>7, <1>8, SameChecks

\* and of one of an OPNsense.
LEMMA OpnsenseCollect ==
  ASSUME NEW s, Valid("opnsense", s), NEW at, NEW r \in Readings("opnsense", "opnsense", s)
  PROVE  /\ TellsTruth("opnsense", s, r.read, r.data, Findings("opnsense", "ssh", r.data, at), at)
         /\ Unread("opnsense", r.left, Findings("opnsense", "ssh", r.data, at))
<1>1. PICK q \in OpnsenseReads(s) :
        r = Reading(q.data, q.read)
  BY DEF Readings
<1>2. /\ Control("opnsense") = OPNSENSE_CONTROL_MAP
      /\ r.data = q.data /\ r.read = q.read
      /\ r.left = {<<f, q.data[f]>> : f \in DOMAIN q.data \ q.read}
  BY <1>1 DEF Control, Reading
<1>3. Findings("opnsense", "ssh", r.data, at) =
        {OPNSENSE_CONTROL_MAP[f] :
           f \in {x \in DOMAIN r.data : r.data[x] \notin OpnsenseAccepts[x]}}
  BY DEF Findings
<1>4. /\ DOMAIN q.data = DOMAIN OpnsenseSettings
      /\ q.read \subseteq DOMAIN OpnsenseSettings
      /\ \A f \in q.read : Judged("opnsense", f, q.data, OpnsenseAccepts, s, at)
      /\ \A f \in DOMAIN OpnsenseSettings \ q.read :
           Flagged("opnsense", f, q.data, OpnsenseAccepts)
  BY OpnsenseHonest
<1>5. \A f \in DOMAIN OPNSENSE_CONTROL_MAP :
        OPNSENSE_CONTROL_MAP[f] \in Findings("opnsense", "ssh", r.data, at)
          <=> q.data[f] \notin OpnsenseAccepts[f]
  <2>1. DOMAIN r.data = DOMAIN OPNSENSE_CONTROL_MAP
    BY <1>2, <1>4, SameChecks
  <2>2. QED
    BY <1>2, <1>3, <2>1, FoundExactly, ControlsAreSeparate
<1>6. TellsTruth("opnsense", s, r.read, r.data, Findings("opnsense", "ssh", r.data, at), at)
  BY <1>2, <1>4, <1>5, SameChecks DEF TellsTruth, Judged
<1>7. Unread("opnsense", r.left, Findings("opnsense", "ssh", r.data, at))
  BY <1>2, <1>4, <1>5, SameChecks DEF Unread, Flagged
<1>8. QED
  BY <1>6, <1>7

\* A collect with the commands of another system, or of a FortiGate, reads nothing.
LEMMA NothingCollected ==
  ASSUME NEW kind, NEW profile, NEW s, NEW r \in Readings(kind, profile, s),
         \/ profile = "linux_server" /\ kind # "linux"
         \/ profile = "fortigate"
  PROVE  r.read = {} /\ r.left = {}
BY DEF Readings

\* Whatever the profile.
LEMMA CollectsAreHonest ==
  ASSUME NEW kind, NEW s, Valid(kind, s), NEW profile, NEW method,
         Profiled(kind, profile, method), NEW r \in Readings(kind, profile, s), NEW at
  PROVE  /\ TellsTruth(kind, s, r.read, r.data, Findings(profile, method, r.data, at), at)
         /\ Unread(kind, r.left, Findings(profile, method, r.data, at))
<1>1. CASE profile = "linux_server" /\ kind = "linux"
  BY <1>1, LinuxCollect DEF Profiled, MethodOf
<1>2. CASE profile = "windows_server"
  BY <1>2, WindowsCollect DEF Profiled, MethodOf
<1>3. CASE profile = "opnsense"
  BY <1>3, OpnsenseCollect DEF Profiled, MethodOf
<1>4. CASE (profile = "linux_server" /\ kind # "linux") \/ profile = "fortigate"
  <2>1. r.read = {} /\ r.left = {}
    BY <1>4, NothingCollected
  <2>2. QED
    BY <2>1 DEF TellsTruth, Unread
<1>5. QED
  BY <1>1, <1>2, <1>3, <1>4 DEF Profiled

-----------------------------------------------------------------------------
\* The inductive invariant of the verdicts.

\* The device is one of its kind.
DeviceHolds ==
  /\ device.kind \in Kinds
  /\ Valid(device.kind, device.setting)
  /\ device.open \subseteq Ports
  /\ device.flaws \subseteq DOMAIN Flaws(device.kind)

\* What a collect that succeeded has is what its profile brings of the device.
Brought(c) ==
  \E r \in Readings(device.kind, c.profile, device.setting) :
    /\ c.data = r.data /\ c.read = r.read /\ c.left = r.left
    /\ c.findings = Findings(c.profile, c.method, r.data, c.at)

CollectHolds(c) ==
  \/ c \in {NoCollect, Deleted}
  \/ /\ c.status \in {"running", "success", "failed"}
     /\ Profiled(device.kind, c.profile, c.method)
     /\ c.identified /\ device.kind \in {"linux", "windows", "opnsense"}
          => c.profile = ProfileOf[device.kind]
     /\ "findings" \in DOMAIN c <=> c.status = "success"
     /\ c.status = "success" => Brought(c)

CollectsHold ==
  /\ collected = [c \in Collects |-> collected[c]]
  /\ \A c \in Collects : CollectHolds(collected[c])

\* A scan and a file tell of the device.
SourcesHold ==
  /\ scans \subseteq {device.open}
  /\ analyses \subseteq {device.flaws}
  /\ month \in 0 .. 1

\* A verdict says what its source says; a collect that gave one has succeeded,
\* and may only be deleted since.
VerdictHolds(r, v) ==
  \/ v = NotAssessed
  \/ /\ v.status \in {"compliant", "non_compliant"} /\ v.by = "collect"
     /\ v.of \in Collects
     /\ \/ collected[v.of] = Deleted
        \/ /\ collected[v.of].status = "success"
           /\ r # "WSRV-002" => (v.status = "non_compliant" <=> r \in collected[v.of].findings)
  \/ /\ v.status = "non_compliant" /\ v.by = "pipeline_nmap"
     /\ \E p \in device.open : <<p, r>> \in NMAP_CONTROL_MAP
  \/ /\ v.status \in {"compliant", "non_compliant"} /\ v.by = "config_parser"
     /\ device.kind = "fortigate" =>
          (v.status = "compliant" <=> \A f \in device.flaws : Flaws("fortigate")[f] # r)

VerdictsHold ==
  /\ verdicts = [r \in Framework(device.kind) |-> verdicts[r]]
  /\ \A r \in Framework(device.kind) : VerdictHolds(r, verdicts[r])

VerdictInv == DeviceHolds /\ CollectsHold /\ SourcesHold /\ VerdictsHold

-----------------------------------------------------------------------------
\* Initially.

\* Every check has a good setting.
LEMMA SomethingIsGood ==
  ASSUME NEW kind, NEW f \in Checks(kind)
  PROVE  \E v : v \in Settings(kind)[f].good
<1>1. \A g \in DOMAIN LinuxSettings : \E v : v \in LinuxSettings[g].good
  BY DEF LinuxSettings
<1>2. \A g \in DOMAIN WindowsSettings : \E v : v \in WindowsSettings[g].good
  <2>1. /\ "2022" \in WindowsSettings["os_supported"].good
        /\ "this month" \in WindowsSettings["updates_recent"].good
        /\ "server" \in WindowsSettings["wsus_configured"].good
        /\ "renamed" \in WindowsSettings["admin_renamed"].good
        /\ "14" \in WindowsSettings["password_policy_ok"].good
        /\ "5" \in WindowsSettings["lockout_configured"].good
        /\ "on" \in WindowsSettings["firewall_all_enabled"].good
        /\ "nla" \in WindowsSettings["rdp_nla"].good
        /\ "Success" \in WindowsSettings["audit_policy_configured"].good
        /\ "128" \in WindowsSettings["logs_min_100mb"].good
        /\ "defender" \in WindowsSettings["antivirus_active"].good
    BY DEF WindowsSettings
  <2>2. DOMAIN WindowsSettings =
          {"os_supported", "updates_recent", "wsus_configured", "admin_renamed",
           "password_policy_ok", "lockout_configured", "firewall_all_enabled",
           "rdp_nla", "audit_policy_configured", "logs_min_100mb", "antivirus_active"}
    BY DEF WindowsSettings
  <2>3. QED
    BY <2>1, <2>2
<1>3. \A g \in DOMAIN OpnsenseSettings : \E v : v \in OpnsenseSettings[g].good
  <2>1. /\ "EXIT=0" \in OpnsenseSettings["firmware_up_to_date"].good
        /\ "0 problem" \in OpnsenseSettings["no_pkg_vulnerabilities"].good
        /\ "no" \in OpnsenseSettings["ssh_root_disabled"].good
        /\ "no" \in OpnsenseSettings["ssh_password_disabled"].good
        /\ "3 accounts" \in OpnsenseSettings["limited_shell_accounts"].good
        /\ "Enabled" \in OpnsenseSettings["pf_enabled"].good
        /\ "rules" \in OpnsenseSettings["pf_rules_defined"].good
        /\ "RUNNING" \in OpnsenseSettings["suricata_active"].good
        /\ "remote" \in OpnsenseSettings["syslog_remote_configured"].good
        /\ "tunnel" \in OpnsenseSettings["vpn_configured"].good
        /\ "carp" \in OpnsenseSettings["carp_ha_configured"].good
        /\ "1" \in OpnsenseSettings["config_backups_exist"].good
        /\ "https" \in OpnsenseSettings["webgui_https"].good
        /\ "0" \in OpnsenseSettings["no_any_any_rules"].good
        /\ "all" \in OpnsenseSettings["rules_documented"].good
        /\ "1" \in OpnsenseSettings["ids_ips_mode"].good
        /\ "half" \in OpnsenseSettings["firewall_logging"].good
        /\ "2" \in OpnsenseSettings["ntp_configured"].good
        /\ "1" \in OpnsenseSettings["dnssec_enabled"].good
        /\ "0" \in OpnsenseSettings["no_unused_interfaces"].good
        /\ "both" \in OpnsenseSettings["wan_bogon_blocked"].good
    BY DEF OpnsenseSettings
  <2>2. QED
    BY <2>1, OpnsenseChecks
<1>4. DOMAIN <<>> = {}
  OBVIOUS
<1>5. QED
  BY <1>1, <1>2, <1>3, <1>4 DEF Checks, Settings

\* A device in order, and one that is not.
LEMMA GoodDevice ==
  ASSUME NEW kind
  PROVE  Valid(kind, AllGood(Settings(kind)))
BY SomethingIsGood DEF Valid, AllGood, Checks

\* Every device has settings of its kind.
LEMMA DevicesAreValid ==
  ASSUME NEW kind, NEW d \in Devices(kind) \cup Exposures(kind)
  PROVE  /\ d.kind = kind
         /\ Valid(kind, d.setting)
         /\ d.open \subseteq Ports
         /\ d.flaws \subseteq DOMAIN Flaws(kind)
<1> DEFINE s == Settings(kind)
           all(f) == s[f].good \cup s[f].poor
           odd == {F \in SUBSET DOMAIN s : Cardinality(F) <= MaxPoor}
           settings(F) == {[f \in DOMAIN s |-> IF f \in F THEN g[f] ELSE AllGood(s)[f]] :
                            g \in {h \in [F -> UNION {all(f) : f \in F}] :
                                     \A f \in F : h[f] \in all(f)}}
<1>1. CASE d \in Devices(kind)
  <2>1. PICK g \in UNION {settings(F) : F \in odd} :
          d = [kind |-> kind, setting |-> g, open |-> {}, flaws |-> {}]
    BY <1>1 DEF Devices
  <2>2. PICK F \in odd : g \in settings(F)
    BY <2>1
  <2>3. PICK h \in [F -> UNION {all(f) : f \in F}] :
          /\ \A f \in F : h[f] \in all(f)
          /\ g = [f \in DOMAIN s |-> IF f \in F THEN h[f] ELSE AllGood(s)[f]]
    BY <2>2
  <2>4. \A f \in DOMAIN s : AllGood(s)[f] \in all(f)
    BY GoodDevice DEF Valid, Checks
  <2>5. \A f \in DOMAIN s : g[f] \in all(f)
    BY <2>3, <2>4
  <2>6. Valid(kind, g)
    BY <2>3, <2>5 DEF Valid, Checks
  <2>7. QED
    BY <2>1, <2>6
<1>2. CASE d \in Exposures(kind)
  BY <1>2, GoodDevice DEF Exposures
<1>3. QED
  BY <1>1, <1>2

\* The invariant holds at the start.
LEMMA VerdictInvInit == VerdictInit => VerdictInv
<1> SUFFICES ASSUME VerdictInit PROVE VerdictInv
  OBVIOUS
<1>1. DeviceHolds
  <2>1. PICK k \in Kinds : device \in Devices(k) \cup Exposures(k)
    BY DEF VerdictInit
  <2>2. QED
    BY <2>1, DevicesAreValid DEF DeviceHolds
<1>2. CollectsHold
  BY DEF VerdictInit, CollectsHold, CollectHolds
<1>3. SourcesHold
  BY DEF VerdictInit, SourcesHold
<1>4. VerdictsHold
  BY DEF VerdictInit, VerdictsHold, VerdictHolds
<1>5. QED
  BY <1>1, <1>2, <1>3, <1>4 DEF VerdictInv

-----------------------------------------------------------------------------
\* Collects.

\* The status of a record tells which record it is.
LEMMA StatusTells ==
  ASSUME NEW c, CollectHolds(c)
  PROVE  /\ c.status \in {"running", "success", "failed"} =>
              /\ Profiled(device.kind, c.profile, c.method)
              /\ c.identified /\ device.kind \in {"linux", "windows", "opnsense"}
                   => c.profile = ProfileOf[device.kind]
              /\ "findings" \in DOMAIN c <=> c.status = "success"
              /\ c.status = "success" => Brought(c)
         /\ c.status = None <=> c = NoCollect
         /\ c.status = "deleted" <=> c = Deleted
BY DEF CollectHolds, NoCollect, Deleted, None

\* A device is collected as what it is, when the scan knows what it is.
LEMMA DetectsKind ==
  ASSUME DeviceHolds, NEW x \in Signals(device.kind),
         DetectProfile(x[1], x[2], x[3]) # None
  PROVE  LET p == DetectProfile(x[1], x[2], x[3])
         IN  /\ Profiled(device.kind, p, MethodOf(p))
             /\ /\ x[1] # "" /\ IF x[1] = "windows" THEN x[3] ELSE x[2]
                /\ device.kind \in {"linux", "windows", "opnsense"}
                => p = ProfileOf[device.kind]
<1>1. /\ x[1] \in {device.kind, ""} /\ x[2] \in BOOLEAN /\ x[3] \in BOOLEAN
      /\ x[3] => device.kind = "windows"
  BY DEF Signals
<1>2. device.kind \in {"linux", "windows", "opnsense", "fortigate", "switch"}
  BY KindsAssumption DEF DeviceHolds
<1>3. QED
  <2> DEFINE p == DetectProfile(x[1], x[2], x[3])
  <2>1. /\ p \in {"linux_server", "windows_server", "opnsense"}
        /\ p = "windows_server" => x[3]
        /\ p = "opnsense" => x[1] = "opnsense"
    BY DEF DetectProfile, None
  <2>2. Profiled(device.kind, p, MethodOf(p))
    BY <1>1, <2>1 DEF Profiled
  <2>3. /\ x[1] = "linux" /\ x[2] => p = "linux_server"
        /\ x[1] = "windows" /\ x[3] => p = "windows_server"
        /\ x[1] = "opnsense" /\ x[2] => p = "opnsense"
    BY DEF DetectProfile
  <2>4. /\ ProfileOf["linux"] = "linux_server"
        /\ ProfileOf["windows"] = "windows_server"
        /\ ProfileOf["opnsense"] = "opnsense"
    BY DEF ProfileOf
  <2>5. QED
    BY <1>1, <2>2, <2>3, <2>4

\* A step that changes one collect, to one that holds, and nothing else. The
\* verdicts that it gave are still true when it was deleted, or had not succeeded.
LEMMA CollectStepKeeps ==
  ASSUME VerdictInv, NEW c \in Collects, NEW new,
         collected' = [collected EXCEPT ![c] = new],
         UNCHANGED <<device, scans, analyses, verdicts, month>>,
         CollectHolds(new), new = Deleted \/ collected[c].status # "success",
         collected[c] # Deleted
  PROVE  VerdictInv'
<1>1. DeviceHolds' /\ SourcesHold'
  BY DEF VerdictInv, DeviceHolds, SourcesHold
<1>2. \A d \in Collects : collected'[d] = IF d = c THEN new ELSE collected[d]
  BY DEF VerdictInv, CollectsHold
<1>3. \A d : CollectHolds(d)' <=> CollectHolds(d)
  BY DEF CollectHolds, Brought
<1>4. CollectsHold'
  <2>1. \A d \in Collects : CollectHolds(collected'[d])
    BY <1>2 DEF VerdictInv, CollectsHold
  <2>2. collected' = [d \in Collects |-> collected'[d]]
    BY DEF VerdictInv, CollectsHold
  <2>3. QED
    BY <1>3, <2>1, <2>2 DEF CollectsHold
<1>5. ASSUME NEW r \in Framework(device.kind)
      PROVE  VerdictHolds(r, verdicts[r])'
  <2>1. VerdictHolds(r, verdicts[r])
    BY DEF VerdictInv, VerdictsHold
  <2>2. QED
    BY <1>2, <2>1 DEF VerdictHolds, Deleted
<1>6. VerdictsHold'
  BY <1>5 DEF VerdictInv, VerdictsHold
<1>7. QED
  BY <1>1, <1>4, <1>6 DEF VerdictInv

\* One lemma per step of a collect.
LEMMA CreateKeeps ==
  ASSUME VerdictInv, NEW c \in Collects, NEW p, NEW i, Create(c, p, i),
         Profiled(device.kind, p, MethodOf(p)),
         i /\ device.kind \in {"linux", "windows", "opnsense"} => p = ProfileOf[device.kind]
  PROVE  VerdictInv'
<1> DEFINE new == [status |-> "running", profile |-> p, identified |-> i, method |-> MethodOf(p)]
<1>1. /\ collected[c] = NoCollect /\ collected' = [collected EXCEPT ![c] = new]
      /\ UNCHANGED <<device, scans, analyses, verdicts, month>>
  BY DEF Create
<1>2. CollectHolds(new)
  BY DEF CollectHolds
<1>3. collected[c].status # "success" /\ collected[c] # Deleted
  BY <1>1 DEF NoCollect, Deleted, None
<1>4. QED
  BY <1>1, <1>2, <1>3, CollectStepKeeps

\* An auditor asks for a collect.
LEMMA CreateByAuditorKeeps ==
  ASSUME VerdictInv, NEW c \in Collects, CreateByAuditor(c)
  PROVE  VerdictInv'
<1> DEFINE p == ProfileOf[device.kind]
<1>1. Create(c, p, FALSE)
  BY DEF CreateByAuditor
<1>2. device.kind \in {"linux", "windows", "opnsense", "fortigate", "switch"}
  BY KindsAssumption DEF VerdictInv, DeviceHolds
<1>3. p # None
  BY <1>1 DEF Create
<1>4. Profiled(device.kind, p, MethodOf(p))
  BY <1>2, <1>3 DEF ProfileOf, Profiled
<1>5. QED
  BY <1>1, <1>4, CreateKeeps

\* A pipeline creates one.
LEMMA CreateByPipelineKeeps ==
  ASSUME VerdictInv, NEW c \in Collects, CreateByPipeline(c)
  PROVE  VerdictInv'
<1>1. PICK x \in Signals(device.kind) :
        Create(c, DetectProfile(x[1], x[2], x[3]),
               x[1] # "" /\ IF x[1] = "windows" THEN x[3] ELSE x[2])
  BY DEF CreateByPipeline
<1>2. DetectProfile(x[1], x[2], x[3]) # None
  BY <1>1 DEF Create
<1>3. QED
  BY <1>1, <1>2, DetectsKind, CreateKeeps DEF VerdictInv

\* The agent's result is read: data, findings, success.
LEMMA HydrateOKKeeps ==
  ASSUME VerdictInv, NEW c \in Collects, HydrateOK(c)
  PROVE  VerdictInv'
<1> DEFINE p == collected[c].profile
           m == collected[c].method
<1>1. PICK r \in Readings(device.kind, p, device.setting) :
        collected' = [collected EXCEPT
             ![c] = [status |-> "success", profile |-> p, identified |-> collected[c].identified,
                     method |-> m, data |-> r.data, findings |-> Findings(p, m, r.data, month),
                     read |-> r.read, left |-> r.left, at |-> month]]
  BY DEF HydrateOK
<1> DEFINE new == [status |-> "success", profile |-> p, identified |-> collected[c].identified,
                   method |-> m, data |-> r.data, findings |-> Findings(p, m, r.data, month),
                   read |-> r.read, left |-> r.left, at |-> month]
<1>2. /\ collected[c].status = "running"
      /\ UNCHANGED <<device, scans, analyses, verdicts, month>>
  BY DEF HydrateOK
<1>3. CollectHolds(collected[c]) /\ collected[c] # Deleted
  BY <1>2 DEF VerdictInv, CollectsHold, Deleted
<1>4. Brought(new)
  BY DEF Brought
<1>5. CollectHolds(new)
  BY <1>2, <1>3, <1>4, StatusTells DEF CollectHolds
<1>6. QED
  BY <1>1, <1>2, <1>3, <1>5, CollectStepKeeps

\* The agent reports an error.
LEMMA HydrateFailedKeeps ==
  ASSUME VerdictInv, NEW c \in Collects, HydrateFailed(c)
  PROVE  VerdictInv'
<1> DEFINE new == [collected[c] EXCEPT !.status = "failed"]
<1>1. /\ collected[c].status = "running"
      /\ UNCHANGED <<device, scans, analyses, verdicts, month>>
  BY DEF HydrateFailed
<1>2. CollectHolds(collected[c]) /\ collected[c] # Deleted
  BY <1>1 DEF VerdictInv, CollectsHold, Deleted
<1>3. collected' = [collected EXCEPT ![c] = new]
  BY DEF HydrateFailed
<1>4. CollectHolds(new)
  BY <1>1, <1>2, StatusTells DEF CollectHolds
<1>5. QED
  BY <1>1, <1>2, <1>3, <1>4, CollectStepKeeps

\* A collect is deleted.
LEMMA RemoveCollectKeeps ==
  ASSUME VerdictInv, NEW c \in Collects, RemoveCollect(c)
  PROVE  VerdictInv'
<1>1. /\ collected[c] # Deleted /\ collected' = [collected EXCEPT ![c] = Deleted]
      /\ UNCHANGED <<device, scans, analyses, verdicts, month>>
  BY DEF RemoveCollect
<1>2. CollectHolds(Deleted)
  BY DEF CollectHolds
<1>3. QED
  BY <1>1, <1>2, CollectStepKeeps

-----------------------------------------------------------------------------
\* Prefills.

\* A prefill keeps the invariant when what it writes says what its source says.
LEMMA PrefillKeeps ==
  ASSUME VerdictInv, NEW compliant, NEW others, NEW by, NEW of,
         Prefill(compliant, others, by, of),
         UNCHANGED <<device, collected, scans, analyses, month>>,
         \A r \in Framework(device.kind) \cap (compliant \cup others) :
           VerdictHolds(r, [status |-> IF r \in compliant THEN "compliant" ELSE "non_compliant",
                            by |-> by, of |-> of])
  PROVE  VerdictInv'
<1>1. DeviceHolds' /\ CollectsHold' /\ SourcesHold'
  BY DEF VerdictInv, DeviceHolds, CollectsHold, CollectHolds, Brought, SourcesHold
<1>2. \A r, v : VerdictHolds(r, v)' <=> VerdictHolds(r, v)
  BY DEF VerdictHolds
<1>3. /\ verdicts' = [r \in Framework(device.kind) |-> verdicts'[r]]
      /\ \A r \in Framework(device.kind) : VerdictHolds(r, verdicts'[r])
  BY DEF Prefill, VerdictInv, VerdictsHold
<1>4. VerdictsHold'
  BY <1>2, <1>3 DEF VerdictsHold
<1>5. QED
  BY <1>1, <1>4 DEF VerdictInv

\* The controls of Linux are those of no other kind of device.
LEMMA LinuxControls ==
  ASSUME NEW kind \in {"windows", "opnsense", "fortigate", "switch"},
         NEW f \in DOMAIN LINUX_CONTROL_MAP
  PROVE  LINUX_CONTROL_MAP[f] \notin Framework(kind)
<1>1. Range(LINUX_CONTROL_MAP) =
        {"LSRV-001", "LSRV-002", "LSRV-003", "LSRV-010", "LSRV-011", "LSRV-013", "LSRV-020",
         "LSRV-030", "LSRV-032", "LSRV-041", "LSRV-042"}
  BY DEF Range, LINUX_CONTROL_MAP
<1>2. LINUX_CONTROL_MAP[f] \in Range(LINUX_CONTROL_MAP)
  BY DEF Range
<1>3. Range(WINDOWS_CONTROL_MAP) \cap Range(LINUX_CONTROL_MAP) = {}
  BY <1>1 DEF Range, WINDOWS_CONTROL_MAP
<1>4. Range(OPNSENSE_CONTROL_MAP) \cap Range(LINUX_CONTROL_MAP) = {}
  BY <1>1 DEF Range, OPNSENSE_CONTROL_MAP
<1>5. ({"SW-004", "SW-030"} \cup FINDING_CONTROL_MAP) \cap Range(LINUX_CONTROL_MAP) = {}
  BY <1>1 DEF FINDING_CONTROL_MAP
<1>6. QED
  BY <1>2, <1>3, <1>4, <1>5 DEF Framework

\* But for the age of the updates, the checks of Windows do not depend on the time.
LEMMA AcceptsLater ==
  ASSUME NEW a, NEW b, NEW f \in DOMAIN WINDOWS_CONTROL_MAP, WINDOWS_CONTROL_MAP[f] # "WSRV-002"
  PROVE  WindowsAccepts(a)[f] = WindowsAccepts(b)[f]
<1>1. /\ WINDOWS_CONTROL_MAP["updates_recent"] = "WSRV-002"
      /\ DOMAIN WINDOWS_CONTROL_MAP =
           {"os_supported", "updates_recent", "wsus_configured", "admin_renamed",
            "password_policy_ok", "lockout_configured", "firewall_all_enabled", "rdp_nla",
            "audit_policy_configured", "logs_min_100mb", "antivirus_active"}
  BY DEF WINDOWS_CONTROL_MAP
<1>2. /\ WindowsAccepts(a)["os_supported"] = WindowsAccepts(b)["os_supported"]
      /\ WindowsAccepts(a)["wsus_configured"] = WindowsAccepts(b)["wsus_configured"]
      /\ WindowsAccepts(a)["admin_renamed"] = WindowsAccepts(b)["admin_renamed"]
      /\ WindowsAccepts(a)["password_policy_ok"] = WindowsAccepts(b)["password_policy_ok"]
      /\ WindowsAccepts(a)["lockout_configured"] = WindowsAccepts(b)["lockout_configured"]
      /\ WindowsAccepts(a)["firewall_all_enabled"] = WindowsAccepts(b)["firewall_all_enabled"]
      /\ WindowsAccepts(a)["rdp_nla"] = WindowsAccepts(b)["rdp_nla"]
      /\ WindowsAccepts(a)["audit_policy_configured"] = WindowsAccepts(b)["audit_policy_configured"]
      /\ WindowsAccepts(a)["logs_min_100mb"] = WindowsAccepts(b)["logs_min_100mb"]
      /\ WindowsAccepts(a)["antivirus_active"] = WindowsAccepts(b)["antivirus_active"]
  BY DEF WindowsAccepts
<1>3. QED
  BY <1>1, <1>2

\* A prefill evaluates the checks anew, and finds what the collect found.
LEMMA PrefillFromCollectKeeps ==
  ASSUME VerdictInv, NEW c \in Collects, PrefillFromCollect(c)
  PROVE  VerdictInv'
<1> DEFINE k == collected[c]
           control == IF k.method = "winrm" THEN WINDOWS_CONTROL_MAP ELSE LINUX_CONTROL_MAP
           accepts == IF k.method = "winrm" THEN WindowsAccepts(month) ELSE LinuxAccepts
           here == {f \in DOMAIN control : control[f] \in DOMAIN verdicts}
           passed == {f \in here : k.data[f] \in accepts[f]}
           compliant == {control[f] : f \in passed}
           others == {control[f] : f \in here \ passed}
<1>1. /\ k.status = "success"
      /\ Prefill(compliant, others, "collect", c)
      /\ UNCHANGED <<device, collected, scans, analyses, month>>
  BY DEF PrefillFromCollect
<1>2. CollectHolds(k) /\ DOMAIN verdicts = Framework(device.kind)
  BY DEF VerdictInv, CollectsHold, VerdictsHold
<1>3. Profiled(device.kind, k.profile, k.method) /\ Brought(k)
  BY <1>1, <1>2, StatusTells
<1>4. device.kind \in {"linux", "windows", "opnsense", "fortigate", "switch"}
  BY KindsAssumption DEF VerdictInv, DeviceHolds
<1>5. Valid(device.kind, device.setting)
  BY DEF VerdictInv, DeviceHolds
<1>6. PICK q \in Readings(device.kind, k.profile, device.setting) :
        k.data = q.data /\ k.findings = Findings(k.profile, k.method, q.data, k.at)
  BY <1>3 DEF Brought
<1>7. ASSUME NEW f \in here
      PROVE  control[f] # "WSRV-002" => (k.data[f] \in accepts[f] <=> control[f] \notin k.findings)
  <2>1. CASE k.profile = "windows_server"
    <3>1. device.kind = "windows" /\ k.method = "winrm"
      BY <1>3, <2>1 DEF Profiled, MethodOf
    <3>2. DOMAIN k.data = DOMAIN WINDOWS_CONTROL_MAP
      BY <1>5, <1>6, <2>1, <3>1, WindowsCollect
    <3>3. k.findings = {WINDOWS_CONTROL_MAP[g] :
                         g \in {x \in DOMAIN k.data : k.data[x] \notin WindowsAccepts(k.at)[x]}}
      BY <1>6, <2>1, <3>1 DEF Findings
    <3>4. control[f] \in k.findings <=> k.data[f] \notin WindowsAccepts(k.at)[f]
      BY <3>1, <3>2, <3>3, FoundExactly, ControlsAreSeparate
    <3>5. QED
      BY <3>1, <3>4, AcceptsLater
  <2>2. CASE k.profile # "windows_server"
    <3>1. k.method = "ssh"
      BY <1>3, <2>2 DEF Profiled, MethodOf
    <3>2. device.kind = "linux"
      BY <1>2, <1>4, <3>1, LinuxControls
    <3>3. k.profile = "linux_server"
      BY <1>3, <2>2, <3>2 DEF Profiled
    <3>4. DOMAIN k.data = DOMAIN LINUX_CONTROL_MAP
      BY <1>5, <1>6, <3>2, <3>3, LinuxCollect
    <3>5. k.findings = {LINUX_CONTROL_MAP[g] :
                         g \in {x \in DOMAIN k.data : k.data[x] \notin LinuxAccepts[x]}}
      BY <1>6, <3>1, <3>3 DEF Findings
    <3>6. control[f] \in k.findings <=> k.data[f] \notin LinuxAccepts[f]
      BY <3>1, <3>4, <3>5, FoundExactly, ControlsAreSeparate
    <3>7. QED
      BY <3>1, <3>6
  <2>3. QED
    BY <2>1, <2>2
<1>8. Separate(control)
  BY ControlsAreSeparate
<1>9. ASSUME NEW r \in Framework(device.kind) \cap (compliant \cup others)
      PROVE  VerdictHolds(r, [status |-> IF r \in compliant THEN "compliant" ELSE "non_compliant",
                              by |-> "collect", of |-> c])
  <2>1. PICK f \in here : r = control[f]
    OBVIOUS
  <2>2. r \in compliant <=> k.data[f] \in accepts[f]
    BY <1>8, <2>1 DEF Separate
  <2>3. r # "WSRV-002" => (r \in compliant <=> r \notin k.findings)
    BY <1>7, <2>1, <2>2
  <2> HIDE DEF compliant, others
  <2>4. QED
    BY <1>1, <2>3 DEF VerdictHolds
<1>10. QED
  BY <1>1, <1>9, PrefillKeeps

-----------------------------------------------------------------------------
\* Scan and configuration.

\* A scan ends,
LEMMA ScanEndsKeeps ==
  ASSUME VerdictInv, ScanEnds
  PROVE  VerdictInv'
BY DEF VerdictInv, ScanEnds, DeviceHolds, CollectsHold, CollectHolds, Brought, SourcesHold,
       VerdictsHold, VerdictHolds

\* a configuration is uploaded,
LEMMA UploadConfigKeeps ==
  ASSUME VerdictInv, UploadConfig
  PROVE  VerdictInv'
BY DEF VerdictInv, UploadConfig, DeviceHolds, CollectsHold, CollectHolds, Brought, SourcesHold,
       VerdictsHold, VerdictHolds

\* a month passes.
LEMMA MonthPassesKeeps ==
  ASSUME VerdictInv, MonthPasses
  PROVE  VerdictInv'
BY DEF VerdictInv, MonthPasses, DeviceHolds, CollectsHold, CollectHolds, Brought, SourcesHold,
       VerdictsHold, VerdictHolds

\* An assessment is prefilled from the ports of a scan,
LEMMA PrefillFromPipelineKeeps ==
  ASSUME VerdictInv, PrefillFromPipeline
  PROVE  VerdictInv'
<1>1. PICK open \in scans : Prefill({}, Exposed(open), "pipeline_nmap", None)
  BY DEF PrefillFromPipeline
<1>2. UNCHANGED <<device, collected, scans, analyses, month>>
  BY DEF PrefillFromPipeline
<1>3. open = device.open
  BY DEF VerdictInv, SourcesHold
<1>4. \A r \in Exposed(open) : \E p \in device.open : <<p, r>> \in NMAP_CONTROL_MAP
  BY <1>3 DEF Exposed, NMAP_CONTROL_MAP
<1>5. \A r \in Exposed(open) :
        VerdictHolds(r, [status |-> "non_compliant", by |-> "pipeline_nmap", of |-> None])
  BY <1>4 DEF VerdictHolds
<1>6. QED
  BY <1>1, <1>2, <1>5, PrefillKeeps

\* or from the analysis of a configuration.
LEMMA PrefillFromConfigKeeps ==
  ASSUME VerdictInv, PrefillFromConfig
  PROVE  VerdictInv'
<1>1. PICK findings \in analyses :
        Prefill(FINDING_CONTROL_MAP \ Matching(device.kind, findings),
                Matching(device.kind, findings), "config_parser", None)
  BY DEF PrefillFromConfig
<1>2. UNCHANGED <<device, collected, scans, analyses, month>>
  BY DEF PrefillFromConfig
<1>3. findings = device.flaws
  BY DEF VerdictInv, SourcesHold
<1> DEFINE matched == Matching(device.kind, findings)
           v(r) == [status |-> IF r \in FINDING_CONTROL_MAP \ matched
                               THEN "compliant" ELSE "non_compliant",
                    by |-> "config_parser", of |-> None]
<1>4. ASSUME NEW r \in Framework(device.kind), device.kind = "fortigate"
      PROVE  v(r).status = "compliant" <=> \A f \in device.flaws : Flaws("fortigate")[f] # r
  <2>1. r \in FINDING_CONTROL_MAP
    BY <1>4 DEF Framework
  <2>2. matched = {Flaws("fortigate")[f] : f \in device.flaws}
    BY <1>3, <1>4 DEF Matching, Unmatched
  <2>3. QED
    BY <2>1, <2>2
<1>5. \A r \in Framework(device.kind) : VerdictHolds(r, v(r))
  BY <1>4 DEF VerdictHolds
<1>6. QED
  BY <1>1, <1>2, <1>5, PrefillKeeps

-----------------------------------------------------------------------------
\* Every step keeps the invariant.
LEMMA VerdictInvNext == VerdictInv /\ [VerdictNext]_verdictVars => VerdictInv'
<1> SUFFICES ASSUME VerdictInv, [VerdictNext]_verdictVars PROVE VerdictInv'
  OBVIOUS
<1>1. CASE \E c \in Collects : CollectStep(c)
  <2>1. PICK c \in Collects : CollectStep(c)
    BY <1>1
  <2>2. QED
    BY <2>1, CreateByAuditorKeeps, CreateByPipelineKeeps, HydrateOKKeeps, HydrateFailedKeeps,
       RemoveCollectKeeps, PrefillFromCollectKeeps DEF CollectStep
<1>2. CASE ScanEnds
  BY <1>2, ScanEndsKeeps
<1>3. CASE PrefillFromPipeline
  BY <1>3, PrefillFromPipelineKeeps
<1>4. CASE UploadConfig
  BY <1>4, UploadConfigKeeps
<1>5. CASE PrefillFromConfig
  BY <1>5, PrefillFromConfigKeeps
<1>6. CASE MonthPasses
  BY <1>6, MonthPassesKeeps
<1>7. CASE UNCHANGED verdictVars
  BY <1>7 DEF VerdictInv, verdictVars, DeviceHolds, CollectsHold, CollectHolds, Brought,
              SourcesHold, VerdictsHold, VerdictHolds
<1>8. QED
  BY <1>1, <1>2, <1>3, <1>4, <1>5, <1>6, <1>7 DEF VerdictNext

\* The invariant always holds.
LEMMA VerdictInvAlways == VerdictSpec => []VerdictInv
BY VerdictInvInit, VerdictInvNext, PTL DEF VerdictSpec

\* The records of the collects and of the verdicts keep their shape, and the method
\* of a collect is that of its profile.
THEOREM VerdictTypesHold == VerdictSpec => []VerdictTypes
<1>1. VerdictInv => VerdictTypes
  <2> SUFFICES ASSUME VerdictInv PROVE VerdictTypes
    OBVIOUS
  <2>1. ASSUME NEW c \in Collects, collected[c] \notin {NoCollect, Deleted}
        PROVE  /\ collected[c].status \in {"running", "success", "failed"}
               /\ collected[c].profile \in Range(ProfileOf) \ {None}
               /\ collected[c].method \in {"ssh", "winrm"}
               /\ collected[c].method = "winrm" <=> collected[c].profile = "windows_server"
               /\ "findings" \in DOMAIN collected[c] <=> collected[c].status = "success"
    <3>1. CollectHolds(collected[c])
      BY DEF VerdictInv, CollectsHold
    <3>2. Profiled(device.kind, collected[c].profile, collected[c].method)
      BY <2>1, <3>1 DEF CollectHolds
    <3>3. {"linux_server", "windows_server", "opnsense", "fortigate"}
            \subseteq Range(ProfileOf) \ {None}
      BY DEF Range, ProfileOf, None
    <3>4. QED
      BY <2>1, <3>1, <3>2, <3>3 DEF CollectHolds, Profiled, MethodOf
  <2>2. scans \subseteq SUBSET Ports /\ analyses \subseteq SUBSET DOMAIN Flaws(device.kind)
    BY DEF VerdictInv, DeviceHolds, SourcesHold
  <2>3. ASSUME NEW r \in DOMAIN verdicts
        PROVE  /\ verdicts[r].status \in {"not_assessed", "compliant", "non_compliant"}
               /\ verdicts[r].by \in {None, "collect", "pipeline_nmap", "config_parser"}
               /\ verdicts[r] = NotAssessed <=> verdicts[r].by = None
    BY DEF VerdictInv, VerdictsHold, VerdictHolds, NotAssessed, None
  <2>4. device.kind \in Kinds /\ month \in 0 .. 1 /\ DOMAIN verdicts = Framework(device.kind)
    BY DEF VerdictInv, DeviceHolds, SourcesHold, VerdictsHold
  <2>5. QED
    BY <2>1, <2>2, <2>3, <2>4 DEF VerdictTypes
<1>2. QED
  BY <1>1, VerdictInvAlways, PTL

\* What the invariant says of a collect that succeeded.
LEMMA SucceededHolds ==
  ASSUME VerdictInv, NEW c \in Succeeded
  PROVE  /\ collected[c].identified /\ device.kind \in {"linux", "windows", "opnsense"}
             => collected[c].profile = ProfileOf[device.kind]
         /\ TellsTruth(device.kind, device.setting, collected[c].read, collected[c].data,
                       collected[c].findings, collected[c].at)
         /\ Unread(device.kind, collected[c].left, collected[c].findings)
<1> DEFINE k == collected[c]
<1>1. k.status = "success" /\ CollectHolds(k)
  BY DEF VerdictInv, CollectsHold, Succeeded
<1>2. /\ Profiled(device.kind, k.profile, k.method) /\ Brought(k)
      /\ k.identified /\ device.kind \in {"linux", "windows", "opnsense"}
             => k.profile = ProfileOf[device.kind]
  BY <1>1, StatusTells
<1>3. Valid(device.kind, device.setting)
  BY DEF VerdictInv, DeviceHolds
<1>4. PICK r \in Readings(device.kind, k.profile, device.setting) :
        /\ k.data = r.data /\ k.read = r.read /\ k.left = r.left
        /\ k.findings = Findings(k.profile, k.method, r.data, k.at)
  BY <1>2 DEF Brought
<1>5. /\ TellsTruth(device.kind, device.setting, r.read, r.data,
                    Findings(k.profile, k.method, r.data, k.at), k.at)
      /\ Unread(device.kind, r.left, Findings(k.profile, k.method, r.data, k.at))
  BY <1>2, <1>3, CollectsAreHonest
<1>6. QED
  BY <1>2, <1>4, <1>5

\* However many settings of the device are poor and whatever the number of its
\* collects, a finding is true of the device, but for the settings in Misjudged; and
\* a host that the scan identified is collected as what it is.
THEOREM FindingsAreAlwaysTrue == VerdictSpec => []FindingsAreTrue
<1>1. VerdictInv => FindingsAreTrue
  BY SucceededHolds DEF FindingsAreTrue, TellsTruth
<1>2. QED
  BY <1>1, VerdictInvAlways, PTL

\* Whatever command the time ran out on, or the session was lost at, what could not
\* be read is a finding, but for the checks in ClearedUnread.
THEOREM UnreadIsAlwaysFlagged == VerdictSpec => []UnreadIsFlagged
<1>1. VerdictInv => UnreadIsFlagged
  BY SucceededHolds DEF UnreadIsFlagged, Unread
<1>2. QED
  BY <1>1, VerdictInvAlways, PTL

\* A verdict says what its source says, whatever was prefilled before it, and in
\* whatever order the sources came.
THEOREM VerdictsAlwaysHaveASource == VerdictSpec => []VerdictsHaveASource
<1>1. VerdictInv => VerdictsHaveASource
  <2> SUFFICES ASSUME VerdictInv, NEW r \in DOMAIN verdicts
               PROVE  LET v == verdicts[r]
                      IN  /\ v.by = "collect" /\ v.of \in Succeeded /\ r # "WSRV-002"
                               => (v.status = "non_compliant" <=> r \in collected[v.of].findings)
                          /\ v.by = "pipeline_nmap" =>
                               /\ v.status = "non_compliant"
                               /\ \E p \in device.open : <<p, r>> \in NMAP_CONTROL_MAP
                          /\ v.by = "config_parser" /\ device.kind = "fortigate" =>
                               (v.status = "compliant"
                                  <=> \A f \in device.flaws : Flaws("fortigate")[f] # r)
    BY DEF VerdictsHaveASource
  <2>1. VerdictHolds(r, verdicts[r])
    BY DEF VerdictInv, VerdictsHold
  <2>2. QED
    BY <2>1 DEF VerdictHolds, NotAssessed, Succeeded, Deleted, None
<1>2. QED
  BY <1>1, VerdictInvAlways, PTL

=============================================================================
