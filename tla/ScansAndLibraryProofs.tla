------------------------ MODULE ScansAndLibraryProofs ------------------------
(***************************************************************************)
(* The safety properties of ScanJobs, for any scans of any kinds and any   *)
(* number of stops of the backend, and of Frameworks, for any versions,    *)
(* contents and order of the files. The two share no state.                *)
(*                                                                         *)
(* ScanJobs. That a success was earned is not inductive: a row is marked   *)
(* from what the run returned, long after the process ended. EarnedHolds   *)
(* says it of the run instead of the row, and OutcomeIsLate that nothing   *)
(* starts or ends a process any more once the run has returned.            *)
(* ScanJobs implements ScanRows: RequestHolds says of the requests in      *)
(* flight what the mapping needs, and each step is a step of ScanRows or   *)
(* none.                                                                   *)
(*                                                                         *)
(* Frameworks. A start is a loop over the files. What the loop keeps is    *)
(* proved of one file (ImportGood, ImportDone) and carried along the loop  *)
(* by induction on the number of files read. The prover has no induction   *)
(* to cite for a set that depends on the state: IntervalInduction takes    *)
(* the least counterexample from the well-founded order of the subsets of  *)
(* an interval.                                                            *)
(***************************************************************************)
EXTENDS ScanJobs, Frameworks, FiniteSetTheorems, WellFoundedInduction, TLAPS

-----------------------------------------------------------------------------
\* ScanJobs.

\* Only a stream is marked RUNNING again, only a local job has no except clause that
\* writes and is between Popen and on_process_start.
KindHolds ==
  \A s \in Scans : /\ job[s] = "marked" => Kind[s] = "stream"
                   /\ job[s] \in {"raised", "refused"} => Kind[s] # "local"
                   /\ job[s] = "spawned" => Kind[s] = "local"
                   /\ job[s] = "waiting" => Kind[s] # "ad"

\* A run has an outcome once it has returned or raised.
OutcomeIsLate ==
  \A s \in Scans : outcome[s] # "none" =>
    job[s] \in {"returned", "raised", "refused", "final", "over"}

\* A process that ended well belongs to a job that waits for it or is past it.
EarnedHolds ==
  \A s \in Scans : outcome[s] = "succeeded" =>
    /\ Kind[s] # "ad" => proc[s] = "succeeded"
    /\ Kind[s] = "stream" => told[s] = "complete"

\* A row says SUCCESS only of a run that succeeded, and of a job that is over.
SuccessHolds ==
  \A s \in Scans : row[s] = "SUCCESS" => outcome[s] = "succeeded" /\ job[s] = "over"

\* The inductive invariant.
ScanInv == TypeOK /\ KindHolds /\ OutcomeIsLate /\ EarnedHolds /\ SuccessHolds

\* The initial state satisfies the inductive invariant: nothing was launched.
LEMMA ScanInvInit == Init => ScanInv
BY KindAssumption, BoundsAssumption
   DEF Init, ScanInv, TypeOK, KindHolds, OutcomeIsLate, EarnedHolds, SuccessHolds,
       Ended, Ongoing, Living

\* Each request, with its handler's commit, preserves the invariant: none of
\* them gives a row the status SUCCESS or touches what the run returned.
LEMMA RequestInv ==
  ASSUME ScanInv, NEW s \in Scans, Request(s) \/ Handler(s)
  PROVE  ScanInv'
<1> USE KindAssumption DEF ScanInv, TypeOK, Ended, Ongoing, Living, KindHolds, OutcomeIsLate,
        EarnedHolds, SuccessHolds, history
<1>1. CASE Launch(s)
  BY <1>1 DEF Launch, MayLaunch, FirstStatus
<1>2. CASE LaunchOpen(s)
  BY <1>2 DEF LaunchOpen, MayLaunch, Steps
<1>3. CASE Cancel(s)
  BY <1>3 DEF Cancel
<1>4. CASE Delete(s)
  BY <1>4 DEF Delete
<1>5. CASE Submit(s)
  BY <1>5 DEF Submit, Steps
<1>6. CASE LaunchCommit(s)
  BY <1>6 DEF LaunchCommit, FirstStatus
<1>7. CASE CancelCommit(s)
  BY <1>7 DEF CancelCommit
<1>8. CASE RequestRefused(s)
  BY <1>8 DEF RequestRefused
<1>9. QED
  BY <1>1, <1>2, <1>3, <1>4, <1>5, <1>6, <1>7, <1>8 DEF Request, Handler

\* Each step of a job preserves the invariant.
LEMMA JobInv ==
  ASSUME ScanInv, NEW s \in Scans, Job(s)
  PROVE  ScanInv'
<1> USE KindAssumption DEF ScanInv, TypeOK, Ended, Ongoing, Living, KindHolds, OutcomeIsLate,
        EarnedHolds, SuccessHolds, Steps, history
<1>1. CASE Start(s)
  BY <1>1 DEF Start
<1>2. CASE MarkRunning(s)
  BY <1>2 DEF MarkRunning
<1>3. CASE Spawn(s)
  BY <1>3 DEF Spawn, Ready
<1>4. CASE Register(s)
  BY <1>4 DEF Register
<1>5. CASE NoSpawn(s)
  BY <1>5 DEF NoSpawn, Ready
<1>6. CASE Return(s)
  BY <1>6 DEF Return
<1>7. CASE Timeout(s)
  BY <1>7 DEF Timeout, Expired
<1>8. CASE Audit(s)
  BY <1>8 DEF Audit
<1>9. CASE FinalRead(s)
  BY <1>9 DEF FinalRead
<1>10. CASE FinalCommit(s)
  BY <1>10 DEF FinalCommit
<1>11. CASE Raise(s)
  BY <1>11 DEF Raise
<1>12. CASE CommitRaises(s)
  BY <1>12 DEF CommitRaises
<1>13. CASE FinalRefused(s)
  BY <1>13 DEF FinalRefused
<1>14. QED
  BY <1>1, <1>2, <1>3, <1>4, <1>5, <1>6, <1>7, <1>8, <1>9, <1>10, <1>11, <1>12, <1>13 DEF Job

\* So do the process and the stop of the backend, which end processes that
\* were alive.
LEMMA EnvironmentInv ==
  ASSUME ScanInv, (\E s \in Scans : Process(s)) \/ Crash
  PROVE  ScanInv'
<1> USE KindAssumption, BoundsAssumption
    DEF ScanInv, TypeOK, Ended, Ongoing, Living, KindHolds, OutcomeIsLate, EarnedHolds,
        SuccessHolds, history
<1>1. ASSUME NEW s \in Scans, DeviceCode(s)
      PROVE  ScanInv'
  BY <1>1 DEF DeviceCode
<1>2. ASSUME NEW s \in Scans, Mute(s) \/ Exit(s)
      PROVE  ScanInv'
  BY <1>2 DEF Mute, Exit
<1>3. CASE Crash
  BY <1>3 DEF Crash
<1>4. QED
  BY <1>1, <1>2, <1>3 DEF Process

\* The invariant holds in every reachable state.
LEMMA InvIsInductive == Spec => []ScanInv
<1>1. ScanInv /\ [Next]_vars => ScanInv'
  <2> SUFFICES ASSUME ScanInv, [Next]_vars
               PROVE  ScanInv'
    OBVIOUS
  <2>1. CASE UNCHANGED vars
    BY <2>1 DEF ScanInv, TypeOK, KindHolds, OutcomeIsLate, EarnedHolds, SuccessHolds, vars, history
  <2>2. CASE Next
    BY <2>2, RequestInv, JobInv, EnvironmentInv DEF Next
  <2>3. QED
    BY <2>1, <2>2
<1>2. QED
  BY ScanInvInit, <1>1, PTL DEF Spec

\* The types of every variable in every reachable state, and _running_processes
\* holds local jobs that wait for their process and no others
\* (register_process, unregister_process).
THEOREM ScanTypes == Spec => []TypeOK
<1>1. ScanInv => TypeOK
  BY DEF ScanInv
<1>2. QED
  BY InvIsInductive, <1>1, PTL

\* A row that says SUCCESS belongs to a run that ended well, however the
\* cancellations, deletions, timeouts and stops fell (execute_scan_background,
\* the stream's generator, execute_ad_audit_background).
THEOREM SuccessesAreEarned == Spec => []SuccessIsEarned
<1>1. ScanInv => SuccessIsEarned
  BY DEF ScanInv, EarnedHolds, SuccessHolds, SuccessIsEarned
<1>2. QED
  BY InvIsInductive, <1>1, PTL

\* One scan: no step of anybody takes a cancellation back.
LEMMA StepKeepsCancelled ==
  ASSUME TypeOK, [Next]_vars, NEW s \in Scans,
         Kind[s] = "local", row[s] = "CANCELLED", job[s] # "final"
  PROVE  row'[s] \in {"CANCELLED", "absent"} /\ job'[s] # "final"
<1> USE DEF TypeOK
<1>1. ASSUME NEW t \in Scans, Request(t) \/ Handler(t)
      PROVE  row'[s] \in {"CANCELLED", "absent"} /\ job'[s] # "final"
  BY <1>1 DEF Request, Handler, Launch, LaunchOpen, MayLaunch, Cancel, Delete, Submit,
              LaunchCommit, CancelCommit, RequestRefused, Steps
<1>2. ASSUME NEW t \in Scans, Job(t)
      PROVE  row'[s] \in {"CANCELLED", "absent"} /\ job'[s] # "final"
  BY <1>2 DEF Job, Start, MarkRunning, Spawn, Ready, Register, NoSpawn, Return, Timeout,
              Raise, Audit, FinalRead, FinalCommit, CommitRaises, FinalRefused, Steps
<1>3. ASSUME NEW t \in Scans, Process(t)
      PROVE  row'[s] \in {"CANCELLED", "absent"} /\ job'[s] # "final"
  BY <1>3 DEF Process, DeviceCode, Mute, Exit
<1>4. CASE Crash
  BY <1>4 DEF Crash
<1>5. CASE UNCHANGED vars
  BY <1>5 DEF vars
<1>6. QED
  BY <1>1, <1>2, <1>3, <1>4, <1>5 DEF Next

\* A local scan that is cancelled before its job's last look at the row stays
\* cancelled (cancel_scan, execute_scan_background).
THEOREM CancellationsAreKept == Spec => CancelledIsKept
<1>1. TypeOK /\ [Next]_vars
        => [\A s \in Scans :
              Kind[s] = "local" /\ row[s] = "CANCELLED" /\ job[s] # "final"
                => row'[s] \in {"CANCELLED", "absent"} /\ job'[s] # "final"]_vars
  BY StepKeepsCancelled
<1>2. QED
  BY ScanTypes, <1>1, PTL DEF Spec, CancelledIsKept

-----------------------------------------------------------------------------
\* ScanJobs implements ScanRows.

\* A launch in flight has not committed, so its job has found no row if it looked;
\* an audit is not cancelled.
RequestHolds ==
  \A s \in Scans :
    /\ Kind[s] = "local" /\ req[s] = "launch" => job[s] = "none"
    /\ Kind[s] = "ad" /\ req[s] = "launch" =>
         row[s] = "absent" /\ job[s] \in {"submitted", "lost", "raised", "over"}
    /\ Kind[s] = "ad" => req[s] # "cancel" /\ row[s] # "CANCELLED"

LEMMA RequestHoldsInit == Init => RequestHolds
BY KindAssumption DEF Init, RequestHolds

LEMMA RequestHoldsNext ==
  ASSUME TypeOK, KindHolds, RequestHolds, [Next]_vars
  PROVE  RequestHolds'
<1> USE KindAssumption DEF TypeOK, RequestHolds, Ended, Ongoing
<1>1. ASSUME NEW s \in Scans, Request(s)
      PROVE  RequestHolds'
  BY <1>1 DEF Request, Launch, LaunchOpen, MayLaunch, FirstStatus, Cancel, Delete, Steps
<1>2. ASSUME NEW s \in Scans, Handler(s)
      PROVE  RequestHolds'
  BY <1>2 DEF Handler, Submit, LaunchCommit, CancelCommit, RequestRefused, FirstStatus, Steps
<1>3. ASSUME NEW s \in Scans, Job(s)
      PROVE  RequestHolds'
  BY <1>3 DEF KindHolds, Job, Start, MarkRunning, Spawn, Ready, Register, NoSpawn, Return, Timeout,
              Raise, Audit, FinalRead, FinalCommit, CommitRaises, FinalRefused, Steps
<1>4. ASSUME NEW s \in Scans, Process(s)
      PROVE  RequestHolds'
  BY <1>4 DEF Process, DeviceCode, Mute, Exit
<1>5. CASE Crash
  BY <1>5 DEF Crash
<1>6. CASE UNCHANGED vars
  BY <1>6 DEF vars
<1>7. QED
  BY <1>1, <1>2, <1>3, <1>4, <1>5, <1>6 DEF Next

\* The initial states map to one another.
LEMMA InitRows == Init => Rows!Init
BY DEF Init, Rows!Init, Minded, Verdict

\* What a step changes of one scan, in the terms of ScanRows.
Only(s) ==
  \A t \in Scans \ {s} : row'[t] = row[t] /\ req'[t] = req[t] /\ job'[t] = job[t]

Becomes(s, to, verdict) ==
  /\ Only(s)
  /\ row'[s] = to
  /\ Verdict(s)' = verdict

LEMMA MappedRows ==
  ASSUME TypeOK, NEW s \in Minded, Only(s)
  PROVE  /\ [t \in Minded |-> row'[t]] = [[t \in Minded |-> row[t]] EXCEPT ![s] = row'[s]]
         /\ [t \in Minded |-> Verdict(t)']
              = [[t \in Minded |-> Verdict(t)] EXCEPT ![s] = Verdict(s)']
         /\ row'[s] = row[s] => [t \in Minded |-> row'[t]] = [t \in Minded |-> row[t]]
         /\ Verdict(s)' = Verdict(s) =>
              [t \in Minded |-> Verdict(t)'] = [t \in Minded |-> Verdict(t)]
         /\ (req'[s] = "cancel" <=> req[s] = "cancel") =>
              {t \in Minded : req'[t] = "cancel"} = {t \in Minded : req[t] = "cancel"}
<1>1. \A t \in Minded \ {s} : row'[t] = row[t] /\ Verdict(t)' = Verdict(t)
                              /\ req'[t] = req[t]
  BY DEF Only, Verdict, Minded
<1>2. QED
  BY <1>1

\* A step that leaves the row, the cancellation and the verdict of a scan.
LEMMA QuietRows ==
  ASSUME TypeOK, NEW s \in Scans, Only(s),
         s \in Minded => /\ row'[s] = row[s] /\ Verdict(s)' = Verdict(s)
                         /\ req'[s] = "cancel" <=> req[s] = "cancel"
  PROVE  UNCHANGED Rows!vars
<1>1. \A t \in Minded : row'[t] = row[t] /\ Verdict(t)' = Verdict(t)
                        /\ (req'[t] = "cancel" <=> req[t] = "cancel")
  BY DEF Only, Verdict, Minded
<1>2. QED
  BY <1>1 DEF Rows!vars, Minded

\* A request and its commit: Launch, Ask, Cancel and Delete.
LEMMA RequestRows ==
  ASSUME TypeOK, RequestHolds, NEW s \in Scans, Request(s) \/ Handler(s)
  PROVE  [Rows!Next]_(Rows!vars)
<1> USE KindAssumption DEF TypeOK, Ended, Ongoing
<1>0. CASE s \notin Minded
  <2>1. Only(s)
    BY DEF Only, Request, Handler, Launch, LaunchOpen, MayLaunch, Cancel, Delete, Submit,
           LaunchCommit, CancelCommit, RequestRefused, Steps
  <2>2. QED
    BY <1>0, <2>1, QuietRows
<1>1. CASE s \in Minded /\ Launch(s)
  <2>1. Becomes(s, "RUNNING", "none") /\ Verdict(s) = "none" /\ row[s] = "absent"
        /\ req[s] = "none" /\ req'[s] = "launch"
    BY <1>1 DEF Launch, MayLaunch, Becomes, Only, Verdict, FirstStatus
  <2>2. /\ [t \in Minded |-> row'[t]] = [[t \in Minded |-> row[t]] EXCEPT ![s] = "RUNNING"]
        /\ [t \in Minded |-> Verdict(t)'] = [t \in Minded |-> Verdict(t)]
        /\ {t \in Minded : req'[t] = "cancel"} = {t \in Minded : req[t] = "cancel"}
    BY <1>1, <2>1, MappedRows DEF Becomes
  <2>3. Rows!Launch(s)
    BY <1>1, <2>1, <2>2 DEF Rows!Launch, Rows!Ongoing
  <2>4. QED
    BY <1>1, <2>3 DEF Rows!Next
<1>2. CASE s \in Minded /\ LaunchCommit(s)
  <2>1. Becomes(s, "RUNNING", Verdict(s)) /\ Verdict(s) # "due" /\ row[s] = "absent"
        /\ req[s] = "launch" /\ req'[s] = "none"
    BY <1>2 DEF LaunchCommit, Becomes, Only, Verdict, FirstStatus, RequestHolds, Minded
  <2>2. /\ [t \in Minded |-> row'[t]] = [[t \in Minded |-> row[t]] EXCEPT ![s] = "RUNNING"]
        /\ [t \in Minded |-> Verdict(t)'] = [t \in Minded |-> Verdict(t)]
        /\ {t \in Minded : req'[t] = "cancel"} = {t \in Minded : req[t] = "cancel"}
    BY <1>2, <2>1, MappedRows DEF Becomes
  <2>3. Rows!Launch(s)
    BY <1>2, <2>1, <2>2 DEF Rows!Launch, Rows!Ongoing
  <2>4. QED
    BY <1>2, <2>3 DEF Rows!Next
<1>3. CASE s \in Minded /\ Cancel(s)
  <2>1. Becomes(s, row[s], Verdict(s)) /\ row[s] \in {"AUTHENTICATING", "RUNNING"}
        /\ req[s] = "none" /\ req'[s] = "cancel"
    BY <1>3 DEF Cancel, Becomes, Only, Verdict
  <2>2. {t \in Minded : req'[t] = "cancel"} = {t \in Minded : req[t] = "cancel"} \cup {s}
    BY <1>3, <2>1 DEF Becomes, Only, Minded
  <2>3. Rows!Ask(s)
    BY <1>3, <2>1, <2>2, MappedRows DEF Becomes, Rows!Ask, Rows!Ongoing
  <2>4. QED
    BY <1>3, <2>3 DEF Rows!Next
<1>4. CASE s \in Minded /\ CancelCommit(s)
  <2>1. /\ Becomes(s, IF row[s] = "absent" THEN "absent" ELSE "CANCELLED", Verdict(s))
        /\ req[s] = "cancel" /\ req'[s] = "none"
    BY <1>4 DEF CancelCommit, Becomes, Only, Verdict
  <2>2. {t \in Minded : req'[t] = "cancel"} = {t \in Minded : req[t] = "cancel"} \ {s}
    BY <1>4, <2>1 DEF Becomes, Only, Minded
  <2>3. Rows!Cancel(s)
    BY <1>4, <2>1, <2>2, MappedRows DEF Becomes, Rows!Cancel
  <2>4. QED
    BY <1>4, <2>3 DEF Rows!Next
<1>5. CASE s \in Minded /\ Delete(s) /\ row' # row
  <2>1. Becomes(s, "absent", Verdict(s)) /\ row[s] # "absent" /\ req'[s] = req[s]
    BY <1>5 DEF Delete, Becomes, Only, Verdict
  <2>2. /\ [t \in Minded |-> row'[t]] = [[t \in Minded |-> row[t]] EXCEPT ![s] = "absent"]
        /\ [t \in Minded |-> Verdict(t)'] = [t \in Minded |-> Verdict(t)]
        /\ {t \in Minded : req'[t] = "cancel"} = {t \in Minded : req[t] = "cancel"}
    BY <1>5, <2>1, MappedRows DEF Becomes
  <2>3. Rows!Delete(s)
    BY <1>5, <2>1, <2>2 DEF Rows!Delete
  <2>4. QED
    BY <1>5, <2>3 DEF Rows!Next
<1>6. CASE s \in Minded /\ (LaunchOpen(s) \/ Submit(s))
  <2>1. Only(s) /\ row'[s] = row[s] /\ req[s] # "cancel" /\ req'[s] # "cancel"
        /\ job[s] = "none" /\ job'[s] = "submitted"
    BY <1>6 DEF LaunchOpen, Submit, MayLaunch, Steps, Only
  <2>2. Verdict(s)' = Verdict(s)
    BY <2>1 DEF Verdict
  <2>3. QED
    BY <2>1, <2>2, QuietRows
<1>7. CASE s \in Minded /\ Delete(s) /\ row' = row
  <2>1. Only(s) /\ row'[s] = row[s] /\ req' = req /\ job' = job
    BY <1>7 DEF Delete, Only
  <2>2. Verdict(s)' = Verdict(s)
    BY <2>1 DEF Verdict
  <2>3. QED
    BY <2>1, <2>2, QuietRows
<1>8. CASE s \in Minded /\ RequestRefused(s) /\ req[s] = "launch"
  <2>1. Only(s) /\ row'[s] = row[s] /\ req'[s] # "cancel" /\ job' = job
    BY <1>8 DEF RequestRefused, Only
  <2>2. Verdict(s)' = Verdict(s)
    BY <2>1 DEF Verdict
  <2>3. QED
    BY <1>8, <2>1, <2>2, QuietRows
<1>9. CASE s \in Minded /\ RequestRefused(s) /\ req[s] = "cancel"
  <2>1. Becomes(s, row[s], Verdict(s)) /\ req'[s] = "none"
    BY <1>9 DEF RequestRefused, Becomes, Only, Verdict
  <2>2. {t \in Minded : req'[t] = "cancel"} = {t \in Minded : req[t] = "cancel"} \ {s}
    BY <1>9, <2>1 DEF Becomes, Only, Minded
  <2>3. Rows!Drop(s)
    BY <1>9, <2>1, <2>2, MappedRows DEF Becomes, Rows!Drop
  <2>4. QED
    BY <1>9, <2>3 DEF Rows!Next
<1>10. QED
  BY <1>0, <1>1, <1>2, <1>3, <1>4, <1>5, <1>6, <1>7, <1>8, <1>9
     DEF Request, Handler, RequestRefused

\* A job: Look, Write and GiveUp.
LEMMA JobRows ==
  ASSUME TypeOK, KindHolds, RequestHolds, NEW s \in Scans, Job(s)
  PROVE  [Rows!Next]_(Rows!vars)
<1> USE KindAssumption DEF TypeOK, Ended, Ongoing
<1>0. Only(s) /\ req' = req
  BY DEF Only, Job, Start, MarkRunning, Spawn, Ready, Register, NoSpawn, Return, Timeout,
         Raise, Audit, FinalRead, FinalCommit, CommitRaises, FinalRefused, Steps
<1>1. CASE s \notin Minded
  BY <1>0, <1>1, QuietRows
<1>2. CASE s \in Minded /\ row'[s] = row[s] /\ Verdict(s)' = Verdict(s)
  BY <1>0, <1>2, QuietRows
<1>3. CASE s \in Minded /\ row'[s] = row[s] /\ Verdict(s) # "given" /\ Verdict(s)' = "given"
  <2>1. Becomes(s, row[s], "given")
    BY <1>0, <1>3 DEF Becomes
  <2>2. /\ [t \in Minded |-> row'[t]] = [t \in Minded |-> row[t]]
        /\ [t \in Minded |-> Verdict(t)'] = [[t \in Minded |-> Verdict(t)] EXCEPT ![s] = "given"]
        /\ {t \in Minded : req'[t] = "cancel"} = {t \in Minded : req[t] = "cancel"}
    BY <1>0, <1>3, <2>1, MappedRows DEF Becomes
  <2>3. Rows!GiveUp(s)
    BY <1>0, <1>3, <2>1, <2>2 DEF Rows!GiveUp
  <2>4. QED
    BY <1>3, <2>3 DEF Rows!Next
<1>4. CASE /\ s \in Minded /\ row'[s] = row[s] /\ row[s] # "CANCELLED"
           /\ Verdict(s) = "none" /\ Verdict(s)' = "due"
  <2>1. Becomes(s, row[s], "due")
    BY <1>0, <1>4 DEF Becomes
  <2>2. /\ [t \in Minded |-> row'[t]] = [t \in Minded |-> row[t]]
        /\ [t \in Minded |-> Verdict(t)'] = [[t \in Minded |-> Verdict(t)] EXCEPT ![s] = "due"]
        /\ {t \in Minded : req'[t] = "cancel"} = {t \in Minded : req[t] = "cancel"}
    BY <1>0, <1>4, <2>1, MappedRows DEF Becomes
  <2>3. Rows!Look(s)
    BY <1>0, <1>4, <2>1, <2>2 DEF Rows!Look
  <2>4. QED
    BY <1>4, <2>3 DEF Rows!Next
<1>5. CASE /\ s \in Minded /\ Verdict(s) = "due" /\ Verdict(s)' = "given"
           /\ \/ row[s] = "absent" /\ row'[s] = row[s]
              \/ row[s] # "absent" /\ row'[s] \in {"SUCCESS", "FAILED"}
  <2>1. Becomes(s, row'[s], "given")
    BY <1>0, <1>5 DEF Becomes
  <2>2. /\ [t \in Minded |-> row'[t]] = [[t \in Minded |-> row[t]] EXCEPT ![s] = row'[s]]
        /\ [t \in Minded |-> Verdict(t)'] = [[t \in Minded |-> Verdict(t)] EXCEPT ![s] = "given"]
        /\ {t \in Minded : req'[t] = "cancel"} = {t \in Minded : req[t] = "cancel"}
    BY <1>0, <1>5, <2>1, MappedRows DEF Becomes
  <2>3. \/ row[s] = "absent" /\ [t \in Minded |-> row'[t]] = [t \in Minded |-> row[t]]
        \/ row[s] # "absent" /\ \E e \in {"SUCCESS", "FAILED"} :
             [t \in Minded |-> row'[t]] = [[t \in Minded |-> row[t]] EXCEPT ![s] = e]
    <3>1. CASE row[s] = "absent" /\ row'[s] = row[s]
      BY <1>0, <1>5, <3>1, MappedRows
    <3>2. CASE row[s] # "absent" /\ row'[s] \in {"SUCCESS", "FAILED"}
      BY <2>2, <3>2
    <3>3. QED
      BY <1>5, <3>1, <3>2
  <2>4. [t \in Minded |-> row[t]][s] = row[s] /\ [t \in Minded |-> Verdict(t)][s] = "due"
    BY <1>5
  <2>5. Rows!Write(s)
    BY <2>2, <2>3, <2>4 DEF Rows!Write
  <2>6. QED
    BY <1>5, <2>5 DEF Rows!Next
<1>6. ASSUME s \in Minded
      PROVE  \/ row'[s] = row[s] /\ Verdict(s)' = Verdict(s)
             \/ row'[s] = row[s] /\ Verdict(s) # "given" /\ Verdict(s)' = "given"
             \/ /\ row'[s] = row[s] /\ row[s] # "CANCELLED"
                /\ Verdict(s) = "none" /\ Verdict(s)' = "due"
             \/ /\ Verdict(s) = "due" /\ Verdict(s)' = "given"
                /\ \/ row[s] = "absent" /\ row'[s] = row[s]
                   \/ row[s] # "absent" /\ row'[s] \in {"SUCCESS", "FAILED"}
  <2> USE <1>6 DEF Minded, Verdict, Steps, KindHolds, RequestHolds
  <2>1. CASE Start(s)
    BY <2>1 DEF Start
  <2>2. CASE Spawn(s) \/ Register(s) \/ NoSpawn(s)
    BY <2>2 DEF Spawn, Ready, Register, NoSpawn
  <2>3. CASE Return(s) \/ Timeout(s)
    BY <2>3 DEF Return, Timeout
  <2>4. CASE Audit(s)
    BY <2>4 DEF Audit
  <2>5. CASE FinalRead(s)
    BY <2>5 DEF FinalRead
  <2>6. CASE FinalCommit(s)
    BY <2>6 DEF FinalCommit
  <2>7. CASE MarkRunning(s)
    BY <2>7 DEF MarkRunning
  <2>8. CASE Raise(s)
    BY <2>8 DEF Raise
  <2>9. CASE CommitRaises(s) \/ FinalRefused(s)
    BY <2>9 DEF CommitRaises, FinalRefused
  <2>10. QED
    BY <2>1, <2>2, <2>3, <2>4, <2>5, <2>6, <2>7, <2>8, <2>9 DEF Job
<1>7. QED
  BY <1>1, <1>2, <1>3, <1>4, <1>5, <1>6

\* The process and the browser are not seen, the stop is the stop.
LEMMA EnvironmentRows ==
  ASSUME TypeOK, (\E s \in Scans : Process(s)) \/ Crash \/ UNCHANGED vars
  PROVE  [Rows!Next]_(Rows!vars)
<1>1. CASE (\E s \in Scans : Process(s)) \/ UNCHANGED vars
  <2>1. UNCHANGED <<row, req, job>>
    BY <1>1 DEF Process, DeviceCode, Mute, Exit, vars
  <2>2. QED
    BY <2>1 DEF Rows!vars, Verdict, Minded
<1>2. CASE Crash
  <2> DEFINE begun == {s \in Minded : job[s] # "none"}
  <2>1. [s \in Minded |-> row'[s]] = [s \in Minded |-> row[s]]
    BY <1>2 DEF Crash
  <2>2. {s \in Minded : req'[s] = "cancel"} = {}
    BY <1>2 DEF Crash, Minded
  <2>3. \A s \in Minded : Verdict(s)' = IF s \in begun THEN "given" ELSE Verdict(s)
    BY <1>2 DEF Crash, Minded, Verdict
  <2>4. \A s \in Minded : Verdict(s) = "due" => s \in begun
    BY DEF Verdict
  <2>5. Rows!Stop
    BY <2>1, <2>2, <2>3, <2>4 DEF Rows!Stop, Minded
  <2>6. QED
    BY <2>5 DEF Rows!Next
<1>3. QED
  BY <1>1, <1>2

\* A step of anybody is a step of ScanRows or none.
LEMMA StepRows ==
  ASSUME TypeOK, KindHolds, RequestHolds, [Next]_vars
  PROVE  [Rows!Next]_(Rows!vars)
<1>1. ASSUME NEW s \in Scans, Request(s) \/ Handler(s)
      PROVE  [Rows!Next]_(Rows!vars)
  BY <1>1, RequestRows
<1>2. ASSUME NEW s \in Scans, Job(s)
      PROVE  [Rows!Next]_(Rows!vars)
  BY <1>2, JobRows
<1>3. CASE (\E s \in Scans : Process(s)) \/ Crash \/ UNCHANGED vars
  BY <1>3, EnvironmentRows
<1>4. QED
  BY <1>1, <1>2, <1>3 DEF Next

\* ScanJobs implements ScanRows for the scans that are not streamed: whatever the
\* cancellations, deletions, timeouts and stops, a row changes only as a launch, a
\* deletion, a request to cancel or the last word of its job allows (cancel_scan,
\* execute_scan_background, execute_ad_audit_background).
THEOREM ScansKeepRows == Spec => RowsAreKept
<1>1. ScanInv => TypeOK /\ KindHolds
  BY DEF ScanInv
<1>2. TypeOK /\ KindHolds /\ RequestHolds /\ [Next]_vars => RequestHolds'
  BY RequestHoldsNext
<1>3. TypeOK /\ KindHolds /\ RequestHolds /\ [Next]_vars => [Rows!Next]_(Rows!vars)
  BY StepRows
<1>4. QED
  BY InvIsInductive, <1>1, RequestHoldsInit, <1>2, InitRows, <1>3, PTL
     DEF Spec, RowsAreKept, Rows!Spec

-----------------------------------------------------------------------------
\* Frameworks.

\* Induction along an interval of the naturals.
LEMMA IntervalInduction ==
  ASSUME NEW n \in Nat, NEW good, 0 \in good,
         \A i \in 1 .. n : i - 1 \in good => i \in good
  PROVE  \A i \in 0 .. n : i \in good
<1> DEFINE bad == {i \in 0 .. n : i \notin good}
           below == {0 .. i : i \in bad}
<1>1. IsWellFoundedOn(StrictSubsetOrdering(0 .. n), FiniteSubsetsOf(0 .. n))
  BY FS_StrictSubsetOrderingWellFounded
<1>2. below \subseteq FiniteSubsetsOf(0 .. n)
  <2>1. ASSUME NEW i \in bad
        PROVE  0 .. i \in SUBSET (0 .. n) /\ IsFiniteSet(0 .. i)
    BY FS_Interval
  <2>2. QED
    BY <2>1 DEF FiniteSubsetsOf
<1>3. SUFFICES ASSUME below # {}
               PROVE  FALSE
  OBVIOUS
<1>4. PICK x \in below : \A y \in below : <<y, x>> \notin StrictSubsetOrdering(0 .. n)
  <2> HIDE DEF below
  <2> QED
    BY <1>1, <1>2, <1>3, WFMin
<1>5. PICK k \in bad : x = 0 .. k
  BY <1>4
<1>6. k - 1 \in bad
  OBVIOUS
<1>7. 0 .. (k - 1) \in below
  BY <1>6
<1>8. <<0 .. (k - 1), x>> \in StrictSubsetOrdering(0 .. n)
  BY <1>5, <1>6 DEF StrictSubsetOrdering
<1>9. QED
  BY <1>4, <1>7, <1>8

\* The loop over the files, step by step.
LEMMA ReadExists ==
  /\ ReadUpTo[0] = NothingRead
  /\ \A i \in 1 .. Len(Order) : ReadUpTo[i] = ImportFile(ReadUpTo[i - 1], Order[i])
<1> DEFINE n == Len(Order)
           Body(g, i) == [j \in 0 .. i |-> IF j = 0 THEN NothingRead ELSE ImportFile(g[j - 1], Order[j])]
           good == {i \in 0 .. n : \E g : g = Body(g, i)}
<1>1. n \in Nat
  BY OrderAssumption
<1>2. 0 \in good
  <2>1. [j \in 0 .. 0 |-> NothingRead] = Body([j \in 0 .. 0 |-> NothingRead], 0)
    OBVIOUS
  <2>2. \E g : g = Body(g, 0)
    <3> HIDE DEF Body
    <3> QED
      BY <2>1
  <2>3. QED
    BY <1>1, <2>2
<1>3. ASSUME NEW i \in 1 .. n, i - 1 \in good
      PROVE  i \in good
  <2>1. PICK g : g = Body(g, i - 1)
    BY <1>3
  <2> DEFINE h == [j \in 0 .. i |-> IF j = i THEN ImportFile(g[i - 1], Order[i]) ELSE g[j]]
  <2>2. \A j \in 0 .. i : h[j] = IF j = 0 THEN NothingRead ELSE ImportFile(h[j - 1], Order[j])
    <3>1. \A j \in 0 .. i - 1 : h[j] = g[j]
      OBVIOUS
    <3>2. \A j \in 0 .. i - 1 : g[j] = IF j = 0 THEN NothingRead ELSE ImportFile(g[j - 1], Order[j])
      BY <2>1
    <3>3. h[i] = ImportFile(h[i - 1], Order[i])
      BY <3>1
    <3>4. ASSUME NEW j \in 0 .. i
          PROVE  h[j] = IF j = 0 THEN NothingRead ELSE ImportFile(h[j - 1], Order[j])
      <4>1. CASE j = i
        BY <3>3, <4>1
      <4>2. CASE j # i
        <5>1. j \in 0 .. i - 1 /\ (j # 0 => j - 1 \in 0 .. i - 1)
          BY <4>2
        <5> HIDE DEF h
        <5>2. QED
          BY <3>1, <3>2, <5>1
      <4>3. QED
        BY <4>1, <4>2
    <3>5. QED
      BY <3>4
  <2>3. h = Body(h, i)
    <3> HIDE DEF NothingRead
    <3> QED
      BY <2>2
  <2>4. \E f : f = Body(f, i)
    <3> HIDE DEF Body, h
    <3> QED
      BY <2>3
  <2>5. i \in 0 .. n
    BY <1>1
  <2>6. QED
    BY <2>4, <2>5
<1>4. n \in good
  <2> HIDE DEF good, n
  <2>1. \A i \in 0 .. n : i \in good
    BY <1>1, <1>2, <1>3, IntervalInduction
  <2>2. QED
    BY <1>1, <2>1
<1>5. PICK g : g = Body(g, n)
  BY <1>4
<1>6. ReadUpTo = [j \in 0 .. n |-> IF j = 0 THEN NothingRead ELSE ImportFile(ReadUpTo[j - 1], Order[j])]
  BY <1>5 DEF ReadUpTo
<1>7. QED
  BY <1>1, <1>6

\* What a loop may have made of the rows: it keeps every version and what it was
\* cloned from, and does not touch those that are assessed.
Acc == [rows : [Versions -> Row \cup {NoRow}], failed : BOOLEAN]

Good(acc) ==
  /\ acc \in Acc
  /\ \A v \in Versions : Present(v) => /\ acc.rows[v] # NoRow
                                       /\ acc.rows[v].parent = rows[v].parent
  /\ \A v \in Versions : ~Present(v) /\ acc.rows[v] # NoRow => acc.rows[v].parent = None
  /\ \A v \in assessed : acc.rows[v] = rows[v]

\* A file that the loop skips: not there, not readable, or read already.
Done(r, n) ==
  \/ file[n] = NoFile
  \/ file[n].content = "unreadable"
  \/ r[file[n].version] # NoRow /\ r[file[n].version].hash = file[n]

\* As long as nothing was written since a start, the next one skips every file.
AllDone == settled /\ OneFilePerVersion => \A n \in Names : Done(rows, n)

LibraryInv == LibraryTypes /\ AllDone

\* No row and no file are not rows and files; the fields of a row.
LEMMA RowsDiffer ==
  /\ NoRow \notin Row
  /\ NoFile \notin File
  /\ \A r \in Row : r.parent \in Versions \cup {None} /\ r.source \in Names \cup {None}
<1>1. \A r \in Row : DOMAIN r = {"content", "hash", "source", "parent"}
  BY DEF Row
<1>2. DOMAIN NoRow = {"content"}
  BY DEF NoRow
<1>3. \A f \in File : DOMAIN f = {"version", "content", "by"}
  BY DEF File
<1>4. DOMAIN NoFile = {"version"}
  BY DEF NoFile
<1>5. \A r \in Row : r.parent \in Versions \cup {None} /\ r.source \in Names \cup {None}
  BY DEF Row
<1>6. QED
  BY <1>1, <1>2, <1>3, <1>4, <1>5

\* What a file that can be read makes of a row.
LEMMA ImportedRow ==
  ASSUME NEW old \in Row \cup {NoRow}, NEW n \in Names, NEW f \in File, f.content # "unreadable"
  PROVE  /\ Imported(old, n, f) \in Row
         /\ Imported(old, n, f).hash = f
         /\ old # NoRow => Imported(old, n, f).parent = old.parent
         /\ old = NoRow => Imported(old, n, f).parent = None
<1>1. Read(f.content) \in Contents \cup {"partial"}
  BY DEF File, Read, Wrong
<1>2. CASE old = NoRow
  BY <1>1, <1>2 DEF Imported, Row
<1>3. CASE old # NoRow
  <2>1. old \in Row
    BY <1>3
  <2>2. Imported(old, n, f) = [old EXCEPT !.content = Read(f.content), !.hash = f, !.source = n]
    BY <1>3 DEF Imported
  <2>3. QED
    BY <1>1, <1>3, <2>1, <2>2 DEF Row
<1>4. QED
  BY <1>2, <1>3

\* The outcomes of one file: skipped, refused by an assessment, or read.
LEMMA ImportOutcomes ==
  ASSUME LibraryTypes, NEW acc \in Acc, NEW n \in Names
  PROVE  LET f == file[n]
         IN  \/ (acc.failed \/ Done(acc.rows, n)) /\ ImportFile(acc, n) = acc
             \/ /\ ImportFile(acc, n).failed /\ ImportFile(acc, n).rows = acc.rows
                /\ ImportFile(acc, n) \in Acc
             \/ /\ ~acc.failed /\ f \in File /\ f.content # "unreadable"
                /\ acc.rows[f.version] # NoRow => f.version \notin assessed
                /\ ImportFile(acc, n) =
                     [acc EXCEPT !.rows[f.version] = Imported(acc.rows[f.version], n, f)]
<1>1. file[n] = NoFile \/ file[n] \in File
  BY DEF LibraryTypes
<1>2. [acc EXCEPT !.failed = TRUE] \in Acc /\ [acc EXCEPT !.failed = TRUE].failed
      /\ [acc EXCEPT !.failed = TRUE].rows = acc.rows
  BY DEF Acc
<1>3. QED
  BY <1>1, <1>2 DEF ImportFile, Refused, Done

\* What a file that was read leaves.
LEMMA ReadFile ==
  ASSUME LibraryTypes, NEW acc \in Acc, NEW n \in Names, file[n] \in File,
         file[n].content # "unreadable",
         ImportFile(acc, n) =
           [acc EXCEPT !.rows[file[n].version] = Imported(acc.rows[file[n].version], n, file[n])]
  PROVE  LET new == ImportFile(acc, n)
         IN  /\ new \in Acc
             /\ new.failed = acc.failed
             /\ new.rows[file[n].version] = Imported(acc.rows[file[n].version], n, file[n])
             /\ new.rows[file[n].version] \in Row
             /\ \A v \in Versions : v # file[n].version => new.rows[v] = acc.rows[v]
<1> DEFINE new == ImportFile(acc, n)
           u == file[n].version
           x == Imported(acc.rows[u], n, file[n])
<1>1. u \in Versions /\ acc.rows[u] \in Row \cup {NoRow}
  BY DEF File, Acc
<1>2. x \in Row
  BY <1>1, ImportedRow
<1>3. new = [acc EXCEPT !.rows[u] = x]
  OBVIOUS
<1> HIDE DEF x, u, new
<1>4. /\ new \in Acc /\ new.failed = acc.failed /\ new.rows[u] = x
      /\ \A v \in Versions : v # u => new.rows[v] = acc.rows[v]
  BY <1>1, <1>2, <1>3 DEF Acc
<1>5. QED
  BY <1>2, <1>4 DEF x, u, new


\* One file keeps what the loop keeps.
LEMMA ImportGood ==
  ASSUME LibraryTypes, NEW acc, Good(acc), NEW n \in Names
  PROVE  Good(ImportFile(acc, n))
<1> DEFINE new == ImportFile(acc, n)
           u == file[n].version
<1>0. acc \in Acc
  BY DEF Good
<1>1. CASE new = acc
  BY <1>1
<1>2. CASE new.rows = acc.rows /\ new \in Acc
  BY <1>2 DEF Good
<1>3. CASE /\ ~acc.failed /\ file[n] \in File /\ file[n].content # "unreadable"
           /\ acc.rows[u] # NoRow => u \notin assessed
           /\ new = [acc EXCEPT !.rows[u] = Imported(acc.rows[u], n, file[n])]
  <2>1. /\ new \in Acc
        /\ new.rows[u] = Imported(acc.rows[u], n, file[n])
        /\ new.rows[u] \in Row
        /\ \A v \in Versions : v # u => new.rows[v] = acc.rows[v]
    BY <1>0, <1>3, ReadFile
  <2>2. u \in Versions /\ acc.rows[u] \in Row \cup {NoRow}
    BY <1>0, <1>3 DEF File, Acc
  <2>3. /\ acc.rows[u] # NoRow => new.rows[u].parent = acc.rows[u].parent
        /\ acc.rows[u] = NoRow => new.rows[u].parent = None
    BY <1>3, <2>1, <2>2, ImportedRow
  <2>4. u \notin assessed
    BY <1>3 DEF Good, LibraryTypes, Present
  <2>5. QED
    BY <2>1, <2>2, <2>3, <2>4, RowsDiffer DEF Good, LibraryTypes
<1>4. QED
  BY <1>0, <1>1, <1>2, <1>3, ImportOutcomes

\* One file of versions that have no other is skipped from then on, and so is
\* each file that was, unless the session failed.
LEMMA ImportDone ==
  ASSUME LibraryTypes, OneFilePerVersion, NEW acc \in Acc, NEW n \in Names,
         ~ImportFile(acc, n).failed
  PROVE  /\ ~acc.failed
         /\ Done(ImportFile(acc, n).rows, n)
         /\ \A m \in Names : Done(acc.rows, m) => Done(ImportFile(acc, n).rows, m)
<1> DEFINE new == ImportFile(acc, n)
           u == file[n].version
<1>1. CASE (acc.failed \/ Done(acc.rows, n)) /\ new = acc
  BY <1>1
<1>2. CASE /\ ~acc.failed /\ file[n] \in File /\ file[n].content # "unreadable"
           /\ new = [acc EXCEPT !.rows[u] = Imported(acc.rows[u], n, file[n])]
  <2>1. /\ new.rows[u] = Imported(acc.rows[u], n, file[n])
        /\ new.rows[u] \in Row
        /\ \A v \in Versions : v # u => new.rows[v] = acc.rows[v]
    BY <1>2, ReadFile
  <2>2. u \in Versions /\ acc.rows[u] \in Row \cup {NoRow}
    BY <1>2 DEF File, Acc
  <2>3. Done(new.rows, n)
    BY <1>2, <2>1, <2>2, ImportedRow, RowsDiffer DEF Done
  <2>4. ASSUME NEW m \in Names, Done(acc.rows, m)
        PROVE  Done(new.rows, m)
    <3>1. CASE m = n
      BY <2>3, <3>1
    <3>2. CASE m # n /\ file[m] # NoFile
      <4>1. file[m] \in File /\ file[m].version \in Versions
        BY <3>2 DEF LibraryTypes, File
      <4>2. file[m].version # u
        BY <1>2, <3>2, RowsDiffer DEF OneFilePerVersion
      <4>3. QED
        BY <2>1, <2>4, <4>1, <4>2 DEF Done
    <3>3. QED
      BY <3>1, <3>2 DEF Done
  <2>5. QED
    BY <1>2, <2>3, <2>4 DEF new
<1>3. QED
  BY <1>1, <1>2, ImportOutcomes

\* The order of the directory is a sequence of all its names.
LEMMA Length ==
  /\ Len(Order) \in Nat
  /\ \A i \in 1 .. Len(Order) : Order[i] \in Names
  /\ \A n \in Names : \E i \in 1 .. Len(Order) : n = Order[i]
<1>1. Len(Order) \in Nat /\ DOMAIN Order = 1 .. Len(Order)
  BY OrderAssumption
<1>2. QED
  BY <1>1, OrderAssumption DEF ToSet

\* Before the first file is read nothing is wrong.
LEMMA NothingReadGood == LibraryTypes => Good(NothingRead) /\ ~NothingRead.failed /\ NothingRead.rows = rows
BY DEF LibraryTypes, Good, NothingRead, Acc, Present

\* The loop keeps what each file keeps.
LEMMA SyncedGood ==
  ASSUME LibraryTypes
  PROVE  \A i \in 0 .. Len(Order) : Good(ReadUpTo[i])
<1> DEFINE good == {i \in 0 .. Len(Order) : Good(ReadUpTo[i])}
<1>1. 0 \in good
  BY Length, ReadExists, NothingReadGood
<1>2. ASSUME NEW i \in 1 .. Len(Order), i - 1 \in good
      PROVE  i \in good
  BY <1>2, Length, ReadExists, ImportGood
<1>3. \A i \in 0 .. Len(Order) : i \in good
  <2> HIDE DEF good
  <2>1. QED
    BY <1>1, <1>2, Length, IntervalInduction
<1>4. QED
  BY <1>3

\* A loop that did not fail has read every file.
LEMMA SyncedDone ==
  ASSUME LibraryTypes, OneFilePerVersion, ~Synced.failed
  PROVE  \A n \in Names : Done(Synced.rows, n)
<1> DEFINE read(i) == \/ ReadUpTo[i].failed
                      \/ \A j \in 1 .. i : Done(ReadUpTo[i].rows, Order[j])
           good == {i \in 0 .. Len(Order) : read(i)}
<1>1. 0 \in good
  BY Length
<1>2. ASSUME NEW i \in 1 .. Len(Order), i - 1 \in good
      PROVE  i \in good
  <2> DEFINE acc == ReadUpTo[i - 1]
             new == ReadUpTo[i]
  <2>1. new = ImportFile(acc, Order[i]) /\ Order[i] \in Names /\ acc \in Acc
    <3>1. i - 1 \in 0 .. Len(Order)
      BY Length
    <3>2. QED
      BY <3>1, Length, ReadExists, SyncedGood DEF Good
  <2>2. acc.failed \/ \A j \in 1 .. i - 1 : Done(acc.rows, Order[j])
    BY <1>2
  <2> HIDE DEF acc, new
  <2>3. CASE new.failed
    BY <2>3, Length DEF new
  <2>4. CASE ~new.failed
    <3>1. /\ ~acc.failed /\ Done(new.rows, Order[i])
          /\ \A m \in Names : Done(acc.rows, m) => Done(new.rows, m)
      BY <2>1, <2>4, ImportDone
    <3>2. \A j \in 1 .. i : j = i \/ j \in 1 .. i - 1
      BY Length
    <3>3. \A j \in 1 .. i - 1 : Order[j] \in Names
      BY Length
    <3>4. \A j \in 1 .. i : Done(new.rows, Order[j])
      BY <2>2, <3>1, <3>2, <3>3
    <3>5. QED
      BY <3>4, Length DEF new
  <2>5. QED
    BY <2>3, <2>4
<1>3. \A i \in 0 .. Len(Order) : i \in good
  <2> HIDE DEF good
  <2>1. QED
    BY <1>1, <1>2, Length, IntervalInduction
<1>4. read(Len(Order))
  BY <1>3, Length
<1>5. QED
  BY <1>4, Length DEF Synced

\* A loop over files that it all skips changes nothing.
LEMMA SyncedSame ==
  ASSUME LibraryTypes, \A n \in Names : Done(rows, n)
  PROVE  ~Synced.failed /\ Synced.rows = rows
<1> DEFINE good == {i \in 0 .. Len(Order) : ReadUpTo[i] = NothingRead}
<1>1. 0 \in good
  BY Length, ReadExists
<1>2. ASSUME NEW i \in 1 .. Len(Order), i - 1 \in good
      PROVE  i \in good
  <2>1. ReadUpTo[i] = ImportFile(NothingRead, Order[i]) /\ Order[i] \in Names
    BY <1>2, Length, ReadExists
  <2>2. ImportFile(NothingRead, Order[i]) = NothingRead
    BY <2>1, NothingReadGood DEF ImportFile, Done
  <2>3. QED
    BY <2>1, <2>2, Length
<1>3. \A i \in 0 .. Len(Order) : i \in good
  <2> HIDE DEF good
  <2>1. QED
    BY <1>1, <1>2, Length, IntervalInduction
<1>4. QED
  BY <1>3, Length, NothingReadGood DEF Synced


\* The rows that a loop leaves have their types.
LEMMA GoodRows ==
  ASSUME LibraryTypes, NEW acc, Good(acc), rows' = acc.rows
  PROVE  /\ rows' \in [Versions -> Row \cup {NoRow}]
         /\ \A v \in Versions : Present(v) => Present(v)'
         /\ \A v \in Versions : rows'[v] # NoRow /\ rows'[v].parent # None => rows'[rows'[v].parent] # NoRow
<1>1. rows' \in [Versions -> Row \cup {NoRow}]
  BY DEF Good, Acc
<1>2. \A v \in Versions : Present(v) => Present(v)'
  BY DEF Good, Present
<1>3. ASSUME NEW v \in Versions, rows'[v] # NoRow, rows'[v].parent # None
      PROVE  rows'[rows'[v].parent] # NoRow
  <2>1. Present(v) /\ rows'[v].parent = rows[v].parent
    BY <1>3 DEF Good
  <2>2. Present(rows[v].parent) /\ rows[v].parent \in Versions
    BY <1>3, <2>1, RowsDiffer DEF LibraryTypes, Present
  <2>3. QED
    BY <2>1, <2>2 DEF Good
<1>4. QED
  BY <1>1, <1>2, <1>3 DEF Present

\* One file imported by hand,
LEMMA ImportOneGood ==
  ASSUME LibraryTypes, NEW n \in Names
  PROVE  Good(ImportFile(NothingRead, n))
BY NothingReadGood, ImportGood

\* and all of them at a start, leave rows that are right.
LEMMA SyncedIsGood ==
  ASSUME LibraryTypes
  PROVE  Good(Synced)
BY SyncedGood, Length DEF Synced

\* The steps that take rows from the files keep the types.
LEMMA FilesToRows ==
  ASSUME LibraryTypes, Boot \/ SyncFrameworks \/ (\E n \in Names : ImportOne(n))
  PROVE  /\ file' \in [Names -> File \cup {NoFile}]
         /\ rows' \in [Versions -> Row \cup {NoRow}]
         /\ assessed' \subseteq {v \in Versions : Present(v)'}
         /\ \A v \in Versions : rows'[v] # NoRow /\ rows'[v].parent # None => rows'[rows'[v].parent] # NoRow
         /\ phase' \in {"down", "up", "dead"}
         /\ \A v \in assessed : rows'[v] = rows[v]
<1>1. UNCHANGED <<file, assessed>> /\ phase' \in {"down", "up", "dead"}
  BY DEF Boot, SyncFrameworks, ImportOne, LibraryTypes
<1>2. \E acc : Good(acc) /\ rows' = acc.rows
  BY NothingReadGood, SyncedIsGood, ImportOneGood DEF Boot, SyncFrameworks, ImportOne
<1>3. QED
  BY <1>1, <1>2, GoodRows DEF LibraryTypes, Good

\* The editor's: a row gets another content, comes or goes.
LEMMA EditorSteps ==
  ASSUME LibraryTypes, Write
  PROVE  /\ file' \in [Names -> File \cup {NoFile}]
         /\ rows' \in [Versions -> Row \cup {NoRow}]
         /\ assessed' \subseteq {v \in Versions : Present(v)'}
         /\ \A v \in Versions : rows'[v] # NoRow /\ rows'[v].parent # None => rows'[rows'[v].parent] # NoRow
         /\ phase' \in {"down", "up", "dead"}
         /\ \A v \in assessed : rows'[v] = rows[v]
<1> DEFINE Kept == /\ file' \in [Names -> File \cup {NoFile}]
                   /\ rows' \in [Versions -> Row \cup {NoRow}]
                   /\ assessed' \subseteq {v \in Versions : Present(v)'}
                   /\ \A v \in Versions : rows'[v] # NoRow /\ rows'[v].parent # None => rows'[rows'[v].parent] # NoRow
                   /\ phase' \in {"down", "up", "dead"}
                   /\ \A v \in assessed : rows'[v] = rows[v]
<1>1. CASE Edit
  <2>1. file' \in [Names -> File \cup {NoFile}]
    BY <1>1 DEF Edit, LibraryTypes
  <2>2. QED
    BY <1>1, <2>1 DEF Edit, LibraryTypes, Present
<1>2. ASSUME NEW v \in Versions, NEW c \in Contents, CreateFramework(v, c)
      PROVE  Kept
  <2>1. Exported(v, c) \in File /\ v \in Names
    BY DEF Exported, File, Names
  <2>2. file' \in [Names -> File \cup {NoFile}]
    BY <1>2, <2>1 DEF CreateFramework, LibraryTypes
  <2>3. PICK made \in Row : made.parent = None /\ rows' \in {rows, [rows EXCEPT ![v] = made]}
    <3>1. \A source \in {v, None} :
            [content |-> c, hash |-> NoFile, source |-> source, parent |-> None] \in Row
      BY <2>1 DEF Row
    <3>2. QED
      BY <1>2, <3>1 DEF CreateFramework, CommitOrStop
  <2>4. rows' \in [Versions -> Row \cup {NoRow}] /\ \A w \in Versions : Present(w) => rows'[w] = rows[w]
    BY <1>2, <2>3 DEF CreateFramework, LibraryTypes
  <2>5. \A w \in Versions : Present(w) => Present(w)'
    BY <2>4 DEF Present
  <2>6. ASSUME NEW w \in Versions, rows'[w] # NoRow, rows'[w].parent # None
        PROVE  rows'[rows'[w].parent] # NoRow
    <3>1. Present(w) /\ rows'[w] = rows[w]
      BY <2>3, <2>4, <2>6 DEF LibraryTypes, Present
    <3>2. Present(rows[w].parent) /\ rows[w].parent \in Versions
      BY <2>6, <3>1, RowsDiffer DEF LibraryTypes, Present
    <3>3. QED
      BY <2>4, <3>1, <3>2 DEF Present
  <2>7. phase' \in {"down", "up", "dead"} /\ assessed' = assessed
    BY <1>2 DEF CreateFramework, CommitOrStop
  <2>8. QED
    BY <2>2, <2>4, <2>5, <2>6, <2>7 DEF LibraryTypes, Present
<1>3. ASSUME NEW v \in Versions, NEW c \in Contents, UpdateFramework(v, c)
      PROVE  Kept
  <2>1. rows[v] \in Row
    BY <1>3 DEF UpdateFramework, LibraryTypes, Present
  <2>2. Exported(v, c) \in File /\ v \in Names /\ rows[v].source \in Names \cup {None}
    BY <2>1, RowsDiffer DEF Exported, File, Names
  <2>3. file' \in [Names -> File \cup {NoFile}]
    BY <1>3, <2>2 DEF UpdateFramework, LibraryTypes
  <2>4. /\ [rows[v] EXCEPT !.content = c] \in Row
        /\ [rows[v] EXCEPT !.content = c].parent = rows[v].parent
    BY <2>1 DEF Row
  <2>5. /\ rows' \in [Versions -> Row \cup {NoRow}]
        /\ \A w \in Versions : Present(w)' <=> Present(w)
        /\ \A w \in Versions : rows'[w].parent = rows[w].parent
        /\ \A w \in Versions : w # v => rows'[w] = rows[w]
    BY <1>3, <2>1, <2>4, RowsDiffer DEF UpdateFramework, CommitOrStop, LibraryTypes, Present
  <2>6. \A w \in Versions : rows'[w] # NoRow /\ rows'[w].parent # None => rows'[rows'[w].parent] # NoRow
    BY <2>5, RowsDiffer DEF LibraryTypes, Present
  <2>7. phase' \in {"down", "up", "dead"} /\ assessed' = assessed /\ v \notin assessed
    BY <1>3 DEF UpdateFramework, CommitOrStop, Refused
  <2>8. QED
    BY <2>3, <2>5, <2>6, <2>7 DEF LibraryTypes, Present
<1>4. ASSUME NEW v \in Versions, NEW new \in Versions, CloneAsNewVersion(v, new)
      PROVE  Kept
  <2> DEFINE made == [content |-> rows[v].content, hash |-> NoFile, source |-> rows[v].source,
                     parent |-> v]
  <2>1. rows[v] \in Row /\ rows[v] # NoRow /\ rows[new] = NoRow
    BY <1>4 DEF CloneAsNewVersion, LibraryTypes, Present
  <2>2. made \in Row /\ made.parent = v
    BY <2>1 DEF Row
  <2>3. rows' = [rows EXCEPT ![new] = made]
    BY <1>4 DEF CloneAsNewVersion
  <2> HIDE DEF made
  <2>4. /\ rows' \in [Versions -> Row \cup {NoRow}] /\ rows'[new] = made
        /\ \A w \in Versions : w # new => rows'[w] = rows[w]
    BY <2>2, <2>3 DEF LibraryTypes
  <2>5. \A w \in Versions : Present(w) => Present(w)'
    BY <2>1, <2>4 DEF Present
  <2>6. ASSUME NEW w \in Versions, rows'[w] # NoRow, rows'[w].parent # None
        PROVE  rows'[rows'[w].parent] # NoRow
    <3>1. CASE w = new
      BY <2>1, <2>2, <2>4, <3>1
    <3>2. CASE w # new
      <4>1. Present(rows[w].parent) /\ rows[w].parent \in Versions /\ rows'[w] = rows[w]
        BY <2>4, <2>6, <3>2, RowsDiffer DEF LibraryTypes, Present
      <4>2. QED
        BY <2>5, <4>1 DEF Present
    <3>3. QED
      BY <3>1, <3>2
  <2>7. /\ file' = file /\ phase' = phase /\ assessed' = assessed
        /\ \A w \in assessed : w # new
    BY <1>4 DEF CloneAsNewVersion, LibraryTypes
  <2>8. QED
    BY <2>4, <2>5, <2>6, <2>7 DEF LibraryTypes, Present
<1>5. ASSUME NEW v \in Versions, DeleteFramework(v)
      PROVE  Kept
  <2>1. rows[v] \in Row
    BY <1>5 DEF DeleteFramework, LibraryTypes, Present
  <2>2. file' \in [Names -> File \cup {NoFile}]
    BY <1>5, <2>1, RowsDiffer DEF DeleteFramework, LibraryTypes
  <2>3. rows' \in {rows, [rows EXCEPT ![v] = NoRow]}
    BY <1>5 DEF DeleteFramework, CommitOrStop
  <2>4. /\ rows' \in [Versions -> Row \cup {NoRow}]
        /\ \A w \in Versions : w # v => rows'[w] = rows[w]
        /\ rows'[v] \in {rows[v], NoRow}
    BY <2>3 DEF LibraryTypes
  <2>5. ASSUME NEW w \in Versions, rows'[w] # NoRow, rows'[w].parent # None
        PROVE  rows'[rows'[w].parent] # NoRow
    <3>1. rows'[w] = rows[w] /\ rows[w] # NoRow
      BY <2>4, <2>5
    <3>2. rows[w].parent \in Versions /\ Present(rows[w].parent)
      BY <2>5, <3>1, RowsDiffer DEF LibraryTypes, Present
    <3>3. rows[w].parent # v
      BY <1>5, <3>1 DEF DeleteFramework, Present
    <3>4. QED
      BY <2>4, <3>1, <3>2, <3>3 DEF Present
  <2>6. phase' \in {"down", "up", "dead"} /\ assessed' = assessed /\ v \notin assessed
    BY <1>5 DEF DeleteFramework, CommitOrStop, Refused
  <2>7. QED
    BY <2>2, <2>4, <2>5, <2>6 DEF LibraryTypes, Present
<1>6. QED
  BY <1>1, <1>2, <1>3, <1>4, <1>5 DEF Write


\* Assessments come and go, and the backend stops.
LEMMA AroundSteps ==
  ASSUME LibraryTypes, Stop \/ \E v \in Versions : Assess(v) \/ Unassess(v)
  PROVE  /\ assessed' \subseteq {v \in Versions : Present(v)}
         /\ phase' \in {"down", "up", "dead"}
         /\ UNCHANGED <<file, rows>>
BY DEF LibraryTypes, Stop, Assess, Unassess

\* Each step keeps the types, and the rows of the versions that are assessed.
LEMMA StepTypes ==
  ASSUME LibraryTypes, [LibraryNext]_libraryVars
  PROVE  LibraryTypes' /\ \A v \in assessed : rows'[v] = rows[v]
<1>1. CASE UNCHANGED libraryVars
  BY <1>1 DEF libraryVars, LibraryTypes, Present
<1>2. CASE Boot /\ settled' = (phase' = "up") /\ UNCHANGED writes
  BY <1>2, FilesToRows DEF LibraryTypes, Present
<1>3. CASE writes < MaxWrites /\ Write /\ writes' = writes + 1
           /\ settled' = (settled /\ file' = file /\ rows' = rows)
  <2>1. writes' \in 0 .. MaxWrites
    BY <1>3, WritesAssumption DEF LibraryTypes
  <2>2. QED
    BY <1>3, <2>1, EditorSteps DEF LibraryTypes, Present
<1>4. CASE Other /\ UNCHANGED writes /\ settled' = (settled /\ file' = file /\ rows' = rows)
  <2>1. CASE SyncFrameworks \/ (\E n \in Names : ImportOne(n))
    BY <1>4, <2>1, FilesToRows DEF LibraryTypes, Present
  <2>2. CASE Stop \/ \E v \in Versions : Assess(v) \/ Unassess(v)
    BY <1>4, <2>2, AroundSteps DEF LibraryTypes, Present
  <2>3. QED
    BY <1>4, <2>1, <2>2 DEF Other
<1>5. QED
  BY <1>1, <1>2, <1>3, <1>4 DEF LibraryNext

\* A start that succeeds has read every file; whatever does not write keeps it.
LEMMA StepAllDone ==
  ASSUME LibraryInv, [LibraryNext]_libraryVars
  PROVE  AllDone'
<1>1. CASE Boot /\ settled' = (phase' = "up")
  <2> SUFFICES ASSUME settled', OneFilePerVersion'
               PROVE  \A n \in Names : Done(rows, n)'
    BY DEF AllDone
  <2>1. ~Synced.failed /\ rows' = Synced.rows /\ file' = file
    BY <1>1 DEF Boot
  <2>2. OneFilePerVersion
    BY <2>1 DEF OneFilePerVersion
  <2>3. \A n \in Names : Done(Synced.rows, n)
    BY <2>1, <2>2, SyncedDone DEF LibraryInv
  <2>4. QED
    BY <2>1, <2>3 DEF Done
<1>2. CASE settled' = (settled /\ file' = file /\ rows' = rows)
  BY <1>2 DEF LibraryInv, AllDone, OneFilePerVersion, Done
<1>3. CASE UNCHANGED libraryVars
  BY <1>3 DEF LibraryInv, AllDone, OneFilePerVersion, Done, libraryVars
<1>4. QED
  BY <1>1, <1>2, <1>3 DEF LibraryNext

\* The invariant holds in every reachable state.
LEMMA LibraryInvAlways == LibrarySpec => []LibraryInv
<1>1. LibraryInit => LibraryInv
  <2> SUFFICES ASSUME LibraryInit
               PROVE  LibraryInv
    OBVIOUS
  <2>1. LibraryTypes
    <3>1. file \in [Names -> File \cup {NoFile}]
      BY DEF LibraryInit
    <3>2. rows \in [Versions -> Row \cup {NoRow}] /\ \A v \in Versions : ~Present(v)
      BY DEF LibraryInit, Present
    <3>3. 0 \in 0 .. MaxWrites
      BY WritesAssumption
    <3>4. QED
      BY <3>1, <3>2, <3>3 DEF LibraryInit, LibraryTypes
  <2>2. AllDone
    BY DEF LibraryInit, AllDone
  <2>3. QED
    BY <2>1, <2>2 DEF LibraryInv
<1>2. LibraryInv /\ [LibraryNext]_libraryVars => LibraryInv'
  BY StepTypes, StepAllDone DEF LibraryInv
<1>3. QED
  BY <1>1, <1>2, PTL DEF LibrarySpec

\* The types of every variable in every reachable state; a clone refers to a
\* version that is there, and so does an assessment (delete_framework, the
\* foreign keys of models/framework.py and models/assessment.py).
THEOREM LibraryTypesHold == LibrarySpec => []LibraryTypes
<1>1. LibraryInv => LibraryTypes
  BY DEF LibraryInv
<1>2. QED
  BY LibraryInvAlways, <1>1, PTL

\* An assessment keeps the controls it was made with, whichever files the
\* operator puts in the directory, in whatever order they are read, and however
\* often (sync_from_directory, update_framework).
THEOREM AssessmentsKeepControls == LibrarySpec => AssessedIsKept
<1>1. LibraryTypes /\ [LibraryNext]_libraryVars
        => [\A v \in assessed : v \in assessed' => rows'[v].content = rows[v].content]_libraryVars
  BY StepTypes
<1>2. QED
  BY LibraryTypesHold, <1>1, PTL DEF LibrarySpec, AssessedIsKept

\* A start done again on what it left succeeds and changes nothing, whatever was
\* assessed since (sync_from_directory skips the files it has read).
THEOREM StartsCanBeRepeated == LibrarySpec => BootIsStable
<1>1. LibraryInv /\ [LibraryNext]_libraryVars
        => [Boot /\ settled /\ OneFilePerVersion => phase' = "up" /\ rows' = rows]_libraryVars
  <2> SUFFICES ASSUME LibraryInv, Boot, settled, OneFilePerVersion
               PROVE  phase' = "up" /\ rows' = rows
    OBVIOUS
  <2>1. ~Synced.failed /\ Synced.rows = rows
    BY SyncedSame DEF LibraryInv, AllDone
  <2>2. QED
    BY <2>1 DEF Boot
<1>2. QED
  BY LibraryInvAlways, <1>1, PTL DEF LibrarySpec, BootIsStable

=============================================================================
