------------------------------ MODULE ScanJobs ------------------------------
(***************************************************************************)
(* The scans a user launches and a background job of the backend carries   *)
(* out: Monkey365 in a thread ("local"), Monkey365 with its output sent to *)
(* the browser ("stream"), the audit of an Active Directory ("ad").        *)
(*                                                                         *)
(* A request works in a transaction that commits after its handler         *)
(* returned; launch_scan alone commits by itself. Any commit may be        *)
(* refused, which undoes the transaction. A job keeps its session,         *)
(* and so the row it first read, for as long as it runs: the session does  *)
(* not read a row again that it holds (expire_on_commit is off). An UPDATE *)
(* of a row that is gone fails and sends the job to its except clause,     *)
(* which finds no row and ends.                                            *)
(***************************************************************************)
EXTENDS Naturals, FiniteSets

CONSTANTS Scans,        \* the scans that may be launched
          Kind,         \* function: "local", "stream" or "ad"
          Interactive,  \* local scans without a device code: their output is not read
          MaxScans,     \* bound on the scans launched
          MaxCrashes    \* bound on the stops of the backend

ASSUME KindAssumption ==
  /\ Kind \in [Scans -> {"local", "stream", "ad"}]
  /\ Interactive \subseteq {s \in Scans : Kind[s] = "local"}
ASSUME BoundsAssumption == MaxScans \in Nat /\ MaxCrashes \in Nat

VARIABLES row,      \* the status committed, "absent" without a row
          req,      \* the request in flight: "none", "launch", "cancel"
          job,      \* where the job is
          outcome,  \* what its run returned
          proc,     \* its PowerShell process; "mute" has closed its output
          registry, \* _running_processes
          dir,      \* the directory of its output exists
          told,     \* the last event sent to the browser
          crashes,
          unwritten \* history: scans whose job was refused its last write

history == <<crashes, unwritten>>
vars == <<row, req, job, outcome, proc, registry, dir, told, history>>

Ended   == {"SUCCESS", "FAILED", "CANCELLED"}
Ongoing == {"AUTHENTICATING", "RUNNING"}
Living  == {"alive", "mute"}

Init ==
  /\ row = [s \in Scans |-> "absent"]
  /\ req = [s \in Scans |-> "none"]
  /\ job = [s \in Scans |-> "none"]
  /\ outcome = [s \in Scans |-> "none"]
  /\ proc = [s \in Scans |-> "none"]
  /\ registry = {}
  /\ dir = [s \in Scans |-> FALSE]
  /\ told = [s \in Scans |-> "nothing"]
  /\ crashes = 0
  /\ unwritten = {}

FirstStatus(s) == IF Kind[s] = "stream" THEN "AUTHENTICATING" ELSE "RUNNING"

\* The job goes from one point to another.
Steps(s, from, to) == job[s] = from /\ job' = [job EXCEPT ![s] = to]

-----------------------------------------------------------------------------
\* Requests.

MayLaunch(s) ==
  /\ row[s] = "absent" /\ req[s] = "none" /\ job[s] = "none"
  /\ Cardinality({t \in Scans : row[t] # "absent" \/ job[t] # "none"}) < MaxScans

\* launch_scan commits, then the handler submits the job.
Launch(s) ==
  /\ Kind[s] = "local" /\ MayLaunch(s)
  /\ dir' = [dir EXCEPT ![s] = TRUE]
  /\ row' = [row EXCEPT ![s] = FirstStatus(s)]
  /\ req' = [req EXCEPT ![s] = "launch"]
  /\ UNCHANGED <<job, outcome, proc, registry, told, history>>

Submit(s) ==
  /\ Kind[s] = "local" /\ req[s] = "launch"
  /\ Steps(s, "none", "submitted")
  /\ req' = [req EXCEPT ![s] = "none"]
  /\ UNCHANGED <<row, outcome, proc, registry, dir, told, history>>

\* The other two handlers submit the job within the transaction.
LaunchOpen(s) ==
  /\ Kind[s] # "local" /\ MayLaunch(s)
  /\ Steps(s, "none", "submitted")
  /\ dir' = [dir EXCEPT ![s] = (Kind[s] = "stream")]
  /\ req' = [req EXCEPT ![s] = "launch"]
  /\ UNCHANGED <<row, outcome, proc, registry, told, history>>

LaunchCommit(s) ==
  /\ Kind[s] # "local" /\ req[s] = "launch"
  /\ row' = [row EXCEPT ![s] = FirstStatus(s)]
  /\ req' = [req EXCEPT ![s] = "none"]
  /\ UNCHANGED <<job, outcome, proc, registry, dir, told, history>>

\* cancel_scan kills the process the registry holds, then marks the row.
Cancel(s) ==
  /\ Kind[s] # "ad" /\ req[s] = "none" /\ row[s] \in Ongoing
  /\ req' = [req EXCEPT ![s] = "cancel"]
  /\ registry' = registry \ {s}
  /\ proc' = IF s \in registry /\ proc[s] \in Living
             THEN [proc EXCEPT ![s] = "failed"] ELSE proc
  /\ UNCHANGED <<row, job, outcome, dir, told, history>>

CancelCommit(s) ==
  /\ req[s] = "cancel"
  /\ row' = IF row[s] = "absent" THEN row ELSE [row EXCEPT ![s] = "CANCELLED"]
  /\ req' = [req EXCEPT ![s] = "none"]
  /\ UNCHANGED <<job, outcome, proc, registry, dir, told, history>>

\* The commit of a launch or of a cancellation is refused: a job that was submitted
\* has no row, a process that was killed leaves its scan in progress.
RequestRefused(s) ==
  /\ req[s] = "cancel" \/ (Kind[s] # "local" /\ req[s] = "launch")
  /\ req' = [req EXCEPT ![s] = "none"]
  /\ UNCHANGED <<row, job, outcome, proc, registry, dir, told, history>>

\* delete_scan, delete_ad_audit_result: whatever the status. The directory goes
\* first, the row may stay.
Delete(s) ==
  /\ req[s] = "none" /\ row[s] # "absent"
  /\ row' \in {row, [row EXCEPT ![s] = "absent"]}
  /\ dir' = [dir EXCEPT ![s] = FALSE]
  /\ UNCHANGED <<req, job, outcome, proc, registry, told, history>>

-----------------------------------------------------------------------------
\* Jobs.

\* The job looks for its row.
Start(s) ==
  /\ Steps(s, "submitted", IF row[s] = "absent" THEN "lost" ELSE "started")
  /\ UNCHANGED <<row, req, outcome, proc, registry, dir, told, history>>

\* A stream marks its row, whatever it has become since.
MarkRunning(s) ==
  /\ Kind[s] = "stream"
  /\ Steps(s, "started", IF row[s] = "absent" THEN "over" ELSE "marked")
  /\ row' = IF row[s] = "absent" THEN row ELSE [row EXCEPT ![s] = "RUNNING"]
  /\ UNCHANGED <<req, outcome, proc, registry, dir, told, history>>

Ready(s) == IF Kind[s] = "stream" THEN "marked" ELSE "started"

\* run_scan makes the directory again; Popen.
Spawn(s) ==
  /\ Kind[s] # "ad"
  /\ Steps(s, Ready(s), IF Kind[s] = "stream" THEN "waiting" ELSE "spawned")
  /\ proc' = [proc EXCEPT ![s] = "alive"]
  /\ dir' = [dir EXCEPT ![s] = TRUE]
  /\ UNCHANGED <<row, req, outcome, registry, told, history>>

\* on_process_start
Register(s) ==
  /\ Steps(s, "spawned", "waiting")
  /\ registry' = registry \cup {s}
  /\ UNCHANGED <<row, req, outcome, proc, dir, told, history>>

\* No PowerShell, no module, the path not configured.
NoSpawn(s) ==
  /\ Kind[s] # "ad"
  /\ Steps(s, Ready(s), IF Kind[s] = "stream" THEN "raised" ELSE "returned")
  /\ outcome' = [outcome EXCEPT ![s] = "failed"]
  /\ told' = IF Kind[s] = "stream" THEN [told EXCEPT ![s] = "error"] ELSE told
  /\ UNCHANGED <<row, req, proc, registry, dir, history>>

\* The process prints the code, that a stream sends on once.
DeviceCode(s) ==
  /\ Kind[s] = "stream" /\ job[s] = "waiting" /\ proc[s] = "alive" /\ told[s] = "nothing"
  /\ told' = [told EXCEPT ![s] = "code"]
  /\ UNCHANGED <<row, req, job, outcome, proc, registry, dir, history>>

\* The process closes its output and goes on.
Mute(s) ==
  /\ proc[s] = "alive"
  /\ proc' = [proc EXCEPT ![s] = "mute"]
  /\ UNCHANGED <<row, req, job, outcome, registry, dir, told, history>>

\* The process ends by itself.
Exit(s) ==
  /\ proc[s] \in Living
  /\ \E e \in {"succeeded", "failed"} : proc' = [proc EXCEPT ![s] = e]
  /\ UNCHANGED <<row, req, job, outcome, registry, dir, told, history>>

\* Mutant: the finally clause is missing.
ReturnUnregistered(s) ==
  /\ proc[s] \in {"succeeded", "failed"}
  /\ Steps(s, "waiting", "returned")
  /\ LET ok == proc[s] = "succeeded" /\ (Kind[s] = "local" => dir[s])
     IN  /\ outcome' = [outcome EXCEPT ![s] = IF ok THEN "succeeded" ELSE "failed"]
         /\ told' = IF Kind[s] = "local" THEN told
                    ELSE [told EXCEPT ![s] = IF ok THEN "complete" ELSE "error"]
  /\ UNCHANGED <<row, req, proc, registry, dir, history>>

\* The run returns. A local one writes what it got in the directory, and its
\* finally clause takes the process out of the registry; a stream tells the
\* browser the outcome.
Return(s) ==
  /\ proc[s] \in {"succeeded", "failed"}
  /\ Steps(s, "waiting", "returned")
  /\ LET ok == proc[s] = "succeeded" /\ (Kind[s] = "local" => dir[s])
     IN  /\ outcome' = [outcome EXCEPT ![s] = IF ok THEN "succeeded" ELSE "failed"]
         /\ told' = IF Kind[s] = "local" THEN told
                    ELSE [told EXCEPT ![s] = IF ok THEN "complete" ELSE "error"]
  /\ registry' = registry \ {s}
  /\ UNCHANGED <<row, req, proc, dir, history>>

\* The hour runs from the end of the output where that is read, and from the start
\* of the process where it is not.
Expired(s) == proc[s] = "mute" \/ (s \in Interactive /\ proc[s] = "alive")

\* Mutant: a run that timed out counts as a success.
TimeoutSucceeds(s) ==
  /\ Expired(s)
  /\ Steps(s, "waiting", "returned")
  /\ outcome' = [outcome EXCEPT ![s] = "succeeded"]
  /\ registry' = registry \ {s}
  /\ UNCHANGED <<row, req, proc, dir, told, history>>

\* An hour has passed: a local run leaves its process alone, a stream terminates it.
Timeout(s) ==
  /\ Expired(s)
  /\ Steps(s, "waiting", "returned")
  /\ outcome' = [outcome EXCEPT ![s] = "failed"]
  /\ IF Kind[s] = "local"
     THEN UNCHANGED <<proc, told>>
     ELSE proc' = [proc EXCEPT ![s] = "failed"] /\ told' = [told EXCEPT ![s] = "error"]
  /\ registry' = registry \ {s}
  /\ UNCHANGED <<row, req, dir, history>>

\* Anything else raises: a query, the commit of MarkRunning, a file that cannot be
\* written, a line too long for the stream's reader, the directory's session. A
\* local job goes on to its last write, the others have an except clause; a process
\* is left alone.
Raise(s) ==
  /\ job[s] \in {"submitted", "started", "marked", "waiting"}
  /\ job' = [job EXCEPT ![s] = IF Kind[s] = "local" THEN "returned" ELSE "raised"]
  /\ outcome' = [outcome EXCEPT ![s] = "failed"]
  /\ registry' = registry \ {s}
  /\ UNCHANGED <<row, req, proc, dir, told, history>>

\* The LDAP session of an AD audit.
Audit(s) ==
  /\ Kind[s] = "ad"
  /\ Steps(s, "started", "returned")
  /\ \E e \in {"succeeded", "failed"} : outcome' = [outcome EXCEPT ![s] = e]
  /\ UNCHANGED <<row, req, proc, registry, dir, told, history>>

\* Mutant: does not look for a cancellation.
FinalReadBlind(s) ==
  /\ \/ Kind[s] = "local" /\ job[s] = "returned"
     \/ job[s] \in {"raised", "refused"}
  /\ job' = [job EXCEPT ![s] = IF row[s] = "absent" THEN "over" ELSE "final"]
  /\ UNCHANGED <<row, req, outcome, proc, registry, dir, told, history>>

\* A local job, and another one in its except clause, read the row in a new
\* session and leave a cancelled one.
FinalRead(s) ==
  /\ \/ Kind[s] = "local" /\ job[s] = "returned"
     \/ job[s] \in {"raised", "refused"}
  /\ job' = [job EXCEPT ![s] = IF row[s] \in {"absent", "CANCELLED"} THEN "over" ELSE "final"]
  /\ UNCHANGED <<row, req, outcome, proc, registry, dir, told, history>>

\* Mutant: a failed run is not written.
FinalCommitSuccess(s) ==
  /\ job[s] = "final" \/ (Kind[s] # "local" /\ job[s] = "returned")
  /\ job' = [job EXCEPT ![s] = "over"]
  /\ row' = IF row[s] = "absent" \/ outcome[s] = "failed" THEN row
            ELSE [row EXCEPT ![s] = "SUCCESS"]
  /\ UNCHANGED <<req, outcome, proc, registry, dir, told, history>>

\* The other two test and write the row they hold, which they left RUNNING.
FinalCommit(s) ==
  /\ job[s] = "final" \/ (Kind[s] # "local" /\ job[s] = "returned")
  /\ job' = [job EXCEPT ![s] = "over"]
  /\ row' = IF row[s] = "absent" THEN row
            ELSE [row EXCEPT ![s] = IF outcome[s] = "succeeded" THEN "SUCCESS" ELSE "FAILED"]
  /\ UNCHANGED <<req, outcome, proc, registry, dir, told, history>>

\* The commit of a job that wrote the row it held is refused, which is one more
\* exception for its except clause.
CommitRaises(s) ==
  /\ Kind[s] # "local"
  /\ Steps(s, "returned", "refused")
  /\ outcome' = [outcome EXCEPT ![s] = "failed"]
  /\ UNCHANGED <<row, req, proc, registry, dir, told, history>>

\* The last session of a job raises: it is logged, or passed over, and the row stays
\* as it is.
FinalRefused(s) ==
  /\ job[s] \in {"raised", "refused", "final"} \/ (Kind[s] = "local" /\ job[s] = "returned")
  /\ job' = [job EXCEPT ![s] = "over"]
  /\ unwritten' = unwritten \cup {s}
  /\ UNCHANGED <<row, req, outcome, proc, registry, dir, told, crashes>>

\* The backend stops, with its threads, its open transactions and the
\* processes it started, and starts again: no job is resumed.
Crash ==
  /\ crashes < MaxCrashes
  /\ crashes' = crashes + 1
  /\ job' = [s \in Scans |-> IF job[s] = "none" THEN "none" ELSE "over"]
  /\ req' = [s \in Scans |-> "none"]
  /\ registry' = {}
  /\ proc' = [s \in Scans |-> IF proc[s] \in Living THEN "failed" ELSE proc[s]]
  /\ UNCHANGED <<row, outcome, dir, told, unwritten>>

-----------------------------------------------------------------------------
Request(s) == Launch(s) \/ LaunchOpen(s) \/ Cancel(s) \/ Delete(s)

Handler(s) == Submit(s) \/ LaunchCommit(s) \/ CancelCommit(s) \/ RequestRefused(s)

Job(s) ==
  \/ Start(s) \/ MarkRunning(s) \/ Spawn(s) \/ Register(s) \/ NoSpawn(s)
  \/ Return(s) \/ Timeout(s) \/ Raise(s) \/ Audit(s)
  \/ FinalRead(s) \/ FinalCommit(s) \/ CommitRaises(s) \/ FinalRefused(s)

Process(s) == DeviceCode(s) \/ Mute(s) \/ Exit(s)

Next ==
  \/ \E s \in Scans : Request(s) \/ Handler(s) \/ Job(s) \/ Process(s)
  \/ Crash

\* Handlers return, threads run, an hour passes and an LDAP session times out; users
\* may do nothing, and a process may go on for ever.
Fairness == \A s \in Scans : WF_vars(Handler(s)) /\ WF_vars(Job(s))

Spec == Init /\ [][Next]_vars /\ Fairness

-----------------------------------------------------------------------------
\* Properties.

\* The types; the registry holds the processes of the jobs that wait for one,
\* and forgets them whichever way the wait ends (cancel_scan kills what it
\* finds there by the number of the scan).
TypeOK ==
  /\ row \in [Scans -> Ended \cup Ongoing \cup {"absent"}]
  /\ req \in [Scans -> {"none", "launch", "cancel"}]
  /\ job \in [Scans -> {"none", "submitted", "lost", "started", "marked", "spawned",
                        "waiting", "returned", "raised", "refused", "final", "over"}]
  /\ outcome \in [Scans -> {"none", "succeeded", "failed"}]
  /\ proc \in [Scans -> Living \cup {"none", "succeeded", "failed"}]
  /\ registry \subseteq {s \in Scans : Kind[s] = "local" /\ job[s] = "waiting"}
  /\ dir \in [Scans -> BOOLEAN]
  /\ told \in [Scans -> {"nothing", "code", "complete", "error"}]
  /\ crashes \in 0 .. MaxCrashes
  /\ unwritten \subseteq Scans

\* A row says SUCCESS only after a run that ended well: the process was not
\* killed by a cancellation nor left behind, and the browser was told so.
SuccessIsEarned ==
  \A s \in Scans : row[s] = "SUCCESS" =>
    /\ outcome[s] = "succeeded"
    /\ Kind[s] # "ad" => proc[s] = "succeeded"
    /\ Kind[s] = "stream" => told[s] = "complete"

\* The scans whose job looks at the row before it ends, or cannot be cancelled.
Minded == {s \in Scans : Kind[s] # "stream"}

Verdict(s) ==
  CASE job[s] = "final" \/ (Kind[s] = "ad" /\ job[s] \in {"returned", "refused"}) -> "due"
    [] job[s] \in {"lost", "over"} -> "given"
    [] OTHER -> "none"

Rows == INSTANCE ScanRows WITH
          Scans   <- Minded,
          status  <- [s \in Minded |-> row[s]],
          asked   <- {s \in Minded : req[s] = "cancel"},
          verdict <- [s \in Minded |-> Verdict(s)]

\* Between the job and the user who cancels, a row ends as ScanRows promises: a
\* cancelled one stays so unless the job had looked before, a success or a failure
\* is written once, and turns into CANCELLED only for a request that had found
\* the scan in progress. (A stream marks and overwrites whatever it finds.)
RowsAreKept == Rows!Spec

\* In particular: a local scan that is cancelled before its job read the row for the
\* last time stays cancelled, and the job does not go on to write another end.
CancelledIsKept ==
  [][\A s \in Scans :
       Kind[s] = "local" /\ row[s] = "CANCELLED" /\ job[s] # "final"
         => row'[s] \in {"CANCELLED", "absent"} /\ job'[s] # "final"]_vars

\* The process of a run whose output is read has not closed it: the run waits.
Hangs(s) == job[s] = "waiting" /\ s \notin Interactive /\ proc[s] = "alive"

\* A job that found its row comes to its end, and does not leave the row in progress,
\* unless its process keeps the output open for ever, the backend stopped, or the
\* database refused the job's last write.
JobEndsRow ==
  \A s \in Scans :
    \/ <>[]Hangs(s)
    \/ job[s] = "started" ~>
         job[s] = "over" /\ (row[s] \in Ongoing => crashes > 0 \/ s \in unwritten)

=============================================================================
