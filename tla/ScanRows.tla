------------------------------ MODULE ScanRows ------------------------------
(***************************************************************************)
(* What the rows of scans promise to whoever polls them, between the job   *)
(* that works on a scan and the user who cancels it. The job writes the    *)
(* end of its row once at most, and only if the row was not cancelled when *)
(* it last looked; a user's request writes CANCELLED, and only if the row  *)
(* was in progress when it began. Nobody else writes an end, and a row     *)
(* that has one is never in progress again.  ScanJobs implements it, but   *)
(* for the scans streamed to the browser.                                  *)
(***************************************************************************)
CONSTANT Scans

VARIABLES
  status,     \* of the row, "absent" without one
  asked,      \* the scans that a request is cancelling
  verdict     \* of the job: "none" yet, "due" or "given"

vars == <<status, asked, verdict>>

Ended   == {"SUCCESS", "FAILED", "CANCELLED"}
Ongoing == {"AUTHENTICATING", "RUNNING"}

Init ==
  /\ status = [s \in Scans |-> "absent"]
  /\ asked = {}
  /\ verdict = [s \in Scans |-> "none"]

Launch(s) ==
  /\ status[s] = "absent" /\ verdict[s] # "due"
  /\ \E o \in Ongoing : status' = [status EXCEPT ![s] = o]
  /\ UNCHANGED <<asked, verdict>>

Delete(s) ==
  /\ status[s] # "absent"
  /\ status' = [status EXCEPT ![s] = "absent"]
  /\ UNCHANGED <<asked, verdict>>

\* A request to cancel, and its commit.
Ask(s) ==
  /\ s \notin asked /\ status[s] \in Ongoing
  /\ asked' = asked \cup {s}
  /\ UNCHANGED <<status, verdict>>

Cancel(s) ==
  /\ s \in asked
  /\ asked' = asked \ {s}
  /\ status' = IF status[s] = "absent" THEN status ELSE [status EXCEPT ![s] = "CANCELLED"]
  /\ UNCHANGED verdict

\* The request's commit is refused.
Drop(s) ==
  /\ s \in asked
  /\ asked' = asked \ {s}
  /\ UNCHANGED <<status, verdict>>

\* The job's last look at the row, and its commit.
Look(s) ==
  /\ verdict[s] = "none" /\ status[s] # "CANCELLED"
  /\ verdict' = [verdict EXCEPT ![s] = "due"]
  /\ UNCHANGED <<status, asked>>

Write(s) ==
  /\ verdict[s] = "due"
  /\ verdict' = [verdict EXCEPT ![s] = "given"]
  /\ \/ status[s] = "absent" /\ status' = status
     \/ status[s] # "absent" /\ \E e \in {"SUCCESS", "FAILED"} : status' = [status EXCEPT ![s] = e]
  /\ UNCHANGED asked

\* A job that leaves its row as it is, or whose write is refused.
GiveUp(s) ==
  /\ verdict[s] # "given"
  /\ verdict' = [verdict EXCEPT ![s] = "given"]
  /\ UNCHANGED <<status, asked>>

\* The backend stops: no request and no job survives it.
Stop ==
  /\ asked' = {}
  /\ \E begun \in SUBSET Scans :
       /\ \A s \in Scans : verdict[s] = "due" => s \in begun
       /\ verdict' = [s \in Scans |-> IF s \in begun THEN "given" ELSE verdict[s]]
  /\ UNCHANGED status

Next ==
  \/ \E s \in Scans : \/ Launch(s) \/ Delete(s) \/ Ask(s) \/ Cancel(s) \/ Drop(s)
                      \/ Look(s) \/ Write(s) \/ GiveUp(s)
  \/ Stop

Spec == Init /\ [][Next]_vars

=============================================================================
