--------------------------- MODULE BackgroundJob ---------------------------
(***************************************************************************)
(* What the row of a background job promises to whoever polls it, whatever *)
(* the job does: it starts once, its plan is made once, its counters only  *)
(* grow and never pass the plan, it is completed only when everything in   *)
(* the plan was tried and something of it was done, and a row that ended   *)
(* never changes again.  CollectPipeline implements it.                    *)
(***************************************************************************)
EXTENDS Naturals

VARIABLES
    status,     \* of the job
    total,      \* how many items it has to treat; 0 before it is known
    done,       \* how many succeeded
    failed      \* how many did not

progress == <<total, done, failed>>
vars == <<status, total, done, failed>>

Init ==
    /\ status = "pending"
    /\ total = 0
    /\ done = 0
    /\ failed = 0

Start ==
    /\ status = "pending"
    /\ status' = "running"
    /\ UNCHANGED progress

\* Made before any item was treated.
Plan ==
    /\ status = "running"
    /\ progress = <<0, 0, 0>>
    /\ total' \in Nat
    /\ UNCHANGED <<status, done, failed>>

Treat ==
    /\ status = "running"
    /\ done + failed < total
    /\ \/ done' = done + 1 /\ failed' = failed
       \/ done' = done /\ failed' = failed + 1
    /\ UNCHANGED <<status, total>>

Complete ==
    /\ status = "running"
    /\ done + failed = total
    /\ total > 0 => done > 0
    /\ status' = "completed"
    /\ UNCHANGED progress

Fail ==
    /\ status \in {"pending", "running"}
    /\ status' = "failed"
    /\ UNCHANGED progress

Next == Start \/ Plan \/ Treat \/ Complete \/ Fail

Spec == Init /\ [][Next]_vars
=============================================================================
