-------------------------- MODULE AgentTasksProofs --------------------------
(***************************************************************************)
(* What the handlers of AgentTasks guarantee, for any number of tasks and  *)
(* of threads.                                                             *)
(*                                                                         *)
(* A transaction whose rows nobody changed since it read them (fresh) has  *)
(* decided on the current state: that is Decides, and what makes the Clean *)
(* properties inductive.  A report that was decided while the agent was    *)
(* offline came from a handler that still serves: that is LinkAgrees.      *)
(***************************************************************************)
EXTENDS AgentTasks, TLAPS

\* What each operation can write, and which thread runs it.
Shape(t, x) ==
    /\ x.op \in {"none", "dispatch", "collect", "delete", "report"} => x.agent = "keep"
    /\ x.op = "revoke" => x.agent \in {"keep", "revoked"}
    /\ x.op = "resolve" => t = Loop /\ x.agent \in {"keep", "active"}
    /\ x.op = "offline" => t \in {Loop, Sweeper} /\ x.agent \in {"keep", "offline"}
    /\ t = Loop => x.op \in {"none", "report", "resolve", "offline"}
    /\ \A k \in Tasks :
        /\ x.op \in {"none", "resolve"} => x.rows[k] = "keep"
        /\ x.op \in {"dispatch", "collect"} => x.rows[k] \in {"keep", "pending"}
        /\ x.op = "delete" => x.rows[k] \in {"keep", "deleted"}
        /\ x.op = "report" => x.rows[k] \in {"keep"} \cup Reports
        /\ x.op = "revoke" => x.rows[k] \in {"keep", "cancelled"}
        /\ x.op = "offline" => x.rows[k] \in {"keep", "failed"}

\* A transaction stamps the rows it finishes or starts.
Stamps(x) ==
    \A k \in Tasks :
        /\ x.rows[k] \in Final => k \in x.completes
        /\ x.rows[k] = "running" => k \in x.starts \cup started

\* What the operation decides on the rows as they are.
Decides(x) ==
    /\ x.op \in {"dispatch", "collect"} => agent = "active"
    /\ x.op = "revoke" =>
        /\ x.agent = "keep" => agent = "revoked"
        /\ \A k \in Tasks : status[k] \in Active => x.rows[k] = "cancelled"
    /\ x.op = "resolve" /\ x.agent = "active" => agent = "offline"
    /\ x.op = "delete" =>
        \A k \in Tasks : x.rows[k] = "deleted" => status[k] # "running"
    /\ x.op = "offline" =>
        /\ x.agent = "offline" => agent = "active"
        /\ \A k \in Tasks : (status[k] \in Active) <=> (x.rows[k] = "failed")

\* Every open transaction is one its operation can have decided.
TransactionsAgree ==
    \A t \in Threads :
        /\ Shape(t, txn[t])
        /\ Stamps(txn[t])
        /\ txn[t].fresh => Decides(txn[t])

\* What the open transactions say of the handlers: there is room for the socket
\* that connects, and a fresh report for an offline agent is a serving handler's.
LinkAgrees ==
    /\ accepting \/ txn[Loop].op = "resolve" => serving < MaxSockets
    /\ txn[Loop].op = "resolve" => ~accepting
    /\ clean => \A t \in Threads :
        txn[t].op = "report" /\ txn[t].fresh => agent # "offline" \/ (t = Loop /\ serving > 0)

\* The inductive invariant.
TaskInv ==
    /\ TypeOK
    /\ StampsFollowStatus
    /\ CleanOfflineIsQuiet
    /\ TransactionsAgree
    /\ LinkAgrees

\* The event loop and the sweeper are threads, and different ones.
LEMMA LoopAndSweeper ==
    Loop \in Threads /\ Sweeper \in Threads /\ Loop # Sweeper
BY ThreadsAssumption DEF Threads

\* The initial state: no row, no transaction.
LEMMA TaskInvInit == Init => TaskInv
<1> SUFFICES ASSUME Init PROVE TaskInv
  OBVIOUS
<1> USE DEF Init, NoTxn, NoRows
<1>1. TypeOK
  <2>1. serving \in 0 .. MaxSockets
    BY SocketsAssumption
  <2> QED  BY <2>1 DEF TypeOK, Transactions, AgentStatus, TaskStatus, NoRow
<1>2. StampsFollowStatus /\ CleanOfflineIsQuiet
  BY DEF StampsFollowStatus, CleanOfflineIsQuiet, Final
<1>3. TransactionsAgree
  BY DEF TransactionsAgree, Shape, Stamps, Decides, Final
<1>4. LinkAgrees
  BY LoopAndSweeper DEF LinkAgrees
<1> QED  BY <1>1, <1>2, <1>3, <1>4 DEF TaskInv

-----------------------------------------------------------------------------
(* A transaction opens.                                                    *)

\* The types of what the sockets and the handlers leave.
LinkTypes ==
    /\ registered \in BOOLEAN
    /\ accepting \in BOOLEAN
    /\ serving \in 0 .. MaxSockets
    /\ refused \in BOOLEAN

\* Opening a transaction that agrees with what it read preserves the invariant.
LEMMA OpenInv ==
    ASSUME TaskInv, NEW t \in Threads, NEW x \in Transactions,
           txn' = [txn EXCEPT ![t] = x],
           Shape(t, x), Stamps(x), Decides(x),
           LinkTypes', pushes' \in SUBSET Tasks,
           UNCHANGED <<database, stale, known, clean>>,
           LinkAgrees', CleanOfflineIsQuiet'
    PROVE  TaskInv'
<1>1. TypeOK'
  BY DEF TaskInv, TypeOK, LinkTypes, database
<1>2. StampsFollowStatus'
  BY DEF TaskInv, StampsFollowStatus, database
<1>3. TransactionsAgree'
  <2> SUFFICES ASSUME NEW u \in Threads
               PROVE  /\ Shape(u, txn[u])' /\ Stamps(txn[u])'
                      /\ (txn[u].fresh => Decides(txn[u]))'
    BY DEF TransactionsAgree
  <2>1. txn'[u] = IF u = t THEN x ELSE txn[u]
    BY DEF TaskInv, TypeOK
  <2>2. Shape(u, txn[u]) /\ Stamps(txn[u]) /\ (txn[u].fresh => Decides(txn[u]))
    BY DEF TaskInv, TransactionsAgree
  <2>3. Shape(u, txn[u])'
    BY <2>1, <2>2 DEF Shape
  <2>4. Stamps(txn[u])'
    BY <2>1, <2>2 DEF Stamps, database
  <2>5. (txn[u].fresh => Decides(txn[u]))'
    BY <2>1, <2>2 DEF Decides, database
  <2> QED  BY <2>3, <2>4, <2>5
<1> QED  BY <1>1, <1>2, <1>3 DEF TaskInv

\* The columns Write(ks, new) changes.
LEMMA WriteLemma ==
    ASSUME NEW ks \in SUBSET Tasks, NEW new \in TaskStatus
    PROVE  /\ Write(ks, new) \in [Tasks -> TaskStatus \cup {"keep"}]
           /\ \A k \in Tasks :
                Write(ks, new)[k] = IF k \in ks /\ status[k] # new THEN new ELSE "keep"
BY DEF Write

\* A REST request does not change what is said of the other threads.
LEMMA WorkerLink ==
    ASSUME TaskInv, NEW t \in Workers, NEW x \in Transactions,
           txn' = [txn EXCEPT ![t] = x],
           x.op \in {"dispatch", "collect", "revoke", "delete", "report"},
           x.op = "report" => agent # "offline",
           UNCHANGED <<database, link, history>>
    PROVE  LinkAgrees' /\ CleanOfflineIsQuiet' /\ LinkTypes'
<1>1. t \in Threads /\ t # Loop /\ t # Sweeper /\ Loop \in Threads /\ Sweeper \in Threads
  BY ThreadsAssumption DEF Threads
<1>2. /\ txn'[Loop] = txn[Loop] /\ txn'[Sweeper] = txn[Sweeper] /\ txn'[t] = x
      /\ \A u \in Threads \ {t} : txn'[u] = txn[u]
  BY <1>1 DEF TaskInv, TypeOK
<1>3. LinkAgrees'
  BY <1>1, <1>2 DEF TaskInv, LinkAgrees, database, link, history
<1>4. CleanOfflineIsQuiet'
  BY <1>1, <1>2 DEF TaskInv, CleanOfflineIsQuiet, ActiveTasks, database, link, history
<1>5. LinkTypes'
  BY DEF TaskInv, TypeOK, LinkTypes, link, history
<1> QED  BY <1>3, <1>4, <1>5

\* Dispatching, by either path.
LEMMA DispatchInv ==
    ASSUME TaskInv, NEW t \in Workers, NEW k \in Tasks,
           Dispatch(t, k) \/ DispatchCollect(t, k)
    PROVE  TaskInv'
<1>1. PICK op \in {"dispatch", "collect"} :
        /\ agent = "active"
        /\ Open(t, op, "keep", Write({k}, "pending"), {}, {})
        /\ UNCHANGED <<database, stale, link, known, history>>
        /\ pushes' \in SUBSET Tasks
  BY DEF TaskInv, TypeOK, Dispatch, DispatchCollect, NewTask
<1> DEFINE x == [op |-> op, agent |-> "keep", rows |-> Write({k}, "pending"),
                 starts |-> {}, completes |-> {}, fresh |-> TRUE]
<1>2. t \in Threads /\ t # Loop
  BY ThreadsAssumption DEF Threads
<1>3. /\ Write({k}, "pending") \in [Tasks -> TaskStatus \cup {"keep"}]
      /\ \A j \in Tasks : Write({k}, "pending")[j] \in {"keep", "pending"}
  BY WriteLemma DEF TaskStatus, Active
<1>4. x \in Transactions
  BY <1>1, <1>3 DEF Transactions
<1>5. Shape(t, x) /\ Stamps(x) /\ Decides(x)
  BY <1>1, <1>2, <1>3 DEF Shape, Stamps, Decides, Final
<1>6. txn' = [txn EXCEPT ![t] = x]
  BY <1>1 DEF Open
<1>7. LinkAgrees' /\ CleanOfflineIsQuiet' /\ LinkTypes'
  BY <1>1, <1>4, <1>6, WorkerLink
<1> QED  BY <1>1, <1>2, <1>4, <1>5, <1>6, <1>7, OpenInv DEF history

\* Revoking the agent.
LEMMA RevokeInv ==
    ASSUME TaskInv, NEW t \in Workers, Revoke(t)
    PROVE  TaskInv'
<1> DEFINE a == IF agent = "revoked" THEN "keep" ELSE "revoked"
           rows == Write(ActiveTasks, "cancelled")
           x == [op |-> "revoke", agent |-> a, rows |-> rows,
                 starts |-> {}, completes |-> ActiveTasks, fresh |-> TRUE]
<1>1. t \in Threads /\ t # Loop
  BY ThreadsAssumption DEF Threads
<1>2. ActiveTasks \in SUBSET Tasks /\ "cancelled" \in TaskStatus
  BY DEF ActiveTasks, TaskStatus, Final
<1>3. /\ rows \in [Tasks -> TaskStatus \cup {"keep"}]
      /\ \A k \in Tasks :
            rows[k] = IF k \in ActiveTasks /\ status[k] # "cancelled" THEN "cancelled" ELSE "keep"
  BY <1>2, WriteLemma
<1>4. x \in Transactions
  BY <1>2, <1>3 DEF Transactions, AgentStatus
<1>5. \A k \in Tasks : rows[k] = IF status[k] \in Active THEN "cancelled" ELSE "keep"
  BY <1>3 DEF ActiveTasks, Active
<1>6. Shape(t, x) /\ Stamps(x) /\ Decides(x)
  BY <1>1, <1>5 DEF Shape, Stamps, Decides, ActiveTasks, Final
<1>7. /\ txn' = [txn EXCEPT ![t] = x]
      /\ UNCHANGED <<database, stale, link, pushes, known, history>>
      /\ pushes' \in SUBSET Tasks
  BY DEF Revoke, Open, TaskInv, TypeOK
<1>8. LinkAgrees' /\ CleanOfflineIsQuiet' /\ LinkTypes'
  BY <1>4, <1>7, WorkerLink
<1> QED  BY <1>1, <1>4, <1>6, <1>7, <1>8, OpenInv DEF history

\* Deleting a task.
LEMMA DeleteInv ==
    ASSUME TaskInv, NEW t \in Workers, NEW k \in Tasks, Delete(t, k)
    PROVE  TaskInv'
<1> DEFINE rows == Write({k}, "deleted")
           x == [op |-> "delete", agent |-> "keep", rows |-> rows,
                 starts |-> {}, completes |-> {}, fresh |-> TRUE]
<1>1. t \in Threads /\ t # Loop
  BY ThreadsAssumption DEF Threads
<1>2. /\ rows \in [Tasks -> TaskStatus \cup {"keep"}]
      /\ \A j \in Tasks : rows[j] \in {"keep", "deleted"} /\ (j # k => rows[j] = "keep")
  BY WriteLemma DEF TaskStatus, NoRow
<1>3. x \in Transactions
  BY <1>2 DEF Transactions
<1>4. status[k] # "running"
  BY DEF Delete
<1>5. Shape(t, x) /\ Stamps(x) /\ Decides(x)
  BY <1>1, <1>2, <1>4 DEF Shape, Stamps, Decides, Final
<1>6. /\ txn' = [txn EXCEPT ![t] = x]
      /\ UNCHANGED <<database, stale, link, pushes, known, history>>
      /\ pushes' \in SUBSET Tasks
  BY DEF Delete, Open, TaskInv, TypeOK
<1>7. LinkAgrees' /\ CleanOfflineIsQuiet' /\ LinkTypes'
  BY <1>3, <1>6, WorkerLink
<1> QED  BY <1>1, <1>3, <1>5, <1>6, <1>7, OpenInv DEF history

\* What a report decides, whichever way it comes.
LEMMA ReportLemma ==
    ASSUME TaskInv, NEW t \in Threads, NEW k \in Tasks, NEW new \in Reports,
           Report(t, k, new)
    PROVE  \E x \in Transactions :
                /\ x.op = "report" /\ Idle(t)
                /\ Shape(t, x) /\ Stamps(x) /\ Decides(x)
                /\ txn' = [txn EXCEPT ![t] = x]
                /\ UNCHANGED <<database, stale, link, pushes, known, history>>
<1> DEFINE rows == Write({k}, new)
           st == IF new = "running" THEN {k} \ started ELSE {}
           co == IF new \in Final THEN {k} ELSE {}
           x == [op |-> "report", agent |-> "keep", rows |-> rows,
                 starts |-> st, completes |-> co, fresh |-> TRUE]
<1>1. new \in TaskStatus
  BY DEF Reports, TaskStatus, Active
<1>2. /\ rows \in [Tasks -> TaskStatus \cup {"keep"}]
      /\ \A j \in Tasks :
            rows[j] = IF j \in {k} /\ status[j] # new THEN new ELSE "keep"
  BY <1>1, WriteLemma
<1>3. x \in Transactions
  BY <1>2 DEF Transactions
<1>4. Shape(t, x)
  BY <1>2 DEF Shape
<1>5. Stamps(x)
  BY <1>2 DEF Stamps, Final
<1>6. Decides(x)
  BY DEF Decides
<1>7. /\ txn' = [txn EXCEPT ![t] = x] /\ Idle(t)
      /\ UNCHANGED <<database, stale, link, pushes, known, history>>
  BY DEF Report, Open
<1> QED  BY <1>3, <1>4, <1>5, <1>6, <1>7

\* A report by HTTP.
LEMMA HttpReportInv ==
    ASSUME TaskInv, NEW t \in Workers, NEW k \in Tasks, HttpStatus(t, k) \/ HttpResult(t, k)
    PROVE  TaskInv'
<1>1. t \in Threads
  BY DEF Threads
<1>2. PICK new \in Reports : Report(t, k, new) /\ agent = "active"
  BY DEF HttpStatus, HttpResult, Reports, Final
<1>3. PICK x \in Transactions :
        /\ x.op = "report" /\ Shape(t, x) /\ Stamps(x) /\ Decides(x)
        /\ txn' = [txn EXCEPT ![t] = x]
        /\ UNCHANGED <<database, stale, link, pushes, known, history>>
  BY <1>1, <1>2, ReportLemma
<1>4. LinkAgrees' /\ CleanOfflineIsQuiet' /\ LinkTypes'
  BY <1>2, <1>3, WorkerLink
<1>5. pushes' \in SUBSET Tasks
  BY <1>3 DEF TaskInv, TypeOK
<1> QED  BY <1>1, <1>3, <1>4, <1>5, OpenInv DEF history

\* The event loop opens a transaction: what is said of the handlers depends on
\* that transaction and on what the step leaves of them.
LEMMA LoopOpenInv ==
    ASSUME TaskInv, NEW x \in Transactions, Idle(Loop),
           txn' = [txn EXCEPT ![Loop] = x],
           Shape(Loop, x), Stamps(x), Decides(x),
           x.op = "report" => serving' > 0,
           x.op = "resolve" => serving' < MaxSockets /\ ~accepting',
           accepting' => accepting,
           serving' = serving \/ (serving' = serving - 1 /\ serving > 0 /\ x.op = "offline"),
           LinkTypes', pushes' \in SUBSET Tasks,
           UNCHANGED <<database, stale, known, history>>
    PROVE  TaskInv'
<1>1. txn'[Loop] = x /\ \A u \in Threads \ {Loop} : txn'[u] = txn[u]
  BY LoopAndSweeper DEF TaskInv, TypeOK
<1>2. serving \in Nat /\ MaxSockets \in Nat
  BY SocketsAssumption DEF TaskInv, TypeOK
<1>3. ASSUME clean' , NEW t \in Threads, txn'[t].op = "report", txn'[t].fresh
      PROVE  agent' # "offline" \/ (t = Loop /\ serving' > 0)
  BY <1>1, <1>3 DEF TaskInv, LinkAgrees, database, history
<1>4. /\ accepting' \/ txn'[Loop].op = "resolve" => serving' < MaxSockets
      /\ txn'[Loop].op = "resolve" => ~accepting'
  BY <1>1, <1>2 DEF TaskInv, LinkAgrees
<1>5. LinkAgrees'
  BY <1>3, <1>4 DEF LinkAgrees
<1>6. CleanOfflineIsQuiet'
  BY <1>1 DEF TaskInv, CleanOfflineIsQuiet, ActiveTasks, Idle, database, history
<1> QED  BY <1>5, <1>6, LoopAndSweeper, OpenInv DEF history

\* A report on a socket.
LEMMA WsReportInv ==
    ASSUME TaskInv, NEW k \in Tasks, WsStatus(k) \/ WsResult(k)
    PROVE  TaskInv'
<1>1. PICK new \in Reports : Report(Loop, k, new) /\ serving > 0
  BY DEF WsStatus, WsResult, Reports, Final
<1>2. PICK x \in Transactions :
        /\ x.op = "report" /\ Idle(Loop) /\ Shape(Loop, x) /\ Stamps(x) /\ Decides(x)
        /\ txn' = [txn EXCEPT ![Loop] = x]
        /\ UNCHANGED <<database, stale, link, pushes, known, history>>
  BY <1>1, LoopAndSweeper, ReportLemma
<1>3. LinkTypes' /\ pushes' \in SUBSET Tasks
  BY <1>2 DEF TaskInv, TypeOK, LinkTypes, link, history
<1> QED  BY <1>1, <1>2, <1>3, LoopOpenInv DEF link

\* The agent of a socket is resolved.
LEMMA ResolveInv ==
    ASSUME TaskInv, Resolve
    PROVE  TaskInv'
<1> DEFINE a == IF agent = "offline" THEN "active" ELSE "keep"
           x == [op |-> "resolve", agent |-> a, rows |-> NoRows,
                 starts |-> {}, completes |-> {}, fresh |-> TRUE]
<1>1. x \in Transactions
  BY DEF Transactions, AgentStatus, NoRows
<1>2. Shape(Loop, x) /\ Stamps(x) /\ Decides(x)
  BY DEF Shape, Stamps, Decides, NoRows, Final
<1>3. /\ txn' = [txn EXCEPT ![Loop] = x] /\ Idle(Loop)
      /\ accepting /\ ~accepting' /\ UNCHANGED <<registered, serving>>
      /\ UNCHANGED <<database, stale, pushes, known, history>>
  BY DEF Resolve, Open
<1>4. LinkTypes' /\ pushes' \in SUBSET Tasks /\ serving' < MaxSockets
  BY <1>3 DEF TaskInv, TypeOK, LinkAgrees, LinkTypes, history, Resolve
<1> QED  BY <1>1, <1>2, <1>3, <1>4, LoopOpenInv

\* What mark_agent_offline_and_fail_tasks decides.
LEMMA MarkOfflineLemma ==
    ASSUME TaskInv, NEW t \in {Loop, Sweeper}, MarkOffline(t)
    PROVE  \E x \in Transactions :
                /\ x.op = "offline" /\ Idle(t)
                /\ Shape(t, x) /\ Stamps(x) /\ Decides(x)
                /\ txn' = [txn EXCEPT ![t] = x]
<1> DEFINE a == IF agent = "active" THEN "offline" ELSE "keep"
           rows == Write(ActiveTasks, "failed")
           x == [op |-> "offline", agent |-> a, rows |-> rows,
                 starts |-> {}, completes |-> ActiveTasks, fresh |-> TRUE]
<1>1. ActiveTasks \in SUBSET Tasks /\ "failed" \in TaskStatus
  BY DEF ActiveTasks, TaskStatus, Final
<1>2. /\ rows \in [Tasks -> TaskStatus \cup {"keep"}]
      /\ \A k \in Tasks :
            rows[k] = IF k \in ActiveTasks /\ status[k] # "failed" THEN "failed" ELSE "keep"
  BY <1>1, WriteLemma
<1>3. \A k \in Tasks : rows[k] = IF status[k] \in Active THEN "failed" ELSE "keep"
  BY <1>2 DEF ActiveTasks, Active
<1>4. x \in Transactions
  BY <1>1, <1>2 DEF Transactions, AgentStatus
<1>5. Shape(t, x) /\ Stamps(x) /\ Decides(x)
  BY <1>3 DEF Shape, Stamps, Decides, ActiveTasks, Final
<1>6. txn' = [txn EXCEPT ![t] = x] /\ Idle(t)
  BY DEF MarkOffline, Open
<1> QED  BY <1>4, <1>5, <1>6

\* A handler ends.
LEMMA DisconnectInv ==
    ASSUME TaskInv, Disconnect
    PROVE  TaskInv'
<1>1. PICK x \in Transactions :
        /\ x.op = "offline" /\ Idle(Loop) /\ Shape(Loop, x) /\ Stamps(x) /\ Decides(x)
        /\ txn' = [txn EXCEPT ![Loop] = x]
  BY MarkOfflineLemma DEF Disconnect
<1>2. /\ serving > 0 /\ serving' = serving - 1 /\ registered' = FALSE
      /\ UNCHANGED <<database, stale, accepting, pushes, known, history>>
  BY DEF Disconnect
<1>3. serving' \in 0 .. MaxSockets
  <2>1. serving \in 0 .. MaxSockets /\ MaxSockets \in Nat
    BY SocketsAssumption DEF TaskInv, TypeOK
  <2> QED  BY <1>2, <2>1
<1>4. LinkTypes' /\ pushes' \in SUBSET Tasks
  BY <1>2, <1>3 DEF TaskInv, TypeOK, LinkTypes, history
<1> QED  BY <1>1, <1>2, <1>4, LoopOpenInv

\* The sweeper decides.
LEMMA SweepInv ==
    ASSUME TaskInv, Sweep
    PROVE  TaskInv'
<1>1. PICK x \in Transactions :
        /\ x.op = "offline" /\ Shape(Sweeper, x) /\ Stamps(x) /\ Decides(x)
        /\ txn' = [txn EXCEPT ![Sweeper] = x]
  BY MarkOfflineLemma DEF Sweep
<1>2. UNCHANGED <<database, stale, link, pushes, known, history>>
  BY DEF Sweep
<1>3. txn'[Sweeper] = x /\ \A u \in Threads \ {Sweeper} : txn'[u] = txn[u]
  BY <1>1, LoopAndSweeper DEF TaskInv, TypeOK
<1>4. LinkAgrees'
  BY <1>1, <1>2, <1>3, LoopAndSweeper DEF TaskInv, LinkAgrees, database, link, history
<1>5. CleanOfflineIsQuiet'
  BY <1>2, <1>3, LoopAndSweeper
  DEF TaskInv, CleanOfflineIsQuiet, ActiveTasks, database, link, history
<1>6. LinkTypes' /\ pushes' \in SUBSET Tasks
  BY <1>2 DEF TaskInv, TypeOK, LinkTypes, link, history
<1> QED  BY <1>1, <1>2, <1>4, <1>5, <1>6, LoopAndSweeper, OpenInv DEF history

-----------------------------------------------------------------------------
(* A transaction ends.                                                     *)

\* After a commit nobody else's open transaction is fresh.
LEMMA CommitTxns ==
    ASSUME TaskInv, NEW t \in Threads, Commit(t)
    PROVE  /\ txn'[t] = NoTxn
           /\ \A u \in Threads \ {t} :
                \/ Idle(u) /\ txn'[u] = txn[u]
                \/ /\ ~Idle(u)
                   /\ txn'[u] = [txn[u] EXCEPT !.fresh = FALSE]
                   /\ txn'[u].fresh = FALSE
                   /\ txn'[u].op = txn[u].op /\ txn'[u].agent = txn[u].agent
                   /\ txn'[u].rows = txn[u].rows /\ txn'[u].starts = txn[u].starts
                   /\ txn'[u].completes = txn[u].completes
           /\ txn' \in [Threads -> Transactions]
<1>1. txn' = [u \in Threads |-> IF u = t THEN NoTxn
                               ELSE IF Idle(u) THEN txn[u]
                               ELSE [txn[u] EXCEPT !.fresh = FALSE]]
  BY DEF Commit
<1>2. NoTxn \in Transactions
  BY DEF NoTxn, NoRows, Transactions
<1>3. \A u \in Threads : txn[u] \in Transactions
  BY DEF TaskInv, TypeOK
<1>4. \A u \in Threads : [txn[u] EXCEPT !.fresh = FALSE] \in Transactions
  BY <1>3 DEF Transactions
<1> QED  BY <1>1, <1>2, <1>3, <1>4 DEF Transactions

\* A commit preserves the invariant.
LEMMA CommitInv ==
    ASSUME TaskInv, NEW t \in Threads, Commit(t)
    PROVE  TaskInv'
<1> DEFINE x == txn[t]
<1>1. x \in Transactions /\ x.op # "none"
  BY DEF TaskInv, TypeOK, Commit, CanCommit, Idle
<1>2. Shape(t, x) /\ Stamps(x) /\ (x.fresh => Decides(x))
  BY DEF TaskInv, TransactionsAgree
<1>3. /\ agent' = IF x.agent = "keep" THEN agent ELSE x.agent
      /\ status' = [k \in Tasks |-> IF x.rows[k] = "keep" THEN status[k] ELSE x.rows[k]]
      /\ started' = started \cup x.starts
      /\ completed' = completed \cup x.completes
      /\ clean' = (clean /\ x.fresh)
      /\ refused' = (refused /\ agent' = "offline")
      /\ serving' = IF x.op = "resolve" THEN serving + 1 ELSE serving
      /\ UNCHANGED <<registered, accepting, known>>
  BY DEF Commit
<1>4. /\ txn'[t] = NoTxn /\ txn' \in [Threads -> Transactions]
      /\ \A u \in Threads \ {t} :
                \/ Idle(u) /\ txn'[u] = txn[u]
                \/ /\ ~Idle(u)
                   /\ txn'[u].fresh = FALSE
                   /\ txn'[u].op = txn[u].op /\ txn'[u].agent = txn[u].agent
                   /\ txn'[u].rows = txn[u].rows /\ txn'[u].starts = txn[u].starts
                   /\ txn'[u].completes = txn[u].completes
  BY CommitTxns
<1>5. TypeOK'
  <2>1. agent' \in AgentStatus
    BY <1>1, <1>3 DEF TaskInv, TypeOK, Transactions
  <2>2. status' \in [Tasks -> TaskStatus]
    <3>1. \A k \in Tasks : x.rows[k] \in TaskStatus \cup {"keep"} /\ status[k] \in TaskStatus
      BY <1>1 DEF Transactions, TaskInv, TypeOK
    <3> QED  BY <1>3, <3>1
  <2>3. started' \in SUBSET Tasks /\ completed' \in SUBSET Tasks
    BY <1>1, <1>3 DEF TaskInv, TypeOK, Transactions
  <2>4. stale' \in BOOLEAN /\ clean' \in BOOLEAN /\ refused' \in BOOLEAN
    BY <1>1 DEF TaskInv, TypeOK, Commit, Transactions
  <2>5. pushes' \in SUBSET Tasks
    <3>1. Touched(x) \in SUBSET Tasks
      BY <1>1 DEF Touched, Transactions
    <3> QED  BY <3>1 DEF TaskInv, TypeOK, Commit
  <2>6. serving' \in 0 .. MaxSockets
    BY <1>1, <1>2, <1>3, SocketsAssumption DEF TaskInv, TypeOK, LinkAgrees, Shape
  <2> QED  BY <1>3, <1>4, <2>1, <2>2, <2>3, <2>4, <2>5, <2>6 DEF TaskInv, TypeOK
<1>6. StampsFollowStatus'
  BY <1>1, <1>2, <1>3 DEF TaskInv, StampsFollowStatus, Stamps, Final
<1>7. CleanOfflineIsQuiet'
  <2> SUFFICES ASSUME clean, x.fresh, agent' = "offline"
               PROVE  /\ \A k \in Tasks : status'[k] # "pending"
                      /\ (\E k \in Tasks : status'[k] \in Active) =>
                            serving' > 0 \/ txn'[Loop].op = "offline" \/ refused'
    BY <1>1, <1>3 DEF CleanOfflineIsQuiet, ActiveTasks, Transactions
  <2>1. Decides(x) /\ \A k \in Tasks :
            status'[k] = IF x.rows[k] = "keep" THEN status[k] ELSE x.rows[k]
    BY <1>2, <1>3
  <2>2. CASE x.op = "offline"
    <3> SUFFICES ASSUME NEW k \in Tasks PROVE status'[k] \notin Active
      BY DEF Active
    <3>1. x.rows[k] \in {"keep", "failed"} /\ ((status[k] \in Active) <=> (x.rows[k] = "failed"))
      BY <1>2, <2>1, <2>2 DEF Shape, Decides
    <3> QED  BY <2>1, <3>1 DEF Active
  <2>3. CASE x.op # "offline"
    <3>1. agent = "offline" /\ x.agent = "keep" /\ (refused => refused')
      BY <1>1, <1>2, <1>3, <2>3 DEF Shape, Transactions
    <3>2. x.op \notin {"dispatch", "collect"}
      BY <2>1, <3>1 DEF Decides
    <3>3. /\ \A k \in Tasks : status[k] # "pending"
          /\ (\E k \in Tasks : status[k] \in Active) =>
                serving > 0 \/ txn[Loop].op = "offline" \/ refused
      BY <3>1 DEF TaskInv, CleanOfflineIsQuiet, ActiveTasks
    <3>4. \A k \in Tasks : status'[k] # "pending"
      BY <1>1, <1>2, <2>1, <2>3, <3>2, <3>3 DEF Shape, Transactions, Reports, Final
    <3>5. serving \in Nat /\ serving' \in Nat /\ (serving > 0 => serving' > 0)
      BY <1>3, SocketsAssumption DEF TaskInv, TypeOK
    <3>6. CASE x.op = "report"
      <4>1. serving > 0
        BY <3>1, <3>6 DEF TaskInv, LinkAgrees
      <4> QED  BY <3>4, <3>5, <4>1
    <3>7. CASE x.op # "report"
      <4>1. \A k \in Tasks : x.rows[k] \in {"keep", "deleted", "cancelled"}
        BY <1>1, <1>2, <2>3, <3>2, <3>7 DEF Shape, Transactions
      <4>2. \A k \in Tasks : status'[k] \in Active => status[k] \in Active
        BY <2>1, <4>1 DEF Active
      <4>3. txn[Loop].op = "offline" => txn'[Loop].op = "offline"
        BY <1>4, <2>3, LoopAndSweeper DEF Idle
      <4> QED  BY <3>1, <3>3, <3>4, <3>5, <4>2, <4>3
    <3> QED  BY <3>6, <3>7
  <2> QED  BY <2>2, <2>3
<1>8. TransactionsAgree'
  <2> SUFFICES ASSUME NEW u \in Threads
               PROVE  /\ Shape(u, txn[u])' /\ Stamps(txn[u])'
                      /\ (txn[u].fresh => Decides(txn[u]))'
    BY DEF TransactionsAgree
  <2>1. Shape(u, txn[u]) /\ Stamps(txn[u])
    BY DEF TaskInv, TransactionsAgree
  <2>2. CASE u = t
    BY <1>4, <2>2 DEF NoTxn, NoRows, Shape, Stamps, Decides, Final
  <2>3. CASE u # t
    <3>1. Shape(u, txn[u])'
      BY <1>4, <2>1, <2>3 DEF Shape
    <3>2. Stamps(txn[u])'
      BY <1>3, <1>4, <2>1, <2>3 DEF Stamps
    <3>3. (txn[u].fresh => Decides(txn[u]))'
      BY <1>4, <2>3 DEF Decides, Idle
    <3> QED  BY <3>1, <3>2, <3>3
  <2> QED  BY <2>2, <2>3
<1>9. LinkAgrees'
  <2>1. txn'[Loop].op = "resolve" => txn[Loop].op = "resolve" /\ t # Loop
    BY <1>4, LoopAndSweeper DEF NoTxn, Idle
  <2>2. x.op = "resolve" => t = Loop /\ ~accepting
    BY <1>2 DEF Shape, TaskInv, LinkAgrees
  <2>3. /\ accepting' \/ txn'[Loop].op = "resolve" => serving' < MaxSockets
        /\ txn'[Loop].op = "resolve" => ~accepting'
    BY <1>3, <2>1, <2>2 DEF TaskInv, LinkAgrees
  <2>4. \A u \in Threads : txn'[u].fresh => txn'[u].op = "none"
    BY <1>4 DEF NoTxn, Idle
  <2> QED  BY <2>3, <2>4 DEF LinkAgrees
<1> QED  BY <1>5, <1>6, <1>7, <1>8, <1>9 DEF TaskInv

\* A rollback preserves the invariant.
LEMMA RollbackInv ==
    ASSUME TaskInv, NEW t \in Threads, Rollback(t)
    PROVE  TaskInv'
<1>1. /\ txn' = [txn EXCEPT ![t] = NoTxn]
      /\ refused' = (refused \/ (t = Loop /\ txn[t].op = "offline" /\ agent = "offline"))
      /\ UNCHANGED <<database, stale, link, pushes, known, clean>>
  BY DEF Rollback
<1>2. NoTxn \in Transactions
  BY DEF NoTxn, NoRows, Transactions
<1>3. Shape(t, NoTxn) /\ Stamps(NoTxn) /\ Decides(NoTxn)
  BY DEF Shape, Stamps, Decides, NoTxn, NoRows, Final
<1>4. txn'[t] = NoTxn /\ \A u \in Threads \ {t} : txn'[u] = txn[u]
  BY <1>1 DEF TaskInv, TypeOK
<1>5. LinkAgrees'
  BY <1>1, <1>4, LoopAndSweeper DEF TaskInv, LinkAgrees, NoTxn, database, link
<1>6. CleanOfflineIsQuiet'
  BY <1>1, <1>4, LoopAndSweeper
  DEF TaskInv, CleanOfflineIsQuiet, ActiveTasks, database, link
<1>7. LinkTypes' /\ pushes' \in SUBSET Tasks
  BY <1>1 DEF TaskInv, TypeOK, LinkTypes, link
<1> QED  BY <1>1, <1>2, <1>3, <1>5, <1>6, <1>7, OpenInv

\* The steps that open and end no transaction preserve the invariant.
LEMMA QuietInv ==
    ASSUME TaskInv,
           \/ Heartbeat \/ Silence \/ Register \/ AcceptFails
           \/ (\E k \in Tasks : Push(k)) \/ UNCHANGED vars
    PROVE  TaskInv'
<1>1. UNCHANGED <<database, serving, txn, history>>
  BY DEF Heartbeat, Silence, Register, AcceptFails, Push, vars, link
<1>2. registered' \in BOOLEAN /\ accepting' \in BOOLEAN
  BY DEF TaskInv, TypeOK, Heartbeat, Silence, Register, AcceptFails, Push, vars, link
<1>3. stale' \in BOOLEAN /\ known' \in SUBSET Tasks /\ pushes' \in SUBSET Tasks
  BY DEF TaskInv, TypeOK, Heartbeat, Silence, Register, AcceptFails, Push, vars
<1>4. TypeOK'
  BY <1>1, <1>2, <1>3 DEF TaskInv, TypeOK, database, history
<1>5. StampsFollowStatus' /\ CleanOfflineIsQuiet'
  BY <1>1 DEF TaskInv, StampsFollowStatus, CleanOfflineIsQuiet, ActiveTasks, database, history
<1>6. TransactionsAgree'
  BY <1>1 DEF TaskInv, TransactionsAgree, Shape, Stamps, Decides, database
<1>7. \/ accepting' => accepting
      \/ Idle(Loop) /\ serving < MaxSockets
  BY DEF Heartbeat, Silence, Register, AcceptFails, Push, vars, link
<1>8. LinkAgrees'
  BY <1>1, <1>7 DEF TaskInv, LinkAgrees, Idle, database, history
<1> QED  BY <1>4, <1>5, <1>6, <1>8 DEF TaskInv

\* Every step preserves the invariant.
LEMMA TaskInvNext == TaskInv /\ [Next]_vars => TaskInv'
<1> SUFFICES ASSUME TaskInv, [Next]_vars PROVE TaskInv'
  OBVIOUS
<1>1. ASSUME NEW t \in Workers, Request(t) PROVE TaskInv'
  BY <1>1, RevokeInv, DispatchInv, DeleteInv, HttpReportInv DEF Request
<1>2. ASSUME NEW k \in Tasks, WsStatus(k) \/ WsResult(k) \/ Push(k) PROVE TaskInv'
  BY <1>2, WsReportInv, QuietInv
<1>3. ASSUME NEW t \in Threads, Commit(t) \/ Rollback(t) PROVE TaskInv'
  BY <1>3, CommitInv, RollbackInv
<1>4. CASE \/ Register \/ AcceptFails \/ Resolve \/ Disconnect
           \/ Heartbeat \/ Silence \/ Sweep \/ UNCHANGED vars
  BY <1>4, ResolveInv, DisconnectInv, SweepInv, QuietInv
<1> QED  BY <1>1, <1>2, <1>3, <1>4 DEF Next

\* TaskInv holds in every reachable state.
THEOREM TaskInvariant == Spec => []TaskInv
<1> QED  BY TaskInvInit, TaskInvNext, PTL DEF Spec

\* Type correctness of the rows and of the open transactions.
THEOREM TaskTypes == Spec => []TypeOK
<1>1. TaskInv => TypeOK
  BY DEF TaskInv
<1> QED  BY <1>1, TaskInvariant, PTL

\* completed_at and started_at follow agent_tasks.status, although racing
\* transactions write the columns independently.
THEOREM StampsAreRight == Spec => []StampsFollowStatus
<1>1. TaskInv => StampsFollowStatus
  BY DEF TaskInv
<1> QED  BY <1>1, TaskInvariant, PTL

\* heartbeat_sweeper.py:4-6, as far as the code keeps it: as long as no transaction
\* committed on rows another one had changed since it read them, no task waits for
\* an offline agent, and one that runs on it is a serving handler's, or one whose
\* handler's disconnection is under way or was refused.
THEOREM OfflineAgentsAreQuiet == Spec => []CleanOfflineIsQuiet
<1>1. TaskInv => CleanOfflineIsQuiet
  BY DEF TaskInv
<1> QED  BY <1>1, TaskInvariant, PTL

-----------------------------------------------------------------------------
(* The action properties.                                                  *)

\* Only a commit changes agents.status and the rows.
LEMMA OnlyCommits ==
    ASSUME [Next]_vars, ~(UNCHANGED <<agent, status>>)
    PROVE  \E t \in Threads : Commit(t)
<1>1. ASSUME NEW t \in Workers, Request(t) PROVE FALSE
  BY <1>1 DEF Request, Revoke, Dispatch, DispatchCollect, Delete, HttpStatus, HttpResult,
              Report, database
<1>2. ASSUME NEW k \in Tasks, WsStatus(k) \/ WsResult(k) \/ Push(k) PROVE FALSE
  BY <1>2 DEF WsStatus, WsResult, Report, Push, database
<1>3. ASSUME NEW t \in Threads, Rollback(t) PROVE FALSE
  BY <1>3 DEF Rollback, database
<1>4. CASE \/ Register \/ AcceptFails \/ Resolve \/ Disconnect
           \/ Heartbeat \/ Silence \/ Sweep \/ UNCHANGED vars
  BY <1>4 DEF Register, AcceptFails, Resolve, Disconnect, Heartbeat, Silence, Sweep,
              vars, database
<1> QED  BY <1>1, <1>2, <1>3, <1>4 DEF Next

\* What a commit on fresh rows does.
LEMMA CleanCommit ==
    ASSUME TaskInv, NEW t \in Threads, Commit(t), clean'
    PROVE  /\ txn[t] \in Transactions
           /\ Shape(t, txn[t]) /\ Decides(txn[t])
           /\ agent' = IF txn[t].agent = "keep" THEN agent ELSE txn[t].agent
           /\ \A k \in Tasks :
                status'[k] = IF txn[t].rows[k] = "keep" THEN status[k] ELSE txn[t].rows[k]
<1>1. clean' = (clean /\ txn[t].fresh) /\ txn[t] \in Transactions
  BY DEF Commit, TaskInv, TypeOK
<1>2. Shape(t, txn[t]) /\ Decides(txn[t])
  BY <1>1 DEF TaskInv, TransactionsAgree, TypeOK, Transactions
<1> QED  BY <1>1, <1>2 DEF Commit

\* Nothing takes a revoked agent out of its revocation, as long as no
\* transaction committed on rows another one had changed.
THEOREM RevocationIsFinal == Spec => CleanRevokedIsFinal
<1>1. ASSUME TaskInv, [Next]_vars, clean', agent = "revoked" PROVE agent' = "revoked"
  <2> SUFFICES ASSUME agent' # agent PROVE FALSE
    BY <1>1
  <2>1. PICK t \in Threads : Commit(t)
    BY <1>1, OnlyCommits
  <2>2. /\ txn[t] \in Transactions /\ Shape(t, txn[t]) /\ Decides(txn[t])
        /\ txn[t].agent # "keep" /\ txn[t].agent # "revoked"
    BY <1>1, <2>1, CleanCommit
  <2>3. txn[t].op \in {"resolve", "offline"}
    BY <2>2 DEF Shape, Transactions
  <2> QED  BY <1>1, <2>2, <2>3 DEF Shape, Decides
<1>2. TaskInv /\ [Next]_vars => [clean' /\ agent = "revoked" => agent' = "revoked"]_vars
  BY <1>1
<1> QED  BY <1>2, TaskInvariant, PTL DEF Spec, CleanRevokedIsFinal

\* agent_service.py:415: no running task is deleted, under the same condition.
THEOREM RunningTasksAreKept == Spec => CleanRunningIsKept
<1>1. ASSUME TaskInv, [Next]_vars, clean', NEW k \in Tasks, status[k] = "running"
      PROVE  status'[k] # "deleted"
  <2> SUFFICES ASSUME status'[k] = "deleted" PROVE FALSE
    OBVIOUS
  <2>1. PICK t \in Threads : Commit(t)
    BY <1>1, OnlyCommits
  <2>2. /\ txn[t] \in Transactions /\ Shape(t, txn[t]) /\ Decides(txn[t])
        /\ txn[t].rows[k] = "deleted"
    BY <1>1, <2>1, CleanCommit
  <2>3. txn[t].op = "delete"
    BY <2>2 DEF Shape, Transactions, Reports, Final
  <2> QED  BY <1>1, <2>2, <2>3 DEF Decides
<1>2. TaskInv /\ [Next]_vars
        => [clean' => \A k \in Tasks : status[k] = "running" => status'[k] # "deleted"]_vars
  BY <1>1
<1> QED  BY <1>2, TaskInvariant, PTL DEF Spec, CleanRunningIsKept

\* Marking an agent offline leaves its finished tasks alone, under the same
\* condition.
THEOREM FinishedTasksAreKept == Spec => CleanFinishedIsKept
<1>1. ASSUME TaskInv, [Next]_vars, clean', agent' = "offline", agent # "offline",
             NEW k \in Tasks, status[k] \in Final
      PROVE  status'[k] = status[k]
  <2>1. PICK t \in Threads : Commit(t)
    BY <1>1, OnlyCommits
  <2>2. /\ txn[t] \in Transactions /\ Shape(t, txn[t]) /\ Decides(txn[t])
        /\ txn[t].agent = "offline"
        /\ status'[k] = IF txn[t].rows[k] = "keep" THEN status[k] ELSE txn[t].rows[k]
    BY <1>1, <2>1, CleanCommit
  <2>3. txn[t].op = "offline"
    BY <2>2 DEF Shape, Transactions
  <2>4. status[k] \notin Active
    BY <1>1 DEF Final, Active
  <2>5. txn[t].rows[k] = "keep"
    BY <2>2, <2>3, <2>4 DEF Shape, Decides
  <2> QED  BY <2>2, <2>5
<1>2. TaskInv /\ [Next]_vars
        => [clean' /\ agent' = "offline" /\ agent # "offline" =>
              \A k \in Tasks : status[k] \in Final => status'[k] = status[k]]_vars
  BY <1>1
<1> QED  BY <1>2, TaskInvariant, PTL DEF Spec, CleanFinishedIsKept

\* A revocation cancels every active task, under the same condition.
THEOREM RevocationCancels == Spec => CleanRevokeCancels
<1>1. ASSUME TaskInv, [Next]_vars, clean', agent' = "revoked", agent # "revoked",
             NEW k \in Tasks
      PROVE  status'[k] \notin Active
  <2>1. PICK t \in Threads : Commit(t)
    BY <1>1, OnlyCommits
  <2>2. /\ txn[t] \in Transactions /\ Shape(t, txn[t]) /\ Decides(txn[t])
        /\ txn[t].agent = "revoked"
        /\ status'[k] = IF txn[t].rows[k] = "keep" THEN status[k] ELSE txn[t].rows[k]
    BY <1>1, <2>1, CleanCommit
  <2>3. txn[t].op = "revoke"
    BY <2>2 DEF Shape, Transactions
  <2>4. /\ txn[t].rows[k] \in {"keep", "cancelled"}
        /\ status[k] \in Active => txn[t].rows[k] = "cancelled"
    BY <2>2, <2>3 DEF Shape, Decides
  <2> QED  BY <2>2, <2>4 DEF Active
<1>2. TaskInv /\ [Next]_vars
        => [clean' /\ agent' = "revoked" /\ agent # "revoked" => ActiveTasks' = {}]_vars
  BY <1>1 DEF ActiveTasks
<1> QED  BY <1>2, TaskInvariant, PTL DEF Spec, CleanRevokeCancels

\* The rows of the tasks, as their run checks them.
THEOREM RowsHold == Spec => []RowsAreRight
<1>1. TaskInv => RowsAreRight
  BY DEF TaskInv, RowsAreRight
<1> QED  BY <1>1, TaskInvariant, PTL

\* What no commit of a task or of an agent undoes, as their run checks it.
THEOREM StatusesHold == Spec => CleanStatusesHold
<1> QED
  BY RevocationIsFinal, RunningTasksAreKept, FinishedTasksAreKept, RevocationCancels
  DEF CleanStatusesHold
=============================================================================
