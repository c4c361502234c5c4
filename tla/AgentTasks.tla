----------------------------- MODULE AgentTasks -----------------------------
(***************************************************************************)
(* One enrolled agent and its tasks, as rows of the database, and the      *)
(* transactions that change them: the REST handlers of agents.py, which    *)
(* FastAPI runs in a pool of threads, the messages of /ws/agent, handled   *)
(* on the event loop, and the heartbeat sweeper, in a thread of its own.   *)
(*                                                                         *)
(* Every handler reads its rows, decides, and commits.  The session writes *)
(* the columns whose value the handler changed and checks nothing of what  *)
(* the others committed in between (READ COMMITTED, no version column), so *)
(* a transaction is two steps here: a read that decides the column writes, *)
(* and the commit that applies them.                                       *)
(*                                                                         *)
(* Of the sockets, which AgentLink has one by one, this module keeps what  *)
(* the transactions see: whether the agent has an entry in the registry,   *)
(* and how many handlers serve.  The two are not the same: a handler that  *)
(* ends, or a push that fails, removes the entry of whichever socket has   *)
(* it, and a handler goes on without one.                                  *)
(***************************************************************************)
EXTENDS Naturals

CONSTANTS
    Tasks,      \* rows agent_tasks may get for this agent
    Workers,    \* threads of the pool that serve REST requests
    Loop,       \* the event loop's thread
    Sweeper,    \* the heartbeat sweeper's thread
    MaxSockets  \* bound: sockets that connect or are served at once

ASSUME SocketsAssumption == MaxSockets \in Nat

ASSUME ThreadsAssumption ==
    /\ Loop \notin Workers \cup {Sweeper}
    /\ Sweeper \notin Workers

Threads == Workers \cup {Loop, Sweeper}

VARIABLES
    agent,      \* agents.status
    stale,      \* agents.last_seen is older than the sweeper's cutoff
    registered, \* the agent has an entry in agent_connections
    accepting,  \* a socket is inside connect_agent, which holds the agent's lock
    serving,    \* how many ws_agent handlers are in their receive loop
    status,     \* agent_tasks.status; "none" before, "deleted" after the row
    started,    \* tasks whose started_at is set
    completed,  \* tasks whose completed_at is set
    txn,        \* the transaction each thread has open
    pushes,     \* new_task events send_to_agent has still to send
    known,      \* tasks the agent received by new_task
    clean,      \* history: no commit so far decided on rows since changed
    refused     \* history: a disconnection was refused since the agent is offline

database == <<agent, status, started, completed>>
link == <<registered, accepting, serving>>
history == <<clean, refused>>
vars == <<database, stale, link, txn, pushes, known, history>>

AgentStatus == {"active", "offline", "revoked"}
Active == {"pending", "running"}
Final == {"completed", "failed", "cancelled"}
NoRow == {"none", "deleted"}
TaskStatus == NoRow \cup Active \cup Final
Reports == {"running"} \cup Final

\* A transaction: the columns it will write, "keep" those it will not, and
\* whether the rows are still those it read.
Transactions ==
    [op : {"none", "dispatch", "collect", "revoke", "delete", "report",
           "resolve", "offline"},
     agent : AgentStatus \cup {"keep"},
     rows : [Tasks -> TaskStatus \cup {"keep"}],
     starts : SUBSET Tasks,
     completes : SUBSET Tasks,
     fresh : BOOLEAN]

NoRows == [k \in Tasks |-> "keep"]
NoTxn == [op |-> "none", agent |-> "keep", rows |-> NoRows,
          starts |-> {}, completes |-> {}, fresh |-> TRUE]

TypeOK ==
    /\ agent \in AgentStatus
    /\ stale \in BOOLEAN
    /\ registered \in BOOLEAN
    /\ accepting \in BOOLEAN
    /\ serving \in 0 .. MaxSockets
    /\ status \in [Tasks -> TaskStatus]
    /\ started \in SUBSET Tasks
    /\ completed \in SUBSET Tasks
    /\ txn \in [Threads -> Transactions]
    /\ pushes \in SUBSET Tasks
    /\ known \in SUBSET Tasks
    /\ clean \in BOOLEAN
    /\ refused \in BOOLEAN

\* The agent was just enrolled; it has not connected its socket yet.
Init ==
    /\ agent = "active"
    /\ stale = FALSE
    /\ registered = FALSE
    /\ accepting = FALSE
    /\ serving = 0
    /\ status = [k \in Tasks |-> "none"]
    /\ started = {}
    /\ completed = {}
    /\ txn = [t \in Threads |-> NoTxn]
    /\ pushes = {}
    /\ known = {}
    /\ clean = TRUE
    /\ refused = FALSE

ActiveTasks == {k \in Tasks : status[k] \in Active}
Idle(t) == txn[t].op = "none"

\* Thread t has read its rows and decided on these writes.
Open(t, op, newAgent, rows, starts, completes) ==
    /\ Idle(t)
    /\ txn' = [txn EXCEPT ![t] =
            [op |-> op, agent |-> newAgent, rows |-> rows,
             starts |-> starts, completes |-> completes, fresh |-> TRUE]]

\* The session only writes a column when its value changes.
Write(ks, new) ==
    [k \in Tasks |-> IF k \in ks /\ status[k] # new THEN new ELSE "keep"]

-----------------------------------------------------------------------------
(* The user's requests.                                                    *)

\* dispatch_task: the new row is for an active agent.
NewTask(t, op, k) ==
    /\ agent = "active"
    /\ status[k] = "none"
    /\ \A u \in Threads : txn[u].rows[k] = "keep"
    /\ Open(t, op, "keep", Write({k}, "pending"), {}, {})

\* POST /agents/tasks/dispatch.  The background task runs before get_db's
\* exit code, and so before the commit (see Commit).
Dispatch(t, k) ==
    /\ NewTask(t, "dispatch", k)
    /\ pushes' = pushes \cup {k}
    /\ UNCHANGED <<database, stale, link, known, history>>

\* A collect: the same dispatch_task, committed before notify_agent_new_task.
DispatchCollect(t, k) ==
    /\ NewTask(t, "collect", k)
    /\ UNCHANGED <<database, stale, link, pushes, known, history>>

\* DELETE /agents/{uuid}: revoke_agent.
Revoke(t) ==
    /\ Open(t, "revoke", IF agent = "revoked" THEN "keep" ELSE "revoked",
            Write(ActiveTasks, "cancelled"), {}, ActiveTasks)
    /\ UNCHANGED <<database, stale, link, pushes, known, history>>

\* DELETE /agents/tasks/{uuid}: delete_task.
Delete(t, k) ==
    /\ status[k] \notin NoRow \cup {"running"}
    /\ Open(t, "delete", "keep", Write({k}, "deleted"), {}, {})
    /\ UNCHANGED <<database, stale, link, pushes, known, history>>

-----------------------------------------------------------------------------
(* The agent's reports.                                                    *)

\* What a status report changes, whichever way it comes.
Report(t, k, new) ==
    /\ k \in known
    /\ status[k] \notin NoRow
    /\ Open(t, "report", "keep", Write({k}, new),
            IF new = "running" THEN {k} \ started ELSE {},
            IF new \in Final THEN {k} ELSE {})
    /\ UNCHANGED <<database, stale, link, pushes, known, history>>

\* PATCH /agents/tasks/{uuid}/status, which get_current_agent lets through
\* for an active agent.
HttpStatus(t, k) ==
    /\ agent = "active"
    /\ \E new \in Reports : Report(t, k, new)

\* POST /agents/tasks/{uuid}/result: failed if it carries an error.
HttpResult(t, k) ==
    /\ agent = "active"
    /\ \E new \in {"completed", "failed"} : Report(t, k, new)

\* task_status on a socket: whatever agents.status and the registry say.
WsStatus(k) ==
    /\ serving > 0
    /\ \E new \in Reports : Report(Loop, k, new)

\* task_result on a socket.
WsResult(k) ==
    /\ serving > 0
    /\ \E new \in {"completed", "failed"} : Report(Loop, k, new)

\* A heartbeat, by HTTP from an active agent or on a socket: last_seen only.
Heartbeat ==
    /\ (serving > 0 /\ Idle(Loop)) \/ agent = "active"
    /\ stale' = FALSE
    /\ UNCHANGED <<database, link, txn, pushes, known, history>>

\* send_to_agent, on the event loop: without an entry the event is dropped; with
\* one it is received, lost with the connection, or raises, which removes the entry.
Push(k) ==
    /\ k \in pushes
    /\ Idle(Loop)
    /\ pushes' = pushes \ {k}
    /\ \/ UNCHANGED <<known, registered>>
       \/ /\ registered
          /\ accepting \/ serving > 0
          /\ known' = known \cup {k}
          /\ UNCHANGED registered
       \/ /\ registered
          /\ registered' = FALSE
          /\ UNCHANGED known
    /\ UNCHANGED <<database, stale, accepting, serving, txn, history>>

-----------------------------------------------------------------------------
(* Sockets come and go, and the agent falls silent.                        *)

\* connect_agent takes the agent's lock and the entry, whoever has it.
Register ==
    /\ Idle(Loop)
    /\ ~accepting
    /\ serving < MaxSockets
    /\ registered' = TRUE
    /\ accepting' = TRUE
    /\ UNCHANGED <<database, stale, serving, txn, pushes, known, history>>

\* accept() raises: the entry stays.
AcceptFails ==
    /\ Idle(Loop)
    /\ accepting
    /\ accepting' = FALSE
    /\ UNCHANGED <<database, stale, registered, serving, txn, pushes, known, history>>

\* connect_agent returns, and ws_resolve_and_activate reads the agent. The handler
\* serves when that transaction is committed; when it is refused the socket is
\* closed, and the entry stays.
Resolve ==
    /\ accepting
    /\ accepting' = FALSE
    /\ Open(Loop, "resolve", IF agent = "offline" THEN "active" ELSE "keep", NoRows, {}, {})
    /\ UNCHANGED <<database, stale, registered, serving, pushes, known, history>>

\* Mutant: a status the rest of the code does not know.
MarkOfflineUnknown(t) ==
    Open(t, "offline", IF agent = "active" THEN "disconnected" ELSE "keep",
         Write(ActiveTasks, "failed"), {}, ActiveTasks)

\* Mutant: pending tasks are left for the reconnection.
MarkOfflineRunningOnly(t) ==
    LET running == {k \in Tasks : status[k] = "running"}
    IN Open(t, "offline", IF agent = "active" THEN "offline" ELSE "keep",
            Write(running, "failed"), {}, running)

\* Mutant: the test of agent.status is forgotten.
MarkOfflineAnyAgent(t) ==
    Open(t, "offline", IF agent # "offline" THEN "offline" ELSE "keep",
         Write(ActiveTasks, "failed"), {}, ActiveTasks)

\* mark_agent_offline_and_fail_tasks.
MarkOffline(t) ==
    Open(t, "offline", IF agent = "active" THEN "offline" ELSE "keep",
         Write(ActiveTasks, "failed"), {}, ActiveTasks)

\* _handle_agent_disconnect, of whichever handler: the entry is removed, whichever
\* socket has it, then ws_handle_disconnect.
Disconnect ==
    /\ serving > 0
    /\ serving' = serving - 1
    /\ registered' = FALSE
    /\ MarkOffline(Loop)
    /\ UNCHANGED <<database, stale, accepting, pushes, known, history>>

\* No heartbeat for AGENT_HEARTBEAT_TIMEOUT_SECONDS.
Silence ==
    /\ ~stale
    /\ stale' = TRUE
    /\ UNCHANGED <<database, link, txn, pushes, known, history>>

\* Mutant: the agents with a socket are swept, the others are not.
SweepRegistered ==
    /\ agent = "active"
    /\ stale
    /\ registered
    /\ MarkOffline(Sweeper)
    /\ UNCHANGED <<database, stale, link, pushes, known, history>>

\* _sync_sweep_iteration.
Sweep ==
    /\ agent = "active"
    /\ stale
    /\ ~registered
    /\ MarkOffline(Sweeper)
    /\ UNCHANGED <<database, stale, link, pushes, known, history>>

-----------------------------------------------------------------------------
(* The end of a transaction.                                               *)

Touched(x) == {k \in Tasks : x.rows[k] # "keep"} \cup x.starts \cup x.completes

\* The rows it updates are still there, and what POST dispatch pushes is pushed.
CanCommit(t) ==
    /\ ~Idle(t)
    /\ txn[t].op \notin {"dispatch", "collect"}
          => \A k \in Touched(txn[t]) : status[k] \notin NoRow
    /\ txn[t].op = "dispatch" => pushes \cap Touched(txn[t]) = {}

Commit(t) ==
    LET x == txn[t]
    IN /\ CanCommit(t)
       /\ agent' = IF x.agent = "keep" THEN agent ELSE x.agent
       /\ status' = [k \in Tasks |-> IF x.rows[k] = "keep" THEN status[k] ELSE x.rows[k]]
       /\ started' = started \cup x.starts
       /\ completed' = completed \cup x.completes
       /\ stale' = (stale /\ ~(x.op = "resolve" /\ x.agent = "active"))
       /\ pushes' = IF x.op = "collect" THEN pushes \cup Touched(x) ELSE pushes
       /\ clean' = (clean /\ x.fresh)
       /\ txn' = [u \in Threads |-> IF u = t THEN NoTxn
                                    ELSE IF Idle(u) THEN txn[u]
                                    ELSE [txn[u] EXCEPT !.fresh = FALSE]]
       /\ serving' = IF x.op = "resolve" THEN serving + 1 ELSE serving
       /\ refused' = (refused /\ agent' = "offline")
       /\ UNCHANGED <<registered, accepting, known>>

\* The database refuses, or a row to update is gone: nothing is written. The
\* handlers of the socket and the sweeper log the exception and go on.
Rollback(t) ==
    /\ ~Idle(t)
    /\ txn' = [txn EXCEPT ![t] = NoTxn]
    /\ refused' = (refused \/ (t = Loop /\ txn[t].op = "offline" /\ agent = "offline"))
    /\ UNCHANGED <<database, stale, link, pushes, known, clean>>

-----------------------------------------------------------------------------
Request(t) ==
    \/ Revoke(t)
    \/ \E k \in Tasks :
        \/ Dispatch(t, k) \/ DispatchCollect(t, k) \/ Delete(t, k)
        \/ HttpStatus(t, k) \/ HttpResult(t, k)

Next ==
    \/ \E t \in Workers : Request(t)
    \/ \E k \in Tasks : WsStatus(k) \/ WsResult(k) \/ Push(k)
    \/ \E t \in Threads : Commit(t) \/ Rollback(t)
    \/ Register \/ AcceptFails \/ Resolve \/ Disconnect
    \/ Heartbeat \/ Silence \/ Sweep

\* The sweeper's loop runs for ever, an open transaction ends, and the sweeper's
\* is not refused for ever; the event loop gets to every event queued on it.
\* Requests, reports and the link are not owed.
Fairness ==
    /\ WF_vars(Sweep)
    /\ SF_vars(Commit(Sweeper))
    /\ \A t \in Threads : WF_vars(Commit(t) \/ Rollback(t))
    /\ \A k \in Tasks : SF_vars(Push(k))

Spec == Init /\ [][Next]_vars /\ Fairness

-----------------------------------------------------------------------------
(* What the handlers guarantee.                                            *)

\* A row whose status is final has its completed_at, and one that runs has
\* its started_at, although status and stamps are columns that racing
\* transactions write independently.
StampsFollowStatus ==
    \A k \in Tasks :
        /\ status[k] \in Final => k \in completed
        /\ status[k] = "running" => k \in started

\* heartbeat_sweeper.py:4-6, as far as the code keeps it while no two transactions
\* of the agent overlap: an offline agent has no task that waits for it, and one
\* that runs was reported so by a handler that outlived the one that marked the
\* agent offline. The end of that handler ends the task, unless it is refused.
CleanOfflineIsQuiet ==
    clean /\ agent = "offline" =>
        /\ \A k \in Tasks : status[k] # "pending"
        /\ ActiveTasks # {} => serving > 0 \/ txn[Loop].op = "offline" \/ refused

\* A revocation is final under the same condition: neither a reconnection nor
\* a disconnection nor a sweep takes the agent out of it.
CleanRevokedIsFinal ==
    [][clean' /\ agent = "revoked" => agent' = "revoked"]_vars

\* agent_service.py:415: no running task is deleted under the same condition.
CleanRunningIsKept ==
    [][clean' => \A k \in Tasks : status[k] = "running" => status'[k] # "deleted"]_vars

\* Under the same condition marking an agent offline leaves finished tasks alone.
CleanFinishedIsKept ==
    [][clean' /\ agent' = "offline" /\ agent # "offline" =>
        \A k \in Tasks : status[k] \in Final => status'[k] = status[k]]_vars

\* A revocation cancels every task that was active, under the same condition.
CleanRevokeCancels ==
    [][clean' /\ agent' = "revoked" /\ agent # "revoked" => ActiveTasks' = {}]_vars

\* An active agent that is silent and has no socket, with no transaction under
\* way, does not keep its active tasks, unless it comes back.
SilentTasksEnd ==
    \A k \in Tasks :
        (/\ agent = "active" /\ stale /\ ~registered
         /\ \A t \in Threads : Idle(t)
         /\ status[k] \in Active)
            ~> (status[k] \notin Active \/ registered \/ ~stale)

\* What the row of a task says of its agent and of its own past, as one invariant.
RowsAreRight == StampsFollowStatus /\ CleanOfflineIsQuiet

\* What no commit undoes, unless it was prepared while another one was made: the
\* four properties as one.
CleanStatusesHold ==
    CleanRevokedIsFinal /\ CleanRunningIsKept /\ CleanFinishedIsKept /\ CleanRevokeCancels
=============================================================================
