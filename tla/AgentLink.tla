----------------------------- MODULE AgentLink -----------------------------
(***************************************************************************)
(* The WebSocket link of one agent: the registry entry that                *)
(* core/websocket_manager.py keeps for its agent_uuid, and the coroutine   *)
(* api/v1/websocket.py:ws_agent runs for each socket that presents its     *)
(* token.  Coroutines of the event loop interleave at `await` only, so an  *)
(* action runs from one await to the next.  The heartbeat sweeper reads    *)
(* the registry from a thread of its own.                                  *)
(*                                                                         *)
(* Every operation of the registry touches the one key it is given, hence  *)
(* one agent per instance.  The agent is enrolled and not revoked; its     *)
(* tasks and its revocation are in AgentTasks.                             *)
(***************************************************************************)
EXTENDS Naturals

CONSTANTS
    Sessions,   \* WebSocket objects that may present the agent's token
    NoWs        \* "no entry" in the registry, "no holder" of the lock

ASSUME NoWsAssumption == NoWs \notin Sessions

VARIABLES
    agent_connections,  \* ConnectionManager.agent_connections[agent_uuid]
    agent_owners,       \* TRUE iff the uuid has an entry in agent_owners
    agent_lock,         \* session inside the per-agent asyncio.Lock
    pc,                 \* where the ws_agent coroutine of a session stands
    old_ws,             \* connect_agent's local old_ws
    peer,               \* "up", or "down" once a receive would raise
    trusted_owner,      \* ws_agent's trusted_owner_id is not None
    status,             \* agents.status in the database
    stale,              \* agents.last_seen is older than the sweeper's cutoff
    sweep               \* the sweeper holds this agent in its `stale` list

link == <<agent_connections, agent_owners, agent_lock, old_ws>>
handlers == <<pc, peer, trusted_owner>>
database == <<status, stale, sweep>>
vars == <<link, handlers, database>>

Connecting == {"accepting", "closing_old"}

TypeOK ==
    /\ agent_connections \in Sessions \cup {NoWs}
    /\ agent_owners \in BOOLEAN
    /\ agent_lock \in Sessions \cup {NoWs}
    /\ pc \in [Sessions -> Connecting \cup {"idle", "waiting_lock", "serving", "ended"}]
    /\ old_ws \in [Sessions -> Sessions \cup {NoWs}]
    /\ peer \in [Sessions -> {"up", "down"}]
    /\ trusted_owner \in [Sessions -> BOOLEAN]
    /\ status \in {"active", "offline"}
    /\ stale \in BOOLEAN
    /\ sweep \in {"idle", "decided"}

Init ==
    /\ agent_connections = NoWs
    /\ agent_owners = FALSE
    /\ agent_lock = NoWs
    /\ pc = [s \in Sessions |-> "idle"]
    /\ old_ws = [s \in Sessions |-> NoWs]
    /\ peer = [s \in Sessions |-> "up"]
    /\ trusted_owner = [s \in Sessions |-> FALSE]
    /\ status = "active"
    /\ stale = FALSE
    /\ sweep = "idle"

-----------------------------------------------------------------------------
(* Connecting.                                                             *)

\* ws_agent is entered with a token verify_agent_token accepts.
Arrive(s) ==
    /\ pc[s] = "idle"
    /\ pc' = [pc EXCEPT ![s] = "waiting_lock"]
    /\ UNCHANGED <<link, peer, trusted_owner, database>>

\* Mutant: the supersede without the per-agent lock.
RegisterUnlocked(s) ==
    /\ pc[s] = "waiting_lock"
    /\ agent_lock' = s
    /\ old_ws' = [old_ws EXCEPT ![s] = agent_connections]
    /\ agent_connections' = s
    /\ agent_owners' = TRUE
    /\ pc' = [pc EXCEPT ![s] = "accepting"]
    /\ UNCHANGED <<peer, trusted_owner, database>>

\* connect_agent, from the acquisition of the lock to `await accept()`.
Register(s) ==
    /\ pc[s] = "waiting_lock"
    /\ agent_lock = NoWs
    /\ agent_lock' = s
    /\ old_ws' = [old_ws EXCEPT ![s] = agent_connections]
    /\ agent_connections' = s
    /\ agent_owners' = TRUE
    /\ pc' = [pc EXCEPT ![s] = "accepting"]
    /\ UNCHANGED <<peer, trusted_owner, database>>

\* What runs, without a suspension, once connect_agent leaves the lock:
\* get_agent_owner, then ws_resolve_and_activate, whose transaction may fail,
\* in which case the socket is closed and ws_agent returns.
Resolve(s) ==
    /\ agent_lock' = NoWs
    /\ trusted_owner' = [trusted_owner EXCEPT ![s] = agent_owners]
    /\ \/ /\ pc' = [pc EXCEPT ![s] = "serving"]
          /\ status' = "active"
          /\ stale' = (stale /\ status # "offline")
          /\ UNCHANGED peer
       \/ /\ pc' = [pc EXCEPT ![s] = "ended"]
          /\ peer' = [peer EXCEPT ![s] = "down"]
          /\ UNCHANGED <<status, stale>>
    /\ UNCHANGED <<agent_connections, agent_owners, old_ws, sweep>>

AcceptFirst(s) ==
    /\ pc[s] = "accepting"
    /\ old_ws[s] = NoWs
    /\ Resolve(s)

\* accept() raises on a connection that is gone: the lock is left, the entry
\* stays, and the socket it replaced is not closed.
AcceptFails(s) ==
    /\ pc[s] = "accepting"
    /\ peer[s] = "down"
    /\ agent_lock' = NoWs
    /\ pc' = [pc EXCEPT ![s] = "ended"]
    /\ UNCHANGED <<agent_connections, agent_owners, old_ws, peer, trusted_owner, database>>

\* accept() returned; `await old_ws.close(1012)` makes the old handler's
\* pending receive raise before, or after, close() returns.
AcceptThenClose(s) ==
    /\ pc[s] = "accepting"
    /\ old_ws[s] # NoWs
    /\ pc' = [pc EXCEPT ![s] = "closing_old"]
    /\ peer' = [peer EXCEPT ![old_ws[s]] = "down"]
    /\ UNCHANGED <<link, trusted_owner, database>>

OldClosed(s) ==
    /\ pc[s] = "closing_old"
    /\ Resolve(s)

-----------------------------------------------------------------------------
(* Serving, and the ways a socket goes away.                               *)

\* Mutant: disconnect_agent forgets agent_owners.pop.
UnregisterKeepsOwner ==
    /\ agent_connections' = NoWs
    /\ UNCHANGED <<agent_owners, agent_lock, old_ws>>

\* disconnect_agent: by agent_uuid, whichever socket is registered.
Unregister ==
    /\ agent_connections' = NoWs
    /\ agent_owners' = FALSE
    /\ UNCHANGED <<agent_lock, old_ws>>

\* A heartbeat message: ws_record_heartbeat moves last_seen, not the status.
Heartbeat(s) ==
    /\ pc[s] = "serving"
    /\ peer[s] = "up"
    /\ stale' = FALSE
    /\ UNCHANGED <<link, handlers, status, sweep>>

\* The daemon stops, or the network drops the connection.
PeerDrops(s) ==
    /\ pc[s] \in Connecting \cup {"serving"}
    /\ peer[s] = "up"
    /\ peer' = [peer EXCEPT ![s] = "down"]
    /\ UNCHANGED <<link, pc, trusted_owner, database>>

\* Mutant: a status outside pending|active|revoked|offline.
HandleDisconnectUnknownStatus(s) ==
    /\ pc[s] = "serving"
    /\ peer[s] = "down"
    /\ pc' = [pc EXCEPT ![s] = "ended"]
    /\ Unregister
    /\ status' = "disconnected"
    /\ UNCHANGED <<peer, trusted_owner, stale, sweep>>

\* receive_text raised: _handle_agent_disconnect, which unregisters the uuid
\* and runs ws_handle_disconnect (active -> offline, tasks failed). When its
\* transaction is refused the exception is logged and the agent stays as it is.
HandleDisconnect(s) ==
    /\ pc[s] = "serving"
    /\ peer[s] = "down"
    /\ pc' = [pc EXCEPT ![s] = "ended"]
    /\ Unregister
    /\ status' \in {"offline", status}
    /\ UNCHANGED <<peer, trusted_owner, stale, sweep>>

\* send_to_agent on a dead socket raises and unregisters the uuid.
PushFails(s) ==
    /\ agent_connections = s
    /\ peer[s] = "down"
    /\ Unregister
    /\ UNCHANGED <<handlers, database>>

-----------------------------------------------------------------------------
(* The heartbeat sweeper's pass over this agent.                           *)

\* No heartbeat for AGENT_HEARTBEAT_TIMEOUT_SECONDS.
Silence ==
    /\ ~stale
    /\ stale' = TRUE
    /\ UNCHANGED <<link, handlers, status, sweep>>

\* Mutant: the registry test inverted.
SweepReadRegistered ==
    /\ sweep = "idle"
    /\ status = "active"
    /\ stale
    /\ agent_connections # NoWs
    /\ sweep' = "decided"
    /\ UNCHANGED <<link, handlers, status, stale>>

\* The agent is read as active and stale, and found absent of the registry.
SweepRead ==
    /\ sweep = "idle"
    /\ status = "active"
    /\ stale
    /\ agent_connections = NoWs
    /\ sweep' = "decided"
    /\ UNCHANGED <<link, handlers, status, stale>>

\* The commit writes what the read decided.
SweepCommit ==
    /\ sweep = "decided"
    /\ sweep' = "idle"
    /\ status' = "offline"
    /\ UNCHANGED <<link, handlers, stale>>

\* The pass is rolled back, whatever refused it; the loop goes on.
SweepRefused ==
    /\ sweep = "decided"
    /\ sweep' = "idle"
    /\ UNCHANGED <<link, handlers, status, stale>>

-----------------------------------------------------------------------------
Session(s) ==
    \/ Arrive(s) \/ Register(s) \/ AcceptFirst(s) \/ AcceptThenClose(s)
    \/ AcceptFails(s) \/ OldClosed(s) \/ Heartbeat(s) \/ PeerDrops(s)
    \/ HandleDisconnect(s) \/ PushFails(s)

Next ==
    \/ \E s \in Sessions : Session(s)
    \/ Silence \/ SweepRead \/ SweepCommit \/ SweepRefused

\* The event loop resumes every coroutine that can run, and asyncio.Lock wakes
\* its waiters in arrival order.  The sweeper passes again and again, and the
\* database does not refuse each of its passes.  Arrivals, heartbeats, drops and
\* pushes are the environment's; so is a disconnection that is refused.
Fairness ==
    /\ \A s \in Sessions :
        /\ SF_vars(Register(s))
        /\ WF_vars(AcceptFirst(s) \/ AcceptThenClose(s) \/ AcceptFails(s) \/ OldClosed(s))
        /\ WF_vars(HandleDisconnect(s))
    /\ WF_vars(SweepRead)
    /\ SF_vars(SweepCommit)

Spec == Init /\ [][Next]_vars /\ Fairness

-----------------------------------------------------------------------------
(* What the registry guarantees.                                           *)

\* agent_owners never outlives, nor lacks, the connection it describes:
\* connect_agent and disconnect_agent change the two dicts together.
OwnerTracksConnection == agent_owners <=> agent_connections # NoWs

\* While a socket is being connected no other socket takes its entry: it can
\* only be removed.  This is what the per-agent lock is for.
SupersedeIsSerial ==
    \A s \in Sessions :
        pc[s] \in Connecting => agent_connections \in {s, NoWs}

\* The socket closed with 1012 is one whose own connection is complete: a
\* reconnection never closes a socket that is still being accepted.
SupersedesEstablished ==
    \A s \in Sessions :
        pc[s] \in Connecting /\ old_ws[s] # NoWs =>
            pc[old_ws[s]] \in {"serving", "ended"}

\* Every accepted token ends up served or refused: nobody keeps the lock.
ConnectCompletes ==
    \A s \in Sessions :
        pc[s] = "waiting_lock" ~> pc[s] \in {"serving", "ended"}

\* A superseded handler terminates.
SupersededEnds ==
    \A s, o \in Sessions :
        (pc[s] = "closing_old" /\ old_ws[s] = o) ~> pc[o] = "ended"

\* An agent that stays silent and unregistered is eventually offline for
\* good, whatever sweeps and handlers were under way when it fell silent and
\* whichever of their transactions were refused.
SilentGoesOffline ==
    <>[](stale /\ agent_connections = NoWs) => <>[](status = "offline")

\* The registry and its lock, as one invariant.
OwnersAreSerial == OwnerTracksConnection /\ SupersedeIsSerial

\* The three ends of a connection, as one property.
ConnectionsSettle == ConnectCompletes /\ SupersededEnds /\ SilentGoesOffline
=============================================================================
