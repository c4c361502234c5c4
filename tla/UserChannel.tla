---------------------------- MODULE UserChannel ----------------------------
(***************************************************************************)
(* The channel that core/websocket_manager.py keeps towards one user: the  *)
(* socket registered for the user, the events buffered while there is      *)
(* none, their replay on reconnection, and the send_to_user calls that are *)
(* under way.  Everything runs on the event loop and interleaves at        *)
(* `await` only, so an action runs from one await to the next.             *)
(*                                                                         *)
(* Events are numbered in the order of the send_to_user calls.  A send on  *)
(* an open socket is received; on a closed one it raises.                  *)
(***************************************************************************)
EXTENDS Naturals, Sequences, Functions

CONSTANTS
    Sessions,   \* WebSocket objects of the user (tabs, reconnections)
    NoWs,       \* "no entry" in user_connections
    BufferMax,  \* BUFFER_MAX_SIZE
    MaxEvents   \* bound: how many events are ever sent to the user

ASSUME NoWsAssumption == NoWs \notin Sessions
ASSUME BufferMaxAssumption == BufferMax \in Nat /\ BufferMax >= 2
ASSUME MaxEventsAssumption == MaxEvents \in Nat

VARIABLES
    user_connections,   \* ConnectionManager.user_connections[user_id]
    buffer,             \* ConnectionManager.user_event_buffer[user_id]
    aged,               \* how many of its oldest entries passed the TTL
    pc,                 \* where the ws_user coroutine of a session stands
    peer,               \* "up", or "down" once the socket is closed
    replay,             \* valid[idx:] of the session's replay loop
    sending,            \* events whose send_json on a session is under way
    sent,               \* number of send_to_user calls so far
    delivered,          \* events the user received
    purged              \* events the buffer dropped: too old or too many

sockets == <<user_connections, pc, peer>>
store == <<buffer, aged, purged>>
vars == <<sockets, store, replay, sending, sent, delivered>>

Events == 1 .. MaxEvents

TypeOK ==
    /\ user_connections \in Sessions \cup {NoWs}
    /\ buffer \in Seq(Events)
    /\ aged \in 0 .. Len(buffer)
    /\ pc \in [Sessions -> {"idle", "accepting", "replaying", "serving", "ended"}]
    /\ peer \in [Sessions -> {"up", "down"}]
    /\ replay \in [Sessions -> Seq(Events)]
    /\ sending \in [Sessions -> SUBSET Events]
    /\ sent \in 0 .. MaxEvents
    /\ delivered \in SUBSET Events
    /\ purged \in SUBSET Events

Init ==
    /\ user_connections = NoWs
    /\ buffer = <<>>
    /\ aged = 0
    /\ pc = [s \in Sessions |-> "idle"]
    /\ peer = [s \in Sessions |-> "up"]
    /\ replay = [s \in Sessions |-> <<>>]
    /\ sending = [s \in Sessions |-> {}]
    /\ sent = 0
    /\ delivered = {}
    /\ purged = {}

-----------------------------------------------------------------------------
(* The buffer.                                                             *)

\* What is left of the buffer once the entries past the TTL are removed.
Valid == SubSeq(buffer, aged + 1, Len(buffer))

\* The most recent n entries of a sequence.
Last_n(s, n) == SubSeq(s, Len(s) - n + 1, Len(s))

\* Mutant: the size test lets one entry too many stay.
KeptOneTooMany == IF Len(Valid) > BufferMax THEN Last_n(Valid, BufferMax) ELSE Valid

\* What _buffer_event keeps in front of the event it appends.
Kept == IF Len(Valid) >= BufferMax THEN Last_n(Valid, BufferMax - 1) ELSE Valid

BufferEvent(e) ==
    /\ buffer' = Append(Kept, e)
    /\ aged' = 0
    /\ purged' = purged \cup (Range(buffer) \ Range(Kept))

\* BUFFER_TTL_SECONDS pass for the oldest entry.  Entries are in the order of
\* their timestamps.
Age ==
    /\ aged < Len(buffer)
    /\ aged' = aged + 1
    /\ UNCHANGED <<sockets, buffer, purged, replay, sending, sent, delivered>>

-----------------------------------------------------------------------------
(* A user's socket.                                                        *)

\* connect_user, with a valid access token, up to `await accept()`.
Connect(s) ==
    /\ pc[s] = "idle"
    /\ pc' = [pc EXCEPT ![s] = "accepting"]
    /\ UNCHANGED <<user_connections, peer, store, replay, sending, sent, delivered>>

\* accept() returned: the socket replaces the registered one, and the replay
\* takes the whole buffer.
Accepted(s) ==
    /\ pc[s] = "accepting"
    /\ user_connections' = s
    /\ replay' = [replay EXCEPT ![s] = Valid]
    /\ pc' = [pc EXCEPT ![s] = IF Valid = <<>> THEN "serving" ELSE "replaying"]
    /\ buffer' = <<>>
    /\ aged' = 0
    /\ purged' = purged \cup (Range(buffer) \ Range(Valid))
    /\ UNCHANGED <<peer, sending, sent, delivered>>

\* accept() raised: the handler ends, and registered nothing.
AcceptFails(s) ==
    /\ pc[s] = "accepting"
    /\ peer[s] = "down"
    /\ pc' = [pc EXCEPT ![s] = "ended"]
    /\ UNCHANGED <<user_connections, peer, store, replay, sending, sent, delivered>>

\* send_json of a replayed event returned.
ReplayOne(s) ==
    /\ pc[s] = "replaying"
    /\ peer[s] = "up"
    /\ delivered' = delivered \cup {Head(replay[s])}
    /\ replay' = [replay EXCEPT ![s] = Tail(@)]
    /\ pc' = [pc EXCEPT ![s] = IF Len(replay[s]) = 1 THEN "serving" ELSE "replaying"]
    /\ UNCHANGED <<user_connections, peer, store, sending, sent>>

\* Mutant: valid[idx:] takes the ages of the list it replaces.
ReplayFailsKeepsAge(s) ==
    /\ pc[s] = "replaying"
    /\ peer[s] = "down"
    /\ buffer' = replay[s]
    /\ replay' = [replay EXCEPT ![s] = <<>>]
    /\ pc' = [pc EXCEPT ![s] = "serving"]
    /\ UNCHANGED <<user_connections, peer, aged, purged, sending, sent, delivered>>

\* It raised: valid[idx:] becomes the buffer, whatever the buffer held.
ReplayFails(s) ==
    /\ pc[s] = "replaying"
    /\ peer[s] = "down"
    /\ buffer' = replay[s]
    /\ aged' = 0
    /\ replay' = [replay EXCEPT ![s] = <<>>]
    /\ pc' = [pc EXCEPT ![s] = "serving"]
    /\ UNCHANGED <<user_connections, peer, purged, sending, sent, delivered>>

\* The tab is closed or the network drops the connection.
PeerDrops(s) ==
    /\ pc[s] \in {"accepting", "replaying", "serving"}
    /\ peer[s] = "up"
    /\ peer' = [peer EXCEPT ![s] = "down"]
    /\ UNCHANGED <<user_connections, pc, store, replay, sending, sent, delivered>>

\* receive_text raised: disconnect_user, by user_id.
HandleDisconnect(s) ==
    /\ pc[s] = "serving"
    /\ peer[s] = "down"
    /\ pc' = [pc EXCEPT ![s] = "ended"]
    /\ user_connections' = NoWs
    /\ UNCHANGED <<peer, store, replay, sending, sent, delivered>>

-----------------------------------------------------------------------------
(* send_to_user, called by the handlers of the user's agents.              *)

\* No socket is registered: the event is buffered at once.
SendBuffers ==
    /\ sent < MaxEvents
    /\ user_connections = NoWs
    /\ sent' = sent + 1
    /\ BufferEvent(sent + 1)
    /\ UNCHANGED <<sockets, replay, sending, delivered>>

\* One is: send_json starts, and suspends.
SendStarts(s) ==
    /\ sent < MaxEvents
    /\ user_connections = s
    /\ sent' = sent + 1
    /\ sending' = [sending EXCEPT ![s] = @ \cup {sent + 1}]
    /\ UNCHANGED <<sockets, store, replay, delivered>>

SendCompletes(s, e) ==
    /\ e \in sending[s]
    /\ peer[s] = "up"
    /\ sending' = [sending EXCEPT ![s] = @ \ {e}]
    /\ delivered' = delivered \cup {e}
    /\ UNCHANGED <<sockets, store, replay, sent>>

\* Mutant: the failed send forgets its event.
SendFailsSilently(s, e) ==
    /\ e \in sending[s]
    /\ peer[s] = "down"
    /\ sending' = [sending EXCEPT ![s] = @ \ {e}]
    /\ user_connections' = NoWs
    /\ UNCHANGED <<pc, peer, store, replay, sent, delivered>>

\* send_json raised: disconnect_user, by user_id, then the buffer.
SendFails(s, e) ==
    /\ e \in sending[s]
    /\ peer[s] = "down"
    /\ sending' = [sending EXCEPT ![s] = @ \ {e}]
    /\ user_connections' = NoWs
    /\ BufferEvent(e)
    /\ UNCHANGED <<pc, peer, replay, sent, delivered>>

-----------------------------------------------------------------------------
Session(s) ==
    \/ Connect(s) \/ Accepted(s) \/ AcceptFails(s) \/ ReplayOne(s) \/ ReplayFails(s)
    \/ PeerDrops(s) \/ HandleDisconnect(s) \/ SendStarts(s)
    \/ \E e \in Events : SendCompletes(s, e) \/ SendFails(s, e)

Next ==
    \/ \E s \in Sessions : Session(s)
    \/ SendBuffers \/ Age

\* The event loop resumes what can run.  Connections, drops, new events and
\* the clock are the environment's.
Fairness ==
    \A s \in Sessions :
        /\ WF_vars(Accepted(s) \/ AcceptFails(s) \/ ReplayOne(s) \/ ReplayFails(s))
        /\ WF_vars(HandleDisconnect(s))
        /\ \A e \in Events : WF_vars(SendCompletes(s, e) \/ SendFails(s, e))

Spec == Init /\ [][Next]_vars /\ Fairness

-----------------------------------------------------------------------------
(* What the channel guarantees.                                            *)

\* websocket_manager.py:8-9, "max 1000": neither the appends nor a failed
\* replay, which puts back a list taken earlier, exceeds the bound.
BufferBound == Len(buffer) <= BufferMax

\* Where an event that is not settled can be.
Pending(s) == Range(replay[s]) \cup sending[s]

NoDuplicates(q) == \A i, j \in DOMAIN q : q[i] = q[j] => i = j

\* No event reaches the user twice: it waits in one place at a time, once,
\* and in none when it has been received.
NoEventTwice ==
    /\ NoDuplicates(buffer)
    /\ \A s \in Sessions :
        /\ NoDuplicates(replay[s])
        /\ Range(replay[s]) \cap sending[s] = {}
        /\ Pending(s) \cap (delivered \cup Range(buffer)) = {}
        /\ \A o \in Sessions \ {s} : Pending(s) \cap Pending(o) = {}
    /\ Range(buffer) \cap delivered = {}

\* An event whose socket broke under it is not forgotten by the send: it is
\* received, buffered, or was dropped by the buffer's own limits.
SendSettles ==
    \A e \in Events :
        (\E s \in Sessions : e \in sending[s])
            ~> (e \in delivered \cup purged \cup Range(buffer))

\* A reconnection replays what was buffered, unless a socket of the user
\* breaks meanwhile.
BufferedIsReplayed ==
    \A s \in Sessions, e \in Events :
        (pc[s] = "accepting" /\ e \in Range(buffer))
            ~> (e \in delivered \cup purged \/ \E o \in Sessions : peer[o] = "down")

\* What the buffer holds, as one invariant.
BufferIsRight == BufferBound /\ NoEventTwice

\* What becomes of an event, as one property.
EventsSettle == SendSettles /\ BufferedIsReplayed
=============================================================================
