-------------------------- MODULE AgentLinkProofs --------------------------
(***************************************************************************)
(* The safety invariants of AgentLink, for any set of sockets.             *)
(*                                                                         *)
(* SupersedeIsSerial is not inductive by itself: that a second socket is   *)
(* not being connected follows from LockHeld, and that a superseded socket *)
(* is established from RegisteredIsPast, which says a registered socket    *)
(* went through Register.                                                  *)
(***************************************************************************)
EXTENDS AgentLink, TLAPS

\* The lock is held exactly by the socket between Register and Resolve.
LockHeld == \A s \in Sessions : pc[s] \in Connecting <=> agent_lock = s

\* A registered socket has entered connect_agent's critical section.
RegisteredIsPast ==
    \A s \in Sessions :
        agent_connections = s => pc[s] \notin {"idle", "waiting_lock"}

\* The inductive invariant.
LinkInv ==
    /\ TypeOK
    /\ OwnerTracksConnection
    /\ LockHeld
    /\ RegisteredIsPast
    /\ SupersedeIsSerial
    /\ SupersedesEstablished

\* The initial state satisfies the inductive invariant: no socket is registered.
LEMMA LinkInvInit == Init => LinkInv
BY NoWsAssumption
   DEF Init, LinkInv, TypeOK, OwnerTracksConnection, LockHeld, RegisteredIsPast,
       SupersedeIsSerial, SupersedesEstablished, Connecting

\* connect_agent's critical section entry preserves the invariant.
LEMMA RegisterInv ==
    ASSUME LinkInv, NEW s \in Sessions, Register(s)
    PROVE  LinkInv'
<1> USE NoWsAssumption DEF LinkInv, TypeOK, Register, Connecting, database
<1>1. TypeOK'
  OBVIOUS
<1>2. OwnerTracksConnection'
  BY DEF OwnerTracksConnection
<1>3. LockHeld'
  BY DEF LockHeld
<1>4. RegisteredIsPast'
  BY DEF RegisteredIsPast
<1>5. SupersedeIsSerial'
  BY DEF SupersedeIsSerial, LockHeld
<1>6. SupersedesEstablished'
  BY DEF SupersedesEstablished, LockHeld, RegisteredIsPast
<1> QED
  BY <1>1, <1>2, <1>3, <1>4, <1>5, <1>6

\* Leaving connect_agent, served or refused, preserves the invariant.
LEMMA ResolveInv ==
    ASSUME LinkInv, NEW s \in Sessions, pc[s] \in Connecting, Resolve(s)
    PROVE  LinkInv'
<1> USE NoWsAssumption DEF LinkInv, TypeOK, Resolve, Connecting
<1>1. TypeOK'
  OBVIOUS
<1>2. OwnerTracksConnection'
  BY DEF OwnerTracksConnection
<1>3. LockHeld'
  BY DEF LockHeld
<1>4. RegisteredIsPast'
  BY DEF RegisteredIsPast
<1>5. SupersedeIsSerial'
  BY DEF SupersedeIsSerial
<1>6. SupersedesEstablished'
  BY DEF SupersedesEstablished
<1> QED
  BY <1>1, <1>2, <1>3, <1>4, <1>5, <1>6

\* Removing the entry of the uuid preserves what does not depend on handlers.
LEMMA UnregisterInv ==
    ASSUME LinkInv, Unregister, UNCHANGED <<pc, trusted_owner, peer>>,
           UNCHANGED database
    PROVE  LinkInv'
BY NoWsAssumption
   DEF LinkInv, TypeOK, OwnerTracksConnection, LockHeld, RegisteredIsPast,
       SupersedeIsSerial, SupersedesEstablished, Unregister, Connecting, database

\* Every other step of a socket preserves the invariant.
LEMMA SessionInv ==
    ASSUME LinkInv, NEW s \in Sessions, Session(s)
    PROVE  LinkInv'
<1>1. CASE Arrive(s)
  BY <1>1, NoWsAssumption
     DEF Arrive, LinkInv, TypeOK, OwnerTracksConnection, LockHeld, RegisteredIsPast,
         SupersedeIsSerial, SupersedesEstablished, Connecting, link, database
<1>2. CASE Register(s)
  BY <1>2, RegisterInv
<1>3. CASE AcceptFirst(s)
  BY <1>3, ResolveInv DEF AcceptFirst, Connecting
<1>4. CASE AcceptThenClose(s)
  BY <1>4, NoWsAssumption
     DEF AcceptThenClose, LinkInv, TypeOK, OwnerTracksConnection, LockHeld,
         RegisteredIsPast, SupersedeIsSerial, SupersedesEstablished, Connecting,
         link, database
<1>5. CASE OldClosed(s)
  BY <1>5, ResolveInv DEF OldClosed, Connecting
<1>6. CASE Heartbeat(s)
  BY <1>6, NoWsAssumption
     DEF Heartbeat, LinkInv, TypeOK, OwnerTracksConnection, LockHeld,
         RegisteredIsPast, SupersedeIsSerial, SupersedesEstablished, Connecting,
         link, handlers
<1>7. CASE PeerDrops(s)
  BY <1>7, NoWsAssumption
     DEF PeerDrops, LinkInv, TypeOK, OwnerTracksConnection, LockHeld,
         RegisteredIsPast, SupersedeIsSerial, SupersedesEstablished, Connecting,
         link, database
<1>8. CASE HandleDisconnect(s)
  BY <1>8, NoWsAssumption
     DEF HandleDisconnect, Unregister, LinkInv, TypeOK, OwnerTracksConnection,
         LockHeld, RegisteredIsPast, SupersedeIsSerial, SupersedesEstablished,
         Connecting
<1>9. CASE PushFails(s)
  BY <1>9, UnregisterInv DEF PushFails, handlers
<1>10. CASE AcceptFails(s)
  BY <1>10, NoWsAssumption
     DEF AcceptFails, LinkInv, TypeOK, OwnerTracksConnection, LockHeld,
         RegisteredIsPast, SupersedeIsSerial, SupersedesEstablished, Connecting,
         database
<1> QED
  BY <1>1, <1>2, <1>3, <1>4, <1>5, <1>6, <1>7, <1>8, <1>9, <1>10 DEF Session

\* The invariant is inductive.
LEMMA LinkInvNext == LinkInv /\ [Next]_vars => LinkInv'
<1> SUFFICES ASSUME LinkInv, [Next]_vars PROVE LinkInv'
  OBVIOUS
<1>1. ASSUME NEW s \in Sessions, Session(s) PROVE LinkInv'
  BY <1>1, SessionInv
<1>2. CASE Silence \/ SweepRead \/ SweepCommit \/ SweepRefused
  <2>1. /\ UNCHANGED <<link, handlers>>
        /\ status' \in {"active", "offline"}
        /\ stale' \in BOOLEAN
        /\ sweep' \in {"idle", "decided"}
    BY <1>2 DEF Silence, SweepRead, SweepCommit, SweepRefused, LinkInv, TypeOK
  <2> QED
    BY <2>1
       DEF link, handlers, LinkInv, TypeOK, OwnerTracksConnection, LockHeld,
           RegisteredIsPast, SupersedeIsSerial, SupersedesEstablished, Connecting
<1>3. CASE UNCHANGED vars
  BY <1>3
     DEF vars, link, handlers, database, LinkInv, TypeOK, OwnerTracksConnection,
         LockHeld, RegisteredIsPast, SupersedeIsSerial, SupersedesEstablished,
         Connecting
<1> QED
  BY <1>1, <1>2, <1>3 DEF Next

\* Every reachable state satisfies the inductive invariant.
LEMMA LinkInvariant == Spec => []LinkInv
BY LinkInvInit, LinkInvNext, PTL DEF Spec

\* The variables of the link keep their types.
THEOREM LinkTypes == Spec => []TypeOK
<1>1. LinkInv => TypeOK
  BY DEF LinkInv
<1> QED
  BY <1>1, LinkInvariant, PTL

\* agent_owners and agent_connections always hold the same keys.
THEOREM OwnersFollowConnections == Spec => []OwnerTracksConnection
<1>1. LinkInv => OwnerTracksConnection
  BY DEF LinkInv
<1> QED
  BY <1>1, LinkInvariant, PTL

\* Reconnections of one agent are serialised by its lock, however many sockets
\* present its token at once.
THEOREM ReconnectionsAreSerial == Spec => []SupersedeIsSerial
<1>1. LinkInv => SupersedeIsSerial
  BY DEF LinkInv
<1> QED
  BY <1>1, LinkInvariant, PTL

\* connect_agent only ever closes a socket whose own connection is complete.
THEOREM OnlyEstablishedSuperseded == Spec => []SupersedesEstablished
<1>1. LinkInv => SupersedesEstablished
  BY DEF LinkInv
<1> QED
  BY <1>1, LinkInvariant, PTL

\* The registry's two dicts hold the same keys, and no socket takes the entry of one that is
\* being connected: the two facts the run of the link checks as one.
THEOREM OwnersHold == Spec => []OwnersAreSerial
<1>1. LinkInv => OwnersAreSerial
  BY DEF LinkInv, OwnersAreSerial
<1> QED
  BY <1>1, LinkInvariant, PTL
=============================================================================
