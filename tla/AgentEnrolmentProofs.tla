------------------------ MODULE AgentEnrolmentProofs ------------------------
(***************************************************************************)
(* Proofs about AgentEnrolment, for any number of agents and threads.      *)
(*                                                                         *)
(* The inductive invariant says what the row lock is worth: exactly the    *)
(* transactions that enrol or have flushed a revocation hold a lock, each  *)
(* that of its own agent, so an enrolment that was let through still finds *)
(* its agent pending when it commits, whoever else runs.                   *)
(***************************************************************************)
EXTENDS AgentEnrolment, TLAPS

Holding(t) == txn[t].at \in {"enrolling", "flushed", "listed"}

\* The lock of a row is held by the transaction that works on it, and only by it.
LockIsHeld ==
    /\ \A t \in Threads : Holding(t) => lock[txn[t].agent] = t
    /\ \A a \in Agents, t \in Threads : lock[a] = t => Holding(t) /\ txn[t].agent = a

\* Certified agents are those that enrolled, once, and have left "pending".
EnrolmentsCount ==
    \A a \in Agents :
        /\ enrolments[a] = IF a \in certified THEN 1 ELSE 0
        /\ status[a] = "active" => a \in certified
        /\ a \in certified => status[a] # "pending"

\* An enrolment under way is of an agent that is still pending.
EnrollingIsPending ==
    \A t \in Threads : At(t, "enrolling") =>
        status[txn[t].agent] = "pending" /\ txn[t].agent \notin certified

\* The CRL holds the revoked agents, and the one whose revocation is next.
CrlHolds ==
    ~overlap =>
        /\ \A a \in certified : status[a] = "revoked" => a \in crl
        /\ \A t \in Threads : At(t, "listed") /\ txn[t].agent \in certified
                                => txn[t].agent \in crl

Inv == TypeOK /\ LockIsHeld /\ EnrolmentsCount /\ EnrollingIsPending /\ CrlHolds

-----------------------------------------------------------------------------
\* The invariant holds in the initial states.
LEMMA InitInv == Init => Inv
<1> SUFFICES ASSUME Init PROVE Inv
  OBVIOUS
<1> USE NoThreadAssumption DEF Init
<1>1. TypeOK
  BY DEF TypeOK, Transactions, NoTxn
<1>2. LockIsHeld
  BY DEF LockIsHeld, Holding, NoTxn
<1>3. EnrolmentsCount /\ EnrollingIsPending /\ CrlHolds
  BY DEF EnrolmentsCount, EnrollingIsPending, CrlHolds, At, NoTxn
<1> QED
  BY <1>1, <1>2, <1>3 DEF Inv

\* A transaction that ends gives back its lock and touches no other.
LEMMA EndsKeepsLocks ==
    ASSUME Inv, NEW t \in Threads, Ends(t)
    PROVE  /\ lock' \in [Agents -> Threads \cup {NoThread}]
           /\ txn' \in [Threads -> Transactions \cup {NoTxn}]
           /\ LockIsHeld'
           /\ \A u \in Threads : u # t => txn'[u] = txn[u]
           /\ txn'[t].at = "idle"
<1> USE NoThreadAssumption DEF Inv, TypeOK, Ends, Unlocked
<1>1. /\ lock' \in [Agents -> Threads \cup {NoThread}]
      /\ txn' \in [Threads -> Transactions \cup {NoTxn}]
  OBVIOUS
<1>2. /\ \A u \in Threads : u # t => txn'[u] = txn[u]
      /\ txn'[t].at = "idle"
  BY DEF NoTxn
<1>3. \A u \in Threads : Holding(u) => txn[u].agent \in Agents
  BY DEF Holding, Transactions, NoTxn
<1>4. ASSUME NEW u \in Threads, txn'[u].at \in {"enrolling", "flushed", "listed"}
      PROVE  lock'[txn'[u].agent] = u
  <2>1. u # t /\ txn'[u] = txn[u] /\ Holding(u)
    BY <1>2, <1>4 DEF Holding
  <2>2. lock[txn[u].agent] = u /\ txn[u].agent \in Agents
    BY <2>1, <1>3 DEF LockIsHeld
  <2> QED
    BY <2>1, <2>2
<1>5. ASSUME NEW a \in Agents, NEW u \in Threads, lock'[a] = u
      PROVE  txn'[u].at \in {"enrolling", "flushed", "listed"} /\ txn'[u].agent = a
  <2>1. lock[a] = u /\ u # t
    BY <1>5
  <2> QED
    BY <2>1, <1>2 DEF LockIsHeld, Holding
<1> QED
  BY <1>1, <1>2, <1>4, <1>5 DEF LockIsHeld, Holding

\* One step of the threads keeps the invariant.
LEMMA NextInv == Inv /\ [Next]_vars => Inv'
<1> SUFFICES ASSUME Inv, [Next]_vars PROVE Inv'
  OBVIOUS
<1> USE NoThreadAssumption
<1>0. \A t \in Threads : txn[t].at # "idle" => txn[t] \in Transactions /\ txn[t].agent \in Agents
  BY DEF Inv, TypeOK, Transactions, NoTxn
<1>1. ASSUME NEW t \in Threads, NEW a \in Agents, EnrollQuery(t, a) PROVE Inv'
  <2>1. /\ txn' = [txn EXCEPT ![t] = [at |-> "enrolling", agent |-> a, certified |-> FALSE]]
        /\ txn[t].at = "idle" /\ lock[a] = NoThread /\ lock' = [lock EXCEPT ![a] = t]
        /\ status[a] = "pending" /\ a \notin certified
        /\ UNCHANGED <<status, certified, expired, crl, enrolments, overlap>>
    BY <1>1 DEF EnrollQuery, Idle, Locks
  <2>2. TypeOK'
    BY <2>1 DEF Inv, TypeOK, Transactions
  <2>3. LockIsHeld'
    BY <2>1, <1>0 DEF Inv, TypeOK, LockIsHeld, Holding
  <2>4. EnrolmentsCount' /\ EnrollingIsPending' /\ CrlHolds'
    BY <2>1 DEF Inv, TypeOK, EnrolmentsCount, EnrollingIsPending, CrlHolds, At
  <2> QED
    BY <2>2, <2>3, <2>4 DEF Inv
<1>2. ASSUME NEW t \in Threads, EnrollCommit(t) PROVE Inv'
  <2> DEFINE a == txn[t].agent
  <2>1. /\ txn[t].at = "enrolling" /\ Ends(t)
        /\ status' = [status EXCEPT ![a] = "active"]
        /\ certified' = certified \cup {a}
        /\ enrolments' = [enrolments EXCEPT ![a] = @ + 1]
        /\ UNCHANGED <<expired, crl, overlap>>
    BY <1>2 DEF EnrollCommit, At
  <2>2. /\ lock' \in [Agents -> Threads \cup {NoThread}]
        /\ txn' \in [Threads -> Transactions \cup {NoTxn}]
        /\ LockIsHeld'
        /\ \A u \in Threads : u # t => txn'[u] = txn[u]
        /\ txn'[t].at = "idle"
    BY <2>1, EndsKeepsLocks
  <2>3. a \in Agents /\ status[a] = "pending" /\ a \notin certified /\ enrolments[a] = 0
    BY <2>1, <1>0 DEF Inv, EnrollingIsPending, EnrolmentsCount, At
  <2>4. \A u \in Threads : u # t /\ Holding(u) => txn[u].agent # a
    BY <2>1 DEF Inv, LockIsHeld, Holding
  <2>5. TypeOK'
    <3>1. enrolments' = [enrolments EXCEPT ![a] = 1]
      BY <2>1, <2>3
    <3>2. enrolments' \in [Agents -> Nat]
      BY <2>3, <3>1 DEF Inv, TypeOK
    <3>3. status' \in [Agents -> {"pending", "active", "revoked"}]
      BY <2>1, <2>3 DEF Inv, TypeOK
    <3>4. certified' \in SUBSET Agents
      BY <2>1, <2>3 DEF Inv, TypeOK
    <3> QED
      BY <2>1, <2>2, <3>2, <3>3, <3>4 DEF Inv, TypeOK
  <2>6. EnrolmentsCount'
    BY <2>1, <2>3 DEF Inv, TypeOK, EnrolmentsCount
  <2>7. EnrollingIsPending'
    BY <2>1, <2>2, <2>3, <2>4, <1>0 DEF Inv, TypeOK, EnrollingIsPending, At, Holding
  <2>8. CrlHolds'
    BY <2>1, <2>2, <2>3, <2>4 DEF Inv, TypeOK, CrlHolds, At, Holding
  <2> QED
    BY <2>2, <2>5, <2>6, <2>7, <2>8 DEF Inv
<1>3. ASSUME NEW a \in Agents, Expire(a) PROVE Inv'
  <2>1. expired' = expired \cup {a}
        /\ UNCHANGED <<status, certified, lock, txn, crl, enrolments, overlap>>
    BY <1>3 DEF Expire
  <2> QED
    BY <2>1 DEF Inv, TypeOK, LockIsHeld, Holding, EnrolmentsCount, EnrollingIsPending,
                CrlHolds, At
<1>4. ASSUME NEW t \in Threads, NEW a \in Agents, RevokeRead(t, a) PROVE Inv'
  <2>1. /\ txn' = [txn EXCEPT ![t] = [at |-> "read", agent |-> a, certified |-> a \in certified]]
        /\ txn[t].at = "idle"
        /\ UNCHANGED <<status, certified, expired, lock, crl, enrolments, overlap>>
    BY <1>4 DEF RevokeRead, Idle
  <2>2. (a \in certified) \in BOOLEAN
    OBVIOUS
  <2>3. TypeOK'
    BY <2>1, <2>2 DEF Inv, TypeOK, Transactions
  <2>4. txn'[t].at = "read" /\ \A u \in Threads : u # t => txn'[u] = txn[u]
    BY <2>1 DEF Inv, TypeOK
  <2>5. LockIsHeld'
    BY <2>1, <2>4 DEF Inv, LockIsHeld, Holding
  <2>6. EnrolmentsCount' /\ EnrollingIsPending' /\ CrlHolds'
    BY <2>1, <2>4 DEF Inv, EnrolmentsCount, EnrollingIsPending, CrlHolds, At
  <2> QED
    BY <2>3, <2>5, <2>6 DEF Inv
<1>5. ASSUME NEW t \in Threads, RevokeFlush(t) PROVE Inv'
  <2> DEFINE a == txn[t].agent
  <2>1. /\ txn[t].at = "read" /\ lock[a] = NoThread /\ lock' = [lock EXCEPT ![a] = t]
        /\ txn' = [txn EXCEPT ![t].at = "flushed"]
        /\ UNCHANGED <<status, certified, expired, crl, enrolments, overlap>>
    BY <1>5 DEF RevokeFlush, Locks, Moves, At
  <2>2. txn[t] \in Transactions /\ a \in Agents
    BY <2>1, <1>0
  <2>3. /\ txn'[t].at = "flushed" /\ txn'[t].agent = a
        /\ \A u \in Threads : u # t => txn'[u] = txn[u]
    BY <2>1, <2>2 DEF Inv, TypeOK, Transactions
  <2>4. TypeOK'
    BY <2>1, <2>2 DEF Inv, TypeOK, Transactions
  <2>5. LockIsHeld'
    BY <2>1, <2>2, <2>3, <1>0 DEF Inv, TypeOK, LockIsHeld, Holding
  <2>6. EnrolmentsCount' /\ EnrollingIsPending' /\ CrlHolds'
    BY <2>1, <2>3 DEF Inv, EnrolmentsCount, EnrollingIsPending, CrlHolds, At
  <2> QED
    BY <2>4, <2>5, <2>6 DEF Inv
<1>6. ASSUME NEW t \in Threads, RevokeList(t) PROVE Inv'
  <2> DEFINE a == txn[t].agent
  <2>1. /\ txn[t].at = "flushed"
        /\ crl' = IF RevokedFor(a) = {} THEN crl ELSE RevokedFor(a)
        /\ overlap' = (overlap \/ \E u \in Threads : At(u, "listed"))
        /\ txn' = [txn EXCEPT ![t].at = "listed"]
        /\ UNCHANGED <<status, certified, expired, lock, enrolments>>
    BY <1>6 DEF RevokeList, Moves, At
  <2>2. txn[t] \in Transactions /\ a \in Agents
    BY <2>1, <1>0
  <2>3. /\ txn'[t].at = "listed" /\ txn'[t].agent = a
        /\ \A u \in Threads : u # t => txn'[u] = txn[u]
    BY <2>1, <2>2 DEF Inv, TypeOK, Transactions
  <2>4. TypeOK'
    <3>1. RevokedFor(a) \subseteq Agents
      BY DEF Inv, TypeOK, RevokedFor
    <3>2. txn' \in [Threads -> Transactions \cup {NoTxn}]
      BY <2>1, <2>2 DEF Inv, TypeOK, Transactions
    <3> QED
      BY <2>1, <3>1, <3>2 DEF Inv, TypeOK
  <2>5. LockIsHeld'
    BY <2>1, <2>3 DEF Inv, LockIsHeld, Holding
  <2>6. EnrolmentsCount' /\ EnrollingIsPending'
    BY <2>1, <2>3 DEF Inv, EnrolmentsCount, EnrollingIsPending, At
  <2>7. CrlHolds'
    <3> SUFFICES ASSUME ~overlap' PROVE CrlHolds'
      BY DEF CrlHolds
    <3>1. ~overlap /\ \A u \in Threads : txn[u].at # "listed"
      BY <2>1 DEF At
    <3>2. \A b \in certified : status[b] = "revoked" \/ b = a => b \in crl'
      BY <2>1 DEF RevokedFor
    <3> QED
      BY <2>1, <2>3, <3>1, <3>2 DEF CrlHolds, At
  <2> QED
    BY <2>4, <2>5, <2>6, <2>7 DEF Inv
<1>7. ASSUME NEW t \in Threads, RevokeCommit(t) PROVE Inv'
  <2> DEFINE a == txn[t].agent
  <2>1. /\ txn[t].at = "listed" /\ Ends(t)
        /\ status' = [status EXCEPT ![a] = "revoked"]
        /\ UNCHANGED <<certified, expired, crl, enrolments, overlap>>
    BY <1>7 DEF RevokeCommit, At
  <2>2. /\ lock' \in [Agents -> Threads \cup {NoThread}]
        /\ txn' \in [Threads -> Transactions \cup {NoTxn}]
        /\ LockIsHeld'
        /\ \A u \in Threads : u # t => txn'[u] = txn[u]
        /\ txn'[t].at = "idle"
    BY <2>1, EndsKeepsLocks
  <2>3. a \in Agents
    BY <2>1, <1>0
  <2>4. \A u \in Threads : u # t /\ Holding(u) => txn[u].agent # a
    BY <2>1 DEF Inv, LockIsHeld, Holding
  <2>5. TypeOK'
    BY <2>1, <2>2, <2>3 DEF Inv, TypeOK
  <2>6. EnrolmentsCount'
    BY <2>1, <2>3 DEF Inv, TypeOK, EnrolmentsCount
  <2>7. EnrollingIsPending'
    BY <2>1, <2>2, <2>3, <2>4, <1>0 DEF Inv, TypeOK, EnrollingIsPending, At, Holding
  <2>8. CrlHolds'
    BY <2>1, <2>2, <2>3 DEF Inv, TypeOK, CrlHolds, At
  <2> QED
    BY <2>2, <2>5, <2>6, <2>7, <2>8 DEF Inv
<1>8. ASSUME NEW t \in Threads, Rollback(t) PROVE Inv'
  <2>1. Ends(t) /\ UNCHANGED <<status, certified, expired, crl, enrolments, overlap>>
    BY <1>8 DEF Rollback
  <2>2. /\ lock' \in [Agents -> Threads \cup {NoThread}]
        /\ txn' \in [Threads -> Transactions \cup {NoTxn}]
        /\ LockIsHeld'
        /\ \A u \in Threads : u # t => txn'[u] = txn[u]
        /\ txn'[t].at = "idle"
    BY <2>1, EndsKeepsLocks
  <2>3. TypeOK' /\ EnrolmentsCount'
    BY <2>1, <2>2 DEF Inv, TypeOK, EnrolmentsCount
  <2>4. EnrollingIsPending' /\ CrlHolds'
    BY <2>1, <2>2 DEF Inv, EnrollingIsPending, CrlHolds, At
  <2> QED
    BY <2>2, <2>3, <2>4 DEF Inv
<1>9. CASE UNCHANGED vars
  BY <1>9 DEF vars, Inv, TypeOK, LockIsHeld, Holding, EnrolmentsCount,
              EnrollingIsPending, CrlHolds, At
<1> QED
  BY <1>1, <1>2, <1>3, <1>4, <1>5, <1>6, <1>7, <1>8, <1>9 DEF Next

\* The row lock keeps its meaning in every reachable state.
THEOREM InvHolds == Spec => []Inv
  BY InitInv, NextInv, PTL DEF Spec

-----------------------------------------------------------------------------
\* The rows and transactions keep their types.
THEOREM TypeIsCorrect == Spec => []TypeOK
<1>1. Inv => TypeOK
  BY DEF Inv
<1> QED
  BY <1>1, InvHolds, PTL

\* A code is used once, however many requests present it at the same time.
THEOREM CodesAreUsedOnce == Spec => []CodeIsUsedOnce
<1>1. Inv => CodeIsUsedOnce
  <2> SUFFICES ASSUME Inv, NEW a \in Agents
               PROVE  enrolments[a] <= 1 /\ (status[a] = "active" => enrolments[a] = 1)
    BY DEF CodeIsUsedOnce
  <2>1. enrolments[a] = IF a \in certified THEN 1 ELSE 0
    BY DEF Inv, EnrolmentsCount
  <2>2. status[a] = "active" => a \in certified
    BY DEF Inv, EnrolmentsCount
  <2>3. CASE a \in certified
    BY <2>1, <2>3
  <2>4. CASE a \notin certified
    BY <2>1, <2>2, <2>4
  <2> QED
    BY <2>3, <2>4
<1> QED
  BY <1>1, InvHolds, PTL

\* The CRL is complete unless two revocations computed it side by side.
THEOREM CrlIsCompleteWithoutOverlap == Spec => []CleanCrlIsComplete
<1>1. Inv => CleanCrlIsComplete
  BY DEF Inv, CrlHolds, CleanCrlIsComplete
<1> QED
  BY <1>1, InvHolds, PTL

\* No enrolment undoes a revocation.
THEOREM RevocationsAreFinal == Spec => RevokedIsFinal
<1>1. Inv /\ [Next]_vars =>
        [\A a \in Agents : status[a] = "revoked" => status'[a] = "revoked"]_vars
  <2> SUFFICES ASSUME Inv, Next, NEW a \in Agents, status[a] = "revoked"
               PROVE  status'[a] = "revoked"
    OBVIOUS
  <2>1. ASSUME NEW t \in Threads, EnrollCommit(t) PROVE status'[a] = "revoked"
    BY <2>1 DEF Inv, TypeOK, EnrollingIsPending, EnrollCommit, At
  <2>2. ASSUME NEW t \in Threads, RevokeCommit(t) PROVE status'[a] = "revoked"
    BY <2>2 DEF Inv, TypeOK, RevokeCommit
  <2>3. CASE UNCHANGED status
    BY <2>3
  <2> QED
    BY <2>1, <2>2, <2>3 DEF Next, EnrollQuery, RevokeRead, RevokeFlush, RevokeList,
                            Rollback, Expire
<1> QED
  BY <1>1, InvHolds, PTL DEF Spec, RevokedIsFinal

\* What a revocation leaves for good, as the run of the enrolment checks it.
THEOREM RevocationsAlwaysHold == Spec => RevocationsHold
<1>1. [\A a \in Agents : status[a] = "revoked" => status'[a] = "revoked"]_vars
      /\ CleanCrlIsComplete'
      => [/\ \A a \in Agents : status[a] = "revoked" => status'[a] = "revoked"
          /\ CleanCrlIsComplete']_vars
  OBVIOUS
<1> QED
  BY <1>1, CrlIsCompleteWithoutOverlap, RevocationsAreFinal, PTL
     DEF RevocationsHold, RevokedIsFinal
=============================================================================
