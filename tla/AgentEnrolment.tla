--------------------------- MODULE AgentEnrolment ---------------------------
(***************************************************************************)
(* How agents get and lose their certificate: POST /agents/enroll trades a *)
(* one-time code for a certificate, DELETE /agents/{uuid} revokes the      *)
(* agent and writes the list of revoked certificates (the CRL file that    *)
(* the reverse proxy reads).  The handlers run in a pool of threads on     *)
(* PostgreSQL: enrolment takes the row lock when it reads (FOR UPDATE),    *)
(* revocation when its UPDATE is flushed, and a transaction that waited    *)
(* for a row sees what the other committed in it.                          *)
(*                                                                         *)
(* "active" stands for "offline" too, which AgentTasks tells apart.        *)
(***************************************************************************)
EXTENDS Naturals

CONSTANTS
    Agents,     \* rows of agents, each with its own enrolment code
    Threads,    \* threads of the pool
    NoThread    \* nobody holds the row's lock

ASSUME NoThreadAssumption == NoThread \notin Threads

VARIABLES
    status,     \* agents.status
    certified,  \* agents whose enrollment_used and cert_serial are set
    expired,    \* agents whose enrollment_token_expires is past
    lock,       \* the thread whose transaction has locked the row
    txn,        \* the transaction each thread has open
    crl,        \* agents whose certificate is in the file CRL_PATH
    enrolments, \* history: committed enrolments of each agent
    overlap     \* history: a CRL was computed before another's commit

vars == <<status, certified, expired, lock, txn, crl, enrolments, overlap>>

\* A transaction: where it stands, its agent, and whether the agent had a
\* certificate when the session loaded it.
Transactions ==
    [at : {"enrolling", "read", "flushed", "listed"},
     agent : Agents, certified : BOOLEAN]
NoTxn == [at |-> "idle"]

TypeOK ==
    /\ status \in [Agents -> {"pending", "active", "revoked"}]
    /\ certified \in SUBSET Agents
    /\ expired \in SUBSET Agents
    /\ lock \in [Agents -> Threads \cup {NoThread}]
    /\ txn \in [Threads -> Transactions \cup {NoTxn}]
    /\ crl \in SUBSET Agents
    /\ enrolments \in [Agents -> Nat]
    /\ overlap \in BOOLEAN

\* The agents were created, and none has enrolled.
Init ==
    /\ status = [a \in Agents |-> "pending"]
    /\ certified = {}
    /\ expired = {}
    /\ lock = [a \in Agents |-> NoThread]
    /\ txn = [t \in Threads |-> NoTxn]
    /\ crl = {}
    /\ enrolments = [a \in Agents |-> 0]
    /\ overlap = FALSE

Idle(t) == txn[t].at = "idle"
At(t, step) == txn[t].at = step

Locks(t, a) ==
    /\ lock[a] = NoThread
    /\ lock' = [lock EXCEPT ![a] = t]

Unlocked(t) == [a \in Agents |-> IF lock[a] = t THEN NoThread ELSE lock[a]]

Ends(t) ==
    /\ txn' = [txn EXCEPT ![t] = NoTxn]
    /\ lock' = Unlocked(t)

Moves(t, step) == txn' = [txn EXCEPT ![t].at = step]

-----------------------------------------------------------------------------
(* Enrolment.                                                              *)

\* Mutant: the query has no FOR UPDATE.
EnrollQueryUnlocked(t, a) ==
    /\ Idle(t)
    /\ status[a] = "pending" /\ a \notin certified
    /\ a \notin expired
    /\ txn' = [txn EXCEPT ![t] = [at |-> "enrolling", agent |-> a, certified |-> FALSE]]
    /\ UNCHANGED <<status, certified, expired, lock, crl, enrolments, overlap>>

\* The row that a code selects, locked; a code that selects none, or has
\* expired, is refused and nothing changes.
EnrollQuery(t, a) ==
    /\ Idle(t)
    /\ Locks(t, a)
    /\ status[a] = "pending" /\ a \notin certified
    /\ a \notin expired
    /\ txn' = [txn EXCEPT ![t] = [at |-> "enrolling", agent |-> a, certified |-> FALSE]]
    /\ UNCHANGED <<status, certified, expired, crl, enrolments, overlap>>

\* The certificate is signed and the row committed.
EnrollCommit(t) ==
    LET a == txn[t].agent
    IN /\ At(t, "enrolling")
       /\ status' = [status EXCEPT ![a] = "active"]
       /\ certified' = certified \cup {a}
       /\ enrolments' = [enrolments EXCEPT ![a] = @ + 1]
       /\ Ends(t)
       /\ UNCHANGED <<expired, crl, overlap>>

\* The code's ten minutes are over.
Expire(a) ==
    /\ a \notin expired
    /\ expired' = expired \cup {a}
    /\ UNCHANGED <<status, certified, lock, txn, crl, enrolments, overlap>>

-----------------------------------------------------------------------------
(* Revocation, of an agent in any status.                                  *)

RevokeRead(t, a) ==
    /\ Idle(t)
    /\ txn' = [txn EXCEPT ![t] =
            [at |-> "read", agent |-> a, certified |-> a \in certified]]
    /\ UNCHANGED <<status, certified, expired, lock, crl, enrolments, overlap>>

\* The UPDATE is flushed: it waits for the row.
RevokeFlush(t) ==
    /\ At(t, "read")
    /\ Locks(t, txn[t].agent)
    /\ Moves(t, "flushed")
    /\ UNCHANGED <<status, certified, expired, crl, enrolments, overlap>>

\* The revoked agents the transaction sees: those committed, and its own.
RevokedFor(a) == {b \in certified : status[b] = "revoked" \/ b = a}

\* Mutant: the list holds the certificate at hand only.
RevokeListOwn(t) ==
    LET a == txn[t].agent
    IN /\ At(t, "flushed")
       /\ txn[t].certified = (a \in certified)
       /\ crl' = IF a \in certified THEN {a} ELSE crl
       /\ overlap' = (overlap \/ \E u \in Threads : At(u, "listed"))
       /\ Moves(t, "listed")
       /\ UNCHANGED <<status, certified, expired, lock, enrolments>>

\* generate_crl.  The query returns the object the session has loaded: when
\* the agent enrolled after it was read the object has no serial, and the
\* handler raises (see Rollback).
RevokeList(t) ==
    LET a == txn[t].agent
    IN /\ At(t, "flushed")
       /\ txn[t].certified = (a \in certified)
       /\ crl' = IF RevokedFor(a) = {} THEN crl ELSE RevokedFor(a)
       /\ overlap' = (overlap \/ \E u \in Threads : At(u, "listed"))
       /\ Moves(t, "listed")
       /\ UNCHANGED <<status, certified, expired, lock, enrolments>>

\* Mutant: a status the agents table does not have.
RevokeCommitDisabled(t) ==
    /\ At(t, "listed")
    /\ status' = [status EXCEPT ![txn[t].agent] = "disabled"]
    /\ Ends(t)
    /\ UNCHANGED <<certified, expired, crl, enrolments, overlap>>

RevokeCommit(t) ==
    /\ At(t, "listed")
    /\ status' = [status EXCEPT ![txn[t].agent] = "revoked"]
    /\ Ends(t)
    /\ UNCHANGED <<certified, expired, crl, enrolments, overlap>>

\* The handler raises or the database refuses; the file is what it is.
Rollback(t) ==
    /\ ~Idle(t)
    /\ Ends(t)
    /\ UNCHANGED <<status, certified, expired, crl, enrolments, overlap>>

-----------------------------------------------------------------------------
Next ==
    \/ \E t \in Threads :
        \/ \E a \in Agents : EnrollQuery(t, a) \/ RevokeRead(t, a)
        \/ EnrollCommit(t) \/ RevokeFlush(t) \/ RevokeList(t) \/ RevokeCommit(t)
        \/ Rollback(t)
    \/ \E a \in Agents : Expire(a)

Spec == Init /\ [][Next]_vars

-----------------------------------------------------------------------------
(* What the handlers guarantee.                                            *)

\* security.py:122, "usage unique": however many requests present a code at
\* once, one of them at most is committed, and an agent is active by it alone.
CodeIsUsedOnce ==
    \A a \in Agents :
        /\ enrolments[a] <= 1
        /\ status[a] = "active" => enrolments[a] = 1

\* A revocation is not undone by an enrolment that was under way with it.
RevokedIsFinal ==
    [][\A a \in Agents : status[a] = "revoked" => status'[a] = "revoked"]_vars

\* Every revoked agent that has a certificate is in the CRL, as long as no CRL
\* was computed between another's computation and its commit.
CleanCrlIsComplete ==
    ~overlap => \A a \in certified : status[a] = "revoked" => a \in crl

\* What a revocation leaves for good: no step takes the status away, nor leaves
\* a revoked certificate out of the CRL.
RevocationsHold ==
    [][/\ \A a \in Agents : status[a] = "revoked" => status'[a] = "revoked"
       /\ CleanCrlIsComplete']_vars
=============================================================================
