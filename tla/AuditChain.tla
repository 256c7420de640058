------------------------------ MODULE AuditChain ------------------------------
(***************************************************************************)
(* services/audit_service.py with core/security/audit_chain.py, on the     *)
(* request transactions of db/session.py and a PostgreSQL database at READ *)
(* COMMITTED.                                                              *)
(*                                                                         *)
(* A session is one request's AsyncSession.  Its transaction sees the      *)
(* committed rows and its own; AuditService.record takes the transaction-  *)
(* scoped advisory lock, reads the newest entry_hash, and inserts a row    *)
(* chained to it; get_db commits, or rolls everything back, at the end.    *)
(* Each await of record is a step of its own, so other requests run        *)
(* between any two of them.                                                *)
(*                                                                         *)
(* SHA-256 is idealised as an injection: the hash of a payload chained to  *)
(* prev is Append(prev, payload), so the genesis hash is << >> and a hash  *)
(* is the history it commits to.  The payload of an entry (event, actor,   *)
(* resource, detail, timestamp) is abstracted to the session writing it.   *)
(***************************************************************************)
EXTENDS Integers, Sequences, FiniteSets

CONSTANTS
    Sessions,     \* concurrent request sessions
    NoSession,    \* nobody holds the advisory lock
    MaxRecords,   \* entries one transaction records at most
    MaxSeq        \* bound of the model: no new record once seq passes it

ASSUME SessionsAssumption == NoSession \notin Sessions
ASSUME BoundsAssumption == MaxRecords \in Nat \ {0} /\ MaxSeq \in Nat

VARIABLES
    rows,       \* committed rows of audit_logs
    nextSeq,    \* the sequence behind the seq column: never rolled back
    lock,       \* the session that holds the advisory lock
    pc,         \* where each session is
    pending,    \* rows inserted by a session's open transaction
    prevHash    \* what the session's last _last_hash call returned

vars == <<rows, nextSeq, lock, pc, pending, prevHash>>

Steps == {"idle", "open", "waiting", "locked", "read"}

Hashes == Seq(Sessions)
GENESIS_HASH == << >>

Row == [seq : Nat, payload : Sessions, prev_hash : Hashes, entry_hash : Hashes]

compute_entry_hash(payload, prev) == Append(prev, payload)

-------------------------------------------------------------------------------
(* Reading a set of rows in the order of seq.                              *)

Newest(R) == CHOOSE r \in R : \A q \in R : q.seq <= r.seq

\* _last_hash: ORDER BY seq DESC LIMIT 1, or the genesis hash.
LastHash(R) == IF R = {} THEN GENESIS_HASH ELSE Newest(R).entry_hash

Below(R, r) == {q \in R : q.seq < r.seq}

\* Broken form: the walk recomputes hashes but does not compare prev_hash.
AcceptsUnlinked(R, r) ==
    r.entry_hash = compute_entry_hash(r.payload, r.prev_hash)

\* What verify_chain accepts at row r when it has accepted every row below.
Accepts(R, r) ==
    /\ r.prev_hash = LastHash(Below(R, r))
    /\ r.entry_hash = compute_entry_hash(r.payload, r.prev_hash)

\* verify_chain walks upwards and stops at the first row it does not accept.
verify_chain(R) ==
    LET broken == {r \in R : ~ Accepts(R, r)}
    IN  [ok |-> broken = {},
         first_broken_seq |-> IF broken = {} THEN 0
                              ELSE (CHOOSE r \in broken :
                                      \A q \in broken : r.seq <= q.seq).seq]

\* The rows a statement of session s sees: READ COMMITTED plus its own.
Visible(s) == rows \cup pending[s]

-------------------------------------------------------------------------------
Init ==
    /\ rows = {}
    /\ nextSeq = 1
    /\ lock = NoSession
    /\ pc = [s \in Sessions |-> "idle"]
    /\ pending = [s \in Sessions |-> {}]
    /\ prevHash = [s \in Sessions |-> GENESIS_HASH]

\* A request starts, or goes on after a commit in mid-request (the failed
\* logins of auth_service commit their audit entry before raising).
Begin(s) ==
    /\ pc[s] = "idle"
    /\ pc' = [pc EXCEPT ![s] = "open"]
    /\ UNCHANGED <<rows, nextSeq, lock, pending, prevHash>>

\* The handler calls record: it asks for the advisory lock.
Record(s) ==
    /\ pc[s] = "open"
    /\ nextSeq <= MaxSeq
    /\ Cardinality(pending[s]) < MaxRecords
    /\ pc' = [pc EXCEPT ![s] = "waiting"]
    /\ UNCHANGED <<rows, nextSeq, lock, pending, prevHash>>

\* Broken form: record does not take the advisory lock.
LockSkipped(s) ==
    /\ pc[s] = "waiting"
    /\ pc' = [pc EXCEPT ![s] = "locked"]
    /\ UNCHANGED <<rows, nextSeq, lock, pending, prevHash>>

\* pg_advisory_xact_lock returns; a transaction that holds it gets it again.
Lock(s) ==
    /\ pc[s] = "waiting"
    /\ lock \in {NoSession, s}
    /\ lock' = s
    /\ pc' = [pc EXCEPT ![s] = "locked"]
    /\ UNCHANGED <<rows, nextSeq, pending, prevHash>>

ReadLast(s) ==
    /\ pc[s] = "locked"
    /\ prevHash' = [prevHash EXCEPT ![s] = LastHash(Visible(s))]
    /\ pc' = [pc EXCEPT ![s] = "read"]
    /\ UNCHANGED <<rows, nextSeq, lock, pending>>

NewRow(s) ==
    [seq |-> nextSeq, payload |-> s, prev_hash |-> prevHash[s],
     entry_hash |-> compute_entry_hash(s, prevHash[s])]

\* Broken form: record commits its own entry.
InsertCommitted(s) ==
    /\ pc[s] = "read"
    /\ rows' = rows \cup {NewRow(s)}
    /\ nextSeq' = nextSeq + 1
    /\ prevHash' = [prevHash EXCEPT ![s] = GENESIS_HASH]
    /\ pc' = [pc EXCEPT ![s] = "open"]
    /\ UNCHANGED <<lock, pending>>

\* Broken form: two rows share a seq.
InsertSameSeq(s) ==
    /\ pc[s] = "read"
    /\ pending' = [pending EXCEPT ![s] = @ \cup {NewRow(s)}]
    /\ prevHash' = [prevHash EXCEPT ![s] = GENESIS_HASH]
    /\ pc' = [pc EXCEPT ![s] = "open"]
    /\ UNCHANGED <<rows, nextSeq, lock>>

\* db.add and flush: the row takes the next seq and stays uncommitted, and
\* record returns (its local prev_hash is gone).
Insert(s) ==
    /\ pc[s] = "read"
    /\ pending' = [pending EXCEPT ![s] = @ \cup {NewRow(s)}]
    /\ nextSeq' = nextSeq + 1
    /\ prevHash' = [prevHash EXCEPT ![s] = GENESIS_HASH]
    /\ pc' = [pc EXCEPT ![s] = "open"]
    /\ UNCHANGED <<rows, lock>>

\* The end of a transaction gives the advisory lock back.
Released(s) == IF lock = s THEN NoSession ELSE lock

Commit(s) ==
    /\ pc[s] = "open"
    /\ rows' = rows \cup pending[s]
    /\ pending' = [pending EXCEPT ![s] = {}]
    /\ lock' = Released(s)
    /\ pc' = [pc EXCEPT ![s] = "idle"]
    /\ UNCHANGED <<nextSeq, prevHash>>

\* Broken form: a session-level lock, which a rollback does not release.
RollbackKeepsLock(s) ==
    /\ pc[s] # "idle"
    /\ pending' = [pending EXCEPT ![s] = {}]
    /\ prevHash' = [prevHash EXCEPT ![s] = GENESIS_HASH]
    /\ pc' = [pc EXCEPT ![s] = "idle"]
    /\ UNCHANGED <<rows, nextSeq, lock>>

\* The handler raises, the client goes away or the worker process dies, at
\* any point of the transaction.
Rollback(s) ==
    /\ pc[s] # "idle"
    /\ pending' = [pending EXCEPT ![s] = {}]
    /\ prevHash' = [prevHash EXCEPT ![s] = GENESIS_HASH]
    /\ lock' = Released(s)
    /\ pc' = [pc EXCEPT ![s] = "idle"]
    /\ UNCHANGED <<rows, nextSeq>>

SessionNext(s) ==
    \/ Begin(s) \/ Record(s) \/ Lock(s) \/ ReadLast(s) \/ Insert(s)
    \/ Commit(s) \/ Rollback(s)

Next == \E s \in Sessions : SessionNext(s)

Spec == Init /\ [][Next]_vars

\* A handler runs to its end, and PostgreSQL grants a lock in arrival order,
\* so a waiting session is not overtaken for ever.
Fairness ==
    \A s \in Sessions :
        /\ WF_vars(ReadLast(s)) /\ WF_vars(Insert(s)) /\ WF_vars(Commit(s))
        /\ SF_vars(Lock(s))

FairSpec == Spec /\ Fairness

-------------------------------------------------------------------------------
(* Properties.                                                             *)

\* Every variable has its type, and no row, committed or not, holds a seq
\* that the sequence behind the column has yet to give out (models/audit.py:48).
TypeOK ==
    /\ rows \subseteq Row
    /\ nextSeq \in Nat \ {0}
    /\ lock \in Sessions \cup {NoSession}
    /\ pc \in [Sessions -> Steps]
    /\ pending \in [Sessions -> SUBSET Row]
    /\ prevHash \in [Sessions -> Hashes]
    /\ \A s \in Sessions : \A r \in Visible(s) : r.seq < nextSeq

\* Whatever requests ran concurrently, rolled back or died, verify_chain
\* accepts the whole committed trail (audit_service.py:118-155): no fork, no
\* entry chained to a rolled-back one, no entry whose order of seq differs
\* from its order in the chain.
ChainIntact == verify_chain(rows).ok

\* verify_chain notices lost rows: of all the sets of committed rows, it
\* accepts only those that miss nothing older than what they keep
\* (audit_service.py:119).  Loss of the newest rows is out of its reach.
LossDetected ==
    \A kept \in SUBSET rows :
        verify_chain(kept).ok =>
            \A r \in kept, q \in rows : q.seq < r.seq => q \in kept

\* The trail is append-only in time as well as in place: no step removes a
\* committed row, and a row becomes visible only above every visible row, so
\* a reader that saw seq n never finds a new entry below n (the trigger of
\* migration audit0001, and the lock held from nextval to commit).
AppendOnly ==
    [][/\ rows \subseteq rows'
       /\ \A r \in rows, q \in rows' \ rows : r.seq < q.seq]_rows

\* The chain implements the append-only log of AuditLogSpec: the newest hash
\* is the log, and a request's entries appear together or not at all.
Log == INSTANCE AuditLogSpec
         WITH log <- LastHash(rows),
              recorded <- [s \in Sessions |-> Cardinality(pending[s])]
ImplementsLog == Log!LogSpec

\* A request that asks for the advisory lock is not stuck behind it: it gets
\* it, or its transaction ends (audit_service.py:70-74).
LockGranted == \A s \in Sessions : pc[s] = "waiting" ~> pc[s] # "waiting"
===============================================================================
