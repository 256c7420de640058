--------------------------- MODULE AuditChainProofs ---------------------------
(***************************************************************************)
(* Proofs about AuditChain, for any set of sessions and any bounds: the    *)
(* committed trail always verifies, it only grows, and only at its end,    *)
(* the whole protocol implements the append-only log of AuditLogSpec, and  *)
(* verify_chain accepts no trail that lost entries older than its newest.  *)
(*                                                                         *)
(* The argument.  Only the holder of the advisory lock has uncommitted     *)
(* rows or is between reading the newest hash and inserting (LockOwned).   *)
(* So what the holder read stays the newest hash it sees (ReadCurrent),    *)
(* and the row it inserts extends a linked set of rows, above all of them  *)
(* (LinkedRows, AboveCommitted).  Committing publishes exactly that set.   *)
(* A hash is as long as there are rows up to its own (Counted), so a row   *)
(* with a gap below it has a hash that is too long for what is left.       *)
(***************************************************************************)
EXTENDS AuditChain, FiniteSetTheorems, TLAPS

Linked(R) == \A r \in R : Accepts(R, r)

\* Uncommitted rows and the critical section of record belong to the holder.
LockOwned ==
    \A s \in Sessions :
        pending[s] # {} \/ pc[s] \in {"locked", "read"} => lock = s

AboveCommitted ==
    \A s \in Sessions : \A q \in rows, r \in pending[s] : q.seq < r.seq

ReadCurrent ==
    \A s \in Sessions : pc[s] = "read" => prevHash[s] = LastHash(Visible(s))

LinkedRows ==
    /\ Linked(rows)
    /\ \A s \in Sessions : Linked(Visible(s))

\* What a session sees is the committed log followed by its own entries.
BatchAtEnd ==
    \A s \in Sessions :
        /\ IsFiniteSet(pending[s])
        /\ LastHash(Visible(s)) =
             LastHash(rows) \o Log!Batch(s, Cardinality(pending[s]))

\* The newest hash is a hash, so there is a newest row wherever there is one.
TipTyped ==
    /\ LastHash(rows) \in Hashes
    /\ \A s \in Sessions : LastHash(Visible(s)) \in Hashes

ChainInv ==
    TypeOK /\ LockOwned /\ AboveCommitted /\ ReadCurrent /\ LinkedRows /\ TipTyped

IInv == ChainInv /\ BatchAtEnd

-------------------------------------------------------------------------------
(* Facts about sets of rows.                                               *)

\* A row above all others is the newest one (_last_hash returns its hash).
LEMMA NewestOnTop ==
    ASSUME NEW R \in SUBSET Row, NEW n \in Row, \A r \in R : r.seq < n.seq
    PROVE  LastHash(R \cup {n}) = n.entry_hash
<1>1. \A m \in R \cup {n} : (\A q \in R \cup {n} : q.seq <= m.seq) <=> m = n
  BY DEF Row
<1>2. Newest(R \cup {n}) = n
  BY <1>1 DEF Newest
<1>3. QED
  BY <1>2 DEF LastHash

\* The hash of a row is a history of sessions: the genesis hash is empty.
LEMMA EmptyLastHash == LastHash({}) = << >>
BY DEF LastHash, GENESIS_HASH

\* Inserting a row chained to the newest one, above all others, keeps every
\* link that verify_chain checks.
LEMMA InsertLinked ==
    ASSUME NEW R \in SUBSET Row, NEW n \in Row, \A r \in R : r.seq < n.seq,
           Linked(R), n.prev_hash = LastHash(R),
           n.entry_hash = compute_entry_hash(n.payload, n.prev_hash)
    PROVE  Linked(R \cup {n})
<1>1. ASSUME NEW r \in R PROVE Below(R \cup {n}, r) = Below(R, r)
  BY <1>1 DEF Below, Row
<1>2. Below(R \cup {n}, n) = R
  BY DEF Below, Row
<1>3. QED
  BY <1>1, <1>2 DEF Linked, Accepts

\* verify_chain accepts exactly the linked sets of rows.
LEMMA VerifyIffLinked == \A R : verify_chain(R).ok <=> Linked(R)
BY DEF verify_chain, Linked

-------------------------------------------------------------------------------
\* The empty trail satisfies the inductive invariant.
LEMMA InitIInv == Init => IInv
<1> SUFFICES ASSUME Init PROVE IInv
  OBVIOUS
<1>1. TypeOK
  BY SessionsAssumption DEF Init, TypeOK, Steps, Hashes, GENESIS_HASH, Visible
<1>2. LockOwned /\ AboveCommitted /\ ReadCurrent
  BY DEF Init, LockOwned, AboveCommitted, ReadCurrent
<1>3. LinkedRows
  BY DEF Init, LinkedRows, Linked, Visible
<1>4. TipTyped
  <2>1. << >> \in Hashes
    BY DEF Hashes
  <2>2. rows = {} /\ \A s \in Sessions : Visible(s) = {}
    BY DEF Init, Visible
  <2>3. QED
    BY <2>1, <2>2, EmptyLastHash DEF TipTyped
<1>5. BatchAtEnd
  <2> SUFFICES ASSUME NEW s \in Sessions
               PROVE  /\ IsFiniteSet(pending[s])
                      /\ LastHash(Visible(s)) =
                           LastHash(rows) \o Log!Batch(s, Cardinality(pending[s]))
    BY DEF BatchAtEnd
  <2>1. pending[s] = {} /\ rows = {} /\ Visible(s) = {}
    BY DEF Init, Visible
  <2>2. IsFiniteSet({}) /\ Cardinality({}) = 0
    BY FS_EmptySet
  <2>3. << >> = << >> \o Log!Batch(s, 0)
    BY DEF Log!Batch
  <2>4. QED
    BY <2>1, <2>2, <2>3, EmptyLastHash
<1>6. QED
  BY <1>1, <1>2, <1>3, <1>4, <1>5 DEF IInv, ChainInv

-------------------------------------------------------------------------------
(* Every action preserves ChainInv.                                        *)

\* A step that changes neither rows, pending rows nor the sequence.
LEMMA QuietSteps ==
    ASSUME ChainInv, NEW s \in Sessions, Begin(s) \/ Record(s)
    PROVE  ChainInv'
BY DEF ChainInv, TypeOK, LockOwned, AboveCommitted, ReadCurrent, LinkedRows,
       TipTyped, Linked, Visible, Begin, Record, Steps

\* Taking the advisory lock, or getting again the one the session holds.
LEMMA LockStep ==
    ASSUME ChainInv, NEW s \in Sessions, Lock(s)
    PROVE  ChainInv'
<1>1. TypeOK' /\ AboveCommitted' /\ ReadCurrent' /\ LinkedRows' /\ TipTyped'
  BY DEF ChainInv, TypeOK, AboveCommitted, ReadCurrent, LinkedRows, TipTyped,
         Linked, Visible, Lock, Steps
<1>2. LockOwned'
  BY SessionsAssumption DEF ChainInv, TypeOK, LockOwned, Lock, Steps
<1>3. QED
  BY <1>1, <1>2 DEF ChainInv

\* The hash that the holder reads is the newest of what it sees.
LEMMA ReadStep ==
    ASSUME ChainInv, NEW s \in Sessions, ReadLast(s)
    PROVE  ChainInv'
<1>1. AboveCommitted' /\ LinkedRows' /\ TipTyped'
  BY DEF ChainInv, AboveCommitted, LinkedRows, TipTyped, Linked, Visible,
         ReadLast
<1>2. TypeOK'
  BY DEF ChainInv, TypeOK, TipTyped, Visible, ReadLast, Steps
<1>3. LockOwned'
  BY DEF ChainInv, TypeOK, LockOwned, ReadLast, Steps
<1>4. ReadCurrent'
  BY DEF ChainInv, TypeOK, ReadCurrent, Visible, ReadLast, Steps
<1>5. QED
  BY <1>1, <1>2, <1>3, <1>4 DEF ChainInv

\* The row that record builds is a row, chained to the newest one visible and
\* above all of them.
LEMMA NewRowFacts ==
    ASSUME ChainInv, NEW s \in Sessions, pc[s] = "read"
    PROVE  /\ NewRow(s) \in Row
           /\ Visible(s) \in SUBSET Row
           /\ \A r \in Visible(s) : r.seq < NewRow(s).seq
           /\ Linked(Visible(s))
           /\ NewRow(s).prev_hash = LastHash(Visible(s))
           /\ NewRow(s).entry_hash =
                compute_entry_hash(NewRow(s).payload, NewRow(s).prev_hash)
<1>1. prevHash[s] \in Seq(Sessions) /\ nextSeq \in Nat
  BY DEF ChainInv, TypeOK, Hashes
<1>2. compute_entry_hash(s, prevHash[s]) \in Seq(Sessions)
  BY <1>1 DEF compute_entry_hash
<1>3. NewRow(s) \in Row
  BY <1>1, <1>2 DEF NewRow, Row, Hashes
<1>4. QED
  BY <1>3 DEF ChainInv, TypeOK, Visible, LinkedRows, ReadCurrent, NewRow

\* Inserting: the lock keeps every other session out of the rows.
LEMMA InsertStep ==
    ASSUME ChainInv, NEW s \in Sessions, Insert(s)
    PROVE  ChainInv'
<1>1. pc[s] = "read" /\ lock = s
  BY DEF ChainInv, LockOwned, Insert
<1>2. NewRow(s) \in Row /\ Visible(s) \in SUBSET Row
  BY <1>1, NewRowFacts
<1>3. Visible(s)' = Visible(s) \cup {NewRow(s)}
  BY DEF ChainInv, TypeOK, Insert, Visible
<1>4. \A u \in Sessions \ {s} : Visible(u)' = Visible(u) /\ pending'[u] = pending[u]
  BY DEF ChainInv, TypeOK, Insert, Visible
<1>5. TypeOK'
  <2>1. pending' \in [Sessions -> SUBSET Row]
    BY <1>2 DEF ChainInv, TypeOK, Insert
  <2>2. \A u \in Sessions : \A r \in Visible(u)' : r.seq < nextSeq'
    <3>1. \A r \in Visible(s) \cup {NewRow(s)} : r.seq < nextSeq + 1
      BY DEF ChainInv, TypeOK, NewRow, Visible, Row
    <3>2. \A u \in Sessions \ {s} : \A r \in Visible(u) : r.seq < nextSeq + 1
      BY DEF ChainInv, TypeOK, Visible, Row
    <3>3. QED
      BY <3>1, <3>2, <1>3, <1>4 DEF Insert
  <2>3. prevHash' \in [Sessions -> Hashes]
    BY DEF ChainInv, TypeOK, Insert, Hashes, GENESIS_HASH
  <2>4. QED
    BY <2>1, <2>2, <2>3 DEF ChainInv, TypeOK, Insert, Steps
<1>6. LockOwned'
  BY <1>1 DEF ChainInv, TypeOK, LockOwned, Insert
<1>7. AboveCommitted'
  BY <1>1, <1>4, NewRowFacts
     DEF ChainInv, TypeOK, AboveCommitted, Insert, Visible
<1>8. ReadCurrent'
  BY <1>4 DEF ChainInv, TypeOK, ReadCurrent, Insert
<1>9. LinkedRows'
  <2>1. Linked(Visible(s)')
    BY <1>1, <1>3, NewRowFacts, InsertLinked
  <2>2. QED
    BY <2>1, <1>4 DEF ChainInv, LinkedRows, Insert, Linked
<1>10. TipTyped'
  <2>1. LastHash(Visible(s)') = NewRow(s).entry_hash
    BY <1>1, <1>3, NewRowFacts, NewestOnTop
  <2>2. LastHash(Visible(s)') \in Hashes
    BY <2>1, <1>2 DEF Row
  <2>3. QED
    BY <2>2, <1>4 DEF ChainInv, TipTyped, Insert
<1>11. QED
  BY <1>5, <1>6, <1>7, <1>8, <1>9, <1>10 DEF ChainInv
\* Committing publishes what the session saw; nobody else has pending rows if
\* there is anything to publish.
LEMMA CommitFacts ==
    ASSUME ChainInv, NEW s \in Sessions, Commit(s)
    PROVE  /\ rows' = Visible(s)
           /\ pending'[s] = {}
           /\ \A u \in Sessions \ {s} : pending'[u] = pending[u]
           /\ pending[s] # {} => \A u \in Sessions \ {s} : pending[u] = {}
           /\ \A u \in Sessions : Visible(u)' = rows' \/ Visible(u)' = Visible(u)
BY DEF ChainInv, TypeOK, LockOwned, Commit, Visible

\* A commit keeps the chain: what it publishes is linked to the committed rows.
LEMMA CommitStep ==
    ASSUME ChainInv, NEW s \in Sessions, Commit(s)
    PROVE  ChainInv'
<1>1. TypeOK'
  <2>1. rows' \subseteq Row /\ pending' \in [Sessions -> SUBSET Row]
    BY DEF ChainInv, TypeOK, Commit
  <2>2. \A u \in Sessions : \A r \in Visible(u)' : r.seq < nextSeq'
    BY CommitFacts DEF ChainInv, TypeOK, Visible, Commit
  <2>3. QED
    BY <2>1, <2>2 DEF ChainInv, TypeOK, Commit, Released, Steps
<1>2. LockOwned'
  BY SessionsAssumption DEF ChainInv, TypeOK, LockOwned, Commit, Released, Steps
<1>3. AboveCommitted'
  BY CommitFacts DEF ChainInv, AboveCommitted, Visible
<1>4. ReadCurrent'
  <2> SUFFICES ASSUME NEW u \in Sessions, pc'[u] = "read"
               PROVE  prevHash'[u] = LastHash(Visible(u)')
    BY DEF ReadCurrent
  <2>1. u # s /\ pc[u] = "read" /\ prevHash'[u] = prevHash[u]
    BY DEF ChainInv, TypeOK, Commit
  <2>2. lock = u /\ pending[s] = {}
    BY <2>1, SessionsAssumption DEF ChainInv, LockOwned
  <2>3. Visible(u)' = Visible(u)
    BY <2>1, <2>2, CommitFacts DEF Visible
  <2>4. QED
    BY <2>1, <2>3 DEF ChainInv, ReadCurrent
<1>5. LinkedRows'
  BY CommitFacts DEF ChainInv, LinkedRows, Linked
<1>6. TipTyped'
  BY CommitFacts DEF ChainInv, TipTyped
<1>7. QED
  BY <1>1, <1>2, <1>3, <1>4, <1>5, <1>6 DEF ChainInv

\* Rolling back forgets the pending rows: the committed ones are untouched.
LEMMA RollbackStep ==
    ASSUME ChainInv, NEW s \in Sessions, Rollback(s)
    PROVE  ChainInv'
<1>1. /\ rows' = rows
      /\ pending'[s] = {} /\ Visible(s)' = rows
      /\ \A u \in Sessions \ {s} : /\ pending'[u] = pending[u]
                                    /\ Visible(u)' = Visible(u)
  BY DEF ChainInv, TypeOK, Rollback, Visible
<1>2. TypeOK'
  <2>1. prevHash' \in [Sessions -> Hashes]
    BY DEF ChainInv, TypeOK, Rollback, Hashes, GENESIS_HASH
  <2>2. \A u \in Sessions : \A r \in Visible(u)' : r.seq < nextSeq'
    BY <1>1 DEF ChainInv, TypeOK, Visible, Rollback
  <2>3. QED
    BY <2>1, <2>2 DEF ChainInv, TypeOK, Rollback, Released, Steps
<1>3. LockOwned'
  BY SessionsAssumption
     DEF ChainInv, TypeOK, LockOwned, Rollback, Released, Steps
<1>4. AboveCommitted'
  BY <1>1 DEF ChainInv, AboveCommitted
<1>5. ReadCurrent'
  BY <1>1 DEF ChainInv, TypeOK, ReadCurrent, Rollback
<1>6. LinkedRows' /\ TipTyped'
  BY <1>1 DEF ChainInv, LinkedRows, TipTyped, Linked
<1>7. QED
  BY <1>2, <1>3, <1>4, <1>5, <1>6 DEF ChainInv

\* Every step of every session keeps the part of the invariant about the chain.
LEMMA NextChainInv == ChainInv /\ [Next]_vars => ChainInv'
<1> SUFFICES ASSUME ChainInv, [Next]_vars PROVE ChainInv'
  OBVIOUS
<1>1. ASSUME NEW s \in Sessions, SessionNext(s) PROVE ChainInv'
  BY <1>1, QuietSteps, LockStep, ReadStep, InsertStep, CommitStep, RollbackStep
     DEF SessionNext
<1>2. CASE UNCHANGED vars
  BY <1>2 DEF vars, ChainInv, TypeOK, LockOwned, AboveCommitted, ReadCurrent,
              LinkedRows, TipTyped, Linked, Visible
<1>3. QED
  BY <1>1, <1>2 DEF Next

\* Type correctness: every variable keeps its type, for any number of sessions.
THEOREM TypeCorrect == Spec => []TypeOK
<1>1. Init => ChainInv
  BY InitIInv DEF IInv
<1>2. ChainInv => TypeOK
  BY DEF ChainInv
<1>3. QED
  BY <1>1, <1>2, NextChainInv, PTL DEF Spec

\* verify_chain accepts the committed trail in every reachable state, whatever
\* the requests did: the advisory lock of record is enough.
THEOREM ChainAlwaysIntact == Spec => []ChainIntact
<1>1. Init => ChainInv
  BY InitIInv DEF IInv
<1>2. ChainInv => ChainIntact
  BY VerifyIffLinked DEF ChainInv, LinkedRows, ChainIntact
<1>3. QED
  BY <1>1, <1>2, NextChainInv, PTL DEF Spec

\* No step removes a committed row or makes one visible below another.
THEOREM TrailAppendOnly == Spec => AppendOnly
<1>1. ChainInv /\ [Next]_vars
        => [/\ rows \subseteq rows'
            /\ \A r \in rows, q \in rows' \ rows : r.seq < q.seq]_rows
  <2> SUFFICES ASSUME ChainInv, [Next]_vars
               PROVE  /\ rows \subseteq rows'
                      /\ \A r \in rows, q \in rows' \ rows : r.seq < q.seq
    OBVIOUS
  <2>1. ASSUME NEW s \in Sessions, Commit(s)
        PROVE  /\ rows \subseteq rows'
               /\ \A r \in rows, q \in rows' \ rows : r.seq < q.seq
    BY <2>1 DEF ChainInv, AboveCommitted, Commit
  <2>2. CASE rows' = rows
    BY <2>2
  <2>3. QED
    BY <2>1, <2>2 DEF Next, SessionNext, Begin, Record, Lock, ReadLast, Insert,
                      Rollback, vars
<1>2. Init => ChainInv
  BY InitIInv DEF IInv
<1>3. QED
  BY <1>1, <1>2, NextChainInv, PTL DEF Spec, AppendOnly
-------------------------------------------------------------------------------
(* AuditChain implements AuditLogSpec.                                     *)

\* Appending to the right-hand side of a concatenation.
LEMMA AppendConcat ==
    \A a, b \in Seq(Sessions) : \A x \in Sessions :
        Append(a \o b, x) = a \o Append(b, x)
OBVIOUS

\* One more entry of s at the end of its batch.
LEMMA BatchGrows ==
    ASSUME NEW s \in Sessions, NEW n \in Nat, NEW h \in Hashes
    PROVE  Append(h \o Log!Batch(s, n), s) = h \o Log!Batch(s, n + 1)
<1>1. Log!Batch(s, n) \in Seq(Sessions) /\ Log!Batch(s, n + 1) \in Seq(Sessions)
  BY DEF Log!Batch
<1>2. Log!Batch(s, n + 1) = Append(Log!Batch(s, n), s)
  BY <1>1 DEF Log!Batch
<1>3. Append(h \o Log!Batch(s, n), s) = h \o Append(Log!Batch(s, n), s)
  <2>1. h \in Seq(Sessions)
    BY DEF Hashes
  <2>2. QED
    BY <1>1, <2>1, AppendConcat
<1>4. QED
  BY <1>2, <1>3

\* The batch of a transaction that has recorded nothing adds nothing to the log.
LEMMA EmptyBatch ==
    ASSUME NEW s \in Sessions, NEW h \in Hashes
    PROVE  h \o Log!Batch(s, 0) = h
<1>1. Log!Batch(s, 0) = << >>
  BY DEF Log!Batch
<1>2. QED
  BY <1>1 DEF Hashes

\* Inserting makes the batch of the session one entry longer.
LEMMA InsertBatch ==
    ASSUME IInv, NEW s \in Sessions, Insert(s)
    PROVE  /\ IsFiniteSet(pending'[s])
           /\ Cardinality(pending'[s]) = Cardinality(pending[s]) + 1
           /\ LastHash(Visible(s)') = Append(LastHash(Visible(s)), s)
<1>1. pc[s] = "read" /\ ChainInv /\ IsFiniteSet(pending[s])
  BY DEF IInv, Insert, BatchAtEnd
<1>2. pending'[s] = pending[s] \cup {NewRow(s)}
  BY <1>1 DEF ChainInv, TypeOK, Insert
<1>3. NewRow(s) \notin pending[s]
  <2>1. NewRow(s) \in Row /\ \A r \in pending[s] : r.seq < NewRow(s).seq
    BY <1>1, NewRowFacts DEF Visible
  <2>2. NewRow(s).seq \in Nat
    BY <2>1 DEF Row
  <2>3. QED
    BY <2>1, <2>2
<1>4. Visible(s)' = Visible(s) \cup {NewRow(s)}
  BY <1>2 DEF Visible, Insert
<1>5. LastHash(Visible(s)') = NewRow(s).entry_hash
  BY <1>1, <1>4, NewRowFacts, NewestOnTop
<1>6. NewRow(s).entry_hash = Append(LastHash(Visible(s)), s)
  BY <1>1, NewRowFacts DEF NewRow, compute_entry_hash
<1>7. IsFiniteSet(pending'[s]) /\ Cardinality(pending'[s]) = Cardinality(pending[s]) + 1
  BY <1>1, <1>2, <1>3, FS_AddElement
<1>8. QED
  BY <1>5, <1>6, <1>7

\* Every step keeps the newest hash a session sees equal to the log and its batch.
LEMMA NextBatch == IInv /\ [Next]_vars => BatchAtEnd'
<1> SUFFICES ASSUME IInv, [Next]_vars,
                    NEW u \in Sessions
             PROVE  /\ IsFiniteSet(pending'[u])
                    /\ LastHash(Visible(u)') =
                         LastHash(rows') \o Log!Batch(u, Cardinality(pending'[u]))
  BY DEF BatchAtEnd, Visible
<1>0. /\ IsFiniteSet({}) /\ Cardinality({}) = 0
      /\ IsFiniteSet(pending[u]) /\ Cardinality(pending[u]) \in Nat
      /\ LastHash(rows) \in Hashes /\ LastHash(Visible(u)) \in Hashes
      /\ ChainInv
  BY FS_EmptySet, FS_CardinalityType DEF IInv, ChainInv, BatchAtEnd, TipTyped
<1>1. CASE rows' = rows /\ pending'[u] = pending[u]
  BY <1>1 DEF IInv, BatchAtEnd, Visible
<1>2. CASE rows' \in SUBSET Row /\ LastHash(rows') \in Hashes /\ pending'[u] = {}
  <2>1. Visible(u)' = rows'
    BY <1>2 DEF Visible
  <2>2. QED
    BY <2>1, <1>2, <1>0, EmptyBatch
<1>3. CASE Insert(u)
  <2>1. LastHash(Visible(u)') =
          Append(LastHash(rows) \o Log!Batch(u, Cardinality(pending[u])), u)
    BY <1>3, InsertBatch DEF IInv, BatchAtEnd
  <2>2. QED
    BY <2>1, <1>0, <1>3, InsertBatch, BatchGrows DEF Insert
<1>4. ASSUME NEW s \in Sessions, Commit(s)
      PROVE  /\ rows' \in SUBSET Row /\ LastHash(rows') \in Hashes
             /\ \/ pending'[u] = {}
                \/ rows' = rows /\ pending'[u] = pending[u]
  <2>1. rows' = Visible(s) /\ rows' \in SUBSET Row /\ LastHash(rows') \in Hashes
    BY <1>0, <1>4, CommitFacts DEF ChainInv, TypeOK, TipTyped, Visible
  <2>2. CASE pending[s] = {}
    BY <2>1, <2>2, <1>0, <1>4, CommitFacts DEF Visible
  <2>3. CASE pending[s] # {}
    BY <2>1, <2>3, <1>0, <1>4, CommitFacts
  <2>4. QED
    BY <2>1, <2>2, <2>3
<1>5. ASSUME NEW s \in Sessions, Rollback(s)
      PROVE  /\ rows' = rows
             /\ pending'[u] = {} \/ pending'[u] = pending[u]
  BY <1>0, <1>5 DEF ChainInv, TypeOK, Rollback
<1>6. ASSUME NEW s \in Sessions, s # u, Insert(s)
      PROVE  rows' = rows /\ pending'[u] = pending[u]
  BY <1>0, <1>6 DEF ChainInv, TypeOK, Insert
<1>7. ASSUME NEW s \in Sessions, Begin(s) \/ Record(s) \/ Lock(s) \/ ReadLast(s)
      PROVE  rows' = rows /\ pending'[u] = pending[u]
  BY <1>7 DEF Begin, Record, Lock, ReadLast
<1>8. CASE UNCHANGED vars
  BY <1>1, <1>8 DEF vars
<1>9. rows \in SUBSET Row
  BY <1>0 DEF ChainInv, TypeOK
<1>10. QED
  BY <1>0, <1>1, <1>2, <1>3, <1>4, <1>5, <1>6, <1>7, <1>8, <1>9
     DEF Next, SessionNext

\* Every step keeps the whole inductive invariant.
LEMMA NextIInv == IInv /\ [Next]_vars => IInv'
BY NextChainInv, NextBatch DEF IInv

\* What the abstract log knows of the open transactions.
recordedBar == [s \in Sessions |-> Cardinality(pending[s])]

\* Every step of the protocol is a step of the abstract log, or none.
LEMMA StepImplements ==
    IInv /\ IInv' /\ [Next]_vars => [Log!LogNext]_(<<LastHash(rows), recordedBar>>)
<1> SUFFICES ASSUME IInv, IInv', [Next]_vars
             PROVE  \/ Log!LogNext
                    \/ LastHash(rows') = LastHash(rows) /\ recordedBar' = recordedBar
  OBVIOUS
<1> USE DEF recordedBar
<1>1. ASSUME NEW s \in Sessions, Insert(s) PROVE Log!RecordEntry(s)
  <2>1. /\ Cardinality(pending'[s]) = Cardinality(pending[s]) + 1
        /\ \A u \in Sessions \ {s} : pending'[u] = pending[u]
        /\ rows' = rows
    BY <1>1, InsertBatch DEF IInv, ChainInv, TypeOK, Insert
  <2>2. QED
    BY <2>1 DEF Log!RecordEntry
<1>2. ASSUME NEW s \in Sessions, Commit(s) PROVE Log!PublishAll(s)
  <2>1. rows' = Visible(s) /\ pending'[s] = {}
        /\ \A u \in Sessions \ {s} : pending'[u] = pending[u]
    BY <1>2, CommitFacts DEF IInv
  <2>2. LastHash(rows') =
          LastHash(rows) \o Log!Batch(s, Cardinality(pending[s]))
    BY <2>1 DEF IInv, BatchAtEnd
  <2>3. Cardinality(pending'[s]) = 0
    BY <2>1, FS_EmptySet
  <2>4. recordedBar' = [recordedBar EXCEPT ![s] = 0]
    BY <2>1, <2>3
  <2>5. QED
    BY <2>2, <2>4 DEF Log!PublishAll
<1>3. ASSUME NEW s \in Sessions, Rollback(s) PROVE Log!Abandon(s)
  <2>1. pending'[s] = {} /\ \A u \in Sessions \ {s} : pending'[u] = pending[u]
    BY <1>3 DEF IInv, ChainInv, TypeOK, Rollback
  <2>2. recordedBar' = [recordedBar EXCEPT ![s] = 0]
    BY <2>1, FS_EmptySet
  <2>3. QED
    BY <2>2, <1>3 DEF Log!Abandon, Rollback
<1>4. CASE rows' = rows /\ pending' = pending
  BY <1>4
<1>5. QED
  BY <1>1, <1>2, <1>3, <1>4
     DEF Next, SessionNext, Log!LogNext, Begin, Record, Lock, ReadLast, vars

\* The chain is the append-only log: entries of a transaction appear at its
\* end, together and in order, or never.
THEOREM ChainImplementsLog == Spec => ImplementsLog
<1>1. Init => Log!LogInit
  <2> SUFFICES ASSUME Init PROVE Log!LogInit
    OBVIOUS
  <2>1. LastHash(rows) = << >>
    BY EmptyLastHash DEF Init
  <2>2. \A s \in Sessions : Cardinality(pending[s]) = 0
    BY FS_EmptySet DEF Init
  <2>3. QED
    BY <2>1, <2>2 DEF Log!LogInit
<1>2. Init => IInv
  BY InitIInv
<1>3. QED
  BY <1>1, <1>2, NextIInv, StepImplements, PTL
     DEF Spec, ImplementsLog, Log!LogSpec, Log!logVars, recordedBar
-------------------------------------------------------------------------------
(* No loss goes unnoticed.                                                 *)

\* Any rows of R have a first and a last one in the order of seq.
Extremes(R) ==
    \A T \in SUBSET R : T # {} =>
        /\ \E m \in T : \A q \in T : q.seq <= m.seq
        /\ \E m \in T : \A q \in T : m.seq <= q.seq

\* Each hash of R is as long as there are rows up to its own: it commits to all
\* of them, and to nothing that is not there.
Counted(R) ==
    /\ IsFiniteSet(R) /\ Len(LastHash(R)) = Cardinality(R)
    /\ \A r \in R : Len(r.entry_hash) = Cardinality(Below(R, r)) + 1

Whole(R) == Extremes(R) /\ Counted(R)

WholeTrail == Whole(rows) /\ \A s \in Sessions : Whole(Visible(s))

\* An empty trail is whole.
LEMMA EmptyWhole == Whole({})
<1>1. IsFiniteSet({}) /\ Cardinality({}) = 0
  BY FS_EmptySet
<1>2. Len(<< >>) = 0
  OBVIOUS
<1> QED BY <1>1, <1>2, EmptyLastHash DEF Whole, Extremes, Counted

\* A row above all others is the last one, and among the others nothing changes.
LEMMA ExtremesGrow ==
    ASSUME NEW R \in SUBSET Row, NEW n \in Row, \A r \in R : r.seq < n.seq, Extremes(R)
    PROVE  Extremes(R \cup {n})
<1> SUFFICES ASSUME NEW T \in SUBSET (R \cup {n}), T # {}
             PROVE  /\ \E m \in T : \A q \in T : q.seq <= m.seq
                    /\ \E m \in T : \A q \in T : m.seq <= q.seq
  BY DEF Extremes
<1>1. \A r \in R \cup {n} : r.seq \in Nat
  BY DEF Row
<1>2. CASE T \subseteq {n}
  BY <1>1, <1>2
<1>3. CASE ~ (T \subseteq {n})
  <2> DEFINE U == T \ {n}
  <2>1. U \in SUBSET R /\ U # {}
    BY <1>3
  <2>2. PICK l \in U : \A q \in U : q.seq <= l.seq
    BY <2>1 DEF Extremes
  <2>3. PICK k \in U : \A q \in U : k.seq <= q.seq
    BY <2>1 DEF Extremes
  <2>4. k \in T /\ l \in T /\ k \in R /\ l \in R
    BY <2>1
  <2>5. \A q \in T : k.seq <= q.seq
    <3> SUFFICES ASSUME NEW q \in T PROVE k.seq <= q.seq
      OBVIOUS
    <3>1. CASE q = n
      BY <1>1, <2>4, <3>1
    <3>2. CASE q # n
      BY <2>3, <3>2
    <3> QED BY <3>1, <3>2
  <2>6. n \in T => \A q \in T : q.seq <= n.seq
    BY <1>1
  <2>7. n \notin T => \A q \in T : q.seq <= l.seq
    BY <2>2
  <2> QED BY <2>4, <2>5, <2>6, <2>7
<1> QED BY <1>2, <1>3

\* A row chained to the newest one has a hash that is longer by one.
LEMMA CountedGrows ==
    ASSUME NEW R \in SUBSET Row, NEW n \in Row, \A r \in R : r.seq < n.seq, Counted(R),
           n.prev_hash = LastHash(R),
           n.entry_hash = compute_entry_hash(n.payload, n.prev_hash)
    PROVE  Counted(R \cup {n})
<1> DEFINE S == R \cup {n}
<1>1. \A r \in R : r.seq \in Nat
  BY DEF Row
<1>2. n.seq \in Nat /\ n.prev_hash \in Seq(Sessions) /\ n.payload \in Sessions
  BY DEF Row, Hashes
<1>3. Len(n.entry_hash) = Len(n.prev_hash) + 1
  BY <1>2 DEF compute_entry_hash
<1>4. n \notin R
  BY <1>1, <1>2
<1>5. IsFiniteSet(S) /\ Cardinality(S) = Cardinality(R) + 1
  BY <1>4, FS_AddElement DEF Counted
<1>6. LastHash(S) = n.entry_hash
  BY NewestOnTop
<1>7. Below(S, n) = R
  BY <1>1, <1>2 DEF Below
<1>8. ASSUME NEW r \in R PROVE Below(S, r) = Below(R, r)
  BY <1>1, <1>2 DEF Below
<1>9. Len(n.entry_hash) = Cardinality(R) + 1
  BY <1>3 DEF Counted
<1>10. ASSUME NEW r \in S PROVE Len(r.entry_hash) = Cardinality(Below(S, r)) + 1
  <2>1. CASE r = n
    BY <1>7, <1>9, <2>1
  <2>2. CASE r \in R
    BY <1>8, <2>2 DEF Counted
  <2> QED BY <2>1, <2>2
<1> QED BY <1>5, <1>6, <1>9, <1>10 DEF Counted

\* Every step leaves what is committed, and what each session sees, whole.
LEMMA NextWhole == ChainInv /\ WholeTrail /\ [Next]_vars => WholeTrail'
<1> SUFFICES ASSUME ChainInv, WholeTrail, [Next]_vars PROVE WholeTrail'
  OBVIOUS
<1>1. ASSUME NEW s \in Sessions, Insert(s) PROVE WholeTrail'
  <2> DEFINE n == NewRow(s)
  <2>1. pc[s] = "read" /\ rows' = rows
    BY <1>1 DEF Insert
  <2>2. /\ n \in Row /\ Visible(s) \in SUBSET Row /\ \A r \in Visible(s) : r.seq < n.seq
        /\ n.prev_hash = LastHash(Visible(s))
        /\ n.entry_hash = compute_entry_hash(n.payload, n.prev_hash)
    BY <2>1, NewRowFacts
  <2>3. Visible(s)' = Visible(s) \cup {n}
    BY <1>1 DEF ChainInv, TypeOK, Insert, Visible
  <2>4. \A u \in Sessions \ {s} : Visible(u)' = Visible(u)
    BY <1>1 DEF ChainInv, TypeOK, Insert, Visible
  <2>5. Extremes(Visible(s)) /\ Counted(Visible(s))
    BY DEF WholeTrail, Whole
  <2> HIDE DEF n
  <2>6. Extremes(Visible(s) \cup {n})
    BY <2>2, <2>5, ExtremesGrow
  <2>7. Counted(Visible(s) \cup {n})
    BY <2>2, <2>5, CountedGrows
  <2>8. Whole(Visible(s)')
    BY <2>3, <2>6, <2>7 DEF Whole
  <2>9. ASSUME NEW u \in Sessions PROVE Whole(Visible(u)')
    BY <2>4, <2>8 DEF WholeTrail
  <2> QED BY <2>1, <2>9 DEF WholeTrail, Visible
<1>2. ASSUME NEW s \in Sessions, Commit(s) PROVE WholeTrail'
  <2>1. rows' = Visible(s) /\ \A u \in Sessions : Visible(u)' = rows' \/ Visible(u)' = Visible(u)
    BY <1>2, CommitFacts
  <2>2. Whole(rows')
    BY <2>1 DEF WholeTrail
  <2>3. ASSUME NEW u \in Sessions PROVE Whole(Visible(u)')
    BY <2>1, <2>2 DEF WholeTrail
  <2> QED BY <2>2, <2>3 DEF WholeTrail, Visible
<1>3. ASSUME NEW s \in Sessions, Rollback(s) PROVE WholeTrail'
  <2>1. rows' = rows /\ \A u \in Sessions : Visible(u)' = rows \/ Visible(u)' = Visible(u)
    BY <1>3 DEF ChainInv, TypeOK, Rollback, Visible
  <2>2. ASSUME NEW u \in Sessions PROVE Whole(Visible(u)')
    BY <2>1 DEF WholeTrail
  <2> QED BY <2>1, <2>2 DEF WholeTrail, Visible
<1>4. CASE rows' = rows /\ pending' = pending
  BY <1>4 DEF WholeTrail, Visible
<1> QED BY <1>1, <1>2, <1>3, <1>4 DEF Next, SessionNext, Begin, Record, Lock, ReadLast, vars

\* A linked part of whole rows has all rows below each of its own.
LEMMA LinkedPartIsWhole ==
    ASSUME NEW R \in SUBSET Row, Whole(R), NEW K \in SUBSET R, Linked(K), NEW r \in K
    PROVE  Below(R, r) \subseteq K
<1> DEFINE Bad == {x \in K : ~ (Below(R, x) \subseteq K)}
<1> SUFFICES ASSUME Bad # {} PROVE FALSE
  OBVIOUS
<1>1. Bad \in SUBSET R
  OBVIOUS
<1>2. PICK x \in Bad : \A y \in Bad : x.seq <= y.seq
  BY <1>1 DEF Whole, Extremes
<1> DEFINE B == Below(R, x)  A == Below(K, x)
<1>3. x \in K /\ x \in R /\ x \in Row /\ ~ (B \subseteq K)
  BY <1>2
<1>4. x.prev_hash = LastHash(A) /\ x.entry_hash = compute_entry_hash(x.payload, x.prev_hash)
  BY <1>3 DEF Linked, Accepts
<1>5. Len(x.entry_hash) = Len(LastHash(A)) + 1 /\ Len(LastHash(A)) \in Nat
  <2>1. x.prev_hash \in Seq(Sessions) /\ x.payload \in Sessions
    BY <1>3 DEF Row, Hashes
  <2> QED BY <1>4, <2>1 DEF compute_entry_hash
<1>6. IsFiniteSet(B) /\ Cardinality(B) \in Nat /\ B \in SUBSET R
  <2>1. B \in SUBSET R
    BY DEF Below
  <2> QED BY <2>1, FS_Subset, FS_CardinalityType DEF Whole, Counted
<1>7. Len(LastHash(A)) = Cardinality(B)
  <2>1. Len(x.entry_hash) = Cardinality(B) + 1
    BY <1>3 DEF Whole, Counted
  <2> HIDE DEF A, B
  <2> QED BY <1>5, <1>6, <2>1
<1>8. A # {}
  <2> SUFFICES ASSUME A = {} PROVE FALSE
    OBVIOUS
  <2>1. Cardinality(B) = 0
    <3>1. LastHash(A) = << >>
      BY EmptyLastHash
    <3> HIDE DEF A, B
    <3> QED BY <1>7, <3>1
  <2>2. B = {}
    BY <1>6, <2>1, FS_EmptySet
  <2> QED BY <1>3, <2>2
<1> DEFINE m == Newest(A)
<1>9. m \in A /\ LastHash(A) = m.entry_hash
  <2>1. A \in SUBSET R
    BY DEF Below
  <2>2. \E y \in A : \A q \in A : q.seq <= y.seq
    BY <1>8, <2>1 DEF Whole, Extremes
  <2> QED BY <1>8, <2>2 DEF Newest, LastHash
<1>10. m \in K /\ m \in R /\ m.seq < x.seq
  BY <1>9 DEF Below
<1> HIDE DEF m
<1> DEFINE C == Below(R, m)  D == C \cup {m}
<1>11. C \subseteq K
  <2>1. m.seq \in Nat /\ x.seq \in Nat
    BY <1>3, <1>10 DEF Row
  <2>2. m \notin Bad
    BY <1>2, <1>10, <2>1
  <2> QED BY <1>10, <2>2
<1>12. D \in SUBSET B /\ m \notin C
  <2>1. \A y \in R : y.seq \in Nat
    BY DEF Row
  <2> QED BY <1>10, <2>1, <1>3 DEF Below
<1>13. Cardinality(D) = Cardinality(B)
  <2>1. IsFiniteSet(C)
    <3>1. C \in SUBSET R
      BY DEF Below
    <3> QED BY <3>1, FS_Subset DEF Whole, Counted
  <2>2. Cardinality(D) = Cardinality(C) + 1
    BY <1>12, <2>1, FS_AddElement
  <2>3. Len(m.entry_hash) = Cardinality(C) + 1
    BY <1>10 DEF Whole, Counted
  <2> HIDE DEF B, C, D, A
  <2> QED BY <1>7, <1>9, <2>2, <2>3
<1>14. D = B
  <2> HIDE DEF B, D
  <2> QED BY <1>6, <1>12, <1>13, FS_Subset
<1> QED BY <1>3, <1>10, <1>11, <1>14

\* verify_chain notices every loss of rows that are older than one it was given:
\* what it accepts of the committed trail lacks the newest rows at most.
THEOREM LossAlwaysDetected == Spec => []LossDetected
<1>1. Init => ChainInv /\ WholeTrail
  <2> SUFFICES ASSUME Init PROVE WholeTrail
    BY InitIInv DEF IInv
  <2>1. rows = {} /\ \A s \in Sessions : Visible(s) = {}
    BY DEF Init, Visible
  <2> QED BY <2>1, EmptyWhole DEF WholeTrail
<1>2. ChainInv /\ WholeTrail => LossDetected
  <2> SUFFICES ASSUME ChainInv, WholeTrail, NEW kept \in SUBSET rows, verify_chain(kept).ok,
                      NEW r \in kept, NEW q \in rows, q.seq < r.seq
               PROVE  q \in kept
    BY DEF LossDetected
  <2>1. rows \in SUBSET Row /\ Whole(rows)
    BY DEF ChainInv, TypeOK, WholeTrail
  <2>2. Linked(kept)
    BY VerifyIffLinked
  <2>3. Below(rows, r) \subseteq kept
    BY <2>1, <2>2, LinkedPartIsWhole
  <2> QED BY <2>3 DEF Below
<1> QED BY <1>1, <1>2, NextChainInv, NextWhole, PTL DEF Spec
===============================================================================
