----------------------------- MODULE PlatformProofs -----------------------------
(***************************************************************************)
(* Theorems about TenantRecords, LoginMonitor, AccessControl and           *)
(* ChunkedStream, for any requests, reports, clients and streams.          *)
(*                                                                         *)
(* TenantRecords: a plan that was flushed with a unique key stays the only *)
(* one (Apart) and finds what it found (Fits), so its commit keeps the key *)
(* unique; without overlap a plan still knows all there is (FitsAlone).    *)
(* The unique keys are a store that reads and writes at once.              *)
(*                                                                         *)
(* LoginMonitor: an alarm that a report carries has its reason in the log  *)
(* (Filed), and the log only grows; a report that is alone carries what is *)
(* due (Raised), so the login it commits does.                             *)
(*                                                                         *)
(* AccessControl: what a request read was true when it read it (WasHeld,   *)
(* Founded), and what a change that is alone read is still true.           *)
(*                                                                         *)
(* ChunkedStream: a body is the chunks so far, one after the other (Laid); *)
(* a cell of the storage's answer is junk or was written (Written), and    *)
(* once the reading starts nothing more is (Still).  A chunk that opens    *)
(* has the nonce its place calls for, so it is the chunk of that place     *)
(* (OpenedWasSealed), and what is out reaches as far as the counter says   *)
(* (SoundRead).                                                            *)
(***************************************************************************)
EXTENDS MCPlatform, FiniteSetTheorems, SequenceTheorems, TLAPS

-------------------------------------------------------------------------------
(* The records of tenants.                                                *)

Done == Answer("done")

\* Every row is named after the request that inserted it.
Named(S) ==
    /\ \A x \in S : req[x.id] = Done
    /\ \A x, y \in S : x.id = y.id => x = y

\* What a plan knows of the rows, whatever the others commit meanwhile; a
\* write of a unique key that was flushed finds what it found then.
Fits(q) ==
    /\ q.op = "pay" => q.id \in Requests /\ req[q.id] = Done
    /\ q.op = "invoice" => q.number >= 1
    /\ q.op \in {"put", "remove"} /\ q.id # None =>
         q.id \in Requests /\ req[q.id] = Done /\ \A x \in rows : x.id = q.id => x.key = q.key
    /\ q.op = "put" /\ q.id = None => q.key \in Upserted
    /\ q.op = "create" => q.id = None /\ q.key = "organization"
    /\ q.op = "remove" => q.id # None /\ q.key = "organization"
    /\ q.pc = "commit" /\ Changes(q) /\ q.key \in Unique =>
         /\ q.id = None => \A x \in rows : x.key # q.key
         /\ q.op = "put" /\ q.id # None => \E x \in rows : x.key = q.key /\ x.id = q.id

\* Plans for one row have one key, and flushed writes of a unique key are alone.
Apart(p, q) ==
    /\ p.op \in {"put", "remove"} /\ q.op \in {"put", "remove"} /\ p.id = q.id /\ q.id # None =>
         p.key = q.key
    /\ p.pc = "commit" /\ q.pc = "commit" /\ Changes(p) /\ Changes(q) /\ p.key = q.key =>
         q.key \notin Unique

\* What a plan knows when no other request is there.
FitsAlone(q) ==
    /\ q.op = "invoice" => q.number = Cardinality(invoices) + 1
    /\ q.op \in {"put", "create"} /\ q.id = None => \A x \in rows : x.key # q.key
    /\ q.op = "put" /\ q.id # None => \E x \in rows : x.key = q.key /\ x.id = q.id

\* What holds as long as requests come one at a time.
OneRequest ==
    /\ \A p, r \in Requests : InFlight(p) /\ InFlight(r) => p = r
    /\ \A r \in Requests : InFlight(r) => FitsAlone(req[r])
    /\ NumbersCount
    /\ \A x, y \in rows : x.key = y.key => x = y

\* The inductive invariant of the records.
RecordsInv ==
    /\ TypeOK
    /\ Named(rows) /\ Named(invoices)
    /\ \A p \in payments : req[p.invoice] = Done
    /\ PaidIsPaidFor
    /\ \A r \in Requests : InFlight(r) => Fits(req[r])
    /\ \A p, r \in Requests : p # r /\ InFlight(p) /\ InFlight(r) => Apart(req[p], req[r])
    /\ \A x, y \in rows : x.key = y.key /\ x.key \in Unique => x = y
    /\ ~ overlapped => OneRequest

\* Things with names of their own are as many as their names.
LEMMA NamesCount ==
    ASSUME NEW S, NEW D, IsFiniteSet(D), \A x \in S : x.id \in D,
           \A x, y \in S : x.id = y.id => x = y
    PROVE  /\ IsFiniteSet(S) /\ Cardinality(S) <= Cardinality(D)
           /\ Cardinality(S) = Cardinality({x.id : x \in S})
           /\ Cardinality(S) \in Nat
<1> DEFINE T == {x.id : x \in S}
           f == [x \in S |-> x.id]
<1>1. T \subseteq D
  OBVIOUS
<1>2. IsFiniteSet(T) /\ Cardinality(T) <= Cardinality(D) /\ Cardinality(T) \in Nat
  BY <1>1, FS_Subset, FS_CardinalityType
<1>3. f \in [S -> T] /\ \A x, y \in S : f[x] = f[y] => x = y
  OBVIOUS
<1>4. f \in Injection(S, T)
  BY <1>3 DEF Injection, IsInjective
<1>5. f \in Surjection(S, T)
  BY <1>3 DEF Surjection
<1>6. IsFiniteSet(S) /\ Cardinality(S) <= Cardinality(T)
      /\ (Cardinality(S) = Cardinality(T) <=> f \in Surjection(S, T))
  BY <1>2, <1>4, FS_Injection
<1> HIDE DEF T, f
<1>7. Cardinality(S) = Cardinality(T)
  BY <1>5, <1>6
<1> QED BY <1>2, <1>6, <1>7 DEF T

\* The invoices while request r is under way.
LEMMA InvoicesLeft ==
    ASSUME RecordsInv, NEW r \in Requests, req[r] # Done
    PROVE  /\ IsFiniteSet(invoices) /\ Cardinality(invoices) \in Nat
           /\ Cardinality(Requests) \in Nat
           /\ Cardinality(invoices) + 1 <= Cardinality(Requests)
<1>1. \A x \in invoices : x.id \in Requests \ {r}
  BY DEF RecordsInv, Named, TypeOK, Invoice
<1>2. \A x, y \in invoices : x.id = y.id => x = y
  BY DEF RecordsInv, Named
<1>3. /\ IsFiniteSet(Requests \ {r}) /\ Cardinality(Requests \ {r}) = Cardinality(Requests) - 1
      /\ Cardinality(Requests) \in Nat
  BY RequestsFinite, FS_RemoveElement, FS_CardinalityType
<1>4. /\ IsFiniteSet(invoices) /\ Cardinality(invoices) <= Cardinality(Requests \ {r})
      /\ Cardinality(invoices) \in Nat
  BY <1>1, <1>2, <1>3, NamesCount
<1> QED BY <1>3, <1>4

\* It holds at the start.
LEMMA RecordsInitInv == Init => RecordsInv
<1> SUFFICES ASSUME Init PROVE RecordsInv
  OBVIOUS
<1>1. /\ rows = {} /\ invoices = {} /\ payments = {} /\ overlapped = FALSE
      /\ req = [r \in Requests |-> Idle]
  BY DEF Init
<1>2. \A r \in Requests : ~ InFlight(r)
  BY <1>1 DEF InFlight, Idle
<1>3. TypeOK
  BY <1>1 DEF TypeOK
<1>4. NumbersCount
  <2>1. Cardinality(invoices) = 0 /\ 1 .. 0 = {}
    BY <1>1, FS_EmptySet
  <2> QED BY <1>1, <2>1 DEF NumbersCount
<1> QED BY <1>1, <1>2, <1>3, <1>4 DEF RecordsInv, Named, PaidIsPaidFor, OneRequest

\* A step of a request that leaves the records alone.
LEMMA PlanStep ==
    ASSUME RecordsInv, NEW r \in Requests,
           NEW q \in Request \cup {Idle, Answer("done"), Answer("refused")},
           req' = [req EXCEPT ![r] = q], req[r] # Done, q # Done,
           UNCHANGED <<rows, invoices, payments>>,
           overlapped' \in BOOLEAN, overlapped => overlapped',
           q.pc \in {"write", "commit"} =>
             /\ Fits(q)
             /\ \A p \in Requests : p # r /\ InFlight(p) => Apart(req[p], q) /\ Apart(q, req[p])
             /\ ~ overlapped' => FitsAlone(q) /\ \A p \in Requests : InFlight(p) => p = r
    PROVE  RecordsInv'
<1>1. \A p \in Requests : req'[p] = IF p = r THEN q ELSE req[p]
  BY DEF RecordsInv, TypeOK
<1>2. TypeOK'
  BY DEF RecordsInv, TypeOK
<1>3. \A p \in Requests : req[p] = Done <=> req'[p] = Done
  BY <1>1
<1>4. Named(rows)' /\ Named(invoices)'
  <2>1. \A x \in rows : x.id \in Requests
    BY DEF RecordsInv, TypeOK, Row
  <2>2. \A x \in invoices : x.id \in Requests
    BY DEF RecordsInv, TypeOK, Invoice
  <2> QED BY <1>3, <2>1, <2>2 DEF RecordsInv, Named
<1>5. \A p \in payments : req'[p.invoice] = Done
  <2>1. \A p \in payments : p.invoice \in Requests
    BY DEF RecordsInv, TypeOK, Payment
  <2> QED BY <1>3, <2>1 DEF RecordsInv
<1>6. ASSUME NEW o, Fits(o) PROVE Fits(o)'
  BY <1>3, <1>6 DEF Fits
<1>7. \A p \in Requests : InFlight(p)' <=> IF p = r THEN q.pc \in {"write", "commit"} ELSE InFlight(p)
  BY <1>1 DEF InFlight
<1>8. ASSUME NEW p \in Requests, InFlight(p)' PROVE Fits(req[p])'
  <2>1. CASE p = r
    <3>1. Fits(q)'
      BY <1>6, <1>7, <1>8, <2>1
    <3>2. req'[p] = q
      BY <1>1, <2>1
    <3> QED BY <3>1, <3>2 DEF Fits
  <2>2. CASE p # r
    <3>1. PICK o : o = req[p]
      OBVIOUS
    <3>2. Fits(o)'
      BY <1>6, <1>7, <1>8, <2>2, <3>1 DEF RecordsInv
    <3>3. req'[p] = o
      BY <1>1, <2>2, <3>1
    <3> QED BY <3>2, <3>3 DEF Fits
  <2> QED BY <2>1, <2>2
<1>9. \A p, s \in Requests : p # s /\ InFlight(p)' /\ InFlight(s)' => Apart(req[p], req[s])'
  <2> SUFFICES ASSUME NEW p \in Requests, NEW s \in Requests, p # s, InFlight(p)', InFlight(s)'
               PROVE  Apart(req'[p], req'[s])
    BY DEF Apart, Changes
  <2> QED BY <1>1, <1>7 DEF RecordsInv
<1>10. ASSUME ~ overlapped' PROVE OneRequest'
  <2>1. OneRequest
    BY <1>10 DEF RecordsInv
  <2>2. \A p, s \in Requests : InFlight(p)' /\ InFlight(s)' => p = s
    BY <1>7, <1>10, <2>1 DEF OneRequest
  <2>3. ASSUME NEW p \in Requests, InFlight(p)' PROVE FitsAlone(req[p])'
    <3>1. FitsAlone(req'[p])
      BY <1>1, <1>7, <1>10, <2>1, <2>3 DEF OneRequest
    <3> QED BY <3>1 DEF FitsAlone
  <2> QED BY <2>1, <2>2, <2>3 DEF OneRequest, NumbersCount
<1>11. PaidIsPaidFor'
  BY DEF RecordsInv, PaidIsPaidFor
<1> QED BY <1>2, <1>4, <1>5, <1>8, <1>9, <1>10, <1>11 DEF RecordsInv

\* A request that is loaded.
LEMMA LoadStep ==
    ASSUME RecordsInv, NEW r \in Requests, NEW q \in Request, q.pc = "write", Load(r, q),
           Fits(q), ~ overlapped => FitsAlone(q),
           q.op \in {"put", "remove"} /\ q.id # None =>
             \E x \in rows : x.id = q.id /\ x.key = q.key
    PROVE  RecordsInv'
<1>1. /\ req[r] = Idle /\ req' = [req EXCEPT ![r] = q] /\ UNCHANGED <<rows, invoices, payments>>
      /\ overlapped' = (overlapped \/ \E p \in Requests : InFlight(p))
  BY DEF Load
<1>2. q # Done /\ req[r] # Done
  BY <1>1 DEF Done, Answer, Idle
<1>3. ASSUME NEW p \in Requests, p # r, InFlight(p) PROVE Apart(req[p], q) /\ Apart(q, req[p])
  <2>1. Fits(req[p])
    BY <1>3 DEF RecordsInv
  <2>2. req[p].op \in {"put", "remove"} /\ q.op \in {"put", "remove"} /\ req[p].id = q.id /\ q.id # None =>
          req[p].key = q.key
    BY <2>1 DEF Fits
  <2> QED BY <2>2 DEF Apart
<1>4. overlapped' \in BOOLEAN /\ (overlapped => overlapped')
  BY <1>1 DEF RecordsInv, TypeOK
<1>5. ~ overlapped' => ~ overlapped /\ \A p \in Requests : ~ InFlight(p)
  BY <1>1
<1> QED BY <1>1, <1>2, <1>3, <1>4, <1>5, PlanStep

\* A request that is refused at once.
LEMMA RefusedStep ==
    ASSUME RecordsInv, NEW r \in Requests, Load(r, Answer("refused")) PROVE RecordsInv'
<1>1. /\ req[r] = Idle /\ req' = [req EXCEPT ![r] = Answer("refused")]
      /\ UNCHANGED <<rows, invoices, payments>>
      /\ overlapped' = (overlapped \/ \E p \in Requests : InFlight(p))
  BY DEF Load
<1>2. Answer("refused") # Done /\ req[r] # Done /\ Answer("refused").pc = "refused"
  BY <1>1 DEF Done, Answer, Idle
<1>3. overlapped' \in BOOLEAN /\ (overlapped => overlapped')
  BY <1>1 DEF RecordsInv, TypeOK
<1> QED BY <1>1, <1>2, <1>3, PlanStep

\* What is found of a key: no row, or one of them.
LEMMA FoundPlans ==
    ASSUME RecordsInv, NEW r \in Requests, NEW op \in {"put", "remove"}, NEW k \in Keys,
           NEW v \in Values, NEW q \in Found(op, k, v)
    PROVE  /\ q \in Request /\ q.pc = "write" /\ q.op = op /\ q.key = k /\ q.val = v
           /\ \/ q.id = None /\ \A x \in rows : x.key # k
              \/ q.id # None /\ \E x \in rows : x.id = q.id /\ x.key = k
<1>1. 0 \in 0 .. Cardinality(Requests)
  BY RequestsFinite, FS_CardinalityType
<1>2. CASE RowsOf(k) = {} /\ q = Plan(op, k, v, None, FALSE, 0)
  <2>1. \A x \in rows : x.key # k
    BY <1>2 DEF RowsOf
  <2>2. q \in Request
    BY <1>1, <1>2 DEF Request, Plan, Ops, Values
  <2> QED BY <1>2, <2>1, <2>2 DEF Plan
<1>3. ASSUME NEW x \in RowsOf(k), q = Plan(op, k, v, x.id, x.val, 0)
      PROVE  /\ q \in Request /\ q.pc = "write" /\ q.op = op /\ q.key = k /\ q.val = v
             /\ q.id # None /\ \E y \in rows : y.id = q.id /\ y.key = k
  <2>1. x \in rows /\ x.key = k /\ x.id \in Requests /\ x.val \in Values
    BY DEF RowsOf, RecordsInv, TypeOK, Row
  <2>2. x.id # None
    BY <2>1, NoneAssumption
  <2>3. q \in Request
    BY <1>1, <1>3, <2>1 DEF Request, Plan, Ops, Values
  <2> QED BY <1>3, <2>1, <2>2, <2>3 DEF Plan
<1> QED BY <1>2, <1>3 DEF Found

\* Such a plan fits.
LEMMA FoundStep ==
    ASSUME RecordsInv, NEW r \in Requests, NEW op \in {"put", "remove"}, NEW k \in Keys,
           NEW v \in Values, NEW q \in Found(op, k, v), Load(r, q),
           op = "put" => k \in Upserted \/ RowsOf(k) # {},
           op = "remove" => k = "organization" /\ RowsOf(k) # {}
    PROVE  RecordsInv'
<1>1. /\ q \in Request /\ q.pc = "write" /\ q.op = op /\ q.key = k /\ q.val = v
      /\ \/ q.id = None /\ \A x \in rows : x.key # k
         \/ q.id # None /\ \E x \in rows : x.id = q.id /\ x.key = k
  BY FoundPlans
<1>2. q.id = None => k \in Upserted /\ op = "put"
  BY <1>1 DEF RowsOf
<1>3. q.id # None => q.id \in Requests /\ req[q.id] = Done /\ \A x \in rows : x.id = q.id => x.key = k
  <2> SUFFICES ASSUME NEW y \in rows, y.id = q.id, y.key = k
               PROVE  q.id \in Requests /\ req[q.id] = Done /\ \A x \in rows : x.id = q.id => x.key = k
    BY <1>1
  <2> QED BY DEF RecordsInv, Named, TypeOK, Row
<1>4. Fits(q)
  BY <1>1, <1>2, <1>3 DEF Fits
<1>5. FitsAlone(q)
  BY <1>1 DEF FitsAlone
<1> QED BY <1>1, <1>4, <1>5, LoadStep

\* A row is put.
LEMMA LoadPutStep == ASSUME RecordsInv, NEW r \in Requests, LoadPut(r) PROVE RecordsInv'
<1>1. PICK k \in Keys, v \in Values :
        IF Found("put", k, v) = {} \/ (k \notin Upserted /\ RowsOf(k) = {})
          THEN Load(r, Answer("refused"))
          ELSE \E q \in Found("put", k, v) : Load(r, q)
  BY DEF LoadPut
<1>2. CASE Load(r, Answer("refused"))
  BY <1>2, RefusedStep
<1>3. CASE ~ (k \notin Upserted /\ RowsOf(k) = {}) /\ \E q \in Found("put", k, v) : Load(r, q)
  <2>1. PICK q \in Found("put", k, v) : Load(r, q)
    BY <1>3
  <2> QED BY <1>3, <2>1, FoundStep
<1> QED BY <1>1, <1>2, <1>3

\* An organisation is created.
LEMMA LoadCreateStep == ASSUME RecordsInv, NEW r \in Requests, LoadCreate(r) PROVE RecordsInv'
<1>1. PICK v \in Values :
        IF RowsOf("organization") # {} THEN Load(r, Answer("refused"))
        ELSE Load(r, Plan("create", "organization", v, None, FALSE, 0))
  BY DEF LoadCreate
<1>2. CASE Load(r, Answer("refused"))
  BY <1>2, RefusedStep
<1>3. CASE RowsOf("organization") = {} /\ Load(r, Plan("create", "organization", v, None, FALSE, 0))
  <2>1. PICK q : q = Plan("create", "organization", v, None, FALSE, 0)
    OBVIOUS
  <2>2. /\ q.op = "create" /\ q.pc = "write" /\ q.key = "organization" /\ q.id = None
    BY <2>1 DEF Plan
  <2>3. q \in Request
    <3>1. 0 \in 0 .. Cardinality(Requests)
      BY RequestsFinite, FS_CardinalityType
    <3> QED BY <2>1, <3>1 DEF Request, Plan, Ops, Values, Keys
  <2>4. \A x \in rows : x.key # "organization"
    BY <1>3 DEF RowsOf
  <2>5. Fits(q) /\ FitsAlone(q)
    BY <2>2, <2>4 DEF Fits, FitsAlone
  <2> QED BY <1>3, <2>1, <2>2, <2>3, <2>5, LoadStep
<1> QED BY <1>1, <1>2, <1>3

\* An organisation is removed.
LEMMA LoadRemoveStep == ASSUME RecordsInv, NEW r \in Requests, LoadRemove(r) PROVE RecordsInv'
<1>1. "organization" \in Keys /\ FALSE \in Values
  BY DEF Keys, Values
<1>2. CASE Load(r, Answer("refused"))
  BY <1>2, RefusedStep
<1>3. CASE RowsOf("organization") # {} /\ \E q \in Found("remove", "organization", FALSE) : Load(r, q)
  BY <1>1, <1>3, FoundStep
<1> QED BY <1>2, <1>3 DEF LoadRemove

\* An invoice is numbered.
LEMMA LoadInvoiceStep == ASSUME RecordsInv, NEW r \in Requests, LoadInvoice(r) PROVE RecordsInv'
<1> DEFINE n == Cardinality(invoices) + 1
<1>1. PICK q : q = Plan("invoice", "subscription", FALSE, None, FALSE, n)
  OBVIOUS
<1>2. Load(r, q)
  BY <1>1 DEF LoadInvoice
<1>3. req[r] # Done
  BY <1>2 DEF Load, Idle, Done, Answer
<1>4. n \in 1 .. Cardinality(Requests)
  BY <1>3, InvoicesLeft
<1>5. q.op = "invoice" /\ q.pc = "write" /\ q.number = n
  BY <1>1 DEF Plan
<1>6. q \in Request
  <2>1. n \in 0 .. Cardinality(Requests)
    BY <1>4
  <2> HIDE DEF n
  <2> QED BY <1>1, <2>1 DEF Request, Plan, Ops, Values, Keys
<1>7. Fits(q) /\ FitsAlone(q)
  BY <1>4, <1>5 DEF Fits, FitsAlone
<1> QED BY <1>2, <1>5, <1>6, <1>7, LoadStep

\* An invoice is paid.
LEMMA LoadPayStep == ASSUME RecordsInv, NEW r \in Requests, LoadPay(r) PROVE RecordsInv'
<1>1. PICK i \in invoices : Load(r, Plan("pay", "subscription", FALSE, i.id, FALSE, 0))
  BY DEF LoadPay
<1>2. PICK q : q = Plan("pay", "subscription", FALSE, i.id, FALSE, 0)
  OBVIOUS
<1>3. i.id \in Requests /\ req[i.id] = Done
  BY DEF RecordsInv, Named, TypeOK, Invoice
<1>4. q.op = "pay" /\ q.pc = "write" /\ q.id = i.id
  BY <1>2 DEF Plan
<1>5. q \in Request
  <2>1. 0 \in 0 .. Cardinality(Requests)
    BY RequestsFinite, FS_CardinalityType
  <2> QED BY <1>2, <1>3, <2>1 DEF Request, Plan, Ops, Values, Keys
<1>6. Fits(q) /\ FitsAlone(q)
  BY <1>3, <1>4 DEF Fits, FitsAlone
<1> QED BY <1>1, <1>2, <1>4, <1>5, <1>6, LoadStep

\* The flush: nothing conflicts, and no other flushed write is in the way.
LEMMA WriteStep == ASSUME RecordsInv, NEW r \in Requests, Write(r) PROVE RecordsInv'
<1> DEFINE o == req[r]
<1>1. PICK q : q = [o EXCEPT !.pc = "commit"]
  OBVIOUS
<1>2. /\ o.pc = "write" /\ Blockers(r) = {} /\ ~ Conflicting(o)
      /\ req' = [req EXCEPT ![r] = q] /\ UNCHANGED <<rows, invoices, payments, overlapped>>
  BY <1>1 DEF Write
<1>3. o \in Request
  BY <1>2 DEF RecordsInv, TypeOK, Idle, Answer
<1>4. q \in Request
  BY <1>1, <1>3 DEF Request
<1>5. /\ q.op = o.op /\ q.key = o.key /\ q.val = o.val /\ q.id = o.id /\ q.seen = o.seen
      /\ q.number = o.number /\ q.pc = "commit"
  BY <1>1, <1>3 DEF Request
<1>6. Fits(o) /\ InFlight(r)
  BY <1>2 DEF RecordsInv, InFlight
<1>7. Changes(q) <=> Changes(o)
  BY <1>5 DEF Changes
<1>8. q # Done /\ o # Done
  BY <1>2, <1>5 DEF Done, Answer
<1>9. Changes(o) /\ o.key \in Unique =>
         /\ o.id = None => \A x \in rows : x.key # o.key
         /\ o.op = "put" /\ o.id # None => \E x \in rows : x.key = o.key /\ x.id = o.id
  BY <1>2 DEF Conflicting, RowsOf
<1>10. Fits(q)
  BY <1>5, <1>6, <1>7, <1>9 DEF Fits
<1>11. ASSUME NEW p \in Requests, p # r, InFlight(p) PROVE Apart(req[p], q) /\ Apart(q, req[p])
  <2>1. Apart(req[p], o) /\ Apart(o, req[p])
    BY <1>6, <1>11 DEF RecordsInv
  <2>2. ~ (req[p].pc = "commit" /\ SameRecord(req[p], o))
    BY <1>2, <1>11 DEF Blockers
  <2> QED BY <1>5, <1>7, <2>1, <2>2 DEF Apart, SameRecord
<1>12. ~ overlapped => FitsAlone(q) /\ \A p \in Requests : InFlight(p) => p = r
  <2> SUFFICES ASSUME ~ overlapped PROVE FitsAlone(q) /\ \A p \in Requests : InFlight(p) => p = r
    OBVIOUS
  <2>1. FitsAlone(o) /\ \A p \in Requests : InFlight(p) => p = r
    BY <1>6 DEF RecordsInv, OneRequest
  <2> QED BY <1>5, <2>1 DEF FitsAlone
<1>13. overlapped' \in BOOLEAN /\ (overlapped => overlapped')
  BY <1>2 DEF RecordsInv, TypeOK
<1> QED BY <1>2, <1>4, <1>8, <1>10, <1>11, <1>12, <1>13, PlanStep

\* A request ends without a commit.
LEMMA AbortStep == ASSUME RecordsInv, NEW r \in Requests, Abort(r) PROVE RecordsInv'
<1>1. /\ req[r].pc \in {"write", "commit"} /\ req' = [req EXCEPT ![r] = Answer("refused")]
      /\ UNCHANGED <<rows, invoices, payments, overlapped>>
  BY DEF Abort, InFlight
<1>2. Answer("refused") # Done /\ req[r] # Done /\ Answer("refused").pc = "refused"
  BY <1>1 DEF Done, Answer
<1>3. overlapped' \in BOOLEAN /\ (overlapped => overlapped')
  BY <1>1 DEF RecordsInv, TypeOK
<1> QED BY <1>1, <1>2, <1>3, PlanStep

\* What a commit makes of the rows.
LEMMA RowsChange ==
    ASSUME RecordsInv, NEW r \in Requests, NEW q \in Request, rows' = RowsAfter(q, r)
    PROVE  \/ rows' = rows /\ ~ Changes(q)
           \/ /\ Changes(q) /\ q.op \in {"put", "create"}
              /\ \E w \in Row :
                   /\ w.key = q.key /\ w.val = q.val
                   /\ \/ q.id = None /\ w.id = r /\ rows' = rows \cup {w}
                      \/ /\ q.id # None /\ w.id = q.id
                         /\ rows' = {x \in rows : ~ (x.key = q.key /\ x.id = q.id)} \cup {w}
           \/ /\ Changes(q) /\ q.op = "remove"
              /\ rows' = {x \in rows : ~ (x.key = q.key /\ x.id = q.id)}
<1>1. q.key \in Keys /\ q.val \in Values /\ q.id \in Requests \cup {None} /\ q.op \in Ops
  BY DEF Request
<1>2. {x \in rows : ~ (x.key = q.key /\ x.id = q.id)}
        = rows \ {x \in rows : x.key = q.key /\ x.id = q.id}
  OBVIOUS
<1>3. CASE ~ Changes(q)
  BY <1>3 DEF RowsAfter
<1>4. CASE Changes(q) /\ q.op = "remove"
  BY <1>2, <1>4 DEF RowsAfter
<1>5. CASE Changes(q) /\ q.op # "remove" /\ q.id = None
  <2>1. q.op \in {"put", "create"}
    BY <1>5 DEF Changes
  <2>2. PICK w : w = [key |-> q.key, id |-> r, val |-> q.val]
    OBVIOUS
  <2>3. rows' = rows \cup {w}
    <3>1. rows' = (rows \ {x \in rows : x.key = q.key /\ x.id = q.id}) \cup {w}
      BY <1>5, <2>2 DEF RowsAfter
    <3>2. \A x \in rows : x.id # q.id
      BY <1>5, NoneAssumption DEF RecordsInv, TypeOK, Row
    <3> QED BY <3>1, <3>2
  <2>4. w \in Row /\ w.key = q.key /\ w.val = q.val /\ w.id = r
    BY <1>1, <2>2 DEF Row
  <2> QED BY <1>5, <2>1, <2>3, <2>4
<1>6. CASE Changes(q) /\ q.op # "remove" /\ q.id # None
  <2>1. q.op \in {"put", "create"}
    BY <1>6 DEF Changes
  <2>2. PICK w : w = [key |-> q.key, id |-> q.id, val |-> q.val]
    OBVIOUS
  <2>3. rows' = (rows \ {x \in rows : x.key = q.key /\ x.id = q.id}) \cup {w}
    BY <1>6, <2>2 DEF RowsAfter
  <2>4. w \in Row /\ w.key = q.key /\ w.val = q.val /\ w.id = q.id
    BY <1>1, <1>6, <2>2 DEF Row
  <2> QED BY <1>2, <1>6, <2>1, <2>3, <2>4
<1> QED BY <1>3, <1>4, <1>5, <1>6

\* A payment leaves the invoices as they are but for the one that is paid.
LEMMA PayChange ==
    ASSUME invoices \subseteq Invoice, NEW q, q.op = "pay", NEW r, NEW S, S = InvoicesAfter(q, r)
    PROVE  /\ S \subseteq Invoice
           /\ \A j \in S : \E i \in invoices :
                j.id = i.id /\ j.number = i.number /\ j.paid = (i.paid \/ i.id = q.id)
           /\ \A i \in invoices : \E j \in S :
                j.id = i.id /\ j.number = i.number /\ j.paid = (i.paid \/ i.id = q.id)
           /\ (\A i, j \in invoices : i.id = j.id => i = j) => \A i, j \in S : i.id = j.id => i = j
<1> DEFINE F(i) == IF i.id = q.id THEN [i EXCEPT !.paid = TRUE] ELSE i
<1>1. S = {F(i) : i \in invoices}
  BY DEF InvoicesAfter
<1>2. ASSUME NEW i \in invoices
      PROVE  /\ F(i) \in Invoice /\ F(i).id = i.id /\ F(i).number = i.number
             /\ F(i).paid = (i.paid \/ i.id = q.id)
  <2>1. i \in Invoice
    OBVIOUS
  <2>2. i.paid \in BOOLEAN
    BY <2>1 DEF Invoice
  <2>3. CASE i.id = q.id
    <3>1. PICK j : j = [i EXCEPT !.paid = TRUE]
      OBVIOUS
    <3>2. j \in Invoice /\ j.id = i.id /\ j.number = i.number
      BY <2>1, <3>1 DEF Invoice
    <3>3. j.paid = TRUE
      BY <2>1, <3>1 DEF Invoice
    <3> QED BY <2>3, <3>1, <3>2, <3>3
  <2>4. CASE i.id # q.id
    BY <2>1, <2>2, <2>4
  <2> QED BY <2>3, <2>4
<1> HIDE DEF F
<1>3. S \subseteq Invoice
  BY <1>1, <1>2
<1>4. \A j \in S : \E i \in invoices :
        j.id = i.id /\ j.number = i.number /\ j.paid = (i.paid \/ i.id = q.id)
  BY <1>1, <1>2
<1>5. \A i \in invoices : \E j \in S :
        j.id = i.id /\ j.number = i.number /\ j.paid = (i.paid \/ i.id = q.id)
  BY <1>1, <1>2
<1>6. (\A i, j \in invoices : i.id = j.id => i = j) => \A i, j \in S : i.id = j.id => i = j
  BY <1>1, <1>2
<1> QED BY <1>3, <1>4, <1>5, <1>6

\* A commit and the rows.
LEMMA CommitRows ==
    ASSUME RecordsInv, NEW r \in Requests, Commit(r)
    PROVE  /\ rows' \subseteq Row /\ Named(rows)'
           /\ \A x, y \in rows' : x.key = y.key /\ x.key \in Unique => x = y
           /\ \A k : (~ Changes(req[r]) \/ k # req[r].key) =>
                \A x : x.key = k => (x \in rows' <=> x \in rows)
           /\ \A x \in rows' : x.id # r => \E y \in {req[r]} \cup rows : x.id = y.id /\ x.key = y.key /\
                (y \notin rows => req[r].op = "put" /\ req[r].id # None)
           /\ ~ overlapped => \A x, y \in rows' : x.key = y.key => x = y
<1>1. PICK q : q = req[r]
  OBVIOUS
<1>2. q.pc = "commit" /\ rows' = RowsAfter(q, r) /\ req' = [req EXCEPT ![r] = Done] /\ InFlight(r)
  BY <1>1 DEF Commit, Done, InFlight
<1>3. q \in Request
  BY <1>1, <1>2 DEF RecordsInv, TypeOK, Idle, Answer
<1>4. Fits(q)
  BY <1>1, <1>2 DEF RecordsInv
<1>5. \A p \in Requests : req'[p] = IF p = r THEN Done ELSE req[p]
  BY <1>2 DEF RecordsInv, TypeOK
<1>6. \A x \in rows : x \in Row /\ x.id \in Requests /\ req[x.id] = Done /\ x.id # r
  <2>1. req[r] # Done
    BY <1>1, <1>2 DEF Done, Answer
  <2> QED BY <2>1 DEF RecordsInv, Named, TypeOK, Row
<1>7. ~ overlapped => FitsAlone(q) /\ \A x, y \in rows : x.key = y.key => x = y
  BY <1>1, <1>2 DEF RecordsInv, OneRequest
<1>8. /\ \A x, y \in rows : x.id = y.id => x = y
      /\ \A x, y \in rows : x.key = y.key /\ x.key \in Unique => x = y
  BY DEF RecordsInv, Named
<1>9. CASE rows' = rows /\ ~ Changes(q)
  <2>1. Named(rows)'
    BY <1>5, <1>6, <1>8, <1>9 DEF Named
  <2> QED BY <1>6, <1>7, <1>8, <1>9, <2>1
<1>10. CASE Changes(q) /\ q.op = "remove"
            /\ rows' = {x \in rows : ~ (x.key = q.key /\ x.id = q.id)}
  <2>1. Named(rows)'
    BY <1>5, <1>6, <1>8, <1>10 DEF Named
  <2> QED BY <1>1, <1>6, <1>7, <1>8, <1>10, <2>1
<1>11. ASSUME Changes(q), q.op \in {"put", "create"}, NEW w \in Row, w.key = q.key,
              q.id = None, w.id = r, rows' = rows \cup {w}
       PROVE  /\ rows' \subseteq Row /\ Named(rows)'
              /\ \A x, y \in rows' : x.key = y.key /\ x.key \in Unique => x = y
              /\ \A k : k # q.key => \A x : x.key = k => (x \in rows' <=> x \in rows)
              /\ \A x \in rows' : x.id # r => x \in rows
              /\ ~ overlapped => \A x, y \in rows' : x.key = y.key => x = y
  <2>1. Named(rows)'
    BY <1>5, <1>6, <1>8, <1>11 DEF Named
  <2>2. q.key \in Unique => \A x \in rows : x.key # q.key
    BY <1>2, <1>4, <1>11 DEF Fits
  <2>3. ~ overlapped => \A x \in rows : x.key # q.key
    BY <1>7, <1>11 DEF FitsAlone
  <2> QED BY <1>6, <1>7, <1>8, <1>11, <2>1, <2>2, <2>3
<1>12. ASSUME Changes(q), q.op \in {"put", "create"}, NEW w \in Row, w.key = q.key,
              q.id # None, w.id = q.id,
              rows' = {x \in rows : ~ (x.key = q.key /\ x.id = q.id)} \cup {w}
       PROVE  /\ rows' \subseteq Row /\ Named(rows)'
              /\ \A x, y \in rows' : x.key = y.key /\ x.key \in Unique => x = y
              /\ \A k : k # q.key => \A x : x.key = k => (x \in rows' <=> x \in rows)
              /\ \A x \in rows' : x \in rows \/ (x.id = q.id /\ x.key = q.key)
              /\ q.op = "put"
              /\ ~ overlapped => \A x, y \in rows' : x.key = y.key => x = y
  <2>1. q.op = "put"
    BY <1>4, <1>12 DEF Fits
  <2>2. q.id \in Requests /\ req[q.id] = Done /\ \A x \in rows : x.id = q.id => x.key = q.key
    BY <1>4, <1>12, <2>1 DEF Fits
  <2>3. \A x \in rows' : x = w \/ (x \in rows /\ x.id # q.id)
    BY <1>12, <2>2
  <2>4. req'[q.id] = Done
    BY <1>5, <2>2
  <2>5. Named(rows)'
    BY <1>5, <1>6, <1>8, <1>12, <2>3, <2>4 DEF Named
  <2>6. q.key \in Unique \/ ~ overlapped => \E x \in rows : x.key = q.key /\ x.id = q.id
    BY <1>2, <1>4, <1>7, <1>12, <2>1 DEF Fits, FitsAlone
  <2>7. q.key \in Unique \/ ~ overlapped => \A x \in rows : x.key = q.key => x.id = q.id
    BY <1>7, <1>8, <2>6
  <2>8. q.key \in Unique \/ ~ overlapped => \A x \in rows' : x.key = q.key => x = w
    BY <2>3, <2>7
  <2>9. \A x, y \in rows' : x.key = y.key /\ x.key \in Unique => x = y
    BY <1>8, <1>12, <2>3, <2>8
  <2>10. ~ overlapped => \A x, y \in rows' : x.key = y.key => x = y
    BY <1>7, <1>12, <2>3, <2>8
  <2> QED BY <1>6, <1>12, <2>1, <2>3, <2>5, <2>9, <2>10
<1>13. CASE Changes(q) /\ q.op \in {"put", "create"} /\
            \E w \in Row : /\ w.key = q.key /\ q.id = None /\ w.id = r /\ rows' = rows \cup {w}
  BY <1>1, <1>11, <1>13
<1>14. CASE Changes(q) /\ q.op \in {"put", "create"} /\
            \E w \in Row : /\ w.key = q.key /\ q.id # None /\ w.id = q.id
                            /\ rows' = {x \in rows : ~ (x.key = q.key /\ x.id = q.id)} \cup {w}
  BY <1>1, <1>12, <1>14
<1> QED BY <1>2, <1>3, <1>9, <1>10, <1>13, <1>14, RowsChange

\* A commit and the invoices: a payment of one and its invoice go together.
LEMMA CommitInvoices ==
    ASSUME RecordsInv, NEW r \in Requests, Commit(r)
    PROVE  /\ invoices' \subseteq Invoice /\ payments' \subseteq Payment /\ Named(invoices)'
           /\ \A p \in payments' : req'[p.invoice] = Done
           /\ PaidIsPaidFor' /\ (~ overlapped => NumbersCount')
<1>1. PICK q : q = req[r]
  OBVIOUS
<1>2. /\ q.pc = "commit" /\ invoices' = InvoicesAfter(q, r) /\ req' = [req EXCEPT ![r] = Done]
      /\ payments' = IF q.op = "pay" THEN payments \cup {[id |-> r, invoice |-> q.id]} ELSE payments
      /\ InFlight(r)
  BY <1>1 DEF Commit, Done, InFlight
<1>3. q \in Request
  BY <1>1, <1>2 DEF RecordsInv, TypeOK, Idle, Answer
<1>4. Fits(q) /\ (~ overlapped => FitsAlone(q) /\ NumbersCount)
  BY <1>1, <1>2 DEF RecordsInv, OneRequest
<1>5. \A p \in Requests : req'[p] = IF p = r THEN Done ELSE req[p]
  BY <1>2 DEF RecordsInv, TypeOK
<1>6. req[r] # Done
  BY <1>1, <1>2 DEF Done, Answer
<1>7. \A i \in invoices : i \in Invoice /\ i.id \in Requests /\ req[i.id] = Done /\ i.id # r
  BY <1>6 DEF RecordsInv, Named, TypeOK, Invoice
<1>8. \A p \in payments : p \in Payment /\ p.invoice \in Requests /\ req[p.invoice] = Done /\ p.invoice # r
  BY <1>6 DEF RecordsInv, TypeOK, Payment
<1>9. /\ IsFiniteSet(invoices) /\ Cardinality(invoices) \in Nat
      /\ \A i, j \in invoices : i.id = j.id => i = j
  BY <1>6, InvoicesLeft DEF RecordsInv, Named
<1>10. PaidIsPaidFor
  BY DEF RecordsInv
<1>11. CASE q.op = "invoice"
  <2>1. PICK n : n = [id |-> r, number |-> q.number, paid |-> FALSE]
    OBVIOUS
  <2>2. invoices' = invoices \cup {n} /\ payments' = payments
    BY <1>2, <1>11, <2>1 DEF InvoicesAfter
  <2>3. q.number \in 1 .. Cardinality(Requests)
    <3>1. q.number \in 0 .. Cardinality(Requests) /\ q.number >= 1
      BY <1>3, <1>4, <1>11 DEF Request, Fits
    <3> QED BY <3>1
  <2>4. n \in Invoice /\ n.id = r /\ n.number = q.number
    BY <2>1, <2>3 DEF Invoice
  <2>5. n.paid = FALSE
    BY <2>1
  <2>6. Named(invoices)'
    BY <1>5, <1>7, <1>9, <2>2, <2>4 DEF Named
  <2>7. PaidIsPaidFor'
    BY <1>7, <1>8, <1>10, <2>2, <2>4, <2>5 DEF PaidIsPaidFor
  <2>8. ASSUME ~ overlapped PROVE NumbersCount'
    <3>1. q.number = Cardinality(invoices) + 1 /\ {i.number : i \in invoices} = 1 .. Cardinality(invoices)
      BY <1>4, <1>11, <2>8 DEF FitsAlone, NumbersCount
    <3>2. n \notin invoices
      BY <1>7, <2>4
    <3>3. Cardinality(invoices') = Cardinality(invoices) + 1
      BY <1>9, <2>2, <3>2, FS_AddElement
    <3>4. {i.number : i \in invoices'} = {i.number : i \in invoices} \cup {q.number}
      BY <2>2, <2>4
    <3>5. 1 .. Cardinality(invoices) + 1 = (1 .. Cardinality(invoices)) \cup {Cardinality(invoices) + 1}
      BY <1>9
    <3> QED BY <3>1, <3>3, <3>4, <3>5 DEF NumbersCount
  <2> QED BY <1>5, <1>7, <1>8, <2>2, <2>4, <2>6, <2>7, <2>8
<1>12. CASE q.op = "pay"
  <2>1. q.id \in Requests /\ req[q.id] = Done
    BY <1>4, <1>12 DEF Fits
  <2>2. PICK m : m = [id |-> r, invoice |-> q.id]
    OBVIOUS
  <2>3. payments' = payments \cup {m} /\ m.invoice = q.id /\ m \in Payment
    BY <1>2, <1>12, <2>1, <2>2 DEF Payment
  <2>4. invoices \subseteq Invoice
    BY <1>7
  <2>5. PICK S : S = invoices'
    OBVIOUS
  <2>6. /\ S \subseteq Invoice
        /\ \A j \in S : \E i \in invoices :
             j.id = i.id /\ j.number = i.number /\ j.paid = (i.paid \/ i.id = q.id)
        /\ \A i \in invoices : \E j \in S :
             j.id = i.id /\ j.number = i.number /\ j.paid = (i.paid \/ i.id = q.id)
        /\ \A i, j \in S : i.id = j.id => i = j
    BY <1>2, <1>9, <1>12, <2>4, <2>5, PayChange
  <2>7. Named(invoices)'
    BY <1>5, <1>7, <2>5, <2>6 DEF Named
  <2>8. PaidIsPaidFor'
    <3> SUFFICES ASSUME NEW j \in S PROVE j.paid <=> \E p \in payments' : p.invoice = j.id
      BY <2>5 DEF PaidIsPaidFor
    <3>1. PICK i \in invoices : j.id = i.id /\ j.paid = (i.paid \/ i.id = q.id)
      BY <2>6
    <3>2. i.paid <=> \E p \in payments : p.invoice = i.id
      BY <1>10 DEF PaidIsPaidFor
    <3> QED BY <2>3, <3>1, <3>2
  <2>9. ASSUME ~ overlapped PROVE NumbersCount'
    <3>1. {i.number : i \in invoices} = 1 .. Cardinality(invoices)
      BY <1>4, <2>9 DEF NumbersCount
    <3>2. {i.number : i \in S} = {i.number : i \in invoices}
      BY <2>6
    <3>3. {i.id : i \in S} = {i.id : i \in invoices}
      BY <2>6
    <3>4. Cardinality(S) = Cardinality({i.id : i \in S})
      <4>1. \A i \in S : i.id \in Requests
        BY <1>7, <2>6
      <4> QED BY <2>6, <4>1, RequestsFinite, NamesCount
    <3>5. Cardinality(invoices) = Cardinality({i.id : i \in invoices})
      <4>1. \A i \in invoices : i.id \in Requests
        BY <1>7
      <4> QED BY <1>9, <4>1, RequestsFinite, NamesCount
    <3> QED BY <2>5, <3>1, <3>2, <3>3, <3>4, <3>5 DEF NumbersCount
  <2>10. \A p \in payments' : req'[p.invoice] = Done
    BY <1>5, <1>8, <2>1, <2>3
  <2> QED BY <1>8, <2>3, <2>5, <2>6, <2>7, <2>8, <2>9, <2>10
<1>13. CASE q.op \notin {"invoice", "pay"}
  <2>1. invoices' = invoices /\ payments' = payments
    BY <1>2, <1>13 DEF InvoicesAfter
  <2>2. Named(invoices)'
    BY <1>5, <1>7, <1>9, <2>1 DEF Named
  <2>3. PaidIsPaidFor' /\ (~ overlapped => NumbersCount')
    BY <1>4, <1>10, <2>1 DEF PaidIsPaidFor, NumbersCount
  <2> QED BY <1>5, <1>7, <1>8, <2>1, <2>2, <2>3
<1> QED BY <1>11, <1>12, <1>13

\* A request commits.
LEMMA CommitStep == ASSUME RecordsInv, NEW r \in Requests, Commit(r) PROVE RecordsInv'
<1>1. PICK q : q = req[r]
  OBVIOUS
<1>2. q.pc = "commit" /\ req' = [req EXCEPT ![r] = Done] /\ InFlight(r) /\ UNCHANGED overlapped
  BY <1>1 DEF Commit, Done, InFlight
<1>3. \A p \in Requests : req'[p] = IF p = r THEN Done ELSE req[p]
  BY <1>2 DEF RecordsInv, TypeOK
<1>4. TypeOK'
  BY <1>2, CommitRows, CommitInvoices DEF RecordsInv, TypeOK, Done
<1>5. req[r] # Done /\ ~ InFlight(r)'
  BY <1>1, <1>2, <1>3 DEF Done, Answer, InFlight
<1>6. \A p \in Requests : p # r => (InFlight(p)' <=> InFlight(p)) /\ req'[p] = req[p]
  BY <1>3 DEF InFlight
<1>7. ASSUME NEW p \in Requests, InFlight(p)' PROVE Fits(req[p])'
  <2>1. p # r /\ InFlight(p)
    BY <1>5, <1>6, <1>7
  <2>2. PICK o : o = req[p]
    OBVIOUS
  <2>3. Fits(o) /\ Apart(o, q)
    BY <1>1, <1>2, <2>1, <2>2 DEF RecordsInv
  <2>4. o.id \in Requests /\ req[o.id] = Done => req'[o.id] = Done /\ o.id # r
    BY <1>3, <1>5
  <2>5. ASSUME o.op \in {"put", "remove"}, o.id # None, NEW x \in rows', x.id = o.id PROVE x.key = o.key
    <3>1. o.id # r /\ \A y \in rows : y.id = o.id => y.key = o.key
      BY <2>3, <2>4, <2>5 DEF Fits
    <3>2. PICK y \in {q} \cup rows : x.id = y.id /\ x.key = y.key /\
                (y \notin rows => q.op = "put" /\ q.id # None)
      BY <1>1, <2>5, <3>1, CommitRows
    <3>3. CASE y \in rows
      BY <2>5, <3>1, <3>2, <3>3
    <3>4. CASE y = q /\ q.op = "put"
      BY <2>3, <2>5, <3>2, <3>4 DEF Apart
    <3> QED BY <3>2, <3>3, <3>4
  <2>6. ASSUME o.pc = "commit", Changes(o), o.key \in Unique
        PROVE  \A x : x.key = o.key => (x \in rows' <=> x \in rows)
    <3>1. ~ Changes(q) \/ o.key # q.key
      BY <1>2, <2>3, <2>6 DEF Apart
    <3> QED BY <1>1, <3>1, CommitRows
  <2>7. Fits(o)'
    BY <2>3, <2>4, <2>5, <2>6 DEF Fits
  <2>8. req'[p] = o
    BY <1>6, <2>1, <2>2
  <2> QED BY <2>7, <2>8 DEF Fits
<1>8. \A p, s \in Requests : p # s /\ InFlight(p)' /\ InFlight(s)' => Apart(req[p], req[s])'
  <2> SUFFICES ASSUME NEW p \in Requests, NEW s \in Requests, p # s, InFlight(p)', InFlight(s)'
               PROVE  Apart(req'[p], req'[s])
    BY DEF Apart, Changes
  <2> QED BY <1>5, <1>6 DEF RecordsInv
<1>9. ASSUME ~ overlapped PROVE OneRequest'
  <2>1. OneRequest
    BY <1>9 DEF RecordsInv
  <2>2. \A p \in Requests : ~ InFlight(p)'
    BY <1>2, <1>5, <1>6, <2>1 DEF OneRequest
  <2> QED BY <1>9, <2>2, CommitRows, CommitInvoices DEF OneRequest
<1> QED BY <1>2, <1>4, <1>7, <1>8, <1>9, CommitRows, CommitInvoices DEF RecordsInv

\* So every step keeps it.
LEMMA RecordsNext == RecordsInv /\ [Next]_vars => RecordsInv'
<1> SUFFICES ASSUME RecordsInv, [Next]_vars PROVE RecordsInv'
  OBVIOUS
<1>1. CASE Next
  BY <1>1, LoadPutStep, LoadCreateStep, LoadRemoveStep, LoadInvoiceStep, LoadPayStep, WriteStep,
     CommitStep, AbortStep DEF Next, Conflict
<1>2. CASE UNCHANGED vars
  BY <1>2 DEF vars, RecordsInv, TypeOK, Named, PaidIsPaidFor, InFlight, Fits, Apart, Changes,
     OneRequest, FitsAlone, NumbersCount
<1> QED BY <1>1, <1>2

\* And it holds in every state.
LEMMA RecordsInvariant == Spec => []RecordsInv
BY RecordsInitInv, RecordsNext, PTL DEF Spec

\* One row of a key at most.
LEMMA RowsOfOne ==
    ASSUME NEW k, \A x, y \in rows : x.key = k /\ y.key = k => x = y
    PROVE  Cardinality(RowsOf(k)) <= 1
<1>1. CASE RowsOf(k) = {}
  BY <1>1, FS_EmptySet
<1>2. CASE RowsOf(k) # {}
  <2>1. PICK x \in RowsOf(k) : TRUE
    BY <1>2
  <2>2. RowsOf(k) = {x}
    BY <2>1 DEF RowsOf
  <2> QED BY <2>2, FS_Singleton
<1> QED BY <1>1, <1>2

\* org_service.py, admin_service.py, billing_service.py: the variables keep their
\* types, an invoice is paid exactly when a payment was taken in every
\* interleaving, and one at a time the requests leave one row of each key and
\* invoices that are numbered without a gap.
THEOREM RecordsAlwaysInOrder == Spec => [](TypeOK /\ RecordsInOrder)
<1>1. RecordsInv => TypeOK /\ RecordsInOrder
  <2> SUFFICES ASSUME RecordsInv PROVE TypeOK /\ RecordsInOrder
    OBVIOUS
  <2>1. ~ overlapped => NumbersCount /\ \A k \in Keys : Cardinality(RowsOf(k)) <= 1
    BY RowsOfOne DEF RecordsInv, OneRequest
  <2> QED BY <2>1 DEF RecordsInv, RecordsInOrder, SerialRecords
<1> QED BY <1>1, RecordsInvariant, PTL

-------------------------------------------------------------------------------
(* The keys under a unique constraint are a store.                         *)

\* Shown for any set of rows.
ValueOf(T) ==
    IF Cardinality(T) > 1 THEN None ELSE IF T = {} THEN Missing ELSE (CHOOSE x \in T : TRUE).val
ValueIn(S, k) == ValueOf({x \in S : x.key = k})

\* A key without a row is missing.
LEMMA NothingIn == ASSUME NEW S, NEW k, \A x \in S : x.key # k PROVE ValueIn(S, k) = Missing
<1>1. {x \in S : x.key = k} = {}
  OBVIOUS
<1>2. ~ Cardinality({}) > 1
  BY FS_EmptySet
<1> QED BY <1>1, <1>2 DEF ValueIn, ValueOf

\* A key with one row has its value.
LEMMA OneIn ==
    ASSUME NEW S, NEW k, NEW x \in S, x.key = k, \A y \in S : y.key = k => y = x
    PROVE  ValueIn(S, k) = x.val
<1>1. {y \in S : y.key = k} = {x}
  OBVIOUS
<1>2. ~ Cardinality({x}) > 1
  <2>1. Cardinality({x}) = 1
    BY FS_Singleton
  <2> QED BY <2>1
<1>3. (CHOOSE y \in {x} : TRUE) = x
  OBVIOUS
<1> QED BY <1>1, <1>2, <1>3 DEF ValueIn, ValueOf

\* Rows of the same key are shown the same.
LEMMA SameIn ==
    ASSUME NEW S, NEW R, NEW k, \A x : x.key = k => (x \in S <=> x \in R)
    PROVE  ValueIn(S, k) = ValueIn(R, k)
<1>1. {x \in S : x.key = k} = {x \in R : x.key = k}
  OBVIOUS
<1> QED BY <1>1 DEF ValueIn

\* What a key shows is a value, or that it is missing.
LEMMA ValueTyped ==
    ASSUME RecordsInv, NEW k \in Unique
    PROVE  /\ ValueIn(rows, k) \in Values \cup {Missing}
           /\ ValueIn(rows, k) = Missing <=> \A x \in rows : x.key # k
<1>1. CASE \A x \in rows : x.key # k
  BY <1>1, NothingIn
<1>2. ASSUME NEW x \in rows, x.key = k
      PROVE  ValueIn(rows, k) \in Values /\ ValueIn(rows, k) # Missing
  <2>1. \A y \in rows : y.key = k => y = x
    BY <1>2 DEF RecordsInv
  <2>2. ValueIn(rows, k) = x.val
    BY <1>2, <2>1, OneIn
  <2>3. x.val \in Values
    BY DEF RecordsInv, TypeOK, Row
  <2> QED BY <2>2, <2>3, MissingAssumption DEF Values
<1> QED BY <1>1, <1>2

\* The answers.
LEMMA ToldChanges ==
    ASSUME RecordsInv, NEW r \in Requests, NEW a,
           Told(r) = "none", Told(r)' = a, \A p \in Requests : p # r => req'[p] = req[p]
    PROVE  [p \in Requests |-> Told(p)]' = [[p \in Requests |-> Told(p)] EXCEPT ![r] = a]
<1>1. \A p \in Requests : Told(p)' = IF p = r THEN a ELSE Told(p)
  BY DEF Told
<1> QED BY <1>1

\* A request that is told something and changes no key.
LEMMA LeaveStep ==
    ASSUME RecordsInv, NEW r \in Requests, NEW a \in {"done", "refused"},
           Told(r) = "none", Told(r)' = a, \A p \in Requests : p # r => req'[p] = req[p],
           \A k \in Unique : Shown(k)' = Shown(k)
    PROVE  Store!StoreNext
<1>1. [p \in Requests |-> Told(p)]' = [[p \in Requests |-> Told(p)] EXCEPT ![r] = a]
  BY ToldChanges
<1>2. [p \in Requests |-> Told(p)][r] = "none"
  OBVIOUS
<1>3. UNCHANGED [k \in Unique |-> Shown(k)]
  OBVIOUS
<1>4. Store!Leave(r)
  BY <1>1, <1>2, <1>3 DEF Store!Leave, Store!Tell
<1> QED BY <1>4 DEF Store!StoreNext

\* A step that tells nobody anything and changes no row.
LEMMA QuietStep ==
    ASSUME RecordsInv, UNCHANGED rows, \A p \in Requests : Told(p)' = Told(p)
    PROVE  UNCHANGED Store!storeVars
<1>1. [p \in Requests |-> Told(p)]' = [p \in Requests |-> Told(p)]
  OBVIOUS
<1>2. \A k \in Unique : Shown(k)' = Shown(k)
  BY DEF Shown, RowsOf
<1>3. [k \in Unique |-> Shown(k)]' = [k \in Unique |-> Shown(k)]
  BY <1>2
<1> QED BY <1>1, <1>3 DEF Store!storeVars

\* A load is a step of no request in the store, or an answer.
LEMMA StoreLoad ==
    ASSUME RecordsInv, NEW r \in Requests, NEW q, Load(r, q),
           q.pc = "write" \/ q = Answer("refused")
    PROVE  [Store!StoreNext]_(Store!storeVars)
<1>1. req[r] = Idle /\ req' = [req EXCEPT ![r] = q] /\ UNCHANGED rows
  BY DEF Load
<1>2. \A p \in Requests : req'[p] = IF p = r THEN q ELSE req[p]
  BY <1>1 DEF RecordsInv, TypeOK
<1>3. Told(r) = "none"
  BY <1>1 DEF Told, Idle
<1>4. CASE q.pc = "write"
  <2>1. \A p \in Requests : Told(p)' = Told(p)
    BY <1>2, <1>3, <1>4 DEF Told
  <2> QED BY <1>1, <2>1, QuietStep
<1>5. CASE q = Answer("refused")
  <2>1. Told(r)' = "refused"
    BY <1>2, <1>5 DEF Told, Answer
  <2>2. \A k \in Unique : Shown(k)' = Shown(k)
    BY <1>1 DEF Shown, RowsOf
  <2> QED BY <1>2, <1>3, <2>1, <2>2, LeaveStep
<1> QED BY <1>4, <1>5

\* An abort is a refusal.
LEMMA StoreAbort ==
    ASSUME RecordsInv, NEW r \in Requests, Abort(r) PROVE Store!StoreNext
<1>1. req[r].pc \in {"write", "commit"} /\ req' = [req EXCEPT ![r] = Answer("refused")] /\ UNCHANGED rows
  BY DEF Abort, InFlight
<1>2. \A p \in Requests : req'[p] = IF p = r THEN Answer("refused") ELSE req[p]
  BY <1>1 DEF RecordsInv, TypeOK
<1>3. Told(r) = "none" /\ Told(r)' = "refused"
  BY <1>1, <1>2 DEF Told, Answer
<1>4. \A k \in Unique : Shown(k)' = Shown(k)
  BY <1>1 DEF Shown, RowsOf
<1> QED BY <1>2, <1>3, <1>4, LeaveStep

\* A commit changes the key of its request at once, or no key.
LEMMA StoreCommit ==
    ASSUME RecordsInv, RecordsInv', NEW r \in Requests, Commit(r) PROVE Store!StoreNext
<1>1. PICK q : q = req[r]
  OBVIOUS
<1>2. q.pc = "commit" /\ rows' = RowsAfter(q, r) /\ req' = [req EXCEPT ![r] = Answer("done")] /\ InFlight(r)
  BY <1>1 DEF Commit, InFlight
<1>3. q \in Request
  BY <1>1, <1>2 DEF RecordsInv, TypeOK, Idle, Answer
<1>4. Fits(q)
  BY <1>1, <1>2 DEF RecordsInv
<1>5. \A p \in Requests : req'[p] = IF p = r THEN Answer("done") ELSE req[p]
  BY <1>2 DEF RecordsInv, TypeOK
<1>6. Told(r) = "none" /\ Told(r)' = "done"
  BY <1>1, <1>2, <1>5 DEF Told, Answer
<1>7. \A k : Shown(k) = ValueIn(rows, k) /\ Shown(k)' = ValueIn(rows', k)
  BY DEF Shown, RowsOf, ValueIn, ValueOf
<1>8. \A k \in Unique : k # q.key \/ ~ Changes(q) => Shown(k)' = Shown(k)
  <2> SUFFICES ASSUME NEW k \in Unique, k # q.key \/ ~ Changes(q) PROVE ValueIn(rows', k) = ValueIn(rows, k)
    BY <1>7
  <2>1. \A x : x.key = k => (x \in rows' <=> x \in rows)
    BY <1>1, CommitRows
  <2> QED BY <2>1, SameIn
<1>9. CASE ~ Changes(q) \/ q.key \notin Unique
  <2>1. \A k \in Unique : Shown(k)' = Shown(k)
    BY <1>8, <1>9
  <2> QED BY <1>5, <1>6, <2>1, LeaveStep
<1>10. ASSUME Changes(q), q.key \in Unique, NEW v, ValueIn(rows', q.key) = v
       PROVE  [k \in Unique |-> Shown(k)]' = [[k \in Unique |-> Shown(k)] EXCEPT ![q.key] = v]
  <2>1. \A k \in Unique : Shown(k)' = IF k = q.key THEN v ELSE Shown(k)
    BY <1>7, <1>8, <1>10
  <2> QED BY <2>1
<1>11. [p \in Requests |-> Told(p)]' = [[p \in Requests |-> Told(p)] EXCEPT ![r] = "done"]
       /\ [p \in Requests |-> Told(p)][r] = "none"
  BY <1>5, <1>6, ToldChanges
<1>12. \A k \in Unique : [j \in Unique |-> Shown(j)][k] = ValueIn(rows, k)
  BY <1>7
<1>13. ASSUME Changes(q), q.key \in Unique, q.op \in {"put", "create"}, NEW w \in rows', w.key = q.key, w.val = q.val
       PROVE  Store!StoreNext
  <2>1. \A x \in rows' : x.key = q.key => x = w
    BY <1>13 DEF RecordsInv
  <2>2. ValueIn(rows', q.key) = q.val
    BY <1>13, <2>1, OneIn
  <2>3. [k \in Unique |-> Shown(k)]' = [[k \in Unique |-> Shown(k)] EXCEPT ![q.key] = q.val]
    BY <1>10, <1>13, <2>2
  <2>4. q.val \in Values
    BY <1>3 DEF Request
  <2>5. CASE q.op = "put"
    <3>1. q.key \in Upserted \cap Unique \/ [k \in Unique |-> Shown(k)][q.key] # Missing
      <4>1. q.id = None => q.key \in Upserted
        BY <1>4, <2>5 DEF Fits
      <4>2. q.id # None => \E x \in rows : x.key = q.key
        BY <1>2, <1>4, <1>13, <2>5 DEF Fits
      <4>3. q.id # None => ValueIn(rows, q.key) # Missing
        BY <1>13, <4>2, ValueTyped
      <4> QED BY <1>12, <1>13, <4>1, <4>3
    <3>2. Store!Put(r, q.key, q.val)
      BY <1>11, <2>3, <3>1 DEF Store!Put, Store!Tell
    <3> QED BY <1>13, <2>4, <3>2 DEF Store!StoreNext
  <2>6. CASE q.op = "create"
    <3>1. \A x \in rows : x.key # q.key
      BY <1>2, <1>4, <1>13, <2>6 DEF Fits
    <3>2. ValueIn(rows, q.key) = Missing
      BY <3>1, NothingIn
    <3>3. [k \in Unique |-> Shown(k)][q.key] = Missing
      BY <1>12, <1>13, <3>2
    <3>4. Store!Create(r, q.key, q.val)
      BY <1>11, <2>3, <3>3 DEF Store!Create, Store!Tell
    <3> QED BY <1>13, <2>4, <3>4 DEF Store!StoreNext
  <2> QED BY <1>13, <2>5, <2>6
<1>14. ASSUME Changes(q), q.key \in Unique, q.op = "remove",
              rows' = {x \in rows : ~ (x.key = q.key /\ x.id = q.id)}
       PROVE  Store!StoreNext
  <2>1. CASE \E x \in rows : x.key = q.key /\ x.id = q.id
    <3>1. \A x \in rows' : x.key # q.key
      BY <1>14, <2>1 DEF RecordsInv
    <3>2. ValueIn(rows', q.key) = Missing
      BY <3>1, NothingIn
    <3>3. [k \in Unique |-> Shown(k)]' = [[k \in Unique |-> Shown(k)] EXCEPT ![q.key] = Missing]
      BY <1>10, <1>14, <3>2
    <3>4. Store!Remove(r, q.key)
      BY <1>11, <3>3 DEF Store!Remove, Store!Tell
    <3> QED BY <1>14, <3>4 DEF Store!StoreNext
  <2>2. CASE ~ \E x \in rows : x.key = q.key /\ x.id = q.id
    <3>1. rows' = rows
      BY <1>14, <2>2
    <3>2. \A k \in Unique : Shown(k)' = Shown(k)
      BY <1>7, <3>1
    <3> QED BY <1>5, <1>6, <3>2, LeaveStep
  <2> QED BY <2>1, <2>2
<1>15. CASE Changes(q) /\ q.key \in Unique
  <2>1. \/ /\ q.op \in {"put", "create"}
           /\ \E w \in rows' : w.key = q.key /\ w.val = q.val
        \/ q.op = "remove" /\ rows' = {x \in rows : ~ (x.key = q.key /\ x.id = q.id)}
    BY <1>2, <1>3, <1>15, RowsChange
  <2> QED BY <1>13, <1>14, <1>15, <2>1
<1> QED BY <1>9, <1>15

\* Every step of the requests is one of the store, or none.
LEMMA StoreStep ==
    ASSUME RecordsInv, RecordsInv', [Next]_vars PROVE [Store!StoreNext]_(Store!storeVars)
<1>1. CASE Next
  <2>1. PICK r \in Requests :
          \/ LoadPut(r) \/ LoadCreate(r) \/ LoadRemove(r) \/ LoadInvoice(r) \/ LoadPay(r)
          \/ Write(r) \/ Conflict(r) \/ Commit(r) \/ Abort(r)
    BY <1>1 DEF Next
  <2>2. CASE LoadPut(r) \/ LoadCreate(r) \/ LoadRemove(r) \/ LoadInvoice(r) \/ LoadPay(r)
    <3>1. PICK q : Load(r, q) /\ (q.pc = "write" \/ q = Answer("refused"))
      <4>1. \A op, k, v, id, seen, n : Plan(op, k, v, id, seen, n).pc = "write"
        BY DEF Plan
      <4>2. \A op, k, v : \A q \in Found(op, k, v) : q.pc = "write"
        BY <4>1 DEF Found
      <4>3. CASE LoadPut(r)
        <5>1. PICK k \in Keys, v \in Values :
                IF Found("put", k, v) = {} \/ (k \notin Upserted /\ RowsOf(k) = {})
                  THEN Load(r, Answer("refused"))
                  ELSE \E q \in Found("put", k, v) : Load(r, q)
          BY <4>3 DEF LoadPut
        <5> QED BY <4>2, <5>1
      <4>4. CASE LoadCreate(r)
        BY <4>1, <4>4 DEF LoadCreate
      <4>5. CASE LoadRemove(r)
        BY <4>2, <4>5 DEF LoadRemove
      <4>6. CASE LoadInvoice(r)
        BY <4>1, <4>6 DEF LoadInvoice
      <4>7. CASE LoadPay(r)
        BY <4>1, <4>7 DEF LoadPay
      <4> QED BY <2>2, <4>3, <4>4, <4>5, <4>6, <4>7
    <3> QED BY <3>1, StoreLoad
  <2>3. CASE Write(r)
    <3>1. PICK q : q = [req[r] EXCEPT !.pc = "commit"]
      OBVIOUS
    <3>2. req[r].pc = "write" /\ req' = [req EXCEPT ![r] = q] /\ UNCHANGED rows
      BY <2>3, <3>1 DEF Write
    <3>3. req[r] \in Request
      BY <3>2 DEF RecordsInv, TypeOK, Idle, Answer
    <3>4. q.pc = "commit"
      BY <3>1, <3>3 DEF Request
    <3>5. \A p \in Requests : req'[p] = IF p = r THEN q ELSE req[p]
      BY <3>2 DEF RecordsInv, TypeOK
    <3>6. \A p \in Requests : Told(p)' = Told(p)
      BY <3>2, <3>4, <3>5 DEF Told
    <3> QED BY <3>2, <3>6, QuietStep
  <2>4. CASE Conflict(r) \/ Abort(r)
    BY <2>4, StoreAbort DEF Conflict
  <2>5. CASE Commit(r)
    BY <2>5, StoreCommit
  <2> QED BY <2>1, <2>2, <2>3, <2>4, <2>5
<1>2. CASE UNCHANGED vars
  <2>1. UNCHANGED rows /\ \A p \in Requests : Told(p)' = Told(p)
    BY <1>2 DEF vars, Told
  <2> QED BY <2>1, QuietStep
<1> QED BY <1>1, <1>2

\* org_service.py, admin_service.py: every key under a unique constraint behaves
\* as one value that each request changes at the moment it is told "done", or
\* never: the requests implement TenantStore.
THEOREM UniqueKeysStore == Spec => UniqueKeysAreAStore
<1>1. Init => Store!StoreInit
  <2> SUFFICES ASSUME Init PROVE Store!StoreInit
    OBVIOUS
  <2>1. RecordsInv
    BY RecordsInitInv
  <2>2. \A k \in Unique : Shown(k) = ValueIn(rows, k)
    BY DEF Shown, RowsOf, ValueIn, ValueOf
  <2>3. \A k \in Unique : Shown(k) \in Values \cup {Missing}
    BY <2>1, <2>2, ValueTyped
  <2>4. \A p \in Requests : Told(p) = "none"
    BY DEF Init, Told, Idle
  <2>5. [k \in Unique |-> Shown(k)] \in [Unique -> Values \cup {Missing}]
    BY <2>3
  <2>6. [p \in Requests |-> Told(p)] = [p \in Requests |-> "none"]
    BY <2>4
  <2> QED BY <2>5, <2>6 DEF Store!StoreInit
<1>2. RecordsInv /\ RecordsInv' /\ [Next]_vars => [Store!StoreNext]_(Store!storeVars)
  BY StoreStep
<1> QED BY <1>1, <1>2, RecordsInvariant, PTL DEF Spec, UniqueKeysAreAStore, Store!StoreSpec

-------------------------------------------------------------------------------
(* The login monitor.                                                     *)

\* The failures in the log from the start of the window of a on.
FailuresFrom(a) == {b \in Committed : ~ b.success /\ b.at >= a.at - FailureWindow}

\* A report names its attempt, and its alarms have their reasons in the log.
Filed(r) == Reporting(r) =>
    LET a == report[r].attempt IN
    /\ a.id = r
    /\ report[r].pc = "count" => ~ a.success
    /\ report[r].pc \in {"device", "travel"} => a.success /\ a.known
    /\ report[r].pc = "device" => a.said.device \in Devices
    /\ report[r].pc \in {"count", "device"} => a.alarms = {}
    /\ a.said.device \in Devices => a.success /\ a.known
    /\ "new_device" \in a.alarms => a.said.device \in Devices
    /\ "brute_force" \in a.alarms => ~ a.success /\ Failures(a) >= Threshold
    /\ "impossible_travel" \in a.alarms => \E b \in Recent(Committed, a) : FarApart(b.said, a.said)

\* A success of a known user, and the last one within the window was far away.
Suspect(a) ==
    /\ a.success /\ a.known /\ Recent(Committed, a) # {}
    /\ \A b \in LastSuccess(a) : FarApart(b.said, a.said)

\* As long as no other report is there, it has raised what is due.
Raised(r) == Reporting(r) =>
    LET a == report[r].attempt IN
    /\ a.said.device \in Devices /\ report[r].pc \in {"travel", "commit"} =>
         ("new_device" \in a.alarms <=> RowsOfDevice(a.said.device) = {})
    /\ report[r].pc = "commit" /\ ~ a.success /\ Failures(a) >= Threshold => "brute_force" \in a.alarms
    /\ report[r].pc = "commit" /\ Suspect(a) => "impossible_travel" \in a.alarms

\* The i-th attempt has the alarms that are due.
DetectedAt(i) ==
    /\ BruteForceDue(i) => "brute_force" \in attempts[i].alarms
    /\ TravelDue(i) => "impossible_travel" \in attempts[i].alarms
    /\ DeviceDue(i) <=> "new_device" \in attempts[i].alarms

\* The rows of devices tell the devices of the successes, once each.
DevicesTold ==
    /\ \A d \in Devices : RowsOfDevice(d) = {} <=> \A b \in Committed : b.success => b.said.device # d
    /\ \A x, y \in devices : x.device = y.device => x = y

\* What holds as long as reports come one at a time.
OneReport ==
    /\ \A q, r \in Reports : Reporting(q) /\ Reporting(r) => q = r
    /\ \A r \in Reports : Raised(r)
    /\ DevicesTold
    /\ \A i \in DOMAIN attempts : DetectedAt(i)

\* When there is a success of the user, there is a last one.
LatestKnown ==
    (\E b \in Committed : b.success /\ b.known) =>
      \E b \in Committed : /\ b.success /\ b.known
                           /\ \A c \in Committed : c.success /\ c.known => c.at <= b.at

\* The inductive invariant of the login monitor.
LoginInv ==
    /\ LoginTypeOK /\ attempts \in Seq(Attempt) /\ IsFiniteSet(Committed)
    /\ LatestKnown
    /\ \A b \in Committed : report[b.id] = Ended
    /\ \A r \in Reports : Filed(r)
    /\ AlarmsAreReal
    /\ ~ crossedReports => OneReport

\* It holds at the start.
LEMMA LoginInitInv == LoginInit => LoginInv
<1> SUFFICES ASSUME LoginInit PROVE LoginInv
  OBVIOUS
<1>1. /\ attempts = << >> /\ devices = {} /\ clock = 0 /\ crossedReports = FALSE
      /\ report = [r \in Reports |-> NotReported]
  BY DEF LoginInit
<1>2. attempts \in Seq(Attempt) /\ DOMAIN attempts = {}
  BY <1>1
<1>3. Committed = {}
  BY <1>2 DEF Committed
<1>4. IsFiniteSet(Committed)
  BY <1>3, FS_EmptySet
<1>5. LoginTypeOK
  <2>1. report \in [Reports -> Report \cup {NotReported, Ended}]
    BY <1>1
  <2>2. clock \in Time
    BY <1>1, LimitsAssumption DEF Time
  <2>3. \A i \in DOMAIN attempts : attempts[i] \in Attempt
    BY <1>2
  <2> QED BY <1>1, <2>1, <2>2, <2>3 DEF LoginTypeOK
<1>6. \A r \in Reports : ~ Reporting(r)
  BY <1>1 DEF Reporting, NotReported, Stages
<1>7. OneReport
  BY <1>1, <1>2, <1>3, <1>6 DEF OneReport, Raised, DevicesTold, RowsOfDevice
<1> QED BY <1>2, <1>3, <1>4, <1>5, <1>6, <1>7 DEF LoginInv, LatestKnown, Filed, AlarmsAreReal

\* Of a report that is under way.
LEMMA Typed ==
    ASSUME LoginInv, NEW r \in Reports, Reporting(r)
    PROVE  /\ report[r] \in Report /\ report[r].attempt \in Attempt
           /\ report[r].attempt.alarms \subseteq Alarms
           /\ report[r].attempt.at \in Nat /\ clock \in Nat
<1>1. report[r] \in Report \cup {NotReported, Ended} /\ clock \in Time
  BY DEF LoginInv, LoginTypeOK
<1>2. report[r] \in Report
  BY <1>1 DEF Reporting, NotReported, Ended, Stages
<1> QED BY <1>1, <1>2, LimitsAssumption DEF Report, Attempt, Time

\* A step of one report that leaves the log and the devices alone.
LEMMA ReportStep ==
    ASSUME LoginInv, NEW r \in Reports, NEW q \in Report \cup {Ended},
           report' = [report EXCEPT ![r] = q], report[r] # Ended,
           UNCHANGED <<attempts, devices, clock>>,
           crossedReports' \in BOOLEAN, crossedReports => crossedReports',
           Filed(r)',
           ~ crossedReports' => /\ OneReport => Raised(r)'
                                /\ OneReport /\ Reporting(r)' => \A p \in Reports : Reporting(p) => p = r
    PROVE  LoginInv'
<1>1. \A p \in Reports : report'[p] = IF p = r THEN q ELSE report[p]
  BY DEF LoginInv, LoginTypeOK
<1>2. LoginTypeOK' /\ (attempts \in Seq(Attempt))'
  BY DEF LoginInv, LoginTypeOK
<1>3. Committed' = Committed
  BY DEF Committed
<1>4. \A b \in Committed : report'[b.id] = Ended
  <2> SUFFICES ASSUME NEW b \in Committed PROVE report'[b.id] = Ended
    OBVIOUS
  <2>1. b \in Attempt
    BY DEF Committed, LoginInv, LoginTypeOK
  <2>2. b.id \in Reports /\ report[b.id] = Ended
    BY <2>1 DEF LoginInv, Attempt
  <2> QED BY <1>1, <2>2
<1>5. \A p \in Reports : p # r => (Reporting(p)' <=> Reporting(p)) /\ report'[p] = report[p]
  BY <1>1 DEF Reporting
<1>6. \A p \in Reports : Filed(p)'
  <2> SUFFICES ASSUME NEW p \in Reports, p # r PROVE Filed(p)'
    OBVIOUS
  <2>1. Filed(p)
    BY DEF LoginInv
  <2> QED BY <1>3, <1>5, <2>1 DEF Filed, Failures, Recent
<1>7. LatestKnown' /\ AlarmsAreReal'
  BY <1>3 DEF LoginInv, LatestKnown, AlarmsAreReal, Recent
<1>8. ASSUME ~ crossedReports' PROVE OneReport'
  <2>1. OneReport
    BY <1>8 DEF LoginInv
  <2>2. \A p \in Reports : Raised(p)'
    <3> SUFFICES ASSUME NEW p \in Reports, p # r PROVE Raised(p)'
      BY <1>8, <2>1
    <3>1. Raised(p)
      BY <2>1 DEF OneReport
    <3> QED BY <1>3, <1>5, <3>1 DEF Raised, Failures, Suspect, LastSuccess, Recent, Latest, RowsOfDevice
  <2>3. DevicesTold'
    BY <1>3, <2>1 DEF OneReport, DevicesTold, RowsOfDevice
  <2>4. \A i \in DOMAIN attempts' : DetectedAt(i)'
    BY <2>1 DEF OneReport, DetectedAt, BruteForceDue, TravelDue, DeviceDue, Before
  <2>5. \A p, s \in Reports : Reporting(p)' /\ Reporting(s)' => p = s
    BY <1>5, <1>8, <2>1 DEF OneReport
  <2> QED BY <2>2, <2>3, <2>4, <2>5 DEF OneReport
<1> QED BY <1>2, <1>3, <1>4, <1>6, <1>7, <1>8 DEF LoginInv

\* An attempt is reported.
LEMMA ArriveStep == ASSUME LoginInv, NEW r \in Reports, Arrive(r) PROVE LoginInv'
<1>1. /\ report[r] = NotReported /\ crossedReports' = (crossedReports \/ \E p \in Reports : Reporting(p))
      /\ UNCHANGED <<attempts, devices, clock>>
  BY DEF Arrive
<1>2. clock \in Time /\ crossedReports \in BOOLEAN /\ report \in [Reports -> Report \cup {NotReported, Ended}]
  BY DEF LoginInv, LoginTypeOK
<1>3. PICK pc, success, known, said :
        /\ Insert(r, pc, success, known, said) /\ said \in Said \cup {Nothing}
        /\ \/ pc = "count" /\ success = FALSE /\ known = TRUE /\ said = Nothing
           \/ pc = "commit" /\ success = TRUE /\ known = FALSE /\ said = Nothing
           \/ /\ pc = IF said.device = Unsaid THEN "travel" ELSE "device"
              /\ success = TRUE /\ known = TRUE
  BY DEF Arrive
<1>4. PICK a : a = [id |-> r, at |-> clock, success |-> success, known |-> known, said |-> said, alarms |-> {}]
  OBVIOUS
<1>5. PICK q : q = [pc |-> pc, attempt |-> a]
  OBVIOUS
<1>6. /\ q.attempt = a /\ a.id = r /\ a.alarms = {} /\ a.success = success /\ a.known = known
      /\ a.said = said /\ q.pc = pc
  BY <1>4, <1>5
<1>7. a \in Attempt
  BY <1>2, <1>3, <1>4 DEF Attempt
<1>8. q \in Report /\ report' = [report EXCEPT ![r] = q]
  <2>1. pc \in Stages
    BY <1>3 DEF Stages
  <2> QED BY <1>3, <1>4, <1>5, <1>7, <2>1 DEF Report, Insert
<1>9. report'[r] = q
  BY <1>2, <1>8
<1>10. said.device \in Devices \cup {Unsaid} /\ Unsaid \notin Devices /\ Nothing.device = Unsaid
  BY <1>3, SaidAssumption DEF Nothing
<1>11. Filed(r)'
  BY <1>3, <1>6, <1>9, <1>10 DEF Filed
<1>12. Raised(r)'
  BY <1>3, <1>6, <1>9, <1>10 DEF Raised, Suspect
<1>13. ~ crossedReports' => \A p \in Reports : ~ Reporting(p)
  BY <1>1
<1>14. crossedReports' \in BOOLEAN /\ (crossedReports => crossedReports')
  BY <1>1, <1>2
<1>15. report[r] # Ended
  BY <1>1 DEF NotReported, Ended
<1> QED BY <1>1, <1>8, <1>11, <1>12, <1>13, <1>14, <1>15, ReportStep

\* A report raises alarms and goes on.
LEMMA EmitStep ==
    ASSUME LoginInv, NEW r \in Reports, NEW a \in Attempt, Reporting(r), a = report[r].attempt,
           NEW alarms \in SUBSET Alarms, NEW pc \in {"travel", "commit"}, Emit(r, alarms, pc),
           pc = "travel" => a.success /\ a.known,
           "new_device" \in alarms => a.said.device \in Devices,
           "brute_force" \in alarms => ~ a.success /\ Failures(a) >= Threshold,
           "impossible_travel" \in alarms => \E b \in Recent(Committed, a) : FarApart(b.said, a.said),
           OneReport =>
             /\ a.said.device \in Devices =>
                  ("new_device" \in a.alarms \cup alarms <=> RowsOfDevice(a.said.device) = {})
             /\ pc = "commit" /\ ~ a.success /\ Failures(a) >= Threshold => "brute_force" \in alarms
             /\ pc = "commit" /\ Suspect(a) => "impossible_travel" \in alarms
    PROVE  LoginInv'
<1>1. PICK b : b = [a EXCEPT !.alarms = @ \cup alarms]
  OBVIOUS
<1>2. PICK q : q = [report[r] EXCEPT !.attempt.alarms = @ \cup alarms, !.pc = pc]
  OBVIOUS
<1>3. report[r] \in Report /\ a.alarms \subseteq Alarms
  BY Typed
<1>4. b \in Attempt
  BY <1>1, <1>3 DEF Attempt
<1>5. q.pc = pc /\ q.attempt = b
  BY <1>1, <1>2, <1>3 DEF Report
<1>6. q \in Report
  <2>1. q \in [pc : Stages, attempt : Attempt]
    BY <1>1, <1>2, <1>3, <1>4 DEF Report, Stages
  <2> QED BY <2>1 DEF Report
<1>7. report' = [report EXCEPT ![r] = q] /\ UNCHANGED <<attempts, devices, clock, crossedReports>>
  BY <1>2 DEF Emit
<1>8. /\ b.id = a.id /\ b.success = a.success /\ b.known = a.known /\ b.said = a.said /\ b.at = a.at
      /\ b.alarms = a.alarms \cup alarms
  BY <1>1 DEF Attempt
<1>9. q.pc = pc /\ q.attempt = b
  BY <1>5
<1>10. report'[r] = q
  BY <1>7 DEF LoginInv, LoginTypeOK
<1>11. Committed' = Committed
  BY <1>7 DEF Committed
<1>12. Failures(b)' = Failures(a)
  BY <1>8, <1>11 DEF Failures
<1>13. Filed(r)
  BY DEF LoginInv
<1>14. Filed(r)'
  <2>1. b.id = r
    BY <1>8, <1>13 DEF Filed
  <2>2. /\ pc = "travel" => b.success /\ b.known
        /\ b.said.device \in Devices => b.success /\ b.known
        /\ "new_device" \in b.alarms => b.said.device \in Devices
    BY <1>8, <1>13 DEF Filed
  <2>3. "brute_force" \in b.alarms => ~ b.success /\ Failures(a) >= Threshold
    BY <1>8, <1>13 DEF Filed
  <2>4. "impossible_travel" \in b.alarms =>
          \E c \in Recent(Committed, b)' : FarApart(c.said, b.said)
    BY <1>8, <1>11, <1>13 DEF Filed, Recent
  <2>5. Failures(report[r].attempt)' = Failures(a)
    BY <1>9, <1>10, <1>12
  <2> QED BY <1>9, <1>10, <2>1, <2>2, <2>3, <2>4, <2>5 DEF Filed
<1>15. OneReport => Raised(r)'
  <2>1. RowsOfDevice(b.said.device)' = RowsOfDevice(a.said.device)
    BY <1>7, <1>8 DEF RowsOfDevice
  <2>2. Suspect(b)' <=> Suspect(a)
    BY <1>8, <1>11 DEF Suspect, LastSuccess, Recent, Latest
  <2> QED BY <1>8, <1>9, <1>10, <1>12, <2>1, <2>2 DEF Raised
<1>16. OneReport => \A p \in Reports : Reporting(p) => p = r
  BY DEF OneReport
<1>17. crossedReports' \in BOOLEAN /\ (crossedReports => crossedReports')
  BY <1>7 DEF LoginInv, LoginTypeOK
<1>18. report[r] # Ended
  BY DEF Reporting, Ended, Stages
<1> QED BY <1>6, <1>7, <1>14, <1>15, <1>16, <1>17, <1>18, ReportStep

\* Failures are counted.
LEMMA CountStep == ASSUME LoginInv, NEW r \in Reports, CountFailures(r) PROVE LoginInv'
<1>1. report[r].pc = "count" /\ Reporting(r)
  BY DEF CountFailures, Reporting, Stages
<1>2. PICK a \in Attempt : a = report[r].attempt
  BY <1>1, Typed
<1>3. ~ a.success /\ a.alarms = {} /\ a.said.device \notin Devices /\ ~ Suspect(a)
  BY <1>1, <1>2 DEF LoginInv, Filed, Suspect
<1>4. PICK alarms : alarms = {IF Failures(a) >= Threshold THEN "brute_force" ELSE "failed_login"}
  OBVIOUS
<1>5. Emit(r, alarms, "commit") /\ alarms \in SUBSET Alarms
  BY <1>2, <1>4 DEF CountFailures, Alarms
<1>6. ("brute_force" \in alarms <=> Failures(a) >= Threshold) /\ "impossible_travel" \notin alarms
      /\ "new_device" \notin alarms
  BY <1>4
<1> QED BY <1>1, <1>2, <1>3, <1>5, <1>6, EmitStep

\* The device is known, or new.
LEMMA CheckDeviceStep == ASSUME LoginInv, NEW r \in Reports, CheckDevice(r) PROVE LoginInv'
<1>1. report[r].pc = "device" /\ Reporting(r)
  BY DEF CheckDevice, Reporting, Stages
<1>2. PICK a \in Attempt : a = report[r].attempt
  BY <1>1, Typed
<1>3. a.success /\ a.known /\ a.alarms = {} /\ a.said.device \in Devices
  BY <1>1, <1>2 DEF LoginInv, Filed
<1>4. CASE RowsOfDevice(a.said.device) = {} /\ Emit(r, {"new_device"}, "travel")
  <2>1. {"new_device"} \in SUBSET Alarms
    BY DEF Alarms
  <2> QED BY <1>1, <1>2, <1>3, <1>4, <2>1, EmitStep
<1>5. CASE Cardinality(RowsOfDevice(a.said.device)) = 1 /\ Emit(r, {}, "travel")
  <2>1. RowsOfDevice(a.said.device) # {}
    BY <1>5, FS_EmptySet
  <2> QED BY <1>1, <1>2, <1>3, <1>5, <2>1, EmitStep
<1> QED BY <1>2, <1>4, <1>5 DEF CheckDevice

\* The last success is compared: when there is a success within the window,
\* the last one is.
LEMMA CheckTravelStep == ASSUME LoginInv, NEW r \in Reports, CheckTravel(r) PROVE LoginInv'
<1>1. report[r].pc = "travel" /\ Reporting(r)
  BY DEF CheckTravel, Reporting, Stages
<1>2. PICK a \in Attempt : a = report[r].attempt
  BY <1>1, Typed
<1>3. a.success /\ a.known
  BY <1>1, <1>2 DEF LoginInv, Filed
<1>4. OneReport /\ a.said.device \in Devices => ("new_device" \in a.alarms <=> RowsOfDevice(a.said.device) = {})
  BY <1>1, <1>2 DEF OneReport, Raised
<1>5. LastSuccess(a) \subseteq Recent(Committed, a)
  BY DEF LastSuccess, Latest
<1>6. CASE LastSuccess(a) = {} /\ Emit(r, {}, "commit")
  <2>1. ~ Suspect(a)
    <3> SUFFICES ASSUME NEW c \in Recent(Committed, a) PROVE FALSE
      BY DEF Suspect
    <3>1. c \in Committed /\ c.success /\ c.known /\ c.at >= a.at - TravelWindow
      BY DEF Recent
    <3>2. PICK b \in Committed : /\ b.success /\ b.known
                                /\ \A d \in Committed : d.success /\ d.known => d.at <= b.at
      BY <3>1 DEF LoginInv, LatestKnown
    <3>3. \A d \in Committed : d.at \in Nat
      BY LimitsAssumption DEF Committed, LoginInv, LoginTypeOK, Attempt, Time
    <3>4. a.at \in Nat
      BY LimitsAssumption DEF Attempt, Time
    <3>5. b.at >= a.at - TravelWindow
      BY <3>1, <3>2, <3>3, <3>4, LimitsAssumption
    <3>6. b \in LastSuccess(a)
      BY <3>2, <3>5 DEF LastSuccess, Latest, Recent
    <3> QED BY <1>6, <3>6
  <2> QED BY <1>1, <1>2, <1>3, <1>4, <1>6, <2>1, EmitStep
<1>7. ASSUME NEW b \in LastSuccess(a),
             Emit(r, {x \in {"impossible_travel"} : FarApart(b.said, a.said)}, "commit")
      PROVE  LoginInv'
  <2>1. PICK alarms : alarms = {x \in {"impossible_travel"} : FarApart(b.said, a.said)}
    OBVIOUS
  <2>2. alarms \in SUBSET Alarms /\ "new_device" \notin alarms /\ "brute_force" \notin alarms
    BY <2>1 DEF Alarms
  <2>3. "impossible_travel" \in alarms <=> FarApart(b.said, a.said)
    BY <2>1
  <2>4. Suspect(a) => "impossible_travel" \in alarms
    BY <2>3 DEF Suspect
  <2>5. "impossible_travel" \in alarms => \E c \in Recent(Committed, a) : FarApart(c.said, a.said)
    BY <1>5, <2>3
  <2>6. Emit(r, alarms, "commit")
    BY <1>7, <2>1
  <2> QED BY <1>1, <1>2, <1>3, <1>4, <2>2, <2>4, <2>5, <2>6, EmitStep
<1> QED BY <1>2, <1>6, <1>7 DEF CheckTravel

\* A report ends without a commit.
LEMMA AbortReportStep == ASSUME LoginInv, NEW r \in Reports, AbortReport(r) PROVE LoginInv'
<1>1. /\ Reporting(r) /\ report' = [report EXCEPT ![r] = Ended]
      /\ UNCHANGED <<attempts, devices, clock, crossedReports>>
  BY DEF AbortReport
<1>2. report'[r] = Ended
  BY <1>1 DEF LoginInv, LoginTypeOK
<1>3. ~ Reporting(r)' /\ report[r] # Ended
  BY <1>1, <1>2 DEF Reporting, Ended, Stages
<1>4. Filed(r)' /\ Raised(r)'
  BY <1>3 DEF Filed, Raised
<1>5. crossedReports' \in BOOLEAN /\ (crossedReports => crossedReports')
  BY <1>1 DEF LoginInv, LoginTypeOK
<1> QED BY <1>1, <1>3, <1>4, <1>5, ReportStep

\* What an attempt that is appended does to the log.
LEMMA LogGrows ==
    ASSUME attempts \in Seq(Attempt), NEW a \in Attempt, attempts' = Append(attempts, a)
    PROVE  /\ attempts' \in Seq(Attempt) /\ Len(attempts') = Len(attempts) + 1
           /\ DOMAIN attempts = 1 .. Len(attempts) /\ DOMAIN attempts' = 1 .. Len(attempts) + 1
           /\ attempts'[Len(attempts) + 1] = a
           /\ \A i \in 1 .. Len(attempts) : attempts'[i] = attempts[i] /\ Before(i)' = Before(i)
           /\ \A i : i = Len(attempts) + 1 => Before(i)' = Committed
           /\ Committed' = Committed \cup {a}
<1>1. /\ attempts' \in Seq(Attempt) /\ Len(attempts') = Len(attempts) + 1
      /\ attempts'[Len(attempts) + 1] = a
      /\ \A i \in 1 .. Len(attempts) : attempts'[i] = attempts[i]
      /\ Len(attempts) \in Nat
  OBVIOUS
<1>2. DOMAIN attempts = 1 .. Len(attempts) /\ DOMAIN attempts' = 1 .. Len(attempts) + 1
  BY <1>1
<1>3. ASSUME NEW i \in 1 .. Len(attempts) PROVE Before(i)' = Before(i)
  <2>1. \A j \in 1 .. i - 1 : attempts'[j] = attempts[j]
    BY <1>1
  <2> QED BY <2>1 DEF Before
<1>4. ASSUME NEW i, i = Len(attempts) + 1 PROVE Before(i)' = Committed
  <2>1. 1 .. i - 1 = 1 .. Len(attempts)
    BY <1>1, <1>4
  <2> QED BY <1>1, <1>2, <2>1 DEF Before, Committed
<1>5. Committed' = Committed \cup {a}
  <2>1. 1 .. Len(attempts) + 1 = (1 .. Len(attempts)) \cup {Len(attempts) + 1}
    BY <1>1
  <2> QED BY <1>1, <1>2, <2>1 DEF Committed
<1> QED BY <1>1, <1>2, <1>3, <1>4, <1>5

\* A report commits.
LEMMA CommitReportStep == ASSUME LoginInv, NEW r \in Reports, CommitReport(r) PROVE LoginInv'
<1>1. report[r].pc = "commit" /\ Reporting(r)
  BY DEF CommitReport, Reporting, Stages
<1>2. PICK a \in Attempt : a = report[r].attempt
  BY <1>1, Typed
<1>3. /\ attempts' = Append(attempts, a) /\ devices' = DevicesAfter(a)
      /\ report' = [report EXCEPT ![r] = Ended] /\ UNCHANGED <<clock, crossedReports>>
  BY <1>2 DEF CommitReport
<1>4. /\ attempts \in Seq(Attempt) /\ IsFiniteSet(Committed) /\ devices \subseteq DeviceRow
      /\ report \in [Reports -> Report \cup {NotReported, Ended}]
  BY DEF LoginInv, LoginTypeOK
<1>5. /\ attempts' \in Seq(Attempt)
      /\ DOMAIN attempts = 1 .. Len(attempts) /\ DOMAIN attempts' = 1 .. Len(attempts) + 1
      /\ attempts'[Len(attempts) + 1] = a
      /\ \A i \in 1 .. Len(attempts) : attempts'[i] = attempts[i] /\ Before(i)' = Before(i)
      /\ \A i : i = Len(attempts) + 1 => Before(i)' = Committed
      /\ Committed' = Committed \cup {a} /\ Len(attempts) \in Nat
  BY <1>3, <1>4, LogGrows
<1>6. \A p \in Reports : report'[p] = IF p = r THEN Ended ELSE report[p]
  BY <1>3, <1>4
<1>7. /\ a.id = r /\ a.at \in Nat /\ a.success \in BOOLEAN
      /\ a.said.device # Unsaid <=> a.said.device \in Devices
      /\ a.said.device \in Devices => a.success /\ a.known
      /\ "new_device" \in a.alarms => a.said.device \in Devices
  <2>1. a.said \in Said \cup {Nothing}
    BY DEF Attempt
  <2>2. a.said.device # Unsaid <=> a.said.device \in Devices
    BY <2>1, SaidAssumption DEF Nothing
  <2> QED BY <1>1, <1>2, <2>2, LimitsAssumption DEF LoginInv, Filed, Attempt, Time
<1>8. a \notin Committed
  <2>1. report[a.id] # Ended
    BY <1>1, <1>7 DEF Ended
  <2> QED BY <2>1 DEF LoginInv
<1>9. \A b \in Committed : b \in Attempt /\ b.at \in Nat
  BY LimitsAssumption DEF Committed, LoginInv, LoginTypeOK, Attempt, Time
<1>10. devices' \subseteq DeviceRow
  BY <1>3, <1>4, <1>7 DEF DevicesAfter, DeviceRow
<1>11. LoginTypeOK'
  BY <1>3, <1>5, <1>10 DEF LoginInv, LoginTypeOK
<1>12. IsFiniteSet(Committed')
  BY <1>4, <1>5, FS_AddElement
<1>13. LatestKnown'
  <2>1. CASE \A c \in Committed : c.success /\ c.known => c.at <= a.at
    BY <1>5, <1>7, <2>1 DEF LatestKnown, LoginInv
  <2>2. CASE \E c \in Committed : c.success /\ c.known /\ ~ c.at <= a.at
    <3>1. PICK b \in Committed : /\ b.success /\ b.known
                                /\ \A d \in Committed : d.success /\ d.known => d.at <= b.at
      BY <2>2 DEF LoginInv, LatestKnown
    <3>2. PICK c \in Committed : c.success /\ c.known /\ ~ c.at <= a.at
      BY <2>2
    <3>3. a.at <= b.at
      BY <1>7, <1>9, <3>1, <3>2
    <3> QED BY <1>5, <3>1, <3>3 DEF LatestKnown
  <2> QED BY <2>1, <2>2
<1>14. \A b \in Committed' : report'[b.id] = Ended
  BY <1>5, <1>6, <1>7, <1>9 DEF LoginInv, Attempt
<1>15. ASSUME NEW b
       PROVE  /\ FailuresFrom(b) \subseteq FailuresFrom(b)' /\ IsFiniteSet(FailuresFrom(b)')
              /\ Cardinality(FailuresFrom(b)) <= Cardinality(FailuresFrom(b)')
              /\ Cardinality(FailuresFrom(b)) \in Nat /\ Cardinality(FailuresFrom(b)') \in Nat
  <2>1. FailuresFrom(b) \subseteq FailuresFrom(b)'
    BY <1>5 DEF FailuresFrom
  <2>2. FailuresFrom(b)' \subseteq Committed'
    BY DEF FailuresFrom
  <2>3. IsFiniteSet(FailuresFrom(b)')
    BY <1>12, <2>2, FS_Subset
  <2>4. IsFiniteSet(FailuresFrom(b)) /\ Cardinality(FailuresFrom(b)) <= Cardinality(FailuresFrom(b)')
    BY <2>1, <2>3, FS_Subset
  <2> QED BY <2>1, <2>3, <2>4, FS_CardinalityType
<1>16. \A p \in Reports : p # r => report'[p] = report[p] /\ (Reporting(p)' <=> Reporting(p))
  BY <1>6 DEF Reporting
<1>17. ~ Reporting(r)'
  BY <1>6 DEF Reporting, Ended, Stages
<1>18. \A p \in Reports : Filed(p)'
  <2> SUFFICES ASSUME NEW p \in Reports, p # r PROVE Filed(p)'
    BY <1>17 DEF Filed
  <2>1. Filed(p)
    BY DEF LoginInv
  <2>2. ASSUME NEW b, Failures(b) >= Threshold PROVE Failures(b)' >= Threshold
    <3>1. Failures(b) = Cardinality(FailuresFrom(b)) + 1
      BY DEF Failures, FailuresFrom
    <3>2. Failures(b)' = Cardinality(FailuresFrom(b)') + 1
      BY DEF Failures, FailuresFrom
    <3> QED BY <1>15, <2>2, <3>1, <3>2, LimitsAssumption
  <2>3. \A b : Recent(Committed, b) \subseteq Recent(Committed, b)'
    BY <1>5 DEF Recent
  <2> QED BY <1>5, <1>16, <2>1, <2>2, <2>3 DEF Filed
<1>19. ~ a.success => Cardinality(FailuresFrom(a)') = Failures(a)
  <2> SUFFICES ASSUME ~ a.success PROVE Cardinality(FailuresFrom(a)') = Failures(a)
    OBVIOUS
  <2>1. a.at >= a.at - FailureWindow
    BY <1>7, LimitsAssumption
  <2>2. FailuresFrom(a)' = FailuresFrom(a) \cup {a}
    BY <1>5, <2>1 DEF FailuresFrom
  <2>3. IsFiniteSet(FailuresFrom(a)) /\ a \notin FailuresFrom(a)
    BY <1>8, <1>15, FS_Subset DEF FailuresFrom
  <2> QED BY <2>2, <2>3, FS_AddElement DEF Failures, FailuresFrom
<1>20. AlarmsAreReal'
  <2> SUFFICES ASSUME NEW b \in Committed'
               PROVE  /\ "brute_force" \in b.alarms => Cardinality(FailuresFrom(b)') >= Threshold
                      /\ "impossible_travel" \in b.alarms =>
                           \E c \in Recent(Committed, b)' : FarApart(c.said, b.said)
    BY DEF AlarmsAreReal, FailuresFrom, Recent
  <2>0. Recent(Committed, b) \subseteq Recent(Committed, b)'
    BY <1>5 DEF Recent
  <2>1. CASE b \in Committed
    <3>1. "brute_force" \in b.alarms => Cardinality(FailuresFrom(b)) >= Threshold
      BY <2>1 DEF LoginInv, AlarmsAreReal, FailuresFrom
    <3>2. "brute_force" \in b.alarms => Cardinality(FailuresFrom(b)') >= Threshold
      BY <1>15, <3>1, LimitsAssumption
    <3>3. "impossible_travel" \in b.alarms => \E c \in Recent(Committed, b) : FarApart(c.said, b.said)
      BY <2>1 DEF LoginInv, AlarmsAreReal
    <3> QED BY <2>0, <3>2, <3>3
  <2>2. CASE b = a
    <3>1. "brute_force" \in a.alarms => ~ a.success /\ Failures(a) >= Threshold
      BY <1>1, <1>2 DEF LoginInv, Filed
    <3>2. "impossible_travel" \in a.alarms =>
            \E c \in Recent(Committed, a) : FarApart(c.said, a.said)
      BY <1>1, <1>2 DEF LoginInv, Filed
    <3> QED BY <1>19, <2>0, <2>2, <3>1, <3>2
  <2> QED BY <1>5, <2>1, <2>2
<1>21. ASSUME ~ crossedReports' PROVE OneReport'
  <2>1. OneReport
    BY <1>3, <1>21 DEF LoginInv
  <2>2. \A p \in Reports : ~ Reporting(p)'
    BY <1>1, <1>16, <1>17, <2>1 DEF OneReport
  <2>3. Raised(r)
    BY <2>1 DEF OneReport
  <2>4. "new_device" \in a.alarms <=> a.said.device \in Devices /\ RowsOfDevice(a.said.device) = {}
    BY <1>1, <1>2, <1>7, <2>3 DEF Raised
  <2>5. DevicesTold
    BY <2>1 DEF OneReport
  <2>6. devices' = IF "new_device" \in a.alarms THEN devices \cup {[id |-> a.id, device |-> a.said.device]} ELSE devices
    BY <1>3 DEF DevicesAfter
  <2>7. DevicesTold'
    <3>1. ASSUME NEW d \in Devices
          PROVE  (RowsOfDevice(d) = {})' <=> \A b \in Committed' : b.success => b.said.device # d
      <4>1. RowsOfDevice(d) = {} <=> \A b \in Committed : b.success => b.said.device # d
        BY <2>5 DEF DevicesTold
      <4>2. CASE "new_device" \in a.alarms
        <5> DEFINE x == [id |-> a.id, device |-> a.said.device]
        <5>1. (RowsOfDevice(d) = {})' <=> RowsOfDevice(d) = {} /\ a.said.device # d
          <6>1. x.device = a.said.device /\ devices' = devices \cup {x}
            BY <2>6, <4>2
          <6> HIDE DEF x
          <6> QED BY <6>1 DEF RowsOfDevice
        <5>2. (\A b \in Committed' : b.success => b.said.device # d) <=>
                (\A b \in Committed : b.success => b.said.device # d) /\ a.said.device # d
          BY <1>5, <1>7, <2>4, <4>2
        <5> QED BY <4>1, <5>1, <5>2
      <4>3. CASE "new_device" \notin a.alarms
        BY <1>5, <1>7, <2>4, <2>6, <4>1, <4>3 DEF RowsOfDevice
      <4> QED BY <4>2, <4>3
    <3>2. \A x, y \in devices' : x.device = y.device => x = y
      BY <2>4, <2>5, <2>6 DEF DevicesTold, RowsOfDevice
    <3> QED BY <3>1, <3>2 DEF DevicesTold
  <2>8. ASSUME NEW i \in DOMAIN attempts' PROVE DetectedAt(i)'
    <3>1. CASE i \in 1 .. Len(attempts)
      <4>1. DetectedAt(i)
        BY <1>5, <2>1, <3>1 DEF OneReport
      <4>2. attempts'[i] = attempts[i] /\ Before(i)' = Before(i)
        BY <1>5, <3>1
      <4> QED BY <4>1, <4>2 DEF DetectedAt, BruteForceDue, TravelDue, DeviceDue, Recent
    <3>2. CASE i = Len(attempts) + 1
      <4>1. attempts'[i] = a /\ Before(i)' = Committed
        BY <1>5, <3>2
      <4>2. BruteForceDue(i)' => "brute_force" \in a.alarms
        <5>1. BruteForceDue(i)' => ~ a.success /\ Cardinality(FailuresFrom(a)') >= Threshold
          BY <1>5, <4>1 DEF BruteForceDue, FailuresFrom
        <5> QED BY <1>1, <1>2, <1>19, <2>3, <5>1 DEF Raised
      <4>3. TravelDue(i)' => Suspect(a)
        BY <4>1 DEF TravelDue, Suspect, LastSuccess, Recent
      <4>4. TravelDue(i)' => "impossible_travel" \in a.alarms
        BY <1>1, <1>2, <2>3, <4>3 DEF Raised
      <4>5. DeviceDue(i)' <=> "new_device" \in a.alarms
        BY <1>7, <2>4, <2>5, <4>1 DEF DeviceDue, DevicesTold
      <4> QED BY <4>1, <4>2, <4>4, <4>5 DEF DetectedAt
    <3> QED BY <1>5, <3>1, <3>2
  <2> QED BY <2>2, <2>7, <2>8 DEF OneReport, Raised
<1> QED BY <1>5, <1>11, <1>12, <1>13, <1>14, <1>18, <1>20, <1>21 DEF LoginInv

\* A step that leaves the reports and what they wrote alone.
LEMMA NothingReported ==
    ASSUME LoginInv, UNCHANGED <<attempts, devices, report, crossedReports>>, clock' \in Time
    PROVE  LoginInv'
<1>1. Committed' = Committed /\ attempts' = attempts /\ devices' = devices /\ report' = report
  BY DEF Committed
<1>2. LoginTypeOK'
  BY DEF LoginInv, LoginTypeOK
<1>3. LatestKnown' /\ AlarmsAreReal'
  BY <1>1 DEF LoginInv, LatestKnown, AlarmsAreReal, Recent
<1>4. ASSUME NEW r \in Reports PROVE Filed(r)'
  <2>1. Filed(r)
    BY DEF LoginInv
  <2> QED BY <1>1, <2>1 DEF Filed, Failures, Reporting, Recent
<1>5. ASSUME OneReport PROVE OneReport'
  <2>1. ASSUME NEW r \in Reports PROVE Raised(r)'
    <3>1. Raised(r)
      BY <1>5 DEF OneReport
    <3> QED BY <1>1, <3>1 DEF Raised, Failures, Reporting, Suspect, LastSuccess, Recent, Latest, RowsOfDevice
  <2>2. DevicesTold'
    BY <1>1, <1>5 DEF OneReport, DevicesTold, RowsOfDevice
  <2>3. \A i \in DOMAIN attempts' : DetectedAt(i)'
    BY <1>1, <1>5 DEF OneReport, DetectedAt, BruteForceDue, TravelDue, DeviceDue, Before
  <2>4. \A p, r \in Reports : Reporting(p)' /\ Reporting(r)' => p = r
    BY <1>1, <1>5 DEF OneReport, Reporting
  <2> QED BY <2>1, <2>2, <2>3, <2>4 DEF OneReport
<1> QED BY <1>1, <1>2, <1>3, <1>4, <1>5 DEF LoginInv

\* Time passes.
LEMMA TickStep == ASSUME LoginInv, Tick PROVE LoginInv'
<1>1. clock < MaxTime /\ clock' = clock + 1 /\ UNCHANGED <<attempts, devices, report, crossedReports>>
  BY DEF Tick
<1>2. clock' \in Time
  BY <1>1, LimitsAssumption DEF LoginInv, LoginTypeOK, Time
<1> QED BY <1>1, <1>2, NothingReported

\* So the invariant holds in every state.
LEMMA LoginInvariant == LoginSpec => []LoginInv
<1>1. LoginInv /\ [LoginNext]_loginVars => LoginInv'
  <2> SUFFICES ASSUME LoginInv, [LoginNext]_loginVars PROVE LoginInv'
    OBVIOUS
  <2>1. CASE LoginNext
    BY <2>1, TickStep, ArriveStep, CountStep, CheckDeviceStep, CheckTravelStep, CommitReportStep,
       AbortReportStep DEF LoginNext, Ambiguous
  <2>2. CASE UNCHANGED loginVars
    <3>1. UNCHANGED <<attempts, devices, clock, report, crossedReports>> /\ clock \in Time
      BY <2>2 DEF loginVars, LoginInv, LoginTypeOK
    <3> QED BY <3>1, NothingReported
  <2> QED BY <2>1, <2>2
<1> QED BY <1>1, LoginInitInv, PTL DEF LoginSpec

\* One row of a device at most.
LEMMA RowsOnce == ASSUME DevicesTold, NEW d \in Devices PROVE Cardinality(RowsOfDevice(d)) <= 1
<1>1. CASE RowsOfDevice(d) = {}
  BY <1>1, FS_EmptySet
<1>2. CASE RowsOfDevice(d) # {}
  <2>1. PICK x \in RowsOfDevice(d) : TRUE
    BY <1>2
  <2>2. RowsOfDevice(d) = {x}
    BY <2>1 DEF DevicesTold, RowsOfDevice
  <2> QED BY <2>2, FS_Singleton
<1> QED BY <1>1, <1>2

\* cyber_service.py: the variables keep their types, no interleaving leaves a
\* false alarm, and none is missed while reports come one at a time.
THEOREM LoginsAlwaysJudged == LoginSpec => [](LoginTypeOK /\ LoginsJudged)
<1>1. LoginInv => LoginTypeOK /\ LoginsJudged
  <2> SUFFICES ASSUME LoginInv PROVE LoginTypeOK /\ LoginsJudged
    OBVIOUS
  <2>1. ASSUME ~ crossedReports
        PROVE  /\ \A i \in DOMAIN attempts : DetectedAt(i)
               /\ \A d \in Devices : Cardinality(RowsOfDevice(d)) <= 1
    BY <2>1, RowsOnce DEF LoginInv, OneReport
  <2> QED BY <2>1 DEF LoginInv, LoginsJudged, SerialDetects, DetectedAt
<1> QED BY <1>1, LoginInvariant, PTL

-------------------------------------------------------------------------------
(* Access control.                                                        *)

\* What was read of the user was true at times that are over, or now: the account
\* was on, and unless a change came between, it was still on with these roles.
Based(q) ==
    /\ q.user <= q.read /\ q.read <= time /\ q.su = superuser
    /\ \E s \in held[q.user] : s.on
    /\ \E s \in held[q.read] : s.perms = q.perms /\ (torn \/ s.on)

\* A request has what it read, and a call that was admitted had a live token.
Founded(c) ==
    /\ client[c].pc = "roles" =>
         /\ client[c].user <= time /\ client[c].su = superuser
         /\ client[c].on => (\E s \in held[client[c].user] : s.on) /\ (torn \/ active)
    /\ client[c].pc = "mint" => Based(client[c])
    /\ client[c].pc = "admitted" =>
         /\ Based(client[c].token) /\ client[c].token.read <= client[c].token.minted
         /\ Allows(client[c].token.perms, client[c].token.su, client[c].code)
         /\ client[c].at < client[c].token.minted + AccessTTL + Leeway

\* As long as changes come one at a time, what a change read is still true.
OneChange ==
    /\ \A c, d \in Clients : Changing(c) /\ Changing(d) => c = d
    /\ \A c \in Clients : Changing(c) => client[c].seen = roles /\ client[c].was = active

\* The inductive invariant of access control.
AccessInv ==
    /\ AccessTypeOK
    /\ Grant(roles, active) \in held[time]
    /\ \A k \in tokens : Based(k) /\ k.read <= k.minted
    /\ \A c \in Clients : Founded(c)
    /\ ~ crossed => OneChange /\ roles = wanted.roles /\ active = wanted.active

\* Roles grant permissions.
LEMMA GrantedCodes == ASSUME NEW R \in SUBSET Roles PROVE Effective(R) \subseteq Codes
BY GrantsAssumption DEF Effective

\* And so does an account.
LEMMA GrantTyped ==
    ASSUME NEW R \in SUBSET Roles, NEW on \in BOOLEAN
    PROVE  Grant(R, on) \in Account /\ Grant(R, on).perms = Effective(R) /\ Grant(R, on).on = on
BY GrantedCodes DEF Grant, Account

\* A time of the model.
LEMMA TimesAreNat == Times \subseteq Nat
BY TimesAssumption DEF Times

\* It holds at the start.
LEMMA AccessInitInv == AccessInit => AccessInv
<1> SUFFICES ASSUME AccessInit PROVE AccessInv
  OBVIOUS
<1>1. 0 \in Times
  BY TimesAssumption DEF Times
<1>2. /\ roles \subseteq Roles /\ active = TRUE /\ superuser \in BOOLEAN /\ time = 0 /\ tokens = {}
      /\ wanted = [roles |-> roles, active |-> TRUE] /\ crossed = FALSE /\ torn = FALSE
      /\ \A c \in Clients : client[c] = Waiting
  BY DEF AccessInit
<1>3. Grant(roles, TRUE) \in Account
  BY <1>2, GrantTyped
<1>4. held \in [Times -> SUBSET Account] /\ held[0] = {Grant(roles, TRUE)}
  BY <1>1, <1>2, <1>3 DEF AccessInit
<1>5. AccessTypeOK
  <2>1. client \in [Clients -> Client \cup {Waiting, Gone}]
    BY DEF AccessInit
  <2>2. wanted \in [roles : SUBSET Roles, active : BOOLEAN]
    BY <1>2
  <2> QED BY <1>1, <1>2, <1>4, <2>1, <2>2 DEF AccessTypeOK
<1>6. Grant(roles, active) \in held[time]
  BY <1>2, <1>4
<1>7. \A c \in Clients : Founded(c) /\ ~ Changing(c)
  BY <1>2 DEF Founded, Changing, Waiting
<1> QED BY <1>2, <1>5, <1>6, <1>7 DEF AccessInv, OneChange

\* What was read stays true.
LEMMA BasedLater ==
    ASSUME AccessInv, time' \in Times, time <= time', superuser' = superuser, torn => torn',
           \A t \in Times : t <= time => held[t] \subseteq held'[t]
    PROVE  \A q : q.user \in Times /\ q.read \in Times /\ Based(q) => Based(q)'
<1> SUFFICES ASSUME NEW q, q.user \in Times, q.read \in Times, Based(q) PROVE Based(q)'
  OBVIOUS
<1>1. q.user \in Nat /\ q.read \in Nat /\ time \in Nat /\ time' \in Nat
  BY TimesAreNat DEF AccessInv, AccessTypeOK
<1>2. q.user <= q.read /\ q.read <= time /\ q.user <= time /\ q.read <= time'
  BY <1>1 DEF Based
<1>3. held[q.user] \subseteq held'[q.user] /\ held[q.read] \subseteq held'[q.read]
  BY <1>2
<1> QED BY <1>2, <1>3 DEF Based

\* A step that leaves the user, the time and the tokens alone, and gives one
\* client a record that is founded.
LEMMA ClientStep ==
    ASSUME AccessInv, NEW c \in Clients, NEW q \in Client \cup {Waiting, Gone},
           client' = [client EXCEPT ![c] = q],
           UNCHANGED <<roles, active, superuser, time, held, wanted, torn>>,
           tokens' \subseteq Token, \A k \in tokens' : Based(k) /\ k.read <= k.minted,
           Founded(c)', crossed' \in BOOLEAN, crossed => crossed',
           ~ crossed' => OneChange'
    PROVE  AccessInv'
<1>1. \A d \in Clients : client'[d] = IF d = c THEN q ELSE client[d]
  BY DEF AccessInv, AccessTypeOK
<1>2. AccessTypeOK'
  BY DEF AccessInv, AccessTypeOK
<1>3. \A k \in tokens' : Based(k)' /\ k.read <= k.minted
  BY DEF Based
<1>4. \A d \in Clients : Founded(d)'
  BY <1>1 DEF AccessInv, Founded, Based
<1> QED BY <1>2, <1>3, <1>4 DEF AccessInv, Grant, Effective

\* A client that is not changing the user disturbs no change.
LEMMA Bystander ==
    ASSUME AccessInv, NEW c \in Clients, NEW q,
           client' = [client EXCEPT ![c] = q], q.pc \notin {"lock", "commit"},
           UNCHANGED <<roles, active, crossed>>
    PROVE  ~ crossed' => OneChange'
<1>1. \A d \in Clients : client'[d] = IF d = c THEN q ELSE client[d]
  BY DEF AccessInv, AccessTypeOK
<1> QED BY <1>1 DEF AccessInv, OneChange, Changing

\* The row of the user is read.
LEMMA ReadUserStep == ASSUME AccessInv, NEW c \in Clients, ReadUser(c) PROVE AccessInv'
<1>1. PICK q : q = [pc |-> "roles", user |-> time, on |-> active, su |-> superuser]
  OBVIOUS
<1>2. /\ client' = [client EXCEPT ![c] = q]
      /\ UNCHANGED <<roles, active, superuser, time, tokens, held, wanted, crossed, torn>>
  BY <1>1 DEF ReadUser
<1>3. /\ roles \in SUBSET Roles /\ active \in BOOLEAN /\ superuser \in BOOLEAN /\ time \in Times
      /\ crossed \in BOOLEAN /\ tokens \subseteq Token
      /\ client \in [Clients -> Client \cup {Waiting, Gone}]
  BY DEF AccessInv, AccessTypeOK
<1>4. q \in Client
  BY <1>1, <1>3 DEF Client
<1>5. q.pc = "roles" /\ q.user = time /\ q.on = active /\ q.su = superuser
  BY <1>1
<1>6. Founded(c)'
  <2>1. client'[c] = q
    BY <1>2, <1>3
  <2>2. active => \E s \in held[time] : s.on
    BY <1>3, GrantTyped DEF AccessInv
  <2>3. time <= time
    BY <1>3, TimesAreNat
  <2> QED BY <1>2, <1>5, <2>1, <2>2, <2>3 DEF Founded
<1>7. ~ crossed' => OneChange'
  BY <1>2, <1>5, Bystander
<1>8. \A k \in tokens' : Based(k) /\ k.read <= k.minted
  BY <1>2 DEF AccessInv
<1> QED BY <1>2, <1>3, <1>4, <1>6, <1>7, <1>8, ClientStep

\* The roles are read.
LEMMA ReadRolesStep == ASSUME AccessInv, NEW c \in Clients, ReadRoles(c) PROVE AccessInv'
<1> DEFINE o == client[c]
<1>1. PICK q : q = IF o.on THEN [pc |-> "mint", user |-> o.user, read |-> time,
                                 perms |-> Effective(roles), su |-> o.su] ELSE Gone
  OBVIOUS
<1>2. /\ o.pc = "roles" /\ client' = [client EXCEPT ![c] = q]
      /\ UNCHANGED <<roles, active, superuser, time, tokens, held, wanted, crossed, torn>>
  BY <1>1 DEF ReadRoles
<1>3. /\ roles \in SUBSET Roles /\ active \in BOOLEAN /\ time \in Times /\ crossed \in BOOLEAN
      /\ tokens \subseteq Token /\ client \in [Clients -> Client \cup {Waiting, Gone}]
  BY DEF AccessInv, AccessTypeOK
<1>4. o \in [pc : {"roles"}, user : Times, on : BOOLEAN, su : BOOLEAN]
  BY <1>2, <1>3 DEF Client, Waiting, Gone
<1>5. Effective(roles) \in SUBSET Codes
  BY <1>3, GrantedCodes
<1>6. q \in Client \cup {Waiting, Gone}
  BY <1>1, <1>3, <1>4, <1>5 DEF Client
<1>7. q.pc \in {"mint", "gone"}
  BY <1>1 DEF Gone
<1>8. Founded(c)'
  <2>1. client'[c] = q
    BY <1>2, <1>3
  <2>2. CASE o.on
    <3>1. q.pc = "mint" /\ q.user = o.user /\ q.read = time /\ q.perms = Effective(roles) /\ q.su = o.su
      BY <1>1, <2>2
    <3>2. /\ o.user <= time /\ o.su = superuser
          /\ \E s \in held[o.user] : s.on
          /\ torn \/ active
      BY <1>2, <2>2 DEF AccessInv, Founded
    <3>3. \E s \in held[time] : s.perms = Effective(roles) /\ (torn \/ s.on)
      BY <1>3, <3>2, GrantTyped DEF AccessInv
    <3>4. time <= time
      BY <1>3, TimesAreNat
    <3>5. Based(q)
      BY <3>1, <3>2, <3>3, <3>4 DEF Based
    <3> QED BY <1>2, <2>1, <3>1, <3>5 DEF Founded, Based
  <2>3. CASE ~ o.on
    BY <1>1, <2>1, <2>3 DEF Founded, Gone
  <2> QED BY <2>2, <2>3
<1>9. ~ crossed' => OneChange'
  BY <1>2, <1>7, Bystander
<1>10. \A k \in tokens' : Based(k) /\ k.read <= k.minted
  BY <1>2 DEF AccessInv
<1> QED BY <1>2, <1>3, <1>6, <1>8, <1>9, <1>10, ClientStep

\* A token is made of what was read.
LEMMA MintStep == ASSUME AccessInv, NEW c \in Clients, Mint(c) PROVE AccessInv'
<1> DEFINE q == client[c]
<1>1. PICK k : k = [user |-> q.user, read |-> q.read, minted |-> time, perms |-> q.perms, su |-> q.su]
  OBVIOUS
<1>2. /\ q.pc = "mint" /\ tokens' = tokens \cup {k} /\ client' = [client EXCEPT ![c] = Gone]
      /\ UNCHANGED <<roles, active, superuser, time, held, wanted, crossed, torn>>
  BY <1>1 DEF Mint
<1>3. /\ time \in Times /\ crossed \in BOOLEAN /\ tokens \subseteq Token
      /\ client \in [Clients -> Client \cup {Waiting, Gone}]
  BY DEF AccessInv, AccessTypeOK
<1>4. q \in [pc : {"mint"}, user : Times, read : Times, perms : SUBSET Codes, su : BOOLEAN]
  BY <1>2, <1>3 DEF Client, Waiting, Gone
<1>5. k \in Token
  BY <1>1, <1>3, <1>4 DEF Token
<1>6. Based(k) /\ k.read <= k.minted
  <2>1. Based(q)
    BY <1>2 DEF AccessInv, Founded
  <2> QED BY <1>1, <2>1 DEF Based
<1>7. Founded(c)'
  BY <1>2, <1>3 DEF Founded, Gone
<1>8. ~ crossed' => OneChange'
  BY <1>2, Bystander DEF Gone
<1>9. \A j \in tokens' : Based(j) /\ j.read <= j.minted
  BY <1>2, <1>6 DEF AccessInv
<1> QED BY <1>2, <1>3, <1>5, <1>7, <1>8, <1>9, ClientStep

\* A call is judged by its token.
LEMMA CallStep == ASSUME AccessInv, NEW c \in Clients, Call(c) PROVE AccessInv'
<1>1. PICK k \in tokens, code \in Codes :
        /\ client' = [client EXCEPT ![c] =
             IF ~ Expired(k) /\ Allows(k.perms, k.su, code)
               THEN [pc |-> "admitted", at |-> time, code |-> code, token |-> k] ELSE Gone]
        /\ UNCHANGED <<roles, active, superuser, time, tokens, held, wanted, crossed, torn>>
  BY DEF Call
<1>2. PICK q : q = IF ~ Expired(k) /\ Allows(k.perms, k.su, code)
                     THEN [pc |-> "admitted", at |-> time, code |-> code, token |-> k] ELSE Gone
  OBVIOUS
<1>3. /\ time \in Times /\ crossed \in BOOLEAN /\ tokens \subseteq Token
      /\ client \in [Clients -> Client \cup {Waiting, Gone}]
  BY DEF AccessInv, AccessTypeOK
<1>4. q \in Client \cup {Waiting, Gone}
  BY <1>2, <1>3 DEF Client
<1>5. q.pc \in {"admitted", "gone"}
  BY <1>2 DEF Gone
<1>6. client' = [client EXCEPT ![c] = q]
  BY <1>1, <1>2
<1>7. Founded(c)'
  <2>1. client'[c] = q
    BY <1>3, <1>6
  <2>2. CASE ~ Expired(k) /\ Allows(k.perms, k.su, code)
    <3>1. q.token = k /\ q.at = time /\ q.code = code
      BY <1>2, <2>2
    <3>2. time < k.minted + AccessTTL + Leeway
      <4>1. time \in Nat /\ k.minted \in Nat
        BY <1>3, TimesAssumption DEF Times, Token
      <4> QED BY <2>2, <4>1, TimesAssumption DEF Expired
    <3>3. Based(k) /\ k.read <= k.minted
      BY DEF AccessInv
    <3> QED BY <1>1, <1>5, <2>1, <2>2, <3>1, <3>2, <3>3 DEF Founded, Based
  <2>3. CASE ~ (~ Expired(k) /\ Allows(k.perms, k.su, code))
    BY <1>2, <2>1, <2>3 DEF Founded, Gone
  <2> QED BY <2>2, <2>3
<1>8. ~ crossed' => OneChange'
  BY <1>1, <1>5, <1>6, Bystander
<1>9. \A j \in tokens' : Based(j) /\ j.read <= j.minted
  BY <1>1 DEF AccessInv
<1> QED BY <1>1, <1>3, <1>4, <1>6, <1>7, <1>8, <1>9, ClientStep

\* An administrator loads the user.
LEMMA LoadChangeStep ==
    ASSUME AccessInv, NEW c \in Clients, NEW op \in {"roles", "active"},
           NEW to \in SUBSET Roles, NEW on \in BOOLEAN, LoadChange(c, op, to, on)
    PROVE  AccessInv'
<1>1. PICK q : q = [pc |-> "lock", op |-> op, seen |-> roles, was |-> active, to |-> to, on |-> on]
  OBVIOUS
<1>2. /\ client' = [client EXCEPT ![c] = q] /\ crossed' = (crossed \/ \E d \in Clients : Changing(d))
      /\ UNCHANGED <<roles, active, superuser, time, tokens, held, wanted, torn>>
  BY <1>1 DEF LoadChange
<1>3. /\ roles \in SUBSET Roles /\ active \in BOOLEAN /\ crossed \in BOOLEAN
      /\ tokens \subseteq Token /\ client \in [Clients -> Client \cup {Waiting, Gone}]
  BY DEF AccessInv, AccessTypeOK
<1>4. q \in Client
  BY <1>1, <1>3 DEF Client
<1>5. q.pc = "lock" /\ q.seen = roles /\ q.was = active
  BY <1>1
<1>6. \A d \in Clients : client'[d] = IF d = c THEN q ELSE client[d]
  BY <1>2, <1>3
<1>7. Founded(c)'
  BY <1>5, <1>6 DEF Founded
<1>8. ~ crossed' => OneChange'
  BY <1>2, <1>5, <1>6 DEF OneChange, Changing
<1>9. \A j \in tokens' : Based(j) /\ j.read <= j.minted
  BY <1>2 DEF AccessInv
<1>10. crossed' \in BOOLEAN /\ (crossed => crossed')
  BY <1>2, <1>3
<1> QED BY <1>2, <1>3, <1>4, <1>7, <1>8, <1>9, <1>10, ClientStep

\* The entry takes the lock.
LEMMA LockTrailStep == ASSUME AccessInv, NEW c \in Clients, LockTrail(c) PROVE AccessInv'
<1> DEFINE o == client[c]
<1>1. PICK q : q = [o EXCEPT !.pc = "commit"]
  OBVIOUS
<1>2. /\ o.pc = "lock" /\ client' = [client EXCEPT ![c] = q]
      /\ UNCHANGED <<roles, active, superuser, time, tokens, held, wanted, crossed, torn>>
  BY <1>1 DEF LockTrail
<1>3. /\ crossed \in BOOLEAN /\ tokens \subseteq Token
      /\ client \in [Clients -> Client \cup {Waiting, Gone}]
  BY DEF AccessInv, AccessTypeOK
<1>4. o \in [pc : {"lock", "commit"}, op : {"roles", "active"}, seen : SUBSET Roles,
             was : BOOLEAN, to : SUBSET Roles, on : BOOLEAN]
  BY <1>2, <1>3 DEF Client, Waiting, Gone
<1>5. q \in Client
  BY <1>1, <1>4 DEF Client
<1>6. q.pc = "commit" /\ q.seen = o.seen /\ q.was = o.was
  BY <1>1, <1>4
<1>7. \A d \in Clients : client'[d] = IF d = c THEN q ELSE client[d]
  BY <1>2, <1>3
<1>8. Founded(c)'
  BY <1>6, <1>7 DEF Founded
<1>9. ~ crossed' => OneChange'
  BY <1>2, <1>6, <1>7 DEF AccessInv, OneChange, Changing
<1>10. \A j \in tokens' : Based(j) /\ j.read <= j.minted
  BY <1>2 DEF AccessInv
<1> QED BY <1>2, <1>3, <1>5, <1>8, <1>9, <1>10, ClientStep

\* A request ends without a commit.
LEMMA FailStep == ASSUME AccessInv, NEW c \in Clients, Fail(c) PROVE AccessInv'
<1>1. client' = [client EXCEPT ![c] = Gone] /\ UNCHANGED <<roles, active, superuser, time, tokens, held, wanted, crossed, torn>>
  BY DEF Fail
<1>2. /\ crossed \in BOOLEAN /\ tokens \subseteq Token
      /\ client \in [Clients -> Client \cup {Waiting, Gone}]
  BY DEF AccessInv, AccessTypeOK
<1>3. Founded(c)'
  BY <1>1, <1>2 DEF Founded, Gone
<1>4. ~ crossed' => OneChange'
  BY <1>1, Bystander DEF Gone
<1>5. \A j \in tokens' : Based(j) /\ j.read <= j.minted
  BY <1>1 DEF AccessInv
<1> QED BY <1>1, <1>2, <1>3, <1>4, <1>5, ClientStep

\* A change is committed: when it is alone, it leaves what was asked for.
LEMMA ChangeUserStep == ASSUME AccessInv, NEW c \in Clients, ChangeUser(c) PROVE AccessInv'
<1> DEFINE q == client[c]
           on == IF q.op = "active" /\ q.on # q.was THEN q.on ELSE active
           R == RolesAfter(q)
<1>1. /\ q.pc = "commit" /\ roles' = R /\ active' = on
      /\ held' = [held EXCEPT ![time] = @ \cup {Grant(R, on)}]
      /\ wanted' = IF q.op = "roles" THEN [wanted EXCEPT !.roles = q.to]
                   ELSE [wanted EXCEPT !.active = q.on]
      /\ torn' = (torn \/ \E d \in Clients : client[d].pc = "roles")
      /\ client' = [client EXCEPT ![c] = Gone]
      /\ UNCHANGED <<superuser, time, tokens, crossed>>
  BY DEF ChangeUser
<1>2. /\ roles \in SUBSET Roles /\ active \in BOOLEAN /\ time \in Times /\ crossed \in BOOLEAN
      /\ torn \in BOOLEAN /\ superuser \in BOOLEAN
      /\ tokens \subseteq Token /\ client \in [Clients -> Client \cup {Waiting, Gone}]
      /\ held \in [Times -> SUBSET Account]
      /\ wanted \in [roles : SUBSET Roles, active : BOOLEAN]
  BY DEF AccessInv, AccessTypeOK
<1>3. /\ q.op \in {"roles", "active"} /\ q.seen \in SUBSET Roles /\ q.was \in BOOLEAN
      /\ q.to \in SUBSET Roles /\ q.on \in BOOLEAN
  BY <1>1, <1>2 DEF Client, Waiting, Gone
<1>4. R \in SUBSET Roles /\ on \in BOOLEAN
  BY <1>2, <1>3 DEF RolesAfter
<1>5. Grant(R, on) \in Account
  BY <1>4, GrantTyped
<1>6. /\ wanted'.roles = IF q.op = "roles" THEN q.to ELSE wanted.roles
      /\ wanted'.active = IF q.op = "roles" THEN wanted.active ELSE q.on
      /\ wanted' \in [roles : SUBSET Roles, active : BOOLEAN]
  BY <1>1, <1>2, <1>3
<1>7. \A d \in Clients : client'[d] = IF d = c THEN Gone ELSE client[d]
  BY <1>1, <1>2
<1>8. roles = q.seen /\ active = q.was => (q.op = "roles" => R = q.to) /\ (q.op = "active" => R = roles /\ on = q.on)
  BY <1>2, <1>3 DEF RolesAfter
<1>9. q.op = "roles" => on = active
  BY <1>3
<1> HIDE DEF on, R
<1>10. /\ \A t \in Times : held[t] \subseteq held'[t]
       /\ Grant(R, on) \in held'[time] /\ held' \in [Times -> SUBSET Account]
  BY <1>1, <1>2, <1>5
<1>11. AccessTypeOK'
  BY <1>1, <1>2, <1>4, <1>6, <1>10 DEF AccessTypeOK
<1>12. Grant(roles, active)' \in held'[time']
  BY <1>1, <1>10 DEF Grant, Effective
<1>13. time <= time
  BY <1>2, TimesAreNat
<1>14. \A o : o.user \in Times /\ o.read \in Times /\ Based(o) => Based(o)'
  BY <1>1, <1>2, <1>10, <1>13, BasedLater
<1>15. \A k \in tokens' : Based(k)' /\ k.read <= k.minted
  BY <1>1, <1>2, <1>14 DEF AccessInv, Token
<1>17. ASSUME NEW d \in Clients PROVE Founded(d)'
  <2>1. CASE d = c
    BY <1>7, <2>1 DEF Founded, Gone
  <2>2. CASE d # c
    <3>1. PICK o : o = client[d]
      OBVIOUS
    <3>2. client'[d] = o /\ Founded(d)
      BY <1>7, <2>2, <3>1 DEF AccessInv
    <3>3. /\ o.pc = "roles" => o.user \in Times
          /\ o.pc = "mint" => o.user \in Times /\ o.read \in Times
          /\ o.pc = "admitted" => o.token.user \in Times /\ o.token.read \in Times
      BY <1>2, <3>1 DEF Client, Waiting, Gone, Token
    <3>4. o.pc = "mint" => Based(o)'
      BY <1>14, <3>1, <3>2, <3>3 DEF Founded
    <3>5. PICK k : k = o.token
      OBVIOUS
    <3>6. o.pc = "admitted" => Based(k)'
      BY <1>14, <3>1, <3>2, <3>3, <3>5 DEF Founded
    <3>7. o.pc = "roles" => torn'
      BY <1>1, <3>1
    <3>8. o.pc = "roles" /\ o.on => \E s \in held'[o.user] : s.on
      BY <1>10, <3>1, <3>2, <3>3 DEF Founded
    <3>9. o.pc = "roles" => o.user <= time /\ o.su = superuser
      BY <3>1, <3>2 DEF Founded
    <3>10. o.pc = "admitted" => /\ k.read <= k.minted /\ Allows(k.perms, k.su, o.code)
                                /\ o.at < k.minted + AccessTTL + Leeway
      BY <3>1, <3>2, <3>5 DEF Founded
    <3>11. UNCHANGED <<time, superuser>>
      BY <1>1
    <3>12. o.pc = "mint" => Based(client[d])'
      BY <3>2, <3>4 DEF Based
    <3>13. o.pc = "admitted" => Based(client[d].token)'
      BY <3>2, <3>5, <3>6 DEF Based
    <3> QED BY <3>2, <3>5, <3>7, <3>8, <3>9, <3>10, <3>11, <3>12, <3>13 DEF Founded, Allows
  <2> QED BY <2>1, <2>2
<1>16. ~ crossed' => OneChange' /\ roles' = wanted'.roles /\ active' = wanted'.active
  <2> SUFFICES ASSUME ~ crossed PROVE OneChange' /\ roles' = wanted'.roles /\ active' = wanted'.active
    BY <1>1
  <2>1. OneChange /\ roles = wanted.roles /\ active = wanted.active
    BY DEF AccessInv
  <2>2. Changing(c) /\ roles = q.seen /\ active = q.was
    BY <1>1, <2>1 DEF OneChange, Changing
  <2>3. roles' = wanted'.roles /\ active' = wanted'.active
    BY <1>1, <1>3, <1>6, <1>8, <1>9, <2>1, <2>2
  <2>4. \A d \in Clients : ~ Changing(d)'
    BY <1>7, <2>1, <2>2 DEF OneChange, Changing, Gone
  <2> QED BY <2>3, <2>4 DEF OneChange
<1> QED BY <1>11, <1>12, <1>15, <1>17, <1>16 DEF AccessInv

\* Time passes.
LEMMA PassStep == ASSUME AccessInv, Pass PROVE AccessInv'
<1>1. /\ time < LastTime /\ time' = time + 1
      /\ held' = [held EXCEPT ![time + 1] = {Grant(roles, active)}]
      /\ UNCHANGED <<roles, active, superuser, tokens, client, wanted, crossed, torn>>
  BY DEF Pass
<1>2. /\ roles \in SUBSET Roles /\ active \in BOOLEAN /\ time \in Times
      /\ tokens \subseteq Token /\ client \in [Clients -> Client \cup {Waiting, Gone}]
      /\ held \in [Times -> SUBSET Account]
  BY DEF AccessInv, AccessTypeOK
<1>3. time + 1 \in Times /\ time \in Nat /\ time <= time + 1
  BY <1>1, <1>2, TimesAssumption DEF Times
<1>4. Grant(roles, active) \in Account
  BY <1>2, GrantTyped
<1>5. held' \in [Times -> SUBSET Account] /\ held'[time + 1] = {Grant(roles, active)}
  BY <1>1, <1>2, <1>3, <1>4
<1>6. AccessTypeOK'
  BY <1>1, <1>3, <1>5 DEF AccessInv, AccessTypeOK
<1>7. Grant(roles, active)' \in held'[time']
  BY <1>1, <1>5 DEF Grant, Effective
<1>8. ASSUME NEW t \in Times, t <= time PROVE held'[t] = held[t] /\ t <= time + 1
  <2>1. t \in Nat
    BY TimesAreNat
  <2>2. t # time + 1 /\ t <= time + 1
    BY <1>3, <1>8, <2>1
  <2> QED BY <1>1, <1>2, <2>2
<1>9. \A o : o.user \in Times /\ o.read \in Times /\ Based(o) => Based(o)'
  BY <1>1, <1>3, <1>8, BasedLater
<1>10. \A k \in tokens' : Based(k)' /\ k.read <= k.minted
  BY <1>1, <1>2, <1>9 DEF AccessInv, Token
<1>11. ASSUME NEW d \in Clients PROVE Founded(d)'
  <2>1. PICK o : o = client[d]
    OBVIOUS
  <2>2. client'[d] = o /\ Founded(d)
    BY <1>1, <2>1 DEF AccessInv
  <2>3. /\ o.pc = "roles" => o.user \in Times
        /\ o.pc = "mint" => o.user \in Times /\ o.read \in Times
        /\ o.pc = "admitted" => o.token.user \in Times /\ o.token.read \in Times
    BY <1>2, <2>1 DEF Client, Waiting, Gone, Token
  <2>4. o.pc = "mint" => Based(o)'
    BY <1>9, <2>1, <2>2, <2>3 DEF Founded
  <2>5. PICK k : k = o.token
    OBVIOUS
  <2>6. o.pc = "admitted" => Based(k)'
    BY <1>9, <2>1, <2>2, <2>3, <2>5 DEF Founded
  <2>7. o.pc = "roles" =>
          /\ o.user <= time' /\ o.su = superuser'
          /\ o.on => (\E s \in held'[o.user] : s.on) /\ (torn' \/ active')
    BY <1>1, <1>8, <2>1, <2>2, <2>3 DEF Founded
  <2>8. o.pc = "admitted" => /\ k.read <= k.minted /\ Allows(k.perms, k.su, o.code)
                             /\ o.at < k.minted + AccessTTL + Leeway
    BY <2>1, <2>2, <2>5 DEF Founded
  <2>9. o.pc = "mint" => Based(client[d])'
    BY <2>2, <2>4 DEF Based
  <2>10. o.pc = "admitted" => Based(client[d].token)'
    BY <2>2, <2>5, <2>6 DEF Based
  <2> QED BY <2>2, <2>5, <2>7, <2>8, <2>9, <2>10 DEF Founded, Allows
<1>12. ~ crossed' => OneChange' /\ roles' = wanted'.roles /\ active' = wanted'.active
  BY <1>1 DEF AccessInv, OneChange, Changing
<1> QED BY <1>6, <1>7, <1>10, <1>11, <1>12 DEF AccessInv

\* So the invariant holds in every state.
LEMMA AccessInvariant == AccessSpec => []AccessInv
<1>1. AccessInv /\ [AccessNext]_accessVars => AccessInv'
  <2> SUFFICES ASSUME AccessInv, [AccessNext]_accessVars PROVE AccessInv'
    OBVIOUS
  <2>1. CASE AccessNext
    <3>1. ASSUME NEW c \in Clients, LoadSetRoles(c) PROVE AccessInv'
      <4>1. PICK to \in SUBSET Roles : LoadChange(c, "roles", to, TRUE)
        BY <3>1 DEF LoadSetRoles
      <4> QED BY <4>1, LoadChangeStep
    <3>2. ASSUME NEW c \in Clients, LoadSetActive(c) PROVE AccessInv'
      <4>1. PICK on \in BOOLEAN : LoadChange(c, "active", {}, on)
        BY <3>2 DEF LoadSetActive
      <4>2. {} \in SUBSET Roles
        OBVIOUS
      <4> QED BY <4>1, <4>2, LoadChangeStep
    <3> QED BY <2>1, <3>1, <3>2, ReadUserStep, ReadRolesStep, MintStep, CallStep, LockTrailStep,
               ChangeUserStep, FailStep, PassStep DEF AccessNext
  <2>2. CASE UNCHANGED accessVars
    BY <2>2 DEF accessVars, AccessInv, AccessTypeOK, Grant, Effective, Based, Founded, OneChange, Changing
  <2> QED BY <2>1, <2>2
<1> QED BY <1>1, AccessInitInv, PTL DEF AccessSpec

\* What it says of the calls and of the last change.
LEMMA AccessFollows == AccessInv => AccessTypeOK /\ AccessInOrder
<1> SUFFICES ASSUME AccessInv PROVE AccessTypeOK /\ AccessInOrder
  OBVIOUS
<1>1. ASSUME NEW c \in Clients, Admitted(c)
      PROVE  LET k == client[c].token IN
             /\ \E s \in held[k.read] : (torn \/ s.on) /\ Allows(s.perms, superuser, client[c].code)
             /\ \E s \in held[k.user] : s.on
             /\ k.user <= k.read /\ k.read <= k.minted
             /\ client[c].at - k.minted < AccessTTL + Leeway
  <2>1. PICK k : k = client[c].token
    OBVIOUS
  <2>2. client[c].at \in Nat /\ k.minted \in Nat
    <3>1. client[c] \in [pc : {"admitted"}, at : Times, code : Codes, token : Token]
      BY <1>1 DEF Admitted, AccessInv, AccessTypeOK, Client, Waiting, Gone
    <3> QED BY <2>1, <3>1, TimesAreNat DEF Token
  <2>3. /\ Based(k) /\ k.read <= k.minted /\ Allows(k.perms, k.su, client[c].code)
        /\ client[c].at < k.minted + AccessTTL + Leeway
    BY <1>1, <2>1 DEF Admitted, AccessInv, Founded
  <2>4. client[c].at - k.minted < AccessTTL + Leeway
    BY <2>2, <2>3, TimesAssumption
  <2>5. \E s \in held[k.read] : (torn \/ s.on) /\ Allows(s.perms, superuser, client[c].code)
    BY <2>3 DEF Based, Allows
  <2> QED BY <2>1, <2>3, <2>4, <2>5 DEF Based
<1>2. AdmittedWasGranted
  BY <1>1 DEF AdmittedWasGranted
<1>3. GrantedAtOnce
  BY <1>1 DEF GrantedAtOnce, GrantedWhileEnabled
<1> QED BY <1>2, <1>3 DEF AccessInv, AccessInOrder, SerialChanges

\* permissions.py, deps.py, user_service.py: the variables keep their types; a
\* call that is admitted is the superuser's, or was allowed by the roles the login
\* read of an account whose row it had read as enabled, both at one moment unless
\* a change was committed between the reads, under a token that is alive; and
\* changes that come one at a time leave what was asked for last.
THEOREM AccessAlwaysInOrder == AccessSpec => [](AccessTypeOK /\ AccessInOrder)
BY AccessInvariant, AccessFollows, PTL

-------------------------------------------------------------------------------
(* Sealed streams.                                                        *)

\* The units of plaintexts.
Units == Streams \X (1..MaxUnits)

\* Where the k-th of pieces of some size starts.
Start(size, k) == k * size

\* Units a + 1 to b of a stream.
Piece(s, a, b) == [i \in 1..(b - a) |-> <<s, a + i>>]

\* The end of a piece of some size that starts at a, in n units.
Cut(a, size, n) == IF a + size < n THEN a + size ELSE n

\* The k-th chunk of a stream, and what it is sealed to.
Chunk(s, size, n, k) == Piece(s, Start(size, k), Cut(Start(size, k), size, n))

\* The p-th cell of the k-th chunk of a stream.
Cell(s, e, k, p) ==
    LET size == e.header.size  n == Len(e.text) IN
    [key |-> e.key, nonce |-> <<s, k, n <= Start(size, k) + size>>, aad |-> <<e.header, s>>,
     text |-> Chunk(s, size, n, k), cell |-> p]

\* How far k pieces of some size reach.
Reach(size, k, n) == IF Start(size, k) < n THEN Start(size, k) ELSE n

\* The states of an encryption and of a decryption.
SealingRec ==
    [pc : {"more", "sealed", "refused"}, text : Seq(Units), left : Seq(Units), key : DataKeys,
     header : Headers, counter : 0..(LastCounter + 1), body : Seq(Cells)]

ReadingRec ==
    [pc : {"start", "more", "done", "refused"}, of : Streams, key : DataKeys,
     header : Headers \cup {Junk}, rest : Seq(Cells \cup {Junk}), counter : 0..(LastCounter + 1),
     out : Seq(Units), whole : BOOLEAN]

\* What is left, and how long the body is, before and after the last chunk.
Unfinished(s, e) ==
    LET size == e.header.size  n == Len(e.text)  c == e.counter IN
    /\ Start(size, c) <= n /\ (c > 0 => Start(size, c) < n)
    /\ e.left = Piece(s, Start(size, c), n) /\ Len(e.body) = Start(size + 1, c)

Finished(s, e) ==
    LET size == e.header.size  n == Len(e.text)  c == e.counter IN
    /\ c > 0 /\ n <= Start(size, c - 1) + size /\ (c > 1 => Start(size, c - 1) < n)
    /\ Len(e.body) = n + c

\* The body is the chunks so far, one after the other, and nothing else.
Laid(s, e) ==
    LET size == e.header.size  n == Len(e.text) IN
    /\ \A k \in 0..(e.counter - 1) :
         /\ Start(size, k) <= n
         /\ \A p \in 1..(Len(Chunk(s, size, n, k)) + 1) :
              /\ Start(size + 1, k) + p \in 1..Len(e.body)
              /\ e.body[Start(size + 1, k) + p] = Cell(s, e, k, p)
    /\ \A i \in 1..Len(e.body) : \E k \in 0..(e.counter - 1), p \in 1..(MaxUnits + 1) :
         e.body[i] = Cell(s, e, k, p)

\* What an encryption has read, has left and has written.
SoundSeal(s, e) ==
    /\ e.header.prefix = s
    /\ Len(e.text) <= MaxUnits /\ e.text = Piece(s, 0, Len(e.text))
    /\ IF e.pc = "sealed" THEN Finished(s, e) ELSE Unfinished(s, e)
    /\ Laid(s, e)

\* The cells that were ever written.
Written ==
    {x \in Cells : \E t \in Streams : sealing[t] # Unsealed /\
       \E k \in 0..(sealing[t].counter - 1), p \in 1..(MaxUnits + 1) : x = Cell(t, sealing[t], k, p)}

\* Nothing is encrypted any more.
Still == \A t \in Streams : sealing[t] # Unsealed /\ sealing[t].pc # "more"

\* What is out is the chunks that were opened, and what was whole still is.
SoundRead(e) ==
    LET size == e.header.size  n == Len(e.text)  c == reading.counter IN
    /\ Still /\ e.pc = "sealed"
    /\ c <= e.counter /\ (c > 0 => reading.header = e.header)
    /\ reading.rest \in Seq(Written \cup {Junk})
    /\ reading.out = Piece(reading.of, 0, Reach(size, c, n))
    /\ reading.pc = "start" => c = 0
    /\ reading.pc = "more" => reading.rest # <<>> /\ reading.header \in Headers
    /\ reading.pc = "done" => reading.out = e.text
    /\ reading.whole => /\ reading.pc # "refused" /\ reading.key = e.key /\ reading.header = e.header
                        /\ reading.pc # "done" =>
                             /\ c < e.counter
                             /\ reading.rest = After(Start(size + 1, c), e.body)

\* The inductive invariant of the streams.
StreamInv ==
    /\ sealing \in [Streams -> SealingRec \cup {Unsealed}]
    /\ \A s \in Streams : sealing[s] # Unsealed => SoundSeal(s, sealing[s])
    /\ reading = NoReading \/ (reading \in ReadingRec /\ SoundRead(sealing[reading.of]))

\* Pieces do not overlap.
LEMMA StartFacts ==
  ASSUME NEW size \in Nat, NEW k \in Nat
  PROVE  /\ Start(size, k) \in Nat /\ Start(size, 0) = 0
         /\ Start(size, k + 1) = Start(size, k) + size
         /\ Start(size + 1, k) = Start(size, k) + k
         /\ \A j \in 0..(k - 1) : Start(size, j) + size <= Start(size, k)
<1>1. \A j \in 0..(k - 1) : Start(size, j) + size <= Start(size, k)
  <2> SUFFICES ASSUME NEW j \in 0..(k - 1) PROVE j * size + size <= k * size
    BY DEF Start
  <2> DEFINE d == k - 1 - j
  <2>1. d \in Nat /\ k = j + 1 + d
    OBVIOUS
  <2> HIDE DEF d
  <2>2. k * size = j * size + size + d * size
    BY <2>1
  <2>3. d * size \in Nat /\ j * size \in Nat
    BY <2>1
  <2> QED BY <2>2, <2>3
<1>2. (k + 1) * size = k * size + size /\ k * (size + 1) = k * size + k /\ k * size \in Nat
  OBVIOUS
<1> QED BY <1>1, <1>2 DEF Start

\* The beginning of a sequence, and what comes after it.
LEMMA UptoFacts ==
  ASSUME NEW S, NEW q \in Seq(S), NEW n \in Nat
  PROVE  /\ Upto(n, q) \in Seq(S)
         /\ Len(Upto(n, q)) = IF n < Len(q) THEN n ELSE Len(q)
         /\ \A i \in 1..Len(Upto(n, q)) : Upto(n, q)[i] = q[i]
<1> DEFINE m == IF n < Len(q) THEN n ELSE Len(q)
<1>1. m \in Nat /\ m <= Len(q) /\ Len(q) \in Nat
  BY LenProperties
<1>2. \A i \in 1..m : q[i] \in S
  BY <1>1, ElementOfSeq
<1>3. 1 \in Int /\ m \in Int
  BY <1>1
<1> HIDE DEF m
<1>4. /\ SubSeq(q, 1, m) \in Seq(S)
      /\ Len(SubSeq(q, 1, m)) = IF 1 <= m THEN m - 1 + 1 ELSE 0
      /\ \A i \in 1..(m - 1 + 1) : SubSeq(q, 1, m)[i] = q[1 + i - 1]
  BY <1>2, <1>3, SubSeqProperties
<1>5. Upto(n, q) = SubSeq(q, 1, m)
  BY DEF Upto, m
<1>6. Len(SubSeq(q, 1, m)) = m
  BY <1>1, <1>4
<1>7. \A i \in 1..m : SubSeq(q, 1, m)[i] = q[i]
  BY <1>1, <1>4
<1> QED BY <1>4, <1>5, <1>6, <1>7 DEF m

\* What comes after the beginning, and whether anything does.
LEMMA AfterFacts ==
  ASSUME NEW S, NEW q \in Seq(S), NEW n \in Nat
  PROVE  /\ After(n, q) \in Seq(S)
         /\ Len(After(n, q)) = IF n < Len(q) THEN Len(q) - n ELSE 0
         /\ \A i \in 1..Len(After(n, q)) : After(n, q)[i] = q[n + i]
         /\ After(n, q) = <<>> <=> Len(q) <= n
<1>1. Len(q) \in Nat /\ \A i \in (n + 1)..Len(q) : q[i] \in S
  BY LenProperties, ElementOfSeq
<1>2. n + 1 \in Int /\ Len(q) \in Int
  BY <1>1
<1>3. /\ SubSeq(q, n + 1, Len(q)) \in Seq(S)
      /\ Len(SubSeq(q, n + 1, Len(q))) = IF n + 1 <= Len(q) THEN Len(q) - (n + 1) + 1 ELSE 0
      /\ \A i \in 1..(Len(q) - (n + 1) + 1) : SubSeq(q, n + 1, Len(q))[i] = q[(n + 1) + i - 1]
  BY <1>1, <1>2, SubSeqProperties
<1>4. Len(After(n, q)) = IF n < Len(q) THEN Len(q) - n ELSE 0
  BY <1>1, <1>3 DEF After
<1>5. ASSUME NEW i \in 1..Len(After(n, q)) PROVE After(n, q)[i] = q[n + i]
  <2>1. i \in 1..(Len(q) - (n + 1) + 1) /\ (n + 1) + i - 1 = n + i
    BY <1>1, <1>4
  <2> QED BY <1>3, <2>1 DEF After
<1>6. After(n, q) \in Seq(S)
  BY <1>3 DEF After
<1>7. After(n, q) = <<>> <=> Len(After(n, q)) = 0
  BY <1>6, EmptySeq
<1>8. Len(After(n, q)) = 0 <=> Len(q) <= n
  BY <1>1, <1>4
<1> QED BY <1>4, <1>5, <1>6, <1>7, <1>8

\* Pieces of a stream, cut and put together.
LEMMA PieceFacts ==
  ASSUME NEW s \in Streams, NEW a \in 0..MaxUnits, NEW b \in 0..MaxUnits, a <= b
  PROVE  /\ Piece(s, a, b) \in Seq(Units) /\ Len(Piece(s, a, b)) = b - a
         /\ \A i \in 1..(b - a) : Piece(s, a, b)[i] = <<s, a + i>>
<1> USE StreamAssumption
<1>1. b - a \in Nat /\ \A i \in 1..(b - a) : a + i \in 1..MaxUnits
  OBVIOUS
<1>2. \A i \in 1..(b - a) : <<s, a + i>> \in Units
  BY <1>1 DEF Units
<1>3. Piece(s, a, b) \in [1..(b - a) -> Units]
  BY <1>2 DEF Piece
<1>4. Piece(s, a, b) \in Seq(Units)
  BY <1>1, <1>3, SeqDef
<1>5. DOMAIN Piece(s, a, b) = 1..(b - a)
  BY DEF Piece
<1>6. Len(Piece(s, a, b)) = b - a
  BY <1>1, <1>4, <1>5
<1> QED BY <1>4, <1>6 DEF Piece

\* A piece cut in two.
LEMMA PieceCut ==
  ASSUME NEW s \in Streams, NEW a \in 0..MaxUnits, NEW n \in 0..MaxUnits, a <= n, NEW size \in Nat
  PROVE  LET c == Cut(a, size, n) IN
         /\ c \in 0..MaxUnits /\ a <= c /\ c <= n
         /\ Upto(size, Piece(s, a, n)) = Piece(s, a, c)
         /\ After(size, Piece(s, a, n)) = Piece(s, c, n)
         /\ After(size, Piece(s, a, n)) = <<>> <=> n <= a + size
<1> USE StreamAssumption
<1> DEFINE c == Cut(a, size, n)  q == Piece(s, a, n)  u == Upto(size, q)  v == After(size, q)
<1>1. c \in 0..MaxUnits /\ a <= c /\ c <= n
  BY DEF Cut
<1>2. q \in Seq(Units) /\ Len(q) = n - a /\ \A i \in 1..(n - a) : q[i] = <<s, a + i>>
  BY PieceFacts
<1>3. Piece(s, a, c) \in Seq(Units) /\ Len(Piece(s, a, c)) = c - a
      /\ \A i \in 1..(c - a) : Piece(s, a, c)[i] = <<s, a + i>>
  BY <1>1, PieceFacts
<1>4. Piece(s, c, n) \in Seq(Units) /\ Len(Piece(s, c, n)) = n - c
      /\ \A i \in 1..(n - c) : Piece(s, c, n)[i] = <<s, c + i>>
  BY <1>1, PieceFacts
<1> HIDE DEF q
<1>5. u \in Seq(Units) /\ Len(u) = (IF size < Len(q) THEN size ELSE Len(q))
      /\ \A i \in 1..Len(u) : u[i] = q[i]
  BY <1>2, UptoFacts
<1>6. v \in Seq(Units) /\ Len(v) = (IF size < Len(q) THEN Len(q) - size ELSE 0)
      /\ (\A i \in 1..Len(v) : v[i] = q[size + i]) /\ (v = <<>> <=> Len(q) <= size)
  BY <1>2, AfterFacts
<1> HIDE DEF u, v
<1>7. Len(u) = c - a
  BY <1>2, <1>5 DEF Cut
<1>8. Len(v) = n - c /\ (Len(v) # 0 => c = a + size)
  BY <1>2, <1>6 DEF Cut
<1> HIDE DEF c
<1>9. u = Piece(s, a, c)
  <2>1. ASSUME NEW i \in 1..Len(u) PROVE u[i] = Piece(s, a, c)[i]
    <3>1. i \in 1..(c - a) /\ i \in 1..(n - a)
      BY <1>1, <1>7
    <3> QED BY <1>2, <1>3, <1>5, <3>1
  <2> QED BY <1>3, <1>5, <1>7, <2>1, SeqEqual
<1>10. v = Piece(s, c, n)
  <2>1. ASSUME NEW i \in 1..Len(v) PROVE v[i] = Piece(s, c, n)[i]
    <3>1. i \in 1..(n - c) /\ c = a + size /\ size + i \in 1..(n - a) /\ a + (size + i) = c + i
      BY <1>1, <1>8
    <3> QED BY <1>2, <1>4, <1>6, <3>1
  <2> QED BY <1>4, <1>6, <1>8, <2>1, SeqEqual
<1>11. v = <<>> <=> n <= a + size
  BY <1>2, <1>6
<1> QED BY <1>1, <1>9, <1>10, <1>11 DEF c, u, v, q

\* Two pieces put together.
LEMMA PiecesJoin ==
  ASSUME NEW s \in Streams, NEW a \in 0..MaxUnits, NEW b \in 0..MaxUnits, a <= b
  PROVE  Piece(s, 0, a) \o Piece(s, a, b) = Piece(s, 0, b)
<1> USE StreamAssumption
<1> DEFINE p == Piece(s, 0, a)  q == Piece(s, a, b)  t == Piece(s, 0, b)
<1>1. p \in Seq(Units) /\ Len(p) = a /\ \A i \in 1..a : p[i] = <<s, i>>
  <2>1. 0 \in 0..MaxUnits /\ 0 <= a /\ a - 0 = a /\ \A i \in 1..a : 0 + i = i
    OBVIOUS
  <2>2. p \in Seq(Units) /\ Len(p) = a - 0 /\ \A i \in 1..(a - 0) : p[i] = <<s, 0 + i>>
    BY <2>1, PieceFacts
  <2> HIDE DEF p
  <2> QED BY <2>1, <2>2
<1>2. q \in Seq(Units) /\ Len(q) = b - a /\ \A i \in 1..(b - a) : q[i] = <<s, a + i>>
  BY PieceFacts
<1>3. t \in Seq(Units) /\ Len(t) = b /\ \A i \in 1..b : t[i] = <<s, i>>
  <2>1. 0 \in 0..MaxUnits /\ 0 <= b /\ b - 0 = b /\ \A i \in 1..b : 0 + i = i
    OBVIOUS
  <2>2. t \in Seq(Units) /\ Len(t) = b - 0 /\ \A i \in 1..(b - 0) : t[i] = <<s, 0 + i>>
    BY <2>1, PieceFacts
  <2> HIDE DEF t
  <2> QED BY <2>1, <2>2
<1> HIDE DEF p, q, t
<1>4. /\ p \o q \in Seq(Units) /\ Len(p \o q) = Len(p) + Len(q)
      /\ \A i \in 1..(Len(p) + Len(q)) : (p \o q)[i] = IF i <= Len(p) THEN p[i] ELSE q[i - Len(p)]
  BY <1>1, <1>2, ConcatProperties
<1>5. Len(p \o q) = b
  BY <1>1, <1>2, <1>4
<1>6. ASSUME NEW i \in 1..b PROVE (p \o q)[i] = t[i]
  <2>0. i \in Nat /\ a \in Nat /\ i \in 1..(Len(p) + Len(q))
    BY <1>1, <1>2
  <2>1. CASE i <= a
    <3>1. i \in 1..a
      BY <2>0, <2>1
    <3>2. (p \o q)[i] = p[i]
      BY <1>1, <1>4, <2>0, <2>1
    <3> QED BY <1>1, <1>3, <3>1, <3>2
  <2>2. CASE i > a
    <3>1. i - a \in 1..(b - a) /\ a + (i - a) = i
      BY <2>2
    <3>2. (p \o q)[i] = q[i - a]
      BY <1>1, <1>2, <1>4, <2>2
    <3> QED BY <1>2, <1>3, <3>1, <3>2
  <2> QED BY <2>0, <2>1, <2>2
<1>7. p \o q = t
  BY <1>3, <1>4, <1>5, <1>6, SeqEqual
<1> QED BY <1>7 DEF p, q, t

\* A stream that is, or was, encrypted, field by field.
LEMMA SealingTyped ==
  ASSUME NEW e \in SealingRec
  PROVE  /\ e # Unsealed /\ e.pc \in {"more", "sealed", "refused"}
         /\ e.text \in Seq(Units) /\ e.left \in Seq(Units) /\ e.key \in DataKeys
         /\ e.header \in Headers /\ e.header.size \in ChunkSizes /\ e.header.size \in Nat \ {0}
         /\ e.counter \in 0..(LastCounter + 1) /\ e.counter \in Nat
         /\ e.body \in Seq(Cells) /\ Len(e.text) \in Nat
<1>1. e.pc # "none" /\ e.pc \in {"more", "sealed", "refused"}
  BY DEF SealingRec
<1>2. e # Unsealed
  BY <1>1 DEF Unsealed
<1>3. /\ e.text \in Seq(Units) /\ e.left \in Seq(Units) /\ e.key \in DataKeys
      /\ e.header \in Headers /\ e.counter \in 0..(LastCounter + 1) /\ e.body \in Seq(Cells)
  BY DEF SealingRec
<1>4. e.header.size \in ChunkSizes
  BY <1>3 DEF Headers
<1>5. Len(e.text) \in Nat
  BY <1>3, LenProperties
<1>6. e.header.size \in Nat \ {0}
  BY <1>4, StreamAssumption
<1>7. e.counter \in Nat
  BY <1>3, StreamAssumption
<1> QED BY <1>1, <1>2, <1>3, <1>4, <1>5, <1>6, <1>7

\* A chunk and its cells.
LEMMA ChunkFacts ==
  ASSUME NEW s \in Streams, NEW e \in SealingRec, e.header.prefix = s, Len(e.text) <= MaxUnits,
         NEW k \in 0..LastCounter, Start(e.header.size, k) <= Len(e.text)
  PROVE  LET size == e.header.size  n == Len(e.text)  a == Start(size, k)
             chunk == Chunk(s, size, n, k)  c == Cut(a, size, n) IN
         /\ a \in 0..MaxUnits /\ n \in 0..MaxUnits /\ c \in 0..MaxUnits /\ a <= c /\ c <= n
         /\ chunk \in Seq(Units) /\ Len(chunk) = c - a
         /\ \A p \in 1..(MaxUnits + 1) : Cell(s, e, k, p) \in Cells
<1> USE StreamAssumption
<1> DEFINE size == e.header.size  n == Len(e.text)  a == Start(size, k)
           chunk == Chunk(s, size, n, k)  c == Cut(a, size, n)
<1>0. size \in Nat /\ n \in Nat /\ n <= MaxUnits /\ k \in Nat
  BY SealingTyped
<1> HIDE DEF size, n
<1>1. n \in 0..MaxUnits /\ a \in Nat
  <2>1. n \in 0..MaxUnits
    BY <1>0
  <2>2. a \in Nat
    BY <1>0, StartFacts
  <2> QED BY <2>1, <2>2
<1>3. a <= n
  BY DEF n, size
<1> HIDE DEF a
<1>2. a \in 0..MaxUnits
  BY <1>1, <1>3
<1>4. c \in 0..MaxUnits /\ a <= c /\ c <= n
  BY <1>0, <1>1, <1>2, <1>3 DEF Cut
<1>5. chunk = Piece(s, a, c)
  BY DEF Chunk, a
<1> HIDE DEF c, chunk
<1>6. chunk \in Seq(Units) /\ Len(chunk) = c - a
  BY <1>2, <1>4, <1>5, PieceFacts
<1>7. ASSUME NEW p \in 1..(MaxUnits + 1) PROVE Cell(s, e, k, p) \in Cells
  <2> DEFINE last == n <= a + size
  <2>0. last \in BOOLEAN
    BY <1>0, <1>1
  <2>1. <<s, k, last>> \in Streams \X (0..LastCounter) \X BOOLEAN
    BY <2>0
  <2>2. <<e.header, s>> \in Headers \X Streams /\ e.key \in DataKeys
    BY SealingTyped
  <2>3. Cell(s, e, k, p) = [key |-> e.key, nonce |-> <<s, k, last>>, aad |-> <<e.header, s>>,
                            text |-> chunk, cell |-> p]
    BY DEF Cell, n, a, size, chunk
  <2>4. p \in 1..(MaxUnits + TagSize) /\ chunk \in Seq(Streams \X (1..MaxUnits))
    BY <1>6 DEF TagSize, Units
  <2> HIDE DEF last
  <2> QED BY <2>1, <2>2, <2>3, <2>4 DEF Cells
<1> QED BY <1>1, <1>2, <1>4, <1>6, <1>7 DEF c, chunk, n, a, size

\* The cells of a chunk as AESGCM.encrypt returns them.
LEMMA SealedFacts ==
  ASSUME NEW s \in Streams, NEW e \in SealingRec, e.header.prefix = s, Len(e.text) <= MaxUnits,
         NEW k \in 0..LastCounter, Start(e.header.size, k) <= Len(e.text)
  PROVE  LET size == e.header.size  n == Len(e.text)
             chunk == Chunk(s, size, n, k)
             cells == Sealed(e.key, Nonce(s, k, n <= Start(size, k) + size), <<e.header, s>>, chunk) IN
         /\ cells \in Seq(Cells) /\ Len(cells) = Len(chunk) + 1 /\ Len(chunk) + 1 \in 1..(MaxUnits + 1)
         /\ Len(chunk) \in Nat /\ \A p \in 1..(Len(chunk) + 1) : cells[p] = Cell(s, e, k, p)
<1> USE StreamAssumption
<1> DEFINE size == e.header.size  n == Len(e.text)  chunk == Chunk(s, size, n, k)
           cells == Sealed(e.key, Nonce(s, k, n <= Start(size, k) + size), <<e.header, s>>, chunk)
           m == Len(chunk) + 1
<1>1. m \in 1..(MaxUnits + 1) /\ Len(chunk) \in Nat
      /\ \A p \in 1..(MaxUnits + 1) : Cell(s, e, k, p) \in Cells
  <2> DEFINE a == Start(size, k)  c == Cut(a, size, n)
  <2>1. a \in 0..MaxUnits /\ c \in 0..MaxUnits /\ a <= c /\ Len(chunk) = c - a
        /\ \A p \in 1..(MaxUnits + 1) : Cell(s, e, k, p) \in Cells
    BY ChunkFacts
  <2> HIDE DEF a, c, chunk
  <2> QED BY <2>1
<1>2. cells = [p \in 1..m |-> Cell(s, e, k, p)]
  BY DEF Sealed, Nonce, Cell, TagSize
<1> HIDE DEF cells, m
<1>3. cells \in [1..m -> Cells] /\ m \in Nat
  BY <1>1, <1>2
<1>4. cells \in Seq(Cells)
  BY <1>3, SeqDef
<1>5. DOMAIN cells = 1..m
  BY <1>2
<1>6. Len(cells) = m
  BY <1>3, <1>4, <1>5
<1> QED BY <1>1, <1>2, <1>4, <1>6 DEF cells, m

\* Nothing is read yet as long as something is to be encrypted.
LEMMA SealingAlone ==
  ASSUME StreamInv, NEW s \in Streams, sealing[s] = Unsealed \/ sealing[s].pc = "more"
  PROVE  reading = NoReading
BY DEF StreamInv, SoundRead, Still

\* A step of one encryption.
LEMMA SealStep ==
  ASSUME StreamInv, NEW s \in Streams, reading = NoReading, UNCHANGED reading,
         NEW e \in SealingRec, SoundSeal(s, e), sealing' = [sealing EXCEPT ![s] = e]
  PROVE  StreamInv'
<1>1. sealing' \in [Streams -> SealingRec \cup {Unsealed}]
  BY DEF StreamInv
<1>2. ASSUME NEW t \in Streams, sealing'[t] # Unsealed PROVE SoundSeal(t, sealing'[t])
  <2>1. CASE t = s
    BY <2>1 DEF StreamInv
  <2>2. CASE t # s
    BY <1>2, <2>2 DEF StreamInv
  <2> QED BY <2>1, <2>2
<1> QED BY <1>1, <1>2 DEF StreamInv

\* Encryption starts: nothing is written yet.
LEMMA StartSealingStep == ASSUME StreamInv, NEW s \in Streams, StartSealing(s) PROVE StreamInv'
<1> USE StreamAssumption
<1>1. PICK n \in 0..MaxUnits, size \in ChunkSizes, key \in DataKeys :
        sealing' = [sealing EXCEPT ![s] =
          [pc |-> "more", text |-> Text(s, n), left |-> Text(s, n), key |-> key,
           header |-> Header(size, s), counter |-> 0, body |-> <<>>]]
  BY DEF StartSealing
<1> DEFINE e == [pc |-> "more", text |-> Text(s, n), left |-> Text(s, n), key |-> key,
                 header |-> Header(size, s), counter |-> 0, body |-> <<>>]
<1>2. Text(s, n) = Piece(s, 0, n)
  <2>1. n - 0 = n /\ \A i \in 1..n : 0 + i = i
    OBVIOUS
  <2> QED BY <2>1 DEF Text, Piece
<1>3. Text(s, n) \in Seq(Units) /\ Len(Text(s, n)) = n
  <2>1. 0 \in 0..MaxUnits /\ 0 <= n /\ n - 0 = n
    OBVIOUS
  <2> QED BY <1>2, <2>1, PieceFacts
<1>4. Header(size, s) \in Headers /\ Header(size, s).size = size /\ Header(size, s).prefix = s
  BY DEF Header, Headers
<1>5. 0 \in 0..(LastCounter + 1) /\ <<>> \in Seq(Cells) /\ Len(<<>>) = 0
  BY EmptySeq
<1>6. e \in SealingRec
  BY <1>3, <1>4, <1>5 DEF SealingRec
<1>7. /\ e.pc = "more" /\ e.text = Text(s, n) /\ e.left = Text(s, n) /\ e.header = Header(size, s)
      /\ e.counter = 0 /\ e.body = <<>>
  OBVIOUS
<1> HIDE DEF e
<1>8. size \in Nat /\ Start(size, 0) = 0 /\ Start(size + 1, 0) = 0
  BY StartFacts
<1>9. Unfinished(s, e)
  BY <1>2, <1>3, <1>4, <1>5, <1>7, <1>8 DEF Unfinished
<1>10. Laid(s, e)
  BY <1>5, <1>7 DEF Laid
<1>11. SoundSeal(s, e)
  BY <1>2, <1>3, <1>4, <1>7, <1>9, <1>10 DEF SoundSeal
<1>12. reading = NoReading /\ UNCHANGED reading
  BY SealingAlone DEF StartSealing
<1>13. sealing' = [sealing EXCEPT ![s] = e]
  BY <1>1 DEF e
<1> QED BY <1>6, <1>11, <1>12, <1>13, SealStep

\* A sequence with another behind it.
LEMMA Behind ==
  ASSUME NEW S, NEW b \in Seq(S), NEW c \in Seq(S)
  PROVE  /\ Len(b) \in Nat /\ Len(c) \in Nat /\ b \o c \in Seq(S) /\ Len(b \o c) = Len(b) + Len(c)
         /\ \A i \in 1..Len(b) : i \in 1..Len(b \o c) /\ (b \o c)[i] = b[i]
         /\ \A p \in 1..Len(c) : Len(b) + p \in 1..Len(b \o c) /\ (b \o c)[Len(b) + p] = c[p]
         /\ \A i \in 1..Len(b \o c) : i \in 1..Len(b) \/ \E p \in 1..Len(c) : i = Len(b) + p
<1>1. Len(b) \in Nat /\ Len(c) \in Nat
  BY LenProperties
<1>2. /\ b \o c \in Seq(S) /\ Len(b \o c) = Len(b) + Len(c)
      /\ \A i \in 1..(Len(b) + Len(c)) : (b \o c)[i] = IF i <= Len(b) THEN b[i] ELSE c[i - Len(b)]
  BY ConcatProperties
<1> DEFINE m == Len(b)  n == Len(c)  d == b \o c
<1>3. m \in Nat /\ n \in Nat /\ Len(d) = m + n
      /\ \A i \in 1..(m + n) : d[i] = IF i <= m THEN b[i] ELSE c[i - m]
  BY <1>1, <1>2
<1> HIDE DEF m, n, d
<1>4. ASSUME NEW i \in 1..m PROVE i \in 1..Len(d) /\ d[i] = b[i]
  <2>1. i \in 1..(m + n) /\ i <= m
    BY <1>3
  <2> QED BY <1>3, <2>1
<1>5. ASSUME NEW p \in 1..n PROVE m + p \in 1..Len(d) /\ d[m + p] = c[p]
  <2>1. m + p \in 1..(m + n) /\ ~ (m + p <= m) /\ (m + p) - m = p
    BY <1>3
  <2> QED BY <1>3, <2>1
<1>6. ASSUME NEW i \in 1..Len(d) PROVE i \in 1..m \/ \E p \in 1..n : i = m + p
  <2>1. i \in 1..m \/ (i - m \in 1..n /\ i = m + (i - m))
    BY <1>3
  <2> QED BY <2>1
<1> QED BY <1>1, <1>2, <1>4, <1>5, <1>6 DEF m, n, d

\* d is e with one more chunk, of m cells.
Grown(s, e, d, cells, m) ==
    /\ d.key = e.key /\ d.header = e.header /\ d.text = e.text /\ e.counter <= LastCounter
    /\ d.counter = e.counter + 1 /\ d.body = e.body \o cells /\ Len(cells) = m
    /\ m = Len(Chunk(s, e.header.size, Len(e.text), e.counter)) + 1
    /\ \A p \in 1..m : cells[p] = Cell(s, e, e.counter, p)

\* The chunks are one after the other, with the new one behind them.
LEMMA LaidGrows ==
  ASSUME NEW s \in Streams, NEW e \in SealingRec, SoundSeal(s, e), Unfinished(s, e),
         NEW d \in SealingRec, NEW cells \in Seq(Cells), NEW m \in 1..(MaxUnits + 1),
         Grown(s, e, d, cells, m)
  PROVE  Laid(s, d) /\ Len(d.body) = Len(e.body) + m
<1> USE StreamAssumption
<1> DEFINE size == e.header.size  n == Len(e.text)  c == e.counter  b == e.body  w == Start(size + 1, c)
<1>1. size \in Nat /\ n \in Nat /\ c \in Nat /\ b \in Seq(Cells) /\ m \in Nat
  BY SealingTyped
<1>2. Start(size, c) <= n /\ Laid(s, e) /\ Len(b) = w
  BY DEF SoundSeal, Unfinished
<1>3. /\ Len(d.body) = Len(b) + m
      /\ \A i \in 1..Len(b) : i \in 1..Len(d.body) /\ d.body[i] = b[i]
      /\ \A p \in 1..m : w + p \in 1..Len(d.body) /\ d.body[w + p] = cells[p]
      /\ \A i \in 1..Len(d.body) : i \in 1..Len(b) \/ \E p \in 1..m : i = w + p
  <2>1. d.body = b \o cells /\ Len(cells) = m
    BY DEF Grown
  <2>2. /\ Len(b \o cells) = Len(b) + Len(cells)
        /\ \A i \in 1..Len(b) : i \in 1..Len(b \o cells) /\ (b \o cells)[i] = b[i]
        /\ \A p \in 1..Len(cells) : Len(b) + p \in 1..Len(b \o cells) /\ (b \o cells)[Len(b) + p] = cells[p]
        /\ \A i \in 1..Len(b \o cells) : i \in 1..Len(b) \/ \E p \in 1..Len(cells) : i = Len(b) + p
    <3> HIDE DEF b
    <3>1. b \in Seq(Cells)
      BY <1>1
    <3> QED BY <3>1, Behind
  <2> HIDE DEF b, w
  <2> QED BY <1>2, <2>1, <2>2
<1>4. \A k \in 0..c : k \in 0..(c - 1) \/ k = c
  BY <1>1
<1>4a. d.counter = c + 1
  BY DEF Grown
<1>5. c \in 0..c /\ (\A k \in 0..(c - 1) : k \in 0..c) /\ d.counter - 1 = c
      /\ \A p \in 1..m : p \in 1..(MaxUnits + 1)
  BY <1>1, <1>4a
<1>6. \A k, p : Cell(s, d, k, p) = Cell(s, e, k, p)
  BY DEF Cell, Grown
<1>7. /\ \A k \in 0..(c - 1) :
           /\ Start(size, k) <= n
           /\ \A p \in 1..(Len(Chunk(s, size, n, k)) + 1) :
                /\ Start(size + 1, k) + p \in 1..Len(b)
                /\ b[Start(size + 1, k) + p] = Cell(s, e, k, p)
      /\ \A i \in 1..Len(b) : \E k \in 0..(c - 1), p \in 1..(MaxUnits + 1) : b[i] = Cell(s, e, k, p)
  BY <1>2 DEF Laid
<1>8. m = Len(Chunk(s, size, n, c)) + 1 /\ \A p \in 1..m : cells[p] = Cell(s, e, c, p)
  BY DEF Grown
<1>9. d.header.size = size /\ Len(d.text) = n
  BY DEF Grown
<1> HIDE DEF size, n, c, b, w
<1>10. ASSUME NEW k \in 0..c
       PROVE  /\ Start(size, k) <= n
              /\ \A p \in 1..(Len(Chunk(s, size, n, k)) + 1) :
                   /\ Start(size + 1, k) + p \in 1..Len(d.body)
                   /\ d.body[Start(size + 1, k) + p] = Cell(s, d, k, p)
  <2>1. CASE k \in 0..(c - 1)
    <3>1. ASSUME NEW p \in 1..(Len(Chunk(s, size, n, k)) + 1)
          PROVE  /\ Start(size + 1, k) + p \in 1..Len(d.body)
                 /\ d.body[Start(size + 1, k) + p] = Cell(s, d, k, p)
      <4> DEFINE i == Start(size + 1, k) + p
      <4>1. i \in 1..Len(b) /\ b[i] = Cell(s, e, k, p)
        BY <1>7, <2>1
      <4> HIDE DEF i
      <4>2. i \in 1..Len(d.body) /\ d.body[i] = b[i]
        BY <1>3, <4>1
      <4> QED BY <1>6, <4>1, <4>2 DEF i
    <3> QED BY <1>7, <2>1, <3>1
  <2>2. CASE k = c
    BY <1>2, <1>3, <1>6, <1>8, <2>2 DEF w
  <2> QED BY <1>4, <2>1, <2>2
<1>11. ASSUME NEW i \in 1..Len(d.body)
       PROVE  \E k \in 0..c, p \in 1..(MaxUnits + 1) : d.body[i] = Cell(s, d, k, p)
  <2>1. CASE i \in 1..Len(b)
    <3>1. PICK k \in 0..(c - 1), p \in 1..(MaxUnits + 1) : b[i] = Cell(s, e, k, p)
      BY <1>7, <2>1
    <3>2. k \in 0..c /\ d.body[i] = Cell(s, d, k, p)
      BY <1>3, <1>5, <1>6, <2>1, <3>1
    <3> QED BY <3>2
  <2>2. CASE \E p \in 1..m : i = w + p
    <3>1. PICK p \in 1..m : i = w + p
      BY <2>2
    <3>2. d.body[i] = Cell(s, d, c, p) /\ p \in 1..(MaxUnits + 1)
      BY <1>3, <1>5, <1>6, <1>8, <3>1
    <3> QED BY <1>5, <3>2
  <2> QED BY <1>3, <2>1, <2>2
<1>12. Laid(s, d)
  BY <1>5, <1>9, <1>10, <1>11 DEF Laid
<1> QED BY <1>3, <1>12 DEF b

\* One more chunk is sealed.
LEMMA SealChunkStep == ASSUME StreamInv, NEW s \in Streams, SealChunk(s) PROVE StreamInv'
<1> USE StreamAssumption
<1> DEFINE e == sealing[s]  size == e.header.size  n == Len(e.text)  c == e.counter
           a == Start(size, c)  chunk == Chunk(s, size, n, c)  last == n <= a + size
           cells == Sealed(e.key, Nonce(s, c, last), <<e.header, s>>, chunk)
           left == Piece(s, Cut(a, size, n), n)
           pc == IF last THEN "sealed" ELSE "more"
           d == [e EXCEPT !.body = e.body \o cells, !.left = left, !.counter = c + 1, !.pc = pc]
           m == Len(chunk) + 1
<1>1. e.pc = "more" /\ c <= LastCounter /\ UNCHANGED reading
  BY DEF SealChunk
<1>2. e \in SealingRec /\ SoundSeal(s, e) /\ sealing \in [Streams -> SealingRec \cup {Unsealed}]
  BY <1>1 DEF StreamInv, Unsealed
<1>3. reading = NoReading
  BY <1>1, SealingAlone
<1>4. /\ size \in Nat /\ n \in Nat /\ c \in Nat /\ c \in 0..LastCounter /\ e.body \in Seq(Cells)
      /\ e.key \in DataKeys /\ e.header \in Headers /\ e.text \in Seq(Units)
  BY <1>1, <1>2, SealingTyped
<1>5. /\ Unfinished(s, e) /\ e.header.prefix = s /\ n <= MaxUnits /\ e.text = Piece(s, 0, n)
      /\ a <= n /\ (c > 0 => a < n) /\ e.left = Piece(s, a, n) /\ Len(e.body) = Start(size + 1, c)
  BY <1>1, <1>2 DEF SoundSeal, Unfinished
<1>6. /\ a \in 0..MaxUnits /\ n \in 0..MaxUnits /\ Cut(a, size, n) \in 0..MaxUnits
      /\ a <= Cut(a, size, n) /\ Cut(a, size, n) <= n /\ Len(chunk) = Cut(a, size, n) - a
  BY <1>2, <1>4, <1>5, ChunkFacts
<1>7. /\ cells \in Seq(Cells) /\ Len(cells) = m /\ m \in 1..(MaxUnits + 1)
      /\ \A p \in 1..m : cells[p] = Cell(s, e, c, p)
  BY <1>2, <1>4, <1>5, SealedFacts
<1>8. /\ Upto(size, e.left) = chunk /\ After(size, e.left) = left
      /\ (After(size, e.left) = <<>> <=> last)
  <2> HIDE DEF a, n, size
  <2>1. /\ Upto(size, Piece(s, a, n)) = Piece(s, a, Cut(a, size, n))
        /\ After(size, Piece(s, a, n)) = Piece(s, Cut(a, size, n), n)
        /\ After(size, Piece(s, a, n)) = <<>> <=> n <= a + size
    <3>1. a \in 0..MaxUnits /\ n \in 0..MaxUnits /\ a <= n /\ size \in Nat
      BY <1>4, <1>5, <1>6
    <3> HIDE DEF e, c, chunk, last, cells, left, pc, d, m
    <3> QED BY <3>1, PieceCut
  <2>2. chunk = Piece(s, a, Cut(a, size, n))
    BY DEF Chunk, a
  <2> QED BY <1>5, <2>1, <2>2
<1>9. sealing' = [sealing EXCEPT ![s] = d]
  <2> DEFINE over == After(size, e.left) = <<>>
  <2>1. sealing' = [sealing EXCEPT
            ![s].body = @ \o Sealed(e.key, Nonce(s, c, over), <<e.header, s>>, Upto(size, e.left)),
            ![s].left = After(size, e.left), ![s].counter = @ + 1,
            ![s].pc = IF over THEN "sealed" ELSE @]
    BY DEF SealChunk
  <2>2. over = last
    BY <1>8
  <2>3. Sealed(e.key, Nonce(s, c, over), <<e.header, s>>, Upto(size, e.left)) = cells
    BY <1>8, <2>2
  <2>4. (IF over THEN "sealed" ELSE e.pc) = pc
    BY <1>1, <2>2
  <2> HIDE DEF cells, pc, left
  <2>5. sealing' = [sealing EXCEPT ![s].body = @ \o cells, ![s].left = left,
                                   ![s].counter = @ + 1, ![s].pc = IF over THEN "sealed" ELSE @]
    BY <1>8, <2>1, <2>3
  <2> HIDE DEF over
  <2>6. \A q \in SealingRec : [q EXCEPT !.body = q.body \o cells, !.left = left, !.counter = q.counter + 1,
                                      !.pc = IF over THEN "sealed" ELSE q.pc]
                  = [q EXCEPT !.body = @ \o cells, !.left = left, !.counter = @ + 1,
                              !.pc = IF over THEN "sealed" ELSE @]
    BY DEF SealingRec
  <2> QED BY <1>2, <2>4, <2>5, <2>6
<1> HIDE DEF cells, left, last
<1>10. left \in Seq(Units)
  BY <1>6, PieceFacts DEF left
<1>11. e.body \o cells \in Seq(Cells)
  BY <1>4, <1>7, Behind
<1>12. pc \in {"more", "sealed", "refused"} /\ c + 1 \in 0..(LastCounter + 1)
  BY <1>4
<1> HIDE DEF pc
<1>13. /\ d \in SealingRec /\ d.key = e.key /\ d.header = e.header /\ d.text = e.text
       /\ d.body = e.body \o cells /\ d.left = left /\ d.counter = c + 1 /\ d.pc = pc
  BY <1>2, <1>10, <1>11, <1>12 DEF SealingRec
<1> HIDE DEF d
<1>14. Grown(s, e, d, cells, m)
  BY <1>1, <1>7, <1>13 DEF Grown
<1> HIDE DEF m
<1>15. Laid(s, d) /\ Len(d.body) = Len(e.body) + m
  <2> HIDE DEF e
  <2>1. e \in SealingRec /\ SoundSeal(s, e) /\ Unfinished(s, e) /\ d \in SealingRec
    BY <1>2, <1>5, <1>13
  <2>2. cells \in Seq(Cells) /\ m \in 1..(MaxUnits + 1)
    BY <1>7
  <2> QED BY <1>14, <2>1, <2>2, LaidGrows
<1>16. d.header.size = size /\ Len(d.text) = n /\ d.header.prefix = s /\ d.text = Piece(s, 0, n)
  BY <1>5, <1>13
<1>17. /\ Start(size + 1, c) = a + c /\ Start(size, c + 1) = a + size /\ a \in Nat
       /\ Start(size + 1, c + 1) = Start(size + 1, c) + (size + 1)
  <2> HIDE DEF size, c, n
  <2>1. /\ Start(size + 1, c) = Start(size, c) + c /\ Start(size, c + 1) = Start(size, c) + size
        /\ Start(size, c) \in Nat
    BY <1>4, StartFacts
  <2>2. size + 1 \in Nat
    BY <1>4
  <2>3. Start(size + 1, c + 1) = Start(size + 1, c) + (size + 1)
    BY <1>4, <2>2, StartFacts
  <2> QED BY <2>1, <2>3 DEF a
<1>18. m = (Cut(a, size, n) - a) + 1
  BY <1>6 DEF m
<1>19. CASE last
  <2>1. pc = "sealed" /\ n <= a + size /\ Cut(a, size, n) = n
    BY <1>4, <1>17, <1>19 DEF pc, last, Cut
  <2>2. Len(d.body) = n + (c + 1)
    <3> HIDE DEF a, n, c, size
    <3> QED BY <1>4, <1>5, <1>15, <1>17, <1>18, <2>1
  <2>3. (c + 1) - 1 = c /\ c + 1 > 0 /\ (c + 1 > 1 => c > 0)
    BY <1>4
  <2>4. Finished(s, d)
    BY <1>5, <1>13, <1>16, <2>1, <2>2, <2>3 DEF Finished
  <2>5. SoundSeal(s, d)
    BY <1>5, <1>13, <1>15, <1>16, <2>1, <2>4 DEF SoundSeal
  <2> QED BY <1>1, <1>3, <1>9, <1>13, <2>5, SealStep
<1>20. CASE ~ last
  <2>1. pc = "more" /\ a + size < n /\ Cut(a, size, n) = a + size
    BY <1>4, <1>17, <1>20 DEF pc, last, Cut
  <2>2. Len(d.body) = Start(size + 1, c + 1)
    <3> HIDE DEF a, n, c, size
    <3> QED BY <1>4, <1>5, <1>15, <1>17, <1>18, <2>1
  <2>3. left = Piece(s, Start(size, c + 1), n) /\ Start(size, c + 1) < n /\ Start(size, c + 1) <= n
    <3> HIDE DEF a, n, c, size
    <3> QED BY <1>4, <1>17, <2>1 DEF left
  <2>4. Unfinished(s, d)
    BY <1>13, <1>16, <2>2, <2>3 DEF Unfinished
  <2>5. SoundSeal(s, d)
    BY <1>5, <1>13, <1>15, <1>16, <2>1, <2>4 DEF SoundSeal
  <2> QED BY <1>1, <1>3, <1>9, <1>13, <2>5, SealStep
<1> QED BY <1>19, <1>20

\* There is no counter left.
LEMMA RefuseChunkStep == ASSUME StreamInv, NEW s \in Streams, RefuseChunk(s) PROVE StreamInv'
<1> DEFINE e == sealing[s]  d == [e EXCEPT !.pc = "refused"]
<1>1. e.pc = "more" /\ UNCHANGED reading /\ sealing' = [sealing EXCEPT ![s] = d]
  BY DEF RefuseChunk
<1>2. e \in SealingRec /\ SoundSeal(s, e) /\ reading = NoReading
  BY <1>1, SealingAlone DEF StreamInv, Unsealed
<1>3. /\ d \in SealingRec /\ d.key = e.key /\ d.header = e.header /\ d.text = e.text /\ d.pc = "refused"
      /\ d.body = e.body /\ d.left = e.left /\ d.counter = e.counter
  BY <1>2 DEF SealingRec
<1> HIDE DEF d
<1>4. Laid(s, d)
  <2>1. \A k, p : Cell(s, d, k, p) = Cell(s, e, k, p)
    BY <1>3 DEF Cell
  <2>2. Laid(s, e)
    BY <1>2 DEF SoundSeal
  <2> QED BY <1>3, <2>1, <2>2 DEF Laid
<1>5. Unfinished(s, d)
  BY <1>1, <1>2, <1>3 DEF SoundSeal, Unfinished
<1>6. SoundSeal(s, d)
  BY <1>2, <1>3, <1>4, <1>5 DEF SoundSeal
<1> QED BY <1>1, <1>2, <1>3, <1>6, SealStep

\* The decryption, field by field.
LEMMA ReadingTyped ==
  ASSUME StreamInv, reading # NoReading
  PROVE  LET e == sealing[reading.of] IN
         /\ reading \in ReadingRec /\ reading.of \in Streams /\ reading.key \in DataKeys
         /\ reading.header \in Headers \cup {Junk} /\ reading.counter \in Nat
         /\ reading.out \in Seq(Units) /\ reading.whole \in BOOLEAN
         /\ SoundRead(e) /\ e \in SealingRec /\ SoundSeal(reading.of, e) /\ Still
<1>1. reading \in ReadingRec /\ SoundRead(sealing[reading.of]) /\ Still
  BY DEF StreamInv, SoundRead
<1>2. /\ reading.of \in Streams /\ reading.key \in DataKeys /\ reading.header \in Headers \cup {Junk}
      /\ reading.counter \in 0..(LastCounter + 1) /\ reading.out \in Seq(Units) /\ reading.whole \in BOOLEAN
  BY <1>1 DEF ReadingRec
<1>3. reading.counter \in Nat
  BY <1>2, StreamAssumption
<1>4. sealing[reading.of] # Unsealed
  BY <1>1, <1>2 DEF Still
<1>5. sealing[reading.of] \in SealingRec /\ SoundSeal(reading.of, sealing[reading.of])
  BY <1>2, <1>4 DEF StreamInv
<1> QED BY <1>1, <1>2, <1>3, <1>5

\* Bodies consist of what was written.
LEMMA BodyWritten ==
  ASSUME StreamInv, NEW t \in Streams, sealing[t] # Unsealed
  PROVE  sealing[t].body \in Seq(Written) /\ sealing[t] \in SealingRec
<1> DEFINE e == sealing[t]
<1>1. e \in SealingRec /\ SoundSeal(t, e)
  BY DEF StreamInv
<1>2. e.body \in Seq(Cells) /\ Len(e.body) \in Nat
  BY <1>1, SealingTyped, LenProperties
<1>3. ASSUME NEW i \in 1..Len(e.body) PROVE e.body[i] \in Written
  <2>1. PICK k \in 0..(e.counter - 1), p \in 1..(MaxUnits + 1) : e.body[i] = Cell(t, e, k, p)
    BY <1>1 DEF SoundSeal, Laid
  <2>2. e.body[i] \in Cells
    BY <1>2, ElementOfSeq
  <2> QED BY <2>1, <2>2 DEF Written
<1>4. DOMAIN e.body = 1..Len(e.body) /\ e.body = [i \in 1..Len(e.body) |-> e.body[i]]
  BY <1>2, LenProperties
<1>5. e.body \in [1..Len(e.body) -> Written]
  BY <1>3, <1>4
<1>6. e.body \in Seq(Written)
  BY <1>2, <1>5, SeqDef
<1> QED BY <1>1, <1>6

\* What was written consists of cells of chunks.
LEMMA WrittenCells == Written \subseteq Cells
BY DEF Written

\* A sequence after nothing, and after one part and another.
LEMMA AfterAfter ==
  ASSUME NEW S, NEW q \in Seq(S), NEW m \in Nat, NEW n \in Nat
  PROVE  After(0, q) = q /\ After(n, After(m, q)) = After(m + n, q)
<1> DEFINE u == After(m, q)  v == After(n, u)  z == After(m + n, q)
<1>1. Len(q) \in Nat /\ m + n \in Nat
  BY LenProperties
<1>2. /\ u \in Seq(S) /\ Len(u) = (IF m < Len(q) THEN Len(q) - m ELSE 0)
      /\ \A i \in 1..Len(u) : u[i] = q[m + i]
  BY AfterFacts
<1> HIDE DEF u
<1>3. /\ v \in Seq(S) /\ Len(v) = (IF n < Len(u) THEN Len(u) - n ELSE 0)
      /\ \A i \in 1..Len(v) : v[i] = u[n + i]
  BY <1>2, AfterFacts
<1> HIDE DEF v
<1>4. /\ z \in Seq(S) /\ Len(z) = (IF m + n < Len(q) THEN Len(q) - (m + n) ELSE 0)
      /\ \A i \in 1..Len(z) : z[i] = q[(m + n) + i]
  BY <1>1, AfterFacts
<1> HIDE DEF z
<1>5. Len(v) = Len(z)
  BY <1>1, <1>2, <1>3, <1>4
<1>6. ASSUME NEW i \in 1..Len(v) PROVE v[i] = z[i]
  <2>1. n + i \in 1..Len(u) /\ m + (n + i) = (m + n) + i
    BY <1>1, <1>2, <1>3
  <2>2. v[i] = q[m + (n + i)]
    BY <1>2, <1>3, <2>1
  <2> QED BY <1>4, <1>5, <2>1, <2>2
<1>7. v = z
  BY <1>3, <1>4, <1>5, <1>6, SeqEqual
<1>8. After(0, q) = q
  BY SubSeqFull DEF After
<1> QED BY <1>7, <1>8 DEF u, v, z

\* The storage returns what was written, in any order, or junk.
LEMMA FetchStep ==
  ASSUME StreamInv, NEW s \in Streams, Stored(s), NEW key \in DataKeys,
         NEW header \in Headers \cup {Junk}, NEW body \in Seq(Written \cup {Junk}),
         Fetch(s, key, header, body)
  PROVE  StreamInv'
<1> USE StreamAssumption
<1> DEFINE e == sealing[s]  size == e.header.size  n == Len(e.text)
           whole == key = e.key /\ header = e.header /\ body = e.body
           r == [pc |-> "start", of |-> s, key |-> key, header |-> header, rest |-> body,
                 counter |-> 0, out |-> <<>>, whole |-> whole]
<1>1. reading' = r /\ sealing' = sealing
  BY DEF Fetch
<1>2. Still /\ e.pc = "sealed" /\ \A t \in Streams : sealing[t] # Unsealed
  BY DEF Stored, Still, Unsealed
<1>3. e \in SealingRec /\ SoundSeal(s, e)
  BY <1>2 DEF StreamInv
<1>4. /\ size \in Nat /\ n \in Nat /\ n <= MaxUnits /\ e.counter > 0 /\ e.counter \in Nat
      /\ e.body \in Seq(Cells)
  BY <1>2, <1>3, SealingTyped DEF SoundSeal, Finished
<1>5. body \in Seq(Cells \cup {Junk})
  <2>1. Written \cup {Junk} \subseteq Cells \cup {Junk}
    BY WrittenCells
  <2> QED BY <2>1, SeqMonotonic
<1>6. r \in ReadingRec
  <2>1. <<>> \in Seq(Units) /\ 0 \in 0..(LastCounter + 1) /\ whole \in BOOLEAN
    BY EmptySeq
  <2> HIDE DEF whole
  <2> QED BY <1>5, <2>1 DEF ReadingRec
<1>7. /\ r.pc = "start" /\ r.of = s /\ r.key = key /\ r.header = header /\ r.rest = body
      /\ r.counter = 0 /\ r.out = <<>> /\ r.whole = whole /\ r # NoReading
  BY DEF NoReading
<1> HIDE DEF r
<1>8. Start(size, 0) = 0 /\ Start(size + 1, 0) = 0
  <2>1. size + 1 \in Nat /\ 0 \in Nat
    BY <1>4
  <2> HIDE DEF size
  <2> QED BY <1>4, <2>1, StartFacts
<1>9. Piece(s, 0, Reach(size, 0, n)) = <<>>
  <2>1. Reach(size, 0, n) = 0
    <3> HIDE DEF size, n
    <3> QED BY <1>4, <1>8 DEF Reach
  <2>2. 0 \in 0..MaxUnits /\ 0 <= 0 /\ 0 - 0 = 0
    OBVIOUS
  <2>3. Piece(s, 0, 0) \in Seq(Units) /\ Len(Piece(s, 0, 0)) = 0
    BY <2>2, PieceFacts
  <2> QED BY <2>1, <2>3, EmptySeq
<1>10. whole => body = After(Start(size + 1, 0), e.body)
  BY <1>4, <1>8, AfterAfter
<1>11. SoundRead(sealing[reading.of])'
  <2>1. Written' = Written /\ Still'
    BY <1>1, <1>2 DEF Written, Still
  <2>2. reading'.of = s /\ sealing'[s] = e
    BY <1>1, <1>7
  <2> HIDE DEF e, whole
  <2>3. /\ 0 <= e.counter /\ 0 < e.counter
    BY <1>4
  <2>4. whole => key = e.key /\ header = e.header
    BY DEF whole
  <2> QED BY <1>1, <1>2, <1>7, <1>9, <1>10, <2>1, <2>2, <2>3, <2>4 DEF SoundRead
<1> QED BY <1>1, <1>6, <1>11 DEF StreamInv

\* Another body, a damaged one, or another header or key.
LEMMA FetchSteps ==
  ASSUME StreamInv, NEW s \in Streams, FetchBody(s) \/ FetchRotten(s) \/ FetchOther(s)
  PROVE  StreamInv'
<1> DEFINE S == Written \cup {Junk}
<1>1. Stored(s) /\ \A t \in Streams : sealing[t] # Unsealed
  BY DEF FetchBody, FetchRotten, FetchOther, Stored, Unsealed
<1>2. \A t \in Streams : sealing[t].body \in Seq(S) /\ sealing[t] \in SealingRec
  <2> SUFFICES ASSUME NEW t \in Streams PROVE sealing[t].body \in Seq(S) /\ sealing[t] \in SealingRec
    OBVIOUS
  <2>1. sealing[t].body \in Seq(Written) /\ sealing[t] \in SealingRec
    BY <1>1, BodyWritten
  <2>2. Written \subseteq S
    OBVIOUS
  <2> HIDE DEF S
  <2> QED BY <2>1, <2>2, SeqMonotonic
<1>3. sealing[s].key \in DataKeys /\ sealing[s].header \in Headers \cup {Junk}
  BY <1>2, SealingTyped
<1> HIDE DEF S
<1>4. CASE FetchBody(s)
  <2> DEFINE b == sealing[s].body
  <2>1. PICK t \in Streams : \E i, j \in 0..Len(b), k, l \in 0..Len(sealing[t].body) :
          i <= j /\ k <= l /\
          Fetch(s, sealing[s].key, sealing[s].header,
                Upto(i, b) \o SubSeq(sealing[t].body, k + 1, l) \o After(j, b))
    BY <1>4 DEF FetchBody
  <2> DEFINE c == sealing[t].body
  <2>2. b \in Seq(S) /\ c \in Seq(S) /\ Len(b) \in Nat /\ Len(c) \in Nat
    BY <1>2, LenProperties
  <2>3. PICK i \in 0..Len(b), j \in 0..Len(b), k \in 0..Len(c), l \in 0..Len(c) :
          Fetch(s, sealing[s].key, sealing[s].header, Upto(i, b) \o SubSeq(c, k + 1, l) \o After(j, b))
    BY <2>1
  <2> HIDE DEF b, c
  <2>4. Upto(i, b) \in Seq(S)
    <3>1. i \in Nat
      BY <2>2
    <3> QED BY <2>2, <3>1, UptoFacts
  <2>5. After(j, b) \in Seq(S)
    <3>1. j \in Nat
      BY <2>2
    <3> QED BY <2>2, <3>1, AfterFacts
  <2>6. SubSeq(c, k + 1, l) \in Seq(S)
    <3>1. k + 1 \in Int /\ l \in Int /\ \A x \in (k + 1)..l : x \in 1..Len(c)
      BY <2>2
    <3>2. \A x \in (k + 1)..l : c[x] \in S
      BY <2>2, <3>1, ElementOfSeq
    <3> QED BY <3>1, <3>2, SubSeqProperties
  <2>7. Upto(i, b) \o SubSeq(c, k + 1, l) \o After(j, b) \in Seq(S)
    <3>1. Upto(i, b) \o SubSeq(c, k + 1, l) \in Seq(S)
      BY <2>4, <2>6, Behind
    <3> QED BY <2>5, <3>1, Behind
  <2> QED BY <1>1, <1>3, <2>3, <2>7, FetchStep DEF S
<1>5. CASE FetchRotten(s)
  <2> DEFINE b == sealing[s].body
  <2>1. PICK i \in DOMAIN b : Fetch(s, sealing[s].key, sealing[s].header, [b EXCEPT ![i] = Junk])
    BY <1>5 DEF FetchRotten
  <2>2. b \in Seq(S)
    BY <1>2
  <2> HIDE DEF b
  <2>3. i \in 1..Len(b) /\ Junk \in S
    BY <2>2, LenProperties DEF S
  <2>4. [b EXCEPT ![i] = Junk] \in Seq(S)
    BY <2>2, <2>3, ExceptSeq
  <2> QED BY <1>1, <1>3, <2>1, <2>4, FetchStep DEF S
<1>6. CASE FetchOther(s)
  <2>1. PICK key \in DataKeys, header \in Headers \cup {Junk}, t \in Streams :
          Fetch(s, key, header, sealing[t].body)
    BY <1>6 DEF FetchOther
  <2> QED BY <1>1, <1>2, <2>1, FetchStep DEF S
<1> QED BY <1>4, <1>5, <1>6

\* A step of decryption.
LEMMA ReadStep ==
  ASSUME StreamInv, reading # NoReading, NEW r \in ReadingRec, reading' = r, UNCHANGED sealing,
         r # NoReading, r.of = reading.of,
         LET e == sealing[reading.of]  size == e.header.size  n == Len(e.text) IN
         /\ r.counter <= e.counter /\ (r.counter > 0 => r.header = e.header)
         /\ r.rest \in Seq(Written \cup {Junk})
         /\ r.out = Piece(r.of, 0, Reach(size, r.counter, n))
         /\ r.pc = "start" => r.counter = 0
         /\ r.pc = "more" => r.rest # <<>> /\ r.header \in Headers
         /\ r.pc = "done" => r.out = e.text
         /\ r.whole => /\ r.pc # "refused" /\ r.key = e.key /\ r.header = e.header
                       /\ r.pc # "done" => /\ r.counter < e.counter
                                           /\ r.rest = After(Start(size + 1, r.counter), e.body)
  PROVE  StreamInv'
<1> DEFINE e == sealing[reading.of]
<1>1. Written' = Written /\ Still' /\ e.pc = "sealed"
  BY ReadingTyped DEF Written, Still, SoundRead
<1>2. SoundRead(sealing[reading.of])'
  BY <1>1 DEF SoundRead
<1> QED BY <1>2 DEF StreamInv

\* Where a chunk begins there is a cell, and the next one.
LEMMA ChunkInBody ==
  ASSUME NEW s \in Streams, NEW e \in SealingRec, SoundSeal(s, e), e.pc = "sealed",
         NEW c \in Nat, c < e.counter
  PROVE  LET size == e.header.size  n == Len(e.text)  a == Start(size, c)
             m == Len(Chunk(s, size, n, c)) + 1 IN
         /\ a \in Nat /\ a <= n /\ c \in 0..LastCounter /\ n <= MaxUnits /\ e.header.prefix = s
         /\ m \in 1..(size + 1) /\ m = (Cut(a, size, n) - a) + 1
         /\ n <= a + size => c = e.counter - 1 /\ Len(e.body) = Start(size + 1, c) + m
         /\ ~ (n <= a + size) => c + 1 < e.counter /\ m = size + 1 /\ Len(e.body) > Start(size + 1, c) + m
         /\ \A p \in 1..m : /\ Start(size + 1, c) + p \in 1..Len(e.body)
                            /\ e.body[Start(size + 1, c) + p] = Cell(s, e, c, p)
<1> USE StreamAssumption
<1> DEFINE size == e.header.size  n == Len(e.text)  a == Start(size, c)
           m == Len(Chunk(s, size, n, c)) + 1  w == Start(size + 1, c)  C == e.counter
<1>1. size \in Nat \ {0} /\ n \in Nat /\ C \in Nat /\ C \in 0..(LastCounter + 1) /\ Len(e.body) \in Nat
  BY SealingTyped, LenProperties
<1>2. /\ C > 0 /\ n <= Start(size, C - 1) + size /\ (C > 1 => Start(size, C - 1) < n)
      /\ Len(e.body) = n + C /\ Laid(s, e) /\ n <= MaxUnits /\ e.header.prefix = s
  BY DEF SoundSeal, Finished
<1>3. c \in 0..(C - 1) /\ c \in 0..LastCounter
  BY <1>1
<1>4. /\ a <= n
      /\ \A p \in 1..m : w + p \in 1..Len(e.body) /\ e.body[w + p] = Cell(s, e, c, p)
  BY <1>2, <1>3 DEF Laid
<1>5. m = (Cut(a, size, n) - a) + 1
  BY <1>2, <1>3, <1>4, ChunkFacts
<1> HIDE DEF m, n, C
<1>6. w = a + c /\ a \in Nat /\ Start(size + 1, c + 1) = w + (size + 1)
  <2> HIDE DEF size
  <2>1. size \in Nat /\ size + 1 \in Nat
    BY <1>1
  <2>2. Start(size + 1, c) = Start(size, c) + c /\ Start(size, c) \in Nat
    BY <2>1, StartFacts
  <2>3. Start(size + 1, c + 1) = Start(size + 1, c) + (size + 1)
    BY <2>1, StartFacts
  <2> QED BY <2>2, <2>3
<1>7. c # C - 1 => C - 1 \in Nat /\ c \in 0..((C - 1) - 1) /\ C > 1 /\ c + 1 < C
  BY <1>1, <1>3
<1>8. c # C - 1 => a + size <= Start(size, C - 1)
  <2> HIDE DEF size
  <2>1. size \in Nat
    BY <1>1
  <2> QED BY <1>7, <2>1, StartFacts
<1>9. c # C - 1 => Start(size, C - 1) \in Nat
  <2> HIDE DEF size
  <2>1. size \in Nat
    BY <1>1
  <2> QED BY <1>7, <2>1, StartFacts
<1> HIDE DEF a, w, size
<1>10. n <= a + size <=> c = C - 1
  <2>1. CASE c = C - 1
    BY <1>2, <2>1 DEF a
  <2>2. CASE c # C - 1
    <3> DEFINE z == Start(size, C - 1)
    <3>1. z \in Nat /\ a + size <= z /\ z < n
      BY <1>2, <1>7, <1>8, <1>9, <2>2
    <3> HIDE DEF z
    <3>2. a + size < n
      BY <1>1, <1>6, <3>1
    <3> QED BY <1>1, <1>6, <2>2, <3>2
  <2> QED BY <2>1, <2>2
<1>11. m \in 1..(size + 1)
  BY <1>1, <1>4, <1>5, <1>6 DEF Cut
<1>12. CASE n <= a + size
  <2>1. m = (n - a) + 1
    BY <1>1, <1>4, <1>5, <1>6, <1>12 DEF Cut
  <2>2. Len(e.body) = w + m
    BY <1>1, <1>2, <1>6, <1>10, <1>12, <2>1
  <2> QED BY <1>2, <1>3, <1>4, <1>5, <1>6, <1>10, <1>11, <1>12, <2>2 DEF m, n, C, a, w, size
<1>13. CASE ~ (n <= a + size)
  <2>1. m = size + 1
    BY <1>1, <1>5, <1>6, <1>13 DEF Cut
  <2>2. c + 1 < C /\ c + 1 \in 0..(C - 1) /\ c + 1 \in Nat
    BY <1>1, <1>3, <1>7, <1>10, <1>13
  <2>3. Start(size + 1, c + 1) + 1 \in 1..Len(e.body)
    <3> DEFINE k == c + 1
    <3>0. Laid(s, e) /\ k \in 0..(C - 1)
      BY <1>2, <2>2
    <3>1. \A p \in 1..(Len(Chunk(s, size, n, k)) + 1) : Start(size + 1, k) + p \in 1..Len(e.body)
      <4> HIDE DEF k
      <4> QED BY <3>0 DEF Laid, size, n, C
    <3>2. Start(size, k) <= n
      <4> HIDE DEF k
      <4> QED BY <3>0 DEF Laid, size, n, C
    <3>3. k \in 0..LastCounter
      BY <1>1, <2>2
    <3>4. Len(Chunk(s, size, n, k)) = Cut(Start(size, k), size, n) - Start(size, k)
          /\ Cut(Start(size, k), size, n) \in 0..MaxUnits /\ Start(size, k) \in 0..MaxUnits
          /\ Start(size, k) <= Cut(Start(size, k), size, n)
      <4> HIDE DEF k
      <4> QED BY <1>2, <3>2, <3>3, ChunkFacts DEF n, size
    <3>5. 1 \in 1..(Len(Chunk(s, size, n, k)) + 1)
      BY <3>4
    <3> QED BY <3>1, <3>5
  <2>4. Len(e.body) > w + m
    BY <1>1, <1>6, <2>1, <2>3
  <2> QED BY <1>2, <1>3, <1>4, <1>5, <1>6, <1>11, <1>13, <2>1, <2>2, <2>4 DEF m, n, C, a, w, size
<1> QED BY <1>12, <1>13

\* What an undisturbed body has at a chunk is that chunk.
LEMMA WholeOpens ==
  ASSUME NEW s \in Streams, NEW e \in SealingRec, SoundSeal(s, e), e.pc = "sealed",
         NEW c \in Nat, c < e.counter
  PROVE  LET size == e.header.size  w == size + 1
             rest == After(Start(w, c), e.body)  last == After(w, rest) = <<>> IN
         rest # <<>> /\ Opens(e.key, Nonce(s, c, last), <<e.header, s>>, Upto(w, rest))
<1> USE StreamAssumption
<1> DEFINE size == e.header.size  n == Len(e.text)  a == Start(size, c)  w == size + 1
           b == e.body  z == Start(w, c)  rest == After(z, b)  current == Upto(w, rest)
           chunk == Chunk(s, size, n, c)  m == Len(chunk) + 1  flag == n <= a + size
           cells == Sealed(e.key, Nonce(s, c, flag), <<e.header, s>>, chunk)
<1>1. size \in Nat /\ n \in Nat /\ w \in Nat /\ b \in Seq(Cells) /\ Len(b) \in Nat
  BY SealingTyped, LenProperties
<1>2. /\ a \in Nat /\ a <= n /\ c \in 0..LastCounter /\ n <= MaxUnits /\ e.header.prefix = s
      /\ m \in 1..w
      /\ flag => Len(b) = z + m
      /\ ~ flag => m = w /\ Len(b) > z + m
      /\ \A p \in 1..m : z + p \in 1..Len(b) /\ b[z + p] = Cell(s, e, c, p)
  <2> HIDE DEF m, a, n, z, b, flag
  <2> QED BY ChunkInBody DEF m, a, n, z, b, flag
<1>3. cells \in Seq(Cells) /\ Len(cells) = m /\ \A p \in 1..m : cells[p] = Cell(s, e, c, p)
  BY <1>2, SealedFacts
<1>4. cells = Sealed(e.key, Nonce(s, c, flag), <<e.header, s>>, chunk)
  OBVIOUS
<1>5. z \in Nat
  <2> HIDE DEF w
  <2> QED BY <1>1, StartFacts
<1> HIDE DEF z, w, b, m, flag
<1>6. rest \in Seq(Cells) /\ Len(rest) = (IF z < Len(b) THEN Len(b) - z ELSE 0)
      /\ \A i \in 1..Len(rest) : rest[i] = b[z + i]
  BY <1>1, <1>5, AfterFacts
<1> HIDE DEF rest
<1>7. current \in Seq(Cells) /\ Len(current) = (IF w < Len(rest) THEN w ELSE Len(rest))
      /\ \A i \in 1..Len(current) : current[i] = rest[i]
  BY <1>1, <1>6, UptoFacts
<1>8. After(w, rest) = <<>> <=> Len(rest) <= w
  BY <1>1, <1>6, AfterFacts
<1> HIDE DEF current, cells
<1>9. Len(rest) = Len(b) - z /\ m \in Nat /\ m >= 1
  BY <1>1, <1>2, <1>5, <1>6
<1>10. Len(current) = m /\ (After(w, rest) = <<>> <=> flag) /\ rest # <<>>
  <2>1. CASE flag
    BY <1>1, <1>2, <1>5, <1>6, <1>7, <1>8, <1>9, <2>1, EmptySeq
  <2>2. CASE ~ flag
    BY <1>1, <1>2, <1>5, <1>6, <1>7, <1>8, <1>9, <2>2, EmptySeq
  <2> QED BY <2>1, <2>2
<1>11. current = cells
  <2>1. ASSUME NEW i \in 1..Len(current) PROVE current[i] = cells[i]
    <3>1. i \in 1..m /\ i \in 1..Len(rest)
      BY <1>7, <1>9, <1>10, <1>1, <1>5, <1>6
    <3> QED BY <1>2, <1>3, <1>6, <1>7, <3>1
  <2> QED BY <1>3, <1>7, <1>10, <2>1, SeqEqual
<1>12. Head(current) = Cell(s, e, c, 1) /\ Head(current) \in Cells
  <2>1. cells # <<>>
    BY <1>3, <1>9, EmptySeq
  <2>2. Head(cells) = cells[1] /\ Head(cells) \in Cells
    BY <1>3, <2>1, HeadTailProperties
  <2>3. 1 \in 1..m
    BY <1>9
  <2> QED BY <1>3, <1>11, <2>2, <2>3
<1>13. Head(current).text = chunk
  BY <1>12 DEF Cell
<1>14. Head(current) # Junk
  BY <1>12, JunkAssumption
<1>15. Nonce(s, c, After(w, rest) = <<>>) = Nonce(s, c, flag)
  <2>1. (After(w, rest) = <<>>) = flag
    BY <1>10 DEF flag
  <2> QED BY <2>1
<1>16. Opens(e.key, Nonce(s, c, After(w, rest) = <<>>), <<e.header, s>>, current)
  BY <1>4, <1>11, <1>13, <1>14, <1>15 DEF Opens
<1> QED BY <1>10, <1>16 DEF current, rest, w, z, b

\* The header, the counter, the mark of the last and the text of a sealed chunk.
IsChunk(e, s, h, c, last, text) ==
    LET size == e.header.size  n == Len(e.text) IN
    /\ h = e.header /\ c < e.counter /\ last = (n <= Start(size, c) + size)
    /\ text = Chunk(s, size, n, c)

\* What opens is a chunk of the stream that is asked for, at its place.
LEMMA OpenedWasSealed ==
  ASSUME StreamInv, NEW rest \in Seq(Written \cup {Junk}), rest # <<>>, NEW w \in Nat \ {0},
         NEW h \in Headers, NEW s \in Streams, sealing[s] # Unsealed, NEW c \in Nat, NEW key, NEW last,
         Opens(key, Nonce(h.prefix, c, last), <<h, s>>, Upto(w, rest))
  PROVE  IsChunk(sealing[s], s, h, c, last, Head(Upto(w, rest)).text)
<1> DEFINE S == Written \cup {Junk}  current == Upto(w, rest)  x == Head(current)
<1>1. Len(rest) \in Nat /\ Len(rest) # 0
  BY EmptySeq, LenProperties
<1>2. current \in Seq(S) /\ Len(current) = (IF w < Len(rest) THEN w ELSE Len(rest))
  BY UptoFacts
<1>3. current # <<>>
  <2> HIDE DEF current
  <2> QED BY <1>1, <1>2, EmptySeq
<1>4. x = current[1] /\ x \in S
  <2> HIDE DEF current, S
  <2> QED BY <1>2, <1>3, HeadTailProperties
<1>5. x # Junk /\ current = Sealed(key, Nonce(h.prefix, c, last), <<h, s>>, x.text)
  BY DEF Opens
<1>6. x \in Written /\ x \in Cells
  BY <1>4, <1>5, WrittenCells
<1>7. Len(x.text) \in Nat
  <2>1. x.text \in Seq(Streams \X (1..MaxUnits))
    BY <1>6 DEF Cells
  <2> QED BY <2>1, LenProperties
<1>8. current[1].nonce = <<h.prefix, c, last>> /\ current[1].aad = <<h, s>>
  <2> DEFINE text == x.text
  <2>1. 1 \in 1..(Len(text) + TagSize)
    BY <1>7 DEF TagSize
  <2>2. current = Sealed(key, Nonce(h.prefix, c, last), <<h, s>>, text)
    BY <1>5
  <2> HIDE DEF current, x, text
  <2> QED BY <2>1, <2>2 DEF Sealed, Nonce
<1> HIDE DEF x, current
<1>9. PICK t \in Streams : sealing[t] # Unsealed /\
         \E k \in 0..(sealing[t].counter - 1), p \in 1..(MaxUnits + 1) : x = Cell(t, sealing[t], k, p)
  BY <1>6 DEF Written
<1>10. PICK k \in 0..(sealing[t].counter - 1), p \in 1..(MaxUnits + 1) : x = Cell(t, sealing[t], k, p)
  BY <1>9
<1> DEFINE e == sealing[t]  size == e.header.size  n == Len(e.text)  flag == n <= Start(size, k) + size
<1>11. x.nonce = <<t, k, flag>> /\ x.aad = <<e.header, t>> /\ x.text = Chunk(t, size, n, k)
  BY <1>10 DEF Cell
<1>12. t = s /\ h = e.header /\ k = c /\ last = flag
  <2> HIDE DEF flag, e
  <2> QED BY <1>4, <1>8, <1>11
<1>13. e \in SealingRec
  BY <1>9, BodyWritten
<1>14. k < e.counter
  <2>1. e.counter \in Nat
    BY <1>13, SealingTyped
  <2> HIDE DEF e
  <2>2. k \in 0..(e.counter - 1)
    BY <1>10 DEF e
  <2> QED BY <2>1, <2>2
<1>15. IsChunk(e, t, h, c, last, x.text)
  <2>1. flag = (n <= Start(size, c) + size)
    BY <1>12
  <2>2. h = e.header /\ x.text = Chunk(t, size, n, c) /\ c < e.counter
    BY <1>11, <1>12, <1>14
  <2>3. last = (n <= Start(size, c) + size)
    BY <1>12, <2>1
  <2> HIDE DEF e
  <2> QED BY <2>2, <2>3 DEF IsChunk
<1>16. IsChunk(sealing[s], s, h, c, last, x.text)
  <2> HIDE DEF e
  <2>1. e = sealing[s]
    BY <1>12 DEF e
  <2> QED BY <1>12, <1>15, <2>1
<1> QED BY <1>16 DEF x, current

\* Decryption refuses, which it does not do with what is whole.
LEMMA StreamRefusedStep ==
  ASSUME StreamInv, reading # NoReading, ~ reading.whole, Refused
  PROVE  StreamInv'
<1> DEFINE r == [reading EXCEPT !.pc = "refused"]  e == sealing[reading.of]
<1>1. reading \in ReadingRec /\ SoundRead(e)
  BY ReadingTyped
<1>2. /\ r \in ReadingRec /\ r.pc = "refused" /\ r.of = reading.of /\ r.key = reading.key
      /\ r.header = reading.header /\ r.rest = reading.rest /\ r.counter = reading.counter
      /\ r.out = reading.out /\ r.whole = reading.whole
  BY <1>1 DEF ReadingRec
<1>3. reading' = r /\ UNCHANGED sealing
  BY DEF Refused
<1> HIDE DEF r
<1>4. r # NoReading
  BY <1>2 DEF NoReading
<1> QED BY <1>1, <1>2, <1>3, <1>4, ReadStep DEF SoundRead

\* The header is parsed.
LEMMA ParseHeaderStep == ASSUME StreamInv, ParseHeader PROVE StreamInv'
<1> DEFINE e == sealing[reading.of]
<1>1. reading.pc = "start" /\ reading # NoReading
  BY DEF ParseHeader, NoReading
<1>2. /\ reading \in ReadingRec /\ SoundRead(e) /\ e \in SealingRec /\ SoundSeal(reading.of, e)
      /\ reading.of \in Streams /\ reading.header \in Headers \cup {Junk}
      /\ e.pc = "sealed" /\ e.counter \in Nat /\ e.header \in Headers
  BY <1>1, ReadingTyped, SealingTyped DEF SoundRead
<1>3. reading.whole => reading.header # Junk /\ reading.rest # <<>>
  <2> SUFFICES ASSUME reading.whole PROVE reading.header # Junk /\ reading.rest # <<>>
    OBVIOUS
  <2> DEFINE c == reading.counter  w == e.header.size + 1
  <2>1. reading.header = e.header /\ c < e.counter /\ reading.rest = After(Start(w, c), e.body)
    BY <1>1, <1>2 DEF SoundRead
  <2>2. c \in Nat
    BY <1>1, ReadingTyped
  <2>3. After(Start(w, c), e.body) # <<>>
    <3> HIDE DEF c, e
    <3> QED BY <1>2, <2>1, <2>2, WholeOpens
  <2> QED BY <1>2, <2>1, <2>3, JunkAssumption
<1>4. CASE Refused /\ (reading.header = Junk \/ reading.rest = <<>>)
  BY <1>1, <1>3, <1>4, StreamRefusedStep
<1>5. CASE /\ reading' = [reading EXCEPT !.pc = "more"] /\ UNCHANGED sealing
           /\ reading.header # Junk /\ reading.rest # <<>>
  <2> DEFINE r == [reading EXCEPT !.pc = "more"]
  <2>1. /\ r \in ReadingRec /\ r.pc = "more" /\ r.of = reading.of /\ r.key = reading.key
        /\ r.header = reading.header /\ r.rest = reading.rest /\ r.counter = reading.counter
        /\ r.out = reading.out /\ r.whole = reading.whole
    BY <1>2 DEF ReadingRec
  <2>2. reading' = r /\ UNCHANGED sealing
    BY <1>5
  <2> HIDE DEF r
  <2>3. r # NoReading
    BY <2>1 DEF NoReading
  <2> QED BY <1>1, <1>2, <1>5, <2>1, <2>2, <2>3, ReadStep DEF SoundRead
<1> QED BY <1>4, <1>5 DEF ParseHeader

\* A chunk is opened, or does not open.
LEMMA OpenChunkStep == ASSUME StreamInv, OpenChunk PROVE StreamInv'
<1> USE StreamAssumption
<1> DEFINE s == reading.of  e == sealing[s]  h == reading.header  c == reading.counter
           w == h.size + 1  rest == reading.rest
           current == Upto(w, rest)  lookahead == After(w, rest)  last == lookahead = <<>>
           opens == Opens(reading.key, Nonce(h.prefix, c, last), <<h, s>>, current)
<1>1. reading.pc = "more" /\ reading # NoReading
  BY DEF OpenChunk, NoReading
<1>2. \/ opens /\ UNCHANGED sealing /\
         reading' = [reading EXCEPT !.out = @ \o Head(current).text, !.rest = lookahead,
                                    !.counter = @ + 1, !.pc = IF last THEN "done" ELSE @]
      \/ ~ opens /\ Refused
  BY DEF OpenChunk, TagSize
<1>3. /\ reading \in ReadingRec /\ SoundRead(e) /\ e \in SealingRec /\ SoundSeal(s, e)
      /\ s \in Streams /\ c \in Nat /\ e.pc = "sealed" /\ e # Unsealed /\ reading.out \in Seq(Units)
  BY <1>1, ReadingTyped, SealingTyped DEF SoundRead
<1>4. /\ e.counter \in Nat /\ e.counter \in 0..(LastCounter + 1) /\ Len(e.text) \in Nat
      /\ e.header.size \in Nat /\ e.body \in Seq(Cells)
  BY <1>3, SealingTyped
<1>5. /\ rest \in Seq(Written \cup {Junk}) /\ rest # <<>> /\ h \in Headers
      /\ reading.out = Piece(s, 0, Reach(e.header.size, c, Len(e.text)))
      /\ reading.whole => /\ reading.key = e.key /\ h = e.header /\ c < e.counter
                          /\ rest = After(Start(e.header.size + 1, c), e.body)
  BY <1>1, <1>3 DEF SoundRead
<1>6. w \in Nat \ {0} /\ w \in Nat
  <2>1. h.size \in ChunkSizes
    BY <1>5 DEF Headers
  <2>2. h.size \in Nat \ {0}
    BY <2>1
  <2>3. \A z \in Nat \ {0} : z + 1 \in Nat \ {0} /\ z + 1 \in Nat
    OBVIOUS
  <2> QED BY <2>2, <2>3
<1>7. reading.whole => opens
  <2> SUFFICES ASSUME reading.whole PROVE opens
    OBVIOUS
  <2>1. /\ reading.key = e.key /\ h = e.header /\ c < e.counter
        /\ rest = After(Start(e.header.size + 1, c), e.body)
    BY <1>5
  <2>2. e.header.prefix = s
    BY <1>3 DEF SoundSeal
  <2>3. LET r == After(Start(e.header.size + 1, c), e.body) IN
        Opens(e.key, Nonce(s, c, After(e.header.size + 1, r) = <<>>), <<e.header, s>>,
              Upto(e.header.size + 1, r))
    <3> HIDE DEF e, c, s
    <3> QED BY <1>3, <2>1, WholeOpens
  <2> QED BY <2>1, <2>2, <2>3
<1>8. CASE ~ opens /\ Refused
  BY <1>1, <1>7, <1>8, StreamRefusedStep
<1>9. CASE opens /\ UNCHANGED sealing /\
         reading' = [reading EXCEPT !.out = @ \o Head(current).text, !.rest = lookahead,
                                    !.counter = @ + 1, !.pc = IF last THEN "done" ELSE @]
  <2> DEFINE size == e.header.size  n == Len(e.text)  a == Start(size, c)
             chunk == Chunk(s, size, n, c)  out == reading.out \o chunk
             pc == IF last THEN "done" ELSE "more"
             r == [reading EXCEPT !.out = out, !.rest = lookahead, !.counter = c + 1, !.pc = pc]
  <2>1. h = e.header /\ c < e.counter /\ last = (n <= a + size) /\ Head(current).text = chunk
    <3> HIDE DEF s, c, rest, w, h
    <3>1. Opens(reading.key, Nonce(h.prefix, c, last), <<h, s>>, Upto(w, rest))
      BY <1>9
    <3>2. rest \in Seq(Written \cup {Junk}) /\ rest # <<>>
      BY <1>5
    <3>3. h \in Headers
      BY <1>5
    <3>4. sealing[s] # Unsealed
      BY <1>3, SealingTyped
    <3>5. s \in Streams /\ c \in Nat /\ w \in Nat \ {0}
      BY <1>3, <1>6
    <3> HIDE DEF last, e
    <3>6. IsChunk(sealing[s], s, h, c, last, Head(Upto(w, rest)).text)
      BY <3>1, <3>2, <3>3, <3>4, <3>5, OpenedWasSealed
    <3>7. IsChunk(e, s, h, c, last, Head(current).text)
      BY <3>6 DEF e, current
    <3> QED BY <3>7 DEF IsChunk
  <2>2. /\ a \in Nat /\ a <= n /\ c \in 0..LastCounter /\ n <= MaxUnits
        /\ n <= a + size => c = e.counter - 1
        /\ ~ (n <= a + size) => c + 1 < e.counter
    <3> HIDE DEF e, c, s
    <3> QED BY <1>3, <2>1, ChunkInBody
  <2>3. n \in 0..MaxUnits /\ a \in 0..MaxUnits /\ size \in Nat /\ n \in Nat
    BY <1>4, <2>2
  <2>4. Start(size, c + 1) = a + size /\ Start(size + 1, c) \in Nat
        /\ Start(size + 1, c + 1) = Start(size + 1, c) + (size + 1)
    <3> HIDE DEF size, c
    <3>1. size + 1 \in Nat /\ c \in Nat
      BY <1>3, <2>3
    <3> QED BY <2>3, <3>1, StartFacts DEF a
  <2> DEFINE cut == Cut(a, size, n)
  <2>5. cut \in 0..MaxUnits /\ a <= cut /\ cut <= n /\ (n <= a + size => cut = n)
    <3> HIDE DEF a, size, n
    <3> QED BY <2>2, <2>3 DEF Cut
  <2>6. Reach(size, c, n) = a /\ Reach(size, c + 1, n) = cut
    <3> HIDE DEF n, size, c
    <3> QED BY <2>2, <2>3, <2>4 DEF Reach, Cut, a
  <2>7. out = Piece(s, 0, cut)
    <3>1. chunk = Piece(s, a, cut)
      BY DEF Chunk
    <3>2. reading.out = Piece(s, 0, a)
      BY <1>5, <2>6
    <3> HIDE DEF s, a, cut, chunk
    <3> QED BY <1>3, <2>3, <2>5, <3>1, <3>2, PiecesJoin
  <2>8. out \in Seq(Units)
    <3>1. 0 \in 0..MaxUnits /\ 0 <= cut
      BY <2>5
    <3> HIDE DEF out, cut, s
    <3> QED BY <1>3, <2>5, <2>7, <3>1, PieceFacts
  <2>9. lookahead \in Seq(Written \cup {Junk})
    <3> HIDE DEF w, rest
    <3> QED BY <1>5, <1>6, AfterFacts
  <2>10. lookahead \in Seq(Cells \cup {Junk})
    <3>1. Written \cup {Junk} \subseteq Cells \cup {Junk}
      BY WrittenCells
    <3> HIDE DEF lookahead
    <3> QED BY <2>9, <3>1, SeqMonotonic
  <2>11. reading' = r
    <3>1. (IF last THEN "done" ELSE reading.pc) = pc
      BY <1>1
    <3>2. Head(current).text = chunk
      BY <2>1
    <3> HIDE DEF last, lookahead, chunk, pc, current
    <3>3. reading' = [reading EXCEPT !.out = @ \o chunk, !.rest = lookahead,
                                     !.counter = @ + 1, !.pc = IF last THEN "done" ELSE @]
      BY <1>9, <3>2
    <3> QED BY <1>3, <3>1, <3>3
  <2>12. c + 1 \in 0..(LastCounter + 1) /\ c + 1 <= e.counter /\ c + 1 > 0
    <3> HIDE DEF c, e
    <3> QED BY <1>3, <1>4, <2>1, <2>2
  <2>13. pc \in {"done", "more"} /\ (pc = "done" <=> last)
    OBVIOUS
  <2> HIDE DEF out, lookahead, pc, last
  <2>14. /\ r \in ReadingRec /\ r.pc = pc /\ r.of = s /\ r.key = reading.key /\ r.header = h
         /\ r.rest = lookahead /\ r.counter = c + 1 /\ r.out = out /\ r.whole = reading.whole
    BY <1>3, <2>8, <2>10, <2>12, <2>13 DEF ReadingRec
  <2> HIDE DEF r
  <2>15. r # NoReading
    BY <2>13, <2>14 DEF NoReading
  <2>16. pc = "done" => out = e.text
    <3>1. last => cut = n
      BY <2>1, <2>5
    <3>2. e.text = Piece(s, 0, n)
      BY <1>3 DEF SoundSeal
    <3> QED BY <2>7, <2>13, <3>1, <3>2
  <2>17. pc = "more" => lookahead # <<>>
    BY <2>13 DEF last
  <2>18. reading.whole /\ pc # "done" => c + 1 < e.counter /\
           lookahead = After(Start(size + 1, c + 1), e.body)
    <3> SUFFICES ASSUME reading.whole, pc # "done"
                 PROVE  c + 1 < e.counter /\ lookahead = After(Start(size + 1, c + 1), e.body)
      OBVIOUS
    <3>1. c + 1 < e.counter
      BY <2>1, <2>2, <2>13
    <3>2. rest = After(Start(size + 1, c), e.body) /\ w = size + 1
      BY <1>5, <2>1
    <3> DEFINE z == Start(size + 1, c)  b == e.body
    <3>3. z \in Nat /\ b \in Seq(Cells)
      BY <1>4, <2>4
    <3>4. lookahead = After(w, After(z, b))
      BY <3>2 DEF lookahead
    <3> HIDE DEF z, b, w
    <3>5. lookahead = After(z + w, b)
      BY <1>6, <3>3, <3>4, AfterAfter
    <3>6. z + w = Start(size + 1, c + 1)
      BY <2>4, <3>2 DEF z
    <3> QED BY <3>1, <3>5, <3>6 DEF b
  <2>19. r.out = Piece(r.of, 0, Reach(size, r.counter, n))
    BY <2>6, <2>7, <2>14
  <2> QED BY <1>1, <1>5, <1>9, <2>1, <2>9, <2>11, <2>12, <2>13, <2>14, <2>15, <2>16, <2>17,
             <2>18, <2>19, ReadStep
<1> QED BY <1>2, <1>8, <1>9

\* Nothing is sealed in the initial state.
LEMMA StreamInitInv == StreamInit => StreamInv
  BY DEF StreamInit, StreamInv

\* Every step of a stream keeps its invariant.
LEMMA StreamStep == StreamInv /\ [StreamNext]_streamVars => StreamInv'
<1> SUFFICES ASSUME StreamInv, [StreamNext]_streamVars PROVE StreamInv'
  OBVIOUS
<1>1. CASE UNCHANGED streamVars
  <2>1. sealing' = sealing /\ reading' = reading
    BY <1>1 DEF streamVars
  <2> QED BY <2>1 DEF StreamInv, SoundRead, Still, Written
<1>2. ASSUME NEW s \in Streams, StartSealing(s) PROVE StreamInv'
  BY <1>2, StartSealingStep
<1>3. ASSUME NEW s \in Streams, SealChunk(s) PROVE StreamInv'
  BY <1>3, SealChunkStep
<1>4. ASSUME NEW s \in Streams, RefuseChunk(s) PROVE StreamInv'
  BY <1>4, RefuseChunkStep
<1>5. ASSUME NEW s \in Streams, FetchBody(s) \/ FetchRotten(s) \/ FetchOther(s) PROVE StreamInv'
  BY <1>5, FetchSteps
<1>6. CASE ParseHeader
  BY <1>6, ParseHeaderStep
<1>7. CASE OpenChunk
  BY <1>7, OpenChunkStep
<1> QED BY <1>1, <1>2, <1>3, <1>4, <1>5, <1>6, <1>7 DEF StreamNext

\* The invariant says what the type invariant says.
LEMMA StreamIsTyped == ASSUME StreamInv PROVE StreamTypeOK
<1>1. ASSUME NEW s \in Streams, sealing[s] # Unsealed
      PROVE  /\ sealing[s].pc \in {"more", "sealed", "refused"} /\ sealing[s].key \in DataKeys
             /\ sealing[s].header \in Headers /\ sealing[s].counter \in 0..(LastCounter + 1)
             /\ sealing[s].left \in Seq(Streams \X (1..MaxUnits))
  <2>1. sealing[s] \in SealingRec
    BY <1>1 DEF StreamInv
  <2> QED BY <2>1 DEF SealingRec, Units
<1>2. ASSUME reading # NoReading
      PROVE  /\ reading.pc \in {"start", "more", "done", "refused"} /\ reading.key \in DataKeys
             /\ reading.of \in Streams /\ reading.header \in Headers \cup {Junk}
             /\ reading.out \in Seq(Streams \X (1..MaxUnits)) /\ reading.counter <= LastCounter + 1
  <2>1. reading \in ReadingRec
    BY <1>2 DEF StreamInv
  <2>2. reading.counter \in 0..(LastCounter + 1)
    BY <2>1 DEF ReadingRec
  <2>3. reading.counter <= LastCounter + 1
    BY <2>2, StreamAssumption
  <2> QED BY <2>1, <2>3 DEF ReadingRec, Units
<1> QED BY <1>1, <1>2 DEF StreamTypeOK

\* What is out is the beginning of the text, and all of it in the end.
LEMMA OutIsSealed == ASSUME StreamInv PROVE OnlyWhatWasSealed
<1> USE StreamAssumption
<1> SUFFICES ASSUME reading # NoReading
             PROVE  /\ reading.out = Upto(Len(reading.out), sealing[reading.of].text)
                    /\ reading.pc = "done" => reading.out = sealing[reading.of].text
  BY DEF OnlyWhatWasSealed
<1> DEFINE s == reading.of  e == sealing[s]  size == e.header.size  n == Len(e.text)
           c == reading.counter  m == Reach(size, c, n)
<1>1. /\ reading \in ReadingRec /\ SoundRead(e) /\ e \in SealingRec /\ SoundSeal(s, e)
      /\ s \in Streams /\ c \in Nat
  BY ReadingTyped, SealingTyped DEF SoundRead
<1>2. reading.out = Piece(s, 0, m) /\ (reading.pc = "done" => reading.out = e.text)
  BY <1>1 DEF SoundRead
<1>3. e.text = Piece(s, 0, n) /\ n <= MaxUnits
  BY <1>1 DEF SoundSeal
<1>4. size \in Nat /\ n \in Nat
  BY <1>1, SealingTyped
<1>5. Start(size, c) \in Nat
  <2> HIDE DEF size, c
  <2> QED BY <1>1, <1>4, StartFacts
<1>6. m \in 0..MaxUnits /\ n \in 0..MaxUnits /\ m <= n /\ m \in Nat
  <2> DEFINE z == Start(size, c)
  <2>1. m = IF z < n THEN z ELSE n
    BY DEF Reach
  <2>2. z \in Nat
    BY <1>5
  <2> HIDE DEF z, m, n
  <2> QED BY <1>3, <1>4, <2>1, <2>2
<1>7. 0 \in 0..MaxUnits /\ 0 <= m /\ 0 <= n /\ m - 0 = m
  <2> HIDE DEF m, n
  <2> QED BY <1>6
<1> HIDE DEF m, n, s
<1>8. Len(Piece(s, 0, m)) = m
  BY <1>1, <1>6, <1>7, PieceFacts
<1>9. Upto(m, Piece(s, 0, n)) = Piece(s, 0, Cut(0, m, n))
  BY <1>1, <1>6, <1>7, PieceCut
<1>10. Cut(0, m, n) = m
  BY <1>6 DEF Cut
<1>11. Len(reading.out) = m
  BY <1>2, <1>8
<1>12. reading.out = Upto(Len(reading.out), e.text)
  <2> HIDE DEF e
  <2> QED BY <1>2, <1>3, <1>9, <1>10, <1>11
<1> QED BY <1>2, <1>12 DEF s

\* What was read as it was stored is never refused.
LEMMA WholeRead == ASSUME StreamInv PROVE WholeIsRead
<1> SUFFICES ASSUME reading # NoReading, reading.whole PROVE reading.pc # "refused"
  BY DEF WholeIsRead
<1>1. SoundRead(sealing[reading.of])
  BY DEF StreamInv
<1> QED BY <1>1 DEF SoundRead

\* A nonce names its stream and its counter, and so the chunk.
LEMMA NonceSealsOnce == ASSUME StreamInv PROVE NonceOnce
<1> SUFFICES ASSUME NEW s \in Streams, NEW t \in Streams,
                    sealing[s] # Unsealed, sealing[t] # Unsealed,
                    NEW i \in DOMAIN sealing[s].body, NEW j \in DOMAIN sealing[t].body,
                    sealing[s].body[i].nonce = sealing[t].body[j].nonce
             PROVE  [sealing[s].body[i] EXCEPT !.cell = 0] = [sealing[t].body[j] EXCEPT !.cell = 0]
  BY DEF NonceOnce
<1>1. ASSUME NEW u \in Streams, sealing[u] # Unsealed, NEW l \in DOMAIN sealing[u].body
      PROVE  \E k \in 0..(sealing[u].counter - 1), p \in 1..(MaxUnits + 1) :
               sealing[u].body[l] = Cell(u, sealing[u], k, p)
  <2>1. sealing[u] \in SealingRec /\ Laid(u, sealing[u])
    BY <1>1 DEF StreamInv, SoundSeal
  <2>2. l \in 1..Len(sealing[u].body)
    <3>1. sealing[u].body \in Seq(Cells)
      BY <2>1, SealingTyped
    <3> QED BY <1>1, <3>1, LenProperties
  <2> QED BY <2>1, <2>2 DEF Laid
<1>2. PICK k \in 0..(sealing[s].counter - 1), p \in 1..(MaxUnits + 1) :
        sealing[s].body[i] = Cell(s, sealing[s], k, p)
  BY <1>1
<1>3. PICK l \in 0..(sealing[t].counter - 1), q \in 1..(MaxUnits + 1) :
        sealing[t].body[j] = Cell(t, sealing[t], l, q)
  BY <1>1
<1>4. s = t /\ k = l
  <2>1. Cell(s, sealing[s], k, p).nonce = Cell(t, sealing[t], l, q).nonce
    BY <1>2, <1>3
  <2> QED BY <2>1 DEF Cell
<1>5. [Cell(s, sealing[s], k, p) EXCEPT !.cell = 0] = [Cell(s, sealing[s], k, q) EXCEPT !.cell = 0]
  BY DEF Cell
<1> QED BY <1>2, <1>3, <1>4, <1>5

\* Whatever the storage returns, what decryption writes is the beginning of what
\* was encrypted, and all of it when it ends well; what was returned as it was is
\* decrypted; and no nonce seals two chunks.
THEOREM StreamsAlwaysSound == StreamSpec => [](StreamTypeOK /\ StreamsSound)
<1>1. StreamInit => StreamInv
  BY StreamInitInv
<1>2. StreamInv /\ [StreamNext]_streamVars => StreamInv'
  BY StreamStep
<1>3. StreamInv => StreamTypeOK /\ StreamsSound
  BY StreamIsTyped, OutIsSealed, WholeRead, NonceSealsOnce DEF StreamsSound
<1> QED BY <1>1, <1>2, <1>3, PTL DEF StreamSpec

-------------------------------------------------------------------------------
(* The four of them side by side.                                         *)

\* A behaviour of the four is one of each.
THEOREM PlatformIsEach == PlatformSpec => Spec /\ LoginSpec /\ AccessSpec /\ StreamSpec
<1>1. PlatformInit => Init /\ LoginInit /\ AccessInit /\ StreamInit
  BY DEF PlatformInit
<1>2. [PlatformNext]_<<vars, loginVars, accessVars, streamVars, side>> =>
        [Next]_vars /\ [LoginNext]_loginVars /\ [AccessNext]_accessVars /\ [StreamNext]_streamVars
  BY DEF PlatformNext
<1> QED BY <1>1, <1>2, PTL DEF PlatformSpec, Spec, LoginSpec, AccessSpec, StreamSpec

\* Every row, report, token and chunk of the four has its type in every state.
THEOREM PlatformTyped == PlatformSpec => []PlatformTypeOK
<1>1. TypeOK /\ LoginTypeOK /\ AccessTypeOK /\ StreamTypeOK => PlatformTypeOK
  BY DEF PlatformTypeOK
<1> QED BY <1>1, PlatformIsEach, RecordsAlwaysInOrder, LoginsAlwaysJudged, AccessAlwaysInOrder,
           StreamsAlwaysSound, PTL
===============================================================================
