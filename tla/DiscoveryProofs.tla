---------------------------- MODULE DiscoveryProofs ----------------------------
(***************************************************************************)
(* Proofs about Discovery, for any sets of requests, assets, scans and     *)
(* addresses: discovery never inserts a second asset for an address, its   *)
(* hosts are linked to the assets that have their addresses, and no link   *)
(* dangles.                                                                *)
(*                                                                         *)
(* The argument.  A scan that has results holds the audit advisory lock,   *)
(* and so does whoever is about to commit (LockOwned).  So nobody changes  *)
(* an address while a scan is between its first entry and its commit: what *)
(* find_by_ip told it about each host is still so when it commits          *)
(* (Current).                                                              *)
(***************************************************************************)
EXTENDS Discovery, TLAPS

\* A request that has been through record holds the advisory lock.
Locking(q) ==
    \/ q.pc \in {"probe", "lookup", "refresh", "commit"}
    \/ q.pc = "flush" /\ q.op = "delete"

LockOwned(r) == Locking(req[r]) <=> lock = r

\* Row x may be locked by a request that is at q: only after its flush, and
\* until it has the audit lock only the one row of an update or a scan.
MayLock(q, x) ==
    /\ q.pc \notin {"idle", "flush"}
    /\ q.pc = "audit" => x = q.id /\ q.op \in {"update", "scan"}

\* A step of r to q takes and gives back locks of its own.
RowsStep(r, q) ==
    \A x \in Assets \cup Scans :
        /\ rowLock'[x] \in {rowLock[x], r, None}
        /\ rowLock'[x] = r => MayLock(q, x)

RowsOwned(r) == \A x \in Assets \cup Scans : rowLock[x] = r => MayLock(req[r], x)

\* What the parts of a request say about each other.
Shape(q) ==
    /\ q.pc \in {"probe", "lookup", "refresh"} => q.op = "scan"
    /\ q.pc = "flush" => q.op # "create"
    /\ q.op # "scan" \/ q.pc \in {"flush", "audit", "probe"} => q.hosts = {}
    /\ q.op = "scan" <=> q.id \in Scans
    /\ q.op = "create" => q.ip \in Ips
    /\ q.pc = "refresh" => \E a \in Assets : [ip |-> q.ip, asset |-> a] \in q.hosts
    /\ q.new \subseteq q.hosts

\* What the lookups of a scan found is still so: no asset has the address of
\* a host it inserts, one asset has that of a host it found.
Current(q) ==
    \A h \in q.hosts :
        /\ h.ip \notin q.todo
        /\ h \in q.new => WithIp(h.ip) = {} /\ ~ Exists(h.asset)
        /\ h \notin q.new => WithIp(h.ip) = {h.asset}
        /\ \A g \in q.hosts : g.ip = h.ip \/ g.asset = h.asset => g = h

Good(r) ==
    /\ LockOwned(r)
    /\ RowsOwned(r)
    /\ req[r] # Idle => Shape(req[r]) /\ Current(req[r])

IInv == TypeOK /\ \A r \in Requests : Good(r)

-------------------------------------------------------------------------------
\* Nobody runs anything at first.
LEMMA InitIInv == Init => IInv
<1> SUFFICES ASSUME Init PROVE IInv
  OBVIOUS
<1>1. TypeOK
  BY DEF Init, TypeOK, Status, Host
<1>2. ASSUME NEW r \in Requests PROVE Good(r)
  BY NoneAssumption DEF Init, Good, LockOwned, Locking, RowsOwned, Idle
<1>3. QED
  BY <1>1, <1>2 DEF IInv

\* A step of one request that changes no asset: the others keep what they
\* know, and r need only have its own part of the invariant afterwards.
LEMMA StepOfOne ==
    ASSUME IInv, TypeOK', NEW r \in Requests, NEW q,
           req' = [req EXCEPT ![r] = q], asset' = asset,
           \/ lock' = lock
           \/ lock = None /\ lock' = r
           \/ lock = r /\ lock' = None,
           Locking(q) <=> lock' = r,
           RowsStep(r, q),
           q # Idle => Shape(q) /\ Current(q)
    PROVE  IInv'
<1>1. ASSUME NEW s \in Requests PROVE Good(s)'
  <2>1. CASE s = r
    BY <2>1 DEF IInv, TypeOK, Good, LockOwned, RowsOwned, RowsStep, Current, WithIp, Exists
  <2>2. CASE s # r
    <3>1. req'[s] = req[s] /\ Good(s)
      BY <2>2 DEF IInv, TypeOK
    <3>2. LockOwned(s)'
      BY <2>2, <3>1, NoneAssumption DEF Good, LockOwned
    <3>3. RowsOwned(s)'
      BY <2>2, <3>1, NoneAssumption DEF Good, RowsOwned, RowsStep
    <3>4. QED
      BY <3>1, <3>2, <3>3 DEF Good, Current, WithIp, Exists
  <2>3. QED
    BY <2>1, <2>2
<1>2. QED
  BY <1>1 DEF IInv

\* Requests are typed; with the type invariant this names the parts of one.
LEMMA RequestTyped ==
    ASSUME TypeOK, NEW r \in Requests, req[r].pc # "idle"
    PROVE  /\ req[r] # Idle
           /\ req[r] \in Request
BY DEF TypeOK, Idle

\* A step that leaves the row locks alone.
LEMMA RowsKept ==
    ASSUME NEW r \in Requests, Good(r), NEW q, rowLock' = rowLock,
           req[r] = Idle \/ q.pc \notin {"idle", "flush", "audit"}
    PROVE  RowsStep(r, q)
BY DEF Good, RowsOwned, RowsStep, MayLock, Idle

-------------------------------------------------------------------------------
(* Every action preserves the invariant.                                   *)

\* A request begins with no hosts and no lock.
LEMMA StartStep ==
    ASSUME IInv, NEW r \in Requests, Arrive(r)
    PROVE  IInv'
<1>1. PICK op \in Ops, pc \in Steps, id \in Assets \cup Scans, ip \in Ips \cup {None} :
        /\ Start(r, op, pc, id, ip)
        /\ \/ pc = "flush" /\ op \in {"update", "scan"}
           \/ pc = "audit"
        /\ op = "scan" <=> id \in Scans
        /\ op = "create" => ip \in Ips
  <2>1. CASE StartCreate(r)
    BY <2>1, IdsAssumption DEF StartCreate, Ops, Steps, Unused, Known
  <2>2. CASE StartUpdate(r)
    BY <2>2, IdsAssumption DEF StartUpdate, Ops, Steps, Known
  <2>3. CASE StartDelete(r)
    BY <2>3, IdsAssumption DEF StartDelete, FlushesFirst, Ops, Steps, Known
  <2>4. CASE StartScan(r)
    BY <2>4 DEF StartScan, Ops, Steps
  <2>5. QED
    BY <2>1, <2>2, <2>3, <2>4 DEF Arrive
<1> DEFINE q == [op |-> op, pc |-> pc, id |-> id, ip |-> ip, todo |-> {}, hosts |-> {},
                 new |-> {}]
<1>2. q \in Request
  BY DEF Request
<1>3. /\ req[r] = Idle /\ Good(r)
      /\ req' = [req EXCEPT ![r] = q] /\ asset' = asset /\ lock' = lock
      /\ rowLock' = rowLock
  BY <1>1 DEF Start, IInv
<1>4. TypeOK'
  BY <1>1, <1>2, <1>3 DEF IInv, TypeOK, Start
<1>5. ~ Locking(q) /\ Shape(q) /\ Current(q)
  BY <1>1 DEF Locking, Shape, Current
<1>6. lock' # r
  BY <1>3 DEF Good, LockOwned, Locking, Idle
<1>7. RowsStep(r, q)
  BY <1>3, RowsKept
<1>8. QED
  BY <1>3, <1>4, <1>5, <1>6, <1>7, StepOfOne

\* A transaction that ends without a commit gives its locks back.
LEMMA AbortStep ==
    ASSUME IInv, NEW r \in Requests, Abort(r)
    PROVE  IInv'
<1>1. TypeOK'
  BY DEF IInv, TypeOK, Abort, End
<1>2. ~ Locking(Idle) /\ lock' # r
  BY NoneAssumption DEF Locking, Idle, Abort, End
<1>3. \A x \in Assets \cup Scans : rowLock'[x] \in {rowLock[x], None} /\ rowLock'[x] # r
  BY NoneAssumption DEF Abort, End
<1>4. QED
  BY <1>1, <1>2, <1>3, StepOfOne DEF Abort, End, RowsStep

\* A flush locks one row; only delete has the audit lock by then.
LEMMA FlushStep ==
    ASSUME IInv, NEW r \in Requests, Flush(r)
    PROVE  IInv'
<1>1. CASE Abort(r)
  BY <1>1, AbortStep
<1>2. CASE ~ Abort(r)
  <2> DEFINE q == [req[r] EXCEPT !.pc = IF FlushesFirst(req[r].op) THEN "audit" ELSE "commit"]
  <2>1. req[r] \in Request /\ req[r] # Idle /\ Good(r)
    BY RequestTyped DEF IInv, Flush, At
  <2>2. q \in Request
    BY <2>1 DEF Request, Steps
  <2>3. /\ req' = [req EXCEPT ![r] = q]
        /\ rowLock' = [rowLock EXCEPT ![req[r].id] = r]
        /\ UNCHANGED <<asset, scan, host, lock>>
    BY <1>2 DEF Flush
  <2>4. TypeOK'
    BY <2>2, <2>3 DEF IInv, TypeOK
  <2>5. q.op = req[r].op /\ q.id = req[r].id /\ q.ip = req[r].ip /\ q.todo = req[r].todo
        /\ q.hosts = req[r].hosts /\ q.new = req[r].new
        /\ q.pc = IF FlushesFirst(req[r].op) THEN "audit" ELSE "commit"
    BY <2>1 DEF Request
  <2>6. req[r].pc = "flush" /\ req[r].op \in Ops
    BY DEF Flush, At
  <2>7. Locking(q) <=> lock' = r
    BY <2>1, <2>3, <2>5, <2>6 DEF Good, LockOwned, Locking, Shape, FlushesFirst, Ops
  <2>8. Shape(q) /\ Current(q)
    BY <2>1, <2>5, <2>6 DEF Good, Shape, Current
  <2>9. ASSUME NEW x \in Assets \cup Scans
        PROVE  /\ rowLock'[x] \in {rowLock[x], r, None}
               /\ rowLock'[x] = r => MayLock(q, x)
    <3>1. rowLock[x] # r
      BY <2>1, <2>6 DEF Good, RowsOwned, MayLock
    <3>2. rowLock'[x] = IF x = req[r].id THEN r ELSE rowLock[x]
      BY <2>3 DEF IInv, TypeOK
    <3>3. MayLock(q, req[r].id)
      BY <2>5, <2>6 DEF MayLock, FlushesFirst
    <3>4. QED
      BY <3>1, <3>2, <3>3
  <2>10. QED
    BY <2>3, <2>4, <2>7, <2>8, <2>9, StepOfOne DEF RowsStep
<1>3. QED
  BY <1>1, <1>2

\* record takes the audit lock from nobody.
LEMMA RecordStep ==
    ASSUME IInv, NEW r \in Requests, Record(r)
    PROVE  IInv'
<1> DEFINE q == [req[r] EXCEPT !.pc = Recorded(req[r].op)]
<1>1. req[r] \in Request /\ req[r] # Idle /\ Good(r)
  BY RequestTyped DEF IInv, Record, At
<1>2. Recorded(req[r].op) \in Steps /\ Recorded(req[r].op) # "audit"
  BY DEF Recorded, Steps
<1>3. q \in Request
  BY <1>1, <1>2 DEF Request
<1>4. TypeOK'
  BY <1>3 DEF IInv, TypeOK, Record
<1>5. q.op = req[r].op /\ q.id = req[r].id /\ q.ip = req[r].ip /\ q.todo = req[r].todo
      /\ q.hosts = req[r].hosts /\ q.new = req[r].new /\ q.pc = Recorded(req[r].op)
  BY <1>1 DEF Request
<1>6. req[r].pc = "audit" /\ req[r].op \in Ops
  BY DEF Record, At
<1>7. Shape(q) /\ Current(q)
  BY <1>1, <1>5, <1>6 DEF Good, Shape, Current, Recorded, FlushesFirst, Ops
<1>8. Locking(q) /\ lock' = r
  BY <1>5, <1>6 DEF Locking, Recorded, FlushesFirst, Ops, Record
<1>9. ASSUME NEW x \in Assets \cup Scans, rowLock[x] = r
      PROVE  MayLock(q, x)
  <2>1. req[r].op \in {"update", "scan"}
    BY <1>1, <1>6, <1>9 DEF Good, RowsOwned, MayLock
  <2>2. q.pc \in {"probe", "commit"}
    BY <1>5, <2>1 DEF Recorded
  <2>3. QED
    BY <2>2 DEF MayLock
<1>10. QED
  BY <1>4, <1>7, <1>8, <1>9, StepOfOne DEF Record, RowsStep

\* The results of the scanner are all still to be looked up.
LEMMA ProbeStep ==
    ASSUME IInv, NEW r \in Requests, Probe(r)
    PROVE  IInv'
<1>1. PICK alive \in SUBSET Ips :
        req' = [req EXCEPT ![r].todo = alive, ![r].pc = "lookup"]
  BY DEF Probe
<1> DEFINE q == [req[r] EXCEPT !.todo = alive, !.pc = "lookup"]
<1>2. req[r] \in Request /\ req[r] # Idle /\ Good(r)
  BY RequestTyped DEF IInv, Probe, At
<1>3. /\ req' = [req EXCEPT ![r] = q]
      /\ UNCHANGED <<asset, scan, host, rowLock, lock>>
  BY <1>1 DEF Probe, IInv, TypeOK
<1>4. q \in Request
  BY <1>2 DEF Request, Steps
<1>5. TypeOK'
  BY <1>3, <1>4 DEF IInv, TypeOK
<1>6. q.op = req[r].op /\ q.id = req[r].id /\ q.ip = req[r].ip /\ q.todo = alive
      /\ q.hosts = req[r].hosts /\ q.new = req[r].new /\ q.pc = "lookup"
  BY <1>2 DEF Request
<1>7. req[r].pc = "probe" /\ req[r].op = "scan"
  BY DEF Probe, At
<1>8. Locking(q) /\ lock' = r
  BY <1>2, <1>3, <1>6, <1>7 DEF Good, LockOwned, Locking
<1>9. Shape(q) /\ Current(q)
  BY <1>2, <1>6, <1>7 DEF Good, Shape, Current
<1>10. RowsStep(r, q)
  BY <1>2, <1>3, <1>6, RowsKept
<1>11. QED
  BY <1>2, <1>3, <1>5, <1>6, <1>8, <1>9, <1>10, StepOfOne

\* A host that no asset has the address of is linked to a fresh id.
LEMMA InsertStep ==
    ASSUME IInv, NEW r \in Requests, Insert(r)
    PROVE  IInv'
<1>1. PICK ip \in req[r].todo, a \in Unused :
        /\ WithIp(ip) = {}
        /\ req' = [req EXCEPT ![r].todo = @ \ {ip},
                              ![r].hosts = @ \cup {[ip |-> ip, asset |-> a]},
                              ![r].new = @ \cup {[ip |-> ip, asset |-> a]}]
  BY DEF Insert
<1> DEFINE n == [ip |-> ip, asset |-> a]
           q == [req[r] EXCEPT !.todo = @ \ {ip}, !.hosts = @ \cup {n},
                               !.new = @ \cup {n}]
<1>2. req[r] \in Request /\ req[r] # Idle /\ Good(r)
  BY RequestTyped DEF IInv, Insert, At
<1>3. /\ req' = [req EXCEPT ![r] = q]
      /\ UNCHANGED <<asset, scan, host, rowLock, lock>>
  BY <1>1 DEF Insert, IInv, TypeOK
<1>4. ip \in Ips /\ a \in Assets /\ n \in [ip : Ips, asset : Assets]
  BY <1>1, <1>2 DEF Request, Unused
<1>5. q \in Request
  BY <1>2, <1>4 DEF Request
<1>6. TypeOK'
  BY <1>3, <1>5 DEF IInv, TypeOK
<1>7. q.op = req[r].op /\ q.id = req[r].id /\ q.ip = req[r].ip /\ q.pc = req[r].pc
      /\ q.todo = req[r].todo \ {ip} /\ q.hosts = req[r].hosts \cup {n}
      /\ q.new = req[r].new \cup {n}
  BY <1>2 DEF Request
<1>8. req[r].pc = "lookup" /\ req[r].op = "scan"
  BY DEF Insert, At
<1>9. Locking(q) /\ lock' = r
  BY <1>2, <1>3, <1>7, <1>8 DEF Good, LockOwned, Locking
<1>10. Shape(q)
  BY <1>2, <1>7, <1>8 DEF Good, Shape
<1>11. \A h \in req[r].hosts : h.ip # ip /\ h.asset # a
  BY <1>1, <1>2 DEF Good, Current, Unused
<1>12. Current(q)
  <2>1. ~ Exists(a)
    BY <1>1 DEF Unused, Known
  <2>2. n.ip = ip /\ n.asset = a /\ n \notin req[r].hosts
    BY <1>11
  <2>3. Current(req[r])
    BY <1>2 DEF Good
  <2>4. ASSUME NEW h \in q.hosts
        PROVE  /\ h.ip \notin q.todo
               /\ h \in q.new => WithIp(h.ip) = {} /\ ~ Exists(h.asset)
               /\ h \notin q.new => WithIp(h.ip) = {h.asset}
               /\ \A g \in q.hosts : g.ip = h.ip \/ g.asset = h.asset => g = h
    <3>1. CASE h = n
      BY <1>1, <1>7, <1>11, <2>1, <2>2, <3>1
    <3>2. CASE h # n
      BY <1>7, <1>11, <2>2, <2>3, <3>2 DEF Current
    <3>3. QED
      BY <3>1, <3>2
  <2>5. QED
    BY <2>4 DEF Current
<1>13. RowsStep(r, q)
  BY <1>2, <1>3, <1>7, <1>8, RowsKept
<1>14. QED
  BY <1>2, <1>3, <1>6, <1>7, <1>8, <1>9, <1>10, <1>12, <1>13, StepOfOne

\* A host that one asset has the address of is linked to it.
LEMMA FindStep ==
    ASSUME IInv, NEW r \in Requests, Find(r)
    PROVE  IInv'
<1>1. PICK ip \in req[r].todo, a \in Assets :
        /\ WithIp(ip) = {a}
        /\ req' = [req EXCEPT ![r].todo = @ \ {ip}, ![r].pc = "refresh", ![r].ip = ip,
                              ![r].hosts = @ \cup {[ip |-> ip, asset |-> a]}]
  BY DEF Find
<1> DEFINE n == [ip |-> ip, asset |-> a]
           q == [req[r] EXCEPT !.todo = @ \ {ip}, !.pc = "refresh", !.ip = ip,
                               !.hosts = @ \cup {n}]
<1>2. req[r] \in Request /\ req[r] # Idle /\ Good(r)
  BY RequestTyped DEF IInv, Find, At
<1>3. /\ req' = [req EXCEPT ![r] = q]
      /\ UNCHANGED <<asset, scan, host, rowLock, lock>>
  BY <1>1 DEF Find, IInv, TypeOK
<1>4. ip \in Ips /\ n \in [ip : Ips, asset : Assets]
  BY <1>1, <1>2 DEF Request
<1>5. q \in Request
  BY <1>2, <1>4 DEF Request, Steps
<1>6. TypeOK'
  BY <1>3, <1>5 DEF IInv, TypeOK
<1>7. q.op = req[r].op /\ q.id = req[r].id /\ q.ip = ip /\ q.pc = "refresh"
      /\ q.todo = req[r].todo \ {ip} /\ q.hosts = req[r].hosts \cup {n}
      /\ q.new = req[r].new
  BY <1>2 DEF Request
<1>8. req[r].pc = "lookup" /\ req[r].op = "scan"
  BY DEF Find, At
<1>9. Locking(q) /\ lock' = r
  BY <1>2, <1>3, <1>7, <1>8 DEF Good, LockOwned, Locking
<1>10. Shape(q)
  <2>1. \E b \in Assets : [ip |-> q.ip, asset |-> b] \in q.hosts
    BY <1>1, <1>7
  <2>2. QED
    BY <1>2, <1>7, <1>8, <2>1 DEF Good, Shape
<1>11. asset[a] = ip /\ Exists(a)
  BY <1>1, <1>4, NoneAssumption DEF WithIp, Exists
<1>12. ASSUME NEW h \in req[r].hosts PROVE h.ip # ip /\ h.asset # a
  <2>1. h.ip # ip
    BY <1>1, <1>2 DEF Good, Current
  <2>2. CASE h \in req[r].new
    BY <1>2, <1>11, <2>1, <2>2 DEF Good, Current
  <2>3. CASE h \notin req[r].new
    BY <1>2, <1>11, <2>1, <2>3 DEF Good, Current, WithIp
  <2>4. QED
    BY <2>2, <2>3, <2>1
<1>13. Current(q)
  <2>1. n.ip = ip /\ n.asset = a /\ n \notin req[r].hosts
    BY <1>12
  <2>2. Current(req[r]) /\ req[r].new \subseteq req[r].hosts
    BY <1>2 DEF Good, Shape
  <2>3. ASSUME NEW h \in q.hosts
        PROVE  /\ h.ip \notin q.todo
               /\ h \in q.new => WithIp(h.ip) = {} /\ ~ Exists(h.asset)
               /\ h \notin q.new => WithIp(h.ip) = {h.asset}
               /\ \A g \in q.hosts : g.ip = h.ip \/ g.asset = h.asset => g = h
    <3>1. CASE h = n
      BY <1>1, <1>7, <1>12, <2>1, <2>2, <3>1
    <3>2. CASE h # n
      BY <1>7, <1>12, <2>1, <2>2, <3>2 DEF Current
    <3>3. QED
      BY <3>1, <3>2
  <2>4. QED
    BY <2>3 DEF Current
<1>14. RowsStep(r, q)
  BY <1>2, <1>3, <1>7, RowsKept
<1>15. QED
  BY <1>2, <1>3, <1>6, <1>7, <1>9, <1>10, <1>13, <1>14, StepOfOne

\* The refreshed asset is there, or the scan dies.
LEMMA RefreshStep ==
    ASSUME IInv, NEW r \in Requests, Refresh(r)
    PROVE  IInv'
<1>1. CASE Abort(r)
  BY <1>1, AbortStep
<1>2. CASE ~ Abort(r)
  <2> DEFINE q == [req[r] EXCEPT !.pc = "lookup"]
  <2>1. req[r] \in Request /\ req[r] # Idle /\ Good(r)
    BY RequestTyped DEF IInv, Refresh, At
  <2>2. q \in Request
    BY <2>1 DEF Request, Steps
  <2>3. /\ req' = [req EXCEPT ![r] = q]
        /\ rowLock' = [rowLock EXCEPT ![Found(r)] = r]
        /\ UNCHANGED <<asset, scan, host, lock>>
    BY <1>2 DEF Refresh
  <2>4. TypeOK'
    BY <2>2, <2>3 DEF IInv, TypeOK
  <2>5. q.op = req[r].op /\ q.id = req[r].id /\ q.ip = req[r].ip /\ q.todo = req[r].todo
        /\ q.hosts = req[r].hosts /\ q.new = req[r].new /\ q.pc = "lookup"
    BY <2>1 DEF Request
  <2>6. req[r].pc = "refresh" /\ req[r].op = "scan"
    BY DEF Refresh, At
  <2>7. Locking(q) /\ lock' = r
    BY <2>1, <2>3, <2>5, <2>6 DEF Good, LockOwned, Locking
  <2>8. Shape(q) /\ Current(q)
    BY <2>1, <2>5, <2>6 DEF Good, Shape, Current
  <2>9. \A x \in Assets \cup Scans :
          rowLock'[x] \in {rowLock[x], r, None} /\ MayLock(q, x)
    BY <2>3, <2>5 DEF IInv, TypeOK, MayLock
  <2>10. QED
    BY <2>3, <2>4, <2>7, <2>8, <2>9, StepOfOne DEF RowsStep
<1>3. QED
  BY <1>1, <1>2

\* A scan that has stored its results still holds the lock.
LEMMA FinishStep ==
    ASSUME IInv, NEW r \in Requests, Finish(r)
    PROVE  IInv'
<1> DEFINE q == [req[r] EXCEPT !.pc = "commit"]
<1>1. req[r] \in Request /\ req[r] # Idle /\ Good(r)
  BY RequestTyped DEF IInv, Finish, At
<1>2. q \in Request
  BY <1>1 DEF Request, Steps
<1>3. /\ req' = [req EXCEPT ![r] = q]
      /\ UNCHANGED <<asset, scan, host, rowLock, lock>>
  BY DEF Finish
<1>4. TypeOK'
  BY <1>2, <1>3 DEF IInv, TypeOK
<1>5. q.op = req[r].op /\ q.id = req[r].id /\ q.ip = req[r].ip /\ q.todo = req[r].todo
      /\ q.hosts = req[r].hosts /\ q.new = req[r].new /\ q.pc = "commit"
  BY <1>1 DEF Request
<1>6. req[r].pc = "lookup" /\ req[r].op = "scan"
  BY DEF Finish, At
<1>7. Locking(q) /\ lock' = r
  BY <1>1, <1>3, <1>5, <1>6 DEF Good, LockOwned, Locking
<1>8. Shape(q) /\ Current(q)
  BY <1>1, <1>5, <1>6 DEF Good, Shape, Current
<1>9. RowsStep(r, q)
  BY <1>1, <1>3, <1>5, RowsKept
<1>10. QED
  BY <1>1, <1>3, <1>4, <1>5, <1>7, <1>8, <1>9, StepOfOne

\* The rows a request commits are typed.
LEMMA StoredTyped ==
    ASSUME NEW q \in Request, asset \in [Assets -> Ips \cup {None}]
    PROVE  Stored(q) \in [Assets -> Ips \cup {None}]
<1>1. ASSUME NEW a \in Assets
      PROVE  Stored(q)[a] \in Ips \cup {None}
  <2>1. CASE \E h \in q.new : h.asset = a
    <3>1. (CHOOSE h \in q.new : h.asset = a) \in q.new
      BY <2>1
    <3>2. (CHOOSE h \in q.new : h.asset = a).ip \in Ips
      BY <3>1 DEF Request
    <3>3. QED
      BY <3>2 DEF Stored, Request
  <2>2. CASE ~ \E h \in q.new : h.asset = a
    BY <2>2 DEF Stored, Request
  <2>3. QED
    BY <2>1, <2>2
<1>2. QED
  BY <1>1 DEF Stored

\* The hosts a request commits are typed: a deleted asset leaves None.
LEMMA HostsTyped ==
    ASSUME NEW q \in Request, host \in [Scans -> SUBSET Host]
    PROVE  Hosts(q) \in [Scans -> SUBSET Host]
<1>1. ASSUME NEW s \in Scans
      PROVE  Hosts(q)[s] \in SUBSET Host
  <2>1. q.hosts \in SUBSET Host
    BY DEF Request, Host
  <2>2. ASSUME NEW h \in host[s]
        PROVE  (IF h.asset = q.id THEN [h EXCEPT !.asset = None] ELSE h) \in Host
    BY DEF Host
  <2>3. QED
    BY <2>1, <2>2 DEF Hosts
<1>2. QED
  BY <1>1 DEF Hosts

\* Whoever commits holds the audit lock, so no scan has results it would need
\* to keep.
LEMMA CommitStep ==
    ASSUME IInv, NEW r \in Requests, Commit(r)
    PROVE  IInv'
<1>1. req[r] \in Request /\ req[r] # Idle /\ Good(r) /\ req[r].pc = "commit"
  BY RequestTyped DEF IInv, Commit, At
<1>2. TypeOK'
  <2>1. asset' \in [Assets -> Ips \cup {None}]
    BY <1>1, StoredTyped DEF IInv, TypeOK, Commit
  <2>2. host' \in [Scans -> SUBSET Host]
    BY <1>1, HostsTyped DEF IInv, TypeOK, Commit
  <2>3. scan' \in [Scans -> Status]
    BY DEF IInv, TypeOK, Commit, Status
  <2>4. QED
    BY <2>1, <2>2, <2>3 DEF IInv, TypeOK, Commit, End
<1>3. lock = r
  BY <1>1 DEF Good, LockOwned, Locking
<1>4. ASSUME NEW s \in Requests PROVE Good(s)'
  <2>1. CASE s = r
    <3>1. req'[r] = Idle
      BY DEF Commit, End, IInv, TypeOK
    <3>2. lock' # r /\ \A x \in Assets \cup Scans : rowLock'[x] # r
      BY NoneAssumption DEF Commit, End
    <3>3. QED
      BY <2>1, <3>1, <3>2 DEF Good, LockOwned, RowsOwned, Locking, Idle
  <2>2. CASE s # r
    <3>1. req'[s] = req[s] /\ Good(s)
      BY <2>2 DEF IInv, TypeOK, Commit, End
    <3>2. ~ Locking(req[s])
      BY <2>2, <3>1, <1>3 DEF Good, LockOwned
    <3>3. LockOwned(s)' /\ RowsOwned(s)'
      BY <1>3, <3>1, <3>2, NoneAssumption DEF Good, LockOwned, RowsOwned, Commit, End
    <3>4. CASE req[s] = Idle
      BY <3>1, <3>3, <3>4 DEF Good
    <3>5. CASE req[s] # Idle
      <4>1. req[s] \in Request
        BY <3>5 DEF IInv, TypeOK
      <4>2. req[s].hosts = {}
        BY <3>1, <3>2, <3>5, <4>1 DEF Good, Shape, Locking, Request, Steps
      <4>3. Shape(req[s])
        BY <3>1, <3>5 DEF Good
      <4>4. QED
        BY <3>1, <3>3, <4>2, <4>3 DEF Good, Current, Shape
    <3>6. QED
      BY <3>4, <3>5
  <2>3. QED
    BY <2>1, <2>2
<1>5. QED
  BY <1>2, <1>4 DEF IInv

\* Every step preserves the invariant.
LEMMA NextIInv == IInv /\ [Next]_vars => IInv'
<1> SUFFICES ASSUME IInv, [Next]_vars PROVE IInv'
  OBVIOUS
<1>1. CASE UNCHANGED vars
  BY <1>1 DEF vars, IInv, TypeOK, Good, LockOwned, RowsOwned, Current, WithIp, Exists
<1>2. ASSUME NEW r \in Requests, Arrive(r) \/ Proceed(r) \/ Abort(r)
      PROVE  IInv'
  <2>1. CASE Arrive(r)
    BY <2>1, StartStep
  <2>2. CASE Abort(r) \/ ProbeFails(r) \/ Ambiguous(r) \/ Victim(r) \/ NoIdLeft(r)
    BY <2>2, AbortStep DEF ProbeFails, Ambiguous, Victim, NoIdLeft
  <2>3. CASE Flush(r) \/ Record(r) \/ Probe(r)
    BY <2>3, FlushStep, RecordStep, ProbeStep
  <2>4. CASE Insert(r) \/ Find(r) \/ Refresh(r) \/ Finish(r)
    BY <2>4, InsertStep, FindStep, RefreshStep, FinishStep
  <2>5. CASE Commit(r)
    BY <2>5, CommitStep
  <2>6. QED
    BY <1>2, <2>1, <2>2, <2>3, <2>4, <2>5 DEF Proceed
<1>3. QED
  BY <1>1, <1>2 DEF Next

\* It holds of every reachable state.
LEMMA IInvAlways == Spec => []IInv
BY InitIInv, NextIInv, PTL DEF Spec

-------------------------------------------------------------------------------
(* What follows from the invariant.                                        *)

\* The inventory a scan commits: its new hosts have their addresses, and
\* every other asset has the one it had.
LEMMA StoredByScan ==
    ASSUME NEW q \in Request, q.op = "scan", Current(q), q.new \subseteq q.hosts,
           NEW a \in Assets
    PROVE  /\ \A h \in q.new : h.asset = a => Stored(q)[a] = h.ip
           /\ (\A h \in q.new : h.asset # a) => Stored(q)[a] = asset[a]
<1>1. ASSUME NEW h \in q.new, h.asset = a
      PROVE  Stored(q)[a] = h.ip
  <2>1. (CHOOSE g \in q.new : g.asset = a) = h
    BY <1>1 DEF Current
  <2>2. QED
    BY <1>1, <2>1 DEF Stored
<1>2. QED
  BY <1>1 DEF Stored

\* A scan commits each host with the asset that has its address.
LEMMA ScanLinks ==
    ASSUME IInv, NEW r \in Requests, At(r, {"scan"}, "commit"), Commit(r),
           NEW h \in req[r].hosts
    PROVE  {a \in Assets : asset'[a] = h.ip} = {h.asset}
<1>1. req[r] \in Request /\ Shape(req[r]) /\ Current(req[r]) /\ req[r].op = "scan"
  BY RequestTyped DEF IInv, Good, At
<1>2. asset' = Stored(req[r]) /\ h.asset \in Assets /\ h.ip \in Ips
  BY <1>1 DEF Commit, Request
<1>3. req[r].new \subseteq req[r].hosts
  BY <1>1 DEF Shape
<1>4. asset'[h.asset] = h.ip
  <2>1. CASE h \in req[r].new
    BY <1>1, <1>2, <1>3, <2>1, StoredByScan
  <2>2. CASE h \notin req[r].new
    <3>1. \A g \in req[r].new : g.asset # h.asset
      BY <1>1, <1>3, <2>2 DEF Current
    <3>2. asset[h.asset] = h.ip
      BY <1>1, <2>2 DEF Current, WithIp
    <3>3. QED
      BY <1>1, <1>2, <1>3, <3>1, <3>2, StoredByScan
  <2>3. QED
    BY <2>1, <2>2
<1>5. ASSUME NEW a \in Assets, asset'[a] = h.ip
      PROVE  a = h.asset
  <2>1. CASE \E g \in req[r].new : g.asset = a
    <3>1. PICK g \in req[r].new : g.asset = a
      BY <2>1
    <3>2. g.ip = h.ip
      BY <1>1, <1>2, <1>3, <1>5, <3>1, StoredByScan
    <3>3. QED
      BY <1>1, <1>3, <3>1, <3>2 DEF Current
  <2>2. CASE \A g \in req[r].new : g.asset # a
    <3>1. asset[a] = h.ip
      BY <1>1, <1>2, <1>3, <1>5, <2>2, StoredByScan
    <3>2. a \in WithIp(h.ip)
      BY <3>1 DEF WithIp
    <3>3. QED
      BY <1>1, <3>2 DEF Current
  <2>3. QED
    BY <2>1, <2>2
<1>6. QED
  BY <1>2, <1>4, <1>5

\* Committing keeps every link to an asset that is there.
LEMMA CommitKeepsLinks ==
    ASSUME IInv, NoDanglingLink, NEW r \in Requests, Commit(r)
    PROVE  NoDanglingLink'
<1>1. req[r] \in Request /\ Shape(req[r]) /\ Current(req[r]) /\ req[r].op \in Ops
  BY RequestTyped DEF IInv, Good, Commit, At
<1>2. asset' = Stored(req[r]) /\ host' = Hosts(req[r])
  BY DEF Commit
<1> SUFFICES ASSUME NEW s \in Scans, NEW h \in host'[s], h.asset # None
             PROVE  Exists(h.asset)'
  BY DEF NoDanglingLink
<1>3. host \in [Scans -> SUBSET Host] /\ asset \in [Assets -> Ips \cup {None}]
  BY DEF IInv, TypeOK
<1>4. CASE req[r].op = "scan"
  <2>1. CASE s = req[r].id /\ h \in req[r].hosts
    <3>1. At(r, {"scan"}, "commit")
      BY <1>4 DEF At, Commit
    <3>2. h.asset \in {a \in Assets : asset'[a] = h.ip}
      BY <2>1, <3>1, ScanLinks
    <3>3. h.ip \in Ips
      BY <1>1, <2>1 DEF Request
    <3>4. QED
      BY <3>2, <3>3, NoneAssumption DEF Exists
  <2>2. CASE h \in host[s]
    <3>1. h.asset \in Assets /\ Exists(h.asset)
      BY <1>3, <2>2 DEF NoDanglingLink, Host
    <3>2. CASE \E g \in req[r].new : g.asset = h.asset
      BY <1>1, <3>1, <3>2 DEF Current, Shape
    <3>3. CASE \A g \in req[r].new : g.asset # h.asset
      BY <1>1, <1>2, <1>4, <3>1, <3>3, StoredByScan DEF Exists, Shape
    <3>4. QED
      BY <3>2, <3>3
  <2>3. QED
    BY <1>2, <1>4, <2>1, <2>2 DEF Hosts
<1>5. CASE req[r].op = "delete"
  <2>1. PICK g \in host[s] :
          h = IF g.asset = req[r].id THEN [g EXCEPT !.asset = None] ELSE g
    BY <1>2, <1>5 DEF Hosts
  <2>2. g \in Host
    BY <1>3
  <2>3. CASE g.asset = req[r].id
    BY <2>1, <2>2, <2>3 DEF Host
  <2>4. CASE g.asset # req[r].id
    <3>1. h = g /\ h.asset \in Assets /\ Exists(h.asset)
      BY <2>1, <2>2, <2>4 DEF NoDanglingLink, Host
    <3>2. asset'[h.asset] = asset[h.asset]
      BY <1>2, <1>5, <2>4, <3>1 DEF Stored
    <3>3. QED
      BY <3>1, <3>2 DEF Exists
  <2>5. QED
    BY <2>3, <2>4
<1>6. CASE req[r].op \in {"create", "update"}
  <2>1. h \in host[s]
    BY <1>2, <1>6 DEF Hosts
  <2>2. h.asset \in Assets /\ Exists(h.asset)
    BY <1>3, <2>1 DEF NoDanglingLink, Host
  <2>3. asset'[h.asset] \in {asset[h.asset]} \cup Ips
    BY <1>1, <1>2, <1>6, <2>2 DEF Stored, Request
  <2>4. QED
    BY <2>2, <2>3, NoneAssumption DEF Exists
<1>7. QED
  BY <1>1, <1>4, <1>5, <1>6 DEF Ops

\* Links change only when a request commits.
LEMMA NextLinks == IInv /\ NoDanglingLink /\ [Next]_vars => NoDanglingLink'
<1> SUFFICES ASSUME IInv, NoDanglingLink, [Next]_vars PROVE NoDanglingLink'
  OBVIOUS
<1>1. CASE UNCHANGED <<asset, host>>
  BY <1>1 DEF NoDanglingLink, Exists
<1>2. CASE \E r \in Requests : Commit(r)
  BY <1>2, CommitKeepsLinks
<1>3. QED
  BY <1>1, <1>2 DEF Next, vars, Arrive, StartCreate, StartUpdate, StartDelete, StartScan,
     Start, Proceed, Abort, Flush, Record, Probe, ProbeFails, Insert, Find, Ambiguous,
     Refresh, Finish, Victim, NoIdLeft

\* Of two requests that wait for each other at most one has the audit lock;
\* the other has locked rows and waits for it, so it is an update: the only
\* row of a scan that does not have the lock yet is that of the scan itself.
LEMMA DeadlockWaitsForLock ==
    ASSUME IInv, NEW r \in Requests, NEW q \in Requests, q # r,
           WaitsFor(r) = q, WaitsFor(q) = r, At(r, Ops, "audit")
    PROVE  req[r].op = "update" /\ lock = q
<1>1. lock = q
  BY DEF WaitsFor, At, Ops
<1>2. Locking(req[q]) /\ req[q].pc # "audit"
  BY <1>1 DEF IInv, Good, LockOwned, Locking
<1>3. req[q] \in Request /\ Shape(req[q]) /\ RowsOwned(r) /\ Good(q)
  BY <1>2, RequestTyped DEF IInv, Good, Locking
<1>4. CASE At(q, Ops, "flush")
  <2>1. rowLock[req[q].id] = r /\ req[q].id \in Assets
    BY <1>2, <1>3, <1>4 DEF WaitsFor, At, Locking, Shape, Request
  <2>2. MayLock(req[r], req[q].id)
    BY <1>3, <2>1 DEF RowsOwned
  <2>3. req[r] \in Request /\ Shape(req[r])
    BY RequestTyped DEF IInv, Good, At
  <2>4. QED
    BY <1>1, <2>1, <2>2, <2>3, IdsAssumption DEF MayLock, At, Shape
<1>5. CASE At(q, {"scan"}, "refresh")
  <2>1. rowLock[Found(q)] = r /\ Found(q) \in Assets
    <3>1. Found(q) \in Assets
      BY <1>3, <1>5 DEF Shape, At, Found
    <3>2. QED
      BY <1>5, <3>1 DEF WaitsFor, At
  <2>2. MayLock(req[r], Found(q))
    BY <1>3, <2>1 DEF RowsOwned
  <2>3. req[r] \in Request /\ Shape(req[r])
    BY RequestTyped DEF IInv, Good, At
  <2>4. QED
    BY <1>1, <2>1, <2>2, <2>3, IdsAssumption DEF MayLock, At, Shape
<1>6. QED
  BY <1>2, <1>4, <1>5, NoneAssumption DEF WaitsFor, At

\* Two requests that wait for rows of each other would both have the lock.
LEMMA DeadlockAtAudit ==
    ASSUME IInv, NEW r \in Requests, NEW q \in Requests, q # r,
           WaitsFor(r) = q, WaitsFor(q) = r
    PROVE  At(r, Ops, "audit") \/ At(q, Ops, "audit")
<1> SUFFICES ASSUME ~ At(r, Ops, "audit"), ~ At(q, Ops, "audit") PROVE FALSE
  OBVIOUS
<1>1. ASSUME NEW s \in Requests, NEW t \in Requests, WaitsFor(s) = t, ~ At(s, Ops, "audit")
      PROVE  /\ At(s, Ops, "flush") \/ At(s, {"scan"}, "refresh")
             /\ ~ At(t, Ops, "flush")
  <2>1. At(s, Ops, "flush") \/ At(s, {"scan"}, "refresh")
    BY <1>1, NoneAssumption DEF WaitsFor
  <2>2. req[s] \in Request /\ Shape(req[s])
    BY <2>1, RequestTyped DEF IInv, Good, At
  <2>3. \E x \in Assets \cup Scans : rowLock[x] = t
    <3>1. CASE At(s, Ops, "flush")
      <4>1. req[s].id \in Assets \cup Scans
        BY <2>2 DEF Request
      <4>2. rowLock[req[s].id] = t
        BY <1>1, <3>1 DEF WaitsFor, At
      <4>3. QED
        BY <4>1, <4>2
    <3>2. CASE At(s, {"scan"}, "refresh")
      <4>1. Found(s) \in Assets
        BY <2>2, <3>2 DEF Shape, At, Found
      <4>2. QED
        BY <1>1, <3>2, <4>1 DEF WaitsFor, At
    <3>3. QED
      BY <2>1, <3>1, <3>2
  <2>4. ~ At(t, Ops, "flush")
    BY <2>3 DEF IInv, Good, RowsOwned, MayLock, At
  <2>5. QED
    BY <2>1, <2>4
<1>2. At(r, {"scan"}, "refresh") /\ At(q, {"scan"}, "refresh")
  BY <1>1
<1>3. Locking(req[r]) /\ Locking(req[q])
  BY <1>2 DEF At, Locking
<1>4. QED
  BY <1>3 DEF IInv, Good, LockOwned

-------------------------------------------------------------------------------
(* The theorems.                                                           *)

\* Every variable keeps its type, whatever requests, assets, scans and
\* addresses there are.
THEOREM TypeCorrect == Spec => []TypeOK
BY IInvAlways, PTL DEF IInv

\* upsert_from_discovery inserts an asset for an address only if no asset has
\* that address when the scan commits: the audit lock that run_scan takes
\* before it probes keeps everybody else from committing meanwhile.
THEOREM NeverDuplicates == Spec => DiscoveryNeverDuplicates
<1>1. IInv /\ [Next]_vars =>
        [\A r \in Requests : At(r, {"scan"}, "commit") /\ Commit(r) =>
           \A h \in req[r].new : WithIp(h.ip) = {}]_vars
  <2> SUFFICES ASSUME IInv, NEW r \in Requests, At(r, {"scan"}, "commit"),
                      NEW h \in req[r].new
               PROVE  WithIp(h.ip) = {}
    OBVIOUS
  <2>1. Shape(req[r]) /\ Current(req[r])
    BY RequestTyped DEF IInv, Good, At
  <2>2. QED
    BY <2>1 DEF Shape, Current
<1>2. QED
  BY <1>1, IInvAlways, PTL DEF Spec, DiscoveryNeverDuplicates

\* When run_scan commits, the asset each discovered host is linked to is the
\* one asset that has its address.
THEOREM LinksStayCurrent == Spec => LinksAreCurrent
<1>1. IInv /\ [Next]_vars =>
        [\A r \in Requests : At(r, {"scan"}, "commit") /\ Commit(r) =>
           \A h \in req[r].hosts : {a \in Assets : asset'[a] = h.ip} = {h.asset}]_vars
  BY ScanLinks
<1>2. QED
  BY <1>1, IInvAlways, PTL DEF Spec, LinksAreCurrent

\* A discovered host is never linked to an asset that is not there, although
\* assets are deleted while scans hold their ids.
THEOREM NoLinkDangles == Spec => []NoDanglingLink
<1>1. Init => NoDanglingLink
  BY DEF Init, NoDanglingLink
<1>2. QED
  BY <1>1, IInvAlways, NextLinks, PTL DEF Spec

\* Both at once: a link is right when it is made and never dangles later.
THEOREM LinksAlwaysInOrder == Spec => LinksInOrder
BY LinksStayCurrent, NoLinkDangles, PTL DEF LinksInOrder

\* Whatever deadlock PostgreSQL finds, an update of an asset that waits for
\* the audit lock is a part of it.
THEOREM DeadlocksNeedUpdate == Spec => []DeadlockNeedsUpdate
<1>1. IInv => DeadlockNeedsUpdate
  <2> SUFFICES ASSUME IInv, NEW r \in Requests, Deadlocked(r)
               PROVE  \E q \in {r, WaitsFor(r)} : req[q].op = "update" /\ lock = WaitsFor(q)
    BY DEF DeadlockNeedsUpdate
  <2> DEFINE q == WaitsFor(r)
  <2>1. q \in Requests /\ q # r /\ WaitsFor(q) = r
    BY DEF Deadlocked
  <2>2. CASE At(r, Ops, "audit")
    BY <2>1, <2>2, DeadlockWaitsForLock
  <2>3. CASE At(q, Ops, "audit")
    BY <2>1, <2>3, DeadlockWaitsForLock
  <2>4. QED
    BY <2>1, <2>2, <2>3, DeadlockAtAudit
<1>2. QED
  BY <1>1, IInvAlways, PTL

===============================================================================
