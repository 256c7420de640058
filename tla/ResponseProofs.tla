----------------------------- MODULE ResponseProofs -----------------------------
(***************************************************************************)
(* Theorems about Emergency and Automation, for any requests, events,      *)
(* access points, jobs and rules.                                          *)
(*                                                                         *)
(* Emergency: what a lockdown and its resolution leave of the points, what *)
(* an emergency counts, and who may block whom.  A lockdown that is past   *)
(* its UPDATE holds until its commit the lock of every point it found that *)
(* is still there (Covers), so nobody's value can come between, and a      *)
(* point that is being added is nobody else's (Alone).  Locks are taken in *)
(* stages: points, then the event, then the audit lock (PointsOwned,       *)
(* EventsOwned, LockOwned); so requests that wait for each other are all   *)
(* at their points, and one that changes a single point is never waited    *)
(* for there.                                                              *)
(*                                                                         *)
(* Automation: a count that was read is never more than the firings that   *)
(* were committed (HasRead), and every firing is one of an evaluation that *)
(* started (FiringsCounted); a rule that is being created is in nobody     *)
(* else's hands (Makes).  An evaluation holds the locks of the rules       *)
(* it has written and of no others, any other request holds a lock when    *)
(* nothing of it is pending (Holds); so what is waited for, and waits      *)
(* itself, is an evaluation that took locks at two places.                 *)
(***************************************************************************)
EXTENDS MCResponse, FiniteSetTheorems, TLAPS

\* The lockdowns and the resolutions of one.
Lockdown(q) == q.op \in {"trigger", "resolve"} /\ q.type = "lockdown"

\* What the parts of a request say about each other.
Shape(q) ==
    /\ q.pc = "points" =>
         /\ q.next \in q.todo
         /\ Lockdown(q) \/ (q.op \in {"update", "delete"} /\ q.todo = {q.next})
    /\ q.pc # "points" => q.todo = {}
    /\ q.pc = "notify" => q.op = "trigger"
    /\ q.pc = "flush" => q.op \in {"acknowledge", "resolve"}
    /\ q.op \in PointOps <=> q.event = Nobody
    /\ q.todo \subseteq q.found
    /\ Lockdown(q) => \A p \in q.found : q.value = (q.op = "trigger")
    /\ q.count = q.rows /\ q.sent <= q.rows /\ q.targets + q.rows <= MaxTargets

\* Only a request that is about to commit holds the audit lock.
LockOwned(r) == lock = r => req[r].pc = "commit"

EventsOwned(r) == \A e \in Events : eventLock[e] = r => req[r].pc \in {"audit", "commit"}

\* A request that changes one point has its lock only when it is done with it.
PointsOwned(r) ==
    \A p \in Points : pointLock[p] = r =>
        req[r] # Idle /\ (Lockdown(req[r]) \/ (req[r].op \in PointOps /\ req[r].pc # "points"))

\* A lockdown, or its resolution, holds the points it has updated; one that it
\* found and does not hold is gone.
Covers(r) ==
    Lockdown(req[r]) =>
      \A p \in req[r].found : p \in req[r].todo \/ pointLock[p] = r \/ p \notin points

\* A point that is being added is nobody else's until the commit.
Adds(r) == req[r] # Idle /\ req[r].op = "create"
Alone(r) ==
    Adds(r) => /\ req[r].found \cap points = {}
               /\ \A p \in Points : pointLock[p] = r => p \in req[r].found
               /\ \A s \in Requests \ {r} : req[s] # Idle => req[s].found \cap req[r].found = {}

\* What a request says it sent was sent.
SentWasSent(r) == req[r].op = "trigger" => req[r].sent <= delivered[req[r].event]

Good(r) ==
    /\ LockOwned(r) /\ EventsOwned(r) /\ PointsOwned(r) /\ Alone(r)
    /\ req[r] # Idle => Shape(req[r]) /\ Covers(r) /\ SentWasSent(r)

IInv == TypeOK /\ CountedIsRecorded /\ \A r \in Requests : Good(r)

\* A step of r takes locks that are free and gives back its own.
Taken(r, old, new) == new = old \/ (old = Nobody /\ new = r) \/ (old = r /\ new = Nobody)

LocksStep(r) ==
    /\ Taken(r, lock, lock')
    /\ \A e \in Events : Taken(r, eventLock[e], eventLock'[e])
    /\ \A p \in Points : Taken(r, pointLock[p], pointLock'[p])

\* A step of r adds points that it found, and finds none that another adds.
KeepsApart(r, q) ==
    /\ points' \subseteq points \cup (IF Adds(r) THEN req[r].found ELSE {})
    /\ q = Idle \/ \A s \in Requests \ {r} : Adds(s) => q.found \cap req[s].found = {}

-------------------------------------------------------------------------------
\* Nobody runs anything at first.
LEMMA InitIInv == Init => IInv
<1> SUFFICES ASSUME Init PROVE IInv
  OBVIOUS
<1>1. TypeOK
  BY TargetsAssumption DEF Init, TypeOK, Row, NoRow, Notes, Count, EmergencyStatus, Types
<1>2. CountedIsRecorded
  BY DEF Init, CountedIsRecorded, NoRow
<1>3. ASSUME NEW r \in Requests PROVE Good(r)
  BY NobodyAssumption DEF Init, Good, LockOwned, EventsOwned, PointsOwned, Alone, Adds
<1>4. QED
  BY <1>1, <1>2, <1>3 DEF IInv

\* With the type invariant the pc of a request tells that it is one.
LEMMA RequestTyped ==
    ASSUME TypeOK, NEW r \in Requests, req[r].pc # "idle"
    PROVE  req[r] # Idle /\ req[r] \in Request
BY DEF TypeOK, Idle

\* A step of one request: the others keep their part of the invariant.
LEMMA StepOfOne ==
    ASSUME IInv, TypeOK', CountedIsRecorded', NEW r \in Requests, NEW q,
           req' = [req EXCEPT ![r] = q], LocksStep(r), KeepsApart(r, q),
           \A e \in Events : delivered'[e] >= delivered[e],
           Good(r)'
    PROVE  IInv'
<1>1. ASSUME NEW s \in Requests, s # r PROVE Good(s)'
  <2>1. req'[s] = req[s] /\ Good(s) /\ Good(r) /\ req'[r] = q
    BY <1>1 DEF IInv, TypeOK
  <2>6. ASSUME req[s] # Idle, NEW p \in req[s].found PROVE p \in points' => p \in points
    <3>1. Adds(r) => req[s].found \cap req[r].found = {}
      BY <1>1, <2>1, <2>6 DEF Good, Alone
    <3>2. QED
      BY <2>6, <3>1 DEF KeepsApart
  <2>7. Alone(s)'
    <3>1. SUFFICES ASSUME Adds(s) PROVE Alone(s)'
      BY <2>1 DEF Alone, Adds
    <3>2. req[s] # Idle /\ Alone(s)
      BY <2>1, <3>1 DEF Good, Adds
    <3>3. req'[s].found \cap points' = {}
      BY <2>1, <2>6, <3>1, <3>2 DEF Alone
    <3>4. \A p \in Points : pointLock'[p] = s => p \in req'[s].found
      BY <1>1, <2>1, <3>1, <3>2, NobodyAssumption DEF Alone, LocksStep, Taken
    <3>5. ASSUME NEW t \in Requests \ {s}, req'[t] # Idle
          PROVE  req'[t].found \cap req'[s].found = {}
      <4>1. CASE t = r
        BY <1>1, <2>1, <3>1, <3>5, <4>1 DEF KeepsApart
      <4>2. CASE t # r
        <5>1. req'[t] = req[t]
          BY <4>2 DEF IInv, TypeOK
        <5>2. QED
          BY <2>1, <3>1, <3>2, <3>5, <5>1 DEF Alone
      <4>3. QED
        BY <4>1, <4>2
    <3>6. QED
      BY <3>3, <3>4, <3>5 DEF Alone
  <2>2. LockOwned(s)' /\ EventsOwned(s)' /\ PointsOwned(s)'
    BY <1>1, <2>1, NobodyAssumption
    DEF Good, LockOwned, EventsOwned, PointsOwned, LocksStep, Taken
  <2>3. ASSUME req[s] # Idle PROVE Covers(s)'
    <3>1. SUFFICES ASSUME Lockdown(req[s]), NEW p \in req[s].found
          PROVE  p \in req[s].todo \/ pointLock'[p] = s \/ p \notin points'
      BY <2>1 DEF Covers
    <3>2. p \in Points
      BY <2>3 DEF IInv, TypeOK, Request
    <3>3. p \in req[s].todo \/ pointLock[p] = s \/ p \notin points
      BY <2>1, <2>3, <3>1 DEF Good, Covers
    <3>4. pointLock[p] = s => pointLock'[p] = s
      BY <1>1, <3>2, NobodyAssumption DEF LocksStep, Taken
    <3>5. QED
      BY <2>3, <2>6, <3>3, <3>4
  <2>4. ASSUME req[s] # Idle PROVE SentWasSent(s)'
    <3>1. req[s] \in Request /\ SentWasSent(s) /\ Shape(req[s])
      BY <2>1, <2>4 DEF Good, IInv, TypeOK
    <3>2. CASE req[s].op = "trigger"
      <4>1. req[s].event \in Events /\ req[s].sent \in Nat
        BY <3>1, <3>2, TargetsAssumption DEF Request, Shape, Count, PointOps
      <4>2. delivered[req[s].event] \in Nat /\ delivered'[req[s].event] \in Nat
        BY <4>1 DEF IInv, TypeOK
      <4>3. QED
        BY <2>1, <3>1, <3>2, <4>1, <4>2 DEF SentWasSent
    <3>3. QED
      BY <2>1, <3>2 DEF SentWasSent
  <2>5. QED
    BY <2>1, <2>2, <2>3, <2>4, <2>7 DEF Good
<1>2. QED
  BY <1>1 DEF IInv

-------------------------------------------------------------------------------
(* Every action preserves the invariant.                                   *)

\* A request begins without a lock.
LEMMA StartStep ==
    ASSUME IInv, NEW r \in Requests, NEW q \in Request, Start(r, q),
           Shape(q), q.sent = 0, q.op # "create",
           q.found \subseteq points, Lockdown(q) => q.todo = q.found
    PROVE  IInv'
<1>1. /\ req[r] = Idle /\ Good(r) /\ req' = [req EXCEPT ![r] = q]
      /\ UNCHANGED <<event, points, locked, notes, eventLock, pointLock, lock, delivered>>
  BY DEF Start, IInv
<1>2. TypeOK'
  BY <1>1 DEF IInv, TypeOK
<1>3. CountedIsRecorded'
  BY <1>1 DEF IInv, CountedIsRecorded
<1>4. req'[r] = q /\ q # Idle
  BY <1>1 DEF IInv, TypeOK, Request, Idle
<1>5. LockOwned(r)' /\ EventsOwned(r)' /\ PointsOwned(r)'
  BY <1>1 DEF Good, LockOwned, EventsOwned, PointsOwned, Idle
<1>6. SentWasSent(r)'
  <2>1. CASE q.op = "trigger"
    <3>1. q.event \in Events
      BY <2>1 DEF Shape, Request, PointOps
    <3>2. delivered'[q.event] \in Nat
      BY <1>2, <3>1 DEF TypeOK
    <3>3. QED
      BY <1>4, <3>2 DEF SentWasSent
  <2>2. QED
    BY <1>4, <2>1 DEF SentWasSent
<1>7. Covers(r)'
  BY <1>4 DEF Covers
<1>8. Good(r)'
  <2>1. Alone(r)'
    BY <1>4 DEF Alone, Adds
  <2>2. QED
    BY <1>4, <1>5, <1>6, <1>7, <2>1 DEF Good
<1>9. LocksStep(r) /\ KeepsApart(r, q)
  <2>1. \A s \in Requests : Adds(s) => req[s].found \cap points = {}
    BY DEF IInv, Good, Alone
  <2>2. KeepsApart(r, q)
    BY <1>1, <2>1 DEF KeepsApart
  <2>3. QED
    BY <1>1, <2>2 DEF LocksStep, Taken
<1>10. \A e \in Events : delivered'[e] >= delivered[e]
  BY <1>1 DEF IInv, TypeOK
<1>11. QED
  BY <1>1, <1>2, <1>3, <1>8, <1>9, <1>10, StepOfOne

\* A point that is added begins with its lock, and nobody else knows of it.
LEMMA CreateStep ==
    ASSUME IInv, NEW r \in Requests, NEW q \in Request, NEW p \in Fresh,
           req[r] = Idle, req' = [req EXCEPT ![r] = q],
           pointLock' = [pointLock EXCEPT ![p] = r],
           UNCHANGED <<event, points, locked, notes, eventLock, lock, delivered>>,
           Shape(q), q.op = "create", q.pc = "audit", q.found = {p}
    PROVE  IInv'
<1>1. Good(r) /\ req'[r] = q /\ q # Idle
  BY DEF IInv, TypeOK, Request, Idle
<1>2. /\ p \in Points /\ p \notin points /\ pointLock[p] = Nobody
      /\ \A s \in Requests : req[s] = Idle \/ p \notin req[s].found
  BY DEF Fresh
<1>3. TypeOK'
  BY <1>2 DEF IInv, TypeOK
<1>4. CountedIsRecorded'
  BY DEF IInv, CountedIsRecorded
<1>5. LockOwned(r)' /\ EventsOwned(r)'
  BY <1>1 DEF Good, LockOwned, EventsOwned, Idle
<1>6. PointsOwned(r)'
  BY <1>1 DEF PointsOwned, PointOps
<1>7. Alone(r)'
  <2>1. ASSUME NEW x \in Points, pointLock'[x] = r PROVE x = p
    BY <1>1, <2>1 DEF Good, PointsOwned, IInv, TypeOK
  <2>2. ASSUME NEW s \in Requests \ {r}, req'[s] # Idle PROVE p \notin req'[s].found
    BY <1>2, <2>2 DEF IInv, TypeOK
  <2>3. QED
    BY <1>1, <1>2, <2>1, <2>2 DEF Alone
<1>8. Covers(r)' /\ SentWasSent(r)'
  BY <1>1 DEF Covers, SentWasSent, Lockdown
<1>9. Good(r)'
  BY <1>1, <1>5, <1>6, <1>7, <1>8 DEF Good
<1>10. LocksStep(r)
  BY <1>2 DEF LocksStep, Taken, IInv, TypeOK
<1>11. KeepsApart(r, q)
  BY <1>2 DEF KeepsApart, Adds
<1>12. \A e \in Events : delivered'[e] >= delivered[e]
  BY DEF IInv, TypeOK
<1>13. QED
  BY <1>3, <1>4, <1>9, <1>10, <1>11, <1>12, StepOfOne

\* What the operations begin as.
LEMMA NewTyped ==
    ASSUME NEW op \in Ops, NEW e \in Events \cup {Nobody}, NEW type \in Types,
           NEW pc \in {"points", "notify", "flush", "audit", "commit"}
    PROVE  /\ New(op, e, type, pc) \in Request
           /\ New(op, e, type, pc) =
                [op |-> op, pc |-> pc, event |-> e, type |-> type, value |-> FALSE,
                 found |-> {}, todo |-> {}, next |-> Nobody, targets |-> 0, count |-> 0,
                 rows |-> 0, sent |-> 0]
BY TargetsAssumption DEF New, Request, Count

\* It begins as it should, if it has nothing else to do yet.
LEMMA StartOverStep ==
    ASSUME IInv, NEW r \in Requests, NEW q \in Request, NEW S \in SUBSET points,
           NEW v \in BOOLEAN, StartOver(r, q, S, v),
           q.op \notin {"acknowledge", "create"}, q.op \in PointOps <=> q.event = Nobody,
           IF q.op \in PointOps THEN \E p \in points : S = {p}
           ELSE q.type = "lockdown" /\ v = (q.op = "trigger"),
           q.count = 0, q.rows = 0, q.sent = 0
    PROVE  IInv'
<1>1. PICK p \in S :
        Start(r, [q EXCEPT !.pc = "points", !.value = v, !.found = S, !.todo = S,
                        !.next = p])
  BY DEF StartOver
<1>2. PICK s : s = [q EXCEPT !.pc = "points", !.value = v, !.found = S, !.todo = S,
                        !.next = p]
  OBVIOUS
<1>3. s \in Request
  BY <1>2 DEF Request, IInv, TypeOK
<1>4. /\ s.pc = "points" /\ s.value = v /\ s.found = S /\ s.todo = S /\ s.next = p
      /\ s.op = q.op /\ s.type = q.type /\ s.event = q.event /\ s.targets = q.targets
      /\ s.count = q.count /\ s.rows = q.rows /\ s.sent = q.sent
  BY <1>2 DEF Request
<1>5. q.op \in {"trigger", "resolve", "update", "delete"} /\ q.targets \in 0 .. MaxTargets
  BY DEF Request, Ops, PointOps, Count
<1>6. Shape(s) /\ (Lockdown(s) => s.todo = s.found)
  BY <1>4, <1>5, TargetsAssumption DEF Shape, Lockdown, PointOps
<1>7. Start(r, s)
  BY <1>1, <1>2
<1>8. QED
  BY <1>3, <1>4, <1>6, <1>7, StartStep

\* Every way a request arrives starts it over.
LEMMA ArriveStep ==
    ASSUME IInv, NEW r \in Requests, Arrive(r)
    PROVE  IInv'
<1>1. CASE StartTrigger(r)
  <2>1. PICK e \in Unused, type \in Types, n \in Count :
          LET q == [New("trigger", e, type, "notify") EXCEPT !.targets = n] IN
          IF type = "lockdown" /\ points # {} THEN StartOver(r, q, points, TRUE) ELSE Start(r, q)
    BY <1>1 DEF StartTrigger
  <2>2. PICK q : q = [New("trigger", e, type, "notify") EXCEPT !.targets = n]
    OBVIOUS
  <2>3. e \in Events /\ e # Nobody
    BY NobodyAssumption DEF Unused
  <2>4. /\ q \in Request /\ q.op = "trigger" /\ q.pc = "notify" /\ q.event = e /\ q.type = type
        /\ q.found = {} /\ q.todo = {} /\ q.value = FALSE /\ q.targets = n
        /\ q.count = 0 /\ q.rows = 0 /\ q.sent = 0
    BY <2>2, <2>3, NewTyped DEF Ops, Request
  <2>5. CASE type = "lockdown" /\ points # {}
    BY <2>1, <2>2, <2>3, <2>4, <2>5, StartOverStep DEF PointOps
  <2>6. CASE ~ (type = "lockdown" /\ points # {})
    <3>1. n \in 0 .. MaxTargets
      BY DEF Count
    <3>2. Shape(q) /\ (Lockdown(q) => q.todo = q.found)
      BY <2>3, <2>4, <2>6, <3>1, TargetsAssumption DEF Shape, Lockdown, PointOps
    <3>3. QED
      BY <2>1, <2>2, <2>4, <2>6, <3>2, StartStep
  <2>7. QED
    BY <2>5, <2>6
<1>2. CASE StartAcknowledge(r)
  <2>1. PICK e \in Events, type \in Types, pc \in {"flush", "audit"} :
          Start(r, New("acknowledge", e, type, pc))
    BY <1>2 DEF StartAcknowledge, Stored, IInv, TypeOK, Row
  <2> DEFINE q == New("acknowledge", e, type, pc)
  <2>2. /\ q \in Request
        /\ q = [op |-> "acknowledge", pc |-> pc, event |-> e, type |-> type, value |-> FALSE,
                found |-> {}, todo |-> {}, next |-> Nobody, targets |-> 0, count |-> 0,
                rows |-> 0, sent |-> 0]
    BY NewTyped DEF Ops, PointOps
  <2>3. Shape(q) /\ ~ Lockdown(q)
    BY <2>2, NobodyAssumption, TargetsAssumption DEF Shape, Lockdown, PointOps
  <2>4. QED
    BY <2>1, <2>2, <2>3, StartStep
<1>3. CASE StartResolve(r)
  <2>1. PICK e \in Events, type \in Types : \E q :
          /\ q = New("resolve", e, type, "flush")
          /\ IF q.type = "lockdown" /\ points # {}
             THEN StartOver(r, q, points, FALSE) ELSE Start(r, q)
    BY <1>3 DEF StartResolve, Stored, IInv, TypeOK, Row
  <2>2. PICK q : /\ q = New("resolve", e, type, "flush")
                 /\ IF q.type = "lockdown" /\ points # {}
                    THEN StartOver(r, q, points, FALSE) ELSE Start(r, q)
    BY <2>1
  <2>3. /\ q \in Request /\ q.op = "resolve" /\ q.pc = "flush" /\ q.event = e /\ q.type = type
        /\ q.found = {} /\ q.todo = {} /\ q.value = FALSE /\ q.targets = 0
        /\ q.count = 0 /\ q.rows = 0 /\ q.sent = 0
    BY <2>2, NewTyped DEF Ops
  <2>4. CASE type = "lockdown" /\ points # {}
    BY <2>2, <2>3, <2>4, NobodyAssumption, StartOverStep DEF PointOps
  <2>5. CASE ~ (type = "lockdown" /\ points # {})
    <3>1. Start(r, q)
      BY <2>2, <2>3, <2>5
    <3>2. Shape(q) /\ (Lockdown(q) => q.todo = q.found)
      BY <2>3, <2>5, NobodyAssumption, TargetsAssumption DEF Shape, Lockdown, PointOps
    <3>3. QED
      BY <2>3, <3>1, <3>2, StartStep
  <2>6. QED
    BY <2>4, <2>5
<1>4. CASE StartUpdate(r)
  <2>1. PICK p \in points, value \in BOOLEAN :
          LET q == New("update", Nobody, "panic", "audit") IN
          IF locked[p] = value THEN Start(r, q) ELSE StartOver(r, q, {p}, value)
    BY <1>4 DEF StartUpdate
  <2> DEFINE q == New("update", Nobody, "panic", "audit")
  <2>2. /\ q \in Request
        /\ q = [op |-> "update", pc |-> "audit", event |-> Nobody, type |-> "panic",
                value |-> FALSE, found |-> {}, todo |-> {}, next |-> Nobody, targets |-> 0, count |-> 0,
                rows |-> 0, sent |-> 0]
    BY NewTyped DEF Ops, PointOps, Types
  <2>3. CASE locked[p] = value
    <3>1. Shape(q) /\ ~ Lockdown(q)
      BY <2>2, TargetsAssumption DEF Shape, Lockdown, PointOps
    <3>2. QED
      BY <2>1, <2>2, <2>3, <3>1, StartStep
  <2>4. CASE locked[p] # value
    BY <2>1, <2>2, <2>4, StartOverStep DEF PointOps
  <2>5. QED
    BY <2>3, <2>4
<1>5. CASE StartDelete(r)
  <2>1. PICK p \in points : StartOver(r, New("delete", Nobody, "panic", "audit"), {p}, FALSE)
    BY <1>5 DEF StartDelete
  <2>2. PICK q : q = New("delete", Nobody, "panic", "audit")
    OBVIOUS
  <2>3. /\ q \in Request /\ q.op = "delete" /\ q.event = Nobody
        /\ q.count = 0 /\ q.rows = 0 /\ q.sent = 0
    BY <2>2, NewTyped DEF Ops, PointOps, Types
  <2>4. StartOver(r, q, {p}, FALSE) /\ {p} \in SUBSET points
    BY <2>1, <2>2
  <2>5. QED
    BY <2>3, <2>4, StartOverStep DEF PointOps
<1>6. CASE StartCreate(r)
  <2>1. PICK p \in Fresh, value \in BOOLEAN :
          /\ req' = [req EXCEPT ![r] = [New("create", Nobody, "panic", "audit") EXCEPT
                                         !.value = value, !.found = {p}]]
          /\ pointLock' = [pointLock EXCEPT ![p] = r]
    BY <1>6 DEF StartCreate
  <2>2. PICK q : q = [New("create", Nobody, "panic", "audit") EXCEPT
                        !.value = value, !.found = {p}]
    OBVIOUS
  <2>3. p \in Points
    BY DEF Fresh
  <2>4. /\ q \in Request /\ q.op = "create" /\ q.pc = "audit" /\ q.event = Nobody
        /\ q.type = "panic" /\ q.found = {p} /\ q.todo = {} /\ q.targets = 0
        /\ q.count = 0 /\ q.rows = 0 /\ q.sent = 0
    <3>1. PICK o \in Request : /\ o = New("create", Nobody, "panic", "audit")
                               /\ o.op = "create" /\ o.pc = "audit" /\ o.event = Nobody
                               /\ o.type = "panic" /\ o.todo = {} /\ o.targets = 0
                               /\ o.count = 0 /\ o.rows = 0 /\ o.sent = 0
      BY NewTyped DEF Ops, PointOps, Types
    <3>2. q = [o EXCEPT !.value = value, !.found = {p}]
      BY <2>2, <3>1
    <3>3. QED
      BY <2>3, <3>1, <3>2 DEF Request
  <2>5. Shape(q)
    BY <2>4, TargetsAssumption DEF Shape, Lockdown, PointOps
  <2>6. /\ req[r] = Idle /\ req' = [req EXCEPT ![r] = q]
        /\ UNCHANGED <<event, points, locked, notes, eventLock, lock, delivered>>
    BY <1>6, <2>1, <2>2 DEF StartCreate
  <2>7. QED
    BY <2>1, <2>4, <2>5, <2>6, CreateStep
<1>7. QED
  BY <1>1, <1>2, <1>3, <1>4, <1>5, <1>6 DEF Arrive

\* A step of a request that commits nothing.
LEMMA MoveStep ==
    ASSUME IInv, NEW r \in Requests, req[r] # Idle, NEW q \in Request,
           req' = [req EXCEPT ![r] = q], q.found = req[r].found,
           UNCHANGED <<event, points, locked, notes>>,
           lock' \in Requests \cup {Nobody},
           eventLock' \in [Events -> Requests \cup {Nobody}],
           pointLock' \in [Points -> Requests \cup {Nobody}], LocksStep(r),
           delivered' \in [Events -> Nat], \A e \in Events : delivered'[e] >= delivered[e],
           Good(r)'
    PROVE  IInv'
<1>1. TypeOK'
  BY DEF IInv, TypeOK
<1>2. CountedIsRecorded'
  <2>1. ASSUME NEW e \in Events
        PROVE  /\ event'[e].notified = notes'[e].all /\ notes'[e].sent <= notes'[e].all
               /\ notes'[e].sent <= delivered'[e]
    <3>1. notes[e].sent \in Nat /\ delivered[e] \in Nat /\ delivered'[e] \in Nat
      BY TargetsAssumption DEF IInv, TypeOK, Notes, Count
    <3>2. QED
      BY <3>1 DEF IInv, CountedIsRecorded
  <2>2. QED
    BY <2>1 DEF CountedIsRecorded
<1>3. KeepsApart(r, q)
  BY DEF KeepsApart, Adds, IInv, Good, Alone
<1>4. QED
  BY <1>1, <1>2, <1>3, StepOfOne

\* The same when nothing is sent either.
LEMMA NothingSent ==
    ASSUME IInv, UNCHANGED delivered
    PROVE  delivered' \in [Events -> Nat] /\ \A e \in Events : delivered'[e] >= delivered[e]
BY DEF IInv, TypeOK

\* The UPDATE takes the lock of one point, or passes it.
LEMMA TakePointStep ==
    ASSUME IInv, NEW r \in Requests, TakePoint(r) \/ PassPoint(r)
    PROVE  IInv'
<1> DEFINE n == req[r].next
           rest == req[r].todo \ {n}
<1>1. /\ req[r] # Idle /\ req[r] \in Request /\ req[r].pc = "points"
      /\ Good(r) /\ Shape(req[r]) /\ Covers(r) /\ SentWasSent(r)
  BY RequestTyped DEF IInv, TakePoint, PassPoint, At, Good
<1>2. n \in Points /\ n \in req[r].todo /\ req[r].op \in {"trigger", "resolve", "update", "delete"}
  BY <1>1 DEF Shape, Request, Lockdown
<1>3. /\ pointLock[n] = Nobody
      /\ \/ pointLock' = [pointLock EXCEPT ![n] = r]
         \/ pointLock' = pointLock /\ n \notin points
      /\ UNCHANGED <<event, points, locked, notes, eventLock, lock, delivered>>
  BY DEF TakePoint, PassPoint
<1>4. pointLock' \in [Points -> Requests \cup {Nobody}] /\ LocksStep(r)
  BY <1>2, <1>3 DEF IInv, TypeOK, LocksStep, Taken
<1>5. PICK q : /\ req' = [req EXCEPT ![r] = q]
               /\ \/ /\ rest = {}
                     /\ q = [req[r] EXCEPT !.todo = {}, !.next = Nobody,
                                           !.pc = AfterPoints(req[r].op)]
                  \/ \E p \in rest : q = [req[r] EXCEPT !.todo = rest, !.next = p]
  <2>1. req \in [Requests -> Request \cup {Idle}] /\ Onwards(r, rest)
    BY DEF IInv, TypeOK, TakePoint, PassPoint
  <2>2. CASE /\ rest = {}
             /\ req' = [req EXCEPT ![r].todo = {}, ![r].next = Nobody,
                                   ![r].pc = AfterPoints(req[r].op)]
    <3> DEFINE q == [req[r] EXCEPT !.todo = {}, !.next = Nobody, !.pc = AfterPoints(req[r].op)]
    <3>1. req' = [req EXCEPT ![r] = q]
      BY <2>1, <2>2
    <3>2. QED
      BY <2>2, <3>1
  <2>3. ASSUME NEW p \in rest, req' = [req EXCEPT ![r].todo = rest, ![r].next = p]
        PROVE  req' = [req EXCEPT ![r] = [req[r] EXCEPT !.todo = rest, !.next = p]]
    BY <2>1, <2>3
  <2>4. QED
    BY <2>1, <2>2, <2>3 DEF Onwards
<1>6. /\ q \in Request /\ q.todo = rest /\ q.op = req[r].op /\ q.type = req[r].type
      /\ q.value = req[r].value /\ q.event = req[r].event /\ q.targets = req[r].targets
      /\ q.found = req[r].found /\ q.count = req[r].count /\ q.rows = req[r].rows /\ q.sent = req[r].sent
  <2>1. CASE rest = {} /\ q = [req[r] EXCEPT !.todo = {}, !.next = Nobody,
                                            !.pc = AfterPoints(req[r].op)]
    <3>1. AfterPoints(req[r].op) \in {"notify", "flush", "audit"}
      BY <1>2 DEF AfterPoints, PointOps
    <3>2. q \in Request
      BY <1>1, <2>1, <3>1 DEF Request
    <3>3. QED
      BY <1>1, <2>1, <3>2 DEF Request
  <2>2. ASSUME NEW p \in rest, q = [req[r] EXCEPT !.todo = rest, !.next = p]
        PROVE  /\ q \in Request /\ q.todo = rest /\ q.op = req[r].op /\ q.type = req[r].type
               /\ q.value = req[r].value /\ q.event = req[r].event
               /\ q.targets = req[r].targets /\ q.count = req[r].count
               /\ q.found = req[r].found
               /\ q.rows = req[r].rows /\ q.sent = req[r].sent
    <3>1. p \in Points /\ rest \in SUBSET Points
      BY <1>1 DEF Request
    <3>2. q \in Request
      BY <1>1, <2>2, <3>1 DEF Request
    <3>3. QED
      BY <1>1, <2>2, <3>2 DEF Request
  <2>3. QED
    BY <1>5, <2>1, <2>2
<1>7. IF rest = {} THEN q.pc = AfterPoints(q.op) ELSE q.pc = "points" /\ q.next \in rest
  BY <1>1, <1>5, <1>6 DEF Request
<1>8. req'[r] = q /\ q # Idle
  BY <1>5, <1>6 DEF IInv, TypeOK, Request, Idle
<1>9. Shape(q)
  BY <1>1, <1>2, <1>6, <1>7 DEF Shape, Lockdown, AfterPoints, PointOps
<1>10. LockOwned(r)' /\ EventsOwned(r)'
  BY <1>1, <1>3 DEF Good, LockOwned, EventsOwned
<1>11. PointsOwned(r)'
  <2>1. Lockdown(q) \/ (q.op \in PointOps /\ q.pc # "points")
    BY <1>1, <1>6, <1>7 DEF Shape, Lockdown, AfterPoints, PointOps
  <2>2. QED
    BY <1>8, <2>1 DEF PointsOwned
<1>12. Covers(r)' /\ SentWasSent(r)'
  BY <1>1, <1>2, <1>3, <1>6, <1>8 DEF Covers, SentWasSent, Lockdown, IInv, TypeOK
<1>13. Good(r)'
  <2>1. Alone(r)'
    BY <1>2, <1>6, <1>8 DEF Alone, Adds
  <2>2. QED
    BY <1>8, <1>9, <1>10, <1>11, <1>12, <2>1 DEF Good
<1>14. lock' \in Requests \cup {Nobody} /\ eventLock' \in [Events -> Requests \cup {Nobody}]
  BY <1>3 DEF IInv, TypeOK
<1>15. QED
  BY <1>1, <1>3, <1>4, <1>5, <1>6, <1>13, <1>14, NothingSent, MoveStep

\* A step that leaves locks and points alone, within one operation.
LEMMA QuietStep ==
    ASSUME IInv, NEW r \in Requests, req[r].pc = "notify", NEW q \in Request,
           req' = [req EXCEPT ![r] = q],
           UNCHANGED <<event, points, locked, notes, eventLock, pointLock, lock>>,
           delivered' \in [Events -> Nat], \A e \in Events : delivered'[e] >= delivered[e],
           q.op = "trigger", q.event = req[r].event, q.type = req[r].type,
           q.value = req[r].value, q.found = req[r].found, q.todo = req[r].todo,
           q.pc \in {"notify", "audit"}, q.count = q.rows, q.sent <= q.rows,
           q.targets + q.rows <= MaxTargets, q.sent <= delivered'[q.event]
    PROVE  IInv'
<1>1. /\ req[r] # Idle /\ req[r] \in Request /\ Good(r)
      /\ Shape(req[r]) /\ Covers(r) /\ req[r].op = "trigger"
  BY RequestTyped DEF IInv, Good, Shape
<1>2. req'[r] = q /\ q # Idle
  BY DEF IInv, TypeOK, Request, Idle
<1>3. Shape(q)
  BY <1>1 DEF Shape, Lockdown
<1>4. LockOwned(r)' /\ EventsOwned(r)' /\ PointsOwned(r)'
  BY <1>1, <1>2 DEF Good, LockOwned, EventsOwned, PointsOwned, Lockdown
<1>5. Covers(r)' /\ SentWasSent(r)'
  BY <1>1, <1>2 DEF Covers, SentWasSent, Lockdown
<1>6. Good(r)'
  BY <1>2, <1>3, <1>4, <1>5 DEF Good, Alone, Adds
<1>7. /\ LocksStep(r) /\ lock' \in Requests \cup {Nobody}
      /\ eventLock' \in [Events -> Requests \cup {Nobody}]
      /\ pointLock' \in [Points -> Requests \cup {Nobody}]
  BY DEF LocksStep, Taken, IInv, TypeOK
<1>8. QED
  BY <1>1, <1>6, <1>7, MoveStep

\* What a trigger has counted so far.
LEMMA CountsTyped ==
    ASSUME IInv, NEW r \in Requests, req[r].pc = "notify"
    PROVE  /\ req[r] \in Request /\ req[r].op = "trigger"
           /\ req[r].targets \in Nat /\ req[r].rows \in Nat /\ req[r].sent \in Nat
           /\ req[r].count = req[r].rows /\ req[r].sent <= req[r].rows
           /\ req[r].targets + req[r].rows <= MaxTargets
           /\ req[r].event \in Events /\ delivered[req[r].event] \in Nat
           /\ req[r].sent <= delivered[req[r].event]
<1>1. req[r] \in Request /\ Shape(req[r]) /\ SentWasSent(r) /\ req[r] # Idle
  BY RequestTyped DEF IInv, Good
<1>2. req[r].op = "trigger" /\ req[r].event \in Events
  BY <1>1 DEF Shape, Request, PointOps
<1>3. QED
  BY <1>1, <1>2, TargetsAssumption DEF Shape, Request, Count, SentWasSent, IInv, TypeOK

\* What is dispatched is delivered before it is counted, and counted before
\* the trigger goes on to the next contact.
LEMMA NotifySteps ==
    ASSUME IInv, NEW r \in Requests, Dispatch(r) \/ SkipContact(r) \/ Notified(r)
    PROVE  IInv'
<1>1. req[r].pc = "notify"
  BY DEF Dispatch, SkipContact, Notified, At
<1> DEFINE o == req[r]
<1>2. CASE Dispatch(r)
  <2>1. PICK one \in {0, 1} :
          /\ req' = [req EXCEPT ![r].targets = @ - 1, ![r].count = @ + 1,
                                ![r].rows = @ + 1, ![r].sent = @ + one]
          /\ delivered' = [delivered EXCEPT ![o.event] = @ + one]
    BY <1>2 DEF Dispatch
  <2>2. PICK q : q = [o EXCEPT !.targets = @ - 1, !.count = @ + 1, !.rows = @ + 1,
                               !.sent = @ + one]
    OBVIOUS
  <2>3. o.targets > 0 /\ UNCHANGED <<event, points, locked, notes, eventLock, pointLock, lock>>
    BY <1>2 DEF Dispatch
  <2>4. /\ q.op = "trigger" /\ q.event = o.event /\ q.type = o.type /\ q.value = o.value
        /\ q.found = o.found /\ q.todo = o.todo /\ q.pc = "notify" /\ q.targets = o.targets - 1
        /\ q.count = o.count + 1 /\ q.rows = o.rows + 1 /\ q.sent = o.sent + one
    BY <1>1, <2>2, CountsTyped DEF Request
  <2>5. q \in Request
    <3>1. q.targets \in Count /\ q.count \in Count /\ q.rows \in Count /\ q.sent \in Count
      BY <1>1, <2>3, <2>4, CountsTyped, TargetsAssumption DEF Count
    <3>2. QED
      BY <1>1, <2>2, <2>4, <3>1, CountsTyped DEF Request
  <2>6. /\ delivered' \in [Events -> Nat] /\ \A e \in Events : delivered'[e] >= delivered[e]
        /\ q.sent <= delivered'[q.event]
    BY <1>1, <2>1, <2>4, CountsTyped DEF IInv, TypeOK
  <2>7. req' = [req EXCEPT ![r] = q]
    BY <2>1, <2>2 DEF IInv, TypeOK
  <2>8. q.count = q.rows /\ q.sent <= q.rows /\ q.targets + q.rows <= MaxTargets
    BY <1>1, <2>4, CountsTyped, TargetsAssumption
  <2>9. QED
    BY <1>1, <2>3, <2>4, <2>5, <2>6, <2>7, <2>8, QuietStep
<1>3. CASE SkipContact(r)
  <2>1. /\ req' = [req EXCEPT ![r] = [o EXCEPT !.targets = @ - 1]] /\ o.targets > 0
        /\ UNCHANGED <<event, points, locked, notes, eventLock, pointLock, lock, delivered>>
    BY <1>3 DEF SkipContact, IInv, TypeOK
  <2>2. PICK q : q = [o EXCEPT !.targets = @ - 1]
    OBVIOUS
  <2>3. /\ q.op = "trigger" /\ q.event = o.event /\ q.type = o.type /\ q.value = o.value
        /\ q.found = o.found /\ q.todo = o.todo /\ q.pc = "notify" /\ q.targets = o.targets - 1
        /\ q.count = o.count /\ q.rows = o.rows /\ q.sent = o.sent
    BY <1>1, <2>2, CountsTyped DEF Request
  <2>4. q \in Request
    <3>1. q.targets \in Count
      BY <1>1, <2>1, <2>3, CountsTyped, TargetsAssumption DEF Count
    <3>2. QED
      BY <1>1, <2>2, <2>3, <3>1, CountsTyped DEF Request
  <2>5. /\ q.count = q.rows /\ q.sent <= q.rows /\ q.targets + q.rows <= MaxTargets
        /\ q.sent <= delivered'[q.event]
    BY <1>1, <2>1, <2>3, CountsTyped, TargetsAssumption
  <2>6. QED
    BY <1>1, <2>1, <2>2, <2>3, <2>4, <2>5, NothingSent, QuietStep
<1>4. CASE Notified(r)
  <2>1. /\ req' = [req EXCEPT ![r] = [o EXCEPT !.pc = "audit"]]
        /\ UNCHANGED <<event, points, locked, notes, eventLock, pointLock, lock, delivered>>
    BY <1>4 DEF Notified, IInv, TypeOK
  <2>2. PICK q : q = [o EXCEPT !.pc = "audit"]
    OBVIOUS
  <2>3. /\ q \in Request /\ q.op = "trigger" /\ q.event = o.event /\ q.type = o.type
        /\ q.value = o.value /\ q.found = o.found /\ q.todo = o.todo /\ q.pc = "audit" /\ q.targets = o.targets
        /\ q.count = o.count /\ q.rows = o.rows /\ q.sent = o.sent
    BY <1>1, <2>2, CountsTyped DEF Request
  <2>4. QED
    BY <1>1, <2>1, <2>2, <2>3, CountsTyped, NothingSent, QuietStep
<1>5. QED
  BY <1>2, <1>3, <1>4

\* A flush takes the lock of the event, a record that of the audit trail.
LEMMA LockSteps ==
    ASSUME IInv, NEW r \in Requests, Flush(r) \/ Record(r)
    PROVE  IInv'
<1>1. /\ req[r] # Idle /\ req[r] \in Request /\ req[r].pc \in {"flush", "audit"}
      /\ Good(r) /\ Shape(req[r]) /\ Covers(r) /\ SentWasSent(r)
  BY RequestTyped DEF IInv, Flush, Record, At, Good
<1>2. PICK pc \in {"audit", "commit"} :
        /\ req' = [req EXCEPT ![r].pc = pc]
        /\ req[r].pc = "flush" => pc = "audit" /\ UNCHANGED lock
        /\ req[r].pc = "audit" => pc = "commit" /\ UNCHANGED eventLock
        /\ lock' = lock \/ (lock = Nobody /\ lock' = r)
        /\ \/ eventLock' = eventLock
           \/ /\ eventLock[req[r].event] = Nobody
              /\ eventLock' = [eventLock EXCEPT ![req[r].event] = r]
        /\ UNCHANGED <<event, points, locked, notes, pointLock, delivered>>
  BY DEF Flush, Record, At
<1>3. PICK q : q = [req[r] EXCEPT !.pc = pc]
  OBVIOUS
<1>4. /\ q \in Request /\ q.pc = pc /\ q.op = req[r].op /\ q.event = req[r].event
      /\ q.type = req[r].type /\ q.value = req[r].value /\ q.todo = req[r].todo
      /\ q.targets = req[r].targets /\ q.count = req[r].count /\ q.rows = req[r].rows
      /\ q.sent = req[r].sent /\ q.found = req[r].found
  BY <1>1, <1>3 DEF Request
<1>5. req' = [req EXCEPT ![r] = q]
  BY <1>2, <1>3 DEF IInv, TypeOK
<1>6. req'[r] = q /\ q # Idle
  BY <1>4, <1>5 DEF IInv, TypeOK, Request, Idle
<1>7. /\ lock' \in Requests \cup {Nobody} /\ eventLock' \in [Events -> Requests \cup {Nobody}]
      /\ pointLock' \in [Points -> Requests \cup {Nobody}] /\ LocksStep(r)
  BY <1>2 DEF IInv, TypeOK, LocksStep, Taken
<1>8. Shape(q)
  BY <1>1, <1>2, <1>4 DEF Shape, Lockdown
<1>9. LockOwned(r)'
  BY <1>1, <1>2, <1>4, <1>6 DEF Good, LockOwned
<1>10. EventsOwned(r)' /\ PointsOwned(r)'
  BY <1>1, <1>2, <1>4, <1>6 DEF Good, EventsOwned, PointsOwned, Lockdown
<1>11. Covers(r)' /\ SentWasSent(r)'
  BY <1>1, <1>2, <1>4, <1>6 DEF Covers, SentWasSent, Lockdown
<1>12. Good(r)'
  <2>1. Alone(r)'
    BY <1>1, <1>2, <1>4, <1>6 DEF Good, Alone, Adds
  <2>2. QED
    BY <1>6, <1>8, <1>9, <1>10, <1>11, <2>1 DEF Good
<1>13. QED
  BY <1>1, <1>2, <1>4, <1>5, <1>7, <1>12, NothingSent, MoveStep

\* Whoever ends gives back its locks, and nothing else.
LEMMA ReleaseStep ==
    ASSUME IInv, NEW r \in Requests, Release(r)
    PROVE  /\ req' = [req EXCEPT ![r] = Idle] /\ req' \in [Requests -> Request \cup {Idle}]
           /\ lock' \in Requests \cup {Nobody}
           /\ eventLock' \in [Events -> Requests \cup {Nobody}]
           /\ pointLock' \in [Points -> Requests \cup {Nobody}]
           /\ LocksStep(r) /\ Good(r)' /\ delivered' = delivered
           /\ \A e \in Events : delivered'[e] >= delivered[e]
<1>1. /\ req' = [req EXCEPT ![r] = Idle] /\ delivered' = delivered
      /\ req' \in [Requests -> Request \cup {Idle}] /\ req'[r] = Idle
      /\ lock' \in Requests \cup {Nobody}
      /\ eventLock' \in [Events -> Requests \cup {Nobody}]
      /\ pointLock' \in [Points -> Requests \cup {Nobody}]
  BY DEF IInv, TypeOK, Release
<1>2. LocksStep(r)
  BY DEF LocksStep, Taken, Release
<1>3. LockOwned(r)' /\ EventsOwned(r)' /\ PointsOwned(r)'
  BY NobodyAssumption DEF Release, LockOwned, EventsOwned, PointsOwned
<1>4. \A e \in Events : delivered'[e] >= delivered[e]
  BY <1>1 DEF IInv, TypeOK
<1>5. QED
  BY <1>1, <1>2, <1>3, <1>4 DEF Good, Alone, Adds

\* A rollback stores nothing: what was delivered stays delivered.
LEMMA AbortStep ==
    ASSUME IInv, NEW r \in Requests, Abort(r)
    PROVE  IInv'
<1>1. Release(r) /\ UNCHANGED <<event, points, locked, notes>>
  BY DEF Abort
<1>2. TypeOK'
  BY <1>1, ReleaseStep DEF IInv, TypeOK
<1>3. CountedIsRecorded'
  BY <1>1, ReleaseStep DEF IInv, CountedIsRecorded
<1>4. QED
  BY <1>1, <1>2, <1>3, ReleaseStep, StepOfOne DEF KeepsApart

\* A commit stores with a new event the number of notifications it stores.
LEMMA CommitStep ==
    ASSUME IInv, NEW r \in Requests, Commit(r)
    PROVE  IInv'
<1> DEFINE q == req[r]
           e == q.event
<1>1. /\ q # Idle /\ q \in Request /\ Shape(q) /\ SentWasSent(r)
      /\ q.targets \in Nat /\ q.rows \in Nat /\ q.sent \in Nat
  BY RequestTyped, TargetsAssumption DEF IInv, Commit, At, Good, Request, Count
<1>2. /\ event' = IF e = Nobody THEN event ELSE [event EXCEPT ![e] = Written(r, @)]
      /\ locked' = [p \in Points |-> IF pointLock[p] = r THEN q.value ELSE locked[p]]
      /\ notes' = IF q.op = "trigger" THEN [notes EXCEPT ![e] = [all |-> q.rows, sent |-> q.sent]]
                                      ELSE notes
      /\ Release(r)
  BY DEF Commit
<1>11. points' \subseteq points \cup (IF Adds(r) THEN q.found ELSE {})
  <2>1. Adds(r) => \A p \in Points : pointLock[p] = r => p \in q.found
    BY DEF IInv, Good, Alone
  <2>2. points' = CASE q.op = "create" -> points \cup {p \in Points : pointLock[p] = r}
                    [] q.op = "delete" -> points \ {p \in Points : pointLock[p] = r}
                    [] OTHER -> points
    BY DEF Commit
  <2>3. CASE q.op = "create"
    BY <1>1, <2>1, <2>2, <2>3 DEF Adds
  <2>4. CASE q.op = "delete"
    BY <2>2, <2>4
  <2>5. CASE q.op \notin {"create", "delete"}
    BY <2>2, <2>5
  <2>6. QED
    BY <2>3, <2>4, <2>5
<1>3. e # Nobody => /\ e \in Events /\ q.op \in {"trigger", "acknowledge", "resolve"}
                    /\ event[e] \in Row
  BY <1>1 DEF IInv, TypeOK, Request, Shape, Ops, PointOps
<1>4. ASSUME e # Nobody
      PROVE  /\ Written(r, event[e]) \in Row
             /\ Written(r, event[e]).notified =
                  IF q.op = "trigger" THEN q.count ELSE event[e].notified
  <2>1. CASE q.op = "trigger"
    BY <1>1, <2>1 DEF Written, Row, Request, EmergencyStatus
  <2>2. CASE q.op = "acknowledge"
    BY <1>3, <1>4, <2>2 DEF Written, Row, EmergencyStatus
  <2>3. CASE q.op = "resolve"
    BY <1>3, <1>4, <2>3 DEF Written, Row, EmergencyStatus
  <2>4. QED
    BY <1>3, <1>4, <2>1, <2>2, <2>3
<1>5. event' \in [Events -> Row]
  BY <1>2, <1>3, <1>4 DEF IInv, TypeOK
<1>6. q.op = "trigger" => e \in Events /\ [all |-> q.rows, sent |-> q.sent] \in Notes
  <2>1. q.rows \in Count /\ q.sent \in Count
    BY <1>1 DEF Request
  <2>2. QED
    BY <1>1, <2>1 DEF Shape, Notes, Request, PointOps
<1>7. TypeOK'
  <2>1. notes' \in [Events -> Notes]
    BY <1>2, <1>6 DEF IInv, TypeOK
  <2>2. locked' \in [Points -> BOOLEAN]
    BY <1>1, <1>2 DEF IInv, TypeOK, Request
  <2>3. delivered' \in [Events -> Nat]
    BY <1>2, ReleaseStep DEF IInv, TypeOK
  <2>4. points' \subseteq Points
    BY <1>1, <1>11 DEF IInv, TypeOK, Request, Adds
  <2>5. QED
    BY <1>2, <1>5, <2>1, <2>2, <2>3, <2>4, ReleaseStep DEF TypeOK
<1>8. ASSUME NEW x \in Events
      PROVE  /\ event'[x].notified = notes'[x].all /\ notes'[x].sent <= notes'[x].all
             /\ notes'[x].sent <= delivered'[x]
  <2>1. /\ event[x].notified = notes[x].all /\ notes[x].sent <= notes[x].all
        /\ notes[x].sent <= delivered[x] /\ delivered' = delivered
    BY <1>2, ReleaseStep DEF IInv, CountedIsRecorded
  <2>2. CASE q.op = "trigger" /\ x = e
    <3>1. /\ event'[x] = Written(r, event[e]) /\ notes'[x].all = q.rows /\ notes'[x].sent = q.sent
      BY <1>2, <1>6, <2>2, NobodyAssumption DEF IInv, TypeOK
    <3>2. q.count = q.rows /\ q.sent <= q.rows /\ q.sent <= delivered[e]
      BY <1>1, <2>2 DEF Shape, SentWasSent
    <3>3. e # Nobody
      BY <1>6, <2>2, NobodyAssumption
    <3>4. QED
      BY <1>4, <2>1, <2>2, <3>1, <3>2, <3>3
  <2>3. CASE ~ (q.op = "trigger" /\ x = e)
    <3>1. notes'[x] = notes[x]
      BY <1>2, <1>6, <2>3 DEF IInv, TypeOK
    <3>2. event'[x].notified = event[x].notified
      BY <1>2, <1>3, <1>4, <2>3 DEF IInv, TypeOK
    <3>3. QED
      BY <2>1, <3>1, <3>2
  <2>4. QED
    BY <2>2, <2>3
<1>9. CountedIsRecorded'
  BY <1>8 DEF CountedIsRecorded
<1>10. QED
  BY <1>2, <1>7, <1>9, <1>11, ReleaseStep, StepOfOne DEF KeepsApart

\* One case per action; a victim of the deadlock detector aborts.
LEMMA NextIInv == IInv /\ [Next]_vars => IInv'
<1> SUFFICES ASSUME IInv, [Next]_vars PROVE IInv'
  OBVIOUS
<1>1. ASSUME NEW r \in Requests, Arrive(r) \/ Proceed(r) \/ Abort(r) PROVE IInv'
  BY <1>1, ArriveStep, TakePointStep, NotifySteps, LockSteps, CommitStep, AbortStep
  DEF Proceed, Victim, StalePoint
<1>2. CASE UNCHANGED vars
  BY <1>2 DEF vars, IInv, TypeOK, CountedIsRecorded, Good, LockOwned, EventsOwned, PointsOwned,
              Alone, Adds, Covers, SentWasSent
<1>3. QED
  BY <1>1, <1>2 DEF Next

-------------------------------------------------------------------------------
(* The theorems.                                                           *)

\* The invariant of the argument holds in every reachable state.
LEMMA Invariance == Spec => []IInv
BY InitIInv, NextIInv, PTL DEF Spec

\* Every variable keeps its type: the rows, their locks, the requests.
THEOREM TypeCorrect == Spec => []TypeOK
<1>1. IInv => TypeOK
  BY DEF IInv
<1>2. QED
  BY <1>1, Invariance, PTL

\* emergency_service.py:97-113: what an emergency counts is what it recorded,
\* and what is recorded as sent was sent.
THEOREM CountsAreRecorded == Spec => []CountedIsRecorded
<1>1. IInv => CountedIsRecorded
  BY DEF IInv
<1>2. QED
  BY <1>1, Invariance, PTL

\* emergency_service.py:77-81, 131-135: a lockdown is stored with every point that
\* was there when its UPDATE was sent locked, its resolution with every such point
\* unlocked, unless the point is gone.
THEOREM SiteAlwaysFollows == Spec => SiteFollows
<1>1. ASSUME IInv, NEW r \in Requests, At(r, {"trigger", "resolve"}, "commit"),
             req[r].type = "lockdown", Commit(r),
             NEW p \in req[r].found \cap points'
      PROVE  locked'[p] = (req[r].op = "trigger")
  <2>1. req[r] # Idle /\ Shape(req[r]) /\ Covers(r)
    BY <1>1, RequestTyped DEF IInv, Good, At
  <2>2. Lockdown(req[r]) /\ req[r].pc = "commit"
    BY <1>1 DEF At, Lockdown
  <2>5. p \in Points /\ p \in points
    <3>1. points' = points
      BY <1>1 DEF Commit, At
    <3>2. QED
      BY <1>1, <3>1 DEF IInv, TypeOK
  <2>3. pointLock[p] = r
    BY <1>1, <2>1, <2>2, <2>5 DEF Shape, Covers
  <2>4. locked'[p] = req[r].value
    BY <1>1, <2>3, <2>5 DEF Commit
  <2>6. QED
    BY <1>1, <2>1, <2>2, <2>4 DEF Shape
<1>2. IInv /\ [Next]_vars =>
        [\A r \in Requests :
           At(r, {"trigger", "resolve"}, "commit") /\ req[r].type = "lockdown" /\ Commit(r)
             => \A p \in req[r].found \cap points' : locked'[p] = (req[r].op = "trigger")]_vars
  BY <1>1
<1>3. QED
  BY <1>2, Invariance, PTL DEF Spec, SiteFollows

\* Only lockdowns and their resolutions wait for each other, over the points of
\* the site: for who waits for an event or for the audit lock there is somebody
\* who does not wait.
THEOREM DeadlocksNeedLockdowns == Spec => []DeadlockNeedsLockdowns
<1>1. ASSUME IInv, NEW S \in SUBSET Requests, Cycle(S), NEW r \in S
      PROVE  At(r, {"trigger", "resolve"}, "points") /\ req[r].type = "lockdown"
  <2>1. \A q \in S : /\ Good(q) /\ WaitsFor(q) \in S /\ WaitsFor(q) # Nobody
                     /\ \E p \in S : WaitsFor(p) = q
    BY <1>1, NobodyAssumption DEF Cycle, IInv
  <2>2. \A q \in S : req[q].pc \in {"points", "flush", "audit"}
    BY <2>1 DEF WaitsFor
  <2>3. \A q \in S : req[q] \in Request /\ Shape(req[q])
    BY <1>1, <2>1, <2>2, RequestTyped DEF IInv, Good
  <2>4. \A q \in S : req[q].pc # "audit"
    BY <2>1, <2>2 DEF WaitsFor, Good, LockOwned
  <2>5. \A q \in S : req[q].pc # "flush"
    <3>1. ASSUME NEW q \in S, req[q].pc = "flush" PROVE FALSE
      <4>1. req[q].event \in Events
        BY <2>3, <3>1 DEF Shape, Request, PointOps
      <4>2. eventLock[req[q].event] = WaitsFor(q)
        BY <3>1 DEF WaitsFor
      <4>3. QED
        BY <2>1, <2>2, <2>4, <4>1, <4>2 DEF Good, EventsOwned
    <3>2. QED
      BY <3>1
  <2>6. PICK q \in S : WaitsFor(q) = r
    BY <2>1
  <2>7. req[q].pc = "points" /\ req[r].pc = "points"
    BY <2>2, <2>4, <2>5
  <2>8. req[q].next \in Points /\ pointLock[req[q].next] = r
    BY <2>3, <2>6, <2>7 DEF WaitsFor, Shape, Request
  <2>9. QED
    BY <2>1, <2>7, <2>8 DEF Good, PointsOwned, Lockdown, At
<1>2. IInv => DeadlockNeedsLockdowns
  BY <1>1 DEF DeadlockNeedsLockdowns
<1>3. QED
  BY <1>2, Invariance, PTL

-------------------------------------------------------------------------------
(* The rules.                                                              *)

\* Every choice of some elements of S has a least one.
Ordered(S) == \A T \in SUBSET S : T # {} => \E x \in T : \A y \in T : x <= y

Live(r) == job[r] # NoJob
Evaluates(q) == q # NoJob /\ q.op = "evaluate"
Evaluators == {r \in Jobs : Evaluates(job[r])}

\* What the parts of a request say about each other.
JobShape(q) ==
    /\ q.op # "evaluate" => /\ q.todo = {} /\ q.fired = {} /\ q.now = NoOne /\ q.pc # "fire"
                            /\ \A x, y \in q.pending : x = y
    /\ q.op = "evaluate" => q.pending \subseteq q.fired /\ q.todo \cap q.fired = {}
    /\ q.op = "create" => q.pending = {}
    /\ q.now # NoOne => q.now \in q.todo
    /\ q.pc \in {"audit", "commit"} => q.pending = {}
    /\ q.pc \in {"fire", "commit"} => q.now = NoOne
    /\ IsFiniteSet(q.fired) /\ Ordered(q.fired)

\* The locks of a request: an evaluation has those of the rules it has written
\* and of no others, another request has one when nothing is pending.
Holds(r) ==
    /\ \A x \in Rules : rowLock[x] = r =>
         IF job[r].op = "evaluate" THEN x \in job[r].fired \ job[r].pending
                                   ELSE job[r].pending = {}
    /\ job[r].op = "evaluate" => \A x \in job[r].fired \ job[r].pending : rowLock[x] = r
    /\ trailLock = r => job[r].op = "evaluate" \/ job[r].pc = "commit"

\* A count that was read has not gone down since, unless the rule is deleted.
HasRead(r) ==
    \A x \in job[r].todo \cup job[r].fired : rule[x].stored => job[r].seen[x].count <= firings[x]

\* A rule that is being created is nobody else's until the commit.
Makes(r) ==
    job[r].op = "create" => \A x \in Rules : rowLock[x] = r =>
        /\ ~ rule[x].stored /\ job[r].seen[x].count = 0
        /\ \A p \in Jobs \ {r} : Live(p) => x \notin job[p].todo \cup job[p].fired \cup job[p].pending

\* A row that is locked is there, or is about to be.
LocksHeld ==
    /\ \A x \in Rules : rowLock[x] # NoOne =>
         Live(rowLock[x]) /\ (rule[x].stored \/ job[rowLock[x]].op = "create")
    /\ trailLock # NoOne => Live(trailLock)

\* A rule that is gone counts nothing.
GoneIsZero == \A x \in Rules : ~ rule[x].stored => rule[x].count = 0

\* Every firing is one of an evaluation that started and is no longer running.
FiringsCounted ==
    /\ IsFiniteSet(Evaluators)
    /\ \A x \in Rules : firings[x] + Cardinality(Evaluators) <= evaluated

\* Until two requests overlap there is one at a time, and what it read is so.
OneAtATime ==
    ~ overlapped =>
      /\ \A p, q \in Jobs : Live(p) /\ Live(q) => p = q
      /\ \A x \in Rules : rule[x].count = firings[x]
      /\ \A r \in Jobs : Live(r) =>
           \A x \in job[r].todo \cup job[r].fired : job[r].seen[x].count = rule[x].count

RulesInv ==
    /\ RuleTypeOK /\ CountNeverOverstates /\ LocksHeld /\ GoneIsZero
    /\ FiringsCounted /\ OneAtATime
    /\ \A r \in Jobs : Live(r) => JobShape(job[r]) /\ Holds(r) /\ HasRead(r) /\ Makes(r)

\* One more element.
LEMMA OrderedGrows ==
  ASSUME NEW S \in SUBSET Nat, Ordered(S), NEW x \in Nat
  PROVE  Ordered(S \cup {x})
<1> SUFFICES ASSUME NEW T \in SUBSET (S \cup {x}), T # {}
             PROVE  \E m \in T : \A y \in T : m <= y
  BY DEF Ordered
<1>1. CASE T \ {x} = {}
  <2>1. T = {x}
    BY <1>1
  <2> QED BY <2>1
<1>2. CASE T \ {x} # {}
  <2>1. PICK m \in T \ {x} : \A y \in T \ {x} : m <= y
    BY <1>2, T \ {x} \in SUBSET S DEF Ordered
  <2> QED BY <2>1
<1> QED BY <1>1, <1>2

\* The first states satisfy the invariant.
LEMMA RulesInitInv == RuleInit => RulesInv
<1> SUFFICES ASSUME RuleInit PROVE RulesInv
  OBVIOUS
<1> USE RulesAssumption, EvaluationsAssumption
<1>0. rule \in [Rules -> RuleRow] /\ \A x \in Rules : rule[x].count = 0
  <2>1. ASSUME NEW z \in {NoRule} \cup {Created(action) : action \in Actions}
        PROVE  z \in RuleRow /\ z.count = 0
    <3>1. 0 \in 0 .. MaxEvaluations
      OBVIOUS
    <3>2. NoRule \in RuleRow /\ NoRule.count = 0
      BY <3>1 DEF RuleRow, NoRule, Actions
    <3>3. \A action \in Actions : Created(action) \in RuleRow /\ Created(action).count = 0
      BY <3>1 DEF RuleRow, Created
    <3> QED BY <3>2, <3>3
  <2> QED BY <2>1 DEF RuleInit
<1>1. RuleTypeOK
  <2>1. job \in [Jobs -> Job \cup {NoJob}]
    BY DEF RuleInit
  <2>2. overlapped \in BOOLEAN /\ trailLock \in Jobs \cup {NoOne}
    BY DEF RuleInit
  <2>3. rowLock \in [Rules -> Jobs \cup {NoOne}]
    BY DEF RuleInit
  <2>4. 0 \in 0 .. MaxEvaluations
    OBVIOUS
  <2>5. evaluated \in 0 .. MaxEvaluations /\ firings \in [Rules -> 0 .. MaxEvaluations]
    BY <2>4 DEF RuleInit
  <2> QED BY <1>0, <2>1, <2>2, <2>3, <2>5 DEF RuleTypeOK
<1>2. CountNeverOverstates /\ LocksHeld /\ GoneIsZero
  BY <1>0 DEF RuleInit, CountNeverOverstates, LocksHeld, GoneIsZero
<1>3. Evaluators = {} /\ \A r \in Jobs : ~ Live(r)
  BY DEF RuleInit, Evaluators, Evaluates, Live
<1>4. FiringsCounted
  BY <1>3, FS_EmptySet DEF FiringsCounted, RuleInit
<1>5. OneAtATime
  BY <1>0, <1>3 DEF OneAtATime, RuleInit
<1> QED BY <1>1, <1>2, <1>3, <1>4, <1>5 DEF RulesInv

\* A request in flight, field by field.
LEMMA JobTyped ==
  ASSUME NEW q \in Job
  PROVE  /\ q \in Job /\ q # NoJob
         /\ q.op \in JobOps /\ q.pc \in {"fire", "flush", "audit", "commit"}
         /\ q.seen \in [Rules -> RuleRow] /\ q.todo \in SUBSET Rules
         /\ q.now \in Rules \cup {NoOne} /\ q.fired \in SUBSET Rules
         /\ q.pending \in SUBSET Rules /\ q.active \in BOOLEAN
<1>1. q.pc # "idle"
  BY DEF Job
<1> QED BY <1>1 DEF Job, NoJob

\* What the invariant says of a request in flight.
LEMMA LiveTyped ==
  ASSUME RulesInv, NEW r \in Jobs
  PROVE  /\ Live(r) => /\ job[r] \in Job /\ JobShape(job[r])
                       /\ Holds(r) /\ HasRead(r) /\ Makes(r)
         /\ \A pc \in {"fire", "flush", "audit", "commit"} : job[r].pc = pc => Live(r)
<1>1. job[r].pc # "idle" => Live(r)
  BY DEF Live, NoJob
<1>2. Live(r) => job[r] \in Job
  BY DEF RulesInv, RuleTypeOK, Live
<1> QED BY <1>1, <1>2 DEF RulesInv

\* The least pending row is one of them.
LEMMA FirstIsPending ==
  ASSUME RulesInv, NEW r \in Jobs, Live(r), job[r].pending # {}
  PROVE  FirstPending(r) \in job[r].pending
<1> DEFINE q == job[r]
<1>1. q \in Job /\ JobShape(q) /\ q.pending \in SUBSET Rules
  BY LiveTyped, JobTyped
<1>2. \E x \in q.pending : \A y \in q.pending : x <= y
  <2>1. CASE q.op = "evaluate"
    BY <1>1, <2>1 DEF JobShape, Ordered
  <2>2. CASE q.op # "evaluate"
    <3>1. PICK x \in q.pending : TRUE
      OBVIOUS
    <3>2. x \in Nat /\ \A y \in q.pending : y = x
      BY <1>1, <2>2, <3>1, RulesAssumption DEF JobShape
    <3> QED BY <3>1, <3>2
  <2> QED BY <2>1, <2>2
<1> QED BY <1>2 DEF FirstPending

\* A step in the middle of a request, which may take the audit lock.
LEMMA JobMoves ==
  ASSUME RulesInv, NEW r \in Jobs, Live(r), NEW q \in Job, JobShape(q),
         job' = [job EXCEPT ![r] = q],
         q.op = job[r].op, q.seen = job[r].seen,
         q.todo \cup q.fired = job[r].todo \cup job[r].fired,
         q.fired \ q.pending = job[r].fired \ job[r].pending,
         q.op # "evaluate" => q.pending = job[r].pending,
         trailLock' = trailLock \/ (trailLock \in {NoOne, r} /\ trailLock' = r),
         trailLock' = r => q.op = "evaluate" \/ q.pc = "commit",
         UNCHANGED <<rule, rowLock, evaluated, firings, overlapped>>
  PROVE  RulesInv'
<1> USE RulesAssumption, EvaluationsAssumption
<1>1. q # NoJob /\ job \in [Jobs -> Job \cup {NoJob}] /\ job[r] \in Job
  BY JobTyped, LiveTyped DEF RulesInv, RuleTypeOK
<1>2. /\ job'[r] = q
      /\ \A p \in Jobs : p # r => job'[p] = job[p]
      /\ \A p \in Jobs : Live(p)' <=> Live(p)
  BY <1>1 DEF Live
<1>3. RuleTypeOK'
  BY <1>1 DEF RulesInv, RuleTypeOK
<1>4. CountNeverOverstates' /\ GoneIsZero'
  BY DEF RulesInv, CountNeverOverstates, GoneIsZero
<1>5. LocksHeld'
  <2>1. rowLock \in [Rules -> Jobs \cup {NoOne}] /\ trailLock \in Jobs \cup {NoOne} /\ LocksHeld
    BY DEF RulesInv, RuleTypeOK
  <2>2. ASSUME NEW x \in Rules, rowLock[x] # NoOne
        PROVE  Live(rowLock[x])' /\ (rule[x].stored \/ job'[rowLock[x]].op = "create")
    BY <1>2, <2>1, <2>2 DEF LocksHeld
  <2>3. trailLock' # NoOne => Live(trailLock)'
    <3>1. CASE trailLock' = trailLock
      BY <1>2, <2>1, <3>1 DEF LocksHeld, Live
    <3>2. CASE trailLock' = r
      BY <1>1, <1>2, <3>2 DEF Live
    <3> QED BY <3>1, <3>2
  <2> QED BY <2>2, <2>3 DEF LocksHeld
<1>6. FiringsCounted'
  <2>1. Evaluators' = Evaluators
    <3>1. \A p \in Jobs : Evaluates(job'[p]) <=> Evaluates(job[p])
      BY <1>1, <1>2 DEF Evaluates, Live
    <3> QED BY <3>1 DEF Evaluators
  <2> QED BY <2>1 DEF FiringsCounted, RulesInv
<1>7. OneAtATime'
  <2> SUFFICES ASSUME ~ overlapped PROVE OneAtATime'
    BY DEF OneAtATime
  <2>1. \A p \in Jobs : Live(p)' =>
          \A x \in job'[p].todo \cup job'[p].fired : job'[p].seen[x].count = rule[x].count
    BY <1>2 DEF RulesInv, OneAtATime, Live
  <2> QED BY <1>2, <2>1 DEF RulesInv, OneAtATime
<1>8. ASSUME NEW p \in Jobs, Live(p)'
      PROVE  JobShape(job'[p]) /\ Holds(p)' /\ HasRead(p)' /\ Makes(p)'
  <2>1. CASE p = r
    <3>1. Holds(r) /\ HasRead(r) /\ Makes(r)
      BY LiveTyped
    <3>2. Holds(r)'
      BY <1>2, <3>1 DEF Holds
    <3>3. HasRead(r)'
      BY <1>2, <3>1 DEF HasRead
    <3>4. Makes(r)'
      BY <1>2, <3>1 DEF Makes, Live
    <3> QED BY <1>2, <2>1, <3>2, <3>3, <3>4
  <2>2. CASE p # r
    <3>1. JobShape(job[p]) /\ Holds(p) /\ HasRead(p) /\ Makes(p)
      BY <1>2, <1>8, LiveTyped
    <3>2. trailLock' = p => trailLock = p
      BY <2>2
    <3>3. q.todo \cup q.fired \cup q.pending
            \subseteq job[r].todo \cup job[r].fired \cup job[r].pending
      BY DEF JobShape
    <3>4. Makes(p)'
      <4>1. SUFFICES ASSUME job[p].op = "create", NEW x \in Rules, rowLock[x] = p
            PROVE  /\ ~ rule[x].stored /\ job[p].seen[x].count = 0
                   /\ \A t \in Jobs \ {p} : Live(t)' =>
                        x \notin job'[t].todo \cup job'[t].fired \cup job'[t].pending
        BY <1>2, <2>2 DEF Makes
      <4>2. /\ ~ rule[x].stored /\ job[p].seen[x].count = 0
            /\ \A t \in Jobs \ {p} : Live(t) =>
                 x \notin job[t].todo \cup job[t].fired \cup job[t].pending
        BY <3>1, <4>1 DEF Makes
      <4>3. ASSUME NEW t \in Jobs \ {p}, Live(t)'
            PROVE  x \notin job'[t].todo \cup job'[t].fired \cup job'[t].pending
        <5>1. Live(t) /\ x \notin job[t].todo \cup job[t].fired \cup job[t].pending
          BY <1>2, <4>2, <4>3
        <5>2. CASE t = r
          BY <1>2, <3>3, <5>1, <5>2
        <5>3. CASE t # r
          BY <1>2, <5>1, <5>3
        <5> QED BY <5>2, <5>3
      <4> QED BY <4>2, <4>3
    <3> QED BY <1>2, <2>2, <3>1, <3>2, <3>4 DEF Holds, HasRead
  <2> QED BY <2>1, <2>2
<1> QED BY <1>3, <1>4, <1>5, <1>6, <1>7, <1>8 DEF RulesInv


\* A request starts.
LEMMA JobStarts ==
  ASSUME RulesInv, NEW r \in Jobs, NEW op \in JobOps \ {"create"}, NEW pc \in {"fire", "flush", "audit"},
         NEW todo \in SUBSET Rules, NEW pending \in SUBSET Rules, NEW active \in BOOLEAN,
         StartJob(r, op, pc, todo, pending, active),
         IF op = "evaluate" THEN pending = {} /\ pc = "fire" /\ evaluated' = evaluated + 1
                                 /\ evaluated < MaxEvaluations
                            ELSE todo = {} /\ pc # "fire" /\ evaluated' = evaluated
                                 /\ \A x, y \in pending : x = y,
         pc = "audit" => pending = {}, \A x \in todo \cup pending : rule[x].stored
  PROVE  RulesInv'
<1> USE RulesAssumption, EvaluationsAssumption
<1> DEFINE seen == [x \in Rules |-> IF x \in todo THEN rule[x] ELSE NoRule]
           q == [op |-> op, pc |-> pc, todo |-> todo, now |-> NoOne, seen |-> seen,
                 fired |-> {}, pending |-> pending, active |-> active]
<1>1. seen \in [Rules -> RuleRow]
  <2>1. 0 \in 0 .. MaxEvaluations
    OBVIOUS
  <2>2. NoRule \in RuleRow
    BY <2>1 DEF NoRule, RuleRow, Actions
  <2> QED BY <2>2 DEF RulesInv, RuleTypeOK
<1>2. q \in Job
  BY <1>1 DEF Job
<1>3. JobShape(q)
  <2>1. Ordered({}) /\ IsFiniteSet({})
    BY FS_EmptySet DEF Ordered
  <2> QED BY <2>1 DEF JobShape
<1>4. /\ q.op = op /\ q.fired = {} /\ q.pending = pending /\ q.todo = todo /\ q.pc = pc
      /\ \A x \in todo : q.seen[x] = rule[x]
  OBVIOUS
<1>5. /\ job[r] = NoJob /\ job' = [job EXCEPT ![r] = q]
      /\ overlapped' = (overlapped \/ \E p \in Jobs : Live(p))
      /\ UNCHANGED <<rule, rowLock, trailLock, firings>>
  BY DEF StartJob, Live
<1> HIDE DEF q, seen
<1>6. q # NoJob /\ job \in [Jobs -> Job \cup {NoJob}]
  BY <1>2, JobTyped DEF RulesInv, RuleTypeOK
<1>7. /\ job'[r] = q /\ Live(r)' /\ ~ Live(r)
      /\ \A p \in Jobs : p # r => job'[p] = job[p]
      /\ \A p \in Jobs : p # r => (Live(p)' <=> Live(p))
  BY <1>5, <1>6 DEF Live
<1>8. evaluated \in 0 .. MaxEvaluations /\ evaluated' \in 0 .. MaxEvaluations
  BY DEF RulesInv, RuleTypeOK
<1>9. RuleTypeOK'
  <2>1. job' \in [Jobs -> Job \cup {NoJob}]
    BY <1>2, <1>5, <1>6
  <2>2. overlapped' \in BOOLEAN
    BY <1>5
  <2> QED BY <1>5, <1>8, <2>1, <2>2 DEF RulesInv, RuleTypeOK
<1>10. CountNeverOverstates' /\ GoneIsZero'
  BY <1>5 DEF RulesInv, CountNeverOverstates, GoneIsZero
<1>11. LocksHeld'
  BY <1>5, <1>7 DEF RulesInv, RuleTypeOK, LocksHeld
<1>12. FiringsCounted'
  <2>1. IsFiniteSet(Evaluators) /\ \A x \in Rules : firings[x] + Cardinality(Evaluators) <= evaluated
    BY DEF RulesInv, FiringsCounted
  <2>2. r \notin Evaluators /\ \A p \in Jobs : p # r => (Evaluates(job'[p]) <=> Evaluates(job[p]))
    BY <1>5, <1>7 DEF Evaluators, Evaluates
  <2>3. CASE op = "evaluate"
    <3>1. Evaluators' = Evaluators \cup {r}
      BY <1>4, <1>6, <1>7, <2>2, <2>3 DEF Evaluators, Evaluates
    <3>2. IsFiniteSet(Evaluators') /\ Cardinality(Evaluators') = Cardinality(Evaluators) + 1
      BY <2>1, <2>2, <3>1, FS_AddElement
    <3>3. Cardinality(Evaluators) \in Nat /\ firings \in [Rules -> Nat] /\ evaluated' = evaluated + 1
      BY <2>1, <2>3, FS_CardinalityType DEF RulesInv, RuleTypeOK
    <3>4. ASSUME NEW x \in Rules PROVE firings[x] + Cardinality(Evaluators') <= evaluated'
      BY <1>8, <2>1, <3>2, <3>3
    <3> QED BY <1>5, <3>2, <3>4 DEF FiringsCounted
  <2>4. CASE op # "evaluate"
    <3>1. Evaluators' = Evaluators
      BY <1>4, <1>7, <2>2, <2>4 DEF Evaluators, Evaluates
    <3> QED BY <1>5, <2>1, <2>4, <3>1 DEF FiringsCounted
  <2> QED BY <2>3, <2>4
<1>13. OneAtATime'
  <2> SUFFICES ASSUME ~ overlapped' PROVE OneAtATime'
    BY DEF OneAtATime
  <2>1. ~ overlapped /\ \A p \in Jobs : ~ Live(p)
    BY <1>5
  <2>2. \A p \in Jobs : Live(p)' => p = r
    BY <1>7, <2>1
  <2>3. \A x \in Rules : rule'[x].count = firings'[x]
    BY <1>5, <2>1 DEF RulesInv, OneAtATime
  <2>4. \A x \in job'[r].todo \cup job'[r].fired : job'[r].seen[x].count = rule'[x].count
    BY <1>4, <1>5, <1>7
  <2> QED BY <2>2, <2>3, <2>4 DEF OneAtATime
<1>14. Holds(r)' /\ HasRead(r)'
  <2>1. rowLock[r] = rowLock[r] /\ \A x \in Rules : rowLock[x] # r
    BY <1>7, RulesAssumption DEF RulesInv, LocksHeld
  <2>2. trailLock # r
    BY <1>7 DEF RulesInv, LocksHeld
  <2>3. Holds(r)'
    BY <1>4, <1>5, <1>7, <2>1, <2>2 DEF Holds
  <2>4. HasRead(r)'
    BY <1>4, <1>5, <1>7 DEF RulesInv, CountNeverOverstates, HasRead
  <2> QED BY <2>3, <2>4
<1>15. ASSUME NEW p \in Jobs, Live(p)'
       PROVE  JobShape(job'[p]) /\ Holds(p)' /\ HasRead(p)' /\ Makes(p)'
  <2>1. CASE p = r
    BY <1>3, <1>4, <1>7, <1>14, <2>1 DEF Makes
  <2>2. CASE p # r
    <3>1. JobShape(job[p]) /\ Holds(p) /\ HasRead(p) /\ Makes(p)
      BY <1>7, <1>15, <2>2, LiveTyped
    <3>2. Makes(p)'
      <4>1. SUFFICES ASSUME job[p].op = "create", NEW x \in Rules, rowLock[x] = p,
                            NEW t \in Jobs \ {p}, Live(t)'
            PROVE  x \notin job'[t].todo \cup job'[t].fired \cup job'[t].pending
        BY <1>5, <1>7, <2>2, <3>1 DEF Makes
      <4>2. ~ rule[x].stored /\ (Live(t) => x \notin job[t].todo \cup job[t].fired \cup job[t].pending)
        BY <3>1, <4>1 DEF Makes
      <4>3. CASE t = r
        BY <1>4, <1>7, <4>2, <4>3
      <4>4. CASE t # r
        BY <1>7, <4>1, <4>2, <4>4
      <4> QED BY <4>3, <4>4
    <3> QED BY <1>5, <1>7, <2>2, <3>1, <3>2 DEF Holds, HasRead
  <2> QED BY <2>1, <2>2
<1> QED BY <1>9, <1>10, <1>11, <1>12, <1>13, <1>15 DEF RulesInv

\* A rule is created: its id is one that nobody has.
LEMMA CreateRuleStep == ASSUME RulesInv, NEW r \in Jobs, StartCreateRule(r) PROVE RulesInv'
<1> USE RulesAssumption, EvaluationsAssumption
<1>1. PICK x \in FreshRules, action \in Actions :
        /\ job' = [job EXCEPT ![r] =
             [op |-> "create", pc |-> "audit", todo |-> {}, now |-> NoOne,
              seen |-> [y \in Rules |-> IF y = x THEN Created(action) ELSE NoRule],
              fired |-> {}, pending |-> {}, active |-> FALSE]]
        /\ rowLock' = [rowLock EXCEPT ![x] = r]
  BY DEF StartCreateRule
<1> DEFINE seen == [y \in Rules |-> IF y = x THEN Created(action) ELSE NoRule]
           q == [op |-> "create", pc |-> "audit", todo |-> {}, now |-> NoOne, seen |-> seen,
                 fired |-> {}, pending |-> {}, active |-> FALSE]
<1>2. /\ x \in Rules /\ ~ rule[x].stored /\ rowLock[x] = NoOne
      /\ \A p \in Jobs : Live(p) => x \notin job[p].todo \cup job[p].fired \cup job[p].pending
  BY DEF FreshRules, Live
<1>3. seen \in [Rules -> RuleRow] /\ seen[x].count = 0
  <2>1. 0 \in 0 .. MaxEvaluations
    OBVIOUS
  <2>2. NoRule \in RuleRow /\ Created(action) \in RuleRow /\ Created(action).count = 0
    BY <2>1 DEF NoRule, Created, RuleRow, Actions
  <2> QED BY <1>2, <2>2
<1>4. q \in Job
  BY <1>3 DEF Job, JobOps
<1>5. JobShape(q)
  <2>1. Ordered({}) /\ IsFiniteSet({})
    BY FS_EmptySet DEF Ordered
  <2> QED BY <2>1 DEF JobShape
<1>6. /\ q.op = "create" /\ q.pc = "audit" /\ q.fired = {} /\ q.pending = {} /\ q.todo = {}
      /\ q.seen[x].count = 0
  BY <1>3
<1>7. /\ job[r] = NoJob /\ job' = [job EXCEPT ![r] = q]
      /\ overlapped' = (overlapped \/ \E p \in Jobs : Live(p))
      /\ UNCHANGED <<rule, trailLock, evaluated, firings>>
  BY <1>1 DEF StartCreateRule, Live
<1> HIDE DEF q, seen
<1>8. /\ q # NoJob /\ job \in [Jobs -> Job \cup {NoJob}]
      /\ rowLock \in [Rules -> Jobs \cup {NoOne}] /\ trailLock \in Jobs \cup {NoOne}
  BY <1>4, JobTyped DEF RulesInv, RuleTypeOK
<1>9. /\ job'[r] = q /\ Live(r)' /\ ~ Live(r)
      /\ \A p \in Jobs : p # r => job'[p] = job[p]
      /\ \A p \in Jobs : p # r => (Live(p)' <=> Live(p))
  BY <1>7, <1>8 DEF Live
<1>10. /\ rowLock'[x] = r /\ \A y \in Rules : y # x => rowLock'[y] = rowLock[y]
       /\ rowLock' \in [Rules -> Jobs \cup {NoOne}]
  BY <1>1, <1>2, <1>8
<1>11. RuleTypeOK'
  <2>1. job' \in [Jobs -> Job \cup {NoJob}]
    BY <1>4, <1>7, <1>8
  <2>2. overlapped' \in BOOLEAN
    BY <1>7
  <2> QED BY <1>7, <1>10, <2>1, <2>2 DEF RulesInv, RuleTypeOK
<1>12. CountNeverOverstates' /\ GoneIsZero'
  BY <1>7 DEF RulesInv, CountNeverOverstates, GoneIsZero
<1>13. LocksHeld'
  <2>1. ASSUME NEW y \in Rules, rowLock'[y] # NoOne
        PROVE  Live(rowLock[y])' /\ (rule'[y].stored \/ job'[rowLock'[y]].op = "create")
    <3>1. CASE y = x
      BY <1>6, <1>9, <1>10, <3>1
    <3>2. CASE y # x
      <4>1. rowLock'[y] = rowLock[y] /\ rowLock[y] \in Jobs /\ Live(rowLock[y])
        BY <1>8, <1>10, <2>1, <3>2 DEF RulesInv, LocksHeld
      <4> QED BY <1>7, <1>9, <2>1, <4>1 DEF RulesInv, LocksHeld
    <3> QED BY <3>1, <3>2
  <2>2. trailLock' # NoOne => Live(trailLock)'
    BY <1>7, <1>8, <1>9 DEF RulesInv, LocksHeld
  <2> QED BY <2>1, <2>2 DEF LocksHeld
<1>14. FiringsCounted'
  <2>1. Evaluators' = Evaluators
    <3>1. \A p \in Jobs : Evaluates(job'[p]) <=> Evaluates(job[p])
      BY <1>6, <1>7, <1>9 DEF Evaluates
    <3> QED BY <3>1 DEF Evaluators
  <2> QED BY <1>7, <2>1 DEF FiringsCounted, RulesInv
<1>15. OneAtATime'
  <2> SUFFICES ASSUME ~ overlapped' PROVE OneAtATime'
    BY DEF OneAtATime
  <2>1. ~ overlapped /\ \A p \in Jobs : ~ Live(p)
    BY <1>7
  <2>2. \A p \in Jobs : Live(p)' => p = r
    BY <1>9, <2>1
  <2>3. \A y \in Rules : rule'[y].count = firings'[y]
    BY <1>7, <2>1 DEF RulesInv, OneAtATime
  <2>4. \A y \in job'[r].todo \cup job'[r].fired : job'[r].seen[y].count = rule'[y].count
    BY <1>6, <1>9
  <2> QED BY <2>2, <2>3, <2>4 DEF OneAtATime
<1>16. Holds(r)' /\ HasRead(r)' /\ Makes(r)'
  <2>1. /\ \A y \in Rules : rowLock'[y] = r => y = x
        /\ trailLock # r
    BY <1>8, <1>9, <1>10 DEF RulesInv, LocksHeld
  <2>2. Holds(r)' /\ HasRead(r)'
    BY <1>6, <1>7, <1>9, <2>1 DEF Holds, HasRead
  <2>3. Makes(r)'
    BY <1>2, <1>6, <1>7, <1>9, <2>1 DEF Makes
  <2> QED BY <2>2, <2>3
<1>17. ASSUME NEW p \in Jobs, Live(p)'
       PROVE  JobShape(job'[p]) /\ Holds(p)' /\ HasRead(p)' /\ Makes(p)'
  <2>1. CASE p = r
    BY <1>5, <1>9, <1>16, <2>1
  <2>2. CASE p # r
    <3>1. JobShape(job[p]) /\ Holds(p) /\ HasRead(p) /\ Makes(p) /\ job[p] \in Job
      BY <1>9, <1>17, <2>2, LiveTyped
    <3>2. \A y \in Rules : rowLock'[y] = p => rowLock[y] = p
      BY <1>10, <2>2
    <3>3. Holds(p)'
      <4>1. ASSUME job[p].op = "evaluate", NEW y \in job[p].fired \ job[p].pending
            PROVE  rowLock'[y] = p
        <5>1. y \in Rules /\ y # x /\ rowLock[y] = p
          BY <1>2, <1>9, <1>17, <2>2, <3>1, <4>1, JobTyped DEF Holds
        <5> QED BY <1>10, <5>1
      <4> QED BY <1>7, <1>9, <2>2, <3>1, <3>2, <4>1 DEF Holds
    <3>4. HasRead(p)'
      BY <1>7, <1>9, <2>2, <3>1 DEF HasRead
    <3>5. Makes(p)'
      <4>1. SUFFICES ASSUME job[p].op = "create", NEW y \in Rules, rowLock[y] = p
            PROVE  /\ ~ rule[y].stored /\ job[p].seen[y].count = 0
                   /\ \A t \in Jobs \ {p} : Live(t)' =>
                        y \notin job'[t].todo \cup job'[t].fired \cup job'[t].pending
        BY <1>7, <1>9, <2>2, <3>2 DEF Makes
      <4>2. /\ ~ rule[y].stored /\ job[p].seen[y].count = 0
            /\ \A t \in Jobs \ {p} : Live(t) =>
                 y \notin job[t].todo \cup job[t].fired \cup job[t].pending
        BY <3>1, <4>1 DEF Makes
      <4> QED BY <1>6, <1>9, <4>2
    <3> QED BY <1>9, <2>2, <3>1, <3>3, <3>4, <3>5
  <2> QED BY <2>1, <2>2
<1> QED BY <1>11, <1>12, <1>13, <1>14, <1>15, <1>17 DEF RulesInv

\* A request arrives.
LEMMA ArriveJobStep == ASSUME RulesInv, NEW r \in Jobs, ArriveJob(r) PROVE RulesInv'
<1>1. CASE StartEvaluate(r)
  <2>1. PICK matching \in SUBSET ActiveRules : StartJob(r, "evaluate", "fire", matching, {}, FALSE)
    BY <1>1 DEF StartEvaluate
  <2>2. /\ evaluated < MaxEvaluations /\ evaluated' = evaluated + 1
        /\ matching \in SUBSET Rules /\ \A x \in matching \cup {} : rule[x].stored
    BY <1>1 DEF StartEvaluate, ActiveRules
  <2>3. "evaluate" \in JobOps \ {"create"}
    BY DEF JobOps
  <2> QED BY <2>1, <2>2, <2>3, JobStarts
<1>2. CASE StartUpdateRule(r)
  <2>1. PICK x \in {y \in Rules : rule[y].stored}, active \in BOOLEAN :
          LET changed == {y \in {x} : rule[y].active # active} IN
          StartJob(r, "update", IF changed = {} THEN "audit" ELSE "flush", {}, changed, active)
    BY <1>2 DEF StartUpdateRule
  <2> DEFINE changed == {y \in {x} : rule[y].active # active}
  <2>2. /\ changed \in SUBSET Rules /\ (\A y, z \in changed : y = z) /\ evaluated' = evaluated
        /\ \A y \in changed : rule[y].stored
    BY <1>2 DEF StartUpdateRule
  <2>3. StartJob(r, "update", IF changed = {} THEN "audit" ELSE "flush", {}, changed, active)
    BY <2>1
  <2> HIDE DEF changed
  <2>4. CASE changed = {}
    <3>1. StartJob(r, "update", "audit", {}, changed, active)
      BY <2>3, <2>4
    <3> QED BY <2>2, <2>4, <3>1, JobStarts DEF JobOps
  <2>5. CASE changed # {}
    <3>1. StartJob(r, "update", "flush", {}, changed, active)
      BY <2>3, <2>5
    <3> QED BY <2>2, <3>1, JobStarts DEF JobOps
  <2> QED BY <2>4, <2>5
<1>3. CASE StartDeleteRule(r)
  <2>1. PICK x \in {y \in Rules : rule[y].stored} : StartJob(r, "delete", "flush", {}, {x}, FALSE)
    BY <1>3 DEF StartDeleteRule
  <2>2. evaluated' = evaluated /\ \A y, z \in {x} : y = z
    BY <1>3 DEF StartDeleteRule
  <2>3. "delete" \in JobOps \ {"create"} /\ \A y \in {} \cup {x} : rule[y].stored
    BY DEF JobOps
  <2> QED BY <2>1, <2>2, <2>3, JobStarts
<1> QED BY <1>1, <1>2, <1>3, CreateRuleStep DEF ArriveJob

\* The action of a rule is done.
LEMMA JobDoneShape ==
  ASSUME NEW q \in Job, JobShape(q), q.op = "evaluate", NEW x \in q.todo
  PROVE  LET d == JobDone(q, x) IN
         /\ d \in Job /\ JobShape(d) /\ d.op = q.op /\ d.seen = q.seen
         /\ d.todo \cup d.fired = q.todo \cup q.fired
         /\ d.fired \ d.pending = q.fired \ q.pending
<1> DEFINE d == JobDone(q, x)
<1>1. x \in Rules /\ x \in Nat /\ x \notin q.fired /\ q.pending \subseteq q.fired
  BY JobTyped, RulesAssumption DEF JobShape
<1>2. d \in Job
  BY <1>1, JobTyped DEF Job, JobDone
<1>3. /\ d.op = q.op /\ d.seen = q.seen /\ d.pc = "fire" /\ d.now = NoOne
      /\ d.todo = q.todo \ {x} /\ d.fired = q.fired \cup {x} /\ d.pending = q.pending \cup {x}
  BY DEF Job, JobDone
<1> HIDE DEF d
<1>4. JobShape(d)
  <2>1. IsFiniteSet(d.fired)
    BY <1>3, FS_AddElement DEF JobShape
  <2>2. q.fired \in SUBSET Nat
    BY JobTyped, RulesAssumption
  <2>3. Ordered(d.fired)
    BY <1>1, <1>3, <2>2, OrderedGrows DEF JobShape
  <2> QED BY <1>3, <2>1, <2>3 DEF JobShape
<1>5. d.todo \cup d.fired = q.todo \cup q.fired
  BY <1>3
<1>6. d.fired \ d.pending = q.fired \ q.pending
  BY <1>1, <1>3
<1> QED BY <1>2, <1>3, <1>4, <1>5, <1>6 DEF d

\* A request that only changes where it is.
LEMMA JobTurns ==
  ASSUME NEW q \in Job, JobShape(q), NEW now \in q.todo \cup {NoOne},
         NEW pc \in {"flush", "audit", "commit"},
         pc \in {"audit", "commit"} => q.pending = {},
         pc = "commit" => now = NoOne, q.op # "evaluate" => now = NoOne
  PROVE  LET d == [q EXCEPT !.now = now, !.pc = pc] IN
         /\ d \in Job /\ JobShape(d) /\ d.op = q.op /\ d.seen = q.seen /\ d.pc = pc
         /\ d.todo = q.todo /\ d.fired = q.fired /\ d.pending = q.pending
<1> DEFINE d == [q EXCEPT !.now = now, !.pc = pc]
<1>1. d \in Job
  BY JobTyped DEF Job
<1>2. /\ d.op = q.op /\ d.seen = q.seen /\ d.pc = pc /\ d.now = now
      /\ d.todo = q.todo /\ d.fired = q.fired /\ d.pending = q.pending
  BY DEF Job
<1> HIDE DEF d
<1>3. JobShape(d)
  BY <1>2 DEF JobShape
<1> QED BY <1>1, <1>2, <1>3 DEF d

\* An action of a rule is run, or begins.
LEMMA FireStep == ASSUME RulesInv, NEW r \in Jobs, Fire(r) PROVE RulesInv'
<1> DEFINE q == job[r]
<1>1. /\ Live(r) /\ q \in Job /\ JobShape(q) /\ q.op = "evaluate" /\ q.pc = "fire"
      /\ UNCHANGED <<rule, rowLock, trailLock, evaluated, firings, overlapped>>
  BY LiveTyped DEF Fire, JobAt
<1>2. PICK x \in q.todo : \/ job' = [job EXCEPT ![r] = JobDone(q, x)]
                          \/ job' = [job EXCEPT ![r].now = x, ![r].pc = "flush"]
  BY DEF Fire
<1>3. CASE job' = [job EXCEPT ![r] = JobDone(q, x)]
  <2> DEFINE d == JobDone(q, x)
  <2>1. /\ d \in Job /\ JobShape(d) /\ d.op = q.op /\ d.seen = q.seen
        /\ d.todo \cup d.fired = q.todo \cup q.fired
        /\ d.fired \ d.pending = q.fired \ q.pending
    BY <1>1, JobDoneShape
  <2>2. job' = [job EXCEPT ![r] = d]
    BY <1>3
  <2> HIDE DEF d
  <2> QED BY <1>1, <2>1, <2>2, JobMoves
<1>4. CASE job' = [job EXCEPT ![r].now = x, ![r].pc = "flush"]
  <2> DEFINE d == [q EXCEPT !.now = x, !.pc = "flush"]
  <2>1. /\ d \in Job /\ JobShape(d) /\ d.op = q.op /\ d.seen = q.seen /\ d.pc = "flush"
        /\ d.todo = q.todo /\ d.fired = q.fired /\ d.pending = q.pending
    BY <1>1, x \in q.todo \cup {NoOne}, "flush" \in {"flush", "audit", "commit"}, JobTurns
  <2>2. job' = [job EXCEPT ![r] = d]
    BY <1>4
  <2> HIDE DEF d
  <2> QED BY <1>1, <2>1, <2>2, JobMoves
<1> QED BY <1>2, <1>3, <1>4

\* All rules have fired.
LEMMA FiredStep == ASSUME RulesInv, NEW r \in Jobs, Fired(r) PROVE RulesInv'
<1> DEFINE q == job[r]
<1>1. /\ Live(r) /\ q \in Job /\ JobShape(q) /\ q.op = "evaluate" /\ q.pc = "fire" /\ q.now = NoOne
      /\ UNCHANGED <<rule, rowLock, trailLock, evaluated, firings, overlapped>>
  BY LiveTyped DEF Fired, JobAt, JobShape
<1>2. NoOne \in q.todo \cup {NoOne} /\ q.pending \subseteq q.fired
  BY <1>1 DEF JobShape
<1>3. CASE q.fired = {}
  <2> DEFINE d == [q EXCEPT !.now = NoOne, !.pc = "commit"]
  <2>1. [q EXCEPT !.pc = "commit"] = d
    BY <1>1, JobTyped DEF Job
  <2>2. q.pending = {}
    BY <1>2, <1>3
  <2>3. /\ d \in Job /\ JobShape(d) /\ d.op = q.op /\ d.seen = q.seen /\ d.pc = "commit"
        /\ d.todo = q.todo /\ d.fired = q.fired /\ d.pending = q.pending
    BY <1>1, <1>2, <2>2, JobTurns
  <2>4. job' = [job EXCEPT ![r].pc = "commit"]
    BY <1>3 DEF Fired
  <2>5. job' = [job EXCEPT ![r] = d]
    BY <2>1, <2>4
  <2> HIDE DEF d
  <2> QED BY <1>1, <2>3, <2>5, JobMoves
<1>4. CASE q.fired # {}
  <2> DEFINE d == [q EXCEPT !.now = NoOne, !.pc = "flush"]
  <2>1. [q EXCEPT !.pc = "flush"] = d
    BY <1>1, JobTyped DEF Job
  <2>3. /\ d \in Job /\ JobShape(d) /\ d.op = q.op /\ d.seen = q.seen /\ d.pc = "flush"
        /\ d.todo = q.todo /\ d.fired = q.fired /\ d.pending = q.pending
    <3>1. "flush" \in {"flush", "audit", "commit"} /\ "flush" \notin {"audit", "commit"}
      OBVIOUS
    <3>2. "flush" = "commit" => NoOne = NoOne
      OBVIOUS
    <3> QED BY <1>1, <1>2, <3>1, <3>2, JobTurns
  <2>4. job' = [job EXCEPT ![r].pc = "flush"]
    BY <1>4 DEF Fired
  <2>5. job' = [job EXCEPT ![r] = d]
    BY <2>1, <2>4
  <2> HIDE DEF d
  <2> QED BY <1>1, <2>3, <2>5, JobMoves
<1> QED BY <1>3, <1>4

\* A flush is over.
LEMMA FlushedStep == ASSUME RulesInv, NEW r \in Jobs, Flushed(r) PROVE RulesInv'
<1> DEFINE q == job[r]
<1>1. /\ Live(r) /\ q \in Job /\ JobShape(q) /\ q.pc = "flush" /\ q.pending = {}
      /\ UNCHANGED <<rule, rowLock, trailLock, evaluated, firings, overlapped>>
  BY LiveTyped DEF Flushed, JobAt
<1>2. \/ q.now # NoOne /\ job' = [job EXCEPT ![r] = JobDone(q, q.now)]
      \/ job' = [job EXCEPT ![r] = [q EXCEPT !.pc = "audit"]]
  BY DEF Flushed
<1>3. Holds(r)
  BY <1>1, LiveTyped
<1>4. CASE q.now # NoOne /\ job' = [job EXCEPT ![r] = JobDone(q, q.now)]
  <2> DEFINE d == JobDone(q, q.now)
  <2>1. q.op = "evaluate" /\ q.now \in q.todo
    BY <1>1, <1>4 DEF JobShape
  <2>2. /\ d \in Job /\ JobShape(d) /\ d.op = q.op /\ d.seen = q.seen
        /\ d.todo \cup d.fired = q.todo \cup q.fired
        /\ d.fired \ d.pending = q.fired \ q.pending
    BY <1>1, <2>1, JobDoneShape
  <2>3. job' = [job EXCEPT ![r] = d]
    BY <1>4
  <2> HIDE DEF d
  <2> QED BY <1>1, <2>1, <2>2, <2>3, JobMoves
<1>5. CASE job' = [job EXCEPT ![r] = [q EXCEPT !.pc = "audit"]]
  <2> DEFINE d == [q EXCEPT !.now = q.now, !.pc = "audit"]
  <2>1. /\ q.now \in q.todo \cup {NoOne} /\ (q.op # "evaluate" => q.now = NoOne)
    BY <1>1 DEF JobShape
  <2>2. [q EXCEPT !.pc = "audit"] = d
    BY <1>1, JobTyped DEF Job
  <2>3. /\ d \in Job /\ JobShape(d) /\ d.op = q.op /\ d.seen = q.seen /\ d.pc = "audit"
        /\ d.todo = q.todo /\ d.fired = q.fired /\ d.pending = q.pending
    BY <1>1, <2>1, JobTurns
  <2>4. job' = [job EXCEPT ![r] = d]
    BY <1>5, <2>2
  <2>5. trailLock = r => q.op = "evaluate"
    BY <1>1, <1>3 DEF Holds
  <2> HIDE DEF d
  <2> QED BY <1>1, <2>3, <2>4, <2>5, JobMoves
<1> QED BY <1>2, <1>4, <1>5

\* An entry is recorded.
LEMMA RecordJobStep == ASSUME RulesInv, NEW r \in Jobs, RecordJob(r) PROVE RulesInv'
<1> DEFINE q == job[r]
<1>1. /\ Live(r) /\ q \in Job /\ JobShape(q) /\ q.pc = "audit" /\ q.pending = {}
      /\ trailLock \in {NoOne, r} /\ trailLock' = r
      /\ UNCHANGED <<rule, rowLock, evaluated, firings, overlapped>>
  BY LiveTyped DEF RecordJob, JobAt, JobShape
<1>2. \/ q.now # NoOne /\ job' = [job EXCEPT ![r] = JobDone(q, q.now)]
      \/ q.now = NoOne /\ job' = [job EXCEPT ![r] = [q EXCEPT !.pc = "commit"]]
  BY DEF RecordJob
<1>3. CASE q.now # NoOne /\ job' = [job EXCEPT ![r] = JobDone(q, q.now)]
  <2> DEFINE d == JobDone(q, q.now)
  <2>1. q.op = "evaluate" /\ q.now \in q.todo
    BY <1>1, <1>3 DEF JobShape
  <2>2. /\ d \in Job /\ JobShape(d) /\ d.op = q.op /\ d.seen = q.seen
        /\ d.todo \cup d.fired = q.todo \cup q.fired
        /\ d.fired \ d.pending = q.fired \ q.pending
    BY <1>1, <2>1, JobDoneShape
  <2>3. job' = [job EXCEPT ![r] = d]
    BY <1>3
  <2> HIDE DEF d
  <2> QED BY <1>1, <2>1, <2>2, <2>3, JobMoves
<1>4. CASE q.now = NoOne /\ job' = [job EXCEPT ![r] = [q EXCEPT !.pc = "commit"]]
  <2> DEFINE d == [q EXCEPT !.now = NoOne, !.pc = "commit"]
  <2>1. [q EXCEPT !.pc = "commit"] = d
    BY <1>1, <1>4, JobTyped DEF Job
  <2>2. /\ d \in Job /\ JobShape(d) /\ d.op = q.op /\ d.seen = q.seen /\ d.pc = "commit"
        /\ d.todo = q.todo /\ d.fired = q.fired /\ d.pending = q.pending
    BY <1>1, NoOne \in q.todo \cup {NoOne}, JobTurns
  <2>3. job' = [job EXCEPT ![r] = d]
    BY <1>4, <2>1
  <2> HIDE DEF d
  <2> QED BY <1>1, <2>2, <2>3, JobMoves
<1> QED BY <1>2, <1>3, <1>4

\* A row is flushed: its lock is taken.
LEMMA FlushRowStep == ASSUME RulesInv, NEW r \in Jobs, FlushRow(r) PROVE RulesInv'
<1> USE RulesAssumption, EvaluationsAssumption
<1> DEFINE q == job[r]
           x == FirstPending(r)
           d == [q EXCEPT !.pending = @ \ {x}]
<1>1. /\ Live(r) /\ q \in Job /\ JobShape(q) /\ Holds(r) /\ HasRead(r)
      /\ q.pc = "flush" /\ q.pending # {} /\ q.op # "create"
  BY LiveTyped DEF FlushRow, JobAt, JobShape
<1>2. x \in q.pending /\ x \in Rules
  BY <1>1, FirstIsPending, JobTyped
<1>3. /\ rowLock[x] \in {NoOne, r}
      /\ rule[x].stored \/ q.op = "delete"
      /\ rowLock' = [rowLock EXCEPT ![x] = IF rule[x].stored THEN r ELSE @]
      /\ job' = [job EXCEPT ![r].pending = @ \ {x}]
      /\ UNCHANGED <<rule, trailLock, evaluated, firings, overlapped>>
  BY DEF FlushRow
<1> HIDE DEF x
<1>4. /\ d \in Job /\ d.op = q.op /\ d.seen = q.seen /\ d.pc = q.pc /\ d.now = q.now
      /\ d.todo = q.todo /\ d.fired = q.fired /\ d.pending = q.pending \ {x}
  BY <1>1, JobTyped DEF Job
<1>5. job' = [job EXCEPT ![r] = d]
  BY <1>3
<1> HIDE DEF d
<1>6. JobShape(d)
  BY <1>1, <1>4 DEF JobShape
<1>7. d # NoJob /\ job \in [Jobs -> Job \cup {NoJob}] /\ rowLock \in [Rules -> Jobs \cup {NoOne}]
  BY <1>4, JobTyped DEF RulesInv, RuleTypeOK
<1>8. /\ job'[r] = d
      /\ \A p \in Jobs : p # r => job'[p] = job[p]
      /\ \A p \in Jobs : Live(p)' <=> Live(p)
  BY <1>1, <1>5, <1>7 DEF Live
<1>9. /\ \A y \in Rules : y # x => rowLock'[y] = rowLock[y]
      /\ rowLock'[x] = IF rule[x].stored THEN r ELSE rowLock[x]
      /\ rowLock' \in [Rules -> Jobs \cup {NoOne}]
  BY <1>2, <1>3, <1>7
<1>10. RuleTypeOK'
  <2>1. job' \in [Jobs -> Job \cup {NoJob}]
    BY <1>4, <1>5, <1>7
  <2> QED BY <1>3, <1>9, <2>1 DEF RulesInv, RuleTypeOK
<1>11. CountNeverOverstates' /\ GoneIsZero'
  BY <1>3 DEF RulesInv, CountNeverOverstates, GoneIsZero
<1>12. LocksHeld'
  <2>1. LocksHeld /\ trailLock \in Jobs \cup {NoOne}
    BY DEF RulesInv, RuleTypeOK
  <2>2. ASSUME NEW y \in Rules, rowLock'[y] # NoOne
        PROVE  (Live(rowLock[y]))' /\ (rule'[y].stored \/ job'[rowLock'[y]].op = "create")
    <3>1. CASE rowLock'[y] = rowLock[y]
      <4>1. rowLock[y] \in Jobs /\ job'[rowLock[y]].op = job[rowLock[y]].op
        BY <1>4, <1>7, <1>8, <2>2, <3>1
      <4> QED BY <1>3, <1>8, <2>1, <2>2, <3>1, <4>1 DEF LocksHeld
    <3>2. CASE rowLock'[y] # rowLock[y]
      <4>1. y = x /\ rule[y].stored /\ rowLock'[y] = r
        BY <1>9, <3>2
      <4> QED BY <1>1, <1>3, <1>8, <4>1
    <3> QED BY <3>1, <3>2
  <2>3. trailLock' # NoOne => (Live(trailLock))'
    BY <1>3, <1>8, <2>1 DEF LocksHeld
  <2> QED BY <2>2, <2>3 DEF LocksHeld
<1>13. FiringsCounted'
  <2>1. Evaluators' = Evaluators
    <3>1. \A p \in Jobs : Evaluates(job'[p]) <=> Evaluates(job[p])
      BY <1>1, <1>4, <1>8 DEF Evaluates, Live
    <3> QED BY <3>1 DEF Evaluators
  <2> QED BY <1>3, <2>1 DEF FiringsCounted, RulesInv
<1>14. OneAtATime'
  <2> SUFFICES ASSUME ~ overlapped PROVE OneAtATime'
    BY <1>3 DEF OneAtATime
  <2>1. \A p \in Jobs : Live(p)' =>
          \A y \in job'[p].todo \cup job'[p].fired : job'[p].seen[y].count = rule[y].count
    BY <1>4, <1>8 DEF RulesInv, OneAtATime, Live
  <2> QED BY <1>3, <1>8, <2>1 DEF RulesInv, OneAtATime
<1>15. Holds(r)'
  <2>1. ASSUME NEW y \in Rules, rowLock'[y] = r
        PROVE  IF d.op = "evaluate" THEN y \in d.fired \ d.pending ELSE d.pending = {}
    <3>1. CASE d.op = "evaluate"
      BY <1>1, <1>2, <1>4, <1>9, <2>1, <3>1 DEF Holds, JobShape
    <3>2. CASE d.op # "evaluate"
      <4>1. d.pending = {}
        BY <1>1, <1>2, <1>4, <3>2 DEF JobShape
      <4> QED BY <3>2, <4>1
    <3> QED BY <3>1, <3>2
  <2>2. ASSUME d.op = "evaluate", NEW y \in d.fired \ d.pending PROVE rowLock'[y] = r
    <3>1. y \in Rules
      BY <1>4, JobTyped
    <3>2. CASE y = x
      BY <1>3, <1>4, <1>9, <2>2, <3>2
    <3>3. CASE y # x
      BY <1>1, <1>4, <1>9, <2>2, <3>1, <3>3 DEF Holds
    <3> QED BY <3>2, <3>3
  <2>3. trailLock' = r => d.op = "evaluate" \/ d.pc = "commit"
    BY <1>1, <1>3, <1>4 DEF Holds
  <2> QED BY <1>8, <2>1, <2>2, <2>3 DEF Holds
<1>16. HasRead(r)'
  BY <1>1, <1>3, <1>4, <1>8 DEF HasRead
<1>17. ASSUME NEW p \in Jobs, Live(p)'
       PROVE  JobShape(job'[p]) /\ Holds(p)' /\ HasRead(p)' /\ Makes(p)'
  <2>1. CASE p = r
    BY <1>1, <1>4, <1>6, <1>8, <1>15, <1>16, <2>1 DEF Makes
  <2>2. CASE p # r
    <3>1. JobShape(job[p]) /\ Holds(p) /\ HasRead(p) /\ Makes(p) /\ job[p] \in Job
      BY <1>8, <1>17, LiveTyped
    <3>2. \A y \in Rules : rowLock'[y] = p <=> rowLock[y] = p
      BY <1>3, <1>9, <2>2
    <3>3. job[p].fired \in SUBSET Rules
      BY <3>1, JobTyped
    <3>4. Holds(p)'
      BY <1>3, <1>8, <2>2, <3>1, <3>2, <3>3 DEF Holds
    <3>5. HasRead(p)'
      BY <1>3, <1>8, <2>2, <3>1 DEF HasRead
    <3>6. Makes(p)'
      <4>1. SUFFICES ASSUME job[p].op = "create", NEW y \in Rules, rowLock[y] = p
            PROVE  /\ ~ rule[y].stored /\ job[p].seen[y].count = 0
                   /\ \A t \in Jobs \ {p} : Live(t)' =>
                        y \notin job'[t].todo \cup job'[t].fired \cup job'[t].pending
        BY <1>3, <1>8, <2>2, <3>2 DEF Makes
      <4>2. /\ ~ rule[y].stored /\ job[p].seen[y].count = 0
            /\ \A t \in Jobs \ {p} : Live(t) =>
                 y \notin job[t].todo \cup job[t].fired \cup job[t].pending
        BY <3>1, <4>1 DEF Makes
      <4> QED BY <1>4, <1>8, <4>2
    <3> QED BY <1>8, <2>2, <3>1, <3>4, <3>5, <3>6
  <2> QED BY <2>1, <2>2
<1> QED BY <1>10, <1>11, <1>12, <1>13, <1>14, <1>17 DEF RulesInv

\* A request is over, with or without a commit, and leaves the rows and the
\* counts of firings in order.
LEMMA JobEnds ==
  ASSUME RulesInv, NEW r \in Jobs, Live(r), ReleaseJob(r),
         rule' \in [Rules -> RuleRow], firings' \in [Rules -> 0 .. MaxEvaluations],
         \A x \in Rules :
           /\ rule'[x].count <= firings'[x]
           /\ rule'[x].stored => firings[x] <= firings'[x] /\
                                 (rule[x].stored \/ (job[r].op = "create" /\ rowLock[x] = r))
           /\ ~ rule'[x].stored => rule'[x].count = 0
           /\ rowLock[x] # r => rule'[x].stored = rule[x].stored
           /\ firings'[x] <= (IF job[r].op = "evaluate" THEN firings[x] + 1 ELSE firings[x])
           /\ ~ overlapped => rule'[x].count = firings'[x]
  PROVE  RulesInv'
<1> USE RulesAssumption, EvaluationsAssumption
<1>1. /\ job' = [job EXCEPT ![r] = NoJob]
      /\ trailLock' = IF trailLock = r THEN NoOne ELSE trailLock
      /\ rowLock' = [x \in Rules |-> IF rowLock[x] = r THEN NoOne ELSE rowLock[x]]
      /\ UNCHANGED <<evaluated, overlapped>>
  BY DEF ReleaseJob
<1>2. /\ job \in [Jobs -> Job \cup {NoJob}] /\ rowLock \in [Rules -> Jobs \cup {NoOne}]
      /\ trailLock \in Jobs \cup {NoOne} /\ evaluated \in 0 .. MaxEvaluations
      /\ rule \in [Rules -> RuleRow] /\ firings \in [Rules -> 0 .. MaxEvaluations]
      /\ LocksHeld
  BY DEF RulesInv, RuleTypeOK
<1>3. /\ ~ Live(r)'
      /\ \A p \in Jobs : p # r => job'[p] = job[p] /\ (Live(p)' <=> Live(p))
  BY <1>1, <1>2 DEF Live
<1>4. /\ trailLock' # r /\ \A p \in Jobs : p # r => (trailLock' = p <=> trailLock = p)
      /\ \A x \in Rules : rowLock'[x] # r /\ \A p \in Jobs : p # r => (rowLock'[x] = p <=> rowLock[x] = p)
  BY <1>1
<1>5. RuleTypeOK'
  <2>1. job' \in [Jobs -> Job \cup {NoJob}]
    BY <1>1, <1>2
  <2>2. rowLock' \in [Rules -> Jobs \cup {NoOne}] /\ trailLock' \in Jobs \cup {NoOne}
    BY <1>1, <1>2
  <2> QED BY <1>1, <2>1, <2>2 DEF RulesInv, RuleTypeOK
<1>6. CountNeverOverstates' /\ GoneIsZero'
  BY DEF CountNeverOverstates, GoneIsZero
<1>7. LocksHeld'
  <2>1. ASSUME NEW x \in Rules, rowLock'[x] # NoOne
        PROVE  (Live(rowLock[x]))' /\ (rule'[x].stored \/ job'[rowLock'[x]].op = "create")
    <3>1. rowLock'[x] = rowLock[x] /\ rowLock[x] # r /\ rowLock[x] \in Jobs
      BY <1>1, <1>2, <2>1
    <3> QED BY <1>2, <1>3, <2>1, <3>1 DEF LocksHeld
  <2>2. trailLock' # NoOne => (Live(trailLock))'
    <3>1. trailLock' # NoOne => trailLock' = trailLock /\ trailLock # r /\ trailLock \in Jobs
      BY <1>1, <1>2
    <3> QED BY <1>2, <1>3, <3>1 DEF LocksHeld
  <2> QED BY <2>1, <2>2 DEF LocksHeld
<1>8. FiringsCounted'
  <2>1. IsFiniteSet(Evaluators) /\ \A x \in Rules : firings[x] + Cardinality(Evaluators) <= evaluated
    BY DEF RulesInv, FiringsCounted
  <2>2. Evaluators' = Evaluators \ {r} /\ (r \in Evaluators <=> job[r].op = "evaluate")
    <3>1. \A p \in Jobs : Evaluates(job'[p]) <=> p # r /\ Evaluates(job[p])
      BY <1>1, <1>2, <1>3 DEF Evaluates
    <3> QED BY <3>1 DEF Evaluators, Evaluates, Live
  <2>3. Cardinality(Evaluators) \in Nat /\ firings \in [Rules -> Nat] /\ firings' \in [Rules -> Nat]
    BY <1>2, <2>1, FS_CardinalityType
  <2>4. IsFiniteSet(Evaluators') /\
        Cardinality(Evaluators') = IF job[r].op = "evaluate" THEN Cardinality(Evaluators) - 1
                                                             ELSE Cardinality(Evaluators)
    BY <2>1, <2>2, FS_RemoveElement
  <2>5. ASSUME NEW x \in Rules PROVE firings'[x] + Cardinality(Evaluators') <= evaluated'
    <3>1. firings[x] \in Nat /\ firings'[x] \in Nat /\ evaluated \in Nat /\ evaluated' = evaluated
      BY <1>1, <1>2, <2>3
    <3>2. firings[x] + Cardinality(Evaluators) <= evaluated
      BY <2>1
    <3>3. CASE job[r].op = "evaluate"
      BY <2>3, <2>4, <3>1, <3>2, <3>3
    <3>4. CASE job[r].op # "evaluate"
      BY <2>3, <2>4, <3>1, <3>2, <3>4
    <3> QED BY <3>3, <3>4
  <2> QED BY <2>4, <2>5 DEF FiringsCounted
<1>9. OneAtATime'
  <2> SUFFICES ASSUME ~ overlapped PROVE OneAtATime'
    BY <1>1 DEF OneAtATime
  <2>1. \A p \in Jobs : ~ Live(p)'
    BY <1>3 DEF RulesInv, OneAtATime
  <2> QED BY <2>1 DEF OneAtATime
<1>10. ASSUME NEW p \in Jobs, Live(p)'
       PROVE  JobShape(job'[p]) /\ Holds(p)' /\ HasRead(p)' /\ Makes(p)'
  <2>1. /\ p # r /\ job'[p] = job[p] /\ JobShape(job[p]) /\ Holds(p) /\ HasRead(p)
        /\ Makes(p) /\ job[p] \in Job
    BY <1>3, <1>10, LiveTyped
  <2>2. /\ job[p].fired \in SUBSET Rules /\ job[p].todo \in SUBSET Rules
        /\ job[p].seen \in [Rules -> RuleRow]
    BY <2>1, JobTyped
  <2>3. Holds(p)'
    <3>1. \A x \in Rules : rowLock'[x] = p =>
            IF job[p].op = "evaluate" THEN x \in job[p].fired \ job[p].pending
                                      ELSE job[p].pending = {}
      BY <1>4, <2>1 DEF Holds
    <3>2. job[p].op = "evaluate" => \A x \in job[p].fired \ job[p].pending : rowLock'[x] = p
      BY <1>4, <2>1, <2>2 DEF Holds
    <3>3. trailLock' = p => job[p].op = "evaluate" \/ job[p].pc = "commit"
      BY <1>4, <2>1 DEF Holds
    <3> QED BY <2>1, <3>1, <3>2, <3>3 DEF Holds
  <2>4. HasRead(p)'
    <3>1. ASSUME NEW x \in job[p].todo \cup job[p].fired, rule'[x].stored
          PROVE  job[p].seen[x].count <= firings'[x]
      <4>1. x \in Rules
        BY <2>2
      <4>6. rule[x].stored
        <5>1. Live(p) /\ Makes(r)
          BY <1>3, <1>10, <2>1, LiveTyped
        <5>2. ~ (job[r].op = "create" /\ rowLock[x] = r)
          BY <2>1, <3>1, <4>1, <5>1 DEF Makes
        <5> QED BY <3>1, <4>1, <5>2
      <4>2. firings[x] <= firings'[x] /\ job[p].seen[x].count <= firings[x]
        BY <2>1, <3>1, <4>1, <4>6 DEF HasRead
      <4>5. firings[x] \in 0 .. MaxEvaluations /\ firings'[x] \in 0 .. MaxEvaluations
        BY <1>2, <4>1
      <4>3. firings[x] \in Nat /\ firings'[x] \in Nat /\ job[p].seen[x] \in RuleRow
        <5>1. job[p].seen[x] \in RuleRow
          BY <2>2, <4>1
        <5> QED BY <4>5, <5>1
      <4>4. job[p].seen[x].count \in Nat
        BY <4>3 DEF RuleRow
      <4> QED BY <4>2, <4>3, <4>4
    <3> QED BY <2>1, <3>1 DEF HasRead
  <2>5. Makes(p)'
    <3>1. SUFFICES ASSUME job[p].op = "create", NEW x \in Rules, rowLock[x] = p
          PROVE  /\ ~ rule'[x].stored /\ job[p].seen[x].count = 0
                 /\ \A t \in Jobs \ {p} : Live(t)' =>
                      x \notin job'[t].todo \cup job'[t].fired \cup job'[t].pending
      BY <1>4, <2>1 DEF Makes
    <3>2. /\ ~ rule[x].stored /\ job[p].seen[x].count = 0
          /\ \A t \in Jobs \ {p} : Live(t) =>
               x \notin job[t].todo \cup job[t].fired \cup job[t].pending
      BY <2>1, <3>1 DEF Makes
    <3>3. rule'[x].stored = rule[x].stored
      BY <2>1, <3>1
    <3> QED BY <1>3, <3>2, <3>3
  <2> QED BY <2>1, <2>3, <2>4, <2>5
<1> QED BY <1>5, <1>6, <1>7, <1>8, <1>9, <1>10 DEF RulesInv

\* A transaction is rolled back.
LEMMA AbortJobStep == ASSUME RulesInv, NEW r \in Jobs, AbortJob(r) PROVE RulesInv'
<1>1. Live(r) /\ ReleaseJob(r) /\ UNCHANGED <<rule, firings>>
  BY DEF AbortJob, Live
<1>2. rule \in [Rules -> RuleRow] /\ firings \in [Rules -> 0 .. MaxEvaluations] /\ CountNeverOverstates
  BY DEF RulesInv, RuleTypeOK
<1>3. ASSUME NEW x \in Rules
      PROVE  /\ rule[x].count <= firings[x] /\ firings[x] <= firings[x]
             /\ firings[x] <= (IF job[r].op = "evaluate" THEN firings[x] + 1 ELSE firings[x])
             /\ ~ overlapped => rule[x].count = firings[x]
             /\ ~ rule[x].stored => rule[x].count = 0
  <2>1. firings[x] \in Nat /\ (~ rule[x].stored => rule[x].count = 0)
    BY <1>2, EvaluationsAssumption DEF RulesInv, GoneIsZero
  <2>2. ~ overlapped => rule[x].count = firings[x]
    BY DEF RulesInv, OneAtATime
  <2>3. firings[x] <= (IF job[r].op = "evaluate" THEN firings[x] + 1 ELSE firings[x])
    BY <2>1
  <2> QED BY <1>2, <2>1, <2>2, <2>3 DEF CountNeverOverstates
<1> QED BY <1>1, <1>2, <1>3, JobEnds

\* A request commits: its counts are what it read and one more.
LEMMA CommitJobStep == ASSUME RulesInv, NEW r \in Jobs, CommitJob(r) PROVE RulesInv'
<1> USE RulesAssumption, EvaluationsAssumption
<1> DEFINE q == job[r]
<1>1. /\ Live(r) /\ q \in Job /\ JobShape(q) /\ Holds(r) /\ HasRead(r) /\ Makes(r)
      /\ q.pc = "commit" /\ q.pending = {} /\ ReleaseJob(r)
  BY LiveTyped DEF CommitJob, JobAt, JobShape
<1>2. /\ rule' = [x \in Rules |-> IF rowLock[x] = r THEN RuleAfter(q, x, rule[x]) ELSE rule[x]]
      /\ firings' = [x \in Rules |-> CASE x \in q.fired -> firings[x] + 1
                                       [] q.op = "delete" /\ rowLock[x] = r -> 0
                                       [] OTHER -> firings[x]]
  BY DEF CommitJob
<1>3. /\ q.op \in JobOps /\ q.fired \in SUBSET Rules /\ q.seen \in [Rules -> RuleRow]
      /\ q.active \in BOOLEAN /\ (q.op # "evaluate" => q.fired = {})
  BY <1>1, JobTyped DEF JobShape
<1>4. /\ rule \in [Rules -> RuleRow] /\ firings \in [Rules -> 0 .. MaxEvaluations]
      /\ CountNeverOverstates /\ LocksHeld /\ evaluated \in 0 .. MaxEvaluations
  BY DEF RulesInv, RuleTypeOK
<1>5. q.op = "evaluate" => \A x \in Rules : x \in q.fired <=> rowLock[x] = r
  BY <1>1 DEF Holds
<1>6. q.op = "evaluate" => \A x \in Rules : firings[x] + 1 <= evaluated
  <2> SUFFICES ASSUME q.op = "evaluate", NEW x \in Rules PROVE firings[x] + 1 <= evaluated
    OBVIOUS
  <2>1. r \in Evaluators /\ IsFiniteSet(Evaluators) /\ firings[x] + Cardinality(Evaluators) <= evaluated
    BY <1>1 DEF Evaluators, Evaluates, Live, RulesInv, FiringsCounted
  <2>2. Cardinality(Evaluators) \in Nat /\ Cardinality(Evaluators) # 0
    BY <2>1, FS_CardinalityType, FS_EmptySet
  <2>3. firings[x] \in 0 .. MaxEvaluations
    BY <1>4
  <2>4. firings[x] \in Nat /\ evaluated \in Nat
    BY <1>4, <2>3
  <2> QED BY <2>1, <2>2, <2>4
<1>7. ASSUME NEW x \in Rules
      PROVE  /\ rule'[x] \in RuleRow /\ firings'[x] \in 0 .. MaxEvaluations
             /\ rule'[x].count <= firings'[x]
             /\ rule'[x].stored => firings[x] <= firings'[x] /\
                                   (rule[x].stored \/ (q.op = "create" /\ rowLock[x] = r))
             /\ ~ rule'[x].stored => rule'[x].count = 0
             /\ rowLock[x] # r => rule'[x].stored = rule[x].stored
             /\ firings'[x] <= (IF q.op = "evaluate" THEN firings[x] + 1 ELSE firings[x])
             /\ ~ overlapped => rule'[x].count = firings'[x]
  <2> DEFINE row == rule[x]
  <2>1. /\ row \in RuleRow /\ firings[x] \in 0 .. MaxEvaluations /\ row.count <= firings[x]
        /\ ~ overlapped => row.count = firings[x]
        /\ ~ row.stored => row.count = 0
    BY <1>4 DEF CountNeverOverstates, RulesInv, OneAtATime, GoneIsZero
  <2>2. row.count \in 0 .. MaxEvaluations /\ row.stored \in BOOLEAN /\ firings[x] \in Nat
    BY <2>1 DEF RuleRow
  <2>3. CASE rowLock[x] # r
    <3>1. rule'[x] = row /\ firings'[x] = firings[x]
      BY <1>2, <1>3, <1>5, <2>3
    <3>2. firings[x] <= (IF q.op = "evaluate" THEN firings[x] + 1 ELSE firings[x]) /\ firings[x] <= firings[x]
      BY <2>2
    <3> QED BY <2>1, <3>1, <3>2
  <2>4. CASE rowLock[x] = r /\ q.op = "evaluate"
    <3>1. x \in q.fired /\ row.stored
      BY <1>1, <1>4, <1>5, <2>4 DEF LocksHeld
    <3>2. rule'[x] = [row EXCEPT !.count = CountAfter(q, x)] /\ firings'[x] = firings[x] + 1
      BY <1>2, <2>4, <3>1 DEF RuleAfter
    <3>3. q.seen[x] \in RuleRow /\ q.seen[x].count <= firings[x]
      BY <1>1, <1>3, <3>1 DEF HasRead
    <3>4. q.seen[x].count \in Nat
      BY <3>3 DEF RuleRow
    <3>5. CountAfter(q, x) \in Nat /\ CountAfter(q, x) <= firings[x] + 1 /\ firings[x] + 1 \in 0 .. MaxEvaluations
      <4>1. firings[x] + 1 <= evaluated
        BY <1>6, <2>4
      <4> QED BY <1>4, <2>2, <3>3, <3>4, <4>1 DEF CountAfter
    <3>6. CountAfter(q, x) \in 0 .. MaxEvaluations
      BY <3>5
    <3>7. rule'[x] \in RuleRow /\ rule'[x].count = CountAfter(q, x) /\ rule'[x].stored = row.stored
      BY <2>1, <3>2, <3>6 DEF RuleRow
    <3>8. ~ overlapped => CountAfter(q, x) = firings[x] + 1
      <4>1. ~ overlapped => q.seen[x].count = row.count
        BY <1>1, <3>1 DEF RulesInv, OneAtATime
      <4> QED BY <2>1, <4>1 DEF CountAfter
    <3>9. firings[x] <= firings[x] + 1 /\ firings[x] + 1 <= firings[x] + 1
      BY <2>2
    <3> QED BY <2>4, <3>1, <3>2, <3>5, <3>7, <3>8, <3>9
  <2>5. CASE rowLock[x] = r /\ q.op = "update"
    <3>1. rule'[x] = [row EXCEPT !.active = q.active] /\ firings'[x] = firings[x]
      BY <1>2, <1>3, <2>5 DEF RuleAfter
    <3>2. rule'[x] \in RuleRow /\ rule'[x].count = row.count /\ rule'[x].stored = row.stored
      BY <1>3, <2>1, <3>1 DEF RuleRow
    <3> QED BY <2>1, <2>2, <2>5, <3>1, <3>2
  <2>6. CASE rowLock[x] = r /\ q.op = "delete"
    <3>1. rule'[x] = NoRule /\ firings'[x] = 0
      BY <1>2, <1>3, <2>6 DEF RuleAfter
    <3>2. 0 \in 0 .. MaxEvaluations
      OBVIOUS
    <3>3. NoRule \in RuleRow /\ NoRule.count = 0 /\ ~ NoRule.stored
      BY <3>2 DEF NoRule, RuleRow, Actions
    <3>4. 0 <= firings[x] /\ 0 <= 0
      BY <2>2
    <3> QED BY <2>6, <3>1, <3>2, <3>3, <3>4
  <2>7. CASE rowLock[x] = r /\ q.op = "create"
    <3>1. rule'[x] = q.seen[x] /\ firings'[x] = firings[x]
      BY <1>2, <1>3, <2>7 DEF RuleAfter
    <3>2. ~ row.stored /\ q.seen[x].count = 0 /\ row.count = 0
      BY <1>1, <2>1, <2>7 DEF Makes
    <3>3. 0 <= firings[x] /\ firings[x] <= firings[x]
      BY <2>2
    <3> QED BY <1>3, <2>1, <2>7, <3>1, <3>2, <3>3
  <2> QED BY <1>3, <2>3, <2>4, <2>5, <2>6, <2>7 DEF JobOps
<1>8. rule' \in [Rules -> RuleRow]
  <2>1. DOMAIN rule' = Rules /\ rule' = [x \in Rules |-> rule'[x]]
    BY <1>2
  <2> QED BY <1>7, <2>1
<1>9. firings' \in [Rules -> 0 .. MaxEvaluations]
  <2>1. firings' = [x \in Rules |-> firings'[x]]
    BY <1>2
  <2> QED BY <1>7, <2>1
<1> QED BY <1>1, <1>7, <1>8, <1>9, JobEnds

\* The invariant holds in every state.
LEMMA RulesInvariant == RuleSpec => []RulesInv
<1>1. ASSUME RulesInv, NEW r \in Jobs, ArriveJob(r) \/ ProceedJob(r) \/ AbortJob(r)
      PROVE  RulesInv'
  BY <1>1, ArriveJobStep, FireStep, FiredStep, FlushRowStep, FlushedStep, RecordJobStep,
     CommitJobStep, AbortJobStep DEF ProceedJob, Stale, JobVictim
<1>2. RulesInv /\ UNCHANGED ruleVars => RulesInv'
  <2> SUFFICES ASSUME RulesInv, UNCHANGED ruleVars PROVE RulesInv'
    OBVIOUS
  <2> USE DEF ruleVars
  <2>1. RuleTypeOK' /\ CountNeverOverstates' /\ GoneIsZero'
    BY DEF RulesInv, RuleTypeOK, CountNeverOverstates, GoneIsZero
  <2>2. Evaluators' = Evaluators
    BY DEF Evaluators
  <2>3. LocksHeld' /\ FiringsCounted' /\ OneAtATime'
    BY <2>2 DEF RulesInv, LocksHeld, FiringsCounted, OneAtATime, Live
  <2>4. ASSUME NEW r \in Jobs, Live(r)'
        PROVE  JobShape(job'[r]) /\ Holds(r)' /\ HasRead(r)' /\ Makes(r)'
    BY <2>4 DEF RulesInv, Live, Holds, HasRead, Makes
  <2> QED BY <2>1, <2>3, <2>4 DEF RulesInv
<1>3. RulesInv /\ [RuleNext]_ruleVars => RulesInv'
  BY <1>1, <1>2 DEF RuleNext
<1> QED BY <1>3, RulesInitInv, PTL DEF RuleSpec

\* Requests that wait for each other wait for rows; the one that is waited for
\* there has written a rule and waits with another.
LEMMA CyclesTake == RulesInv => DeadlockNeedsEvaluation
<1> USE RulesAssumption
<1> SUFFICES ASSUME RulesInv, NEW S \in SUBSET Jobs, JobCycle(S) PROVE \E r \in S : Takes(r)
  BY DEF DeadlockNeedsEvaluation
<1>1. \A r \in S : JobWaitsFor(r) \in S /\ JobWaitsFor(r) # NoOne
  BY DEF JobCycle
<1>2. PICK r \in S : TRUE
  BY DEF JobCycle
<1> DEFINE h == JobWaitsFor(r)
<1>3. h \in S /\ h \in Jobs /\ h # NoOne /\ JobWaitsFor(h) # NoOne
  BY <1>1, <1>2
<1>4. \/ JobAt(r, JobOps, "audit") /\ h = trailLock
      \/ JobAt(r, JobOps, "flush") /\ job[r].pending # {} /\ h = rowLock[FirstPending(r)]
  BY <1>3 DEF JobWaitsFor, JobAt
<1>5. \/ JobAt(h, JobOps, "audit")
      \/ JobAt(h, JobOps, "flush") /\ job[h].pending # {}
  BY <1>3 DEF JobWaitsFor
<1> HIDE DEF h
<1>6. Live(h) /\ job[h] \in Job /\ JobShape(job[h]) /\ Holds(h)
  BY <1>3, <1>5, LiveTyped DEF JobAt
<1>7. CASE JobAt(r, JobOps, "audit") /\ h = trailLock
  <2>1. job[h].op = "evaluate"
    BY <1>5, <1>6, <1>7 DEF Holds, JobAt
  <2> QED BY <1>3, <1>7, <2>1 DEF Takes
<1>8. CASE JobAt(r, JobOps, "flush") /\ job[r].pending # {} /\ h = rowLock[FirstPending(r)]
  <2> DEFINE x == FirstPending(r)
  <2>1. Live(r) /\ r \in Jobs
    BY <1>2, <1>8, LiveTyped DEF JobAt
  <2>2. x \in Rules
    BY <1>8, <2>1, FirstIsPending, LiveTyped, JobTyped
  <2> HIDE DEF x
  <2>3. rowLock[x] = h
    BY <1>8 DEF x
  <2>4. CASE job[h].op # "evaluate"
    <3>1. job[h].pending = {}
      BY <1>6, <2>2, <2>3, <2>4 DEF Holds
    <3>2. JobAt(h, JobOps, "audit")
      BY <1>5, <3>1
    <3>3. JobWaitsFor(h) = trailLock /\ trailLock \in S
      BY <1>1, <1>3, <3>1, <3>2 DEF JobWaitsFor, JobAt
    <3> DEFINE g == trailLock
    <3>4. g \in S /\ g \in Jobs /\ JobWaitsFor(g) # NoOne
      BY <1>1, <3>3
    <3>5. JobAt(g, JobOps, "audit") \/ JobAt(g, JobOps, "flush")
      BY <3>4 DEF JobWaitsFor
    <3>6. Live(g) /\ Holds(g) /\ job[g].pc # "commit"
      BY <3>4, <3>5, LiveTyped DEF JobAt
    <3> QED BY <3>4, <3>6 DEF Holds, Takes
  <2>5. CASE job[h].op = "evaluate"
    <3>1. x \in job[h].fired \ job[h].pending
      BY <1>6, <2>2, <2>3, <2>5 DEF Holds
    <3>2. CASE JobAt(h, JobOps, "audit")
      <4>1. JobWaitsFor(h) = trailLock /\ trailLock \in S
        BY <1>1, <1>3, <3>2 DEF JobWaitsFor, JobAt
      <4> DEFINE g == trailLock
      <4>2. g \in S /\ g \in Jobs /\ JobWaitsFor(g) # NoOne
        BY <1>1, <4>1
      <4>3. JobAt(g, JobOps, "audit") \/ JobAt(g, JobOps, "flush")
        BY <4>2 DEF JobWaitsFor
      <4>4. Live(g) /\ Holds(g) /\ job[g].pc # "commit"
        BY <4>2, <4>3, LiveTyped DEF JobAt
      <4> QED BY <4>2, <4>4 DEF Holds, Takes
    <3>3. CASE JobAt(h, JobOps, "flush") /\ job[h].pending # {}
      <4>1. PICK y \in job[h].pending : TRUE
        BY <3>3
      <4>2. y # x /\ y \in job[h].fired /\ IsFiniteSet(job[h].fired)
        BY <1>6, <2>5, <3>1, <4>1 DEF JobShape
      <4>3. {x, y} \subseteq job[h].fired
        BY <3>1, <4>2
      <4>4. IsFiniteSet({x}) /\ Cardinality({x}) = 1
        BY FS_Singleton
      <4>5. Cardinality({x} \cup {y}) = 2
        <5>1. y \notin {x}
          BY <4>2
        <5>2. Cardinality({x} \cup {y}) = Cardinality({x}) + 1
          BY <4>4, <5>1, FS_AddElement
        <5> QED BY <4>4, <5>2
      <4>6. Cardinality({x, y}) = 2
        <5>1. {x, y} = {x} \cup {y}
          OBVIOUS
        <5> QED BY <4>5, <5>1
      <4>7. Cardinality({x, y}) <= Cardinality(job[h].fired) /\ Cardinality(job[h].fired) \in Nat
        BY <4>2, <4>3, FS_Subset, FS_CardinalityType
      <4> QED BY <1>3, <2>5, <4>6, <4>7 DEF Takes
    <3> QED BY <1>5, <3>2, <3>3
  <2> QED BY <2>4, <2>5
<1> QED BY <1>4, <1>7, <1>8

\* models/automation.py:33 and workflow_service.py: what a rule reports is never
\* too much, nothing is lost unless two requests overlapped, and requests wait for
\* each other only around an evaluation that took locks at two places.
THEOREM RulesAlwaysInOrder == RuleSpec => [](RuleTypeOK /\ RulesInOrder)
<1>1. RulesInv => RuleTypeOK /\ RulesInOrder
  BY CyclesTake DEF RulesInv, RulesInOrder, SerialCountsAll, OneAtATime
<1> QED BY <1>1, RulesInvariant, PTL

-------------------------------------------------------------------------------
(* The two of them side by side.                                           *)

\* A behaviour of the composition is one of each component.
THEOREM ResponseIsEach == ResponseSpec => Spec /\ RuleSpec
<1>1. ResponseInit => Init /\ RuleInit
  BY DEF ResponseInit
<1>2. [ResponseNext]_<<vars, ruleVars, side>> => [Next]_vars /\ [RuleNext]_ruleVars
  BY DEF ResponseNext
<1> QED BY <1>1, <1>2, PTL DEF ResponseSpec, Spec, RuleSpec

\* Every row, lock and request of the two has its type in every state.
THEOREM ResponseTyped == ResponseSpec => []ResponseTypeOK
<1>1. TypeOK /\ RuleTypeOK => ResponseTypeOK
  BY DEF ResponseTypeOK
<1> QED BY <1>1, ResponseIsEach, TypeCorrect, RulesAlwaysInOrder, PTL
===============================================================================
