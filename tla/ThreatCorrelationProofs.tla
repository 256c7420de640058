------------------------ MODULE ThreatCorrelationProofs ------------------------
(***************************************************************************)
(* Theorems about ThreatCorrelation, for any finite number of requests, any*)
(* threats, scores and number of detections.                               *)
(*                                                                         *)
(* The invariant says what a request carries to its commit, which locks it *)
(* holds by the step it is at, and what of the rows it read is still so as *)
(* long as nobody else was in flight.                                      *)
(***************************************************************************)
EXTENDS ThreatCorrelation, FiniteSetTheorems, TLAPS

Values == Status \cup Int \cup BOOLEAN
Sets == UNION {[C -> Values] : C \in SUBSET Columns}
Request == [op : Ops, threat : Threats \cup {Nobody}, score : {0} \cup Scores,
            sets : Sets, pc : {"select", "flush", "audit", "commit"}]

\* What an UPDATE or INSERT of a threat can carry, by the operation.
Fits(q) ==
    /\ "status" \in DOMAIN q.sets => q.sets["status"] \in Status \ {"none"}
    /\ "score" \in DOMAIN q.sets => q.sets["score"] \in Scores
    /\ "incident" \in DOMAIN q.sets => q.sets["incident"] \in BOOLEAN
    /\ "recent" \in DOMAIN q.sets => q.sets["recent"] \in BOOLEAN
    /\ {"score", "count", "recent"} \cap DOMAIN q.sets # {} => q.op = "ingest"
    /\ q.op = "escalate" /\ "incident" \in DOMAIN q.sets => q.sets["incident"]
    /\ "incident" \in DOMAIN q.sets /\ q.op # "escalate" => q.op = "ingest" /\ "status" \in DOMAIN q.sets
    /\ q.pc = "select" => DOMAIN q.sets = {}

\* What the parts of a request say about each other.
Shape(q) ==
    /\ Fits(q)
    /\ q.op # "ingest" => q.threat \in Threats
    /\ q.op = "ingest" => /\ q.pc = "select" => q.threat = Nobody /\ AutoThreat(q.score)
                          /\ q.pc = "flush" => q.threat \in Threats
    /\ q.threat = Nobody => DOMAIN q.sets = {}

\* A count that is to be written is at most one above the attached detections.
Counted(q) ==
    "count" \in DOMAIN q.sets =>
        /\ q.threat \in Threats
        /\ q.sets["count"] \in Nat /\ q.sets["count"] <= attached[q.threat].n + 1

\* What a request that is alone can rely on.
Fresh(q) ==
    /\ q.op = "ingest" /\ q.threat \in Threats =>
          LET now == threat[q.threat] IN
          /\ "count" \in DOMAIN q.sets /\ q.sets["count"] = now.count + 1
          /\ (IF "score" \in DOMAIN q.sets THEN q.sets["score"] ELSE now.score)
               = Larger(now.score, q.score)
          /\ "status" \in DOMAIN q.sets => Candidates = {}
          /\ "incident" \in DOMAIN q.sets => ~ now.incident /\ ~ q.sets["incident"]
    /\ q.op = "escalate" /\ "incident" \in DOMAIN q.sets => ~ threat[q.threat].incident

Good(q) == Shape(q) /\ Counted(q) /\ (~ overlapped => Fresh(q))

\* The steps at which a request may hold a lock.
MayRecord(q) == q.pc \in (IF RecordsFirst(q.op) THEN {"flush", "commit"} ELSE {"commit"})
MayHoldRow(q) == q.pc \in (IF RecordsFirst(q.op) THEN {"commit"} ELSE {"audit", "commit"})
Locks ==
    /\ lock # Nobody => req[lock] # Idle /\ MayRecord(req[lock])
    /\ \A t \in Threats : rowLock[t] # Nobody =>
          LET q == req[rowLock[t]] IN q # Idle /\ MayHoldRow(q) /\ q.threat = t

\* The detections that came in and are neither attached nor given up.
Ingesting == {r \in Requests : req[r] # Idle /\ req[r].op = "ingest"}
Quota == \A t \in Threats : attached[t].n + Cardinality(Ingesting) <= ingested + 1

Types ==
    /\ threat \in [Threats -> [status : Status, score : {0} \cup Scores, count : Nat,
                               incident : BOOLEAN, recent : BOOLEAN]]
    /\ rowLock \in [Threats -> Requests \cup {Nobody}]
    /\ lock \in Requests \cup {Nobody}
    /\ req \in [Requests -> Request \cup {Idle}]
    /\ ingested \in 0 .. MaxIngests
    /\ attached \in [Threats -> [n : Nat, top : {0} \cup Scores]]
    /\ incidents \in [Threats -> Nat]
    /\ overlapped \in BOOLEAN

Serial ==
    ~ overlapped =>
        /\ \A r, s \in Requests : req[r] # Idle /\ req[s] # Idle => r = s
        /\ ThreatSumsUp
        /\ \A t \in Threats : incidents[t] = IF threat[t].incident THEN 1 ELSE 0

IInv ==
    /\ Types /\ Locks /\ Quota /\ CountNeverOverstates /\ Serial
    /\ \A r \in Requests : req[r] # Idle => Good(req[r])

-------------------------------------------------------------------------------
(* Lemmas on rows, write sets and counting.                                *)

ThreatRow == [status : Status, score : {0} \cup Scores, count : Nat,
              incident : BOOLEAN, recent : BOOLEAN]

\* Scores are numbers, and none is negative.
LEMMA ScoreValues == \A x \in {0} \cup Scores : x \in Int /\ x >= 0
BY ScoresAssumption

\* A request that is at one of its steps has an operation under way.
LEMMA Busy ==
    ASSUME Types, NEW r \in Requests, req[r].pc # "idle"
    PROVE  req[r] # Idle /\ req[r] \in Request
BY DEF Types, Idle

\* What a commit makes of a row, column by column.
LEMMA WrittenRow ==
    ASSUME NEW q \in Request, Fits(q), "count" \in DOMAIN q.sets => q.sets["count"] \in Nat,
           NEW now \in ThreatRow
    PROVE  /\ Written(q, now) \in ThreatRow
           /\ \A c \in Columns :
                Written(q, now)[c] = IF c \in DOMAIN q.sets THEN q.sets[c] ELSE now[c]
<1>1. PICK w : w = Written(q, now)
  OBVIOUS
<1>2. w = [c \in {"status", "score", "count", "incident", "recent"} |->
             IF c \in DOMAIN q.sets THEN q.sets[c] ELSE now[c]]
  BY <1>1 DEF Written, Columns
<1>3. /\ w["status"] \in Status /\ w["score"] \in {0} \cup Scores /\ w["count"] \in Nat
      /\ w["incident"] \in BOOLEAN /\ w["recent"] \in BOOLEAN
  BY <1>2 DEF Fits, ThreatRow
<1>4. w = [status |-> w["status"], score |-> w["score"], count |-> w["count"],
           incident |-> w["incident"], recent |-> w["recent"]]
  BY <1>2
<1>5. w \in ThreatRow
  BY <1>3, <1>4 DEF ThreatRow
<1> QED BY <1>1, <1>5 DEF Written

\* The requests are finitely many, and so are those that bring a detection.
LEMMA IngestingFinite ==
    /\ IsFiniteSet(Ingesting) /\ Cardinality(Ingesting) \in Nat
<1>1. Ingesting \in SUBSET Requests
  BY DEF Ingesting
<1> QED BY <1>1, RequestsAssumption, FS_Subset, FS_CardinalityType

\* The quota of a threat holds when no more detections are on their way.
LEMMA QuotaKept ==
    ASSUME IInv, UNCHANGED <<attached, ingested>>, Ingesting' \subseteq Ingesting
    PROVE  Quota'
<1>1. Cardinality(Ingesting') <= Cardinality(Ingesting)
      /\ Cardinality(Ingesting') \in Nat /\ Cardinality(Ingesting) \in Nat
  BY IngestingFinite, FS_Subset, FS_CardinalityType
<1> QED BY <1>1 DEF IInv, Quota, Types

-------------------------------------------------------------------------------
(* Lemmas on the steps.                                                    *)

\* A request begins, goes on or ends without a commit.
LEMMA QuietStep ==
    ASSUME IInv, NEW r \in Requests, NEW q \in Request \cup {Idle},
           req' = [req EXCEPT ![r] = q],
           UNCHANGED <<threat, attached, incidents>>,
           Types', Locks', Quota',
           overlapped => overlapped',
           q # Idle => Good(q)',
           ~ overlapped' /\ q # Idle => \A s \in Requests : s # r => req[s] = Idle
    PROVE  IInv'
<1>1. req'[r] = q /\ (\A s \in Requests : s # r => req'[s] = req[s])
  BY DEF IInv, Types
<1>2. CountNeverOverstates'
  BY DEF IInv, CountNeverOverstates
<1>3. Serial'
  BY <1>1 DEF IInv, Serial, ThreatSumsUp
<1>6. ASSUME NEW s \in Requests, (req[s] # Idle)' PROVE Good(req[s])'
  <2>1. CASE s = r
    BY <2>1, <1>1, <1>6 DEF Good, Shape, Fits, Counted, Fresh
  <2>2. CASE s # r
    <3>1. Good(req[s]) /\ req'[s] = req[s]
      BY <2>2, <1>1, <1>6 DEF IInv
    <3>2. PICK c : c = req[s]
      OBVIOUS
    <3>3. Shape(c)' /\ Counted(c)' /\ (~ overlapped' => Fresh(c)')
      <4>1. Shape(c)'
        BY <3>1, <3>2 DEF Good, Shape, Fits
      <4>2. Counted(c)'
        BY <3>1, <3>2 DEF Good, Counted
      <4>3. ~ overlapped' => Fresh(c)'
        BY <3>1, <3>2 DEF Good, Fresh, Candidates
      <4> QED BY <4>1, <4>2, <4>3
    <3>4. Good(c)'
      BY <3>3 DEF Good
    <3> QED BY <3>1, <3>2, <3>4 DEF Good, Shape, Fits, Counted, Fresh
  <2> QED BY <2>1, <2>2
<1> QED BY <1>2, <1>3, <1>6 DEF IInv

\* A request that goes on by itself keeps to itself.
LEMMA GoesOn ==
    ASSUME IInv, NEW r \in Requests, req[r] # Idle, NEW q \in Request,
           req' = [req EXCEPT ![r] = q], q.op = req[r].op,
           UNCHANGED <<threat, ingested, attached, incidents, overlapped>>,
           lock' \in Requests \cup {Nobody},
           rowLock' \in [Threats -> Requests \cup {Nobody}],
           Locks', Good(q)
    PROVE  IInv'
<1>1. Good(q)'
  <2>1. Shape(q)'
    BY DEF Good, Shape, Fits
  <2>2. Counted(q)'
    BY DEF Good, Counted
  <2>3. ~ overlapped' => Fresh(q)'
    BY DEF Good, Fresh, Candidates
  <2> QED BY <2>1, <2>2, <2>3 DEF Good
<1>2. ~ overlapped' => \A s \in Requests : s # r => req[s] = Idle
  BY DEF IInv, Serial
<1>3. Types'
  BY DEF IInv, Types
<1>4. Ingesting' \subseteq Ingesting
  <2>1. ASSUME NEW s \in Ingesting' PROVE s \in Ingesting
    BY <2>1 DEF Ingesting, IInv, Types
  <2> QED BY <2>1
<1>5. Quota'
  BY <1>4, QuotaKept
<1> QED BY <1>1, <1>2, <1>3, <1>5, QuietStep

\* A request that has selected only has no lock to take along.
LEMMA SelectedStep ==
    ASSUME IInv, NEW r \in Requests, req[r] # Idle, req[r].pc = "select", NEW q \in Request,
           req' = [req EXCEPT ![r] = q], q.op = req[r].op,
           UNCHANGED <<threat, rowLock, lock, ingested, attached, incidents, overlapped>>,
           Good(q)
    PROVE  IInv'
<1>1. lock # r /\ (\A t \in Threats : rowLock[t] # r)
  BY NobodyAssumption DEF IInv, Locks, MayRecord, MayHoldRow
<1>2. Locks'
  BY <1>1 DEF IInv, Locks, MayRecord, MayHoldRow, Types
<1>3. lock' \in Requests \cup {Nobody} /\ rowLock' \in [Threats -> Requests \cup {Nobody}]
  BY DEF IInv, Types
<1> QED BY <1>2, <1>3, GoesOn

\* Whatever releases the locks of a request leaves those of the others.
LEMMA Released ==
    ASSUME IInv, NEW r \in Requests, Release(r)
    PROVE  /\ Locks' /\ lock' \in Requests \cup {Nobody}
           /\ rowLock' \in [Threats -> Requests \cup {Nobody}]
           /\ req' \in [Requests -> Request \cup {Idle}]
           /\ req'[r] = Idle /\ (\A s \in Requests : s # r => req'[s] = req[s])
<1>1. req'[r] = Idle /\ (\A s \in Requests : s # r => req'[s] = req[s])
      /\ req' \in [Requests -> Request \cup {Idle}]
  BY DEF Release, IInv, Types
<1>2. lock' \in Requests \cup {Nobody} /\ (lock' # Nobody => lock' = lock /\ lock' # r)
  BY DEF Release, IInv, Types
<1>3. /\ rowLock' \in [Threats -> Requests \cup {Nobody}]
      /\ \A t \in Threats : rowLock'[t] # Nobody => rowLock'[t] = rowLock[t] /\ rowLock'[t] # r
  BY DEF Release, IInv, Types
<1>4. lock' # Nobody => req'[lock'] = req[lock]
  BY <1>1, <1>2
<1>5. \A t \in Threats : rowLock'[t] # Nobody => req'[rowLock'[t]] = req[rowLock[t]]
  BY <1>1, <1>3
<1>6. Locks'
  BY <1>2, <1>3, <1>4, <1>5 DEF IInv, Locks, MayRecord, MayHoldRow
<1> QED BY <1>1, <1>2, <1>3, <1>6

\* A request ends without a commit and leaves its locks.
LEMMA AbortStep ==
    ASSUME IInv, NEW r \in Requests, Abort(r)
    PROVE  IInv'
<1>1. /\ Locks' /\ lock' \in Requests \cup {Nobody}
      /\ rowLock' \in [Threats -> Requests \cup {Nobody}]
      /\ req' \in [Requests -> Request \cup {Idle}]
      /\ req'[r] = Idle /\ (\A s \in Requests : s # r => req'[s] = req[s])
  BY Released DEF Abort
<1>2. req' = [req EXCEPT ![r] = Idle]
      /\ UNCHANGED <<threat, ingested, attached, incidents, overlapped>>
  BY DEF Abort, Release
<1>3. Types'
  BY <1>1, <1>2 DEF IInv, Types
<1>4. Ingesting' \subseteq Ingesting
  <2>1. ASSUME NEW s \in Ingesting' PROVE s \in Ingesting
    BY <2>1, <1>1 DEF Ingesting
  <2> QED BY <2>1
<1>5. Quota'
  BY <1>2, <1>4, QuotaKept
<1> QED BY <1>1, <1>2, <1>3, <1>5, QuietStep

\* A request arrives, with a detection or about a threat.
LEMMA ArriveStep ==
    ASSUME IInv, NEW r \in Requests, Arrive(r)
    PROVE  IInv'
<1>1. PICK op \in Ops, t \in Threats \cup {Nobody}, score \in {0} \cup Scores :
        /\ Start(r, op, t, score)
        /\ op = "ingest" => t = Nobody /\ score \in Scores /\ ingested' = ingested + 1
                            /\ ingested < MaxIngests
        /\ op # "ingest" => t \in Threats /\ ingested' = ingested
  <2>1. CASE StartIngest(r)
    BY <2>1 DEF StartIngest, Ops
  <2>2. CASE StartOnThreat(r)
    BY <2>2 DEF StartOnThreat, Ops
  <2> QED BY <2>1, <2>2 DEF Arrive
<1>2. PICK q : q = [op |-> op, threat |-> t, score |-> score, sets |-> NoSets,
                    pc |-> IF op = "ingest" /\ ~ AutoThreat(score) THEN "audit" ELSE "select"]
  OBVIOUS
<1>3. NoSets \in Sets /\ DOMAIN NoSets = {}
  <2>1. NoSets \in [{} -> Values]
    BY DEF NoSets
  <2>2. {} \in SUBSET Columns
    OBVIOUS
  <2> QED BY <2>1, <2>2 DEF Sets
<1>4. q \in Request
  BY <1>2, <1>3 DEF Request
<1>5. /\ req[r] = Idle /\ req' = [req EXCEPT ![r] = q]
      /\ overlapped' = (overlapped \/ \E s \in Requests : req[s] # Idle)
      /\ UNCHANGED <<threat, rowLock, lock, attached, incidents>>
  BY <1>1, <1>2 DEF Start
<1>6. q.op = op /\ q.threat = t /\ q.score = score /\ q.sets = NoSets /\ q # Idle
      /\ q.pc = IF op = "ingest" /\ ~ AutoThreat(score) THEN "audit" ELSE "select"
  BY <1>2 DEF Idle
<1>7. req'[r] = q /\ (\A s \in Requests : s # r => req'[s] = req[s])
  BY <1>5 DEF IInv, Types
<1>8. Types'
  BY <1>1, <1>4, <1>5, ScoresAssumption DEF IInv, Types
<1>9. Locks'
  <2>1. lock # r /\ (\A u \in Threats : rowLock[u] # r)
    BY <1>5, NobodyAssumption DEF IInv, Locks
  <2> QED BY <2>1, <1>5, <1>7 DEF IInv, Locks, MayRecord, MayHoldRow, Types
<1>10. Quota'
  <2>1. CASE op = "ingest"
    <3>1. Ingesting' = Ingesting \cup {r} /\ r \notin Ingesting
      BY <2>1, <1>5, <1>6, <1>7 DEF Ingesting
    <3>2. Cardinality(Ingesting') = Cardinality(Ingesting) + 1 /\ Cardinality(Ingesting) \in Nat
      BY <3>1, IngestingFinite, FS_AddElement
    <3> QED BY <2>1, <3>2, <1>1, <1>5 DEF IInv, Quota, Types
  <2>2. CASE op # "ingest"
    <3>1. ASSUME NEW s \in Ingesting' PROVE s \in Ingesting
      BY <3>1, <2>2, <1>6, <1>7 DEF Ingesting
    <3>2. Ingesting' \subseteq Ingesting
      BY <3>1
    <3> QED BY <2>2, <3>2, <1>1, <1>5, QuotaKept
  <2> QED BY <2>1, <2>2
<1>11. Good(q)'
  <2>1. Fits(q)'
    BY <1>3, <1>6 DEF Fits
  <2>2. Shape(q)'
    BY <2>1, <1>1, <1>3, <1>6 DEF Shape
  <2>3. Counted(q)'
    BY <1>3, <1>6 DEF Counted
  <2>4. Fresh(q)'
    BY <1>1, <1>3, <1>6, NobodyAssumption DEF Fresh
  <2> QED BY <2>2, <2>3, <2>4 DEF Good
<1> QED BY <1>4, <1>5, <1>8, <1>9, <1>10, <1>11, QuietStep

\* A detection joins the threat it was correlated with.
LEMMA JoinStep ==
    ASSUME IInv, NEW r \in Requests, JoinThreat(r)
    PROVE  IInv'
<1> DEFINE o == req[r]
<1>1. o # Idle /\ o \in Request /\ o.pc = "select" /\ o.op = "ingest" /\ Good(o)
  BY Busy DEF IInv, JoinThreat, At
<1>2. PICK t \in Candidates :
        req' = [req EXCEPT ![r].threat = t, ![r].pc = "flush",
                 ![r].sets = [c \in {"count", "recent"} \cup
                            {d \in {"score"} : o.score > threat[t].score} |->
                     CASE c = "count"  -> threat[t].count + 1
                       [] c = "recent" -> TRUE
                       [] c = "score"  -> RaisedScore(threat[t].score, o.score)]]
  BY DEF JoinThreat
<1>3. PICK sets :
        sets = [c \in {"count", "recent"} \cup
                            {d \in {"score"} : o.score > threat[t].score} |->
                     CASE c = "count"  -> threat[t].count + 1
                       [] c = "recent" -> TRUE
                       [] c = "score"  -> RaisedScore(threat[t].score, o.score)]
  OBVIOUS
<1>4. req' = [req EXCEPT ![r].threat = t, ![r].pc = "flush", ![r].sets = sets]
  BY <1>2, <1>3
<1>5. t \in Threats /\ threat[t] \in ThreatRow /\ threat[t].count \in Nat
      /\ threat[t].score \in Int /\ o.score \in Int
  <2>1. t \in Threats /\ threat[t] \in ThreatRow /\ o.score \in {0} \cup Scores
    BY <1>1 DEF Candidates, IInv, Types, ThreatRow, Request
  <2>2. threat[t].score \in {0} \cup Scores /\ threat[t].count \in Nat
    BY <2>1 DEF ThreatRow
  <2> QED BY <2>1, <2>2, ScoreValues
<1>6. /\ "count" \in DOMAIN sets /\ sets["count"] = threat[t].count + 1
      /\ "recent" \in DOMAIN sets /\ sets["recent"] = TRUE
      /\ "score" \in DOMAIN sets <=> o.score > threat[t].score
      /\ "score" \in DOMAIN sets => sets["score"] = o.score
      /\ DOMAIN sets \subseteq {"count", "recent", "score"}
  BY <1>3 DEF RaisedScore
<1>7. o.score > threat[t].score => o.score \in Scores
  <2>1. threat[t].score \in {0} \cup Scores /\ o.score \in {0} \cup Scores
    BY <1>1, <1>5 DEF ThreatRow, Request
  <2>2. threat[t].score >= 0
    BY <2>1, ScoreValues
  <2>3. o.score > threat[t].score => o.score # 0
    BY <2>2, <1>5
  <2> QED BY <2>1, <2>3
<1>8. sets \in Sets
  <2> DEFINE C == DOMAIN sets
  <2>1. C \in SUBSET Columns
    BY <1>6 DEF Columns
  <2>5. sets["count"] \in Int /\ o.score \in Int
    BY <1>5, <1>6
  <2>2. \A c \in C : sets[c] \in Values
    BY <2>5, <1>6 DEF Values
  <2>3. sets = [c \in C |-> sets[c]]
    BY <1>3
  <2>4. sets \in [C -> Values]
    BY <2>2, <2>3
  <2> QED BY <2>1, <2>4 DEF Sets
<1>9. PICK q : q = [o EXCEPT !.threat = t, !.pc = "flush", !.sets = sets]
  OBVIOUS
<1>10. q \in Request
  BY <1>1, <1>5, <1>8, <1>9 DEF Request
<1>11. q.op = "ingest" /\ q.threat = t /\ q.pc = "flush" /\ q.sets = sets /\ q.score = o.score
  BY <1>1, <1>9 DEF Request
<1>12. req' = [req EXCEPT ![r] = q]
       /\ UNCHANGED <<threat, rowLock, lock, ingested, attached, incidents, overlapped>>
  BY <1>1, <1>4, <1>9 DEF JoinThreat, IInv, Types, Request
<1> HIDE DEF o
<1>13. Shape(q)
  <2>1. Fits(q)
    BY <1>6, <1>7, <1>11 DEF Fits
  <2> QED BY <2>1, <1>5, <1>11, NobodyAssumption DEF Shape
<1>14. Counted(q)
  <2>1. threat[t].count <= attached[t].n /\ attached[t].n \in Nat
    BY <1>5 DEF IInv, CountNeverOverstates, Types
  <2> QED BY <2>1, <1>5, <1>6, <1>11 DEF Counted
<1>15. Fresh(q)
  <2>1. (IF "score" \in DOMAIN sets THEN sets["score"] ELSE threat[t].score)
           = Larger(threat[t].score, o.score)
    BY <1>5, <1>6 DEF Larger
  <2>2. "status" \notin DOMAIN sets /\ "incident" \notin DOMAIN sets
    BY <1>6
  <2> QED BY <2>1, <2>2, <1>6, <1>11 DEF Fresh
<1>16. req[r].pc = "select" /\ req[r] # Idle /\ q.op = req[r].op
  BY <1>1, <1>11 DEF o
<1> QED BY <1>10, <1>12, <1>13, <1>14, <1>15, <1>16, SelectedStep DEF Good

\* A detection opens a threat.
LEMMA OpenStep ==
    ASSUME IInv, NEW r \in Requests, OpenThreat(r)
    PROVE  IInv'
<1> DEFINE o == req[r]
<1>1. o # Idle /\ o \in Request /\ o.pc = "select" /\ o.op = "ingest" /\ Good(o)
  BY Busy DEF IInv, OpenThreat, Open, At
<1>2. PICK t \in Unused :
        req' = [req EXCEPT ![r].threat = t, ![r].pc = "audit",
                 ![r].sets = [status |-> "active", score |-> o.score, count |-> 1,
                              incident |-> FALSE, recent |-> TRUE]]
  BY DEF OpenThreat, Open
<1>3. PICK sets : sets = [status |-> "active", score |-> o.score, count |-> 1,
                          incident |-> FALSE, recent |-> TRUE]
  OBVIOUS
<1>4. req' = [req EXCEPT ![r].threat = t, ![r].pc = "audit", ![r].sets = sets]
  BY <1>2, <1>3
<1>5. t \in Threats /\ threat[t] = NoRow /\ Candidates = {}
  BY DEF Unused, OpenThreat
<1>6. DOMAIN sets = Columns
      /\ sets["status"] = "active" /\ sets["score"] = o.score /\ sets["count"] = 1
      /\ sets["incident"] = FALSE /\ sets["recent"] = TRUE
  BY <1>3 DEF Columns
<1>7. o.score \in Scores /\ o.score \in Int /\ o.score >= 65
  <2>1. o.score \in {0} \cup Scores /\ o.score >= 65
    BY <1>1 DEF Request, Good, Shape, AutoThreat
  <2>2. o.score \in Int
    BY <2>1, ScoreValues
  <2>3. \A x \in Int : x >= 65 => x # 0
    OBVIOUS
  <2>4. o.score # 0
    BY <2>1, <2>2, <2>3
  <2> QED BY <2>1, <2>2, <2>4
<1>8. sets \in Sets
  <2>1. \A c \in Columns : sets[c] \in Values
    <3>1. 1 \in Int /\ "active" \in Status /\ TRUE \in BOOLEAN /\ FALSE \in BOOLEAN
      BY DEF Status
    <3>2. /\ sets["status"] \in Values /\ sets["score"] \in Values /\ sets["count"] \in Values
          /\ sets["incident"] \in Values /\ sets["recent"] \in Values
      BY <3>1, <1>6, <1>7 DEF Values
    <3> QED BY <3>2 DEF Columns
  <2>2. sets \in [Columns -> Values]
    <3>1. sets = [c \in Columns |-> sets[c]]
      BY <1>3, <1>6 DEF Columns
    <3> QED BY <2>1, <3>1
  <2>3. Columns \in SUBSET Columns
    OBVIOUS
  <2> QED BY <2>2, <2>3 DEF Sets
<1>9. PICK q : q = [o EXCEPT !.threat = t, !.pc = "audit", !.sets = sets]
  OBVIOUS
<1>10. q \in Request
  BY <1>1, <1>5, <1>8, <1>9 DEF Request
<1>11. q.op = "ingest" /\ q.threat = t /\ q.pc = "audit" /\ q.sets = sets /\ q.score = o.score
  BY <1>1, <1>9 DEF Request
<1>12. req' = [req EXCEPT ![r] = q]
       /\ UNCHANGED <<threat, rowLock, lock, ingested, attached, incidents, overlapped>>
  BY <1>1, <1>4, <1>9 DEF OpenThreat, Open, IInv, Types, Request
<1> HIDE DEF o
<1>13. Shape(q)
  <2>1. Fits(q)
    <3>1. "active" \in Status \ {"none"} /\ TRUE \in BOOLEAN /\ FALSE \in BOOLEAN
      BY DEF Status
    <3>2. "status" \in DOMAIN sets
      BY <1>6 DEF Columns
    <3> QED BY <3>1, <3>2, <1>6, <1>7, <1>11 DEF Fits
  <2> QED BY <2>1, <1>5, <1>11, NobodyAssumption DEF Shape
<1>14. Counted(q)
  <2>1. attached[t].n \in Nat
    BY <1>5 DEF IInv, Types
  <2> QED BY <2>1, <1>5, <1>6, <1>11 DEF Counted
<1>15. Fresh(q)
  <2>1. threat[t].count = 0 /\ threat[t].score = 0 /\ ~ threat[t].incident
    BY <1>5 DEF NoRow
  <2>2. "score" \in DOMAIN sets /\ "count" \in DOMAIN sets
    BY <1>6 DEF Columns
  <2>3. Larger(0, o.score) = o.score
    BY <1>7 DEF Larger
  <2> QED BY <2>1, <2>2, <2>3, <1>5, <1>6, <1>11 DEF Fresh
<1>16. req[r].pc = "select" /\ req[r] # Idle /\ q.op = req[r].op
  BY <1>1, <1>11 DEF o
<1> QED BY <1>10, <1>12, <1>13, <1>14, <1>15, <1>16, SelectedStep DEF Good

\* What set_status and escalate_to_incident are going to write.
LEMMA SelectStep ==
    ASSUME IInv, NEW r \in Requests, SelectForStatus(r) \/ SelectForEscalation(r)
    PROVE  IInv'
<1> DEFINE o == req[r]
           now == threat[o.threat]
<1>1. o # Idle /\ o \in Request /\ o.pc = "select" /\ o.op \in {"set_status", "escalate"}
      /\ Good(o)
  BY Busy DEF IInv, SelectForStatus, SelectForEscalation, At
<1>2. o.threat \in Threats
  BY <1>1 DEF Good, Shape
<1>3. PICK pc \in {"flush", "audit", "commit"}, sets \in Sets :
        /\ req' = [req EXCEPT ![r] = [o EXCEPT !.pc = pc, !.sets = sets]]
        /\ UNCHANGED <<threat, rowLock, lock, ingested, attached, incidents, overlapped>>
        /\ DOMAIN sets \subseteq {"status", "incident"}
        /\ "status" \in DOMAIN sets => sets["status"] \in Status \ {"none"}
        /\ "incident" \in DOMAIN sets => o.op = "escalate" /\ sets["incident"] = TRUE
                                         /\ ~ now.incident
  <2>0. req \in [Requests -> Request \cup {Idle}]
    BY DEF IInv, Types
  <2>1. CASE SelectForStatus(r)
    <3>1. PICK s \in Status \ {"none"}, changed \in BOOLEAN :
            req' = [req EXCEPT ![r].pc = IF changed /\ ~ RecordsFirst("set_status")
                                         THEN "flush" ELSE "audit",
                               ![r].sets = [c \in {d \in {"status"} : changed} |-> s]]
      BY <2>1 DEF SelectForStatus
    <3> PICK sets : sets = [c \in {d \in {"status"} : changed} |-> s]
      OBVIOUS
    <3>2. /\ DOMAIN sets \subseteq {"status"} /\ (\A c \in DOMAIN sets : sets[c] = s)
          /\ sets = [c \in DOMAIN sets |-> sets[c]]
      OBVIOUS
    <3>3. sets \in Sets
      <4> DEFINE C == DOMAIN sets
      <4>1. C \in SUBSET Columns
        BY <3>2 DEF Columns
      <4>2. \A c \in C : sets[c] \in Values
        BY <3>2 DEF Values
      <4>3. sets \in [C -> Values]
        BY <3>2, <4>2
      <4> QED BY <4>1, <4>3 DEF Sets
    <3>4. PICK pc \in {"flush", "audit"} :
            req' = [req EXCEPT ![r] = [o EXCEPT !.pc = pc, !.sets = sets]]
      BY <2>0, <3>1, <1>1 DEF Request
    <3> QED BY <2>1, <3>2, <3>3, <3>4 DEF SelectForStatus
  <2>2. CASE SelectForEscalation(r)
    <3>1. PICK sets :
            /\ req' = [req EXCEPT ![r].pc = IF now.incident THEN "commit" ELSE "audit",
                                  ![r].sets = sets]
            /\ sets = [c \in {d \in {"incident", "status"} : ~ now.incident /\
                                  (d = "status" => now.status # "escalated")} |->
                        IF c = "incident" THEN TRUE ELSE "escalated"]
      BY <2>2 DEF SelectForEscalation
    <3>2. /\ DOMAIN sets \subseteq {"status", "incident"}
          /\ "incident" \in DOMAIN sets => sets["incident"] = TRUE /\ ~ now.incident
          /\ "status" \in DOMAIN sets => sets["status"] = "escalated"
          /\ sets = [c \in DOMAIN sets |-> sets[c]]
      BY <3>1
    <3>3. sets \in Sets
      <4> DEFINE C == DOMAIN sets
      <4>1. C \in SUBSET Columns
        BY <3>2 DEF Columns
      <4>2. \A c \in C : sets[c] \in Values
        BY <3>2 DEF Values, Status
      <4>3. sets \in [C -> Values]
        BY <3>2, <4>2
      <4> QED BY <4>1, <4>3 DEF Sets
    <3>4. PICK pc \in {"commit", "audit"} :
            req' = [req EXCEPT ![r] = [o EXCEPT !.pc = pc, !.sets = sets]]
      BY <2>0, <3>1, <1>1 DEF Request
    <3>5. o.op = "escalate"
      BY <2>2 DEF SelectForEscalation, At
    <3>6. "escalated" \in Status \ {"none"}
      BY DEF Status
    <3> QED BY <2>2, <3>2, <3>3, <3>4, <3>5, <3>6 DEF SelectForEscalation
  <2> QED BY <2>1, <2>2
<1>7. PICK q : q = [o EXCEPT !.pc = pc, !.sets = sets]
  OBVIOUS
<1>8. q \in Request
  BY <1>1, <1>3, <1>7 DEF Request
<1>9. q.op = o.op /\ q.threat = o.threat /\ q.pc = pc /\ q.sets = sets
  BY <1>1, <1>7 DEF Request
<1>10. req' = [req EXCEPT ![r] = q]
  BY <1>3, <1>7
<1> HIDE DEF o, now
<1>11. Shape(q)
  <2>1. Fits(q)
    BY <1>1, <1>3, <1>9 DEF Fits
  <2> QED BY <2>1, <1>1, <1>2, <1>9, NobodyAssumption DEF Shape
<1>12. Counted(q)
  BY <1>3, <1>9 DEF Counted
<1>13. Fresh(q)
  BY <1>1, <1>3, <1>9 DEF Fresh, now
<1>14. req[r].pc = "select" /\ req[r] # Idle /\ q.op = req[r].op
  BY <1>1, <1>9 DEF o
<1> QED BY <1>3, <1>8, <1>10, <1>11, <1>12, <1>13, <1>14, SelectedStep DEF Good

\* A request takes a lock and goes on to its next step.
LEMMA LockStep ==
    ASSUME IInv, NEW r \in Requests, Flush(r) \/ Record(r)
    PROVE  IInv'
<1> DEFINE o == req[r]
<1>1. o # Idle /\ o \in Request /\ o.pc \in {"flush", "audit"} /\ Good(o) /\ o.op \in Ops
  BY Busy DEF IInv, Flush, Record, At, Request
<1>2. PICK pc \in {"flush", "audit", "commit"} :
        req' = [req EXCEPT ![r] = [o EXCEPT !.pc = pc]]
        /\ UNCHANGED <<threat, ingested, attached, incidents, overlapped>>
        /\ (Flush(r) => pc = IF RecordsFirst(o.op) THEN "commit" ELSE "audit")
        /\ (Record(r) => pc = IF RecordsFirst(o.op) THEN "flush" ELSE "commit")
        /\ (Flush(r) => o.pc = "flush" /\ lock' = lock)
        /\ (Record(r) => o.pc = "audit" /\ rowLock' = rowLock)
  <2>1. CASE Flush(r)
    <3>1. ~ Record(r)
      BY <2>1 DEF Flush, Record, At
    <3> QED BY <2>1, <3>1 DEF Flush, At
  <2>2. CASE Record(r)
    <3>1. ~ Flush(r)
      BY <2>2 DEF Flush, Record, At
    <3> QED BY <2>2, <3>1 DEF Record, At
  <2> QED BY <2>1, <2>2
<1>7. PICK q : q = [o EXCEPT !.pc = pc]
  OBVIOUS
<1>8. q \in Request
  BY <1>1, <1>2, <1>7 DEF Request
<1>9. q.op = o.op /\ q.threat = o.threat /\ q.pc = pc /\ q.sets = o.sets /\ q.score = o.score
      /\ q # Idle
  BY <1>1, <1>2, <1>7 DEF Request, Idle
<1>10. req' = [req EXCEPT ![r] = q]
  BY <1>2, <1>7
<1>11. Good(q)
  <2>1. Fits(q)
    BY <1>1, <1>2, <1>9 DEF Fits, Good, Shape
  <2>2. q.op = "ingest" /\ q.pc = "flush" => FALSE
    <3>1. o.op = "ingest" => ~ RecordsFirst(o.op)
      BY DEF RecordsFirst
    <3> QED BY <3>1, <1>2, <1>9, <1>1
  <2>3. Shape(q)
    BY <2>1, <2>2, <1>1, <1>2, <1>9 DEF Good, Shape
  <2>4. Counted(q)
    BY <1>1, <1>9 DEF Good, Counted
  <2>5. ~ overlapped => Fresh(q)
    BY <1>1, <1>9 DEF Good, Fresh
  <2> QED BY <2>3, <2>4, <2>5 DEF Good
<1>12. req'[r] = q /\ (\A s \in Requests : s # r => req'[s] = req[s])
  BY <1>10 DEF IInv, Types
<1>13. CASE Flush(r)
  <2>1. o.threat \in Threats
    BY <1>1, <1>2, <1>13 DEF Good, Shape
  <2>2. rowLock' = [rowLock EXCEPT ![o.threat] = r] /\ lock' = lock
    BY <1>13 DEF Flush
  <2>3. MayHoldRow(q) /\ (MayRecord(o) => MayRecord(q))
    BY <1>2, <1>9, <1>13 DEF MayHoldRow, MayRecord
  <2>4. ~ MayHoldRow(o)
    BY <1>2, <1>13 DEF MayHoldRow
  <2>5. \A t \in Threats : rowLock[t] # r
    BY <2>4, NobodyAssumption DEF IInv, Locks
  <2>6. rowLock' \in [Threats -> Requests \cup {Nobody}] /\ lock' \in Requests \cup {Nobody}
    BY <2>2 DEF IInv, Types
  <2>7. lock' # Nobody => req'[lock'] # Idle /\ MayRecord(req'[lock'])
    <3>1. CASE lock = r
      BY <3>1, <2>2, <2>3, <1>9, <1>12 DEF IInv, Locks
    <3>2. CASE lock # r
      BY <3>2, <2>2, <1>12 DEF IInv, Locks, Types
    <3> QED BY <3>1, <3>2
  <2>8. ASSUME NEW t \in Threats, rowLock'[t] # Nobody
        PROVE  req'[rowLock'[t]] # Idle /\ MayHoldRow(req'[rowLock'[t]])
               /\ req'[rowLock'[t]].threat = t
    <3>1. CASE t = o.threat
      BY <3>1, <2>1, <2>2, <2>3, <1>9, <1>12 DEF IInv, Types
    <3>2. CASE t # o.threat
      <4>1. rowLock'[t] = rowLock[t] /\ rowLock[t] \in Requests /\ rowLock[t] # r
        BY <3>2, <2>2, <2>5, <2>8 DEF IInv, Types
      <4> QED BY <4>1, <2>8, <1>12 DEF IInv, Locks
    <3> QED BY <3>1, <3>2
  <2>9. Locks'
    BY <2>7, <2>8 DEF Locks, MayRecord, MayHoldRow
  <2> QED BY <2>6, <2>9, <1>1, <1>2, <1>8, <1>9, <1>10, <1>11, GoesOn
<1>14. CASE Record(r)
  <2>2. lock' = r /\ rowLock' = rowLock
    BY <1>14 DEF Record
  <2>3. MayRecord(q) /\ (MayHoldRow(o) => MayHoldRow(q))
    BY <1>2, <1>9, <1>14 DEF MayHoldRow, MayRecord
  <2>6. rowLock' \in [Threats -> Requests \cup {Nobody}] /\ lock' \in Requests \cup {Nobody}
    BY <2>2 DEF IInv, Types
  <2>8. ASSUME NEW t \in Threats, rowLock'[t] # Nobody
        PROVE  req'[rowLock'[t]] # Idle /\ MayHoldRow(req'[rowLock'[t]])
               /\ req'[rowLock'[t]].threat = t
    <3>1. rowLock'[t] = rowLock[t] /\ rowLock[t] \in Requests
      BY <2>2, <2>8 DEF IInv, Types
    <3>2. req[rowLock[t]] # Idle /\ MayHoldRow(req[rowLock[t]]) /\ req[rowLock[t]].threat = t
      BY <2>8, <3>1 DEF IInv, Locks
    <3>3. CASE rowLock[t] = r
      BY <3>1, <3>2, <3>3, <2>3, <1>9, <1>12
    <3>4. CASE rowLock[t] # r
      BY <3>1, <3>2, <3>4, <1>12
    <3> QED BY <3>3, <3>4
  <2>9. Locks'
    BY <2>2, <2>3, <2>8, <1>9, <1>12 DEF Locks, MayRecord, MayHoldRow
  <2> QED BY <2>6, <2>9, <1>1, <1>2, <1>8, <1>9, <1>10, <1>11, GoesOn
<1> QED BY <1>13, <1>14

\* A commit writes the row, attaches the detection and counts the incident.
LEMMA CommitStep ==
    ASSUME IInv, NEW r \in Requests, Commit(r)
    PROVE  IInv'
<1> DEFINE q == req[r]
           t == q.threat
<1>1. q # Idle /\ q \in Request /\ Good(q)
  BY Busy DEF IInv, Commit, At
<1>2. /\ Locks' /\ lock' \in Requests \cup {Nobody}
      /\ rowLock' \in [Threats -> Requests \cup {Nobody}]
      /\ req' \in [Requests -> Request \cup {Idle}]
      /\ req'[r] = Idle /\ (\A s \in Requests : s # r => req'[s] = req[s])
      /\ UNCHANGED <<ingested, overlapped>>
  <2>1. Release(r)
    BY DEF Commit
  <2> QED BY <2>1, Released DEF Release
<1>3. t \in Threats \cup {Nobody} /\ (q.op # "ingest" => t \in Threats)
      /\ (t = Nobody => t \notin Threats)
  BY <1>1, NobodyAssumption DEF Request, Good, Shape
<1>4. ASSUME t \in Threats
      PROVE  /\ Written(q, threat[t]) \in ThreatRow
             /\ \A c \in Columns : Written(q, threat[t])[c] =
                                     IF c \in DOMAIN q.sets THEN q.sets[c] ELSE threat[t][c]
  <2>1. threat[t] \in ThreatRow
    BY <1>4 DEF IInv, Types, ThreatRow
  <2>2. Fits(q) /\ ("count" \in DOMAIN q.sets => q.sets["count"] \in Nat)
    BY <1>1 DEF Good, Shape, Counted
  <2>3. PICK row : row = threat[t]
    OBVIOUS
  <2> HIDE DEF q, t
  <2>4. q \in Request
    BY <1>1
  <2> QED BY <2>1, <2>2, <2>3, <2>4, WrittenRow
<1>5. /\ threat' = IF t = Nobody THEN threat ELSE [threat EXCEPT ![t] = Written(q, threat[t])]
      /\ attached' = IF q.op # "ingest" \/ t = Nobody THEN attached
                     ELSE [attached EXCEPT ![t].n = @ + 1, ![t].top = Larger(@, q.score)]
      /\ incidents' = IF q.op = "escalate" /\ "incident" \in DOMAIN q.sets
                      THEN [incidents EXCEPT ![t] = @ + 1] ELSE incidents
  BY DEF Commit
<1> DEFINE row == Written(q, threat[t])
<1>6. \A u \in Threats : threat'[u] = IF u = t THEN row ELSE threat[u]
  BY <1>3, <1>5 DEF IInv, Types
<1>7. \A u \in Threats :
        /\ attached'[u].n = IF u = t /\ q.op = "ingest" THEN attached[u].n + 1 ELSE attached[u].n
        /\ attached'[u].top = IF u = t /\ q.op = "ingest" THEN Larger(attached[u].top, q.score)
                              ELSE attached[u].top
  BY <1>3, <1>5 DEF IInv, Types
<1>8. \A u \in Threats :
        incidents'[u] = IF u = t /\ q.op = "escalate" /\ "incident" \in DOMAIN q.sets
                        THEN incidents[u] + 1 ELSE incidents[u]
  BY <1>3, <1>5 DEF IInv, Types
<1>9. t \in Threats =>
        /\ row \in ThreatRow
        /\ row.count = IF "count" \in DOMAIN q.sets THEN q.sets["count"] ELSE threat[t].count
        /\ row.score = IF "score" \in DOMAIN q.sets THEN q.sets["score"] ELSE threat[t].score
        /\ row.incident = IF "incident" \in DOMAIN q.sets THEN q.sets["incident"]
                          ELSE threat[t].incident
  BY <1>4 DEF Columns
<1> HIDE DEF row
<1>10. q.score \in {0} \cup Scores
  BY <1>1 DEF Request
<1>11. Types'
  <2>1. threat' \in [Threats -> ThreatRow]
    <3>1. threat \in [Threats -> ThreatRow]
      BY DEF IInv, Types, ThreatRow
    <3> QED BY <3>1, <1>3, <1>5, <1>9 DEF row
  <2>2. attached' \in [Threats -> [n : Nat, top : {0} \cup Scores]]
    <3>1. \A x \in {0} \cup Scores : Larger(x, q.score) \in {0} \cup Scores
      BY <1>10 DEF Larger
    <3>2. \A n \in Nat : n + 1 \in Nat
      OBVIOUS
    <3> QED BY <3>1, <3>2, <1>3, <1>5 DEF IInv, Types
  <2>3. incidents' \in [Threats -> Nat]
    BY <1>3, <1>5 DEF IInv, Types
  <2> QED BY <2>1, <2>2, <2>3, <1>2 DEF IInv, Types, ThreatRow
<1>12. Quota'
  <2>1. CASE q.op = "ingest"
    <3>1. r \in Ingesting /\ Ingesting' = Ingesting \ {r}
      BY <2>1, <1>1, <1>2 DEF Ingesting
    <3>2. Cardinality(Ingesting') = Cardinality(Ingesting) - 1 /\ Cardinality(Ingesting) \in Nat
      BY <3>1, IngestingFinite, FS_RemoveElement
    <3>3. \A u \in Threats : attached[u].n \in Nat /\ attached'[u].n <= attached[u].n + 1
                             /\ attached'[u].n \in Nat
      BY <1>7 DEF IInv, Types
    <3> QED BY <3>2, <3>3, <1>2 DEF IInv, Quota, Types
  <2>2. CASE q.op # "ingest"
    <3>1. ASSUME NEW s \in Ingesting' PROVE s \in Ingesting
      BY <3>1, <1>2 DEF Ingesting
    <3>2. Ingesting' \subseteq Ingesting
      BY <3>1
    <3> QED BY <2>2, <3>2, <1>2, <1>5, QuotaKept
  <2> QED BY <2>1, <2>2
<1>13. Fits(q) /\ Counted(q) /\ (~ overlapped => Fresh(q))
  BY <1>1 DEF Good, Shape
<1>14. CountNeverOverstates'
  <2>1. ASSUME NEW u \in Threats PROVE threat'[u].count <= attached'[u].n
    <3>1. threat[u].count <= attached[u].n /\ attached[u].n \in Nat /\ threat[u].count \in Nat
      BY DEF IInv, CountNeverOverstates, Types
    <3>2. CASE u = t /\ "count" \in DOMAIN q.sets
      <4>1. q.op = "ingest"
        BY <3>2, <1>13 DEF Fits
      <4>2. q.sets["count"] <= attached[u].n + 1
        BY <3>2, <1>13 DEF Counted
      <4> QED BY <4>1, <4>2, <3>2, <1>6, <1>7, <1>9
    <3>3. CASE u = t /\ "count" \notin DOMAIN q.sets
      BY <3>1, <3>3, <1>6, <1>7, <1>9
    <3>4. CASE u # t
      BY <3>1, <3>4, <1>6, <1>7
    <3> QED BY <3>2, <3>3, <3>4
  <2> QED BY <2>1 DEF CountNeverOverstates
<1>15. Serial'
  <2> SUFFICES ASSUME ~ overlapped'
               PROVE  /\ (\A a, s \in Requests : req[a] # Idle /\ req[s] # Idle => a = s)'
                      /\ ThreatSumsUp'
                      /\ (\A u \in Threats : incidents[u] = IF threat[u].incident THEN 1 ELSE 0)'
    BY DEF Serial
  <2>1. /\ \A a, s \in Requests : req[a] # Idle /\ req[s] # Idle => a = s
        /\ ThreatSumsUp /\ Fresh(q)
        /\ \A u \in Threats : incidents[u] = IF threat[u].incident THEN 1 ELSE 0
    BY <1>2, <1>13 DEF IInv, Serial
  <2>2. (\A a, s \in Requests : req[a] # Idle /\ req[s] # Idle => a = s)'
    BY <2>1, <1>1, <1>2
  <2>3. ASSUME NEW u \in Threats
        PROVE  threat'[u].count = attached'[u].n /\ threat'[u].score = attached'[u].top
    <3>1. threat[u].count = attached[u].n /\ threat[u].score = attached[u].top
      BY <2>1 DEF ThreatSumsUp
    <3>2. CASE u = t /\ q.op = "ingest"
      <4>1. "count" \in DOMAIN q.sets /\ q.sets["count"] = threat[u].count + 1
            /\ (IF "score" \in DOMAIN q.sets THEN q.sets["score"] ELSE threat[u].score)
                 = Larger(threat[u].score, q.score)
        BY <2>1, <3>2 DEF Fresh
      <4> QED BY <4>1, <3>1, <3>2, <1>6, <1>7, <1>9
    <3>3. CASE u = t /\ q.op # "ingest"
      <4>1. "count" \notin DOMAIN q.sets /\ "score" \notin DOMAIN q.sets
        BY <3>3, <1>13 DEF Fits
      <4> QED BY <4>1, <3>1, <3>3, <1>6, <1>7, <1>9
    <3>4. CASE u # t
      BY <3>1, <3>4, <1>6, <1>7
    <3> QED BY <3>2, <3>3, <3>4
  <2>4. ASSUME NEW u \in Threats
        PROVE  incidents'[u] = IF threat'[u].incident THEN 1 ELSE 0
    <3>1. incidents[u] = IF threat[u].incident THEN 1 ELSE 0
      BY <2>1
    <3>2. CASE u = t /\ "incident" \in DOMAIN q.sets
      <4>1. threat'[u].incident = q.sets["incident"]
        BY <3>2, <1>6, <1>9
      <4>2. CASE q.op = "escalate"
        <5>1. q.sets["incident"] /\ ~ threat[u].incident
          BY <4>2, <3>2, <2>1, <1>13 DEF Fits, Fresh
        <5> QED BY <5>1, <4>1, <4>2, <3>1, <3>2, <1>8
      <4>3. CASE q.op # "escalate"
        <5>1. q.op = "ingest"
          BY <4>3, <3>2, <1>13 DEF Fits
        <5>2. ~ q.sets["incident"] /\ ~ threat[u].incident
          BY <5>1, <3>2, <2>1 DEF Fresh
        <5> QED BY <5>2, <4>1, <4>3, <3>1, <3>2, <1>8
      <4> QED BY <4>2, <4>3
    <3>3. CASE u = t /\ "incident" \notin DOMAIN q.sets
      BY <3>1, <3>3, <1>6, <1>8, <1>9
    <3>4. CASE u # t
      BY <3>1, <3>4, <1>6, <1>8
    <3> QED BY <3>2, <3>3, <3>4
  <2>5. ThreatSumsUp'
    BY <2>3 DEF ThreatSumsUp
  <2>6. (\A u \in Threats : incidents[u] = IF threat[u].incident THEN 1 ELSE 0)'
    BY <2>4
  <2> QED BY <2>2, <2>5, <2>6
<1>16. ASSUME NEW s \in Requests, (req[s] # Idle)' PROVE Good(req[s])'
  <2>1. s # r /\ req'[s] = req[s] /\ req[s] # Idle
    BY <1>2, <1>16
  <2>2. PICK c : c = req[s]
    OBVIOUS
  <2>3. Good(c)
    BY <2>1, <2>2 DEF IInv
  <2>4. Shape(c)'
    BY <2>3 DEF Good, Shape, Fits
  <2>5. Counted(c)'
    <3>1. \A u \in Threats : attached[u].n \in Nat /\ attached'[u].n >= attached[u].n
                             /\ attached'[u].n \in Nat
      BY <1>7 DEF IInv, Types
    <3>2. Counted(c)
      BY <2>3 DEF Good
    <3> QED BY <3>1, <3>2 DEF Counted
  <2>6. overlapped'
    BY <2>1, <1>1, <1>2 DEF IInv, Serial
  <2>7. Good(c)'
    BY <2>4, <2>5, <2>6 DEF Good
  <2> QED BY <2>1, <2>2, <2>7 DEF Good, Shape, Fits, Counted, Fresh
<1> QED BY <1>2, <1>11, <1>12, <1>14, <1>15, <1>16 DEF IInv

\* A threat that gets too old is no candidate any more.
LEMMA AgeStep ==
    ASSUME IInv, NEW t \in Threats, Age(t)
    PROVE  IInv'
<1>1. /\ threat' = [threat EXCEPT ![t].recent = FALSE]
      /\ UNCHANGED <<rowLock, lock, req, ingested, attached, incidents, overlapped>>
  BY DEF Age
<1>2. \A u \in Threats :
        /\ threat'[u].count = threat[u].count /\ threat'[u].score = threat[u].score
        /\ threat'[u].incident = threat[u].incident /\ threat'[u].status = threat[u].status
        /\ threat'[u].recent => threat[u].recent
  BY <1>1 DEF IInv, Types
<1>3. Types'
  <2>1. threat' \in [Threats -> ThreatRow]
    BY <1>1 DEF IInv, Types, ThreatRow
  <2> QED BY <2>1, <1>1 DEF IInv, Types, ThreatRow
<1>4. Locks'
  BY <1>1 DEF IInv, Locks, MayRecord, MayHoldRow
<1>5. Quota'
  BY <1>1, QuotaKept DEF Ingesting
<1>6. CountNeverOverstates'
  BY <1>1, <1>2 DEF IInv, CountNeverOverstates
<1>7. Serial'
  BY <1>1, <1>2 DEF IInv, Serial, ThreatSumsUp
<1>8. ASSUME NEW s \in Requests, (req[s] # Idle)' PROVE Good(req[s])'
  <2>1. req'[s] = req[s] /\ req[s] # Idle
    BY <1>1, <1>8
  <2>2. PICK c : c = req[s]
    OBVIOUS
  <2>3. Good(c)
    BY <2>1, <2>2 DEF IInv
  <2>4. Shape(c)'
    BY <2>3 DEF Good, Shape, Fits
  <2>5. Counted(c)'
    BY <2>3, <1>1 DEF Good, Counted
  <2>6. ~ overlapped' => Fresh(c)'
    <3>1. Candidates = {} => Candidates' = {}
      BY <1>2 DEF Candidates
    <3>2. ~ overlapped => Fresh(c)
      BY <2>3 DEF Good
    <3>3. c.op = "escalate" => c.threat \in Threats
      BY <2>3 DEF Good, Shape
    <3> QED BY <3>1, <3>2, <3>3, <1>1, <1>2 DEF Fresh
  <2>7. Good(c)'
    BY <2>4, <2>5, <2>6 DEF Good
  <2> QED BY <2>1, <2>2, <2>7 DEF Good, Shape, Fits, Counted, Fresh
<1> QED BY <1>3, <1>4, <1>5, <1>6, <1>7, <1>8 DEF IInv

-------------------------------------------------------------------------------
(* The invariant.                                                          *)

\* It holds at the start, with and without an earlier threat.
LEMMA InvInit == Init => IInv
<1> SUFFICES ASSUME Init PROVE IInv
  OBVIOUS
<1>1. /\ rowLock = [t \in Threats |-> Nobody] /\ lock = Nobody
      /\ req = [r \in Requests |-> Idle] /\ ingested = 0
      /\ incidents = [t \in Threats |-> 0] /\ overlapped = FALSE
  BY DEF Init
<1>2. /\ threat \in [Threats -> ThreatRow]
      /\ attached \in [Threats -> [n : Nat, top : {0} \cup Scores]]
      /\ \A t \in Threats : /\ threat[t].count = attached[t].n /\ attached[t].n <= 1
                            /\ threat[t].score = attached[t].top /\ ~ threat[t].incident
  <2>1. NoRow \in ThreatRow /\ NoRow.count = 0 /\ NoRow.score = 0 /\ ~ NoRow.incident
    BY DEF NoRow, ThreatRow, Status
  <2>2. CASE threat = [t \in Threats |-> NoRow]
             /\ attached = [t \in Threats |-> [n |-> 0, top |-> 0]]
    BY <2>1, <2>2
  <2>3. CASE ~ (threat = [t \in Threats |-> NoRow]
                /\ attached = [t \in Threats |-> [n |-> 0, top |-> 0]])
    <3>1. PICK old \in Threats, score \in Scores :
            /\ threat = [t \in Threats |->
                 IF t = old THEN [status |-> "active", score |-> score, count |-> 1,
                                  incident |-> FALSE, recent |-> TRUE] ELSE NoRow]
            /\ attached = [t \in Threats |-> IF t = old THEN [n |-> 1, top |-> score]
                                                       ELSE [n |-> 0, top |-> 0]]
      BY <2>3 DEF Init
    <3>2. PICK opened : opened = [status |-> "active", score |-> score, count |-> 1,
                                  incident |-> FALSE, recent |-> TRUE]
      OBVIOUS
    <3>3. opened \in ThreatRow /\ opened.count = 1 /\ opened.score = score /\ ~ opened.incident
      BY <3>2 DEF ThreatRow, Status
    <3>4. threat = [t \in Threats |-> IF t = old THEN opened ELSE NoRow]
      BY <3>1, <3>2
    <3>5. threat \in [Threats -> ThreatRow]
      BY <2>1, <3>3, <3>4
    <3>6. attached \in [Threats -> [n : Nat, top : {0} \cup Scores]]
      BY <3>1
    <3>7. ASSUME NEW t \in Threats
          PROVE  /\ threat[t].count = attached[t].n /\ attached[t].n <= 1
                 /\ threat[t].score = attached[t].top /\ ~ threat[t].incident
      <4>1. CASE t = old
        <5>1. threat[t] = opened /\ attached[t] = [n |-> 1, top |-> score]
          BY <4>1, <3>1, <3>4
        <5> QED BY <5>1, <3>3
      <4>2. CASE t # old
        <5>1. threat[t] = NoRow /\ attached[t] = [n |-> 0, top |-> 0]
          BY <4>2, <3>1, <3>4
        <5> QED BY <5>1, <2>1
      <4> QED BY <4>1, <4>2
    <3> QED BY <3>5, <3>6, <3>7
  <2> QED BY <2>2, <2>3
<1>3. Types
  <2>1. 0 \in Nat /\ 0 \in 0 .. MaxIngests
    BY ScoresAssumption
  <2>2. incidents \in [Threats -> Nat]
    BY <1>1, <2>1
  <2>3. req \in [Requests -> Request \cup {Idle}]
    BY <1>1
  <2> QED BY <1>1, <1>2, <2>1, <2>2, <2>3 DEF Types, ThreatRow
<1>4. Locks
  BY <1>1 DEF Locks
<1>5. Quota
  <2>1. Ingesting = {}
    BY <1>1 DEF Ingesting
  <2>2. Cardinality(Ingesting) = 0
    BY <2>1, FS_EmptySet
  <2> QED BY <2>2, <1>1, <1>2 DEF Quota
<1>6. CountNeverOverstates
  BY <1>2 DEF CountNeverOverstates
<1>7. Serial
  BY <1>1, <1>2 DEF Serial, ThreatSumsUp
<1>8. \A r \in Requests : req[r] = Idle
  BY <1>1
<1> QED BY <1>3, <1>4, <1>5, <1>6, <1>7, <1>8 DEF IInv

\* Every action keeps it.
LEMMA InvNext == IInv /\ [Next]_vars => IInv'
<1> SUFFICES ASSUME IInv, [Next]_vars PROVE IInv'
  OBVIOUS
<1>1. ASSUME NEW r \in Requests, Arrive(r) PROVE IInv'
  BY <1>1, ArriveStep
<1>2. ASSUME NEW r \in Requests, Proceed(r) PROVE IInv'
  <2>1. CASE JoinThreat(r)
    BY <2>1, JoinStep
  <2>2. CASE OpenThreat(r)
    BY <2>2, OpenStep
  <2>3. CASE SelectForStatus(r) \/ SelectForEscalation(r)
    BY <2>3, SelectStep
  <2>4. CASE Flush(r) \/ Record(r)
    BY <2>4, LockStep
  <2>5. CASE Commit(r)
    BY <2>5, CommitStep
  <2>6. CASE Victim(r) \/ NoIdLeft(r)
    BY <2>6, AbortStep DEF Victim, NoIdLeft
  <2> QED BY <2>1, <2>2, <2>3, <2>4, <2>5, <2>6, <1>2 DEF Proceed
<1>3. ASSUME NEW r \in Requests, Abort(r) PROVE IInv'
  BY <1>3, AbortStep
<1>4. ASSUME NEW t \in Threats, Age(t) PROVE IInv'
  BY <1>4, AgeStep
<1>5. CASE UNCHANGED vars
  BY <1>5 DEF vars, IInv, Types, Locks, MayRecord, MayHoldRow, Quota, Ingesting,
     CountNeverOverstates, Serial, ThreatSumsUp, Good, Shape, Fits, Counted, Fresh, Candidates
<1> QED BY <1>1, <1>2, <1>3, <1>4, <1>5 DEF Next

\* So it holds in every reachable state.
LEMMA Invariant == Spec => []IInv
BY InvInit, InvNext, PTL DEF Spec

-------------------------------------------------------------------------------
(* The theorems.                                                           *)

\* What IInv says of one request bounds the count that it carries.
LEMMA TypesBounded ==
    ASSUME IInv
    PROVE  TypeOK
<1>1. \A t \in Threats : attached[t].n \in Nat /\ attached[t].n <= ingested + 1
  BY IngestingFinite DEF IInv, Quota, Types
<1>2. ingested \in Nat /\ ingested <= MaxIngests /\ MaxIngests \in Nat
  BY ScoresAssumption DEF IInv, Types
<1>3. ASSUME NEW t \in Threats
      PROVE  threat[t] \in Row /\ attached[t] \in [n : 0 .. MaxIngests + 1, top : {0} \cup Scores]
  <2>1. threat[t] \in ThreatRow /\ attached[t] \in [n : Nat, top : {0} \cup Scores]
    BY DEF IInv, Types, ThreatRow
  <2>2. threat[t].count <= attached[t].n /\ attached[t].n <= MaxIngests + 1
        /\ threat[t].count \in Nat /\ attached[t].n \in Nat
    BY <2>1, <1>1, <1>2 DEF IInv, CountNeverOverstates, ThreatRow
  <2>3. threat[t].count \in 0 .. MaxIngests + 1 /\ attached[t].n \in 0 .. MaxIngests + 1
    BY <2>2, <1>2
  <2> QED BY <2>1, <2>3 DEF Row, ThreatRow
<1>4. ASSUME NEW r \in Requests, req[r] # Idle PROVE RequestOK(req[r])
  <2> DEFINE q == req[r]
  <2>1. q \in Request /\ Fits(q) /\ Counted(q)
    BY <1>4 DEF IInv, Types, Good, Shape
  <2>2. "count" \in DOMAIN q.sets => q.sets["count"] \in 0 .. MaxIngests + 1
    <3> SUFFICES ASSUME "count" \in DOMAIN q.sets PROVE q.sets["count"] \in 0 .. MaxIngests + 1
      OBVIOUS
    <3>1. q.op = "ingest" /\ q.threat \in Threats /\ q.sets["count"] \in Nat
          /\ q.sets["count"] <= attached[q.threat].n + 1
      BY <2>1 DEF Fits, Counted
    <3>2. r \in Ingesting
      BY <3>1, <1>4 DEF Ingesting
    <3>3. Cardinality(Ingesting) \in Nat /\ Cardinality(Ingesting) # 0
      BY <3>2, IngestingFinite, FS_EmptySet
    <3>4. attached[q.threat].n + Cardinality(Ingesting) <= ingested + 1
          /\ attached[q.threat].n \in Nat
      BY <3>1, <1>1 DEF IInv, Quota
    <3>5. attached[q.threat].n + 1 <= MaxIngests + 1
      BY <3>3, <3>4, <1>2
    <3> HIDE DEF q
    <3> QED BY <3>1, <3>4, <3>5, <1>2
  <2>3. Written(q, NoRow) \in Row
    <3>1. NoRow \in ThreatRow
      BY DEF NoRow, ThreatRow, Status
    <3>2. "count" \in DOMAIN q.sets => q.sets["count"] \in Nat
      BY <2>1 DEF Counted
    <3> HIDE DEF q
    <3>3. Written(q, NoRow) \in ThreatRow
          /\ Written(q, NoRow).count = IF "count" \in DOMAIN q.sets THEN q.sets["count"] ELSE 0
      BY <2>1, <3>1, <3>2, WrittenRow DEF Columns, NoRow
    <3>4. Written(q, NoRow).count \in 0 .. MaxIngests + 1
      BY <3>3, <2>2, <1>2
    <3> QED BY <3>3, <3>4 DEF Row, ThreatRow
  <2>4. DOMAIN q.sets \subseteq Columns
    BY <2>1 DEF Request, Sets
  <2> QED BY <2>1, <2>3, <2>4 DEF RequestOK, Request
<1>5. threat \in [Threats -> Row]
      /\ attached \in [Threats -> [n : 0 .. MaxIngests + 1, top : {0} \cup Scores]]
  BY <1>3 DEF IInv, Types
<1> QED BY <1>4, <1>5 DEF IInv, Types, TypeOK

\* Rows, locks and requests have their types, and no count runs past the
\* detections that came in (correlate, detection_service.py).
THEOREM TypeCorrect == Spec => []TypeOK
BY Invariant, TypesBounded, PTL

\* Requests wait for each other only when one of them escalates the threat the
\* other has locked: record before flush against flush before record.
THEOREM DeadlocksNeedEscalation == Spec => []DeadlockNeedsEscalation
<1>1. ASSUME IInv PROVE DeadlockNeedsEscalation
  <2> SUFFICES ASSUME NEW r \in Requests, Deadlocked(r)
               PROVE  /\ \E q \in {r, WaitsFor(r)} : req[q].op = "escalate"
                      /\ req[r].threat = req[WaitsFor(r)].threat
    BY DEF DeadlockNeedsEscalation
  <2> DEFINE s == WaitsFor(r)
  <2>1. s # Nobody /\ WaitsFor(s) = r /\ r # Nobody
    BY NobodyAssumption DEF Deadlocked
  <2>2. \/ /\ req[r].pc = "flush" /\ req[r].op \in Ops /\ s = rowLock[req[r].threat]
        \/ /\ req[r].pc = "audit" /\ req[r].op \in Ops /\ s = lock
    BY <2>1 DEF WaitsFor, At
  <2>3. \/ /\ req[s].pc = "flush" /\ req[s].op \in Ops /\ r = rowLock[req[s].threat]
        \/ /\ req[s].pc = "audit" /\ req[s].op \in Ops /\ r = lock
    BY <2>1 DEF WaitsFor, At
  <2>4. \A x \in Requests : req[x].pc \in {"flush", "audit"} =>
          req[x] # Idle /\ (req[x].pc = "flush" => req[x].threat \in Threats)
    <3>1. ASSUME NEW x \in Requests, req[x].pc \in {"flush", "audit"}
          PROVE  req[x] # Idle /\ (req[x].pc = "flush" => req[x].threat \in Threats)
      <4>1. req[x] # Idle
        BY <3>1 DEF Idle
      <4>2. Shape(req[x])
        BY <1>1, <4>1 DEF IInv, Good
      <4> QED BY <4>1, <4>2 DEF Shape
    <3> QED BY <3>1
  <2>5. s \in Requests
    BY <1>1, <2>1, <2>2, <2>4 DEF IInv, Types
  <2>6. CASE req[r].pc = "flush"
    <3>1. req[r].threat \in Threats /\ s = rowLock[req[r].threat]
      BY <2>2, <2>4, <2>6
    <3>2. MayHoldRow(req[s]) /\ req[s].threat = req[r].threat
      BY <1>1, <3>1, <2>1 DEF IInv, Locks
    <3>3. req[s].pc = "audit" /\ r = lock
      BY <3>2, <2>3 DEF MayHoldRow
    <3>4. MayRecord(req[r])
      BY <1>1, <3>3, <2>1 DEF IInv, Locks
    <3>5. req[r].op = "escalate"
      BY <3>4, <2>6 DEF MayRecord, RecordsFirst
    <3> QED BY <3>2, <3>5
  <2>7. CASE req[r].pc = "audit"
    <3>1. s = lock
      BY <2>2, <2>7
    <3>2. MayRecord(req[s])
      BY <1>1, <3>1, <2>1 DEF IInv, Locks
    <3>3. req[s].pc = "flush" /\ r = rowLock[req[s].threat]
      BY <3>2, <2>3 DEF MayRecord
    <3>4. req[s].threat \in Threats
      BY <3>3, <2>4, <2>5
    <3>5. req[s].op = "escalate"
      BY <3>2, <3>3 DEF MayRecord, RecordsFirst
    <3>6. req[r].threat = req[s].threat
      BY <1>1, <3>3, <3>4, <2>1 DEF IInv, Locks
    <3> QED BY <3>5, <3>6
  <2> QED BY <2>2, <2>6, <2>7
<1> QED BY <1>1, Invariant, PTL

\* A count is never too high, and requests that come one at a time leave a
\* threat that sums up its detections and has at most one incident, opened only
\* when there was none to join.
THEOREM ThreatsSumUp == Spec => ThreatsAddUp
<1>1. ASSUME IInv PROVE CountNeverOverstates /\ SerialThreatSumsUp /\ SerialOneIncident
  <2>1. ~ overlapped => \A t \in Threats : incidents[t] <= 1
    BY <1>1 DEF IInv, Serial
  <2> QED BY <2>1, <1>1 DEF IInv, Serial, SerialThreatSumsUp, SerialOneIncident, OneIncident
<1>2. ASSUME IInv
      PROVE  \A r \in Requests :
               ~ overlapped /\ At(r, {"ingest"}, "commit") /\ "status" \in DOMAIN req[r].sets
                 /\ Commit(r) => Candidates = {}
  <2> SUFFICES ASSUME NEW r \in Requests, ~ overlapped, At(r, {"ingest"}, "commit"),
                      "status" \in DOMAIN req[r].sets
               PROVE  Candidates = {}
    OBVIOUS
  <2>1. req[r] # Idle /\ req[r] \in Request /\ req[r].op = "ingest"
    BY <1>2, Busy DEF IInv, At
  <2>2. Shape(req[r]) /\ Fresh(req[r])
    BY <2>1, <1>2 DEF IInv, Good
  <2>3. req[r].threat \in Threats
    BY <2>1, <2>2 DEF Shape, Request
  <2> QED BY <2>1, <2>2, <2>3 DEF Fresh
<1> QED BY <1>1, <1>2, Invariant, PTL DEF Spec, ThreatsAddUp, SerialOpensOnlyWhenNone
===============================================================================
