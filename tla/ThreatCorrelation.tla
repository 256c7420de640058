-------------------------- MODULE ThreatCorrelation ---------------------------
(***************************************************************************)
(* From detections to threats to incidents: DetectionService.ingest and    *)
(* ThreatService of services/detection_service.py with the part of         *)
(* IncidentService.create they call, for the detections of one kind at one *)
(* site.                                                                   *)
(*                                                                         *)
(* A request is a transaction at READ COMMITTED.  A flush sends its UPDATE *)
(* and takes the lock of the threat's row until the transaction ends;      *)
(* AuditService.record takes the advisory lock until then.  ingest and     *)
(* set_status flush first and record then, escalate_to_incident records    *)
(* the new incident first and flushes the threat then, so requests can     *)
(* wait for each other: PostgreSQL ends one of them.                       *)
(***************************************************************************)
EXTENDS Integers, FiniteSets

CONSTANTS
    Requests,    \* concurrent requests; each runs one operation at a time
    Threats,     \* threat ids
    Nobody,      \* a lock is free, a request has no threat
    Scores,      \* the risk scores of the detections that come in
    MaxIngests   \* bound: detections that come in

ASSUME RequestsAssumption == IsFiniteSet(Requests)
ASSUME NobodyAssumption == Nobody \notin Requests \cup Threats
ASSUME ScoresAssumption == Scores \subseteq 0 .. 100 /\ MaxIngests \in Nat

VARIABLES
    threat,     \* the committed rows of threats
    rowLock,    \* the request that holds the lock of each threat's row
    lock,       \* the request that holds the audit advisory lock
    req,        \* the requests
    ingested,   \* detections that came in
    attached,   \* the committed detections of each threat, and their top score
    incidents,  \* how many committed incidents were created from each threat
    overlapped  \* history: two requests have been in flight at once

vars == <<threat, rowLock, lock, req, ingested, attached, incidents, overlapped>>

\* For correlate "monitoring", "mitigated" and "closed" are the same.
Status == {"none", "active", "escalated", "closed"}
Row == [status : Status, score : {0} \cup Scores, count : 0 .. MaxIngests + 1,
        incident : BOOLEAN, recent : BOOLEAN]
NoRow == [status |-> "none", score |-> 0, count |-> 0, incident |-> FALSE,
          recent |-> FALSE]

Ops == {"ingest", "set_status", "escalate"}
Columns == {"status", "score", "count", "incident", "recent"}

\* The row after the UPDATE of a request, over what others have committed.
Written(q, now) == [c \in Columns |-> IF c \in DOMAIN q.sets THEN q.sets[c] ELSE now[c]]

\* A request: its operation and where it is, its threat, the score of its
\* detection, and the columns it changes with their new values.
RequestOK(q) ==
    /\ q.op \in Ops /\ q.pc \in {"select", "flush", "audit", "commit"}
    /\ q.threat \in Threats \cup {Nobody}
    /\ q.score \in {0} \cup Scores
    /\ DOMAIN q.sets \subseteq Columns /\ Written(q, NoRow) \in Row

Idle == [pc |-> "idle"]

TypeOK ==
    /\ threat \in [Threats -> Row]
    /\ rowLock \in [Threats -> Requests \cup {Nobody}]
    /\ lock \in Requests \cup {Nobody}
    /\ \A r \in Requests : req[r] = Idle \/ RequestOK(req[r])
    /\ ingested \in 0 .. MaxIngests
    /\ attached \in [Threats -> [n : 0 .. MaxIngests + 1, top : {0} \cup Scores]]
    /\ incidents \in [Threats -> Nat]
    /\ overlapped \in BOOLEAN

\* RiskEngine.level: high and critical detections are correlated.
AutoThreat(score) == score >= 65

\* No threat yet, or one that a detection has opened.
Init ==
    /\ \/ /\ threat = [t \in Threats |-> NoRow]
          /\ attached = [t \in Threats |-> [n |-> 0, top |-> 0]]
       \/ \E old \in Threats, score \in {s \in Scores : AutoThreat(s)} :
            /\ threat = [t \in Threats |->
                 IF t = old THEN [status |-> "active", score |-> score, count |-> 1,
                                  incident |-> FALSE, recent |-> TRUE] ELSE NoRow]
            /\ attached = [t \in Threats |-> IF t = old THEN [n |-> 1, top |-> score]
                                                       ELSE [n |-> 0, top |-> 0]]
    /\ rowLock = [t \in Threats |-> Nobody]
    /\ lock = Nobody
    /\ req = [r \in Requests |-> Idle]
    /\ ingested = 0
    /\ incidents = [t \in Threats |-> 0]
    /\ overlapped = FALSE

-------------------------------------------------------------------------------
(* Steps of a request.                                                     *)

At(r, ops, pc) == req[r].pc = pc /\ req[r].op \in ops

NoSets == [c \in {} |-> 0]
Larger(a, b) == IF a > b THEN a ELSE b

Start(r, op, t, score) ==
    /\ req[r] = Idle
    /\ req' = [req EXCEPT ![r] = [op |-> op, threat |-> t, score |-> score, sets |-> NoSets,
                                  pc |-> IF op = "ingest" /\ ~ AutoThreat(score)
                                         THEN "audit" ELSE "select"]]
    /\ overlapped' = (overlapped \/ \E q \in Requests : req[q] # Idle)
    /\ UNCHANGED <<threat, rowLock, lock, attached, incidents>>

\* The detection is inserted; one of little risk goes straight to its entry.
StartIngest(r) ==
    /\ ingested < MaxIngests
    /\ ingested' = ingested + 1
    /\ \E s \in Scores : Start(r, "ingest", Nobody, s)

StartOnThreat(r) ==
    /\ \E op \in {"set_status", "escalate"}, t \in {u \in Threats : threat[u] # NoRow} :
         Start(r, op, t, 0)
    /\ UNCHANGED ingested

Candidates == {t \in Threats : threat[t].status = "active" /\ threat[t].recent}

\* Threats nobody has a row of, committed or not.
Unused == {t \in Threats : threat[t] = NoRow /\ \A r \in Requests :
                               req[r] = Idle \/ req[r].threat # t}

\* A plausible bug: the scores of the detections are added up.
RaisedScoreSum(old, new) == old + new

\* The score of a threat that a riskier detection joins.
RaisedScore(old, new) == new

\* correlate, when there are candidates: the newest one (any of them here) is
\* updated with the detection.
JoinThreat(r) ==
    /\ At(r, {"ingest"}, "select")
    /\ \E t \in Candidates :
         req' = [req EXCEPT
           ![r].threat = t, ![r].pc = "flush",
           ![r].sets = [c \in {"count", "recent"} \cup
                              {d \in {"score"} : req[r].score > threat[t].score} |->
                          CASE c = "count"  -> threat[t].count + 1
                            [] c = "recent" -> TRUE
                            [] c = "score"  -> RaisedScore(threat[t].score, req[r].score)]]
    /\ UNCHANGED <<threat, rowLock, lock, ingested, attached, incidents, overlapped>>

\* A request inserts a threat that has the given count.
Open(r, count) ==
    /\ At(r, {"ingest"}, "select")
    /\ \E t \in Unused :
         req' = [req EXCEPT
           ![r].threat = t, ![r].pc = "audit",
           ![r].sets = [status |-> "active", score |-> req[r].score, count |-> count,
                        incident |-> FALSE, recent |-> TRUE]]
    /\ UNCHANGED <<threat, rowLock, lock, ingested, attached, incidents, overlapped>>

\* A plausible bug: a threat is opened whatever is there.
OpenThreatAlways(r) == Open(r, 1)

\* correlate, when there is no candidate.
OpenThreat(r) == Candidates = {} /\ Open(r, 1)

\* A plausible bug: set_status records its entry before it flushes.
RecordsFirstStatus(op) == op \in {"escalate", "set_status"}

\* The operations that record before they flush.
RecordsFirst(op) == op = "escalate"

\* Threat status is set to whatever the request asks for.
SelectForStatus(r) ==
    /\ At(r, {"set_status"}, "select")
    /\ \E s \in Status \ {"none"} :
         LET changed == s # threat[req[r].threat].status IN
         req' = [req EXCEPT ![r].pc = IF changed /\ ~ RecordsFirst("set_status")
                                      THEN "flush" ELSE "audit",
                            ![r].sets = [c \in {d \in {"status"} : changed} |-> s]]
    /\ UNCHANGED <<threat, rowLock, lock, ingested, attached, incidents, overlapped>>

\* escalate_to_incident does nothing when the threat has an incident;
\* otherwise it inserts the incident.
SelectForEscalation(r) ==
    /\ At(r, {"escalate"}, "select")
    /\ LET now == threat[req[r].threat] IN
       req' = [req EXCEPT
         ![r].pc = IF now.incident THEN "commit" ELSE "audit",
         ![r].sets = [c \in {d \in {"incident", "status"} : ~ now.incident /\
                              (d = "status" => now.status # "escalated")} |->
                        IF c = "incident" THEN TRUE ELSE "escalated"]]
    /\ UNCHANGED <<threat, rowLock, lock, ingested, attached, incidents, overlapped>>

\* The UPDATE of the threat waits for the lock of its row.
Flush(r) ==
    /\ At(r, Ops, "flush")
    /\ rowLock[req[r].threat] = Nobody
    /\ rowLock' = [rowLock EXCEPT ![req[r].threat] = r]
    /\ req' = [req EXCEPT ![r].pc = IF RecordsFirst(req[r].op) THEN "commit" ELSE "audit"]
    /\ UNCHANGED <<threat, lock, ingested, attached, incidents, overlapped>>

\* AuditService.record waits for the advisory lock.
Record(r) ==
    /\ At(r, Ops, "audit")
    /\ lock = Nobody
    /\ lock' = r
    /\ req' = [req EXCEPT ![r].pc = IF RecordsFirst(req[r].op) THEN "flush" ELSE "commit"]
    /\ UNCHANGED <<threat, rowLock, ingested, attached, incidents, overlapped>>

Release(r) ==
    /\ req' = [req EXCEPT ![r] = Idle]
    /\ lock' = IF lock = r THEN Nobody ELSE lock
    /\ rowLock' = [t \in Threats |-> IF rowLock[t] = r THEN Nobody ELSE rowLock[t]]
    /\ UNCHANGED <<ingested, overlapped>>

Commit(r) ==
    LET q == req[r]  t == q.threat IN
    /\ At(r, Ops, "commit")
    /\ threat' = IF t = Nobody THEN threat ELSE [threat EXCEPT ![t] = Written(q, @)]
    /\ attached' = IF q.op # "ingest" \/ t = Nobody THEN attached
                   ELSE [attached EXCEPT ![t].n = @ + 1, ![t].top = Larger(@, q.score)]
    /\ incidents' = IF q.op = "escalate" /\ "incident" \in DOMAIN q.sets
                    THEN [incidents EXCEPT ![t] = @ + 1] ELSE incidents
    /\ Release(r)

\* The transaction ends without a commit.
Abort(r) ==
    /\ req[r] # Idle
    /\ Release(r)
    /\ UNCHANGED <<threat, attached, incidents, overlapped>>

\* Who a request waits for.
WaitsFor(r) ==
    CASE At(r, Ops, "flush") -> rowLock[req[r].threat]
      [] At(r, Ops, "audit") -> lock
      [] OTHER -> Nobody

\* Two requests that wait for each other.  Each waits with at most one lock,
\* and one of the two is the audit lock: there is no longer cycle.
Deadlocked(r) ==
    WaitsFor(r) # Nobody /\ WaitsFor(WaitsFor(r)) = r

\* A plausible misconfiguration: lock waits without deadlock detection.
NoVictim(r) == FALSE /\ Deadlocked(r) /\ Abort(r)

\* deadlock_timeout has passed: PostgreSQL ends one of the two.
Victim(r) == Deadlocked(r) /\ Abort(r)

\* Bound: a detection that finds no id left for its threat is given up.
NoIdLeft(r) ==
    At(r, {"ingest"}, "select") /\ Candidates = {} /\ Unused = {} /\ Abort(r)

\* The thirty minutes of _CORRELATION_WINDOW pass for a threat.
Age(t) ==
    /\ threat[t].recent
    /\ threat' = [threat EXCEPT ![t].recent = FALSE]
    /\ UNCHANGED <<rowLock, lock, req, ingested, attached, incidents, overlapped>>

Arrive(r) == StartIngest(r) \/ StartOnThreat(r)

Proceed(r) ==
    \/ JoinThreat(r) \/ OpenThreat(r)
    \/ SelectForStatus(r) \/ SelectForEscalation(r)
    \/ Flush(r) \/ Record(r) \/ Commit(r) \/ Victim(r) \/ NoIdLeft(r)

Next == \/ \E r \in Requests : Arrive(r) \/ Proceed(r) \/ Abort(r)
        \/ \E t \in Threats : Age(t)

Spec == Init /\ [][Next]_vars

\* A request that can go on does; the lock manager grants a lock to each of
\* its waiters in the end.
FairSpec ==
    Spec /\ \A r \in Requests :
        WF_vars(Proceed(r)) /\ SF_vars(Flush(r)) /\ SF_vars(Record(r))

-------------------------------------------------------------------------------
(* Properties.                                                             *)

\* Concurrent detections may be counted once instead of twice, but a threat
\* never claims more detections than are attached to it.
CountNeverOverstates == \A t \in Threats : threat[t].count <= attached[t].n

\* Only an escalation can be in a deadlock with another request, and only
\* over the threat it escalates.
DeadlockNeedsEscalation ==
    \A r \in Requests : Deadlocked(r) =>
        /\ \E q \in {r, WaitsFor(r)} : req[q].op = "escalate"
        /\ req[r].threat = req[WaitsFor(r)].threat

\* No request waits for ever, whatever the order of its locks.
RequestsEnd == \A r \in Requests : []<>(req[r] = Idle)

-------------------------------------------------------------------------------
(* What models/detection.py promises of a threat.                          *)

\* models/detection.py:4-5: a threat has the risk score computed from the
\* detections correlated into it, and their count.
ThreatSumsUp ==
    \A t \in Threats : threat[t].count = attached[t].n /\ threat[t].score = attached[t].top

\* models/detection.py:5: a threat is escalated into "a formal incident", one.
OneIncident == \A t \in Threats : incidents[t] <= 1

\* As long as requests come one at a time, a threat sums up its detections.
SerialThreatSumsUp == overlapped \/ ThreatSumsUp

\* As long as requests come one at a time, a threat has one incident at most,
\* also when its status is set back and it is escalated again.
SerialOneIncident == overlapped \/ OneIncident

\* tests/integration/test_detection_api.py:87: repeated detections "correlate
\* into ONE threat": one is opened only when no recent active one exists.
OpensOnlyWhenNone ==
    [][\A r \in Requests :
         At(r, {"ingest"}, "commit") /\ "status" \in DOMAIN req[r].sets /\ Commit(r)
            => Candidates = {}]_vars

\* The same as long as requests come one at a time.
SerialOpensOnlyWhenNone ==
    [][\A r \in Requests :
         ~ overlapped /\ At(r, {"ingest"}, "commit") /\ "status" \in DOMAIN req[r].sets
            /\ Commit(r) => Candidates = {}]_vars

\* The count of a threat is never too high, and as long as requests come one at
\* a time a threat sums up its detections, is opened only when there is none,
\* and has one incident.
ThreatsAddUp ==
    /\ [](CountNeverOverstates /\ SerialThreatSumsUp /\ SerialOneIncident)
    /\ SerialOpensOnlyWhenNone
===============================================================================
