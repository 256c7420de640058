------------------------------- MODULE CaseFile -------------------------------
(***************************************************************************)
(* The file of one case: an incident of services/incident_service.py with  *)
(* its timeline, and a piece of evidence of services/evidence_service.py   *)
(* with its chain of custody.                                              *)
(*                                                                         *)
(* A request reads the row it is about, stamps its note or entry with the  *)
(* time, and writes later.  Status changes, acknowledgements and           *)
(* assignments of the incident take the audit lock before their UPDATE;    *)
(* links and comments are not audited; custody flushes its UPDATE first    *)
(* and is audited then.                                                    *)
(***************************************************************************)
EXTENDS Integers, FiniteSets

CONSTANTS
    Requests,  \* requests on the case; each runs one operation
    Nobody     \* nobody is assigned

ASSUME NobodyAssumption == Nobody \notin Requests
ASSUME RequestsFinite == IsFiniteSet(Requests)

VARIABLES
    incident,   \* the committed row of incidents, with the alert it is linked to
    evidence,   \* the committed status of the evidence
    notes,      \* the committed timeline: who wrote a note, when, of what type
    entries,    \* the committed chain of custody
    trail,      \* the committed audit entries of status changes
    clock,      \* the time, counted in reads of requests
    seq,        \* the sequence of the audit trail
    req,        \* the requests
    overlapped  \* history: two requests have been in flight at once

vars == <<incident, evidence, notes, entries, trail, clock, seq, req, overlapped>>

\* "investigating" and "contained" are alike, so are "resolved" and "closed".
IncidentStatus == {"open", "investigating", "resolved"}
ClosedStates == {"resolved"}
EvidenceStatus == {"collected", "sealed", "released", "destroyed"}
Terminal == {"sealed", "released", "destroyed"}
\* "transferred" and "collected" are like "accessed": the status stays.
CustodyAction == Terminal \cup {"accessed"}

Bounded == 0 .. Cardinality(Requests)
Incident == [status : IncidentStatus, acknowledged : BOOLEAN, resolved : BOOLEAN,
             assignee : Requests \cup {Nobody}, linked : BOOLEAN]
Note == [at : Bounded, to : IncidentStatus \cup {"system", "alert", "assignment", "comment"}]
Entry == [at : Bounded, action : CustodyAction]
Change == [seq : Bounded, from : IncidentStatus, to : IncidentStatus]

Audited == {"transition", "acknowledge", "assign"}
Ops == Audited \cup {"link", "comment", "custody"}

\* A request: its operation, the rows as it read them and when, and what it
\* asks for: a status, or an action on the evidence.
Request ==
    [op : Ops, pc : {"flush", "audit", "commit"}, at : Bounded, seen : Incident,
     status : EvidenceStatus, to : IncidentStatus, action : CustodyAction, seq : Bounded]
Idle == [pc |-> "idle"]
Ended == [pc |-> "ended"]

TypeOK ==
    /\ incident \in Incident /\ evidence \in EvidenceStatus
    /\ notes \subseteq Note /\ entries \subseteq Entry /\ trail \subseteq Change
    /\ clock \in Bounded /\ seq \in Bounded
    /\ req \in [Requests -> Request \cup {Idle, Ended}]
    /\ overlapped \in BOOLEAN

\* The incident was created, with or without the alert; the evidence was
\* registered.
Init ==
    /\ \E linked \in BOOLEAN :
         incident = [status |-> "open", acknowledged |-> FALSE, resolved |-> FALSE,
                     assignee |-> Nobody, linked |-> linked]
    /\ evidence = "collected"
    /\ notes = {} /\ entries = {} /\ trail = {}
    /\ clock = 0 /\ seq = 0
    /\ req = [r \in Requests |-> Idle]
    /\ overlapped = FALSE

-------------------------------------------------------------------------------
(* Steps of a request.                                                     *)

InFlight(r) == req[r] # Idle /\ req[r] # Ended
At(r, ops, pc) == req[r].pc = pc /\ req[r].op \in ops

\* The request reads its row and stamps what it writes.
Load(r, op, pc, to, action) ==
    /\ req[r] = Idle
    /\ clock' = clock + 1
    /\ req' = [req EXCEPT ![r] =
         [op |-> op, pc |-> pc, at |-> clock + 1, seen |-> incident, status |-> evidence,
          to |-> to, action |-> action, seq |-> 0]]
    /\ overlapped' = (overlapped \/ \E q \in Requests : InFlight(q))
    /\ UNCHANGED <<incident, evidence, notes, entries, trail, seq>>

LoadTransition(r) ==
    \E to \in IncidentStatus : Load(r, "transition", "audit", to, "accessed")

\* acknowledge does nothing when the incident it read is acknowledged.
LoadAcknowledge(r) ==
    Load(r, "acknowledge", IF incident.acknowledged THEN "commit" ELSE "audit",
         "open", "accessed")

LoadAssign(r) == Load(r, "assign", "audit", "open", "accessed")

LoadComment(r) == Load(r, "comment", "commit", "open", "accessed")

\* link_alert does nothing when the incident it read has the alert.
LoadLink(r) ==
    Load(r, "link", IF incident.linked THEN "commit" ELSE "flush", "open", "accessed")

LoadCustody(r) ==
    \E action \in CustodyAction : Load(r, "custody", "flush", "open", action)

\* What a request writes, given what it read.
Links(q) == q.op = "link" /\ ~ q.seen.linked
Acknowledges(q) == q.op = "acknowledge" /\ ~ q.seen.acknowledged
Moves(q) == q.op = "custody" /\ q.action \in Terminal /\ q.action # q.status

\* The requests that have flushed a row or a key r wants.
Blockers(r) ==
    {q \in Requests \ {r} : /\ InFlight(q) /\ req[q].pc # "flush"
                            /\ \/ Links(req[r]) /\ Links(req[q])
                               \/ Moves(req[r]) /\ Moves(req[q])}

\* The INSERT of the link and the UPDATE of the evidence wait for whoever has
\* written the same.  The link's primary key admits it once.
Flush(r) ==
    /\ At(r, {"link", "custody"}, "flush") /\ Blockers(r) = {}
    /\ ~ (Links(req[r]) /\ incident.linked)
    /\ req' = [req EXCEPT ![r].pc = IF req[r].op = "link" THEN "commit" ELSE "audit"]
    /\ UNCHANGED <<incident, evidence, notes, entries, trail, clock, seq, overlapped>>

\* The transaction ends without a commit.
Abort(r) ==
    /\ InFlight(r)
    /\ req' = [req EXCEPT ![r] = Ended]
    /\ UNCHANGED <<incident, evidence, notes, entries, trail, clock, seq, overlapped>>

\* The link was made in between: a unique violation ends the request.
Conflict(r) ==
    /\ At(r, {"link"}, "flush") /\ Blockers(r) = {} /\ incident.linked
    /\ Abort(r)

Recorders == {r \in Requests : At(r, Audited \cup {"custody"}, "commit") /\ req[r].seq # 0}

\* A plausible bug: the advisory lock is not taken.
RecordUnlocked(r) ==
    /\ At(r, Audited \cup {"custody"}, "audit")
    /\ seq' = seq + 1
    /\ req' = [req EXCEPT ![r].pc = "commit", ![r].seq = seq + 1]
    /\ UNCHANGED <<incident, evidence, notes, entries, trail, clock, overlapped>>

\* AuditService.record waits for the advisory lock, which the request then
\* holds until it ends; the UPDATE of the incident comes after it.
Record(r) ==
    /\ At(r, Audited \cup {"custody"}, "audit") /\ Recorders = {}
    /\ seq' = seq + 1
    /\ req' = [req EXCEPT ![r].pc = "commit", ![r].seq = seq + 1]
    /\ UNCHANGED <<incident, evidence, notes, entries, trail, clock, overlapped>>

\* The UPDATE names the columns whose value differs from what was read.
Written(q, r) ==
    [incident EXCEPT
       !.status = IF q.op = "transition" /\ q.to # q.seen.status THEN q.to ELSE @,
       !.resolved = @ \/ (q.op = "transition" /\ q.to \in ClosedStates),
       !.acknowledged = @ \/ Acknowledges(q),
       !.assignee = IF q.op = "assign" THEN r ELSE @,
       !.linked = @ \/ Links(q)]

\* The timeline notes of a request.
NotesOf(q) ==
    LET type == CASE q.op = "transition"  -> {q.to}
                  [] q.op = "acknowledge" -> {n \in {"system"} : q.pc = "commit" /\ q.seq # 0}
                  [] q.op = "link"        -> {n \in {"alert"} : Links(q)}
                  [] q.op = "assign"      -> {"assignment"}
                  [] q.op = "comment"     -> {"comment"}
                  [] q.op = "custody"     -> {}
    IN [at : {q.at}, to : type]

\* The status of the evidence after a request.
StatusAfter(q) == IF Moves(q) THEN q.action ELSE evidence

Commit(r) ==
    LET q == req[r] IN
    /\ At(r, Ops, "commit")
    /\ incident' = Written(q, r)
    /\ notes' = notes \cup NotesOf(q)
    /\ trail' = IF q.op # "transition" THEN trail
                ELSE trail \cup {[seq |-> q.seq, from |-> q.seen.status, to |-> q.to]}
    /\ evidence' = StatusAfter(q)
    /\ entries' = IF q.op # "custody" THEN entries
                  ELSE entries \cup {[at |-> q.at, action |-> q.action]}
    /\ req' = [req EXCEPT ![r] = Ended]
    /\ UNCHANGED <<clock, seq, overlapped>>

Next == \E r \in Requests :
    \/ LoadTransition(r) \/ LoadAcknowledge(r) \/ LoadAssign(r) \/ LoadComment(r)
    \/ LoadLink(r) \/ LoadCustody(r)
    \/ Flush(r) \/ Conflict(r) \/ Record(r) \/ Commit(r) \/ Abort(r)

Spec == Init /\ [][Next]_vars

-------------------------------------------------------------------------------
(* Properties.                                                             *)

\* The audit trail tells the status of the incident: it is the one the last
\* entry that changed it names, in every interleaving, because the audit lock
\* is taken before the UPDATE and kept until the commit.
TrailTellsStatus ==
    LET effective == {c \in trail : c.from # c.to} IN
    IF effective = {} THEN incident.status = "open"
    ELSE \E c \in effective : /\ \A d \in effective : d.seq <= c.seq
                              /\ incident.status = c.to

\* An alert is linked, and noted on the timeline, once: of two requests that
\* both saw no link, one loses its note with its link.
LinkedOnce ==
    LET links == {n \in notes : n.to = "alert"} IN
    Cardinality(links) <= 1 /\ (links # {} => incident.linked)

\* The last one by the time it is stamped with.
Last(S) == CHOOSE x \in S : \A y \in S : y.at <= x.at

\* incident_service.py:4-5: status changes are timeline notes as well, and the
\* last one of them tells the status.
TimelineTellsStatus ==
    LET changes == {n \in notes : n.to \in IncidentStatus} IN
    changes # {} => Last(changes).to = incident.status

\* incident_service.py:170: an incident is acknowledged once.
OneAcknowledgement == Cardinality({n \in notes : n.to = "system"}) <= 1

\* evidence_service.py:72: "Keep evidence status in sync with terminal custody
\* actions": it is that of the last of them.
CustodyTellsStatus ==
    LET terminal == {e \in entries : e.action \in Terminal} IN
    evidence = IF terminal = {} THEN "collected" ELSE Last(terminal).action

\* The three of them, as long as requests come one at a time.
SerialCase == overlapped \/ (TimelineTellsStatus /\ OneAcknowledgement /\ CustodyTellsStatus)

\* The trail and the links in every interleaving, the rest one at a time.
CaseFileTold == TrailTellsStatus /\ LinkedOnce /\ SerialCase

-------------------------------------------------------------------------------
(* What a reader may expect, and the code does not keep.                   *)

\* Evidence that was destroyed is handled no more.
DestroyedIsFinal == [][evidence = "destroyed" => entries' = entries]_vars

\* resolved_at is that of an incident that is resolved.
ResolvedAtIsOfResolved == incident.resolved => incident.status \in ClosedStates
===============================================================================
