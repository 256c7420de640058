------------------------------ MODULE Emergency -------------------------------
(***************************************************************************)
(* The emergencies of one site: EmergencyService.trigger, acknowledge and  *)
(* resolve of services/emergency_service.py, the fan-out of                *)
(* services/notification_service.py, and the creation, PATCH and deletion  *)
(* of an access point (AccessService, from services/crud.py).              *)
(*                                                                         *)
(* A request is a transaction at READ COMMITTED.  A lockdown and its       *)
(* resolution update the access points of the site in one statement: it    *)
(* finds those committed at the time, in any order, and takes their row    *)
(* locks one after the other, leaving out a row that was deleted           *)
(* meanwhile.  An INSERT has its row for itself.  A message is sent when   *)
(* it is dispatched, long before the commit.  The audit entry comes last.  *)
(***************************************************************************)
EXTENDS Integers, FiniteSets

CONSTANTS
    Requests,   \* concurrent requests; each runs one operation at a time
    Events,     \* ids of emergency events
    Points,     \* ids of access points of the site
    Nobody,     \* a lock is free, a request has no event or point
    MaxTargets  \* bound: channels and contacts that an emergency notifies

ASSUME NobodyAssumption == Nobody \notin Requests \cup Events \cup Points
ASSUME TargetsAssumption == MaxTargets \in Nat

VARIABLES
    event,      \* the committed rows of emergency_events
    points,     \* the committed rows of access_points
    locked,     \* is_locked of each of them
    notes,      \* committed notification rows of each event: all, and status sent
    eventLock,  \* the request that holds the lock of each event's row
    pointLock,  \* the request that holds the lock of each access point's row
    lock,       \* the request that holds the audit advisory lock
    req,        \* the requests
    delivered   \* history: messages the providers sent for each event

vars == <<event, points, locked, notes, eventLock, pointLock, lock, req, delivered>>

EmergencyStatus == {"none", "active", "acknowledged", "resolved"}
\* The other types of emergency are like panic: they leave the points alone.
Types == {"lockdown", "panic"}
Count == 0 .. MaxTargets
\* The notifications of an event: those written, and those sent.
Notes == [all : Count, sent : Count]
Row == [status : EmergencyStatus, type : Types, notified : Count, resolved_at : BOOLEAN]
NoRow == [status |-> "none", type |-> "panic", notified |-> 0, resolved_at |-> FALSE]

\* Those on one point, which have no event.
PointOps == {"create", "update", "delete"}
Ops == {"trigger", "acknowledge", "resolve"} \cup PointOps

\* A request: its operation and where it is, its event, the value it gives to
\* points, the points it found or made, those still to be written and the next of
\* them, and for a trigger whom it has still to notify, what it counted, recorded,
\* sent.
Request ==
    [op : Ops, pc : {"points", "notify", "flush", "audit", "commit"},
     event : Events \cup {Nobody}, type : Types, value : BOOLEAN,
     found : SUBSET Points, todo : SUBSET Points, next : Points \cup {Nobody},
     targets : Count, count : Count, rows : Count, sent : Count]

Idle == [pc |-> "idle"]

TypeOK ==
    /\ event \in [Events -> Row]
    /\ points \subseteq Points
    /\ locked \in [Points -> BOOLEAN]
    /\ notes \in [Events -> Notes]
    /\ eventLock \in [Events -> Requests \cup {Nobody}]
    /\ pointLock \in [Points -> Requests \cup {Nobody}]
    /\ lock \in Requests \cup {Nobody}
    /\ req \in [Requests -> Request \cup {Idle}]
    /\ delivered \in [Events -> Nat]

Init ==
    /\ event = [e \in Events |-> NoRow]
    /\ points \in SUBSET Points
    /\ locked \in {f \in [Points -> BOOLEAN] : \A p \in Points \ points : ~ f[p]}
    /\ notes = [e \in Events |-> [all |-> 0, sent |-> 0]]
    /\ eventLock = [e \in Events |-> Nobody]
    /\ pointLock = [p \in Points |-> Nobody]
    /\ lock = Nobody
    /\ req = [r \in Requests |-> Idle]
    /\ delivered = [e \in Events |-> 0]

-------------------------------------------------------------------------------
(* Steps of a request.                                                     *)

At(r, ops, pc) == req[r].pc = pc /\ req[r].op \in ops

Stored == {e \in Events : event[e] # NoRow}

\* Ids nobody has used, committed or not.
Unused == {e \in Events : event[e] = NoRow /\ delivered[e] = 0 /\
                          \A r \in Requests : req[r] = Idle \/ req[r].event # e}
Fresh == {p \in Points \ points : pointLock[p] = Nobody /\
                          \A r \in Requests : req[r] = Idle \/ p \notin req[r].found}

Start(r, q) ==
    /\ req[r] = Idle
    /\ req' = [req EXCEPT ![r] = q]
    /\ UNCHANGED <<event, points, locked, notes, eventLock, pointLock, lock, delivered>>

New(op, e, type, pc) ==
    [op |-> op, pc |-> pc, event |-> e, type |-> type, value |-> FALSE, found |-> {},
     todo |-> {}, next |-> Nobody, targets |-> 0, count |-> 0, rows |-> 0, sent |-> 0]

\* The statement on these points is sent; it finds their rows in any order.
StartOver(r, q, S, value) ==
    \E p \in S : Start(r, [q EXCEPT !.pc = "points", !.value = value,
                                    !.found = S, !.todo = S, !.next = p])

\* trigger inserts the event; a lockdown then locks the points of the site.
StartTrigger(r) ==
    \E e \in Unused, type \in Types, n \in Count :
        LET q == [New("trigger", e, type, "notify") EXCEPT !.targets = n] IN
        IF type = "lockdown" /\ points # {} THEN StartOver(r, q, points, TRUE)
                                            ELSE Start(r, q)

\* acknowledge sets the status whatever it was.
StartAcknowledge(r) ==
    \E e \in Stored : Start(r, New("acknowledge", e, event[e].type,
        IF event[e].status = "acknowledged" THEN "audit" ELSE "flush"))

\* resolve unlocks the points of a lockdown, whether resolved before or not.
StartResolve(r) ==
    \E e \in Stored :
        LET q == New("resolve", e, event[e].type, "flush") IN
        IF q.type = "lockdown" /\ points # {} THEN StartOver(r, q, points, FALSE)
                                              ELSE Start(r, q)

\* PATCH of one point: an UPDATE is sent when the value changes.
StartUpdate(r) ==
    \E p \in points, value \in BOOLEAN :
        LET q == New("update", Nobody, "panic", "audit") IN
        IF locked[p] = value THEN Start(r, q) ELSE StartOver(r, q, {p}, value)

\* DELETE of one point.
StartDelete(r) ==
    \E p \in points : StartOver(r, New("delete", Nobody, "panic", "audit"), {p}, FALSE)

\* POST of a point, locked or not: nobody sees the row before the commit.
StartCreate(r) ==
    /\ req[r] = Idle
    /\ \E p \in Fresh, value \in BOOLEAN :
         /\ req' = [req EXCEPT ![r] = [New("create", Nobody, "panic", "audit") EXCEPT
                                         !.value = value, !.found = {p}]]
         /\ pointLock' = [pointLock EXCEPT ![p] = r]
    /\ UNCHANGED <<event, points, locked, notes, eventLock, lock, delivered>>

AfterPoints(op) == CASE op = "trigger" -> "notify" [] op = "resolve" -> "flush"
                     [] op \in PointOps -> "audit"

\* The UPDATE goes on to one of the rows that are left.
Onwards(r, rest) ==
    \/ /\ rest = {}
       /\ req' = [req EXCEPT ![r].todo = {}, ![r].next = Nobody,
                             ![r].pc = AfterPoints(req[r].op)]
    \/ \E p \in rest : req' = [req EXCEPT ![r].todo = rest, ![r].next = p]

\* A plausible bug: SKIP LOCKED, which leaves out the rows that are locked.
TakePointSkipping(r) ==
    /\ At(r, Ops, "points")
    /\ pointLock' = [pointLock EXCEPT ![req[r].next] = IF @ = Nobody THEN r ELSE @]
    /\ Onwards(r, req[r].todo \ {req[r].next})
    /\ UNCHANGED <<event, points, locked, notes, eventLock, lock, delivered>>

\* The statement waits for the lock of the next row it finds.
TakePoint(r) ==
    /\ At(r, Ops, "points")
    /\ pointLock[req[r].next] = Nobody /\ req[r].next \in points
    /\ pointLock' = [pointLock EXCEPT ![req[r].next] = r]
    /\ Onwards(r, req[r].todo \ {req[r].next})
    /\ UNCHANGED <<event, points, locked, notes, eventLock, lock, delivered>>

\* The row was deleted meanwhile: the statement goes on without it.
PassPoint(r) ==
    /\ At(r, Ops \ {"update"}, "points")
    /\ pointLock[req[r].next] = Nobody /\ req[r].next \notin points
    /\ Onwards(r, req[r].todo \ {req[r].next})
    /\ UNCHANGED <<event, points, locked, notes, eventLock, pointLock, lock, delivered>>

\* A plausible bug: a message that fails is sent and counted again.
DispatchAgain(r) ==
    /\ At(r, {"trigger"}, "notify") /\ req[r].targets > 0
    /\ \E ok \in BOOLEAN :
         LET one == IF ok THEN 1 ELSE 0 IN
         /\ req' = [req EXCEPT ![r].targets = @ - one, ![r].count = @ + 1,
                               ![r].rows = @ + 1, ![r].sent = @ + one]
         /\ delivered' = [delivered EXCEPT ![req[r].event] = @ + one]
    /\ UNCHANGED <<event, points, locked, notes, eventLock, pointLock, lock>>

\* dispatch: the provider sends the message or fails, the notification is
\* flushed in either case, and counted.
Dispatch(r) ==
    /\ At(r, {"trigger"}, "notify") /\ req[r].targets > 0
    /\ \E ok \in BOOLEAN :
         LET one == IF ok THEN 1 ELSE 0 IN
         /\ req' = [req EXCEPT ![r].targets = @ - 1, ![r].count = @ + 1,
                               ![r].rows = @ + 1, ![r].sent = @ + one]
         /\ delivered' = [delivered EXCEPT ![req[r].event] = @ + one]
    /\ UNCHANGED <<event, points, locked, notes, eventLock, pointLock, lock>>

\* A plausible bug: a contact without phone and email is counted.
SkipContactCounted(r) ==
    /\ At(r, {"trigger"}, "notify") /\ req[r].targets > 0
    /\ req' = [req EXCEPT ![r].targets = @ - 1, ![r].count = @ + 1]
    /\ UNCHANGED <<event, points, locked, notes, eventLock, pointLock, lock, delivered>>

\* A contact without phone and email is left out.
SkipContact(r) ==
    /\ At(r, {"trigger"}, "notify") /\ req[r].targets > 0
    /\ req' = [req EXCEPT ![r].targets = @ - 1]
    /\ UNCHANGED <<event, points, locked, notes, eventLock, pointLock, lock, delivered>>

\* All are notified: the count is flushed to the event, which nobody else sees.
Notified(r) ==
    /\ At(r, {"trigger"}, "notify") /\ req[r].targets = 0
    /\ req' = [req EXCEPT ![r].pc = "audit"]
    /\ UNCHANGED <<event, points, locked, notes, eventLock, pointLock, lock, delivered>>

\* The UPDATE of an event waits for the lock of its row.
Flush(r) ==
    /\ At(r, {"acknowledge", "resolve"}, "flush")
    /\ eventLock[req[r].event] = Nobody
    /\ eventLock' = [eventLock EXCEPT ![req[r].event] = r]
    /\ req' = [req EXCEPT ![r].pc = "audit"]
    /\ UNCHANGED <<event, points, locked, notes, pointLock, lock, delivered>>

\* A plausible bug: the PATCH of a point is recorded before it is written.
RecordEarly(r) ==
    /\ At(r, Ops, "audit") \/ At(r, {"update"}, "points")
    /\ lock \in {Nobody} \cup {q \in {r} : At(r, Ops, "audit")}
    /\ lock' = r
    /\ req' = IF req[r].pc = "audit" THEN [req EXCEPT ![r].pc = "commit"] ELSE req
    /\ UNCHANGED <<event, points, locked, notes, eventLock, pointLock, delivered>>

\* AuditService.record waits for the advisory lock.
Record(r) ==
    /\ At(r, Ops, "audit")
    /\ lock = Nobody
    /\ lock' = r
    /\ req' = [req EXCEPT ![r].pc = "commit"]
    /\ UNCHANGED <<event, points, locked, notes, eventLock, pointLock, delivered>>

Release(r) ==
    /\ req' = [req EXCEPT ![r] = Idle]
    /\ lock' = IF lock = r THEN Nobody ELSE lock
    /\ eventLock' = [e \in Events |-> IF eventLock[e] = r THEN Nobody ELSE eventLock[e]]
    /\ pointLock' = [p \in Points |-> IF pointLock[p] = r THEN Nobody ELSE pointLock[p]]
    /\ UNCHANGED delivered

\* The event's row after the request, over what others have committed.
Written(r, now) ==
    LET q == req[r] IN
    CASE q.op = "trigger"     -> [status |-> "active", type |-> q.type,
                                  notified |-> q.count, resolved_at |-> FALSE]
      [] q.op = "acknowledge" -> IF eventLock[q.event] = r
                                 THEN [now EXCEPT !.status = "acknowledged"] ELSE now
      [] q.op = "resolve"     -> [now EXCEPT !.status = "resolved", !.resolved_at = TRUE]

Commit(r) ==
    LET q == req[r]  e == q.event IN
    /\ At(r, Ops, "commit")
    /\ event' = IF e = Nobody THEN event ELSE [event EXCEPT ![e] = Written(r, @)]
    /\ points' = CASE q.op = "create" -> points \cup {p \in Points : pointLock[p] = r}
                   [] q.op = "delete" -> points \ {p \in Points : pointLock[p] = r}
                   [] OTHER -> points
    /\ locked' = [p \in Points |-> IF pointLock[p] = r THEN q.value ELSE locked[p]]
    /\ notes' = IF q.op = "trigger" THEN [notes EXCEPT ![e] = [all |-> q.rows, sent |-> q.sent]]
                                    ELSE notes
    /\ Release(r)

\* The transaction ends without a commit; what was sent stays sent.
Abort(r) ==
    /\ req[r] # Idle
    /\ Release(r)
    /\ UNCHANGED <<event, points, locked, notes>>

\* The PATCH of a row that was deleted meanwhile matches none: StaleDataError.
StalePoint(r) ==
    /\ At(r, {"update"}, "points")
    /\ pointLock[req[r].next] = Nobody /\ req[r].next \notin points
    /\ Abort(r)

\* Who a request waits for.
WaitsFor(r) ==
    CASE req[r].pc = "points" -> pointLock[req[r].next]
      [] req[r].pc = "flush"  -> eventLock[req[r].event]
      [] req[r].pc = "audit"  -> lock
      [] OTHER -> Nobody

\* Requests that wait for each other: each one for another one of them.
Cycle(S) == S # {} /\ {WaitsFor(r) : r \in S} = S

\* deadlock_timeout has passed: PostgreSQL ends one of them.
Victim(r) == (\E S \in SUBSET Requests : r \in S /\ Cycle(S)) /\ Abort(r)

Arrive(r) ==
    \/ StartTrigger(r) \/ StartAcknowledge(r) \/ StartResolve(r)
    \/ StartCreate(r) \/ StartUpdate(r) \/ StartDelete(r)

Proceed(r) ==
    \/ TakePoint(r) \/ PassPoint(r) \/ StalePoint(r)
    \/ Dispatch(r) \/ SkipContact(r) \/ Notified(r)
    \/ Flush(r) \/ Record(r) \/ Commit(r) \/ Victim(r)

Next == \E r \in Requests : Arrive(r) \/ Proceed(r) \/ Abort(r)

Spec == Init /\ [][Next]_vars

\* A request that can go on does; the lock manager grants a lock to each of
\* its waiters in the end.
FairSpec ==
    Spec /\ \A r \in Requests :
        /\ WF_vars(Proceed(r)) /\ SF_vars(Flush(r)) /\ SF_vars(Record(r))
        /\ SF_vars(TakePoint(r) \/ PassPoint(r) \/ StalePoint(r))

-------------------------------------------------------------------------------
(* Properties.                                                             *)

\* emergency_service.py:3-5: when a lockdown is stored, every point that was at the
\* site when its UPDATE was sent is locked or deleted, and unlocked or deleted when
\* its resolution is stored, whatever else is changing, adding and deleting points
\* at the time.
SiteFollows ==
    [][\A r \in Requests :
         At(r, {"trigger", "resolve"}, "commit") /\ req[r].type = "lockdown" /\ Commit(r)
            => \A p \in req[r].found \cap points' : locked'[p] = (req[r].op = "trigger")]_vars

\* The number an emergency reports is that of its notification rows, and one
\* that is recorded as sent was sent.
CountedIsRecorded ==
    \A e \in Events : /\ event[e].notified = notes[e].all
                      /\ notes[e].sent <= notes[e].all
                      /\ notes[e].sent <= delivered[e]

\* Requests wait for each other only over the access points, and only when
\* each of them is a lockdown or the resolution of one.
DeadlockNeedsLockdowns ==
    \A S \in SUBSET Requests : Cycle(S) =>
        \A r \in S : At(r, {"trigger", "resolve"}, "points") /\ req[r].type = "lockdown"

\* No request waits for ever.
RequestsEnd == \A r \in Requests : []<>(req[r] = Idle)

-------------------------------------------------------------------------------
(* What a reader may expect, and the code does not keep.                   *)

\* A lockdown "locks the site's access points": when it is stored, all of them.
SiteWhollyFollows ==
    [][\A r \in Requests :
         At(r, {"trigger", "resolve"}, "commit") /\ req[r].type = "lockdown" /\ Commit(r)
            => \A p \in points' : locked'[p] = (req[r].op = "trigger")]_vars

\* An access point stays locked while a lockdown is not resolved.
LockdownHolds ==
    \A e \in Events : event[e].type = "lockdown" /\ ~ event[e].resolved_at
        => \A p \in points : locked[p]
===============================================================================
