---------------------------- MODULE SiteOperations ----------------------------
(***************************************************************************)
(* The daily work at one site: services/physical_service.py with           *)
(* services/crud.py.  A visitor of one name is registered unless the name  *)
(* is blacklisted, and goes through the statuses of a visit; a vehicle of  *)
(* one plate is registered, put on and off the watchlist, and seen by the  *)
(* cameras at the gate; a patrol is scanned at checkpoints and completed.  *)
(* PatrolService.start has no caller and is no operation here.             *)
(*                                                                         *)
(* A request reads what it decides by, and writes and commits in one later *)
(* step: it reads nothing between its writes and its commit, so only the   *)
(* order of the commits is seen.                                           *)
(*                                                                         *)
(* Names are distinct from those of the other modules, so that a module    *)
(* may extend this one next to another.                                    *)
(***************************************************************************)
EXTENDS Integers, FiniteSets

CONSTANTS
    Visits,   \* requests of the site; each is made once and names its row
    First     \* the row that is there at the start

ASSUME FirstAssumption == First \notin Visits

VARIABLES
    visitors,   \* committed rows of the name: status, and whether one was banned then
    vehicles,   \* committed rows of the plate
    passages,   \* committed ANPR events of the plate
    patrol,     \* the committed status of the patrol
    scans,      \* the committed scans
    visit,      \* the requests
    finished,   \* history: complete has committed
    crossing    \* history: two requests have been in flight at once

siteVars == <<visitors, vehicles, passages, patrol, scans, visit, finished, crossing>>

\* "pre_registered", "pending_approval", "denied" are like "approved".
VisitorStatus == {"approved", "checked_in", "checked_out", "blacklisted"}
\* "missed" and "cancelled" are never set.
PatrolStatus == {"scheduled", "in_progress", "completed"}

RowIds == Visits \cup {First}
Visitor == [id : RowIds, status : VisitorStatus, banned : BOOLEAN]
Vehicle == [id : RowIds, listed : BOOLEAN]
Passage == [id : Visits, authorized : BOOLEAN, listed : BOOLEAN]
SiteOps == {"register", "status", "vehicle", "list", "anpr", "scan", "complete"}
\* A request: the row it writes, the value it read there, and the new one.
Visit == [op : SiteOps, row : RowIds, was : BOOLEAN, on : BOOLEAN,
          seen : VisitorStatus, to : VisitorStatus, patrol : PatrolStatus]
Away == [op |-> "away"]
Over == [op |-> "over"]

SiteTypeOK ==
    /\ visitors \subseteq Visitor /\ vehicles \subseteq Vehicle
    /\ passages \subseteq Passage /\ patrol \in PatrolStatus /\ scans \subseteq Visits
    /\ visit \in [Visits -> Visit \cup {Away, Over}]
    /\ finished \in BOOLEAN /\ crossing \in BOOLEAN

\* Somebody of the name has been registered, the patrol is scheduled.
SiteInit ==
    /\ visitors = {[id |-> First, status |-> "approved", banned |-> FALSE]}
    /\ vehicles = {} /\ passages = {} /\ scans = {} /\ patrol = "scheduled"
    /\ visit = [v \in Visits |-> Away]
    /\ finished = FALSE /\ crossing = FALSE

-------------------------------------------------------------------------------
(* What the requests read.                                                 *)

Present(v) == visit[v].op \in SiteOps
Blacklisted == \E x \in visitors : x.status = "blacklisted"

Read(v, q) ==
    /\ visit[v] = Away
    /\ visit' = [visit EXCEPT ![v] = q]
    /\ crossing' = (crossing \/ \E w \in Visits : Present(w))
    /\ UNCHANGED <<visitors, vehicles, passages, patrol, scans, finished>>

Asks(op, row, was, on, seen, to) ==
    [op |-> op, row |-> row, was |-> was, on |-> on, seen |-> seen, to |-> to, patrol |-> patrol]

\* register_visitor: refused when the name is blacklisted.
Register(v) ==
    Read(v, IF Blacklisted THEN Over
            ELSE Asks("register", v, FALSE, FALSE, "approved", "approved"))

SetStatus(v) == \E x \in visitors, to \in VisitorStatus :
    Read(v, Asks("status", x.id, FALSE, FALSE, x.status, to))

AddVehicle(v) == \E listed \in BOOLEAN :
    Read(v, Asks("vehicle", v, FALSE, listed, "approved", "approved"))

Watchlist(v) == \E x \in vehicles, listed \in BOOLEAN :
    Read(v, Asks("list", x.id, x.listed, listed, "approved", "approved"))

\* record_anpr: find_by_plate raises when two vehicles have the plate.
Anpr(v) ==
    Read(v, IF Cardinality(vehicles) > 1 THEN Over
            ELSE Asks("anpr", v, \E x \in vehicles : x.listed, FALSE, "approved", "approved"))

Scan(v) == Read(v, Asks("scan", v, FALSE, FALSE, "approved", "approved"))
Complete(v) == Read(v, Asks("complete", v, FALSE, FALSE, "approved", "approved"))

-------------------------------------------------------------------------------
(* What they write: a column only if its value differs from what was read. *)

VisitorsAfter(q) ==
    CASE q.op = "register" ->
           visitors \cup {[id |-> q.row, status |-> q.to, banned |-> Blacklisted]}
      [] q.op = "status" /\ q.to # q.seen ->
           {IF x.id = q.row THEN [x EXCEPT !.status = q.to] ELSE x : x \in visitors}
      [] OTHER -> visitors

VehiclesAfter(q) ==
    CASE q.op = "vehicle" -> vehicles \cup {[id |-> q.row, listed |-> q.on]}
      [] q.op = "list" /\ q.on # q.was ->
           {IF x.id = q.row THEN [x EXCEPT !.listed = q.on] ELSE x : x \in vehicles}
      [] OTHER -> vehicles

PassagesAfter(q) ==
    IF q.op # "anpr" THEN passages
    ELSE passages \cup {[id |-> q.row, authorized |-> ~ q.was,
                         listed |-> \E x \in vehicles : x.listed]}

\* A plausible bug: a scan after the patrol has ended starts it again.
PatrolRestarted(q) ==
    IF q.op = "scan" THEN "in_progress" ELSE IF q.op = "complete" THEN "completed" ELSE patrol

\* The status of the patrol after a request.
PatrolAfter(q) ==
    CASE q.op = "scan" /\ q.patrol = "scheduled" -> "in_progress"
      [] q.op = "complete" /\ q.patrol # "completed" -> "completed"
      [] OTHER -> patrol

Save(v) ==
    LET q == visit[v] IN
    /\ Present(v)
    /\ visitors' = VisitorsAfter(q) /\ vehicles' = VehiclesAfter(q)
    /\ passages' = PassagesAfter(q) /\ patrol' = PatrolAfter(q)
    /\ scans' = scans \cup {x \in {v} : q.op = "scan"}
    /\ finished' = (finished \/ q.op = "complete")
    /\ visit' = [visit EXCEPT ![v] = Over]
    /\ UNCHANGED crossing

GiveUp(v) ==
    /\ Present(v)
    /\ visit' = [visit EXCEPT ![v] = Over]
    /\ UNCHANGED <<visitors, vehicles, passages, patrol, scans, finished, crossing>>

SiteNext == \E v \in Visits :
    \/ Register(v) \/ SetStatus(v) \/ AddVehicle(v) \/ Watchlist(v) \/ Anpr(v)
    \/ Scan(v) \/ Complete(v) \/ Save(v) \/ GiveUp(v)

SiteSpec == SiteInit /\ [][SiteNext]_siteVars

-------------------------------------------------------------------------------
(* Properties.                                                             *)

\* A patrol that was scanned is under way or over, also when scans and its
\* completion cross: whichever of them commits last, none of them takes it
\* back to "scheduled".
ScansStartPatrol == scans # {} \/ finished => patrol # "scheduled"

\* As long as requests come one at a time, a patrol that was completed stays
\* so, a plate is let through exactly when no vehicle of it is on the
\* watchlist, and nobody of a blacklisted name is registered.
SerialSite ==
    crossing \/
      /\ finished => patrol = "completed"
      /\ \A p \in passages : p.authorized <=> ~ p.listed
      /\ \A x \in visitors : ~ x.banned

\* The patrol in every interleaving, the rest one at a time.
SiteInOrder == ScansStartPatrol /\ SerialSite

-------------------------------------------------------------------------------
(* What a reader may expect, and the code does not keep.                   *)

\* A completed patrol is not taken up again.
CompletedIsFinal == finished => patrol = "completed"

\* physical_service.py:6: nobody of a blacklisted name is on the site.
BlacklistedStaysOut == Blacklisted => \A x \in visitors : x.status # "checked_in"

\* physical_service.py:234: a plate is that of one vehicle.
PlateHasOneVehicle == Cardinality(vehicles) <= 1
===============================================================================
