-------------------------------- MODULE Estate --------------------------------
(***************************************************************************)
(* The organisations of the platform and their estate: create, update and  *)
(* delete of services/org_service.py over the foreign keys of              *)
(* models/organization.py and models/site.py.                              *)
(*                                                                         *)
(* An INSERT looks the rows it refers to up and shares their locks until   *)
(* it commits, one foreign key after the other.  A deletion deletes the    *)
(* rows the session had loaded below its row, then the row; wherever it    *)
(* deletes a row the database deletes what is below and clears the links   *)
(* to it.  The audit entry comes last.                                     *)
(*                                                                         *)
(* Names are distinct from those of the other modules, so that a module    *)
(* may extend this one next to another.                                    *)
(***************************************************************************)
EXTENDS FiniteSets

CONSTANTS
    Clerks,    \* requests; each is made once and names the row it inserts
    Founded,   \* the rows that are there at the start
    Nil        \* no link

Kinds == {"organization", "branch", "department", "site", "building", "zone", "checkpoint"}

\* The kinds a row must refer to: ON DELETE CASCADE.
Above(kind) ==
    CASE kind = "organization" -> {}
      [] kind \in {"branch", "department", "site"} -> {"organization"}
      [] kind = "building" -> {"site"}
      [] kind \in {"zone", "checkpoint"} -> {"organization", "site"}

\* The kind a row may refer to: ON DELETE SET NULL.
Beside(kind) ==
    CASE kind = "site" -> {"branch"} [] kind = "department" -> {"department"}
      [] kind = "zone" -> {"building"} [] kind = "checkpoint" -> {"zone"} [] OTHER -> {}

\* The kinds a session loads with a row, and deletes with it.
Loaded(kind) ==
    CASE kind = "organization" -> {"branch", "department"}
      [] kind = "site" -> {"building", "zone"} [] OTHER -> {}

Ids == {x.id : x \in Founded} \cup Clerks
Holding == [id : Ids, kind : Kinds, above : SUBSET Ids, link : Ids \cup {Nil}]

\* What the founded rows refer to is founded too.
ASSUME FoundedAssumption ==
    /\ Nil \notin Ids /\ Founded \subseteq Holding
    /\ \A x \in Founded : LET founded == {y.id : y \in Founded}
                         IN x.above \subseteq founded /\ x.link \in founded \cup {Nil}

VARIABLES
    estate,    \* the committed rows
    rowLocks,  \* the locks of rows: who, which row, in which mode
    clerk,     \* the requests
    removals   \* the committed audit entries of deletions: who, which row

estateVars == <<estate, rowLocks, clerk, removals>>

\* FOR KEY SHARE, FOR NO KEY UPDATE, FOR UPDATE.
Modes == {"share", "update", "delete"}
Want == [row : Ids, mode : Modes]
\* A request: the row it inserts or is about, the locks it has still to take,
\* and the one it is taking.
Clerk == [op : {"create", "update", "delete"}, pc : {"rows", "audit", "commit"},
          row : Holding, todo : SUBSET Want, next : Want]
Off == [pc |-> "off"]
Home == [pc |-> "home"]

EstateTypeOK ==
    /\ estate \subseteq Holding
    /\ rowLocks \subseteq [by : Clerks, row : Ids, mode : Modes]
    /\ clerk \in [Clerks -> Clerk \cup {Off, Home}]
    /\ removals \subseteq Clerks \X Ids

EstateInit ==
    /\ estate = Founded
    /\ rowLocks = {} /\ removals = {}
    /\ clerk = [c \in Clerks |-> Off]

-------------------------------------------------------------------------------
(* Locks.                                                                  *)

Working(c) == clerk[c].pc \in {"rows", "audit", "commit"}
Standing == {x.id : x \in estate}
IdsOf(kinds) == {x.id : x \in {y \in estate : y.kind \in kinds}}

\* A key share does not conflict with an update that leaves the key alone.
Compatible(m, n) == "share" \in {m, n} /\ "delete" \notin {m, n}

Opposing(c) ==
    {l.by : l \in {k \in rowLocks : /\ k.by # c /\ k.row = clerk[c].next.row
                                    /\ ~ Compatible(k.mode, clerk[c].next.mode)}}

\* The locks that are left are taken in any order, but the row that is deleted
\* comes after what the session deletes before it.
Onward(c, rest) ==
    IF rest = {} THEN clerk' = [clerk EXCEPT ![c].todo = {}, ![c].pc = "audit"]
    ELSE \E w \in rest :
           /\ w.row # clerk[c].row.id \/ rest = {w}
           /\ clerk' = [clerk EXCEPT ![c].todo = rest, ![c].next = w]

Enter(c, op, row, todo) ==
    /\ clerk[c] = Off
    /\ \E w \in todo \cup {[row |-> c, mode |-> "share"]} :
         /\ todo # {} => w \in todo /\ (w.row # row.id \/ todo = {w})
         /\ clerk' = [clerk EXCEPT ![c] =
              [op |-> op, pc |-> IF todo = {} THEN "audit" ELSE "rows", row |-> row,
               todo |-> todo, next |-> w]]
    /\ UNCHANGED <<estate, rowLocks, removals>>

\* The caller names the rows above and beside, each of them by itself.
Insert(c, kind) ==
    \E above \in SUBSET IdsOf(Above(kind)), link \in IdsOf(Beside(kind)) \cup {Nil} :
      /\ \A k \in Above(kind) : Cardinality(above \cap IdsOf({k})) = 1
      /\ Enter(c, "create", [id |-> c, kind |-> kind, above |-> above, link |-> link],
               [row : above \cup ({link} \ {Nil}), mode : {"share"}])

CreateOrg(c) == Insert(c, "organization")
CreateBranch(c) == Insert(c, "branch")
CreateDepartment(c) == Insert(c, "department")
CreateSite(c) == Insert(c, "site")
CreateBuilding(c) == Insert(c, "building")
CreateZone(c) == Insert(c, "zone")
CreateCheckpoint(c) == Insert(c, "checkpoint")

\* A row that is there; columns that refer to nothing change.
Amend(c, kind) == \E x \in {y \in estate : y.kind = kind} :
    Enter(c, "update", x, {[row |-> x.id, mode |-> "update"]})

UpdateOrg(c) == Amend(c, "organization")
UpdateSite(c) == Amend(c, "site")

\* A row that is there goes, after those the session loaded with it.
Remove(c, kind) == \E x \in {y \in estate : y.kind = kind} :
    LET loaded == {y.id : y \in {z \in estate : x.id \in z.above /\ z.kind \in Loaded(kind)}} IN
    Enter(c, "delete", x, [row : loaded \cup {x.id}, mode : {"delete"}])

DeleteOrg(c) == Remove(c, "organization")
DeleteSite(c) == Remove(c, "site")
DeleteZone(c) == Remove(c, "zone")

\* What the deletion of a row reaches: ON DELETE CASCADE and SET NULL.
Reached(row) ==
    {[row |-> x.id, mode |-> "delete"] : x \in {y \in estate : row \in y.above}} \cup
    {[row |-> x.id, mode |-> "update"] : x \in {y \in estate : y.link = row}}

Mine(c) == {[row |-> l.row, mode |-> l.mode] : l \in {k \in rowLocks : k.by = c}}

\* A plausible bug: the checks of an INSERT take no locks.
TakeRowUnshared(c) ==
    LET w == clerk[c].next IN
    /\ clerk[c].pc = "rows" /\ (w.mode # "share" => Opposing(c) = {}) /\ w.row \in Standing
    /\ rowLocks' = IF w.mode = "share" THEN rowLocks
                   ELSE rowLocks \cup {[by |-> c, row |-> w.row, mode |-> w.mode]}
    /\ Onward(c, (clerk[c].todo \ {w}) \cup
                 (IF w.mode = "delete" THEN Reached(w.row) \ Mine(c) ELSE {}))
    /\ UNCHANGED <<estate, removals>>

\* The lock is waited for, and taken.
TakeRow(c) ==
    LET w == clerk[c].next IN
    /\ clerk[c].pc = "rows" /\ Opposing(c) = {} /\ w.row \in Standing
    /\ rowLocks' = rowLocks \cup {[by |-> c, row |-> w.row, mode |-> w.mode]}
    /\ Onward(c, (clerk[c].todo \ {w}) \cup
                 (IF w.mode = "delete" THEN Reached(w.row) \ Mine(c) ELSE {}))
    /\ UNCHANGED <<estate, removals>>

\* The row to be deleted, or cleared of a link, is gone: none is met, and the
\* session only warns.
PassRow(c) ==
    /\ clerk[c].pc = "rows" /\ clerk[c].op = "delete" /\ clerk[c].next.row \notin Standing
    /\ Onward(c, clerk[c].todo \ {clerk[c].next})
    /\ UNCHANGED <<estate, rowLocks, removals>>

-------------------------------------------------------------------------------
(* The audit entry and the end.                                            *)

\* The requests that hold the audit advisory lock.
Scribes == {c \in Clerks : clerk[c].pc = "commit"}

\* AuditService.record waits for the advisory lock.
RecordClerk(c) ==
    /\ clerk[c].pc = "audit" /\ Scribes = {}
    /\ clerk' = [clerk EXCEPT ![c].pc = "commit"]
    /\ UNCHANGED <<estate, rowLocks, removals>>

Leave(c) ==
    /\ clerk' = [clerk EXCEPT ![c] = Home]
    /\ rowLocks' = {l \in rowLocks : l.by # c}

\* The rows that are left when those of `gone` are deleted.
Without(gone) ==
    {[x EXCEPT !.link = IF @ \in gone THEN Nil ELSE @] : x \in {y \in estate : y.id \notin gone}}

CommitClerk(c) ==
    LET gone == {w.row : w \in {v \in Mine(c) : v.mode = "delete"}} IN
    /\ clerk[c].pc = "commit"
    /\ estate' = IF clerk[c].op = "create" THEN estate \cup {clerk[c].row} ELSE Without(gone)
    /\ removals' = IF clerk[c].op # "delete" THEN removals
                   ELSE removals \cup {<<c, clerk[c].row.id>>}
    /\ Leave(c)

\* The transaction ends without a commit.
AbortClerk(c) ==
    /\ Working(c) /\ Leave(c) /\ UNCHANGED <<estate, removals>>

\* The row a new one refers to, or an UPDATE, is gone: a foreign key violation,
\* or StaleDataError.
Missed(c) ==
    /\ clerk[c].pc = "rows" /\ clerk[c].op # "delete" /\ clerk[c].next.row \notin Standing
    /\ AbortClerk(c)

\* Who a request waits for.
Awaits(c) ==
    CASE clerk[c].pc = "rows" -> Opposing(c) [] clerk[c].pc = "audit" -> Scribes
      [] OTHER -> {}

\* Requests each of which waits for another one of them.
Stuck(S) == S # {} /\ \A c \in S : Awaits(c) \cap S # {}

\* deadlock_timeout has passed: PostgreSQL ends one of them.
VictimClerk(c) == (\E S \in SUBSET Clerks : c \in S /\ Stuck(S)) /\ AbortClerk(c)

EstateNext == \E c \in Clerks :
    \/ CreateOrg(c) \/ CreateBranch(c) \/ CreateDepartment(c) \/ CreateSite(c)
    \/ CreateBuilding(c) \/ CreateZone(c) \/ CreateCheckpoint(c)
    \/ UpdateOrg(c) \/ UpdateSite(c) \/ DeleteOrg(c) \/ DeleteSite(c) \/ DeleteZone(c)
    \/ TakeRow(c) \/ PassRow(c) \/ Missed(c) \/ RecordClerk(c)
    \/ CommitClerk(c) \/ AbortClerk(c) \/ VictimClerk(c)

EstateSpec == EstateInit /\ [][EstateNext]_estateVars

-------------------------------------------------------------------------------
(* Properties.                                                             *)

\* Nothing hangs in the air: what a row must refer to is there, and what it
\* may refer to is there or was cleared, whatever was created while it was
\* deleted.
NothingDangles ==
    \A x \in estate : x.above \subseteq Standing /\ x.link \in Standing \cup {Nil}

\* Requests wait for each other only when one of them deletes, and over rows
\* alone: creations and updates never do, nor does who waits for the audit
\* lock or has it.
DeadlockNeedsDeletion ==
    \A S \in SUBSET Clerks : Stuck(S) =>
        /\ \E c \in S : clerk[c].op = "delete" /\ clerk[c].pc = "rows"
        /\ Scribes \cap S = {}

\* Both.
EstateHolds == NothingDangles /\ DeadlockNeedsDeletion

-------------------------------------------------------------------------------
(* What a reader may expect, and the code does not keep.                   *)

\* base.py:69: every row carries the organisation that owns it; it is the
\* organisation of its site.
OwnedWithTheirSite ==
    \A x, s \in estate :
        s.kind = "site" /\ s.id \in x.above /\ "organization" \in Above(x.kind)
          => s.above \subseteq x.above

\* A building is linked to by zones of its own site.
LinkedInTheirSite ==
    \A x, b \in estate : b.kind = "building" /\ x.link = b.id => b.above \subseteq x.above

\* The deletion of a row is recorded once.
RemovedOnce == \A p, q \in removals : p[2] = q[2] => p = q
===============================================================================
