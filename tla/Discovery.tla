------------------------------- MODULE Discovery -------------------------------
(***************************************************************************)
(* The asset inventory and network discovery: services/asset_service.py    *)
(* (create, update, delete, upsert_from_discovery) and run_scan of         *)
(* services/discovery_service.py, as concurrent transactions.              *)
(*                                                                         *)
(* No constraint keeps two assets from having one address: find_by_ip      *)
(* raises when it meets two.  What keeps discovery from inserting a second *)
(* one is the audit advisory lock.  run_scan records scan_started before   *)
(* it probes the network and keeps the lock until it commits, and whoever  *)
(* changes an asset commits under that lock.  update flushes its row       *)
(* first and records then; a scan and delete hold the audit lock when they *)
(* ask for a row: they can wait for each other, and PostgreSQL ends one.   *)
(***************************************************************************)
EXTENDS FiniteSets, Naturals

CONSTANTS
    Requests,  \* concurrent requests; each runs one operation at a time
    Assets,    \* asset ids
    Scans,     \* discovery scans that were created
    Ips,       \* the addresses of the network, and of the targets of each scan
    None       \* no row, no address, nobody

ASSUME IdsAssumption == Assets \cap Scans = {}
ASSUME NoneAssumption == None \notin Requests \cup Assets \cup Scans \cup Ips

VARIABLES
    asset,    \* the address of each committed asset; None: there is no such row
    scan,     \* the committed status of each scan
    host,     \* the committed discovered_hosts of each scan that were alive
    rowLock,  \* the request that holds the lock of each row
    lock,     \* the request that holds the audit advisory lock
    req       \* the requests

vars == <<asset, scan, host, rowLock, lock, req>>

\* ScanStatus.
Status == {"pending", "running", "completed", "failed"}
\* A discovered host; its asset is None once that was deleted (SET NULL).
Host == [ip : Ips, asset : Assets \cup {None}]

Ops == {"create", "update", "delete", "scan"}

\* Where a request is: an UPDATE or DELETE of the row it works on, the audit
\* lock, the scanner, find_by_ip of the next result, the UPDATE that refreshes
\* an asset, or the commit of get_db.
Steps == {"flush", "audit", "probe", "lookup", "refresh", "commit"}

\* A request works on one row, with an address it may give to it.  A scan has
\* results to look up, links its hosts to assets, and inserts some of these.
Request == [op : Ops, pc : Steps, id : Assets \cup Scans, ip : Ips \cup {None},
            todo : SUBSET Ips, hosts : SUBSET [ip : Ips, asset : Assets],
            new : SUBSET [ip : Ips, asset : Assets]]
Idle == [pc |-> "idle"]

TypeOK ==
    /\ asset \in [Assets -> Ips \cup {None}]
    /\ scan \in [Scans -> Status]
    /\ host \in [Scans -> SUBSET Host]
    /\ rowLock \in [Assets \cup Scans -> Requests \cup {None}]
    /\ lock \in Requests \cup {None}
    /\ req \in [Requests -> Request \cup {Idle}]

\* Scans were created; the inventory has assets with different addresses.
Init ==
    /\ asset \in {f \in [Assets -> Ips \cup {None}] :
                    \A a, b \in Assets : f[a] = f[b] /\ f[a] # None => a = b}
    /\ scan = [s \in Scans |-> "pending"]
    /\ host = [s \in Scans |-> {}]
    /\ rowLock = [x \in Assets \cup Scans |-> None]
    /\ lock = None
    /\ req = [r \in Requests |-> Idle]

-------------------------------------------------------------------------------
(* Steps of a request.                                                     *)

At(r, ops, pc) == req[r].pc = pc /\ req[r].op \in ops

Exists(a) == asset[a] # None
Known == {a \in Assets : Exists(a)}

\* Asset ids that no row and no request has: the ids are fresh uuids.
Unused == {a \in Assets \ Known : \A r \in Requests :
             req[r] # Idle => req[r].id # a /\ \A h \in req[r].hosts : h.asset # a}

Start(r, op, pc, id, ip) ==
    /\ req[r] = Idle
    /\ req' = [req EXCEPT ![r] =
         [op |-> op, pc |-> pc, id |-> id, ip |-> ip, todo |-> {}, hosts |-> {},
          new |-> {}]]
    /\ UNCHANGED <<asset, scan, host, rowLock, lock>>

\* A plausible bug: create forgets the id of its row.
StartCreateNoId(r) == \E ip \in Ips : Start(r, "create", "audit", None, ip)

\* create inserts whatever address it is given and then records.
StartCreate(r) == \E a \in Unused, ip \in Ips : Start(r, "create", "audit", a, ip)

\* update loads the asset, changes its address or only other columns (None),
\* and flushes.
StartUpdate(r) ==
    \E a \in Known : \E ip \in (Ips \ {asset[a]}) \cup {None} :
        Start(r, "update", "flush", a, ip)

\* A plausible bug: delete flushes before it records.
FlushesFirstDelete(op) == op \in {"update", "scan", "delete"}

\* The operations that write their row before they take the audit lock; the
\* DELETE of an asset is flushed with its entry, under the lock.
FlushesFirst(op) == op \in {"update", "scan"}

\* delete loads the asset.
StartDelete(r) ==
    \E a \in Known :
        Start(r, "delete", IF FlushesFirst("delete") THEN "flush" ELSE "audit", a, None)

\* run_scan takes a scan of any status, marks it running and flushes.
StartScan(r) == \E s \in Scans : Start(r, "scan", "flush", s, None)

\* The transaction ends and gives its locks back.
End(r) ==
    /\ req' = [req EXCEPT ![r] = Idle]
    /\ lock' = IF lock = r THEN None ELSE lock
    /\ rowLock' = [x \in Assets \cup Scans |->
                     IF rowLock[x] = r THEN None ELSE rowLock[x]]

\* It ends without a commit: an exception, a lost connection.
Abort(r) ==
    /\ req[r] # Idle
    /\ End(r)
    /\ UNCHANGED <<asset, scan, host>>

\* UPDATE or DELETE of the row the request works on, once nobody else has it.
\* update finds its row deleted: StaleDataError.
Flush(r) ==
    /\ At(r, Ops, "flush")
    /\ rowLock[req[r].id] = None
    /\ IF req[r].op = "update" /\ ~ Exists(req[r].id)
       THEN Abort(r)
       ELSE /\ rowLock' = [rowLock EXCEPT ![req[r].id] = r]
            /\ req' = [req EXCEPT ![r].pc = IF FlushesFirst(req[r].op) THEN "audit"
                                                                       ELSE "commit"]
            /\ UNCHANGED <<asset, scan, host, lock>>

\* What a request does next when it has the audit lock.
Recorded(op) == CASE op = "scan" -> "probe"
                  [] op = "delete" /\ ~ FlushesFirst(op) -> "flush"
                  [] OTHER -> "commit"

\* A plausible bug: the scan records its start with its results, at the end.
RecordScanLate(r) ==
    /\ At(r, Ops, "audit")
    /\ \/ At(r, {"scan"}, "audit") /\ UNCHANGED lock
       \/ ~ At(r, {"scan"}, "audit") /\ lock = None /\ lock' = r
    /\ req' = [req EXCEPT ![r].pc = Recorded(req[r].op)]
    /\ UNCHANGED <<asset, scan, host, rowLock>>

\* AuditService.record waits for the advisory lock.
Record(r) ==
    /\ At(r, Ops, "audit")
    /\ lock = None
    /\ lock' = r
    /\ req' = [req EXCEPT ![r].pc = Recorded(req[r].op)]
    /\ UNCHANGED <<asset, scan, host, rowLock>>

\* The scanner returns the hosts that answered.
Probe(r) ==
    /\ At(r, {"scan"}, "probe")
    /\ \E alive \in SUBSET Ips :
         req' = [req EXCEPT ![r].todo = alive, ![r].pc = "lookup"]
    /\ UNCHANGED <<asset, scan, host, rowLock, lock>>

\* The scanner raises: run_scan flushes the status failed, records that and
\* raises again.
ProbeFails(r) == At(r, {"scan"}, "probe") /\ Abort(r)

\* find_by_ip.
WithIp(ip) == {a \in Assets : asset[a] = ip}

\* upsert_from_discovery of the next host that answered: it is inserted, it is
\* refreshed, or the lookup raises MultipleResultsFound.
Insert(r) ==
    /\ At(r, {"scan"}, "lookup")
    /\ \E ip \in req[r].todo, a \in Unused :
         /\ WithIp(ip) = {}
         /\ req' = [req EXCEPT ![r].todo = @ \ {ip},
                               ![r].hosts = @ \cup {[ip |-> ip, asset |-> a]},
                               ![r].new = @ \cup {[ip |-> ip, asset |-> a]}]
    /\ UNCHANGED <<asset, scan, host, rowLock, lock>>

Find(r) ==
    /\ At(r, {"scan"}, "lookup")
    /\ \E ip \in req[r].todo, a \in Assets :
         /\ WithIp(ip) = {a}
         /\ req' = [req EXCEPT ![r].todo = @ \ {ip}, ![r].pc = "refresh", ![r].ip = ip,
                               ![r].hosts = @ \cup {[ip |-> ip, asset |-> a]}]
    /\ UNCHANGED <<asset, scan, host, rowLock, lock>>

Ambiguous(r) ==
    /\ At(r, {"scan"}, "lookup")
    /\ \E ip \in req[r].todo : Cardinality(WithIp(ip)) > 1
    /\ Abort(r)

\* The asset a scan has just found.
Found(r) == CHOOSE a \in Assets : [ip |-> req[r].ip, asset |-> a] \in req[r].hosts

\* last_seen_at and the tags of a known asset are written: an UPDATE.
Refresh(r) ==
    /\ At(r, {"scan"}, "refresh")
    /\ rowLock[Found(r)] \in {None, r}
    /\ IF ~ Exists(Found(r))
       THEN Abort(r)
       ELSE /\ rowLock' = [rowLock EXCEPT ![Found(r)] = r]
            /\ req' = [req EXCEPT ![r].pc = "lookup"]
            /\ UNCHANGED <<asset, scan, host, lock>>

\* All results are stored: the scan is completed.
Finish(r) ==
    /\ At(r, {"scan"}, "lookup")
    /\ req[r].todo = {}
    /\ req' = [req EXCEPT ![r].pc = "commit"]
    /\ UNCHANGED <<asset, scan, host, rowLock, lock>>

\* The inventory with the rows of a request in it.
Stored(q) ==
    [a \in Assets |->
        CASE q.op \in {"create", "update"} /\ a = q.id /\ q.ip # None -> q.ip
          [] q.op = "delete" /\ a = q.id -> None
          [] q.op = "scan" /\ (\E h \in q.new : h.asset = a) ->
                (CHOOSE h \in q.new : h.asset = a).ip
          [] OTHER -> asset[a]]

\* The discovered hosts: those of the scan are added, a deleted asset is
\* unlinked.
Hosts(q) ==
    [s \in Scans |->
        CASE q.op = "scan" /\ s = q.id -> host[s] \cup q.hosts
          [] q.op = "delete" ->
                {IF h.asset = q.id THEN [h EXCEPT !.asset = None] ELSE h : h \in host[s]}
          [] OTHER -> host[s]]

\* get_db commits.
Commit(r) ==
    /\ At(r, Ops, "commit")
    /\ asset' = Stored(req[r])
    /\ host' = Hosts(req[r])
    /\ scan' = IF req[r].op = "scan" THEN [scan EXCEPT ![req[r].id] = "completed"] ELSE scan
    /\ End(r)

\* Who a request waits for.
WaitsFor(r) ==
    CASE At(r, Ops, "flush")        -> rowLock[req[r].id]
      [] At(r, {"scan"}, "refresh") -> rowLock[Found(r)]
      [] At(r, Ops, "audit")        -> lock
      [] OTHER                      -> None

\* Two requests that wait for each other; a longer cycle would need a second
\* lock that everybody queues for.
Deadlocked(r) == WaitsFor(r) \in Requests \ {r} /\ WaitsFor(WaitsFor(r)) = r

\* A plausible misconfiguration: lock waits without deadlock detection.
NoVictim(r) == FALSE /\ Deadlocked(r) /\ Abort(r)

\* deadlock_timeout has passed: PostgreSQL ends one of the two.
Victim(r) == Deadlocked(r) /\ Abort(r)

\* Bound: a scan that finds no id left for a new asset is given up.
NoIdLeft(r) ==
    /\ At(r, {"scan"}, "lookup")
    /\ Unused = {} /\ \E ip \in req[r].todo : WithIp(ip) = {}
    /\ Abort(r)

Arrive(r) == StartCreate(r) \/ StartUpdate(r) \/ StartDelete(r) \/ StartScan(r)

Proceed(r) ==
    \/ Flush(r) \/ Record(r) \/ Probe(r) \/ ProbeFails(r)
    \/ Insert(r) \/ Find(r) \/ Ambiguous(r) \/ Refresh(r) \/ Finish(r)
    \/ Commit(r) \/ Victim(r) \/ NoIdLeft(r)

Next == \E r \in Requests : Arrive(r) \/ Proceed(r) \/ Abort(r)

Spec == Init /\ [][Next]_vars

\* A request that can go on does: every probe has a timeout, and the lock
\* manager grants a lock to each of its waiters in the end.
FairSpec ==
    Spec /\ \A r \in Requests : SF_vars(Proceed(r))

-------------------------------------------------------------------------------
(* Properties.                                                             *)

\* Whatever a run of a scan dies of and whenever, it never leaves the scan
\* running: that status lives and dies in the transaction of run_scan.
OnlySettledScans == \A s \in Scans : scan[s] \in {"pending", "completed"}

\* upsert_from_discovery (asset_service.py:185-188) creates or refreshes:
\* discovery never inserts a second asset for an address, whatever else runs.
DiscoveryNeverDuplicates ==
    [][\A r \in Requests : At(r, {"scan"}, "commit") /\ Commit(r) =>
         \A h \in req[r].new : WithIp(h.ip) = {}]_vars

\* When a scan commits, each of its hosts is linked to the asset that has its
\* address, and to no other.
LinksAreCurrent ==
    [][\A r \in Requests : At(r, {"scan"}, "commit") /\ Commit(r) =>
         \A h \in req[r].hosts : {a \in Assets : asset'[a] = h.ip} = {h.asset}]_vars

\* The hosts of a scan link to assets that are there.
NoDanglingLink ==
    \A s \in Scans : \A h \in host[s] : h.asset # None => Exists(h.asset)

\* The links of discovered hosts: current when they are stored, and never to an
\* asset that is gone.
LinksInOrder == LinksAreCurrent /\ []NoDanglingLink

\* A deadlock is always between an update and a request that holds the audit
\* lock already.
DeadlockNeedsUpdate ==
    \A r \in Requests : Deadlocked(r) =>
        \E q \in {r, WaitsFor(r)} : req[q].op = "update" /\ lock = WaitsFor(q)

\* Every request ends, whatever the order of its locks.
RequestsEnd == \A r \in Requests : []<>(req[r] = Idle)

\* asset_service.py:187: "Matching is by IP blind index", which must then name
\* one asset.
LookupUnambiguous == \A ip \in Ips : Cardinality(WithIp(ip)) <= 1

\* discovery_service.py:117-125 stores the failed status and its entry: a run
\* whose scanner raises leaves the scan failed.
FailureIsRecorded ==
    [][\A r \in Requests : ProbeFails(r) => scan'[req[r].id] = "failed"]_vars
===============================================================================
