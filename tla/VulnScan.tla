------------------------------- MODULE VulnScan -------------------------------
(***************************************************************************)
(* Vulnerability scans and the alerts they raise: VulnService.run_scan and *)
(* set_finding_status of services/vuln_service.py, the alert engine of     *)
(* services/alert_engine.py that the endpoint runs in the same transaction *)
(* and the changes of assets that decide what the next run finds.          *)
(*                                                                         *)
(* A run first flushes the status "running": that UPDATE takes the lock of *)
(* the scan's row until the run's transaction ends.  The alert engine asks *)
(* whether a finding has an alert and inserts one if not; no constraint    *)
(* backs the question.  What it asks about is every finding of the scan,   *)
(* and whether an asset is critical may have changed since the last run.   *)
(***************************************************************************)
EXTENDS Versions, FiniteSets

CONSTANTS
    Runs,      \* requests that run a scan, each once
    Triages,   \* requests that set the status of a finding
    Scans,     \* vulnerability scans
    Assets,    \* assets in the scope of every scan
    Cves,      \* known vulnerabilities
    Software,  \* versions an asset may have
    Ranges,    \* the affected range of each vulnerability
    High       \* the vulnerabilities of severity high or critical

ASSUME RequestsAssumption == Runs \cap Triages = {}
ASSUME FiniteAssumption == IsFiniteSet(Assets) /\ IsFiniteSet(Cves)
ASSUME CatalogueAssumption ==
    /\ Software \subseteq Version /\ High \subseteq Cves
    /\ Ranges \in [Cves -> [introduced : Version, fixed : Version, last_affected : Version]]

VARIABLES
    version,   \* the software of each asset
    critical,  \* the assets of critical criticality
    scan,      \* the committed rows of vuln_scans
    findings,  \* the committed findings
    closed,    \* the findings that were triaged away
    alerts,    \* the committed alerts: a finding and the run that raised it
    task        \* the requests

scanVars == <<version, critical, scan, findings, closed, alerts, task>>

\* A run inserts at most one finding per asset and vulnerability: its id is
\* the run's.  A finding belongs to the scan of its run.
Finding == [run : Runs, scan : Scans, asset : Assets, cve : Cves]
Alert == [finding : Finding, raised_by : Runs]
\* "running" is flushed and never committed.
ScanStatus == {"pending", "completed"}

ScanIdle == [pc |-> "idle"]
ScanEnded == [pc |-> "ended"]

Run == [pc : {"flush", "collect", "audit", "raise", "commit"}, scan : Scans,
        new : SUBSET Finding, seen : SUBSET Assets, raised : SUBSET Alert]
Triage == [pc : {"flush", "commit"}, finding : Finding, close : BOOLEAN]

ScanTypeOK ==
    /\ version \in [Assets -> Software] /\ critical \subseteq Assets
    /\ scan \in [Scans -> [status : ScanStatus, total : Nat]]
    /\ findings \subseteq Finding /\ closed \subseteq findings
    /\ alerts \subseteq Alert
    /\ \A r \in Runs : task[r] \in Run \cup {ScanIdle, ScanEnded}
    /\ \A t \in Triages : task[t] \in Triage \cup {ScanIdle, ScanEnded}
    /\ DOMAIN task = Runs \cup Triages

ScanInit ==
    /\ version \in [Assets -> Software] /\ critical \in SUBSET Assets
    /\ scan = [s \in Scans |-> [status |-> "pending", total |-> 0]]
    /\ findings = {} /\ closed = {} /\ alerts = {}
    /\ task = [r \in Runs \cup Triages |-> ScanIdle]

-------------------------------------------------------------------------------
(* The rules of the alert engine: the default ones, which are seeded.      *)

\* The two default rules: a severe finding, and any finding on one of the
\* critical assets.  None of them may match.
Matched(f, severe) == f.cve \in High \/ f.asset \in severe

-------------------------------------------------------------------------------
(* A run of a scan.                                                        *)

ScanInFlight(r) == task[r] # ScanIdle /\ task[r] # ScanEnded

\* The runs that hold the lock of a scan's row.
Holders(s) == {r \in Runs : ScanInFlight(r) /\ task[r].scan = s /\ task[r].pc # "flush"}

\* The runs that hold the audit advisory lock.
RunRecorders == {r \in Runs : task[r].pc \in {"raise", "commit"}}

StartRun(r) ==
    /\ task[r] = ScanIdle
    /\ \E s \in Scans :
         task' = [task EXCEPT ![r] = [pc |-> "flush", scan |-> s, new |-> {},
                                     seen |-> {}, raised |-> {}]]
    /\ UNCHANGED <<version, critical, scan, findings, closed, alerts>>

\* The UPDATE to "running" waits for the lock of the scan's row.
FlushRun(r) ==
    /\ task[r].pc = "flush" /\ Holders(task[r].scan) = {}
    /\ task' = [task EXCEPT ![r].pc = "collect"]
    /\ UNCHANGED <<version, critical, scan, findings, closed, alerts>>

\* What a run finds: every match of the software of every asset in scope.
Matches(r) ==
    {f \in [run : {r}, scan : {task[r].scan}, asset : Assets, cve : Cves] :
        IsAffected(version[f.asset], Ranges[f.cve])}

\* The findings and the summary are flushed.
Collect(r) ==
    /\ task[r].pc = "collect"
    /\ task' = [task EXCEPT ![r].pc = "audit", ![r].new = Matches(r), ![r].seen = critical]
    /\ UNCHANGED <<version, critical, scan, findings, closed, alerts>>

\* AuditService.record waits for the advisory lock.
RecordRun(r) ==
    /\ task[r].pc = "audit" /\ RunRecorders = {}
    /\ task' = [task EXCEPT ![r].pc = "raise"]
    /\ UNCHANGED <<version, critical, scan, findings, closed, alerts>>

\* A plausible bug: nobody asks whether there is an alert already.
RaisedByAll(r, severe) ==
    {f \in findings \cup task[r].new : f.scan = task[r].scan /\ Matched(f, severe)}

\* run_for_vuln_scan: the findings of the scan that a rule matches and that
\* have no alert.
RaisedBy(r, severe) ==
    {f \in findings \cup task[r].new :
        f.scan = task[r].scan /\ Matched(f, severe) /\ \A a \in alerts : a.finding # f}

\* An asset the session still has keeps the criticality that Collect read, the
\* others are read again.
Raise(r) ==
    /\ task[r].pc = "raise"
    /\ \E severe \in SUBSET (task[r].seen \cup critical) :
         /\ task[r].seen \cap critical \subseteq severe
         /\ task' = [task EXCEPT ![r].pc = "commit",
                                ![r].raised = [finding : RaisedBy(r, severe), raised_by : {r}]]
    /\ UNCHANGED <<version, critical, scan, findings, closed, alerts>>

\* A plausible bug: the status stays at "running".
CommitRunUnfinished(r) ==
    LET q == task[r] IN
    /\ q.pc = "commit"
    /\ scan' = [scan EXCEPT ![q.scan] = [status |-> "running", total |-> Cardinality(q.new)]]
    /\ findings' = findings \cup q.new
    /\ alerts' = alerts \cup q.raised
    /\ task' = [task EXCEPT ![r] = ScanEnded]
    /\ UNCHANGED <<version, critical, closed>>

CommitRun(r) ==
    LET q == task[r] IN
    /\ q.pc = "commit"
    /\ scan' = [scan EXCEPT ![q.scan] = [status |-> "completed", total |-> Cardinality(q.new)]]
    /\ findings' = findings \cup q.new
    /\ alerts' = alerts \cup q.raised
    /\ task' = [task EXCEPT ![r] = ScanEnded]
    /\ UNCHANGED <<version, critical, closed>>

-------------------------------------------------------------------------------
(* Triage, software and the rest.                                          *)

\* set_finding_status to another status; to the same one it writes nothing.
StartTriage(t) ==
    /\ task[t] = ScanIdle
    /\ \E f \in findings :
         task' = [task EXCEPT ![t] = [pc |-> "flush", finding |-> f, close |-> f \notin closed]]
    /\ UNCHANGED <<version, critical, scan, findings, closed, alerts>>

\* The UPDATE of the finding waits for the lock of its row.
FlushTriage(t) ==
    /\ task[t].pc = "flush"
    /\ \A u \in Triages \ {t} :
         ~ (task[u].pc = "commit" /\ task[u].finding = task[t].finding)
    /\ task' = [task EXCEPT ![t].pc = "commit"]
    /\ UNCHANGED <<version, critical, scan, findings, closed, alerts>>

CommitTriage(t) ==
    LET q == task[t] IN
    /\ q.pc = "commit"
    /\ closed' = IF q.close THEN closed \cup {q.finding} ELSE closed \ {q.finding}
    /\ task' = [task EXCEPT ![t] = ScanEnded]
    /\ UNCHANGED <<version, critical, scan, findings, alerts>>

\* The transaction ends without a commit.
AbortScan(r) ==
    /\ ScanInFlight(r)
    /\ task' = [task EXCEPT ![r] = ScanEnded]
    /\ UNCHANGED <<version, critical, scan, findings, closed, alerts>>

\* The software of an asset changes.
SetSoftware(a) ==
    /\ \E v \in Software \ {version[a]} : version' = [version EXCEPT ![a] = v]
    /\ UNCHANGED <<critical, scan, findings, closed, alerts, task>>

\* AssetService.update: an asset becomes critical, or no longer is.
SetCriticality(a) ==
    /\ critical' = IF a \in critical THEN critical \ {a} ELSE critical \cup {a}
    /\ UNCHANGED <<version, scan, findings, closed, alerts, task>>

ProceedRun(r) == FlushRun(r) \/ Collect(r) \/ RecordRun(r) \/ Raise(r) \/ CommitRun(r)
ProceedTriage(t) == FlushTriage(t) \/ CommitTriage(t)

ScanNext ==
    \/ \E r \in Runs : StartRun(r) \/ ProceedRun(r) \/ AbortScan(r)
    \/ \E t \in Triages : StartTriage(t) \/ ProceedTriage(t) \/ AbortScan(t)
    \/ \E a \in Assets : SetSoftware(a) \/ SetCriticality(a)

ScanSpec == ScanInit /\ [][ScanNext]_scanVars

-------------------------------------------------------------------------------
(* Properties.                                                             *)

\* alert_engine.py:4: alerts are raised "de-duplicated".  A finding has one alert
\* at most, also when its asset becomes critical after it was found and runs of
\* its scan cross: no constraint keeps two of them from raising it, only the locks
\* a run holds when it asks, the audit lock and that of the scan's row.  A severe
\* finding has its alert as soon as it is there, and no alert is left of a run
\* that failed.
OneAlertEach ==
    /\ \A a, b \in alerts : a.finding = b.finding => a = b
    /\ \A f \in findings : f.cve \in High => \E a \in alerts : a.finding = f
    /\ \A a \in alerts : a.finding \in findings

-------------------------------------------------------------------------------
(* What the comments say, and the code does not keep.                      *)

\* vuln_service.py:3-4: a scan records its findings "and summarizes counts".
SummaryCountsFindings ==
    \A s \in Scans : scan[s].total = Cardinality({f \in findings : f.scan = s})

\* vuln_service.py:4-5: a finding that was triaged as a false positive is done
\* with: the same asset and vulnerability get no open finding in the scan.
TriageSticks ==
    \A f, g \in findings :
        f \in closed /\ g \notin closed => [f EXCEPT !.run = g.run] # g
===============================================================================
