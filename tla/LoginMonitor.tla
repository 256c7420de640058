----------------------------- MODULE LoginMonitor -----------------------------
(***************************************************************************)
(* services/cyber_service.py: the logins of one user are reported to it,   *)
(* and each is judged by what the database shows then: many failures       *)
(* within a window (brute force), a success from a place the last one is   *)
(* too far from (impossible travel), a device not seen before.  A report   *)
(* may leave out the user, the device, the coordinates and the country,    *)
(* and then a detector that needs them does not run.                       *)
(*                                                                         *)
(* A report stamps its attempt, inserts it, reads what the others have     *)
(* committed, and commits the attempt with the events it raised.           *)
(***************************************************************************)
EXTENDS Integers, Sequences, FiniteSets

CONSTANTS
    Reports,           \* the reports; each is of one attempt
    Devices, Places,   \* fingerprints; places no two of which a flight joins in time
    Countries,         \* countries
    Unsaid,            \* what a report leaves out
    Said,              \* bound: what the reports say of a success
    Threshold,         \* failures within the window that are brute force
    FailureWindow,     \* ... the window
    TravelWindow,      \* how far back the last success is looked for
    MaxTime            \* bound on the time

ASSUME LimitsAssumption ==
    Threshold \in Nat /\ FailureWindow \in Nat /\ TravelWindow \in Nat /\ MaxTime \in Nat
ASSUME SaidAssumption ==
    /\ Unsaid \notin Devices \cup Places \cup Countries
    /\ Said \subseteq [device : Devices \cup {Unsaid}, at : Places \cup {Unsaid},
                       country : Countries \cup {Unsaid}]

VARIABLES
    attempts,    \* the committed attempts, in the order of their commits
    devices,     \* the committed rows of devices: whose report made them, for which
    clock,       \* the time
    report,      \* the reports
    crossedReports   \* history: two reports have been in flight at once

loginVars == <<attempts, devices, clock, report, crossedReports>>

\* The events _emit is called with, and the one it is not.
Alarms == {"failed_login", "brute_force", "new_device", "impossible_travel", "suspicious_login"}
Time == 0 .. MaxTime
Nothing == [device |-> Unsaid, at |-> Unsaid, country |-> Unsaid]

\* An attempt: its user is known or not, and what is said of where it comes from.
Attempt == [id : Reports, at : Time, success : BOOLEAN, known : BOOLEAN,
            said : Said \cup {Nothing}, alarms : SUBSET Alarms]
DeviceRow == [id : Reports, device : Devices]
Stages == {"count", "device", "travel", "commit"}
Report == [pc : Stages, attempt : Attempt]
NotReported == [pc |-> "idle"]
Ended == [pc |-> "ended"]

LoginTypeOK ==
    /\ \A i \in DOMAIN attempts : attempts[i] \in Attempt
    /\ devices \subseteq DeviceRow /\ clock \in Time
    /\ report \in [Reports -> Report \cup {NotReported, Ended}]
    /\ crossedReports \in BOOLEAN

LoginInit ==
    /\ attempts = << >> /\ devices = {} /\ clock = 0
    /\ report = [r \in Reports |-> NotReported] /\ crossedReports = FALSE

-------------------------------------------------------------------------------
Reporting(r) == report[r].pc \in Stages
Committed == {attempts[i] : i \in DOMAIN attempts}

\* record_login stamps and inserts the attempt.
Insert(r, pc, success, known, said) ==
    report' = [report EXCEPT ![r] =
      [pc |-> pc,
       attempt |-> [id |-> r, at |-> clock, success |-> success, known |-> known,
                    said |-> said, alarms |-> {}]]]

\* Failures are counted by name alone; the detectors of a success need the
\* user, and that of devices the fingerprint.  What nobody reads is left out.
Arrive(r) ==
    /\ report[r] = NotReported
    /\ \/ Insert(r, "count", FALSE, TRUE, Nothing)
       \/ Insert(r, "commit", TRUE, FALSE, Nothing)
       \/ \E said \in Said :
            Insert(r, IF said.device = Unsaid THEN "travel" ELSE "device", TRUE, TRUE, said)
    /\ crossedReports' = (crossedReports \/ \E q \in Reports : Reporting(q))
    /\ UNCHANGED <<attempts, devices, clock>>

\* _emit: the attempt raises alarms and goes on.
Emit(r, alarms, pc) ==
    /\ report' = [report EXCEPT ![r].attempt.alarms = @ \cup alarms, ![r].pc = pc]
    /\ UNCHANGED <<attempts, devices, clock, crossedReports>>

\* A plausible bug: the count takes in reports that have not committed.
FailuresInFlight(a) ==
    Cardinality({b \in Committed \cup {report[q].attempt : q \in {p \in Reports : Reporting(p)}} :
                   ~ b.success /\ b.at >= a.at - FailureWindow})

\* The failures a report counts: the committed ones and its own, of its
\* window or later.
Failures(a) ==
    Cardinality({b \in Committed : ~ b.success /\ b.at >= a.at - FailureWindow}) + 1

CountFailures(r) ==
    /\ report[r].pc = "count"
    /\ Emit(r, {IF Failures(report[r].attempt) >= Threshold THEN "brute_force"
                ELSE "failed_login"}, "commit")

RowsOfDevice(d) == {row \in devices : row.device = d}

\* The reports that have updated the row of a device and not committed.
Updaters(d) ==
    {q \in Reports : /\ report[q].pc \in {"travel", "commit"} /\ report[q].attempt.success
                     /\ report[q].attempt.said.device = d
                     /\ "new_device" \notin report[q].attempt.alarms}

\* _check_new_device: the row is updated, which waits for another update of
\* it, or inserted.
CheckDevice(r) ==
    LET d == report[r].attempt.said.device IN
    /\ report[r].pc = "device"
    /\ \/ RowsOfDevice(d) = {} /\ Emit(r, {"new_device"}, "travel")
       \/ Cardinality(RowsOfDevice(d)) = 1 /\ Updaters(d) = {} /\ Emit(r, {}, "travel")

\* Nobody gets from one to the other in time: by the coordinates when both have
\* them, otherwise by the countries.
FarApart(a, b) ==
    IF Unsaid \notin {a.at, b.at} THEN a.at # b.at
    ELSE Unsaid \notin {a.country, b.country} /\ a.country # b.country

\* The successes of the user within the window, and the last of them.
Recent(S, a) == {b \in S : b.success /\ b.known /\ b.at >= a.at - TravelWindow}
Latest(S) == {b \in S : \A c \in S : c.at <= b.at}

\* A plausible bug: the first success of the window is looked at.
FirstSuccess(a) == {b \in Recent(Committed, a) : \A c \in Recent(Committed, a) : b.at <= c.at}

\* _check_impossible_travel: the last committed success of the window.
LastSuccess(a) == Latest(Recent(Committed, a))

CheckTravel(r) ==
    LET last == LastSuccess(report[r].attempt) IN
    /\ report[r].pc = "travel"
    /\ IF last = {} THEN Emit(r, {}, "commit")
       ELSE \E b \in last :
              Emit(r, {x \in {"impossible_travel"} :
                            FarApart(b.said, report[r].attempt.said)}, "commit")

\* A plausible bug: the device is known by the report, not by its fingerprint.
DevicesUnnamed(a) == devices \cup {[id |-> a.id, device |-> a.id] : x \in a.alarms}

\* The devices after an attempt.
DevicesAfter(a) ==
    devices \cup {[id |-> a.id, device |-> a.said.device] : x \in a.alarms \cap {"new_device"}}

CommitReport(r) ==
    LET a == report[r].attempt IN
    /\ report[r].pc = "commit"
    /\ attempts' = Append(attempts, a)
    /\ devices' = DevicesAfter(a)
    /\ report' = [report EXCEPT ![r] = Ended]
    /\ UNCHANGED <<clock, crossedReports>>

AbortReport(r) ==
    /\ Reporting(r)
    /\ report' = [report EXCEPT ![r] = Ended]
    /\ UNCHANGED <<attempts, devices, clock, crossedReports>>

\* scalar_one_or_none raises: the report fails and its attempt is lost.
Ambiguous(r) ==
    /\ report[r].pc = "device" /\ Cardinality(RowsOfDevice(report[r].attempt.said.device)) > 1
    /\ AbortReport(r)

Tick ==
    /\ clock < MaxTime /\ clock' = clock + 1
    /\ UNCHANGED <<attempts, devices, report, crossedReports>>

LoginNext == Tick \/ \E r \in Reports :
    \/ Arrive(r) \/ CountFailures(r) \/ CheckDevice(r) \/ CheckTravel(r)
    \/ CommitReport(r) \/ Ambiguous(r) \/ AbortReport(r)

LoginSpec == LoginInit /\ [][LoginNext]_loginVars

-------------------------------------------------------------------------------
(* Properties.                                                             *)

\* An alarm has its reasons in the log: brute force that many failures from
\* the start of its window on, impossible travel a success elsewhere.  No
\* interleaving, and no report that was rolled back, leaves a false alarm.
AlarmsAreReal ==
    \A a \in Committed :
      /\ "brute_force" \in a.alarms =>
           Cardinality({b \in Committed : ~ b.success /\ b.at >= a.at - FailureWindow}) >= Threshold
      /\ "impossible_travel" \in a.alarms =>
           \E b \in Recent(Committed, a) : FarApart(b.said, a.said)

Before(i) == {attempts[j] : j \in 1 .. i - 1}

\* The alarms that are due for the i-th attempt.  Travel is judged against the
\* last success before it alone.
BruteForceDue(i) ==
    /\ ~ attempts[i].success
    /\ Cardinality({b \in Before(i) \cup {attempts[i]} :
                      ~ b.success /\ b.at >= attempts[i].at - FailureWindow}) >= Threshold
TravelDue(i) ==
    LET recent == Recent(Before(i), attempts[i]) IN
    /\ attempts[i].success /\ attempts[i].known /\ recent # {}
    /\ \A b \in Latest(recent) : FarApart(b.said, attempts[i].said)
DeviceDue(i) ==
    /\ attempts[i].success /\ attempts[i].known /\ attempts[i].said.device # Unsaid
    /\ \A b \in Before(i) : b.success => b.said.device # attempts[i].said.device

\* As long as reports come one at a time, every alarm that is due is raised, a
\* device is new once, and it has one row.
SerialDetects ==
    crossedReports \/
      /\ \A i \in DOMAIN attempts :
           /\ BruteForceDue(i) => "brute_force" \in attempts[i].alarms
           /\ TravelDue(i) => "impossible_travel" \in attempts[i].alarms
           /\ DeviceDue(i) <=> "new_device" \in attempts[i].alarms
      /\ \A d \in Devices : Cardinality(RowsOfDevice(d)) <= 1

\* cyber_service.py:3-6: no false alarm in any interleaving, and in a serial one
\* none of these that is missed.
LoginsJudged == AlarmsAreReal /\ SerialDetects

-------------------------------------------------------------------------------
(* What a reader may expect, and the code does not keep.                   *)

\* cyber_service.py:4: Threshold failures within the window are brute force.
BruteForceDetected ==
    \A a \in Committed :
      Cardinality({b \in Committed : /\ ~ b.success /\ b.at >= a.at /\ b.at <= a.at + FailureWindow})
        >= Threshold => \E b \in Committed : "brute_force" \in b.alarms

\* cyber_service.py:6: a device is new the first time it is seen.
NewDeviceOnce ==
    \A a, b \in Committed :
      a.said.device = b.said.device /\ "new_device" \in a.alarms \cap b.alarms => a = b

\* cyber_service.py:5: two successes of the user from far-apart places within the
\* window are impossible travel, also when reports come one at a time.
TravelDetected ==
    crossedReports \/ \A i \in DOMAIN attempts :
      LET a == attempts[i] IN
      /\ a.success /\ a.known
      /\ \E b \in Recent(Before(i), a) : FarApart(b.said, a.said)
      => "impossible_travel" \in a.alarms

\* cyber_service.py:7: a success from a country the user never came from is a
\* suspicious login.
NewCountryReported ==
    crossedReports \/ \A i \in DOMAIN attempts :
      LET a == attempts[i] IN
      /\ a.success /\ a.known /\ a.said.country # Unsaid
      /\ \A b \in Before(i) : b.success => b.said.country # a.said.country
      => "suspicious_login" \in a.alarms
===============================================================================
