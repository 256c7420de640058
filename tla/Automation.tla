------------------------------ MODULE Automation ------------------------------
(***************************************************************************)
(* The automation rules of one organisation: WorkflowService.evaluate of   *)
(* services/workflow_service.py with the fan-out and the creation of       *)
(* incidents its actions call, and the generic create, update and delete   *)
(* of rules it inherits from services/crud.py.                             *)
(*                                                                         *)
(* evaluate fires the rules one by one and adds one to the trigger_count   *)
(* of each in memory.  Those changes are written by the next flush, which  *)
(* is any flush of the session: the one of a notification, the one of an   *)
(* incident, or the one at the end.  A flush updates the rows by           *)
(* increasing id and takes their locks; the audit entry of an incident     *)
(* takes the advisory lock in the middle of the evaluation.                *)
(***************************************************************************)
EXTENDS Integers, FiniteSets

CONSTANTS
    Jobs,       \* concurrent requests; each runs one operation at a time
    Rules,      \* ids of rules, which are ordered
    NoOne,      \* a lock is free, a request has no rule
    MaxEvaluations  \* bound: evaluations that start

ASSUME RulesAssumption == Rules \subseteq Nat /\ NoOne \notin Jobs \cup Rules
ASSUME EvaluationsAssumption == MaxEvaluations \in Nat

VARIABLES
    rule,       \* the committed rows of automation_rules
    rowLock,    \* the request that holds the lock of each rule's row
    trailLock,  \* the request that holds the audit advisory lock
    job,        \* the requests
    evaluated,  \* evaluations that started
    firings,    \* history: committed firings of each rule
    overlapped  \* history: two requests have been in flight at once

ruleVars == <<rule, rowLock, trailLock, job, evaluated, firings, overlapped>>

\* escalate does what log does.
Actions == {"notify", "create_incident", "log"}
RuleRow == [stored : BOOLEAN, active : BOOLEAN, action : Actions, count : 0 .. MaxEvaluations]
NoRule == [stored |-> FALSE, active |-> FALSE, action |-> "log", count |-> 0]

JobOps == {"evaluate", "create", "update", "delete"}

\* A request: its operation and where it is, the rows it read or made, the rules
\* it has still to fire, the one whose action runs, those it fired, the rows of
\* which an UPDATE or DELETE is pending, and the value an update sets.
Job ==
    [op : JobOps, pc : {"fire", "flush", "audit", "commit"}, seen : [Rules -> RuleRow],
     todo : SUBSET Rules, now : Rules \cup {NoOne}, fired : SUBSET Rules,
     pending : SUBSET Rules, active : BOOLEAN]

NoJob == [pc |-> "idle"]

RuleTypeOK ==
    /\ rule \in [Rules -> RuleRow]
    /\ rowLock \in [Rules -> Jobs \cup {NoOne}]
    /\ trailLock \in Jobs \cup {NoOne}
    /\ job \in [Jobs -> Job \cup {NoJob}]
    /\ evaluated \in 0 .. MaxEvaluations
    /\ firings \in [Rules -> 0 .. MaxEvaluations]
    /\ overlapped \in BOOLEAN

\* A rule as RuleCreate stores it: active, never triggered.
Created(action) == [stored |-> TRUE, active |-> TRUE, action |-> action, count |-> 0]

RuleInit ==
    /\ rule \in [Rules -> {NoRule} \cup {Created(action) : action \in Actions}]
    /\ rowLock = [x \in Rules |-> NoOne]
    /\ trailLock = NoOne
    /\ job = [r \in Jobs |-> NoJob]
    /\ evaluated = 0
    /\ firings = [x \in Rules |-> 0]
    /\ overlapped = FALSE

-------------------------------------------------------------------------------
(* Steps of a request.                                                     *)

JobAt(r, ops, pc) == job[r].pc = pc /\ job[r].op \in ops

StartJob(r, op, pc, todo, pending, active) ==
    /\ job[r] = NoJob
    /\ job' = [job EXCEPT ![r] =
         [op |-> op, pc |-> pc, todo |-> todo, now |-> NoOne,
          seen |-> [x \in Rules |-> IF x \in todo THEN rule[x] ELSE NoRule],
          fired |-> {}, pending |-> pending, active |-> active]]
    /\ overlapped' = (overlapped \/ \E q \in Jobs : job[q] # NoJob)
    /\ UNCHANGED <<rule, rowLock, trailLock, firings>>

ActiveRules == {x \in Rules : rule[x].stored /\ rule[x].active}

\* evaluate selects the active rules of the trigger; any of them may have a
\* condition that matches the event.
StartEvaluate(r) ==
    /\ evaluated < MaxEvaluations
    /\ evaluated' = evaluated + 1
    /\ \E matching \in SUBSET ActiveRules : StartJob(r, "evaluate", "fire", matching, {}, FALSE)

\* PATCH switches a rule on or off; an UPDATE is sent when that changes it.
StartUpdateRule(r) ==
    /\ \E x \in {y \in Rules : rule[y].stored}, active \in BOOLEAN :
         LET changed == {y \in {x} : rule[y].active # active} IN
         StartJob(r, "update", IF changed = {} THEN "audit" ELSE "flush", {}, changed, active)
    /\ UNCHANGED evaluated

StartDeleteRule(r) ==
    /\ \E x \in {y \in Rules : rule[y].stored} : StartJob(r, "delete", "flush", {}, {x}, FALSE)
    /\ UNCHANGED evaluated

\* Ids nobody has used, committed or not.
FreshRules == {x \in Rules : ~ rule[x].stored /\ rowLock[x] = NoOne /\
                 \A q \in Jobs : job[q] = NoJob \/ x \notin job[q].todo \cup job[q].fired
                                                       \cup job[q].pending}

\* POST of a rule: nobody sees its row before the commit.
StartCreateRule(r) ==
    /\ job[r] = NoJob
    /\ \E x \in FreshRules, action \in Actions :
         /\ job' = [job EXCEPT ![r] =
              [op |-> "create", pc |-> "audit", todo |-> {}, now |-> NoOne,
               seen |-> [y \in Rules |-> IF y = x THEN Created(action) ELSE NoRule],
               fired |-> {}, pending |-> {}, active |-> FALSE]]
         /\ rowLock' = [rowLock EXCEPT ![x] = r]
    /\ overlapped' = (overlapped \/ \E q \in Jobs : job[q] # NoJob)
    /\ UNCHANGED <<rule, trailLock, evaluated, firings>>

\* The action of a rule is done: its count is changed in memory.
JobDone(q, x) == [q EXCEPT !.now = NoOne, !.todo = @ \ {x}, !.fired = @ \cup {x},
                        !.pending = @ \cup {x}, !.pc = "fire"]

\* _run_action: logging does nothing, a notification flushes if there is a
\* channel, an incident is flushed and recorded.
Fire(r) ==
    /\ JobAt(r, {"evaluate"}, "fire")
    /\ \E x \in job[r].todo :
         LET q == job[r]  action == q.seen[x].action IN
         \/ /\ action \in {"log", "notify"}
            /\ job' = [job EXCEPT ![r] = JobDone(q, x)]
         \/ /\ action \in {"notify", "create_incident"}
            /\ job' = [job EXCEPT ![r].now = x, ![r].pc = "flush"]
    /\ UNCHANGED <<rule, rowLock, trailLock, evaluated, firings, overlapped>>

\* All rules are fired: the last flush, then an entry if any rule fired.
Fired(r) ==
    /\ JobAt(r, {"evaluate"}, "fire") /\ job[r].todo = {}
    /\ job' = [job EXCEPT ![r].pc = IF job[r].fired = {} THEN "commit" ELSE "flush"]
    /\ UNCHANGED <<rule, rowLock, trailLock, evaluated, firings, overlapped>>

\* A flush updates the pending row with the least id first.
FirstPending(r) == CHOOSE x \in job[r].pending : \A y \in job[r].pending : x <= y

\* The UPDATE or DELETE waits for the lock of the row.  A DELETE of a row that
\* is gone meets none and the session only warns.
FlushRow(r) ==
    /\ JobAt(r, JobOps, "flush") /\ job[r].pending # {}
    /\ rowLock[FirstPending(r)] \in {NoOne, r}
    /\ rule[FirstPending(r)].stored \/ job[r].op = "delete"
    /\ rowLock' = [rowLock EXCEPT ![FirstPending(r)] = IF rule[FirstPending(r)].stored THEN r ELSE @]
    /\ job' = [job EXCEPT ![r].pending = @ \ {FirstPending(r)}]
    /\ UNCHANGED <<rule, trailLock, evaluated, firings, overlapped>>

\* The flush is over; what comes next depends on who asked for it.
Flushed(r) ==
    /\ JobAt(r, JobOps, "flush") /\ job[r].pending = {}
    /\ LET q == job[r] IN
       job' = [job EXCEPT ![r] =
         IF q.now # NoOne /\ q.seen[q.now].action = "notify" THEN JobDone(q, q.now)
                                                            ELSE [q EXCEPT !.pc = "audit"]]
    /\ UNCHANGED <<rule, rowLock, trailLock, evaluated, firings, overlapped>>

\* AuditService.record waits for the advisory lock, unless it has it already.
RecordJob(r) ==
    /\ JobAt(r, JobOps, "audit")
    /\ trailLock \in {NoOne, r}
    /\ trailLock' = r
    /\ LET q == job[r] IN
       job' = [job EXCEPT ![r] = IF q.now # NoOne THEN JobDone(q, q.now)
                                                 ELSE [q EXCEPT !.pc = "commit"]]
    /\ UNCHANGED <<rule, rowLock, evaluated, firings, overlapped>>

ReleaseJob(r) ==
    /\ job' = [job EXCEPT ![r] = NoJob]
    /\ trailLock' = IF trailLock = r THEN NoOne ELSE trailLock
    /\ rowLock' = [x \in Rules |-> IF rowLock[x] = r THEN NoOne ELSE rowLock[x]]
    /\ UNCHANGED <<evaluated, overlapped>>

\* A plausible bug: the count of every evaluation of every rule is written.
CountAfterAll(q, x) == evaluated

\* The count is the one that was read and one more.
CountAfter(q, x) == q.seen[x].count + 1

\* A row after the request, over what others have committed.
RuleAfter(q, x, now) ==
    CASE q.op = "evaluate" -> IF x \in q.fired THEN [now EXCEPT !.count = CountAfter(q, x)]
                                               ELSE now
      [] q.op = "create"   -> q.seen[x]
      [] q.op = "update"   -> [now EXCEPT !.active = q.active]
      [] q.op = "delete"   -> NoRule

CommitJob(r) ==
    LET q == job[r] IN
    /\ JobAt(r, JobOps, "commit")
    /\ rule' = [x \in Rules |-> IF rowLock[x] = r THEN RuleAfter(q, x, rule[x]) ELSE rule[x]]
    /\ firings' = [x \in Rules |-> CASE x \in q.fired -> firings[x] + 1
                                     [] q.op = "delete" /\ rowLock[x] = r -> 0
                                     [] OTHER -> firings[x]]
    /\ ReleaseJob(r)

\* The transaction ends without a commit.
AbortJob(r) ==
    /\ job[r] # NoJob
    /\ ReleaseJob(r)
    /\ UNCHANGED <<rule, firings>>

\* An UPDATE of a row that is deleted matches none: StaleDataError.
Stale(r) ==
    /\ JobAt(r, JobOps \ {"delete"}, "flush") /\ job[r].pending # {} /\ ~ rule[FirstPending(r)].stored
    /\ AbortJob(r)

\* Who a request waits for, other than itself.
JobWaitsFor(r) ==
    LET holder == CASE JobAt(r, JobOps, "flush") /\ job[r].pending # {} -> rowLock[FirstPending(r)]
                    [] JobAt(r, JobOps, "audit") -> trailLock
                    [] OTHER -> NoOne
    IN IF holder = r THEN NoOne ELSE holder

\* Requests that wait for each other: each one for another one of them.
JobCycle(S) == S # {} /\ {JobWaitsFor(r) : r \in S} = S

\* deadlock_timeout has passed: PostgreSQL ends one of them.
JobVictim(r) == (\E S \in SUBSET Jobs : r \in S /\ JobCycle(S)) /\ AbortJob(r)

ArriveJob(r) ==
    StartEvaluate(r) \/ StartCreateRule(r) \/ StartUpdateRule(r) \/ StartDeleteRule(r)

ProceedJob(r) == \/ Fire(r) \/ Fired(r) \/ FlushRow(r) \/ Flushed(r) \/ RecordJob(r)
              \/ CommitJob(r) \/ Stale(r) \/ JobVictim(r)

RuleNext == \E r \in Jobs : ArriveJob(r) \/ ProceedJob(r) \/ AbortJob(r)

RuleSpec == RuleInit /\ [][RuleNext]_ruleVars

\* A request that can go on does; the lock manager grants a lock to each of
\* its waiters in the end.
RuleFairSpec ==
    RuleSpec /\ \A r \in Jobs :
        WF_ruleVars(ProceedJob(r)) /\ SF_ruleVars(FlushRow(r)) /\ SF_ruleVars(RecordJob(r))

-------------------------------------------------------------------------------
(* Properties.                                                             *)

\* models/automation.py:33: a rule's trigger_count may miss firings that ran
\* at once, but it never claims one that was rolled back.
CountNeverOverstates == \A x \in Rules : rule[x].count <= firings[x]

\* As long as requests come one at a time every firing is counted.
SerialCountsAll == overlapped \/ \A x \in Rules : rule[x].count = firings[x]

\* A request that has taken locks at more than one place.
Takes(r) == job[r].op = "evaluate" /\ (trailLock = r \/ Cardinality(job[r].fired) >= 2)

\* Requests wait for each other only when one of them is an evaluation that
\* holds the audit lock in the middle, or that has written rules before.
DeadlockNeedsEvaluation ==
    \A S \in SUBSET Jobs : JobCycle(S) => \E r \in S : Takes(r)

\* What a rule reports is never too much, nothing is lost unless two requests
\* overlapped, and who may block whom.
RulesInOrder == CountNeverOverstates /\ SerialCountsAll /\ DeadlockNeedsEvaluation

\* No request waits for ever.
JobsEnd == \A r \in Jobs : []<>(job[r] = NoJob)

-------------------------------------------------------------------------------
(* What a reader may expect, and the code does not keep.                   *)

\* trigger_count counts the firings of a rule.
CountsAll == \A x \in Rules : rule[x].count = firings[x]

\* A rule that is switched off no longer fires.
NoFiringWhenOff ==
    [][\A r \in Jobs : CommitJob(r) => \A x \in job[r].fired : rule[x].active]_ruleVars
===============================================================================
