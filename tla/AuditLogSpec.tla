----------------------------- MODULE AuditLogSpec -----------------------------
(***************************************************************************)
(* What the audit trail promises to its callers and readers: one growing   *)
(* log.  The entries a request records in one transaction are appended at  *)
(* the end of the log, together and in order, or not at all.  Nothing      *)
(* about locks, sequence numbers, hash links or isolation appears here:    *)
(* AuditChain implements this module.                                      *)
(***************************************************************************)
EXTENDS Integers, Sequences

CONSTANT Sessions     \* the sessions that write (one per request)

VARIABLES log,        \* the payloads of the trail, oldest first
          recorded    \* how many entries each open transaction has recorded

logVars == <<log, recorded>>

LogInit ==
    /\ log = << >>
    /\ recorded = [s \in Sessions |-> 0]

\* n entries of session s: the payload of an entry is its session.
Batch(s, n) == [i \in 1 .. n |-> s]

RecordEntry(s) ==
    /\ recorded' = [recorded EXCEPT ![s] = @ + 1]
    /\ UNCHANGED log

PublishAll(s) ==
    /\ log' = log \o Batch(s, recorded[s])
    /\ recorded' = [recorded EXCEPT ![s] = 0]

Abandon(s) ==
    /\ recorded' = [recorded EXCEPT ![s] = 0]
    /\ UNCHANGED log

LogNext == \E s \in Sessions : RecordEntry(s) \/ PublishAll(s) \/ Abandon(s)

LogSpec == LogInit /\ [][LogNext]_logVars
===============================================================================
