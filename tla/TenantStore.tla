----------------------------- MODULE TenantStore ------------------------------
(***************************************************************************)
(* What the services that keep "the" row of a key promise: a map from keys *)
(* to values.  A request is answered once, and changes its key at that     *)
(* very moment or never.  Nothing about rows, constraints, sessions or     *)
(* isolation appears here: TenantRecords implements this module for the    *)
(* keys a unique constraint covers.                                        *)
(***************************************************************************)
CONSTANTS
    Requests,  \* the requests, each with one write
    Keys,      \* the keys
    Upserted,  \* the keys whose write creates them when they are missing
    Values,    \* what a key may hold
    Missing    \* a key that holds nothing

VARIABLES store,   \* the value of each key
          answer   \* what each request was told

storeVars == <<store, answer>>

StoreInit ==
    /\ store \in [Keys -> Values \cup {Missing}]
    /\ answer = [r \in Requests |-> "none"]

Tell(r, what) == answer[r] = "none" /\ answer' = [answer EXCEPT ![r] = what]

\* A new value for a key that is there, or that the write creates.
Put(r, k, v) ==
    /\ Tell(r, "done")
    /\ k \in Upserted \/ store[k] # Missing
    /\ store' = [store EXCEPT ![k] = v]

\* A key is created once.
Create(r, k, v) ==
    /\ Tell(r, "done") /\ store[k] = Missing
    /\ store' = [store EXCEPT ![k] = v]

Remove(r, k) ==
    /\ Tell(r, "done") /\ store' = [store EXCEPT ![k] = Missing]

\* A request that is refused, or fails, changes nothing; nor does one that
\* writes what was there, or writes something else than a key.
Leave(r) ==
    /\ \E what \in {"done", "refused"} : Tell(r, what)
    /\ UNCHANGED store

StoreNext == \E r \in Requests :
    \/ \E k \in Keys : Remove(r, k) \/ \E v \in Values : Put(r, k, v) \/ Create(r, k, v)
    \/ Leave(r)

StoreSpec == StoreInit /\ [][StoreNext]_storeVars
===============================================================================
