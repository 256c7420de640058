-------------------------- MODULE FieldKeyBootstrap ---------------------------
(***************************************************************************)
(* Start-up of the API workers: the lifespan of main.py, core/bootstrap.py *)
(* and bootstrap_field_cipher of services/key_service.py.                  *)
(*                                                                         *)
(* Every worker process of uvicorn runs the bootstrap in one transaction   *)
(* at READ COMMITTED: it loads the newest active field key or creates one, *)
(* installs the field cipher of the process, adds the seed rows that are   *)
(* missing (permissions, roles, administrator, alert rules, organization,  *)
(* in this order, each with a unique name), attaches the users without an  *)
(* organization and commits.  An exception rolls the transaction back, is  *)
(* logged, and the worker serves requests all the same.  The inserts of    *)
(* one worker wait for those of another that have the same name, and fail  *)
(* once these are committed.  Loading a row decrypts its columns: a column *)
(* of another key raises.                                                  *)
(*                                                                         *)
(* Whether an administrator is configured does not change on the way.      *)
(* Field keys are numbered in the order of their created_at.               *)
(***************************************************************************)
EXTENDS Naturals, FiniteSets

CONSTANTS
    Workers,      \* the worker processes
    NoWorker,     \* nobody holds the advisory lock
    SeedGroups,   \* how many groups of seed rows there are
    AdminGroup,   \* the group that has the administrator, if one is configured
    OrgGroup,     \* the group of the organization
    MaxRestarts   \* bound: restarts of workers

ASSUME WorkersAssumption == IsFiniteSet(Workers) /\ Workers # {} /\ NoWorker \notin Workers
ASSUME SeedsAssumption ==
    /\ SeedGroups \in Nat /\ MaxRestarts \in Nat
    /\ AdminGroup \in 1 .. SeedGroups /\ OrgGroup \in 1 .. SeedGroups

VARIABLES
    keys,       \* the committed active field keys
    made,       \* how many field keys have been generated
    admin,      \* an administrator is configured
    seeded,     \* the committed seed groups
    sealed,     \* the keys that the columns of each committed group are encrypted with
    orphans,    \* the keys of the committed users without an organization
    keyLock,    \* the worker that holds the audit advisory lock
    phase,      \* where each worker is
    cipher,     \* the key of the field cipher of each process, 0: not installed
    own,        \* the key a worker has inserted and not committed, 0: none
    group,      \* the seed group a worker is at
    inserted,   \* the seed groups a worker has inserted and not committed
    attached,   \* the workers that have loaded all orphans there are of their key
    data,       \* the keys that committed columns are encrypted with
    restarts,   \* restarts so far
    faulted,    \* history: a bootstrap ended with an exception other than a conflict
    overlapped  \* history: two workers have been booting at once

bootVars == <<keys, made, admin, seeded, sealed, orphans, keyLock, phase, cipher, own, group,
              inserted, attached, data, restarts, faulted, overlapped>>

Groups == 1 .. SeedGroups
\* Each start of a worker generates at most one key.
MaxKeys == Cardinality(Workers) + MaxRestarts

\* How a worker came to serve: after its commit, or without it, because a name was
\* taken, a row could not be decrypted, or something else failed.
Served == {"serving", "conflicted", "unreadable", "failed"}
BootSteps == {"record", "select", "insert", "audit", "commit"}

BootTypeOK ==
    /\ keys \subseteq 1 .. made
    /\ made \in 0 .. MaxKeys
    /\ seeded \subseteq Groups
    /\ keyLock \in Workers \cup {NoWorker}
    /\ admin \in BOOLEAN
    /\ sealed \in [Groups -> SUBSET (1 .. made)] /\ orphans \subseteq 1 .. made
    /\ phase \in [Workers -> {"start"} \cup BootSteps \cup Served]
    /\ cipher \in [Workers -> 0 .. made] /\ own \in [Workers -> 0 .. made]
    /\ group \in [Workers -> 1 .. SeedGroups + 1]
    /\ inserted \in [Workers -> SUBSET Groups] /\ attached \subseteq Workers
    /\ data \subseteq 1 .. made
    /\ restarts \in 0 .. MaxRestarts
    /\ faulted \in BOOLEAN /\ overlapped \in BOOLEAN

\* An empty database, or one an earlier release has left: a field key, and the
\* seed rows and users that release knew of.
BootInit ==
    /\ admin \in BOOLEAN
    /\ \/ /\ keys = {} /\ made = 0 /\ seeded = {} /\ data = {}
          /\ orphans = {} /\ sealed = [g \in Groups |-> {}]
       \/ /\ keys = {1} /\ made = 1 /\ seeded \in SUBSET Groups /\ data = {1}
          /\ orphans \in SUBSET {1}
          /\ sealed = [g \in Groups |-> IF g \in seeded /\ admin /\ g = AdminGroup
                                         THEN {1} ELSE {}]
    /\ keyLock = NoWorker
    /\ phase = [w \in Workers |-> "start"]
    /\ cipher = [w \in Workers |-> 0] /\ own = [w \in Workers |-> 0]
    /\ group = [w \in Workers |-> 1]
    /\ inserted = [w \in Workers |-> {}] /\ attached = {}
    /\ restarts = 0
    /\ faulted = FALSE /\ overlapped = FALSE

-------------------------------------------------------------------------------
Newest == CHOOSE k \in keys : \A j \in keys : j <= k
seeds == <<admin, seeded, sealed, orphans>>

LockAfter(w) == IF keyLock = w THEN NoWorker ELSE keyLock

Booting(w) == phase[w] \in BootSteps
SeesOthers(w) == overlapped' = (overlapped \/ \E v \in Workers \ {w} : Booting(v))

\* The newest active field key, or, when there is none, a new one.
SelectKey(w) ==
    /\ phase[w] = "start"
    /\ \/ /\ keys # {}
          /\ cipher' = [cipher EXCEPT ![w] = Newest]
          /\ phase' = [phase EXCEPT ![w] = "select"]
          /\ UNCHANGED <<made, own>>
       \/ /\ keys = {} /\ made < MaxKeys
          /\ made' = made + 1
          /\ own' = [own EXCEPT ![w] = made + 1]
          /\ phase' = [phase EXCEPT ![w] = "record"]
          /\ UNCHANGED cipher
    /\ SeesOthers(w)
    /\ UNCHANGED <<keys, keyLock, group, inserted, attached, data, restarts, faulted>>
    /\ UNCHANGED seeds

\* A plausible bug: recording the new key without the lock.
RecordKeyUnlocked(w) ==
    /\ phase[w] = "record"
    /\ cipher' = [cipher EXCEPT ![w] = own[w]]
    /\ phase' = [phase EXCEPT ![w] = "select"]
    /\ UNCHANGED <<keys, made, keyLock, own, group, inserted, attached, data, restarts, faulted, overlapped>>
    /\ UNCHANGED seeds

\* The audit entry of the new key waits for the lock; then the cipher is set.
RecordKey(w) ==
    /\ phase[w] = "record" /\ keyLock = NoWorker
    /\ keyLock' = w
    /\ cipher' = [cipher EXCEPT ![w] = own[w]]
    /\ phase' = [phase EXCEPT ![w] = "select"]
    /\ UNCHANGED <<keys, made, own, group, inserted, attached, data, restarts, faulted, overlapped>>
    /\ UNCHANGED seeds

\* A plausible bug: a lock of the session, which a rollback does not release.
RolledBackLocked(w, to) ==
    /\ phase' = [phase EXCEPT ![w] = to]
    /\ own' = [own EXCEPT ![w] = 0]
    /\ inserted' = [inserted EXCEPT ![w] = {}] /\ attached' = attached \ {w}
    /\ group' = [group EXCEPT ![w] = 1]
    /\ UNCHANGED <<keys, made, keyLock, cipher, data, restarts, overlapped>>
    /\ UNCHANGED seeds

\* The transaction is rolled back; the cipher of the process stays installed.
RolledBack(w, to) ==
    /\ phase' = [phase EXCEPT ![w] = to]
    /\ keyLock' = LockAfter(w)
    /\ own' = [own EXCEPT ![w] = 0]
    /\ inserted' = [inserted EXCEPT ![w] = {}] /\ attached' = attached \ {w}
    /\ group' = [group EXCEPT ![w] = 1]
    /\ UNCHANGED <<keys, made, cipher, data, restarts, overlapped>>
    /\ UNCHANGED seeds

\* The columns that are loaded are all of the key of the process.
Readable(w, ks) == ks \subseteq {cipher[w]}

\* The committed rows of the next group are loaded, or found missing.
SelectSeeds(w) ==
    /\ phase[w] = "select" /\ group[w] \in Groups
    /\ \/ group[w] \in seeded /\ Readable(w, sealed[group[w]])
       \/ group[w] \notin seeded
    /\ group' = IF group[w] \in seeded THEN [group EXCEPT ![w] = @ + 1] ELSE group
    /\ phase' = IF group[w] \in seeded THEN phase ELSE [phase EXCEPT ![w] = "insert"]
    /\ UNCHANGED <<keys, made, keyLock, cipher, own, inserted, attached, data, restarts, faulted, overlapped>>
    /\ UNCHANGED seeds

\* Last, the users without an organization are loaded to be attached.
SelectOrphans(w) ==
    /\ phase[w] = "select" /\ group[w] \notin Groups
    /\ Readable(w, orphans)
    /\ phase' = [phase EXCEPT ![w] = "commit"]
    /\ attached' = attached \cup {w}
    /\ UNCHANGED <<keys, made, keyLock, cipher, own, group, inserted, data, restarts, faulted, overlapped>>
    /\ UNCHANGED seeds

\* A loaded column is of another key: decrypting it raises.
Unreadable(w) ==
    /\ phase[w] = "select"
    /\ \/ group[w] \in seeded /\ ~ Readable(w, sealed[group[w]])
       \/ group[w] \notin Groups /\ ~ Readable(w, orphans)
    /\ RolledBack(w, "unreadable")
    /\ UNCHANGED faulted

\* A plausible bug: the loop over the groups advances twice after an insert.
InsertSeedsSkipping(w) ==
    /\ phase[w] = "insert"
    /\ group[w] \notin seeded
    /\ \A v \in Workers \ {w} : group[w] \notin inserted[v]
    /\ inserted' = [inserted EXCEPT ![w] = @ \cup {group[w]}]
    /\ group' = [group EXCEPT ![w] = @ + 2]
    /\ phase' = [phase EXCEPT ![w] = IF admin /\ group[w] = AdminGroup THEN "audit" ELSE "select"]
    /\ UNCHANGED <<keys, made, keyLock, cipher, own, attached, data, restarts, faulted, overlapped>>
    /\ UNCHANGED seeds

\* The flush waits while another worker has the same rows uncommitted.
InsertSeeds(w) ==
    /\ phase[w] = "insert"
    /\ group[w] \notin seeded
    /\ \A v \in Workers \ {w} : group[w] \notin inserted[v]
    /\ inserted' = [inserted EXCEPT ![w] = @ \cup {group[w]}]
    /\ group' = [group EXCEPT ![w] = @ + 1]
    /\ phase' = [phase EXCEPT ![w] = IF admin /\ group[w] = AdminGroup THEN "audit" ELSE "select"]
    /\ UNCHANGED <<keys, made, keyLock, cipher, own, attached, data, restarts, faulted, overlapped>>
    /\ UNCHANGED seeds

\* The audit entry of a registered administrator waits for the lock as well.
RecordAdmin(w) ==
    /\ phase[w] = "audit" /\ keyLock \in {NoWorker, w}
    /\ keyLock' = w
    /\ phase' = [phase EXCEPT ![w] = "select"]
    /\ UNCHANGED <<keys, made, cipher, own, group, inserted, attached, data, restarts, faulted, overlapped>>
    /\ UNCHANGED seeds

\* A unique name is taken: the bootstrap fails.
Conflict(w) ==
    /\ phase[w] = "insert" /\ group[w] \in seeded
    /\ RolledBack(w, "conflicted")
    /\ UNCHANGED faulted

\* Any other exception: a password the policy refuses, a lost connection.
Fail(w) ==
    /\ phase[w] \notin Served
    /\ faulted' = TRUE
    /\ RolledBack(w, "failed")

CommitBoot(w) ==
    /\ phase[w] = "commit"
    /\ keys' = keys \cup ({own[w]} \ {0})
    /\ seeded' = seeded \cup inserted[w]
    /\ sealed' = IF admin /\ AdminGroup \in inserted[w]
                 THEN [sealed EXCEPT ![AdminGroup] = {cipher[w]}] ELSE sealed
    /\ orphans' = IF w \in attached THEN orphans \ {cipher[w]} ELSE orphans
    /\ data' = IF admin /\ AdminGroup \in inserted[w] THEN data \cup {cipher[w]} ELSE data
    /\ phase' = [phase EXCEPT ![w] = "serving"]
    /\ keyLock' = LockAfter(w)
    /\ own' = [own EXCEPT ![w] = 0]
    /\ inserted' = [inserted EXCEPT ![w] = {}] /\ attached' = attached \ {w}
    /\ group' = [group EXCEPT ![w] = 1]
    /\ UNCHANGED <<made, admin, cipher, restarts, faulted, overlapped>>

\* A request stores a row with an encrypted column; without a cipher it fails.
\* The row may be a registered user, who has no organization, or the seeded
\* organization with its contact.
Store(w) ==
    /\ phase[w] \in Served /\ cipher[w] # 0
    /\ data' = data \cup {cipher[w]}
    /\ \/ UNCHANGED <<orphans, sealed, attached>>
       \/ /\ orphans' = orphans \cup {cipher[w]}
          /\ attached' = {v \in attached : cipher[v] # cipher[w]}
          /\ UNCHANGED sealed
       \/ /\ OrgGroup \in seeded
          /\ sealed' = [sealed EXCEPT ![OrgGroup] = @ \cup {cipher[w]}]
          /\ UNCHANGED <<orphans, attached>>
    /\ UNCHANGED <<keys, made, admin, seeded, keyLock, phase, cipher, own, group, inserted,
                   restarts, faulted, overlapped>>

\* The process ends, whatever it was doing, and is started again.
Restart(w) ==
    /\ restarts < MaxRestarts
    /\ restarts' = restarts + 1
    /\ phase' = [phase EXCEPT ![w] = "start"]
    /\ cipher' = [cipher EXCEPT ![w] = 0]
    /\ keyLock' = LockAfter(w)
    /\ own' = [own EXCEPT ![w] = 0]
    /\ inserted' = [inserted EXCEPT ![w] = {}] /\ attached' = attached \ {w}
    /\ group' = [group EXCEPT ![w] = 1]
    /\ UNCHANGED <<keys, made, data, faulted, overlapped>>
    /\ UNCHANGED seeds

\* What a worker does by itself until it serves.
Boot(w) ==
    \/ SelectKey(w) \/ RecordKey(w)
    \/ SelectSeeds(w) \/ InsertSeeds(w) \/ RecordAdmin(w) \/ Conflict(w)
    \/ SelectOrphans(w) \/ Unreadable(w)
    \/ CommitBoot(w)

BootNext == \E w \in Workers : Boot(w) \/ Fail(w) \/ Store(w) \/ Restart(w)

BootSpec == BootInit /\ [][BootNext]_bootVars

\* A worker that can go on does, and the lock manager of PostgreSQL grants the
\* advisory lock to every waiter in the end.
BootFairSpec ==
    BootSpec /\ \A w \in Workers : /\ WF_bootVars(Boot(w)) /\ SF_bootVars(RecordKey(w))
                                  /\ SF_bootVars(RecordAdmin(w))

-------------------------------------------------------------------------------
(* Properties.                                                             *)

Serving(w) == phase[w] \in Served

\* A worker that lost a race, for a seed row or for the field key, serves all the
\* same; by then the winner has committed everything both had found missing.  (A
\* row of a key that was rolled back with an exception may stop the winner.)
ServingIsSeeded ==
    \A w \in Workers :
        phase[w] \in {"serving", "conflicted"} \/ (phase[w] = "unreadable" /\ ~ faulted)
          => seeded = Groups

\* key_service.py:53-56: of a new field key "only the wrapped form is persisted":
\* the key a process encrypts with is in a committed row, if nothing but the
\* bootstrap itself stopped a bootstrap.
CipherIsPersisted ==
    ~ faulted => \A w \in Workers : Serving(w) => cipher[w] \in keys

\* Losing the race for a seed row never leaves a worker with a key that was
\* rolled back: only losing the race for the field key does, or an exception.
ConflictKeepsCipher ==
    \A w \in Workers : phase[w] \in {"serving", "conflicted"} => cipher[w] \in keys

\* The lock makes creators of a field key follow each other, so that a start
\* on an empty database never fails on the seed rows of another worker.
CreatorsDoNotConflict ==
    \A w \in Workers : phase[w] = "insert" /\ own[w] # 0 => group[w] \notin seeded

\* Every worker gets to serve, whoever else is booting or failing.
EverybodyServes == \A w \in Workers : []<>Serving(w)

\* When workers boot one after the other and none fails, each start commits and
\* every column is encrypted with the key of every worker that reads it, after
\* any restarts.
SerialDataReadable ==
    faulted \/ overlapped \/
        \A w \in Workers : Serving(w) => phase[w] = "serving" /\ data \subseteq {cipher[w]}

\* bootstrap.py:1: the start-up is idempotent, so there is one field key.
OneFieldKey == Cardinality(keys) <= 1

\* What keeps it single is the administrator: a second creator cannot decrypt
\* the one that the first has registered, and rolls its own key back.
AdminKeepsKeySingle == admin => OneFieldKey

\* What the races of the workers leave: the loser of a seed row serves, on seeded
\* rows and with a key that is stored; two that create a key never race for seed
\* rows; and with an administrator the second key of such two is not committed.
RacesAreHarmless ==
    /\ ServingIsSeeded /\ ConflictKeepsCipher
    /\ CreatorsDoNotConflict /\ AdminKeepsKeySingle /\ SerialDataReadable
===============================================================================
