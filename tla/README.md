# TLA+ verification of the Secure Data Protection Platform

SDPP is a FastAPI service (`src/backend/app`) over PostgreSQL, with blobs on the file system and a React client
(`src/frontend`). A request is handled by one coroutine in one of several worker processes; it works in one database
transaction that `get_db` (`db/session.py:51-62`) commits when the handler returns and rolls back when it raises.
Nothing else coordinates requests: what makes the system correct is the order of the SELECTs, flushes, locks, blob
accesses and commits of concurrent transactions. That order is what the modules here model, what TLC explores, and
what the proofs are about.

Contents: 1. components and hazards; 2. modules and how they correspond to the code; 3. runs; 4. bounds; 5. fairness;
6. proofs; 7. where code and documentation disagree; 8. abstractions and what is not modelled; 9. plan.

## 1. The system

Facts every component shares, and every module models:

- *Transactions are at READ COMMITTED.* A SELECT sees what is committed when it runs, and its own transaction's rows.
  Two SELECTs of one request may see different states. The session maker has `autoflush=False`: pending changes reach
  the database at an explicit `flush`, in `AuditService.record`, or at the commit.
- *An UPDATE names the columns whose value changed* since they were loaded (SQLAlchemy's unit of work), with values
  computed in the process. A concurrent change of another column survives, one of the same column is overwritten
  (`Written`).
- *The audit lock.* `AuditService.record` takes `pg_advisory_xact_lock` and keeps it until the transaction ends.
  Almost every change of state records an entry, so almost all commits are serialised. That is never said outside
  `audit_service.py`, and several components depend on it, for better and for worse (section 6, Discovery).
- *Row locks.* A flushed UPDATE or DELETE holds its row until the transaction ends, an INSERT shares the rows its
  foreign keys name, and one under a unique constraint waits for another of the same key. A request that flushes
  before it records and one that records before it flushes can wait for each other; PostgreSQL then ends one.

| Component | State | Operations | Hard behaviour | Correct when |
|---|---|---|---|---|
| Audit trail (`audit_service`, `audit_chain`) | `audit_logs`: seq, prev_hash, entry_hash | record, verify_chain | concurrent appends; rollbacks that consume seq; sessions that die with the lock | one unforked chain in the order of seq, append-only, loss is noticed, nobody waits for ever |
| File vault (`vault_service`, `storage`, `envelope`, `crypto`) | `encrypted_files`, blob store | upload, download, verify, soft delete, restore, secure delete; encrypt and decrypt a stream | the blob store takes no part in the transaction; rollback after a raise; storage that returns something else | nothing damaged is served, a shredded file stays shredded, a stream decrypts to what was sealed or to a beginning of it |
| Keys (`key_service`, `core/kms`) | `encryption_keys` | rotate, revoke, destroy, bootstrap_field_cipher | stale writes of key rows; providers with and without associated data | a destroyed or revoked key never comes back |
| Sessions (`auth_service`, `user_service`, `tokens`) | `users`, `password_history`, `refresh_tokens` | login with its rehash, refresh, logout, change password, (de)activate, set_roles | counters, flags and hashes read, then written, with no lock | single use of tokens, lockout at the limit, a change ends all sessions |
| Permissions (`core/authz`, `api/deps`) | `user_roles`, the claims of a token | issue a token, check a call | a user's row and roles are read one after the other; a token carries what was granted then | a call that passes was allowed at the login, and no longer ago than the life of a token |
| Bootstrap (`bootstrap`, `main`, `field_encryption`) | field keys, seed rows, the cipher of each process | lifespan of each worker | several workers boot at once; rows another key encrypted; a swallowed exception; in-memory state set before the commit | who serves encrypts with a persisted key and finds the seeds |
| Detection (`detection_service`) | `detections`, `threats` | ingest, correlate, set_status, escalate | read-modify-write counters; opposite lock orders | a threat sums up its detections, one incident, no request stuck |
| Assets and discovery (`asset_service`, `discovery_service`) | `assets`, `discovery_scans`, `discovered_hosts` | create, update, delete, run_scan | lookup then insert without a constraint; the network is probed inside the transaction | one asset per discovered address, current links, every scan ends |
| Incidents and evidence (`incident_service`, `evidence_service`) | `incidents`, timeline, links; evidence, custody log | acknowledge, transition, assign, link_alert, comment; log_custody | stamps taken before the locks; acknowledgements that cross | trail, timeline and custody tell the status that is stored; an alert is linked once |
| Emergencies, access points, notifications (`emergency_service`, `physical_service`'s access points, `notification_service`) | `emergency_events`, `access_points.is_locked`, `notifications` | trigger, acknowledge, resolve, dispatch, fan_out, POST, PATCH and DELETE of a point | one UPDATE of many rows in any order, while rows are added and deleted; messages sent before a commit that may fail | a stored lockdown has locked every point it found; what is counted was recorded, what is recorded as sent was sent |
| Workflow automation (`workflow_service`) | rules, their counters | evaluate, create, update, delete | counters read, then written; an incident recorded in the middle | a counter never claims a firing that was rolled back |
| Vulnerability scans, alert engine (`vuln_service`, `versions`, `alert_engine`) | scans, findings, alerts | run_scan, set_finding_status, run_for_vuln_scan | question then insert, no constraint | one alert per finding |
| Billing, administration, tenants (`billing_service`, `admin_service`, `org_service`) | subscriptions, settings, flags, organisations by slug, invoices, payments | upserts, create, remove, create_invoice, pay_invoice | lookup then insert; a NULL that escapes a constraint; a number from a count | under a constraint, the rows are a store; paid exactly when a payment was taken |
| Organisations and sites (`org_service`) | seven tables of rows that refer to each other | create, update, delete | cascades against inserts below | nothing refers to a row that is gone |
| Physical security (`physical_service`) | visitors, blacklist, vehicles, watchlist, passages, patrols | register, set status, ANPR, scan, complete | what is decided is written later | a scanned patrol never returns to its schedule; serial requests keep to blacklist and watchlist |
| Cyber monitoring (`cyber_service`) | login events, devices, alarms | record_login | windows that count only what is committed; lookup then insert; reports that leave out what a detector needs | no false alarm; serially, no missed one of those the code can know of |
| Comms, dashboards, analytics, compliance | single rows, or one inserted report | create, assign, read | none beyond the request transaction | |
| Web client (`frontend/src/lib/api.ts`) | the two tokens in the browser | request, tryRefresh | parallel 401s use one refresh token | a valid session survives parallel requests |
| Other primitives, HTTP plumbing | none | | outside a state model | |

`PROJECT.json` lists the sources of every component with its status, and every hazard at its line with the properties
that are about it.

## 2. The modules

| Module | Models | Extends / instantiates |
|---|---|---|
| `AuditLogSpec` | abstract: a log to which a transaction appends a batch of entries at its commit, or nothing | |
| `AuditChain` | `AuditService.record`, `_last_hash`, `verify_chain`, `compute_entry_hash`, the advisory lock, get_db | instantiates `AuditLogSpec` |
| `FileVault` | `VaultService`, and rotate / revoke / destroy of `KeyService` on the same rows | |
| `ChunkedStream` | `encrypt_stream`, `decrypt_stream` and the header of a stream | |
| `AuthSession` | `AuthService` and `UserService.set_active` on one account | |
| `AccessControl` | roles, the superuser, the claims of a token, the check of a call, `set_roles` and `set_active` | |
| `FieldKeyBootstrap` | `lifespan`, `run_startup_bootstrap`, `bootstrap_field_cipher` in several workers | |
| `ThreatCorrelation` | `DetectionService.ingest`, `ThreatService`, and the part of `IncidentService.create` it calls | |
| `Discovery` | `AssetService.create/update/delete/upsert_from_discovery`, `DiscoveryService.run_scan` | |
| `CaseFile` | `IncidentService` on one incident, `EvidenceService.log_custody` on one piece | |
| `Emergency` | `EmergencyService`, the fan-out, the creation, PATCH and deletion of access points, of one site | |
| `Automation` | `WorkflowService.evaluate` with its actions; create, update, delete of rules | |
| `Versions` | `parse_version`, `vcompare`, `is_affected` as operators | |
| `VulnScan` | `VulnService.run_scan`, `set_finding_status`, `AlertEngine.run_for_vuln_scan` | extends `Versions` |
| `TenantStore` | abstract: a map from keys to values that answers each write once | |
| `TenantRecords` | `AdminService`, `BillingService`, organisations by slug | instantiates `TenantStore` |
| `Estate` | every create, update and delete of `org_service.py` over the foreign keys | |
| `SiteOperations` | visitors, vehicles and patrols of `physical_service.py` | |
| `LoginMonitor` | `CyberMonitoringService.record_login` and its three detectors | |
| `AuditChainProofs`, `DiscoveryProofs`, `ThreatCorrelationProofs`, `AuthSessionProofs` | theorems about the module they name | that module, TLAPS |
| `KeyVaultProofs` | theorems about `FileVault` and `FieldKeyBootstrap` | both, TLAPS |
| `ResponseProofs`, `CaseworkProofs`, `PlatformProofs` | theorems about the modules the MC module of that name puts together | that MC module, TLAPS |
| `MCAuditChain` ... `MCThreatCorrelation` | the instance of one module: symmetry sets where used | the module they name |
| `MCResponse` | `Emergency`, `Automation` side by side | both |
| `MCCasework` | `CaseFile`, `VulnScan`, `SiteOperations`, `Estate` side by side | the four |
| `MCPlatform` | `TenantRecords`, `LoginMonitor`, `AccessControl`, `ChunkedStream` side by side | the four |

All modules have the same shape. `req` (`clerk`, `task`, `visit`, ... where a module stands next to another) holds
what each concurrent request (or session, or worker) has in its local variables, and its step; an action is what a
handler does from one await that lets others run to the next: a SELECT, a flush that waits for a row, the wait for the
audit lock, an access to a blob, the commit. `Abort` (`Rollback`, `Fail`) may happen at every step: an exception, a
lost connection, a killed worker. The other variables are what survives: committed rows, blobs, locks, the in-memory
cipher of a process. History variables are marked as such in each module and no action reads them. Definitions
commented "A plausible bug" or "Broken form" are not part of any specification: each is the form a definition would
have if the code were wrong in a way one could overlook, and the properties are known to notice it.

**AuditChain.** `Lock`, `ReadLast`, `Insert` are the three awaits of `record`. `rows` are committed rows, `pending[s]`
those of an open transaction, `nextSeq` the identity sequence, which a rollback does not give back. SHA-256 is an
injection: the hash of an entry is the history it commits to, so a fork or a gap shows as different histories.

**FileVault.** One record per file joins its file row, its key row and the existence of its alert, because a file is
uploaded once and has one DEK; `blob` is outside the transaction and stays changed when a request aborts. A download
is cut into: load the row, read and hash the blob, record, load the key, unwrap and decrypt the blob. `bindsAAD` is
the configured KMS provider: local and AWS bind the caller's associated data into the wrapped key, Azure and Vault
Transit do not. `Damage` is the disk.

**ChunkedStream.** What a blob is inside. `SealChunk` reads one chunk ahead, as the code does to know the last one,
and seals it as cells (ciphertext units and the tag) that name key, nonce, associated data and text. The storage may
then return any body with a part of it replaced by a part of another (`FetchBody`), a rotten cell, another header or
another key; the reader cuts what it gets by length alone. AES-GCM is what it promises: a whole chunk under the same
key, nonce and associated data opens, anything else does not. `StreamsSound` is why FileVault may model a blob as
good, damaged or absent, with a damaged one never decrypting to the end; that an aborted decryption has written a
beginning of the plaintext is in the property too.

**AuthSession.** One account. A login, refresh, logout or change of password is cut at its SELECTs; its writes take
effect at the commit (`Written`). A stored hash is of a password, by today's parameters or by older ones; a login that
finds an old one writes a new hash of the password it was given. A change of password reads the user first and then
the newest rows of the history (`Newest`), ordered by the time each was stamped. `locked_until` is "running" or
"expired"; `LockExpires` is time passing. The two refusals that commit their audit entry before they raise do so in
the model, the third does not.

**AccessControl.** The other side of an account. A login or refresh reads the row of the user (`ReadUser`), then the
roles by a SELECT of their own (`ReadRoles`), and puts both into the claims of a token (`Mint`): a change may be
committed between the two reads, and then the token has roles the account never had while it was enabled (`torn`).
`Call` is the dependency that decodes the token and lets the superuser pass or compares permission codes, with the
expiry and the leeway of the decoder. `set_roles` deletes and inserts the difference to the roles it read; a row
another request inserted or deleted meanwhile makes it fail or not, so both are possible.

**FieldKeyBootstrap.** Every worker selects the newest field key or creates one (recording it under the audit lock),
installs the cipher in its process, selects and inserts the seed groups, attaches the users without an organisation,
commits. An insert that meets a committed row of the same name is a conflict. A SELECT that loads an encrypted column
decrypts it: the administrator, the organisation's contact and the users without an organisation (`sealed`, `orphans`)
may be of another key than the process has, and then it raises (`Unreadable`), which is how the second of two workers
that create a key usually ends. `lifespan` swallows every exception and the worker serves (`RolledBack`). `Store`
encrypts a column with the process's cipher.

**ThreatCorrelation.** The detections of one kind at one site, the only ones that can correlate. ingest and set_status
flush the threat and then record; escalate records in `IncidentService.create` and then flushes. Both kinds of lock,
the wait-for relation and the deadlock detector are modelled. `Age` is the window of thirty minutes of `correlate`
closing.

**Discovery.** Requests create, update and delete assets or run a scan. run_scan flushes `running`, records (and so
takes the audit lock), probes, and then looks up, inserts or refreshes one asset for each host that answered.
`rowLock`, `lock` and `Deadlocked` are as in ThreatCorrelation.

**CaseFile.** `clock` counts the reads of requests: a request stamps its timeline note or custody entry when it reads
and writes later. Transitions, acknowledgements and assignments record (and so take the audit lock) before their
UPDATE is flushed at the commit; custody flushes its UPDATE first. `trail` is what the audit entries say of the
status.

**Emergency.** A lockdown and its resolution update all points of the site in one statement: it finds those that are
committed when it is sent, takes their locks in any order (`TakePoint`) and leaves out one that was deleted meanwhile
(`PassPoint`). Points are created, locked or not, changed and deleted by hand all the while; the PATCH of a point that
was deleted after it was loaded fails (`StalePoint`). A trigger then dispatches its notifications one by one;
`delivered` counts what providers really sent, which no rollback takes back. The event's row, the points and the audit
trail each have their lock, with the deadlock detector (`Victim`).

**Automation.** `Fire` runs the action of one rule and adds one to its counter in memory; the pending counters are
flushed by whatever flush comes next, in the order of the ids, each waiting for its row. An incident takes the audit
lock in the middle.

**VulnScan, Versions.** A version is the sequence of its numbers and letter runs; `IsAffected` has the OSV semantics
of the code. No constraint keeps the question of the alert engine ("is there an alert?") true until the insert
commits; two locks do, each of them enough: the row of the scan, held from the flush of "running" to the end, and the
audit lock, held from the entry of the run. The criticality of an asset may change at any time (`SetCriticality`),
before or after the request has loaded it, so which findings match a rule is not the same for two runs.

**TenantRecords, TenantStore.** Organisations by slug, settings and flags by organisation and key, settings of no
organisation, subscriptions: the same lookup-then-write under a unique constraint, one that NULL escapes, and none.
`Shown` is what the reading code returns for a key, `None` being the error it raises for two rows. For the keys under
a constraint the module implements `TenantStore`.

**Estate.** A row is its kind, the rows it must refer to (ON DELETE CASCADE) and one it may refer to (SET NULL).
`TakeRow` is one row lock in one of three modes (FOR KEY SHARE for a referenced row, FOR NO KEY UPDATE, FOR UPDATE for
a deletion); a deletion goes on to what the database cascades to (`Reached`).

**SiteOperations, LoginMonitor.** Requests that read, decide and write in one later step. LoginMonitor keeps attempts
in the order of their commits, because a report counts what has committed when it counts. A report may leave out the
user, the device, the coordinates and the country (`Unsaid`), and each detector has its own answer to that: travel is
told by the coordinates when both attempts have them, otherwise by the countries when both have those, otherwise not
at all (`FarApart`).

**Composition.** The one state all components share is the audit lock. AuditChain models it in full and shows that it
implements an atomic append; the other modules use that result: for them, record is one step that waits for `lock`.
The components in `MCResponse`, `MCCasework` and `MCPlatform` share no row with each other, so nothing can come of
interleaving them except waiting for that lock, which each of them lets happen anyway among its own requests. These
modules therefore let a behaviour be one of a single component, chosen by `side` in the initial state: the runs are
several instances in one, not a product.

## 3. The runs

| Run | States | What it shows |
|---|---|---|
| `audit` | 73 656 | three sessions, all interleavings, rollbacks and deaths: the trail verifies (`ChainIntact`) and implements the abstract log (`ImplementsLog`); verify_chain accepts no trail that lost an entry other than the newest (`LossDetected`); nobody waits for the lock for ever (`LockGranted`) |
| `vault` | 112 919 | two concurrent requests of any kind on one file under both kinds of provider: a damaged blob is never served although it is read twice; an erased key has no blob, and under the lock a key without its blob occurs only after an interrupted shred (`BlobAndKeyAgree`); under a binding provider a shredded key stays erased, and a revocation is never overwritten (`KeysNeverReturn`) |
| `auth` | 2 969 847 | two concurrent requests on one account whose hash may be an old one: an exchanged token is dead and the password in force is in the history in every interleaving (`AccountIsSound`); a failure at the limit arms the lock, and as long as requests come one at a time a token is used once, bad passwords lock, a change ends all sessions, no login undoes it and the password in force is refused as a new one (`SerialAccount`) |
| `bootstrap` | 137 486 | two workers, an empty or an older database, rows of another key, failures and two restarts: who lost a race serves on whole seeds, and with a committed key if the race was for a seed row; creators never conflict on seeds; with an administrator one key is ever committed; serial starts keep data readable (`RacesAreHarmless`); every worker gets to serve |
| `threat` | 1 589 680 | two concurrent requests, two threats, scores of two levels: a count never overstates, and sums, single incident and single open threat hold while requests come one at a time (`ThreatsAddUp`); every deadlock has an escalation in it |
| `threat_live` | 16 106 | every request ends, although lock orders are opposite |
| `discovery` | 300 596 | a scan against every other operation: what it inserts is new, what it links is current and no link dangles (`LinksInOrder`), a deadlock has an update in it, every request ends |
| `response` | 1 783 414 | emergencies: a lockdown or its resolution changes every point that its UPDATE found and that still exists at its commit (`SiteFollows`), counts are those of the rows and sent is sent (`CountedIsRecorded`), a deadlock is among lockdowns alone. Rules: no counter claims a firing that was rolled back, serially none is lost, and a deadlock has an evaluation in it that took locks in two places (`RulesInOrder`) |
| `casework` | 278 468 | three requests on a case: the audit trail tells the status and an alert is linked once in every interleaving, timeline and custody serially (`CaseFileTold`). Three runs of two scans and a triage while the asset changes: one alert per finding at most, and one for every severe one (`OneAlertEach`). Three requests at a site (`SiteInOrder`). Two in the estate: nothing dangles, a deadlock has a deletion in it (`EstateHolds`) |
| `platform` | 701 528 | records against `TenantStore` (`UniqueKeysAreAStore`), an invoice is paid exactly when a payment was taken, one row per key and consecutive numbers serially (`RecordsInOrder`); no false alarm in any interleaving, none missed serially (`LoginsJudged`); an admitted call was granted within the life of a token, to an account enabled at that time unless a change fell between the reads of its login (`AccessInOrder`); sealed streams against a storage that returns anything (`StreamsSound`) |

`vault_quarantine` and `auth_refresh` end in a counterexample on purpose; section 7 explains them. The states are
those TLC finds distinct, after symmetry where the configuration names one.

## 4. Bounds

Every bound is a CONSTANT or a guard with a comment; there is no state constraint.

- *Two requests*, or three where a third can observe a lost race without being in it: three sessions for the chain,
  three requests on a case, at a site, on records, of logins and tokens. In the first six modules and in Emergency and
  Automation a request runs any operation and then the next one, without end, so two of them produce every pairwise
  interleaving of every sequence of operations; in the others each request runs one operation. Deadlocks are pairwise,
  since a longer cycle would need a second lock that everybody queues for; where several rows are locked (Emergency,
  Automation, Estate) the properties quantify over sets of requests, and the theorems of section 6 hold for any
  number.
- *AuditChain:* `MaxRecords` = 2 entries per transaction so that a batch exists; `MaxSeq` = 4 so that a rollback
  leaves a gap in the middle. The proofs have neither bound.
- *FileVault:* one file; files share nothing but the lock.
- *ChunkedStream:* two streams, two keys and two chunk sizes, texts of up to four units, so that a last chunk is full,
  partial or empty; `LastCounter` = 2 so that the refusal at the last counter happens.
- *AuthSession:* two tokens (a pair and the one that follows it; three in the refresh configuration so that two
  exchanges both get one), two passwords, `MaxFailed` = 2, a history of one row (`HistorySize`) and two changes of
  password (`MaxChanges`), so that the history forgets a password. `FailCap` = 3 stops logins once the counter is past
  the limit. When no unused token is left a commit issues none: what is lost is only that later sessions share the
  bound.
- *AccessControl:* two roles, one of them with the administrator's permission; a time of 0 to 2 with a token life and
  a leeway of 1, so that a token is fresh, in its leeway and expired. A superuser is one from the start and has the
  administrator's role, as the start-up registers it.
- *FieldKeyBootstrap:* two workers, of which each may lose to the other, and two restarts, so that one of them can
  boot on what both have left; two seed groups, the administrator's (or one without encrypted columns) and the
  organisation's, so that a conflict or a row of another key can be met at the first or after it.
- *ThreatCorrelation:* two detections, two threats, scores of 70 and 90: both open or join a threat by themselves (65
  and above), and a threat's score can rise. A score below changes no threat and is left to the theorems.
- *Discovery:* two assets and two addresses, so that two assets can have one address and one can change between them;
  one scan, which two requests may run. A scan that finds no unused id is given up (`NoIdLeft`).
- *Emergency:* two events and two points, so that two lockdowns meet in opposite orders, and any of the points may be
  missing at the start; one contact or channel each (`MaxTargets`). *Automation:* two rules, `MaxEvaluations` = 2.
- *VulnScan:* three runs of two scans and one triage, so that two runs meet in one scan and a third comes after them;
  one asset whose version and criticality change; two vulnerabilities of which one is severe; OpenSSL 1.0.1f, 1.0.1g
  and a shorter version, a range with a fix and one with a last affected version.
- *Estate:* one founded row of six of the seven kinds, each below or beside another; two more are created.
- *LoginMonitor:* `Threshold` = 2 and windows of 1 in a time of 0 to 2, so that failures fall in and out of the
  window. A success says everything, or a device and a country, or nothing (`Said`), besides one of no known user.

`CHECK_DEADLOCK FALSE` stands where the system really may stop: every detection came in, every file is shredded, every
worker serves, every request has run, or the ids of the instance are used up.

## 5. Fairness

- A handler that can go on does (weak fairness of its steps): uvicorn's event loop runs every ready coroutine, and
  every blob, KMS and probe call returns or raises. No fairness is assumed of arrivals, aborts, damage, time or
  restarts.
- Waiting for a lock is strongly fair: PostgreSQL queues lock requests and grants them in arrival order, so whoever
  waits for a lock that is released again and again gets it. Row locks and the advisory lock have the same queueing.
- The deadlock detector runs after `deadlock_timeout` and ends a member of a cycle; without it (`NoVictim`)
  `RequestsEnd` fails, so the code does depend on it.
- In Discovery the steps of one request are under one strong fairness condition: each of them is a handler step or the
  grant of a lock.
- `Emergency_live.cfg` and `Automation_live.cfg` check `RequestsEnd` and `JobsEnd` of these two under the same
  conditions (`tlc -config Emergency_live.cfg Emergency`, likewise Automation).

## 6. Proofs

`tlapm` proves all obligations of the eight proof modules. Every safety invariant and action property a run checks is
a theorem, for every value of the constants; liveness is not (see the end of this section). The assumptions are those
the base modules name: the values standing for "nobody" or "no row" are none of the ids, bounds and time limits are
naturals (for a failed login at least one), the requests of `AuthSession`, `ThreatCorrelation`, `CaseFile` and
`TenantRecords`, the workers, and the assets and vulnerabilities of a scan are finitely many, ids of different tables
differ, what a founded row refers to is founded, rules are numbered, every role has its codes, a chunk has at least
one unit, and the junk a storage may return is neither a cell nor a header (`JunkAssumption`). Each is evaluated by
TLC on the run of its module.

Every proof has the same plan: an inductive invariant (`IInv`, or a name of its own where several components share a
module) that holds initially, that each action keeps (one lemma per action), and that implies what the runs check. The
properties themselves are hardly ever inductive: they speak of committed rows, and what keeps them is in the middle of
open transactions. What follows is what each invariant adds.

**AuditChainProofs** (any set of sessions, any bounds): `TypeCorrect`, `ChainAlwaysIntact`, `TrailAppendOnly`,
`ChainImplementsLog`, `LossAlwaysDetected`.

- `LockOwned`: only the holder of the advisory lock has uncommitted rows or is between its read and its insert;
- `AboveCommitted`: uncommitted rows are above all committed ones in seq;
- `ReadCurrent`: the hash a session has read is still that of the newest row it sees, which follows from `LockOwned`;
- `LinkedRows`: committed rows, and what each session sees, are linked, which a row chained to the newest hash
  preserves;
- `BatchAtEnd`: what a session sees is the committed log and then its own batch. This is what makes a commit of the
  code a batch append of `AuditLogSpec`, and every other step a step on `recorded` or a stutter;
- `Counted`, `Extremes`: a hash is as long as there are rows up to its own. If verify_chain accepts a part of the
  trail with a gap, the first row above the gap has a hash that is too long for the rows left below it. That any rows
  have a first and a last one is carried along as part of the invariant instead of being proved by induction.

`TrailAppendOnly` states the action property `AppendOnly`, which no run lists: the proof has it without bounds.

**DiscoveryProofs** (any requests, assets, scans and addresses): `TypeCorrect`, `NeverDuplicates`,
`LinksAlwaysInOrder` (from `LinksStayCurrent` and `NoLinkDangles`), `DeadlocksNeedUpdate`. No constraint of the
database and no code of `asset_service.py` keeps discovery from inserting an address twice. The invariant shows what
does:

- `LockOwned`: who is past record, and nobody else, holds the audit lock;
- `RowsOwned`: a request has row locks only after its flush, and before it has the audit lock only the row of its own
  update or scan;
- `Shape`: only scans have hosts, and only once they have the lock;
- `Current`: what the lookups of a scan returned is still so, because whoever commits a change of an address holds the
  lock.

`NeverDuplicates` and the links follow from `Current`, and `DeadlocksNeedUpdate` from the two ownership facts: of two
requests that wait for each other at most one can hold the audit lock, and what the other holds is the row of an
asset. The price of the same lock is in the code too: from its first entry to its commit a scan keeps every other
writer of the system waiting, the time it takes to probe the network included.

**KeyVaultProofs** (any files, requests and kind of provider; any finite set of workers): `TypeCorrect`,
`BlobsFollowKeys`, `DownloadsSound`, `KeysStayTaken`; `BootTypeCorrect`, `RacesStayHarmless`. The vault:

- `LockOwned`: from its audit entry on a request holds the audit lock, and nobody else does;
- `Current`: what is still so of the row and the blob a request works on: a download between its key and its
  decryption has a key that is not erased, a secure delete at its commit has no blob any more;
- `UploadAlone`: nobody works on a file while it is uploaded, for nobody has its id;
- `MissingIsKnown`: a file without a blob has an erased key, or was left by an interrupted shred, or belongs to who
  holds the lock.

`DamagedNeverServed` needs `Current` because the blob is read a second time after the check, and the action property
`KeysNeverReturn` follows as only a commit writes rows and it writes what `Shape` allows. The start-up:

- `KeyHeld`, `OwnNew`: who inserts a field key holds the audit lock, so the cipher of a worker in the middle is its
  own or a committed key;
- `Passed`, `SeedsWhole`: the seeds a worker has passed are there or its own, and the first commit brings all of them,
  so no creator of a key can lose a race for seeds;
- `AdminFirst`: a committed administrator has a column of a committed key, and a creator of another key never gets
  past it;
- `Early`, `Landed`: until the seeds are whole nobody has stored anything, so that without a fault only a worker that
  creates a second key meets a row it cannot decrypt, and then the seeds are whole;
- `OneByOne`: workers that boot one after the other find the one key there is.

**AuthSessionProofs** (any finite number of requests, any tokens, passwords and limit): `TypeCorrect`, `AccountSound`,
`AccountSerial` (with the action property `LimitArmsLock`).

- `Fits`: which columns an UPDATE can carry, by the operation that makes it: a hash is written by a change of password
  and by a login that hashes its password anew;
- `Known`, `Quota`: a token that was presented has been issued, and those who may still exchange it are counted; a
  password that a login hashes anew was in force and so is in the history;
- `Fresh`, `Serial`: what a request that is alone has read is still so; the number of bad passwords is the counter of
  the row, and the latest row of the history is of the password in force, which `Stamped` keeps: no stamp is still to
  come.

**ThreatCorrelationProofs** (any finite number of requests, any threats, scores and number of detections):
`TypeCorrect`, `DeadlocksNeedEscalation`, `ThreatsSumUp`.

- `Counted`: a count that is to be written is at most one above the attached detections, whatever was committed in
  between;
- `Locks`: the steps at which a request may hold which lock; only an escalation holds the audit lock while it waits
  for a row;
- `Quota`, `Fresh`, `Serial`: as for the account, for sums, the incident and the open threat.

**ResponseProofs** (any requests, events, access points and number of contacts; any jobs and rules): `TypeCorrect`,
`CountsAreRecorded`, `SiteAlwaysFollows`, `DeadlocksNeedLockdowns`; `RulesAlwaysInOrder`; `ResponseTyped`.
Emergencies:

- `Covers`: every point a lockdown or resolution has found is still to be updated, or locked by it, or deleted: no
  edit by hand and no other lockdown can slip in before its commit, and a deletion that has the row first leaves
  nothing to lock;
- `Alone`: a point that is being added is in nobody else's statement before its commit, so a statement leaves out only
  points it has found deleted;
- `Shape` and `SentWasSent`: what a trigger has counted is what it has recorded, and no more is recorded as sent than
  was delivered;
- `PointsOwned`, `EventsOwned`, `LockOwned`: who holds a point and still waits for one is a lockdown or a resolution;
  who holds an event waits for the audit lock at most, and who holds that waits for nothing. So a circle of waiting
  requests runs over points alone, and each of its members is a lockdown or a resolution.

Rules:

- `HasRead`: a counter that was read is at most the committed firings, which only grow;
- `FiringsCounted`: every firing is one of an evaluation that started, so there are no more than those;
- `Holds`, `LocksHeld`: an evaluation holds the rules it has written and no others; any other request holds a lock
  only when it waits for nothing. Whoever is waited for and waits too is therefore an evaluation with locks from two
  places.

**CaseworkProofs** (any requests, runs and triages, visits and patrols, clerks and founded rows): `CaseAlwaysTold`,
`AlertsAreSingle`, `SiteAlwaysInOrder`, `EstateTyped`, `EstateAlwaysHolds`, `CaseworkTyped`.

- Case file, `Latest`: there is one recorder, and its sequence number is the last, so the newest entry of the trail is
  that of the last commit; `Linking`: whoever has inserted the link is the only one and no link is committed;
  `OneAtATime`: notes and custody entries are older than the reads of the request that is there.
- Versions: `VcompareOrders` and `AffectedIsInterval` say of the comparison, for versions of any length, that it is a
  strict weak order and that the affected versions have no gap. The argument is `FirstDifference`: versions that
  differ do so at a first place, which decides. It exists by the well-foundedness of the naturals, which the library
  states without an operator parameter.
- Scans, `RaisedOnce`: the alerts a run is about to commit are for findings that have none yet. The run holds the
  audit lock from the question to the commit, and there is one such run (`RunRecorders`).
- Site, `PatrolSeen`: whoever has seen a patrol under way need not fear that it is back; `StillAsRead`: what a request
  that is alone has read.
- Estate, `Referred`: what a creation refers to stands and is share-locked, or its lock is still to be taken; `Swept`:
  whatever is below a row with a delete lock has one of the same request too, or is about to get it, also when it was
  committed after the deletion began; `LocksAgree`, `LocksOwned`: the two kinds of lock exclude each other, and are of
  requests that have not ended; `OneLock`: an update that still waits holds nothing. With `LocksOwned` it gives the
  second half of `EstateHolds`: without a deletion nobody holds a lock that another one of a circle waits for.

**PlatformProofs** (any finite set of requests; any reports, devices, places, countries and windows, and whatever the
reports leave out; any clients, roles, codes and token life; any streams, keys, sizes and lengths):
`RecordsAlwaysInOrder`, `UniqueKeysStore`, `LoginsAlwaysJudged`, `AccessAlwaysInOrder`, `StreamsAlwaysSound`,
`PlatformTyped`.

- Records, `Fits`: a write of a unique key that was flushed finds at its commit what it found then; `Apart`: two of
  them for one key are never flushed at once; `FitsAlone`: what a plan knows when no other request is there.
  `UniqueKeysStore` is the refinement of `TenantStore`: with `Fits` and `Apart` the one row of a key is the store's
  value, a commit that tells "done" is the store's write, and any other step is a refusal or a stutter.
- Logins, `Filed`: the alarms a report carries have their reasons in the log, which only grows; `Raised`: a report
  that is alone carries every alarm that is due; `LatestKnown`: when there is a success of the user there is a last
  one; `DevicesTold`: the rows of devices tell the devices of the successes.
- Access, `Based`, `Founded`: the account was enabled at the time its row was read, and had the roles a request or
  token says at the time they were read, enabled unless a change came between; `OneChange`: what a change that is
  alone has read.
- Streams, `Laid`: the body is the chunks so far, one after the other; `Written`, `Still`: what the storage can answer
  consists of junk and of cells that were written, and nothing is written any more when reading starts; `SoundRead`:
  what is out is the first chunks of what was encrypted, as many as the counter says. The heart is `OpenedWasSealed`:
  a chunk that opens where the reader is has the nonce of that place, and there is one chunk with that nonce. With
  `WholeOpens` it gives both directions of `StreamsSound`.

The components of `MCResponse`, `MCCasework` and `MCPlatform` share no variable, so `ResponseIsEach`, `CaseworkIsEach`
and `PlatformIsEach` are short: a behaviour of the composition is one of each component.

Only model-checked: liveness (`LockGranted`, `EverybodyServes`, `RequestsEnd`, `JobsEnd`), which is out of the
prover's reach.

## 7. Where code and documentation disagree

Each of these is a sentence of a comment, an error message, an enum or a test, stated as a property that TLC refutes.
The first two are runs with a configuration of their own, which expect the violation.

| Configuration | Property | What happens |
|---|---|---|
| `MCFileVault_quarantine` | `ViolationQuarantines` | the failed integrity check changes the file, adds an alert and raises; the rollback removes both (`vault_service.py:274-276`) |
| `MCAuthSession_refresh` | `SingleUse` | two concurrent refreshes with one token both get a pair (`tokens.py:6`) |

These stand at the end of their modules, under "what a reader may expect, and the code does not keep". Each can be
refuted by adding its name to the INVARIANTS, or that of an action property (`RefusalAudited`, `ChangeRevokesAll`,
`RehashIsTransparent`, `SiteWhollyFollows`, ... : those of the form `[][...]`) to the PROPERTIES of the module's
configuration:

| Configuration | Property | What happens |
|---|---|---|
| `MCAuthSession` | `LockoutAfterThreshold` | concurrent failures are counted once (`auth_service.py:203`) |
| `MCAuthSession` | `RehashIsTransparent`, `PasswordRemembered` | a login that hashes the password anew commits after a change of it and puts the old password back (`auth_service.py:190-192`); the history may have forgotten that one, so it is not refused as a new one (`:336`) |
| `MCFieldKeyBootstrap` | `CipherIsPersisted` | a bootstrap that fails after the cipher was installed leaves a worker with a key no row has; no fault is needed, for the second creator of a key cannot decrypt the administrator the first has stored (`bootstrap.py:63-67`) |
| `MCThreatCorrelation` | `OneIncident` | two concurrent escalations make two incidents |
| `MCFileVault` | `RotationRewraps` | the re-wrap does not pass the associated data, so under a binding provider it raises (`key_service.py:152`) |
| `MCFileVault` | `RevokedKeyUnavailable` | a revoked key still decrypts; the message of `vault_service.py:201-202` says it does not |
| `MCFileVault` | `ShredIsFinalAnywhere` | under a provider without associated data a rotation that loaded the key before a destroy writes it back (`key_service.py:203-206`) |
| `MCAuthSession` | `ChangeRevokesAll` | a login beside a change of password keeps its session (`auth_service.py:350`) |
| `MCAuthSession` | `RefusalAudited` | the entry of a login refused for a disabled account is rolled back (`auth_service.py:187-188`) |
| `MCThreatCorrelation` | `OpensOnlyWhenNone` | two concurrent detections open two threats (`tests/integration/test_detection_api.py:87`: "correlate into ONE threat") |
| `MCDiscovery` | `LookupUnambiguous` | two assets are given one address by hand; every later scan that meets it fails (`asset_service.py:83`, `:187`) |
| `MCDiscovery` | `FailureIsRecorded` | the failed status of a scan is rolled back by the exception that follows it (`discovery_service.py:117-126`) |
| `MCFileVault` | `AvailableIsReady` | after an interrupted secure delete, or a restore beside one, an available file has no blob or key (`core/enums.py:31`) |
| `MCFieldKeyBootstrap` | `OneFieldKey` | workers that boot together (the Dockerfile starts four) create several field keys, when no administrator is configured whose row would stop the second |
| `MCThreatCorrelation` | `ThreatSumsUp` | concurrent detections are counted once (`models/detection.py:4-5`) |
| `MCResponse` | `LockdownHolds` | resolving one lockdown, or a PATCH, unlocks points while another lockdown is not resolved (`emergency_service.py:131`) |
| `MCResponse` | `SiteWhollyFollows` | a point that is inserted unlocked, and committed after a lockdown's UPDATE was sent, escapes it (`emergency_service.py:3-5`, `:78`) |
| `MCResponse` | `CountsAll`, `NoFiringWhenOff` | a counter misses firings that ran at once; a rule fires though it was switched off after it was read |
| `MCCasework` | `OneAcknowledgement`, `TimelineTellsStatus`, `CustodyTellsStatus` | notes and entries are stamped before the locks, so crossing requests tell another status than is stored (`evidence_service.py:72`) |
| `MCCasework` | `DestroyedIsFinal`, `ResolvedAtIsOfResolved` | destroyed evidence is still handed on; a reopened incident keeps its resolved_at |
| `MCCasework` | `SummaryCountsFindings`, `TriageSticks` | a second run of a scan adds findings again, counts only its own, and reopens what was triaged (`vuln_service.py:3-5`) |
| `MCCasework` | `CompletedIsFinal`, `BlacklistedStaysOut`, `PlateHasOneVehicle` | a scan that read the patrol before its completion takes it up again; a visitor who is on the site stays so when the name is blacklisted; two vehicles are registered under one plate |
| `MCCasework` | `OwnedWithTheirSite`, `LinkedInTheirSite`, `RemovedOnce` | a zone is given an organisation, or a building, that is not its site's (`db/base.py:69`); two deletions of one row are both recorded |
| `MCPlatform` | `KeysHaveOneRow`, `NumbersDistinct`, `PaidOnce` | two first writes of a key without a constraint insert two rows; two invoices get one number; an invoice is paid again |
| `MCPlatform` | `BruteForceDetected`, `NewDeviceOnce` | reports that cross do not see each other's failures or device (`cyber_service.py:4-6`) |
| `MCPlatform` | `TravelDetected`, `NewCountryReported` | a success without coordinates and country hides the one before it (`cyber_service.py:5`, `:197`); the fourth detector of the module's doc, a success from a new country, does not exist (`:7`) |
| `MCPlatform` | `GrantedWhileEnabled` | the row is read enabled, then the account is disabled and given roles, then the roles are read: the token has permissions the account never had while enabled (`models/user.py:75`) |
| `MCPlatform` | `CheckedOnEachRequest`, `TrailTellsRoles` | a token is good for what was granted when it was minted (`permissions.py:5-7`); two role changes at once leave the union or a mixture |

The `Serial...` parts of the properties of section 3 are the other half: they show that these promises hold while
requests come one at a time, so what breaks them is concurrency. Where no `Serial...` part has it, a sequence of legal
calls is enough: so it is for `LockdownHolds`, `DestroyedIsFinal`, `ResolvedAtIsOfResolved`, `PaidOnce`,
`BlacklistedStaysOut`, `PlateHasOneVehicle`, `OwnedWithTheirSite`, `SummaryCountsFindings`, `TriageSticks`,
`TravelDetected`, `NewCountryReported` and `CheckedOnEachRequest`.

## 8. Abstractions and what is not modelled

- SHA-256 is an injection, AES-GCM opens what was sealed and nothing else, encryption of a whole file is the state of
  its key and blob (ChunkedStream is the level below), passwords are compared by identity.
- `CHOOSE`n "newest" rows: where the code orders by a timestamp and several are eligible, any of them may be taken
  (ThreatCorrelation); the field keys of FieldKeyBootstrap are numbered in the order of `created_at`.
- The commit of `get_db` comes before the response: a client that has its answer finds the change stored. That is so
  of the FastAPI releases that end a dependency before they send the response; `requirements.txt`
  (`fastapi>=0.115.0,<1.0`) also admits ones that end it afterwards. No action of a module waits for another request's
  response, so the interleavings are the same; "one at a time" in the `Serial...` parts then has to be read as "each
  after the other's commit".
- Refresh tokens do not expire in AuthSession. Row locks there only order the commits, and are not modelled: no
  request of that component waits for a row while it holds the audit lock another one needs.
- An asset update that changes nothing writes nothing and is not modelled. A second run of a scan adds hosts and does
  not replace those of the first: the set of hosts of the model merges equal ones.
- Statuses that the code treats alike are one value: each module names which.
- The travel speed of `cyber_service.py` is floating-point geometry; in LoginMonitor no two places can be joined in
  time.
- The CVE feed and the network an asset scan probes are external: what they return is any answer.
- TenantRecords: deleting an organisation also deletes its subscription, invoices and payments (`db/base.py:70-75`).
  The records there are those of one organisation that stays, the one created and removed by slug is another.
- Not modelled although the component is: `PatrolService.start` (`physical_service.py:98-103`), which has no caller
  and would take a patrol up again whatever its status; the deletion of a site with its access points in Emergency; a
  PATCH of other columns than `is_locked` of a point and `is_active` of a rule; `register` and `create_scan` (one
  insert of a row nobody contends for), `set_software` of an asset (in VulnScan it is the environment's step),
  contacts, channels and the record of an access event (single rows), cameras and guards (assignments of a status),
  `set_status` and `record_privilege_change` of cyber monitoring.
- Components that are not modelled: communications, dashboards and analytics, compliance (single inserts and reads);
  the web client, whose retry after a 401 meets on the server what AuthSession has; HTTP plumbing; one-shot
  encryption, hashing and the cloud SDKs, which are calls into libraries. They keep no state of which a step of two
  requests could be observed.

## 9. Plan

Done: every component with state that two requests can meet over is modelled, and every safety property and action
property that a run checks is a theorem.

Proofs that are worth having next, with the argument each needs:

1. `ThreatCorrelation`: a bound on what the counter misses (each detection that overlapped another one costs at most
   one), which sharpens `CountNeverOverstates` from one side to both.
2. `FieldKeyBootstrap`: at most as many field keys as workers that had booted before the first commit.
3. `Estate`: the refinement of a map from rows to their parents in which a deletion removes a subtree at once, as
   `AuditChain` refines `AuditLogSpec`.
4. `AuthSession`: an abstract account (password, lock, the families of live tokens) which a change of password or a
   refresh changes at its commit.

Models worth extending: `ClientRefresh`, parallel 401s of the web client composed with AuthSession; ThreatCorrelation
composed with CaseFile over one incident.
