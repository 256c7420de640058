------------------------------- MODULE FileVault ------------------------------
(***************************************************************************)
(* The secure file vault: services/vault_service.py and the DEK lifecycle  *)
(* of services/key_service.py behind api/routers/files.py and keys.py, on  *)
(* PostgreSQL (READ COMMITTED) and a blob store on the file system.        *)
(*                                                                         *)
(* A request is a transaction.  It loads rows (one SELECT, one step),      *)
(* works on what it loaded, and collects the columns it changed in its     *)
(* write set: SQLAlchemy's UPDATE names only the columns whose value       *)
(* differs from the loaded one.  Every operation calls AuditService.record *)
(* before it writes, which takes the advisory lock and keeps it until the  *)
(* transaction ends; the write set is published by the commit of get_db,   *)
(* or dropped when the handler raises or its worker dies.  The blob store  *)
(* takes no part in the transaction: what is done to a blob stays done.    *)
(*                                                                         *)
(* A file is uploaded once and has one encrypted_files row, one DEK row    *)
(* and one blob, so one record holds what the database says of it.  The    *)
(* contents are abstracted to the state of the blob: "good" has the        *)
(* recorded SHA-256, "damaged" has not.                                    *)
(***************************************************************************)
EXTENDS Integers, FiniteSets

CONSTANTS
    Files,        \* file ids, each uploaded at most once
    Requests,     \* concurrent requests; each runs one operation at a time
    NoRequest     \* nobody holds the advisory lock

ASSUME RequestsAssumption == NoRequest \notin Requests

VARIABLES
    row,      \* the committed rows of each file
    blob,     \* the blob store
    lock,     \* the request that holds the audit advisory lock
    req,      \* the requests
    broken,   \* history: files whose secure delete was undone after its blob went
    bindsAAD  \* the configured KMS provider binds the caller's associated data
              \* into the wrapped DEK (local, AWS); Azure and Vault do not

vars == <<row, blob, lock, req, broken, bindsAAD>>

FileStatus == {"absent", "available", "quarantined", "deleted"}
KeyStatus  == {"none", "active", "revoked", "destroyed"}
\* wrapped_key: "" is erased; wrapping the same DEK again gives another text.
Wrapped == {"none", "wrapped", "rewrapped", "erased"}
Row == [status : FileStatus, key : KeyStatus, wrapped : Wrapped, alert : BOOLEAN]
NoRow == [status |-> "absent", key |-> "none", wrapped |-> "none", alert |-> FALSE]

Blobs == {"absent", "good", "damaged"}

Ops == {"upload", "download", "verify", "soft_delete", "restore",
        "secure_delete", "rotate", "revoke"}

\* Where a request is: its first SELECT, an access to the blob, the SELECT of
\* the key, the unwrapping of the DEK, AuditService.record, what it does while
\* it holds the lock, or the commit of get_db.
Steps == {"load", "blob", "key", "unwrap", "record", "shred", "raise", "commit"}

\* loaded is what the SELECTs returned, mine the same rows as the request has
\* changed them; got is the content a download has decrypted.
Request == [op : Ops, file : Files, pc : Steps, loaded : Row, mine : Row,
            check : {"none", "passed", "failed"}, got : Blobs]
Idle == [pc |-> "idle"]

TypeOK ==
    /\ row \in [Files -> Row]
    /\ blob \in [Files -> Blobs]
    /\ lock \in Requests \cup {NoRequest}
    /\ req \in [Requests -> Request \cup {Idle}]
    /\ broken \subseteq Files
    /\ bindsAAD \in BOOLEAN

Init ==
    /\ row = [f \in Files |-> NoRow]
    /\ blob = [f \in Files |-> "absent"]
    /\ lock = NoRequest
    /\ req = [r \in Requests |-> Idle]
    /\ broken = {}
    /\ bindsAAD \in BOOLEAN

-------------------------------------------------------------------------------
(* Steps of a request.                                                     *)

At(r, ops, pc) == req[r].pc = pc /\ req[r].op \in ops
File(r) == req[r].file
Released(r) == IF lock = r THEN NoRequest ELSE lock

\* The handler raises: get_db rolls back what the request has not committed.
Reject(r) ==
    /\ req' = [req EXCEPT ![r] = Idle]
    /\ lock' = Released(r)
    /\ UNCHANGED <<row, blob, broken>>

\* A request arrives.  A new upload takes an unused file id; the others name
\* an existing file (an unknown id is a 404 and changes nothing).
Start(r, op, f) ==
    /\ req[r] = Idle
    /\ IF op = "upload"
       THEN /\ row[f] = NoRow /\ blob[f] = "absent"
            /\ \A q \in Requests : req[q] # Idle => File(q) # f
       ELSE row[f] # NoRow
    /\ req' = [req EXCEPT ![r] =
                 [op |-> op, file |-> f, loaded |-> NoRow, mine |-> NoRow,
                  pc |-> IF op = "upload" THEN "blob" ELSE "load",
                  check |-> "none", got |-> "absent"]]
    /\ UNCHANGED <<row, blob, lock, broken>>

\* A plausible bug: the status is left as the insert made it.
UploadUnfinished(r) ==
    /\ At(r, {"upload"}, "blob")
    /\ blob' = [blob EXCEPT ![File(r)] = "good"]
    /\ req' = [req EXCEPT ![r].pc = "record",
                          ![r].mine = [status |-> "uploaded", key |-> "active",
                                       wrapped |-> "wrapped", alert |-> FALSE]]
    /\ UNCHANGED <<row, lock, broken>>

\* upload: the ciphertext is in the store before any row is committed.
UploadBlob(r) ==
    /\ At(r, {"upload"}, "blob")
    /\ blob' = [blob EXCEPT ![File(r)] = "good"]
    /\ req' = [req EXCEPT ![r].pc = "record",
                          ![r].mine = [status |-> "available", key |-> "active",
                                       wrapped |-> "wrapped", alert |-> FALSE]]
    /\ UNCHANGED <<row, lock, broken>>

\* _load hides deleted files from download and soft_delete.
LoadVisible(r) ==
    /\ At(r, {"download", "soft_delete"}, "load")
    /\ LET now == row[File(r)] IN
       \/ now.status = "deleted" /\ Reject(r)
       \/ /\ now.status # "deleted"
          /\ req' = [req EXCEPT
                ![r].loaded = now,
                ![r].mine = IF req[r].op = "soft_delete"
                            THEN [now EXCEPT !.status = "deleted"] ELSE now,
                ![r].pc = IF req[r].op = "soft_delete" THEN "record" ELSE "blob"]
          /\ UNCHANGED <<row, blob, lock, broken>>

\* verify_integrity and secure_delete take deleted files too.
LoadAny(r) ==
    /\ At(r, {"verify", "secure_delete"}, "load")
    /\ req' = [req EXCEPT ![r].loaded = row[File(r)], ![r].mine = row[File(r)],
                          ![r].pc = IF req[r].op = "verify" THEN "blob" ELSE "key"]
    /\ UNCHANGED <<row, blob, lock, broken>>

\* restore: only a soft-deleted file, and only while its blob exists.
LoadDeleted(r) ==
    /\ At(r, {"restore"}, "load")
    /\ \/ row[File(r)].status # "deleted" /\ Reject(r)
       \/ /\ row[File(r)].status = "deleted"
          /\ req' = [req EXCEPT
                ![r].loaded = row[File(r)], ![r].pc = "blob",
                ![r].mine = [row[File(r)] EXCEPT !.status = "available"]]
          /\ UNCHANGED <<row, blob, lock, broken>>

RestoreBlob(r) ==
    /\ At(r, {"restore"}, "blob")
    /\ \/ blob[File(r)] = "absent" /\ Reject(r)
       \/ /\ blob[File(r)] # "absent"
          /\ req' = [req EXCEPT ![r].pc = "record"]
          /\ UNCHANGED <<row, blob, lock, broken>>

\* _verify_ciphertext compares the digest of the stored blob; a mismatch or a
\* missing blob quarantines the file and raises an alert in this session.
VerifyBlob(r) ==
    /\ At(r, {"download", "verify"}, "blob")
    /\ IF blob[File(r)] = "good"
       THEN req' = [req EXCEPT ![r].check = "passed", ![r].pc = "record"]
       ELSE req' = [req EXCEPT ![r].check = "failed", ![r].pc = "record",
                               ![r].mine.status = "quarantined",
                               ![r].mine.alert = TRUE]
    /\ UNCHANGED <<row, blob, lock, broken>>

\* AuditService.record: wait for the advisory lock, then flush.
Record(r) ==
    /\ req[r].pc = "record"
    /\ lock = NoRequest
    /\ lock' = r
    /\ req' = [req EXCEPT ![r].pc =
                  CASE req[r].check = "failed"     -> "raise"
                    [] At(r, {"secure_delete"}, "record") -> "shred"
                    [] req[r].check = "passed" /\ req[r].op = "download" -> "key"
                    [] OTHER -> "commit"]
    /\ UNCHANGED <<row, blob, broken>>

\* IntegrityViolationError leaves the handler: errors.py turns it into a 409.
RaiseViolation(r) ==
    /\ At(r, {"download", "verify"}, "raise")
    /\ Reject(r)

\* The key row as the request sees it from now on.
WithKey(q, now) == [q EXCEPT !.key = now.key, !.wrapped = now.wrapped]

DownloadKey(r) ==
    /\ At(r, {"download"}, "key")
    /\ \/ row[File(r)].wrapped = "erased" /\ Reject(r)
       \/ /\ row[File(r)].wrapped # "erased"
          /\ req' = [req EXCEPT ![r].pc = "unwrap",
                                ![r].loaded = WithKey(@, row[File(r)]),
                                ![r].mine = WithKey(@, row[File(r)])]
          /\ UNCHANGED <<row, blob, lock, broken>>

\* A plausible bug: streaming out what the cipher has not authenticated.
DecryptUnchecked(r) ==
    /\ At(r, {"download"}, "unwrap")
    /\ req' = [req EXCEPT ![r].got = blob[File(r)], ![r].pc = "commit"]
    /\ UNCHANGED <<row, blob, lock, broken>>

\* decrypt_file: the chunks are authenticated, so damaged content and a
\* missing blob end the download with an exception.
DownloadDecrypt(r) ==
    /\ At(r, {"download"}, "unwrap")
    /\ \/ blob[File(r)] # "good" /\ Reject(r)
       \/ /\ blob[File(r)] = "good"
          /\ req' = [req EXCEPT ![r].got = "good", ![r].pc = "commit"]
          /\ UNCHANGED <<row, blob, lock, broken>>

\* secure_delete reads the key row and destroys it: "" and status destroyed.
ShredKey(r) ==
    /\ At(r, {"secure_delete"}, "key")
    /\ req' = [req EXCEPT ![r].pc = "record",
                          ![r].loaded = WithKey(@, row[File(r)]),
                          ![r].mine.key = "destroyed", ![r].mine.wrapped = "erased"]
    /\ UNCHANGED <<row, blob, lock, broken>>

\* A plausible bug: leaving the unlink to a clean-up after the commit.
ShredBlobLater(r) ==
    /\ At(r, {"secure_delete"}, "shred")
    /\ req' = [req EXCEPT ![r].pc = "commit", ![r].mine.status = "deleted"]
    /\ UNCHANGED <<row, blob, lock, broken>>

\* Then, under the lock, the blob is unlinked and the file marked deleted.
ShredBlob(r) ==
    /\ At(r, {"secure_delete"}, "shred")
    /\ blob' = [blob EXCEPT ![File(r)] = "absent"]
    /\ req' = [req EXCEPT ![r].pc = "commit", ![r].mine.status = "deleted"]
    /\ UNCHANGED <<row, lock, broken>>

\* rotate_key and revoke_key load the key row.
LoadKey(r) ==
    /\ At(r, {"rotate", "revoke"}, "load")
    /\ LET now == row[File(r)] IN
       \/ req[r].op = "rotate" /\ now.key # "active" /\ Reject(r)
       \/ /\ req[r].op = "rotate" => now.key = "active"
          /\ req' = [req EXCEPT
                ![r].loaded = now,
                ![r].mine = IF req[r].op = "revoke"
                            THEN [now EXCEPT !.key = "revoked"] ELSE now,
                ![r].pc = IF req[r].op = "revoke" THEN "record" ELSE "unwrap"]
          /\ UNCHANGED <<row, blob, lock, broken>>

\* rewrap_dek is called without the associated data the DEK was wrapped with.
UnwrapFails == bindsAAD

Rewrap(r) ==
    /\ At(r, {"rotate"}, "unwrap")
    /\ \/ UnwrapFails /\ Reject(r)
       \/ /\ ~ UnwrapFails
          /\ req' = [req EXCEPT
                ![r].pc = "record",
                ![r].mine.wrapped = IF @ = "wrapped" THEN "rewrapped" ELSE "wrapped"]
          /\ UNCHANGED <<row, blob, lock, broken>>

\* A plausible bug: an UPDATE that names every column.
WrittenWhole(q, now) == q.mine

\* What the UPDATEs of a request make of the committed row: the columns it
\* changed, over whatever others have committed since it loaded them.
Written(q, now) ==
    [c \in DOMAIN now |-> IF q.mine[c] # q.loaded[c] THEN q.mine[c] ELSE now[c]]

Commit(r) ==
    /\ req[r].pc = "commit"
    /\ row' = [row EXCEPT ![File(r)] = Written(req[r], @)]
    /\ req' = [req EXCEPT ![r] = Idle]
    /\ lock' = Released(r)
    /\ UNCHANGED <<blob, broken>>

\* The client goes away, the commit fails or the worker dies.
Abort(r) ==
    /\ req[r] # Idle
    /\ req' = [req EXCEPT ![r] = Idle]
    /\ lock' = Released(r)
    /\ broken' = IF At(r, {"secure_delete"}, "commit")
                 THEN broken \cup {File(r)} ELSE broken
    /\ UNCHANGED <<row, blob>>

\* The disk: a stored blob loses its content.
Damage(f) ==
    /\ blob[f] = "good"
    /\ blob' = [blob EXCEPT ![f] = "damaged"]
    /\ UNCHANGED <<row, lock, req, broken>>

RequestNext(r) ==
    \/ \E op \in Ops, f \in Files : Start(r, op, f)
    \/ UploadBlob(r)
    \/ LoadVisible(r) \/ LoadAny(r) \/ LoadDeleted(r) \/ LoadKey(r)
    \/ RestoreBlob(r) \/ VerifyBlob(r)
    \/ Record(r) \/ RaiseViolation(r)
    \/ DownloadKey(r) \/ DownloadDecrypt(r)
    \/ ShredKey(r) \/ ShredBlob(r) \/ Rewrap(r)
    \/ Commit(r) \/ Abort(r)

\* The provider is the one the process was started with.
Next ==
    /\ (\E r \in Requests : RequestNext(r)) \/ (\E f \in Files : Damage(f))
    /\ UNCHANGED bindsAAD

Spec == Init /\ [][Next]_vars

-------------------------------------------------------------------------------
(* Properties.                                                             *)

\* secure_delete is irreversible (key_service.py destroy): once a commit has
\* erased a wrapped DEK no later commit, of a request that loaded the key row
\* before, brings key material back.  That is so where a rotation cannot be
\* under way; the other providers are ShredIsFinalAnywhere.
ShredIsFinal ==
    [][bindsAAD => \A f \in Files :
          row[f].wrapped = "erased" => row'[f].wrapped = "erased"]_vars

\* The order of destroy, unlink and commit: by the time anybody can read that
\* the DEK is erased the blob has left the store, and it never comes back.
ShredLeavesNoBlob ==
    \A f \in Files : row[f].wrapped = "erased" => blob[f] = "absent"

\* A download checks the blob, then waits for the lock, reads the key and
\* opens the blob again.  Under the lock the blob cannot be gone while the
\* key is still there, unless an earlier secure delete of the file was undone
\* after its unlink (or a rotation has brought the key back, see above).
NoMissUnderLock ==
    \A r \in Requests :
        bindsAAD /\ At(r, {"download"}, "unwrap") /\ blob[File(r)] = "absent"
            => File(r) \in broken

\* The digest check and the decryption read the blob at different times: what
\* is served is sound also when the blob is damaged between the two.
DamagedNeverServed ==
    \A r \in Requests : At(r, {"download"}, "commit") => req[r].got = "good"

\* A key that left "active" never becomes active again, whatever was loaded
\* while it was.
RevocationNotLost ==
    [][\A f \in Files :
         row[f].key \in {"revoked", "destroyed"} => row'[f].key # "active"]_vars

\* A key row follows its blob out, and a blob its key row: neither is missed
\* by whoever reads the other.
BlobAndKeyAgree == ShredLeavesNoBlob /\ NoMissUnderLock

\* What was taken from a key stays taken, whatever stale row is written later.
KeysNeverReturn == ShredIsFinal /\ RevocationNotLost

-------------------------------------------------------------------------------
(* What comments, messages and enums promise and the code does not keep.   *)

\* vault_service.py:274-276: a failed integrity check leaves the file
\* "blocked and quarantined", with an alert.
ViolationQuarantines ==
    [][\A r \in Requests : RaiseViolation(r) =>
         row'[File(r)].status = "quarantined" /\ row'[File(r)].alert]_vars

\* vault_service.py:201-202: the key of a file is unavailable once it is
\* "revoked or destroyed".
RevokedKeyUnavailable ==
    \A r \in Requests :
        At(r, {"download"}, "commit") =>
            req[r].loaded.key \notin {"revoked", "destroyed"}

\* core/enums.py:31: an available file is "ready".
AvailableIsReady ==
    \A f \in Files : row[f].status = "available" =>
        row[f].wrapped # "erased" /\ blob[f] # "absent"

\* key_service.py:6: the master key is rotated by re-wrapping the DEKs.  The
\* re-wrap of an active key goes on to the audit record.
RotationRewraps == [][\A r \in Requests : Rewrap(r) => req'[r] # Idle]_vars

\* key_service.py:203-206: a destroyed DEK "can never be decrypted again", under
\* any provider.
ShredIsFinalAnywhere ==
    [][\A f \in Files : row[f].wrapped = "erased" => row'[f].wrapped = "erased"]_vars
===============================================================================
