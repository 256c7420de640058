---------------------------- MODULE KeyVaultProofs -----------------------------
(***************************************************************************)
(* Theorems about FileVault, for any files and any requests, under either  *)
(* kind of provider, and about FieldKeyBootstrap, for any workers.         *)
(*                                                                         *)
(* What a request writes at its commit was computed from rows it loaded    *)
(* long before.  The invariant says what is still true of these rows and   *)
(* of the blob then, and what the audit lock has to do with it.  That of   *)
(* the start-up says what a worker that is half way may rely on.           *)
(***************************************************************************)
EXTENDS FileVault, FieldKeyBootstrap, FiniteSetTheorems, TLAPS

-------------------------------------------------------------------------------
(* Files, their keys and their blobs.                                      *)


Uploaded == [status |-> "available", key |-> "active", wrapped |-> "wrapped", alert |-> FALSE]

\* What the parts of a request say about each other: an upload knows of no row,
\* and the others never turn a key back.
Shape(q) ==
    /\ q.op = "upload" => /\ q.pc \in {"blob", "record", "commit"} /\ q.loaded = NoRow
                          /\ q.pc # "blob" => q.mine = Uploaded
    /\ q.op # "upload" => q.mine.key \in {q.loaded.key, "revoked", "destroyed"}
    /\ q.op \notin {"upload", "rotate", "secure_delete"} => q.mine.wrapped = q.loaded.wrapped
    /\ q.op = "secure_delete" => /\ q.pc \in {"load", "key", "record", "shred", "commit"}
                                 /\ q.pc \notin {"load", "key"} => q.mine.wrapped = "erased"
    /\ q.op = "rotate" => /\ q.pc \in {"load", "unwrap", "record", "commit"}
                          /\ q.pc \notin {"load", "unwrap"} =>
                               q.mine.wrapped # "erased" /\ ~ bindsAAD
    /\ q.check # "none" => q.op \in {"download", "verify"}
    /\ q.op = "download" => /\ q.pc = "record" => q.check # "none"
                            /\ q.pc = "commit" => q.got = "good"

\* From its audit entry on a request holds the lock, and nobody else does.
Holds(q) ==
    q.pc \in {"shred", "raise", "commit"} \/ (q.op = "download" /\ q.pc \in {"key", "unwrap"})
LockOwned(r) == req[r] # Idle /\ Holds(req[r]) <=> lock = r

\* What is so of the row and the blob of the file a request works on.
Current(q) ==
    LET now == row[q.file] IN
    /\ q.op = "upload" => now = NoRow /\ (q.pc # "blob" => blob[q.file] # "absent")
    /\ q.op # "upload" => now # NoRow
    /\ q.op = "download" /\ q.pc = "unwrap" => now.wrapped # "erased"
    /\ q.op = "secure_delete" /\ q.pc = "commit" => blob[q.file] = "absent"
    /\ bindsAAD /\ q.op = "secure_delete" /\ q.pc \notin {"load", "key"} =>
          (q.loaded.wrapped = "erased" => now.wrapped = "erased")

Good(r) == LockOwned(r) /\ (req[r] # Idle => Shape(req[r]) /\ Current(req[r]))

\* Nobody works on a file while it is uploaded.
UploadAlone ==
    \A r, s \in Requests :
        r # s /\ req[r] # Idle /\ req[s] # Idle /\ req[r].op = "upload" => File(r) # File(s)

\* Where the blob of a file has gone, its key has, or will by who holds the
\* lock, or would have.
MissingIsKnown ==
    bindsAAD => \A f \in Files : row[f] # NoRow /\ blob[f] = "absent" =>
        \/ row[f].wrapped = "erased"
        \/ f \in broken
        \/ \E r \in Requests : At(r, {"secure_delete"}, "commit") /\ File(r) = f

\* A file has a key.
KeyedRows == \A f \in Files : row[f] = NoRow \/ row[f].key # "none"

\* The invariant of the argument.
IInv ==
    /\ TypeOK /\ KeyedRows /\ UploadAlone /\ MissingIsKnown /\ ShredLeavesNoBlob
    /\ \A r \in Requests : Good(r)

-------------------------------------------------------------------------------
(* Lemmas on the steps.                                                    *)

\* A request that is at one of its steps has an operation under way.
LEMMA Busy ==
    ASSUME TypeOK, NEW r \in Requests, req[r].pc # "idle"
    PROVE  req[r] # Idle /\ req[r] \in Request
BY DEF TypeOK, Idle

\* Only one request is at a step at which requests hold the lock.
LEMMA OneHolder ==
    ASSUME IInv, NEW r \in Requests, NEW s \in Requests,
           req[r] # Idle, req[s] # Idle, Holds(req[r]), Holds(req[s])
    PROVE  r = s
<1>1. LockOwned(r) /\ LockOwned(s)
  BY DEF IInv, Good
<1> QED BY <1>1 DEF LockOwned

\* A request goes on to its next step, and may take the lock: the rows and the
\* blobs stay as they are.
LEMMA QuietStep ==
    ASSUME IInv, NEW r \in Requests, req[r] # Idle, req[r].pc # "commit",
           NEW q \in Request, req' = [req EXCEPT ![r] = q],
           q.op = req[r].op, q.file = req[r].file,
           UNCHANGED <<row, blob, broken, bindsAAD>>,
           \/ lock' = lock /\ (Holds(q) <=> Holds(req[r]))
           \/ lock = NoRequest /\ lock' = r /\ Holds(q),
           Shape(q), Current(q)
    PROVE  IInv'
<1>1. q # Idle
  BY DEF Request, Idle, Steps
<1>2. req'[r] = q /\ (\A s \in Requests : s # r => req'[s] = req[s])
  BY DEF IInv, TypeOK
<1>3. TypeOK'
  BY DEF IInv, TypeOK
<1>4. KeyedRows' /\ ShredLeavesNoBlob'
  BY DEF IInv, KeyedRows, ShredLeavesNoBlob
<1>5. UploadAlone'
  BY <1>1, <1>2 DEF IInv, UploadAlone, File
<1>6. MissingIsKnown'
  <2> SUFFICES ASSUME bindsAAD, NEW f \in Files, row[f] # NoRow, blob[f] = "absent",
                      row[f].wrapped # "erased", f \notin broken
               PROVE  (\E s \in Requests : At(s, {"secure_delete"}, "commit") /\ File(s) = f)'
    BY DEF MissingIsKnown
  <2>1. PICK s \in Requests : At(s, {"secure_delete"}, "commit") /\ File(s) = f
    BY DEF IInv, MissingIsKnown
  <2>2. s # r
    BY <2>1 DEF At
  <2> QED BY <2>1, <2>2, <1>2 DEF At, File
<1>7. \A s \in Requests : Good(s)'
  <2>1. \A c : Current(c)' <=> Current(c)
    BY DEF Current
  <2>2. \A c : Shape(c)' <=> Shape(c)
    BY DEF Shape
  <2>3. LockOwned(r)'
    BY <1>1, <1>2, RequestsAssumption DEF IInv, Good, LockOwned
  <2>4. Good(r)'
    BY <1>2, <2>1, <2>2, <2>3 DEF Good
  <2>5. ASSUME NEW s \in Requests, s # r PROVE Good(s)'
    <3>1. LockOwned(s)'
      BY <1>2, <2>5, RequestsAssumption DEF IInv, Good, LockOwned
    <3> QED BY <3>1, <1>2, <2>1, <2>2, <2>5 DEF IInv, Good
  <2> QED BY <2>4, <2>5
<1> QED BY <1>3, <1>4, <1>5, <1>6, <1>7 DEF IInv

\* A request ends without its commit.
LEMMA EndStep ==
    ASSUME IInv, NEW r \in Requests, req[r] # Idle,
           req' = [req EXCEPT ![r] = Idle], lock' = Released(r),
           UNCHANGED <<row, blob, bindsAAD>>,
           broken \subseteq broken', broken' \subseteq Files,
           At(r, {"secure_delete"}, "commit") => File(r) \in broken'
    PROVE  IInv'
<1>2. req'[r] = Idle /\ (\A s \in Requests : s # r => req'[s] = req[s])
  BY DEF IInv, TypeOK
<1>3. TypeOK'
  BY DEF IInv, TypeOK, Released
<1>4. KeyedRows' /\ ShredLeavesNoBlob'
  BY DEF IInv, KeyedRows, ShredLeavesNoBlob
<1>5. UploadAlone'
  BY <1>2 DEF IInv, UploadAlone, File
<1>6. MissingIsKnown'
  <2> SUFFICES ASSUME bindsAAD, NEW f \in Files, row[f] # NoRow, blob[f] = "absent",
                      row[f].wrapped # "erased", f \notin broken'
               PROVE  (\E s \in Requests : At(s, {"secure_delete"}, "commit") /\ File(s) = f)'
    BY DEF MissingIsKnown
  <2>1. PICK s \in Requests : At(s, {"secure_delete"}, "commit") /\ File(s) = f
    BY DEF IInv, MissingIsKnown
  <2>2. s # r
    BY <2>1
  <2> QED BY <2>1, <2>2, <1>2 DEF At, File
<1>7. \A s \in Requests : Good(s)'
  <2>1. \A c : Current(c)' <=> Current(c)
    BY DEF Current
  <2>2. \A c : Shape(c)' <=> Shape(c)
    BY DEF Shape
  <2>4. Good(r)'
    BY <1>2, RequestsAssumption DEF Good, LockOwned, Released, IInv
  <2>5. ASSUME NEW s \in Requests, s # r PROVE Good(s)'
    <3>1. LockOwned(s)'
      BY <1>2, <2>5, RequestsAssumption DEF IInv, Good, LockOwned, Released
    <3> QED BY <3>1, <1>2, <2>1, <2>2, <2>5 DEF IInv, Good
  <2> QED BY <2>4, <2>5
<1> QED BY <1>3, <1>4, <1>5, <1>6, <1>7 DEF IInv

\* An operation that raises before its commit.
LEMMA RejectStep ==
    ASSUME IInv, UNCHANGED bindsAAD, NEW r \in Requests, req[r] # Idle,
           req[r].pc # "commit", Reject(r)
    PROVE  IInv'
<1>1. broken \subseteq broken' /\ broken' \subseteq Files
  BY DEF Reject, IInv, TypeOK
<1>2. ~ At(r, {"secure_delete"}, "commit")
  BY DEF At
<1> QED BY <1>1, <1>2, EndStep DEF Reject

\* A new operation finds its file as it expects it.
LEMMA StartStep ==
    ASSUME IInv, UNCHANGED bindsAAD, NEW r \in Requests, NEW op \in Ops, NEW f \in Files,
           Start(r, op, f)
    PROVE  IInv'
<1> DEFINE q == [op |-> op, file |-> f, loaded |-> NoRow, mine |-> NoRow,
                 pc |-> IF op = "upload" THEN "blob" ELSE "load",
                 check |-> "none", got |-> "absent"]
<1>1. NoRow \in Row
  BY DEF NoRow, Row, FileStatus, KeyStatus, Wrapped
<1>2. q \in Request
  BY <1>1 DEF Request, Steps, Blobs
<1>3. req' = [req EXCEPT ![r] = q] /\ UNCHANGED <<row, blob, lock, broken>>
  BY DEF Start
<1>4. req[r] = Idle /\ q.pc \in {"blob", "load"} /\ q.op = op /\ q.file = f
  BY DEF Start
<1>5. q # Idle /\ q.loaded = NoRow /\ q.mine = NoRow /\ q.check = "none"
  BY <1>4 DEF Idle
<1>6. op = "upload" => /\ q.pc = "blob" /\ row[f] = NoRow
                       /\ \A s \in Requests : req[s] # Idle => File(s) # f
  BY DEF Start
<1>7. op # "upload" => q.pc = "load" /\ row[f] # NoRow
  BY DEF Start
<1> HIDE DEF q
<1>8. req'[r] = q /\ (\A s \in Requests : s # r => req'[s] = req[s])
  BY <1>3 DEF IInv, TypeOK
<1>9. ~ Holds(q)
  BY <1>4, <1>6, <1>7 DEF Holds
<1>10. Shape(q) /\ Current(q)
  <2>1. Shape(q)
    BY <1>4, <1>5, <1>6, <1>7 DEF Shape
  <2>2. Current(q)
    BY <1>4, <1>5, <1>6, <1>7 DEF Current
  <2> QED BY <2>1, <2>2
<1>11. TypeOK'
  BY <1>2, <1>3 DEF IInv, TypeOK
<1>12. KeyedRows' /\ ShredLeavesNoBlob'
  BY <1>3 DEF IInv, KeyedRows, ShredLeavesNoBlob
<1>13. UploadAlone'
  <2> SUFFICES ASSUME NEW s \in Requests, NEW u \in Requests, s # u,
                      req'[s] # Idle, req'[u] # Idle, req'[s].op = "upload"
               PROVE  req'[s].file # req'[u].file
    BY DEF UploadAlone, File
  <2>1. CASE s = r
    BY <2>1, <1>8, <1>6, <1>4 DEF File
  <2>2. CASE u = r
    <3>1. req[s] # Idle /\ req[s].op = "upload" /\ req'[s] = req[s] /\ req'[u] = q
      BY <2>2, <1>8
    <3>2. row[req[s].file] = NoRow
      BY <3>1 DEF IInv, Good, Current
    <3>3. op # "upload" => req[s].file # f
      BY <3>2, <1>7
    <3>4. op = "upload" => req[s].file # f
      BY <3>1, <1>6 DEF File
    <3> QED BY <3>1, <3>3, <3>4, <1>4
  <2>3. CASE s # r /\ u # r
    BY <2>3, <1>8 DEF IInv, UploadAlone, File
  <2> QED BY <2>1, <2>2, <2>3
<1>14. MissingIsKnown'
  <2> SUFFICES ASSUME bindsAAD, NEW g \in Files, row[g] # NoRow, blob[g] = "absent",
                      row[g].wrapped # "erased", g \notin broken
               PROVE  (\E s \in Requests : At(s, {"secure_delete"}, "commit") /\ File(s) = g)'
    BY <1>3 DEF MissingIsKnown
  <2>1. PICK s \in Requests : At(s, {"secure_delete"}, "commit") /\ File(s) = g
    BY DEF IInv, MissingIsKnown
  <2>2. s # r
    BY <2>1, <1>4 DEF At, Idle
  <2> QED BY <2>1, <2>2, <1>8 DEF At, File
<1>15. \A s \in Requests : Good(s)'
  <2>1. \A c : Current(c)' <=> Current(c)
    BY <1>3 DEF Current
  <2>2. \A c : Shape(c)' <=> Shape(c)
    BY DEF Shape
  <2>4. Good(r)'
    BY <1>3, <1>4, <1>5, <1>8, <1>9, <1>10, <2>1, <2>2 DEF Good, LockOwned, IInv
  <2>5. ASSUME NEW s \in Requests, s # r PROVE Good(s)'
    <3>1. LockOwned(s)'
      BY <1>3, <1>8, <2>5 DEF IInv, Good, LockOwned
    <3> QED BY <3>1, <1>8, <2>1, <2>2, <2>5 DEF IInv, Good
  <2> QED BY <2>4, <2>5
<1> QED BY <1>11, <1>12, <1>13, <1>14, <1>15 DEF IInv

\* The SELECTs that load a row.
LEMMA LoadStep ==
    ASSUME IInv, UNCHANGED bindsAAD, NEW r \in Requests,
           LoadVisible(r) \/ LoadAny(r) \/ LoadDeleted(r) \/ LoadKey(r)
    PROVE  IInv'
<1> DEFINE o == req[r]
           now == row[o.file]
<1>1. o # Idle /\ o \in Request /\ o.pc = "load"
  BY Busy DEF IInv, LoadVisible, LoadAny, LoadDeleted, LoadKey, At
<1>2. o.op \in {"download", "soft_delete", "verify", "secure_delete", "restore",
                "rotate", "revoke"}
  BY DEF LoadVisible, LoadAny, LoadDeleted, LoadKey, At
<1>3. now \in Row /\ now # NoRow
  BY <1>1, <1>2 DEF IInv, Good, Current, TypeOK, Request
<1>4. CASE Reject(r)
  BY <1>1, <1>4, RejectStep
<1>5. CASE ~ Reject(r)
  <2>1. PICK m \in Row, pc \in {"record", "blob", "key", "unwrap"} :
          /\ req' = [req EXCEPT ![r] = [o EXCEPT !.loaded = now, !.mine = m, !.pc = pc]]
          /\ UNCHANGED <<row, blob, lock, broken>>
          /\ m.key \in {now.key, "revoked"} /\ m.wrapped = now.wrapped
          /\ pc = "key" <=> o.op = "secure_delete"
          /\ pc = "unwrap" <=> o.op = "rotate"
          /\ o.op = "download" => pc = "blob"
    <3>1. CASE LoadVisible(r)
      <4>1. [now EXCEPT !.status = "deleted"] \in Row
        BY <1>3 DEF Row, FileStatus
      <4>2. [now EXCEPT !.status = "deleted"].key = now.key
            /\ [now EXCEPT !.status = "deleted"].wrapped = now.wrapped
        BY <1>3 DEF Row
      <4>3. CASE o.op = "soft_delete"
        <5>1. req' = [req EXCEPT ![r] = [o EXCEPT !.loaded = now, !.pc = "record",
                                         !.mine = [now EXCEPT !.status = "deleted"]]]
          BY <3>1, <4>3, <1>5, <1>1 DEF LoadVisible, File, IInv, TypeOK, Request
        <5> QED BY <5>1, <4>1, <4>2, <4>3, <3>1, <1>5 DEF LoadVisible
      <4>4. CASE o.op = "download"
        <5>1. req' = [req EXCEPT ![r] = [o EXCEPT !.loaded = now, !.pc = "blob", !.mine = now]]
          BY <3>1, <4>4, <1>5, <1>1 DEF LoadVisible, File, IInv, TypeOK, Request
        <5> QED BY <5>1, <1>3, <4>4, <3>1, <1>5 DEF LoadVisible
      <4> QED BY <3>1, <4>3, <4>4 DEF LoadVisible, At
    <3>2. CASE LoadAny(r)
      <4>3. CASE o.op = "verify"
        <5>1. req' = [req EXCEPT ![r] = [o EXCEPT !.loaded = now, !.pc = "blob", !.mine = now]]
          BY <3>2, <4>3, <1>1 DEF LoadAny, File, IInv, TypeOK, Request
        <5> QED BY <5>1, <1>3, <4>3, <3>2 DEF LoadAny
      <4>4. CASE o.op = "secure_delete"
        <5>1. req' = [req EXCEPT ![r] = [o EXCEPT !.loaded = now, !.pc = "key", !.mine = now]]
          BY <3>2, <4>4, <1>1 DEF LoadAny, File, IInv, TypeOK, Request
        <5> QED BY <5>1, <1>3, <4>4, <3>2 DEF LoadAny
      <4> QED BY <3>2, <4>3, <4>4 DEF LoadAny, At
    <3>3. CASE LoadDeleted(r)
      <4>1. [now EXCEPT !.status = "available"] \in Row
        BY <1>3 DEF Row, FileStatus
      <4>2. [now EXCEPT !.status = "available"].key = now.key
            /\ [now EXCEPT !.status = "available"].wrapped = now.wrapped
        BY <1>3 DEF Row
      <4>3. o.op = "restore"
        BY <3>3 DEF LoadDeleted, At
      <4>4. req' = [req EXCEPT ![r] = [o EXCEPT !.loaded = now, !.pc = "blob",
                                       !.mine = [now EXCEPT !.status = "available"]]]
        BY <3>3, <4>3, <1>5, <1>1 DEF LoadDeleted, File, IInv, TypeOK, Request
      <4> QED BY <4>1, <4>2, <4>3, <4>4, <3>3, <1>5 DEF LoadDeleted
    <3>4. CASE LoadKey(r)
      <4>1. [now EXCEPT !.key = "revoked"] \in Row
        BY <1>3 DEF Row, KeyStatus
      <4>2. [now EXCEPT !.key = "revoked"].key = "revoked"
            /\ [now EXCEPT !.key = "revoked"].wrapped = now.wrapped
        BY <1>3 DEF Row
      <4>3. CASE o.op = "revoke"
        <5>1. req' = [req EXCEPT ![r] = [o EXCEPT !.loaded = now, !.pc = "record",
                                         !.mine = [now EXCEPT !.key = "revoked"]]]
          BY <3>4, <4>3, <1>5, <1>1 DEF LoadKey, File, IInv, TypeOK, Request
        <5> QED BY <5>1, <4>1, <4>2, <4>3, <3>4, <1>5 DEF LoadKey
      <4>4. CASE o.op = "rotate"
        <5>1. req' = [req EXCEPT ![r] = [o EXCEPT !.loaded = now, !.pc = "unwrap", !.mine = now]]
          BY <3>4, <4>4, <1>5, <1>1 DEF LoadKey, File, IInv, TypeOK, Request
        <5> QED BY <5>1, <1>3, <4>4, <3>4, <1>5 DEF LoadKey
      <4> QED BY <3>4, <4>3, <4>4 DEF LoadKey, At
    <3> QED BY <3>1, <3>2, <3>3, <3>4
  <2>2. PICK q : q = [o EXCEPT !.loaded = now, !.mine = m, !.pc = pc]
    OBVIOUS
  <2>3. q \in Request
    BY <2>1, <2>2, <1>1, <1>3 DEF Request, Steps
  <2>4. q.op = o.op /\ q.file = o.file /\ q.loaded = now /\ q.mine = m /\ q.pc = pc
        /\ q.check = o.check
    BY <2>2, <1>1 DEF Request
  <2> HIDE DEF o, now
  <2>5. Shape(o)
    BY <1>1 DEF IInv, Good, o
  <2>6. Shape(q)
    BY <2>1, <2>4, <2>5, <1>1, <1>2 DEF Shape
  <2>7. Current(q)
    BY <2>1, <2>4, <1>2, <1>3 DEF Current, now
  <2>8. ~ Holds(q) /\ ~ Holds(o)
    BY <2>1, <2>4, <1>1 DEF Holds
  <2>9. req' = [req EXCEPT ![r] = q] /\ q.op = req[r].op /\ q.file = req[r].file
        /\ req[r].pc = "load" /\ req[r] # Idle /\ ~ Holds(req[r])
    BY <2>1, <2>2, <2>4, <2>8, <1>1 DEF o
  <2> QED BY <2>1, <2>3, <2>6, <2>7, <2>8, <2>9, QuietStep
<1> QED BY <1>4, <1>5

\* The accesses to the blob that only read it.
LEMMA ReadStep ==
    ASSUME IInv, UNCHANGED bindsAAD, NEW r \in Requests, RestoreBlob(r) \/ VerifyBlob(r)
    PROVE  IInv'
<1> DEFINE o == req[r]
<1>1. o # Idle /\ o \in Request /\ o.pc = "blob" /\ o.op \in {"restore", "download", "verify"}
  BY Busy DEF IInv, RestoreBlob, VerifyBlob, At
<1>2. CASE Reject(r)
  BY <1>1, <1>2, RejectStep
<1>3. CASE ~ Reject(r)
  <2>1. PICK m \in Row, c \in {"none", "passed", "failed"} :
          /\ req' = [req EXCEPT ![r] = [o EXCEPT !.pc = "record", !.mine = m, !.check = c]]
          /\ UNCHANGED <<row, blob, lock, broken>>
          /\ m.key = o.mine.key /\ m.wrapped = o.mine.wrapped
          /\ o.op = "restore" => c = o.check
          /\ o.op # "restore" => c # "none"
    <3>1. CASE RestoreBlob(r)
      <4>1. req' = [req EXCEPT ![r] = [o EXCEPT !.pc = "record", !.mine = o.mine, !.check = o.check]]
        BY <3>1, <1>1, <1>3 DEF RestoreBlob, IInv, TypeOK, Request
      <4>2. o.mine \in Row /\ o.check \in {"none", "passed", "failed"} /\ o.op = "restore"
        BY <3>1, <1>1 DEF Request, RestoreBlob, At
      <4> QED BY <4>1, <4>2, <3>1, <1>3 DEF RestoreBlob
    <3>2. CASE VerifyBlob(r) /\ blob[File(r)] = "good"
      <4>1. req' = [req EXCEPT ![r] = [o EXCEPT !.pc = "record", !.mine = o.mine, !.check = "passed"]]
        BY <3>2, <1>1 DEF VerifyBlob, IInv, TypeOK, Request
      <4>2. o.mine \in Row /\ o.op # "restore"
        BY <3>2, <1>1 DEF Request, VerifyBlob, At
      <4> QED BY <4>1, <4>2, <3>2 DEF VerifyBlob
    <3>3. CASE VerifyBlob(r) /\ blob[File(r)] # "good"
      <4>1. PICK m : m = [o.mine EXCEPT !.status = "quarantined", !.alert = TRUE]
        OBVIOUS
      <4>2. m \in Row /\ m.key = o.mine.key /\ m.wrapped = o.mine.wrapped
        BY <4>1, <1>1 DEF Request, Row, FileStatus
      <4>3. req' = [req EXCEPT ![r] = [o EXCEPT !.pc = "record", !.mine = m, !.check = "failed"]]
        BY <3>3, <4>1, <1>1 DEF VerifyBlob, IInv, TypeOK, Request, Row
      <4>4. o.op # "restore"
        BY <3>3 DEF VerifyBlob, At
      <4> QED BY <4>2, <4>3, <4>4, <3>3 DEF VerifyBlob
    <3> QED BY <3>1, <3>2, <3>3
  <2>2. PICK q : q = [o EXCEPT !.pc = "record", !.mine = m, !.check = c]
    OBVIOUS
  <2>3. q \in Request
    BY <2>1, <2>2, <1>1 DEF Request, Steps
  <2>4. q.op = o.op /\ q.file = o.file /\ q.loaded = o.loaded /\ q.mine = m
        /\ q.pc = "record" /\ q.check = c
    BY <2>2, <1>1 DEF Request
  <2> HIDE DEF o
  <2>5. Shape(o) /\ Current(o)
    BY <1>1 DEF IInv, Good, o
  <2>6. Shape(q)
    BY <2>1, <2>4, <2>5, <1>1 DEF Shape
  <2>7. Current(q)
    BY <2>1, <2>4, <2>5, <1>1 DEF Current
  <2>8. ~ Holds(q) /\ ~ Holds(o)
    BY <2>1, <2>4, <1>1 DEF Holds
  <2>9. req' = [req EXCEPT ![r] = q] /\ q.op = req[r].op /\ q.file = req[r].file
        /\ req[r].pc = "blob" /\ req[r] # Idle /\ ~ Holds(req[r])
    BY <2>1, <2>2, <2>4, <2>8, <1>1 DEF o
  <2> QED BY <2>1, <2>3, <2>6, <2>7, <2>8, <2>9, QuietStep
<1> QED BY <1>2, <1>3

\* The audit entry, which takes the lock.
LEMMA RecordStep ==
    ASSUME IInv, UNCHANGED bindsAAD, NEW r \in Requests, Record(r)
    PROVE  IInv'
<1> DEFINE o == req[r]
           pc == CASE o.check = "failed" -> "raise"
                   [] At(r, {"secure_delete"}, "record") -> "shred"
                   [] o.check = "passed" /\ o.op = "download" -> "key"
                   [] OTHER -> "commit"
<1>1. o # Idle /\ o \in Request /\ o.pc = "record"
  BY Busy DEF IInv, Record
<1>2. Shape(o) /\ Current(o)
  BY <1>1 DEF IInv, Good
<1>3. /\ pc \in {"raise", "shred", "key", "commit"}
      /\ pc = "raise" <=> o.check = "failed"
      /\ o.op = "secure_delete" => pc = "shred"
      /\ pc = "shred" => o.op = "secure_delete"
      /\ pc = "key" => o.op = "download"
      /\ o.op = "download" => pc # "commit"
  <2>1. CASE o.check = "failed"
    <3>1. o.op \in {"download", "verify"}
      BY <2>1, <1>2 DEF Shape
    <3>2. pc = "raise"
      BY <2>1, <3>1 DEF At
    <3> QED BY <3>1, <3>2, <2>1
  <2>2. CASE o.check # "failed" /\ o.op = "secure_delete"
    <3>1. pc = "shred"
      BY <2>2, <1>1 DEF At
    <3> QED BY <3>1, <2>2
  <2>3. CASE o.check # "failed" /\ o.op = "download"
    <3>1. o.check = "passed"
      BY <2>3, <1>1, <1>2 DEF Shape, Request
    <3>2. pc = "key"
      BY <2>3, <3>1 DEF At
    <3> QED BY <3>2, <2>3
  <2>4. CASE o.check # "failed" /\ o.op \notin {"secure_delete", "download"}
    <3>2. pc = "commit"
      BY <2>4 DEF At
    <3> QED BY <3>2, <2>4
  <2> QED BY <2>1, <2>2, <2>3, <2>4
<1>4. PICK q : q = [o EXCEPT !.pc = pc]
  OBVIOUS
<1>5. req' = [req EXCEPT ![r] = q] /\ UNCHANGED <<row, blob, broken>>
      /\ lock = NoRequest /\ lock' = r
  BY <1>4 DEF Record
<1> HIDE DEF pc
<1>6. q \in Request
  BY <1>1, <1>3, <1>4 DEF Request, Steps
<1>7. q.op = o.op /\ q.file = o.file /\ q.loaded = o.loaded /\ q.mine = o.mine
      /\ q.pc = pc /\ q.check = o.check
  BY <1>4, <1>1 DEF Request
<1> HIDE DEF o
<1>8. Shape(q)
  BY <1>1, <1>2, <1>3, <1>7 DEF Shape
<1>9. Current(q)
  BY <1>1, <1>2, <1>3, <1>7 DEF Current
<1>10. Holds(q)
  BY <1>3, <1>7 DEF Holds
<1>11. req[r] # Idle /\ req[r].pc = "record" /\ q.op = req[r].op /\ q.file = req[r].file
  BY <1>1, <1>7 DEF o
<1> QED BY <1>5, <1>6, <1>8, <1>9, <1>10, <1>11, QuietStep

\* Under the lock a download reads the key and decrypts.
LEMMA DownloadStep ==
    ASSUME IInv, UNCHANGED bindsAAD, NEW r \in Requests, DownloadKey(r) \/ DownloadDecrypt(r)
    PROVE  IInv'
<1> DEFINE o == req[r]
           now == row[o.file]
<1>1. o # Idle /\ o \in Request /\ o.pc \in {"key", "unwrap"} /\ o.op = "download"
  BY Busy DEF IInv, DownloadKey, DownloadDecrypt, At
<1>2. CASE Reject(r)
  BY <1>1, <1>2, RejectStep
<1>3. CASE ~ Reject(r)
  <2>0. now \in Row
    BY <1>1 DEF IInv, TypeOK, Request
  <2>1. PICK l \in Row, m \in Row, g \in Blobs, pc \in {"unwrap", "commit"} :
          /\ req' = [req EXCEPT ![r] = [o EXCEPT !.pc = pc, !.loaded = l, !.mine = m, !.got = g]]
          /\ UNCHANGED <<row, blob, lock, broken>>
          /\ m.key \in {l.key, "revoked", "destroyed"} /\ m.wrapped = l.wrapped
          /\ pc = "commit" => g = "good"
          /\ pc = "unwrap" => now.wrapped # "erased"
    <3>1. CASE DownloadKey(r)
      <4>1. PICK l, m : l = WithKey(o.loaded, now) /\ m = WithKey(o.mine, now)
        OBVIOUS
      <4>2. l \in Row /\ m \in Row /\ l.key = now.key /\ m.key = now.key
            /\ l.wrapped = now.wrapped /\ m.wrapped = now.wrapped
        BY <4>1, <2>0, <1>1 DEF WithKey, Row, Request
      <4>3. req' = [req EXCEPT ![r] = [o EXCEPT !.pc = "unwrap", !.loaded = l, !.mine = m, !.got = o.got]]
        BY <3>1, <4>1, <1>1, <1>3 DEF DownloadKey, IInv, TypeOK, Request, File
      <4>4. o.got \in Blobs /\ now.wrapped # "erased"
        BY <1>1, <1>3, <3>1 DEF Request, DownloadKey, File
      <4> QED BY <4>2, <4>3, <4>4, <3>1, <1>3 DEF DownloadKey
    <3>2. CASE DownloadDecrypt(r)
      <4>1. req' = [req EXCEPT ![r] = [o EXCEPT !.pc = "commit", !.loaded = o.loaded,
                                       !.mine = o.mine, !.got = "good"]]
        BY <3>2, <1>1, <1>3 DEF DownloadDecrypt, IInv, TypeOK, Request
      <4>2. o.loaded \in Row /\ o.mine \in Row
        BY <1>1 DEF Request
      <4>3. o.mine.key \in {o.loaded.key, "revoked", "destroyed"} /\ o.mine.wrapped = o.loaded.wrapped
        BY <1>1 DEF IInv, Good, Shape
      <4> QED BY <4>1, <4>2, <4>3, <3>2, <1>3 DEF DownloadDecrypt, Blobs
    <3> QED BY <3>1, <3>2
  <2>2. PICK q : q = [o EXCEPT !.pc = pc, !.loaded = l, !.mine = m, !.got = g]
    OBVIOUS
  <2>3. q \in Request
    BY <2>1, <2>2, <1>1 DEF Request, Steps
  <2>4. q.op = "download" /\ q.file = o.file /\ q.loaded = l /\ q.mine = m
        /\ q.pc = pc /\ q.check = o.check /\ q.got = g
    BY <2>2, <1>1 DEF Request
  <2>10. q.op = o.op
    BY <2>4, <1>1
  <2> HIDE DEF o, now
  <2>5. Shape(o) /\ Current(o)
    BY <1>1 DEF IInv, Good, o
  <2>6. Shape(q)
    BY <2>1, <2>4, <2>5, <1>1 DEF Shape
  <2>7. Current(q)
    BY <2>1, <2>4, <2>5, <1>1 DEF Current, now
  <2>8. Holds(q) /\ Holds(o)
    BY <2>1, <2>4, <1>1 DEF Holds
  <2>9. req' = [req EXCEPT ![r] = q] /\ q.op = req[r].op /\ q.file = req[r].file
        /\ req[r].pc # "commit" /\ req[r] # Idle /\ Holds(req[r])
    BY <2>1, <2>2, <2>4, <2>8, <2>10, <1>1 DEF o
  <2> QED BY <2>1, <2>3, <2>6, <2>7, <2>8, <2>9, QuietStep
<1> QED BY <1>2, <1>3

\* What secure_delete and rotate_key make of the key row they loaded.
LEMMA KeyStep ==
    ASSUME IInv, UNCHANGED bindsAAD, NEW r \in Requests, ShredKey(r) \/ Rewrap(r)
    PROVE  IInv'
<1> DEFINE o == req[r]
           now == row[o.file]
<1>1. o # Idle /\ o \in Request /\ o.pc \in {"key", "unwrap"} /\ o.op \in {"secure_delete", "rotate"}
  BY Busy DEF IInv, ShredKey, Rewrap, At
<1>2. CASE Reject(r)
  BY <1>1, <1>2, RejectStep
<1>3. CASE ~ Reject(r)
  <2>0. now \in Row /\ o.mine \in Row /\ o.loaded \in Row
    BY <1>1 DEF IInv, TypeOK, Request
  <2>1. PICK l \in Row, m \in Row :
          /\ req' = [req EXCEPT ![r] = [o EXCEPT !.pc = "record", !.loaded = l, !.mine = m]]
          /\ UNCHANGED <<row, blob, lock, broken>>
          /\ m.key \in {l.key, "revoked", "destroyed"}
          /\ o.op = "secure_delete" => m.wrapped = "erased" /\ l.wrapped = now.wrapped
          /\ o.op = "rotate" => m.wrapped # "erased" /\ ~ bindsAAD
    <3>1. CASE ShredKey(r)
      <4>1. PICK l, m : l = WithKey(o.loaded, now)
                        /\ m = [o.mine EXCEPT !.key = "destroyed", !.wrapped = "erased"]
        OBVIOUS
      <4>2. l \in Row /\ m \in Row /\ m.key = "destroyed" /\ m.wrapped = "erased"
            /\ l.wrapped = now.wrapped
        BY <4>1, <2>0 DEF WithKey, Row, KeyStatus, Wrapped
      <4>3. req' = [req EXCEPT ![r] = [o EXCEPT !.pc = "record", !.loaded = l, !.mine = m]]
        BY <3>1, <4>1, <1>1, <2>0 DEF ShredKey, IInv, TypeOK, Request, File, Row
      <4>4. o.op = "secure_delete"
        BY <3>1 DEF ShredKey, At
      <4> QED BY <4>2, <4>3, <4>4, <3>1 DEF ShredKey
    <3>2. CASE Rewrap(r)
      <4>1. PICK m : m = [o.mine EXCEPT !.wrapped =
                            IF @ = "wrapped" THEN "rewrapped" ELSE "wrapped"]
        OBVIOUS
      <4>2. m \in Row /\ m.key = o.mine.key /\ m.wrapped # "erased"
        BY <4>1, <2>0 DEF Row, Wrapped
      <4>3. req' = [req EXCEPT ![r] = [o EXCEPT !.pc = "record", !.loaded = o.loaded, !.mine = m]]
        BY <3>2, <4>1, <1>1, <1>3 DEF Rewrap, IInv, TypeOK, Request
      <4>4. o.op = "rotate" /\ ~ bindsAAD
        BY <3>2, <1>3 DEF Rewrap, At, UnwrapFails
      <4>5. o.mine.key \in {o.loaded.key, "revoked", "destroyed"}
        BY <1>1 DEF IInv, Good, Shape
      <4> QED BY <4>2, <4>3, <4>4, <4>5, <2>0, <3>2, <1>3 DEF Rewrap
    <3> QED BY <3>1, <3>2
  <2>2. PICK q : q = [o EXCEPT !.pc = "record", !.loaded = l, !.mine = m]
    OBVIOUS
  <2>3. q \in Request
    BY <2>1, <2>2, <1>1 DEF Request, Steps
  <2>4. q.op = o.op /\ q.file = o.file /\ q.loaded = l /\ q.mine = m
        /\ q.pc = "record" /\ q.check = o.check
    BY <2>2, <1>1 DEF Request
  <2> HIDE DEF o, now
  <2>5. Shape(o) /\ Current(o)
    BY <1>1 DEF IInv, Good, o
  <2>6. Shape(q)
    BY <2>1, <2>4, <2>5, <1>1 DEF Shape
  <2>7. Current(q)
    BY <2>1, <2>4, <2>5, <1>1 DEF Current, now
  <2>8. ~ Holds(q) /\ ~ Holds(o)
    BY <2>1, <2>4, <1>1 DEF Holds
  <2>9. req' = [req EXCEPT ![r] = q] /\ q.op = req[r].op /\ q.file = req[r].file
        /\ req[r].pc # "commit" /\ req[r] # Idle /\ ~ Holds(req[r])
    BY <2>1, <2>2, <2>4, <2>8, <1>1 DEF o
  <2> QED BY <2>1, <2>3, <2>6, <2>7, <2>8, <2>9, QuietStep
<1> QED BY <1>2, <1>3

\* The upload stores its blob before there is a row.
LEMMA UploadStep ==
    ASSUME IInv, UNCHANGED bindsAAD, NEW r \in Requests, UploadBlob(r)
    PROVE  IInv'
<1> DEFINE o == req[r]
           f == o.file
<1>1. o # Idle /\ o \in Request /\ o.pc = "blob" /\ o.op = "upload" /\ f \in Files
  BY Busy DEF IInv, UploadBlob, At, Request
<1>2. Uploaded \in Row
  BY DEF Uploaded, Row, FileStatus, KeyStatus, Wrapped
<1>3. PICK q : q = [o EXCEPT !.pc = "record", !.mine = Uploaded]
  OBVIOUS
<1>4. req' = [req EXCEPT ![r] = q] /\ blob' = [blob EXCEPT ![f] = "good"]
      /\ UNCHANGED <<row, lock, broken>>
  BY <1>1, <1>3 DEF UploadBlob, File, Uploaded, IInv, TypeOK, Request
<1>5. q \in Request
  BY <1>1, <1>2, <1>3 DEF Request, Steps
<1>6. q.op = "upload" /\ q.file = f /\ q.loaded = o.loaded /\ q.mine = Uploaded
      /\ q.pc = "record" /\ q.check = o.check /\ q # Idle
  BY <1>1, <1>3 DEF Request, Idle
<1>7. Shape(o) /\ Current(o)
  BY <1>1 DEF IInv, Good
<1>8. row[f] = NoRow
  BY <1>1, <1>7 DEF Current
<1>9. \A s \in Requests : s # r /\ req[s] # Idle => req[s].file # f
  BY <1>1 DEF IInv, UploadAlone, File
<1> HIDE DEF o, f
<1>10. req'[r] = q /\ (\A s \in Requests : s # r => req'[s] = req[s])
  BY <1>4 DEF IInv, TypeOK
<1>11. blob'[f] = "good" /\ (\A g \in Files : g # f => blob'[g] = blob[g])
  BY <1>1, <1>4 DEF IInv, TypeOK
<1>12. TypeOK'
  BY <1>4, <1>5, <1>1 DEF IInv, TypeOK, Blobs
<1>13. KeyedRows' /\ ShredLeavesNoBlob'
  BY <1>4, <1>8, <1>11 DEF IInv, KeyedRows, ShredLeavesNoBlob, NoRow
<1>14. UploadAlone'
  <2> SUFFICES ASSUME NEW s \in Requests, NEW u \in Requests, s # u,
                      req'[s] # Idle, req'[u] # Idle, req'[s].op = "upload"
               PROVE  req'[s].file # req'[u].file
    BY DEF UploadAlone, File
  <2>1. CASE s = r
    BY <2>1, <1>10, <1>9, <1>6
  <2>2. CASE u = r
    BY <2>2, <1>10, <1>9, <1>6
  <2>3. CASE s # r /\ u # r
    BY <2>3, <1>10 DEF IInv, UploadAlone, File
  <2> QED BY <2>1, <2>2, <2>3
<1>15. MissingIsKnown'
  <2> SUFFICES ASSUME bindsAAD, NEW g \in Files, row[g] # NoRow, blob'[g] = "absent",
                      row[g].wrapped # "erased", g \notin broken
               PROVE  (\E s \in Requests : At(s, {"secure_delete"}, "commit") /\ File(s) = g)'
    BY <1>4 DEF MissingIsKnown
  <2>0. blob[g] = "absent"
    BY <1>11
  <2>1. PICK s \in Requests : At(s, {"secure_delete"}, "commit") /\ File(s) = g
    BY <2>0 DEF IInv, MissingIsKnown
  <2>2. s # r
    BY <2>1, <1>1 DEF At, o
  <2> QED BY <2>1, <2>2, <1>10 DEF At, File
<1>16. \A s \in Requests : Good(s)'
  <2>1. Shape(q)
    BY <1>1, <1>6, <1>7 DEF Shape
  <2>2. \A c : Shape(c)' <=> Shape(c)
    BY DEF Shape
  <2>3. Current(q)'
    BY <1>4, <1>6, <1>8, <1>11 DEF Current
  <2>4. Good(r)'
    <3>1. LockOwned(r)'
      BY <1>1, <1>4, <1>6, <1>10 DEF IInv, Good, LockOwned, Holds, o
    <3> QED BY <3>1, <2>1, <2>2, <2>3, <1>10 DEF Good
  <2>5. ASSUME NEW s \in Requests, s # r PROVE Good(s)'
    <3>1. LockOwned(s)'
      BY <1>4, <1>10, <2>5 DEF IInv, Good, LockOwned
    <3>2. ASSUME req[s] # Idle PROVE Current(req[s])'
      <4>1. req[s].file # f /\ req[s].file \in Files
        BY <3>2, <2>5, <1>9 DEF IInv, TypeOK, Request
      <4>2. Current(req[s])
        BY <3>2 DEF IInv, Good
      <4> QED BY <4>1, <4>2, <1>4, <1>10, <1>11, <2>5 DEF Current
    <3> QED BY <3>1, <3>2, <1>10, <2>2, <2>5 DEF IInv, Good
  <2> QED BY <2>4, <2>5
<1> QED BY <1>12, <1>13, <1>14, <1>15, <1>16 DEF IInv

\* secure_delete unlinks the blob while it holds the lock.
LEMMA ShredStep ==
    ASSUME IInv, UNCHANGED bindsAAD, NEW r \in Requests, ShredBlob(r)
    PROVE  IInv'
<1> DEFINE o == req[r]
           f == o.file
<1>1. o # Idle /\ o \in Request /\ o.pc = "shred" /\ o.op = "secure_delete" /\ f \in Files
      /\ o.mine \in Row
  BY Busy DEF IInv, ShredBlob, At, Request
<1>2. PICK m : m = [o.mine EXCEPT !.status = "deleted"]
  OBVIOUS
<1>3. m \in Row /\ m.key = o.mine.key /\ m.wrapped = o.mine.wrapped
  BY <1>1, <1>2 DEF Row, FileStatus
<1>4. PICK q : q = [o EXCEPT !.pc = "commit", !.mine = m]
  OBVIOUS
<1>5. req' = [req EXCEPT ![r] = q] /\ blob' = [blob EXCEPT ![f] = "absent"]
      /\ UNCHANGED <<row, lock, broken>>
  BY <1>1, <1>2, <1>4 DEF ShredBlob, File, IInv, TypeOK, Request, Row
<1>6. q \in Request
  BY <1>1, <1>3, <1>4 DEF Request, Steps
<1>7. q.op = "secure_delete" /\ q.file = f /\ q.loaded = o.loaded /\ q.mine = m
      /\ q.pc = "commit" /\ q.check = o.check /\ q # Idle
  BY <1>1, <1>4 DEF Request, Idle
<1>8. Shape(o) /\ Current(o) /\ lock = r
  BY <1>1 DEF IInv, Good, LockOwned, Holds
<1> HIDE DEF o, f
<1>10. req'[r] = q /\ (\A s \in Requests : s # r => req'[s] = req[s])
  BY <1>5 DEF IInv, TypeOK
<1>11. blob'[f] = "absent" /\ (\A g \in Files : g # f => blob'[g] = blob[g])
  BY <1>1, <1>5 DEF IInv, TypeOK
<1>12. TypeOK'
  BY <1>5, <1>6, <1>1 DEF IInv, TypeOK, Blobs
<1>13. KeyedRows' /\ ShredLeavesNoBlob'
  BY <1>5, <1>11 DEF IInv, KeyedRows, ShredLeavesNoBlob
<1>14. UploadAlone'
  <2> SUFFICES ASSUME NEW s \in Requests, NEW u \in Requests, s # u,
                      req'[s] # Idle, req'[u] # Idle, req'[s].op = "upload"
               PROVE  req'[s].file # req'[u].file
    BY DEF UploadAlone, File
  <2>1. s # r
    BY <1>7, <1>10
  <2>2. req[u] # Idle /\ req'[u].file = req[u].file
    BY <1>1, <1>7, <1>10 DEF o, f
  <2>3. req[s] # Idle /\ req[s].op = "upload" /\ req'[s] = req[s]
    BY <2>1, <1>10
  <2> QED BY <2>2, <2>3 DEF IInv, UploadAlone, File
<1>15. MissingIsKnown'
  <2> SUFFICES ASSUME bindsAAD, NEW g \in Files, row[g] # NoRow, blob'[g] = "absent",
                      row[g].wrapped # "erased", g \notin broken
               PROVE  (\E s \in Requests : At(s, {"secure_delete"}, "commit") /\ File(s) = g)'
    BY <1>5 DEF MissingIsKnown
  <2>1. CASE g = f
    BY <2>1, <1>7, <1>10 DEF At, File
  <2>2. CASE g # f
    <3>1. PICK s \in Requests : At(s, {"secure_delete"}, "commit") /\ File(s) = g
      BY <2>2, <1>11 DEF IInv, MissingIsKnown
    <3>2. s # r
      BY <3>1, <1>1 DEF At, o
    <3> QED BY <3>1, <3>2, <1>10 DEF At, File
  <2> QED BY <2>1, <2>2
<1>16. \A s \in Requests : Good(s)'
  <2>1. Shape(q)
    BY <1>1, <1>3, <1>7, <1>8 DEF Shape
  <2>2. \A c : Shape(c)' <=> Shape(c)
    BY DEF Shape
  <2>3. Current(q)'
    BY <1>1, <1>5, <1>7, <1>8, <1>11 DEF Current, f
  <2>4. Good(r)'
    <3>1. LockOwned(r)'
      BY <1>5, <1>7, <1>8, <1>10 DEF LockOwned, Holds
    <3> QED BY <3>1, <2>1, <2>2, <2>3, <1>10 DEF Good
  <2>5. ASSUME NEW s \in Requests, s # r PROVE Good(s)'
    <3>1. LockOwned(s)'
      BY <1>5, <1>10, <2>5 DEF IInv, Good, LockOwned
    <3>2. ASSUME req[s] # Idle PROVE Current(req[s])'
      <4>1. req[s].file \in Files /\ Current(req[s])
        BY <3>2 DEF IInv, TypeOK, Request, Good
      <4>2. req[s].op = "upload" => req[s].file # f
        BY <3>2, <2>5, <1>1 DEF IInv, UploadAlone, File, o, f
      <4> QED BY <4>1, <4>2, <1>5, <1>10, <1>11, <2>5 DEF Current
    <3> QED BY <3>1, <3>2, <1>10, <2>2, <2>5 DEF IInv, Good
  <2> QED BY <2>4, <2>5
<1> QED BY <1>12, <1>13, <1>14, <1>15, <1>16 DEF IInv

\* The disk.
LEMMA DamageStep ==
    ASSUME IInv, UNCHANGED bindsAAD, NEW f \in Files, Damage(f)
    PROVE  IInv'
<1>1. blob[f] = "good" /\ blob' = [blob EXCEPT ![f] = "damaged"]
      /\ UNCHANGED <<row, lock, req, broken>>
  BY DEF Damage
<1>2. \A g \in Files : blob'[g] = "absent" <=> blob[g] = "absent"
  BY <1>1 DEF IInv, TypeOK
<1>3. TypeOK'
  BY <1>1 DEF IInv, TypeOK, Blobs
<1>4. KeyedRows' /\ ShredLeavesNoBlob' /\ UploadAlone'
  BY <1>1, <1>2 DEF IInv, KeyedRows, ShredLeavesNoBlob, UploadAlone, File
<1>5. MissingIsKnown'
  BY <1>1, <1>2 DEF IInv, MissingIsKnown, At, File
<1>6. ASSUME NEW s \in Requests PROVE Good(s)'
  <2>1. LockOwned(s)'
    BY <1>1 DEF IInv, Good, LockOwned
  <2>2. ASSUME req[s] # Idle PROVE Shape(req[s])' /\ Current(req[s])'
    <3>1. req[s].file \in Files /\ Shape(req[s]) /\ Current(req[s])
      BY <2>2 DEF IInv, TypeOK, Request, Good
    <3>2. Shape(req[s])'
      BY <3>1, <1>1 DEF Shape
    <3> QED BY <3>1, <3>2, <1>1, <1>2 DEF Current
  <2> QED BY <2>1, <2>2, <1>1 DEF Good
<1> QED BY <1>3, <1>4, <1>5, <1>6 DEF IInv

\* What a commit makes of a row, column by column.
LEMMA WrittenRow ==
    ASSUME NEW q \in Request, NEW now \in Row
    PROVE  /\ Written(q, now) \in Row
           /\ Written(q, now).key = IF q.mine.key # q.loaded.key THEN q.mine.key ELSE now.key
           /\ Written(q, now).wrapped =
                 IF q.mine.wrapped # q.loaded.wrapped THEN q.mine.wrapped ELSE now.wrapped
<1>1. DOMAIN now = {"status", "key", "wrapped", "alert"}
  BY DEF Row
<1>2. q.mine \in Row /\ q.loaded \in Row
  BY DEF Request
<1>3. PICK w : w = Written(q, now)
  OBVIOUS
<1>4. w = [c \in {"status", "key", "wrapped", "alert"} |->
              IF q.mine[c] # q.loaded[c] THEN q.mine[c] ELSE now[c]]
  BY <1>1, <1>3 DEF Written
<1>5. /\ w["status"] \in FileStatus /\ w["key"] \in KeyStatus
      /\ w["wrapped"] \in Wrapped /\ w["alert"] \in BOOLEAN
  BY <1>2, <1>4 DEF Row
<1>6. w = [status |-> w["status"], key |-> w["key"], wrapped |-> w["wrapped"], alert |-> w["alert"]]
  BY <1>4
<1>7. w \in Row
  BY <1>5, <1>6 DEF Row
<1> QED BY <1>3, <1>4, <1>7

\* The commit of an operation: what it does to the key row.
LEMMA CommitRow ==
    ASSUME IInv, NEW r \in Requests, Commit(r)
    PROVE  LET f   == req[r].file
               new == row'[f] IN
           /\ req[r] # Idle /\ req[r] \in Request /\ f \in Files /\ lock = r
           /\ row' = [row EXCEPT ![f] = new] /\ new \in Row
           /\ new.key # "none"
           /\ row[f].key \in {"revoked", "destroyed"} => new.key # "active"
           /\ bindsAAD /\ row[f].wrapped = "erased" => new.wrapped = "erased"
           /\ new.wrapped = "erased" => blob[f] = "absent"
           /\ bindsAAD /\ req[r].op = "secure_delete" => new.wrapped = "erased"
           /\ row[f] = NoRow => req[r].op = "upload"
           /\ req[r].op = "upload" => blob[f] # "absent"
<1> DEFINE o == req[r]
           f == o.file
           now == row[f]
<1>1. o # Idle /\ o \in Request /\ o.pc = "commit" /\ f \in Files /\ now \in Row
  BY Busy DEF IInv, Commit, TypeOK, Request
<1>2. Shape(o) /\ Current(o) /\ lock = r
  BY <1>1 DEF IInv, Good, LockOwned, Holds
<1>3. PICK w : w = Written(o, now)
  OBVIOUS
<1>4. /\ w \in Row
      /\ w.key = IF o.mine.key # o.loaded.key THEN o.mine.key ELSE now.key
      /\ w.wrapped = IF o.mine.wrapped # o.loaded.wrapped THEN o.mine.wrapped ELSE now.wrapped
  BY <1>1, <1>3, WrittenRow
<1>5. row' = [row EXCEPT ![f] = w] /\ row'[f] = w
  BY <1>1, <1>3 DEF Commit, File, IInv, TypeOK
<1>6. now = NoRow \/ now.key # "none"
  BY <1>1 DEF IInv, KeyedRows
<1>7. now.wrapped = "erased" => blob[f] = "absent"
  BY <1>1 DEF IInv, ShredLeavesNoBlob
<1>8. CASE o.op = "upload"
  <2>1. w.key = "active" /\ w.wrapped = "wrapped" /\ now = NoRow /\ blob[f] # "absent"
    BY <1>8, <1>1, <1>2, <1>4 DEF Shape, Current, NoRow, Uploaded
    <2>2. now.key = "none" /\ now.wrapped = "none"
    BY <2>1 DEF NoRow
  <2> HIDE DEF now
  <2>3. w.key \notin {"none", "erased"} /\ w.wrapped # "erased" /\ now.wrapped # "erased"
        /\ now.key \notin {"revoked", "destroyed"} /\ o.op # "secure_delete"
    BY <2>1, <2>2, <1>8
  <2> QED BY <2>1, <2>3, <1>8, <1>1, <1>2, <1>4, <1>5 DEF now
<1>9. CASE o.op # "upload"
  <2>1. now # NoRow /\ w.key \in {now.key, "revoked", "destroyed"}
    BY <1>9, <1>2, <1>4 DEF Shape, Current
  <2>2. now.key \in {"revoked", "destroyed"} => w.key # "active"
    BY <2>1
  <2>3. /\ bindsAAD /\ now.wrapped = "erased" => w.wrapped = "erased"
        /\ w.wrapped = "erased" => blob[f] = "absent"
        /\ bindsAAD /\ o.op = "secure_delete" => w.wrapped = "erased"
    <3>1. CASE o.op \notin {"rotate", "secure_delete"}
      <4>1. w.wrapped = now.wrapped
        BY <3>1, <1>9, <1>2, <1>4 DEF Shape
      <4> QED BY <4>1, <3>1, <1>7
    <3>2. CASE o.op = "rotate"
      <4>1. ~ bindsAAD /\ o.mine.wrapped # "erased"
        BY <3>2, <1>1, <1>2 DEF Shape
      <4> QED BY <4>1, <3>2, <1>4, <1>7
    <3>3. CASE o.op = "secure_delete"
      <4>1. o.mine.wrapped = "erased" /\ blob[f] = "absent"
        BY <3>3, <1>1, <1>2 DEF Shape, Current
      <4>2. bindsAAD /\ o.loaded.wrapped = "erased" => now.wrapped = "erased"
        BY <3>3, <1>1, <1>2 DEF Current
      <4> QED BY <4>1, <4>2, <1>4
    <3> QED BY <3>1, <3>2, <3>3
  <2> QED BY <2>1, <2>2, <2>3, <1>9, <1>1, <1>2, <1>4, <1>5, <1>6
<1> QED BY <1>8, <1>9

\* A commit writes what its request has changed of its file.
LEMMA CommitStep ==
    ASSUME IInv, UNCHANGED bindsAAD, NEW r \in Requests, Commit(r)
    PROVE  IInv'
<1> DEFINE o == req[r]
           f == o.file
<1>1. /\ o # Idle /\ o \in Request /\ f \in Files /\ lock = r
      /\ row' = [row EXCEPT ![f] = row'[f]] /\ row'[f] \in Row
      /\ row'[f].key # "none"
      /\ bindsAAD /\ row[f].wrapped = "erased" => row'[f].wrapped = "erased"
      /\ row'[f].wrapped = "erased" => blob[f] = "absent"
      /\ bindsAAD /\ o.op = "secure_delete" => row'[f].wrapped = "erased"
      /\ row[f] = NoRow => o.op = "upload"
      /\ o.op = "upload" => blob[f] # "absent"
  BY CommitRow
<1>2. req' = [req EXCEPT ![r] = Idle] /\ lock' = NoRequest /\ UNCHANGED <<blob, broken>>
  BY <1>1 DEF Commit, Released
<1>3. row'[f] # NoRow
  BY <1>1 DEF NoRow
<1>4. o.pc = "commit"
  BY DEF Commit
<1> HIDE DEF o, f
<1>10. req'[r] = Idle /\ (\A s \in Requests : s # r => req'[s] = req[s])
  BY <1>2 DEF IInv, TypeOK
<1>11. \A g \in Files : g # f => row'[g] = row[g]
  BY <1>1 DEF IInv, TypeOK
<1>12. TypeOK'
  BY <1>1, <1>2 DEF IInv, TypeOK
<1>13. KeyedRows' /\ ShredLeavesNoBlob'
  BY <1>1, <1>2, <1>11 DEF IInv, KeyedRows, ShredLeavesNoBlob
<1>14. UploadAlone'
  BY <1>10 DEF IInv, UploadAlone, File
<1>15. MissingIsKnown'
  <2> SUFFICES ASSUME bindsAAD, NEW g \in Files, row'[g] # NoRow, blob[g] = "absent",
                      row'[g].wrapped # "erased", g \notin broken
               PROVE  (\E s \in Requests : At(s, {"secure_delete"}, "commit") /\ File(s) = g)'
    BY <1>2 DEF MissingIsKnown
  <2>1. row[g] # NoRow /\ row[g].wrapped # "erased"
    BY <1>1, <1>11
  <2>2. PICK s \in Requests : At(s, {"secure_delete"}, "commit") /\ File(s) = g
    BY <2>1 DEF IInv, MissingIsKnown
  <2>3. s # r
    BY <2>2, <1>1 DEF At, File, o, f
  <2> QED BY <2>2, <2>3, <1>10 DEF At, File
<1>16. \A s \in Requests : Good(s)'
  <2>2. \A c : Shape(c)' <=> Shape(c)
    BY DEF Shape
  <2>4. Good(r)'
    BY <1>2, <1>10, RequestsAssumption DEF Good, LockOwned
  <2>5. ASSUME NEW s \in Requests, s # r PROVE Good(s)'
    <3>1. LockOwned(s)'
      BY <1>1, <1>2, <1>10, <2>5, RequestsAssumption DEF IInv, Good, LockOwned
    <3>2. ASSUME req[s] # Idle PROVE Current(req[s])'
      <4>1. req[s].file \in Files /\ Current(req[s]) /\ req[s] \in Request
        BY <3>2 DEF IInv, TypeOK, Request, Good
      <4>2. CASE req[s].file # f
        BY <4>1, <4>2, <1>2, <1>10, <1>11, <2>5 DEF Current
      <4>3. CASE req[s].file = f
        <5>1. req[s].op # "upload" /\ o.op # "upload"
          BY <4>3, <3>2, <2>5, <1>1 DEF IInv, UploadAlone, File, o, f
        <5>2. ~ Holds(req[s])
          BY <1>1, <2>5, <3>2 DEF IInv, Good, LockOwned
        <5>3. ~ (req[s].op = "download" /\ req[s].pc = "unwrap") /\ req[s].pc # "commit"
          BY <5>2 DEF Holds
        <5>4. bindsAAD /\ req[s].op = "secure_delete" /\ req[s].pc \notin {"load", "key"} =>
                (req[s].loaded.wrapped = "erased" => row'[f].wrapped = "erased")
          BY <4>1, <4>3, <1>1 DEF Current
        <5> QED BY <5>1, <5>3, <5>4, <4>3, <1>2, <1>3, <1>10, <2>5 DEF Current
      <4> QED BY <4>2, <4>3
    <3> QED BY <3>1, <3>2, <1>10, <2>2, <2>5 DEF IInv, Good
  <2> QED BY <2>4, <2>5
<1> QED BY <1>12, <1>13, <1>14, <1>15, <1>16 DEF IInv

\* A request ends without a commit: what it did to the blob stays.
LEMMA AbortStep ==
    ASSUME IInv, UNCHANGED bindsAAD, NEW r \in Requests, Abort(r)
    PROVE  IInv'
<1>1. req[r] # Idle /\ req[r].file \in Files
  BY DEF Abort, IInv, TypeOK, Request
<1>2. broken \subseteq broken' /\ broken' \subseteq Files
      /\ (At(r, {"secure_delete"}, "commit") => File(r) \in broken')
  BY <1>1 DEF Abort, IInv, TypeOK, File
<1> QED BY <1>1, <1>2, EndStep DEF Abort

-------------------------------------------------------------------------------
(* The invariant.                                                          *)

\* It holds at the start.
LEMMA InvInit == Init => IInv
<1> SUFFICES ASSUME Init PROVE IInv
  OBVIOUS
<1>1. NoRow \in Row
  BY DEF NoRow, Row, FileStatus, KeyStatus, Wrapped
<1>2. TypeOK
  BY <1>1 DEF Init, TypeOK, Blobs
<1>3. KeyedRows /\ UploadAlone /\ MissingIsKnown /\ ShredLeavesNoBlob
  BY DEF Init, KeyedRows, UploadAlone, MissingIsKnown, ShredLeavesNoBlob, NoRow
<1>4. \A r \in Requests : Good(r)
  BY RequestsAssumption DEF Init, Good, LockOwned
<1> QED BY <1>2, <1>3, <1>4 DEF IInv

\* Every step keeps the invariant.
LEMMA InvNext == IInv /\ [Next]_vars => IInv'
<1> SUFFICES ASSUME IInv, [Next]_vars PROVE IInv'
  OBVIOUS
<1>1. CASE UNCHANGED vars
  BY <1>1 DEF vars, IInv, TypeOK, KeyedRows, UploadAlone, MissingIsKnown, ShredLeavesNoBlob,
     Good, LockOwned, Shape, Current, At, File
<1>2. CASE Next
  <2>1. UNCHANGED bindsAAD
    BY <1>2 DEF Next
  <2>2. CASE \E f \in Files : Damage(f)
    BY <2>1, <2>2, DamageStep
  <2>3. CASE \E r \in Requests : RequestNext(r)
    <3>1. PICK r \in Requests : RequestNext(r)
      BY <2>3
    <3>2. CASE \E op \in Ops, f \in Files : Start(r, op, f)
      BY <3>2, <2>1, StartStep
    <3>3. CASE UploadBlob(r)
      BY <3>3, <2>1, UploadStep
    <3>4. CASE LoadVisible(r) \/ LoadAny(r) \/ LoadDeleted(r) \/ LoadKey(r)
      BY <3>4, <2>1, LoadStep
    <3>5. CASE RestoreBlob(r) \/ VerifyBlob(r)
      BY <3>5, <2>1, ReadStep
    <3>6. CASE Record(r)
      BY <3>6, <2>1, RecordStep
    <3>7. CASE RaiseViolation(r)
      <4>1. req[r] # Idle /\ req[r].pc # "commit" /\ Reject(r)
        BY <3>7, Busy DEF RaiseViolation, At, IInv
      <4> QED BY <4>1, <2>1, RejectStep
    <3>8. CASE DownloadKey(r) \/ DownloadDecrypt(r)
      BY <3>8, <2>1, DownloadStep
    <3>9. CASE ShredKey(r) \/ Rewrap(r)
      BY <3>9, <2>1, KeyStep
    <3>10. CASE ShredBlob(r)
      BY <3>10, <2>1, ShredStep
    <3>11. CASE Commit(r)
      BY <3>11, <2>1, CommitStep
    <3>12. CASE Abort(r)
      BY <3>12, <2>1, AbortStep
    <3> QED BY <3>1, <3>2, <3>3, <3>4, <3>5, <3>6, <3>7, <3>8, <3>9, <3>10, <3>11, <3>12
            DEF RequestNext
  <2> QED BY <1>2, <2>2, <2>3 DEF Next
<1> QED BY <1>1, <1>2

\* So it holds in every state.
LEMMA Invariant == Spec => []IInv
BY InvInit, InvNext, PTL DEF Spec

-------------------------------------------------------------------------------
(* The theorems.                                                           *)

\* The variables keep their types.
THEOREM TypeCorrect == Spec => []TypeOK
<1>1. IInv => TypeOK
  BY DEF IInv
<1> QED BY <1>1, Invariant, PTL

\* An erased key has no blob left, and whoever reads a key that is there, under
\* the lock, finds its blob or a secure delete that was undone.
THEOREM BlobsFollowKeys == Spec => []BlobAndKeyAgree
<1>1. IInv => BlobAndKeyAgree
  <2> SUFFICES ASSUME IInv, NEW r \in Requests, bindsAAD, At(r, {"download"}, "unwrap"),
                      blob[File(r)] = "absent"
               PROVE  File(r) \in broken
    BY DEF BlobAndKeyAgree, NoMissUnderLock, IInv
  <2>1. req[r] # Idle /\ req[r] \in Request /\ Holds(req[r]) /\ File(r) \in Files
    BY Busy DEF IInv, At, Holds, File, Request
  <2>2. row[File(r)] # NoRow /\ row[File(r)].wrapped # "erased"
    BY <2>1 DEF IInv, Good, Current, At, File
  <2>3. CASE \E s \in Requests : At(s, {"secure_delete"}, "commit") /\ File(s) = File(r)
    <3>1. PICK s \in Requests : At(s, {"secure_delete"}, "commit")
      BY <2>3
    <3>2. req[s] # Idle /\ Holds(req[s])
      BY <3>1, Busy DEF IInv, At, Holds
    <3>3. s = r
      BY <3>2, <2>1, OneHolder
    <3> QED BY <3>1, <3>3 DEF At
  <2> QED BY <2>1, <2>2, <2>3 DEF IInv, MissingIsKnown
<1> QED BY <1>1, Invariant, PTL

\* A download that gets to its commit has decrypted sound content.
THEOREM DownloadsSound == Spec => []DamagedNeverServed
<1>1. IInv => DamagedNeverServed
  <2> SUFFICES ASSUME IInv, NEW r \in Requests, At(r, {"download"}, "commit")
               PROVE  req[r].got = "good"
    BY DEF DamagedNeverServed
  <2>1. req[r] # Idle
    BY Busy DEF IInv, At
  <2> QED BY <2>1 DEF IInv, Good, Shape, At
<1> QED BY <1>1, Invariant, PTL

\* A committed row changes at a commit only.
LEMMA RowsChangeAtCommits ==
    ASSUME IInv, Next, row' # row
    PROVE  \E r \in Requests : Commit(r)
<1>1. CASE \E f \in Files : Damage(f)
  BY <1>1 DEF Damage
<1>2. ASSUME NEW r \in Requests, RequestNext(r) PROVE Commit(r)
  BY <1>2 DEF RequestNext, Start, UploadBlob, LoadVisible, LoadAny, LoadDeleted, LoadKey,
     RestoreBlob, VerifyBlob, Record, RaiseViolation, DownloadKey, DownloadDecrypt, ShredKey,
     ShredBlob, Rewrap, Abort, Reject
<1> QED BY <1>1, <1>2 DEF Next

\* Whatever stale row a request writes, a key it finds revoked or destroyed does
\* not become active, and where the provider binds its data no erased key is
\* given its material back.
THEOREM KeysStayTaken == Spec => KeysNeverReturn
<1>1. ASSUME IInv, [Next]_vars
      PROVE  /\ [bindsAAD => \A f \in Files :
                    row[f].wrapped = "erased" => row'[f].wrapped = "erased"]_vars
             /\ [\A f \in Files :
                    row[f].key \in {"revoked", "destroyed"} => row'[f].key # "active"]_vars
  <2>1. CASE row' = row
    BY <2>1
  <2>2. CASE row' # row
    <3>1. PICK r \in Requests : Commit(r)
      BY <2>2, <1>1, RowsChangeAtCommits DEF vars
    <3>2. \A g \in Files : g # req[r].file => row'[g] = row[g]
      BY <1>1, <3>1, CommitRow DEF IInv, TypeOK
    <3> QED BY <3>1, <3>2, <1>1, CommitRow
  <2> QED BY <2>1, <2>2
<1>2. Spec => []IInv
  BY Invariant
<1> QED BY <1>1, <1>2, PTL DEF Spec, KeysNeverReturn, ShredIsFinal, RevocationNotLost

-------------------------------------------------------------------------------
(* Workers that boot.                                                      *)

\* A worker in the middle of its bootstrap, once it has its key.
Keyed(w) == phase[w] \in {"select", "insert", "audit", "commit"}

\* A key that was made is inserted by a worker that holds the lock from its
\* audit entry on; the cipher of a worker in the middle is its own key or one
\* that is committed.
KeyHeld(w) ==
    /\ phase[w] \in {"start"} \cup Served => own[w] = 0 /\ inserted[w] = {} /\ group[w] = 1
    /\ phase[w] = "record" => own[w] # 0 /\ group[w] = 1
    /\ Keyed(w) /\ own[w] # 0 => keyLock = w /\ cipher[w] = own[w]
    /\ Keyed(w) /\ own[w] = 0 => cipher[w] \in keys

\* The groups a worker has passed are there, or in its transaction.
Passed(w) ==
    /\ \A g \in Groups : g < group[w] => g \in seeded \cup inserted[w]
    /\ phase[w] = "insert" => group[w] \in Groups
    /\ phase[w] = "commit" => group[w] = SeedGroups + 1

\* A key that is not committed is the key of one worker.
OwnNew ==
    \A w \in Workers : own[w] # 0 =>
        own[w] \notin keys /\ \A v \in Workers : own[v] = own[w] => v = w

\* The first commit brings all seeds, and no worker that makes a key meets them
\* half way.
SeedsWhole ==
    /\ keys = {} => seeded = {}
    /\ (\E w \in Workers : own[w] # 0) => keys = {} \/ seeded = Groups
    /\ \A w \in Workers : phase[w] = "insert" /\ group[w] \in seeded => seeded = Groups

\* A committed administrator has a column of a committed key, so that a worker
\* that makes a key gets past it only as the first.
AdminFirst ==
    admin => /\ \A j, k \in keys : j = k
             /\ AdminGroup \in seeded => sealed[AdminGroup] \cap keys # {}
             /\ \A w \in Workers :
                  Keyed(w) /\ own[w] # 0 /\ group[w] > AdminGroup => keys = {}

\* What a worker that serves can rely on.
Landed ==
    /\ \A w \in Workers :
         phase[w] \in {"serving", "conflicted"} => seeded = Groups /\ cipher[w] \in keys
    /\ ~ faulted => \A w \in Workers : Serving(w) => seeded = Groups /\ phase[w] # "failed"

\* Until the seeds are whole nobody has stored anything.
Early ==
    ~ faulted /\ seeded # Groups =>
        /\ \A g \in Groups : sealed[g] \subseteq keys
        /\ orphans \subseteq keys
        /\ \A j, k \in keys : j = k

\* As long as workers boot one after the other, there is one key, and if none
\* fails all that is stored is of it.
OneByOne ==
    /\ \A v, w \in Workers : Booting(v) /\ Booting(w) => v = w
    /\ \A j, k \in keys : j = k
    /\ \A w \in Workers : own[w] # 0 => keys = {}
    /\ \A w \in Workers : phase[w] = "insert" => group[w] \notin seeded
    /\ ~ faulted =>
         /\ data \subseteq keys /\ orphans \subseteq keys
         /\ \A g \in Groups : sealed[g] \subseteq keys
         /\ \A w \in Workers : Serving(w) => phase[w] = "serving" /\ cipher[w] \in keys

Greatest == keys # {} => \E k \in keys : \A j \in keys : j <= k

BootInv ==
    /\ BootTypeOK /\ Greatest
    /\ \A w \in Workers : KeyHeld(w) /\ Passed(w)
    /\ OwnNew /\ SeedsWhole /\ CreatorsDoNotConflict
    /\ AdminFirst /\ Landed /\ Early
    /\ ~ overlapped => OneByOne

\* The types, and what it says of one worker.
LEMMA BootTyped ==
    ASSUME BootInv
    PROVE  /\ made \in Nat /\ keys \subseteq 1 .. made /\ seeded \subseteq Groups
           /\ keys \subseteq Nat /\ MaxKeys \in Nat
           /\ SeedGroups \in Nat /\ 0 \notin keys
           /\ AdminGroup \in Groups /\ OrgGroup \in Groups
           /\ \A w \in Workers : /\ KeyHeld(w) /\ Passed(w) /\ own[w] \in 0 .. made
                                 /\ cipher[w] \in 0 .. made /\ group[w] \in 1 .. SeedGroups + 1
                                 /\ inserted[w] \subseteq Groups
<1>1. Cardinality(Workers) \in Nat
  BY WorkersAssumption, FS_CardinalityType
<1>2. MaxKeys \in Nat
  BY <1>1, SeedsAssumption DEF MaxKeys
<1>3. made \in Nat
  BY <1>2 DEF BootInv, BootTypeOK
<1>4. keys \subseteq 1 .. made /\ keys \subseteq Nat /\ 0 \notin keys
  BY <1>3 DEF BootInv, BootTypeOK
<1>5. AdminGroup \in Groups /\ OrgGroup \in Groups
  BY SeedsAssumption DEF Groups
<1> QED BY <1>2, <1>3, <1>4, <1>5, SeedsAssumption DEF BootInv, BootTypeOK

\* It holds at the start.
LEMMA BootInitInv == BootInit => BootInv
<1> SUFFICES ASSUME BootInit PROVE BootInv
  OBVIOUS
<1>1. MaxKeys \in Nat /\ MaxKeys >= 1
  <2>1. Cardinality(Workers) \in Nat /\ Cardinality(Workers) # 0
    BY WorkersAssumption, FS_CardinalityType, FS_EmptySet
  <2> QED BY <2>1, SeedsAssumption DEF MaxKeys
<1>2. /\ \/ keys = {} /\ made = 0 /\ seeded = {} /\ data = {} /\ orphans = {}
         \/ keys = {1} /\ made = 1 /\ seeded \in SUBSET Groups /\ data = {1} /\ orphans \subseteq {1}
      /\ sealed \in [Groups -> SUBSET keys]
      /\ admin /\ AdminGroup \in seeded => sealed[AdminGroup] = {1} /\ keys = {1}
      /\ \A w \in Workers : /\ phase[w] = "start" /\ cipher[w] = 0 /\ own[w] = 0
                            /\ group[w] = 1 /\ inserted[w] = {}
  BY SeedsAssumption DEF BootInit, Groups
<1>3. BootTypeOK
  <2>1. 1 \in 1 .. SeedGroups + 1 /\ 0 \in 0 .. MaxRestarts
    BY SeedsAssumption
  <2>2. keys \subseteq 1 .. made /\ made \in 0 .. MaxKeys /\ data \subseteq 1 .. made
        /\ orphans \subseteq 1 .. made /\ 0 \in 0 .. made
    BY <1>1, <1>2
  <2>3. sealed \in [Groups -> SUBSET (1 .. made)]
    BY <1>2, <2>2
  <2>4. phase \in [Workers -> {"start"} \cup BootSteps \cup Served]
    BY DEF BootInit
  <2> QED BY <1>2, <2>1, <2>2, <2>3, <2>4 DEF BootInit, BootTypeOK
<1>4. Greatest
  BY <1>2 DEF Greatest
<1>5. \A w \in Workers : KeyHeld(w) /\ Passed(w)
  BY <1>2, SeedsAssumption DEF KeyHeld, Passed, Keyed, Groups
<1>6. OwnNew /\ SeedsWhole /\ CreatorsDoNotConflict
  BY <1>2 DEF OwnNew, SeedsWhole, CreatorsDoNotConflict
<1>7. AdminFirst
  BY <1>2 DEF AdminFirst
<1>8. Landed /\ Early
  BY <1>2 DEF Landed, Early, Serving, Served
<1>9. OneByOne
  BY <1>2 DEF OneByOne, Booting, BootSteps, Serving, Served
<1> QED BY <1>3, <1>4, <1>5, <1>6, <1>7, <1>8, <1>9 DEF BootInv

\* A worker goes on with its bootstrap, and no committed row changes.
LEMMA BootGoesOn ==
    ASSUME BootInv, BootTypeOK', NEW w \in Workers, NEW to \in BootSteps,
           phase' = [phase EXCEPT ![w] = to],
           UNCHANGED <<keys, data, restarts, faulted>>, UNCHANGED seeds,
           \A v \in Workers : v # w => /\ cipher'[v] = cipher[v] /\ own'[v] = own[v]
                                       /\ group'[v] = group[v] /\ inserted'[v] = inserted[v],
           keyLock' = keyLock \/ keyLock \in {NoWorker, w},
           KeyHeld(w)', Passed(w)',
           own'[w] = own[w] \/ (keys = {} /\ OwnNew'),
           to = "insert" => group'[w] \notin seeded,
           admin /\ Keyed(w)' /\ own'[w] # 0 /\ group'[w] > AdminGroup => keys = {},
           (Booting(w) /\ overlapped' = overlapped) \/ SeesOthers(w)
    PROVE  BootInv'
<1>1. phase'[w] = to /\ \A v \in Workers : v # w => phase'[v] = phase[v]
  BY DEF BootInv, BootTypeOK
<1>2. UNCHANGED <<admin, seeded, sealed, orphans>>
  BY DEF seeds
<1>3. to \notin {"start"} \cup Served
  BY DEF BootSteps, Served
<1>4. Greatest'
  BY DEF BootInv, Greatest
<1>5. ASSUME NEW v \in Workers PROVE KeyHeld(v)' /\ Passed(v)'
  <2>1. CASE v = w
    BY <2>1
  <2>2. CASE v # w
    <3>1. KeyHeld(v) /\ Passed(v) /\ phase'[v] = phase[v]
      BY <1>1, <2>2, BootTyped
    <3>2. keyLock = v => keyLock' = v
      BY <2>2, WorkersAssumption
    <3> QED BY <1>2, <2>2, <3>1, <3>2 DEF KeyHeld, Passed, Keyed
  <2> QED BY <2>1, <2>2
<1>6. OwnNew'
  BY DEF BootInv, OwnNew
<1>7. SeedsWhole'
  <2>1. (\E v \in Workers : own'[v] # 0) => keys = {} \/ seeded = Groups
    BY DEF BootInv, SeedsWhole
  <2>2. \A v \in Workers : phase'[v] = "insert" /\ group'[v] \in seeded => seeded = Groups
    BY <1>1 DEF BootInv, SeedsWhole
  <2> QED BY <1>2, <2>1, <2>2 DEF BootInv, SeedsWhole
<1>8. CreatorsDoNotConflict'
  BY <1>1, <1>2 DEF BootInv, CreatorsDoNotConflict
<1>9. AdminFirst'
  <2>1. \A v \in Workers : v # w /\ Keyed(v)' => Keyed(v)
    BY <1>1 DEF Keyed
  <2> QED BY <1>2, <2>1 DEF BootInv, AdminFirst
<1>10. Landed'
  BY <1>1, <1>2, <1>3 DEF BootInv, Landed, Serving, Served
<1>11. Early'
  BY <1>2 DEF BootInv, Early
<1>12. ASSUME ~ overlapped' PROVE OneByOne'
  <2>1. OneByOne
    BY <1>12 DEF BootInv, SeesOthers
  <2>2. \A u, v \in Workers : Booting(u)' /\ Booting(v)' => u = v
    BY <1>1, <1>12, <2>1 DEF OneByOne, Booting, SeesOthers
  <2>3. \A v \in Workers : own'[v] # 0 => keys = {}
    BY <2>1 DEF OneByOne
  <2>4. \A v \in Workers : phase'[v] = "insert" => group'[v] \notin seeded
    BY <1>1, <2>1 DEF OneByOne
  <2>5. \A v \in Workers : Serving(v)' => v # w /\ Serving(v)
    BY <1>1, <1>3 DEF Serving
  <2> QED BY <1>1, <1>2, <2>1, <2>2, <2>3, <2>4, <2>5 DEF OneByOne
<1> QED BY <1>4, <1>5, <1>6, <1>7, <1>8, <1>9, <1>10, <1>11, <1>12 DEF BootInv

\* A worker takes the newest key, or makes one.
LEMMA SelectKeyStep == ASSUME BootInv, NEW w \in Workers, SelectKey(w) PROVE BootInv'
<1>1. phase[w] = "start" /\ own[w] = 0 /\ inserted[w] = {}
      /\ UNCHANGED <<keys, keyLock, group, inserted, attached, data, restarts, faulted>>
      /\ UNCHANGED seeds /\ SeesOthers(w)
  BY BootTyped DEF SelectKey, KeyHeld
<1>2. UNCHANGED <<admin, seeded, sealed, orphans>> /\ overlapped' \in BOOLEAN
  BY <1>1 DEF seeds, SeesOthers, BootInv, BootTypeOK
<1>3. CASE keys # {} /\ cipher' = [cipher EXCEPT ![w] = Newest]
           /\ phase' = [phase EXCEPT ![w] = "select"] /\ UNCHANGED <<made, own>>
  <2>1. Newest \in keys
    BY <1>3 DEF BootInv, Greatest, Newest
  <2>2. /\ phase'[w] = "select" /\ cipher'[w] = Newest
        /\ \A v \in Workers : v # w => cipher'[v] = cipher[v]
    BY <1>3 DEF BootInv, BootTypeOK
  <2>3. BootTypeOK'
    <3>1. "select" \in BootSteps
      BY DEF BootSteps
    <3>2. phase' \in [Workers -> {"start"} \cup BootSteps \cup Served]
      BY <1>3, <3>1 DEF BootInv, BootTypeOK
    <3>3. Newest \in 0 .. made
      BY <2>1, BootTyped
    <3>4. cipher' \in [Workers -> 0 .. made']
      BY <1>3, <3>3 DEF BootInv, BootTypeOK
    <3> QED BY <1>1, <1>2, <1>3, <3>2, <3>4 DEF BootInv, BootTypeOK
  <2>4. KeyHeld(w)' /\ Passed(w)'
    BY <1>1, <1>2, <1>3, <2>1, <2>2, BootTyped DEF KeyHeld, Passed, Keyed, Served
  <2>5. own'[w] = 0
    BY <1>1, <1>3
  <2>6. "select" \in BootSteps
    BY DEF BootSteps
  <2> QED BY <1>1, <1>3, <2>2, <2>3, <2>4, <2>5, <2>6, BootGoesOn
<1>4. CASE keys = {} /\ made < MaxKeys /\ made' = made + 1
           /\ own' = [own EXCEPT ![w] = made + 1]
           /\ phase' = [phase EXCEPT ![w] = "record"] /\ UNCHANGED cipher
  <2>1. /\ phase'[w] = "record" /\ own'[w] = made + 1 /\ made + 1 # 0
        /\ \A v \in Workers : v # w => own'[v] = own[v]
    BY <1>4, BootTyped DEF BootInv, BootTypeOK
  <2>2. BootTypeOK'
    <3>1. /\ made + 1 \in 0 .. MaxKeys /\ 0 .. made \subseteq 0 .. made + 1
          /\ 1 .. made \subseteq 1 .. made + 1 /\ made + 1 \in 0 .. made + 1
      BY <1>4, BootTyped
    <3>2. cipher' \in [Workers -> 0 .. made'] /\ own' \in [Workers -> 0 .. made']
      BY <1>4, <3>1 DEF BootInv, BootTypeOK
    <3>3. phase' \in [Workers -> {"start"} \cup BootSteps \cup Served]
      BY <1>4 DEF BootInv, BootTypeOK, BootSteps
    <3>4. keys' \subseteq 1 .. made' /\ data' \subseteq 1 .. made' /\ orphans' \subseteq 1 .. made'
      BY <1>1, <1>2, <1>4, <3>1 DEF BootInv, BootTypeOK
    <3>5. sealed' \in [Groups -> SUBSET (1 .. made')]
      BY <1>2, <1>4, <3>1 DEF BootInv, BootTypeOK
    <3> QED BY <1>1, <1>2, <1>4, <3>1, <3>2, <3>3, <3>4, <3>5 DEF BootInv, BootTypeOK
  <2>3. KeyHeld(w)' /\ Passed(w)'
    BY <1>1, <1>2, <1>4, <2>1, BootTyped DEF KeyHeld, Passed, Keyed, Served
  <2>4. OwnNew'
    <3>1. \A v \in Workers : v # w => own'[v] # made + 1
      <4>1. \A v \in Workers : own[v] \in 0 .. made /\ made \in Nat
        BY BootTyped
      <4> QED BY <2>1, <4>1
    <3> QED BY <1>1, <1>4, <2>1, <3>1 DEF BootInv, OwnNew
  <2>5. "record" \in BootSteps /\ ~ Keyed(w)'
    BY <2>1 DEF BootSteps, Keyed
  <2> QED BY <1>1, <1>4, <2>1, <2>2, <2>3, <2>4, <2>5, BootGoesOn
<1> QED BY <1>3, <1>4 DEF SelectKey

\* The audit entry of a new key.
LEMMA RecordKeyStep == ASSUME BootInv, NEW w \in Workers, RecordKey(w) PROVE BootInv'
<1>1. /\ phase[w] = "record" /\ keyLock = NoWorker /\ keyLock' = w /\ own[w] # 0
      /\ cipher' = [cipher EXCEPT ![w] = own[w]] /\ phase' = [phase EXCEPT ![w] = "select"]
      /\ UNCHANGED <<keys, made, own, group, inserted, attached, data, restarts, faulted, overlapped>>
      /\ UNCHANGED seeds
  BY BootTyped DEF RecordKey, KeyHeld
<1>2. UNCHANGED <<admin, seeded, sealed, orphans>>
  BY <1>1 DEF seeds
<1>3. /\ phase'[w] = "select" /\ cipher'[w] = own[w]
      /\ \A v \in Workers : v # w => cipher'[v] = cipher[v]
  BY <1>1 DEF BootInv, BootTypeOK
<1>4. BootTypeOK'
  <2>1. phase' \in [Workers -> {"start"} \cup BootSteps \cup Served]
    BY <1>1 DEF BootInv, BootTypeOK, BootSteps
  <2>2. cipher' \in [Workers -> 0 .. made']
    BY <1>1, BootTyped DEF BootInv, BootTypeOK
  <2> QED BY <1>1, <1>2, <2>1, <2>2 DEF BootInv, BootTypeOK
<1>5. KeyHeld(w)' /\ Passed(w)'
  BY <1>1, <1>2, <1>3, BootTyped DEF KeyHeld, Passed, Keyed, Served
<1>6. "select" \in BootSteps /\ Booting(w)
  BY <1>1 DEF BootSteps, Booting
<1>7. admin /\ Keyed(w)' /\ own'[w] # 0 /\ group'[w] > AdminGroup => keys = {}
  <2>1. group'[w] = 1
    BY <1>1, BootTyped DEF KeyHeld
  <2>2. ~ 1 > AdminGroup
    BY BootTyped DEF Groups
  <2> QED BY <2>1, <2>2
<1> QED BY <1>1, <1>3, <1>4, <1>5, <1>6, <1>7, BootGoesOn, WorkersAssumption

\* A worker that makes a key meets no administrator that it can read.
LEMMA CreatorPassesAdmin ==
    ASSUME BootInv, NEW w \in Workers, Keyed(w), admin, own[w] # 0,
           \/ AdminGroup \in seeded /\ Readable(w, sealed[AdminGroup])
           \/ phase[w] = "insert" /\ group[w] = AdminGroup
    PROVE  keys = {}
<1>1. CASE AdminGroup \in seeded /\ Readable(w, sealed[AdminGroup])
  <2>1. PICK k \in keys : k \in sealed[AdminGroup]
    BY <1>1 DEF BootInv, AdminFirst
  <2>2. k = cipher[w] /\ cipher[w] = own[w]
    BY <1>1, <2>1, BootTyped DEF Readable, KeyHeld
  <2> QED BY <2>1, <2>2 DEF BootInv, OwnNew
<1>2. CASE phase[w] = "insert" /\ group[w] = AdminGroup
  <2>1. AdminGroup \notin seeded
    BY <1>2 DEF BootInv, CreatorsDoNotConflict
  <2>2. seeded # Groups
    BY <2>1, BootTyped
  <2> QED BY <2>2 DEF BootInv, SeedsWhole
<1> QED BY <1>1, <1>2

\* A worker looks for the next group.
LEMMA SelectSeedsStep == ASSUME BootInv, NEW w \in Workers, SelectSeeds(w) PROVE BootInv'
<1>1. /\ phase[w] = "select" /\ Passed(w) /\ group[w] \in Groups /\ SeedGroups \in Nat
      /\ UNCHANGED <<keys, made, keyLock, cipher, own, inserted, attached, data, restarts, faulted, overlapped>>
      /\ UNCHANGED seeds
  BY BootTyped DEF SelectSeeds
<1>2. UNCHANGED <<admin, seeded, sealed, orphans>>
  BY <1>1 DEF seeds
<1>3. Keyed(w) /\ Booting(w) /\ KeyHeld(w) /\ {"select", "insert"} \subseteq BootSteps
  BY <1>1, BootTyped DEF Keyed, Booting, BootSteps
<1>4. CASE /\ group[w] \in seeded /\ Readable(w, sealed[group[w]])
           /\ group' = [group EXCEPT ![w] = @ + 1] /\ phase' = phase
  <2>1. /\ group'[w] = group[w] + 1 /\ group[w] + 1 \in 1 .. SeedGroups + 1
        /\ \A v \in Workers : v # w => group'[v] = group[v]
    BY <1>1, <1>4 DEF BootInv, BootTypeOK, Groups
  <2>2. BootTypeOK'
    <3>1. group' \in [Workers -> 1 .. SeedGroups + 1]
      BY <1>4, <2>1 DEF BootInv, BootTypeOK
    <3> QED BY <1>1, <1>2, <1>4, <3>1 DEF BootInv, BootTypeOK
  <2>3. Passed(w)'
    <3>1. \A g \in Groups : g < group[w] + 1 => g < group[w] \/ g = group[w]
      BY <1>1 DEF Groups
    <3>2. phase'[w] = "select"
      BY <1>1, <1>4
    <3>3. \A g \in Groups : g < group[w] + 1 => g \in seeded \cup inserted[w]
      BY <1>1, <1>4, <3>1 DEF Passed
    <3> QED BY <3>2, <3>3, <1>1, <1>2, <2>1 DEF Passed
  <2>4. KeyHeld(w)'
    BY <1>1, <1>3, <1>4 DEF KeyHeld, Keyed, Served
  <2>5. phase' = [phase EXCEPT ![w] = "select"]
    BY <1>1, <1>4 DEF BootInv, BootTypeOK
  <2>6. admin /\ own[w] # 0 /\ group'[w] > AdminGroup => keys = {}
    <3>1. CASE group[w] = AdminGroup
      BY <1>3, <1>4, <3>1, CreatorPassesAdmin
    <3>2. CASE group[w] # AdminGroup
      <4>1. group'[w] > AdminGroup => group[w] > AdminGroup
        BY <1>1, <2>1, <3>2, BootTyped DEF Groups
      <4> QED BY <1>3, <4>1 DEF BootInv, AdminFirst
    <3> QED BY <3>1, <3>2
  <2> QED BY <1>1, <1>3, <2>1, <2>2, <2>3, <2>4, <2>5, <2>6, BootGoesOn
<1>5. CASE group[w] \notin seeded /\ group' = group /\ phase' = [phase EXCEPT ![w] = "insert"]
  <2>1. phase'[w] = "insert"
    BY <1>5 DEF BootInv, BootTypeOK
  <2>2. BootTypeOK'
    <3>1. phase' \in [Workers -> {"start"} \cup BootSteps \cup Served]
      BY <1>3, <1>5 DEF BootInv, BootTypeOK
    <3> QED BY <1>1, <1>2, <1>5, <3>1 DEF BootInv, BootTypeOK
  <2>3. KeyHeld(w)'
    BY <1>1, <1>3, <1>5, <2>1 DEF KeyHeld, Keyed, Served
  <2>4. Passed(w)'
    BY <1>1, <1>2, <1>5, <2>1 DEF Passed
  <2>5. admin /\ own[w] # 0 /\ group[w] > AdminGroup => keys = {}
    BY <1>3 DEF BootInv, AdminFirst
  <2> QED BY <1>1, <1>3, <1>5, <2>2, <2>3, <2>4, <2>5, BootGoesOn
<1> QED BY <1>4, <1>5 DEF SelectSeeds

\* A worker loads the users without an organization.
LEMMA SelectOrphansStep == ASSUME BootInv, NEW w \in Workers, SelectOrphans(w) PROVE BootInv'
<1>1. /\ phase[w] = "select" /\ Passed(w) /\ group[w] \notin Groups /\ KeyHeld(w)
      /\ group[w] \in 1 .. SeedGroups + 1 /\ SeedGroups \in Nat
      /\ phase' = [phase EXCEPT ![w] = "commit"] /\ attached' = attached \cup {w}
      /\ UNCHANGED <<keys, made, keyLock, cipher, own, group, inserted, data, restarts, faulted, overlapped>>
      /\ UNCHANGED seeds
  BY BootTyped DEF SelectOrphans
<1>2. UNCHANGED <<admin, seeded, sealed, orphans>>
  BY <1>1 DEF seeds
<1>3. Keyed(w) /\ Booting(w) /\ "commit" \in BootSteps
  BY <1>1 DEF Keyed, Booting, BootSteps
<1>4. phase'[w] = "commit" /\ group[w] = SeedGroups + 1
  BY <1>1 DEF BootInv, BootTypeOK, Groups
<1>5. BootTypeOK'
  <2>1. phase' \in [Workers -> {"start"} \cup BootSteps \cup Served]
    BY <1>1, <1>3 DEF BootInv, BootTypeOK
  <2>2. attached' \subseteq Workers
    BY <1>1 DEF BootInv, BootTypeOK
  <2> QED BY <1>1, <1>2, <2>1, <2>2 DEF BootInv, BootTypeOK
<1>6. KeyHeld(w)' /\ Passed(w)'
  BY <1>1, <1>2, <1>3, <1>4 DEF KeyHeld, Passed, Keyed, Served
<1>7. admin /\ own[w] # 0 /\ group[w] > AdminGroup => keys = {}
  BY <1>3 DEF BootInv, AdminFirst
<1> QED BY <1>1, <1>3, <1>4, <1>5, <1>6, <1>7, BootGoesOn

\* A worker inserts the rows of a group.
LEMMA InsertSeedsStep == ASSUME BootInv, NEW w \in Workers, InsertSeeds(w) PROVE BootInv'
<1>1. /\ phase[w] = "insert" /\ Passed(w) /\ KeyHeld(w) /\ group[w] \in Groups /\ SeedGroups \in Nat
      /\ inserted' = [inserted EXCEPT ![w] = @ \cup {group[w]}]
      /\ group' = [group EXCEPT ![w] = @ + 1]
      /\ UNCHANGED <<keys, made, keyLock, cipher, own, attached, data, restarts, faulted, overlapped>>
      /\ UNCHANGED seeds
  BY BootTyped DEF InsertSeeds, Passed
<1>2. UNCHANGED <<admin, seeded, sealed, orphans>>
  BY <1>1 DEF seeds
<1>3. Keyed(w) /\ Booting(w)
  BY <1>1 DEF Keyed, Booting, BootSteps
<1>4. PICK to \in {"audit", "select"} : phase' = [phase EXCEPT ![w] = to]
  BY DEF InsertSeeds
<1>5. /\ phase'[w] = to /\ group'[w] = group[w] + 1 /\ group[w] + 1 \in 1 .. SeedGroups + 1
      /\ inserted'[w] = inserted[w] \cup {group[w]}
      /\ \A v \in Workers : v # w => group'[v] = group[v] /\ inserted'[v] = inserted[v]
  BY <1>1, <1>4 DEF BootInv, BootTypeOK, Groups
<1>6. BootTypeOK'
  <2>1. phase' \in [Workers -> {"start"} \cup BootSteps \cup Served]
    BY <1>4 DEF BootInv, BootTypeOK, BootSteps
  <2>2. group' \in [Workers -> 1 .. SeedGroups + 1]
    BY <1>1, <1>5 DEF BootInv, BootTypeOK
  <2>3. inserted' \in [Workers -> SUBSET Groups]
    BY <1>1 DEF BootInv, BootTypeOK
  <2> QED BY <1>1, <1>2, <2>1, <2>2, <2>3 DEF BootInv, BootTypeOK
<1>7. Passed(w)'
  <2>1. \A g \in Groups : g < group[w] + 1 => g < group[w] \/ g = group[w]
    BY <1>1 DEF Groups
  <2>2. \A g \in Groups : g < group[w] + 1 => g \in seeded \cup (inserted[w] \cup {group[w]})
    BY <1>1, <2>1 DEF Passed
  <2> QED BY <2>2, <1>1, <1>2, <1>5 DEF Passed
<1>8. KeyHeld(w)'
  BY <1>1, <1>3, <1>5 DEF KeyHeld, Keyed, Served
<1>9. admin /\ own[w] # 0 /\ group'[w] > AdminGroup => keys = {}
  <2>1. CASE group[w] = AdminGroup
    BY <1>1, <1>3, <2>1, CreatorPassesAdmin
  <2>2. CASE group[w] # AdminGroup
    <3>1. group'[w] > AdminGroup => group[w] > AdminGroup
      BY <1>1, <1>5, <2>2, BootTyped DEF Groups
    <3> QED BY <1>3, <3>1 DEF BootInv, AdminFirst
  <2> QED BY <2>1, <2>2
<1>10. to \in BootSteps /\ to # "insert"
  BY <1>4 DEF BootSteps
<1> QED BY <1>1, <1>3, <1>4, <1>5, <1>6, <1>7, <1>8, <1>9, <1>10, BootGoesOn

\* The audit entry of the administrator.
LEMMA RecordAdminStep == ASSUME BootInv, NEW w \in Workers, RecordAdmin(w) PROVE BootInv'
<1>1. /\ phase[w] = "audit" /\ Passed(w) /\ KeyHeld(w) /\ keyLock \in {NoWorker, w} /\ keyLock' = w
      /\ phase' = [phase EXCEPT ![w] = "select"]
      /\ UNCHANGED <<keys, made, cipher, own, group, inserted, attached, data, restarts, faulted, overlapped>>
      /\ UNCHANGED seeds
  BY BootTyped DEF RecordAdmin
<1>2. UNCHANGED <<admin, seeded, sealed, orphans>>
  BY <1>1 DEF seeds
<1>3. Keyed(w) /\ Booting(w) /\ "select" \in BootSteps
  BY <1>1 DEF Keyed, Booting, BootSteps
<1>4. phase'[w] = "select"
  BY <1>1 DEF BootInv, BootTypeOK
<1>5. BootTypeOK'
  <2>1. phase' \in [Workers -> {"start"} \cup BootSteps \cup Served]
    BY <1>1, <1>3 DEF BootInv, BootTypeOK
  <2> QED BY <1>1, <1>2, <2>1 DEF BootInv, BootTypeOK
<1>6. KeyHeld(w)' /\ Passed(w)'
  BY <1>1, <1>2, <1>3, <1>4 DEF KeyHeld, Passed, Keyed, Served
<1>7. admin /\ own[w] # 0 /\ group[w] > AdminGroup => keys = {}
  BY <1>3 DEF BootInv, AdminFirst
<1> QED BY <1>1, <1>3, <1>4, <1>5, <1>6, <1>7, BootGoesOn

\* A bootstrap ends without a commit: its transaction is gone, its cipher stays
\* or goes with the process.
LEMMA BootEnds ==
    ASSUME BootInv, NEW w \in Workers, NEW to \in {"start", "conflicted", "unreadable", "failed"},
           phase' = [phase EXCEPT ![w] = to], keyLock' = LockAfter(w),
           own' = [own EXCEPT ![w] = 0], inserted' = [inserted EXCEPT ![w] = {}],
           group' = [group EXCEPT ![w] = 1], attached' = attached \ {w},
           cipher' \in [Workers -> 0 .. made], \A v \in Workers : v # w => cipher'[v] = cipher[v],
           restarts' \in 0 .. MaxRestarts, faulted' \in BOOLEAN, faulted => faulted',
           UNCHANGED <<keys, made, data, overlapped>>, UNCHANGED seeds,
           to = "conflicted" => seeded = Groups /\ cipher'[w] \in keys,
           ~ faulted' /\ to # "start" => seeded = Groups /\ to # "failed" /\ overlapped
    PROVE  BootInv'
<1>1. /\ phase'[w] = to /\ own'[w] = 0 /\ inserted'[w] = {} /\ group'[w] = 1
      /\ \A v \in Workers : v # w => /\ phase'[v] = phase[v] /\ own'[v] = own[v]
                                     /\ group'[v] = group[v] /\ inserted'[v] = inserted[v]
  BY DEF BootInv, BootTypeOK
<1>2. UNCHANGED <<admin, seeded, sealed, orphans>>
  BY DEF seeds
<1>3. to \notin BootSteps /\ to # "serving" /\ to \in {"start"} \cup Served
  BY DEF BootSteps, Served
<1>4. BootTypeOK'
  <2>1. 1 \in 1 .. SeedGroups + 1 /\ 0 \in 0 .. made
    BY BootTyped
  <2>2. keyLock' \in Workers \cup {NoWorker}
    BY DEF LockAfter, BootInv, BootTypeOK
  <2>3. phase' \in [Workers -> {"start"} \cup BootSteps \cup Served]
    BY <1>3 DEF BootInv, BootTypeOK
  <2> QED BY <1>2, <2>1, <2>2, <2>3 DEF BootInv, BootTypeOK
<1>5. KeyHeld(w)' /\ Passed(w)'
  <2>1. \A g \in Groups : ~ g < 1
    BY BootTyped DEF Groups
  <2>2. ~ Keyed(w)' /\ phase'[w] \notin {"record", "insert", "commit"}
    BY <1>1 DEF Keyed
  <2> QED BY <1>1, <2>1, <2>2 DEF KeyHeld, Passed
<1>6. ASSUME NEW v \in Workers, v # w PROVE KeyHeld(v)' /\ Passed(v)'
  <2>1. KeyHeld(v) /\ Passed(v)
    BY BootTyped
  <2>2. keyLock = v => keyLock' = v
    BY <1>6 DEF LockAfter
  <2> QED BY <1>1, <1>2, <1>6, <2>1, <2>2 DEF KeyHeld, Passed, Keyed
<1>7. OwnNew' /\ Greatest'
  BY <1>1 DEF BootInv, OwnNew, Greatest
<1>8. SeedsWhole' /\ CreatorsDoNotConflict'
  BY <1>1, <1>2 DEF BootInv, SeedsWhole, CreatorsDoNotConflict
<1>9. AdminFirst'
  <2>1. \A v \in Workers : Keyed(v)' => v # w /\ Keyed(v)
    BY <1>1 DEF Keyed
  <2> QED BY <1>1, <1>2, <2>1 DEF BootInv, AdminFirst
<1>10. Landed'
  BY <1>1, <1>2, <1>3 DEF BootInv, Landed, Serving, Served
<1>11. Early'
  BY <1>2 DEF BootInv, Early
<1>12. ASSUME ~ overlapped' PROVE OneByOne'
  <2>1. OneByOne
    BY <1>12 DEF BootInv
  <2>2. ~ Booting(w)' /\ \A v \in Workers : Booting(v)' => Booting(v)
    BY <1>1, <1>3 DEF Booting
  <2>3. ~ faulted' => \A v \in Workers : Serving(v)' => v # w /\ Serving(v)
    BY <1>1, <1>12 DEF Serving, Served
  <2>4. \A v \in Workers : own'[v] # 0 => keys' = {}
    BY <1>1, <2>1 DEF OneByOne
  <2>5. \A v \in Workers : phase'[v] = "insert" => group'[v] \notin seeded'
    BY <1>1, <1>2, <2>1 DEF OneByOne
  <2> QED BY <1>1, <1>2, <2>1, <2>2, <2>3, <2>4, <2>5 DEF OneByOne
<1> QED BY <1>4, <1>5, <1>6, <1>7, <1>8, <1>9, <1>10, <1>11, <1>12 DEF BootInv

\* A conflict over a seed row: the winner has brought all of them, and the
\* loser has the key of a row.
LEMMA ConflictStep == ASSUME BootInv, NEW w \in Workers, Conflict(w) PROVE BootInv'
<1>1. phase[w] = "insert" /\ group[w] \in seeded
  BY DEF Conflict
<1>2. seeded = Groups /\ own[w] = 0
  BY <1>1 DEF BootInv, SeedsWhole, CreatorsDoNotConflict
<1>3. cipher[w] \in keys
  BY <1>1, <1>2, BootTyped DEF KeyHeld, Keyed
<1>4. overlapped
  BY <1>1 DEF BootInv, OneByOne
<1>5. cipher' \in [Workers -> 0 .. made] /\ restarts' \in 0 .. MaxRestarts /\ faulted' \in BOOLEAN
  BY DEF Conflict, RolledBack, BootInv, BootTypeOK
<1> QED BY <1>2, <1>3, <1>4, <1>5, BootEnds DEF Conflict, RolledBack

\* A column of another key: a fault has left it, or two workers have each
\* committed or made a key.
LEMMA UnreadableStep == ASSUME BootInv, NEW w \in Workers, Unreadable(w) PROVE BootInv'
<1>1. phase[w] = "select" /\ KeyHeld(w)
  BY BootTyped DEF Unreadable
<1>2. PICK ks \in SUBSET (1 .. made) :
        ~ Readable(w, ks) /\ (ks = orphans \/ \E g \in Groups : ks = sealed[g])
  BY DEF Unreadable, BootInv, BootTypeOK
<1>3. ASSUME ks \subseteq keys, \A j, k \in keys : j = k, own[w] # 0 => keys = {} PROVE FALSE
  <2>1. CASE own[w] # 0
    BY <1>2, <1>3, <2>1 DEF Readable
  <2>2. CASE own[w] = 0
    <3>1. cipher[w] \in keys
      BY <1>1, <2>2 DEF KeyHeld, Keyed
    <3>2. \A k \in ks : k = cipher[w]
      BY <1>3, <3>1
    <3> QED BY <1>2, <3>2 DEF Readable
  <2> QED BY <2>1, <2>2
<1>4. ASSUME ~ faulted PROVE seeded = Groups
  <2> SUFFICES ASSUME seeded # Groups PROVE FALSE
    OBVIOUS
  <2>1. ks \subseteq keys /\ \A j, k \in keys : j = k
    BY <1>2, <1>4 DEF BootInv, Early
  <2>2. own[w] # 0 => keys = {}
    BY DEF BootInv, SeedsWhole
  <2> QED BY <1>3, <2>1, <2>2
<1>5. ASSUME ~ faulted PROVE overlapped
  <2> SUFFICES ASSUME ~ overlapped PROVE FALSE
    OBVIOUS
  <2>1. OneByOne
    BY DEF BootInv
  <2>2. ks \subseteq keys
    BY <1>2, <1>5, <2>1 DEF OneByOne
  <2>3. (\A j, k \in keys : j = k) /\ (own[w] # 0 => keys = {})
    BY <2>1 DEF OneByOne
  <2> QED BY <1>3, <2>2, <2>3
<1>6. cipher' \in [Workers -> 0 .. made] /\ restarts' \in 0 .. MaxRestarts /\ faulted' \in BOOLEAN
  BY DEF Unreadable, RolledBack, BootInv, BootTypeOK
<1> QED BY <1>4, <1>5, <1>6, BootEnds DEF Unreadable, RolledBack

\* Any other failure.
LEMMA FailStep == ASSUME BootInv, NEW w \in Workers, Fail(w) PROVE BootInv'
<1>1. cipher' \in [Workers -> 0 .. made] /\ restarts' \in 0 .. MaxRestarts /\ faulted'
  BY DEF Fail, RolledBack, BootInv, BootTypeOK
<1>2. faulted' \in BOOLEAN
  BY DEF Fail
<1> QED BY <1>1, <1>2, BootEnds DEF Fail, RolledBack

\* A process starts again.
LEMMA RestartStep == ASSUME BootInv, NEW w \in Workers, Restart(w) PROVE BootInv'
<1>1. /\ cipher' \in [Workers -> 0 .. made] /\ faulted' \in BOOLEAN
      /\ \A v \in Workers : v # w => cipher'[v] = cipher[v]
  BY BootTyped DEF Restart, BootInv, BootTypeOK
<1>2. restarts' \in 0 .. MaxRestarts
  BY SeedsAssumption DEF Restart, BootInv, BootTypeOK
<1> QED BY <1>1, <1>2, BootEnds DEF Restart

\* A worker commits its key and its seeds.
LEMMA CommitBootStep == ASSUME BootInv, NEW w \in Workers, CommitBoot(w) PROVE BootInv'
<1>1. /\ phase[w] = "commit" /\ KeyHeld(w) /\ Passed(w) /\ group[w] = SeedGroups + 1
      /\ keys' = keys \cup ({own[w]} \ {0}) /\ seeded' = seeded \cup inserted[w]
      /\ phase' = [phase EXCEPT ![w] = "serving"] /\ keyLock' = LockAfter(w)
      /\ own' = [own EXCEPT ![w] = 0] /\ inserted' = [inserted EXCEPT ![w] = {}]
      /\ group' = [group EXCEPT ![w] = 1] /\ attached' = attached \ {w}
      /\ UNCHANGED <<made, admin, cipher, restarts, faulted, overlapped>>
  BY BootTyped DEF CommitBoot, Passed
<1>2. /\ phase'[w] = "serving" /\ own'[w] = 0 /\ inserted'[w] = {} /\ group'[w] = 1
      /\ \A v \in Workers : v # w => /\ phase'[v] = phase[v] /\ own'[v] = own[v]
                                     /\ group'[v] = group[v] /\ inserted'[v] = inserted[v]
  BY <1>1 DEF BootInv, BootTypeOK
<1>3. seeded' = Groups
  <2>1. \A g \in Groups : g < SeedGroups + 1
    BY BootTyped DEF Groups
  <2>2. \A g \in Groups : g \in seeded \cup inserted[w]
    BY <1>1, <2>1 DEF Passed
  <2> QED BY <1>1, <2>2, BootTyped
<1>4. cipher[w] \in keys' /\ keys' # {} /\ keys \subseteq keys' /\ Keyed(w)
  BY <1>1, BootTyped DEF KeyHeld, Keyed
<1>5. keys' \subseteq 1 .. made /\ Greatest'
  <2>1. own[w] \in 0 .. made
    BY BootTyped
  <2>2. CASE own[w] = 0
    BY <1>1, <2>2, BootTyped DEF BootInv, Greatest
  <2>3. CASE own[w] # 0
    <3>1. keys' = keys \cup {own[w]} /\ own[w] \in 1 .. made
      BY <1>1, <2>1, <2>3, BootTyped
    <3>2. keys' \subseteq 1 .. made
      BY <3>1, BootTyped
    <3>3. CASE keys = {}
      BY <3>1, <3>3, BootTyped DEF Greatest
    <3>4. CASE keys # {}
      <4>1. PICK k \in keys : \A j \in keys : j <= k
        BY <3>4 DEF BootInv, Greatest
      <4>2. k \in Nat /\ own[w] \in Nat /\ \A j \in keys : j \in Nat
        BY <3>1, BootTyped
      <4>3. CASE own[w] <= k
        BY <3>1, <3>2, <4>1, <4>3 DEF Greatest
      <4>4. CASE k < own[w]
        <5>1. \A j \in keys : j <= own[w]
          BY <4>1, <4>2, <4>4
        <5> QED BY <3>1, <3>2, <4>2, <5>1 DEF Greatest
      <4> QED BY <4>2, <4>3, <4>4
    <3> QED BY <3>2, <3>3, <3>4
  <2> QED BY <2>2, <2>3
<1>6. cipher[w] \in 1 .. made
  BY <1>4, <1>5
<1>7. sealed' \in [Groups -> SUBSET (1 .. made)] /\ orphans' \subseteq orphans
      /\ (data' = data \/ data' = data \cup {cipher[w]})
      /\ \A g \in Groups : sealed'[g] \subseteq sealed[g] \cup {cipher[w]}
  <2>1. sealed' = sealed \/ sealed' = [sealed EXCEPT ![AdminGroup] = {cipher[w]}]
    BY DEF CommitBoot
  <2>2. orphans' = orphans \/ orphans' = orphans \ {cipher[w]}
    BY DEF CommitBoot
  <2>3. data' = data \/ data' = data \cup {cipher[w]}
    BY DEF CommitBoot
  <2> QED BY <1>6, <2>1, <2>2, <2>3, BootTyped DEF BootInv, BootTypeOK
<1>8. BootTypeOK'
  <2>1. 1 \in 1 .. SeedGroups + 1 /\ 0 \in 0 .. made
    BY BootTyped
  <2>2. keyLock' \in Workers \cup {NoWorker}
    BY <1>1 DEF LockAfter, BootInv, BootTypeOK
  <2>3. data' \subseteq 1 .. made /\ orphans' \subseteq 1 .. made
    BY <1>6, <1>7 DEF BootInv, BootTypeOK
  <2>4. phase' \in [Workers -> {"start"} \cup BootSteps \cup Served]
    BY <1>1 DEF BootInv, BootTypeOK, Served
  <2>5. attached' \subseteq Workers
    BY <1>1 DEF BootInv, BootTypeOK
  <2> QED BY <1>1, <1>3, <1>5, <1>7, <2>1, <2>2, <2>3, <2>4, <2>5 DEF BootInv, BootTypeOK
<1>9. KeyHeld(w)' /\ Passed(w)'
  <2>1. \A g \in Groups : ~ g < 1
    BY BootTyped DEF Groups
  <2> QED BY <1>2, <2>1 DEF KeyHeld, Passed, Keyed
<1>10. ASSUME NEW v \in Workers, v # w PROVE KeyHeld(v)' /\ Passed(v)'
  <2>1. KeyHeld(v) /\ Passed(v) /\ cipher'[v] = cipher[v]
    BY <1>1, BootTyped
  <2>2. keyLock = v => keyLock' = v
    BY <1>1, <1>10 DEF LockAfter
  <2>3. keys \subseteq keys' /\ seeded \subseteq seeded'
    BY <1>1
  <2> QED BY <1>2, <1>10, <2>1, <2>2, <2>3 DEF KeyHeld, Passed, Keyed
<1>11. OwnNew'
  <2>1. \A v \in Workers : own'[v] # 0 => v # w /\ own'[v] = own[v] /\ own[v] # own[w] /\ own[v] \notin keys
    BY <1>2 DEF BootInv, OwnNew
  <2>2. \A v \in Workers : own'[v] # 0 => own'[v] \notin keys'
    BY <1>1, <2>1
  <2>3. \A u, v \in Workers : own'[u] # 0 /\ own'[v] = own'[u] => v = u
    BY <2>1 DEF BootInv, OwnNew
  <2> QED BY <2>2, <2>3 DEF OwnNew
<1>12. SeedsWhole'
  BY <1>3, <1>4 DEF SeedsWhole
<1>13. CreatorsDoNotConflict'
  <2> SUFFICES ASSUME NEW v \in Workers, phase'[v] = "insert", own'[v] # 0 PROVE FALSE
    BY DEF CreatorsDoNotConflict
  <2>1. v # w /\ phase[v] = "insert" /\ own[v] # 0
    BY <1>2
  <2>2. keyLock = v /\ group[v] \in Groups /\ group[v] \notin seeded
    BY <2>1, BootTyped DEF KeyHeld, Keyed, Passed, BootInv, CreatorsDoNotConflict
  <2>3. own[w] = 0
    BY <1>1, <2>1, <2>2 DEF KeyHeld, Keyed
  <2>4. keys # {}
    BY <1>1, <2>3 DEF KeyHeld, Keyed
  <2>5. seeded = Groups
    BY <2>1, <2>4 DEF BootInv, SeedsWhole
  <2> QED BY <2>2, <2>5
<1>14. ASSUME admin PROVE AdminFirst'
  <2>1. own[w] # 0 => keys = {}
    <3>1. SeedGroups + 1 > AdminGroup
      BY BootTyped DEF Groups
    <3> QED BY <1>1, <1>4, <1>14, <3>1 DEF BootInv, AdminFirst
  <2>2. \A j, k \in keys' : j = k
    BY <1>1, <1>14, <2>1 DEF BootInv, AdminFirst
  <2>3. sealed'[AdminGroup] \cap keys' # {}
    <3>1. CASE AdminGroup \in inserted[w]
      <4>1. sealed' = [sealed EXCEPT ![AdminGroup] = {cipher[w]}]
        BY <1>14, <3>1 DEF CommitBoot
      <4>2. sealed'[AdminGroup] = {cipher[w]}
        BY <4>1, BootTyped DEF BootInv, BootTypeOK
      <4> QED BY <1>4, <4>2
    <3>2. CASE AdminGroup \notin inserted[w]
      <4>1. AdminGroup \in seeded
        BY <1>1, <1>3, <3>2, BootTyped
      <4>2. sealed' = sealed
        BY <3>2 DEF CommitBoot
      <4> QED BY <1>4, <1>14, <4>1, <4>2 DEF BootInv, AdminFirst
    <3> QED BY <3>1, <3>2
  <2>4. ASSUME NEW v \in Workers, Keyed(v)', own'[v] # 0, group'[v] > AdminGroup PROVE FALSE
    <3>1. v # w /\ Keyed(v) /\ own[v] # 0 /\ group[v] > AdminGroup
      BY <1>2, <2>4 DEF Keyed
    <3>2. keys = {} /\ keyLock = v
      BY <1>14, <3>1, BootTyped DEF BootInv, AdminFirst, KeyHeld
    <3>3. own[w] = 0
      BY <1>1, <1>4, <3>1, <3>2 DEF KeyHeld
    <3> QED BY <1>1, <1>4, <3>2, <3>3 DEF KeyHeld
  <2> QED BY <1>1, <2>2, <2>3, <2>4 DEF AdminFirst
<1>15. AdminFirst'
  BY <1>1, <1>14 DEF AdminFirst
<1>16. Landed'
  BY <1>1, <1>2, <1>3, <1>4 DEF BootInv, Landed, Serving
<1>17. Early'
  BY <1>3 DEF Early
<1>18. ASSUME ~ overlapped' PROVE OneByOne'
  <2>1. OneByOne
    BY <1>1, <1>18 DEF BootInv
  <2>2. \A v \in Workers : Booting(v)' => v # w /\ Booting(v)
    BY <1>2 DEF Booting, BootSteps
  <2>3. Booting(w)
    BY <1>1 DEF Booting, BootSteps
  <2>4. \A v \in Workers : v # w => ~ Booting(v)
    BY <2>1, <2>3 DEF OneByOne
  <2>5. \A v \in Workers : v # w => own'[v] = 0
    <3> SUFFICES ASSUME NEW v \in Workers, v # w PROVE own[v] = 0
      BY <1>2
    <3>1. phase[v] \in {"start"} \cup Served
      BY <2>4 DEF Booting, BootInv, BootTypeOK
    <3> QED BY <3>1, BootTyped DEF KeyHeld
  <2>6. \A j, k \in keys' : j = k
    BY <1>1, <2>1 DEF OneByOne
  <2>7. \A v \in Workers : phase'[v] # "insert"
    BY <1>2, <2>4 DEF Booting, BootSteps
  <2>8. ASSUME ~ faulted
        PROVE  /\ data' \subseteq keys' /\ orphans' \subseteq keys'
               /\ \A g \in Groups : sealed'[g] \subseteq keys'
    BY <1>4, <1>7, <2>1, <2>8 DEF OneByOne
  <2>9. ASSUME ~ faulted, NEW v \in Workers, Serving(v)'
        PROVE  phase'[v] = "serving" /\ cipher'[v] \in keys'
    BY <1>1, <1>2, <1>4, <2>1, <2>9 DEF OneByOne, Serving
  <2> QED BY <1>1, <1>2, <2>2, <2>4, <2>5, <2>6, <2>7, <2>8, <2>9 DEF OneByOne
<1> QED BY <1>5, <1>8, <1>9, <1>10, <1>11, <1>12, <1>13, <1>15, <1>16, <1>17, <1>18 DEF BootInv

\* A request stores a column.
LEMMA StoreStep == ASSUME BootInv, NEW w \in Workers, Store(w) PROVE BootInv'
<1>1. /\ Serving(w) /\ cipher[w] # 0 /\ data' = data \cup {cipher[w]}
      /\ UNCHANGED <<keys, made, admin, seeded, keyLock, phase, cipher, own, group, inserted,
                     restarts, faulted, overlapped>>
  BY DEF Store, Serving
<1>2. cipher[w] \in 1 .. made
  <2>1. cipher[w] \in 0 .. made /\ made \in Nat
    BY BootTyped
  <2> QED BY <1>1, <2>1
<1>3. /\ orphans' = orphans \/ orphans' = orphans \cup {cipher[w]}
      /\ sealed' = sealed \/ sealed' = [sealed EXCEPT ![OrgGroup] = @ \cup {cipher[w]}]
      /\ attached' \subseteq attached
  BY DEF Store
<1>4. /\ sealed' \in [Groups -> SUBSET (1 .. made)] /\ orphans' \subseteq 1 .. made
      /\ \A g \in Groups : /\ sealed[g] \subseteq sealed'[g]
                           /\ sealed'[g] \subseteq sealed[g] \cup {cipher[w]}
  <2>1. sealed \in [Groups -> SUBSET (1 .. made)] /\ orphans \subseteq 1 .. made
    BY DEF BootInv, BootTypeOK
  <2>2. sealed[OrgGroup] \cup {cipher[w]} \subseteq 1 .. made
    BY <1>2, <2>1, BootTyped
  <2>3. CASE sealed' = sealed
    BY <1>2, <1>3, <2>1, <2>3
  <2>4. CASE sealed' = [sealed EXCEPT ![OrgGroup] = @ \cup {cipher[w]}]
    <3>1. \A g \in Groups : sealed'[g] = sealed[g] \/ sealed'[g] = sealed[g] \cup {cipher[w]}
      BY <2>1, <2>4
    <3>2. sealed' \in [Groups -> SUBSET (1 .. made)]
      BY <2>1, <2>2, <2>4
    <3> QED BY <1>2, <1>3, <2>1, <3>1, <3>2
  <2> QED BY <1>3, <2>3, <2>4
<1>5. BootTypeOK'
  <2>1. data' \subseteq 1 .. made'
    BY <1>1, <1>2 DEF BootInv, BootTypeOK
  <2>2. attached' \subseteq Workers
    BY <1>3 DEF BootInv, BootTypeOK
  <2> QED BY <1>1, <1>4, <2>1, <2>2 DEF BootInv, BootTypeOK
<1>6. \A v \in Workers : KeyHeld(v)' /\ Passed(v)'
  BY <1>1, BootTyped DEF KeyHeld, Passed, Keyed
<1>7. OwnNew' /\ Greatest' /\ SeedsWhole' /\ CreatorsDoNotConflict'
  BY <1>1 DEF BootInv, OwnNew, Greatest, SeedsWhole, CreatorsDoNotConflict
<1>8. AdminFirst'
  <2>1. sealed[AdminGroup] \cap keys # {} => sealed'[AdminGroup] \cap keys # {}
    BY <1>4, BootTyped
  <2> QED BY <1>1, <2>1 DEF BootInv, AdminFirst, Keyed
<1>9. Landed'
  BY <1>1 DEF BootInv, Landed, Serving
<1>10. Early'
  BY <1>1 DEF BootInv, Landed, Early
<1>11. ASSUME ~ overlapped' PROVE OneByOne'
  <2>1. OneByOne
    BY <1>1, <1>11 DEF BootInv
  <2>2. ASSUME ~ faulted
        PROVE  /\ data' \subseteq keys /\ orphans' \subseteq keys
               /\ \A g \in Groups : sealed'[g] \subseteq keys
    BY <1>1, <1>3, <1>4, <2>1, <2>2 DEF OneByOne
  <2> QED BY <1>1, <2>1, <2>2 DEF OneByOne, Booting, Serving
<1> QED BY <1>5, <1>6, <1>7, <1>8, <1>9, <1>10, <1>11 DEF BootInv

\* So the invariant holds in every state.
LEMMA BootInvariant == BootSpec => []BootInv
<1>1. BootInv /\ [BootNext]_bootVars => BootInv'
  <2> SUFFICES ASSUME BootInv, [BootNext]_bootVars PROVE BootInv'
    OBVIOUS
  <2>1. CASE BootNext
    BY <2>1, SelectKeyStep, RecordKeyStep, SelectSeedsStep, InsertSeedsStep, RecordAdminStep,
       ConflictStep, SelectOrphansStep, UnreadableStep, CommitBootStep, FailStep, StoreStep,
       RestartStep DEF BootNext, Boot
  <2>2. CASE UNCHANGED bootVars
    BY <2>2 DEF bootVars, BootInv, BootTypeOK, Greatest, KeyHeld, Passed, Keyed, OwnNew, SeedsWhole,
       CreatorsDoNotConflict, AdminFirst, Landed, Early, OneByOne, Booting, Serving
  <2> QED BY <2>1, <2>2
<1> QED BY <1>1, BootInitInv, PTL DEF BootSpec

\* Whatever workers boot, fail and restart, the variables keep their types.
THEOREM BootTypeCorrect == BootSpec => []BootTypeOK
BY BootInvariant, PTL DEF BootInv

\* bootstrap.py, key_service.py: what the races of the workers leave is harmless,
\* with the rows that a second key cannot read among them: a loser serves on seeded
\* rows, two that make a key never race for seed rows and with an administrator
\* only one of them commits it, and starts one after the other keep all columns
\* readable.
THEOREM RacesStayHarmless == BootSpec => []RacesAreHarmless
<1>1. BootInv => RacesAreHarmless
  <2> SUFFICES ASSUME BootInv PROVE RacesAreHarmless
    OBVIOUS
  <2>1. ServingIsSeeded /\ ConflictKeepsCipher
    <3>1. \A w \in Workers : phase[w] = "unreadable" => Serving(w)
      BY DEF Serving, Served
    <3> QED BY <3>1 DEF BootInv, Landed, ServingIsSeeded, ConflictKeepsCipher
  <2>2. AdminKeepsKeySingle
    <3> SUFFICES ASSUME admin PROVE Cardinality(keys) <= 1
      BY DEF AdminKeepsKeySingle, OneFieldKey
    <3>1. \A j, k \in keys : j = k
      BY DEF BootInv, AdminFirst
    <3>2. CASE keys = {}
      BY <3>2, FS_EmptySet
    <3>3. CASE keys # {}
      <4>1. PICK k \in keys : keys = {k}
        BY <3>1, <3>3
      <4> QED BY <4>1, FS_Singleton
    <3> QED BY <3>2, <3>3
  <2>3. SerialDataReadable
    <3> SUFFICES ASSUME ~ faulted, ~ overlapped, NEW w \in Workers, Serving(w)
                 PROVE  phase[w] = "serving" /\ data \subseteq {cipher[w]}
      BY DEF SerialDataReadable
    <3>1. OneByOne
      BY DEF BootInv
    <3>2. phase[w] = "serving" /\ cipher[w] \in keys /\ data \subseteq keys
      BY <3>1 DEF OneByOne
    <3>3. \A k \in data : k = cipher[w]
      BY <3>1, <3>2 DEF OneByOne
    <3> QED BY <3>2, <3>3
  <2>4. CreatorsDoNotConflict
    BY DEF BootInv
  <2> QED BY <2>1, <2>2, <2>3, <2>4 DEF RacesAreHarmless
<1> QED BY <1>1, BootInvariant, PTL
===============================================================================
