--------------------------- MODULE AuthSessionProofs ---------------------------
(***************************************************************************)
(* Theorems about AuthSession, for any finite number of requests, any      *)
(* tokens and passwords and any limit of failed logins.                    *)
(*                                                                         *)
(* A request commits what it computed from rows that others may have       *)
(* changed since.  The invariant separates what its write set is by its    *)
(* making, what remains true of the tokens it names under any interleaving *)
(* and what is still true of the rows as long as nobody else was in flight.*)
(***************************************************************************)
EXTENDS AuthSession, FiniteSetTheorems, TLAPS

Values == Hash \cup BOOLEAN \cup (0 .. FailCap) \cup {"none", "running", "expired"}
Sets == UNION {[C -> Values] : C \in SUBSET Columns}
Request == [op : Ops, pc : {"token", "user", "history", "active", "commit"},
            pw : Passwords \cup {NoArg}, new : Passwords \cup {NoArg},
            token : Tokens \cup {NoArg}, sets : Sets, revoke : SUBSET Tokens,
            issue : BOOLEAN, reason : Reasons \cup {NoArg}, stamp : 0 .. MaxChanges]

Failures == {"bad_password", "locked_now"}

\* What an UPDATE of the users row can carry, by the operation that makes it.
Fits(q) ==
    /\ "hash" \in DOMAIN q.sets =>
          /\ q.sets["hash"] \in Hash
          /\ q.op = "login" \/ (q.op = "change_password" /\ q.sets["hash"].of = q.new)
    /\ "active" \in DOMAIN q.sets => q.sets["active"] \in BOOLEAN
    /\ "failed" \in DOMAIN q.sets =>
          q.sets["failed"] \in 0 .. FailCap /\ q.reason \in Failures \cup {"ok"}
    /\ "locked" \in DOMAIN q.sets =>
          q.sets["locked"] \in {"none", "running"} /\ q.reason \in Failures \cup {"ok"}
    /\ q.reason = "ok" /\ "failed" \in DOMAIN q.sets => q.sets["failed"] = 0
    /\ q.reason \in Failures =>
          /\ "failed" \in DOMAIN q.sets
          /\ q.sets["failed"] >= MaxFailed =>
                "locked" \in DOMAIN q.sets /\ q.sets["locked"] = "running"

\* What the parts of a request say about each other.
Shape(q) ==
    /\ Fits(q)
    /\ q.op = "refresh" => q.token \in Tokens /\ q.pc \in {"token", "user", "commit"}
                           /\ (q.pc # "token" => q.revoke = {q.token})
    /\ q.op = "logout" => q.token \in Tokens /\ q.pc \in {"token", "commit"}
    /\ q.op = "change_password" =>
          /\ q.new \in Passwords /\ ~ q.issue
          /\ q.pc \in {"active", "commit"} => "hash" \in DOMAIN q.sets
    /\ q.op # "login" => q.reason = NoArg

\* A token that was presented, or is to be revoked, has been issued; a password
\* that a login hashes anew was in force.
Known(q) ==
    /\ q.token \in Tokens => tokens[q.token] # "unused"
    /\ \A t \in q.revoke : tokens[t] # "unused"
    /\ q.op = "login" /\ "hash" \in DOMAIN q.sets =>
          \E h \in history : h.of = q.sets["hash"].of

\* A refresh that has found its token active.
Exchanging(q) == q.op = "refresh" /\ q.pc \in {"user", "commit"}

\* What a request that is alone can rely on.
Fresh(q) ==
    /\ q.reason = "ok" => "failed" \in DOMAIN q.sets \/ user.failed = 0
    /\ q.reason \in Failures => q.sets["failed"] = user.failed + 1
    /\ Exchanging(q) => tokens[q.token] = "active"
    /\ q.op = "change_password" /\ q.pc = "commit" =>
          q.revoke = {t \in Tokens : tokens[t] = "active"}
    /\ q.op = "change_password" /\ q.pc \in {"active", "commit"} =>
          \A h \in history : h.at <= q.stamp
    /\ q.op = "login" /\ "hash" \in DOMAIN q.sets => q.sets["hash"].of = user.hash.of

Good(q) == Shape(q) /\ Known(q) /\ (~ overlapped => Fresh(q))

\* The requests that may still exchange a token.
Pending(t) == {r \in Requests : req[r] # Idle /\ Exchanging(req[r]) /\ req[r].token = t}
Quota == \A t \in Tokens : spent[t] + Cardinality(Pending(t)) <= Cardinality(Requests)

Types ==
    /\ user \in User
    /\ history \subseteq Row /\ changes \in 0 .. MaxChanges
    /\ \A h \in history : h.at <= changes
    /\ tokens \in [Tokens -> TokenState]
    /\ req \in [Requests -> Request \cup {Idle}]
    /\ wrong \in 0 .. MaxFailed
    /\ spent \in [Tokens -> Nat]
    /\ overlapped \in BOOLEAN

\* One at a time, every bad password is counted, and at the limit arms the lock;
\* the latest row of the history is of the password in force.
Serial ==
    ~ overlapped =>
        /\ \A r, s \in Requests : req[r] # Idle /\ req[s] # Idle => r = s
        /\ wrong = IF user.failed < MaxFailed THEN user.failed ELSE MaxFailed
        /\ \E h \in history : h.of = user.hash.of /\ \A g \in history : g.at <= h.at
        /\ wrong >= MaxFailed => user.locked # "none"
        /\ \A t \in Tokens : spent[t] <= 1

\* No request has a stamp that is still to come.
Stamped == \A r \in Requests : req[r] # Idle => req[r].stamp <= changes

IInv ==
    /\ Types /\ Quota /\ Serial /\ Stamped /\ AccountIsSound
    /\ \A r \in Requests : req[r] # Idle => Good(req[r])

-------------------------------------------------------------------------------
(* Lemmas on write sets and on counting.                                   *)

\* The columns in which a row differs from the loaded one.
LEMMA ChangesFit ==
    ASSUME user \in User, NEW mine \in User
    PROVE  /\ Changes(mine) \in Sets
           /\ \A c \in Columns : c \in DOMAIN Changes(mine) <=> mine[c] # user[c]
           /\ \A c \in DOMAIN Changes(mine) : c \in Columns /\ Changes(mine)[c] = mine[c]
<1> DEFINE C == {d \in Columns : mine[d] # user[d]}
<1>1. \A c \in Columns : mine[c] \in Values
  BY DEF User, Columns, Values
<1>2. [c \in C |-> mine[c]] \in [C -> Values]
  BY <1>1
<1>3. C \in SUBSET Columns
  OBVIOUS
<1> QED BY <1>2, <1>3 DEF Changes, Sets

\* A row that changed in nothing is not written.
LEMMA NoChangeFits ==
    ASSUME user \in User
    PROVE  NoChange \in Sets /\ (\A c : c \notin DOMAIN NoChange)
BY ChangesFit DEF NoChange

\* What an UPDATE makes of the row.
LEMMA WrittenRow ==
    ASSUME user \in User, NEW q \in Request, Shape(q)
    PROVE  /\ Written(q) \in User
           /\ \A c \in Columns :
                Written(q)[c] = IF c \in DOMAIN q.sets THEN q.sets[c] ELSE user[c]
<1>1. PICK w : w = Written(q)
  OBVIOUS
<1>2. w = [c \in {"hash", "active", "failed", "locked"} |->
             IF c \in DOMAIN q.sets THEN q.sets[c] ELSE user[c]]
  BY <1>1 DEF Written, Columns
<1>3. /\ w["hash"] \in Hash /\ w["active"] \in BOOLEAN
      /\ w["failed"] \in 0 .. FailCap /\ w["locked"] \in {"none", "running", "expired"}
  BY <1>2 DEF Shape, Fits, User
<1>4. w = [hash |-> w["hash"], active |-> w["active"],
           failed |-> w["failed"], locked |-> w["locked"]]
  BY <1>2
<1>5. w \in User
  BY <1>3, <1>4 DEF User
<1> QED BY <1>1, <1>5 DEF Written

\* The requests are finitely many, and so are those of any kind.
LEMMA PendingFinite ==
    ASSUME NEW t
    PROVE  /\ IsFiniteSet(Pending(t)) /\ Cardinality(Pending(t)) \in Nat
           /\ Cardinality(Pending(t)) <= Cardinality(Requests)
           /\ Cardinality(Requests) \in Nat
<1>1. Pending(t) \in SUBSET Requests
  BY DEF Pending
<1> QED BY <1>1, RequestsAssumption, FS_Subset, FS_CardinalityType

\* A token's quota holds when no request has joined those that exchange it, or
\* when it was not exchanged yet.
LEMMA QuotaKept ==
    ASSUME Types, Types', NEW t \in Tokens,
           spent[t] + Cardinality(Pending(t)) <= Cardinality(Requests),
           spent'[t] = spent[t],
           Pending(t)' \subseteq Pending(t) \/ spent[t] = 0
    PROVE  spent'[t] + Cardinality(Pending(t)') <= Cardinality(Requests)
<1>1. Pending(t)' \in SUBSET Requests
  BY DEF Pending
<1>2. /\ Cardinality(Pending(t)') \in Nat
      /\ Cardinality(Pending(t)') <= Cardinality(Requests) /\ Cardinality(Requests) \in Nat
  BY <1>1, RequestsAssumption, FS_Subset, FS_CardinalityType
<1>3. CASE spent[t] = 0
  BY <1>2, <1>3
<1>4. CASE Pending(t)' \subseteq Pending(t)
  <2>1. Cardinality(Pending(t)') <= Cardinality(Pending(t)) /\ Cardinality(Pending(t)) \in Nat
    BY <1>4, PendingFinite, FS_Subset
  <2>2. spent[t] \in Nat
    BY DEF Types
  <2> QED BY <1>2, <2>1, <2>2
<1> QED BY <1>3, <1>4

-------------------------------------------------------------------------------
(* Lemmas on the steps.                                                    *)

\* A request that is at one of its steps has an operation under way.
LEMMA Busy ==
    ASSUME Types, NEW r \in Requests, req[r].pc # "idle"
    PROVE  req[r] # Idle /\ req[r] \in Request
BY DEF Types, Idle

\* A request begins, goes on or ends without a commit.
LEMMA QuietStep ==
    ASSUME IInv, NEW r \in Requests, NEW q \in Request \cup {Idle},
           req' = [req EXCEPT ![r] = q],
           UNCHANGED <<user, history, tokens, wrong, spent>>,
           changes' \in changes .. MaxChanges, overlapped' \in BOOLEAN,
           q # Idle => q.stamp <= changes',
           overlapped => overlapped',
           q # Idle => Good(q)',
           ~ overlapped' /\ q # Idle => \A s \in Requests : s # r => req[s] = Idle,
           q # Idle /\ Exchanging(q) =>
              \/ tokens[q.token] = "active"
              \/ req[r] # Idle /\ Exchanging(req[r]) /\ q.token = req[r].token
    PROVE  IInv'
<1>1. req'[r] = q /\ (\A s \in Requests : s # r => req'[s] = req[s])
  BY DEF IInv, Types
<1>2. Types'
  <2>1. changes \in 0 .. MaxChanges /\ MaxChanges \in Nat /\ \A h \in history : h.at <= changes
    BY HistoryAssumption DEF IInv, Types
  <2>2. changes' \in 0 .. MaxChanges /\ changes <= changes'
    BY <2>1
  <2>3. \A h \in history : h.at \in Nat
    BY HistoryAssumption DEF IInv, Types, Row
  <2>4. \A h \in history' : h.at <= changes'
    BY <2>1, <2>2, <2>3
  <2> QED BY <2>2, <2>4 DEF IInv, Types
<1>3. Serial'
  BY <1>1 DEF IInv, Serial
<1>4. AccountIsSound'
  BY DEF IInv, AccountIsSound, UsedTokenIsDead, PasswordRecorded
<1>5. Quota'
  <2> SUFFICES ASSUME NEW t \in Tokens
               PROVE  spent'[t] + Cardinality(Pending(t)') <= Cardinality(Requests)
    BY DEF Quota
  <2>1. Pending(t)' \subseteq Pending(t) \/ spent[t] = 0
    <3>1. CASE q # Idle /\ Exchanging(q) /\ q.token = t /\ tokens[t] = "active"
      <4>1. ~ (spent[t] > 0)
        BY <3>1 DEF IInv, AccountIsSound, UsedTokenIsDead
      <4> QED BY <4>1 DEF IInv, Types
    <3>2. CASE ~ (q # Idle /\ Exchanging(q) /\ q.token = t /\ tokens[t] = "active")
      <4>1. ASSUME NEW s \in Pending(t)' PROVE s \in Pending(t)
        BY <4>1, <3>2, <1>1 DEF Pending
      <4> QED BY <4>1
    <3> QED BY <3>1, <3>2
  <2> QED BY <2>1, <1>2, QuotaKept DEF IInv, Quota
<1>6. ASSUME NEW s \in Requests, (req[s] # Idle)' PROVE Good(req[s])'
  <2>1. CASE s = r
    BY <2>1, <1>1, <1>6 DEF Good, Shape, Fits, Known, Fresh
  <2>2. CASE s # r
    <3>1. Good(req[s]) /\ req'[s] = req[s]
      BY <2>2, <1>1, <1>6 DEF IInv
    <3>2. PICK c : c = req[s]
      OBVIOUS
    <3>3. Shape(c)' /\ Known(c)' /\ (~ overlapped' => Fresh(c)')
      <4>1. Shape(c)'
        BY <3>1, <3>2 DEF Good, Shape, Fits
      <4>2. Known(c)'
        BY <3>1, <3>2 DEF Good, Known
      <4>3. ~ overlapped' => Fresh(c)'
        BY <3>1, <3>2 DEF Good, Fresh
      <4> QED BY <4>1, <4>2, <4>3
    <3>4. Good(c)'
      BY <3>3 DEF Good
    <3> QED BY <3>1, <3>2, <3>4 DEF Good, Shape, Fits, Known, Fresh
  <2> QED BY <2>1, <2>2
<1>7. Stamped'
  <2>1. ASSUME NEW s \in Requests, s # r, req[s] # Idle PROVE req[s].stamp <= changes'
    <3>1. req[s] \in Request /\ req[s].stamp <= changes
      BY <2>1 DEF IInv, Types, Stamped
    <3>2. req[s].stamp \in Nat
      BY <3>1, HistoryAssumption DEF Request
    <3>3. changes \in Nat /\ changes' \in Nat /\ changes <= changes'
      BY HistoryAssumption DEF IInv, Types
    <3> QED BY <3>1, <3>2, <3>3
  <2> QED BY <2>1, <1>1 DEF Stamped
<1> QED BY <1>2, <1>3, <1>4, <1>5, <1>6, <1>7 DEF IInv

\* Whatever ends without a commit.
LEMMA EndStep ==
    ASSUME IInv, NEW r \in Requests, Done(r),
           UNCHANGED <<user, history, changes, tokens, wrong, spent, overlapped>>
    PROVE  IInv'
<1>1. overlapped' \in BOOLEAN /\ changes' \in changes .. MaxChanges
  BY HistoryAssumption DEF IInv, Types
<1> QED BY <1>1, QuietStep DEF Done

\* A refusal that changes nothing ends its request.
LEMMA RejectStep ==
    ASSUME IInv, NEW r \in Requests, Reject(r)
    PROVE  IInv'
BY EndStep DEF Reject

\* A request that goes on by itself keeps to itself.
LEMMA GoesOn ==
    ASSUME IInv, NEW r \in Requests, req[r] # Idle, NEW q \in Request,
           req' = [req EXCEPT ![r] = q],
           UNCHANGED <<user, history, tokens, wrong, spent, overlapped>>,
           changes' \in changes .. MaxChanges,
           Good(q), q.token = req[r].token, q.op = req[r].op,
           q.stamp = req[r].stamp \/ q.stamp <= changes',
           Exchanging(q) => Exchanging(req[r]) \/ tokens[q.token] = "active"
    PROVE  IInv'
<1>1. Good(q)'
  <2>1. Shape(q)'
    BY DEF Good, Shape, Fits
  <2>2. Known(q)'
    BY DEF Good, Known
  <2>3. ~ overlapped' => Fresh(q)'
    BY DEF Good, Fresh
  <2> QED BY <2>1, <2>2, <2>3 DEF Good
<1>2. ~ overlapped' => \A s \in Requests : s # r => req[s] = Idle
  BY DEF IInv, Serial
<1>3. overlapped' \in BOOLEAN
  BY DEF IInv, Types
<1>4. q.stamp <= changes'
  <2>1. req[r].stamp <= changes /\ req[r].stamp \in Nat
    BY HistoryAssumption DEF IInv, Stamped, Types, Request
  <2>2. changes \in Nat /\ changes' \in Nat /\ changes <= changes'
    BY HistoryAssumption DEF IInv, Types
  <2> QED BY <2>1, <2>2
<1> QED BY <1>1, <1>2, <1>3, <1>4, QuietStep

\* A request arrives.
LEMMA BeginStep ==
    ASSUME IInv, NEW r \in Requests,
           StartLogin(r) \/ StartWithToken(r) \/ StartChange(r) \/ StartSetActive(r)
    PROVE  IInv'
<1>1. PICK op \in Ops, pc \in {"token", "user"}, pw \in Passwords \cup {NoArg},
           new \in Passwords \cup {NoArg}, t \in Tokens \cup {NoArg} :
        /\ Begin(r, op, pc, pw, new, t)
        /\ op \in {"refresh", "logout"} => t \in Tokens /\ tokens[t] # "unused" /\ pc = "token"
        /\ op \notin {"refresh", "logout"} => t = NoArg
        /\ op = "change_password" => new \in Passwords /\ pc = "user"
  <2>1. CASE StartLogin(r)
    BY <2>1 DEF StartLogin, Ops
  <2>2. CASE StartWithToken(r)
    BY <2>2 DEF StartWithToken, Ops
  <2>3. CASE StartChange(r)
    BY <2>3 DEF StartChange, Ops
  <2>4. CASE StartSetActive(r)
    BY <2>4 DEF StartSetActive, Ops
  <2> QED BY <2>1, <2>2, <2>3, <2>4
<1>2. PICK q : q = [op |-> op, pc |-> pc, pw |-> pw, new |-> new, token |-> t,
                    sets |-> NoChange, revoke |-> {}, issue |-> FALSE, reason |-> NoArg,
                    stamp |-> 0]
  OBVIOUS
<1>3. NoChange \in Sets /\ (\A c : c \notin DOMAIN NoChange)
  BY NoChangeFits DEF IInv, Types
<1>4. q \in Request
  BY <1>2, <1>3, HistoryAssumption DEF Request
<1>5. /\ req[r] = Idle /\ req' = [req EXCEPT ![r] = q]
      /\ overlapped' = (overlapped \/ \E s \in Requests : req[s] # Idle)
      /\ UNCHANGED <<user, history, changes, tokens, wrong, spent>>
  BY <1>1, <1>2 DEF Begin
<1>6. q.op = op /\ q.pc = pc /\ q.new = new /\ q.token = t /\ q.sets = NoChange
      /\ q.revoke = {} /\ q.issue = FALSE /\ q.reason = NoArg /\ q.stamp = 0
  BY <1>2
<1>7. NoArg \notin Tokens /\ NoArg \notin Failures \cup {"ok"}
  BY NoArgAssumption DEF Failures, Reasons
<1>8. Good(q)'
  <2>1. Shape(q)'
    BY <1>1, <1>3, <1>6, <1>7 DEF Shape, Fits
  <2>2. Known(q)'
    BY <1>1, <1>3, <1>5, <1>6, <1>7 DEF Known
  <2>3. Fresh(q)'
    BY <1>1, <1>3, <1>6, <1>7 DEF Fresh, Exchanging
  <2> QED BY <2>1, <2>2, <2>3 DEF Good
<1>9. ~ Exchanging(q)
  BY <1>1, <1>6 DEF Exchanging
<1>10. changes' \in changes .. MaxChanges /\ overlapped' \in BOOLEAN
  BY <1>5, HistoryAssumption DEF IInv, Types
<1>11. q.stamp <= changes'
  BY <1>5, <1>6, HistoryAssumption DEF IInv, Types
<1> QED BY <1>4, <1>5, <1>8, <1>9, <1>10, <1>11, QuietStep

\* A login reads the account and judges the password by what it read.
LEMMA LoginStep ==
    ASSUME IInv, NEW r \in Requests, LoadLogin(r)
    PROVE  IInv'
<1> DEFINE o == req[r]
<1>1. o # Idle /\ o \in Request /\ o.pc = "user" /\ o.op = "login"
  BY Busy DEF IInv, LoadLogin, At
<1>2. user \in User /\ user.failed < FailCap /\ user.failed \in 0 .. FailCap
      /\ MaxFailed \in Nat \ {0} /\ FailCap \in Nat
  BY MaxFailedAssumption DEF LoadLogin, IInv, Types, User
<1>3. PICK reason \in Reasons, mine \in User, issue \in BOOLEAN :
        /\ req' = [req EXCEPT ![r] = [o EXCEPT !.pc = "commit", !.reason = reason,
                                      !.sets = Changes(mine), !.issue = issue]]
        /\ UNCHANGED <<user, history, changes, tokens, wrong, spent, overlapped>>
        /\ mine.hash.of = user.hash.of /\ mine.active = user.active
        /\ reason = "ok" \/ mine.hash = user.hash
        /\ \/ reason = "locked" /\ mine = user
           \/ /\ reason \in Failures /\ mine.failed = user.failed + 1
              /\ user.locked # "running"
              /\ mine.locked = IF mine.failed >= MaxFailed THEN "running" ELSE user.locked
           \/ reason = "ok" /\ mine.failed = 0 /\ mine.locked = "none"
  <2>1. req \in [Requests -> Request \cup {Idle}]
    BY DEF IInv, Types
  <2>2. CASE user.locked = "running" /\
             req' = [req EXCEPT ![r].pc = "commit", ![r].reason = "locked",
                                ![r].sets = Changes(user), ![r].issue = FALSE]
    <3>1. req' = [req EXCEPT ![r] = [o EXCEPT !.pc = "commit", !.reason = "locked",
                                      !.sets = Changes(user), !.issue = FALSE]]
      BY <2>1, <2>2, <1>1 DEF Request
    <3> QED BY <3>1, <1>2 DEF LoadLogin, Reasons
  <2>3. CASE /\ user.locked # "running"
             /\ \E why \in Failures :
                  req' = [req EXCEPT ![r].pc = "commit", ![r].reason = why,
                                ![r].sets = Changes(WithFailure(user)), ![r].issue = FALSE]
    <3>1. PICK why \in Failures :
            req' = [req EXCEPT ![r].pc = "commit", ![r].reason = why,
                               ![r].sets = Changes(WithFailure(user)), ![r].issue = FALSE]
      BY <2>3
    <3>2. PICK mine : mine = WithFailure(user)
      OBVIOUS
    <3>3. mine = [user EXCEPT !.failed = user.failed + 1,
                     !.locked = IF user.failed + 1 >= MaxFailed THEN "running" ELSE user.locked]
      BY <3>2 DEF WithFailure
    <3>7. user.failed + 1 \in 0 .. FailCap
      BY <1>2
    <3>8. (IF user.failed + 1 >= MaxFailed THEN "running" ELSE user.locked)
            \in {"none", "running", "expired"}
      BY <1>2 DEF User
    <3>9. mine \in User
      BY <3>3, <3>7, <3>8, <1>2 DEF User
    <3>10. /\ mine.failed = user.failed + 1 /\ mine.hash = user.hash
           /\ mine.active = user.active
           /\ mine.locked = IF user.failed + 1 >= MaxFailed THEN "running" ELSE user.locked
      BY <3>3, <1>2 DEF User
    <3>4. mine \in User /\ mine.failed = user.failed + 1 /\ mine.hash = user.hash
          /\ mine.active = user.active
          /\ mine.locked = IF mine.failed >= MaxFailed THEN "running" ELSE user.locked
      BY <3>9, <3>10
    <3>5. req' = [req EXCEPT ![r] = [o EXCEPT !.pc = "commit", !.reason = why,
                                      !.sets = Changes(mine), !.issue = FALSE]]
      BY <2>1, <3>1, <3>2, <1>1 DEF Request
    <3>6. why \in Reasons
      BY DEF Failures, Reasons
    <3> QED BY <3>4, <3>5, <3>6, <2>3 DEF LoadLogin
  <2>4. CASE req' = [req EXCEPT ![r].pc = "commit", ![r].reason = "ok",
                        ![r].sets = Changes([user EXCEPT !.failed = 0, !.locked = "none",
                                                     !.hash.old = FALSE]),
                        ![r].issue = TRUE]
    <3>2. PICK mine : mine = [user EXCEPT !.failed = 0, !.locked = "none", !.hash.old = FALSE]
      OBVIOUS
    <3>9. /\ user.hash \in Hash /\ [user.hash EXCEPT !.old = FALSE] \in Hash
          /\ [user.hash EXCEPT !.old = FALSE].of = user.hash.of
      BY <1>2 DEF User, Hash
    <3>7. 0 \in 0 .. FailCap
      BY <1>2
    <3>8. mine \in User
      BY <3>2, <3>7, <3>9, <1>2 DEF User
    <3>4. mine \in User /\ mine.failed = 0 /\ mine.hash.of = user.hash.of
          /\ mine.active = user.active /\ mine.locked = "none"
      BY <3>2, <3>8, <3>9, <1>2 DEF User
    <3>5. req' = [req EXCEPT ![r] = [o EXCEPT !.pc = "commit", !.reason = "ok",
                                      !.sets = Changes(mine), !.issue = TRUE]]
      <4>1. PICK ch : ch = Changes(mine)
        OBVIOUS
      <4>2. req' = [req EXCEPT ![r].pc = "commit", ![r].reason = "ok", ![r].sets = ch,
                               ![r].issue = TRUE]
        BY <2>4, <3>2, <4>1
      <4>3. req' = [req EXCEPT ![r] = [o EXCEPT !.pc = "commit", !.reason = "ok",
                                      !.sets = ch, !.issue = TRUE]]
        BY <4>2, <2>1, <1>1 DEF Request
      <4> QED BY <4>1, <4>3
    <3> QED BY <3>4, <3>5 DEF LoadLogin, Reasons
  <2> QED BY <2>2, <2>3, <2>4 DEF LoadLogin, Failures
<1>4. PICK q : q = [o EXCEPT !.pc = "commit", !.reason = reason,
                             !.sets = Changes(mine), !.issue = issue]
  OBVIOUS
<1>5. /\ Changes(mine) \in Sets
      /\ \A c \in Columns : c \in DOMAIN Changes(mine) <=> mine[c] # user[c]
      /\ \A c \in DOMAIN Changes(mine) : c \in Columns /\ Changes(mine)[c] = mine[c]
  BY <1>2, ChangesFit
<1>6. q \in Request
  BY <1>1, <1>4, <1>5 DEF Request
<1>7. q.op = "login" /\ q.pc = "commit" /\ q.token = o.token /\ q.revoke = o.revoke
      /\ q.sets = Changes(mine) /\ q.reason = reason /\ q.stamp = o.stamp
  BY <1>1, <1>4 DEF Request
<1>8. Good(o)
  BY <1>1 DEF IInv
<1> HIDE DEF o
<1>9. /\ "failed" \in DOMAIN q.sets <=> mine.failed # user.failed
      /\ "locked" \in DOMAIN q.sets <=> mine.locked # user.locked
      /\ "hash" \in DOMAIN q.sets => q.sets["hash"] = mine.hash
      /\ "active" \notin DOMAIN q.sets
      /\ "failed" \in DOMAIN q.sets => q.sets["failed"] = mine.failed
      /\ "locked" \in DOMAIN q.sets => q.sets["locked"] = mine.locked
  BY <1>3, <1>5, <1>7 DEF Columns
<1>10. /\ mine.failed \in 0 .. FailCap /\ mine.locked \in {"none", "running", "expired"}
       /\ mine.hash \in Hash
  BY DEF User
<1>11. Fits(q)
  <2>1. CASE reason = "locked" /\ mine = user
    BY <2>1, <1>7, <1>9, <1>10 DEF Fits, Failures
  <2>2. CASE reason \in Failures
    BY <2>2, <1>2, <1>3, <1>7, <1>9, <1>10 DEF Fits, Failures
  <2>3. CASE reason = "ok"
    BY <2>3, <1>3, <1>7, <1>9, <1>10 DEF Fits, Failures
  <2> QED BY <2>1, <2>2, <2>3, <1>3
<1>12. Shape(q)
  BY <1>11, <1>7 DEF Shape
<1>13. Known(q)
  <2>1. \E h \in history : h.of = user.hash.of
    BY DEF IInv, AccountIsSound, PasswordRecorded
  <2> QED BY <2>1, <1>3, <1>7, <1>8, <1>9 DEF Good, Known
<1>14. Fresh(q)
  <2>1. reason \in Failures => q.sets["failed"] = user.failed + 1
    BY <1>2, <1>3, <1>9 DEF Failures
  <2>2. reason = "ok" => "failed" \in DOMAIN q.sets \/ user.failed = 0
    BY <1>3, <1>9 DEF Failures
  <2>3. "hash" \in DOMAIN q.sets => q.sets["hash"].of = user.hash.of
    BY <1>3, <1>9
  <2> QED BY <2>1, <2>2, <2>3, <1>7 DEF Fresh, Exchanging
<1>15. req' = [req EXCEPT ![r] = q] /\ req[r] # Idle /\ q.token = req[r].token
       /\ q.op = req[r].op /\ q.stamp = req[r].stamp /\ ~ Exchanging(q)
  BY <1>1, <1>3, <1>4, <1>7 DEF o, Exchanging
<1>16. changes' \in changes .. MaxChanges
  BY <1>3, HistoryAssumption DEF IInv, Types
<1> QED BY <1>3, <1>6, <1>12, <1>13, <1>14, <1>15, <1>16, GoesOn DEF Good

\* refresh and logout look their token up; refresh then loads the account.
LEMMA TokenStep ==
    ASSUME IInv, NEW r \in Requests, LoadToken(r) \/ LoadRefreshUser(r)
    PROVE  IInv'
<1> DEFINE o == req[r]
<1>1. o # Idle /\ o \in Request /\ o.pc \in {"token", "user"} /\ o.op \in {"refresh", "logout"}
  BY Busy DEF IInv, LoadToken, LoadRefreshUser, At
<1>2. CASE Reject(r)
  BY <1>2, RejectStep
<1>3. CASE ~ Reject(r)
  <2>0. Good(o)
    BY <1>1 DEF IInv
  <2>1. o.token \in Tokens /\ tokens[o.token] # "unused"
    BY <2>0, <1>1 DEF Good, Shape, Known
  <2>2. PICK pc \in {"user", "commit"}, gone \in SUBSET {o.token}, issue \in BOOLEAN :
          /\ req' = [req EXCEPT ![r] = [o EXCEPT !.pc = pc, !.revoke = gone, !.issue = issue]]
          /\ UNCHANGED <<user, history, changes, tokens, wrong, spent, overlapped>>
          /\ o.op = "logout" => pc = "commit"
          /\ o.op = "refresh" => gone = {o.token}
          /\ o.op = "refresh" => Exchanging(o) \/ tokens[o.token] = "active"
    <3>0. req \in [Requests -> Request \cup {Idle}]
      BY DEF IInv, Types
    <3>1. CASE LoadToken(r) /\ At(r, "refresh", "token")
      <4>1. req' = [req EXCEPT ![r] = [o EXCEPT !.pc = "user", !.revoke = {o.token}, !.issue = o.issue]]
        BY <3>0, <3>1, <1>1, <1>3 DEF LoadToken, At, Request
      <4>2. o.issue \in BOOLEAN
        BY <1>1 DEF Request
      <4> QED BY <4>1, <4>2, <3>1, <1>3 DEF LoadToken, At
    <3>2. CASE LoadToken(r) /\ At(r, "logout", "token")
      <4>1. req' = [req EXCEPT ![r] = [o EXCEPT !.pc = "commit", !.issue = o.issue,
                            !.revoke = {t \in {o.token} : tokens[t] = "active"}]]
        BY <3>0, <3>2, <1>1, <1>3 DEF LoadToken, At, Request
      <4>2. o.issue \in BOOLEAN /\ {t \in {o.token} : tokens[t] = "active"} \in SUBSET {o.token}
        BY <1>1 DEF Request
      <4>3. o.op = "logout" /\ UNCHANGED <<user, history, changes, tokens, wrong, spent, overlapped>>
        BY <3>2, <1>3 DEF LoadToken, At
      <4> QED BY <4>1, <4>2, <4>3
    <3>3. CASE LoadRefreshUser(r)
      <4>0. o.pc = "user" /\ o.op = "refresh"
        BY <3>3 DEF LoadRefreshUser, At
      <4>1. o.revoke = {o.token}
        BY <4>0, <2>0 DEF Good, Shape
      <4>2. req' = [req EXCEPT ![r] = [o EXCEPT !.pc = "commit", !.issue = TRUE]]
        BY <3>0, <3>3, <1>1, <1>3 DEF LoadRefreshUser
      <4>3. [o EXCEPT !.pc = "commit", !.issue = TRUE]
              = [o EXCEPT !.pc = "commit", !.revoke = o.revoke, !.issue = TRUE]
        BY <1>1 DEF Request
      <4>4. o.revoke \in SUBSET {o.token}
        BY <4>1
      <4> QED BY <4>0, <4>1, <4>3, <4>4, <4>2, <3>3, <1>3 DEF LoadRefreshUser, Exchanging
    <3> QED BY <3>1, <3>2, <3>3 DEF LoadToken
  <2>3. PICK q : q = [o EXCEPT !.pc = pc, !.revoke = gone, !.issue = issue]
    OBVIOUS
  <2>4. gone \in SUBSET Tokens
    BY <2>1
  <2>5. q \in Request
    BY <2>3, <2>4, <1>1 DEF Request
  <2>6. q.op = o.op /\ q.pc = pc /\ q.token = o.token /\ q.revoke = gone /\ q.sets = o.sets
        /\ q.reason = o.reason /\ q.new = o.new /\ q.stamp = o.stamp
    BY <2>3, <1>1 DEF Request
  <2>7. req' = [req EXCEPT ![r] = q]
    BY <2>2, <2>3
  <2>8. ~ overlapped /\ Exchanging(o) => tokens[o.token] = "active"
    BY <2>0 DEF Good, Fresh
  <2> HIDE DEF o
  <2>9. Shape(q)
    <3>1. Fits(q)
      BY <2>0, <2>6 DEF Good, Shape, Fits
    <3> QED BY <3>1, <2>0, <2>1, <2>2, <2>6, <1>1 DEF Good, Shape
  <2>10. Known(q)
    BY <2>1, <2>6, <1>1 DEF Known
  <2>11. ~ overlapped => Fresh(q)
    <3> SUFFICES ASSUME ~ overlapped PROVE Fresh(q)
      OBVIOUS
    <3>1. q.reason = NoArg /\ NoArg \notin Failures \cup {"ok"}
      BY <2>0, <2>6, <1>1, NoArgAssumption DEF Good, Shape, Failures, Reasons
    <3>2. Exchanging(q) => tokens[q.token] = "active"
      BY <2>2, <2>6, <2>8 DEF Exchanging
    <3> QED BY <3>1, <3>2, <2>6, <1>1 DEF Fresh
  <2>12. Exchanging(q) => Exchanging(o) \/ tokens[q.token] = "active"
    BY <2>2, <2>6 DEF Exchanging
  <2>13. changes' \in changes .. MaxChanges
    BY <2>2, HistoryAssumption DEF IInv, Types
  <2> QED BY <2>2, <2>5, <2>6, <2>7, <2>9, <2>10, <2>11, <2>12, <2>13, <1>1, GoesOn DEF Good, o
<1> QED BY <1>2, <1>3

\* set_active works on the row it has loaded.
LEMMA RowStep ==
    ASSUME IInv, NEW r \in Requests, LoadSetActive(r)
    PROVE  IInv'
<1> DEFINE o == req[r]
<1>1. o # Idle /\ o \in Request /\ o.pc = "user" /\ o.op \in {"activate", "deactivate"}
  BY Busy DEF IInv, LoadSetActive, At
<1>2. Good(o) /\ user \in User
  BY <1>1 DEF IInv, Types
<1>3. PICK mine : mine = [user EXCEPT !.active = o.op = "activate"]
  OBVIOUS
<1>4. mine \in User /\ mine.hash = user.hash /\ mine.failed = user.failed
      /\ mine.locked = user.locked
  BY <1>2, <1>3 DEF User
<1>5. PICK q : q = [o EXCEPT !.pc = "commit", !.sets = Changes(mine)]
  OBVIOUS
<1>6. /\ Changes(mine) \in Sets
      /\ \A c \in Columns : c \in DOMAIN Changes(mine) <=> mine[c] # user[c]
      /\ \A c \in DOMAIN Changes(mine) : c \in Columns /\ Changes(mine)[c] = mine[c]
  BY <1>2, <1>4, ChangesFit
<1>7. q \in Request
  BY <1>5, <1>6, <1>1 DEF Request
<1>8. q.op = o.op /\ q.pc = "commit" /\ q.token = o.token /\ q.revoke = o.revoke
      /\ q.sets = Changes(mine) /\ q.reason = o.reason /\ q.new = o.new /\ q.issue = o.issue
      /\ q.stamp = o.stamp
  BY <1>5, <1>1 DEF Request
<1>9. req' = [req EXCEPT ![r] = q]
      /\ UNCHANGED <<user, history, changes, tokens, wrong, spent, overlapped>>
  BY <1>1, <1>3, <1>5 DEF LoadSetActive, IInv, Types, Request
<1> HIDE DEF o
<1>10. /\ "failed" \notin DOMAIN q.sets /\ "locked" \notin DOMAIN q.sets
       /\ "hash" \notin DOMAIN q.sets
       /\ "active" \in DOMAIN q.sets => q.sets["active"] \in BOOLEAN
  BY <1>4, <1>6, <1>8 DEF Columns, User
<1>11. q.reason = NoArg /\ NoArg \notin Failures \cup {"ok"}
  BY <1>2, <1>8, <1>1, NoArgAssumption DEF Good, Shape, Failures, Reasons
<1>12. Shape(q)
  <2>1. Fits(q)
    BY <1>8, <1>10, <1>11 DEF Fits
  <2> QED BY <2>1, <1>2, <1>8, <1>1 DEF Good, Shape
<1>13. Known(q)
  BY <1>2, <1>8, <1>1 DEF Good, Known
<1>14. Fresh(q) /\ ~ Exchanging(q)
  BY <1>8, <1>11, <1>1 DEF Fresh, Exchanging
<1>15. changes' \in changes .. MaxChanges
  BY <1>9, HistoryAssumption DEF IInv, Types
<1> QED BY <1>7, <1>8, <1>9, <1>12, <1>13, <1>14, <1>15, <1>1, GoesOn DEF Good, o

\* change_password has found the current password right.
LEMMA ChangeStep ==
    ASSUME IInv, NEW r \in Requests, LoadChange(r)
    PROVE  IInv'
<1> DEFINE o == req[r]
<1>1. o # Idle /\ o \in Request /\ o.pc = "user" /\ o.op = "change_password"
  BY Busy DEF IInv, LoadChange, At
<1>2. CASE Reject(r)
  BY <1>2, RejectStep
<1>3. CASE ~ Reject(r)
  <2>1. Good(o)
    BY <1>1 DEF IInv
  <2>2. PICK q : q = [o EXCEPT !.pc = "history"]
    OBVIOUS
  <2>3. q \in Request
    BY <2>2, <1>1 DEF Request
  <2>4. q.op = o.op /\ q.pc = "history" /\ q.token = o.token /\ q.revoke = o.revoke
        /\ q.sets = o.sets /\ q.reason = o.reason /\ q.new = o.new /\ q.issue = o.issue
        /\ q.stamp = o.stamp
    BY <2>2, <1>1 DEF Request
  <2>5. req' = [req EXCEPT ![r] = q]
        /\ UNCHANGED <<user, history, changes, tokens, wrong, spent, overlapped>>
    BY <1>1, <1>3, <2>2 DEF LoadChange, IInv, Types, Request
  <2> HIDE DEF o
  <2>6. q.reason = NoArg /\ NoArg \notin Failures \cup {"ok"}
    BY <2>1, <2>4, <1>1, NoArgAssumption DEF Good, Shape, Failures, Reasons
  <2>7. Shape(q)
    <3>1. Fits(q)
      BY <2>1, <2>4 DEF Good, Shape, Fits
    <3> QED BY <3>1, <2>1, <2>4, <1>1 DEF Good, Shape
  <2>8. Known(q)
    BY <2>1, <2>4, <1>1 DEF Good, Known
  <2>9. Fresh(q) /\ ~ Exchanging(q)
    BY <2>4, <2>6, <1>1 DEF Fresh, Exchanging
  <2>10. changes' \in changes .. MaxChanges
    BY <2>5, HistoryAssumption DEF IInv, Types
  <2> QED BY <2>3, <2>4, <2>5, <2>7, <2>8, <2>9, <2>10, <1>1, GoesOn DEF Good, o
<1> QED BY <1>2, <1>3

\* It goes on if the new password is not remembered, with a stamp later than any.
LEMMA HistoryStep ==
    ASSUME IInv, NEW r \in Requests, LoadHistory(r)
    PROVE  IInv'
<1> DEFINE o == req[r]
<1>1. o # Idle /\ o \in Request /\ o.pc = "history" /\ o.op = "change_password"
  BY Busy DEF IInv, LoadHistory, At
<1>2. CASE Reject(r)
  BY <1>2, RejectStep
<1>3. CASE ~ Reject(r)
  <2> DEFINE new == [c \in {"hash"} |-> [of |-> o.new, old |-> FALSE]]
  <2>1. Good(o) /\ o.new \in Passwords
    BY <1>1 DEF IInv, Good, Shape
  <2>2. PICK q : q = [o EXCEPT !.pc = "active", !.stamp = changes + 1, !.sets = new]
    OBVIOUS
  <2>3. /\ changes \in 0 .. MaxChanges /\ changes < MaxChanges /\ MaxChanges \in Nat
        /\ changes' = changes + 1
    BY <1>3, HistoryAssumption DEF LoadHistory, IInv, Types
  <2>4. changes + 1 \in 0 .. MaxChanges /\ changes' \in changes .. MaxChanges
        /\ changes + 1 <= changes'
    BY <2>3
  <2>5. new \in Sets
    <3>1. [of |-> o.new, old |-> FALSE] \in Values
      BY <2>1 DEF Values, Hash
    <3>2. new \in [{"hash"} -> Values] /\ {"hash"} \in SUBSET Columns
      BY <3>1 DEF Columns
    <3> QED BY <3>2 DEF Sets
  <2>6. q \in Request
    BY <2>2, <2>4, <2>5, <1>1 DEF Request
  <2>7. q.op = o.op /\ q.pc = "active" /\ q.token = o.token /\ q.revoke = o.revoke
        /\ q.sets = new /\ q.reason = o.reason /\ q.new = o.new /\ q.issue = o.issue
        /\ q.stamp = changes + 1
    BY <2>2, <1>1 DEF Request
  <2>8. req' = [req EXCEPT ![r] = q]
        /\ UNCHANGED <<user, history, tokens, wrong, spent, overlapped>>
    BY <1>1, <1>3, <2>2 DEF LoadHistory, IInv, Types, Request
  <2>9. /\ DOMAIN q.sets = {"hash"} /\ q.sets["hash"] \in Hash /\ q.sets["hash"].of = q.new
    BY <2>1, <2>7 DEF Hash
  <2>10. \A h \in history : h.at <= changes + 1
    <3>1. \A h \in history : h.at <= changes /\ h.at \in Nat
      BY HistoryAssumption DEF IInv, Types, Row
    <3> QED BY <3>1, <2>3
  <2> HIDE DEF o
  <2>11. q.reason = NoArg /\ NoArg \notin Failures \cup {"ok"}
    BY <2>1, <2>7, <1>1, NoArgAssumption DEF Good, Shape, Failures, Reasons
  <2>12. Shape(q)
    <3>1. Fits(q)
      BY <2>7, <2>9, <2>11, <1>1 DEF Fits
    <3> QED BY <3>1, <2>1, <2>7, <2>9, <1>1 DEF Good, Shape
  <2>13. Known(q)
    BY <2>1, <2>7, <1>1 DEF Good, Known
  <2>14. Fresh(q) /\ ~ Exchanging(q)
    BY <2>7, <2>10, <2>11, <1>1 DEF Fresh, Exchanging
  <2> QED BY <2>4, <2>6, <2>7, <2>8, <2>12, <2>13, <2>14, <1>1, GoesOn DEF Good, o
<1> QED BY <1>2, <1>3

\* change_password selects the tokens it will revoke.
LEMMA SelectStep ==
    ASSUME IInv, NEW r \in Requests, SelectActive(r)
    PROVE  IInv'
<1> DEFINE o == req[r]
           active == {t \in Tokens : tokens[t] = "active"}
<1>1. o # Idle /\ o \in Request /\ o.pc = "active" /\ o.op = "change_password"
  BY Busy DEF IInv, SelectActive, At
<1>2. PICK q : q = [o EXCEPT !.pc = "commit", !.revoke = active]
  OBVIOUS
<1>3. q \in Request
  BY <1>1, <1>2 DEF Request
<1>4. q.op = o.op /\ q.pc = "commit" /\ q.token = o.token /\ q.revoke = active
      /\ q.sets = o.sets /\ q.reason = o.reason /\ q.new = o.new /\ q.issue = o.issue
      /\ q.stamp = o.stamp
  BY <1>1, <1>2 DEF Request
<1>5. req' = [req EXCEPT ![r] = q]
      /\ UNCHANGED <<user, history, changes, tokens, wrong, spent, overlapped>>
  BY <1>1, <1>2 DEF SelectActive, IInv, Types, Request
<1>6. Good(o)
  BY <1>1 DEF IInv
<1> HIDE DEF o
<1>7. Shape(q)
  <2>1. Fits(q)
    BY <1>4, <1>6 DEF Good, Shape, Fits
  <2> QED BY <2>1, <1>1, <1>4, <1>6 DEF Good, Shape
<1>8. Known(q)
  BY <1>1, <1>4, <1>6 DEF Good, Known
<1>9. (~ overlapped => Fresh(q)) /\ ~ Exchanging(q)
  <2>1. q.reason = NoArg /\ NoArg \notin Failures \cup {"ok"}
    BY <1>1, <1>4, <1>6, NoArgAssumption DEF Good, Shape, Failures, Reasons
  <2>2. ~ overlapped => \A h \in history : h.at <= q.stamp
    BY <1>1, <1>4, <1>6 DEF Good, Fresh
  <2> QED BY <2>1, <2>2, <1>1, <1>4 DEF Fresh, Exchanging
<1>10. changes' \in changes .. MaxChanges
  BY <1>5, HistoryAssumption DEF IInv, Types
<1> QED BY <1>1, <1>3, <1>4, <1>5, <1>7, <1>8, <1>9, <1>10, GoesOn DEF Good, o

\* What a commit makes of the tokens.
LEMMA CommittedTokens ==
    ASSUME IInv, NEW r \in Requests, Commit(r)
    PROVE  /\ tokens' \in [Tokens -> TokenState]
           /\ \A t \in req[r].revoke : tokens'[t] = "revoked"
           /\ \A t \in Tokens : tokens[t] # "unused" => tokens'[t] # "unused"
           /\ \A t \in Tokens : tokens[t] = "revoked" => tokens'[t] = "revoked"
           /\ ~ req[r].issue => \A t \in Tokens : tokens'[t] = "active" => tokens[t] = "active"
<1> DEFINE q == req[r]
           revoked == [t \in Tokens |-> IF t \in q.revoke THEN "revoked" ELSE tokens[t]]
<1>1. q # Idle /\ q \in Request /\ q.revoke \subseteq Tokens
  BY Busy DEF Commit, IInv, Request
<1>2. \A t \in q.revoke : tokens[t] # "unused"
  BY <1>1 DEF IInv, Good, Known
<1>3. tokens \in [Tokens -> TokenState]
  BY DEF IInv, Types
<1>4. tokens' = revoked \/
        (q.issue /\ \E u \in Tokens : tokens[u] = "unused" /\ tokens' = [revoked EXCEPT ![u] = "active"])
  BY DEF Commit, TokensAfter
<1>5. CASE tokens' = revoked
  BY <1>5, <1>1, <1>2, <1>3 DEF TokenState
<1>6. CASE q.issue /\ \E u \in Tokens : tokens[u] = "unused" /\ tokens' = [revoked EXCEPT ![u] = "active"]
  <2>1. PICK u \in Tokens : tokens[u] = "unused" /\ tokens' = [revoked EXCEPT ![u] = "active"]
    BY <1>6
  <2>2. u \notin q.revoke
    BY <2>1, <1>2
  <2> QED BY <2>1, <2>2, <1>1, <1>2, <1>3, <1>6 DEF TokenState
<1> QED BY <1>4, <1>5, <1>6

\* A commit writes the columns that its request changed, and its tokens.
LEMMA CommitStep ==
    ASSUME IInv, NEW r \in Requests, Commit(r)
    PROVE  IInv'
<1> DEFINE q == req[r]
<1>1. q # Idle /\ q \in Request /\ q.pc = "commit" /\ Good(q)
  BY Busy DEF Commit, IInv
<1>2. user' = Written(q) /\ req' = [req EXCEPT ![r] = Idle] /\ UNCHANGED <<changes, overlapped>>
      /\ history' = history \cup (IF q.op = "change_password"
                                 THEN {[of |-> q.new, at |-> q.stamp]} ELSE {})
      /\ spent' = (IF q.op = "refresh" THEN [spent EXCEPT ![q.token] = @ + 1] ELSE spent)
  BY DEF Commit, Done
<1>3. wrong' = (IF q.reason = "ok" THEN 0
                ELSE IF q.reason \in Failures /\ wrong < MaxFailed THEN wrong + 1 ELSE wrong)
  <2>1. wrong' = CASE q.reason = "ok" -> 0
                   [] q.reason \in Failures -> IF wrong < MaxFailed THEN wrong + 1 ELSE wrong
                   [] OTHER -> wrong
    BY DEF Commit, Failures
  <2> QED BY <2>1 DEF Failures
<1>4. /\ Written(q) \in User
      /\ \A c \in Columns : Written(q)[c] = IF c \in DOMAIN q.sets THEN q.sets[c] ELSE user[c]
  BY <1>1, WrittenRow DEF Good, IInv, Types
<1>5. /\ tokens' \in [Tokens -> TokenState]
      /\ \A t \in q.revoke : tokens'[t] = "revoked"
      /\ \A t \in Tokens : tokens[t] # "unused" => tokens'[t] # "unused"
      /\ \A t \in Tokens : tokens[t] = "revoked" => tokens'[t] = "revoked"
  BY CommittedTokens
<1>6. q.op = "refresh" => q.token \in Tokens /\ q.revoke = {q.token} /\ Exchanging(q)
  BY <1>1 DEF Good, Shape, Exchanging
<1>7. q.op = "change_password" => q.new \in Passwords /\ "hash" \in DOMAIN q.sets
  BY <1>1 DEF Good, Shape
<1> HIDE DEF q
<1>8. req'[r] = Idle /\ (\A s \in Requests : s # r => req'[s] = req[s])
  BY <1>2 DEF IInv, Types
<1>9. \A t \in Tokens : spent'[t] = IF q.op = "refresh" /\ t = q.token THEN spent[t] + 1 ELSE spent[t]
  BY <1>2, <1>6 DEF IInv, Types
<1>10. Types'
  <2>1. wrong' \in 0 .. MaxFailed
    BY <1>3, MaxFailedAssumption DEF IInv, Types
  <2>4. q.stamp \in 0 .. MaxChanges /\ q.stamp <= changes
    BY <1>1 DEF IInv, Stamped, Request, q
  <2>5. history' \subseteq Row /\ (\A h \in history' : h.at <= changes')
    BY <1>2, <1>7, <2>4 DEF IInv, Types, Row
  <2>2. req' \in [Requests -> Request \cup {Idle}]
    BY <1>2 DEF IInv, Types
  <2>3. spent' \in [Tokens -> Nat]
    BY <1>2, <1>6 DEF IInv, Types
  <2> QED BY <2>1, <2>2, <2>3, <2>5, <1>2, <1>4, <1>5 DEF IInv, Types
<1>11. Quota'
  <2> SUFFICES ASSUME NEW t \in Tokens
               PROVE  spent'[t] + Cardinality(Pending(t)') <= Cardinality(Requests)
    BY DEF Quota
  <2>1. spent[t] + Cardinality(Pending(t)) <= Cardinality(Requests)
    BY DEF IInv, Quota
  <2>2. CASE ~ (q.op = "refresh" /\ t = q.token)
    <3>1. ASSUME NEW s \in Pending(t)' PROVE s \in Pending(t)
      BY <3>1, <1>8 DEF Pending
    <3> QED BY <3>1, <2>1, <2>2, <1>9, <1>10, QuotaKept DEF IInv
  <2>3. CASE q.op = "refresh" /\ t = q.token
    <3>1. r \in Pending(t)
      BY <2>3, <1>1, <1>6 DEF Pending, q
    <3>2. ASSUME NEW s \in Pending(t)' PROVE s \in Pending(t) \ {r}
      BY <3>2, <1>8 DEF Pending
    <3>3. IsFiniteSet(Pending(t)) /\ Cardinality(Pending(t)) \in Nat /\ Cardinality(Requests) \in Nat
      BY PendingFinite
    <3>4. IsFiniteSet(Pending(t) \ {r}) /\ Cardinality(Pending(t) \ {r}) = Cardinality(Pending(t)) - 1
      BY <3>1, <3>3, FS_RemoveElement
    <3>5. Pending(t)' \in SUBSET (Pending(t) \ {r})
      BY <3>2
    <3>6. IsFiniteSet(Pending(t)') /\ Cardinality(Pending(t)') <= Cardinality(Pending(t) \ {r})
      BY <3>4, <3>5, FS_Subset
    <3>7. Cardinality(Pending(t)') \in Nat
      BY <3>6, FS_CardinalityType
    <3>8. spent'[t] = spent[t] + 1 /\ spent[t] \in Nat
      BY <2>3, <1>9 DEF IInv, Types
    <3> QED BY <2>1, <3>3, <3>4, <3>6, <3>7, <3>8
  <2> QED BY <2>2, <2>3
<1>12. AccountIsSound'
  <2>1. UsedTokenIsDead'
    <3> SUFFICES ASSUME NEW t \in Tokens, spent'[t] > 0 PROVE tokens'[t] = "revoked"
      BY DEF UsedTokenIsDead
    <3>1. CASE q.op = "refresh" /\ t = q.token
      BY <3>1, <1>5, <1>6
    <3>2. CASE ~ (q.op = "refresh" /\ t = q.token)
      BY <3>2, <1>5, <1>9 DEF IInv, AccountIsSound, UsedTokenIsDead
    <3> QED BY <3>1, <3>2
  <2>2. PasswordRecorded'
    <3>1. user'.hash = IF "hash" \in DOMAIN q.sets THEN q.sets["hash"] ELSE user.hash
      BY <1>2, <1>4 DEF Columns
    <3>2. \E h \in history : h.of = user.hash.of
      BY DEF IInv, AccountIsSound, PasswordRecorded
    <3>3. CASE "hash" \notin DOMAIN q.sets
      BY <3>1, <3>2, <3>3, <1>2 DEF PasswordRecorded
    <3>4. CASE "hash" \in DOMAIN q.sets /\ q.op = "login"
      <4>1. \E h \in history : h.of = q.sets["hash"].of
        BY <3>4, <1>1 DEF Good, Known
      <4> QED BY <3>1, <3>4, <4>1, <1>2 DEF PasswordRecorded
    <3>5. CASE q.op = "change_password" /\ q.sets["hash"].of = q.new /\ "hash" \in DOMAIN q.sets
      <4>1. [of |-> q.new, at |-> q.stamp] \in history'
        BY <3>5, <1>2
      <4>2. [of |-> q.new, at |-> q.stamp].of = user'.hash.of
        BY <3>1, <3>5
      <4> QED BY <4>1, <4>2 DEF PasswordRecorded
    <3> QED BY <3>3, <3>4, <3>5, <1>1 DEF Good, Shape, Fits
  <2> QED BY <2>1, <2>2 DEF AccountIsSound
<1>13. Serial'
  <2> SUFFICES ASSUME ~ overlapped PROVE Serial'
    BY <1>2 DEF Serial
  <2>0. Fresh(q) /\ Fits(q)
    BY <1>1 DEF Good, Shape
  <2>1. \A s \in Requests : req'[s] = Idle
    BY <1>1, <1>8 DEF IInv, Serial, q
  <2>2. /\ wrong = IF user.failed < MaxFailed THEN user.failed ELSE MaxFailed
        /\ wrong >= MaxFailed => user.locked # "none"
        /\ \A t \in Tokens : spent[t] <= 1
    BY DEF IInv, Serial
  <2>7. user.failed \in Nat /\ MaxFailed \in Nat \ {0} /\ user'.failed \in Nat
    BY <1>2, <1>4, MaxFailedAssumption DEF IInv, Types, User
  <2>3. /\ user'.failed = IF "failed" \in DOMAIN q.sets THEN q.sets["failed"] ELSE user.failed
        /\ user'.locked = IF "locked" \in DOMAIN q.sets THEN q.sets["locked"] ELSE user.locked
    BY <1>2, <1>4 DEF Columns
  <2>4. /\ wrong' = IF user'.failed < MaxFailed THEN user'.failed ELSE MaxFailed
        /\ wrong' >= MaxFailed => user'.locked # "none"
    <3>1. CASE q.reason = "ok"
      <4>1. user'.failed = 0 /\ wrong' = 0
        BY <3>1, <2>0, <2>3, <1>3 DEF Fresh, Fits
      <4> QED BY <4>1, <2>7
    <3>2. CASE q.reason \in Failures
      <4>1. user'.failed = user.failed + 1
            /\ wrong' = (IF wrong < MaxFailed THEN wrong + 1 ELSE wrong)
            /\ (user'.failed >= MaxFailed => user'.locked = "running")
        BY <3>2, <2>0, <2>3, <1>3 DEF Fresh, Fits, Failures
      <4> QED BY <4>1, <2>2, <2>7
    <3>3. CASE q.reason \notin Failures \cup {"ok"}
      <4>1. user'.failed = user.failed /\ wrong' = wrong /\ user'.locked = user.locked
        BY <3>3, <2>0, <2>3, <1>3 DEF Fits
      <4> QED BY <4>1, <2>2
    <3> QED BY <3>1, <3>2, <3>3
  <2>5. ASSUME NEW t \in Tokens PROVE spent'[t] <= 1
    <3>1. CASE q.op = "refresh" /\ t = q.token
      <4>1. tokens[t] = "active"
        BY <3>1, <2>0, <1>6 DEF Fresh
      <4>2. ~ (spent[t] > 0) /\ spent[t] \in Nat
        BY <4>1 DEF IInv, AccountIsSound, UsedTokenIsDead, Types
      <4> QED BY <4>2, <3>1, <1>9
    <3>2. CASE ~ (q.op = "refresh" /\ t = q.token)
      BY <3>2, <2>2, <1>9
    <3> QED BY <3>1, <3>2
  <2>6. \E h \in history' : h.of = user'.hash.of /\ \A g \in history' : g.at <= h.at
    <3>1. user'.hash = IF "hash" \in DOMAIN q.sets THEN q.sets["hash"] ELSE user.hash
      BY <1>2, <1>4 DEF Columns
    <3>2. CASE q.op = "change_password"
      <4>1. "hash" \in DOMAIN q.sets /\ q.sets["hash"].of = q.new
        BY <3>2, <1>7, <2>0 DEF Fits
      <4>2. \A h \in history : h.at <= q.stamp
        BY <3>2, <1>1, <2>0 DEF Fresh
      <4>3. q.stamp \in Nat
        BY <1>1, HistoryAssumption DEF Request
      <4>4. PICK h : h = [of |-> q.new, at |-> q.stamp]
        OBVIOUS
      <4>5. h.of = q.new /\ h.at = q.stamp /\ history' = history \cup {h}
        BY <4>4, <3>2, <1>2
      <4>6. \A g \in history' : g.at <= h.at
        BY <4>2, <4>3, <4>5
      <4> QED BY <4>1, <4>5, <4>6, <3>1
    <3>3. CASE q.op # "change_password"
      <4>1. history' = history
        BY <3>3, <1>2
      <4>2. user'.hash.of = user.hash.of
        BY <3>1, <3>3, <2>0 DEF Fresh, Fits
      <4> QED BY <4>1, <4>2 DEF IInv, Serial
    <3> QED BY <3>2, <3>3
  <2> QED BY <2>1, <2>4, <2>5, <2>6 DEF Serial
<1>14. ASSUME NEW s \in Requests, (req[s] # Idle)' PROVE Good(req[s])'
  <2>1. s # r /\ req[s] # Idle /\ req'[s] = req[s] /\ Good(req[s])
    BY <1>8, <1>14 DEF IInv
  <2>2. overlapped
    BY <2>1, <1>1 DEF IInv, Serial, q
  <2>3. PICK c : c = req[s]
    OBVIOUS
  <2>4. c \in Request
    BY <2>1, <2>3 DEF IInv, Types
  <2>5. Shape(c)'
    BY <2>1, <2>3 DEF Good, Shape, Fits
  <2>6. Known(c)'
    BY <2>1, <2>3, <2>4, <1>2, <1>5 DEF Good, Known, Request
  <2>7. Good(c)'
    BY <2>2, <2>5, <2>6, <1>2 DEF Good
  <2> QED BY <2>1, <2>3, <2>7 DEF Good, Shape, Fits, Known, Fresh
<1>15. Stamped'
  BY <1>2, <1>8 DEF IInv, Stamped
<1> QED BY <1>10, <1>11, <1>12, <1>13, <1>14, <1>15 DEF IInv

\* The lock of the account runs out.
LEMMA ExpiryStep ==
    ASSUME IInv, LockExpires
    PROVE  IInv'
<1>1. user' = [user EXCEPT !.locked = "expired"] /\ user \in User
      /\ UNCHANGED <<history, changes, tokens, req, wrong, spent, overlapped>>
  BY DEF LockExpires, IInv, Types
<1>2. user' \in User /\ user'.failed = user.failed /\ user'.hash = user.hash
      /\ user'.locked = "expired"
  BY <1>1 DEF User
<1>3. Types'
  BY <1>1, <1>2 DEF IInv, Types
<1>4. Quota'
  BY <1>1 DEF IInv, Quota, Pending
<1>5. Serial'
  BY <1>1, <1>2 DEF IInv, Serial
<1>6. AccountIsSound'
  BY <1>1, <1>2 DEF IInv, AccountIsSound, UsedTokenIsDead, PasswordRecorded
<1>7. ASSUME NEW s \in Requests, req[s] # Idle PROVE Good(req[s])'
  <2>1. Good(req[s])
    BY <1>7 DEF IInv
  <2>2. PICK c : c = req[s]
    OBVIOUS
  <2>3. Shape(c)'
    BY <2>1, <2>2 DEF Good, Shape, Fits
  <2>4. Known(c)'
    BY <2>1, <2>2, <1>1 DEF Good, Known
  <2>5. ~ overlapped' => Fresh(c)'
    BY <2>1, <2>2, <1>1, <1>2 DEF Good, Fresh
  <2>6. Good(c)'
    BY <2>3, <2>4, <2>5 DEF Good
  <2> QED BY <2>2, <2>6, <1>1 DEF Good, Shape, Fits, Known, Fresh
<1>8. Stamped'
  BY <1>1 DEF IInv, Stamped
<1> QED BY <1>1, <1>3, <1>4, <1>5, <1>6, <1>7, <1>8 DEF IInv

-------------------------------------------------------------------------------
(* The invariant.                                                          *)

\* It holds at the start.
LEMMA InvInit == Init => IInv
<1> SUFFICES ASSUME Init PROVE IInv
  OBVIOUS
<1>1. PICK p \in Passwords, weak \in BOOLEAN :
        /\ user = [hash |-> [of |-> p, old |-> weak], active |-> TRUE, failed |-> 0,
                   locked |-> "none"]
        /\ history = {[of |-> p, at |-> 0]}
  BY DEF Init
<1>2. /\ 0 \in 0 .. FailCap /\ MaxFailed \in Nat \ {0}
      /\ 0 \in 0 .. MaxChanges /\ 0 \in 0 .. MaxFailed
  BY MaxFailedAssumption, HistoryAssumption
<1>7. user \in User /\ history \subseteq Row /\ (\A h \in history : h.at <= 0)
  BY <1>1, <1>2 DEF User, Hash, Row
<1>3. Types
  BY <1>2, <1>7 DEF Init, Types, TokenState
<1>4. AccountIsSound
  BY <1>1 DEF Init, AccountIsSound, UsedTokenIsDead, PasswordRecorded
<1>5. Serial
  BY <1>1, <1>2 DEF Init, Serial
<1>6. ASSUME NEW t \in Tokens PROVE spent[t] + Cardinality(Pending(t)) <= Cardinality(Requests)
  <2>1. spent[t] = 0
    BY DEF Init
  <2> QED BY <2>1, PendingFinite
<1> QED BY <1>3, <1>4, <1>5, <1>6 DEF IInv, Quota, Stamped, Init

\* Every step keeps the invariant.
LEMMA InvNext == IInv /\ [Next]_vars => IInv'
<1> SUFFICES ASSUME IInv, [Next]_vars PROVE IInv'
  OBVIOUS
<1>1. CASE UNCHANGED vars
  <2>1. Types' /\ Serial' /\ Stamped' /\ AccountIsSound'
    BY <1>1 DEF vars, IInv, Types, Serial, Stamped, AccountIsSound, UsedTokenIsDead, PasswordRecorded
  <2>2. Quota'
    BY <1>1 DEF vars, IInv, Quota, Pending
  <2>3. (\A r \in Requests : req[r] # Idle => Good(req[r]))'
    BY <1>1 DEF vars, IInv, Good, Shape, Fits, Known, Fresh
  <2> QED BY <2>1, <2>2, <2>3 DEF IInv
<1>2. CASE LockExpires
  BY <1>2, ExpiryStep
<1>3. ASSUME NEW r \in Requests, RequestNext(r) PROVE IInv'
  <2>1. CASE StartLogin(r) \/ StartWithToken(r) \/ StartChange(r) \/ StartSetActive(r)
    BY <2>1, BeginStep
  <2>2. CASE LoadLogin(r)
    BY <2>2, LoginStep
  <2>3. CASE RejectInactive(r)
    BY <2>3, RejectStep DEF RejectInactive
  <2>4. CASE LoadToken(r) \/ LoadRefreshUser(r)
    BY <2>4, TokenStep
  <2>5. CASE LoadSetActive(r)
    BY <2>5, RowStep
  <2>9. CASE LoadChange(r)
    BY <2>9, ChangeStep
  <2>10. CASE LoadHistory(r)
    BY <2>10, HistoryStep
  <2>6. CASE SelectActive(r)
    BY <2>6, SelectStep
  <2>7. CASE Commit(r)
    BY <2>7, CommitStep
  <2>8. CASE Abort(r)
    BY <2>8, RejectStep DEF Abort
  <2> QED BY <1>3, <2>1, <2>2, <2>3, <2>4, <2>5, <2>6, <2>7, <2>8, <2>9, <2>10 DEF RequestNext
<1> QED BY <1>1, <1>2, <1>3 DEF Next

\* So it holds in every state.
LEMMA Invariant == Spec => []IInv
BY InvInit, InvNext, PTL DEF Spec

-------------------------------------------------------------------------------
(* The theorems.                                                           *)

\* The variables keep their types; a token is exchanged at most once by each of
\* the requests that were under way with it.
THEOREM TypeCorrect == Spec => []TypeOK
<1>1. IInv => TypeOK
  <2> SUFFICES ASSUME IInv PROVE TypeOK
    OBVIOUS
  <2>1. ASSUME NEW r \in Requests, req[r] # Idle PROVE RequestOK(req[r])
    <3>1. req[r] \in Request /\ Shape(req[r]) /\ user \in User
      BY <2>1 DEF IInv, Types, Good
    <3>2. Written(req[r]) \in User
      BY <3>1, WrittenRow
    <3>3. DOMAIN req[r].sets \subseteq Columns
      BY <3>1 DEF Request, Sets
    <3> QED BY <3>1, <3>2, <3>3 DEF Request, RequestOK
  <2>2. ASSUME NEW t \in Tokens PROVE spent[t] \in 0 .. Cardinality(Requests)
    <3>1. spent[t] \in Nat /\ spent[t] + Cardinality(Pending(t)) <= Cardinality(Requests)
      BY DEF IInv, Types, Quota
    <3> QED BY <3>1, PendingFinite
  <2>3. spent \in [Tokens -> 0 .. Cardinality(Requests)]
    BY <2>2 DEF IInv, Types
  <2> QED BY <2>1, <2>3 DEF IInv, Types, TypeOK
<1> QED BY <1>1, Invariant, PTL

\* However requests interleave, an exchanged refresh token stays revoked and the
\* password in force is in the history, also when a login has undone a change.
THEOREM AccountSound == Spec => []AccountIsSound
<1>1. IInv => AccountIsSound
  BY DEF IInv
<1> QED BY <1>1, Invariant, PTL

\* A counted failure arms the lock at the limit under any interleaving; and as
\* long as requests come one at a time each token is exchanged once, every bad
\* password counts, a password change leaves no session, no login undoes it and
\* the password in force is one of those remembered.
THEOREM AccountSerial == Spec => SerialAccount
<1>1. IInv => SerialSingleUse /\ SerialLockout /\ SerialRemembered
  <2> SUFFICES ASSUME IInv, ~ overlapped
               PROVE  SingleUse /\ LockoutAfterThreshold /\ PasswordRemembered
    BY DEF SerialSingleUse, SerialLockout, SerialRemembered
  <2>1. SingleUse /\ LockoutAfterThreshold
    BY DEF IInv, Serial, SingleUse, LockoutAfterThreshold
  <2>2. PICK h \in history : h.of = user.hash.of /\ \A g \in history : g.at <= h.at
    BY DEF IInv, Serial
  <2>3. \A g \in history : g.at \in Nat
    BY HistoryAssumption DEF IInv, Types, Row
  <2>4. {g \in history : g.at > h.at} = {}
    BY <2>2, <2>3
  <2>5. Cardinality({g \in history : g.at > h.at}) < HistorySize
    BY <2>4, HistoryAssumption, FS_EmptySet
  <2>6. h \in Newest
    BY <2>5 DEF Newest
  <2> QED BY <2>1, <2>2, <2>6 DEF PasswordRemembered, Remembered
<1>2. ASSUME IInv, [Next]_vars
      PROVE  [user'.failed > user.failed /\ user'.failed >= MaxFailed
                => user'.locked = "running"]_vars
  <2> SUFFICES ASSUME user'.failed > user.failed, user'.failed >= MaxFailed, Next
               PROVE  user'.locked = "running"
    BY <1>2 DEF vars
  <2>0. user \in User /\ user.failed \in 0 .. FailCap /\ FailCap \in Nat
    BY <1>2, MaxFailedAssumption DEF IInv, Types, User
  <2>1. CASE LockExpires
    <3>1. user'.failed = user.failed
      BY <2>0, <2>1 DEF LockExpires, User
    <3> QED BY <3>1, <2>0
  <2>2. ASSUME NEW r \in Requests, Commit(r) PROVE user'.locked = "running"
    <3>1. req[r] # Idle /\ req[r] \in Request /\ Shape(req[r]) /\ user' = Written(req[r])
      BY <1>2, <2>2, Busy DEF Commit, IInv, Good
    <3>2. \A c \in Columns :
            user'[c] = IF c \in DOMAIN req[r].sets THEN req[r].sets[c] ELSE user[c]
      BY <2>0, <3>1, WrittenRow
    <3>3. "failed" \in DOMAIN req[r].sets /\ user'.failed = req[r].sets["failed"]
      BY <2>0, <3>2 DEF Columns
    <3>4. req[r].sets["failed"] # 0
      BY <2>0, <3>3
    <3>5. "locked" \in DOMAIN req[r].sets /\ req[r].sets["locked"] = "running"
      BY <3>1, <3>3, <3>4 DEF Shape, Fits
    <3> QED BY <3>2, <3>5 DEF Columns
  <2>3. ASSUME NEW r \in Requests, RequestNext(r), user' # user PROVE Commit(r)
    BY <2>3 DEF RequestNext, StartLogin, StartWithToken, StartChange, StartSetActive, Begin,
       LoadLogin, RejectInactive, LoadToken, LoadRefreshUser, LoadChange, LoadHistory,
       SelectActive, LoadSetActive, Abort, Reject
  <2>4. user' # user
    BY <2>0
  <2> QED BY <2>1, <2>2, <2>3, <2>4 DEF Next
<1>3. ASSUME IInv, [Next]_vars
      PROVE  [\A r \in Requests :
                ~ overlapped /\ At(r, "change_password", "commit") /\ Commit(r) =>
                  \A t \in Tokens : tokens'[t] # "active"]_vars
  <2> SUFFICES ASSUME NEW r \in Requests, ~ overlapped, At(r, "change_password", "commit"),
                      Commit(r), NEW t \in Tokens
               PROVE  tokens'[t] # "active"
    OBVIOUS
  <2>1. Good(req[r]) /\ req[r].op = "change_password" /\ req[r].pc = "commit"
    BY <1>3, Busy DEF At, IInv
  <2>2. req[r].revoke = {u \in Tokens : tokens[u] = "active"} /\ ~ req[r].issue
    BY <2>1 DEF Good, Fresh, Shape
  <2>3. /\ \A u \in req[r].revoke : tokens'[u] = "revoked"
        /\ tokens'[t] = "active" => tokens[t] = "active"
    BY <1>3, <2>2, CommittedTokens
  <2> QED BY <2>2, <2>3
<1>4. ASSUME IInv, [Next]_vars
      PROVE  [\A r \in Requests :
                ~ overlapped /\ At(r, "login", "commit") /\ Commit(r) =>
                  user'.hash.of = user.hash.of]_vars
  <2> SUFFICES ASSUME NEW r \in Requests, ~ overlapped, At(r, "login", "commit"), Commit(r)
               PROVE  user'.hash.of = user.hash.of
    OBVIOUS
  <2>1. req[r] # Idle /\ req[r] \in Request /\ Good(req[r]) /\ req[r].op = "login"
    BY <1>4, Busy DEF At, IInv
  <2>2. \A c \in Columns :
          user'[c] = IF c \in DOMAIN req[r].sets THEN req[r].sets[c] ELSE user[c]
    BY <1>4, <2>1, WrittenRow DEF Commit, Good, IInv, Types
  <2>3. "hash" \in DOMAIN req[r].sets => req[r].sets["hash"].of = user.hash.of
    BY <2>1 DEF Good, Fresh
  <2> QED BY <2>2, <2>3 DEF Columns
<1> QED BY <1>1, <1>2, <1>3, <1>4, Invariant, PTL
        DEF Spec, SerialAccount, LimitArmsLock, SerialChangeRevokesAll, SerialRehash
===============================================================================
