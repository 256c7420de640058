----------------------------- MODULE AuthSession ------------------------------
(***************************************************************************)
(* Sign-in and refresh tokens of one account: services/auth_service.py and *)
(* set_active of services/user_service.py, behind api/routers/auth.py and  *)
(* users.py.                                                               *)
(*                                                                         *)
(* A request is a transaction at READ COMMITTED.  Each SELECT is a step;   *)
(* what follows it in the handler works on the loaded objects and is part  *)
(* of the step.  The UPDATEs and INSERTs take effect at the commit: row    *)
(* locks and the audit lock only order the commits.  An UPDATE names the   *)
(* columns whose value differs from the loaded one.                        *)
(*                                                                         *)
(* Time: locked_until is in the future ("running") or past ("expired").    *)
(* No token reaches the end of its seven days here.                        *)
(***************************************************************************)
EXTENDS Naturals, FiniteSets

CONSTANTS
    Requests,      \* concurrent requests; each runs one operation at a time
    Tokens,        \* refresh tokens (their jti) the account may ever be issued
    Passwords,     \* the passwords anybody tries or chooses
    NoArg,         \* an argument an operation does not take
    MaxFailed,     \* settings.max_failed_logins
    FailCap,       \* bound: no login is tried once failed_login_count is here
    HistorySize,   \* policy.history_size
    MaxChanges     \* bound: changes of password that are followed

ASSUME RequestsAssumption == IsFiniteSet(Requests)
ASSUME MaxFailedAssumption == MaxFailed \in Nat \ {0} /\ FailCap \in Nat
ASSUME HistoryAssumption == HistorySize \in Nat \ {0} /\ MaxChanges \in Nat

VARIABLES
    user,      \* the committed users row of the account
    history,   \* the committed password_history rows
    changes,   \* the time: how many changes have stamped their row
    tokens,    \* the committed refresh_tokens rows
    req,       \* the requests
    wrong,     \* history: bad passwords since the last successful login, up to MaxFailed
    spent,     \* history: how often each token was exchanged for a new pair
    overlapped \* history: two requests have been in flight at once

vars == <<user, history, changes, tokens, req, wrong, spent, overlapped>>

\* A salted hash: of which password, and whether by weaker parameters than
\* those of today (needs_rehash).
Hash == [of : Passwords, old : BOOLEAN]
User == [hash : Hash, active : BOOLEAN, failed : 0 .. FailCap,
         locked : {"none", "running", "expired"}]
Columns == {"hash", "active", "failed", "locked"}
\* A password_history row: what it is the hash of, and its created_at.
Row == [of : Passwords, at : 0 .. MaxChanges]

\* The most recent rows of the history, and the passwords they refuse.
Newest == {h \in history : Cardinality({g \in history : g.at > h.at}) < HistorySize}
Remembered == {h.of : h \in Newest}
\* A token that was not issued yet, and the states of a refresh_tokens row.
TokenState == {"unused", "active", "revoked"}
Reasons == {"ok", "locked", "bad_password", "locked_now"}
ASSUME NoArgAssumption == NoArg \notin Tokens \cup Passwords \cup Reasons
Ops == {"login", "refresh", "logout", "change_password", "activate", "deactivate"}

Idle == [pc |-> "idle"]

\* The row after the UPDATE of a request, over what others have committed.
Written(q) == [c \in Columns |-> IF c \in DOMAIN q.sets THEN q.sets[c] ELSE user[c]]

\* A request: its operation and where it is, the arguments, the changed columns
\* of the users row with their new values, the tokens whose revoked_at it sets,
\* whether it creates a pair, the reason of a login's answer, and when a change
\* took the time for its history row.
RequestOK(q) ==
    /\ q.op \in Ops /\ q.pc \in {"token", "user", "history", "active", "commit"}
    /\ {q.pw, q.new} \subseteq Passwords \cup {NoArg}
    /\ q.token \in Tokens \cup {NoArg}
    /\ DOMAIN q.sets \subseteq Columns /\ Written(q) \in User
    /\ q.revoke \subseteq Tokens /\ q.issue \in BOOLEAN
    /\ q.reason \in Reasons \cup {NoArg} /\ q.stamp \in 0 .. MaxChanges

TypeOK ==
    /\ user \in User
    /\ history \subseteq Row /\ changes \in 0 .. MaxChanges
    /\ tokens \in [Tokens -> TokenState]
    /\ \A r \in Requests : req[r] = Idle \/ RequestOK(req[r])
    /\ wrong \in 0 .. MaxFailed
    /\ spent \in [Tokens -> 0 .. Cardinality(Requests)]
    /\ overlapped \in BOOLEAN

\* After register: one password, recorded in the history.  The parameters of
\* the hashing may have been strengthened since.
Init ==
    /\ \E p \in Passwords, weak \in BOOLEAN :
         /\ user = [hash |-> [of |-> p, old |-> weak], active |-> TRUE, failed |-> 0,
                    locked |-> "none"]
         /\ history = {[of |-> p, at |-> 0]}
    /\ changes = 0
    /\ tokens = [t \in Tokens |-> "unused"]
    /\ req = [r \in Requests |-> Idle]
    /\ wrong = 0
    /\ spent = [t \in Tokens |-> 0]
    /\ overlapped = FALSE

-------------------------------------------------------------------------------
(* Steps of a request.                                                     *)

At(r, op, pc) == req[r].pc = pc /\ req[r].op = op

\* What the loaded row, which is user here, was changed to.
Changes(mine) == [c \in {d \in Columns : mine[d] # user[d]} |-> mine[c]]
NoChange == Changes(user)

Done(r) == req' = [req EXCEPT ![r] = Idle]

\* The handler raises and get_db rolls back.
Reject(r) == Done(r) /\ UNCHANGED <<user, history, changes, tokens, wrong, spent, overlapped>>

Begin(r, op, pc, pw, new, t) ==
    /\ req[r] = Idle
    /\ req' = [req EXCEPT ![r] =
                 [op |-> op, pc |-> pc, pw |-> pw, new |-> new, token |-> t,
                  sets |-> NoChange, revoke |-> {}, issue |-> FALSE,
                  reason |-> NoArg, stamp |-> 0]]
    /\ overlapped' = (overlapped \/ \E q \in Requests : req[q] # Idle)
    /\ UNCHANGED <<user, history, changes, tokens, wrong, spent>>

StartLogin(r) == \E p \in Passwords : Begin(r, "login", "user", p, NoArg, NoArg)

\* Only a token that has been issued can be presented.
StartWithToken(r) ==
    \E op \in {"refresh", "logout"}, t \in Tokens :
        tokens[t] # "unused" /\ Begin(r, op, "token", NoArg, NoArg, t)

StartChange(r) ==
    \E p, n \in Passwords : Begin(r, "change_password", "user", p, n, NoArg)

StartSetActive(r) ==
    \E op \in {"activate", "deactivate"} : Begin(r, op, "user", NoArg, NoArg, NoArg)

\* A plausible bug: the threshold is compared with ">".
WithFailureOffByOne(u) ==
    LET n == u.failed + 1 IN
    [u EXCEPT !.failed = n, !.locked = IF n > MaxFailed THEN "running" ELSE @]

\* _register_failure on a loaded row.
WithFailure(u) ==
    LET n == u.failed + 1 IN
    [u EXCEPT !.failed = n, !.locked = IF n >= MaxFailed THEN "running" ELSE @]

\* authenticate, up to the audit entry it commits.  A success hashes the password
\* anew when the stored hash is an old one.
LoadLogin(r) ==
    /\ At(r, "login", "user")
    /\ user.failed < FailCap
    /\ LET Answer(reason, mine, issue) ==
             /\ req' = [req EXCEPT ![r].pc = "commit", ![r].reason = reason,
                                   ![r].sets = Changes(mine), ![r].issue = issue]
             /\ UNCHANGED <<user, history, changes, tokens, wrong, spent, overlapped>>
       IN
       \/ /\ user.locked = "running"
          /\ Answer("locked", user, FALSE)
       \/ /\ user.locked # "running" /\ req[r].pw # user.hash.of
          /\ Answer(IF WithFailure(user).locked = "running" THEN "locked_now"
                    ELSE "bad_password", WithFailure(user), FALSE)
       \/ /\ user.locked # "running" /\ req[r].pw = user.hash.of /\ user.active
          /\ Answer("ok", [user EXCEPT !.failed = 0, !.locked = "none",
                                       !.hash.old = FALSE], TRUE)

\* A disabled account: the entry is recorded, but the exception is raised
\* without a commit, and get_db rolls it back.
RejectInactive(r) ==
    /\ At(r, "login", "user")
    /\ user.locked # "running" /\ req[r].pw = user.hash.of /\ ~ user.active
    /\ Reject(r)

\* A plausible bug: the presented token is not revoked by the rotation.
LoadTokenKept(r) ==
    \/ /\ At(r, "refresh", "token")
       /\ \/ tokens[req[r].token] # "active" /\ Reject(r)
          \/ /\ tokens[req[r].token] = "active"
             /\ req' = [req EXCEPT ![r].pc = "user"]
             /\ UNCHANGED <<user, history, changes, tokens, wrong, spent, overlapped>>
    \/ /\ At(r, "logout", "token")
       /\ req' = [req EXCEPT ![r].pc = "commit",
                             ![r].revoke = {t \in {req[r].token} : tokens[t] = "active"}]
       /\ UNCHANGED <<user, history, changes, tokens, wrong, spent, overlapped>>

\* refresh and logout look the token up by its jti; logout ignores one that is
\* no longer active, refresh refuses it.
LoadToken(r) ==
    \/ /\ At(r, "refresh", "token")
       /\ \/ tokens[req[r].token] # "active" /\ Reject(r)
          \/ /\ tokens[req[r].token] = "active"
             /\ req' = [req EXCEPT ![r].pc = "user", ![r].revoke = {req[r].token}]
             /\ UNCHANGED <<user, history, changes, tokens, wrong, spent, overlapped>>
    \/ /\ At(r, "logout", "token")
       /\ req' = [req EXCEPT ![r].pc = "commit",
                             ![r].revoke = {t \in {req[r].token} : tokens[t] = "active"}]
       /\ UNCHANGED <<user, history, changes, tokens, wrong, spent, overlapped>>

LoadRefreshUser(r) ==
    /\ At(r, "refresh", "user")
    /\ \/ ~ user.active /\ Reject(r)
       \/ /\ user.active
          /\ req' = [req EXCEPT ![r].pc = "commit", ![r].issue = TRUE]
          /\ UNCHANGED <<user, history, changes, tokens, wrong, spent, overlapped>>

\* change_password: the current password must match (if not, only an audit
\* entry of its own kind is committed) ...
LoadChange(r) ==
    /\ At(r, "change_password", "user")
    /\ \/ req[r].pw # user.hash.of /\ Reject(r)
       \/ /\ req[r].pw = user.hash.of
          /\ req' = [req EXCEPT ![r].pc = "history"]
          /\ UNCHANGED <<user, history, changes, tokens, wrong, spent, overlapped>>

\* ... and the new one be none of the remembered ones.  The new hash is salted:
\* it differs from the stored one whatever it is of.
LoadHistory(r) ==
    /\ At(r, "change_password", "history")
    /\ \/ req[r].new \in Remembered /\ Reject(r)
       \/ /\ req[r].new \notin Remembered
          /\ changes < MaxChanges
          /\ changes' = changes + 1
          /\ req' = [req EXCEPT ![r].pc = "active", ![r].stamp = changes + 1,
                       ![r].sets = [c \in {"hash"} |-> [of |-> req[r].new, old |-> FALSE]]]
          /\ UNCHANGED <<user, history, tokens, wrong, spent, overlapped>>

\* Then it selects the tokens it will revoke.
SelectActive(r) ==
    /\ At(r, "change_password", "active")
    /\ req' = [req EXCEPT ![r].pc = "commit",
                          ![r].revoke = {t \in Tokens : tokens[t] = "active"}]
    /\ UNCHANGED <<user, history, changes, tokens, wrong, spent, overlapped>>

LoadSetActive(r) ==
    /\ \E op \in {"activate", "deactivate"} : At(r, op, "user")
    /\ req' = [req EXCEPT ![r].pc = "commit",
                  ![r].sets = Changes([user EXCEPT !.active = req[r].op = "activate"])]
    /\ UNCHANGED <<user, history, changes, tokens, wrong, spent, overlapped>>

\* The tokens after a commit that revokes some and perhaps issues one.  Bound:
\* pairs issued when all of Tokens are in use are not followed.
TokensAfter(q) ==
    LET revoked == [t \in Tokens |-> IF t \in q.revoke THEN "revoked" ELSE tokens[t]]
        unused == {t \in Tokens : tokens[t] = "unused"}
    IN  IF q.issue /\ unused # {}
        THEN {[revoked EXCEPT ![t] = "active"] : t \in unused}
        ELSE {revoked}

\* A plausible bug: the new hash is not recorded in the history.
CommitUnrecorded(r) ==
    LET q == req[r] IN
    /\ q.pc = "commit"
    /\ user' = Written(q)
    /\ tokens' \in TokensAfter(q)
    /\ UNCHANGED history
    /\ wrong' = CASE q.reason = "ok" -> 0
                  [] q.reason \in {"bad_password", "locked_now"} ->
                       IF wrong < MaxFailed THEN wrong + 1 ELSE wrong
                  [] OTHER -> wrong
    /\ spent' = IF q.op = "refresh" THEN [spent EXCEPT ![q.token] = @ + 1] ELSE spent
    /\ Done(r)
    /\ UNCHANGED <<changes, overlapped>>

Commit(r) ==
    LET q == req[r] IN
    /\ q.pc = "commit"
    /\ user' = Written(q)
    /\ tokens' \in TokensAfter(q)
    /\ history' = history \cup (IF q.op = "change_password"
                               THEN {[of |-> q.new, at |-> q.stamp]} ELSE {})
    /\ wrong' = CASE q.reason = "ok" -> 0
                  [] q.reason \in {"bad_password", "locked_now"} ->
                       IF wrong < MaxFailed THEN wrong + 1 ELSE wrong
                  [] OTHER -> wrong
    /\ spent' = IF q.op = "refresh" THEN [spent EXCEPT ![q.token] = @ + 1] ELSE spent
    /\ Done(r)
    /\ UNCHANGED <<changes, overlapped>>

\* The commit fails or the worker dies.
Abort(r) == req[r] # Idle /\ Reject(r)

\* account_lockout_minutes have passed.
LockExpires ==
    /\ user.locked = "running"
    /\ user' = [user EXCEPT !.locked = "expired"]
    /\ UNCHANGED <<history, changes, tokens, req, wrong, spent, overlapped>>

RequestNext(r) ==
    \/ StartLogin(r) \/ StartWithToken(r) \/ StartChange(r) \/ StartSetActive(r)
    \/ LoadLogin(r) \/ RejectInactive(r)
    \/ LoadToken(r) \/ LoadRefreshUser(r)
    \/ LoadChange(r) \/ LoadHistory(r) \/ SelectActive(r)
    \/ LoadSetActive(r)
    \/ Commit(r) \/ Abort(r)

Next == (\E r \in Requests : RequestNext(r)) \/ LockExpires

Spec == Init /\ [][Next]_vars

-------------------------------------------------------------------------------
(* Properties.                                                             *)

\* An exchanged refresh token is dead: whatever commits around the exchange
\* (another exchange, a logout, a password change), it stays revoked.
UsedTokenIsDead == \A t \in Tokens : spent[t] > 0 => tokens[t] = "revoked"

\* The password in force is one the history has, in every interleaving: also when
\* a login that hashed an old password anew commits after a change and undoes it.
PasswordRecorded == user.hash.of \in {h.of : h \in history}

\* A failure that brings the counter to the limit arms the lock in the same
\* commit, even when it counted from a row others have changed since.
LimitArmsLock ==
    [][user'.failed > user.failed /\ user'.failed >= MaxFailed
         => user'.locked = "running"]_vars

-------------------------------------------------------------------------------
(* What comments and tests promise of the account.                         *)

\* tokens.py:6: a refresh token is "single-use, rotated on each use".
SingleUse == \A t \in Tokens : spent[t] <= 1

\* As long as requests come one at a time, a token is exchanged once.
SerialSingleUse == overlapped \/ SingleUse

\* auth_service.py:350: "Revoke all active refresh tokens on password change."
\* As long as requests come one at a time, no session outlives the change.
SerialChangeRevokesAll ==
    [][\A r \in Requests :
         ~ overlapped /\ At(r, "change_password", "commit") /\ Commit(r) =>
            \A t \in Tokens : tokens'[t] # "active"]_vars

\* The same for every change.
ChangeRevokesAll ==
    [][\A r \in Requests : At(r, "change_password", "commit") /\ Commit(r) =>
         \A t \in Tokens : tokens'[t] # "active"]_vars

\* tests/integration/test_security_attacks.py:110-121: MAX_FAILED_LOGINS bad
\* passwords and the "Account now locked" (until the lock runs out).
LockoutAfterThreshold == wrong >= MaxFailed => user.locked # "none"

\* As long as requests come one at a time, no bad password goes uncounted.
SerialLockout == overlapped \/ LockoutAfterThreshold

\* auth_service.py:190: the "transparent rehash" of a login changes the hash and
\* not the password it is of.
RehashIsTransparent ==
    [][\A r \in Requests : At(r, "login", "commit") /\ Commit(r) =>
         user'.hash.of = user.hash.of]_vars

\* As long as requests come one at a time, no login undoes a change.
SerialRehash ==
    [][\A r \in Requests : ~ overlapped /\ At(r, "login", "commit") /\ Commit(r) =>
         user'.hash.of = user.hash.of]_vars

\* auth_service.py:336: the password in force is one of "your last N passwords",
\* so that it is refused as a new one.
PasswordRemembered == user.hash.of \in Remembered

\* The same as long as requests come one at a time, however short the history.
SerialRemembered == overlapped \/ PasswordRemembered

\* What every interleaving keeps of tokens and passwords.
AccountIsSound == UsedTokenIsDead /\ PasswordRecorded

\* What the account promises as long as requests come one at a time, and the
\* lock that every counted failure arms.
SerialAccount ==
    /\ [](SerialSingleUse /\ SerialLockout /\ SerialRemembered)
    /\ LimitArmsLock
    /\ SerialChangeRevokesAll
    /\ SerialRehash

\* auth_service.py:173 and 211: the entry of a refused login is "persisted despite
\* the raise" of the request; the one of a disabled account is not.
RefusalAudited == [][\A r \in Requests : ~ RejectInactive(r)]_vars
===============================================================================
