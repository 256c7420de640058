----------------------------- MODULE AccessControl ----------------------------
(***************************************************************************)
(* Who may do what: an administrator changes the roles of a user and       *)
(* enables or disables the account (user_service.py), the user logs in or  *)
(* refreshes and is given an access token that carries the permissions of  *)
(* that moment (auth_service.py, core/security/tokens.py), and every call  *)
(* is checked against the token alone (api/deps.py).                       *)
(*                                                                         *)
(* A user is loaded by several SELECTs at READ COMMITTED: the row first,   *)
(* the roles after it (models/user.py: lazy="selectin"), and a change may  *)
(* be committed between the two.  The permissions of a role are constant:  *)
(* only the start-up writes them.                                          *)
(*                                                                         *)
(* Names are distinct from those of the other modules, so that a module    *)
(* may extend this one next to another.                                    *)
(***************************************************************************)
EXTENDS Integers, FiniteSets

CONSTANTS
    Clients,         \* requests: logins, calls, changes; each is made once
    Roles, Codes,    \* role names and permission codes
    Grants,          \* the permissions of each role: core/authz/permissions.py
    AdminCode,       \* the permission that passes every check
    AccessTTL,       \* the life of an access token
    Leeway,          \* how long after its expiry a token still passes
    LastTime         \* bound on the time

ASSUME GrantsAssumption == Grants \in [Roles -> SUBSET Codes] /\ AdminCode \in Codes
ASSUME TimesAssumption == AccessTTL \in Nat /\ Leeway \in Nat /\ LastTime \in Nat

VARIABLES
    roles,      \* the committed roles of the user
    active,     \* the committed is_active
    superuser,  \* is_superuser, which nothing changes after the registration
    time,       \* the time
    tokens,     \* the access tokens that were handed out
    client,     \* the requests
    held,       \* history: for each time, what the account granted then
    wanted,     \* history: the roles and the state last asked for, by commit
    crossed,    \* history: two changes have been in flight at once
    torn        \* history: a change was committed between the two reads of a login

accessVars == <<roles, active, superuser, time, tokens, client, held, wanted, crossed, torn>>

Times == 0 .. LastTime
Effective(R) == UNION {Grants[x] : x \in R}
\* What an account grants: the permissions of its roles, and whether it is on.
Account == [perms : SUBSET Codes, on : BOOLEAN]
Grant(R, on) == [perms |-> Effective(R), on |-> on]

\* has_permission
Allows(perms, su, code) == su \/ AdminCode \in perms \/ code \in perms

\* A token, with the times its user and its roles were read.
Token == [user : Times, read : Times, minted : Times, perms : SUBSET Codes, su : BOOLEAN]
Client ==
    [pc : {"roles"}, user : Times, on : BOOLEAN, su : BOOLEAN] \cup
    [pc : {"mint"}, user : Times, read : Times, perms : SUBSET Codes, su : BOOLEAN] \cup
    [pc : {"admitted"}, at : Times, code : Codes, token : Token] \cup
    [pc : {"lock", "commit"}, op : {"roles", "active"}, seen : SUBSET Roles,
     was : BOOLEAN, to : SUBSET Roles, on : BOOLEAN]
Waiting == [pc |-> "waiting"]
Gone == [pc |-> "gone"]

AccessTypeOK ==
    /\ roles \subseteq Roles /\ active \in BOOLEAN /\ superuser \in BOOLEAN /\ time \in Times
    /\ tokens \subseteq Token
    /\ client \in [Clients -> Client \cup {Waiting, Gone}]
    /\ held \in [Times -> SUBSET Account]
    /\ wanted \in [roles : SUBSET Roles, active : BOOLEAN]
    /\ crossed \in BOOLEAN /\ torn \in BOOLEAN

\* A user was registered with some roles, or is the superuser of the start-up.
AccessInit ==
    /\ roles \in SUBSET Roles /\ active = TRUE /\ superuser \in BOOLEAN /\ time = 0
    /\ tokens = {}
    /\ client = [c \in Clients |-> Waiting]
    /\ held = [t \in Times |-> IF t = 0 THEN {Grant(roles, TRUE)} ELSE {}]
    /\ wanted = [roles |-> roles, active |-> TRUE] /\ crossed = FALSE /\ torn = FALSE

-------------------------------------------------------------------------------
(* Login, refresh, and calls.                                              *)

\* authenticate, or refresh: the row of the user is read.
ReadUser(c) ==
    /\ client[c] = Waiting
    /\ client' = [client EXCEPT ![c] =
         [pc |-> "roles", user |-> time, on |-> active, su |-> superuser]]
    /\ UNCHANGED <<roles, active, superuser, time, tokens, held, wanted, crossed, torn>>

\* The roles are read, and then a user whose row said disabled is refused.
ReadRoles(c) ==
    LET q == client[c] IN
    /\ q.pc = "roles"
    /\ client' = [client EXCEPT ![c] =
         IF q.on THEN [pc |-> "mint", user |-> q.user, read |-> time,
                       perms |-> Effective(roles), su |-> q.su]
         ELSE Gone]
    /\ UNCHANGED <<roles, active, superuser, time, tokens, held, wanted, crossed, torn>>

\* TokenManager.decode
Expired(k) == time >= k.minted + AccessTTL + Leeway

\* issue_tokens: the claims are those of what was read.
Mint(c) ==
    LET q == client[c] IN
    /\ q.pc = "mint"
    /\ tokens' = tokens \cup
         {[user |-> q.user, read |-> q.read, minted |-> time, perms |-> q.perms, su |-> q.su]}
    /\ client' = [client EXCEPT ![c] = Gone]
    /\ UNCHANGED <<roles, active, superuser, time, held, wanted, crossed, torn>>

\* get_current_principal and require_permission.
Call(c) == \E k \in tokens, code \in Codes :
    /\ client[c] = Waiting
    /\ client' = [client EXCEPT ![c] =
         IF ~ Expired(k) /\ Allows(k.perms, k.su, code)
           THEN [pc |-> "admitted", at |-> time, code |-> code, token |-> k] ELSE Gone]
    /\ UNCHANGED <<roles, active, superuser, time, tokens, held, wanted, crossed, torn>>

-------------------------------------------------------------------------------
(* Changes by an administrator.                                            *)

Changing(c) == client[c].pc \in {"lock", "commit"}

\* Of what is loaded, a change of roles compares the roles only, and a change of
\* the state the state.
LoadChange(c, op, to, on) ==
    /\ client[c] = Waiting
    /\ client' = [client EXCEPT ![c] =
         [pc |-> "lock", op |-> op, seen |-> roles, was |-> active, to |-> to, on |-> on]]
    /\ crossed' = (crossed \/ \E d \in Clients : Changing(d))
    /\ UNCHANGED <<roles, active, superuser, time, tokens, held, wanted, torn>>

LoadSetRoles(c) == \E to \in SUBSET Roles : LoadChange(c, "roles", to, TRUE)
LoadSetActive(c) == \E on \in BOOLEAN : LoadChange(c, "active", {}, on)

\* AuditService.record: the advisory lock, until the request ends.
LockTrail(c) ==
    /\ client[c].pc = "lock" /\ \A d \in Clients : client[d].pc # "commit"
    /\ client' = [client EXCEPT ![c].pc = "commit"]
    /\ UNCHANGED <<roles, active, superuser, time, tokens, held, wanted, crossed, torn>>

Fail(c) ==
    /\ Changing(c) \/ client[c].pc \in {"roles", "mint"}
    /\ client' = [client EXCEPT ![c] = Gone]
    /\ UNCHANGED <<roles, active, superuser, time, tokens, held, wanted, crossed, torn>>

\* A plausible bug: roles are only ever added.
RolesAdded(q) == IF q.op = "roles" THEN roles \cup q.to ELSE roles

\* The rows of user_roles that the session deletes and inserts are the
\* difference from what it read.
RolesAfter(q) ==
    IF q.op = "roles" THEN (roles \ (q.seen \ q.to)) \cup (q.to \ q.seen) ELSE roles

\* A row that is inserted and there already ends the request (Fail); a row to
\* be deleted that is gone may end it as well.
ChangeUser(c) ==
    LET q == client[c]
        on == IF q.op = "active" /\ q.on # q.was THEN q.on ELSE active
    IN
    /\ q.pc = "commit"
    /\ q.op = "roles" => (q.to \ q.seen) \cap roles = {}
    /\ roles' = RolesAfter(q) /\ active' = on
    /\ held' = [held EXCEPT ![time] = @ \cup {Grant(RolesAfter(q), on)}]
    /\ wanted' = IF q.op = "roles" THEN [wanted EXCEPT !.roles = q.to]
                 ELSE [wanted EXCEPT !.active = q.on]
    /\ torn' = (torn \/ \E d \in Clients : client[d].pc = "roles")
    /\ client' = [client EXCEPT ![c] = Gone]
    /\ UNCHANGED <<superuser, time, tokens, crossed>>

Pass ==
    /\ time < LastTime /\ time' = time + 1
    /\ held' = [held EXCEPT ![time + 1] = {Grant(roles, active)}]
    /\ UNCHANGED <<roles, active, superuser, tokens, client, wanted, crossed, torn>>

AccessNext == Pass \/ \E c \in Clients :
    \/ ReadUser(c) \/ ReadRoles(c) \/ Mint(c) \/ Call(c) \/ LoadSetRoles(c) \/ LoadSetActive(c)
    \/ LockTrail(c) \/ ChangeUser(c) \/ Fail(c)

AccessSpec == AccessInit /\ [][AccessNext]_accessVars

-------------------------------------------------------------------------------
(* Properties.                                                             *)

Admitted(c) == client[c].pc = "admitted"

\* A call that is admitted is made as the superuser, or was allowed by the roles
\* of the time the login read them; the account was enabled at the time its row
\* was read, which is no later; and the token is no older than its life and the
\* leeway.  What was taken from the user is of no use any longer than that,
\* whatever the changes and logins that crossed.
AdmittedWasGranted ==
    \A c \in Clients : Admitted(c) =>
      LET k == client[c].token IN
      /\ \E s \in held[k.read] : Allows(s.perms, superuser, client[c].code)
      /\ \E s \in held[k.user] : s.on
      /\ k.user <= k.read /\ k.read <= k.minted
      /\ client[c].at - k.minted < AccessTTL + Leeway

\* A call that is admitted was allowed to the user at a moment when the account
\* was enabled.
GrantedWhileEnabled ==
    \A c \in Clients : Admitted(c) =>
      \E s \in held[client[c].token.read] : s.on /\ Allows(s.perms, superuser, client[c].code)

\* So it is as long as no change was committed between two reads of one login.
GrantedAtOnce == torn \/ GrantedWhileEnabled

\* As long as changes come one at a time, the user has the roles and the state
\* that were asked for last.
SerialChanges == crossed \/ (roles = wanted.roles /\ active = wanted.active)

\* What calls are admitted by, and what changes one after the other leave.
AccessInOrder == AdmittedWasGranted /\ GrantedAtOnce /\ SerialChanges

-------------------------------------------------------------------------------
(* What a reader may expect, and the code does not keep.                   *)

\* permissions.py:5-7: the permissions are checked "on each request".
CheckedOnEachRequest ==
    \A c \in Clients : Admitted(c) =>
      \E s \in held[client[c].at] : s.on /\ Allows(s.perms, superuser, client[c].code)

\* The user has the roles of the last role_change entry of the audit trail.
TrailTellsRoles == roles = wanted.roles
===============================================================================
