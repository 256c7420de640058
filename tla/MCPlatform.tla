------------------------------ MODULE MCPlatform ------------------------------
(***************************************************************************)
(* The records of tenants, the login monitor, access control, and sealed   *)
(* streams, which share no rows, in one run: a behaviour is one of the     *)
(* component that `side` names.                                            *)
(***************************************************************************)
EXTENDS TenantRecords, LoginMonitor, AccessControl, ChunkedStream, TLC

CONSTANTS super_admin, analyst
VARIABLE side

\* Three permissions and two of the default roles.
MCCodes == {"system:admin", "key:rotate", "file:read"}
MCGrants == super_admin :> MCCodes @@ analyst :> {"file:read"}

\* A report tells the device with the coordinates and the country, or with
\* another country alone, or it tells nothing.
MCCountries == {"DE", "FR"}
MCSaid == {s \in [device : Devices, at : Places, country : {"DE"}] : s.device = s.at}
    \cup [device : Devices, at : {Unsaid}, country : {"FR"}] \cup {Nothing}

PlatformInit ==
    /\ side \in {"records", "logins", "access", "streams"}
    /\ Init /\ LoginInit /\ AccessInit /\ StreamInit
    /\ side # "access" => roles = {} /\ ~ superuser
    /\ superuser => roles = {super_admin}

PlatformNext ==
    /\ UNCHANGED side
    /\ \/ side = "records" /\ Next /\ UNCHANGED <<loginVars, accessVars, streamVars>>
       \/ side = "logins" /\ LoginNext /\ UNCHANGED <<vars, accessVars, streamVars>>
       \/ side = "access" /\ AccessNext /\ UNCHANGED <<vars, loginVars, streamVars>>
       \/ side = "streams" /\ StreamNext /\ UNCHANGED <<vars, loginVars, accessVars>>

PlatformSpec ==
    PlatformInit /\ [][PlatformNext]_<<vars, loginVars, accessVars, streamVars, side>>

\* The type invariants of the four.
PlatformTypeOK == TypeOK /\ LoginTypeOK /\ AccessTypeOK /\ StreamTypeOK

\* The requests of the first three have the same names, so have devices and
\* places.
PlatformSymmetry == Permutations(Requests) \cup Permutations(Devices) \cup Permutations(DataKeys)
===============================================================================
