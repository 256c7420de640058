------------------------------ MODULE MCCasework ------------------------------
(***************************************************************************)
(* The file of a case, vulnerability scans, the work at a site, and the    *)
(* estate, which are checked apart in one run: a behaviour is one of the   *)
(* component that `side` names.                                            *)
(***************************************************************************)
EXTENDS CaseFile, VulnScan, SiteOperations, Estate, TLC

VARIABLE side

\* OpenSSL 1.0.1f, its fix 1.0.1g, and a release with fewer components.
MCSoftware == {<<1, 0, 1, 6>>, <<1, 0, 1, 7>>, <<1, 1>>}
MCRanges ==
    [c \in Cves |->
       IF c = "heartbleed"
       THEN [introduced |-> <<1, 0, 1>>, fixed |-> <<1, 0, 1, 7>>, last_affected |-> Open]
       ELSE [introduced |-> Open, fixed |-> Open, last_affected |-> <<1, 1, 0>>]]

\* One organisation with a row of every kind but a department.
Founder(id, kind, above, link) == [id |-> id, kind |-> kind, above |-> above, link |-> link]
MCFounded ==
    {Founder("acme", "organization", {}, Nil), Founder("north", "branch", {"acme"}, Nil),
     Founder("hq", "site", {"acme"}, "north"), Founder("main", "building", {"hq"}, Nil),
     Founder("lobby", "zone", {"acme", "hq"}, "main"),
     Founder("gate", "checkpoint", {"acme", "hq"}, "lobby")}

CaseworkInit ==
    /\ side \in {"case", "scan", "site", "estate"}
    /\ Init /\ ScanInit /\ SiteInit /\ EstateInit
    /\ side # "case" => ~ incident.linked
    /\ side # "scan" => version = [a \in Assets |-> <<1, 1>>] /\ critical = {}

CaseworkNext ==
    /\ UNCHANGED side
    /\ \/ side = "case" /\ Next /\ UNCHANGED <<scanVars, siteVars, estateVars>>
       \/ side = "scan" /\ ScanNext /\ UNCHANGED <<vars, siteVars, estateVars>>
       \/ side = "site" /\ SiteNext /\ UNCHANGED <<vars, scanVars, estateVars>>
       \/ side = "estate" /\ EstateNext /\ UNCHANGED <<vars, scanVars, siteVars>>

CaseworkSpec == CaseworkInit /\ [][CaseworkNext]_<<vars, scanVars, siteVars, estateVars, side>>

\* The type invariants of the four.
CaseworkTypeOK == TypeOK /\ ScanTypeOK /\ SiteTypeOK /\ EstateTypeOK

\* The requests of a case and of a site have the same names.
CaseworkSymmetry ==
    Permutations(Requests) \cup Permutations(Runs) \cup Permutations(Scans)
    \cup Permutations(Clerks)
===============================================================================
