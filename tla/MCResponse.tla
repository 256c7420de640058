------------------------------ MODULE MCResponse ------------------------------
(***************************************************************************)
(* Emergencies and automation rules, which share no rows, in one run: a    *)
(* behaviour is one of the component that `side` names.                    *)
(***************************************************************************)
EXTENDS Emergency, Automation, TLC

VARIABLE side

ResponseInit == side \in {"emergency", "rules"} /\ Init /\ RuleInit
                /\ (side = "rules" => points = {})
                /\ (side = "emergency" => rule = [x \in Rules |-> NoRule])

ResponseNext ==
    /\ UNCHANGED side
    /\ \/ side = "emergency" /\ Next /\ UNCHANGED ruleVars
       \/ side = "rules" /\ RuleNext /\ UNCHANGED vars

ResponseSpec == ResponseInit /\ [][ResponseNext]_<<vars, ruleVars, side>>

\* The type invariants of both.
ResponseTypeOK == TypeOK /\ RuleTypeOK

ResponseSymmetry ==
    Permutations(Requests) \cup Permutations(Events) \cup Permutations(Points)
    \cup Permutations(Jobs)
===============================================================================
