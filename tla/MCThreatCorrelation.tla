------------------------- MODULE MCThreatCorrelation --------------------------
(* Instances of ThreatCorrelation for TLC.                                 *)
EXTENDS ThreatCorrelation, TLC

ThreatSymmetry == Permutations(Requests) \cup Permutations(Threats)
===============================================================================
