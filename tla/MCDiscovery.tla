------------------------------ MODULE MCDiscovery ------------------------------
(* Instances of Discovery for TLC.                                         *)
EXTENDS Discovery
===============================================================================
