----------------------------- MODULE MCFileVault -----------------------------
(* Instances of FileVault for TLC.                                         *)
EXTENDS FileVault, TLC

VaultSymmetry == Permutations(Requests) \cup Permutations(Files)
===============================================================================
