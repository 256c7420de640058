---------------------------- MODULE MCAuthSession -----------------------------
(* Instances of AuthSession for TLC.                                       *)
EXTENDS AuthSession, TLC

AccountSymmetry ==
    Permutations(Requests) \cup Permutations(Tokens) \cup Permutations(Passwords)
===============================================================================
