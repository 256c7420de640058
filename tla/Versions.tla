------------------------------- MODULE Versions -------------------------------
(***************************************************************************)
(* The version order of services/vuln/versions.py.  parse_version turns a  *)
(* version into the sequence of its numbers and letter runs, each of them  *)
(* a natural number; here a version is that sequence, empty for the empty  *)
(* text.                                                                   *)
(***************************************************************************)
EXTENDS Naturals, Sequences

Version == Seq(Nat)

\* The component at i, where the shorter version is padded with zeros.
Part(v, i) == IF i \in DOMAIN v THEN v[i] ELSE 0

\* vcompare(a, b) < 0: the versions are compared at the first place where they
\* differ.
Before(a, b) ==
    \E i \in DOMAIN a \cup DOMAIN b :
        /\ Part(a, i) < Part(b, i)
        /\ \A j \in 1 .. (i - 1) : Part(a, j) = Part(b, j)

\* An end of a range that is not given.
Open == <<>>

\* is_affected, with the semantics of OSV: from introduced on, before fixed, up
\* to last_affected.  An empty version is never affected.
IsAffected(v, range) ==
    /\ v # <<>>
    /\ range.introduced = Open \/ ~ Before(v, range.introduced)
    /\ range.fixed = Open \/ Before(v, range.fixed)
    /\ range.last_affected = Open \/ ~ Before(range.last_affected, v)
===============================================================================
