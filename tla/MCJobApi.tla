------------------------------- MODULE MCJobApi -------------------------------
(***************************************************************************)
(* A small instance of JobApi: two requests over a pool of two             *)
(* connections, a session in each of two tenants, one key.  Answered is a  *)
(* liveness property, so no symmetry is declared.                          *)
(***************************************************************************)
EXTENDS JobApi

CONSTANTS r1, r2, s1, s2, k1, o1, o2

MCRequests == {r1, r2}
MCSessions == {s1, s2}
MCOwner == [s \in {s1, s2} |-> IF s = s1 THEN "ten_a" ELSE "ten_b"]
MCKeys == {k1}
MCOperations == {o1, o2}
=============================================================================
