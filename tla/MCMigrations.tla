----------------------------- MODULE MCMigrations -----------------------------
(***************************************************************************)
(* Four runs: two of one build, one of the build that follows it, and one  *)
(* of a build whose second migration is another.                           *)
(***************************************************************************)
EXTENDS Migrations

CONSTANTS r1, r2, r3, r4, a, b, c, x

MCRuns == {r1, r2, r3, r4}
MCSums == {a, b, c, x}
MCEmbedded == [r \in MCRuns |->
  CASE r \in {r1, r2} -> <<a, b>>
    [] r = r3 -> <<a, b, c>>
    [] r = r4 -> <<a, x>>]
=============================================================================
