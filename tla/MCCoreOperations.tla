--------------------------- MODULE MCCoreOperations ---------------------------
(* Two calls at once, whose numbers wrap around.                           *)
EXTENDS CoreOperations

CONSTANTS c1, c2

MCCalls == {c1, c2}
=============================================================================
