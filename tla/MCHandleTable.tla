--------------------------- MODULE MCHandleTable ---------------------------
(***************************************************************************)
(* Owners for TLC: more than a table has places, so that a new one is made *)
(* with the old handles in use.                                            *)
(***************************************************************************)
EXTENDS HandleTable, TLC

CONSTANTS a, b, c, d, e     \* model values

FiveOwners == {a, b, c, d, e}
Symmetry == Permutations(FiveOwners)
=============================================================================
