--------------------------- MODULE MCPlacementLock ---------------------------
(* The apply lock on its own, for the model checker. *)
EXTENDS PlacementLock, TLC

CONSTANTS r1, r2, r3

RequestSymmetry == Permutations({r1, r2, r3})
=============================================================================
