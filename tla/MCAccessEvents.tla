--------------------------- MODULE MCAccessEvents ---------------------------
(***************************************************************************)
(* Bounds for checking AccessEvents with TLC.                              *)
(***************************************************************************)
EXTENDS AccessEvents, TLC

Symmetry == Permutations(Handlers)
=============================================================================
