-------------------------- MODULE MCMobileCommands --------------------------
(***************************************************************************)
(* Bounds for checking MobileCommands with TLC.                            *)
(***************************************************************************)
EXTENDS MobileCommands, TLC

Symmetry == Permutations(Commands)
=============================================================================
