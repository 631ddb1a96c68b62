------------------------------ MODULE MCOutbox ------------------------------
(***************************************************************************)
(* Bounds for checking Outbox with TLC.                                    *)
(***************************************************************************)
EXTENDS Outbox, TLC

\* For the safety runs only.
Symmetry == Permutations(Rows)
=============================================================================
