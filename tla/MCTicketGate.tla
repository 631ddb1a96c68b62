---------------------------- MODULE MCTicketGate ----------------------------
(***************************************************************************)
(* Bounds for checking TicketGate with TLC.                                *)
(***************************************************************************)
EXTENDS TicketGate, TLC

Symmetry == Permutations(Requests) \cup Permutations(Keys) \cup Permutations(Tickets)
=============================================================================
