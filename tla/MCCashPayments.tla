--------------------------- MODULE MCCashPayments ---------------------------
(***************************************************************************)
(* Bounds for checking CashPayments with TLC.                              *)
(***************************************************************************)
EXTENDS CashPayments, TLC

\* Tickets, sessions, requests, keys and app references are interchangeable;
\* shifts open in any order.
Symmetry ==
  Permutations(Tickets) \cup Permutations(Sessions) \cup Permutations(Shifts)
    \cup Permutations(Requests) \cup Permutations(Keys) \cup Permutations(AppRefs)
=============================================================================
