--------------------------- MODULE MCCashRegister ---------------------------
(***************************************************************************)
(* Bounds for checking CashRegister with TLC.                              *)
(***************************************************************************)
EXTENDS CashRegister, TLC

\* A client may send an amount below zero.
MCAmounts == {-1, 2}

Symmetry == Permutations(Shifts) \cup Permutations(Requests)

\* One shift is counted and cut; the other competes for the register, before and
\* after.  A count or a cut reads and writes its own shift alone.
MaxClosing == 1

BoundClosing ==
  /\ Cardinality(DOMAIN cuts) <= MaxClosing
  /\ Cardinality({h \in Shifts : counts[h] # None}) <= MaxClosing
=============================================================================
