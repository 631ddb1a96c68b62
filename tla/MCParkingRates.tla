---------------------------- MODULE MCParkingRates ----------------------------
(***************************************************************************)
(* Bounds for checking ParkingRates with TLC: a day of four minutes, and   *)
(* one save of every valid rate beside one save of a fixed rate.           *)
(***************************************************************************)
EXTENDS ParkingRates, TLC

CONSTANTS s1, s2

AnyRules ==
  {r \in [toleranceMinutes : 0 .. 1, firstBlockMinutes : 1 .. 4, firstBlockPrice : {1, 3},
          fractionMinutes : 1 .. 3, fractionPrice : {0, 2}, dailyMax : {None, 3, 4}] : IsValid(r)}

OneRate ==
  [toleranceMinutes |-> 1, firstBlockMinutes |-> 2, firstBlockPrice |-> 2,
   fractionMinutes |-> 1, fractionPrice |-> 1, dailyMax |-> 3]

DraftsOf == s1 :> AnyRules @@ s2 :> {OneRate}
=============================================================================
