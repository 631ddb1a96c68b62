---------------------------- MODULE MCMonthlyFlush ----------------------------
(***************************************************************************)
(* Bounds for checking MonthlyFlush with TLC: two days of one month and    *)
(* the first of the next.                                                  *)
(***************************************************************************)
EXTENDS MonthlyFlush, TLC

MonthOf == 1 :> 1 @@ 2 :> 1 @@ 3 :> 2

\* The flush has been enabled, with partial flushes, before the first day.
Enabled ==
  /\ today = 1
  /\ live = Nothing
  /\ summaries = [t \in {"monthly", "partial"} |-> Nothing]
  /\ job = None
  /\ config = [enabled |-> TRUE, partial |-> TRUE, lastRun |-> 1]
  /\ scheduled = TRUE
  /\ flushes = [f \in Flushers |-> Idle]
  /\ settings = None
  /\ writers = [w \in Writers |-> None]
  /\ logged = Nothing
  /\ open = {}
  /\ lagged = {}
  /\ saved = 0
  /\ faults = 0

MCSpec == Enabled /\ [][FlushNext]_flushVars /\ FlushFairness
=============================================================================
