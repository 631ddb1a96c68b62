----------------------------- MODULE BooksProofs -----------------------------
(***************************************************************************)
(* Proofs about the books of the site: the shifts of CashRegister, for any *)
(* number of shifts, registers, cashiers, keys and requests, and any       *)
(* amounts; and the logs and summaries of MonthlyFlush, for any calendar,  *)
(* any number of runs, writers and logs, and any number of failures and    *)
(* stops.                                                                  *)
(***************************************************************************)
EXTENDS CashRegister, MonthlyFlush, FiniteSums, FiniteSetTheorems, TLAPS

----------------------------------------------------------------------------
\* The shifts of the registers

LEMMA Moved ==
  ASSUME RequestsHold, NEW r \in Requests, NEW request, Become(r, request)
  PROVE  /\ requests' = [q \in Requests |-> requests'[q]]
         /\ requests'[r] = request
         /\ \A q \in Requests : q # r => requests'[q] = requests[q]
BY DEF RequestsHold, Become

\* The rows that an opening and a close write, column by column.
LEMMA OpenedRow ==
  ASSUME NEW modulo, NEW user, NEW opening
  PROVE  [NoShift EXCEPT !.status = "open", !.modulo = modulo, !.user = user, !.opening = opening]
           = [status |-> "open", modulo |-> modulo, user |-> user, opening |-> opening,
              closingExpected |-> 0, closingCounted |-> 0]
<1> DEFINE row == [NoShift EXCEPT !.status = "open", !.modulo = modulo, !.user = user,
                                  !.opening = opening]
<1>1. NoShift \in [status : {"none"}, modulo : {None}, user : {None}, opening : {0},
                   closingExpected : {0}, closingCounted : {0}]
  BY DEF NoShift
<1>2. row \in [status : {"open"}, modulo : {modulo}, user : {user}, opening : {opening},
               closingExpected : {0}, closingCounted : {0}]
  BY <1>1
<1> HIDE DEF row
<1>3. row = [status |-> "open", modulo |-> modulo, user |-> user, opening |-> opening,
             closingExpected |-> 0, closingCounted |-> 0]
  BY <1>2
<1>4. QED  BY <1>3 DEF row

LEMMA ClosedRow ==
  ASSUME NEW row, NEW expected, NEW counted,
         row = [status |-> row.status, modulo |-> row.modulo, user |-> row.user,
                opening |-> row.opening, closingExpected |-> row.closingExpected,
                closingCounted |-> row.closingCounted]
  PROVE  [row EXCEPT !.status = "closed", !.closingExpected = expected, !.closingCounted = counted]
           = [status |-> "closed", modulo |-> row.modulo, user |-> row.user,
              opening |-> row.opening, closingExpected |-> expected, closingCounted |-> counted]
<1> DEFINE new == [row EXCEPT !.status = "closed", !.closingExpected = expected,
                              !.closingCounted = counted]
<1>1. row \in [status : {row.status}, modulo : {row.modulo}, user : {row.user},
               opening : {row.opening}, closingExpected : {row.closingExpected},
               closingCounted : {row.closingCounted}]
  OBVIOUS
<1>2. new \in [status : {"closed"}, modulo : {row.modulo}, user : {row.user},
               opening : {row.opening}, closingExpected : {expected},
               closingCounted : {counted}]
  BY <1>1
<1> HIDE DEF new
<1>3. new = [status |-> "closed", modulo |-> row.modulo, user |-> row.user,
             opening |-> row.opening, closingExpected |-> expected, closingCounted |-> counted]
  BY <1>2
<1>4. QED  BY <1>3 DEF new

LEMMA InitInv ==
  ASSUME Init
  PROVE  RegisterInv
<1>1. /\ shifts = [h \in Shifts |-> shifts[h]]
      /\ \A h \in Shifts : shifts[h] = NoShift
      /\ requests = [r \in Requests |-> requests[r]]
      /\ \A r \in Requests : requests[r].pc = "idle"
      /\ movements = {}
  BY DEF Init, Idle
<1>2. \A h \in Shifts : shifts[h].status = "none"  BY <1>1 DEF NoShift
<1>3. RowsShaped  BY <1>1 DEF RowsShaped, NoShift
<1>4. FundsPending  BY <1>1 DEF FundsPending, NoFundYet, RefUnused
<1>5. RequestsHold  BY <1>1 DEF RequestsHold
<1>6. OneOpenShiftPerModulo  BY <1>2 DEF OneOpenShiftPerModulo, IsOpen
<1>7. OneMovementPerRef  BY <1>1 DEF OneMovementPerRef
<1>8. ClosedAsCut  BY <1>2 DEF ClosedAsCut
<1>9. QED  BY <1>3, <1>4, <1>5, <1>6, <1>7, <1>8 DEF RegisterInv

----------------------------------------------------------------------------
\* A request moves and the rows that the invariant speaks of stay.
LEMMA RequestMoves ==
  ASSUME RegisterInv, NEW r \in Requests, NEW request, Become(r, request),
         shifts' = shifts, movements' = movements, cuts' = cuts,
         request.pc \notin {"fund", "close"},
         request.pc \in {"move", "sale"} => request.movement.ref \in Keys \cup Sales,
         request.pc = "cut" =>
           request = [pc |-> "cut", shift |-> request.shift, cut |-> request.cut]
  PROVE  RegisterInv'
<1> USE DEF RegisterInv
<1>1. /\ requests' = [q \in Requests |-> requests'[q]]
      /\ requests'[r] = request
      /\ \A q \in Requests : q # r => requests'[q] = requests[q]
  BY Moved
<1>2. RowsShaped'  BY DEF RowsShaped
<1>3. FundsPending'
  <2>1. \A q \in Requests : requests'[q].pc = "fund" => requests'[q] = requests[q]
    BY <1>1
  <2>2. QED  BY <2>1 DEF FundsPending, NoFundYet, RefUnused
<1>4. RequestsHold'  BY <1>1 DEF RequestsHold, HasCut
<1>5. OneOpenShiftPerModulo'  BY DEF OneOpenShiftPerModulo, IsOpen
<1>6. OneMovementPerRef'  BY DEF OneMovementPerRef
<1>7. ClosedAsCut'  BY DEF ClosedAsCut, HasCut
<1>8. QED  BY <1>2, <1>3, <1>4, <1>5, <1>6, <1>7

\* Reads, counts, previews and refusals.
LEMMA ReadsKeep ==
  ASSUME RegisterInv, NEW r \in Requests,
         \/ \E modulo \in Modulos, user \in Users, opening \in Funds :
              OpenRead(r, modulo, user, opening)
         \/ \E h \in Shifts, key \in Keys, type \in Type,
               direction \in {"in", "out"}, amount \in Amounts :
              MovementRead(r, h, key, type, direction, amount)
         \/ \E h \in Shifts, sale \in Sales, amount \in Amounts : SaleRead(r, h, sale, amount)
         \/ \E h \in Shifts, total \in Counted : CountRead(r, h, total)
         \/ \E h \in Shifts, total \in Counted, notes \in BOOLEAN : CloseRead(r, h, total, notes)
         \/ CloseSavesCount(r)
         \/ CountInsert(r)
         \/ CutPreview(r)
         \/ Abandon(r)
  PROVE  RegisterInv'
<1>1. UNCHANGED <<shifts, movements, cuts>>
  BY DEF OpenRead, MovementRead, SaleRead, CountRead, CloseRead, CloseSavesCount,
         CountInsert, CutPreview, Abandon
<1>2. ASSUME NEW modulo \in Modulos, NEW user \in Users, NEW opening \in Funds,
             OpenRead(r, modulo, user, opening)
      PROVE  RegisterInv'
  <2> DEFINE request == [pc |-> "open", modulo |-> modulo, user |-> user, opening |-> opening]
  <2>1. Become(r, request) /\ request.pc = "open"  BY <1>2 DEF OpenRead
  <2> HIDE DEF request
  <2>2. QED  BY <1>1, <2>1, RequestMoves
<1>3. ASSUME NEW h \in Shifts, NEW ref \in Keys \cup Sales, NEW type \in Type,
             NEW direction \in {"in", "out"}, NEW amount \in Amounts,
             \/ ref \in Keys /\ MovementRead(r, h, ref, type, direction, amount)
             \/ type = "other" /\ direction = "in" /\ SaleRead(r, h, ref, amount)
      PROVE  RegisterInv'
  <2> DEFINE movement == [ref |-> ref, shift |-> h, type |-> type,
                          direction |-> direction, amount |-> amount]
  <2>1. PICK pc \in {"move", "sale"} : Become(r, [pc |-> pc, movement |-> movement])
    BY <1>3 DEF MovementRead, SaleRead
  <2>2. /\ [pc |-> pc, movement |-> movement].pc = pc
        /\ [pc |-> pc, movement |-> movement].movement.ref = ref
    OBVIOUS
  <2>3. QED  BY <1>1, <2>1, <2>2, RequestMoves
<1>4. ASSUME NEW h \in Shifts, NEW total \in Counted, CountRead(r, h, total)
      PROVE  RegisterInv'
  <2> DEFINE request == [pc |-> "count", shift |-> h, total |-> total]
  <2>1. Become(r, request) /\ request.pc = "count"  BY <1>4 DEF CountRead
  <2> HIDE DEF request
  <2>2. QED  BY <1>1, <2>1, RequestMoves
<1>5. ASSUME NEW h \in Shifts, NEW total \in Counted, NEW notes \in BOOLEAN,
             CloseRead(r, h, total, notes)
      PROVE  RegisterInv'
  <2> DEFINE request == [pc |-> "closing", shift |-> h, total |-> total,
                         notes |-> notes, seen |-> Counting(h)]
  <2>1. Become(r, request) /\ request.pc = "closing"  BY <1>5 DEF CloseRead
  <2> HIDE DEF request
  <2>2. QED  BY <1>1, <2>1, RequestMoves
<1>6. CASE CloseSavesCount(r)
  <2> DEFINE request == GoOn(requests[r], "closeCount")
  <2>1. Become(r, request)  BY <1>6 DEF CloseSavesCount
  <2>2. request.pc = "closeCount"
    BY DEF GoOn
  <2> HIDE DEF request
  <2>3. QED  BY <1>1, <2>1, <2>2, RequestMoves
<1>7. CASE CountInsert(r)
  <2>1. PICK request : Become(r, request) /\ request.pc \in {"preview", "idle"}
    BY <1>7 DEF CountInsert, GoOn, Idle
  <2>2. QED  BY <1>1, <2>1, RequestMoves
<1>8. CASE CutPreview(r)
  <2>1. PICK h, cut : Become(r, [pc |-> "cut", shift |-> h, cut |-> cut])
    BY <1>8 DEF CutPreview
  <2> DEFINE request == [pc |-> "cut", shift |-> h, cut |-> cut]
  <2>2. request.pc = "cut" /\ request.shift = h /\ request.cut = cut  OBVIOUS
  <2>3. QED  BY <1>1, <2>1, <2>2, RequestMoves
<1>9. CASE Abandon(r)
  <2>1. Become(r, Idle) /\ Idle.pc = "idle"  BY <1>9 DEF Abandon, Idle
  <2>2. QED  BY <1>1, <2>1, RequestMoves
<1>10. QED
  BY <1>2, <1>3, <1>4, <1>5, <1>6, <1>7, <1>8, <1>9 DEF Type

----------------------------------------------------------------------------
LEMMA CreateKeeps ==
  ASSUME RegisterInv, NEW r \in Requests, NEW h \in Shifts, OpenCreate(r, h)
  PROVE  RegisterInv'
<1> DEFINE was == requests[r]
           new == [NoShift EXCEPT !.status = "open", !.modulo = was.modulo,
                                  !.user = was.user, !.opening = was.opening]
<1> USE DEF RegisterInv
<1>1. new = [status |-> "open", modulo |-> was.modulo, user |-> was.user,
             opening |-> was.opening, closingExpected |-> 0, closingCounted |-> 0]
  BY OpenedRow
<1>2. /\ shifts' = [g \in Shifts |-> shifts'[g]]
      /\ shifts'[h] = new
      /\ \A g \in Shifts : g # h => shifts'[g] = shifts[g]
  BY DEF OpenCreate, RowsShaped
<1>3. UNCHANGED <<movements, cuts>>  BY DEF OpenCreate
<1>4. PICK request \in {[pc |-> "fund", shift |-> h], Idle} : Become(r, request)
  BY DEF OpenCreate
<1>5. /\ request.pc \in {"fund", "idle"}
      /\ request.pc = "fund" => request.shift = h
  BY <1>4 DEF Idle
<1>6. /\ requests' = [q \in Requests |-> requests'[q]]
      /\ requests'[r] = request
      /\ \A q \in Requests : q # r => requests'[q] = requests[q]
  BY <1>4, Moved
<1>7. shifts[h].status = "none" /\ NoFundYet(h)
  BY DEF OpenCreate, FundsPending
<1>8. RowsShaped'
  <2>1. \A g \in Shifts :
          shifts'[g] = [status |-> shifts'[g].status, modulo |-> shifts'[g].modulo,
                        user |-> shifts'[g].user, opening |-> shifts'[g].opening,
                        closingExpected |-> shifts'[g].closingExpected,
                        closingCounted |-> shifts'[g].closingCounted]
    BY <1>1, <1>2 DEF RowsShaped
  <2>2. QED  BY <1>2, <2>1 DEF RowsShaped
<1>9. FundsPending'
  <2>1. ASSUME NEW g \in Shifts, shifts'[g].status = "none"
        PROVE  /\ RefUnused(g)'
               /\ \A q \in Requests : requests'[q].pc = "fund" => requests'[q].shift # g
    <3>1. g # h /\ shifts[g].status = "none"  BY <1>1, <1>2, <2>1
    <3>2. QED  BY <1>3, <1>5, <1>6, <3>1 DEF FundsPending, NoFundYet, RefUnused
  <2>2. ASSUME NEW q \in Requests, requests'[q].pc = "fund"
        PROVE  /\ requests'[q].shift \in Shifts
               /\ RefUnused(requests[q].shift)' \/ q = r
               /\ q = r => RefUnused(h)'
               /\ \A p \in Requests :
                    requests'[p].pc = "fund" /\ requests'[p].shift = requests'[q].shift => p = q
    BY <1>3, <1>5, <1>6, <1>7, <2>2 DEF FundsPending, NoFundYet, RefUnused
  <2>3. QED  BY <1>3, <1>5, <1>6, <2>1, <2>2 DEF FundsPending, NoFundYet, RefUnused
<1>10. RequestsHold'
  BY <1>3, <1>5, <1>6 DEF RequestsHold, HasCut
<1>11. OneOpenShiftPerModulo'
  <2>1. \A g \in Shifts : IsOpen(g) => shifts[g].modulo # was.modulo
    BY DEF OpenCreate, UniqueOpenShift
  <2>2. QED  BY <1>1, <1>2, <2>1 DEF OneOpenShiftPerModulo, IsOpen
<1>12. OneMovementPerRef'  BY <1>3 DEF OneMovementPerRef
<1>13. ClosedAsCut'  BY <1>1, <1>2, <1>3 DEF ClosedAsCut, HasCut
<1>14. QED  BY <1>8, <1>9, <1>10, <1>11, <1>12, <1>13

LEMMA FundKeeps ==
  ASSUME RegisterInv, NEW r \in Requests, OpenFund(r)
  PROVE  RegisterInv'
<1> USE DEF RegisterInv
<1>1. PICK m : m.ref = requests[r].shift /\ movements' = movements \cup {m}
  BY DEF OpenFund
<1>2. UNCHANGED <<shifts, cuts>> /\ Become(r, Idle) /\ Idle.pc = "idle"
  BY DEF OpenFund, Idle
<1>3. /\ requests' = [q \in Requests |-> requests'[q]]
      /\ requests'[r] = Idle
      /\ \A q \in Requests : q # r => requests'[q] = requests[q]
  BY <1>2, Moved
<1>4. requests[r].pc = "fund" /\ RefUnused(m.ref)
  BY <1>1 DEF OpenFund, FundsPending
<1>5. RowsShaped' /\ OneOpenShiftPerModulo' /\ ClosedAsCut'
  BY <1>2 DEF RowsShaped, OneOpenShiftPerModulo, IsOpen, ClosedAsCut, HasCut
<1>6. FundsPending'
  BY <1>1, <1>2, <1>3, <1>4 DEF FundsPending, NoFundYet, RefUnused
<1>7. RequestsHold'  BY <1>2, <1>3 DEF RequestsHold, HasCut
<1>8. OneMovementPerRef'  BY <1>1, <1>4 DEF OneMovementPerRef, RefUnused
<1>9. QED  BY <1>5, <1>6, <1>7, <1>8

LEMMA MovementKeeps ==
  ASSUME RegisterInv, NEW r \in Requests, MovementInsert(r)
  PROVE  RegisterInv'
<1> DEFINE m == requests[r].movement
<1> USE DEF RegisterInv
<1>1. UNCHANGED <<shifts, cuts>> /\ Become(r, Idle) /\ Idle.pc = "idle"
  BY DEF MovementInsert, Idle
<1>2. CASE movements' = movements
  BY <1>1, <1>2, RequestMoves
<1>3. CASE movements' = movements \cup {m} /\ RefUnused(m.ref)
  <2>1. /\ requests' = [q \in Requests |-> requests'[q]]
        /\ requests'[r] = Idle
        /\ \A q \in Requests : q # r => requests'[q] = requests[q]
    BY <1>1, Moved
  <2>2. m.ref \in Keys \cup Sales /\ m.ref \notin Shifts
    BY IdsAssumption DEF MovementInsert, RequestsHold
  <2>3. RowsShaped' /\ OneOpenShiftPerModulo' /\ ClosedAsCut'
    BY <1>1 DEF RowsShaped, OneOpenShiftPerModulo, IsOpen, ClosedAsCut, HasCut
  <2>4. FundsPending'
    BY <1>1, <1>3, <2>1, <2>2 DEF FundsPending, NoFundYet, RefUnused
  <2>5. RequestsHold'  BY <1>1, <2>1 DEF RequestsHold, HasCut
  <2>6. OneMovementPerRef'  BY <1>3 DEF OneMovementPerRef, RefUnused
  <2>7. QED  BY <2>3, <2>4, <2>5, <2>6
<1>4. QED  BY <1>2, <1>3 DEF MovementInsert, UniqueRef

\* The first cut of a shift, by a request that goes on to close it.
LEMMA CutKeeps ==
  ASSUME RegisterInv, NEW r \in Requests, CutInsert(r)
  PROVE  RegisterInv'
<1> DEFINE h == requests[r].shift
           cut == requests[r].cut
           request == [pc |-> "close", shift |-> h, cut |-> cut]
<1> USE DEF RegisterInv
<1>1. requests[r] = [pc |-> "cut", shift |-> h, cut |-> cut]
  BY DEF CutInsert, RequestsHold
<1>2. [requests[r] EXCEPT !.pc = "close"] = request
  BY <1>1
<1>3. Become(r, request) /\ UNCHANGED <<shifts, movements>>
  BY <1>2 DEF CutInsert
<1>4. /\ requests' = [q \in Requests |-> requests'[q]]
      /\ requests'[r] = request
      /\ \A q \in Requests : q # r => requests'[q] = requests[q]
  BY <1>3, Moved
<1>5. request.pc = "close" /\ request.shift = h /\ request.cut = cut
  OBVIOUS
<1>6. /\ DOMAIN cuts' = DOMAIN cuts \cup {h}
      /\ cuts'[h] = cut
      /\ h \notin DOMAIN cuts
      /\ \A g \in DOMAIN cuts : cuts'[g] = cuts[g]
  BY DEF CutInsert, UniqueCut, HasCut
<1>7. RowsShaped' /\ OneOpenShiftPerModulo' /\ OneMovementPerRef'
  BY <1>3 DEF RowsShaped, OneOpenShiftPerModulo, IsOpen, OneMovementPerRef
<1>8. FundsPending'
  BY <1>3, <1>4, <1>5 DEF FundsPending, NoFundYet, RefUnused
<1>9. RequestsHold'
  <2>1. ASSUME NEW q \in Requests, q # r
        PROVE  /\ requests'[q].pc \in {"move", "sale"} =>
                    requests'[q].movement.ref \in Keys \cup Sales
               /\ requests'[q].pc = "cut" =>
                    requests'[q] = [pc |-> "cut", shift |-> requests'[q].shift,
                                    cut |-> requests'[q].cut]
               /\ requests'[q].pc = "close" =>
                    /\ requests'[q].shift \in DOMAIN cuts'
                    /\ cuts'[requests'[q].shift] = requests'[q].cut
    BY <1>4, <1>6, <2>1 DEF RequestsHold, HasCut
  <2>2. /\ requests'[r].pc = "close"
        /\ requests'[r].shift \in DOMAIN cuts'
        /\ cuts'[requests'[r].shift] = requests'[r].cut
    BY <1>4, <1>5, <1>6
  <2>3. QED  BY <1>4, <2>1, <2>2 DEF RequestsHold, HasCut
<1>10. ClosedAsCut'
  BY <1>3, <1>6 DEF ClosedAsCut, HasCut
<1>11. QED  BY <1>7, <1>8, <1>9, <1>10

\* The last step of a close writes the figures of the cut, again if the shift
\* was closed already.
LEMMA CloseWrites ==
  ASSUME RegisterInv, NEW r \in Requests, CloseUpdate(r)
  PROVE  /\ shifts' = [g \in Shifts |-> shifts'[g]]
         /\ \A g \in Shifts : g # requests[r].shift => shifts'[g] = shifts[g]
         /\ requests[r].shift \in Shifts =>
              shifts'[requests[r].shift] =
                [status |-> "closed",
                 modulo |-> shifts[requests[r].shift].modulo,
                 user |-> shifts[requests[r].shift].user,
                 opening |-> shifts[requests[r].shift].opening,
                 closingExpected |-> cuts[requests[r].shift].expected,
                 closingCounted |-> cuts[requests[r].shift].counted]
         /\ HasCut(requests[r].shift)
<1> DEFINE h == requests[r].shift
           cut == requests[r].cut
<1>1. HasCut(h) /\ cuts[h] = cut
  BY DEF RegisterInv, RequestsHold, CloseUpdate
<1>2. shifts' = [shifts EXCEPT ![h] = [@ EXCEPT !.status = "closed",
                                               !.closingExpected = cut.expected,
                                               !.closingCounted = cut.counted]]
  BY DEF CloseUpdate
<1>3. shifts = [g \in Shifts |-> shifts[g]]
  BY DEF RegisterInv, RowsShaped
<1>4. /\ shifts' = [g \in Shifts |-> shifts'[g]]
      /\ \A g \in Shifts : g # h => shifts'[g] = shifts[g]
      /\ h \in Shifts => shifts'[h] = [shifts[h] EXCEPT !.status = "closed",
                                               !.closingExpected = cut.expected,
                                               !.closingCounted = cut.counted]
  BY <1>2, <1>3
<1>5. h \in Shifts =>
        [shifts[h] EXCEPT !.status = "closed", !.closingExpected = cut.expected,
                          !.closingCounted = cut.counted]
          = [status |-> "closed", modulo |-> shifts[h].modulo, user |-> shifts[h].user,
             opening |-> shifts[h].opening, closingExpected |-> cut.expected,
             closingCounted |-> cut.counted]
  <2>1. SUFFICES ASSUME h \in Shifts
                 PROVE  [shifts[h] EXCEPT !.status = "closed", !.closingExpected = cut.expected,
                                          !.closingCounted = cut.counted]
                          = [status |-> "closed", modulo |-> shifts[h].modulo,
                             user |-> shifts[h].user, opening |-> shifts[h].opening,
                             closingExpected |-> cut.expected, closingCounted |-> cut.counted]
    OBVIOUS
  <2>2. shifts[h] = [status |-> shifts[h].status, modulo |-> shifts[h].modulo,
                     user |-> shifts[h].user, opening |-> shifts[h].opening,
                     closingExpected |-> shifts[h].closingExpected,
                     closingCounted |-> shifts[h].closingCounted]
    BY <2>1 DEF RegisterInv, RowsShaped
  <2>3. QED  BY <2>2, ClosedRow
<1>6. QED  BY <1>1, <1>4, <1>5

LEMMA CloseKeeps ==
  ASSUME RegisterInv, NEW r \in Requests, CloseUpdate(r)
  PROVE  RegisterInv'
<1> DEFINE h == requests[r].shift
<1> USE DEF RegisterInv
<1>1. UNCHANGED <<movements, cuts>> /\ Become(r, Idle) /\ Idle.pc = "idle"
  BY DEF CloseUpdate, Idle
<1>2. /\ requests' = [q \in Requests |-> requests'[q]]
      /\ requests'[r] = Idle
      /\ \A q \in Requests : q # r => requests'[q] = requests[q]
  BY <1>1, Moved
<1>3. /\ shifts' = [g \in Shifts |-> shifts'[g]]
      /\ \A g \in Shifts : g # h => shifts'[g] = shifts[g]
      /\ h \in Shifts =>
           shifts'[h] = [status |-> "closed", modulo |-> shifts[h].modulo,
                         user |-> shifts[h].user, opening |-> shifts[h].opening,
                         closingExpected |-> cuts[h].expected,
                         closingCounted |-> cuts[h].counted]
      /\ HasCut(h)
  BY CloseWrites
<1>4. RowsShaped'
  <2>1. \A g \in Shifts :
          shifts'[g] = [status |-> shifts'[g].status, modulo |-> shifts'[g].modulo,
                        user |-> shifts'[g].user, opening |-> shifts'[g].opening,
                        closingExpected |-> shifts'[g].closingExpected,
                        closingCounted |-> shifts'[g].closingCounted]
    BY <1>3 DEF RowsShaped
  <2>2. QED  BY <1>3, <2>1 DEF RowsShaped
<1>5. FundsPending'
  <2>1. \A g \in Shifts : shifts'[g].status = "none" => shifts[g].status = "none"
    BY <1>3
  <2>2. QED  BY <1>1, <1>2, <2>1 DEF FundsPending, NoFundYet, RefUnused
<1>6. RequestsHold'  BY <1>1, <1>2 DEF RequestsHold, HasCut
<1>7. OneOpenShiftPerModulo'  BY <1>3 DEF OneOpenShiftPerModulo, IsOpen
<1>8. OneMovementPerRef'  BY <1>1 DEF OneMovementPerRef
<1>9. ClosedAsCut'  BY <1>1, <1>3 DEF ClosedAsCut, HasCut
<1>10. QED  BY <1>4, <1>5, <1>6, <1>7, <1>8, <1>9

----------------------------------------------------------------------------
LEMMA StepKeeps ==
  ASSUME RegisterInv, [Next]_vars
  PROVE  RegisterInv'
<1>1. CASE UNCHANGED vars
  BY <1>1 DEF vars, RegisterInv, RowsShaped, FundsPending, NoFundYet, RefUnused, RequestsHold,
       HasCut, OneOpenShiftPerModulo, IsOpen, OneMovementPerRef, ClosedAsCut
<1>2. CASE Next
  BY <1>2, ReadsKeep, CreateKeeps, FundKeeps, MovementKeeps, CutKeeps, CloseKeeps DEF Next
<1>3. QED  BY <1>1, <1>2

\* The invariant of the registers holds in every state: one open shift per
\* register and one movement per key, whatever races.
THEOREM RegisterInvariant == Spec => []RegisterInv
<1>1. Init => RegisterInv  BY InitInv
<1>2. RegisterInv /\ [Next]_vars => RegisterInv'  BY StepKeeps
<1>3. QED  BY <1>1, <1>2, PTL DEF Spec

\* A closed shift has the figures of its one cut, whoever closed it.
THEOREM ClosedShiftAsCut == Spec => []ClosedAsCut
<1>1. RegisterInv => ClosedAsCut  BY DEF RegisterInv
<1>2. QED  BY <1>1, RegisterInvariant, PTL

----------------------------------------------------------------------------
\* No step replaces a cut or touches a closed shift.
FinalStep ==
  \A h \in Shifts :
    /\ HasCut(h) => HasCut(h)' /\ cuts'[h] = cuts[h]
    /\ shifts[h].status = "closed" => shifts'[h] = shifts[h]

LEMMA StepIsFinal ==
  ASSUME RegisterInv, Next
  PROVE  FinalStep
<1>1. PICK r \in Requests :
         \/ UNCHANGED <<shifts, cuts>>
         \/ \E h \in Shifts : OpenCreate(r, h)
         \/ CutInsert(r)
         \/ CloseUpdate(r)
  BY DEF Next, OpenRead, OpenFund, MovementRead, SaleRead, MovementInsert, CountRead, CloseRead,
         CloseSavesCount, CountInsert, CutPreview, Abandon
<1>2. CASE UNCHANGED <<shifts, cuts>>
  BY <1>2 DEF FinalStep, HasCut
<1>3. ASSUME NEW h \in Shifts, OpenCreate(r, h)
      PROVE  FinalStep
  <2>1. shifts[h].status = "none" /\ UNCHANGED cuts  BY <1>3 DEF OpenCreate
  <2>2. \A g \in Shifts : g # h => shifts'[g] = shifts[g]
    BY <1>3 DEF OpenCreate, RegisterInv, RowsShaped
  <2>3. QED  BY <2>1, <2>2 DEF FinalStep, HasCut
<1>4. CASE CutInsert(r)
  <2>1. /\ \A g \in DOMAIN cuts : g \in DOMAIN cuts' /\ cuts'[g] = cuts[g]
        /\ UNCHANGED shifts
    BY <1>4 DEF CutInsert, UniqueCut, HasCut
  <2>2. QED  BY <2>1 DEF FinalStep, HasCut
<1>5. CASE CloseUpdate(r)
  <2> DEFINE h == requests[r].shift
  <2>1. /\ \A g \in Shifts : g # h => shifts'[g] = shifts[g]
        /\ h \in Shifts =>
             shifts'[h] = [status |-> "closed", modulo |-> shifts[h].modulo,
                           user |-> shifts[h].user, opening |-> shifts[h].opening,
                           closingExpected |-> cuts[h].expected,
                           closingCounted |-> cuts[h].counted]
    BY <1>5, CloseWrites
  <2>2. ASSUME h \in Shifts, shifts[h].status = "closed"
        PROVE  shifts'[h] = shifts[h]
    <3>1. /\ shifts[h].closingExpected = cuts[h].expected
          /\ shifts[h].closingCounted = cuts[h].counted
      BY <2>2 DEF RegisterInv, ClosedAsCut
    <3>2. shifts[h] = [status |-> shifts[h].status, modulo |-> shifts[h].modulo,
                       user |-> shifts[h].user, opening |-> shifts[h].opening,
                       closingExpected |-> shifts[h].closingExpected,
                       closingCounted |-> shifts[h].closingCounted]
      BY <2>2 DEF RegisterInv, RowsShaped
    <3>3. QED  BY <2>1, <2>2, <3>1, <3>2
  <2>3. UNCHANGED cuts  BY <1>5 DEF CloseUpdate
  <2>4. QED  BY <2>1, <2>2, <2>3 DEF FinalStep, HasCut
<1>6. QED  BY <1>1, <1>2, <1>3, <1>4, <1>5

\* A cut is final, even when two requests close one shift: the second update
\* writes the figures that are there.
THEOREM CutsAreFinal == Spec => CutIsFinal
<1>1. RegisterInv /\ [Next]_vars => [FinalStep]_vars
  BY StepIsFinal
<1>2. QED
  BY <1>1, RegisterInvariant, PTL DEF Spec, CutIsFinal, FinalStep
----------------------------------------------------------------------------
\* The drawer

\* What movements bring to a drawer or take out of it.
Balance(S) == MapThenSumSet(Signed, S)

\* The sum of ExpectedAmount is one of the functions of FiniteSums.
LEMMA BalanceIs ==
  ASSUME NEW E, IsFiniteSet(E), NEW w, \A m \in E : w[m] = Signed(m)
  PROVE  \E g : SumsUp(g, E, w) /\ Balance(E) = g[E]
<1>. DEFINE Chosen(S) == CHOOSE x \in S : TRUE
            Added(g) == [S \in SUBSET E |->
                           IF S = {} THEN 0 ELSE Signed(Chosen(S)) + g[S \ {Chosen(S)}]]
            sum == CHOOSE g : g = Added(g)
<1>1. ASSUME NEW g
      PROVE  Added(g) = [S \in SUBSET E |->
                           IF S = {} THEN 0 ELSE w[SomeOf(S)] + g[S \ {SomeOf(S)}]]
  <2>1. ASSUME NEW S \in SUBSET E, S # {}
        PROVE  Signed(SomeOf(S)) = w[SomeOf(S)]
    BY <2>1, SomeOfIn
  <2>2. QED  BY <2>1 DEF SomeOf
<1>2. PICK f : SumsUp(f, E, w)  BY SumExists
<1>3. SumsUp(sum, E, w)
  <2>1. f = Added(f)
    <3>. HIDE DEF Added
    <3>1. QED  BY <1>1, <1>2 DEF SumsUp
  <2>2. sum = Added(sum)
    <3>. HIDE DEF Added
    <3>1. QED  BY <2>1
  <2>. HIDE DEF Added, sum
  <2>3. QED  BY <1>1, <2>2 DEF SumsUp
<1>4. Balance(E) = sum[E]
  BY DEF Balance, MapThenSumSet, MapThenFoldSet
<1>5. QED  BY <1>3, <1>4

LEMMA BalanceIsInt ==
  ASSUME NEW E, IsFiniteSet(E), \A m \in E : Signed(m) \in Int
  PROVE  Balance(E) \in Int
<1>1. PICK w : w = [m \in E |-> Signed(m)]  OBVIOUS
<1>2. (\A m \in E : w[m] = Signed(m)) /\ \A m \in E : w[m] \in Int  BY <1>1
<1>3. PICK g : SumsUp(g, E, w) /\ Balance(E) = g[E]  BY <1>2, BalanceIs
<1>4. 0 \in Int /\ \A i, j \in Int : i + j \in Int  OBVIOUS
<1>5. \A S \in SUBSET E : g[S] \in Int  BY <1>2, <1>3, <1>4, SumIn
<1>6. QED  BY <1>3, <1>5

\* One movement more counts once.
LEMMA BalanceOfOneMore ==
  ASSUME NEW E, IsFiniteSet(E), \A m \in E : Signed(m) \in Int,
         NEW m, m \notin E, Signed(m) \in Int
  PROVE  Balance(E \cup {m}) = Balance(E) + Signed(m)
<1>. DEFINE all == E \cup {m}
            w == [x \in all |-> Signed(x)]
<1>1. IsFiniteSet(all)  BY FS_AddElement
<1>2. /\ \A x \in all : w[x] = Signed(x)
      /\ \A x \in all : w[x] \in Int
      /\ E \in SUBSET all /\ m \in all /\ all \ {m} = E
  OBVIOUS
<1>. HIDE DEF all, w
<1>3. PICK g : SumsUp(g, E, w) /\ Balance(E) = g[E]  BY <1>2, BalanceIs
<1>4. PICK h : SumsUp(h, all, w) /\ Balance(all) = h[all]  BY <1>1, <1>2, BalanceIs
<1>5. h[all] = w[m] + h[E]  BY <1>1, <1>2, <1>4, SumRemove
<1>6. h[E] = g[E]
  <2>1. E \in SUBSET all /\ SumsUp(h, all, w) /\ SumsUp(g, E, w) /\ E \in SUBSET E
    BY <1>2, <1>3, <1>4
  <2>2. \A S \in SUBSET E : h[S] = g[S]  BY <1>1, <2>1, SumsAgree
  <2>3. QED  BY <2>1, <2>2
<1>7. Balance(E) \in Int  BY BalanceIsInt
<1>8. Balance(all) = Balance(E) + Signed(m)
  BY <1>2, <1>3, <1>4, <1>5, <1>6, <1>7
<1>9. QED
  <2>. HIDE DEF Balance
  <2>1. QED  BY <1>8 DEF all

LEMMA BalanceOfNone == Balance({}) = 0
<1>1. IsFiniteSet({})  BY FS_EmptySet
<1>2. PICK w : w = [m \in {} |-> Signed(m)]  OBVIOUS
<1>3. PICK g : SumsUp(g, {}, w) /\ Balance({}) = g[{}]  BY <1>1, BalanceIs
<1>4. QED  BY <1>3 DEF SumsUp

\* Only shifts that were opened are moved, counted and closed, and a close previews a
\* count that is stored.
Opened(h) == h \in Shifts /\ shifts[h].status # "none"

Closing == {"closing", "closeCount", "preview"}

AtShift == {"fund", "count", "cut", "close"} \cup Closing

OnlyOpened ==
  /\ \A m \in movements : Opened(m.shift) /\ (m.ref \in Shifts => IsFund(m))
  /\ \A r \in Requests :
       /\ requests[r].pc \in {"move", "sale"} => Opened(requests[r].movement.shift)
       /\ requests[r].pc \in AtShift => Opened(requests[r].shift)
       /\ requests[r].pc = "preview" => counts[requests[r].shift] # None

\* The drawer holds the opening fund, whether or not it has a row of its own, and what the
\* movements brought: those that count and those put in by hand as an opening fund.
DrawerBalances ==
  \A h \in Shifts : Opened(h) =>
    drawer[h] = shifts[h].opening + Balance(Counting(h)) + Balance(FundsByHand(h))

DrawerInv ==
  /\ TypeOK
  /\ IsFiniteSet(movements)
  /\ OnlyOpened
  /\ DrawerBalances

LEMMA RequestFields ==
  ASSUME NEW request \in Request
  PROVE  /\ request.pc = "open" =>
              request.modulo \in Modulos /\ request.user \in Users /\ request.opening \in Int
         /\ request.pc = "fund" => request.shift \in Shifts
         /\ request.pc \in {"move", "sale"} => request.movement \in Movement
         /\ request.pc = "count" => request.shift \in Shifts /\ request.total \in Nat
         /\ request.pc \in Closing =>
              /\ request.shift \in Shifts /\ request.total \in Nat
              /\ request.notes \in BOOLEAN /\ request.seen \in SUBSET Movement
         /\ request.pc \in {"cut", "close"} => request.shift \in Shifts /\ request.cut \in Cut
BY DEF Request, Closing

\* A request goes on with the close of its shift.
LEMMA GoesOn ==
  ASSUME NEW was \in Request, was.pc \in Closing, NEW pc \in Closing
  PROVE  LET new == GoOn(was, pc)
         IN /\ new \in Request /\ new.pc = pc
            /\ new.shift = was.shift /\ new.total = was.total
            /\ new.notes = was.notes /\ new.seen = was.seen
BY DEF Request, Closing, GoOn

LEMMA MovementFields ==
  ASSUME NEW m \in Movement
  PROVE  m.shift \in Shifts /\ m.ref \in Keys \cup Sales \cup Shifts /\ Signed(m) \in Int
BY DEF Movement, Signed

LEMMA CountingFacts ==
  ASSUME DrawerInv, NEW h
  PROVE  /\ IsFiniteSet(Counting(h))
         /\ \A m \in Counting(h) : Signed(m) \in Int
         /\ Balance(Counting(h)) \in Int
         /\ IsFiniteSet(FundsByHand(h))
         /\ \A m \in FundsByHand(h) : Signed(m) \in Int
         /\ Balance(FundsByHand(h)) \in Int
<1>1. ASSUME NEW S \in SUBSET movements
      PROVE  IsFiniteSet(S) /\ (\A m \in S : Signed(m) \in Int) /\ Balance(S) \in Int
  <2>1. IsFiniteSet(S)  BY FS_Subset DEF DrawerInv
  <2>2. \A m \in S : Signed(m) \in Int
    BY MovementFields DEF DrawerInv, TypeOK
  <2>3. QED  BY <2>1, <2>2, BalanceIsInt
<1>2. Counting(h) \in SUBSET movements /\ FundsByHand(h) \in SUBSET movements
  BY DEF Counting, FundsByHand
<1>3. QED  BY <1>1, <1>2

LEMMA IdleIsRequest == Idle \in Request /\ Idle.pc = "idle"
BY DEF Idle, Request

\* A request that moves on stays well typed and near opened shifts.
Sound(request) ==
  /\ request \in Request
  /\ request.pc \in {"move", "sale"} => Opened(request.movement.shift)
  /\ request.pc \in AtShift => Opened(request.shift)

\* The rows that the drawer depends on stay, and only a count may change.
LEMMA DrawerStands ==
  ASSUME RegisterInv, DrawerInv, NEW r \in Requests, NEW request,
         Become(r, request), Sound(request),
         UNCHANGED <<shifts, movements, cuts, drawer>>,
         counts' \in [Shifts -> Nat \cup {None}],
         \A h \in Shifts : counts[h] # None => counts'[h] # None,
         request.pc = "preview" => counts'[request.shift] # None
  PROVE  DrawerInv'
<1>1. /\ requests'[r] = request
      /\ \A q \in Requests : q # r => requests'[q] = requests[q]
  BY Moved DEF RegisterInv
<1>2. TypeOK'
  BY <1>1 DEF DrawerInv, TypeOK, Sound
<1>3. OnlyOpened'
  <2>1. \A m \in movements' : Opened(m.shift)' /\ (m.ref \in Shifts => IsFund(m))
    BY DEF DrawerInv, OnlyOpened, Opened
  <2>2. ASSUME NEW q \in Requests
        PROVE  /\ requests'[q].pc \in {"move", "sale"} => Opened(requests[q].movement.shift)'
               /\ requests'[q].pc \in AtShift => Opened(requests[q].shift)'
               /\ requests'[q].pc = "preview" => counts'[requests'[q].shift] # None
    BY <1>1 DEF DrawerInv, OnlyOpened, AtShift, Closing, Opened, Sound
  <2>3. QED  BY <2>1, <2>2 DEF OnlyOpened
<1>4. DrawerBalances'
  BY DEF DrawerInv, DrawerBalances, Opened, Counting, FundsByHand
<1>5. QED  BY <1>2, <1>3, <1>4 DEF DrawerInv

LEMMA DrawerReadsKeep ==
  ASSUME RegisterInv, DrawerInv, NEW r \in Requests,
         \/ \E modulo \in Modulos, user \in Users, opening \in Funds :
              OpenRead(r, modulo, user, opening)
         \/ \E h \in Shifts, key \in Keys, type \in Type,
               direction \in {"in", "out"}, amount \in Amounts :
              MovementRead(r, h, key, type, direction, amount)
         \/ \E h \in Shifts, sale \in Sales, amount \in Amounts : SaleRead(r, h, sale, amount)
         \/ \E h \in Shifts, total \in Counted : CountRead(r, h, total)
         \/ \E h \in Shifts, total \in Counted, notes \in BOOLEAN : CloseRead(r, h, total, notes)
         \/ CloseSavesCount(r)
         \/ Abandon(r)
  PROVE  DrawerInv'
<1>1. /\ UNCHANGED <<shifts, movements, counts, cuts, drawer>>
      /\ counts' \in [Shifts -> Nat \cup {None}]
      /\ \A h \in Shifts : counts[h] # None => counts'[h] # None
  BY DEF OpenRead, MovementRead, SaleRead, CountRead, CloseRead, CloseSavesCount, Abandon,
         DrawerInv, TypeOK
<1>2. ASSUME NEW modulo \in Modulos, NEW user \in Users, NEW opening \in Funds,
             OpenRead(r, modulo, user, opening)
      PROVE  DrawerInv'
  <2> DEFINE request == [pc |-> "open", modulo |-> modulo, user |-> user, opening |-> opening]
  <2>1. request \in Request /\ request.pc = "open"
    BY AmountsAssumption DEF Request
  <2>2. Become(r, request)  BY <1>2 DEF OpenRead
  <2> HIDE DEF request
  <2>3. QED  BY <1>1, <2>1, <2>2, DrawerStands DEF Sound, AtShift, Closing
<1>3. ASSUME NEW h \in Shifts, NEW ref \in Keys \cup Sales, NEW type \in Type,
             NEW direction \in {"in", "out"}, NEW amount \in Amounts,
             \/ ref \in Keys /\ MovementRead(r, h, ref, type, direction, amount)
             \/ type = "other" /\ direction = "in" /\ SaleRead(r, h, ref, amount)
      PROVE  DrawerInv'
  <2> DEFINE movement == [ref |-> ref, shift |-> h, type |-> type,
                          direction |-> direction, amount |-> amount]
  <2>1. PICK pc \in {"move", "sale"} : Become(r, [pc |-> pc, movement |-> movement])
    BY <1>3 DEF MovementRead, SaleRead
  <2>2. movement \in Movement /\ movement.shift = h
    BY AmountsAssumption DEF Movement
  <2>3. Opened(h)  BY <1>3 DEF MovementRead, SaleRead, IsOpen, Opened
  <2> HIDE DEF movement
  <2>4. PICK request : request = [pc |-> pc, movement |-> movement]  OBVIOUS
  <2>5. request \in Request /\ request.pc = pc /\ request.movement = movement
    BY <2>2, <2>4 DEF Request
  <2>6. Sound(request)  BY <2>1, <2>2, <2>3, <2>5 DEF Sound, AtShift, Closing
  <2>7. QED  BY <1>1, <2>1, <2>4, <2>5, <2>6, DrawerStands
<1>4. ASSUME NEW h \in Shifts, NEW total \in Nat, NEW notes \in BOOLEAN,
             NEW seen \in SUBSET Movement, IsOpen(h), NEW request,
             \/ request = [pc |-> "count", shift |-> h, total |-> total]
             \/ request = [pc |-> "closing", shift |-> h, total |-> total, notes |-> notes,
                           seen |-> seen],
             Become(r, request)
      PROVE  DrawerInv'
  <2>1. request \in Request /\ request.pc \in {"count", "closing"} /\ request.shift = h
    BY <1>4 DEF Request
  <2>2. Sound(request)  BY <1>4, <2>1 DEF Sound, AtShift, Closing, IsOpen, Opened
  <2>3. QED  BY <1>1, <1>4, <2>1, <2>2, DrawerStands
<1>5. ASSUME NEW h \in Shifts, NEW total \in Counted, CountRead(r, h, total)
      PROVE  DrawerInv'
  BY <1>4, <1>5, AmountsAssumption DEF CountRead
<1>6. ASSUME NEW h \in Shifts, NEW total \in Counted, NEW notes \in BOOLEAN,
             CloseRead(r, h, total, notes)
      PROVE  DrawerInv'
  <2>1. Counting(h) \in SUBSET Movement
    BY DEF Counting, DrawerInv, TypeOK
  <2>2. QED  BY <1>4, <1>6, <2>1, AmountsAssumption DEF CloseRead
<1>7. CASE CloseSavesCount(r)
  <2> DEFINE request == GoOn(requests[r], "closeCount")
  <2>1. requests[r] \in Request /\ requests[r].pc = "closing" /\ Become(r, request)
    BY <1>7 DEF CloseSavesCount, DrawerInv, TypeOK
  <2>2. /\ request \in Request /\ request.pc = "closeCount"
        /\ request.shift = requests[r].shift
    BY <2>1, GoesOn DEF Closing
  <2> HIDE DEF request
  <2>3. Sound(request)
    BY <2>1, <2>2 DEF Sound, AtShift, Closing, DrawerInv, OnlyOpened
  <2>4. QED  BY <1>1, <2>1, <2>2, <2>3, DrawerStands
<1>8. CASE Abandon(r)
  BY <1>1, <1>8, IdleIsRequest, DrawerStands DEF Abandon, Sound, AtShift, Closing
<1>9. QED  BY <1>2, <1>3, <1>5, <1>6, <1>7, <1>8 DEF Type

LEMMA CountInsertKeeps ==
  ASSUME RegisterInv, DrawerInv, NEW r \in Requests, CountInsert(r)
  PROVE  DrawerInv'
<1>. DEFINE h == requests[r].shift
            preview == GoOn(requests[r], "preview")
<1>1. requests[r].pc \in {"count", "closeCount"} /\ requests[r] \in Request
  BY DEF CountInsert, DrawerInv, TypeOK
<1>2. h \in Shifts /\ requests[r].total \in Nat /\ Opened(h)
  BY <1>1, RequestFields DEF DrawerInv, OnlyOpened, AtShift, Closing
<1>3. /\ counts' = [counts EXCEPT ![h] = requests[r].total]
      /\ UNCHANGED <<shifts, movements, cuts, drawer>>
  BY DEF CountInsert
<1>4. /\ counts' \in [Shifts -> Nat \cup {None}]
      /\ counts'[h] # None
      /\ \A g \in Shifts : counts[g] # None => counts'[g] # None
  BY <1>2, <1>3, IdsAssumption DEF DrawerInv, TypeOK
<1>5. requests[r].pc = "closeCount" =>
        preview \in Request /\ preview.pc = "preview" /\ preview.shift = h
  BY <1>1, GoesOn DEF Closing
<1>6. (requests[r].pc = "closeCount" /\ Become(r, preview)) \/ Become(r, Idle)
  BY DEF CountInsert
<1>. HIDE DEF preview
<1>7. CASE requests[r].pc = "closeCount" /\ Become(r, preview)
  BY <1>2, <1>3, <1>4, <1>5, <1>7, DrawerStands DEF Sound, AtShift, Closing
<1>8. CASE Become(r, Idle)
  BY <1>3, <1>4, <1>8, IdleIsRequest, DrawerStands DEF Sound, AtShift, Closing
<1>9. QED  BY <1>6, <1>7, <1>8

LEMMA PreviewKeeps ==
  ASSUME RegisterInv, DrawerInv, NEW r \in Requests, CutPreview(r)
  PROVE  DrawerInv'
<1>. DEFINE h == requests[r].shift
            cut == [expected |-> ExpectedAmount(h), counted |-> counts[h],
                    notes |-> requests[r].notes, covers |-> Counting(h),
                    seen |-> requests[r].seen, total |-> requests[r].total]
            request == [pc |-> "cut", shift |-> h, cut |-> cut]
<1>1. requests[r].pc = "preview" /\ requests[r] \in Request
  BY DEF CutPreview, DrawerInv, TypeOK
<1>2. /\ h \in Shifts /\ requests[r].notes \in BOOLEAN /\ counts[h] \in Nat
      /\ requests[r].seen \in SUBSET Movement /\ requests[r].total \in Nat
  BY <1>1, RequestFields DEF DrawerInv, OnlyOpened, TypeOK, Closing
<1>3. ExpectedAmount(h) \in Int
  <2>. HIDE DEF h
  <2>1. shifts[h].opening \in Int
    BY <1>2 DEF DrawerInv, TypeOK, Shift
  <2>2. Balance(Counting(h)) \in Int
    BY CountingFacts
  <2>3. ExpectedAmount(h) = shifts[h].opening + Balance(Counting(h))
    BY DEF ExpectedAmount, Balance
  <2>4. QED  BY <2>1, <2>2, <2>3
<1>4. Counting(h) \in SUBSET Movement
  BY DEF Counting, DrawerInv, TypeOK
<1>5. Become(r, request) /\ UNCHANGED <<shifts, movements, counts, cuts, drawer>>
  BY DEF CutPreview
<1>. HIDE DEF h
<1>6. cut \in Cut
  BY <1>2, <1>3, <1>4 DEF Cut
<1>. HIDE DEF cut
<1>7. request \in Request /\ request.pc = "cut"
  BY <1>2, <1>6 DEF Request
<1>8. request.shift = h /\ Opened(h)
  BY <1>1 DEF request, h, DrawerInv, OnlyOpened, AtShift, Closing
<1>. HIDE DEF request
<1>9. QED
  BY <1>5, <1>7, <1>8, DrawerStands DEF Sound, AtShift, Closing, DrawerInv, TypeOK

\* A fund's row does not count: the opening amount of the shift does.
LEMMA FundBalances ==
  ASSUME RegisterInv, DrawerInv, NEW r \in Requests, OpenFund(r)
  PROVE  DrawerInv'
<1>. DEFINE h == requests[r].shift
            m == [ref |-> h, shift |-> h, type |-> "opening_fund",
                  direction |-> "in", amount |-> shifts[h].opening]
<1>1. h \in Shifts /\ Opened(h)
  BY RequestFields DEF OpenFund, DrawerInv, TypeOK, OnlyOpened, AtShift, Closing
<1>2. shifts[h].opening \in Int
  BY <1>1 DEF DrawerInv, TypeOK, Shift
<1>3. /\ movements' = movements \cup {m} /\ Become(r, Idle)
      /\ UNCHANGED <<shifts, counts, cuts, drawer>>
  BY DEF OpenFund
<1>4. m \in Movement /\ m.ref \in Shifts /\ m.shift = h /\ IsFund(m)
  <2>. HIDE DEF h
  <2>1. QED  BY <1>1, <1>2 DEF Movement, Type, IsFund
<1>. HIDE DEF m, h
<1>5. /\ requests'[r] = Idle
      /\ \A q \in Requests : q # r => requests'[q] = requests[q]
  BY <1>3, Moved DEF RegisterInv
<1>6. TypeOK' /\ IsFiniteSet(movements')
  BY <1>3, <1>4, <1>5, IdleIsRequest, FS_AddElement DEF DrawerInv, TypeOK
<1>7. OnlyOpened'
  <2>1. \A p \in movements' : Opened(p.shift)' /\ (p.ref \in Shifts => IsFund(p))
    BY <1>1, <1>3, <1>4 DEF DrawerInv, OnlyOpened, Opened
  <2>2. QED
    BY <1>3, <1>5, <2>1, IdleIsRequest DEF DrawerInv, OnlyOpened, AtShift, Closing, Opened
<1>8. \A g : Counting(g)' = Counting(g) /\ FundsByHand(g)' = FundsByHand(g)
  BY <1>3, <1>4 DEF Counting, FundsByHand
<1>9. DrawerBalances'
  BY <1>3, <1>8 DEF DrawerInv, DrawerBalances, Opened
<1>10. QED  BY <1>6, <1>7, <1>9 DEF DrawerInv

\* A movement that is stored moves the cash.
LEMMA MovementBalances ==
  ASSUME RegisterInv, DrawerInv, NEW r \in Requests, MovementInsert(r)
  PROVE  DrawerInv'
<1>. DEFINE m == requests[r].movement
            h == m.shift
<1>1. requests[r].pc \in {"move", "sale"} /\ requests[r] \in Request
  BY DEF MovementInsert, DrawerInv, TypeOK
<1>2. /\ m \in Movement /\ h \in Shifts /\ Signed(m) \in Int
      /\ m.ref \in Keys \cup Sales /\ m.ref \notin Shifts
      /\ Opened(h)
  BY <1>1, RequestFields, MovementFields, IdsAssumption
  DEF DrawerInv, OnlyOpened, AtShift, Closing, RegisterInv, RequestsHold
<1>3. Become(r, Idle) /\ UNCHANGED <<shifts, counts, cuts>>
  BY DEF MovementInsert
<1>4. CASE UNCHANGED <<movements, drawer>>
  BY <1>3, <1>4, IdleIsRequest, DrawerStands DEF Sound, AtShift, Closing, DrawerInv, TypeOK
<1>5. CASE /\ RefUnused(m.ref)
           /\ movements' = movements \cup {m}
           /\ drawer' = [drawer EXCEPT ![h] = @ + Signed(m)]
  <2>. HIDE DEF m
  <2>1. /\ requests'[r] = Idle
        /\ \A q \in Requests : q # r => requests'[q] = requests[q]
    BY <1>3, Moved DEF RegisterInv
  <2>2. drawer' \in [Shifts -> Int]
    BY <1>2, <1>5 DEF DrawerInv, TypeOK
  <2>3. TypeOK' /\ IsFiniteSet(movements')
    BY <1>2, <1>3, <1>5, <2>1, <2>2, IdleIsRequest, FS_AddElement DEF DrawerInv, TypeOK
  <2>4. OnlyOpened'
    <3>1. \A p \in movements' : Opened(p.shift)' /\ (p.ref \in Shifts => IsFund(p))
      BY <1>2, <1>3, <1>5 DEF DrawerInv, OnlyOpened, Opened
    <3>2. QED
      BY <1>3, <2>1, <3>1, IdleIsRequest DEF DrawerInv, OnlyOpened, AtShift, Closing, Opened
  <2>5. ASSUME NEW g \in Shifts, Opened(g)
        PROVE  drawer'[g] = shifts'[g].opening + Balance(Counting(g)') + Balance(FundsByHand(g)')
    <3>1. /\ drawer[g] = shifts[g].opening + Balance(Counting(g)) + Balance(FundsByHand(g))
          /\ shifts'[g] = shifts[g]
          /\ Balance(Counting(g)) \in Int /\ Balance(FundsByHand(g)) \in Int
      BY <1>3, <2>5, CountingFacts DEF DrawerInv, DrawerBalances
    <3>2. CASE g = h
      <4>1. drawer'[g] = drawer[g] + Signed(m) /\ shifts[g].opening \in Int
        BY <1>5, <2>5, <3>2 DEF DrawerInv, TypeOK, Shift
      <4>2. CASE IsFund(m)
        <5>1. /\ FundsByHand(g)' = FundsByHand(g) \cup {m} /\ m \notin FundsByHand(g)
              /\ Counting(g)' = Counting(g)
          BY <1>2, <1>5, <3>2, <4>2 DEF Counting, FundsByHand, RefUnused
        <5>2. Balance(FundsByHand(g) \cup {m}) = Balance(FundsByHand(g)) + Signed(m)
          BY <1>2, <5>1, CountingFacts, BalanceOfOneMore
        <5>3. QED  BY <1>2, <3>1, <4>1, <5>1, <5>2
      <4>3. CASE ~ IsFund(m)
        <5>1. /\ Counting(g)' = Counting(g) \cup {m} /\ m \notin Counting(g)
              /\ FundsByHand(g)' = FundsByHand(g)
          BY <1>2, <1>5, <3>2, <4>3 DEF Counting, FundsByHand, RefUnused
        <5>2. Balance(Counting(g) \cup {m}) = Balance(Counting(g)) + Signed(m)
          BY <1>2, <5>1, CountingFacts, BalanceOfOneMore
        <5>3. QED  BY <1>2, <3>1, <4>1, <5>1, <5>2
      <4>4. QED  BY <4>2, <4>3
    <3>3. CASE g # h
      <4>1. Counting(g)' = Counting(g) /\ FundsByHand(g)' = FundsByHand(g)
        BY <1>5, <3>3 DEF Counting, FundsByHand
      <4>2. drawer'[g] = drawer[g]
        BY <1>5, <2>5, <3>3 DEF DrawerInv, TypeOK
      <4>3. QED  BY <3>1, <4>1, <4>2
    <3>4. QED  BY <3>2, <3>3
  <2>6. DrawerBalances'
    BY <1>3, <2>5 DEF DrawerBalances, Opened
  <2>7. QED  BY <2>3, <2>4, <2>6 DEF DrawerInv
<1>6. QED  BY <1>4, <1>5 DEF MovementInsert, UniqueRef

\* The shift that is opened had no movements: nobody could move it.
LEMMA CreateBalances ==
  ASSUME RegisterInv, DrawerInv, NEW r \in Requests, NEW h \in Shifts, OpenCreate(r, h)
  PROVE  DrawerInv'
<1>. DEFINE was == requests[r]
            new == [NoShift EXCEPT !.status = "open", !.modulo = was.modulo,
                                   !.user = was.user, !.opening = was.opening]
<1>1. was \in Request /\ was.pc = "open" /\ shifts[h].status = "none"
  BY DEF OpenCreate, DrawerInv, TypeOK
<1>2. was.modulo \in Modulos /\ was.user \in Users /\ was.opening \in Int
  BY <1>1, RequestFields
<1>3. new = [status |-> "open", modulo |-> was.modulo, user |-> was.user,
             opening |-> was.opening, closingExpected |-> 0, closingCounted |-> 0]
  BY OpenedRow
<1>4. shifts' = [shifts EXCEPT ![h] = new] /\ drawer' = [drawer EXCEPT ![h] = was.opening]
      /\ UNCHANGED <<movements, counts, cuts>>
  BY DEF OpenCreate
<1>5. PICK request \in {[pc |-> "fund", shift |-> h], Idle} : Become(r, request)
  BY DEF OpenCreate
<1>6. /\ request \in Request /\ request.pc \in {"fund", "idle"}
      /\ request.pc = "fund" => request.shift = h
  BY <1>5, IdleIsRequest DEF Request
<1>7. /\ requests'[r] = request
      /\ \A q \in Requests : q # r => requests'[q] = requests[q]
  BY <1>5, Moved DEF RegisterInv
<1>. HIDE DEF was, new
<1>8. new \in Shift /\ new.status = "open" /\ new.opening = was.opening
  BY <1>2, <1>3 DEF Shift
<1>9. shifts' \in [Shifts -> Shift] /\ drawer' \in [Shifts -> Int]
  BY <1>2, <1>4, <1>8 DEF DrawerInv, TypeOK
<1>10. TypeOK' /\ IsFiniteSet(movements')
  BY <1>4, <1>6, <1>7, <1>9 DEF DrawerInv, TypeOK
<1>11. /\ shifts'[h] = new /\ drawer'[h] = was.opening
       /\ \A g \in Shifts : g # h => shifts'[g] = shifts[g] /\ drawer'[g] = drawer[g]
  BY <1>4 DEF DrawerInv, TypeOK
<1>12. Opened(h)' /\ \A g : Opened(g) => Opened(g)'
  BY <1>8, <1>11 DEF Opened
<1>13. OnlyOpened'
  <2>1. \A m \in movements' : Opened(m.shift)' /\ (m.ref \in Shifts => IsFund(m))
    BY <1>4, <1>12 DEF DrawerInv, OnlyOpened
  <2>2. ASSUME NEW q \in Requests, q # r
        PROVE  /\ requests'[q].pc \in {"move", "sale"} => Opened(requests[q].movement.shift)'
               /\ requests'[q].pc \in AtShift => Opened(requests[q].shift)'
               /\ requests'[q] = requests[q]
               /\ requests'[q].pc = "preview" => counts'[requests'[q].shift] # None
    BY <1>4, <1>7, <1>12, <2>2 DEF DrawerInv, OnlyOpened
  <2>3. /\ requests'[r].pc \notin {"move", "sale", "preview"}
        /\ requests'[r].pc \in AtShift => requests'[r].shift = h
    BY <1>6, <1>7 DEF AtShift, Closing
  <2>4. \A q \in Requests :
          requests'[q].pc \in {"move", "sale"} =>
            /\ requests'[q].movement.shift \in Shifts
            /\ shifts'[requests'[q].movement.shift].status # "none"
    BY <2>2, <2>3 DEF Opened
  <2>5. \A q \in Requests :
          requests'[q].pc \in AtShift =>
            /\ requests'[q].shift \in Shifts
            /\ shifts'[requests'[q].shift].status # "none"
    BY <1>12, <2>2, <2>3 DEF Opened
  <2>6. \A q \in Requests : requests'[q].pc = "preview" => counts'[requests'[q].shift] # None
    BY <2>2, <2>3
  <2>7. QED  BY <2>1, <2>4, <2>5, <2>6 DEF OnlyOpened, Opened
<1>14. \A g : Counting(g)' = Counting(g) /\ FundsByHand(g)' = FundsByHand(g)
  BY <1>4 DEF Counting, FundsByHand
<1>15. Balance(Counting(h)) = 0 /\ Balance(FundsByHand(h)) = 0
  <2>1. ~ Opened(h)  BY <1>1 DEF Opened
  <2>2. Counting(h) = {} /\ FundsByHand(h) = {}
    BY <2>1 DEF Counting, FundsByHand, DrawerInv, OnlyOpened
  <2>3. QED  BY <2>2, BalanceOfNone
<1>16. DrawerBalances'
  <2>1. ASSUME NEW g \in Shifts, Opened(g)'
        PROVE  drawer'[g] = shifts'[g].opening + Balance(Counting(g)') + Balance(FundsByHand(g)')
    <3>1. CASE g = h
      BY <1>2, <1>8, <1>11, <1>14, <1>15, <3>1
    <3>2. CASE g # h
      <4>1. Opened(g)  BY <1>11, <2>1, <3>2 DEF Opened
      <4>2. QED  BY <1>11, <1>14, <3>2, <4>1 DEF DrawerInv, DrawerBalances
    <3>3. QED  BY <3>1, <3>2
  <2>2. QED  BY <2>1 DEF DrawerBalances
<1>17. QED  BY <1>10, <1>13, <1>16 DEF DrawerInv

\* The cut of a request, and the shift it closes, leave the drawer alone.
LEMMA CutBalances ==
  ASSUME RegisterInv, DrawerInv, NEW r \in Requests, CutInsert(r)
  PROVE  DrawerInv'
<1>. DEFINE h == requests[r].shift
            cut == requests[r].cut
            request == [pc |-> "close", shift |-> h, cut |-> cut]
<1>1. requests[r].pc = "cut" /\ requests[r] \in Request
  BY DEF CutInsert, DrawerInv, TypeOK
<1>2. h \in Shifts /\ cut \in Cut /\ Opened(h)
  BY <1>1, RequestFields DEF DrawerInv, OnlyOpened, AtShift, Closing
<1>3. requests[r] = [pc |-> "cut", shift |-> h, cut |-> cut]
  BY <1>1 DEF RegisterInv, RequestsHold
<1>4. [requests[r] EXCEPT !.pc = "close"] = request
  BY <1>3
<1>5. /\ cuts' = [g \in DOMAIN cuts \cup {h} |-> IF g = h THEN cut ELSE cuts[g]]
      /\ Become(r, request)
      /\ UNCHANGED <<shifts, movements, counts, drawer>>
  BY <1>4 DEF CutInsert
<1>. HIDE DEF h, cut
<1>6. request \in Request /\ request.pc = "close" /\ request.shift = h
  BY <1>2 DEF Request
<1>. HIDE DEF request
<1>7. /\ requests'[r] = request
      /\ \A q \in Requests : q # r => requests'[q] = requests[q]
  BY <1>5, Moved DEF RegisterInv
<1>8. TypeOK' /\ IsFiniteSet(movements')
  <2>1. DOMAIN cuts' \subseteq Shifts /\ \A g \in DOMAIN cuts' : cuts'[g] \in Cut
    BY <1>2, <1>5 DEF DrawerInv, TypeOK
  <2>2. QED  BY <1>5, <1>6, <1>7, <2>1 DEF DrawerInv, TypeOK
<1>9. OnlyOpened'
  BY <1>2, <1>5, <1>6, <1>7 DEF DrawerInv, OnlyOpened, AtShift, Closing, Opened
<1>10. DrawerBalances'
  BY <1>5 DEF DrawerInv, DrawerBalances, Opened, Counting, FundsByHand
<1>11. QED  BY <1>8, <1>9, <1>10 DEF DrawerInv

LEMMA CloseBalances ==
  ASSUME RegisterInv, DrawerInv, NEW r \in Requests, CloseUpdate(r)
  PROVE  DrawerInv'
<1>. DEFINE h == requests[r].shift
            new == [status |-> "closed", modulo |-> shifts[h].modulo, user |-> shifts[h].user,
                    opening |-> shifts[h].opening, closingExpected |-> cuts[h].expected,
                    closingCounted |-> cuts[h].counted]
<1>1. h \in Shifts /\ Opened(h)
  BY RequestFields DEF CloseUpdate, DrawerInv, TypeOK, OnlyOpened, AtShift, Closing
<1>2. /\ shifts' = [g \in Shifts |-> shifts'[g]]
      /\ \A g \in Shifts : g # h => shifts'[g] = shifts[g]
      /\ shifts'[h] = new
      /\ HasCut(h)
  BY <1>1, CloseWrites
<1>3. Become(r, Idle) /\ UNCHANGED <<movements, counts, cuts, drawer>>
  BY DEF CloseUpdate
<1>. HIDE DEF h
<1>4. shifts[h] \in Shift /\ cuts[h].expected \in Int /\ cuts[h].counted \in Nat
  BY <1>1, <1>2 DEF DrawerInv, TypeOK, HasCut, Cut
<1>5. new \in Shift /\ new.status = "closed" /\ new.opening = shifts[h].opening
  BY <1>4 DEF Shift
<1>. HIDE DEF new
<1>6. shifts' \in [Shifts -> Shift]
  BY <1>2, <1>5 DEF DrawerInv, TypeOK
<1>7. /\ requests'[r] = Idle
      /\ \A q \in Requests : q # r => requests'[q] = requests[q]
  BY <1>3, Moved DEF RegisterInv
<1>8. TypeOK' /\ IsFiniteSet(movements')
  BY <1>3, <1>6, <1>7, IdleIsRequest DEF DrawerInv, TypeOK
<1>9. \A g : Opened(g) => Opened(g)'
  BY <1>2, <1>5 DEF Opened
<1>10. OnlyOpened'
  <2>1. \A m \in movements' : Opened(m.shift)' /\ (m.ref \in Shifts => IsFund(m))
    BY <1>3, <1>9 DEF DrawerInv, OnlyOpened
  <2>2. ASSUME NEW q \in Requests
        PROVE  /\ requests'[q].pc \in {"move", "sale"} => Opened(requests[q].movement.shift)'
               /\ requests'[q].pc \in AtShift => Opened(requests[q].shift)'
               /\ requests'[q].pc \in {"move", "sale"} \cup AtShift =>
                    requests'[q] = requests[q]
               /\ requests'[q].pc = "preview" => counts'[requests'[q].shift] # None
    BY <1>3, <1>7, <1>9, IdleIsRequest DEF DrawerInv, OnlyOpened, AtShift, Closing
  <2>3. QED  BY <2>1, <2>2 DEF OnlyOpened, Opened
<1>11. DrawerBalances'
  <2>1. ASSUME NEW g \in Shifts, Opened(g)'
        PROVE  drawer'[g] = shifts'[g].opening + Balance(Counting(g)') + Balance(FundsByHand(g)')
    <3>1. /\ Counting(g)' = Counting(g) /\ FundsByHand(g)' = FundsByHand(g)
          /\ drawer' = drawer
      BY <1>3 DEF Counting, FundsByHand
    <3>2. CASE g = h
      BY <1>1, <1>2, <1>5, <3>1, <3>2 DEF DrawerInv, DrawerBalances
    <3>3. CASE g # h
      <4>1. Opened(g)  BY <1>2, <2>1, <3>3 DEF Opened
      <4>2. QED  BY <1>2, <3>1, <3>3, <4>1 DEF DrawerInv, DrawerBalances
    <3>4. QED  BY <3>2, <3>3
  <2>2. QED  BY <2>1 DEF DrawerBalances
<1>12. QED  BY <1>8, <1>10, <1>11 DEF DrawerInv

----------------------------------------------------------------------------
LEMMA InitBalances ==
  ASSUME Init
  PROVE  DrawerInv
<1>1. NoShift \in Shift /\ NoShift.status = "none"
  BY DEF NoShift, Shift
<1>2. /\ shifts = [h \in Shifts |-> NoShift]
      /\ movements = {}
      /\ counts = [h \in Shifts |-> None]
      /\ cuts = <<>>
      /\ requests = [r \in Requests |-> Idle]
      /\ drawer = [h \in Shifts |-> 0]
  BY DEF Init
<1>. HIDE DEF NoShift
<1>3. TypeOK  BY <1>1, <1>2, IdleIsRequest DEF TypeOK
<1>4. IsFiniteSet(movements)  BY <1>2, FS_EmptySet
<1>5. OnlyOpened  BY <1>2, IdleIsRequest DEF OnlyOpened, AtShift, Closing
<1>6. DrawerBalances  BY <1>1, <1>2 DEF DrawerBalances, Opened
<1>7. QED  BY <1>3, <1>4, <1>5, <1>6 DEF DrawerInv

LEMMA StepBalances ==
  ASSUME RegisterInv, DrawerInv, [Next]_vars
  PROVE  DrawerInv'
<1>1. CASE UNCHANGED vars
  BY <1>1 DEF vars, DrawerInv, TypeOK, OnlyOpened, Opened, DrawerBalances, Counting, FundsByHand
<1>2. CASE Next
  BY <1>2, DrawerReadsKeep, CountInsertKeeps, PreviewKeeps, CreateBalances, FundBalances,
     MovementBalances, CutBalances, CloseBalances DEF Next
<1>3. QED  BY <1>1, <1>2

\* The drawer of an open or closed shift holds its opening fund and the balance of its
\* movements: those that count, and those put in by hand as an opening fund.  Whoever
\* stores them, wherever a request stops, and whatever sign an amount has.
THEOREM DrawerInvariant == Spec => []DrawerInv
<1>1. Init => DrawerInv  BY InitBalances
<1>2. RegisterInv /\ DrawerInv /\ [Next]_vars => DrawerInv'  BY StepBalances
<1>3. QED  BY <1>1, <1>2, RegisterInvariant, PTL DEF Spec

\* The rows of the registers are well typed.
THEOREM RegisterTypeCorrect == Spec => []TypeOK
<1>1. DrawerInv => TypeOK  BY DEF DrawerInv
<1>2. QED  BY <1>1, DrawerInvariant, PTL

\* A preview that becomes a cut expects what the drawer holds, less the funds by hand.
PreviewIsDrawer ==
  \A r \in Requests :
    requests[r].pc = "preview" /\ requests'[r].pc = "cut" =>
      requests'[r].cut.expected =
        drawer[requests[r].shift] - Balance(FundsByHand(requests[r].shift))

\* No step but the preview computes a cut.
LEMMA StepsOfRequests ==
  ASSUME Next
  PROVE  \E q \in Requests :
           \/ CutPreview(q)
           \/ \E request : Become(q, request) /\ request.pc # "cut"
           \/ requests[q].pc = "cut" /\ \E request : Become(q, request)
<1>. DEFINE Elsewhere(q) == \E request : Become(q, request) /\ request.pc # "cut"
<1>1. \A q, modulo, user, opening : OpenRead(q, modulo, user, opening) => Elsewhere(q)
  BY DEF OpenRead
<1>2. \A q, h : OpenCreate(q, h) => Elsewhere(q)
  BY DEF OpenCreate, Idle
<1>3. \A q, h, key, type, direction, amount :
        MovementRead(q, h, key, type, direction, amount) => Elsewhere(q)
  BY DEF MovementRead
<1>4. \A q, h, sale, amount : SaleRead(q, h, sale, amount) => Elsewhere(q)
  BY DEF SaleRead
<1>5. \A q, h, total : CountRead(q, h, total) => Elsewhere(q)
  BY DEF CountRead
<1>6. \A q, h, total, notes : CloseRead(q, h, total, notes) => Elsewhere(q)
  BY DEF CloseRead
<1>7. \A q : CountInsert(q) \/ CloseSavesCount(q) => Elsewhere(q)
  BY DEF CountInsert, CloseSavesCount, GoOn, Idle
<1>8. \A q : OpenFund(q) \/ MovementInsert(q) \/ CloseUpdate(q) \/ Abandon(q) => Elsewhere(q)
  BY DEF OpenFund, MovementInsert, CloseUpdate, Abandon, Idle
<1>9. \A q : CutInsert(q) => requests[q].pc = "cut" /\ \E request : Become(q, request)
  BY DEF CutInsert
<1>. HIDE DEF Elsewhere
<1>10. \E q \in Requests : \/ CutPreview(q)
                           \/ Elsewhere(q)
                           \/ CutInsert(q)
  BY <1>1, <1>2, <1>3, <1>4, <1>5, <1>6, <1>7, <1>8 DEF Next
<1>11. QED  BY <1>9, <1>10 DEF Elsewhere

LEMMA PreviewReadsDrawer ==
  ASSUME RegisterInv, DrawerInv, Next
  PROVE  PreviewIsDrawer
<1>1. SUFFICES ASSUME NEW r \in Requests,
                      requests[r].pc = "preview", requests'[r].pc = "cut"
               PROVE  requests'[r].cut.expected =
                        drawer[requests[r].shift] - Balance(FundsByHand(requests[r].shift))
  BY DEF PreviewIsDrawer
<1>. DEFINE h == requests[r].shift
<1>2. PICK q \in Requests :
         \/ CutPreview(q)
         \/ \E request : Become(q, request) /\ request.pc # "cut"
         \/ requests[q].pc = "cut" /\ \E request : Become(q, request)
  BY StepsOfRequests
<1>3. q = r
  <2>1. PICK request : Become(q, request)  BY <1>2 DEF CutPreview
  <2>2. QED  BY <1>1, <2>1, Moved DEF RegisterInv
<1>4. CutPreview(r)
  <2>1. ASSUME NEW request, Become(q, request), request.pc # "cut" PROVE FALSE
    BY <1>1, <1>3, <2>1, Moved DEF RegisterInv
  <2>2. QED  BY <1>1, <1>2, <1>3, <2>1
<1>5. h \in Shifts /\ Opened(h)
  BY <1>1, RequestFields DEF DrawerInv, TypeOK, OnlyOpened, AtShift, Closing
<1>6. ExpectedAmount(h) = drawer[h] - Balance(FundsByHand(h))
  <2>. HIDE DEF h
  <2>1. /\ drawer[h] = shifts[h].opening + Balance(Counting(h)) + Balance(FundsByHand(h))
        /\ shifts[h].opening \in Int
    BY <1>5 DEF DrawerInv, DrawerBalances, TypeOK, Shift
  <2>2. Balance(Counting(h)) \in Int /\ Balance(FundsByHand(h)) \in Int
    BY CountingFacts
  <2>3. ExpectedAmount(h) = shifts[h].opening + Balance(Counting(h))
    BY DEF ExpectedAmount, Balance
  <2>4. QED  BY <2>1, <2>2, <2>3
<1>7. PICK cut : /\ cut.expected = ExpectedAmount(h)
                 /\ Become(r, [pc |-> "cut", shift |-> h, cut |-> cut])
  BY <1>4 DEF CutPreview
<1>8. requests'[r] = [pc |-> "cut", shift |-> h, cut |-> cut]
  BY <1>7, Moved DEF RegisterInv
<1>9. QED  BY <1>6, <1>7, <1>8

\* What a cut expects is the cash in the drawer when it was previewed, less what was put in
\* by hand as an opening fund: with or without the row of the shift's own fund, and whatever
\* other requests store meanwhile.
THEOREM ExpectedIsTheDrawer == Spec => ExpectedIsDrawerLessFunds
<1>1. RegisterInv /\ DrawerInv /\ [Next]_vars => [PreviewIsDrawer]_vars
  BY PreviewReadsDrawer
<1>2. QED
  BY <1>1, RegisterInvariant, DrawerInvariant, PTL
  DEF Spec, ExpectedIsDrawerLessFunds, PreviewIsDrawer, Balance

----------------------------------------------------------------------------
\* Cuts without a note

\* A cut has the balance of the movements it was computed from; without a note its request
\* counted the balance of those it saw before.
Projects(x, h) == ~ x.notes => x.total = shifts[h].opening + Balance(x.seen)

CutSound(cut, h) ==
  /\ cut.expected = shifts[h].opening + Balance(cut.covers)
  /\ Projects(cut, h)

\* What a request that closes a shift remembers is sound.
Remembers(request) ==
  /\ request.pc \in Closing => Projects(request, request.shift)
  /\ request.pc \in {"cut", "close"} => CutSound(request.cut, request.shift)

CutsInv ==
  /\ \A h \in Shifts : HasCut(h) => Opened(h) /\ CutSound(cuts[h], h)
  /\ \A r \in Requests : Remembers(requests[r])

\* The opening amount of a shift never changes.
LEMMA OpeningStays ==
  ASSUME RegisterInv, DrawerInv, [Next]_vars, NEW h, Opened(h)
  PROVE  Opened(h)' /\ shifts'[h].opening = shifts[h].opening
<1>1. CASE UNCHANGED shifts
  BY <1>1 DEF Opened
<1>2. ASSUME NEW r \in Requests, NEW g \in Shifts, OpenCreate(r, g)
      PROVE  Opened(h)' /\ shifts'[h].opening = shifts[h].opening
  <2>1. g # h  BY <1>2 DEF OpenCreate, Opened
  <2>2. shifts'[h] = shifts[h]
    BY <1>2, <2>1 DEF OpenCreate, DrawerInv, TypeOK, Opened
  <2>3. QED  BY <2>2 DEF Opened
<1>3. ASSUME NEW r \in Requests, CloseUpdate(r)
      PROVE  Opened(h)' /\ shifts'[h].opening = shifts[h].opening
  <2>1. CASE h = requests[r].shift
    <3>1. h \in Shifts  BY DEF Opened
    <3>2. shifts'[h] = [status |-> "closed", modulo |-> shifts[h].modulo,
                        user |-> shifts[h].user, opening |-> shifts[h].opening,
                        closingExpected |-> cuts[h].expected,
                        closingCounted |-> cuts[h].counted]
      BY <1>3, <2>1, <3>1, CloseWrites
    <3>3. shifts'[h].status = "closed" /\ shifts'[h].opening = shifts[h].opening
      BY <3>2
    <3>4. QED  BY <3>1, <3>3 DEF Opened
  <2>2. CASE h # requests[r].shift
    <3>1. shifts'[h] = shifts[h]  BY <1>3, <2>2, CloseWrites DEF Opened
    <3>2. QED  BY <3>1 DEF Opened
  <2>3. QED  BY <2>1, <2>2
<1>4. UNCHANGED shifts \/ \E r \in Requests : CloseUpdate(r) \/ \E g \in Shifts : OpenCreate(r, g)
  BY DEF Next, vars, OpenRead, OpenFund, MovementRead, SaleRead, MovementInsert, CountRead,
         CloseRead, CloseSavesCount, CountInsert, CutPreview, CutInsert, Abandon
<1>5. QED  BY <1>1, <1>2, <1>3, <1>4

\* So what was sound of an opened shift stays sound.
LEMMA SoundStays ==
  ASSUME RegisterInv, DrawerInv, [Next]_vars, NEW h, Opened(h), NEW x
  PROVE  /\ Projects(x, h) => Projects(x, h)'
         /\ CutSound(x, h) => CutSound(x, h)'
BY OpeningStays DEF Projects, CutSound

LEMMA OthersRemember ==
  ASSUME RegisterInv, DrawerInv, CutsInv, [Next]_vars, NEW q \in Requests, requests'[q] = requests[q]
  PROVE  Remembers(requests[q])'
<1>. DEFINE was == requests[q]
<1>1. was.pc \in Closing \cup {"cut", "close"} => Opened(was.shift)
  BY DEF DrawerInv, OnlyOpened, AtShift
<1>2. Remembers(was)  BY DEF CutsInv
<1>3. was.pc \in Closing => Projects(was, was.shift)'
  BY <1>1, <1>2, SoundStays DEF Remembers
<1>4. was.pc \in {"cut", "close"} => CutSound(was.cut, was.shift)'
  BY <1>1, <1>2, SoundStays DEF Remembers
<1>5. was' = was  OBVIOUS
<1>. HIDE DEF was
<1>6. QED  BY <1>3, <1>4, <1>5 DEF was, Remembers, Projects, CutSound

\* One request moves on, remembering what is sound, and no cut is stored.
LEMMA CutsStand ==
  ASSUME RegisterInv, DrawerInv, CutsInv, [Next]_vars, UNCHANGED cuts,
         NEW r \in Requests, NEW request, Become(r, request), Remembers(request)'
  PROVE  CutsInv'
<1>1. /\ requests'[r] = request
      /\ \A q \in Requests : q # r => requests'[q] = requests[q]
  BY Moved DEF RegisterInv
<1>2. ASSUME NEW h \in Shifts, HasCut(h)'
      PROVE  Opened(h)' /\ CutSound(cuts[h], h)'
  <2>1. HasCut(h) /\ cuts'[h] = cuts[h]  BY <1>2 DEF HasCut
  <2>2. Opened(h) /\ CutSound(cuts[h], h)  BY <2>1 DEF CutsInv
  <2>3. Opened(h)'  BY <2>2, OpeningStays
  <2>4. PICK cut : cut = cuts[h]  OBVIOUS
  <2>5. CutSound(cut, h)'  BY <2>2, <2>4, SoundStays
  <2>6. QED  BY <2>1, <2>3, <2>4, <2>5 DEF CutSound, Projects
<1>3. ASSUME NEW q \in Requests, q # r
      PROVE  Remembers(requests[q])'
  BY <1>1, <1>3, OthersRemember
<1>4. Remembers(requests[r])'
  BY <1>1 DEF Remembers, CutSound, Projects
<1>5. QED  BY <1>2, <1>3, <1>4 DEF CutsInv

\* A close projects its difference, and goes on with what it projected.
LEMMA CloseReadKeeps ==
  ASSUME RegisterInv, DrawerInv, CutsInv, NEW r \in Requests, NEW h \in Shifts,
         NEW total \in Counted, NEW notes \in BOOLEAN, CloseRead(r, h, total, notes), [Next]_vars
  PROVE  CutsInv'
<1>. DEFINE request == [pc |-> "closing", shift |-> h, total |-> total,
                        notes |-> notes, seen |-> Counting(h)]
<1>1. Become(r, request) /\ UNCHANGED <<shifts, movements, cuts>>
  BY DEF CloseRead
<1>2. ~ notes => total = shifts[h].opening + Balance(Counting(h))
  BY DEF CloseRead, NoteDemanded, ExpectedAmount, Balance
<1>3. /\ request.pc = "closing" /\ request.shift = h /\ request.total = total
      /\ request.notes = notes /\ request.seen = Counting(h)
  OBVIOUS
<1>4. Projects(request, h)
  <2>. HIDE DEF request
  <2>1. QED  BY <1>2, <1>3 DEF Projects
<1>5. PICK carried : carried = request  OBVIOUS
<1>. HIDE DEF request
<1>6. Remembers(carried)'
  BY <1>1, <1>3, <1>4, <1>5 DEF Remembers, Projects, Closing
<1>7. QED  BY <1>1, <1>5, <1>6, CutsStand

LEMMA GoOnKeeps ==
  ASSUME RegisterInv, DrawerInv, CutsInv, [Next]_vars, NEW r \in Requests,
         requests[r].pc \in Closing, NEW pc \in Closing,
         Become(r, GoOn(requests[r], pc)), UNCHANGED <<shifts, cuts>>
  PROVE  CutsInv'
<1>. DEFINE was == requests[r]
<1>1. PICK request : request = GoOn(was, pc)  OBVIOUS
<1>2. was \in Request /\ Projects(was, was.shift)
  BY DEF DrawerInv, TypeOK, CutsInv, Remembers
<1>3. /\ request.pc = pc /\ request.shift = was.shift /\ request.total = was.total
      /\ request.notes = was.notes /\ request.seen = was.seen
  BY <1>1, <1>2, GoesOn
<1>4. Remembers(request)'
  BY <1>2, <1>3 DEF Remembers, Projects, Closing
<1>5. QED  BY <1>1, <1>4, CutsStand

LEMMA CutPreviewKeeps ==
  ASSUME RegisterInv, DrawerInv, CutsInv, [Next]_vars, NEW r \in Requests, CutPreview(r)
  PROVE  CutsInv'
<1>. DEFINE was == requests[r]
            h == was.shift
            cut == [expected |-> ExpectedAmount(h), counted |-> counts[h],
                    notes |-> was.notes, covers |-> Counting(h),
                    seen |-> was.seen, total |-> was.total]
            request == [pc |-> "cut", shift |-> h, cut |-> cut]
<1>1. Become(r, request) /\ UNCHANGED <<shifts, cuts>>
  BY DEF CutPreview
<1>2. Projects(was, h)
  BY DEF CutPreview, Closing, CutsInv, Remembers
<1>3. /\ cut.expected = shifts[h].opening + Balance(Counting(h)) /\ cut.covers = Counting(h)
      /\ cut.notes = was.notes /\ cut.seen = was.seen /\ cut.total = was.total
  BY DEF ExpectedAmount, Balance
<1>4. PICK made : made = cut  OBVIOUS
<1>5. CutSound(made, h)
  <2>. HIDE DEF cut, h, was
  <2>1. QED  BY <1>2, <1>3, <1>4 DEF CutSound, Projects
<1>6. PICK carried : carried = request  OBVIOUS
<1>7. carried.pc = "cut" /\ carried.shift = h /\ carried.cut = made
  BY <1>4, <1>6
<1>. HIDE DEF request, cut, h, was
<1>8. Remembers(carried)'
  BY <1>1, <1>5, <1>7 DEF Remembers, CutSound, Projects, Closing
<1>9. QED  BY <1>1, <1>6, <1>8, CutsStand

LEMMA CutInsertKeeps ==
  ASSUME RegisterInv, DrawerInv, CutsInv, [Next]_vars, NEW r \in Requests, CutInsert(r)
  PROVE  CutsInv'
<1>. DEFINE h == requests[r].shift
            cut == requests[r].cut
            request == [pc |-> "close", shift |-> h, cut |-> cut]
<1>1. requests[r] = [pc |-> "cut", shift |-> h, cut |-> cut]
  BY DEF CutInsert, RegisterInv, RequestsHold
<1>2. [requests[r] EXCEPT !.pc = "close"] = request
  BY <1>1
<1>3. Become(r, request) /\ UNCHANGED shifts
  BY <1>2 DEF CutInsert
<1>4. /\ requests'[r] = request
      /\ \A q \in Requests : q # r => requests'[q] = requests[q]
  BY <1>3, Moved DEF RegisterInv
<1>5. h \in Shifts /\ Opened(h) /\ CutSound(cut, h)
  <2>1. requests[r].pc = "cut" /\ requests[r] \in Request
    BY DEF CutInsert, DrawerInv, TypeOK
  <2>2. QED
    BY <2>1, RequestFields DEF DrawerInv, OnlyOpened, AtShift, CutsInv, Remembers
<1>6. request.pc = "close" /\ request.shift = h /\ request.cut = cut
  OBVIOUS
<1>7. cuts' = [g \in DOMAIN cuts \cup {h} |-> IF g = h THEN cut ELSE cuts[g]]
  BY DEF CutInsert
<1>. HIDE DEF request, h, cut
<1>8. ASSUME NEW g \in Shifts, HasCut(g)'
      PROVE  Opened(g)' /\ CutSound(cuts[g], g)'
  <2>1. Opened(g) /\ CutSound(cuts'[g], g)
    BY <1>5, <1>7, <1>8 DEF HasCut, CutsInv
  <2>2. QED  BY <1>3, <2>1 DEF Opened, CutSound, Projects
<1>9. ASSUME NEW q \in Requests, q # r
      PROVE  Remembers(requests[q])'
  BY <1>4, <1>9, OthersRemember
<1>10. Remembers(requests[r])'
  <2>1. PICK carried : carried = request  OBVIOUS
  <2>2. carried.pc = "close" /\ CutSound(carried.cut, carried.shift)
    BY <1>5, <1>6, <2>1
  <2>3. Remembers(carried)'
    BY <1>3, <2>2 DEF Remembers, CutSound, Projects, Closing
  <2>4. requests'[r] = carried  BY <1>4, <2>1
  <2>5. QED  BY <2>3, <2>4 DEF Remembers, CutSound, Projects
<1>11. QED  BY <1>8, <1>9, <1>10 DEF CutsInv

LEMMA CutsKept ==
  ASSUME RegisterInv, DrawerInv, CutsInv, [Next]_vars
  PROVE  CutsInv'
<1>. DEFINE Away(q) == \E request : /\ Become(q, request)
                                    /\ request.pc \notin Closing \cup {"cut", "close"}
<1>1. CASE UNCHANGED vars
  BY <1>1 DEF vars, CutsInv, HasCut, Opened, Remembers, CutSound, Projects
<1>2. ASSUME NEW q \in Requests, UNCHANGED cuts, Away(q)
      PROVE  CutsInv'
  <2>1. PICK request : Become(q, request) /\ request.pc \notin Closing \cup {"cut", "close"}
    BY <1>2
  <2>2. Remembers(request)'  BY <2>1 DEF Remembers
  <2>3. QED  BY <1>2, <2>1, <2>2, CutsStand
<1>3. \A q, modulo, user, opening :
        OpenRead(q, modulo, user, opening) => Away(q) /\ UNCHANGED cuts
  BY DEF OpenRead, Closing
<1>4. \A q, h : OpenCreate(q, h) => Away(q) /\ UNCHANGED cuts
  BY DEF OpenCreate, Idle, Closing
<1>5. \A q, h, key, type, direction, amount :
        MovementRead(q, h, key, type, direction, amount) => Away(q) /\ UNCHANGED cuts
  BY DEF MovementRead, Closing
<1>6. \A q, h, sale, amount : SaleRead(q, h, sale, amount) => Away(q) /\ UNCHANGED cuts
  BY DEF SaleRead, Closing
<1>7. \A q, h, total : CountRead(q, h, total) => Away(q) /\ UNCHANGED cuts
  BY DEF CountRead, Closing
<1>8. \A q : OpenFund(q) \/ MovementInsert(q) \/ CloseUpdate(q) \/ Abandon(q) =>
        Away(q) /\ UNCHANGED cuts
  BY DEF OpenFund, MovementInsert, CloseUpdate, Abandon, Idle, Closing
<1>9. ASSUME NEW q \in Requests, CloseSavesCount(q)
      PROVE  CutsInv'
  BY <1>9, GoOnKeeps DEF CloseSavesCount, Closing
<1>10. ASSUME NEW q \in Requests, CountInsert(q)
       PROVE  CutsInv'
  <2>1. CASE requests[q].pc = "closeCount"
    BY <1>10, <2>1, GoOnKeeps DEF CountInsert, Closing
  <2>2. CASE requests[q].pc = "count"
    <3>1. Away(q) /\ UNCHANGED cuts
      BY <1>10, <2>2 DEF CountInsert, Idle, Closing
    <3>2. QED  BY <1>2, <3>1
  <2>3. QED  BY <1>10, <2>1, <2>2 DEF CountInsert
<1>. HIDE DEF Away
<1>11. CASE Next
  BY <1>2, <1>3, <1>4, <1>5, <1>6, <1>7, <1>8, <1>9, <1>10, <1>11, CloseReadKeeps,
     CutPreviewKeeps, CutInsertKeeps DEF Next
<1>12. QED  BY <1>1, <1>11

\* A cut with a difference and no note was overtaken: movements were stored after its
\* request looked for a difference, or it carries another request's count.
THEOREM UnexplainedCutWasOvertaken == Spec => []UnexplainedWasOvertaken
<1>1. Init => CutsInv
  BY DEF Init, CutsInv, HasCut, Remembers, Closing, Idle
<1>2. RegisterInv /\ DrawerInv /\ CutsInv /\ [Next]_vars => CutsInv'
  BY CutsKept
<1>3. TypeOK /\ CutsInv => UnexplainedWasOvertaken
  BY DEF TypeOK, CutsInv, CutSound, Projects, HasCut, UnexplainedWasOvertaken
<1>4. DrawerInv => TypeOK  BY DEF DrawerInv
<1>5. QED
  BY <1>1, <1>2, <1>3, <1>4, RegisterInvariant, DrawerInvariant, PTL DEF Spec

----------------------------------------------------------------------------
\* The monthly flush

\* Days of which nothing is lost: no run of an administrator listed them early, and no log
\* came late.
Settled == Days \ (open \cup lagged)

StampedByToday == \A w \in Writers : writers[w] # None => writers[w].day <= today

\* The scheduler flushes days that are over, and has the settings it will save.
TimerSound(x) == x.pc # "idle" => x.config \in Config /\ \A d \in x.range : d < today

\* Until a day is over its logs stay where they are; afterwards they are all stored, or all
\* gone and counted.
StaysWhole == \A d \in Settled : d >= today => live[d] = logged[d]

CountedBy(t, d) == summaries[t][d] = logged[d]

StoredOrCounted ==
  \A d \in Settled :
    \/ live[d] = logged[d]
    \/ live[d] = 0 /\ \E t \in {"monthly", "partial"} : CountedBy(t, d)

\* What a run listed is all there was, and what it will delete is counted.
ListedWhole(x) ==
  \A d \in Settled :
    /\ d \in x.range =>
         /\ d < today
         /\ x.listed[d] \in {0, logged[d]}
         /\ x.listed[d] = 0 => live[d] = 0
    /\ d \notin x.range => x.listed[d] = 0

DeletesCounted(x) ==
  \A d \in Settled \cap x.range : d < today /\ (live[d] = 0 \/ CountedBy(x.type, d))

RunSound(x) ==
  /\ x.pc = "upsert" => ListedWhole(x)
  /\ x.pc = "delete" => DeletesCounted(x)

FlushInv ==
  /\ FlushTypeOK
  /\ StampedByToday
  /\ TimerSound(flushes[Timer])
  /\ StaysWhole
  /\ StoredOrCounted
  /\ \A f \in Flushers : RunSound(flushes[f])

----------------------------------------------------------------------------
\* What a run remembers, and what it remembers after a step.
Places == {"start", "list", "upsert", "delete", "finish", "save"}

LEMMA FlushFields ==
  ASSUME NEW x \in Flush, x.pc # "idle"
  PROVE  /\ x = [pc |-> x.pc, type |-> x.type, range |-> x.range, config |-> x.config,
                 listed |-> x.listed]
         /\ x.pc \in Places
         /\ x.type \in {"monthly", "partial"}
         /\ x.range \in SUBSET Days
         /\ x.config \in Config \cup {None}
         /\ x.listed \in [Days -> Nat]
BY DEF Flush, Places

LEMMA FlushBuilt ==
  ASSUME NEW pc \in Places, NEW type \in {"monthly", "partial"}, NEW range \in SUBSET Days,
         NEW save \in Config \cup {None}, NEW listed \in [Days -> Nat]
  PROVE  [pc |-> pc, type |-> type, range |-> range, config |-> save, listed |-> listed] \in Flush
BY DEF Flush, Places

LEMMA IdleIsFlush == Idle \in Flush /\ Idle.pc = "idle"
BY DEF Idle, Flush

LEMMA DaysAreNat == Days \subseteq Nat \ {0} /\ MaxDay \in Nat
BY FlushAssumption DEF Days

LEMMA NothingListed == Nothing \in [Days -> Nat] /\ \A d \in Days : Nothing[d] = 0
BY DEF Nothing

LEMMA InitHolds ==
  ASSUME FlushInit
  PROVE  FlushInv
<1>1. 1 \in Days  BY FlushAssumption DEF Days
<1>2. /\ \A f \in Flushers : flushes[f].pc = "idle"
      /\ flushes \in [Flushers -> Flush]
      /\ Timer \in Flushers
  BY IdleIsFlush DEF FlushInit, Flushers
<1>3. summaries \in Summary  BY NothingListed DEF FlushInit, Summary
<1>4. config \in Config  BY FlushAssumption DEF FlushInit, Config
<1>5. FlushTypeOK  BY <1>1, <1>2, <1>3, <1>4, NothingListed DEF FlushInit, FlushTypeOK
<1>6. TimerSound(flushes[Timer]) /\ \A f \in Flushers : RunSound(flushes[f])
  BY <1>2 DEF TimerSound, RunSound
<1>7. StampedByToday  BY DEF FlushInit, StampedByToday
<1>8. StaysWhole /\ StoredOrCounted
  BY DEF FlushInit, StaysWhole, StoredOrCounted
<1>9. QED  BY <1>5, <1>6, <1>7, <1>8 DEF FlushInv

----------------------------------------------------------------------------
\* Steps that leave logs, summaries and the days alone.
DaysStay == UNCHANGED <<today, live, summaries, logged, open, lagged>>

LogsShaped ==
  /\ job \in Job \cup {None}
  /\ config \in Config
  /\ scheduled \in BOOLEAN
  /\ settings \in Config \cup {None}

LEMMA QuietStep ==
  ASSUME FlushInv, DaysStay, LogsShaped', UNCHANGED flushes,
         writers' \in [Writers -> OperationalLog \cup {None}], StampedByToday'
  PROVE  FlushInv'
<1> USE DEF FlushInv, DaysStay
<1>1. FlushTypeOK'  BY DEF FlushTypeOK, LogsShaped
<1>2. TimerSound(flushes[Timer])'  BY DEF TimerSound
<1>3. StaysWhole' /\ StoredOrCounted'
  BY DEF StaysWhole, StoredOrCounted, Settled, CountedBy
<1>4. (\A f \in Flushers : RunSound(flushes[f]))'
  BY DEF RunSound, ListedWhole, DeletesCounted, Settled, CountedBy
<1>5. QED  BY <1>1, <1>2, <1>3, <1>4

\* A run moves to a place where it has nothing listed.
LEMMA RunMoves ==
  ASSUME FlushInv, DaysStay, LogsShaped', UNCHANGED writers,
         NEW f \in Flushers, NEW y \in Flush, flushes' = [flushes EXCEPT ![f] = y],
         f = Timer => TimerSound(y), y.pc \notin {"upsert", "delete"}
  PROVE  FlushInv'
<1> USE DEF FlushInv, DaysStay
<1>1. /\ flushes' \in [Flushers -> Flush]
      /\ flushes'[f] = y
      /\ \A g \in Flushers : g # f => flushes'[g] = flushes[g]
  BY DEF FlushTypeOK
<1>2. FlushTypeOK'  BY <1>1 DEF FlushTypeOK, LogsShaped
<1>3. TimerSound(flushes[Timer])'
  <2>1. CASE f = Timer
    BY <1>1, <2>1 DEF TimerSound
  <2>2. CASE f # Timer
    BY <1>1, <2>2 DEF TimerSound, Flushers
  <2>3. QED  BY <2>1, <2>2
<1>4. StampedByToday'  BY DEF StampedByToday
<1>5. StaysWhole' /\ StoredOrCounted'
  BY DEF StaysWhole, StoredOrCounted, Settled, CountedBy
<1>6. ASSUME NEW g \in Flushers
      PROVE  RunSound(flushes[g])'
  <2>1. CASE g = f
    BY <1>1, <2>1 DEF RunSound
  <2>2. CASE g # f
    BY <1>1, <2>2 DEF RunSound, ListedWhole, DeletesCounted, Settled, CountedBy
  <2>3. QED  BY <2>1, <2>2
<1>7. QED  BY <1>2, <1>3, <1>4, <1>5, <1>6

\* A run that goes on.
LEMMA ListingIs ==
  ASSUME FlushTypeOK, NEW f \in Flushers, flushes[f].pc # "idle", NEW pc \in Places,
         NEW listed \in [Days -> Nat], Listing(f, listed, pc)
  PROVE  \E y \in Flush :
           /\ flushes' = [flushes EXCEPT ![f] = y]
           /\ y.pc = pc /\ y.type = flushes[f].type /\ y.range = flushes[f].range
           /\ y.config = flushes[f].config /\ y.listed = listed
<1> DEFINE y == [pc |-> pc, type |-> flushes[f].type, range |-> flushes[f].range,
                 config |-> flushes[f].config, listed |-> listed]
<1>1. flushes' = [flushes EXCEPT ![f] = y]  BY DEF Listing
<1>2. flushes[f] \in Flush  BY DEF FlushTypeOK
<1>3. y \in Flush  BY <1>2, FlushFields, FlushBuilt
<1>4. /\ y.pc = pc /\ y.type = flushes[f].type /\ y.range = flushes[f].range
      /\ y.config = flushes[f].config /\ y.listed = listed
  OBVIOUS
<1> HIDE DEF y
<1>5. QED  BY <1>1, <1>3, <1>4

LEMMA ToIs ==
  ASSUME FlushTypeOK, NEW f \in Flushers, flushes[f].pc # "idle", NEW pc \in Places, To(f, pc)
  PROVE  \E y \in Flush :
           /\ flushes' = [flushes EXCEPT ![f] = y]
           /\ y.pc = pc /\ y.type = flushes[f].type /\ y.range = flushes[f].range
           /\ y.config = flushes[f].config /\ y.listed = flushes[f].listed
<1>1. flushes[f].listed \in [Days -> Nat]  BY FlushFields DEF FlushTypeOK
<1>2. Listing(f, flushes[f].listed, pc)  BY DEF To
<1>3. QED  BY <1>1, <1>2, ListingIs

LEMMA EndJobShaped ==
  ASSUME FlushInv, NEW f \in Flushers, EndJob(f)
  PROVE  job' \in Job \cup {None}
BY DEF EndJob, FlushInv, FlushTypeOK

LEMMA ShapedNow ==
  ASSUME FlushInv
  PROVE  LogsShaped
BY DEF FlushInv, FlushTypeOK, LogsShaped

\* Starting runs.
LEMMA RunAutomaticKeeps ==
  ASSUME FlushInv, RunAutomatic
  PROVE  FlushInv'
<1>1. Timer \in Flushers /\ today \in Days /\ Ran \in Config
  <2>1. today \in 0 .. MaxDay  BY DaysAreNat DEF FlushInv, FlushTypeOK, Days
  <2>2. config \in Config  BY DEF FlushInv, FlushTypeOK
  <2>3. Ran \in Config  BY <2>1, <2>2 DEF Ran, Config
  <2>4. QED  BY <2>3 DEF Flushers, FlushInv, FlushTypeOK
<1>2. PICK type \in {"monthly", "partial"}, range \in SUBSET Days :
        /\ flushes' = [flushes EXCEPT ![Timer] = NewFlush(type, range, Ran)]
        /\ \A d \in range : d < today
  <2>1. \A d \in MonthRange(Month[today] - 1) : d < today
    <3>1. \A d \in Days : Month[d] = Month[today] - 1 => d < today
      <4> SUFFICES ASSUME NEW d \in Days, Month[d] = Month[today] - 1, ~(d < today)
                   PROVE  FALSE
        OBVIOUS
      <4>1. today <= d  BY <1>1, DaysAreNat
      <4>2. Month[today] <= Month[d]  BY <4>1, <1>1, FlushAssumption
      <4>3. Month[today] \in Nat /\ Month[d] \in Nat  BY <1>1, FlushAssumption
      <4>4. QED  BY <4>2, <4>3
    <3>2. QED  BY <3>1 DEF MonthRange
  <2>2. \A d \in UntilYesterday(today) : d < today  BY DEF UntilYesterday
  <2>3. QED  BY <2>1, <2>2 DEF RunAutomatic, MonthRange, UntilYesterday
<1> DEFINE y == NewFlush(type, range, Ran)
<1>3. y \in Flush  BY <1>1, FlushBuilt, NothingListed DEF NewFlush, Places
<1>4. y.pc = "start" /\ y.config = Ran /\ y.range = range  BY DEF NewFlush
<1>5. TimerSound(y)  BY <1>1, <1>2, <1>4 DEF TimerSound
<1>6. DaysStay /\ LogsShaped' /\ UNCHANGED writers
  BY ShapedNow DEF RunAutomatic, DaysStay, LogsShaped, dataVars
<1> HIDE DEF y
<1>7. flushes' = [flushes EXCEPT ![Timer] = y]  BY <1>2 DEF y
<1>8. QED  BY <1>1, <1>3, <1>4, <1>5, <1>6, <1>7, RunMoves

LEMMA RunManualKeeps ==
  ASSUME FlushInv, NEW f \in Admins, NEW m, RunManual(f, m)
  PROVE  FlushInv'
<1> DEFINE y == NewFlush("monthly", MonthRange(m), None)
<1>1. y \in Flush  BY FlushBuilt, NothingListed DEF NewFlush, Places, MonthRange
<1>2. y.pc = "start"  BY DEF NewFlush
<1>3. DaysStay /\ LogsShaped' /\ UNCHANGED writers
  BY ShapedNow DEF RunManual, DaysStay, LogsShaped, dataVars
<1>4. flushes' = [flushes EXCEPT ![f] = y]  BY DEF RunManual
<1>5. f \in Flushers /\ f # Timer  BY FlushAssumption DEF Flushers
<1> HIDE DEF y
<1>6. QED  BY <1>1, <1>2, <1>3, <1>4, <1>5, RunMoves

\* Taking the job, ending a run, and failing.
LEMMA CreateJobKeeps ==
  ASSUME FlushInv, NEW f \in Flushers, CreateJob(f)
  PROVE  FlushInv'
<1> USE DEF FlushInv
<1>1. DaysStay /\ UNCHANGED <<config, scheduled, settings, writers>> /\ flushes[f].pc = "start"
  BY DEF CreateJob, DaysStay, dataVars
<1>2. CASE flushes' = [flushes EXCEPT ![f] = Idle] /\ UNCHANGED job
  <2>1. LogsShaped'  BY <1>1, <1>2, ShapedNow DEF LogsShaped
  <2>2. TimerSound(Idle)  BY IdleIsFlush DEF TimerSound
  <2>3. QED  BY <1>1, <1>2, <2>1, <2>2, IdleIsFlush, RunMoves
<1>3. CASE job' = [owner |-> f, old |-> FALSE] /\ To(f, "list")
  <2>1. LogsShaped'  BY <1>1, <1>3, ShapedNow DEF LogsShaped, Job
  <2>2. PICK y \in Flush :
          /\ flushes' = [flushes EXCEPT ![f] = y]
          /\ y.pc = "list" /\ y.range = flushes[f].range /\ y.config = flushes[f].config
    BY <1>1, <1>3, ToIs DEF Places
  <2>3. f = Timer => TimerSound(y)  BY <1>1, <2>2 DEF TimerSound
  <2>4. QED  BY <1>1, <2>1, <2>2, <2>3, RunMoves
<1>4. QED  BY <1>2, <1>3 DEF CreateJob

LEMMA FinishJobKeeps ==
  ASSUME FlushInv, NEW f \in Flushers, FinishJob(f)
  PROVE  FlushInv'
<1> USE DEF FlushInv
<1>1. /\ DaysStay /\ UNCHANGED <<config, scheduled, settings, writers>>
      /\ flushes[f].pc = "finish" /\ EndJob(f)
  BY DEF FinishJob, DaysStay, dataVars
<1>2. LogsShaped'  BY <1>1, ShapedNow, EndJobShaped DEF LogsShaped
<1>3. CASE flushes' = [flushes EXCEPT ![f] = Idle]
  <2>1. TimerSound(Idle)  BY IdleIsFlush DEF TimerSound
  <2>2. QED  BY <1>1, <1>2, <1>3, <2>1, IdleIsFlush, RunMoves
<1>4. CASE To(f, "save")
  <2>1. PICK y \in Flush :
          /\ flushes' = [flushes EXCEPT ![f] = y]
          /\ y.pc = "save" /\ y.range = flushes[f].range /\ y.config = flushes[f].config
    BY <1>1, <1>4, ToIs DEF Places
  <2>2. f = Timer => TimerSound(y)  BY <1>1, <2>1 DEF TimerSound
  <2>3. QED  BY <1>1, <1>2, <2>1, <2>2, RunMoves
<1>5. QED  BY <1>3, <1>4 DEF FinishJob

LEMMA SaveRunKeeps ==
  ASSUME FlushInv, SaveRun
  PROVE  FlushInv'
<1>1. DaysStay /\ UNCHANGED writers  BY DEF SaveRun, DaysStay, dataVars
<1>2. flushes[Timer].config \in Config  BY DEF SaveRun, FlushInv, TimerSound
<1>3. LogsShaped'  BY <1>2, ShapedNow DEF SaveRun, LogsShaped
<1>4. TimerSound(Idle)  BY IdleIsFlush DEF TimerSound
<1>5. flushes' = [flushes EXCEPT ![Timer] = Idle] /\ Timer \in Flushers
  BY DEF SaveRun, Flushers
<1>6. QED  BY <1>1, <1>3, <1>4, <1>5, IdleIsFlush, RunMoves

LEMMA FlushFailsKeeps ==
  ASSUME FlushInv, NEW f \in Flushers, FlushFails(f)
  PROVE  FlushInv'
<1>1. DaysStay /\ UNCHANGED <<config, scheduled, settings, writers>> /\ EndJob(f)
  BY DEF FlushFails, DaysStay, dataVars
<1>2. LogsShaped'  BY <1>1, ShapedNow, EndJobShaped DEF LogsShaped
<1>3. TimerSound(Idle)  BY IdleIsFlush DEF TimerSound
<1>4. flushes' = [flushes EXCEPT ![f] = Idle]  BY DEF FlushFails
<1>5. QED  BY <1>1, <1>2, <1>3, <1>4, IdleIsFlush, RunMoves

\* Settings, time, stops, and logs that begin.
LEMMA RestKeeps ==
  ASSUME FlushInv,
         \/ HalfHourPasses \/ ReadSettings
         \/ \E enabled, partial \in BOOLEAN : UpdateSettings(enabled, partial)
         \/ \E w \in Writers : Log(w)
  PROVE  FlushInv'
<1> USE DEF FlushInv
<1>1. DaysStay /\ UNCHANGED flushes
  BY DEF HalfHourPasses, ReadSettings, UpdateSettings, Log, DaysStay, dataVars
<1>2. LogsShaped'
  <2>1. LogsShaped  BY ShapedNow
  <2>2. CASE HalfHourPasses  BY <2>1, <2>2 DEF HalfHourPasses, LogsShaped, Job
  <2>3. CASE ReadSettings  BY <2>1, <2>3 DEF ReadSettings, LogsShaped
  <2>4. ASSUME NEW enabled \in BOOLEAN, NEW partial \in BOOLEAN, UpdateSettings(enabled, partial)
        PROVE  LogsShaped'
    <3>1. settings \in Config  BY <2>1, <2>4 DEF UpdateSettings, LogsShaped
    <3>2. config' \in Config  BY <2>4, <3>1 DEF UpdateSettings, Config
    <3>3. QED  BY <2>1, <2>4, <3>2 DEF UpdateSettings, LogsShaped
  <2>5. ASSUME NEW w \in Writers, Log(w)
        PROVE  LogsShaped'
    BY <2>1, <2>5 DEF Log, LogsShaped
  <2>6. QED  BY <2>2, <2>3, <2>4, <2>5
<1>3. /\ writers' \in [Writers -> OperationalLog \cup {None}]
      /\ StampedByToday'
  <2>1. writers \in [Writers -> OperationalLog \cup {None}] /\ today \in Days
    BY DEF FlushTypeOK
  <2>2. CASE UNCHANGED <<writers, today>>  BY <2>1, <2>2 DEF StampedByToday
  <2>3. ASSUME NEW w \in Writers, Log(w)
        PROVE  /\ writers' \in [Writers -> OperationalLog \cup {None}]
               /\ StampedByToday'
    <3>1. today <= today  BY <2>1, DaysAreNat
    <3>2. /\ writers' = [writers EXCEPT ![w] = [day |-> today]] /\ today' = today
          /\ [day |-> today] \in OperationalLog
      BY <2>1, <2>3 DEF Log, OperationalLog
    <3>3. QED  BY <2>1, <3>1, <3>2 DEF StampedByToday
  <2>4. QED
    BY <2>2, <2>3 DEF HalfHourPasses, ReadSettings, UpdateSettings
<1>4. QED  BY <1>1, <1>2, <1>3, QuietStep

LEMMA RestartKeeps ==
  ASSUME FlushInv, Restart
  PROVE  FlushInv'
<1> USE DEF FlushInv
<1>1. /\ \A f \in Flushers : flushes'[f].pc = "idle"
      /\ flushes' \in [Flushers -> Flush] /\ Timer \in Flushers
  BY IdleIsFlush DEF Restart, Flushers
<1>2. /\ \A w \in Writers : writers'[w] = None
      /\ writers' \in [Writers -> OperationalLog \cup {None}]
  BY DEF Restart
<1>3. LogsShaped'
  BY ShapedNow DEF Restart, LogsShaped, Job, Config
<1>4. FlushTypeOK'  BY <1>1, <1>2, <1>3 DEF Restart, FlushTypeOK, LogsShaped, dataVars
<1>5. StampedByToday'  BY <1>2 DEF StampedByToday
<1>6. TimerSound(flushes[Timer])' /\ (\A f \in Flushers : RunSound(flushes[f]))'
  BY <1>1 DEF TimerSound, RunSound
<1>7. StaysWhole' /\ StoredOrCounted'
  BY DEF Restart, StaysWhole, StoredOrCounted, Settled, CountedBy, dataVars
<1>8. QED  BY <1>4, <1>5, <1>6, <1>7

----------------------------------------------------------------------------
\* Steps that touch logs, summaries or the days.
LEMMA NextDayKeeps ==
  ASSUME FlushInv, NextDay
  PROVE  FlushInv'
<1> USE DEF FlushInv
<1>1. /\ today \in Days /\ today' = today + 1 /\ today' \in Days
      /\ UNCHANGED <<live, summaries, logged, open, lagged, job, config, scheduled, flushes,
                     settings, writers>>
  BY DaysAreNat DEF NextDay, FlushTypeOK, dataVars, Days
<1>2. \A d \in Days : (d < today => d < today') /\ (d <= today => d <= today')
                    /\ (d >= today' => d >= today)
  BY <1>1, DaysAreNat
<1>3. FlushTypeOK'  BY <1>1 DEF FlushTypeOK
<1>4. StampedByToday'  BY <1>1, <1>2 DEF StampedByToday, FlushTypeOK, OperationalLog
<1>5. TimerSound(flushes[Timer])'
  <2>1. flushes[Timer] \in Flush  BY DEF FlushTypeOK, Flushers
  <2>2. flushes[Timer].pc # "idle" => flushes[Timer].range \in SUBSET Days
    BY <2>1, FlushFields
  <2>3. QED  BY <1>1, <1>2, <2>2 DEF TimerSound
<1>6. StaysWhole' /\ StoredOrCounted'
  BY <1>1, <1>2 DEF StaysWhole, StoredOrCounted, Settled, CountedBy
<1>7. (\A f \in Flushers : RunSound(flushes[f]))'
  BY <1>1, <1>2 DEF RunSound, ListedWhole, DeletesCounted, Settled, CountedBy
<1>8. QED  BY <1>3, <1>4, <1>5, <1>6, <1>7

\* A log stored on its own day finds all the others of that day; one stored later does not
\* count any more.
LEMMA StoreLogKeeps ==
  ASSUME FlushInv, NEW w \in Writers, StoreLog(w)
  PROVE  FlushInv'
<1> DEFINE d == writers[w].day
<1> USE DEF FlushInv
<1>1. /\ d \in Days /\ d <= today /\ today \in Days
      /\ live' = [live EXCEPT ![d] = @ + 1] /\ logged' = [logged EXCEPT ![d] = @ + 1]
      /\ writers' = [writers EXCEPT ![w] = None]
      /\ lagged' = IF d < today THEN lagged \cup {d} ELSE lagged
      /\ UNCHANGED <<today, summaries, open, job, config, scheduled, flushes, settings>>
  BY DEF StoreLog, FlushTypeOK, OperationalLog, StampedByToday
<1>2. /\ live' \in [Days -> Nat] /\ logged' \in [Days -> Nat] /\ lagged' \subseteq Days
      /\ live'[d] = live[d] + 1 /\ logged'[d] = logged[d] + 1
      /\ \A e \in Days : e # d => live'[e] = live[e] /\ logged'[e] = logged[e]
  BY <1>1 DEF FlushTypeOK
<1>3. FlushTypeOK'  BY <1>1, <1>2 DEF FlushTypeOK
<1>4. StampedByToday'  BY <1>1 DEF StampedByToday, FlushTypeOK
<1>5. TimerSound(flushes[Timer])'  BY <1>1 DEF TimerSound
<1> HIDE DEF d
<1>6. Settled' \subseteq Settled /\ Settled \subseteq Days /\ (d \in Settled' => d = today)
  <2>1. d < today => d \in lagged'  BY <1>1
  <2>2. lagged \subseteq lagged'  BY <1>1
  <2>3. d < today \/ d = today  BY <1>1, DaysAreNat
  <2>4. QED  BY <1>1, <2>1, <2>2, <2>3 DEF Settled
<1>7. StaysWhole'
  BY <1>1, <1>2, <1>6 DEF StaysWhole
<1>8. StoredOrCounted'
  <2> SUFFICES ASSUME NEW e \in Settled'
               PROVE  (\/ live[e] = logged[e]
                       \/ live[e] = 0 /\ \E t \in {"monthly", "partial"} : CountedBy(t, e))'
    BY DEF StoredOrCounted
  <2>1. CASE e = d
    <3>1. live[d] = logged[d]  BY <1>1, <1>6, <2>1, DaysAreNat DEF StaysWhole
    <3>2. QED  BY <1>2, <2>1, <3>1
  <2>2. CASE e # d
    BY <1>1, <1>2, <1>6, <2>2 DEF StoredOrCounted, CountedBy
  <2>3. QED  BY <2>1, <2>2
<1>9. ASSUME NEW f \in Flushers
      PROVE  RunSound(flushes[f])'
  <2>1. \A e \in Settled' : e < today => live'[e] = live[e] /\ logged'[e] = logged[e]
    BY <1>1, <1>2, <1>6, DaysAreNat
  <2>2. flushes[f].pc = "upsert" => ListedWhole(flushes[f])'
    BY <1>1, <1>6, <2>1 DEF RunSound, ListedWhole
  <2>3. flushes[f].pc = "delete" => DeletesCounted(flushes[f])'
    BY <1>1, <1>6, <2>1 DEF RunSound, DeletesCounted, CountedBy
  <2>4. QED  BY <1>1, <2>2, <2>3 DEF RunSound
<1>10. QED  BY <1>3, <1>4, <1>5, <1>7, <1>8, <1>9

\* What a run of the scheduler or of an administrator lists is whole, unless the day joins
\* those that were listed early.
LEMMA ListLogsKeeps ==
  ASSUME FlushInv, NEW f \in Flushers, ListLogs(f)
  PROVE  FlushInv'
<1> DEFINE range == flushes[f].range
           listed == [d \in Days |-> IF d \in range THEN live[d] ELSE 0]
           pc == IF listed = Nothing THEN "finish" ELSE "upsert"
<1> USE DEF FlushInv
<1>1. /\ flushes[f].pc = "list" /\ Listing(f, listed, pc)
      /\ open' = IF f \in Admins THEN open \cup {d \in range : d >= today} ELSE open
      /\ UNCHANGED <<today, live, summaries, logged, lagged, job, config, scheduled, settings,
                     writers>>
  BY DEF ListLogs, Following
<1>2. flushes[f] \in Flush /\ range \in SUBSET Days /\ today \in Days
  BY <1>1, FlushFields DEF FlushTypeOK
<1>3. listed \in [Days -> Nat] /\ \A d \in Days : listed[d] = IF d \in range THEN live[d] ELSE 0
  BY DEF FlushTypeOK
<1>4. pc \in {"finish", "upsert"} /\ pc \in Places  BY DEF Places
<1> HIDE DEF pc, listed
<1>5. PICK y \in Flush :
        /\ flushes' = [flushes EXCEPT ![f] = y]
        /\ y.pc = pc /\ y.range = range /\ y.config = flushes[f].config /\ y.listed = listed
  BY <1>1, <1>3, <1>4, ListingIs
<1>6. /\ flushes' \in [Flushers -> Flush] /\ flushes'[f] = y
      /\ \A g \in Flushers : g # f => flushes'[g] = flushes[g]
  BY <1>1, <1>5 DEF FlushTypeOK
<1>7. open' \subseteq Days  BY <1>1, <1>2 DEF FlushTypeOK
<1>8. FlushTypeOK'  BY <1>1, <1>6, <1>7 DEF FlushTypeOK
<1>9. StampedByToday'  BY <1>1 DEF StampedByToday
<1>10. TimerSound(flushes[Timer])'
  <2>1. CASE f = Timer  BY <1>1, <1>5, <1>6, <2>1 DEF TimerSound
  <2>2. CASE f # Timer  BY <1>1, <1>6, <2>2 DEF TimerSound, Flushers
  <2>3. QED  BY <2>1, <2>2
<1>11. Settled' \subseteq Settled  BY <1>1 DEF Settled
<1>12. StaysWhole' /\ StoredOrCounted'
  BY <1>1, <1>11 DEF StaysWhole, StoredOrCounted, CountedBy
<1>13. \A d \in Settled' \cap range : d < today
  <2>1. CASE f \in Admins
    BY <1>1, <1>2, <2>1, DaysAreNat DEF Settled
  <2>2. CASE f = Timer
    BY <1>1, <2>2 DEF TimerSound
  <2>3. QED  BY <2>1, <2>2 DEF Flushers
<1>14. ListedWhole(y)'
  <2> SUFFICES ASSUME NEW d \in Settled'
               PROVE  /\ d \in range =>
                            d < today /\ listed[d] \in {0, logged[d]} /\ (listed[d] = 0 => live[d] = 0)
                      /\ d \notin range => listed[d] = 0
    BY <1>1, <1>5 DEF ListedWhole
  <2>1. d \in Settled /\ d \in Days  BY <1>11 DEF Settled
  <2>2. live[d] = logged[d] \/ live[d] = 0  BY <2>1 DEF StoredOrCounted
  <2>3. QED  BY <1>3, <1>13, <2>1, <2>2
<1>15. ASSUME NEW g \in Flushers
       PROVE  RunSound(flushes[g])'
  <2>1. CASE g = f
    BY <1>4, <1>5, <1>6, <1>14, <2>1 DEF RunSound
  <2>2. CASE g # f
    BY <1>1, <1>6, <1>11, <2>2 DEF RunSound, ListedWhole, DeletesCounted, CountedBy
  <2>3. QED  BY <2>1, <2>2
<1>16. QED  BY <1>8, <1>9, <1>10, <1>12, <1>15

\* What is stored as a summary is all there was of its day.
LEMMA UpsertSummariesKeeps ==
  ASSUME FlushInv, NEW f \in Flushers, UpsertSummaries(f)
  PROVE  FlushInv'
<1> DEFINE x == flushes[f]
<1> USE DEF FlushInv
<1>1. /\ x.pc = "upsert" /\ Listing(f, Nothing, "delete")
      /\ summaries' = [summaries EXCEPT ![x.type] =
           [d \in Days |-> IF x.listed[d] > 0 THEN x.listed[d] ELSE @[d]]]
      /\ UNCHANGED <<today, live, logged, open, lagged, job, config, scheduled, settings, writers>>
  BY DEF UpsertSummaries, Following
<1>2. x.type \in {"monthly", "partial"} /\ x.range \in SUBSET Days /\ x.listed \in [Days -> Nat]
  BY <1>1, FlushFields DEF FlushTypeOK
<1>3. summaries' \in Summary
  BY <1>1, <1>2 DEF FlushTypeOK, Summary
<1>4. /\ \A t \in {"monthly", "partial"} : t # x.type => summaries'[t] = summaries[t]
      /\ \A d \in Days : summaries'[x.type][d] =
           IF x.listed[d] > 0 THEN x.listed[d] ELSE summaries[x.type][d]
  BY <1>1, <1>2 DEF FlushTypeOK, Summary
<1>5. \A d \in Settled : d \in Days /\ (x.listed[d] = 0 \/ (d \in x.range /\ x.listed[d] = logged[d]))
  BY <1>1 DEF RunSound, ListedWhole, Settled
<1>6. \A d \in Settled, t \in {"monthly", "partial"} : CountedBy(t, d) => CountedBy(t, d)'
  <2> SUFFICES ASSUME NEW d \in Settled, NEW t \in {"monthly", "partial"},
                      summaries[t][d] = logged[d]
               PROVE  summaries'[t][d] = logged[d]
    BY <1>1 DEF CountedBy
  <2>1. CASE t # x.type  BY <1>4, <2>1
  <2>2. CASE t = x.type  BY <1>4, <1>5, <2>2
  <2>3. QED  BY <2>1, <2>2
<1>7. PICK y \in Flush :
        /\ flushes' = [flushes EXCEPT ![f] = y]
        /\ y.pc = "delete" /\ y.type = x.type /\ y.range = x.range /\ y.config = x.config
  BY <1>1, NothingListed, ListingIs DEF Places
<1>8. /\ flushes' \in [Flushers -> Flush] /\ flushes'[f] = y
      /\ \A g \in Flushers : g # f => flushes'[g] = flushes[g]
  BY <1>7 DEF FlushTypeOK
<1>9. FlushTypeOK'  BY <1>1, <1>3, <1>8 DEF FlushTypeOK
<1>10. StampedByToday'  BY <1>1 DEF StampedByToday
<1>11. TimerSound(flushes[Timer])'
  <2>1. CASE f = Timer  BY <1>1, <1>7, <1>8, <2>1 DEF TimerSound
  <2>2. CASE f # Timer  BY <1>1, <1>8, <2>2 DEF TimerSound, Flushers
  <2>3. QED  BY <2>1, <2>2
<1>12. Settled' = Settled  BY <1>1 DEF Settled
<1>13. StaysWhole' /\ StoredOrCounted'
  BY <1>1, <1>6, <1>12 DEF StaysWhole, StoredOrCounted
<1>14. DeletesCounted(y)'
  <2> SUFFICES ASSUME NEW d \in Settled, d \in x.range
               PROVE  d < today /\ (live[d] = 0 \/ summaries'[x.type][d] = logged[d])
    BY <1>1, <1>7, <1>12 DEF DeletesCounted, CountedBy
  <2>1. d < today /\ (x.listed[d] = 0 => live[d] = 0)
    BY <1>1 DEF RunSound, ListedWhole
  <2>2. x.listed[d] \in Nat /\ d \in Days  BY <1>2, <1>5
  <2>3. x.listed[d] > 0 => summaries'[x.type][d] = logged[d]
    BY <1>4, <1>5, <2>2
  <2>4. QED  BY <2>1, <2>2, <2>3
<1>15. ASSUME NEW g \in Flushers
       PROVE  RunSound(flushes[g])'
  <2>1. CASE g = f
    BY <1>7, <1>8, <1>14, <2>1 DEF RunSound
  <2>2. CASE g # f
    <3>1. flushes'[g] = flushes[g] /\ flushes[g] \in Flush
      BY <1>8, <2>2 DEF FlushTypeOK
    <3>2. flushes[g].pc = "delete" => flushes[g].type \in {"monthly", "partial"}
      BY <3>1, FlushFields
    <3>3. flushes[g].pc = "delete" => DeletesCounted(flushes[g])'
      BY <1>1, <1>6, <1>12, <3>1, <3>2 DEF RunSound, DeletesCounted
    <3>4. flushes[g].pc = "upsert" => ListedWhole(flushes[g])'
      BY <1>1, <1>12, <3>1 DEF RunSound, ListedWhole
    <3>5. QED  BY <3>1, <3>3, <3>4 DEF RunSound
  <2>3. QED  BY <2>1, <2>2
<1>16. QED  BY <1>9, <1>10, <1>11, <1>13, <1>15

\* What is deleted is over and counted.
LEMMA DeleteLogsKeeps ==
  ASSUME FlushInv, NEW f \in Flushers, DeleteLogs(f)
  PROVE  FlushInv'
<1> DEFINE x == flushes[f]
<1> USE DEF FlushInv
<1>1. /\ x.pc = "delete" /\ To(f, "finish")
      /\ live' = [d \in Days |-> IF d \in x.range THEN 0 ELSE live[d]]
      /\ UNCHANGED <<today, summaries, logged, open, lagged, job, config, scheduled, settings,
                     writers>>
  BY DEF DeleteLogs, Following
<1>2. /\ live' \in [Days -> Nat]
      /\ \A d \in Days : live'[d] = IF d \in x.range THEN 0 ELSE live[d]
  BY <1>1 DEF FlushTypeOK
<1>3. PICK y \in Flush :
        /\ flushes' = [flushes EXCEPT ![f] = y]
        /\ y.pc = "finish" /\ y.range = x.range /\ y.config = x.config
  BY <1>1, ToIs DEF Places
<1>4. /\ flushes' \in [Flushers -> Flush] /\ flushes'[f] = y
      /\ \A g \in Flushers : g # f => flushes'[g] = flushes[g]
  BY <1>3 DEF FlushTypeOK
<1>5. FlushTypeOK'  BY <1>1, <1>2, <1>4 DEF FlushTypeOK
<1>6. StampedByToday'  BY <1>1 DEF StampedByToday
<1>7. TimerSound(flushes[Timer])'
  <2>1. CASE f = Timer  BY <1>1, <1>3, <1>4, <2>1 DEF TimerSound
  <2>2. CASE f # Timer  BY <1>1, <1>4, <2>2 DEF TimerSound, Flushers
  <2>3. QED  BY <2>1, <2>2
<1>8. Settled' = Settled /\ Settled \subseteq Days  BY <1>1 DEF Settled
<1>9. \A d \in Settled \cap x.range :
        d < today /\ (live[d] = 0 \/ \E t \in {"monthly", "partial"} : CountedBy(t, d))
  BY <1>1, FlushFields DEF RunSound, DeletesCounted, FlushTypeOK
<1>10. StaysWhole'
  BY <1>1, <1>2, <1>8, <1>9, DaysAreNat DEF StaysWhole, FlushTypeOK
<1>11. StoredOrCounted'
  <2> SUFFICES ASSUME NEW d \in Settled
               PROVE  \/ live'[d] = logged[d]
                      \/ live'[d] = 0 /\ \E t \in {"monthly", "partial"} : CountedBy(t, d)
    BY <1>1, <1>8 DEF StoredOrCounted, CountedBy
  <2>1. CASE d \in x.range
    BY <1>2, <1>8, <1>9, <2>1 DEF StoredOrCounted
  <2>2. CASE d \notin x.range
    BY <1>2, <1>8, <2>2 DEF StoredOrCounted
  <2>3. QED  BY <2>1, <2>2
<1>12. ASSUME NEW g \in Flushers
       PROVE  RunSound(flushes[g])'
  <2>1. CASE g = f
    BY <1>3, <1>4, <2>1 DEF RunSound
  <2>2. CASE g # f
    BY <1>1, <1>2, <1>4, <1>8, <2>2 DEF RunSound, ListedWhole, DeletesCounted, CountedBy
  <2>3. QED  BY <2>1, <2>2
<1>13. QED  BY <1>5, <1>6, <1>7, <1>10, <1>11, <1>12

----------------------------------------------------------------------------
LEMMA FlushStepKeeps ==
  ASSUME FlushInv, [FlushNext]_flushVars
  PROVE  FlushInv'
<1>1. CASE UNCHANGED flushVars
  <2>1. DaysStay /\ UNCHANGED <<flushes, job, config, scheduled, settings, writers>>
    BY <1>1 DEF flushVars, dataVars, DaysStay
  <2>2. LogsShaped'  BY <2>1, ShapedNow DEF LogsShaped
  <2>3. writers' \in [Writers -> OperationalLog \cup {None}] /\ StampedByToday'
    BY <2>1 DEF FlushInv, FlushTypeOK, StampedByToday, DaysStay
  <2>4. QED  BY <2>1, <2>2, <2>3, QuietStep
<1>2. ASSUME NEW w \in Writers, Log(w) \/ StoreLog(w)
      PROVE  FlushInv'
  BY <1>2, RestKeeps, StoreLogKeeps
<1>3. CASE NextDay  BY <1>3, NextDayKeeps
<1>4. CASE HalfHourPasses \/ ReadSettings
           \/ \E enabled, partial \in BOOLEAN : UpdateSettings(enabled, partial)
  BY <1>4, RestKeeps
<1>5. CASE RunAutomatic \/ SaveRun  BY <1>5, RunAutomaticKeeps, SaveRunKeeps
<1>6. ASSUME NEW f \in Admins, NEW d \in Days, RunManual(f, Month[d])
      PROVE  FlushInv'
  BY <1>6, RunManualKeeps
<1>7. ASSUME NEW f \in Flushers, FlushStep(f) \/ FlushFails(f)
      PROVE  FlushInv'
  BY <1>7, CreateJobKeeps, ListLogsKeeps, UpsertSummariesKeeps, DeleteLogsKeeps, FinishJobKeeps,
     FlushFailsKeeps
  DEF FlushStep
<1>8. CASE Restart  BY <1>8, RestartKeeps
<1>9. QED  BY <1>1, <1>2, <1>3, <1>4, <1>5, <1>6, <1>7, <1>8 DEF FlushNext

\* Logs, summaries and what the runs hold agree at every step, whatever fails or stops
\* (runMonthly, runPartial, flushRange).
THEOREM FlushInvariant == FlushSpec => []FlushInv
<1>1. FlushInit => FlushInv  BY InitHolds
<1>2. FlushInv /\ [FlushNext]_flushVars => FlushInv'  BY FlushStepKeeps
<1>3. QED  BY <1>1, <1>2, PTL DEF FlushSpec

LEMMA KeptWhenSound ==
  ASSUME FlushInv
  PROVE  NoLogLost
<1> SUFFICES ASSUME NEW d \in Days \ (open \cup lagged)
             PROVE  Accounted(d) >= logged[d]
  BY DEF NoLogLost
<1>1. /\ live[d] \in Nat /\ logged[d] \in Nat
      /\ summaries["monthly"][d] \in Nat /\ summaries["partial"][d] \in Nat
  BY DEF FlushInv, FlushTypeOK, Summary
<1>2. \/ live[d] = logged[d]
      \/ summaries["monthly"][d] = logged[d] \/ summaries["partial"][d] = logged[d]
  BY DEF FlushInv, StoredOrCounted, Settled, CountedBy
<1>3. QED  BY <1>1, <1>2 DEF Accounted

\* A log of a day that was listed after it was over, and that was stored on its day, stays
\* stored or counted (STALE_RUNNING_FLUSH_MS, "the flush is idempotent").
THEOREM LogsAreKept == FlushSpec => []NoLogLost
<1>1. FlushInv => NoLogLost  BY KeptWhenSound
<1>2. QED  BY <1>1, FlushInvariant, PTL
=============================================================================
