---------------------------- MODULE CashRegister ----------------------------
(***************************************************************************)
(* The shifts of POS registers: opening with a fund, manual movements,     *)
(* counts, and closing with a cut.  No operation is a transaction: each is *)
(* a series of independent queries, so other requests run between them,    *)
(* and a failure or restart leaves the ones done.  Unique indexes are all  *)
(* that guards a write.                                                    *)
(*                                                                         *)
(* drawer is no table: it is the cash a register holds, as its cashier     *)
(* put it in and took it out, kept to judge what a cut expects.            *)
(***************************************************************************)
EXTENDS Processes, Integers, FiniteSets, FiniteSetsExt

CONSTANTS
  Shifts,      \* identifiers of shifts
  Modulos,     \* POS registers
  Users,       \* cashiers
  Requests,    \* requests being served at the same time
  Keys,        \* Idempotency-Key values of manual movements
  Sales,       \* cash sessions that may complete and bring income
  Funds,       \* opening amounts, any number a client may send
  Amounts,     \* amounts of movements, likewise
  Counted      \* totals a count may add up to

ASSUME AmountsAssumption ==
  /\ Funds \subseteq Int
  /\ Amounts \subseteq Int
  /\ Counted \subseteq Nat
ASSUME IdsAssumption ==
  /\ Keys \cap Sales = {}
  /\ (Keys \cup Sales) \cap Shifts = {}
  /\ None \notin Shifts \cup Modulos \cup Users \cup Nat

VARIABLES
  shifts,      \* table cash_register_shifts
  movements,   \* table cash_register_movements
  counts,      \* the latest row of cash_register_counts of each shift
  cuts,        \* table cash_register_cuts
  requests,    \* what each request in progress remembers
  drawer       \* the cash in the register during each shift

vars == <<shifts, movements, counts, cuts, requests, drawer>>

----------------------------------------------------------------------------
Shift ==
  [status : {"none", "open", "closed"},
   modulo : Modulos \cup {None}, user : Users \cup {None},
   opening : Int, closingExpected : Int, closingCounted : Nat]

\* ref is the unique key of the row: the idempotency key of a manual movement,
\* the cash session of a sale, the shift of an opening fund.  The types other
\* than "opening_fund" count alike.
Type == {"opening_fund", "other"}

Movement ==
  [ref : Keys \cup Sales \cup Shifts, shift : Shifts, type : Type,
   direction : {"in", "out"}, amount : Int]

\* Three fields are no columns: the movements the cut was computed from, those
\* its request saw when it looked for a difference, and what it counted itself.
Cut ==
  [expected : Int, counted : Nat, notes : BOOLEAN,
   covers : SUBSET Movement, seen : SUBSET Movement, total : Nat]

Request ==
       [pc : {"idle"}]
  \cup [pc : {"open"}, modulo : Modulos, user : Users, opening : Int]
  \cup [pc : {"fund"}, shift : Shifts]
  \cup [pc : {"move", "sale"}, movement : Movement]
  \cup [pc : {"count"}, shift : Shifts, total : Nat]
  \cup [pc : {"closing", "closeCount", "preview"}, shift : Shifts,
        total : Nat, notes : BOOLEAN, seen : SUBSET Movement]
  \cup [pc : {"cut", "close"}, shift : Shifts, cut : Cut]

TypeOK ==
  /\ shifts \in [Shifts -> Shift]
  /\ movements \subseteq Movement
  /\ counts \in [Shifts -> Nat \cup {None}]
  /\ DOMAIN cuts \subseteq Shifts
  /\ \A h \in DOMAIN cuts : cuts[h] \in Cut
  /\ \A r \in Requests : requests[r] \in Request
  /\ drawer \in [Shifts -> Int]

NoShift ==
  [status |-> "none", modulo |-> None, user |-> None,
   opening |-> 0, closingExpected |-> 0, closingCounted |-> 0]

Init ==
  /\ shifts = [h \in Shifts |-> NoShift]
  /\ movements = {}
  /\ counts = [h \in Shifts |-> None]
  /\ cuts = <<>>
  /\ requests = [r \in Requests |-> Idle]
  /\ drawer = [h \in Shifts |-> 0]

Become(r, request) == requests' = [requests EXCEPT ![r] = request]

IsOpen(h) == shifts[h].status = "open"

HasCut(h) == h \in DOMAIN cuts

Signed(movement) == IF movement.direction = "in" THEN movement.amount ELSE -movement.amount

----------------------------------------------------------------------------
\* openShift: two reads, the insert, and the fund's movement apart.

NoOpenShiftOf(modulo, user) ==
  \A h \in Shifts : IsOpen(h) => shifts[h].modulo # modulo /\ shifts[h].user # user

OpenRead(r, modulo, user, opening) ==
  /\ requests[r].pc = "idle"
  /\ NoOpenShiftOf(modulo, user)
  /\ Become(r, [pc |-> "open", modulo |-> modulo, user |-> user, opening |-> opening])
  /\ UNCHANGED <<shifts, movements, counts, cuts, drawer>>

UniqueOpenShiftMissing(modulo) == TRUE

\* The partial unique index knows the register, not the user.
UniqueOpenShift(modulo) == \A h \in Shifts : IsOpen(h) => shifts[h].modulo # modulo

OpenCreate(r, h) ==
  /\ requests[r].pc = "open"
  /\ shifts[h].status = "none"
  /\ UniqueOpenShift(requests[r].modulo)
  /\ shifts' = [shifts EXCEPT ![h] =
       [NoShift EXCEPT !.status = "open",
                       !.modulo = requests[r].modulo,
                       !.user = requests[r].user,
                       !.opening = requests[r].opening]]
  /\ drawer' = [drawer EXCEPT ![h] = requests[r].opening]
  /\ Become(r, IF requests[r].opening > 0 THEN [pc |-> "fund", shift |-> h] ELSE Idle)
  /\ UNCHANGED <<movements, counts, cuts>>

OpenFund(r) ==
  /\ requests[r].pc = "fund"
  /\ LET h == requests[r].shift
     IN movements' = movements \cup
          {[ref |-> h, shift |-> h, type |-> "opening_fund",
            direction |-> "in", amount |-> shifts[h].opening]}
  /\ Become(r, Idle)
  /\ UNCHANGED <<shifts, counts, cuts, drawer>>

----------------------------------------------------------------------------
\* registerMovement: a key already stored replays or is refused, without a
\* change; otherwise the insert, which does not look at the shift again.

RefUnused(ref) == \A m \in movements : m.ref # ref

\* The type is the client's, and its direction need not be the usual one.
MovementRead(r, h, key, type, direction, amount) ==
  /\ requests[r].pc = "idle"
  /\ IsOpen(h)
  /\ RefUnused(key)
  /\ Become(r, [pc |-> "move",
                movement |-> [ref |-> key, shift |-> h, type |-> type,
                              direction |-> direction, amount |-> amount]])
  /\ UNCHANGED <<shifts, movements, counts, cuts, drawer>>

\* Inside the transaction of a cash payment the shift is read without a lock.
SaleRead(r, h, sale, amount) ==
  /\ requests[r].pc = "idle"
  /\ IsOpen(h)
  /\ RefUnused(sale)
  /\ Become(r, [pc |-> "sale",
                movement |-> [ref |-> sale, shift |-> h, type |-> "other",
                              direction |-> "in", amount |-> amount]])
  /\ UNCHANGED <<shifts, movements, counts, cuts, drawer>>

\* The unique index decides between two requests with one key: the second
\* finds the first one's row and adds nothing.
UniqueRef(ref) == RefUnused(ref)

MovementInsert(r) ==
  /\ requests[r].pc \in {"move", "sale"}
  /\ LET movement == requests[r].movement
     IN IF UniqueRef(movement.ref)
        THEN /\ movements' = movements \cup {movement}
             /\ drawer' = [drawer EXCEPT ![movement.shift] = @ + Signed(movement)]
        ELSE UNCHANGED <<movements, drawer>>
  /\ Become(r, Idle)
  /\ UNCHANGED <<shifts, counts, cuts>>

----------------------------------------------------------------------------
CountingFund(h) == {m \in movements : m.shift = h}

IsFund(movement) == movement.direction = "in" /\ movement.type = "opening_fund"

\* sumMovementTotals leaves out what comes in as an opening fund; expectedAmount
\* adds the shift's openingAmount instead.
Counting(h) == {m \in movements : m.shift = h /\ ~IsFund(m)}

ExpectedAmount(h) == shifts[h].opening + MapThenSumSet(Signed, Counting(h))

\* A close goes on with the locals of closeShift.
GoOn(request, pc) ==
  [pc |-> pc, shift |-> request.shift, total |-> request.total,
   notes |-> request.notes, seen |-> request.seen]

CountRead(r, h, total) ==
  /\ requests[r].pc = "idle"
  /\ IsOpen(h)
  /\ Become(r, [pc |-> "count", shift |-> h, total |-> total])
  /\ UNCHANGED <<shifts, movements, counts, cuts, drawer>>

NoteForShortage(h, total) == total < ExpectedAmount(h)

\* closeShift projects the difference of the request's own count.
NoteDemanded(h, total) == total # ExpectedAmount(h)

\* closeShift: the difference is projected from the movements read here ...
CloseRead(r, h, total, notes) ==
  /\ requests[r].pc = "idle"
  /\ IsOpen(h)
  /\ ~HasCut(h)
  /\ NoteDemanded(h, total) => notes
  /\ Become(r, [pc |-> "closing", shift |-> h, total |-> total,
                notes |-> notes, seen |-> Counting(h)])
  /\ UNCHANGED <<shifts, movements, counts, cuts, drawer>>

\* ... then saveCount reads the shift again and stores the count ...
CloseSavesCount(r) ==
  /\ requests[r].pc = "closing"
  /\ IsOpen(requests[r].shift)
  /\ Become(r, GoOn(requests[r], "closeCount"))
  /\ UNCHANGED <<shifts, movements, counts, cuts, drawer>>

CountInsert(r) ==
  /\ requests[r].pc \in {"count", "closeCount"}
  /\ counts' = [counts EXCEPT ![requests[r].shift] = requests[r].total]
  /\ Become(r, IF requests[r].pc = "count" THEN Idle ELSE GoOn(requests[r], "preview"))
  /\ UNCHANGED <<shifts, movements, cuts, drawer>>

\* ... and the preview reads the movements and the latest count, whoever's.
CutPreview(r) ==
  /\ requests[r].pc = "preview"
  /\ LET h == requests[r].shift
     IN Become(r, [pc |-> "cut", shift |-> h,
                   cut |-> [expected |-> ExpectedAmount(h), counted |-> counts[h],
                            notes |-> requests[r].notes, covers |-> Counting(h),
                            seen |-> requests[r].seen, total |-> requests[r].total]])
  /\ UNCHANGED <<shifts, movements, counts, cuts, drawer>>

UniqueCutMissing(h) == TRUE

\* One cut per shift: a second one fails with the request.
UniqueCut(h) == ~HasCut(h)

CutInsert(r) ==
  /\ requests[r].pc = "cut"
  /\ UniqueCut(requests[r].shift)
  /\ LET h == requests[r].shift
     IN cuts' = [g \in DOMAIN cuts \cup {h} |-> IF g = h THEN requests[r].cut ELSE cuts[g]]
  /\ Become(r, [requests[r] EXCEPT !.pc = "close"])
  /\ UNCHANGED <<shifts, movements, counts, drawer>>

CloseUpdate(r) ==
  /\ requests[r].pc = "close"
  /\ LET h == requests[r].shift
     IN shifts' = [shifts EXCEPT ![h].status = "closed",
                                 ![h].closingExpected = requests[r].cut.expected,
                                 ![h].closingCounted = requests[r].cut.counted]
  /\ Become(r, Idle)
  /\ UNCHANGED <<movements, counts, cuts, drawer>>

\* A refused request, an error or a restart: what was written stays.
Abandon(r) ==
  /\ requests[r].pc # "idle"
  /\ Become(r, Idle)
  /\ UNCHANGED <<shifts, movements, counts, cuts, drawer>>

----------------------------------------------------------------------------
Next ==
  \E r \in Requests :
    \/ \E modulo \in Modulos, user \in Users, opening \in Funds :
         OpenRead(r, modulo, user, opening)
    \/ \E h \in Shifts : OpenCreate(r, h)
    \/ OpenFund(r)
    \/ \E h \in Shifts, key \in Keys, type \in Type,
          direction \in {"in", "out"}, amount \in Amounts :
         MovementRead(r, h, key, type, direction, amount)
    \/ \E h \in Shifts, sale \in Sales, amount \in Amounts : SaleRead(r, h, sale, amount)
    \/ MovementInsert(r)
    \/ \E h \in Shifts, total \in Counted : CountRead(r, h, total)
    \/ \E h \in Shifts, total \in Counted, notes \in BOOLEAN : CloseRead(r, h, total, notes)
    \/ CloseSavesCount(r)
    \/ CountInsert(r)
    \/ CutPreview(r)
    \/ CutInsert(r)
    \/ CloseUpdate(r)
    \/ Abandon(r)

Spec == Init /\ [][Next]_vars

----------------------------------------------------------------------------
\* Properties

\* A register has at most one open shift, however many requests open one.
OneOpenShiftPerModulo ==
  \A h, other \in Shifts :
    IsOpen(h) /\ IsOpen(other) /\ shifts[h].modulo = shifts[other].modulo => h = other

\* A closed shift carries the figures of its one cut, although two requests
\* may be closing it and each saved a count and a preview of its own.
ClosedAsCut ==
  \A h \in Shifts :
    shifts[h].status = "closed" =>
      /\ HasCut(h)
      /\ shifts[h].closingExpected = cuts[h].expected
      /\ shifts[h].closingCounted = cuts[h].counted

\* A manual movement sent again with its key, even at the same time, is one
\* movement; the same holds of a sale.
OneMovementPerRef == \A m, n \in movements : m.ref = n.ref => m = n

\* The rows have their columns, and a request that waits for the insert of its
\* fund, or for the last update of a close, still holds what it wrote: no other
\* request took its shift or its cut away.
RowsShaped ==
  /\ shifts = [h \in Shifts |-> shifts[h]]
  /\ \A h \in Shifts :
       shifts[h] = [status |-> shifts[h].status, modulo |-> shifts[h].modulo,
                    user |-> shifts[h].user, opening |-> shifts[h].opening,
                    closingExpected |-> shifts[h].closingExpected,
                    closingCounted |-> shifts[h].closingCounted]

NoFundYet(h) ==
  /\ RefUnused(h)
  /\ \A r \in Requests : requests[r].pc = "fund" => requests[r].shift # h

FundsPending ==
  /\ \A h \in Shifts : shifts[h].status = "none" => NoFundYet(h)
  /\ \A r \in Requests : requests[r].pc = "fund" =>
       /\ requests[r].shift \in Shifts
       /\ RefUnused(requests[r].shift)
       /\ \A q \in Requests :
            requests[q].pc = "fund" /\ requests[q].shift = requests[r].shift => q = r

RequestsHold ==
  /\ requests = [r \in Requests |-> requests[r]]
  /\ \A r \in Requests :
       /\ requests[r].pc \in {"move", "sale"} =>
            requests[r].movement.ref \in Keys \cup Sales
       /\ requests[r].pc = "cut" =>
            requests[r] = [pc |-> "cut", shift |-> requests[r].shift, cut |-> requests[r].cut]
       /\ requests[r].pc = "close" =>
            /\ HasCut(requests[r].shift)
            /\ cuts[requests[r].shift] = requests[r].cut

\* Inductive: opening, moving and closing by any number of requests keep one open
\* shift per register, one movement per key and the figures of a closed shift.
RegisterInv ==
  /\ RowsShaped
  /\ FundsPending
  /\ RequestsHold
  /\ OneOpenShiftPerModulo
  /\ OneMovementPerRef
  /\ ClosedAsCut

\* What was put in by hand as an opening fund, which no count ever sees again.
FundsByHand(h) == {m \in movements : m.shift = h /\ IsFund(m) /\ m.ref \notin Shifts}

\* What a preview expects is the cash in the drawer at that moment, less what
\* was put in by hand as an opening fund.  It does not matter whether the row of
\* the shift's own fund was written (a failure can leave it out).
ExpectedIsDrawerLessFunds ==
  [][\A r \in Requests :
       requests[r].pc = "preview" /\ requests'[r].pc = "cut" =>
         requests'[r].cut.expected =
           drawer[requests[r].shift]
             - MapThenSumSet(Signed, FundsByHand(requests[r].shift))]_vars

\* A cut with a difference has a note, unless the close was overtaken: another
\* movement was stored after it projected its difference, or the latest count,
\* with which the cut was made, is another request's.
UnexplainedWasOvertaken ==
  \A h \in DOMAIN cuts :
    cuts[h].counted # cuts[h].expected /\ ~cuts[h].notes =>
      cuts[h].seen # cuts[h].covers \/ cuts[h].counted # cuts[h].total

\* A cut is final: no request replaces it, and its shift never opens again.
CutIsFinal ==
  [][\A h \in Shifts :
       /\ HasCut(h) => HasCut(h)' /\ cuts'[h] = cuts[h]
       /\ shifts[h].status = "closed" => shifts'[h] = shifts[h]]_vars

\* Claimed: "Mantener auditoria en turno, movimientos, conteo y corte".  A cut
\* expects the cash that is in the drawer.
ExpectedIsDrawer ==
  [][\A r \in Requests :
       requests[r].pc = "preview" /\ requests'[r].pc = "cut" =>
         requests'[r].cut.expected = drawer[requests[r].shift]]_vars

\* Claimed: "El usuario ya tiene un turno abierto en otra caja" refuses a
\* second shift of the same user.
OneOpenShiftPerUser ==
  \A h, other \in Shifts :
    IsOpen(h) /\ IsOpen(other) /\ shifts[h].user = shifts[other].user => h = other

\* Claimed: "Captura una nota explicando la diferencia antes de cerrar el
\* turno".  A cut with a difference has a note.
DifferenceIsExplained ==
  \A h \in DOMAIN cuts :
    (cuts[h].counted # cuts[h].expected => cuts[h].notes)

\* Claimed: "El turno ya fue cerrado", said of a shift that has a cut.  Such a
\* shift is closed, or the request that made the cut is about to close it.
CutMeansClosed ==
  \A h \in DOMAIN cuts :
    \/ shifts[h].status = "closed"
    \/ \E r \in Requests : requests[r].pc = "close" /\ requests[r].shift = h

\* Claimed: "Mantener auditoria en turno, movimientos, conteo y corte".  The
\* cut of a closed shift covers every movement of the shift.
CutCoversShift ==
  \A h \in Shifts : shifts[h].status = "closed" => cuts[h].covers = Counting(h)
=============================================================================
