---------------------------- MODULE CashPayments ----------------------------
(***************************************************************************)
(* Charging a parking ticket: cash sessions at a POS register, payments    *)
(* confirmed by the app through the cloud, and the free exit inside the    *)
(* tolerance.  HTTP requests run concurrently over one PostgreSQL          *)
(* database (READ COMMITTED).  What a request reads outside a transaction  *)
(* is remembered in requests[r] and may be stale when it is used; inside   *)
(* the insertion transaction the session and ticket rows stay locked       *)
(* (SELECT ... FOR UPDATE) and other writers of those rows wait.           *)
(*                                                                         *)
(* Left out: who the actor is (project access, shift operator, POS module  *)
(* type).  These checks only refuse requests; they change no state.        *)
(***************************************************************************)
EXTENDS Processes, Naturals, FiniteSets, FiniteSetsExt

CONSTANTS
  Tickets,     \* tickets of cars inside the parking
  Sessions,    \* identifiers of cash payment sessions
  Shifts,      \* identifiers of shifts of one POS register
  Requests,    \* requests being served at the same time
  Keys,        \* Idempotency-Key values of cash insertions
  AppRefs,     \* providerReference values of app payments
  Cash,        \* amounts a cashier can insert at once
  Quotes       \* amounts the fee service may quote, 0 inside the tolerance

\* None is "no ticket" and "no shift", for a session not created yet.
ASSUME CashAssumption == Cash \subseteq Nat \ {0}
ASSUME QuotesAssumption == Quotes \subseteq Nat /\ 0 \in Quotes
ASSUME IdsAssumption ==
  /\ None \notin Tickets
  /\ None \notin Shifts
  /\ Sessions \cap AppRefs = {}

VARIABLES
  tickets,     \* table tickets: pagado and monto
  sessions,    \* table cash_payment_sessions with its events
  shifts,      \* table cash_register_shifts: status
  payments,    \* table payments
  movements,   \* table cash_register_movements, income of tickets only
  requests     \* what each request in progress remembers

vars == <<tickets, sessions, shifts, payments, movements, requests>>

----------------------------------------------------------------------------
Event == [key : Keys, amount : Cash]

\* "none" is an identifier not used yet; "cancelNotes" are the
\* session_cancelled events, without or with a reason.
Session ==
  [status : {"none", "pending_cash", "partially_paid", "paid", "cancelled"},
   ticket : Tickets \cup {None},
   shift : Shifts \cup {None},
   expected : Nat, received : Nat, change : Nat,
   events : SUBSET Event,
   cancelNotes : SUBSET {"silent", "explained"}]

Payment == [ref : Sessions \cup AppRefs, ticket : Tickets, amount : Nat]

Movement == [session : Sessions, shift : Shifts, amount : Nat]

Request ==
       [pc : {"idle"}]
  \cup [pc : {"quote", "free"}, ticket : Tickets]
  \cup [pc : {"start"}, ticket : Tickets, monto : Nat]
  \cup [pc : {"create"}, ticket : Tickets, monto : Nat, shift : Shifts]
  \cup [pc : {"commit"}, session : Sessions, key : Keys, amount : Cash]
  \cup [pc : {"cancel", "note"}, session : Sessions, reason : BOOLEAN]

TypeOK ==
  /\ tickets \in [Tickets -> [pagado : BOOLEAN, monto : Nat]]
  /\ sessions \in [Sessions -> Session]
  /\ shifts \in [Shifts -> {"none", "open", "closed"}]
  /\ payments \in SUBSET Payment
  /\ movements \in SUBSET Movement
  /\ requests \in [Requests -> Request]

NoSession ==
  [status |-> "none", ticket |-> None, shift |-> None,
   expected |-> 0, received |-> 0, change |-> 0,
   events |-> {}, cancelNotes |-> {}]

Init ==
  /\ tickets = [t \in Tickets |-> [pagado |-> FALSE, monto |-> 0]]
  /\ sessions = [s \in Sessions |-> NoSession]
  /\ shifts = [h \in Shifts |-> "none"]
  /\ payments = {}
  /\ movements = {}
  /\ requests = [r \in Requests |-> Idle]

----------------------------------------------------------------------------
IsSessionActive(s) == sessions[s].status \in {"pending_cash", "partially_paid"}

HasActiveSession(t) == \E s \in Sessions : sessions[s].ticket = t /\ IsSessionActive(s)

\* Rows held FOR UPDATE by an insertion transaction in progress.
SessionLocked(s) ==
  \E r \in Requests : requests[r].pc = "commit" /\ requests[r].session = s

TicketLocked(t) ==
  \E r \in Requests :
    requests[r].pc = "commit" /\ sessions[requests[r].session].ticket = t

Become(r, request) == requests' = [requests EXCEPT ![r] = request]

----------------------------------------------------------------------------
\* Quoting.  The app asks for the user's active ticket, or a cashier scans a
\* ticket that has no amount yet: an unlocked read of an unpaid ticket, a
\* quote, and then an update of the amount that does not look again.

BeginAppQuote(r, t) ==
  /\ requests[r].pc = "idle"
  /\ ~tickets[t].pagado
  /\ Become(r, [pc |-> "quote", ticket |-> t])
  /\ UNCHANGED <<tickets, sessions, shifts, payments, movements>>

BeginQrQuote(r, t) ==
  /\ requests[r].pc = "idle"
  /\ ~tickets[t].pagado
  /\ tickets[t].monto = 0
  /\ Become(r, [pc |-> "quote", ticket |-> t])
  /\ UNCHANGED <<tickets, sessions, shifts, payments, movements>>

WriteQuote(r, quote) ==
  /\ requests[r].pc = "quote"
  /\ ~TicketLocked(requests[r].ticket)
  /\ tickets' = [tickets EXCEPT ![requests[r].ticket].monto = quote]
  /\ Become(r, Idle)
  /\ UNCHANGED <<sessions, shifts, payments, movements>>

\* An exit whose stay costs nothing settles the ticket: the same unlocked
\* read, then an update that sets pagado and a zero amount.
BeginFreeExit(r, t) ==
  /\ requests[r].pc = "idle"
  /\ ~tickets[t].pagado
  /\ Become(r, [pc |-> "free", ticket |-> t])
  /\ UNCHANGED <<tickets, sessions, shifts, payments, movements>>

WriteFreeExit(r) ==
  /\ requests[r].pc = "free"
  /\ ~TicketLocked(requests[r].ticket)
  /\ tickets' = [tickets EXCEPT ![requests[r].ticket] = [pagado |-> TRUE, monto |-> 0]]
  /\ Become(r, Idle)
  /\ UNCHANGED <<sessions, shifts, payments, movements>>

----------------------------------------------------------------------------
\* startCashSession: three reads, then one insert guarded by the unique index
\* on the active session of a ticket.

StartRead(r, t) ==
  /\ requests[r].pc = "idle"
  /\ ~tickets[t].pagado
  /\ tickets[t].monto > 0
  /\ Become(r, [pc |-> "start", ticket |-> t, monto |-> tickets[t].monto])
  /\ UNCHANGED <<tickets, sessions, shifts, payments, movements>>

StartFindShift(r, h) ==
  /\ requests[r].pc = "start"
  /\ ~HasActiveSession(requests[r].ticket)
  /\ shifts[h] = "open"
  /\ Become(r, [pc |-> "create", ticket |-> requests[r].ticket,
                monto |-> requests[r].monto, shift |-> h])
  /\ UNCHANGED <<tickets, sessions, shifts, payments, movements>>

\* Before the insert, or because the insert hit the unique index, the request
\* returns the session somebody else started.
ReturnActiveSession(r) ==
  /\ requests[r].pc \in {"start", "create"}
  /\ HasActiveSession(requests[r].ticket)
  /\ Become(r, Idle)
  /\ UNCHANGED <<tickets, sessions, shifts, payments, movements>>

UniqueActiveSessionMissing(t) == TRUE

UniqueActiveSession(t) == ~HasActiveSession(t)

\* The foreign key to the ticket takes a lock that waits for FOR UPDATE.
CreateSession(r, s) ==
  /\ requests[r].pc = "create"
  /\ sessions[s].status = "none"
  /\ UniqueActiveSession(requests[r].ticket)
  /\ ~TicketLocked(requests[r].ticket)
  /\ sessions' = [sessions EXCEPT ![s] =
       [NoSession EXCEPT !.status = "pending_cash",
                         !.ticket = requests[r].ticket,
                         !.shift = requests[r].shift,
                         !.expected = requests[r].monto]]
  /\ Become(r, Idle)
  /\ UNCHANGED <<tickets, shifts, payments, movements>>

----------------------------------------------------------------------------
\* registerCashInsertion.  The checks made before the transaction are made
\* again inside it, so only those count.  The shift row is read there without
\* a lock; the transaction then writes everything at once.

KeyUnchecked(s, key) == TRUE

KeyUnused(s, key) == \A e \in sessions[s].events : e.key # key

TicketReadUnlocked(t) == ~tickets[t].pagado

PaidTicketChargeable(t) == ~TicketLocked(t)

TicketChargeable(t) == ~tickets[t].pagado /\ ~TicketLocked(t)

InsertionLocksAndChecks(r, s, key, amount) ==
  /\ requests[r].pc = "idle"
  /\ IsSessionActive(s)
  /\ ~SessionLocked(s)
  /\ KeyUnused(s, key)
  /\ TicketChargeable(sessions[s].ticket)
  /\ shifts[sessions[s].shift] = "open"
  /\ Become(r, [pc |-> "commit", session |-> s, key |-> key, amount |-> amount])
  /\ UNCHANGED <<tickets, sessions, shifts, payments, movements>>

WithInsertion(session, key, amount) ==
  LET received == session.received + amount
  IN [session EXCEPT
        !.received = received,
        !.change = IF received > session.expected THEN received - session.expected ELSE 0,
        !.status = IF received >= session.expected THEN "paid" ELSE "partially_paid",
        !.events = @ \cup {[key |-> key, amount |-> amount]}]

\* The payment takes the ticket's amount; it is created unless its
\* providerReference already exists.
WithCashPayment(s, t) ==
  IF \E p \in payments : p.ref = s
  THEN payments
  ELSE payments \cup {[ref |-> s, ticket |-> t, amount |-> tickets[t].monto]}

WithGrossMovement(s) ==
  movements \cup {[session |-> s, shift |-> sessions[s].shift, amount |-> sessions[s].received]}

\* The movement takes the amount the session was started with.
WithIncomeMovement(s) ==
  IF \E m \in movements : m.session = s
  THEN movements
  ELSE movements \cup
       {[session |-> s, shift |-> sessions[s].shift, amount |-> sessions[s].expected]}

CommitInsertion(r) ==
  /\ requests[r].pc = "commit"
  /\ LET s == requests[r].session
         t == sessions[s].ticket
         after == WithInsertion(sessions[s], requests[r].key, requests[r].amount)
     IN /\ sessions' = [sessions EXCEPT ![s] = after]
        /\ IF after.status = "paid"
           THEN /\ tickets' = [tickets EXCEPT ![t].pagado = TRUE]
                /\ payments' = WithCashPayment(s, t)
                /\ movements' = WithIncomeMovement(s)
           ELSE UNCHANGED <<tickets, payments, movements>>
  /\ Become(r, Idle)
  /\ UNCHANGED shifts

----------------------------------------------------------------------------
\* cancelSession: an unlocked read, an update of the status that waits for the
\* row but does not look at it again, and then the audit event.

CancelRead(r, s, reason) ==
  /\ requests[r].pc = "idle"
  /\ IsSessionActive(s)
  /\ sessions[s].received > 0 => reason
  /\ Become(r, [pc |-> "cancel", session |-> s, reason |-> reason])
  /\ UNCHANGED <<tickets, sessions, shifts, payments, movements>>

CancelWrite(r) ==
  /\ requests[r].pc = "cancel"
  /\ ~SessionLocked(requests[r].session)
  /\ sessions' = [sessions EXCEPT ![requests[r].session].status = "cancelled"]
  /\ Become(r, [pc |-> "note", session |-> requests[r].session, reason |-> requests[r].reason])
  /\ UNCHANGED <<tickets, shifts, payments, movements>>

AppendCancelEvent(r) ==
  /\ requests[r].pc = "note"
  /\ ~SessionLocked(requests[r].session)
  /\ sessions' = [sessions EXCEPT ![requests[r].session].cancelNotes =
                    @ \cup {IF requests[r].reason THEN "explained" ELSE "silent"}]
  /\ Become(r, Idle)
  /\ UNCHANGED <<tickets, shifts, payments, movements>>

----------------------------------------------------------------------------
\* applyCloudPayment: one transaction that locks the ticket and reads nothing
\* before the lock, so the whole of it is one step.  A reference already
\* stored returns without a change.
ApplyCloudPayment(t, ref, amount) ==
  /\ amount > 0
  /\ \A p \in payments : p.ref # ref
  /\ TicketChargeable(t)
  /\ tickets[t].monto = amount
  /\ payments' = payments \cup {[ref |-> ref, ticket |-> t, amount |-> amount]}
  /\ tickets' = [tickets EXCEPT ![t].pagado = TRUE]
  /\ UNCHANGED <<sessions, shifts, movements, requests>>

\* The register's own operations, as far as payments see them: the status.
OpenShift(h) ==
  /\ shifts[h] = "none"
  /\ \A other \in Shifts : shifts[other] # "open"
  /\ shifts' = [shifts EXCEPT ![h] = "open"]
  /\ UNCHANGED <<tickets, sessions, payments, movements, requests>>

CloseShift(h) ==
  /\ shifts[h] = "open"
  /\ shifts' = [shifts EXCEPT ![h] = "closed"]
  /\ UNCHANGED <<tickets, sessions, payments, movements, requests>>

\* An error, a lost connection or a restart: an open transaction rolls back
\* and the request forgets what it read.
Abandon(r) ==
  /\ requests[r].pc # "idle"
  /\ Become(r, Idle)
  /\ UNCHANGED <<tickets, sessions, shifts, payments, movements>>

----------------------------------------------------------------------------
Next ==
  \/ \E r \in Requests, t \in Tickets :
       \/ BeginAppQuote(r, t)
       \/ BeginQrQuote(r, t)
       \/ BeginFreeExit(r, t)
       \/ StartRead(r, t)
  \/ \E r \in Requests, quote \in Quotes : WriteQuote(r, quote)
  \/ \E r \in Requests, h \in Shifts : StartFindShift(r, h)
  \/ \E r \in Requests, s \in Sessions : CreateSession(r, s)
  \/ \E r \in Requests, s \in Sessions, key \in Keys, amount \in Cash :
       InsertionLocksAndChecks(r, s, key, amount)
  \/ \E r \in Requests, s \in Sessions, reason \in BOOLEAN : CancelRead(r, s, reason)
  \/ \E r \in Requests :
       \/ WriteFreeExit(r)
       \/ ReturnActiveSession(r)
       \/ CommitInsertion(r)
       \/ CancelWrite(r)
       \/ AppendCancelEvent(r)
       \/ Abandon(r)
  \/ \E t \in Tickets, ref \in AppRefs, amount \in Quotes : ApplyCloudPayment(t, ref, amount)
  \/ \E h \in Shifts : OpenShift(h) \/ CloseShift(h)

Spec == Init /\ [][Next]_vars

----------------------------------------------------------------------------
\* Properties

\* A ticket is charged at most once, whatever mix of cash sessions, app
\* payments and their repeats runs at the same time (row locks of
\* commitCashInsertionTransaction and applyCloudPayment).
ChargedOnce == \A p, q \in payments : p.ticket = q.ticket => p = q

\* The session, the ticket, the payment and the cash movement of a cash charge
\* commit together: each cash payment has the movement of its session in the
\* session's shift for the amount it expected, and the other way round, its ticket
\* is paid, and a session that says "paid" has both.
CashLedgerAgrees ==
  /\ {p.ref : p \in payments} \cap Sessions = {m.session : m \in movements}
  /\ \A p \in payments :
       /\ tickets[p.ticket].pagado
       /\ p.ref \in Sessions => p.ticket = sessions[p.ref].ticket
  /\ \A m \in movements :
       /\ m.shift = sessions[m.session].shift
       /\ m.amount = sessions[m.session].expected
  /\ \A s \in Sessions :
       sessions[s].status = "paid" => \E m \in movements : m.session = s

\* Cash is neither lost nor counted twice under concurrent and repeated
\* insertions: what a session has received is the sum of its events, one per
\* idempotency key, and the change is the excess over the expected amount.
CashCounted ==
  \A s \in Sessions :
    LET session == sessions[s]
    IN /\ session.received = MapThenSumSet(LAMBDA e : e.amount, session.events)
       /\ \A e, f \in session.events : e.key = f.key => e = f
       /\ session.change = IF session.received > session.expected
                           THEN session.received - session.expected ELSE 0

\* A session still taking cash has not received its amount yet, and a ticket
\* has at most one such session (two POS requests may start it together).
OneSessionStillOwed ==
  /\ \A s \in Sessions : IsSessionActive(s) => sessions[s].received < sessions[s].expected
  /\ \A s, other \in Sessions :
       /\ IsSessionActive(s)
       /\ IsSessionActive(other)
       /\ sessions[s].ticket = sessions[other].ticket
       => s = other

\* Once a ticket is paid, by whatever channel, no session takes cash for it,
\* not even one that was started, or had an insertion on its way, before.
NoCashForPaidTicket ==
  [][\A s \in Sessions :
       sessions[s].received # sessions'[s].received => ~tickets[sessions[s].ticket].pagado]_vars

\* What holds between the steps of a charge.  A session in use has its ticket
\* and shift, an insertion or cancellation under way is for a session in use,
\* and a payment is for a paid ticket, its session's if it is cash.
TicketOf(r) == sessions[requests[r].session].ticket

SessionsBegun ==
  /\ \A s \in Sessions :
       IF sessions[s].status = "none"
       THEN sessions[s] = NoSession
       ELSE sessions[s].ticket \in Tickets /\ sessions[s].shift \in Shifts
  /\ \A r \in Requests :
       requests[r].pc \in {"commit", "cancel", "note"} =>
         sessions[requests[r].session].status # "none"

PaymentsSettle ==
  \A p \in payments :
    /\ tickets[p.ticket].pagado
    /\ p.ref \in Sessions =>
         sessions[p.ref].status # "none" /\ sessions[p.ref].ticket = p.ticket

\* An insertion past its checks holds the lock of an unpaid ticket by itself.
CommitsHoldTicket ==
  \A r \in Requests : requests[r].pc = "commit" =>
    /\ ~tickets[TicketOf(r)].pagado
    /\ \A q \in Requests : requests[q].pc = "commit" /\ TicketOf(q) = TicketOf(r) => q = r

\* The inductive invariant of the proofs: what the row locks keep between the
\* checks of commitCashInsertionTransaction and its commit.
ChargeInv == TypeOK /\ SessionsBegun /\ PaymentsSettle /\ CommitsHoldTicket /\ ChargedOnce

\* A request that will start a session carries an amount to charge, and an
\* insertion past its checks finds its session still taking cash and its key
\* still unused when it commits (the row lock on the session).
CommitsFindSession ==
  \A r \in Requests :
    /\ requests[r].pc \in {"start", "create"} => requests[r].monto > 0
    /\ requests[r].pc = "commit" =>
         /\ IsSessionActive(requests[r].session)
         /\ KeyUnused(requests[r].session, requests[r].key)

EventsFinite == \A s \in Sessions : IsFiniteSet(sessions[s].events)

\* The inductive invariant of the proofs about cash: the rows of one charge,
\* in four tables, move together.
LedgerInv ==
  /\ ChargeInv
  /\ CommitsFindSession
  /\ EventsFinite
  /\ OneSessionStillOwed
  /\ CashLedgerAgrees
  /\ CashCounted

\* The payment code implements TicketSettlement: seen from a ticket, its
\* payments and pagado make one settlement, through one channel, for good.
SettledBy(t) ==
  IF \E p \in payments : p.ticket = t /\ p.ref \in Sessions THEN "cash"
  ELSE IF \E p \in payments : p.ticket = t THEN "app"
  ELSE IF tickets[t].pagado THEN "free"
  ELSE "owed"

Settlement ==
  INSTANCE TicketSettlement WITH settledBy <- [t \in Tickets |-> SettledBy(t)]

SettledOnce == Settlement!Spec

\* Claimed: "Captura un motivo de cancelacion cuando el cobro ya tiene
\* efectivo registrado".  A session cancelled with cash in it has a reason.
CashCancelledWithReason ==
  \A s \in Sessions :
    sessions[s].status = "cancelled" /\ sessions[s].received > 0
      => "silent" \notin sessions[s].cancelNotes

\* Claimed: "Registrar el movimiento neto del boleto en el turno de caja".
\* The shift's movement and the payment of one charge have the same amount.
MovementIsTicketAmount ==
  \A p \in payments, m \in movements : p.ref = m.session => p.amount = m.amount
=============================================================================
