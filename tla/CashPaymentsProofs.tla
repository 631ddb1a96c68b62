-------------------------- MODULE CashPaymentsProofs --------------------------
(***************************************************************************)
(* Theorems about CashPayments, for every set of tickets, sessions,        *)
(* requests, keys, amounts and quotes.                                     *)
(***************************************************************************)
EXTENDS CashPayments, FiniteSums, FiniteSetTheorems, TLAPS

----------------------------------------------------------------------------
\* Type correctness

\* What a request remembers, by the step it is at.
LEMMA RequestFields ==
  ASSUME TypeOK, NEW r \in Requests
  PROVE  /\ requests[r].pc \in {"quote", "free", "start", "create"} => requests[r].ticket \in Tickets
         /\ requests[r].pc \in {"start", "create"} => requests[r].monto \in Nat
         /\ requests[r].pc = "create" => requests[r].shift \in Shifts
         /\ requests[r].pc \in {"commit", "cancel", "note"} => requests[r].session \in Sessions
         /\ requests[r].pc = "commit" => requests[r].key \in Keys /\ requests[r].amount \in Cash
         /\ requests[r].pc \in {"cancel", "note"} => requests[r].reason \in BOOLEAN
BY DEF TypeOK, Request

\* A request that moves to a well-typed step leaves all requests well typed.
LEMMA BecomeType ==
  ASSUME TypeOK, NEW r \in Requests, NEW request \in Request, Become(r, request)
  PROVE  requests' \in [Requests -> Request]
BY DEF TypeOK, Become

\* What the program can be in before the first request is well typed.
LEMMA InitType == Init => TypeOK
BY DEF Init, TypeOK, Session, NoSession, Payment, Movement, Request, Idle

\* Taking an insertion into a session keeps the session's row well typed.
LEMMA InsertionType ==
  ASSUME NEW session \in Session, NEW key \in Keys, NEW amount \in Cash
  PROVE  WithInsertion(session, key, amount) \in Session
<1>. DEFINE received == session.received + amount
            events == session.events \cup {[key |-> key, amount |-> amount]}
            change == IF received > session.expected THEN received - session.expected ELSE 0
<1>1. received \in Nat /\ session.expected \in Nat
  BY CashAssumption DEF Session
<1>2. change \in Nat
  BY <1>1
<1>3. events \in SUBSET Event
  BY DEF Session, Event
<1>. HIDE DEF received, events, change
<1>4. \A status \in {"paid", "partially_paid"} :
        [session EXCEPT !.received = received, !.change = change,
                        !.status = status, !.events = events] \in Session
  BY <1>1, <1>2, <1>3 DEF Session
<1>. QED
  BY <1>4 DEF WithInsertion, received, events, change

\* SessionsBegun is needed for the ticket and the shift of a payment's rows.
LEMMA StepType == TypeOK /\ SessionsBegun /\ [Next]_vars => TypeOK'
<1>. SUFFICES ASSUME TypeOK, SessionsBegun, [Next]_vars
              PROVE  TypeOK'
  OBVIOUS
<1>. USE RequestFields, BecomeType
<1>1. ASSUME NEW r \in Requests, NEW t \in Tickets, BeginAppQuote(r, t) \/ BeginQrQuote(r, t)
      PROVE  TypeOK'
  <2>1. [pc |-> "quote", ticket |-> t] \in Request
    BY DEF Request
  <2>. QED
    BY <1>1, <2>1 DEF BeginAppQuote, BeginQrQuote, TypeOK
<1>2. ASSUME NEW r \in Requests, NEW t \in Tickets, BeginFreeExit(r, t)
      PROVE  TypeOK'
  <2>1. [pc |-> "free", ticket |-> t] \in Request
    BY DEF Request
  <2>. QED
    BY <1>2, <2>1 DEF BeginFreeExit, TypeOK
<1>3. ASSUME NEW r \in Requests, NEW t \in Tickets, StartRead(r, t)
      PROVE  TypeOK'
  <2>1. [pc |-> "start", ticket |-> t, monto |-> tickets[t].monto] \in Request
    BY DEF Request, TypeOK
  <2>. QED
    BY <1>3, <2>1 DEF StartRead, TypeOK
<1>4. ASSUME NEW r \in Requests, NEW quote \in Quotes, WriteQuote(r, quote)
      PROVE  TypeOK'
  <2>1. Idle \in Request /\ quote \in Nat
    BY QuotesAssumption DEF Request, Idle
  <2>2. tickets' \in [Tickets -> [pagado : BOOLEAN, monto : Nat]]
    BY <1>4, <2>1 DEF WriteQuote, TypeOK
  <2>. QED
    BY <1>4, <2>1, <2>2 DEF WriteQuote, TypeOK
<1>5. ASSUME NEW r \in Requests, NEW h \in Shifts, StartFindShift(r, h)
      PROVE  TypeOK'
  <2>1. [pc |-> "create", ticket |-> requests[r].ticket,
         monto |-> requests[r].monto, shift |-> h] \in Request
    BY <1>5 DEF StartFindShift, Request
  <2>. QED
    BY <1>5, <2>1 DEF StartFindShift, TypeOK
<1>6. ASSUME NEW r \in Requests, NEW s \in Sessions, CreateSession(r, s)
      PROVE  TypeOK'
  <2>1. Idle \in Request
    BY DEF Request, Idle
  <2>2. [NoSession EXCEPT !.status = "pending_cash", !.ticket = requests[r].ticket,
                          !.shift = requests[r].shift,
                          !.expected = requests[r].monto] \in Session
    BY <1>6 DEF CreateSession, NoSession, Session
  <2>3. sessions' \in [Sessions -> Session]
    BY <1>6, <2>2 DEF CreateSession, TypeOK
  <2>. QED
    BY <1>6, <2>1, <2>3 DEF CreateSession, TypeOK
<1>7. ASSUME NEW r \in Requests, NEW s \in Sessions, NEW key \in Keys, NEW amount \in Cash,
             InsertionLocksAndChecks(r, s, key, amount)
      PROVE  TypeOK'
  <2>1. [pc |-> "commit", session |-> s, key |-> key, amount |-> amount] \in Request
    BY DEF Request
  <2>. QED
    BY <1>7, <2>1 DEF InsertionLocksAndChecks, TypeOK
<1>8. ASSUME NEW r \in Requests, NEW s \in Sessions, NEW reason \in BOOLEAN,
             CancelRead(r, s, reason)
      PROVE  TypeOK'
  <2>1. [pc |-> "cancel", session |-> s, reason |-> reason] \in Request
    BY DEF Request
  <2>. QED
    BY <1>8, <2>1 DEF CancelRead, TypeOK
<1>9. ASSUME NEW r \in Requests, WriteFreeExit(r)
      PROVE  TypeOK'
  <2>1. Idle \in Request
    BY DEF Request, Idle
  <2>2. tickets' \in [Tickets -> [pagado : BOOLEAN, monto : Nat]]
    BY <1>9 DEF WriteFreeExit, TypeOK
  <2>. QED
    BY <1>9, <2>1, <2>2 DEF WriteFreeExit, TypeOK
<1>10. ASSUME NEW r \in Requests, ReturnActiveSession(r) \/ Abandon(r)
       PROVE  TypeOK'
  <2>1. Idle \in Request
    BY DEF Request, Idle
  <2>. QED
    BY <1>10, <2>1 DEF ReturnActiveSession, Abandon, TypeOK
<1>11. ASSUME NEW r \in Requests, CommitInsertion(r)
       PROVE  TypeOK'
  <2>. DEFINE s == requests[r].session
              t == sessions[s].ticket
              after == WithInsertion(sessions[s], requests[r].key, requests[r].amount)
  <2>1. Idle \in Request
    BY DEF Request, Idle
  <2>2. s \in Sessions /\ t \in Tickets /\ sessions[s].shift \in Shifts
    BY <1>11 DEF CommitInsertion, SessionsBegun
  <2>3. after \in Session
    BY <1>11, <2>2, InsertionType DEF CommitInsertion, TypeOK
  <2>4. WithCashPayment(s, t) \in SUBSET Payment
    BY <2>2 DEF WithCashPayment, TypeOK, Payment
  <2>5. WithIncomeMovement(s) \in SUBSET Movement
    BY <2>2 DEF WithIncomeMovement, TypeOK, Movement, Session
  <2>6. [tickets EXCEPT ![t].pagado = TRUE] \in [Tickets -> [pagado : BOOLEAN, monto : Nat]]
    BY <2>2 DEF TypeOK
  <2>7. [sessions EXCEPT ![s] = after] \in [Sessions -> Session]
    BY <2>2, <2>3 DEF TypeOK
  <2>8. /\ sessions' = [sessions EXCEPT ![s] = after]
        /\ tickets' = [tickets EXCEPT ![t].pagado = TRUE] \/ tickets' = tickets
        /\ payments' = WithCashPayment(s, t) \/ payments' = payments
        /\ movements' = WithIncomeMovement(s) \/ movements' = movements
        /\ shifts' = shifts
        /\ Become(r, Idle)
    BY <1>11 DEF CommitInsertion
  <2>. HIDE DEF s, t, after
  <2>. QED
    BY <2>1, <2>4, <2>5, <2>6, <2>7, <2>8 DEF TypeOK
<1>12. ASSUME NEW r \in Requests, CancelWrite(r)
       PROVE  TypeOK'
  <2>. DEFINE s == requests[r].session
  <2>1. [pc |-> "note", session |-> s, reason |-> requests[r].reason] \in Request
    BY <1>12 DEF CancelWrite, Request
  <2>2. s \in Sessions /\ sessions[s] \in Session
    BY <1>12 DEF CancelWrite, TypeOK
  <2>3. [sessions[s] EXCEPT !.status = "cancelled"] \in Session
    BY <2>2 DEF Session
  <2>4. sessions' \in [Sessions -> Session]
    BY <1>12, <2>2, <2>3 DEF CancelWrite, TypeOK
  <2>. QED
    BY <1>12, <2>1, <2>4 DEF CancelWrite, TypeOK
<1>13. ASSUME NEW r \in Requests, AppendCancelEvent(r)
       PROVE  TypeOK'
  <2>1. Idle \in Request
    BY DEF Request, Idle
  <2>. DEFINE s == requests[r].session
              notes == sessions[s].cancelNotes
                         \cup {IF requests[r].reason THEN "explained" ELSE "silent"}
  <2>2. s \in Sessions /\ sessions[s] \in Session
    BY <1>13 DEF AppendCancelEvent, TypeOK
  <2>3. notes \in SUBSET {"silent", "explained"}
    BY <2>2 DEF Session
  <2>. HIDE DEF notes
  <2>4. [sessions[s] EXCEPT !.cancelNotes = notes] \in Session
    BY <2>2, <2>3 DEF Session
  <2>5. sessions' \in [Sessions -> Session]
    BY <1>13, <2>2, <2>4 DEF AppendCancelEvent, TypeOK, notes
  <2>. QED
    BY <1>13, <2>1, <2>5 DEF AppendCancelEvent, TypeOK
<1>14. ASSUME NEW t \in Tickets, NEW ref \in AppRefs, NEW amount \in Quotes,
              ApplyCloudPayment(t, ref, amount)
       PROVE  TypeOK'
  <2>1. [ref |-> ref, ticket |-> t, amount |-> amount] \in Payment
    BY QuotesAssumption DEF Payment
  <2>2. payments' \in SUBSET Payment
    BY <1>14, <2>1 DEF ApplyCloudPayment, TypeOK
  <2>3. tickets' \in [Tickets -> [pagado : BOOLEAN, monto : Nat]]
    BY <1>14 DEF ApplyCloudPayment, TypeOK
  <2>. QED
    BY <1>14, <2>2, <2>3 DEF ApplyCloudPayment, TypeOK
<1>15. ASSUME NEW h \in Shifts, OpenShift(h) \/ CloseShift(h)
       PROVE  TypeOK'
  BY <1>15 DEF OpenShift, CloseShift, TypeOK
<1>16. CASE UNCHANGED vars
  BY <1>16 DEF vars, TypeOK
<1>. QED
  BY <1>1, <1>2, <1>3, <1>4, <1>5, <1>6, <1>7, <1>8, <1>9, <1>10, <1>11, <1>12, <1>13,
     <1>14, <1>15, <1>16 DEF Next

----------------------------------------------------------------------------
\* The inductive invariant, part by part

LEMMA StepBegun == TypeOK /\ SessionsBegun /\ [Next]_vars => SessionsBegun'
<1>. SUFFICES ASSUME TypeOK, SessionsBegun, [Next]_vars
              PROVE  SessionsBegun'
  OBVIOUS
<1>. USE RequestFields
<1>1. ASSUME NEW r \in Requests, NEW t \in Tickets,
             \/ BeginAppQuote(r, t) \/ BeginQrQuote(r, t)
             \/ BeginFreeExit(r, t) \/ StartRead(r, t)
      PROVE  SessionsBegun'
  BY <1>1 DEF BeginAppQuote, BeginQrQuote, BeginFreeExit, StartRead, Become, SessionsBegun, TypeOK
<1>2. ASSUME NEW r \in Requests, NEW quote \in Quotes, WriteQuote(r, quote)
      PROVE  SessionsBegun'
  BY <1>2 DEF WriteQuote, Become, Idle, SessionsBegun, TypeOK
<1>3. ASSUME NEW r \in Requests, NEW h \in Shifts, StartFindShift(r, h)
      PROVE  SessionsBegun'
  BY <1>3 DEF StartFindShift, Become, SessionsBegun, TypeOK
<1>4. ASSUME NEW r \in Requests, NEW s \in Sessions, CreateSession(r, s)
      PROVE  SessionsBegun'
  BY <1>4 DEF CreateSession, Become, Idle, NoSession, SessionsBegun, TypeOK
<1>5. ASSUME NEW r \in Requests, NEW s \in Sessions, NEW key \in Keys, NEW amount \in Cash,
             InsertionLocksAndChecks(r, s, key, amount)
      PROVE  SessionsBegun'
  BY <1>5 DEF InsertionLocksAndChecks, IsSessionActive, Become, SessionsBegun, TypeOK
<1>6. ASSUME NEW r \in Requests, NEW s \in Sessions, NEW reason \in BOOLEAN,
             CancelRead(r, s, reason)
      PROVE  SessionsBegun'
  BY <1>6 DEF CancelRead, IsSessionActive, Become, SessionsBegun, TypeOK
<1>7. ASSUME NEW r \in Requests, WriteFreeExit(r) \/ ReturnActiveSession(r) \/ Abandon(r)
      PROVE  SessionsBegun'
  BY <1>7 DEF WriteFreeExit, ReturnActiveSession, Abandon, Become, Idle, SessionsBegun, TypeOK
<1>8. ASSUME NEW r \in Requests, CommitInsertion(r)
      PROVE  SessionsBegun'
  BY <1>8 DEF CommitInsertion, WithInsertion, Become, Idle, SessionsBegun, TypeOK, Session
<1>9. ASSUME NEW r \in Requests, CancelWrite(r)
      PROVE  SessionsBegun'
  BY <1>9 DEF CancelWrite, Become, SessionsBegun, TypeOK, Session
<1>10. ASSUME NEW r \in Requests, AppendCancelEvent(r)
       PROVE  SessionsBegun'
  BY <1>10 DEF AppendCancelEvent, Become, Idle, SessionsBegun, TypeOK, Session
<1>11. ASSUME NEW t \in Tickets, NEW ref \in AppRefs, NEW amount \in Quotes,
              ApplyCloudPayment(t, ref, amount)
       PROVE  SessionsBegun'
  BY <1>11 DEF ApplyCloudPayment, SessionsBegun
<1>12. ASSUME NEW h \in Shifts, OpenShift(h) \/ CloseShift(h)
       PROVE  SessionsBegun'
  BY <1>12 DEF OpenShift, CloseShift, SessionsBegun
<1>13. CASE UNCHANGED vars
  BY <1>13 DEF vars, SessionsBegun
<1>. QED
  BY <1>1, <1>2, <1>3, <1>4, <1>5, <1>6, <1>7, <1>8, <1>9, <1>10, <1>11, <1>12, <1>13 DEF Next

----------------------------------------------------------------------------
\* The inductive invariant

\* An insertion past its checks: its ticket is owed and has no payment, of its
\* own session or another.
LEMMA CommitFacts ==
  ASSUME ChargeInv, NEW r \in Requests, requests[r].pc = "commit"
  PROVE  /\ requests[r].session \in Sessions
         /\ sessions[requests[r].session] \in Session
         /\ sessions[requests[r].session].status # "none"
         /\ TicketOf(r) \in Tickets
         /\ tickets[TicketOf(r)].pagado = FALSE
         /\ \A p \in payments : p.ticket # TicketOf(r)
         /\ WithCashPayment(requests[r].session, TicketOf(r)) =
              payments \cup {[ref |-> requests[r].session, ticket |-> TicketOf(r),
                              amount |-> tickets[TicketOf(r)].monto]}
<1>. DEFINE s == requests[r].session
<1>1. s \in Sessions /\ sessions[s] \in Session /\ sessions[s].status # "none"
  BY RequestFields DEF ChargeInv, SessionsBegun, TypeOK
<1>2. TicketOf(r) \in Tickets
  BY <1>1 DEF ChargeInv, SessionsBegun, TicketOf
<1>3. tickets[TicketOf(r)].pagado = FALSE
  BY <1>2 DEF ChargeInv, CommitsHoldTicket, TypeOK
<1>4. \A p \in payments : p.ticket # TicketOf(r)
  BY <1>3 DEF ChargeInv, PaymentsSettle
<1>5. \A p \in payments : p.ref # s
  BY <1>1, <1>4 DEF ChargeInv, PaymentsSettle, TicketOf
<1>6. WithCashPayment(s, TicketOf(r)) =
        payments \cup {[ref |-> s, ticket |-> TicketOf(r), amount |-> tickets[TicketOf(r)].monto]}
  BY <1>5 DEF WithCashPayment
<1>. QED
  BY <1>1, <1>2, <1>3, <1>4, <1>6

\* What CommitInsertion does, for the three parts below: the session keeps its
\* ticket, and either nothing else changes or the ticket and its payment do.
LEMMA CommitEffect ==
  ASSUME ChargeInv, NEW r \in Requests, CommitInsertion(r)
  PROVE  /\ \A s \in Sessions :
              /\ sessions'[s].ticket = sessions[s].ticket
              /\ sessions[s].status # "none" => sessions'[s].status # "none"
         /\ requests' = [requests EXCEPT ![r] = Idle]
         /\ \A t \in Tickets : t # TicketOf(r) => tickets'[t] = tickets[t]
         /\ \/ tickets' = tickets /\ payments' = payments
            \/ /\ tickets'[TicketOf(r)].pagado
               /\ payments' = payments \cup
                    {[ref |-> requests[r].session, ticket |-> TicketOf(r),
                      amount |-> tickets[TicketOf(r)].monto]}
<1>. DEFINE s == requests[r].session
            t == TicketOf(r)
            after == WithInsertion(sessions[s], requests[r].key, requests[r].amount)
<1>1. requests[r].pc = "commit"
  BY DEF CommitInsertion
<1>2. /\ sessions' = [sessions EXCEPT ![s] = after]
      /\ requests' = [requests EXCEPT ![r] = Idle]
      /\ \/ tickets' = tickets /\ payments' = payments
         \/ /\ tickets' = [tickets EXCEPT ![t].pagado = TRUE]
            /\ payments' = WithCashPayment(s, t)
  BY DEF CommitInsertion, Become, TicketOf
<1>3. after.ticket = sessions[s].ticket /\ after.status # "none"
  BY <1>1, CommitFacts DEF WithInsertion, Session
<1>. HIDE DEF after
<1>4. \A other \in Sessions :
        /\ sessions'[other].ticket = sessions[other].ticket
        /\ sessions[other].status # "none" => sessions'[other].status # "none"
  BY <1>1, <1>2, <1>3, CommitFacts DEF ChargeInv, TypeOK
<1>5. \A other \in Tickets : other # t => tickets'[other] = tickets[other]
  BY <1>1, <1>2, CommitFacts DEF ChargeInv, TypeOK
<1>6. tickets' = [tickets EXCEPT ![t].pagado = TRUE] => tickets'[t].pagado
  BY <1>1, CommitFacts DEF ChargeInv, TypeOK
<1>. HIDE DEF t
<1>. QED
  BY <1>1, <1>2, <1>4, <1>5, <1>6, CommitFacts DEF t

LEMMA StepSettles == ChargeInv /\ [Next]_vars => PaymentsSettle' /\ ChargedOnce'
<1>. SUFFICES ASSUME ChargeInv, [Next]_vars
              PROVE  PaymentsSettle' /\ ChargedOnce'
  OBVIOUS
<1>. USE RequestFields DEF ChargeInv
<1>1. ASSUME payments' = payments, tickets' = tickets, sessions' = sessions
      PROVE  PaymentsSettle' /\ ChargedOnce'
  BY <1>1 DEF PaymentsSettle, ChargedOnce
<1>2. ASSUME NEW r \in Requests, NEW quote \in Quotes, WriteQuote(r, quote)
      PROVE  PaymentsSettle' /\ ChargedOnce'
  BY <1>2 DEF WriteQuote, PaymentsSettle, ChargedOnce, TypeOK, Payment
<1>3. ASSUME NEW r \in Requests, WriteFreeExit(r)
      PROVE  PaymentsSettle' /\ ChargedOnce'
  BY <1>3 DEF WriteFreeExit, PaymentsSettle, ChargedOnce, TypeOK, Payment
<1>4. ASSUME NEW r \in Requests, NEW s \in Sessions, CreateSession(r, s)
      PROVE  PaymentsSettle' /\ ChargedOnce'
  BY <1>4 DEF CreateSession, PaymentsSettle, ChargedOnce, TypeOK
<1>5. ASSUME NEW r \in Requests, CancelWrite(r) \/ AppendCancelEvent(r)
      PROVE  PaymentsSettle' /\ ChargedOnce'
  BY <1>5 DEF CancelWrite, AppendCancelEvent, PaymentsSettle, ChargedOnce, TypeOK, Session
<1>6. ASSUME NEW r \in Requests, CommitInsertion(r)
      PROVE  PaymentsSettle' /\ ChargedOnce'
  <2>1. requests[r].pc = "commit"
    BY <1>6 DEF CommitInsertion
  <2>. DEFINE charge == [ref |-> requests[r].session, ticket |-> TicketOf(r),
                         amount |-> tickets[TicketOf(r)].monto]
  <2>2. payments' = payments \/ payments' = payments \cup {charge}
    BY <1>6, CommitEffect
  <2>3. ASSUME NEW p \in payments
        PROVE  /\ tickets'[p.ticket].pagado
               /\ p.ref \in Sessions =>
                    sessions'[p.ref].status # "none" /\ sessions'[p.ref].ticket = p.ticket
    BY <1>6, <2>1, CommitEffect, CommitFacts DEF PaymentsSettle, TypeOK, Payment
  <2>4. ASSUME charge \in payments'
        PROVE  /\ tickets'[charge.ticket].pagado
               /\ sessions'[charge.ref].status # "none"
               /\ sessions'[charge.ref].ticket = charge.ticket
    <3>1. charge.ref = requests[r].session /\ charge.ticket = TicketOf(r)
      OBVIOUS
    <3>2. charge \notin payments
      BY <2>1, <3>1, CommitFacts
    <3>3. payments' # payments
      BY <2>4, <3>2
    <3>. HIDE DEF charge
    <3>4. TicketOf(r) = sessions[requests[r].session].ticket
      BY DEF TicketOf
    <3>. QED
      BY <1>6, <2>1, <3>1, <3>3, <3>4, CommitEffect, CommitFacts
  <2>5. PaymentsSettle'
    BY <2>2, <2>3, <2>4 DEF PaymentsSettle
  <2>6. ChargedOnce'
    <3>1. \A p \in payments : p.ticket # charge.ticket
      BY <2>1, CommitFacts
    <3>. HIDE DEF charge
    <3>. QED
      BY <2>2, <3>1 DEF ChargedOnce
  <2>. QED
    BY <2>5, <2>6
<1>7. ASSUME NEW t \in Tickets, NEW ref \in AppRefs, NEW amount \in Quotes,
             ApplyCloudPayment(t, ref, amount)
      PROVE  PaymentsSettle' /\ ChargedOnce'
  <2>1. tickets[t].pagado = FALSE /\ \A p \in payments : p.ticket # t
    BY <1>7 DEF ApplyCloudPayment, TicketChargeable, PaymentsSettle, TypeOK
  <2>2. PaymentsSettle'
    BY <1>7, IdsAssumption DEF ApplyCloudPayment, PaymentsSettle, TypeOK, Payment
  <2>3. ChargedOnce'
    BY <1>7, <2>1 DEF ApplyCloudPayment, ChargedOnce
  <2>. QED
    BY <2>2, <2>3
<1>. QED
  BY <1>1, <1>2, <1>3, <1>4, <1>5, <1>6, <1>7
  DEF Next, vars, BeginAppQuote, BeginQrQuote, BeginFreeExit, StartRead, StartFindShift,
      ReturnActiveSession, InsertionLocksAndChecks, CancelRead, OpenShift, CloseShift, Abandon

LEMMA StepHolds == ChargeInv /\ [Next]_vars => CommitsHoldTicket'
<1>. SUFFICES ASSUME ChargeInv, [Next]_vars
              PROVE  CommitsHoldTicket'
  OBVIOUS
<1>. USE RequestFields DEF ChargeInv
<1>1. ASSUME NEW r \in Requests, NEW request, request.pc # "commit", Become(r, request),
             tickets' = tickets, sessions' = sessions
      PROVE  CommitsHoldTicket'
  BY <1>1 DEF Become, CommitsHoldTicket, TicketOf, TypeOK
<1>2. ASSUME NEW r \in Requests, NEW quote \in Quotes, WriteQuote(r, quote)
      PROVE  CommitsHoldTicket'
  BY <1>2 DEF WriteQuote, TicketLocked, Become, Idle, CommitsHoldTicket, TicketOf, TypeOK
<1>3. ASSUME NEW r \in Requests, WriteFreeExit(r)
      PROVE  CommitsHoldTicket'
  BY <1>3 DEF WriteFreeExit, TicketLocked, Become, Idle, CommitsHoldTicket, TicketOf, TypeOK
<1>4. ASSUME NEW r \in Requests, NEW s \in Sessions, CreateSession(r, s)
      PROVE  CommitsHoldTicket'
  BY <1>4 DEF CreateSession, Become, Idle, SessionsBegun, CommitsHoldTicket, TicketOf, TypeOK
<1>5. ASSUME NEW r \in Requests, NEW s \in Sessions, NEW key \in Keys, NEW amount \in Cash,
             InsertionLocksAndChecks(r, s, key, amount)
      PROVE  CommitsHoldTicket'
  BY <1>5 DEF InsertionLocksAndChecks, TicketChargeable, TicketLocked, Become,
              CommitsHoldTicket, TicketOf, TypeOK
<1>6. ASSUME NEW r \in Requests, CommitInsertion(r)
      PROVE  CommitsHoldTicket'
  <2>1. requests[r].pc = "commit"
    BY <1>6 DEF CommitInsertion
  <2>2. ASSUME NEW q \in Requests, requests'[q].pc = "commit"
        PROVE  q # r /\ requests'[q] = requests[q] /\ requests[q].pc = "commit"
    BY <1>6, <2>2, CommitEffect DEF Idle, TypeOK
  <2>3. ASSUME NEW q \in Requests, requests'[q].pc = "commit"
        PROVE  TicketOf(q)' = TicketOf(q) /\ TicketOf(q) # TicketOf(r) /\ TicketOf(q) \in Tickets
    <3>1. requests[q].session \in Sessions /\ TicketOf(q) \in Tickets
      BY <2>2, <2>3, CommitFacts
    <3>2. TicketOf(q)' = TicketOf(q)
      BY <1>6, <2>2, <2>3, <3>1, CommitEffect DEF TicketOf
    <3>. QED
      BY <2>1, <2>2, <2>3, <3>1, <3>2 DEF CommitsHoldTicket
  <2>. QED
    BY <1>6, <2>2, <2>3, CommitEffect DEF CommitsHoldTicket
<1>7. ASSUME NEW r \in Requests, CancelWrite(r) \/ AppendCancelEvent(r)
      PROVE  CommitsHoldTicket'
  <2>1. \A s \in Sessions : sessions'[s].ticket = sessions[s].ticket
    <3>1. \A session \in Session :
            /\ [session EXCEPT !.status = "cancelled"].ticket = session.ticket
            /\ \A notes : [session EXCEPT !.cancelNotes = notes].ticket = session.ticket
      BY DEF Session
    <3>2. CASE CancelWrite(r)
      BY <3>1, <3>2 DEF CancelWrite, TypeOK
    <3>3. CASE AppendCancelEvent(r)
      BY <3>1, <3>3 DEF AppendCancelEvent, TypeOK
    <3>. QED
      BY <1>7, <3>2, <3>3
  <2>2. ASSUME NEW q \in Requests, requests'[q].pc = "commit"
        PROVE  requests'[q] = requests[q] /\ requests[q].session \in Sessions
    BY <1>7, <2>2 DEF CancelWrite, AppendCancelEvent, Become, Idle, TypeOK
  <2>3. tickets' = tickets
    BY <1>7 DEF CancelWrite, AppendCancelEvent
  <2>. QED
    BY <2>1, <2>2, <2>3 DEF CommitsHoldTicket, TicketOf
<1>8. ASSUME NEW t \in Tickets, NEW ref \in AppRefs, NEW amount \in Quotes,
             ApplyCloudPayment(t, ref, amount)
      PROVE  CommitsHoldTicket'
  BY <1>8 DEF ApplyCloudPayment, TicketChargeable, TicketLocked, CommitsHoldTicket, TicketOf, TypeOK
<1>9. CASE UNCHANGED <<tickets, sessions, requests>>
  BY <1>9 DEF CommitsHoldTicket, TicketOf
<1>. QED
  BY <1>1, <1>2, <1>3, <1>4, <1>5, <1>6, <1>7, <1>8, <1>9
  DEF Next, vars, BeginAppQuote, BeginQrQuote, BeginFreeExit, StartRead, StartFindShift,
      ReturnActiveSession, CancelRead, OpenShift, CloseShift, Abandon, Idle

LEMMA InitCharge == Init => ChargeInv
BY InitType DEF Init, ChargeInv, SessionsBegun, PaymentsSettle, CommitsHoldTicket, ChargedOnce,
                NoSession, Idle

\* The inductive invariant holds in every reachable state.
THEOREM ChargeInvariant == Spec => []ChargeInv
<1>1. ChargeInv /\ [Next]_vars => ChargeInv'
  BY StepType, StepBegun, StepSettles, StepHolds DEF ChargeInv
<1>. QED
  BY <1>1, InitCharge, PTL DEF Spec

\* Every row and every request stays well typed; in particular the change of a
\* session is never negative (commitCashInsertionTransaction).
THEOREM TypeCorrect == Spec => []TypeOK
BY ChargeInvariant, PTL DEF ChargeInv

\* No ticket is ever charged twice, for any number of requests and channels.
THEOREM NeverChargedTwice == Spec => []ChargedOnce
BY ChargeInvariant, PTL DEF ChargeInv

----------------------------------------------------------------------------
\* Cash and paid tickets

\* The step form of the next theorem.
LEMMA StepNoCash ==
  ChargeInv /\ [Next]_vars =>
    [\A s \in Sessions :
       sessions[s].received # sessions'[s].received => ~tickets[sessions[s].ticket].pagado]_vars
<1>. SUFFICES ASSUME ChargeInv, Next, NEW s \in Sessions,
                     sessions[s].received # sessions'[s].received
              PROVE  ~tickets[sessions[s].ticket].pagado
  OBVIOUS
<1>. USE RequestFields DEF ChargeInv
<1>1. CASE sessions' = sessions
  BY <1>1
<1>2. ASSUME NEW r \in Requests, NEW fresh \in Sessions, CreateSession(r, fresh)
      PROVE  FALSE
  BY <1>2 DEF CreateSession, SessionsBegun, NoSession, TypeOK
<1>3. ASSUME NEW r \in Requests, CommitInsertion(r)
      PROVE  ~tickets[sessions[s].ticket].pagado
  <2>1. requests[r].pc = "commit"
    BY <1>3 DEF CommitInsertion
  <2>2. requests[r].session = s
    BY <1>3 DEF CommitInsertion, TypeOK
  <2>. QED
    BY <2>1, <2>2, CommitFacts DEF TicketOf
<1>4. ASSUME NEW r \in Requests, CancelWrite(r) \/ AppendCancelEvent(r)
      PROVE  FALSE
  <2>1. \A session \in Session :
          /\ [session EXCEPT !.status = "cancelled"].received = session.received
          /\ \A notes : [session EXCEPT !.cancelNotes = notes].received = session.received
    BY DEF Session
  <2>2. CASE CancelWrite(r)
    BY <2>1, <2>2 DEF CancelWrite, TypeOK
  <2>3. CASE AppendCancelEvent(r)
    BY <2>1, <2>3 DEF AppendCancelEvent, TypeOK
  <2>. QED
    BY <1>4, <2>2, <2>3
<1>. QED
  BY <1>1, <1>2, <1>3, <1>4
  DEF Next, BeginAppQuote, BeginQrQuote, WriteQuote, BeginFreeExit, WriteFreeExit, StartRead,
      StartFindShift, ReturnActiveSession, InsertionLocksAndChecks, CancelRead,
      ApplyCloudPayment, OpenShift, CloseShift, Abandon

\* No cash is ever taken for a ticket already paid, by cash, by the app or by a
\* free exit, not even by an insertion on its way when that happens.
THEOREM NeverCashForPaidTicket == Spec => NoCashForPaidTicket
BY ChargeInvariant, StepNoCash, PTL DEF Spec, NoCashForPaidTicket

----------------------------------------------------------------------------
\* The sum of the insertions of a session

\* What the events of a session add up to.
Total(S) == MapThenSumSet(LAMBDA e : e.amount, S)

\* The sum of CashCounted is one of those functions.
LEMMA TotalIs ==
  ASSUME NEW E, IsFiniteSet(E), NEW w, \A e \in E : w[e] = e.amount
  PROVE  \E g : SumsUp(g, E, w) /\ Total(E) = g[E]
<1>. DEFINE Chosen(S) == CHOOSE x \in S : TRUE
            Added(g) == [S \in SUBSET E |->
                           IF S = {} THEN 0 ELSE Chosen(S).amount + g[S \ {Chosen(S)}]]
            sum == CHOOSE g : g = Added(g)
<1>1. ASSUME NEW g
      PROVE  Added(g) = [S \in SUBSET E |->
                           IF S = {} THEN 0 ELSE w[SomeOf(S)] + g[S \ {SomeOf(S)}]]
  <2>1. ASSUME NEW S \in SUBSET E, S # {}
        PROVE  SomeOf(S).amount = w[SomeOf(S)]
    BY <2>1, SomeOfIn
  <2>. QED
    BY <2>1 DEF SomeOf
<1>2. PICK f : SumsUp(f, E, w)
  BY SumExists
<1>3. SumsUp(sum, E, w)
  <2>1. f = Added(f)
    <3>. HIDE DEF Added
    <3>. QED
      BY <1>1, <1>2 DEF SumsUp
  <2>2. sum = Added(sum)
    <3>. HIDE DEF Added
    <3>. QED
      BY <2>1
  <2>. HIDE DEF Added, sum
  <2>. QED
    BY <1>1, <2>2 DEF SumsUp
<1>4. Total(E) = sum[E]
  BY DEF Total, MapThenSumSet, MapThenFoldSet
<1>. QED
  BY <1>3, <1>4

\* The events of a session with one more event add up to that much more.
LEMMA TotalOfOneMore ==
  ASSUME NEW E, IsFiniteSet(E), \A x \in E : x.amount \in Nat,
         NEW e, e \notin E, e.amount \in Nat
  PROVE  Total(E \cup {e}) = Total(E) + e.amount /\ Total(E) \in Nat
<1>. DEFINE all == E \cup {e}
            w == [x \in all |-> x.amount]
<1>1. IsFiniteSet(all)
  BY FS_AddElement
<1>2. /\ \A x \in all : w[x] = x.amount /\ w[x] \in Nat
      /\ E \in SUBSET all /\ e \in all /\ all \ {e} = E
  OBVIOUS
<1>. HIDE DEF all, w
<1>3. PICK g : SumsUp(g, E, w) /\ Total(E) = g[E]
  BY <1>2, TotalIs
<1>4. PICK h : SumsUp(h, all, w) /\ Total(all) = h[all]
  BY <1>1, <1>2, TotalIs
<1>5. h[all] = w[e] + h[E]
  BY <1>1, <1>2, <1>4, SumRemove
<1>6. h[E] = g[E]
  <2>1. E \in SUBSET all /\ SumsUp(h, all, w) /\ SumsUp(g, E, w) /\ E \in SUBSET E
    BY <1>2, <1>3, <1>4
  <2>. QED
    <3>1. \A S \in SUBSET E : h[S] = g[S]
      BY <1>1, <2>1, SumsAgree
    <3>. QED
      BY <2>1, <3>1
<1>7. g[E] \in Nat
  <2>1. 0 \in Nat /\ \A i, j \in Nat : i + j \in Nat
    OBVIOUS
  <2>2. \A S \in SUBSET E : g[S] \in Nat
    BY <1>2, <1>3, <2>1, SumIn
  <2>. QED
    BY <2>2
<1>8. Total(all) = e.amount + Total(E) /\ Total(E) \in Nat
  BY <1>2, <1>3, <1>4, <1>5, <1>6, <1>7
<1>. QED
  <2>. HIDE DEF Total
  <2>. QED
    BY <1>8 DEF all

\* No events add up to nothing.
LEMMA TotalOfNone == Total({}) = 0
<1>1. IsFiniteSet({})
  BY FS_EmptySet
<1>2. PICK w : w = [e \in {} |-> e.amount]
  OBVIOUS
<1>3. PICK g : SumsUp(g, {}, w) /\ Total({}) = g[{}]
  BY <1>1, TotalIs
<1>. QED
  BY <1>3 DEF SumsUp

----------------------------------------------------------------------------
\* The rows of one charge move together

\* What an insertion writes in its session, column by column.
LEMMA InsertionFields ==
  ASSUME NEW session \in Session, NEW key \in Keys, NEW amount \in Cash,
         NEW after, after = WithInsertion(session, key, amount)
  PROVE  /\ after.received = session.received + amount
         /\ after.change = IF after.received > session.expected
                           THEN after.received - session.expected ELSE 0
         /\ after.status = IF after.received >= session.expected
                           THEN "paid" ELSE "partially_paid"
         /\ after.events = session.events \cup {[key |-> key, amount |-> amount]}
         /\ after.ticket = session.ticket
         /\ after.shift = session.shift
         /\ after.expected = session.expected
<1>. DEFINE received == session.received + amount
            change == IF received > session.expected THEN received - session.expected ELSE 0
            status == IF received >= session.expected THEN "paid" ELSE "partially_paid"
            events == session.events \cup {[key |-> key, amount |-> amount]}
<1>1. after = [session EXCEPT !.received = received, !.change = change,
                              !.status = status, !.events = events]
  BY DEF WithInsertion
<1>. HIDE DEF received, change, status, events
<1>2. /\ after.received = received /\ after.change = change
      /\ after.status = status /\ after.events = events
      /\ after.ticket = session.ticket /\ after.shift = session.shift
      /\ after.expected = session.expected
  BY <1>1 DEF Session
<1>. QED
  BY <1>2 DEF received, change, status, events

\* A session just created.
LEMMA CreatedFields ==
  ASSUME TypeOK, NEW r \in Requests, NEW s \in Sessions, CreateSession(r, s)
  PROVE  /\ sessions'[s].status = "pending_cash"
         /\ sessions'[s].ticket = requests[r].ticket
         /\ sessions'[s].expected = requests[r].monto
         /\ sessions'[s].received = 0 /\ sessions'[s].change = 0
         /\ sessions'[s].events = {}
         /\ \A other \in Sessions : other # s => sessions'[other] = sessions[other]
<1>. PICK ticket, shift, monto :
       ticket = requests[r].ticket /\ shift = requests[r].shift /\ monto = requests[r].monto
  OBVIOUS
<1>. DEFINE new == [NoSession EXCEPT !.status = "pending_cash", !.ticket = ticket,
                                     !.shift = shift, !.expected = monto]
<1>1. sessions'[s] = new /\ \A other \in Sessions : other # s => sessions'[other] = sessions[other]
  BY DEF CreateSession, TypeOK
<1>2. /\ new.status = "pending_cash" /\ new.ticket = ticket /\ new.expected = monto
      /\ new.received = 0 /\ new.change = 0 /\ new.events = {}
  BY DEF NoSession
<1>. HIDE DEF new
<1>. QED
  BY <1>1, <1>2

\* A cancellation keeps every column of a session but its status and notes.
LEMMA CancelFields ==
  ASSUME TypeOK, NEW r \in Requests, CancelWrite(r) \/ AppendCancelEvent(r), NEW s \in Sessions
  PROVE  /\ sessions'[s].ticket = sessions[s].ticket
         /\ sessions'[s].shift = sessions[s].shift
         /\ sessions'[s].expected = sessions[s].expected
         /\ sessions'[s].received = sessions[s].received
         /\ sessions'[s].change = sessions[s].change
         /\ sessions'[s].events = sessions[s].events
         /\ \/ sessions'[s].status = sessions[s].status
            \/ sessions'[s].status = "cancelled" /\ ~SessionLocked(s)
<1>. USE RequestFields
<1>1. \A session \in Session : \A notes :
        LET cancelled == [session EXCEPT !.status = "cancelled"]
            noted == [session EXCEPT !.cancelNotes = notes]
        IN /\ cancelled.ticket = session.ticket /\ noted.ticket = session.ticket
           /\ cancelled.shift = session.shift /\ noted.shift = session.shift
           /\ cancelled.expected = session.expected /\ noted.expected = session.expected
           /\ cancelled.received = session.received /\ noted.received = session.received
           /\ cancelled.change = session.change /\ noted.change = session.change
           /\ cancelled.events = session.events /\ noted.events = session.events
           /\ cancelled.status = "cancelled" /\ noted.status = session.status
  BY DEF Session
<1>2. CASE CancelWrite(r)
  <2>1. CASE s = requests[r].session
    <3>1. sessions'[s] = [sessions[s] EXCEPT !.status = "cancelled"] /\ ~SessionLocked(s)
      BY <1>2, <2>1 DEF CancelWrite, TypeOK
    <3>. QED
      BY <1>1, <3>1 DEF TypeOK
  <2>2. CASE s # requests[r].session
    BY <1>2, <2>2 DEF CancelWrite, TypeOK
  <2>. QED
    BY <2>1, <2>2
<1>3. CASE AppendCancelEvent(r)
  <2>1. CASE s = requests[r].session
    <3>1. PICK notes : sessions'[s] = [sessions[s] EXCEPT !.cancelNotes = notes]
      BY <1>3, <2>1 DEF AppendCancelEvent, TypeOK
    <3>. QED
      BY <1>1, <3>1 DEF TypeOK
  <2>2. CASE s # requests[r].session
    BY <1>3, <2>2 DEF AppendCancelEvent, TypeOK
  <2>. QED
    BY <2>1, <2>2
<1>. QED
  BY <1>2, <1>3

\* A commit writes one session, the one of its request, and leaves the others.
LEMMA CommitWrites ==
  ASSUME LedgerInv, NEW r \in Requests, CommitInsertion(r)
  PROVE  \E s \in Sessions, key \in Keys, amount \in Cash :
           /\ requests[r].pc = "commit" /\ requests[r].session = s
           /\ IsSessionActive(s) /\ KeyUnused(s, key)
           /\ sessions[s] \in Session /\ sessions[s].ticket \in Tickets
           /\ sessions[s].shift \in Shifts
           /\ sessions'[s] = WithInsertion(sessions[s], key, amount)
           /\ \A other \in Sessions : other # s => sessions'[other] = sessions[other]
           /\ requests' = [requests EXCEPT ![r] = Idle]
           /\ \/ sessions'[s].status # "paid" /\ payments' = payments /\ movements' = movements
              \/ /\ sessions'[s].status = "paid"
                 /\ payments' = WithCashPayment(s, sessions[s].ticket)
                 /\ movements' = WithIncomeMovement(s)
<1>. USE DEF LedgerInv, ChargeInv
<1>1. requests[r].pc = "commit"
  BY DEF CommitInsertion
<1>2. PICK s \in Sessions, key \in Keys, amount \in Cash :
        s = requests[r].session /\ key = requests[r].key /\ amount = requests[r].amount
  BY <1>1, RequestFields
<1>3. IsSessionActive(s) /\ KeyUnused(s, key)
  BY <1>1, <1>2 DEF CommitsFindSession
<1>4. sessions[s] \in Session /\ sessions[s].ticket \in Tickets /\ sessions[s].shift \in Shifts
  BY <1>3 DEF TypeOK, SessionsBegun, IsSessionActive
<1>5. PICK after : after = WithInsertion(sessions[s], key, amount)
  OBVIOUS
<1>6. sessions' = [sessions EXCEPT ![s] = after] /\ requests' = [requests EXCEPT ![r] = Idle]
  BY <1>2, <1>5 DEF CommitInsertion, Become
<1>7. sessions'[s] = after /\ \A other \in Sessions : other # s => sessions'[other] = sessions[other]
  BY <1>6 DEF TypeOK
<1>8. \/ after.status # "paid" /\ payments' = payments /\ movements' = movements
      \/ /\ after.status = "paid"
         /\ payments' = WithCashPayment(s, sessions[s].ticket)
         /\ movements' = WithIncomeMovement(s)
  BY <1>2, <1>5 DEF CommitInsertion
<1>. QED
  BY <1>1, <1>2, <1>3, <1>4, <1>5, <1>6, <1>7, <1>8

\* Two requests never hold the same session; what one holds, no other step
\* changes.
LEMMA StepFindsSession == LedgerInv /\ [Next]_vars => CommitsFindSession'
<1>. SUFFICES ASSUME LedgerInv, [Next]_vars
              PROVE  CommitsFindSession'
  OBVIOUS
<1>. USE RequestFields DEF LedgerInv, ChargeInv
<1>1. ASSUME NEW r \in Requests, NEW request, request.pc \notin {"start", "create", "commit"},
             Become(r, request), sessions' = sessions
      PROVE  CommitsFindSession'
  BY <1>1 DEF Become, CommitsFindSession, IsSessionActive, KeyUnused, TypeOK
<1>2. ASSUME NEW r \in Requests, NEW t \in Tickets, StartRead(r, t)
      PROVE  CommitsFindSession'
  BY <1>2 DEF StartRead, Become, CommitsFindSession, IsSessionActive, KeyUnused, TypeOK
<1>3. ASSUME NEW r \in Requests, NEW h \in Shifts, StartFindShift(r, h)
      PROVE  CommitsFindSession'
  BY <1>3 DEF StartFindShift, Become, CommitsFindSession, IsSessionActive, KeyUnused, TypeOK
<1>4. ASSUME NEW r \in Requests, NEW s \in Sessions, CreateSession(r, s)
      PROVE  CommitsFindSession'
  <2>1. requests' = [requests EXCEPT ![r] = Idle] /\ sessions[s].status = "none"
    BY <1>4 DEF CreateSession, Become
  <2>2. ASSUME NEW q \in Requests, requests'[q].pc \in {"start", "create", "commit"}
        PROVE  requests'[q] = requests[q]
    BY <2>1, <2>2 DEF TypeOK, Idle
  <2>3. ASSUME NEW q \in Requests, requests[q].pc = "commit"
        PROVE  sessions'[requests[q].session] = sessions[requests[q].session]
    <3>1. requests[q].session # s
      BY <2>1, <2>3 DEF CommitsFindSession, IsSessionActive
    <3>. QED
      BY <1>4, <2>3, <3>1, CreatedFields
  <2>. QED
    BY <2>2, <2>3 DEF CommitsFindSession, IsSessionActive, KeyUnused
<1>5. ASSUME NEW r \in Requests, NEW s \in Sessions, NEW key \in Keys, NEW amount \in Cash,
             InsertionLocksAndChecks(r, s, key, amount)
      PROVE  CommitsFindSession'
  BY <1>5 DEF InsertionLocksAndChecks, Become, CommitsFindSession, IsSessionActive, KeyUnused, TypeOK
<1>6. ASSUME NEW r \in Requests, CommitInsertion(r)
      PROVE  CommitsFindSession'
  <2>1. PICK s \in Sessions :
          /\ requests[r].pc = "commit" /\ requests[r].session = s
          /\ \A other \in Sessions : other # s => sessions'[other] = sessions[other]
          /\ requests' = [requests EXCEPT ![r] = Idle]
    BY <1>6, CommitWrites
  <2>2. ASSUME NEW q \in Requests, requests'[q].pc \in {"start", "create", "commit"}
        PROVE  q # r /\ requests'[q] = requests[q]
    BY <2>1, <2>2 DEF TypeOK, Idle
  <2>3. ASSUME NEW q \in Requests, q # r, requests[q].pc = "commit"
        PROVE  sessions'[requests[q].session] = sessions[requests[q].session]
    BY <2>1, <2>3 DEF CommitsHoldTicket, TicketOf
  <2>. QED
    BY <2>2, <2>3 DEF CommitsFindSession, IsSessionActive, KeyUnused
<1>7. ASSUME NEW r \in Requests, CancelWrite(r) \/ AppendCancelEvent(r)
      PROVE  CommitsFindSession'
  <2>1. ASSUME NEW q \in Requests, requests'[q].pc \in {"start", "create", "commit"}
        PROVE  requests'[q] = requests[q]
    BY <1>7, <2>1 DEF CancelWrite, AppendCancelEvent, Become, Idle, TypeOK
  <2>2. ASSUME NEW q \in Requests, requests[q].pc = "commit"
        PROVE  LET s == requests[q].session
               IN  sessions'[s].status = sessions[s].status /\ sessions'[s].events = sessions[s].events
    BY <1>7, <2>2, CancelFields DEF SessionLocked
  <2>. QED
    BY <2>1, <2>2 DEF CommitsFindSession, IsSessionActive, KeyUnused
<1>8. CASE UNCHANGED <<sessions, requests>>
  BY <1>8 DEF CommitsFindSession, IsSessionActive, KeyUnused
<1>. QED
  BY <1>1, <1>2, <1>3, <1>4, <1>5, <1>6, <1>7, <1>8
  DEF Next, vars, BeginAppQuote, BeginQrQuote, WriteQuote, BeginFreeExit, WriteFreeExit,
      ReturnActiveSession, CancelRead, ApplyCloudPayment, OpenShift, CloseShift, Abandon, Idle

\* Steps other than these four leave the sessions alone.
LEMMA SessionWriters ==
  ASSUME [Next]_vars, sessions' # sessions
  PROVE  \/ \E r \in Requests, s \in Sessions : CreateSession(r, s)
         \/ \E r \in Requests : CommitInsertion(r)
         \/ \E r \in Requests : CancelWrite(r) \/ AppendCancelEvent(r)
BY DEF Next, vars, BeginAppQuote, BeginQrQuote, WriteQuote, BeginFreeExit, WriteFreeExit, StartRead,
       StartFindShift, ReturnActiveSession, InsertionLocksAndChecks, CancelRead,
       ApplyCloudPayment, OpenShift, CloseShift, Abandon

LEMMA StepStillOwed == LedgerInv /\ [Next]_vars => OneSessionStillOwed'
<1>. SUFFICES ASSUME LedgerInv, [Next]_vars
              PROVE  OneSessionStillOwed'
  OBVIOUS
<1>. USE RequestFields DEF LedgerInv, ChargeInv
<1>1. CASE sessions' = sessions
  BY <1>1 DEF OneSessionStillOwed, IsSessionActive
<1>2. ASSUME NEW r \in Requests, NEW s \in Sessions, CreateSession(r, s)
      PROVE  OneSessionStillOwed'
  <2>1. requests[r].pc = "create" /\ ~HasActiveSession(requests[r].ticket)
    BY <1>2 DEF CreateSession, UniqueActiveSession
  <2>2. 0 < sessions'[s].expected
    BY <1>2, <2>1, CreatedFields DEF CommitsFindSession
  <2>. QED
    BY <1>2, <2>1, <2>2, CreatedFields DEF OneSessionStillOwed, IsSessionActive, HasActiveSession
<1>3. ASSUME NEW r \in Requests, CommitInsertion(r)
      PROVE  OneSessionStillOwed'
  <2>1. PICK s \in Sessions, key \in Keys, amount \in Cash :
          /\ IsSessionActive(s) /\ sessions[s] \in Session
          /\ sessions'[s] = WithInsertion(sessions[s], key, amount)
          /\ \A other \in Sessions : other # s => sessions'[other] = sessions[other]
    BY <1>3, CommitWrites
  <2>2. PICK after : after = sessions'[s]
    OBVIOUS
  <2>3. /\ after.ticket = sessions[s].ticket
        /\ after.status \in {"pending_cash", "partially_paid"} => after.received < after.expected
    <3>1. after.received \in Nat /\ after.expected \in Nat
      BY <2>1, <2>2, InsertionType DEF Session
    <3>2. /\ after.status = IF after.received >= after.expected THEN "paid" ELSE "partially_paid"
          /\ after.ticket = sessions[s].ticket
      BY <2>1, <2>2, InsertionFields
    <3>. QED
      BY <3>1, <3>2
  <2>. QED
    BY <2>1, <2>2, <2>3 DEF OneSessionStillOwed, IsSessionActive
<1>4. ASSUME NEW r \in Requests, CancelWrite(r) \/ AppendCancelEvent(r)
      PROVE  OneSessionStillOwed'
  BY <1>4, CancelFields DEF OneSessionStillOwed, IsSessionActive
<1>. QED
  BY <1>1, <1>2, <1>3, <1>4, SessionWriters

\* CashCounted, session by session.
AddsUp(session) ==
  /\ session.received = Total(session.events)
  /\ \A e, f \in session.events : e.key = f.key => e = f
  /\ session.change = IF session.received > session.expected
                      THEN session.received - session.expected ELSE 0

LEMMA CountedEach == CashCounted <=> \A s \in Sessions : AddsUp(sessions[s])
BY DEF CashCounted, AddsUp, Total

LEMMA StepCounted == LedgerInv /\ [Next]_vars => EventsFinite' /\ CashCounted'
<1>. SUFFICES ASSUME LedgerInv, [Next]_vars
              PROVE  EventsFinite' /\ CashCounted'
  OBVIOUS
<1>. USE RequestFields DEF LedgerInv, ChargeInv
<1>. DEFINE Counted(session) == IsFiniteSet(session.events) /\ AddsUp(session)
<1>1. \A s \in Sessions : Counted(sessions[s])
  BY CountedEach DEF EventsFinite
<1>2. SUFFICES \A s \in Sessions : Counted(sessions'[s])
  <2>1. CashCounted' <=> (\A s \in Sessions : AddsUp(sessions[s]))'
    BY CountedEach, PTL
  <2>. QED
    BY <2>1 DEF EventsFinite
<1>. USE DEF AddsUp
<1>3. ASSUME NEW r \in Requests, NEW new \in Sessions, CreateSession(r, new), NEW s \in Sessions
      PROVE  Counted(sessions'[s])
  <2>1. CASE s = new
    <3>1. sessions'[s].expected \in Nat
      BY <1>3, <2>1, CreatedFields DEF CreateSession
    <3>2. /\ sessions'[s].received = 0 /\ sessions'[s].change = 0
          /\ sessions'[s].events = {}
      BY <1>3, <2>1, CreatedFields
    <3>3. IsFiniteSet(sessions'[s].events) /\ Total(sessions'[s].events) = 0
      BY <3>2, TotalOfNone, FS_EmptySet
    <3>. QED
      BY <3>1, <3>2, <3>3
  <2>2. CASE s # new
    BY <1>1, <1>3, <2>2, CreatedFields
  <2>. QED
    BY <2>1, <2>2
<1>4. ASSUME NEW r \in Requests, CommitInsertion(r), NEW s \in Sessions
      PROVE  Counted(sessions'[s])
  <2>1. PICK c \in Sessions, key \in Keys, amount \in Cash :
          /\ KeyUnused(c, key) /\ sessions[c] \in Session
          /\ sessions'[c] = WithInsertion(sessions[c], key, amount)
          /\ \A other \in Sessions : other # c => sessions'[other] = sessions[other]
    BY <1>4, CommitWrites
  <2>2. CASE s # c
    BY <1>1, <2>1, <2>2
  <2>3. CASE s = c
    <3>1. PICK before, after : before = sessions[c] /\ after = sessions'[c]
      OBVIOUS
    <3>2. PICK event : event = [key |-> key, amount |-> amount]
      OBVIOUS
    <3>3. event.key = key /\ event.amount = amount /\ amount \in Nat
      BY <3>2, CashAssumption
    <3>4. /\ \A e \in before.events : e.key # key /\ e.amount \in Nat
          /\ event \notin before.events
      BY <2>1, <3>1, <3>3, CashAssumption DEF KeyUnused, Session, Event
    <3>5. /\ after.received = before.received + amount
          /\ after.change = IF after.received > before.expected
                            THEN after.received - before.expected ELSE 0
          /\ after.events = before.events \cup {event}
          /\ after.expected = before.expected
      BY <2>1, <3>1, <3>2, InsertionFields
    <3>6. Counted(before)
      BY <1>1, <3>1
    <3>7. Total(after.events) = Total(before.events) + amount
      BY <3>3, <3>4, <3>5, <3>6, TotalOfOneMore
    <3>8. IsFiniteSet(after.events)
      BY <3>5, <3>6, FS_AddElement
    <3>9. \A e, f \in after.events : e.key = f.key => e = f
      BY <3>3, <3>4, <3>5, <3>6
    <3>. QED
      BY <2>3, <3>1, <3>5, <3>6, <3>7, <3>8, <3>9
  <2>. QED
    BY <2>2, <2>3
<1>5. ASSUME NEW r \in Requests, CancelWrite(r) \/ AppendCancelEvent(r), NEW s \in Sessions
      PROVE  Counted(sessions'[s])
  BY <1>1, <1>5, CancelFields
<1>6. CASE sessions' = sessions
  BY <1>1, <1>6
<1>. QED
  BY <1>3, <1>4, <1>5, <1>6, SessionWriters

\* The equality of references that CashLedgerAgrees states, as the two ways.
LEMMA SameReferences ==
  ASSUME TypeOK
  PROVE  {p.ref : p \in payments} \cap Sessions = {m.session : m \in movements}
         <=> /\ \A p \in payments : p.ref \in Sessions => \E m \in movements : m.session = p.ref
             /\ \A m \in movements : \E p \in payments : p.ref = m.session
BY DEF TypeOK, Movement

LEMMA StepLedgerAgrees == LedgerInv /\ [Next]_vars => CashLedgerAgrees'
<1>. SUFFICES ASSUME LedgerInv, [Next]_vars
              PROVE  CashLedgerAgrees'
  OBVIOUS
<1>. USE RequestFields DEF LedgerInv, ChargeInv
<1>. DEFINE Paired(pays, moves) ==
              /\ \A p \in pays : p.ref \in Sessions => \E m \in moves : m.session = p.ref
              /\ \A m \in moves : \E p \in pays : p.ref = m.session
<1>1. /\ Paired(payments, movements)
      /\ payments \subseteq Payment /\ movements \subseteq Movement
      /\ \A m \in movements :
           /\ m.shift = sessions[m.session].shift
           /\ m.amount = sessions[m.session].expected
      /\ \A s \in Sessions :
           sessions[s].status = "paid" => \E m \in movements : m.session = s
  BY SameReferences DEF CashLedgerAgrees, TypeOK
<1>. DEFINE Agrees == /\ Paired(payments', movements')
                      /\ \A m \in movements' :
                           /\ m.shift = sessions'[m.session].shift
                           /\ m.amount = sessions'[m.session].expected
                      /\ \A s \in Sessions :
                           sessions'[s].status = "paid" => \E m \in movements' : m.session = s
<1>2. ASSUME Agrees
      PROVE  CashLedgerAgrees'
  <2>1. TypeOK' /\ PaymentsSettle'
    BY StepType, StepSettles
  <2>2. movements' \subseteq Movement
    BY <2>1 DEF TypeOK
  <2>3. {p.ref : p \in payments'} \cap Sessions = {m.session : m \in movements'}
    BY <1>2, <2>2 DEF Movement
  <2>. QED
    BY <1>2, <2>1, <2>3 DEF CashLedgerAgrees, PaymentsSettle
<1>3. ASSUME NEW r \in Requests, NEW s \in Sessions, CreateSession(r, s)
      PROVE  Agrees
  <2>1. \A m \in movements : m.session \in Sessions /\ m.session # s
    BY <1>1, <1>3 DEF CreateSession, PaymentsSettle, Movement
  <2>2. payments' = payments /\ movements' = movements
    BY <1>3 DEF CreateSession
  <2>. QED
    BY <1>1, <1>3, <2>1, <2>2, CreatedFields
<1>4. ASSUME NEW r \in Requests, CommitInsertion(r)
      PROVE  Agrees
  <2>1. PICK s \in Sessions, key \in Keys, amount \in Cash :
          /\ requests[r].pc = "commit" /\ requests[r].session = s
          /\ sessions[s] \in Session /\ sessions[s].shift \in Shifts
          /\ sessions'[s] = WithInsertion(sessions[s], key, amount)
          /\ \A other \in Sessions : other # s => sessions'[other] = sessions[other]
          /\ \/ sessions'[s].status # "paid" /\ payments' = payments /\ movements' = movements
             \/ /\ sessions'[s].status = "paid"
                /\ payments' = WithCashPayment(s, sessions[s].ticket)
                /\ movements' = WithIncomeMovement(s)
    BY <1>4, CommitWrites
  <2>2. /\ sessions'[s].shift = sessions[s].shift
        /\ sessions'[s].expected = sessions[s].expected
    BY <2>1, InsertionFields
  <2>3. \A p \in payments : p.ref # s
    BY <2>1, CommitFacts DEF PaymentsSettle, TicketOf
  <2>4. \A m \in movements : m.session # s
    BY <1>1, <2>1, <2>3
  <2>5. CASE sessions'[s].status # "paid" /\ payments' = payments /\ movements' = movements
    BY <1>1, <2>1, <2>2, <2>5 DEF Movement
  <2>6. CASE /\ sessions'[s].status = "paid"
             /\ payments' = WithCashPayment(s, sessions[s].ticket)
             /\ movements' = WithIncomeMovement(s)
    <3>1. PICK charge, income :
            /\ charge = [ref |-> s, ticket |-> sessions[s].ticket,
                         amount |-> tickets[sessions[s].ticket].monto]
            /\ income = [session |-> s, shift |-> sessions[s].shift,
                         amount |-> sessions[s].expected]
      OBVIOUS
    <3>2. /\ charge.ref = s
          /\ income.session = s /\ income.shift = sessions[s].shift
          /\ income.amount = sessions[s].expected
      BY <3>1
    <3>3. payments' = payments \cup {charge} /\ movements' = movements \cup {income}
      BY <2>3, <2>4, <2>6, <3>1 DEF WithCashPayment, WithIncomeMovement
    <3>4. Paired(payments', movements')
      BY <1>1, <2>1, <3>2, <3>3
    <3>5. \A m \in movements' :
            m.shift = sessions'[m.session].shift /\ m.amount = sessions'[m.session].expected
      BY <1>1, <2>1, <2>2, <3>2, <3>3 DEF Movement
    <3>6. \A c \in Sessions : sessions'[c].status = "paid" => \E m \in movements' : m.session = c
      BY <1>1, <2>1, <3>2, <3>3
    <3>. QED
      BY <3>4, <3>5, <3>6
  <2>. QED
    BY <2>1, <2>5, <2>6
<1>5. ASSUME NEW r \in Requests, CancelWrite(r) \/ AppendCancelEvent(r)
      PROVE  Agrees
  <2>1. payments' = payments /\ movements' = movements
    BY <1>5 DEF CancelWrite, AppendCancelEvent
  <2>. QED
    BY <1>1, <1>5, <2>1, CancelFields DEF Movement
<1>6. ASSUME NEW t \in Tickets, NEW ref \in AppRefs, NEW amount \in Quotes,
             ApplyCloudPayment(t, ref, amount)
      PROVE  Agrees
  <2>1. PICK charge : charge = [ref |-> ref, ticket |-> t, amount |-> amount]
    OBVIOUS
  <2>2. charge.ref \notin Sessions
    BY <2>1, IdsAssumption
  <2>3. payments' = payments \cup {charge} /\ movements' = movements /\ sessions' = sessions
    BY <1>6, <2>1 DEF ApplyCloudPayment
  <2>. QED
    BY <1>1, <2>2, <2>3
<1>7. ASSUME payments' = payments, movements' = movements, sessions' = sessions
      PROVE  Agrees
  BY <1>1, <1>7
<1>. QED
  BY <1>2, <1>3, <1>4, <1>5, <1>6, <1>7
  DEF Next, vars, BeginAppQuote, BeginQrQuote, WriteQuote, BeginFreeExit, WriteFreeExit, StartRead,
      StartFindShift, ReturnActiveSession, InsertionLocksAndChecks, CancelRead,
      OpenShift, CloseShift, Abandon

LEMMA InitLedger == Init => LedgerInv
<1>. SUFFICES ASSUME Init
              PROVE  LedgerInv
  OBVIOUS
<1>1. \A s \in Sessions :
        /\ sessions[s].status = "none" /\ sessions[s].events = {}
        /\ sessions[s].received = 0 /\ sessions[s].change = 0 /\ sessions[s].expected = 0
  BY DEF Init, NoSession
<1>2. EventsFinite
  BY <1>1, FS_EmptySet DEF EventsFinite
<1>3. OneSessionStillOwed
  BY <1>1 DEF OneSessionStillOwed, IsSessionActive
<1>4. CommitsFindSession
  BY DEF Init, Idle, CommitsFindSession
<1>5. CashLedgerAgrees
  BY <1>1 DEF Init, CashLedgerAgrees
<1>6. \A s \in Sessions : AddsUp(sessions[s])
  BY <1>1, TotalOfNone DEF AddsUp
<1>7. CashCounted
  BY <1>6, CountedEach
<1>. QED
  BY <1>2, <1>3, <1>4, <1>5, <1>7, InitCharge DEF LedgerInv

\* The inductive invariant about cash holds in every reachable state.
THEOREM LedgerInvariant == Spec => []LedgerInv
<1>1. LedgerInv /\ [Next]_vars => LedgerInv'
  BY StepType, StepBegun, StepSettles, StepHolds, StepFindsSession, StepStillOwed, StepCounted,
     StepLedgerAgrees DEF LedgerInv, ChargeInv
<1>. QED
  BY <1>1, InitLedger, PTL DEF Spec

\* Whatever insertions, retries and cancellations run together, a session has
\* received the sum of its events, one for each Idempotency-Key, and gives back
\* the excess (commitCashInsertionTransaction): for any number of events.
THEOREM CashAlwaysCounted == Spec => []CashCounted
BY LedgerInvariant, PTL DEF LedgerInv

\* The payment, the paid ticket, the session and the movement of the shift that
\* one cash charge writes are never seen without each other.
THEOREM LedgerAlwaysAgrees == Spec => []CashLedgerAgrees
BY LedgerInvariant, PTL DEF LedgerInv

\* Two registers never charge one ticket in two sessions, and a session with its
\* amount complete takes no more cash (the unique index on active sessions).
THEOREM SessionAlwaysOwed == Spec => []OneSessionStillOwed
BY LedgerInvariant, PTL DEF LedgerInv

----------------------------------------------------------------------------
\* The payment code implements TicketSettlement

\* A step that neither adds payments nor pays a ticket is a stutter.
LEMMA SettlementStutters ==
  ASSUME payments' = payments, \A t \in Tickets : tickets'[t].pagado = tickets[t].pagado
  PROVE  UNCHANGED [t \in Tickets |-> SettledBy(t)]
BY DEF SettledBy

\* A step that settles one ticket and leaves the others is a step of Settle.
LEMMA SettlementSteps ==
  ASSUME NEW t \in Tickets, SettledBy(t) = "owed", SettledBy(t)' \in {"cash", "app", "free"},
         \A other \in Tickets : other # t => SettledBy(other)' = SettledBy(other)
  PROVE  Settlement!Next
<1>1. Settlement!Settle(t, SettledBy(t)')
  BY DEF Settlement!Settle
<1>. QED
  BY <1>1 DEF Settlement!Next, Settlement!Channels

\* A ticket that is not paid is owed.
LEMMA UnpaidIsOwed ==
  ASSUME ChargeInv, NEW t \in Tickets, tickets[t].pagado = FALSE
  PROVE  SettledBy(t) = "owed"
BY DEF ChargeInv, PaymentsSettle, SettledBy, TypeOK

LEMMA StepSettlement ==
  ChargeInv /\ [Next]_vars => [Settlement!Next]_([t \in Tickets |-> SettledBy(t)])
<1>. SUFFICES ASSUME ChargeInv, [Next]_vars
              PROVE  Settlement!Next \/ UNCHANGED [t \in Tickets |-> SettledBy(t)]
  OBVIOUS
<1>. USE RequestFields DEF ChargeInv
<1>1. CASE payments' = payments /\ tickets' = tickets
  BY <1>1, SettlementStutters
<1>2. ASSUME NEW r \in Requests, NEW quote \in Quotes, WriteQuote(r, quote)
      PROVE  UNCHANGED [t \in Tickets |-> SettledBy(t)]
  BY <1>2, SettlementStutters DEF WriteQuote, TypeOK
<1>3. ASSUME NEW r \in Requests, WriteFreeExit(r)
      PROVE  Settlement!Next \/ UNCHANGED [t \in Tickets |-> SettledBy(t)]
  <2>0. PICK t \in Tickets : t = requests[r].ticket
    BY <1>3 DEF WriteFreeExit
  <2>1. payments' = payments /\ tickets'[t].pagado
    BY <1>3, <2>0 DEF WriteFreeExit, TypeOK
  <2>2. \A other \in Tickets : other # t => tickets'[other] = tickets[other]
    BY <1>3, <2>0 DEF WriteFreeExit, TypeOK
  <2>3. CASE tickets[t].pagado = FALSE
    <3>1. SettledBy(t) = "owed"
      BY <2>1, <2>3, UnpaidIsOwed
    <3>2. SettledBy(t)' = "free"
      BY <2>1, <2>3 DEF SettledBy, PaymentsSettle
    <3>3. \A other \in Tickets : other # t => SettledBy(other)' = SettledBy(other)
      BY <2>1, <2>2 DEF SettledBy
    <3>. QED
      BY <2>1, <3>1, <3>2, <3>3, SettlementSteps
  <2>4. CASE tickets[t].pagado = TRUE
    BY <2>1, <2>2, <2>4, SettlementStutters DEF TypeOK
  <2>. QED
    BY <2>1, <2>3, <2>4 DEF TypeOK
<1>4. ASSUME NEW r \in Requests, CommitInsertion(r), ~(payments' = payments /\ tickets' = tickets)
      PROVE  Settlement!Next
  <2>1. requests[r].pc = "commit"
    BY <1>4 DEF CommitInsertion
  <2>2. PICK t \in Tickets : t = TicketOf(r) /\ tickets[t].pagado = FALSE
    BY <2>1, CommitFacts
  <2>3. PICK charge : payments' = payments \cup {charge} /\ charge.ref \in Sessions /\ charge.ticket = t
    <3>. DEFINE new == [ref |-> requests[r].session, ticket |-> t, amount |-> tickets[t].monto]
    <3>1. new.ref \in Sessions /\ new.ticket = t
      BY <2>1, CommitFacts
    <3>2. payments' = payments \cup {new}
      BY <1>4, <2>2, CommitEffect
    <3>. QED
      BY <3>1, <3>2
  <2>4. \A other \in Tickets : other # t => tickets'[other] = tickets[other]
    BY <1>4, <2>2, CommitEffect
  <2>6. SettledBy(t) = "owed"
    BY <2>2, UnpaidIsOwed
  <2>7. SettledBy(t)' = "cash"
    BY <2>3 DEF SettledBy
  <2>8. \A other \in Tickets : other # t => SettledBy(other)' = SettledBy(other)
    BY <2>3, <2>4 DEF SettledBy
  <2>. QED
    BY <2>2, <2>6, <2>7, <2>8, SettlementSteps
<1>5. ASSUME NEW t \in Tickets, NEW ref \in AppRefs, NEW amount \in Quotes,
             ApplyCloudPayment(t, ref, amount)
      PROVE  Settlement!Next
  <2>. DEFINE charge == [ref |-> ref, ticket |-> t, amount |-> amount]
  <2>1. tickets[t].pagado = FALSE /\ payments' = payments \cup {charge}
    BY <1>5 DEF ApplyCloudPayment, TicketChargeable, TypeOK
  <2>2. \A other \in Tickets : other # t => tickets'[other] = tickets[other]
    BY <1>5 DEF ApplyCloudPayment, TypeOK
  <2>3. charge.ref \notin Sessions /\ charge.ticket = t
    BY IdsAssumption
  <2>4. \A p \in payments : p.ticket # t
    BY <2>1 DEF PaymentsSettle
  <2>. HIDE DEF charge
  <2>5. SettledBy(t) = "owed"
    BY <2>1, UnpaidIsOwed
  <2>6. SettledBy(t)' = "app"
    BY <2>1, <2>3, <2>4 DEF SettledBy
  <2>7. \A other \in Tickets : other # t => SettledBy(other)' = SettledBy(other)
    BY <2>1, <2>2, <2>3 DEF SettledBy
  <2>. QED
    BY <2>5, <2>6, <2>7, SettlementSteps
<1>. QED
  BY <1>1, <1>2, <1>3, <1>4, <1>5
  DEF Next, vars, BeginAppQuote, BeginQrQuote, BeginFreeExit, StartRead, StartFindShift,
      ReturnActiveSession, CreateSession, InsertionLocksAndChecks, CancelRead, CancelWrite,
      AppendCancelEvent, OpenShift, CloseShift, Abandon

\* A ticket is settled at most once, through one channel, for good: every
\* behaviour of the payment code is one of TicketSettlement.
THEOREM ImplementsSettlement == Spec => SettledOnce
<1>1. Init => Settlement!Init
  BY DEF Init, Settlement!Init, SettledBy
<1>. QED
  BY <1>1, ChargeInvariant, StepSettlement, PTL DEF Spec, SettledOnce, Settlement!Spec
=============================================================================
