------------------------------ MODULE TicketGate ------------------------------
(***************************************************************************)
(* Entering and leaving with a ticket.  An entry stores the ticket, then   *)
(* has the device open the barrier, and deletes the ticket when it does    *)
(* not; an exit has the barrier opened, then completes the ticket.  No     *)
(* transaction spans these steps.  Entries and exits carry keys that a     *)
(* client repeats when it retries, directly or by a command of the app.    *)
(*                                                                         *)
(* The payment of a ticket is one step here; CashPayments has it in full.  *)
(*                                                                         *)
(* Left out: requests without a key, the checks of tokens, modules and     *)
(* projects, which only refuse requests, and id_boleto, which is random.   *)
(***************************************************************************)
EXTENDS Processes, Naturals, FiniteSets

CONSTANTS
  Tickets,     \* identifiers of tickets
  Users,
  Requests,    \* requests being served at the same time
  Keys,        \* idempotency keys of clients
  MaxExits     \* bound: openings of the exit barrier for each ticket

\* None is "no user" and "no key" of a ticket not stored yet.
ASSUME GateAssumption == None \notin Users /\ None \notin Keys /\ MaxExits \in Nat

VARIABLES
  tickets,     \* table tickets
  sessions,    \* tickets with a row in cash_payment_sessions
  entered,     \* tickets whose entry the device confirmed
  exits,       \* how often the exit barrier opened for each ticket
  answered,    \* tickets that were answered to a client, with their request
  requests     \* what each request in progress remembers

vars == <<tickets, sessions, entered, exits, answered, requests>>

----------------------------------------------------------------------------
\* "active" is a stored row with no horaSalida; "deleted" a row that was stored.
Ticket ==
  [state : {"none", "active", "completed", "deleted"},
   usuario : Users \cup {None}, pagado : BOOLEAN,
   key : Keys \cup {None}, exitKey : Keys \cup {None}]

Answer == [of : {"entry", "exit"}, key : Keys, ticket : Tickets]

Request ==
       [pc : {"idle"}]
  \cup [pc : {"entry", "create", "reread", "exit"}, usuario : Users, key : Keys]
  \cup [pc : {"opening", "undo", "free", "leaving", "left", "complete"},
        ticket : Tickets, key : Keys]

TypeOK ==
  /\ tickets \in [Tickets -> Ticket]
  /\ sessions \in SUBSET Tickets
  /\ entered \in SUBSET Tickets
  /\ exits \in [Tickets -> 0 .. MaxExits]
  /\ answered \in SUBSET Answer
  /\ requests \in [Requests -> Request]

NoTicket == [state |-> "none", usuario |-> None, pagado |-> FALSE, key |-> None, exitKey |-> None]

Init ==
  /\ tickets = [t \in Tickets |-> NoTicket]
  /\ sessions = {}
  /\ entered = {}
  /\ exits = [t \in Tickets |-> 0]
  /\ answered = {}
  /\ requests = [r \in Requests |-> Idle]

----------------------------------------------------------------------------
Stored(t) == tickets[t].state \in {"active", "completed"}

ActiveOf(u) == {t \in Tickets : tickets[t].state = "active" /\ tickets[t].usuario = u}

WithKey(k) == {t \in Tickets : Stored(t) /\ tickets[t].key = k}

WithExitKey(k) == {t \in Tickets : Stored(t) /\ tickets[t].exitKey = k}

Become(r, request) == requests' = [requests EXCEPT ![r] = request]

Give(of, k, t) == answered' = answered \cup {[of |-> of, key |-> k, ticket |-> t]}

Ask(pc, u, k) == [pc |-> pc, usuario |-> u, key |-> k]

Serve(pc, t, k) == [pc |-> pc, ticket |-> t, key |-> k]

----------------------------------------------------------------------------
\* Entry: createTicketFromModuleToken.

\* A retried entry returns the ticket it already created.
EntryReplay(r, k) ==
  /\ requests[r].pc = "idle"
  /\ \E t \in WithKey(k) : Give("entry", k, t)
  /\ UNCHANGED <<tickets, sessions, entered, exits, requests>>

EntryKeyRead(r, u, k) ==
  /\ requests[r].pc = "idle"
  /\ WithKey(k) = {}
  /\ Become(r, Ask("entry", u, k))
  /\ UNCHANGED <<tickets, sessions, entered, exits, answered>>

EntryActiveRead(r) ==
  LET u == requests[r].usuario
  IN  /\ requests[r].pc = "entry"
      /\ Become(r, IF ActiveOf(u) = {} THEN Ask("create", u, requests[r].key) ELSE Idle)
      /\ UNCHANGED <<tickets, sessions, entered, exits, answered>>

\* Unique indexes on the key and on the user of a ticket without exit.
\* Without one of them; see the properties.
NoUniqueKey(k) == TRUE

NoUniqueActive(u) == TRUE

UniqueKey(k) == WithKey(k) = {}

UniqueActive(u) == ActiveOf(u) = {}

CreateTicket(r, t) ==
  LET u == requests[r].usuario
      k == requests[r].key
  IN  /\ requests[r].pc = "create"
      /\ tickets[t].state = "none"
      /\ UniqueKey(k)
      /\ UniqueActive(u)
      /\ tickets' = [tickets EXCEPT ![t] =
                       [NoTicket EXCEPT !.state = "active", !.usuario = u, !.key = k]]
      /\ Become(r, Serve("opening", t, k))
      /\ UNCHANGED <<sessions, entered, exits, answered>>

CreateConflict(r) ==
  LET u == requests[r].usuario
      k == requests[r].key
  IN  /\ requests[r].pc = "create"
      /\ ~(UniqueKey(k) /\ UniqueActive(u))
      /\ Become(r, Ask("reread", u, k))
      /\ UNCHANGED <<tickets, sessions, entered, exits, answered>>

\* The ticket of the other request with this key, or the error.
EntryReread(r) ==
  LET k == requests[r].key
  IN  /\ requests[r].pc = "reread"
      /\ IF WithKey(k) = {} THEN UNCHANGED answered
         ELSE \E t \in WithKey(k) : Give("entry", k, t)
      /\ Become(r, Idle)
      /\ UNCHANGED <<tickets, sessions, entered, exits>>

EntryConfirmed(r) ==
  LET t == requests[r].ticket
  IN  /\ requests[r].pc = "opening"
      /\ entered' = entered \cup {t}
      /\ Give("entry", requests[r].key, t)
      /\ Become(r, Idle)
      /\ UNCHANGED <<tickets, sessions, exits>>

\* No device, a refusal, or an answer that does not come in time (the barrier may
\* have opened).
EntryFails(r) ==
  /\ requests[r].pc = "opening"
  /\ Become(r, [requests[r] EXCEPT !.pc = "undo"])
  /\ UNCHANGED <<tickets, sessions, entered, exits, answered>>

\* Sessions refer to their ticket, which then stays.
HasSessions(t) == t \in sessions

UndoEntry(r) ==
  LET t == requests[r].ticket
  IN  /\ requests[r].pc = "undo"
      /\ IF HasSessions(t) THEN UNCHANGED tickets
         ELSE tickets' = [tickets EXCEPT ![t].state = "deleted"]
      /\ Become(r, Idle)
      /\ UNCHANGED <<sessions, entered, exits, answered>>

----------------------------------------------------------------------------
\* Exit: killTicketFromModuleToken.

ExitReplay(r, k) ==
  /\ requests[r].pc = "idle"
  /\ \E t \in WithExitKey(k) : Give("exit", k, t)
  /\ UNCHANGED <<tickets, sessions, entered, exits, requests>>

ExitKeyRead(r, u, k) ==
  /\ requests[r].pc = "idle"
  /\ WithExitKey(k) = {}
  /\ Become(r, Ask("exit", u, k))
  /\ UNCHANGED <<tickets, sessions, entered, exits, answered>>

\* A paid ticket may leave; an unpaid one only inside the tolerance, which is a
\* matter of time.
MayLeave(t) == tickets[t].pagado

ExitRead(r) ==
  LET k == requests[r].key
  IN  /\ requests[r].pc = "exit"
      /\ \/ \E t \in ActiveOf(requests[r].usuario) :
              \/ MayLeave(t) /\ Become(r, Serve("leaving", t, k))
              \/ ~tickets[t].pagado /\ Become(r, Serve("free", t, k))
         \/ /\ \A t \in ActiveOf(requests[r].usuario) : ~tickets[t].pagado
            /\ Become(r, Idle)
      /\ UNCHANGED <<tickets, sessions, entered, exits, answered>>

\* The free exit settles the ticket it read, if the row is still there.
FreeExit(r) ==
  LET t == requests[r].ticket
  IN  /\ requests[r].pc = "free"
      /\ IF Stored(t)
         THEN /\ tickets' = [tickets EXCEPT ![t].pagado = TRUE]
              /\ Become(r, [requests[r] EXCEPT !.pc = "leaving"])
         ELSE Become(r, Idle) /\ UNCHANGED tickets
      /\ UNCHANGED <<sessions, entered, exits, answered>>

ExitOpens(r) ==
  LET t == requests[r].ticket
  IN  /\ requests[r].pc = "leaving"
      /\ exits[t] < MaxExits
      /\ exits' = [exits EXCEPT ![t] = @ + 1]
      /\ Become(r, [requests[r] EXCEPT !.pc = "left"])
      /\ UNCHANGED <<tickets, sessions, entered, answered>>

ExitConfirmed(r) ==
  /\ requests[r].pc = "left"
  /\ Become(r, [requests[r] EXCEPT !.pc = "complete"])
  /\ UNCHANGED <<tickets, sessions, entered, exits, answered>>

ExitFails(r) ==
  /\ requests[r].pc \in {"leaving", "left"}
  /\ Become(r, Idle)
  /\ UNCHANGED <<tickets, sessions, entered, exits, answered>>

\* A completion that does not wait for the device; see the properties.
CompletesUnopened(r) == requests[r].pc \in {"leaving", "left", "complete"}

MayComplete(r) == requests[r].pc = "complete"

\* The row may have been deleted, or the key may be the one of another ticket.
CompleteTicket(r) ==
  LET t == requests[r].ticket
      k == requests[r].key
  IN  /\ MayComplete(r)
      /\ IF Stored(t) /\ WithExitKey(k) \subseteq {t}
         THEN /\ tickets' = [tickets EXCEPT ![t].state = "completed", ![t].exitKey = k]
              /\ Give("exit", k, t)
         ELSE UNCHANGED <<tickets, answered>>
      /\ Become(r, Idle)
      /\ UNCHANGED <<sessions, entered, exits>>

----------------------------------------------------------------------------
\* Around the gates.

PayTicket(t) ==
  /\ tickets[t].state = "active"
  /\ ~tickets[t].pagado
  /\ tickets' = [tickets EXCEPT ![t].pagado = TRUE]
  /\ UNCHANGED <<sessions, entered, exits, answered, requests>>

StartCashSession(t) ==
  /\ tickets[t].state = "active"
  /\ ~tickets[t].pagado
  /\ t \notin sessions
  /\ sessions' = sessions \cup {t}
  /\ UNCHANGED <<tickets, entered, exits, answered, requests>>

\* The server stops, or one request fails where it stands (its database does).
RequestStops(r) ==
  /\ requests[r].pc # "idle"
  /\ Become(r, Idle)
  /\ UNCHANGED <<tickets, sessions, entered, exits, answered>>

Entry(r) ==
  \/ EntryActiveRead(r)
  \/ \E t \in Tickets : CreateTicket(r, t)
  \/ CreateConflict(r)
  \/ EntryReread(r)
  \/ EntryConfirmed(r)
  \/ EntryFails(r)
  \/ UndoEntry(r)

Exit(r) ==
  \/ ExitRead(r)
  \/ FreeExit(r)
  \/ ExitOpens(r)
  \/ ExitConfirmed(r)
  \/ ExitFails(r)
  \/ CompleteTicket(r)

Next ==
  \/ \E r \in Requests :
       \/ \E k \in Keys : EntryReplay(r, k) \/ ExitReplay(r, k)
       \/ \E u \in Users, k \in Keys : EntryKeyRead(r, u, k) \/ ExitKeyRead(r, u, k)
       \/ Entry(r)
       \/ Exit(r)
       \/ RequestStops(r)
  \/ \E t \in Tickets : PayTicket(t) \/ StartCashSession(t)

Spec == Init /\ [][Next]_vars

----------------------------------------------------------------------------
\* A user is inside with one ticket at most, however many entries run at once.
OneActivePerUser == \A u \in Users : \A t, t2 \in ActiveOf(u) : t = t2

\* An entry key admits one car: it has one confirmed entry at most, even when
\* retries overlap the first request or come after the car left.
OneEntryPerKey ==
  \A t, t2 \in entered : tickets[t].key = tickets[t2].key => t = t2

\* The exit barrier opens for a settled ticket only, and a ticket is completed
\* only after it opened, also when the ticket changes between these steps.
LeavesPaidAndRecorded ==
  \A t \in Tickets :
    /\ exits[t] > 0 => tickets[t].pagado
    /\ tickets[t].state = "completed" => exits[t] > 0

\* A stored key is one ticket's; an entry that waits for its barrier holds its
\* ticket alone; and an exit that waits for its barrier has a settled ticket,
\* which no new ticket is.
KeysDiffer ==
  \A t, t2 \in Tickets : Stored(t) /\ Stored(t2) /\ tickets[t].key = tickets[t2].key => t = t2

EntriesHold ==
  /\ \A t \in entered : Stored(t)
  /\ \A r \in Requests : requests[r].pc \in {"opening", "undo"} =>
       /\ Stored(requests[r].ticket)
       /\ requests[r].ticket \notin entered
       /\ \A q \in Requests :
            requests[q].pc \in {"opening", "undo"} /\ requests[q].ticket = requests[r].ticket
              => q = r

ExitsHold ==
  /\ \A t \in Tickets : tickets[t].state = "none" => ~tickets[t].pagado
  /\ \A r \in Requests :
       /\ requests[r].pc = "leaving" => tickets[requests[r].ticket].pagado
       /\ requests[r].pc \in {"left", "complete"} => exits[requests[r].ticket] > 0

\* Inductive: what the unique indexes and the waiting requests keep of tickets,
\* through every interleaving of entries, exits, undone entries and stops.
GateInv ==
  /\ TypeOK
  /\ OneActivePerUser
  /\ KeysDiffer
  /\ EntriesHold
  /\ ExitsHold
  /\ LeavesPaidAndRecorded

\* "A retried entry returns the ticket it already created": a ticket answered to
\* a client exists.  The code does not keep this: a retry may be answered before
\* the first request sees the barrier fail and deletes the ticket.
AnsweredTicketExists == \A a \in answered : Stored(a.ticket)

\* "A retried exit returns the ticket it already completed": the key of an exit
\* that was answered finds its ticket.  The code does not keep this: another
\* exit of the same ticket overwrites the key.
AnsweredExitIsFound ==
  \A a \in answered : a.of = "exit" => tickets[a.ticket].exitKey = a.key
=============================================================================
