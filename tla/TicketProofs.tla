----------------------------- MODULE TicketProofs -----------------------------
(***************************************************************************)
(* Proofs about a ticket: the gate that hands it out and lets it leave     *)
(* (TicketGate), the passages its device reports (AccessEvents), and what  *)
(* its stay costs (ParkingRates).  They hold for any number of users,      *)
(* tickets, keys, requests, handlers, saves and quotes, and for rates of   *)
(* any size.                                                               *)
(***************************************************************************)
EXTENDS TicketGate, AccessEvents, ParkingRates, FiniteSetTheorems,
  WellFoundedInduction, TLAPS

Holding == {"opening", "undo"}

Asking == {"entry", "create", "reread", "exit"}

Serving == {"opening", "undo", "free", "leaving", "left", "complete"}

----------------------------------------------------------------------------
\* What a request remembers, by where it stands.
LEMMA RequestFields ==
  ASSUME NEW request \in Request
  PROVE  /\ request.pc \in Asking =>
              /\ request.usuario \in Users
              /\ request.key \in Keys
         /\ request.pc \in Serving =>
              /\ request.ticket \in Tickets
              /\ request.key \in Keys
BY DEF Request, Asking, Serving

LEMMA RequestPlaces ==
  ASSUME NEW k \in Keys
  PROVE  /\ Idle \in Request
         /\ \A pc \in Asking, u \in Users : Ask(pc, u, k) \in Request
         /\ \A pc \in Serving, t \in Tickets : Serve(pc, t, k) \in Request
BY DEF Request, Idle, Ask, Serve, Asking, Serving

LEMMA IdleIsRequest == Idle \in Request
BY DEF Request, Idle

\* A request that goes on with the same ticket and key.
LEMMA GoesOn ==
  ASSUME NEW request \in Request, request.pc \in Serving, NEW pc \in Serving
  PROVE  /\ [request EXCEPT !.pc = pc] \in Request
         /\ [request EXCEPT !.pc = pc].pc = pc
         /\ [request EXCEPT !.pc = pc].ticket = request.ticket
<1>1. request \in [pc : Serving, ticket : Tickets, key : Keys]
  BY DEF Request, Serving
<1>2. [request EXCEPT !.pc = pc] \in [pc : Serving, ticket : Tickets, key : Keys]
  BY <1>1
<1>3. [request EXCEPT !.pc = pc] \in Request
  BY <1>2 DEF Request, Serving
<1>4. [request EXCEPT !.pc = pc].pc = pc /\ [request EXCEPT !.pc = pc].ticket = request.ticket
  BY <1>1
<1>5. QED  BY <1>3, <1>4

LEMMA BecomeTyped ==
  ASSUME TypeOK, NEW r \in Requests, NEW request \in Request, Become(r, request)
  PROVE  /\ requests' \in [Requests -> Request]
         /\ requests'[r] = request
         /\ \A q \in Requests : q # r => requests'[q] = requests[q]
BY DEF TypeOK, Become

LEMMA GiveTyped ==
  ASSUME TypeOK, NEW of \in {"entry", "exit"}, NEW k \in Keys, NEW t \in Tickets, Give(of, k, t)
  PROVE  answered' \subseteq Answer
BY DEF TypeOK, Give, Answer

\* A stored ticket that only changes its payment, its state and its exit key.
LEMMA TicketTyped ==
  ASSUME NEW row \in Ticket, NEW state \in {"none", "active", "completed", "deleted"},
         NEW k \in Keys
  PROVE  /\ [row EXCEPT !.state = state] \in Ticket
         /\ [row EXCEPT !.pagado = TRUE] \in Ticket
         /\ [row EXCEPT !.state = state, !.exitKey = k] \in Ticket
BY DEF Ticket

----------------------------------------------------------------------------
LEMMA InitInv ==
  ASSUME Init
  PROVE  GateInv
<1>1. NoTicket \in Ticket  BY DEF NoTicket, Ticket
<1>2. TypeOK  BY <1>1, IdleIsRequest, GateAssumption DEF Init, TypeOK
<1>3. \A t \in Tickets : tickets[t].state = "none" /\ ~tickets[t].pagado
  BY DEF Init, NoTicket
<1>4. \A r \in Requests : requests[r].pc = "idle"  BY DEF Init, Idle
<1>5. OneActivePerUser /\ KeysDiffer
  BY <1>3 DEF OneActivePerUser, ActiveOf, KeysDiffer, Stored
<1>6. EntriesHold /\ ExitsHold
  BY <1>3, <1>4 DEF Init, EntriesHold, ExitsHold
<1>7. LeavesPaidAndRecorded
  BY <1>3 DEF Init, LeavesPaidAndRecorded
<1>8. QED  BY <1>2, <1>5, <1>6, <1>7 DEF GateInv

\* A request moves and the tables stay.  What it moves to must hold already.
LEMMA RequestMoves ==
  ASSUME GateInv, NEW r \in Requests, NEW request \in Request, Become(r, request),
         tickets' = tickets, entered' = entered, exits' = exits, sessions' = sessions,
         answered' \subseteq Answer,
         request.pc \in Holding =>
           requests[r].pc \in Holding /\ request.ticket = requests[r].ticket,
         request.pc = "leaving" => tickets[request.ticket].pagado,
         request.pc \in {"left", "complete"} => exits[request.ticket] > 0
  PROVE  GateInv'
<1> USE DEF GateInv
<1>1. /\ requests' \in [Requests -> Request]
      /\ requests'[r] = request
      /\ \A q \in Requests : q # r => requests'[q] = requests[q]
  BY BecomeTyped
<1>2. TypeOK'  BY <1>1 DEF TypeOK
<1>3. OneActivePerUser'  BY DEF OneActivePerUser, ActiveOf
<1>4. KeysDiffer'  BY DEF KeysDiffer, Stored
<1>5. EntriesHold'
  <2>1. \A t \in entered' : Stored(t)'  BY DEF EntriesHold, Stored
  <2>2. ASSUME NEW q \in Requests, requests'[q].pc \in Holding
        PROVE  requests[q].pc \in Holding /\ requests'[q].ticket = requests[q].ticket
    BY <1>1, <2>2
  <2>3. QED  BY <2>1, <2>2 DEF EntriesHold, Holding, Stored
<1>6. ExitsHold'  BY <1>1 DEF ExitsHold
<1>7. LeavesPaidAndRecorded'  BY DEF LeavesPaidAndRecorded
<1>8. QED  BY <1>2, <1>3, <1>4, <1>5, <1>6, <1>7

----------------------------------------------------------------------------
\* Steps that only read: they move their request, or answer from a key.
LEMMA ReplayKeeps ==
  ASSUME GateInv, NEW r \in Requests, NEW k \in Keys, EntryReplay(r, k) \/ ExitReplay(r, k)
  PROVE  GateInv'
<1>1. UNCHANGED <<tickets, sessions, entered, exits, requests>>
  BY DEF EntryReplay, ExitReplay
<1>2. answered' \subseteq Answer
  BY GiveTyped DEF GateInv, EntryReplay, ExitReplay, WithKey, WithExitKey
<1>3. QED
  BY <1>1, <1>2 DEF GateInv, TypeOK, OneActivePerUser, ActiveOf, KeysDiffer, Stored,
       EntriesHold, ExitsHold, LeavesPaidAndRecorded

LEMMA KeyReadKeeps ==
  ASSUME GateInv, NEW r \in Requests, NEW u \in Users, NEW k \in Keys,
         EntryKeyRead(r, u, k) \/ ExitKeyRead(r, u, k)
  PROVE  GateInv'
<1>1. PICK pc \in {"entry", "exit"} : Become(r, Ask(pc, u, k))
  BY DEF EntryKeyRead, ExitKeyRead
<1>2. Ask(pc, u, k) \in Request  BY RequestPlaces DEF Asking
<1>3. Ask(pc, u, k).pc \in {"entry", "exit"}  BY DEF Ask
<1>4. UNCHANGED <<tickets, sessions, entered, exits, answered>>
  BY DEF EntryKeyRead, ExitKeyRead
<1>5. QED
  BY <1>1, <1>2, <1>3, <1>4, RequestMoves DEF GateInv, TypeOK, Holding

\* The request is refused, fails, or is answered with the ticket of its key.
LEMMA EndsKeeps ==
  ASSUME GateInv, NEW r \in Requests,
         EntryReread(r) \/ ExitFails(r) \/ RequestStops(r)
  PROVE  GateInv'
<1>1. Become(r, Idle)  BY DEF EntryReread, ExitFails, RequestStops
<1>2. UNCHANGED <<tickets, sessions, entered, exits>>
  BY DEF EntryReread, ExitFails, RequestStops
<1>3. answered' \subseteq Answer
  <2>1. CASE EntryReread(r)
    <3>1. requests[r].key \in Keys
      BY <2>1, RequestFields DEF GateInv, TypeOK, EntryReread, Asking
    <3>2. QED
      BY <2>1, <3>1, GiveTyped DEF GateInv, TypeOK, EntryReread, WithKey
  <2>2. CASE ExitFails(r) \/ RequestStops(r)
    BY <2>2 DEF GateInv, TypeOK, ExitFails, RequestStops
  <2>3. QED  BY <2>1, <2>2
<1>4. Idle.pc = "idle"  BY DEF Idle
<1>5. QED  BY <1>1, <1>2, <1>3, <1>4, IdleIsRequest, RequestMoves DEF Holding

LEMMA EntryReadsKeep ==
  ASSUME GateInv, NEW r \in Requests,
         EntryActiveRead(r) \/ CreateConflict(r) \/ EntryFails(r)
  PROVE  GateInv'
<1> DEFINE was == requests[r]
<1>1. was \in Request /\ UNCHANGED <<tickets, sessions, entered, exits, answered>>
  BY DEF GateInv, TypeOK, EntryActiveRead, CreateConflict, EntryFails
<1>2. CASE EntryActiveRead(r) \/ CreateConflict(r)
  <2>1. was.pc \in Asking
    BY <1>2 DEF EntryActiveRead, CreateConflict, Asking
  <2>2. was.usuario \in Users /\ was.key \in Keys
    BY <1>1, <2>1, RequestFields
  <2>3. PICK request \in {Idle, Ask("create", was.usuario, was.key),
                          Ask("reread", was.usuario, was.key)} : Become(r, request)
    BY <1>2 DEF EntryActiveRead, CreateConflict
  <2>4. request \in Request
    BY <2>2, <2>3, RequestPlaces DEF Asking
  <2>5. request.pc \in {"idle", "create", "reread"}
    BY <2>3 DEF Idle, Ask
  <2>6. QED
    BY <1>1, <2>3, <2>4, <2>5, RequestMoves DEF GateInv, TypeOK, Holding
<1>3. CASE EntryFails(r)
  <2>1. was.pc = "opening"  BY <1>3 DEF EntryFails
  <2>2. /\ [was EXCEPT !.pc = "undo"] \in Request
        /\ [was EXCEPT !.pc = "undo"].pc = "undo"
        /\ [was EXCEPT !.pc = "undo"].ticket = was.ticket
    BY <1>1, <2>1, GoesOn DEF Serving
  <2>3. Become(r, [was EXCEPT !.pc = "undo"])  BY <1>3 DEF EntryFails
  <2>4. QED
    BY <1>1, <2>1, <2>2, <2>3, RequestMoves DEF GateInv, TypeOK, Holding
<1>4. QED  BY <1>2, <1>3

LEMMA ExitReadsKeep ==
  ASSUME GateInv, NEW r \in Requests, ExitRead(r) \/ ExitConfirmed(r)
  PROVE  GateInv'
<1> DEFINE was == requests[r]
<1>1. was \in Request /\ UNCHANGED <<tickets, sessions, entered, exits, answered>>
  BY DEF GateInv, TypeOK, ExitRead, ExitConfirmed
<1>2. CASE ExitRead(r)
  <2>1. was.key \in Keys
    BY <1>1, <1>2, RequestFields DEF ExitRead, Asking
  <2>2. CASE Become(r, Idle)
    <3>1. Idle.pc = "idle"  BY DEF Idle
    <3>2. QED
      BY <1>1, <2>2, <3>1, IdleIsRequest, RequestMoves DEF GateInv, TypeOK, Holding
  <2>3. CASE ~Become(r, Idle)
    <3>1. PICK t \in Tickets :
             \/ tickets[t].pagado /\ Become(r, Serve("leaving", t, was.key))
             \/ Become(r, Serve("free", t, was.key))
      BY <1>2, <2>3 DEF ExitRead, ActiveOf, MayLeave
    <3>2. Serve("leaving", t, was.key) \in Request /\ Serve("free", t, was.key) \in Request
      BY <2>1, RequestPlaces DEF Serving
    <3>3. /\ Serve("leaving", t, was.key).pc = "leaving"
          /\ Serve("leaving", t, was.key).ticket = t
          /\ Serve("free", t, was.key).pc = "free"
      BY DEF Serve
    <3>4. QED
      BY <1>1, <3>1, <3>2, <3>3, RequestMoves DEF GateInv, TypeOK, Holding
  <2>4. QED  BY <2>2, <2>3
<1>3. CASE ExitConfirmed(r)
  <2>1. was.pc = "left"  BY <1>3 DEF ExitConfirmed
  <2>2. exits[was.ticket] > 0  BY <2>1 DEF GateInv, ExitsHold
  <2>3. /\ [was EXCEPT !.pc = "complete"] \in Request
        /\ [was EXCEPT !.pc = "complete"].pc = "complete"
        /\ [was EXCEPT !.pc = "complete"].ticket = was.ticket
    BY <1>1, <2>1, GoesOn DEF Serving
  <2>4. Become(r, [was EXCEPT !.pc = "complete"])  BY <1>3 DEF ExitConfirmed
  <2>5. QED
    BY <1>1, <2>2, <2>3, <2>4, RequestMoves DEF GateInv, TypeOK, Holding
<1>4. QED  BY <1>2, <1>3

----------------------------------------------------------------------------
\* Writes.

LEMMA CreateKeeps ==
  ASSUME GateInv, NEW r \in Requests, NEW t \in Tickets, CreateTicket(r, t)
  PROVE  GateInv'
<1> DEFINE u == requests[r].usuario
           k == requests[r].key
           new == [NoTicket EXCEPT !.state = "active", !.usuario = u, !.key = k]
           request == Serve("opening", t, k)
<1> USE DEF GateInv
<1>1. requests[r] \in Request /\ requests[r].pc = "create"
  BY DEF TypeOK, CreateTicket
<1>2. u \in Users /\ k \in Keys  BY <1>1, RequestFields DEF Asking
<1>3. /\ new.state = "active" /\ new.usuario = u /\ new.key = k
      /\ new.pagado = FALSE /\ new \in Ticket
  BY <1>2 DEF NoTicket, Ticket
<1>4. /\ request \in Request
      /\ request.pc = "opening"
      /\ request.ticket = t
  <2>1. request \in Request  BY <1>2, RequestPlaces DEF Serving
  <2>2. QED  BY <2>1 DEF Serve
<1>5. /\ requests' \in [Requests -> Request]
      /\ requests'[r] = request
      /\ \A q \in Requests : q # r => requests'[q] = requests[q]
  <2>1. Become(r, request)  BY DEF CreateTicket
  <2>2. QED  BY <1>4, <2>1, BecomeTyped
<1>6. /\ tickets' \in [Tickets -> Ticket]
      /\ tickets'[t] = new
      /\ \A other \in Tickets : other # t => tickets'[other] = tickets[other]
  <2>1. tickets' = [tickets EXCEPT ![t] = new]  BY DEF CreateTicket
  <2>2. QED  BY <1>3, <2>1 DEF TypeOK
<1>7. /\ tickets[t].state = "none"
      /\ WithKey(k) = {}
      /\ ActiveOf(u) = {}
      /\ UNCHANGED <<sessions, entered, exits, answered>>
  BY DEF CreateTicket, UniqueKey, UniqueActive
<1>8. /\ t \notin entered
      /\ \A q \in Requests : requests[q].pc \in Holding => requests[q].ticket # t
  BY <1>7 DEF EntriesHold, Stored, Holding
<1>9. TypeOK'  BY <1>5, <1>6, <1>7 DEF TypeOK
<1>10. OneActivePerUser'
  <2>1. ASSUME NEW v \in Users, NEW a \in Tickets, NEW b \in Tickets,
               tickets'[a].state = "active", tickets'[a].usuario = v,
               tickets'[b].state = "active", tickets'[b].usuario = v
        PROVE  a = b
    <3>1. CASE v = u
      <4>1. \A c \in Tickets : ~(tickets[c].state = "active" /\ tickets[c].usuario = u)
        BY <1>7 DEF ActiveOf
      <4>2. QED  BY <1>6, <2>1, <3>1, <4>1
    <3>2. CASE v # u
      <4>1. a # t /\ b # t  BY <1>3, <1>6, <2>1, <3>2
      <4>2. a \in ActiveOf(v) /\ b \in ActiveOf(v)  BY <1>6, <2>1, <4>1 DEF ActiveOf
      <4>3. QED  BY <4>2 DEF OneActivePerUser
    <3>3. QED  BY <3>1, <3>2
  <2>2. QED  BY <2>1 DEF OneActivePerUser, ActiveOf
<1>11. KeysDiffer'
  <2>1. ASSUME NEW a \in Tickets, NEW b \in Tickets,
               tickets'[a].state \in {"active", "completed"},
               tickets'[b].state \in {"active", "completed"},
               tickets'[a].key = tickets'[b].key
        PROVE  a = b
    <3>1. CASE tickets'[a].key = k
      <4>1. \A c \in Tickets :
              ~(tickets[c].state \in {"active", "completed"} /\ tickets[c].key = k)
        BY <1>7 DEF Stored, WithKey
      <4>2. QED  BY <1>6, <2>1, <3>1, <4>1
    <3>2. CASE tickets'[a].key # k
      BY <1>3, <1>6, <2>1, <3>2 DEF KeysDiffer, Stored
    <3>3. QED  BY <3>1, <3>2
  <2>2. QED  BY <2>1 DEF KeysDiffer, Stored
<1>12. EntriesHold'
  <2>1. \A e \in entered' : Stored(e)'
    BY <1>6, <1>7, <1>8 DEF EntriesHold, Stored, TypeOK
  <2>2. ASSUME NEW q \in Requests, requests'[q].pc \in Holding
        PROVE  /\ Stored(requests[q].ticket)'
               /\ requests'[q].ticket \notin entered'
    <3>1. CASE q = r
      BY <1>3, <1>4, <1>5, <1>6, <1>7, <1>8, <3>1 DEF Stored
    <3>2. CASE q # r
      <4>1. requests'[q] = requests[q] /\ requests[q] \in Request  BY <1>5, <3>2 DEF TypeOK
      <4>2. requests[q].ticket \in Tickets /\ requests[q].ticket # t
        BY <1>8, <2>2, <4>1, RequestFields DEF Holding, Serving
      <4>3. QED  BY <1>6, <1>7, <2>2, <4>1, <4>2 DEF EntriesHold, Stored, Holding
    <3>3. QED  BY <3>1, <3>2
  <2>3. ASSUME NEW q \in Requests, NEW other \in Requests,
               requests'[q].pc \in Holding, requests'[other].pc \in Holding,
               requests'[q].ticket = requests'[other].ticket
        PROVE  q = other
    BY <1>4, <1>5, <1>8, <2>3 DEF EntriesHold, Holding
  <2>4. QED  BY <2>1, <2>2, <2>3 DEF EntriesHold, Holding
<1>13. ExitsHold' /\ LeavesPaidAndRecorded'
  <2>1. ~tickets[t].pagado /\ exits[t] \in Nat /\ ~(exits[t] > 0)
    BY <1>7 DEF LeavesPaidAndRecorded, ExitsHold, TypeOK
  <2>2. LeavesPaidAndRecorded'
    BY <1>3, <1>6, <1>7, <2>1 DEF LeavesPaidAndRecorded
  <2>3. \A other \in Tickets : tickets'[other].state = "none" => ~tickets'[other].pagado
    BY <1>3, <1>6 DEF ExitsHold
  <2>4. ASSUME NEW q \in Requests, requests'[q].pc \in {"leaving", "left", "complete"}
        PROVE  /\ requests'[q].pc = "leaving" => tickets'[requests'[q].ticket].pagado
               /\ requests'[q].pc \in {"left", "complete"} => exits'[requests'[q].ticket] > 0
    <3>1. q # r /\ requests'[q] = requests[q]  BY <1>4, <1>5, <2>4
    <3>2. requests[q].ticket \in Tickets
      BY <2>4, <3>1, RequestFields DEF TypeOK, Serving
    <3>3. QED  BY <1>6, <1>7, <2>1, <2>4, <3>1, <3>2 DEF ExitsHold
  <2>5. QED  BY <2>2, <2>3, <2>4 DEF ExitsHold
<1>14. QED  BY <1>9, <1>10, <1>11, <1>12, <1>13

LEMMA ConfirmedKeeps ==
  ASSUME GateInv, NEW r \in Requests, EntryConfirmed(r)
  PROVE  GateInv'
<1> DEFINE t == requests[r].ticket
<1> USE DEF GateInv
<1>1. requests[r] \in Request /\ requests[r].pc = "opening"
  BY DEF TypeOK, EntryConfirmed
<1>2. t \in Tickets /\ requests[r].key \in Keys  BY <1>1, RequestFields DEF Serving
<1>3. /\ requests' \in [Requests -> Request]
      /\ requests'[r] = Idle
      /\ \A q \in Requests : q # r => requests'[q] = requests[q]
  BY IdleIsRequest, BecomeTyped DEF EntryConfirmed
<1>4. UNCHANGED <<tickets, sessions, exits>> /\ entered' = entered \cup {t}
  BY DEF EntryConfirmed
<1>5. answered' \subseteq Answer  BY <1>2, GiveTyped DEF EntryConfirmed
<1>6. Idle.pc = "idle"  BY DEF Idle
<1>7. TypeOK'  BY <1>2, <1>3, <1>4, <1>5 DEF TypeOK
<1>8. OneActivePerUser' /\ KeysDiffer' /\ LeavesPaidAndRecorded'
  BY <1>4 DEF OneActivePerUser, ActiveOf, KeysDiffer, Stored, LeavesPaidAndRecorded
<1>9. EntriesHold'
  <2>1. \A e \in entered' : Stored(e)'
    BY <1>1, <1>4 DEF EntriesHold, Stored
  <2>2. ASSUME NEW q \in Requests, requests'[q].pc \in Holding
        PROVE  q # r /\ requests'[q] = requests[q] /\ requests[q].ticket # t
    BY <1>1, <1>3, <1>6, <2>2 DEF EntriesHold, Holding
  <2>3. QED  BY <1>4, <2>1, <2>2 DEF EntriesHold, Holding, Stored
<1>10. ExitsHold'  BY <1>3, <1>4, <1>6 DEF ExitsHold
<1>11. QED  BY <1>7, <1>8, <1>9, <1>10

LEMMA UndoKeeps ==
  ASSUME GateInv, NEW r \in Requests, UndoEntry(r)
  PROVE  GateInv'
<1> DEFINE t == requests[r].ticket
<1> USE DEF GateInv
<1>1. requests[r] \in Request /\ requests[r].pc = "undo"
  BY DEF TypeOK, UndoEntry
<1>2. t \in Tickets  BY <1>1, RequestFields DEF Serving
<1>3. Become(r, Idle) /\ UNCHANGED <<sessions, entered, exits, answered>>
  BY DEF UndoEntry
<1>4. Idle.pc = "idle"  BY DEF Idle
<1>5. CASE tickets' = tickets
  BY <1>3, <1>4, <1>5, IdleIsRequest, RequestMoves DEF TypeOK, Holding
<1>6. CASE tickets' # tickets
  <2>1. tickets' = [tickets EXCEPT ![t].state = "deleted"]  BY <1>6 DEF UndoEntry
  <2>2. [tickets[t] EXCEPT !.state = "deleted"] \in Ticket
    BY <1>2 DEF TypeOK, Ticket
  <2>3. /\ tickets' \in [Tickets -> Ticket]
        /\ \A other \in Tickets : other # t => tickets'[other] = tickets[other]
        /\ tickets'[t].state = "deleted"
        /\ tickets'[t].pagado = tickets[t].pagado
    <3>1. tickets'[t] = [tickets[t] EXCEPT !.state = "deleted"]
      BY <1>2, <2>1 DEF TypeOK
    <3>2. tickets[t] \in Ticket  BY <1>2 DEF TypeOK
    <3>3. tickets'[t].state = "deleted" /\ tickets'[t].pagado = tickets[t].pagado
      BY <3>1, <3>2 DEF Ticket
    <3>4. QED  BY <1>2, <2>1, <2>2, <3>3 DEF TypeOK
  <2>4. /\ requests' \in [Requests -> Request]
        /\ requests'[r] = Idle
        /\ \A q \in Requests : q # r => requests'[q] = requests[q]
    BY <1>3, IdleIsRequest, BecomeTyped
  <2>5. TypeOK'  BY <1>3, <2>3, <2>4 DEF TypeOK
  <2>6. OneActivePerUser'  BY <2>3 DEF OneActivePerUser, ActiveOf
  <2>7. KeysDiffer'  BY <2>3 DEF KeysDiffer, Stored
  <2>8. LeavesPaidAndRecorded'  BY <1>3, <2>3 DEF LeavesPaidAndRecorded
  <2>9. EntriesHold'
    <3>1. t \notin entered  BY <1>1 DEF EntriesHold
    <3>2. \A e \in entered' : Stored(e)'
      BY <1>3, <2>3, <3>1 DEF EntriesHold, Stored, TypeOK
    <3>3. ASSUME NEW q \in Requests, requests'[q].pc \in Holding
          PROVE  /\ q # r /\ requests'[q] = requests[q]
                 /\ requests[q].ticket \in Tickets \ {t}
      <4>1. q # r /\ requests'[q] = requests[q]  BY <1>4, <2>4, <3>3 DEF Holding
      <4>2. requests[q].ticket \in Tickets
        BY <3>3, <4>1, RequestFields DEF TypeOK, Holding, Serving
      <4>3. QED  BY <1>1, <3>3, <4>1, <4>2 DEF EntriesHold, Holding
    <3>4. QED  BY <1>3, <2>3, <3>2, <3>3 DEF EntriesHold, Holding, Stored
  <2>10. ExitsHold'
    <3>1. ASSUME NEW q \in Requests, requests'[q].pc = "leaving"
          PROVE  tickets'[requests'[q].ticket].pagado
      <4>1. requests'[q] = requests[q]  BY <1>4, <2>4, <3>1
      <4>2. requests[q].ticket \in Tickets
        BY <3>1, <4>1, RequestFields DEF TypeOK, Serving
      <4>3. QED  BY <2>3, <3>1, <4>1, <4>2 DEF ExitsHold
    <3>2. QED  BY <1>3, <1>4, <2>3, <2>4, <3>1 DEF ExitsHold
  <2>11. QED  BY <2>5, <2>6, <2>7, <2>8, <2>9, <2>10
<1>7. QED  BY <1>5, <1>6

\* A stored ticket is paid or leaves: its key and user stay, and so does the
\* payment.  The request that did so holds no entry.
LEMMA SettlingKeeps ==
  ASSUME GateInv, NEW r \in Requests, NEW request \in Request,
         NEW t \in Tickets, NEW row \in Ticket,
         Stored(t),
         tickets' = [tickets EXCEPT ![t] = row],
         requests' = requests \/ Become(r, request),
         request.pc \in {"idle", "leaving"},
         request.pc = "leaving" => request.ticket = t,
         row.pagado,
         row.usuario = tickets[t].usuario, row.key = tickets[t].key,
         \/ row.state = tickets[t].state
         \/ row.state = "completed" /\ exits[t] > 0,
         UNCHANGED <<sessions, entered, exits>>, answered' \subseteq Answer
  PROVE  GateInv'
<1> USE DEF GateInv
<1>1. /\ tickets' \in [Tickets -> Ticket]
      /\ tickets'[t] = row
      /\ \A other \in Tickets : other # t => tickets'[other] = tickets[other]
  BY DEF TypeOK
<1>2. /\ requests' \in [Requests -> Request]
      /\ \A q \in Requests :
           \/ requests'[q] = requests[q]
           \/ requests'[q] = request
  <2>1. CASE requests' = requests  BY <2>1 DEF TypeOK
  <2>2. CASE Become(r, request)  BY <2>2, BecomeTyped
  <2>3. QED  BY <2>1, <2>2
<1>3. \A other \in Tickets :
        /\ Stored(other)' <=> Stored(other)
        /\ tickets'[other].usuario = tickets[other].usuario
        /\ tickets'[other].key = tickets[other].key
        /\ tickets'[other].state = "active" => tickets[other].state = "active"
        /\ tickets[other].pagado => tickets'[other].pagado
        /\ tickets'[other].state = "none" => tickets'[other] = tickets[other]
  BY <1>1 DEF Stored
<1>4. TypeOK'  BY <1>1, <1>2 DEF TypeOK
<1>5. OneActivePerUser'  BY <1>3 DEF OneActivePerUser, ActiveOf
<1>6. KeysDiffer'  BY <1>3 DEF KeysDiffer
<1>7. EntriesHold'
  <2>1. \A e \in entered' : Stored(e)'
    BY <1>3 DEF EntriesHold, TypeOK
  <2>2. ASSUME NEW q \in Requests, requests'[q].pc \in Holding
        PROVE  requests'[q] = requests[q] /\ requests[q].ticket \in Tickets
    <3>1. requests'[q] = requests[q]  BY <1>2, <2>2 DEF Holding
    <3>2. QED  BY <2>2, <3>1, RequestFields DEF TypeOK, Holding, Serving
  <2>3. QED  BY <1>3, <2>1, <2>2 DEF EntriesHold, Holding
<1>8. ExitsHold'
  <2>1. ASSUME NEW q \in Requests, requests'[q].pc = "leaving"
        PROVE  tickets'[requests'[q].ticket].pagado
    <3>1. CASE requests'[q] = requests[q]
      <4>1. requests[q].ticket \in Tickets
        BY <2>1, <3>1, RequestFields DEF TypeOK, Serving
      <4>2. QED  BY <1>3, <2>1, <3>1, <4>1 DEF ExitsHold
    <3>2. CASE requests'[q] = request  BY <1>1, <2>1, <3>2
    <3>3. QED  BY <1>2, <3>1, <3>2
  <2>2. \A q \in Requests : requests'[q].pc \in {"left", "complete"} =>
          exits'[requests'[q].ticket] > 0
    BY <1>2 DEF ExitsHold
  <2>3. QED  BY <1>3, <2>1, <2>2 DEF ExitsHold
<1>9. LeavesPaidAndRecorded'
  BY <1>1 DEF LeavesPaidAndRecorded
<1>10. QED  BY <1>4, <1>5, <1>6, <1>7, <1>8, <1>9

LEMMA FreeExitKeeps ==
  ASSUME GateInv, NEW r \in Requests, FreeExit(r)
  PROVE  GateInv'
<1> DEFINE t == requests[r].ticket
           request == [requests[r] EXCEPT !.pc = "leaving"]
           row == [tickets[t] EXCEPT !.pagado = TRUE]
<1>1. requests[r] \in Request /\ requests[r].pc = "free"
  BY DEF GateInv, TypeOK, FreeExit
<1>2. t \in Tickets  BY <1>1, RequestFields DEF Serving
<1>3. UNCHANGED <<sessions, entered, exits, answered>>  BY DEF FreeExit
<1>4. CASE Stored(t)
  <2>1. request \in Request /\ request.pc = "leaving" /\ request.ticket = t
    BY <1>1, GoesOn DEF Serving
  <2>2. tickets[t] \in Ticket  BY <1>2 DEF GateInv, TypeOK
  <2>3. /\ row \in Ticket
        /\ row.pagado
        /\ row.usuario = tickets[t].usuario /\ row.key = tickets[t].key
        /\ row.state = tickets[t].state
    <3>1. row \in Ticket  BY <2>2 DEF Ticket
    <3>2. QED  BY <2>2 DEF Ticket
  <2>4. tickets' = [tickets EXCEPT ![t] = row] /\ Become(r, request)
    BY <1>4 DEF FreeExit
  <2>5. QED
    BY <1>2, <1>3, <1>4, <2>1, <2>3, <2>4, SettlingKeeps DEF GateInv, TypeOK
<1>5. CASE ~Stored(t)
  <2>1. Idle.pc = "idle"  BY DEF Idle
  <2>2. QED
    BY <1>3, <1>5, <2>1, IdleIsRequest, RequestMoves DEF FreeExit, GateInv, TypeOK, Holding
<1>6. QED  BY <1>4, <1>5

LEMMA ExitOpensKeeps ==
  ASSUME GateInv, NEW r \in Requests, ExitOpens(r)
  PROVE  GateInv'
<1> DEFINE t == requests[r].ticket
           request == [requests[r] EXCEPT !.pc = "left"]
<1> USE DEF GateInv
<1>1. requests[r] \in Request /\ requests[r].pc = "leaving"
  BY DEF TypeOK, ExitOpens
<1>2. t \in Tickets  BY <1>1, RequestFields DEF Serving
<1>3. request \in Request /\ request.pc = "left" /\ request.ticket = t
  BY <1>1, GoesOn DEF Serving
<1>4. /\ requests' \in [Requests -> Request]
      /\ requests'[r] = request
      /\ \A q \in Requests : q # r => requests'[q] = requests[q]
  BY <1>3, BecomeTyped DEF ExitOpens
<1>5. /\ exits' \in [Tickets -> 0 .. MaxExits]
      /\ exits'[t] > 0
      /\ \A other \in Tickets : other # t => exits'[other] = exits[other]
      /\ \A other \in Tickets : exits[other] > 0 => exits'[other] > 0
  BY <1>2, GateAssumption DEF TypeOK, ExitOpens
<1>6. UNCHANGED <<tickets, sessions, entered, answered>>  BY DEF ExitOpens
<1>7. TypeOK'  BY <1>4, <1>5, <1>6 DEF TypeOK
<1>8. OneActivePerUser' /\ KeysDiffer'
  BY <1>6 DEF OneActivePerUser, ActiveOf, KeysDiffer, Stored
<1>9. EntriesHold'
  <2>1. ASSUME NEW q \in Requests, requests'[q].pc \in Holding
        PROVE  requests'[q] = requests[q]
    BY <1>3, <1>4, <2>1 DEF Holding
  <2>2. QED  BY <1>6, <2>1 DEF EntriesHold, Holding, Stored
<1>10. ExitsHold'
  <2>1. ASSUME NEW q \in Requests, requests'[q].pc \in {"left", "complete"}
        PROVE  exits'[requests'[q].ticket] > 0
    <3>1. CASE q = r  BY <1>3, <1>4, <1>5, <3>1
    <3>2. CASE q # r
      <4>1. requests[q].ticket \in Tickets
        BY <1>4, <2>1, <3>2, RequestFields DEF TypeOK, Serving
      <4>2. QED  BY <1>4, <1>5, <2>1, <3>2, <4>1 DEF ExitsHold
    <3>3. QED  BY <3>1, <3>2
  <2>2. QED  BY <1>3, <1>4, <1>6, <2>1 DEF ExitsHold
<1>11. LeavesPaidAndRecorded'
  <2>1. tickets[t].pagado  BY <1>1 DEF ExitsHold
  <2>2. QED  BY <1>5, <1>6, <2>1 DEF LeavesPaidAndRecorded
<1>12. QED  BY <1>7, <1>8, <1>9, <1>10, <1>11

LEMMA CompleteKeeps ==
  ASSUME GateInv, NEW r \in Requests, CompleteTicket(r)
  PROVE  GateInv'
<1> DEFINE t == requests[r].ticket
           k == requests[r].key
           row == [tickets[t] EXCEPT !.state = "completed", !.exitKey = k]
<1>1. requests[r] \in Request /\ requests[r].pc = "complete"
  BY DEF GateInv, TypeOK, CompleteTicket, MayComplete
<1>2. t \in Tickets /\ k \in Keys  BY <1>1, RequestFields DEF Serving
<1>3. UNCHANGED <<sessions, entered, exits>> /\ Become(r, Idle)
  BY DEF CompleteTicket
<1>4. Idle.pc = "idle"  BY DEF Idle
<1>5. CASE Stored(t) /\ WithExitKey(k) \subseteq {t}
  <2>1. tickets[t] \in Ticket /\ exits[t] > 0 /\ tickets[t].pagado
    BY <1>1, <1>2 DEF GateInv, TypeOK, ExitsHold, LeavesPaidAndRecorded
  <2>2. /\ row \in Ticket
        /\ row.pagado
        /\ row.usuario = tickets[t].usuario /\ row.key = tickets[t].key
        /\ row.state = "completed"
    <3>1. row \in Ticket  BY <1>2, <2>1 DEF Ticket
    <3>2. QED  BY <1>2, <2>1 DEF Ticket
  <2>3. tickets' = [tickets EXCEPT ![t] = row]
    BY <1>2, <1>5 DEF GateInv, TypeOK, CompleteTicket
  <2>4. answered' \subseteq Answer
    BY <1>2, <1>5, GiveTyped DEF GateInv, CompleteTicket
  <2>5. QED
    BY <1>2, <1>3, <1>4, <1>5, <2>1, <2>2, <2>3, <2>4, IdleIsRequest, SettlingKeeps
<1>6. CASE ~(Stored(t) /\ WithExitKey(k) \subseteq {t})
  BY <1>3, <1>4, <1>6, IdleIsRequest, RequestMoves
  DEF CompleteTicket, GateInv, TypeOK, Holding
<1>7. QED  BY <1>5, <1>6

LEMMA PayKeeps ==
  ASSUME GateInv, NEW t \in Tickets, PayTicket(t)
  PROVE  GateInv'
<1> DEFINE row == [tickets[t] EXCEPT !.pagado = TRUE]
<1>1. tickets[t] \in Ticket  BY DEF GateInv, TypeOK
<1>2. /\ row \in Ticket
      /\ row.pagado
      /\ row.usuario = tickets[t].usuario /\ row.key = tickets[t].key
      /\ row.state = tickets[t].state
  <2>1. row \in Ticket  BY <1>1 DEF Ticket
  <2>2. QED  BY <1>1 DEF Ticket
<1>3. tickets' = [tickets EXCEPT ![t] = row]  BY DEF PayTicket
<1>4. Stored(t) /\ UNCHANGED <<sessions, entered, exits, answered, requests>>
  BY DEF PayTicket, Stored
<1>5. CASE Requests = {}
  BY <1>2, <1>3, <1>4, <1>5 DEF GateInv, TypeOK, OneActivePerUser, ActiveOf, KeysDiffer, Stored,
       EntriesHold, ExitsHold, LeavesPaidAndRecorded
<1>6. CASE Requests # {}
  <2>1. PICK r \in Requests : TRUE  BY <1>6
  <2>2. Idle.pc = "idle"  BY DEF Idle
  <2>3. QED
    BY <1>2, <1>3, <1>4, <2>2, IdleIsRequest, SettlingKeeps DEF GateInv, TypeOK
<1>7. QED  BY <1>5, <1>6

----------------------------------------------------------------------------
LEMMA StepKeeps ==
  ASSUME GateInv, [Next]_vars
  PROVE  GateInv'
<1>1. CASE UNCHANGED vars
  BY <1>1 DEF vars, GateInv, TypeOK, OneActivePerUser, ActiveOf, KeysDiffer, Stored,
       EntriesHold, ExitsHold, LeavesPaidAndRecorded
<1>2. ASSUME NEW r \in Requests, Entry(r)
      PROVE  GateInv'
  BY <1>2, EntryReadsKeep, CreateKeeps, EndsKeeps, ConfirmedKeeps, UndoKeeps DEF Entry
<1>3. ASSUME NEW r \in Requests, Exit(r)
      PROVE  GateInv'
  BY <1>3, ExitReadsKeep, FreeExitKeeps, ExitOpensKeeps, EndsKeeps, CompleteKeeps DEF Exit
<1>4. ASSUME NEW t \in Tickets, StartCashSession(t)
      PROVE  GateInv'
  BY <1>4 DEF StartCashSession, GateInv, TypeOK, OneActivePerUser, ActiveOf, KeysDiffer, Stored,
       EntriesHold, ExitsHold, LeavesPaidAndRecorded
<1>5. QED
  BY <1>1, <1>2, <1>3, <1>4, ReplayKeeps, KeyReadKeeps, EndsKeeps, PayKeeps DEF Next

\* The invariant of the gate holds in every state.
THEOREM GateInvariant == Spec => []GateInv
<1>1. Init => GateInv  BY InitInv
<1>2. GateInv /\ [Next]_vars => GateInv'  BY StepKeeps
<1>3. QED  BY <1>1, <1>2, PTL DEF Spec

\* However many entries and exits overlap, are repeated, undone or stopped, the
\* exit opens for settled tickets and a ticket is completed after it opened.
THEOREM LeavesPaid == Spec => []LeavesPaidAndRecorded
<1>1. GateInv => LeavesPaidAndRecorded  BY DEF GateInv
<1>2. QED  BY <1>1, GateInvariant, PTL

\* An entry key admits one car: confirmed entries are stored, and stored keys
\* differ.
THEOREM KeyEntersOnce == Spec => []OneEntryPerKey
<1>1. GateInv => OneEntryPerKey
  BY DEF GateInv, TypeOK, EntriesHold, KeysDiffer, OneEntryPerKey
<1>2. QED  BY <1>1, GateInvariant, PTL

----------------------------------------------------------------------------
\* The events of the device (AccessEvents).

\* An event is handled only after the device reported it, and the marks that let it in
\* are never taken away.
HandledWasReported ==
  \A h \in Handlers :
    handlers[h].pc = "patch" =>
      /\ handlers[h].event \in events
      /\ handlers[h].event.event # "barrier_opened" => ticket.barrierOpenedAt > 0

EventsInv ==
  /\ EventsTypeOK
  /\ IsFiniteSet(events)
  /\ HandledWasReported
  /\ MarksAgree
  /\ MarksAreReported

LEMMA HandlerFields ==
  ASSUME NEW handler \in Handler
  PROVE  handler.pc = "patch" => handler.event \in Event /\ handler.read \in TicketRow
BY DEF Handler

LEMMA EventFields ==
  ASSUME NEW e \in Event
  PROVE  /\ e.event \in Kinds /\ e.mode \in Modes
         /\ e.occurredAt \in Nat /\ e.occurredAt > 0 /\ e.occurredAt \in Times
         /\ e.occurredAt \in 0 .. MaxTime
BY TimeAssumption DEF Event, Times

LEMMA RowFields ==
  ASSUME NEW row \in TicketRow
  PROVE  /\ row.barrierOpenedAt \in Nat /\ row.barrierConfirmedAt \in Nat
         /\ row.fraudDetectedAt \in Nat
         /\ row.status \in {"ACTIVE", "COMPLETED", "FRAUD"}
         /\ row.runtimeEventIds \in SUBSET Times
BY TimeAssumption DEF TicketRow

\* What the patch of an event writes over a row, field by field.
WrittenBy(e, row, patched) ==
  /\ e.event = "barrier_opened" =>
       /\ patched.barrierOpenedAt = e.occurredAt
       /\ patched.barrierConfirmedAt = row.barrierConfirmedAt
       /\ patched.fraudDetectedAt = 0
  /\ e.event # "barrier_opened" => patched.barrierOpenedAt = row.barrierOpenedAt
  /\ e.event = "vehicle_passed" =>
       \/ patched = row
       \/ patched.barrierConfirmedAt = e.occurredAt /\ patched.fraudDetectedAt = 0
  /\ e.event = "vehicle_timeout" =>
       \/ patched = row
       \/ /\ patched.barrierConfirmedAt = row.barrierConfirmedAt
          /\ patched.fraudDetectedAt = e.occurredAt
          /\ patched.status = "FRAUD"

LEMMA PatchedFields ==
  ASSUME NEW t \in TicketRow, NEW row \in TicketRow, NEW e \in Event,
         NEW patched, patched = Patched(t, row, e)
  PROVE  patched \in TicketRow /\ WrittenBy(e, row, patched)
<1>1. /\ e.occurredAt \in 0 .. MaxTime /\ 0 \in 0 .. MaxTime
      /\ e.event \in Kinds
      /\ t.status \in {"ACTIVE", "COMPLETED", "FRAUD"}
  BY EventFields, RowFields, TimeAssumption
<1>2. CASE e.event = "barrier_opened"
  <2>1. Patched(t, row, e) = Opened(t, row, e)  BY <1>2 DEF Patched
  <2>2. PICK status \in {"ACTIVE", "COMPLETED", "FRAUD"} :
          Opened(t, row, e) = [row EXCEPT !.barrierOpenedAt = e.occurredAt, !.fraudDetectedAt = 0,
                                          !.status = status]
    BY <1>1 DEF Opened
  <2>3. Opened(t, row, e) \in TicketRow  BY <1>1, <2>2 DEF TicketRow
  <2>4. patched = Opened(t, row, e)  BY <2>1
  <2>5. /\ patched.barrierOpenedAt = e.occurredAt
        /\ patched.barrierConfirmedAt = row.barrierConfirmedAt
        /\ patched.fraudDetectedAt = 0
    BY <2>2, <2>4 DEF TicketRow
  <2>6. QED  BY <1>2, <2>1, <2>3, <2>4, <2>5 DEF WrittenBy
<1>3. CASE e.event = "vehicle_passed"
  <2>1. Patched(t, row, e) = Passed(t, row, e)  BY <1>3 DEF Patched
  <2>2. PICK status \in {"ACTIVE", "COMPLETED", "FRAUD"} :
          \/ Passed(t, row, e) = row
          \/ Passed(t, row, e) =
               [row EXCEPT !.barrierConfirmedAt = e.occurredAt, !.fraudDetectedAt = 0,
                           !.status = status]
    BY <1>1 DEF Passed
  <2>3. Passed(t, row, e) \in TicketRow  BY <1>1, <2>2 DEF TicketRow
  <2>4. patched = Passed(t, row, e)  BY <2>1
  <2>5. \/ patched = row
        \/ /\ patched.barrierOpenedAt = row.barrierOpenedAt
           /\ patched.barrierConfirmedAt = e.occurredAt
           /\ patched.fraudDetectedAt = 0
    BY <2>2, <2>4 DEF TicketRow
  <2>6. QED  BY <1>3, <2>1, <2>3, <2>4, <2>5 DEF WrittenBy
<1>4. CASE e.event = "vehicle_timeout"
  <2>1. Patched(t, row, e) = Missing(t, row, e)  BY <1>4 DEF Patched
  <2>2. \/ Missing(t, row, e) = row
        \/ Missing(t, row, e) = [row EXCEPT !.status = "FRAUD", !.fraudDetectedAt = e.occurredAt]
    BY DEF Missing
  <2>3. QED  BY <1>1, <1>4, <2>1, <2>2 DEF TicketRow, WrittenBy
<1>5. QED  BY <1>1, <1>2, <1>3, <1>4 DEF Kinds

LEMMA HandleTyped ==
  ASSUME EventsTypeOK, NEW h \in Handlers, NEW handler \in Handler, Handle(h, handler)
  PROVE  /\ handlers' \in [Handlers -> Handler]
         /\ \A g \in Handlers : handlers'[g] = IF g = h THEN handler ELSE handlers[g]
BY DEF EventsTypeOK, Handle

\* A step that leaves the ticket alone and takes no event back.
LEMMA TicketStands ==
  ASSUME EventsInv, EventsTypeOK', IsFiniteSet(events'), HandledWasReported',
         ticket' = ticket, events \subseteq events'
  PROVE  EventsInv'
BY DEF EventsInv, MarksAgree, MarksAreReported

\* A step of the device.
LEMMA DeviceReports ==
  ASSUME EventsInv, NEW mode \in Modes,
         BarrierOpens(mode) \/ VehiclePasses(mode) \/ VehicleMissing(mode)
  PROVE  EventsInv'
<1>1. PICK kind \in Kinds : Report(kind, mode)
  BY DEF BarrierOpens, VehiclePasses, VehicleMissing, Kinds
<1>2. device' \in Device
  BY DEF BarrierOpens, VehiclePasses, VehicleMissing, Device, Modes, EventsInv, EventsTypeOK
<1>3. PICK n \in Nat : n = Cardinality(events)
  BY FS_CardinalityType DEF EventsInv
<1>4. n + 1 \in Times  BY <1>1, <1>3, TimeAssumption DEF Report, Times
<1>5. PICK e \in Event : e = [event |-> kind, mode |-> mode, occurredAt |-> n + 1]
  BY <1>4 DEF Event
<1>6. events' = events \cup {e} /\ UNCHANGED <<ticket, handlers>>
  BY <1>1, <1>3, <1>5 DEF Report
<1>7. EventsTypeOK'  BY <1>2, <1>6 DEF EventsInv, EventsTypeOK
<1>8. IsFiniteSet(events')  BY <1>6, FS_AddElement DEF EventsInv
<1>9. HandledWasReported'  BY <1>6 DEF EventsInv, HandledWasReported
<1>10. QED  BY <1>6, <1>7, <1>8, <1>9, TicketStands

LEMMA EventReceived ==
  ASSUME EventsInv, NEW h \in Handlers, NEW e \in events, Receive(h, e)
  PROVE  EventsInv'
<1>1. e \in Event /\ ticket \in TicketRow  BY DEF EventsInv, EventsTypeOK
<1>2. PICK handler \in Handler :
        /\ Handle(h, handler)
        /\ handler.pc = "patch" /\ handler.event = e
  <2>1. [pc |-> "patch", event |-> e, read |-> ticket] \in Handler  BY <1>1 DEF Handler
  <2>2. QED  BY <2>1 DEF Receive
<1>3. /\ handlers' \in [Handlers -> Handler]
      /\ \A g \in Handlers : handlers'[g] = IF g = h THEN handler ELSE handlers[g]
  BY <1>2, HandleTyped DEF EventsInv
<1>4. UNCHANGED <<ticket, events, device>>  BY DEF Receive
<1>5. e.event # "barrier_opened" => ticket.barrierOpenedAt > 0  BY DEF Receive, Accepted
<1>6. HandledWasReported'
  BY <1>2, <1>3, <1>4, <1>5 DEF EventsInv, HandledWasReported
<1>7. EventsTypeOK' /\ IsFiniteSet(events')  BY <1>3, <1>4 DEF EventsInv, EventsTypeOK
<1>8. QED  BY <1>4, <1>6, <1>7, TicketStands

\* A handler ends, or begins an exit, and patches nothing.
LEMMA HandlerEnds ==
  ASSUME EventsTypeOK, NEW h \in Handlers,
         Handle(h, NotHandling) \/ Handle(h, [pc |-> "exit"])
  PROVE  /\ handlers' \in [Handlers -> Handler]
         /\ \A g \in Handlers : handlers'[g].pc = "patch" => handlers'[g] = handlers[g]
<1>1. PICK handler \in Handler : Handle(h, handler) /\ handler.pc # "patch"
  BY DEF Handler, NotHandling
<1>2. QED  BY <1>1, HandleTyped

LEMMA PatchWritten ==
  ASSUME EventsInv, NEW h \in Handlers, WritePatch(h)
  PROVE  EventsInv'
<1>. PICK e, t : e = handlers[h].event /\ t = handlers[h].read
  OBVIOUS
<1>1. e \in Event /\ t \in TicketRow /\ ticket \in TicketRow /\ e \in events
  BY HandlerFields DEF EventsInv, EventsTypeOK, WritePatch, HandledWasReported
<1>2. e.event # "barrier_opened" => ticket.barrierOpenedAt > 0
  BY DEF EventsInv, WritePatch, HandledWasReported
<1>3. PICK patched \in TicketRow : patched = Patched(t, ticket, e)  BY <1>1, PatchedFields
<1>4. WrittenBy(e, ticket, patched)  BY <1>1, <1>3, PatchedFields
<1>5. PICK ids \in SUBSET Times : ids = t.runtimeEventIds \cup {e.occurredAt}
  BY <1>1, RowFields, EventFields
<1>6. ticket' = [patched EXCEPT !.runtimeEventIds = ids] /\ Handle(h, NotHandling)
      /\ UNCHANGED <<events, device>>
  BY <1>3, <1>5 DEF WritePatch
<1>7. /\ ticket' \in TicketRow
      /\ ticket'.status = patched.status
      /\ ticket'.barrierOpenedAt = patched.barrierOpenedAt
      /\ ticket'.barrierConfirmedAt = patched.barrierConfirmedAt
      /\ ticket'.fraudDetectedAt = patched.fraudDetectedAt
  BY <1>6 DEF TicketRow
<1>8. /\ handlers' \in [Handlers -> Handler]
      /\ \A g \in Handlers : handlers'[g].pc = "patch" => handlers'[g] = handlers[g]
  BY <1>6, HandlerEnds DEF EventsInv
<1>9. EventsTypeOK' /\ IsFiniteSet(events')  BY <1>6, <1>7, <1>8 DEF EventsInv, EventsTypeOK
<1>10. e.event \in Kinds /\ e.occurredAt \in Nat /\ e.occurredAt > 0  BY <1>1, EventFields
<1>11. /\ e.event # "barrier_opened" => ticket'.barrierOpenedAt > 0
       /\ e.event = "barrier_opened" => ticket'.barrierOpenedAt > 0
  BY <1>2, <1>4, <1>7, <1>10 DEF WrittenBy
<1>12. HandledWasReported'
  BY <1>6, <1>8, <1>11 DEF EventsInv, HandledWasReported
<1>13. MarksAgree'
  <2>1. ticket'.barrierConfirmedAt > 0 => ticket'.barrierOpenedAt > 0  BY <1>11
  <2>2. ticket'.status = "ACTIVE" => ticket'.fraudDetectedAt = 0
    BY <1>4, <1>7, <1>10 DEF EventsInv, MarksAgree, Kinds, WrittenBy
  <2>3. QED  BY <2>1, <2>2 DEF MarksAgree
<1>14. ticket'.fraudDetectedAt > 0 =>
         \E f \in events : f.event = "vehicle_timeout" /\ f.occurredAt = ticket'.fraudDetectedAt
  BY <1>1, <1>4, <1>7, <1>10 DEF EventsInv, MarksAreReported, Kinds, WrittenBy
<1>15. ticket'.barrierConfirmedAt > 0 =>
         \E f \in events : f.event = "vehicle_passed" /\ f.occurredAt = ticket'.barrierConfirmedAt
  BY <1>1, <1>4, <1>7, <1>10 DEF EventsInv, MarksAreReported, Kinds, WrittenBy
<1>16. MarksAreReported'  BY <1>6, <1>14, <1>15 DEF MarksAreReported
<1>17. QED  BY <1>9, <1>12, <1>13, <1>16 DEF EventsInv

LEMMA ExitSteps ==
  ASSUME EventsInv, NEW h \in Handlers, BeginExit(h) \/ CompleteExit(h) \/ HandlerStops(h)
  PROVE  EventsInv'
<1>1. /\ handlers' \in [Handlers -> Handler]
      /\ \A g \in Handlers : handlers'[g].pc = "patch" => handlers'[g] = handlers[g]
  BY HandlerEnds DEF EventsInv, BeginExit, CompleteExit, HandlerStops
<1>2. UNCHANGED <<events, device>>  BY DEF BeginExit, CompleteExit, HandlerStops
<1>3. ticket \in TicketRow  BY DEF EventsInv, EventsTypeOK
<1>4. /\ ticket' \in TicketRow
      /\ ticket'.barrierOpenedAt = ticket.barrierOpenedAt
      /\ ticket'.barrierConfirmedAt = ticket.barrierConfirmedAt
      /\ ticket'.fraudDetectedAt = ticket.fraudDetectedAt
      /\ ticket'.status \in {ticket.status, "COMPLETED"}
  BY <1>3 DEF BeginExit, CompleteExit, HandlerStops, TicketRow
<1>5. EventsTypeOK' /\ IsFiniteSet(events')  BY <1>1, <1>2, <1>4 DEF EventsInv, EventsTypeOK
<1>6. HandledWasReported'  BY <1>1, <1>2, <1>4 DEF EventsInv, HandledWasReported
<1>7. MarksAgree' /\ MarksAreReported'
  BY <1>2, <1>4 DEF EventsInv, MarksAgree, MarksAreReported
<1>8. QED  BY <1>5, <1>6, <1>7 DEF EventsInv

\* What the device reported, what the handlers hold and what the ticket bears agree, in
\* whatever order events are delivered, repeated and written over each other and over
\* the exit (handleRuntimeAccessEvent, buildRuntimeAccessTicketPatch).
THEOREM EventsInvariant == EventsSpec => []EventsInv
<1>1. EventsInit => EventsInv
  <2> SUFFICES ASSUME EventsInit
               PROVE  EventsInv
    OBVIOUS
  <2>1. 0 \in 0 .. MaxTime /\ {} \in SUBSET Times  BY TimeAssumption
  <2>2. ticket \in TicketRow  BY <2>1 DEF EventsInit, TicketRow
  <2>3. /\ ticket.fraudDetectedAt = 0 /\ ticket.barrierConfirmedAt = 0
    BY DEF EventsInit
  <2>4. EventsTypeOK  BY <2>2 DEF EventsInit, EventsTypeOK, Handler, NotHandling, Device
  <2>5. HandledWasReported /\ IsFiniteSet(events)
    BY FS_EmptySet DEF EventsInit, HandledWasReported, NotHandling
  <2>6. QED  BY <2>3, <2>4, <2>5 DEF EventsInv, MarksAgree, MarksAreReported
<1>2. EventsInv /\ [EventsNext]_eventVars => EventsInv'
  <2> SUFFICES ASSUME EventsInv, [EventsNext]_eventVars
               PROVE  EventsInv'
    OBVIOUS
  <2>1. CASE \E mode \in Modes : BarrierOpens(mode) \/ VehiclePasses(mode) \/ VehicleMissing(mode)
    BY <2>1, DeviceReports
  <2>2. CASE \E h \in Handlers : \E e \in events : Receive(h, e)  BY <2>2, EventReceived
  <2>3. CASE \E h \in Handlers : WritePatch(h)  BY <2>3, PatchWritten
  <2>4. CASE \E h \in Handlers : BeginExit(h) \/ CompleteExit(h) \/ HandlerStops(h)
    BY <2>4, ExitSteps
  <2>5. CASE UNCHANGED eventVars
    BY <2>5 DEF eventVars, EventsInv, EventsTypeOK, HandledWasReported, MarksAgree,
         MarksAreReported
  <2>6. QED  BY <2>1, <2>2, <2>3, <2>4, <2>5 DEF EventsNext
<1>3. QED  BY <1>1, <1>2, PTL DEF EventsSpec

\* A ticket that counts as active bears no mark of fraud, and a vehicle that was seen to
\* pass had its barrier opened (buildRuntimeAccessTicketPatch).
THEOREM MarksAlwaysAgree == EventsSpec => []MarksAgree
BY EventsInvariant, PTL DEF EventsInv

\* A mark of fraud comes from a missed passage and a confirmation from a seen one
\* (buildRuntimeAccessTicketPatch).
THEOREM MarksFromReports == EventsSpec => []MarksAreReported
BY EventsInvariant, PTL DEF EventsInv

----------------------------------------------------------------------------
\* What a stay costs (ParkingRates).

LEMMA DivisionFacts ==
  ASSUME NEW n \in Nat, NEW size \in Nat, size > 0
  PROVE  /\ n \div size \in Nat
         /\ n % size \in 0 .. size - 1
         /\ n = size * (n \div size) + (n % size)
<1>1. n \div size \in Nat  OBVIOUS
<1>2. n % size \in 0 .. size - 1  OBVIOUS
<1>3. n = size * (n \div size) + (n % size)  OBVIOUS
<1>4. QED  BY <1>1, <1>2, <1>3

LEMMA ProductIsNat ==
  ASSUME NEW i \in Nat, NEW j \in Nat
  PROVE  i * j \in Nat /\ (i > 0 /\ j > 0 => i * j > 0)
OBVIOUS

LEMMA ProductGrows ==
  ASSUME NEW n \in Nat, NEW i \in Nat, NEW j \in Nat, i <= j
  PROVE  n * i <= n * j
OBVIOUS

LEMMA MinimalNat ==
  ASSUME NEW bad \in SUBSET Nat, bad # {}
  PROVE  \E n \in bad : \A k \in bad : n <= k
<1>1. PICK n \in bad : \A k \in bad : ~ (<<k, n>> \in OpToRel(<, Nat))
  BY NatLessThanWellFounded, WFMin
<1>2. \A k \in bad : ~ (k < n)
  BY <1>1 DEF OpToRel
<1>3. QED  BY <1>2

\* The fractions that start in some minutes: the least number of them that cover them.
LEMMA FractionsFacts ==
  ASSUME NEW minutes \in Nat, NEW size \in Nat, size > 0
  PROVE  /\ Fractions(minutes, size) \in Nat
         /\ \A i \in Nat : i < Fractions(minutes, size) <=> i * size < minutes
<1>. DEFINE top == minutes + size - 1
            count == top \div size
<1>1. /\ top \in Nat
      /\ count \in Nat
      /\ top % size \in 0 .. size - 1
      /\ top = size * count + (top % size)
  BY DivisionFacts
<1>2. Fractions(minutes, size) = count
  BY DEF Fractions, CeilDiv
<1>3. ASSUME NEW i \in Nat, i < count
      PROVE  i * size < minutes
  <2>1. size * (i + 1) <= size * count
    BY <1>1, <1>3, ProductGrows
  <2>2. size * (i + 1) = i * size + size /\ i * size \in Nat /\ size * count \in Nat
    BY <1>1, ProductIsNat
  <2>. HIDE DEF count
  <2>3. QED  BY <1>1, <2>1, <2>2
<1>4. ASSUME NEW i \in Nat, i >= count
      PROVE  i * size >= minutes
  <2>1. size * count <= size * i
    BY <1>1, <1>4, ProductGrows
  <2>2. size * i = i * size /\ i * size \in Nat /\ size * count \in Nat
    BY <1>1, ProductIsNat
  <2>. HIDE DEF count
  <2>3. QED  BY <1>1, <2>1, <2>2
<1>5. \A i \in Nat : i * size \in Nat
  BY ProductIsNat
<1>. HIDE DEF count
<1>6. QED  BY <1>1, <1>2, <1>3, <1>4, <1>5

LEMMA MultipleLeavesNothing ==
  ASSUME NEW i \in Nat, NEW size \in Nat, size > 0
  PROVE  (i * size) % size = 0
<1>. DEFINE n == i * size
            quotient == n \div size
            remainder == n % size
<1>1. n \in Nat /\ n = size * i
  BY ProductIsNat
<1>. HIDE DEF n
<1>2. quotient \in Nat /\ remainder \in 0 .. size - 1 /\ n = size * quotient + remainder
  BY <1>1, DivisionFacts
<1>. HIDE DEF quotient, remainder
<1>3. CASE quotient < i
  <2>1. size * (quotient + 1) <= size * i  BY <1>2, <1>3, ProductGrows
  <2>2. size * (quotient + 1) = size * quotient + size /\ size * quotient \in Nat /\ size * i \in Nat
    BY <1>2, ProductIsNat
  <2>3. QED  BY <1>1, <1>2, <2>1, <2>2
<1>4. CASE quotient > i
  <2>1. size * (i + 1) <= size * quotient  BY <1>2, <1>4, ProductGrows
  <2>2. size * (i + 1) = size * i + size /\ size * quotient \in Nat /\ size * i \in Nat
    BY <1>2, ProductIsNat
  <2>3. QED  BY <1>1, <1>2, <2>1, <2>2
<1>5. CASE quotient = i
  <2>1. size * i \in Nat  BY ProductIsNat
  <2>2. remainder = 0  BY <1>1, <1>2, <1>5, <2>1
  <2>3. QED  BY <2>2 DEF remainder, n
<1>6. QED  BY <1>2, <1>3, <1>4, <1>5

\* The blocks that start between two minutes are as many as the fractions that cover
\* them: the i-th starts (i - 1) * size minutes after the first.
LEMMA StartedBlocksAre ==
  ASSUME NEW from \in Nat, NEW to \in Nat, from <= to, NEW size \in Nat, size > 0
  PROVE  StartedBlocks(from, to, size) = Fractions(to - from, size)
<1>. DEFINE starts == {m \in from .. to - 1 : (m - from) % size = 0}
            count == Fractions(to - from, size)
            start == [i \in 1 .. count |-> from + (i - 1) * size]
<1>1. to - from \in Nat
  OBVIOUS
<1>2. /\ count \in Nat
      /\ \A i \in Nat : i < count <=> i * size < to - from
  BY <1>1, FractionsFacts
<1>. HIDE DEF count
<1>3. ASSUME NEW i \in 1 .. count
      PROVE  start[i] \in starts
  <2>1. i - 1 \in Nat /\ i - 1 < count  BY <1>2
  <2>2. (i - 1) * size \in Nat /\ (i - 1) * size < to - from
    BY <1>2, <2>1, ProductIsNat
  <2>3. from + (i - 1) * size \in from .. to - 1
    BY <2>2
  <2>4. ((i - 1) * size) % size = 0
    BY <2>1, MultipleLeavesNothing
  <2>5. (from + (i - 1) * size) - from = (i - 1) * size
    BY <2>2
  <2>6. from + (i - 1) * size \in starts
    BY <2>3, <2>4, <2>5
  <2>7. QED  BY <2>6
<1>4. start \in Injection(1 .. count, starts)
  <2>1. start \in [1 .. count -> starts]
    BY <1>3
  <2>2. ASSUME NEW i \in 1 .. count, NEW j \in 1 .. count, i < j
        PROVE  start[i] < start[j]
    <3>1. i - 1 \in Nat /\ j - 1 \in Nat /\ j - i \in Nat /\ j - i > 0
      BY <1>2, <2>2
    <3>2. (j - 1) * size = (i - 1) * size + (j - i) * size
      BY <1>2
    <3>3. (j - i) * size > 0 /\ (i - 1) * size \in Nat /\ (j - i) * size \in Nat
      BY <3>1, ProductIsNat
    <3>4. QED  BY <3>2, <3>3
  <2>3. ASSUME NEW i \in 1 .. count, NEW j \in 1 .. count, start[i] = start[j]
        PROVE  i = j
    <3>1. start[i] \in Nat /\ start[j] \in Nat
      BY <1>3
    <3>. HIDE DEF start
    <3>2. ~ (i < j) /\ ~ (j < i)  BY <2>2, <2>3, <3>1
    <3>3. QED  BY <1>2, <3>2
  <2>. HIDE DEF start, starts
  <2>4. QED  BY <2>1, <2>3 DEF Injection, IsInjective
<1>5. start \in Surjection(1 .. count, starts)
  <2>1. start \in [1 .. count -> starts]
    BY <1>3
  <2>2. ASSUME NEW m \in starts
        PROVE  \E i \in 1 .. count : start[i] = m
    <3>1. m - from \in Nat /\ m - from < to - from /\ (m - from) % size = 0
      OBVIOUS
    <3>2. PICK i \in Nat : m - from = size * i
      <4>1. /\ (m - from) \div size \in Nat
            /\ m - from = size * ((m - from) \div size) + ((m - from) % size)
        BY <3>1, DivisionFacts
      <4>2. size * ((m - from) \div size) \in Nat
        BY <4>1, ProductIsNat
      <4>3. QED  BY <3>1, <4>1, <4>2
    <3>3. i * size = m - from
      BY <3>2
    <3>4. i + 1 \in 1 .. count
      BY <1>2, <3>1, <3>3
    <3>5. start[i + 1] = from + i * size
      BY <3>4
    <3>6. QED  BY <3>1, <3>3, <3>4, <3>5
  <2>. HIDE DEF start, starts
  <2>3. QED  BY <2>1, <2>2 DEF Surjection
<1>6. ExistsBijection(1 .. count, starts)
  BY <1>4, <1>5 DEF Bijection, ExistsBijection
<1>7. Cardinality(starts) = count
  <2>. HIDE DEF starts
  <2>1. QED  BY <1>2, <1>6, FS_CountingElements
<1>8. QED  BY <1>7 DEF StartedBlocks, count

ValidRules == {r \in ParkingRateRules : IsValid(r)}

LEMMA RuleFields ==
  ASSUME NEW r \in ValidRules
  PROVE  /\ r.toleranceMinutes \in Nat
         /\ r.firstBlockMinutes \in Nat /\ r.firstBlockMinutes > 0
         /\ r.firstBlockMinutes <= DayMinutes
         /\ r.toleranceMinutes < r.firstBlockMinutes
         /\ r.firstBlockPrice \in Nat /\ r.firstBlockPrice > 0
         /\ r.fractionMinutes \in Nat /\ r.fractionMinutes > 0
         /\ r.fractionPrice \in Nat
         /\ r.dailyMax # None => r.dailyMax \in Nat /\ r.dailyMax >= r.firstBlockPrice
BY RatesAssumption DEF ValidRules, IsValid, ParkingRateRules, Minutes, Price

LEMMA AtMostFacts ==
  ASSUME NEW amount \in Nat, NEW cap \in Nat
  PROVE  /\ AtMost(amount, cap) \in Nat /\ AtMost(amount, cap) <= cap
         /\ amount > 0 /\ cap > 0 => AtMost(amount, cap) > 0
BY DEF AtMost

LEMMA FractionsCost ==
  ASSUME NEW r \in ValidRules, NEW minutes \in Nat
  PROVE  Fractions(minutes, r.fractionMinutes) * r.fractionPrice \in Nat
<1>1. Fractions(minutes, r.fractionMinutes) \in Nat
  BY RuleFields, FractionsFacts
<1>2. QED  BY <1>1, RuleFields, ProductIsNat

LEMMA FirstDayFacts ==
  ASSUME NEW r \in ValidRules, NEW minutes \in Nat
  PROVE  FirstDay(r, minutes) \in Nat /\ FirstDay(r, minutes) > 0
<1>. DEFINE more == minutes - r.firstBlockMinutes
            extra == Fractions(more, r.fractionMinutes) * r.fractionPrice
<1>1. r.firstBlockPrice \in Nat /\ r.firstBlockPrice > 0 /\ r.firstBlockMinutes \in Nat
  BY RuleFields
<1>2. CASE minutes > r.firstBlockMinutes
  <2>1. more \in Nat  BY <1>1, <1>2
  <2>2. extra \in Nat
    <3>. HIDE DEF more
    <3>1. QED  BY <2>1, FractionsCost
  <2>3. FirstDay(r, minutes) = r.firstBlockPrice + extra
    BY <1>2 DEF FirstDay
  <2>. HIDE DEF extra
  <2>4. QED  BY <1>1, <2>2, <2>3
<1>3. CASE ~(minutes > r.firstBlockMinutes)
  <2>1. FirstDay(r, minutes) = r.firstBlockPrice + 0
    BY <1>3 DEF FirstDay
  <2>2. QED  BY <1>1, <2>1
<1>4. QED  BY <1>2, <1>3

LEMMA FullDayFacts ==
  ASSUME NEW r \in ValidRules, r.dailyMax # None
  PROVE  FullDay(r) \in Nat /\ FullDay(r) > 0 /\ FullDay(r) <= r.dailyMax
<1>. DEFINE extra == Fractions(DayMinutes - r.firstBlockMinutes, r.fractionMinutes) * r.fractionPrice
<1>1. DayMinutes - r.firstBlockMinutes \in Nat
  BY RuleFields, RatesAssumption
<1>2. extra \in Nat
  BY <1>1, FractionsCost
<1>3. FullDay(r) = AtMost(r.firstBlockPrice + extra, r.dailyMax)
  BY DEF FullDay
<1>. HIDE DEF extra
<1>4. r.firstBlockPrice + extra \in Nat /\ r.firstBlockPrice + extra > 0
  BY <1>2, RuleFields
<1>5. r.dailyMax \in Nat /\ r.dailyMax > 0
  BY RuleFields
<1>6. QED  BY <1>3, <1>4, <1>5, AtMostFacts

\* A stay is free within the tolerance and only there, and no day costs more than the cap.
LEMMA FeeFacts ==
  ASSUME NEW r \in ValidRules, NEW minutes \in Nat, NEW fee, fee = CalculateParkingFee(r, minutes)
  PROVE  /\ fee \in Nat
         /\ fee = 0 <=> minutes <= r.toleranceMinutes
         /\ r.dailyMax # None => fee <= (minutes \div DayMinutes + 1) * r.dailyMax
<1>. DEFINE days == minutes \div DayMinutes
            rest == minutes % DayMinutes
            first == AtMost(FirstDay(r, rest), r.dailyMax)
            last == AtMost(Fractions(rest, r.fractionMinutes) * r.fractionPrice, r.dailyMax)
<1>1. days \in Nat /\ rest \in Nat
  BY DivisionFacts, RatesAssumption
<1>2. r.toleranceMinutes \in Nat
  BY RuleFields
<1>. HIDE DEF days, rest
<1>3. CASE minutes <= r.toleranceMinutes
  <2>1. fee = 0  BY <1>3 DEF CalculateParkingFee
  <2>2. r.dailyMax # None => (days + 1) * r.dailyMax \in Nat
    BY <1>1, RuleFields, ProductIsNat
  <2>3. QED  BY <1>3, <2>1, <2>2 DEF days
<1>4. CASE ~(minutes <= r.toleranceMinutes) /\ r.dailyMax = None
  <2>1. fee = FirstDay(r, minutes)  BY <1>4 DEF CalculateParkingFee
  <2>2. QED  BY <1>4, <2>1, FirstDayFacts
<1>5. CASE ~(minutes <= r.toleranceMinutes) /\ r.dailyMax # None
  <2>1. r.dailyMax \in Nat /\ r.dailyMax > 0
    BY <1>5, RuleFields
  <2>2. CASE days = 0
    <3>1. fee = first
      BY <1>5, <2>2 DEF CalculateParkingFee, days, rest
    <3>2. first \in Nat /\ first > 0 /\ first <= r.dailyMax
      BY <1>1, <2>1, FirstDayFacts, AtMostFacts
    <3>3. (days + 1) * r.dailyMax = r.dailyMax
      BY <2>1, <2>2
    <3>. HIDE DEF first
    <3>4. QED  BY <1>5, <3>1, <3>2, <3>3 DEF days
  <2>3. CASE days # 0
    <3>1. fee = days * FullDay(r) + last
      BY <1>5, <2>3 DEF CalculateParkingFee, days, rest
    <3>2. last \in Nat /\ last <= r.dailyMax
      BY <1>1, <2>1, FractionsCost, AtMostFacts
    <3>. HIDE DEF last
    <3>3. days * FullDay(r) \in Nat /\ days * FullDay(r) > 0 /\ days * FullDay(r) <= days * r.dailyMax
      BY <1>1, <1>5, <2>1, <2>3, FullDayFacts, ProductIsNat, ProductGrows
    <3>4. (days + 1) * r.dailyMax = days * r.dailyMax + r.dailyMax /\ days * r.dailyMax \in Nat
      BY <1>1, <2>1, ProductIsNat
    <3>5. fee \in Nat /\ fee > 0 /\ fee <= (days + 1) * r.dailyMax
      BY <2>1, <3>1, <3>2, <3>3, <3>4
    <3>6. QED  BY <1>5, <3>5 DEF days
  <2>4. QED  BY <2>2, <2>3
<1>6. QED  BY <1>3, <1>4, <1>5

\* What a stay of several days adds up to: all its days but the last cost the same.
LEMMA TotalOfDays ==
  ASSUME NEW n \in Nat, NEW day \in Nat, NEW last \in Nat, NEW charged,
         charged = [d \in 0 .. n |-> IF d < n THEN day ELSE last]
  PROVE  TotalOf(charged) = n * day + last
<1>. DEFINE Sum(f) == [d \in DOMAIN charged |-> IF d = 0 THEN charged[0] ELSE charged[d] + f[d - 1]]
            sum == [d \in 0 .. n |-> IF d < n THEN (d + 1) * day ELSE n * day + last]
            total == CHOOSE f : f = Sum(f)
<1>1. DOMAIN charged = 0 .. n /\ n \in 0 .. n /\ 0 \in 0 .. n
  OBVIOUS
<1>2. n * day \in Nat /\ \A d \in 0 .. n : (d + 1) * day \in Nat
  BY ProductIsNat
<1>3. ASSUME NEW d \in 0 .. n
      PROVE  sum[d] = IF d = 0 THEN charged[0] ELSE charged[d] + sum[d - 1]
  <2>1. CASE d = 0
    <3>1. CASE n = 0
      <4>1. charged[0] = last /\ sum[0] = 0 * day + last /\ 0 * day = 0
        BY <3>1
      <4>2. QED  BY <2>1, <4>1
    <3>2. CASE n # 0
      <4>1. charged[0] = day /\ sum[0] = (0 + 1) * day /\ (0 + 1) * day = day
        BY <3>2
      <4>2. QED  BY <2>1, <4>1
    <3>3. QED  BY <3>1, <3>2
  <2>2. CASE d # 0
    <3>1. d - 1 \in 0 .. n /\ d - 1 < n /\ (d - 1) + 1 = d
      BY <2>2
    <3>2. sum[d - 1] = d * day
      BY <3>1
    <3>3. CASE d < n
      <4>1. sum[d] = (d + 1) * day /\ charged[d] = day
        BY <3>3
      <4>2. (d + 1) * day = day + d * day
        OBVIOUS
      <4>. HIDE DEF sum
      <4>3. QED  BY <2>2, <3>2, <4>1, <4>2
    <3>4. CASE d = n
      <4>1. sum[d] = n * day + last /\ charged[d] = last
        BY <3>4
      <4>. HIDE DEF sum
      <4>2. QED  BY <1>2, <2>2, <3>2, <3>4, <4>1
    <3>5. QED  BY <3>3, <3>4
  <2>3. QED  BY <2>1, <2>2
<1>4. sum = Sum(sum)
  <2>1. sum = [d \in 0 .. n |-> sum[d]]
    OBVIOUS
  <2>. HIDE DEF sum
  <2>2. QED  BY <1>1, <1>3, <2>1
<1>5. total = Sum(total)
  <2>. HIDE DEF sum, Sum
  <2>1. QED  BY <1>4
<1>. HIDE DEF total
<1>6. \A d \in 0 .. n : total[d] = sum[d]
  <2>. DEFINE bad == {d \in 0 .. n : total[d] # sum[d]}
  <2>1. SUFFICES ASSUME bad # {} PROVE FALSE
    OBVIOUS
  <2>2. PICK d \in bad : \A k \in bad : d <= k
    <3>1. bad \in SUBSET Nat  OBVIOUS
    <3>. HIDE DEF bad
    <3>2. QED  BY <2>1, <3>1, MinimalNat
  <2>3. total[d] = IF d = 0 THEN charged[0] ELSE charged[d] + total[d - 1]
    BY <1>1, <1>5
  <2>4. d # 0 => total[d - 1] = sum[d - 1]
    <3>1. d # 0 => d - 1 \in 0 .. n /\ d - 1 < d  OBVIOUS
    <3>. HIDE DEF sum
    <3>2. QED  BY <2>2, <3>1
  <2>. HIDE DEF sum
  <2>5. QED  BY <1>3, <2>3, <2>4
<1>7. Cardinality(DOMAIN charged) - 1 = n
  BY <1>1, FS_Interval
<1>8. TotalOf(charged) = total[Cardinality(DOMAIN charged) - 1]
  BY DEF TotalOf, total
<1>9. sum[n] = n * day + last
  OBVIOUS
<1>. HIDE DEF sum
<1>10. QED  BY <1>1, <1>6, <1>7, <1>8, <1>9

LEMMA FirstBlockIs ==
  ASSUME NEW r \in ValidRules, NEW minutes \in Nat
  PROVE  FirstBlockAndFractions(r, minutes) = FirstDay(r, minutes)
<1>. DEFINE more == minutes - r.firstBlockMinutes
            blocks == StartedBlocks(r.firstBlockMinutes, minutes, r.fractionMinutes)
<1>1. /\ r.firstBlockMinutes \in Nat /\ r.firstBlockPrice \in Nat
      /\ r.fractionMinutes \in Nat /\ r.fractionMinutes > 0 /\ r.fractionPrice \in Nat
  BY RuleFields
<1>2. CASE minutes > r.firstBlockMinutes
  <2>1. blocks = Fractions(more, r.fractionMinutes)
    BY <1>1, <1>2, StartedBlocksAre
  <2>2. Fractions(more, r.fractionMinutes) \in Nat
    <3>1. more \in Nat  BY <1>1, <1>2
    <3>. HIDE DEF more
    <3>2. QED  BY <1>1, <3>1, FractionsFacts
  <2>3. FirstDay(r, minutes) = r.firstBlockPrice + Fractions(more, r.fractionMinutes) * r.fractionPrice
    BY <1>2 DEF FirstDay
  <2>4. FirstBlockAndFractions(r, minutes) = r.firstBlockPrice + r.fractionPrice * blocks
    BY DEF FirstBlockAndFractions
  <2>5. r.fractionPrice * blocks = Fractions(more, r.fractionMinutes) * r.fractionPrice
    <3>. HIDE DEF more, blocks
    <3>1. QED  BY <1>1, <2>1, <2>2
  <2>6. QED  BY <2>3, <2>4, <2>5
<1>3. CASE ~(minutes > r.firstBlockMinutes)
  <2>1. r.firstBlockMinutes .. minutes - 1 = {}
    BY <1>1, <1>3
  <2>2. blocks = 0
    BY <2>1, FS_EmptySet DEF StartedBlocks
  <2>3. r.fractionPrice * blocks = 0
    <3>. HIDE DEF blocks
    <3>1. QED  BY <1>1, <2>2
  <2>4. QED  BY <1>1, <1>3, <2>3 DEF FirstBlockAndFractions, FirstDay
<1>4. QED  BY <1>2, <1>3

\* Each full day of a stay is charged the same; the last is the first one, or fractions.
LEMMA ChargedDaysAre ==
  ASSUME NEW r \in ValidRules, r.dailyMax # None, NEW minutes \in Nat,
         NEW days, days = minutes \div DayMinutes,
         NEW rest, rest = minutes % DayMinutes,
         NEW last, last = IF days = 0 THEN AtMost(FirstDay(r, minutes), r.dailyMax)
                          ELSE AtMost(Fractions(rest, r.fractionMinutes) * r.fractionPrice, r.dailyMax)
  PROVE  ChargedDays(r, minutes) = [d \in 0 .. days |-> IF d < days THEN FullDay(r) ELSE last]
<1>. DEFINE Cost(d) ==
              LET from == d * DayMinutes
              IN  IF minutes >= from + DayMinutes THEN FirstBlockAndFractions(r, DayMinutes)
                  ELSE IF d = 0 THEN FirstBlockAndFractions(r, minutes)
                  ELSE r.fractionPrice * StartedBlocks(from, minutes, r.fractionMinutes)
            day == [d \in 0 .. days |-> IF d < days THEN FullDay(r) ELSE last]
<1>1. /\ DayMinutes \in Nat /\ DayMinutes > 0
      /\ days \in Nat /\ rest \in 0 .. DayMinutes - 1
      /\ minutes = DayMinutes * days + rest
  BY RatesAssumption, DivisionFacts
<1>2. ChargedDays(r, minutes) = [d \in 0 .. days |-> AtMost(Cost(d), r.dailyMax)]
  BY DEF ChargedDays, AtMost
<1>3. ASSUME NEW d \in 0 .. days, d < days
      PROVE  AtMost(Cost(d), r.dailyMax) = FullDay(r)
  <2>1. DayMinutes * (d + 1) <= DayMinutes * days
    BY <1>1, <1>3, ProductGrows
  <2>2. /\ DayMinutes * (d + 1) = d * DayMinutes + DayMinutes
        /\ d * DayMinutes \in Nat /\ DayMinutes * days \in Nat
    BY <1>1, ProductIsNat
  <2>3. minutes >= d * DayMinutes + DayMinutes
    BY <1>1, <2>1, <2>2
  <2>4. Cost(d) = FirstDay(r, DayMinutes)
    BY <1>1, <2>3, FirstBlockIs
  <2>5. AtMost(FirstDay(r, DayMinutes), r.dailyMax) = FullDay(r)
    <3>1. CASE DayMinutes > r.firstBlockMinutes
      BY <3>1 DEF FirstDay, FullDay
    <3>2. CASE ~(DayMinutes > r.firstBlockMinutes)
      <4>1. DayMinutes - r.firstBlockMinutes = 0
        BY <1>1, <3>2, RuleFields
      <4>2. Fractions(0, r.fractionMinutes) = 0
        BY RuleFields, FractionsFacts
      <4>3. 0 * r.fractionPrice = 0
        BY RuleFields
      <4>4. QED  BY <3>2, <4>1, <4>2, <4>3 DEF FirstDay, FullDay
    <3>3. QED  BY <3>1, <3>2
  <2>. HIDE DEF Cost
  <2>6. QED  BY <2>4, <2>5
<1>4. AtMost(Cost(days), r.dailyMax) = last
  <2>1. DayMinutes * days = days * DayMinutes /\ days * DayMinutes \in Nat
    BY <1>1, ProductIsNat
  <2>2. ~(minutes >= days * DayMinutes + DayMinutes)
    BY <1>1, <2>1
  <2>3. CASE days = 0
    <3>1. Cost(days) = FirstBlockAndFractions(r, minutes)
      BY <2>2, <2>3
    <3>. HIDE DEF Cost
    <3>2. QED  BY <2>3, <3>1, FirstBlockIs
  <2>4. CASE days # 0
    <3>1. minutes - days * DayMinutes = rest /\ days * DayMinutes <= minutes
      BY <1>1, <2>1
    <3>2. StartedBlocks(days * DayMinutes, minutes, r.fractionMinutes) = Fractions(rest, r.fractionMinutes)
      BY <2>1, <3>1, RuleFields, StartedBlocksAre
    <3>3. Cost(days) = r.fractionPrice * Fractions(rest, r.fractionMinutes)
      BY <2>2, <2>4, <3>2
    <3>4. Fractions(rest, r.fractionMinutes) \in Nat /\ r.fractionPrice \in Nat
      BY <1>1, RuleFields, FractionsFacts
    <3>5. r.fractionPrice * Fractions(rest, r.fractionMinutes)
            = Fractions(rest, r.fractionMinutes) * r.fractionPrice
      BY <3>4
    <3>. HIDE DEF Cost
    <3>6. QED  BY <2>4, <3>3, <3>5
  <2>5. QED  BY <2>3, <2>4
<1>. HIDE DEF Cost
<1>5. \A d \in 0 .. days : AtMost(Cost(d), r.dailyMax) = IF d < days THEN FullDay(r) ELSE last
  <2>1. TAKE d \in 0 .. days
  <2>2. CASE d < days  BY <1>3, <2>2
  <2>3. CASE ~(d < days)
    <3>1. d = days  BY <1>1, <2>3
    <3>2. QED  BY <1>4, <2>3, <3>1
  <2>4. QED  BY <2>2, <2>3
<1>6. QED  BY <1>2, <1>5

\* calculateParkingFee charges what its description says.
LEMMA FeeIsDocumented ==
  ASSUME NEW r \in ValidRules, NEW minutes \in Nat
  PROVE  CalculateParkingFee(r, minutes) = Documented(r, minutes)
<1>1. CASE minutes <= r.toleranceMinutes
  BY <1>1 DEF CalculateParkingFee, Documented
<1>2. CASE ~(minutes <= r.toleranceMinutes) /\ r.dailyMax = None
  BY <1>2, FirstBlockIs DEF CalculateParkingFee, Documented
<1>3. CASE ~(minutes <= r.toleranceMinutes) /\ r.dailyMax # None
  <2>. DEFINE days == minutes \div DayMinutes
              rest == minutes % DayMinutes
              last == IF days = 0 THEN AtMost(FirstDay(r, minutes), r.dailyMax)
                      ELSE AtMost(Fractions(rest, r.fractionMinutes) * r.fractionPrice, r.dailyMax)
  <2>1. /\ DayMinutes \in Nat /\ DayMinutes > 0
        /\ days \in Nat /\ rest \in Nat /\ rest < DayMinutes
        /\ minutes = DayMinutes * days + rest
    BY RatesAssumption, DivisionFacts
  <2>2. r.dailyMax \in Nat /\ FullDay(r) \in Nat
    BY <1>3, RuleFields, FullDayFacts
  <2>3. ChargedDays(r, minutes) = [d \in 0 .. days |-> IF d < days THEN FullDay(r) ELSE last]
    BY <1>3, ChargedDaysAre
  <2>4. last \in Nat
    <3>. HIDE DEF days, rest
    <3>1. CASE days = 0  BY <2>2, <3>1, FirstDayFacts, AtMostFacts
    <3>2. CASE days # 0  BY <2>1, <2>2, <3>2, FractionsCost, AtMostFacts
    <3>3. QED  BY <3>1, <3>2
  <2>5. TotalOf(ChargedDays(r, minutes)) = days * FullDay(r) + last
    <3>. HIDE DEF days, last
    <3>1. QED  BY <2>1, <2>2, <2>3, <2>4, TotalOfDays
  <2>6. CalculateParkingFee(r, minutes) = days * FullDay(r) + last
    <3>1. CASE days = 0
      <4>1. rest = minutes /\ 0 * FullDay(r) = 0
        <5>. HIDE DEF days, rest
        <5>1. QED  BY <2>1, <2>2, <3>1
      <4>2. CalculateParkingFee(r, minutes) = last
        BY <1>3, <3>1, <4>1 DEF CalculateParkingFee
      <4>. HIDE DEF last, days
      <4>3. QED  BY <2>4, <3>1, <4>1, <4>2
    <3>2. CASE days # 0
      BY <1>3, <3>2 DEF CalculateParkingFee
    <3>3. QED  BY <3>1, <3>2
  <2>7. Documented(r, minutes) = TotalOf(ChargedDays(r, minutes))
    BY <1>3 DEF Documented
  <2>8. QED  BY <2>5, <2>6, <2>7
<1>4. QED  BY <1>1, <1>2, <1>3

\* Only rules that are valid are on their way to be saved.
ValidAreSaved ==
  \A s \in Savers : saves[s].pc \in {"start", "create"} => saves[s].rules \in ValidRules

\* Who holds the project is about to add the next version, and nobody else is.
NextVersionHeld ==
  \A s \in Savers :
    saves[s].pc = "create" => lock = s /\ saves[s].version = Len(rates) + 1

\* A quote is the fee of the version it names; versions stay as they are.
QuotedByVersion ==
  \A q \in Quotes : Done(q) =>
    /\ quotes[q].tarifaVersion \in 1 .. Len(rates)
    /\ quotes[q].monto = CalculateParkingFee(RulesOf(q), quotes[q].duracion)

RatesInv ==
  /\ RatesTypeOK
  /\ ValidAreSaved
  /\ NextVersionHeld
  /\ QuotedByVersion
  /\ EverySaveIsStored

LEMMA QuoteFields ==
  ASSUME NEW quote \in Quote
  PROVE  /\ quote.pc \in {"rate", "done"} => quote.duracion \in Nat
         /\ quote.pc = "done" => quote.monto \in Nat /\ quote.tarifaVersion \in Nat
BY DEF Quote

\* Nothing about the saves changes.
SavesKept == saves' = saves /\ lock' = lock /\ rates' = rates /\ refused' = refused

QuotesKept == quotes' = quotes /\ stay' = stay

LEMMA SavesStand ==
  ASSUME RatesInv, SavesKept, stay' \in Nat, quotes' \in [Quotes -> Quote]
  PROVE  RatesTypeOK' /\ ValidAreSaved' /\ NextVersionHeld' /\ EverySaveIsStored'
BY DEF RatesInv, SavesKept, RatesTypeOK, ValidAreSaved, NextVersionHeld, EverySaveIsStored

LEMMA QuotesStand ==
  ASSUME QuotedByVersion, rates' = rates, quotes' = quotes
  PROVE  QuotedByVersion'
BY DEF QuotedByVersion, Done, RulesOf

LEMMA MinuteKeeps ==
  ASSUME RatesInv, MinutePasses
  PROVE  RatesInv'
<1>1. SavesKept /\ stay' \in Nat /\ quotes' \in [Quotes -> Quote]
  BY DEF RatesInv, RatesTypeOK, MinutePasses, SavesKept
<1>2. QED  BY <1>1, SavesStand, QuotesStand DEF RatesInv, MinutePasses

LEMMA SaveRateKeeps ==
  ASSUME RatesInv, NEW s \in Savers, NEW r, SaveRate(s, r)
  PROVE  RatesInv'
<1>. DEFINE save == [pc |-> "start", rules |-> r]
<1>1. r \in ValidRules /\ r \in ParkingRateRules
  BY DEF SaveRate, IsValid, ValidRules
<1>2. save \in Save /\ save.pc = "start" /\ save.rules = r
  BY <1>1 DEF Save
<1>3. saves' = [saves EXCEPT ![s] = save] /\ UNCHANGED <<rates, lock, stay, quotes, refused>>
  BY DEF SaveRate
<1>. HIDE DEF save
<1>4. RatesTypeOK'
  BY <1>2, <1>3 DEF RatesInv, RatesTypeOK
<1>5. ValidAreSaved' /\ NextVersionHeld'
  BY <1>1, <1>2, <1>3 DEF RatesInv, RatesTypeOK, ValidAreSaved, NextVersionHeld
<1>6. QED  BY <1>3, <1>4, <1>5, QuotesStand DEF RatesInv, EverySaveIsStored

LEMMA LatestVersionKeeps ==
  ASSUME RatesInv, NEW s \in Savers, LatestVersion(s)
  PROVE  RatesInv'
<1>. DEFINE save == [pc |-> "create", rules |-> saves[s].rules, version |-> Len(rates) + 1]
<1>1. saves[s].rules \in ValidRules /\ saves[s].rules \in ParkingRateRules
  BY DEF LatestVersion, RatesInv, ValidAreSaved, ValidRules
<1>2. Len(rates) \in Nat
  BY DEF RatesInv, RatesTypeOK
<1>3. save \in Save /\ save.pc = "create" /\ save.rules = saves[s].rules /\ save.version = Len(rates) + 1
  BY <1>1, <1>2 DEF Save
<1>4. /\ lock = None /\ lock' = s
      /\ saves' = [saves EXCEPT ![s] = save] /\ UNCHANGED <<rates, stay, quotes, refused>>
  BY DEF LatestVersion, ProjectFree, RowFree
<1>. HIDE DEF save
<1>5. RatesTypeOK'
  BY <1>3, <1>4 DEF RatesInv, RatesTypeOK
<1>6. ValidAreSaved'
  BY <1>1, <1>3, <1>4 DEF RatesInv, RatesTypeOK, ValidAreSaved
<1>7. NextVersionHeld'
  <2>1. \A t \in Savers : saves[t].pc # "create"
    BY <1>4, RatesAssumption DEF RatesInv, NextVersionHeld
  <2>2. QED  BY <1>3, <1>4, <2>1 DEF RatesInv, RatesTypeOK, NextVersionHeld
<1>8. QED  BY <1>4, <1>5, <1>6, <1>7, QuotesStand DEF RatesInv, EverySaveIsStored

LEMMA CreateVersionKeeps ==
  ASSUME RatesInv, NEW s \in Savers, CreateVersion(s)
  PROVE  RatesInv'
<1>. DEFINE rules == saves[s].rules
<1>1. /\ saves[s].pc = "create" /\ lock = s
      /\ saves[s].version = Len(rates) + 1
      /\ rules \in ValidRules
  BY DEF CreateVersion, RatesInv, NextVersionHeld, ValidAreSaved
<1>2. rates \in Seq(ValidRules) /\ Len(rates) \in Nat
  BY DEF RatesInv, RatesTypeOK, ValidRules
<1>3. /\ rates' = Append(rates, rules) /\ refused' = refused
      /\ lock' = None /\ saves' = [saves EXCEPT ![s] = Idle]
      /\ quotes' = quotes /\ stay' = stay
  BY <1>1, <1>2 DEF CreateVersion, Added
<1>. HIDE DEF rules
<1>4. /\ rates' \in Seq(ValidRules)
      /\ Len(rates') = Len(rates) + 1
      /\ \A i \in 1 .. Len(rates) : rates'[i] = rates[i]
  BY <1>1, <1>2, <1>3
<1>5. Idle \in Save /\ Idle.pc = "idle"
  BY DEF Idle, Save
<1>6. RatesTypeOK'
  BY <1>3, <1>4, <1>5 DEF RatesInv, RatesTypeOK, ValidRules
<1>7. ValidAreSaved'
  BY <1>3, <1>5 DEF RatesInv, RatesTypeOK, ValidAreSaved
<1>8. NextVersionHeld'
  <2>1. \A t \in Savers : t # s => saves[t].pc # "create"
    BY <1>1 DEF RatesInv, NextVersionHeld
  <2>2. QED  BY <1>3, <1>5, <2>1 DEF RatesInv, RatesTypeOK, NextVersionHeld
<1>9. QuotedByVersion'
  BY <1>2, <1>3, <1>4 DEF RatesInv, QuotedByVersion, Done, RulesOf
<1>10. QED  BY <1>3, <1>6, <1>7, <1>8, <1>9 DEF RatesInv, EverySaveIsStored

LEMMA QuoteMinutesKeeps ==
  ASSUME RatesInv, NEW q \in Quotes, QuoteMinutes(q)
  PROVE  RatesInv'
<1>. DEFINE quote == [pc |-> "rate", duracion |-> stay]
<1>1. quote \in Quote /\ quote.pc = "rate"
  BY DEF RatesInv, RatesTypeOK, Quote
<1>2. quotes' = [quotes EXCEPT ![q] = quote] /\ SavesKept /\ stay' = stay
  BY DEF QuoteMinutes, SavesKept
<1>. HIDE DEF quote
<1>3. quotes' \in [Quotes -> Quote] /\ stay' \in Nat
  BY <1>1, <1>2 DEF RatesInv, RatesTypeOK
<1>4. QuotedByVersion'
  BY <1>1, <1>2 DEF RatesInv, RatesTypeOK, QuotedByVersion, Done, RulesOf, SavesKept
<1>5. QED  BY <1>2, <1>3, <1>4, SavesStand DEF RatesInv

LEMMA QuoteRateKeeps ==
  ASSUME RatesInv, NEW q \in Quotes, QuoteRate(q)
  PROVE  RatesInv'
<1>. DEFINE duracion == quotes[q].duracion
            current == Len(rates)
            monto == IF current = 0 THEN LegacyParkingFee(duracion)
                     ELSE CalculateParkingFee(rates[current], duracion)
            quote == [pc |-> "done", duracion |-> duracion, tarifaVersion |-> current, monto |-> monto]
<1>1. duracion \in Nat
  BY QuoteFields DEF RatesInv, RatesTypeOK, QuoteRate
<1>2. rates \in Seq(ValidRules) /\ current \in Nat
  BY DEF RatesInv, RatesTypeOK, ValidRules
<1>3. quotes' = [quotes EXCEPT ![q] = quote] /\ SavesKept /\ stay' = stay
  BY DEF QuoteRate, SavesKept
<1>. HIDE DEF duracion
<1>4. monto \in Nat
  <2>1. CASE current = 0
    BY <1>1, <2>1, RatesAssumption DEF LegacyParkingFee
  <2>2. CASE current # 0
    <3>1. rates[current] \in ValidRules
      BY <1>2, <2>2
    <3>2. QED  BY <1>1, <2>2, <3>1, FeeFacts
  <2>3. QED  BY <2>1, <2>2
<1>5. current # 0 => monto = CalculateParkingFee(rates[current], duracion)
  OBVIOUS
<1>. HIDE DEF monto
<1>6. /\ quote \in Quote /\ quote.pc = "done"
      /\ quote.duracion = duracion /\ quote.tarifaVersion = current /\ quote.monto = monto
  BY <1>1, <1>2, <1>4 DEF Quote
<1>. HIDE DEF quote
<1>7. quotes' \in [Quotes -> Quote] /\ stay' \in Nat
  BY <1>3, <1>6 DEF RatesInv, RatesTypeOK
<1>8. QuotedByVersion'
  <2>1. SUFFICES ASSUME NEW p \in Quotes, Done(p)'
                 PROVE  /\ quotes'[p].tarifaVersion \in 1 .. Len(rates)
                        /\ quotes'[p].monto = CalculateParkingFee(rates[quotes'[p].tarifaVersion], quotes'[p].duracion)
    BY <1>3 DEF QuotedByVersion, RulesOf, SavesKept
  <2>2. quotes'[p].pc = "done" /\ quotes'[p].tarifaVersion # 0
    BY <2>1 DEF Done
  <2>3. CASE p = q
    <3>1. quotes'[p] = quote
      BY <1>3, <2>3 DEF RatesInv, RatesTypeOK
    <3>2. QED  BY <1>2, <1>5, <1>6, <2>2, <3>1
  <2>4. CASE p # q
    <3>1. quotes'[p] = quotes[p]
      BY <1>3, <2>4 DEF RatesInv, RatesTypeOK
    <3>2. QED  BY <2>2, <3>1 DEF RatesInv, QuotedByVersion, Done, RulesOf
  <2>5. QED  BY <2>3, <2>4
<1>9. QED  BY <1>3, <1>7, <1>8, SavesStand DEF RatesInv

LEMMA RatesInvStarts ==
  ASSUME RatesInit
  PROVE  RatesInv
<1>1. Idle \in Save /\ Idle \in Quote /\ Idle.pc = "idle"
  BY DEF Idle, Save, Quote
<1>2. rates \in Seq({r \in ParkingRateRules : IsValid(r)})
  BY DEF RatesInit
<1>3. RatesTypeOK
  BY <1>1, <1>2 DEF RatesInit, RatesTypeOK
<1>4. ValidAreSaved /\ NextVersionHeld
  BY <1>1 DEF RatesInit, ValidAreSaved, NextVersionHeld
<1>5. QED  BY <1>1, <1>3, <1>4 DEF RatesInit, RatesInv, QuotedByVersion, Done, EverySaveIsStored

\* The invariant of the rates holds in every state.
THEOREM RatesInvariant == RatesSpec => []RatesInv
<1>1. RatesInit => RatesInv  BY RatesInvStarts
<1>2. RatesInv /\ [RatesNext]_ratesVars => RatesInv'
  <2>1. SUFFICES ASSUME RatesInv, [RatesNext]_ratesVars
                 PROVE  RatesInv'
    OBVIOUS
  <2>2. CASE UNCHANGED ratesVars
    <3>1. SavesKept /\ QuotesKept
      BY <2>2 DEF ratesVars, SavesKept, QuotesKept
    <3>2. stay' \in Nat /\ quotes' \in [Quotes -> Quote]
      BY <2>1, <3>1 DEF RatesInv, RatesTypeOK, QuotesKept
    <3>3. QuotedByVersion'
      BY <2>1, <3>1, QuotesStand DEF RatesInv, SavesKept, QuotesKept
    <3>4. QED  BY <2>1, <3>1, <3>2, <3>3, SavesStand DEF RatesInv
  <2>3. CASE RatesNext
    <3>1. ASSUME NEW s \in Savers, NEW r \in Drafts[s], SaveRate(s, r)
          PROVE  RatesInv'
      BY <2>1, <3>1, SaveRateKeeps
    <3>2. ASSUME NEW s \in Savers, LatestVersion(s) \/ CreateVersion(s)
          PROVE  RatesInv'
      BY <2>1, <3>2, LatestVersionKeeps, CreateVersionKeeps
    <3>3. ASSUME NEW q \in Quotes, QuoteMinutes(q) \/ QuoteRate(q)
          PROVE  RatesInv'
      BY <2>1, <3>3, QuoteMinutesKeeps, QuoteRateKeeps
    <3>4. QED  BY <2>1, <2>3, <3>1, <3>2, <3>3, MinuteKeeps DEF RatesNext
  <2>4. QED  BY <2>1, <2>2, <2>3
<1>3. QED  BY <1>1, <1>2, PTL DEF RatesSpec

\* However many saves overlap, each gets a version of its own (createVersion).
THEOREM SavesAreStored == RatesSpec => []EverySaveIsStored
BY RatesInvariant, PTL DEF RatesInv

LEMMA QuotedRules ==
  ASSUME RatesInv, NEW q \in Quotes, Done(q)
  PROVE  /\ RulesOf(q) \in ValidRules
         /\ quotes[q].duracion \in Nat
         /\ quotes[q].monto = CalculateParkingFee(RulesOf(q), quotes[q].duracion)
<1>1. rates \in Seq(ValidRules)
  BY DEF RatesInv, RatesTypeOK, ValidRules
<1>2. QED  BY <1>1, QuoteFields DEF RatesInv, RatesTypeOK, QuotedByVersion, Done, RulesOf

\* A quote is free within the tolerance and only there, and no day of it costs more than
\* the cap (calculateParkingFee), whatever versions are saved meanwhile.
THEOREM QuotesAreBounded == RatesSpec => []QuoteIsBounded
<1>1. RatesInv => QuoteIsBounded
  BY QuotedRules, FeeFacts DEF QuoteIsBounded, FreeWhenTolerated, CappedByDay
<1>2. QED  BY <1>1, RatesInvariant, PTL

\* A quote is what the blocks that start in its minutes cost by the rules it names.
THEOREM QuotesAreDocumented == RatesSpec => []QuotedAsDocumented
<1>1. RatesInv => QuotedAsDocumented
  BY QuotedRules, FeeIsDocumented DEF QuotedAsDocumented
<1>2. QED  BY <1>1, RatesInvariant, PTL
=============================================================================
