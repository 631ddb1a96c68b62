----------------------------- MODULE AccessEvents -----------------------------
(***************************************************************************)
(* What the device tells about one ticket: the barrier opened, the vehicle *)
(* passed, or it did not pass in time.  Each event reads the ticket, works *)
(* out a patch and writes it, in two steps and without a lock, while other *)
(* events and the exit of the ticket (TicketGate) do the same.  The device *)
(* may send an event again, and events may overtake each other.            *)
(*                                                                         *)
(* Left out: the entry barrier of the ticket is opened once; payloads that *)
(* are refused before the ticket is read; the limit of 50 event ids.       *)
(***************************************************************************)
EXTENDS Naturals, FiniteSets

CONSTANTS
  Handlers,    \* events and requests being served at the same time
  MaxTime      \* bound: events of the device, one at each time

ASSUME TimeAssumption == MaxTime \in Nat

VARIABLES
  ticket,      \* the row of the ticket
  events,      \* what the device reported, by the time it happened
  device,      \* the passage the device is in
  handlers     \* what each handler remembers

eventVars == <<ticket, events, device, handlers>>

----------------------------------------------------------------------------
Times == 1 .. MaxTime

Modes == {"entrada", "salida"}

Kinds == {"barrier_opened", "vehicle_passed", "vehicle_timeout"}

Event == [event : Kinds, mode : Modes, occurredAt : Times]

\* 0 is "no date"; exited is horaSalida being set.
TicketRow ==
  [status : {"ACTIVE", "COMPLETED", "FRAUD"}, exited : BOOLEAN,
   barrierOpenedAt : 0 .. MaxTime, barrierConfirmedAt : 0 .. MaxTime,
   fraudDetectedAt : 0 .. MaxTime, runtimeEventIds : SUBSET Times]

Handler ==
       [pc : {"idle", "exit"}]
  \cup [pc : {"patch"}, event : Event, read : TicketRow]

\* Outside, at the entry barrier, inside, at the exit barrier, gone.
Device == {"outside", "entrada", "inside", "salida", "gone"}

EventsTypeOK ==
  /\ ticket \in TicketRow
  /\ events \in SUBSET Event
  /\ device \in Device
  /\ handlers \in [Handlers -> Handler]

NotHandling == [pc |-> "idle"]

EventsInit ==
  /\ ticket = [status |-> "ACTIVE", exited |-> FALSE, barrierOpenedAt |-> 0,
               barrierConfirmedAt |-> 0, fraudDetectedAt |-> 0, runtimeEventIds |-> {}]
  /\ events = {}
  /\ device = "outside"
  /\ handlers = [h \in Handlers |-> NotHandling]

Handle(h, handler) == handlers' = [handlers EXCEPT ![h] = handler]

----------------------------------------------------------------------------
\* The device.

Report(kind, mode) ==
  /\ Cardinality(events) < MaxTime
  /\ events' = events \cup {[event |-> kind, mode |-> mode,
                             occurredAt |-> Cardinality(events) + 1]}
  /\ UNCHANGED <<ticket, handlers>>

ExitInProgress == \E h \in Handlers : handlers[h].pc = "exit"

BarrierOpens(mode) ==
  /\ \/ device = "outside" /\ mode = "entrada"
     \/ device = "inside" /\ mode = "salida" /\ ExitInProgress
  /\ device' = mode
  /\ Report("barrier_opened", mode)

VehiclePasses(mode) ==
  /\ device = mode
  /\ device' = (IF mode = "entrada" THEN "inside" ELSE "gone")
  /\ Report("vehicle_passed", mode)

\* The second loop saw nothing, whether or not the vehicle is through.
VehicleMissing(mode) ==
  /\ device = mode
  /\ \/ device' = (IF mode = "entrada" THEN "inside" ELSE "gone")
     \/ UNCHANGED device
  /\ Report("vehicle_timeout", mode)

----------------------------------------------------------------------------
\* The patch of each event, from the ticket as it was read.

\* Refused: the barrier opens for a completed ticket, or the vehicle passes
\* before the barrier opened.
Accepted(t, e) ==
  IF e.event = "barrier_opened"
  THEN t.status # "COMPLETED"
  ELSE t.barrierOpenedAt > 0 /\ e.occurredAt >= t.barrierOpenedAt

\* An opening that leaves the marks of a fraud; see the properties.
OpenedKeepsFraud(t, row, e) ==
  [row EXCEPT !.barrierOpenedAt = e.occurredAt,
              !.status = IF t.status = "FRAUD" THEN "ACTIVE" ELSE t.status]

Opened(t, row, e) ==
  [row EXCEPT !.barrierOpenedAt = e.occurredAt, !.fraudDetectedAt = 0,
              !.status = IF t.status = "FRAUD" THEN "ACTIVE" ELSE t.status]

Passed(t, row, e) ==
  IF t.barrierConfirmedAt > 0 THEN row
  ELSE [row EXCEPT !.barrierConfirmedAt = e.occurredAt, !.fraudDetectedAt = 0,
                   !.status = IF e.mode = "salida" THEN "COMPLETED" ELSE t.status]

\* A missed passage written where a seen one belongs; see the properties.
MissingAsPassed(t, row, e) == [row EXCEPT !.barrierConfirmedAt = e.occurredAt]

Missing(t, row, e) ==
  IF t.barrierConfirmedAt > 0 \/ t.status = "COMPLETED" THEN row
  ELSE [row EXCEPT !.status = "FRAUD", !.fraudDetectedAt = e.occurredAt]

\* The row the update leaves: only the fields of the patch are written.
Patched(t, row, e) ==
  CASE e.event = "barrier_opened"  -> Opened(t, row, e)
    [] e.event = "vehicle_passed"  -> Passed(t, row, e)
    [] e.event = "vehicle_timeout" -> Missing(t, row, e)

----------------------------------------------------------------------------
\* handleRuntimeAccessEvent.  An event is known by the time it happened.

Receive(h, e) ==
  /\ handlers[h].pc = "idle"
  /\ e.occurredAt \notin ticket.runtimeEventIds
  /\ Accepted(ticket, e)
  /\ Handle(h, [pc |-> "patch", event |-> e, read |-> ticket])
  /\ UNCHANGED <<ticket, events, device>>

WritePatch(h) ==
  LET e == handlers[h].event
      t == handlers[h].read
  IN  /\ handlers[h].pc = "patch"
      /\ ticket' = [Patched(t, ticket, e) EXCEPT
                      !.runtimeEventIds = t.runtimeEventIds \cup {e.occurredAt}]
      /\ Handle(h, NotHandling)
      /\ UNCHANGED <<events, device>>

\* killTicketFromModuleToken, between the command to the barrier and its end.
BeginExit(h) ==
  /\ handlers[h].pc = "idle"
  /\ ~ticket.exited
  /\ device = "inside"
  /\ Handle(h, [pc |-> "exit"])
  /\ UNCHANGED <<ticket, events, device>>

CompleteExit(h) ==
  /\ handlers[h].pc = "exit"
  /\ \E e \in events : e.event = "barrier_opened" /\ e.mode = "salida"
  /\ ticket' = [ticket EXCEPT !.status = "COMPLETED", !.exited = TRUE]
  /\ Handle(h, NotHandling)
  /\ UNCHANGED <<events, device>>

HandlerStops(h) ==
  /\ handlers[h].pc # "idle"
  /\ Handle(h, NotHandling)
  /\ UNCHANGED <<ticket, events, device>>

EventsNext ==
  \/ \E mode \in Modes : BarrierOpens(mode) \/ VehiclePasses(mode) \/ VehicleMissing(mode)
  \/ \E h \in Handlers :
       \/ \E e \in events : Receive(h, e)
       \/ WritePatch(h)
       \/ BeginExit(h)
       \/ CompleteExit(h)
       \/ HandlerStops(h)

EventsSpec == EventsInit /\ [][EventsNext]_eventVars

----------------------------------------------------------------------------
\* A ticket that counts as active bears no mark of fraud, and a vehicle that
\* was seen to pass had its barrier opened, in whatever order the events are
\* delivered, repeated and written over each other.
MarksAgree ==
  /\ ticket.status = "ACTIVE" => ticket.fraudDetectedAt = 0
  /\ ticket.barrierConfirmedAt > 0 => ticket.barrierOpenedAt > 0

\* A mark of fraud comes from a passage the device did not see, and a passage
\* that is confirmed was seen: no patch mixes two events up.
MarksAreReported ==
  /\ ticket.fraudDetectedAt > 0 =>
       \E e \in events : e.event = "vehicle_timeout" /\ e.occurredAt = ticket.fraudDetectedAt
  /\ ticket.barrierConfirmedAt > 0 =>
       \E e \in events : e.event = "vehicle_passed" /\ e.occurredAt = ticket.barrierConfirmedAt

\* "El ticket ya fue completado y no puede volver a abrir barrera": a completed
\* ticket stays completed.  The code does not keep this: an opening read before
\* the exit writes back the status it read (buildRuntimeAccessTicketPatch).
CompletedForGood == [][ticket.status = "COMPLETED" => ticket'.status = "COMPLETED"]_eventVars

\* "El boleto quedo marcado como posible fraude": a missed exit that is handled
\* marks the ticket, unless its passage is seen.  The code does not keep this:
\* the confirmation of the entry makes the missed exit count as confirmed.
Handled(e) == e.occurredAt \in ticket.runtimeEventIds

MissedExitIsMarked ==
  \A e \in events :
    /\ e.event = "vehicle_timeout" /\ e.mode = "salida" /\ Handled(e)
    /\ ~ticket.exited
    /\ ~ \E f \in events : f.occurredAt > e.occurredAt
    => ticket.status = "FRAUD"
=============================================================================
