------------------------------ MODULE CopyProofs ------------------------------
(***************************************************************************)
(* Proofs about the copies that the server and the cloud keep of each      *)
(* other's data: the events of the outbox, for any number of events, rows  *)
(* and failures, any batch size, and whichever events the cloud refuses    *)
(* (Outbox); and the users that may operate, for any number of users,      *)
(* logins and requests, and any maximum age (Access).                      *)
(***************************************************************************)
EXTENDS Outbox, Access, FiniteSetTheorems, TLAPS

\* Positions are handed out in order, an event has no error before its change
\* commits, and only refused events are marked as rejected.
EventsInOrder ==
  /\ \A e \in Events : \A f \in Before(e) : state[e] # "unused" => state[f] # "unused"
  /\ \A e \in Events : state[e] \in {"unused", "staged"} => lastError[e] = "none"
  /\ \A e \in Events : lastError[e] = "rejected" => e \in Refused

\* The row lock: a later event of a row is taken after the earlier one's
\* transaction ended.
RowsInOrder ==
  \A e \in Events : \A f \in Before(e) :
    row[e] = row[f] /\ state[e] # "unused" => state[f] # "staged"

SentIsStored == \A e \in Events : state[e] \in {"sent", "purged"} => e \in inbox

\* What the retention saw of a row it deletes was settled; what it could not see yet may
\* still be open until the row is gone.
GoneIsSettled ==
  \A e \in Events :
    /\ state[e] = "unused" => row[e] = None
    /\ row[e] \in purging /\ e \notin late =>
         state[e] \in {"sent", "purged", "rolledBack", "staged"}
    /\ row[e] \in gone /\ e \notin late => state[e] \in {"sent", "purged", "rolledBack"}
    /\ row[e] \in gone => state[e] # "staged"

\* The events the publisher still has in hand.
InHand ==
  CASE publisher.pc = "batch" -> publisher.todo
    [] publisher.pc = "sending" -> publisher.todo \cup {publisher.event}
    [] OTHER -> {}

\* What is in hand is pending and, when a request is on its way, behind its
\* event.
HandIsPending ==
  /\ InHand \subseteq Pending
  /\ publisher.pc = "sending" =>
       /\ \A g \in publisher.todo : publisher.event < g
       /\ publisher.stored => publisher.event \in inbox

\* A pending event that is not in hand and comes before one that is has not
\* failed for a temporary reason, and has another row unless it was refused.
NothingOvertaken ==
  \A g \in InHand : \A e \in (Pending \ InHand) \cap Before(g) :
    /\ lastError[e] # "retry"
    /\ row[e] = row[g] => e \in Refused

OutboxInv ==
  /\ TypeOK
  /\ EventsInOrder
  /\ RowsInOrder
  /\ SentIsStored
  /\ GoneIsSettled
  /\ HandIsPending
  /\ NothingOvertaken

----------------------------------------------------------------------------
\* What the publisher remembers, by where it stands.
LEMMA PublisherFields ==
  ASSUME NEW p \in Publisher
  PROVE  /\ p.pc \in {"idle", "batch", "sending"}
         /\ p.pc \in {"batch", "sending"} => p.todo \subseteq Events /\ p.due \subseteq Events
         /\ p.pc = "sending" => p.event \in Events /\ p.stored \in BOOLEAN
BY DEF Publisher

LEMMA IdleIsPublisher == Idle \in Publisher /\ Idle.pc = "idle"
BY DEF Publisher, Idle

\* A batch is a prefix of what is pending.
LEMMA BatchIsPrefix ==
  ASSUME NEW g \in NextBatch, NEW e \in Pending \ NextBatch
  PROVE  e \notin Before(g)
<1>1. SUFFICES ASSUME e \in Before(g)
               PROVE  FALSE
  OBVIOUS
<1>2. e \in Events /\ g \in Events /\ e < g /\ Events \subseteq Int
  BY <1>1 DEF Before, NextBatch, Pending, Events
<1>3. Pending \cap Before(e) \subseteq Pending \cap Before(g)
  BY <1>2, BoundsAssumption DEF Before, Events
<1>4. IsFiniteSet(Events)
  BY FS_Interval, BoundsAssumption DEF Events
<1>5. IsFiniteSet(Pending \cap Before(g))
  BY <1>4, FS_Subset DEF Pending
<1>6. Cardinality(Pending \cap Before(e)) <= Cardinality(Pending \cap Before(g))
  BY <1>3, <1>5, FS_Subset
<1>7. /\ Cardinality(Pending \cap Before(e)) \in Nat
      /\ Cardinality(Pending \cap Before(g)) \in Nat
  BY <1>3, <1>5, FS_Subset, FS_CardinalityType
<1>8. Cardinality(Pending \cap Before(g)) < BatchSize /\ BatchSize \in Nat
  BY BoundsAssumption DEF NextBatch
<1>9. e \in NextBatch
  BY <1>6, <1>7, <1>8 DEF NextBatch
<1>10. QED  BY <1>9

LEMMA InitInv ==
  ASSUME Init
  PROVE  OutboxInv
<1>1. TypeOK
  <2>1. failures \in 0 .. MaxFailures  BY BoundsAssumption DEF Init
  <2>2. QED  BY <2>1, IdleIsPublisher DEF Init, TypeOK, States
<1>2. \A e \in Events : state[e] = "unused" /\ lastError[e] = "none" /\ row[e] = None
  BY DEF Init
<1>3. InHand = {}  BY IdleIsPublisher DEF Init, InHand
<1>4. EventsInOrder /\ RowsInOrder /\ SentIsStored
  BY <1>2 DEF EventsInOrder, RowsInOrder, SentIsStored, Before
<1>5. GoneIsSettled  BY <1>2 DEF Init, GoneIsSettled
<1>6. HandIsPending /\ NothingOvertaken
  BY <1>3, IdleIsPublisher DEF Init, HandIsPending, NothingOvertaken
<1>7. QED  BY <1>1, <1>4, <1>5, <1>6 DEF OutboxInv

----------------------------------------------------------------------------
\* The triggers.
LEMMA CaptureKeeps ==
  ASSUME OutboxInv, NEW e \in Events, NEW r \in Rows, Capture(e, r)
  PROVE  OutboxInv'
<1> USE DEF OutboxInv
<1>1. /\ state' = [state EXCEPT ![e] = "staged"]
      /\ row' = [row EXCEPT ![e] = r]
      /\ state[e] = "unused"
      /\ \A f \in Before(e) : state[f] # "unused"
      /\ r \notin gone
      /\ \A f \in Events : row[f] = r => state[f] # "staged"
      /\ UNCHANGED <<gone, purging, late, lastError, waiting, linked, reachable, inbox,
                     publisher, failures>>
  BY DEF Capture, RowFree
<1>2. /\ state' \in [Events -> States] /\ state'[e] = "staged"
      /\ \A f \in Events : f # e => state'[f] = state[f]
      /\ row' \in [Events -> Rows \cup {None}] /\ row'[e] = r
      /\ \A f \in Events : f # e => row'[f] = row[f]
  BY <1>1 DEF TypeOK, States
<1>3. TypeOK'  BY <1>1, <1>2 DEF TypeOK
<1>4. InHand' = InHand /\ Pending' = Pending
  BY <1>1, <1>2 DEF InHand, Pending
<1>5. EventsInOrder'
  BY <1>1, <1>2 DEF EventsInOrder, Before
<1>6. RowsInOrder'
  <2>1. ASSUME NEW a \in Events, NEW b \in Before(a), row'[a] = row'[b], state'[a] # "unused"
        PROVE  state'[b] # "staged"
    <3>1. b \in Events /\ b # a /\ b < a  BY <2>1 DEF Before, Events
    <3>2. CASE a = e  BY <1>1, <1>2, <2>1, <3>1, <3>2
    <3>3. CASE b = e
      <4>1. state[a] # "unused"  BY <1>2, <2>1, <3>1, <3>3
      <4>2. state[e] # "unused"  BY <2>1, <3>3, <4>1 DEF EventsInOrder
      <4>3. QED  BY <1>1, <4>2
    <3>4. CASE a # e /\ b # e  BY <1>2, <2>1, <3>1, <3>4 DEF RowsInOrder
    <3>5. QED  BY <3>2, <3>3, <3>4
  <2>2. QED  BY <2>1 DEF RowsInOrder, Before
<1>7. SentIsStored'  BY <1>1, <1>2 DEF SentIsStored
<1>8. GoneIsSettled'  BY <1>1, <1>2 DEF GoneIsSettled
<1>9. HandIsPending'  BY <1>1, <1>4 DEF HandIsPending
<1>10. NothingOvertaken'
  <2>1. \A f \in Pending : row'[f] = row[f] /\ f \in Events
    BY <1>1, <1>2 DEF Pending
  <2>2. InHand \subseteq Pending  BY DEF HandIsPending
  <2>3. QED  BY <1>1, <1>4, <2>1, <2>2 DEF NothingOvertaken, Before
<1>11. QED  BY <1>3, <1>5, <1>6, <1>7, <1>8, <1>9, <1>10

LEMMA EndChangeKeeps ==
  ASSUME OutboxInv, NEW e \in Events, CommitChange(e) \/ RollbackChange(e)
  PROVE  OutboxInv'
<1> USE DEF OutboxInv
<1>1. PICK end \in {"pending", "rolledBack"} : state' = [state EXCEPT ![e] = end]
  BY DEF CommitChange, RollbackChange
<1>2. /\ state[e] = "staged"
      /\ UNCHANGED <<row, gone, purging, lastError, waiting, linked, reachable, inbox, publisher,
                     failures>>
      /\ late' \in {late, late \cup {e}}
      /\ end = "pending" /\ purging # {} => e \in late'
  BY <1>1 DEF CommitChange, RollbackChange, rows, TypeOK
<1>3. /\ state' \in [Events -> States] /\ state'[e] = end
      /\ \A f \in Events : f # e => state'[f] = state[f]
  BY <1>1 DEF TypeOK, States
<1>4. TypeOK'  BY <1>2, <1>3 DEF TypeOK
<1>5. InHand' = InHand /\ Pending \subseteq Pending' /\ Pending' \subseteq Pending \cup {e}
  BY <1>2, <1>3 DEF InHand, Pending
<1>6. EventsInOrder'  BY <1>2, <1>3 DEF EventsInOrder, Before
<1>7. RowsInOrder'  BY <1>2, <1>3 DEF RowsInOrder, Before
<1>8. SentIsStored'  BY <1>2, <1>3 DEF SentIsStored
<1>9. GoneIsSettled'
  <2>1. ASSUME NEW f \in Events, f # e
        PROVE  /\ state'[f] = state[f] /\ row'[f] = row[f] /\ gone' = gone /\ purging' = purging
               /\ f \in late' <=> f \in late
    BY <1>2, <1>3, <2>1
  <2>2. row[e] \notin gone  BY <1>2 DEF GoneIsSettled
  <2>3. row[e] \in purging /\ e \notin late' => end = "rolledBack"
    BY <1>1, <1>2
  <2>4. QED  BY <1>1, <1>2, <1>3, <2>1, <2>2, <2>3 DEF GoneIsSettled
<1>10. HandIsPending'  BY <1>2, <1>5 DEF HandIsPending
<1>11. NothingOvertaken'
  <2>1. ASSUME NEW g \in InHand, e \in Before(g)
        PROVE  lastError[e] # "retry" /\ row[e] # row[g]
    <3>1. g \in Events /\ state[g] = "pending"  BY DEF HandIsPending, Pending
    <3>2. row[e] # row[g]  BY <1>2, <2>1, <3>1 DEF RowsInOrder
    <3>3. lastError[e] = "none"  BY <1>2 DEF EventsInOrder
    <3>4. QED  BY <3>2, <3>3
  <2>2. QED  BY <1>2, <1>5, <2>1 DEF NothingOvertaken, Before
<1>12. QED  BY <1>4, <1>6, <1>7, <1>8, <1>9, <1>10, <1>11

----------------------------------------------------------------------------
\* The publisher moves and the tables stay.  What it takes in hand is pending,
\* and nothing that it leaves behind holds what it keeps.
LEMMA PublisherMoves ==
  ASSUME OutboxInv, NEW p \in Publisher, publisher' = p,
         UNCHANGED <<row, gone, purging, late, state, lastError, waiting, linked, reachable, inbox,
                     failures>>,
         HandIsPending', NothingOvertaken'
  PROVE  OutboxInv'
BY DEF OutboxInv, TypeOK, EventsInOrder, RowsInOrder, SentIsStored, GoneIsSettled, Before

LEMMA StartKeeps ==
  ASSUME OutboxInv, StartBatch
  PROVE  OutboxInv'
<1> DEFINE p == [pc |-> "batch", todo |-> NextBatch,
                 due |-> {e \in NextBatch : lastError[e] = "none" \/ ~waiting[e]}]
<1>1. /\ publisher' = p
      /\ UNCHANGED <<row, gone, purging, late, state, lastError, waiting, linked, reachable, inbox,
                     failures>>
  BY DEF StartBatch, rows
<1>2. NextBatch \subseteq Pending /\ Pending \subseteq Events
  BY DEF NextBatch, Pending
<1>3. p \in Publisher /\ p.pc = "batch" /\ p.todo = NextBatch
  BY <1>2 DEF Publisher
<1> HIDE DEF p
<1>4. InHand' = NextBatch /\ Pending' = Pending
  BY <1>1, <1>3 DEF InHand, Pending
<1>5. HandIsPending'  BY <1>1, <1>2, <1>3, <1>4 DEF HandIsPending
<1>6. NothingOvertaken'
  <2>1. \A g \in NextBatch : \A e \in Pending \ NextBatch : e \notin Before(g)
    BY BatchIsPrefix
  <2>2. QED  BY <1>4, <2>1 DEF NothingOvertaken, Before
<1>7. QED  BY <1>1, <1>3, <1>5, <1>6, PublisherMoves

LEMMA LeaveKeeps ==
  ASSUME OutboxInv, publisher' = Idle,
         UNCHANGED <<row, gone, purging, late, state, lastError, inbox>>,
         waiting' \in [Events -> BOOLEAN], linked' \in BOOLEAN, reachable' \in BOOLEAN,
         failures' \in 0 .. MaxFailures
  PROVE  OutboxInv'
<1>1. InHand' = {}  BY IdleIsPublisher DEF InHand
<1>2. HandIsPending' /\ NothingOvertaken'
  BY <1>1, IdleIsPublisher DEF HandIsPending, NothingOvertaken
<1>3. TypeOK'  BY IdleIsPublisher DEF OutboxInv, TypeOK
<1>4. QED
  BY <1>2, <1>3 DEF OutboxInv, EventsInOrder, RowsInOrder, SentIsStored, GoneIsSettled, Before

LEMMA SkipKeeps ==
  ASSUME OutboxInv, NEW e \in Events, SkipRejected(e)
  PROVE  OutboxInv'
<1> DEFINE todo == publisher.todo \ {e}
           p == [publisher EXCEPT !.todo = publisher.todo \ {e}]
<1>1. /\ publisher' = p
      /\ UNCHANGED <<row, gone, purging, late, state, lastError, waiting, linked, reachable, inbox,
                     failures>>
      /\ publisher.pc = "batch"
      /\ lastError[e] = "rejected"
  BY DEF SkipRejected, IsNext, rows
<1>2. publisher \in [pc : {"batch"}, todo : SUBSET Events, due : SUBSET Events]
  BY <1>1 DEF OutboxInv, TypeOK, Publisher
<1>3. p \in [pc : {"batch"}, todo : SUBSET Events, due : SUBSET Events]
  BY <1>2
<1>4. p \in Publisher /\ p.pc = "batch" /\ p.todo = todo
  <2>1. p \in Publisher  BY <1>3 DEF Publisher
  <2>2. p.pc = "batch" /\ p.todo = todo  BY <1>2
  <2>3. QED  BY <2>1, <2>2
<1> HIDE DEF p
<1>5. InHand = publisher.todo /\ InHand' = todo /\ Pending' = Pending
  BY <1>1, <1>4 DEF InHand, Pending
<1>6. HandIsPending'  BY <1>1, <1>4, <1>5 DEF OutboxInv, HandIsPending
<1>7. NothingOvertaken'
  <2>1. lastError[e] # "retry" /\ e \in Refused
    BY <1>1 DEF OutboxInv, EventsInOrder
  <2>2. QED  BY <1>1, <1>5, <2>1 DEF OutboxInv, NothingOvertaken, Before
<1>8. QED  BY <1>1, <1>4, <1>6, <1>7, PublisherMoves

LEMMA SendKeeps ==
  ASSUME OutboxInv, NEW e \in Events, Send(e)
  PROVE  OutboxInv'
<1> DEFINE p == [pc |-> "sending", todo |-> publisher.todo \ {e}, due |-> publisher.due,
                 event |-> e, stored |-> FALSE]
<1>1. /\ publisher' = p
      /\ UNCHANGED <<row, gone, purging, late, state, lastError, waiting, linked, reachable, inbox,
                     failures>>
      /\ publisher.pc = "batch" /\ e \in publisher.todo
      /\ publisher.todo \cap Before(e) = {}
  BY DEF Send, IsNext, rows
<1>2. publisher.todo \subseteq Events /\ publisher.due \subseteq Events
  BY <1>1, PublisherFields DEF OutboxInv, TypeOK
<1>3. /\ p \in Publisher /\ p.pc = "sending" /\ p.todo = publisher.todo \ {e}
      /\ p.event = e /\ p.stored = FALSE
  BY <1>2 DEF Publisher
<1> HIDE DEF p
<1>4. InHand = publisher.todo /\ InHand' = publisher.todo /\ Pending' = Pending
  BY <1>1, <1>3 DEF InHand, Pending
<1>5. HandIsPending'
  <2>1. \A g \in publisher.todo \ {e} : e < g
    BY <1>1, <1>2 DEF Before, Events
  <2>2. QED  BY <1>1, <1>3, <1>4, <2>1 DEF OutboxInv, HandIsPending
<1>6. NothingOvertaken'
  BY <1>1, <1>4 DEF OutboxInv, NothingOvertaken, Before
<1>7. QED  BY <1>1, <1>3, <1>5, <1>6, PublisherMoves

----------------------------------------------------------------------------
\* The request on its way.
LEMMA SendingFields ==
  ASSUME OutboxInv, publisher.pc = "sending"
  PROVE  /\ publisher \in [pc : {"sending"}, todo : SUBSET Events, due : SUBSET Events,
                           event : Events, stored : BOOLEAN]
         /\ InHand = publisher.todo \cup {publisher.event}
         /\ ContinueBatch \in Publisher
         /\ ContinueBatch.pc = "batch"
         /\ ContinueBatch.todo = publisher.todo
         /\ publisher.event \in Events /\ state[publisher.event] = "pending"
<1>1. publisher \in [pc : {"sending"}, todo : SUBSET Events, due : SUBSET Events,
                     event : Events, stored : BOOLEAN]
  BY DEF OutboxInv, TypeOK, Publisher
<1>2. InHand = publisher.todo \cup {publisher.event}
  BY DEF InHand
<1>3. ContinueBatch \in Publisher /\ ContinueBatch.pc = "batch"
      /\ ContinueBatch.todo = publisher.todo
  BY <1>1 DEF ContinueBatch, Publisher
<1>4. publisher.event \in Events /\ state[publisher.event] = "pending"
  BY <1>1, <1>2 DEF OutboxInv, HandIsPending, Pending
<1>5. QED  BY <1>1, <1>2, <1>3, <1>4

LEMMA StoreKeeps ==
  ASSUME OutboxInv, CloudStores
  PROVE  OutboxInv'
<1> DEFINE p == [publisher EXCEPT !.stored = TRUE]
<1> USE DEF OutboxInv
<1>1. /\ publisher' = p
      /\ inbox' = inbox \cup {publisher.event}
      /\ UNCHANGED <<row, gone, purging, late, state, lastError, waiting, linked, reachable,
                     failures>>
      /\ publisher.pc = "sending"
  BY DEF CloudStores, rows
<1>2. /\ publisher \in [pc : {"sending"}, todo : SUBSET Events, due : SUBSET Events,
                        event : Events, stored : BOOLEAN]
      /\ InHand = publisher.todo \cup {publisher.event}
      /\ publisher.event \in Events
  BY <1>1, SendingFields
<1>3. /\ p \in [pc : {"sending"}, todo : SUBSET Events, due : SUBSET Events,
                event : Events, stored : BOOLEAN]
      /\ p.pc = "sending" /\ p.todo = publisher.todo /\ p.event = publisher.event
  BY <1>2
<1>4. p \in Publisher  BY <1>3 DEF Publisher
<1> HIDE DEF p
<1>5. InHand' = InHand /\ Pending' = Pending
  BY <1>1, <1>2, <1>3 DEF InHand, Pending
<1>6. TypeOK'  BY <1>1, <1>2, <1>4 DEF TypeOK
<1>7. HandIsPending'  BY <1>1, <1>3, <1>5 DEF HandIsPending
<1>8. NothingOvertaken'  BY <1>1, <1>5 DEF NothingOvertaken, Before
<1>9. QED
  BY <1>1, <1>6, <1>7, <1>8
  DEF EventsInOrder, RowsInOrder, SentIsStored, GoneIsSettled, Before

LEMMA MarkSentKeeps ==
  ASSUME OutboxInv, MarkSent
  PROVE  OutboxInv'
<1> DEFINE f == publisher.event
<1> USE DEF OutboxInv
<1>1. /\ state' = [state EXCEPT ![f] = "sent"]
      /\ lastError' = [lastError EXCEPT ![f] = "none"]
      /\ publisher' = ContinueBatch
      /\ UNCHANGED <<row, gone, purging, late, waiting, linked, reachable, inbox, failures>>
      /\ publisher.pc = "sending" /\ publisher.stored
  BY DEF MarkSent, rows
<1>2. /\ InHand = publisher.todo \cup {f}
      /\ ContinueBatch \in Publisher /\ ContinueBatch.pc = "batch"
      /\ ContinueBatch.todo = publisher.todo
      /\ f \in Events /\ state[f] = "pending"
  BY <1>1, SendingFields
<1>3. /\ state' \in [Events -> States] /\ state'[f] = "sent"
      /\ \A e \in Events : e # f => state'[e] = state[e]
      /\ lastError' \in [Events -> {"none", "retry", "rejected"}] /\ lastError'[f] = "none"
      /\ \A e \in Events : e # f => lastError'[e] = lastError[e]
  BY <1>1, <1>2 DEF TypeOK, States
<1>4. TypeOK'  BY <1>1, <1>2, <1>3 DEF TypeOK
<1>5. InHand' = publisher.todo /\ Pending' = Pending \ {f}
  BY <1>1, <1>2, <1>3 DEF InHand, Pending
<1>6. f \notin publisher.todo /\ f \in inbox
  BY <1>1, <1>2 DEF HandIsPending, Events
<1>7. EventsInOrder'  BY <1>2, <1>3 DEF EventsInOrder, Before
<1>8. RowsInOrder'  BY <1>1, <1>2, <1>3 DEF RowsInOrder, Before
<1>9. SentIsStored'  BY <1>1, <1>3, <1>6 DEF SentIsStored
<1>10. GoneIsSettled'  BY <1>1, <1>2, <1>3 DEF GoneIsSettled
<1>11. HandIsPending'  BY <1>1, <1>2, <1>5, <1>6 DEF HandIsPending
<1>12. NothingOvertaken'
  <2>1. \A e \in Pending \ {f} : e \in Events /\ lastError'[e] = lastError[e]
    BY <1>3 DEF Pending
  <2>2. QED  BY <1>1, <1>2, <1>5, <2>1 DEF NothingOvertaken, Before
<1>13. QED
  BY <1>4, <1>7, <1>8, <1>9, <1>10, <1>11, <1>12

\* The cloud refused the event on its way: it is left behind, pending.
LEMMA MarkRejectedKeeps ==
  ASSUME OutboxInv, MarkRejected
  PROVE  OutboxInv'
<1> DEFINE f == publisher.event
<1> USE DEF OutboxInv
<1>1. /\ lastError' = [lastError EXCEPT ![f] = "rejected"]
      /\ waiting' = [waiting EXCEPT ![f] = TRUE]
      /\ publisher' = ContinueBatch
      /\ UNCHANGED <<row, gone, purging, late, state, linked, reachable, inbox, failures>>
      /\ publisher.pc = "sending" /\ f \in Refused
  BY DEF MarkRejected, rows
<1>2. /\ InHand = publisher.todo \cup {f}
      /\ ContinueBatch \in Publisher /\ ContinueBatch.pc = "batch"
      /\ ContinueBatch.todo = publisher.todo
      /\ f \in Events /\ state[f] = "pending"
  BY <1>1, SendingFields
<1>3. /\ lastError' \in [Events -> {"none", "retry", "rejected"}] /\ lastError'[f] = "rejected"
      /\ \A e \in Events : e # f => lastError'[e] = lastError[e]
      /\ waiting' \in [Events -> BOOLEAN]
  BY <1>1, <1>2 DEF TypeOK
<1>4. TypeOK'  BY <1>1, <1>2, <1>3 DEF TypeOK
<1>5. InHand' = publisher.todo /\ Pending' = Pending
  BY <1>1, <1>2 DEF InHand, Pending
<1>6. EventsInOrder'  BY <1>1, <1>2, <1>3 DEF EventsInOrder, Before
<1>7. HandIsPending'  BY <1>1, <1>2, <1>5 DEF HandIsPending
<1>8. NothingOvertaken'
  <2>1. ASSUME NEW g \in publisher.todo, NEW e \in Pending \ publisher.todo, e \in Before(g)
        PROVE  lastError'[e] # "retry" /\ (row[e] = row[g] => e \in Refused)
    <3>1. e \in Events  BY DEF Pending
    <3>2. CASE e = f  BY <1>1, <1>3, <3>2
    <3>3. CASE e # f  BY <1>2, <1>3, <2>1, <3>1, <3>3 DEF NothingOvertaken
    <3>4. QED  BY <3>2, <3>3
  <2>2. QED  BY <1>1, <1>5, <2>1 DEF NothingOvertaken, Before
<1>9. QED
  BY <1>1, <1>4, <1>6, <1>7, <1>8 DEF RowsInOrder, SentIsStored, GoneIsSettled, Before

LEMMA MarkFailedKeeps ==
  ASSUME OutboxInv, MarkFailed
  PROVE  OutboxInv'
<1> DEFINE f == publisher.event
<1> USE DEF OutboxInv
<1>1. /\ lastError' = [lastError EXCEPT ![f] = "retry"]
      /\ waiting' = [waiting EXCEPT ![f] = TRUE]
      /\ publisher' = Idle
      /\ UNCHANGED <<row, gone, purging, late, state, linked, reachable, inbox, failures>>
      /\ publisher.pc = "sending"
  BY DEF MarkFailed, rows
<1>2. f \in Events /\ state[f] = "pending"
  BY <1>1, SendingFields
<1>3. /\ lastError' \in [Events -> {"none", "retry", "rejected"}] /\ lastError'[f] = "retry"
      /\ \A e \in Events : e # f => lastError'[e] = lastError[e]
      /\ waiting' \in [Events -> BOOLEAN]
  BY <1>1, <1>2 DEF TypeOK
<1>4. TypeOK'  BY <1>1, <1>3, IdleIsPublisher DEF TypeOK
<1>5. InHand' = {}  BY <1>1, IdleIsPublisher DEF InHand
<1>6. EventsInOrder'  BY <1>1, <1>2, <1>3 DEF EventsInOrder, Before
<1>7. HandIsPending' /\ NothingOvertaken'
  BY <1>1, <1>5, IdleIsPublisher DEF HandIsPending, NothingOvertaken
<1>8. QED
  BY <1>1, <1>4, <1>6, <1>7 DEF RowsInOrder, SentIsStored, GoneIsSettled, Before

----------------------------------------------------------------------------
\* Around the publisher.  The retention looks and deletes, and the events stay.
LEMMA RetentionMoves ==
  ASSUME OutboxInv, TypeOK', GoneIsSettled',
         UNCHANGED <<row, state, lastError, waiting, linked, reachable, inbox, publisher, failures>>
  PROVE  OutboxInv'
<1>1. InHand' = InHand /\ Pending' = Pending
  BY DEF InHand, Pending
<1>2. HandIsPending' /\ NothingOvertaken'
  BY <1>1 DEF OutboxInv, HandIsPending, NothingOvertaken, Before
<1>3. QED
  BY <1>2 DEF OutboxInv, EventsInOrder, RowsInOrder, SentIsStored, Before

LEMMA PurgeKeeps ==
  ASSUME OutboxInv,
         \/ \E e \in Events : PurgeSent(e)
         \/ \E old \in SUBSET Rows \ {{}} : SelectOld(old)
         \/ \E more \in SUBSET Rows : DeleteOld(more)
         \/ PurgeFails
  PROVE  OutboxInv'
<1> USE DEF OutboxInv
<1>1. ASSUME NEW e \in Events, PurgeSent(e)
      PROVE  OutboxInv'
  <2>1. /\ state' \in [Events -> States] /\ state'[e] = "purged"
        /\ \A f \in Events : f # e => state'[f] = state[f]
        /\ state[e] = "sent"
        /\ UNCHANGED <<row, gone, purging, late, lastError, waiting, linked, reachable, inbox,
                       publisher, failures>>
    BY <1>1 DEF TypeOK, States, PurgeSent, rows
  <2>2. InHand' = InHand /\ Pending' = Pending
    BY <2>1 DEF InHand, Pending
  <2>3. TypeOK'  BY <2>1 DEF TypeOK
  <2>4. EventsInOrder'  BY <2>1 DEF EventsInOrder, Before
  <2>5. RowsInOrder'  BY <2>1 DEF RowsInOrder, Before
  <2>6. SentIsStored' /\ GoneIsSettled'  BY <2>1 DEF SentIsStored, GoneIsSettled
  <2>7. HandIsPending' /\ NothingOvertaken'
    BY <2>1, <2>2 DEF HandIsPending, NothingOvertaken, Before
  <2>8. QED  BY <2>3, <2>4, <2>5, <2>6, <2>7
<1>2. ASSUME NEW old \in SUBSET Rows, SelectOld(old)
      PROVE  OutboxInv'
  <2>1. /\ purging' = old
        /\ late' = {e \in late : row[e] \in gone}
        /\ \A r \in old : r \notin gone /\ Confirmed(r)
        /\ UNCHANGED <<row, gone, state, lastError, waiting, linked, reachable, inbox, publisher,
                       failures>>
    BY <1>2 DEF SelectOld
  <2>2. ASSUME NEW e \in Events, row[e] \in old
        PROVE  state[e] \in {"sent", "purged", "rolledBack", "staged"}
    <3>1. state[e] # "pending"  BY <2>1, <2>2 DEF Confirmed
    <3>2. state[e] # "unused"  BY <2>2, BoundsAssumption DEF GoneIsSettled
    <3>3. QED  BY <3>1, <3>2 DEF TypeOK, States
  <2>3. GoneIsSettled'  BY <2>1, <2>2 DEF GoneIsSettled
  <2>4. TypeOK'  BY <2>1 DEF TypeOK
  <2>5. QED  BY <2>1, <2>3, <2>4, RetentionMoves
<1>3. ASSUME NEW more \in SUBSET Rows, DeleteOld(more)
      PROVE  OutboxInv'
  <2>1. /\ gone' = gone \cup purging \cup more /\ purging' = {}
        /\ \A r \in more : Joined(r)
        /\ \A r \in purging \cup more : RowFree(r)
        /\ UNCHANGED <<row, late, state, lastError, waiting, linked, reachable, inbox, publisher,
                       failures>>
    BY <1>3 DEF DeleteOld
  <2>2. ASSUME NEW e \in Events, row[e] \in purging \cup more
        PROVE  state[e] # "staged"
    BY <2>1, <2>2 DEF RowFree
  <2>3. ASSUME NEW e \in Events, row[e] \in purging, e \notin late
        PROVE  state[e] \in {"sent", "purged", "rolledBack"}
    BY <2>2, <2>3 DEF GoneIsSettled
  <2>4. ASSUME NEW e \in Events, row[e] \in more, e \notin late
        PROVE  state[e] = "rolledBack"
    BY <2>1, <2>4 DEF Joined
  <2>5. GoneIsSettled'  BY <2>1, <2>2, <2>3, <2>4 DEF GoneIsSettled
  <2>6. TypeOK'  BY <2>1 DEF TypeOK
  <2>7. QED  BY <2>1, <2>5, <2>6, RetentionMoves
<1>4. CASE PurgeFails
  <2>1. /\ purging' = {}
        /\ UNCHANGED <<row, gone, late, state, lastError, waiting, linked, reachable, inbox,
                       publisher, failures>>
    BY <1>4 DEF PurgeFails
  <2>2. GoneIsSettled' /\ TypeOK'  BY <2>1 DEF GoneIsSettled, TypeOK
  <2>3. QED  BY <2>1, <2>2, RetentionMoves
<1>5. QED  BY <1>1, <1>2, <1>3, <1>4

LEMMA SurroundingsKeep ==
  ASSUME OutboxInv,
         \/ \E e \in Events : BecomeDue(e)
         \/ LinkChanges
         \/ CloudChanges
  PROVE  OutboxInv'
<1>1. /\ UNCHANGED <<row, gone, purging, late, state, lastError, inbox, publisher, failures>>
      /\ waiting' \in [Events -> BOOLEAN] /\ linked' \in BOOLEAN /\ reachable' \in BOOLEAN
  BY DEF OutboxInv, TypeOK, BecomeDue, LinkChanges, CloudChanges, rows
<1>2. InHand' = InHand /\ Pending' = Pending
  BY <1>1 DEF InHand, Pending
<1>3. QED
  BY <1>1, <1>2 DEF OutboxInv, TypeOK, EventsInOrder, RowsInOrder, SentIsStored, GoneIsSettled,
       HandIsPending, NothingOvertaken, Before

LEMMA CrashKeeps ==
  ASSUME OutboxInv, Crash
  PROVE  OutboxInv'
<1> USE DEF OutboxInv
<1>1. /\ publisher' = Idle /\ failures' \in 0 .. MaxFailures
      /\ purging' = {}
      /\ UNCHANGED <<row, gone, late, lastError, waiting, linked, reachable, inbox>>
      /\ state' \in [Events -> States]
      /\ \A e \in Events :
           \/ state'[e] = state[e] /\ state[e] # "staged"
           \/ state'[e] = "rolledBack" /\ state[e] = "staged"
  BY BoundsAssumption DEF TypeOK, States, Crash, rows
<1>2. TypeOK'  BY <1>1, IdleIsPublisher DEF TypeOK
<1>3. InHand' = {}  BY <1>1, IdleIsPublisher DEF InHand
<1>4. EventsInOrder'  BY <1>1 DEF EventsInOrder, Before
<1>5. RowsInOrder'  BY <1>1 DEF RowsInOrder, Before
<1>6. SentIsStored' /\ GoneIsSettled'  BY <1>1 DEF SentIsStored, GoneIsSettled
<1>7. HandIsPending' /\ NothingOvertaken'
  BY <1>1, <1>3, IdleIsPublisher DEF HandIsPending, NothingOvertaken
<1>8. QED  BY <1>2, <1>4, <1>5, <1>6, <1>7

LEMMA EndBatchKeeps ==
  ASSUME OutboxInv, FinishBatch \/ (\E e \in Events : HoldQueue(e)) \/ RunFails
  PROVE  OutboxInv'
<1>1. /\ publisher' = Idle
      /\ UNCHANGED <<row, gone, purging, late, state, lastError, waiting, linked, reachable, inbox>>
      /\ failures' \in 0 .. MaxFailures
  BY BoundsAssumption DEF OutboxInv, TypeOK, FinishBatch, HoldQueue, RunFails, rows
<1>2. QED  BY <1>1, LeaveKeeps DEF OutboxInv, TypeOK

LEMMA StepKeeps ==
  ASSUME OutboxInv, [Next]_vars
  PROVE  OutboxInv'
<1>1. CASE UNCHANGED vars
  <2>1. InHand' = InHand /\ Pending' = Pending
    BY <1>1 DEF vars, InHand, Pending
  <2>2. QED
    BY <1>1, <2>1 DEF vars, OutboxInv, TypeOK, EventsInOrder, RowsInOrder, SentIsStored,
         GoneIsSettled, HandIsPending, NothingOvertaken, Before
<1>2. CASE Publish
  BY <1>2, StartKeeps, EndBatchKeeps, SkipKeeps, SendKeeps, MarkSentKeeps, MarkRejectedKeeps,
     MarkFailedKeeps DEF Publish
<1>3. CASE Next /\ ~Publish
  BY <1>3, CaptureKeeps, EndChangeKeeps, StoreKeeps, PurgeKeeps, SurroundingsKeep, CrashKeeps,
     EndBatchKeeps DEF Next
<1>4. QED  BY <1>1, <1>2, <1>3

----------------------------------------------------------------------------
\* The order of the events, what the publisher holds and what it may leave
\* behind: inductive, whatever the batch size and the refused events.
THEOREM OutboxInvariant == Spec => []OutboxInv
<1>1. Init => OutboxInv  BY InitInv
<1>2. OutboxInv /\ [Next]_vars => OutboxInv'  BY StepKeeps
<1>3. QED  BY <1>1, <1>2, PTL DEF Spec

\* Whatever is marked as sent or purged has reached the cloud, and so have the changes of
\* a deleted row that the retention could see: through outages, lost answers and restarts.
THEOREM NoEventLost == Spec => []NothingLost
<1>1. OutboxInv => NothingLost
  BY DEF OutboxInv, SentIsStored, GoneIsSettled, NothingLost
<1>2. QED  BY <1>1, OutboxInvariant, PTL

----------------------------------------------------------------------------
\* An event enters the cloud only as the one that is being sent.
LEMMA OnlySentArrive ==
  ASSUME OutboxInv, [Next]_vars, NEW f \in inbox' \ inbox
  PROVE  publisher.pc = "sending" /\ f = publisher.event
<1>1. CASE CloudStores  BY <1>1 DEF CloudStores
<1>2. CASE ~CloudStores
  <2>1. inbox' = inbox
    BY <1>2 DEF Next, vars, Publish, Capture, CommitChange, RollbackChange, StartBatch, FinishBatch,
         SkipRejected, HoldQueue, Send, MarkSent, MarkRejected, MarkFailed, BecomeDue, PurgeSent,
         SelectOld, DeleteOld, PurgeFails, LinkChanges, CloudChanges, Crash, RunFails
  <2>2. QED  BY <2>1
<1>3. QED  BY <1>1, <1>2

\* Before the event on its way, only what was in nobody's hands is pending.
LEMMA AheadOfSent ==
  ASSUME OutboxInv, publisher.pc = "sending", NEW e \in Before(publisher.event),
         state[e] = "pending"
  PROVE  lastError[e] # "retry" /\ (row[e] = row[publisher.event] => e \in Refused)
<1>1. InHand = publisher.todo \cup {publisher.event} /\ publisher.event \in Events
  BY SendingFields
<1>2. e \in Events /\ e < publisher.event /\ Events \subseteq Int
  BY DEF Before, Events
<1>3. \A g \in publisher.todo : g \in Int /\ publisher.event < g
  BY <1>1, <1>2 DEF OutboxInv, HandIsPending, Pending
<1>4. e \notin InHand
  <2>1. e # publisher.event  BY <1>1, <1>2
  <2>2. ASSUME e \in publisher.todo
        PROVE  FALSE
    <3>1. e \in Int /\ publisher.event \in Int  BY <1>1, <1>2
    <3>2. publisher.event < e  BY <1>3, <2>2
    <3>3. e < publisher.event  BY <1>2
    <3>4. QED  BY <3>1, <3>2, <3>3
  <2>3. QED  BY <1>1, <2>1, <2>2
<1>5. QED  BY <1>1, <1>2, <1>4 DEF OutboxInv, NothingOvertaken, Pending

\* A temporary failure holds the queue, whatever becomes visible or due meanwhile.
THEOREM QueueIsHeld == Spec => HeadHoldsQueue
<1>1. ASSUME OutboxInv, [Next]_vars, NEW f \in inbox' \ inbox, NEW e \in Before(f)
      PROVE  ~(state[e] = "pending" /\ lastError[e] = "retry")
  BY <1>1, OnlySentArrive, AheadOfSent
<1>2. OutboxInv /\ [Next]_vars =>
        [\A f \in inbox' \ inbox : \A e \in Before(f) :
           ~(state[e] = "pending" /\ lastError[e] = "retry")]_vars
  BY <1>1
<1>3. QED  BY <1>2, OutboxInvariant, PTL DEF Spec, HeadHoldsQueue

\* The changes of one row arrive in order, although transactions commit in any.
THEOREM RowsArriveInOrder == Spec => RowOrder
<1>1. ASSUME OutboxInv, [Next]_vars, NEW f \in inbox' \ inbox, NEW e \in Before(f),
             row[e] = row[f], state[e] # "rolledBack"
      PROVE  e \in inbox \cup Refused
  <2>1. publisher.pc = "sending" /\ f = publisher.event
    BY <1>1, OnlySentArrive
  <2>2. f \in Events /\ state[f] = "pending"
    BY <1>1, <2>1, SendingFields
  <2>3. e \in Events /\ state[e] # "unused" /\ state[e] # "staged"
    BY <1>1, <2>2 DEF OutboxInv, EventsInOrder, RowsInOrder, Before
  <2>4. CASE state[e] = "pending"
    BY <1>1, <2>1, <2>4, AheadOfSent
  <2>5. CASE state[e] \in {"sent", "purged"}
    BY <1>1, <2>3, <2>5 DEF OutboxInv, SentIsStored
  <2>6. QED
    BY <1>1, <2>3, <2>4, <2>5 DEF OutboxInv, TypeOK, States
<1>2. OutboxInv /\ [Next]_vars =>
        [\A f \in inbox' \ inbox : \A e \in Before(f) :
           row[e] = row[f] /\ state[e] # "rolledBack" => e \in inbox \cup Refused]_vars
  BY <1>1
<1>3. QED  BY <1>2, OutboxInvariant, PTL DEF Spec, RowOrder

----------------------------------------------------------------------------
\* Users and logins (Access).

SyncState ==
       [pc : {"idle"}]
  \cup [pc : {"apply", "note"}, version : Nat, users : [Users -> CloudUser],
        profiles : [Profiles -> PermissionProfile]]

\* A copy has a password the cloud had for the user, and its age counts from the last
\* login that the cloud accepted.
IsVouched(usuario, u) ==
  /\ usuario.password \in known[u]
  /\ usuario.lastCloudCheckAt # 0 => usuario.lastCloudCheckAt = accepted[u]

CloudIsKnown ==
  /\ \A u \in Users : cloudUsers[u].password \in known[u]
  /\ sync.pc # "idle" => \A u \in Users : sync.users[u].password \in known[u]

CopiesAreVouched == \A u \in Users : users[u] # None => IsVouched(users[u], u)

\* What a login read, from the copy or from the cloud, is a password the cloud had.
LoginsRead ==
  \A l \in Logins :
    /\ (logins[l].pc \in {"ask", "fetch", "offline"} /\ logins[l].copy # None) =>
         logins[l].copy.password \in known[logins[l].user]
    /\ logins[l].pc \in {"profile", "user"} => logins[l].remote.password \in known[logins[l].user]

AcceptedBefore == \A u \in Users : accepted[u] <= today

AccessInv ==
  /\ AccessTypeOK
  /\ CloudIsKnown
  /\ CopiesAreVouched
  /\ LoginsRead
  /\ AcceptedBefore
  /\ OfflineIsVouched

LEMMA LoginFields ==
  ASSUME NEW login \in LoginState
  PROVE  /\ login.pc # "idle" => login.user \in Users
         /\ login.pc \in {"ask", "fetch", "offline"} =>
              login.password \in Passwords /\ login.copy \in Usuario \cup {None}
         /\ login.pc \in {"profile", "user"} => login.remote \in CloudUser
         /\ login.pc = "profile" => login.content \in PermissionProfile
         /\ login.pc = "issue" =>
              /\ login.password \in Passwords /\ login.profile \in Profiles
              /\ login.offline \in BOOLEAN /\ login.day \in 1 .. MaxDay
BY DEF LoginState

LEMMA LoginGoesOn ==
  ASSUME NEW login \in LoginState, login.pc \in {"ask", "fetch", "offline"},
         NEW pc \in {"ask", "fetch", "offline"}, NEW next, next = [login EXCEPT !.pc = pc]
  PROVE  /\ next \in LoginState
         /\ next.pc = pc /\ next.user = login.user /\ next.copy = login.copy
BY DEF LoginState

LEMMA RequestFields ==
  ASSUME NEW request \in RequestState
  PROVE  /\ request.pc # "idle" => request.user \in Users
         /\ request.pc \in {"profile", "renew"} => request.profile \in Profiles
         /\ request.pc = "granted" => request.modules \in SUBSET Modules
BY DEF RequestState

LEMMA UsuarioFields ==
  ASSUME NEW usuario \in Usuario
  PROVE  /\ usuario.estado \in BOOLEAN /\ usuario.password \in Passwords /\ usuario.profile \in Profiles
         /\ usuario.lastCloudCheckAt \in 0 .. MaxDay
BY DEF Usuario

LEMMA CloudFields ==
  ASSUME NEW c \in CloudUser
  PROVE  c.access \in {"active", "inactive", "none"} /\ c.password \in Passwords /\ c.profile \in Profiles
BY DEF CloudUser

LEMMA ProfileFields ==
  ASSUME NEW p \in PermissionProfile
  PROVE  p.estado \in BOOLEAN /\ p.modules \in SUBSET Modules
BY DEF PermissionProfile

LEMMA IdleStates ==
  Idle \in LoginState /\ Idle \in RequestState /\ Idle \in SyncState /\ Idle.pc = "idle"
BY DEF Idle, LoginState, RequestState, SyncState

\* A login that was idle or read what the cloud had, and is not granted without it.
LoginIsSound(login) ==
  /\ (login.pc \in {"ask", "fetch", "offline"} /\ login.copy # None) =>
       login.copy.password \in known[login.user]
  /\ login.pc \in {"profile", "user"} => login.remote.password \in known[login.user]
  /\ (login.pc = "issue" /\ login.offline) =>
       /\ login.password \in known[login.user]
       /\ accepted[login.user] # 0
       /\ login.day - accepted[login.user] <= MaxAge

\* A step of a login that writes no row.
LEMMA LoginKeeps ==
  ASSUME AccessInv, NEW l \in Logins, NEW login \in LoginState, LoginIsSound(login),
         logins' = [logins EXCEPT ![l] = login],
         UNCHANGED <<today, cloudVars, users, syncVars, requests, accepted, faults>>,
         profiles' \in [Profiles -> PermissionProfile \cup {None}],
         tokens' \subseteq [user : Users, until : Nat]
  PROVE  AccessInv'
<1>1. /\ today' = today /\ cloudUsers' = cloudUsers /\ cloudProfiles' = cloudProfiles
      /\ version' = version /\ known' = known /\ users' = users /\ noted' = noted /\ sync' = sync
      /\ requests' = requests /\ accepted' = accepted /\ faults' = faults
  BY DEF cloudVars, syncVars
<1>2. logins \in [Logins -> LoginState]
  BY DEF AccessInv, AccessTypeOK
<1>3. /\ logins'[l] = login
      /\ \A k \in Logins : k # l => logins'[k] = logins[k]
      /\ logins' \in [Logins -> LoginState]
  BY <1>2
<1>4. AccessTypeOK'
  BY <1>1, <1>3 DEF AccessInv, AccessTypeOK
<1>5. LoginsRead'
  BY <1>1, <1>3 DEF AccessInv, LoginsRead, LoginIsSound
<1>6. OfflineIsVouched'
  BY <1>1, <1>3 DEF AccessInv, OfflineIsVouched, LoginIsSound
<1>7. CloudIsKnown' /\ CopiesAreVouched' /\ AcceptedBefore'
  BY <1>1 DEF AccessInv, CloudIsKnown, CopiesAreVouched, IsVouched, AcceptedBefore
<1>8. QED  BY <1>4, <1>5, <1>6, <1>7 DEF AccessInv

\* A step of a request.
LEMMA RequestKeeps ==
  ASSUME AccessInv, UNCHANGED RequestVars,
         requests' \in [Requests -> RequestState],
         tokens' \subseteq [user : Users, until : Nat]
  PROVE  AccessInv'
<1>1. /\ today' = today /\ cloudUsers' = cloudUsers /\ cloudProfiles' = cloudProfiles
      /\ version' = version /\ known' = known /\ users' = users /\ profiles' = profiles
      /\ noted' = noted /\ sync' = sync
      /\ logins' = logins /\ accepted' = accepted /\ faults' = faults
  BY DEF RequestVars, cloudVars, syncVars, copyVars
<1>2. AccessTypeOK'
  BY <1>1 DEF AccessInv, AccessTypeOK
<1>3. QED
  BY <1>1, <1>2 DEF AccessInv, CloudIsKnown, CopiesAreVouched, IsVouched, AcceptedBefore, LoginsRead,
       OfflineIsVouched

LEMMA IssuedTyped ==
  ASSUME AccessInv, NEW u \in Users, NEW p
  PROVE  Issued(u, p) \subseteq [user : Users, until : Nat]
BY AccessAssumption DEF AccessInv, AccessTypeOK, Issued

LEMMA LoginBegins ==
  ASSUME AccessInv, NEW l \in Logins, NEW u \in Users, NEW password \in Passwords,
         Login(l, u, password)
  PROVE  AccessInv'
<1>. DEFINE login == [pc |-> "ask", user |-> u, password |-> password, copy |-> users[u]]
<1>1. users[u] \in Usuario \cup {None}
  BY DEF AccessInv, AccessTypeOK
<1>2. login \in LoginState
  BY <1>1 DEF LoginState
<1>3. LoginIsSound(login)
  BY DEF LoginIsSound, AccessInv, CopiesAreVouched, IsVouched
<1>4. logins' = [logins EXCEPT ![l] = login]
  BY DEF Login, Becomes
<1>. HIDE DEF login
<1>5. QED  BY <1>2, <1>3, <1>4, LoginKeeps DEF Login, LoginVars, copyVars, AccessInv, AccessTypeOK

LEMMA LoginGivesUp ==
  ASSUME AccessInv, NEW l \in Logins, Becomes(l, Idle),
         UNCHANGED <<LoginVars, copyVars, tokens, accepted>>
  PROVE  AccessInv'
<1>1. Idle \in LoginState /\ LoginIsSound(Idle)
  BY IdleStates DEF LoginIsSound
<1>2. QED  BY <1>1, LoginKeeps DEF Becomes, LoginVars, copyVars, AccessInv, AccessTypeOK

\* The login goes on, with what it remembers.
LEMMA LoginAsksOn ==
  ASSUME AccessInv, NEW l \in Logins, logins[l].pc \in {"ask", "fetch", "offline"},
         NEW pc \in {"ask", "fetch", "offline"},
         logins' = [logins EXCEPT ![l].pc = pc],
         UNCHANGED <<LoginVars, copyVars, tokens, accepted>>
  PROVE  AccessInv'
<1>1. logins[l] \in LoginState
  BY DEF AccessInv, AccessTypeOK
<1>2. PICK next : next = [logins[l] EXCEPT !.pc = pc]
  OBVIOUS
<1>3. logins' = [logins EXCEPT ![l] = next]
  BY <1>2
<1>4. next \in LoginState /\ next.pc = pc /\ next.user = logins[l].user /\ next.copy = logins[l].copy
  BY <1>1, <1>2, LoginGoesOn
<1>5. LoginIsSound(next)
  BY <1>4 DEF LoginIsSound, AccessInv, LoginsRead
<1>6. QED  BY <1>3, <1>4, <1>5, LoginKeeps DEF LoginVars, copyVars, AccessInv, AccessTypeOK

LEMMA AskCloudKeeps ==
  ASSUME AccessInv, NEW l \in Logins, AskCloud(l)
  PROVE  AccessInv'
<1>1. logins[l].pc = "ask" /\ UNCHANGED <<LoginVars, copyVars, tokens, accepted>>
  BY DEF AskCloud
<1>2. logins' = [logins EXCEPT ![l].pc = "fetch"] \/ Becomes(l, Idle)
  BY DEF AskCloud
<1>3. QED  BY <1>1, <1>2, LoginAsksOn, LoginGivesUp

LEMMA CloudUnavailableKeeps ==
  ASSUME AccessInv, NEW l \in Logins, CloudUnavailable(l)
  PROVE  AccessInv'
<1>1. /\ logins[l].pc \in {"ask", "fetch"}
      /\ logins' = [logins EXCEPT ![l].pc = "offline"]
      /\ UNCHANGED <<LoginVars, copyVars, tokens, accepted>>
  BY DEF CloudUnavailable
<1>2. QED  BY <1>1, LoginAsksOn

LEMMA FetchUserKeeps ==
  ASSUME AccessInv, NEW l \in Logins, FetchUser(l)
  PROVE  AccessInv'
<1>. DEFINE u == logins[l].user
            c == cloudUsers[u]
            content == cloudProfiles[c.profile]
            login == [pc |-> "profile", user |-> u, remote |-> c, content |-> content]
<1>1. u \in Users
  BY LoginFields DEF FetchUser, AccessInv, AccessTypeOK
<1>2. c \in CloudUser /\ c.password \in known[u]
  BY <1>1 DEF AccessInv, AccessTypeOK, CloudIsKnown
<1>3. content \in PermissionProfile
  BY <1>2, CloudFields DEF AccessInv, AccessTypeOK
<1>4. UNCHANGED <<LoginVars, copyVars, tokens, accepted>>
  BY DEF FetchUser
<1>5. Becomes(l, login) \/ Becomes(l, Idle)
  BY DEF FetchUser
<1>6. login \in LoginState /\ LoginIsSound(login)
  <2>. HIDE DEF u, c, content
  <2>1. QED  BY <1>1, <1>2, <1>3 DEF LoginState, LoginIsSound
<1>. HIDE DEF login
<1>7. CASE Becomes(l, login)
  BY <1>4, <1>6, <1>7, LoginKeeps DEF Becomes, LoginVars, copyVars, AccessInv, AccessTypeOK
<1>8. QED  BY <1>4, <1>5, <1>7, LoginGivesUp

LEMMA UpsertProfileKeeps ==
  ASSUME AccessInv, NEW l \in Logins, UpsertProfile(l)
  PROVE  AccessInv'
<1>. DEFINE u == logins[l].user
            c == logins[l].remote
            login == [pc |-> "user", user |-> u, remote |-> c]
<1>1. logins[l].pc = "profile" /\ logins[l] \in LoginState
  BY DEF UpsertProfile, AccessInv, AccessTypeOK
<1>2. u \in Users /\ c \in CloudUser /\ logins[l].content \in PermissionProfile /\ c.profile \in Profiles
  BY <1>1, LoginFields, CloudFields
<1>3. c.password \in known[u]
  BY <1>1 DEF AccessInv, LoginsRead
<1>4. profiles' = [profiles EXCEPT ![c.profile] = logins[l].content]
  BY DEF UpsertProfile
<1>5. profiles' \in [Profiles -> PermissionProfile \cup {None}]
  BY <1>2, <1>4 DEF AccessInv, AccessTypeOK
<1>6. logins' = [logins EXCEPT ![l] = login] /\ UNCHANGED <<LoginVars, users, tokens, accepted>>
  BY DEF UpsertProfile, Becomes
<1>7. login \in LoginState /\ LoginIsSound(login)
  <2>. HIDE DEF u, c
  <2>1. QED  BY <1>2, <1>3 DEF LoginState, LoginIsSound
<1>. HIDE DEF login
<1>8. QED  BY <1>5, <1>6, <1>7, LoginKeeps DEF LoginVars, AccessInv, AccessTypeOK

LEMMA UpsertUserKeeps ==
  ASSUME AccessInv, NEW l \in Logins, UpsertUser(l)
  PROVE  AccessInv'
<1>. DEFINE u == logins[l].user
            c == logins[l].remote
            usuario == CheckedUser(users[u], c)
            login == [pc |-> "issue", user |-> u, password |-> c.password,
                      profile |-> c.profile, offline |-> FALSE, day |-> today]
<1>1. logins[l].pc = "user" /\ logins[l] \in LoginState
  BY DEF UpsertUser, AccessInv, AccessTypeOK
<1>2. u \in Users /\ c \in CloudUser
  BY <1>1, LoginFields
<1>3. c.password \in Passwords /\ c.profile \in Profiles /\ c.password \in known[u]
  BY <1>1, <1>2, CloudFields DEF AccessInv, LoginsRead
<1>4. today \in 1 .. MaxDay /\ today \in 0 .. MaxDay
  BY AccessAssumption DEF AccessInv, AccessTypeOK
<1>5. CASE c.access = "active"
  <2>1. /\ users' = [users EXCEPT ![u] = usuario]
        /\ accepted' = [accepted EXCEPT ![u] = today]
        /\ logins' = [logins EXCEPT ![l] = login]
    BY <1>5 DEF UpsertUser, Becomes
  <2>2. UNCHANGED <<today, cloudUsers, cloudProfiles, version, known, noted, sync, requests, faults,
                    profiles, tokens>>
    BY DEF UpsertUser, LoginVars, cloudVars, syncVars
  <2>3. usuario \in Usuario /\ usuario.password = c.password /\ usuario.lastCloudCheckAt = today
    <3>1. (c.access = "active") \in BOOLEAN  OBVIOUS
    <3>. HIDE DEF u, c
    <3>2. QED  BY <1>3, <1>4, <3>1 DEF CheckedUser, Usuario
  <2>4. /\ login \in LoginState
        /\ login.pc = "issue" /\ ~login.offline
    <3>. HIDE DEF u, c
    <3>1. QED  BY <1>2, <1>3, <1>4 DEF LoginState
  <2>. HIDE DEF usuario, login, u, c
  <2>5. AccessTypeOK'
    BY <1>2, <1>4, <2>1, <2>2, <2>3, <2>4 DEF AccessInv, AccessTypeOK
  <2>6. CloudIsKnown'
    BY <2>2 DEF AccessInv, CloudIsKnown
  <2>7. CopiesAreVouched'
    <3>1. ASSUME NEW v \in Users, users'[v] # None
          PROVE  /\ users'[v].password \in known'[v]
                 /\ users'[v].lastCloudCheckAt # 0 => users'[v].lastCloudCheckAt = accepted'[v]
      <4>1. CASE v = u
        <5>1. users'[v] = usuario /\ accepted'[v] = today
          BY <2>1, <4>1 DEF AccessInv, AccessTypeOK
        <5>2. QED  BY <1>3, <2>2, <2>3, <4>1, <5>1
      <4>2. CASE v # u
        <5>1. users'[v] = users[v] /\ accepted'[v] = accepted[v]
          BY <2>1, <4>2 DEF AccessInv, AccessTypeOK
        <5>2. QED  BY <2>2, <3>1, <5>1 DEF AccessInv, CopiesAreVouched, IsVouched
      <4>3. QED  BY <4>1, <4>2
    <3>2. QED  BY <3>1 DEF CopiesAreVouched, IsVouched
  <2>8. LoginsRead'
    <3>1. \A k \in Logins : logins'[k] = IF k = l THEN login ELSE logins[k]
      BY <2>1 DEF AccessInv, AccessTypeOK
    <3>2. QED  BY <2>2, <2>4, <3>1 DEF AccessInv, LoginsRead
  <2>9. AcceptedBefore'
    BY <1>4, <2>1, <2>2 DEF AccessInv, AccessTypeOK, AcceptedBefore
  <2>10. OfflineIsVouched'
    <3>1. ASSUME NEW k \in Logins, logins'[k].pc = "issue", logins'[k].offline
          PROVE  /\ logins'[k].password \in known'[logins'[k].user]
                 /\ accepted'[logins'[k].user] # 0
                 /\ logins'[k].day - accepted'[logins'[k].user] <= MaxAge
      <4>1. k # l /\ logins'[k] = logins[k]
        BY <2>1, <2>4, <3>1 DEF AccessInv, AccessTypeOK
      <4>2. /\ logins[k].user \in Users /\ logins[k].day \in Nat
            /\ logins[k].password \in known[logins[k].user]
            /\ accepted[logins[k].user] # 0
            /\ logins[k].day - accepted[logins[k].user] <= MaxAge
        BY <3>1, <4>1, LoginFields DEF AccessInv, AccessTypeOK, OfflineIsVouched
      <4>3. /\ accepted[logins[k].user] \in Nat
            /\ accepted'[logins[k].user] = accepted[logins[k].user] \/ accepted'[logins[k].user] = today
            /\ accepted[logins[k].user] <= today
        BY <2>1, <4>2 DEF AccessInv, AccessTypeOK, AcceptedBefore
      <4>4. QED  BY <1>4, <2>2, <4>1, <4>2, <4>3, AccessAssumption
    <3>2. QED  BY <3>1 DEF OfflineIsVouched
  <2>11. QED  BY <2>5, <2>6, <2>7, <2>8, <2>9, <2>10 DEF AccessInv
<1>6. CASE c.access # "active"
  BY <1>6, LoginGivesUp DEF UpsertUser, copyVars
<1>7. QED  BY <1>5, <1>6

LEMMA LoginOfflineKeeps ==
  ASSUME AccessInv, NEW l \in Logins, LoginOffline(l)
  PROVE  AccessInv'
<1>. DEFINE copy == logins[l].copy
            u == logins[l].user
            login == [pc |-> "issue", user |-> u, password |-> copy.password,
                      profile |-> copy.profile, offline |-> TRUE, day |-> today]
<1>1. logins[l].pc = "offline" /\ logins[l] \in LoginState
  BY DEF LoginOffline, AccessInv, AccessTypeOK
<1>2. u \in Users /\ copy \in Usuario \cup {None}
  BY <1>1, LoginFields
<1>3. today \in 1 .. MaxDay
  BY DEF AccessInv, AccessTypeOK
<1>4. UNCHANGED <<LoginVars, copyVars, tokens, accepted>>
  BY DEF LoginOffline
<1>5. CASE copy # None /\ OfflineLoginAllowed(users[u]) /\ Becomes(l, login)
  <2>1. copy.password \in Passwords /\ copy.profile \in Profiles /\ copy.password \in known[u]
    BY <1>1, <1>2, <1>5, UsuarioFields DEF AccessInv, LoginsRead
  <2>2. /\ accepted[u] = users[u].lastCloudCheckAt
        /\ accepted[u] # 0 /\ today - accepted[u] <= MaxAge
    BY <1>2, <1>5 DEF OfflineLoginAllowed, AccessInv, CopiesAreVouched, IsVouched
  <2>3. /\ login \in LoginState
        /\ login.pc = "issue" /\ login.user = u /\ login.password = copy.password /\ login.day = today
    <3>. HIDE DEF u, copy
    <3>1. QED  BY <1>2, <1>3, <2>1 DEF LoginState
  <2>. HIDE DEF login, u, copy
  <2>4. LoginIsSound(login)
    BY <2>1, <2>2, <2>3 DEF LoginIsSound
  <2>5. QED
    BY <1>4, <1>5, <2>3, <2>4, LoginKeeps DEF Becomes, LoginVars, copyVars, AccessInv, AccessTypeOK
<1>6. CASE Becomes(l, Idle)
  BY <1>4, <1>6, LoginGivesUp
<1>7. QED  BY <1>5, <1>6 DEF LoginOffline

LEMMA IssueSessionKeeps ==
  ASSUME AccessInv, NEW l \in Logins, IssueSession(l)
  PROVE  AccessInv'
<1>1. logins[l].user \in Users
  BY LoginFields DEF IssueSession, AccessInv, AccessTypeOK
<1>2. tokens' \subseteq [user : Users, until : Nat]
  BY <1>1, IssuedTyped DEF IssueSession
<1>3. Idle \in LoginState /\ LoginIsSound(Idle)
  BY IdleStates DEF LoginIsSound
<1>4. QED
  BY <1>2, <1>3, LoginKeeps DEF IssueSession, Becomes, LoginVars, copyVars, AccessInv, AccessTypeOK

LEMMA LoginStepKeeps ==
  ASSUME AccessInv, NEW l \in Logins, LoginStep(l)
  PROVE  AccessInv'
BY LoginBegins, AskCloudKeeps, CloudUnavailableKeeps, FetchUserKeeps, UpsertProfileKeeps,
   UpsertUserKeeps, LoginOfflineKeeps, IssueSessionKeeps DEF LoginStep

LEMMA RequestStepKeeps ==
  ASSUME AccessInv, NEW r \in Requests, RequestStep(r)
  PROVE  AccessInv'
<1>. USE DEF AccessInv, AccessTypeOK
<1>1. ASSUME NEW t \in tokens, RequireAuth(r, t)
      PROVE  AccessInv'
  <2>. DEFINE usuario == users[t.user]
              request == [pc |-> "profile", user |-> t.user, profile |-> usuario.profile]
  <2>1. t.user \in Users
    OBVIOUS
  <2>2. usuario \in Usuario
    BY <1>1, <2>1 DEF RequireAuth
  <2>3. usuario.profile \in Profiles
    BY <2>2, UsuarioFields
  <2>4. request \in RequestState
    <3>. HIDE DEF usuario
    <3>1. QED  BY <2>1, <2>3 DEF RequestState
  <2>5. requests' = [requests EXCEPT ![r] = request] /\ UNCHANGED <<RequestVars, tokens>>
    BY <1>1 DEF RequireAuth
  <2>. HIDE DEF request
  <2>6. QED  BY <2>4, <2>5, RequestKeeps
<1>2. ASSUME FindProfile(r)
      PROVE  AccessInv'
  <2>. DEFINE p == requests[r].profile
              request == [pc |-> "granted", user |-> requests[r].user, modules |-> profiles[p].modules]
  <2>1. requests[r].user \in Users /\ p \in Profiles
    BY <1>2, RequestFields DEF FindProfile
  <2>2. CASE CanIssue(p)
    <3>1. profiles[p] \in PermissionProfile
      BY <2>1, <2>2 DEF CanIssue
    <3>2. profiles[p].modules \in SUBSET Modules
      BY <3>1, ProfileFields
    <3>3. request \in RequestState
      BY <2>1, <3>2 DEF RequestState
    <3>4. requests' = [requests EXCEPT ![r] = request] /\ UNCHANGED <<RequestVars, tokens>>
      BY <1>2, <2>2 DEF FindProfile
    <3>. HIDE DEF request
    <3>5. QED  BY <3>3, <3>4, RequestKeeps
  <2>3. CASE ~CanIssue(p)
    <3>1. requests' = [requests EXCEPT ![r] = Idle] /\ UNCHANGED <<RequestVars, tokens>>
      BY <1>2, <2>3 DEF FindProfile
    <3>2. QED  BY <3>1, IdleStates, RequestKeeps
  <2>4. QED  BY <2>2, <2>3
<1>3. ASSUME Answer(r)
      PROVE  AccessInv'
  BY <1>3, IdleStates, RequestKeeps DEF Answer
<1>4. ASSUME RenewToken(r)
      PROVE  AccessInv'
  <2>. DEFINE u == requests[r].user
              usuario == users[u]
              request == [pc |-> "renew", user |-> u, profile |-> usuario.profile]
  <2>1. u \in Users
    BY <1>4, RequestFields DEF RenewToken
  <2>2. CASE usuario # None /\ usuario.estado
    <3>1. usuario \in Usuario
      BY <2>1, <2>2
    <3>2. usuario.profile \in Profiles
      BY <3>1, UsuarioFields
    <3>3. request \in RequestState
      <4>. HIDE DEF u, usuario
      <4>1. QED  BY <2>1, <3>2 DEF RequestState
    <3>4. requests' = [requests EXCEPT ![r] = request] /\ UNCHANGED <<RequestVars, tokens>>
      BY <1>4, <2>2 DEF RenewToken
    <3>. HIDE DEF request
    <3>5. QED  BY <3>3, <3>4, RequestKeeps
  <2>3. CASE ~(usuario # None /\ usuario.estado)
    <3>1. requests' = [requests EXCEPT ![r] = Idle] /\ UNCHANGED <<RequestVars, tokens>>
      BY <1>4, <2>3 DEF RenewToken
    <3>2. QED  BY <3>1, IdleStates, RequestKeeps
  <2>4. QED  BY <2>2, <2>3
<1>5. ASSUME IssueRenewal(r)
      PROVE  AccessInv'
  <2>1. requests[r].user \in Users
    BY <1>5, RequestFields DEF IssueRenewal
  <2>2. tokens' \subseteq [user : Users, until : Nat]
    BY <1>5, <2>1, IssuedTyped DEF IssueRenewal
  <2>3. requests' \in [Requests -> RequestState] /\ UNCHANGED RequestVars
    BY <1>5, IdleStates DEF IssueRenewal
  <2>4. QED  BY <2>2, <2>3, RequestKeeps
<1>6. QED  BY <1>1, <1>2, <1>3, <1>4, <1>5 DEF RequestStep

\* The copies, the logins and what the cloud accepted stay as they are.
LEMMA CloudMoves ==
  ASSUME AccessInv, AccessTypeOK', CloudIsKnown',
         UNCHANGED <<today, users, logins, accepted>>,
         \A u \in Users : known[u] \subseteq known'[u]
  PROVE  AccessInv'
<1>1. CopiesAreVouched'
  BY DEF AccessInv, CopiesAreVouched, IsVouched
<1>2. LoginsRead' /\ OfflineIsVouched'
  <2>1. \A l \in Logins : logins[l].pc # "idle" => logins[l].user \in Users
    BY LoginFields DEF AccessInv, AccessTypeOK
  <2>2. QED  BY <2>1 DEF AccessInv, LoginsRead, OfflineIsVouched
<1>3. AcceptedBefore'
  BY DEF AccessInv, AcceptedBefore
<1>4. QED  BY <1>1, <1>2, <1>3 DEF AccessInv

LEMMA NextDayKeeps ==
  ASSUME AccessInv, NextDay
  PROVE  AccessInv'
<1>1. /\ today < MaxDay /\ today' = today + 1
      /\ UNCHANGED <<cloudUsers, cloudProfiles, version, known, users, profiles, noted, sync, tokens,
                     logins, requests, accepted, faults>>
  BY DEF NextDay, cloudVars, copyVars, syncVars
<1>2. AccessTypeOK'
  BY <1>1, AccessAssumption DEF AccessInv, AccessTypeOK
<1>3. CloudIsKnown' /\ CopiesAreVouched' /\ LoginsRead' /\ OfflineIsVouched'
  BY <1>1 DEF AccessInv, CloudIsKnown, CopiesAreVouched, IsVouched, LoginsRead, OfflineIsVouched
<1>4. AcceptedBefore'
  BY <1>1, AccessAssumption DEF AccessInv, AccessTypeOK, AcceptedBefore
<1>5. QED  BY <1>2, <1>3, <1>4 DEF AccessInv

LEMMA CloudChangeKeeps ==
  ASSUME AccessInv, CloudChange
  PROVE  AccessInv'
<1>1. PICK us \in [Users -> CloudUser], ps \in [Profiles -> PermissionProfile] : CloudBecomes(us, ps)
  <2>1. CASE \E u \in Users, c \in CloudUser :
               c # cloudUsers[u] /\ CloudBecomes([cloudUsers EXCEPT ![u] = c], cloudProfiles)
    BY <2>1 DEF AccessInv, AccessTypeOK
  <2>2. CASE \E p \in Profiles, c \in PermissionProfile :
               c # cloudProfiles[p] /\ CloudBecomes(cloudUsers, [cloudProfiles EXCEPT ![p] = c])
    BY <2>2 DEF AccessInv, AccessTypeOK
  <2>3. QED  BY <2>1, <2>2 DEF CloudChange
<1>2. /\ version' = version + 1 /\ cloudUsers' = us /\ cloudProfiles' = ps /\ known' = Learnt(known, us)
      /\ UNCHANGED <<today, users, profiles, noted, sync, tokens, logins, requests, accepted, faults>>
  BY <1>1 DEF CloudBecomes, copyVars, syncVars
<1>3. \A u \in Users : us[u].password \in Passwords
  BY CloudFields
<1>4. /\ known' \in [Users -> SUBSET Passwords]
      /\ \A u \in Users : known'[u] = known[u] \cup {us[u].password}
  BY <1>2, <1>3 DEF Learnt, AccessInv, AccessTypeOK
<1>5. AccessTypeOK'
  BY <1>2, <1>4 DEF AccessInv, AccessTypeOK
<1>6. CloudIsKnown'
  BY <1>2, <1>4 DEF AccessInv, CloudIsKnown
<1>7. QED  BY <1>2, <1>4, <1>5, <1>6, CloudMoves

LEMMA SyncFields ==
  ASSUME NEW syncing \in SyncState, syncing.pc # "idle"
  PROVE  /\ syncing.version \in Nat /\ syncing.users \in [Users -> CloudUser]
         /\ syncing.profiles \in [Profiles -> PermissionProfile]
         /\ [syncing EXCEPT !.pc = "note"] \in SyncState
         /\ [syncing EXCEPT !.pc = "note"].users = syncing.users
BY DEF SyncState

LEMMA SyncTyped == AccessInv => sync \in SyncState
BY DEF AccessInv, AccessTypeOK, SyncState

\* The sync moves on and writes no row.
LEMMA SyncKeeps ==
  ASSUME AccessInv, sync' \in SyncState,
         sync'.pc # "idle" => sync'.users = cloudUsers,
         noted' \in Nat, faults' \in 0 .. MaxFaults,
         UNCHANGED <<today, cloudVars, copyVars, tokens, logins, requests, accepted>>
  PROVE  AccessInv'
<1>1. UNCHANGED <<today, cloudUsers, cloudProfiles, version, known, users, profiles, tokens, logins,
                  requests, accepted>>
  BY DEF cloudVars, copyVars
<1>2. AccessTypeOK'
  BY <1>1 DEF AccessInv, AccessTypeOK, SyncState
<1>3. CloudIsKnown'
  BY <1>1 DEF AccessInv, CloudIsKnown
<1>4. QED  BY <1>1, <1>2, <1>3, CloudMoves

LEMMA SyncFetchKeeps ==
  ASSUME AccessInv, SyncFetch
  PROVE  AccessInv'
<1>. DEFINE syncing == [pc |-> "apply", version |-> version, users |-> cloudUsers, profiles |-> cloudProfiles]
<1>1. syncing \in SyncState /\ syncing.users = cloudUsers
  BY DEF AccessInv, AccessTypeOK, SyncState
<1>2. sync' = syncing
  BY DEF SyncFetch
<1>. HIDE DEF syncing
<1>3. QED  BY <1>1, <1>2, SyncKeeps DEF SyncFetch, AccessInv, AccessTypeOK

LEMMA SyncEndsKeep ==
  ASSUME AccessInv, SyncNote \/ SyncFails
  PROVE  AccessInv'
<1>1. noted' \in Nat
  BY SyncTyped, SyncFields DEF SyncNote, SyncFails, AccessInv, AccessTypeOK
<1>2. faults' \in 0 .. MaxFaults
  BY AccessAssumption DEF SyncNote, SyncFails, AccessInv, AccessTypeOK
<1>3. QED  BY <1>1, <1>2, IdleStates, SyncKeeps DEF SyncNote, SyncFails

LEMMA SyncApplyKeeps ==
  ASSUME AccessInv, SyncApply
  PROVE  AccessInv'
<1>1. sync \in SyncState /\ sync.pc = "apply"
  BY SyncTyped DEF SyncApply
<1>2. /\ sync.users \in [Users -> CloudUser] /\ sync.profiles \in [Profiles -> PermissionProfile]
      /\ sync' \in SyncState /\ sync'.users = sync.users
  BY <1>1, SyncFields DEF SyncApply
<1>3. UNCHANGED <<today, cloudUsers, cloudProfiles, version, known, noted, tokens, logins, requests,
                  accepted, faults>>
  BY DEF SyncApply, cloudVars
<1>4. profiles' \in [Profiles -> PermissionProfile \cup {None}]
  BY <1>2 DEF SyncApply, AccessInv, AccessTypeOK
<1>5. ASSUME NEW u \in Users
      PROVE  /\ users'[u] \in Usuario \cup {None}
             /\ users'[u] # None => IsVouched(users'[u], u)
  <2>1. CASE IsCopied(sync.users[u])
    <3>. DEFINE c == sync.users[u]
                usuario == SyncedUser(users[u], c)
    <3>1. users'[u] = usuario
      BY <2>1 DEF SyncApply, Synced
    <3>2. c.password \in Passwords /\ c.profile \in Profiles /\ c.password \in known[u]
      BY <1>1, <1>2, CloudFields DEF AccessInv, CloudIsKnown
    <3>3. users[u] # None => users[u].lastCloudCheckAt \in 0 .. MaxDay
      BY UsuarioFields DEF AccessInv, AccessTypeOK
    <3>4. PICK at \in 0 .. MaxDay :
            /\ at = IF users[u] = None THEN 0 ELSE users[u].lastCloudCheckAt
            /\ usuario = [estado |-> c.access = "active", password |-> c.password, profile |-> c.profile,
                      lastCloudCheckAt |-> at]
      BY <3>3, AccessAssumption DEF SyncedUser
    <3>5. usuario \in Usuario /\ usuario.password = c.password /\ usuario.lastCloudCheckAt = at
      <4>1. (c.access = "active") \in BOOLEAN  OBVIOUS
      <4>. HIDE DEF c
      <4>2. QED  BY <3>2, <3>4, <4>1 DEF Usuario
    <3>6. at # 0 => at = accepted[u]
      BY <3>4 DEF AccessInv, CopiesAreVouched, IsVouched
    <3>. HIDE DEF usuario, c
    <3>7. QED  BY <3>1, <3>2, <3>5, <3>6 DEF IsVouched
  <2>2. CASE ~IsCopied(sync.users[u])
    <3>1. users'[u] = users[u]
      BY <2>2 DEF SyncApply
    <3>2. QED  BY <3>1 DEF AccessInv, AccessTypeOK, CopiesAreVouched
  <2>3. QED  BY <2>1, <2>2
<1>6. users' \in [Users -> Usuario \cup {None}]
  <2>1. \E f : users' = [u \in Users |-> f[u]]
    BY DEF SyncApply
  <2>2. QED  BY <1>5, <2>1
<1>7. AccessTypeOK'
  BY <1>2, <1>3, <1>4, <1>6 DEF AccessInv, AccessTypeOK, SyncState
<1>8. CloudIsKnown'
  BY <1>1, <1>2, <1>3 DEF AccessInv, CloudIsKnown
<1>9. CopiesAreVouched'
  BY <1>3, <1>5 DEF CopiesAreVouched, IsVouched
<1>10. LoginsRead' /\ AcceptedBefore' /\ OfflineIsVouched'
  BY <1>3 DEF AccessInv, LoginsRead, AcceptedBefore, OfflineIsVouched
<1>11. QED  BY <1>7, <1>8, <1>9, <1>10 DEF AccessInv

LEMMA RestartKeeps ==
  ASSUME AccessInv, Restart
  PROVE  AccessInv'
<1>1. UNCHANGED <<today, cloudUsers, cloudProfiles, version, known, users, profiles, noted, tokens, accepted>>
  BY DEF Restart, cloudVars, copyVars
<1>2. /\ sync' = Idle /\ faults' \in 0 .. MaxFaults
      /\ logins' = [l \in Logins |-> Idle] /\ requests' = [r \in Requests |-> Idle]
  BY AccessAssumption DEF Restart, AccessInv, AccessTypeOK
<1>3. AccessTypeOK'
  BY <1>1, <1>2, IdleStates DEF AccessInv, AccessTypeOK, SyncState
<1>4. CloudIsKnown' /\ CopiesAreVouched' /\ AcceptedBefore'
  BY <1>1, <1>2, IdleStates DEF AccessInv, CloudIsKnown, CopiesAreVouched, IsVouched, AcceptedBefore
<1>5. LoginsRead' /\ OfflineIsVouched'
  BY <1>2, IdleStates DEF LoginsRead, OfflineIsVouched
<1>6. QED  BY <1>3, <1>4, <1>5 DEF AccessInv

LEMMA AccessInvStarts ==
  ASSUME AccessInit
  PROVE  AccessInv
<1>1. cloudUsers \in [Users -> CloudUser] /\ cloudProfiles \in [Profiles -> PermissionProfile]
  <2>1. [access : {"active"}, password : Passwords, profile : Profiles] \subseteq CloudUser
    BY DEF CloudUser
  <2>2. [estado : {TRUE}, modules : SUBSET Modules] \subseteq PermissionProfile
    BY DEF PermissionProfile
  <2>3. QED  BY <2>1, <2>2 DEF AccessInit
<1>2. \A u \in Users : cloudUsers[u].password \in Passwords
  BY <1>1, CloudFields
<1>3. /\ known \in [Users -> SUBSET Passwords]
      /\ \A u \in Users : known[u] = {cloudUsers[u].password}
  BY <1>2 DEF AccessInit, Learnt
<1>4. AccessTypeOK
  <2>1. today \in 1 .. MaxDay /\ 0 \in 0 .. MaxDay /\ 0 \in 0 .. MaxFaults
    BY AccessAssumption DEF AccessInit
  <2>2. sync \in SyncState /\ logins \in [Logins -> LoginState] /\ requests \in [Requests -> RequestState]
    BY IdleStates DEF AccessInit
  <2>3. QED  BY <1>1, <1>3, <2>1, <2>2 DEF AccessInit, AccessTypeOK, SyncState
<1>5. CloudIsKnown /\ CopiesAreVouched /\ AcceptedBefore
  <2>1. CloudIsKnown
    BY <1>3, IdleStates DEF AccessInit, CloudIsKnown
  <2>2. CopiesAreVouched
    BY DEF AccessInit, CopiesAreVouched
  <2>3. AcceptedBefore
    BY DEF AccessInit, AcceptedBefore
  <2>4. QED  BY <2>1, <2>2, <2>3
<1>6. LoginsRead /\ OfflineIsVouched
  BY IdleStates DEF AccessInit, LoginsRead, OfflineIsVouched
<1>7. QED  BY <1>4, <1>5, <1>6 DEF AccessInv

\* The invariant of users, copies and logins holds in every state.
THEOREM AccessInvariant == AccessSpec => []AccessInv
<1>1. AccessInit => AccessInv  BY AccessInvStarts
<1>2. AccessInv /\ [AccessNext]_accessVars => AccessInv'
  <2>1. SUFFICES ASSUME AccessInv, [AccessNext]_accessVars
                 PROVE  AccessInv'
    OBVIOUS
  <2>2. CASE UNCHANGED accessVars
    <3>1. UNCHANGED RequestVars /\ requests' = requests /\ tokens' = tokens
      BY <2>2 DEF accessVars, RequestVars
    <3>2. QED  BY <2>1, <3>1, RequestKeeps DEF AccessInv, AccessTypeOK
  <2>3. CASE AccessNext
    BY <2>1, <2>3, NextDayKeeps, CloudChangeKeeps, SyncFetchKeeps, SyncApplyKeeps, SyncEndsKeep,
       LoginStepKeeps, RequestStepKeeps, RestartKeeps DEF AccessNext
  <2>4. QED  BY <2>1, <2>2, <2>3
<1>3. QED  BY <1>1, <1>2, PTL DEF AccessSpec

\* A session granted without the cloud is for a password the cloud had for the user, and
\* the cloud accepted the user at most MaxAge days ago, however many syncs wrote the copy
\* since (ensureOfflineLoginAllowed, writeUsuario).
THEOREM OfflineAlwaysVouched == AccessSpec => []OfflineIsVouched
BY AccessInvariant, PTL DEF AccessInv
=============================================================================
