------------------------------- MODULE Outbox -------------------------------
(***************************************************************************)
(* The outbox: triggers record an event in the transaction of every change *)
(* of an operation table, and one publisher sends the events to the cloud. *)
(*                                                                         *)
(* Events are their positions (BIGSERIAL).  A position is taken when the   *)
(* row is written and becomes visible when its transaction commits, so two *)
(* transactions may commit in the other order; changes of one table row    *)
(* cannot, for the second waits for the row lock of the first.             *)
(*                                                                         *)
(* Time is abstracted to waiting[e]: set when an attempt fails, cleared    *)
(* when next_attempt_at has come.  The retention of old rows waits for     *)
(* what the outbox has not sent yet, as it stood when it looked; that a    *)
(* row is old and closed is left to chance here, and so are the tables     *)
(* that have no events.                                                    *)
(*                                                                         *)
(* late is no table: the events committed after the retention looked at    *)
(* the outbox, kept to judge what it deletes.                              *)
(***************************************************************************)
EXTENDS Processes, Naturals, FiniteSets

CONSTANTS
  MaxEvents,   \* bound: positions handed out
  Rows,        \* rows of the operation tables (aggregates)
  BatchSize,   \* events read at once, 50 in the code
  Refused,     \* positions whose event the cloud answers with a permanent error
  MaxFailures  \* bound: restarts of the server and errors of its database

\* None is "no row", for a position not handed out yet.

Events == 1 .. MaxEvents

ASSUME BoundsAssumption ==
  /\ MaxEvents \in Nat
  /\ MaxFailures \in Nat
  /\ BatchSize \in Nat \ {0}
  /\ Refused \subseteq Events
  /\ None \notin Rows

VARIABLES
  row,         \* the row each event is about
  gone,        \* rows deleted by the retention
  purging,     \* rows it has found confirmed and is about to delete
  late,        \* events committed since it looked
  state,       \* of each event
  lastError,   \* "none" before any failure, "retry" or "rejected" after one
  waiting,     \* the next attempt is not due yet
  linked,      \* the installation is linked and has its token
  reachable,   \* the cloud answers, and not with a temporary error
  inbox,       \* events the cloud has stored (it ignores repeated ones)
  publisher,   \* the batch being published
  failures

rows == <<row, gone, purging, late>>

vars == <<row, gone, purging, late, state, lastError, waiting, linked, reachable, inbox,
          publisher, failures>>

----------------------------------------------------------------------------
States == {"unused", "staged", "rolledBack", "pending", "sent", "purged"}

\* todo: the events of the batch not looked at yet; due: those among them whose
\* time had come when the batch started.
Publisher ==
       [pc : {"idle"}]
  \cup [pc : {"batch"}, todo : SUBSET Events, due : SUBSET Events]
  \cup [pc : {"sending"}, todo : SUBSET Events, due : SUBSET Events,
        event : Events, stored : BOOLEAN]

TypeOK ==
  /\ row \in [Events -> Rows \cup {None}]
  /\ gone \in SUBSET Rows
  /\ purging \in SUBSET Rows
  /\ late \in SUBSET Events
  /\ state \in [Events -> States]
  /\ lastError \in [Events -> {"none", "retry", "rejected"}]
  /\ waiting \in [Events -> BOOLEAN]
  /\ linked \in BOOLEAN
  /\ reachable \in BOOLEAN
  /\ inbox \in SUBSET Events
  /\ publisher \in Publisher
  /\ failures \in 0 .. MaxFailures

Init ==
  /\ row = [e \in Events |-> None]
  /\ gone = {}
  /\ purging = {}
  /\ late = {}
  /\ state = [e \in Events |-> "unused"]
  /\ lastError = [e \in Events |-> "none"]
  /\ waiting = [e \in Events |-> FALSE]
  /\ linked = TRUE
  /\ reachable = TRUE
  /\ inbox = {}
  /\ publisher = Idle
  /\ failures = 0

Pending == {e \in Events : state[e] = "pending"}

----------------------------------------------------------------------------
\* The triggers: the event is written with the change and shares its fate.

Before(e) == {f \in Events : f < e}

RowFree(r) == \A e \in Events : row[e] = r => state[e] # "staged"

Capture(e, r) ==
  /\ state[e] = "unused"
  /\ \A f \in Before(e) : state[f] # "unused"
  /\ r \notin gone
  /\ RowFree(r)
  /\ row' = [row EXCEPT ![e] = r]
  /\ state' = [state EXCEPT ![e] = "staged"]
  /\ UNCHANGED <<gone, purging, late, lastError, waiting, linked, reachable, inbox,
                 publisher, failures>>

CommitChange(e) ==
  /\ state[e] = "staged"
  /\ state' = [state EXCEPT ![e] = "pending"]
  /\ late' = IF purging = {} THEN late ELSE late \cup {e}
  /\ UNCHANGED <<row, gone, purging, lastError, waiting, linked, reachable, inbox, publisher, failures>>

RollbackChange(e) ==
  /\ state[e] = "staged"
  /\ state' = [state EXCEPT ![e] = "rolledBack"]
  /\ UNCHANGED <<rows, lastError, waiting, linked, reachable, inbox, publisher, failures>>

----------------------------------------------------------------------------
\* nextBatch: the first unsent events by position.
NextBatch == {e \in Pending : Cardinality(Pending \cap Before(e)) < BatchSize}

\* The runs of the scheduler follow each other, one batch at a time; how many
\* batches share a run changes nothing but the pause between them.
StartBatch ==
  /\ publisher.pc = "idle"
  /\ linked
  /\ NextBatch # {}
  /\ publisher' = [pc |-> "batch", todo |-> NextBatch,
                   due |-> {e \in NextBatch : lastError[e] = "none" \/ ~waiting[e]}]
  /\ UNCHANGED <<rows, state, lastError, waiting, linked, reachable, inbox, failures>>

FinishBatch ==
  /\ publisher.pc = "batch"
  /\ publisher.todo = {}
  /\ publisher' = Idle
  /\ UNCHANGED <<rows, state, lastError, waiting, linked, reachable, inbox, failures>>

IsNext(e) ==
  /\ publisher.pc = "batch"
  /\ e \in publisher.todo
  /\ publisher.todo \cap Before(e) = {}

SkipRejected(e) ==
  /\ IsNext(e)
  /\ e \notin publisher.due
  /\ lastError[e] = "rejected"
  /\ publisher' = [publisher EXCEPT !.todo = @ \ {e}]
  /\ UNCHANGED <<rows, state, lastError, waiting, linked, reachable, inbox, failures>>

SkipFailed(e) ==
  /\ IsNext(e)
  /\ e \notin publisher.due
  /\ lastError[e] = "retry"
  /\ publisher' = [publisher EXCEPT !.todo = @ \ {e}]
  /\ UNCHANGED <<rows, state, lastError, waiting, linked, reachable, inbox, failures>>

\* BACKOFF: an event that failed for a temporary reason holds the queue.
HoldQueue(e) ==
  /\ IsNext(e)
  /\ e \notin publisher.due
  /\ lastError[e] = "retry"
  /\ publisher' = Idle
  /\ UNCHANGED <<rows, state, lastError, waiting, linked, reachable, inbox, failures>>

Send(e) ==
  /\ IsNext(e)
  /\ e \in publisher.due
  /\ publisher' = [pc |-> "sending", todo |-> publisher.todo \ {e}, due |-> publisher.due,
                   event |-> e, stored |-> FALSE]
  /\ UNCHANGED <<rows, state, lastError, waiting, linked, reachable, inbox, failures>>

\* The cloud stores the event of the request on its way; the answer may still
\* be lost.
CloudStores ==
  /\ publisher.pc = "sending"
  /\ reachable
  /\ publisher.event \notin Refused
  /\ inbox' = inbox \cup {publisher.event}
  /\ publisher' = [publisher EXCEPT !.stored = TRUE]
  /\ UNCHANGED <<rows, state, lastError, waiting, linked, reachable, failures>>

ContinueBatch == [pc |-> "batch", todo |-> publisher.todo, due |-> publisher.due]

MarkSentUnanswered ==
  /\ publisher.pc = "sending"
  /\ reachable
  /\ state' = [state EXCEPT ![publisher.event] = "sent"]
  /\ lastError' = [lastError EXCEPT ![publisher.event] = "none"]
  /\ publisher' = ContinueBatch
  /\ UNCHANGED <<rows, waiting, linked, reachable, inbox, failures>>

MarkSent ==
  /\ publisher.pc = "sending"
  /\ publisher.stored
  /\ reachable
  /\ state' = [state EXCEPT ![publisher.event] = "sent"]
  /\ lastError' = [lastError EXCEPT ![publisher.event] = "none"]
  /\ publisher' = ContinueBatch
  /\ UNCHANGED <<rows, waiting, linked, reachable, inbox, failures>>

RetryRefused ==
  /\ publisher.pc = "sending"
  /\ publisher.event \in Refused
  /\ reachable
  /\ lastError' = [lastError EXCEPT ![publisher.event] = "retry"]
  /\ waiting' = [waiting EXCEPT ![publisher.event] = TRUE]
  /\ publisher' = Idle
  /\ UNCHANGED <<rows, state, linked, reachable, inbox, failures>>

MarkRejected ==
  /\ publisher.pc = "sending"
  /\ publisher.event \in Refused
  /\ reachable
  /\ lastError' = [lastError EXCEPT ![publisher.event] = "rejected"]
  /\ waiting' = [waiting EXCEPT ![publisher.event] = TRUE]
  /\ publisher' = ContinueBatch
  /\ UNCHANGED <<rows, state, linked, reachable, inbox, failures>>

MarkFailedAndContinue ==
  /\ publisher.pc = "sending"
  /\ ~reachable
  /\ lastError' = [lastError EXCEPT ![publisher.event] = "retry"]
  /\ waiting' = [waiting EXCEPT ![publisher.event] = TRUE]
  /\ publisher' = ContinueBatch
  /\ UNCHANGED <<rows, state, linked, reachable, inbox, failures>>

\* No answer in time, or a temporary one: the batch stops here.
MarkFailed ==
  /\ publisher.pc = "sending"
  /\ ~reachable
  /\ lastError' = [lastError EXCEPT ![publisher.event] = "retry"]
  /\ waiting' = [waiting EXCEPT ![publisher.event] = TRUE]
  /\ publisher' = Idle
  /\ UNCHANGED <<rows, state, linked, reachable, inbox, failures>>

----------------------------------------------------------------------------
\* next_attempt_at comes.
BecomeDue(e) ==
  /\ waiting[e]
  /\ waiting' = [waiting EXCEPT ![e] = FALSE]
  /\ UNCHANGED <<rows, state, lastError, linked, reachable, inbox, publisher, failures>>

PurgeSent(e) ==
  /\ state[e] = "sent"
  /\ state' = [state EXCEPT ![e] = "purged"]
  /\ UNCHANGED <<rows, lastError, waiting, linked, reachable, inbox, publisher, failures>>

\* A retention that does not wait; see the properties.
NotWaitedFor(r) == TRUE

Confirmed(r) == \A e \in Events : row[e] = r => state[e] # "pending"

Stored(r) == \E e \in Events : row[e] = r /\ state[e] \in {"pending", "sent", "purged"}

\* A batch of rows, or shifts with all that they hold: no lock is taken, and a
\* change that is not committed is not seen.
SelectOld(old) ==
  /\ purging = {}
  /\ \A r \in old : r \notin gone /\ Stored(r) /\ Confirmed(r)
  /\ purging' = old
  /\ late' = {e \in late : row[e] \in gone}
  /\ UNCHANGED <<row, gone, state, lastError, waiting, linked, reachable, inbox,
                 publisher, failures>>

\* Rows added since then: a shift takes them along.
Joined(r) ==
  /\ r \notin gone \cup purging
  /\ Stored(r)
  /\ \A e \in Events : row[e] = r => state[e] = "rolledBack" \/ e \in late

\* The deletion waits for the transactions that hold its rows, and does not look
\* at the outbox again.  The rows of a shift go together.
DeleteOld(more) ==
  /\ purging # {}
  /\ \A r \in more : Joined(r)
  /\ \A r \in purging \cup more : RowFree(r)
  /\ gone' = gone \cup purging \cup more
  /\ purging' = {}
  /\ UNCHANGED <<row, late, state, lastError, waiting, linked, reachable, inbox,
                 publisher, failures>>

\* An error, a foreign key or a restart: nothing is deleted, and a later run looks
\* again.
PurgeFails ==
  /\ purging # {}
  /\ purging' = {}
  /\ UNCHANGED <<row, gone, late, state, lastError, waiting, linked, reachable, inbox,
                 publisher, failures>>

LinkChanges ==
  /\ linked' = ~linked
  /\ UNCHANGED <<rows, state, lastError, waiting, reachable, inbox, publisher, failures>>

CloudChanges ==
  /\ reachable' = ~reachable
  /\ UNCHANGED <<rows, state, lastError, waiting, linked, inbox, publisher, failures>>

\* A restart forgets the batches; open transactions roll back by themselves.
Crash ==
  /\ failures < MaxFailures
  /\ failures' = failures + 1
  /\ publisher' = Idle
  /\ state' = [e \in Events |-> IF state[e] = "staged" THEN "rolledBack" ELSE state[e]]
  /\ purging' = {}
  /\ UNCHANGED <<row, gone, late, lastError, waiting, linked, reachable, inbox>>

\* A query of the publisher fails: runOnce logs it and the next run starts over.
RunFails ==
  /\ failures < MaxFailures
  /\ publisher.pc # "idle"
  /\ failures' = failures + 1
  /\ publisher' = Idle
  /\ UNCHANGED <<rows, state, lastError, waiting, linked, reachable, inbox>>

----------------------------------------------------------------------------
Publish ==
  \/ StartBatch
  \/ FinishBatch
  \/ \E e \in Events : SkipRejected(e) \/ HoldQueue(e) \/ Send(e)
  \/ MarkSent
  \/ MarkRejected
  \/ MarkFailed

Next ==
  \/ \E e \in Events, r \in Rows : Capture(e, r)
  \/ \E e \in Events : CommitChange(e) \/ RollbackChange(e)
  \/ Publish
  \/ CloudStores
  \/ \E e \in Events : BecomeDue(e) \/ PurgeSent(e)
  \/ \E old \in SUBSET Rows \ {{}} : SelectOld(old)
  \/ \E more \in SUBSET Rows : DeleteOld(more)
  \/ PurgeFails
  \/ LinkChanges
  \/ CloudChanges
  \/ Crash
  \/ RunFails

Spec == Init /\ [][Next]_vars

\* The scheduler's timer runs, the cloud serves what reaches it, and time passes.
Fairness ==
  /\ WF_vars(Publish)
  /\ WF_vars(CloudStores)
  /\ \A e \in Events : WF_vars(BecomeDue(e))

FairSpec == Spec /\ Fairness

----------------------------------------------------------------------------
\* Properties

\* An event marked as sent, and only then purged, is stored in the cloud, and so
\* is every change of a deleted row that was committed when the retention looked
\* at the outbox: outages, lost answers and restarts lose nothing, and no row goes
\* with a change that waited then.
NothingLost ==
  \A e \in Events :
    /\ state[e] \in {"sent", "purged"} => e \in inbox
    /\ row[e] \in gone /\ state[e] # "rolledBack" => e \in inbox \cup late

\* An event that failed for a temporary reason holds the queue: nothing behind
\* it reaches the cloud before it is sent.
HeadHoldsQueue ==
  [][\A f \in inbox' \ inbox : \A e \in Before(f) :
       ~(state[e] = "pending" /\ lastError[e] = "retry")]_vars

\* The changes of one row reach the cloud in the order they were made, except
\* those it refused, though transactions commit in any order.
RowOrder ==
  [][\A f \in inbox' \ inbox : \A e \in Before(f) :
       row[e] = row[f] /\ state[e] # "rolledBack" => e \in inbox \cup Refused]_vars

\* Claimed: "They do not hold the queue", of refused events.  Once the cloud
\* stays reachable and the link stays up, every other event is sent.
RefusedDoNotHoldQueue ==
  <>[](linked /\ reachable) =>
    \A e \in Events \ Refused : state[e] = "pending" ~> state[e] # "pending"

\* Claimed: "Nada que la nube no haya confirmado se borra".  Every change of a
\* deleted row is in the cloud.
ConfirmedBeforeDeleted ==
  \A e \in Events : row[e] \in gone /\ state[e] # "rolledBack" => e \in inbox

\* Claimed: "nothing is lost or reordered".  Events reach the cloud in the
\* order of their positions.
NothingReordered == [][\A f \in inbox' \ inbox : \A e \in inbox : e < f]_vars
=============================================================================
