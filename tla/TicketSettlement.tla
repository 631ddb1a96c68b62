-------------------------- MODULE TicketSettlement --------------------------
(***************************************************************************)
(* What the payment code promises about one parking ticket, with no        *)
(* sessions, no locks and no requests: a ticket starts owing its fee and   *)
(* is settled at most once, through exactly one channel, for good.         *)
(***************************************************************************)
CONSTANT Tickets

VARIABLE settledBy   \* [Tickets -> Channels]: how each ticket was settled

Channels == {"owed", "cash", "app", "free"}

Init == settledBy = [t \in Tickets |-> "owed"]

\* One or more tickets cannot settle together: every settlement is a step of
\* its own, and a settled ticket never changes channel.
Settle(t, channel) ==
  /\ settledBy[t] = "owed"
  /\ settledBy' = [settledBy EXCEPT ![t] = channel]

Next == \E t \in Tickets, channel \in Channels \ {"owed"} : Settle(t, channel)

Spec == Init /\ [][Next]_settledBy
=============================================================================
