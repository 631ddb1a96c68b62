---------------------------- MODULE PensionAccess ----------------------------
(***************************************************************************)
(* Opening a barrier with a pension pass: an unlocked check of the pass,   *)
(* then one transaction that locks the pass, applies anti-passback, writes *)
(* the move and the receipt of the command, and waits for the device to    *)
(* open the barrier before it commits.                                     *)
(*                                                                         *)
(* A transaction that lasts too long (10 s) is rolled back by the database *)
(* while the request still waits for the device.  The barrier itself obeys *)
(* no rollback: openings[p] is what the devices did, moves[p] what the     *)
(* table pension_moves says.                                               *)
(*                                                                         *)
(* Left out: the checks of user, project, schedule and kind of module,     *)
(* which only refuse requests, and BARRIER_SOCKET_REQUIRED=false, where a  *)
(* passage needs no device (development).                                  *)
(***************************************************************************)
EXTENDS Processes, Naturals, Sequences, FiniteSets

CONSTANTS
  Passes,       \* pension passes
  Requests,     \* requests being served at the same time
  Commands,     \* operationId values of commands of the app
  MaxOpenings,  \* bound: openings of barriers for each pass
  MaxRenewals   \* bound: renewals of each pass that arrive from the cloud

\* None is "no command", of a request that came directly.
ASSUME PensionAssumption ==
  /\ None \notin Commands
  /\ MaxOpenings \in Nat
  /\ MaxRenewals \in Nat

VARIABLES
  passes,       \* table pension_passes: the contract and inParking
  moves,        \* table pension_moves, of each pass in order
  receipts,     \* table mobile_command_receipts: commands with a stored result
  openings,     \* what the devices did for each pass
  requests      \* what each request in progress remembers

vars == <<passes, moves, receipts, openings, requests>>

----------------------------------------------------------------------------
Tipo == {"ENTRADA", "SALIDA"}

\* "expired": still marked vigent, but its last day has passed.
Contract == {"vigent", "expired", "ended"}

Pass == [contract : Contract, inParking : BOOLEAN, renewals : 0 .. MaxRenewals]

Move == [tipo : Tipo, command : Commands \cup {None}]

Passage == [pass : Passes, move : Move]

\* live: the transaction has not been rolled back by its time limit.
Request ==
       [pc : {"idle"}]
  \cup [pc : {"expiry"}, pass : Passes]
  \cup [pc : {"lock"}, passage : Passage]
  \cup [pc : {"open", "answer", "confirmed"}, passage : Passage, live : BOOLEAN]

TypeOK ==
  /\ passes \in [Passes -> Pass]
  /\ moves \in [Passes -> Seq(Move)]
  /\ receipts \in SUBSET Commands
  /\ openings \in [Passes -> Seq(Tipo)]
  /\ requests \in [Requests -> Request]

\* A pass that arrives from the cloud is outside.
Init ==
  /\ passes = [p \in Passes |-> [contract |-> "vigent", inParking |-> FALSE, renewals |-> 0]]
  /\ moves = [p \in Passes |-> <<>>]
  /\ receipts = {}
  /\ openings = [p \in Passes |-> <<>>]
  /\ requests = [r \in Requests |-> Idle]

----------------------------------------------------------------------------
\* A pass can only enter when it is outside and only exit when it is inside.
AssertPensionPassage(inParking, tipo) == inParking = (tipo = "SALIDA")

InTransaction(r) == requests[r].pc \in {"open", "answer", "confirmed"}

Locked(p) ==
  \E r \in Requests : InTransaction(r) /\ requests[r].live /\ requests[r].passage.pass = p

Become(r, request) == requests' = [requests EXCEPT ![r] = request]

----------------------------------------------------------------------------
\* The unlocked read of the pass and its checks.
Present(r, p, tipo, command) ==
  /\ requests[r].pc = "idle"
  /\ passes[p].contract = "vigent"
  /\ AssertPensionPassage(passes[p].inParking, tipo)
  /\ Become(r, [pc |-> "lock",
                passage |-> [pass |-> p, move |-> [tipo |-> tipo, command |-> command]]])
  /\ UNCHANGED <<passes, moves, receipts, openings>>

PresentExpired(r, p) ==
  /\ requests[r].pc = "idle"
  /\ passes[p].contract = "expired"
  /\ Become(r, [pc |-> "expiry", pass |-> p])
  /\ UNCHANGED <<passes, moves, receipts, openings>>

\* The contract it read as expired is ended, whatever the pass is now.
EndContract(r) ==
  LET p == requests[r].pass
  IN  /\ requests[r].pc = "expiry"
      /\ ~Locked(p)
      /\ passes' = [passes EXCEPT ![p].contract = "ended"]
      /\ Become(r, Idle)
      /\ UNCHANGED <<moves, receipts, openings>>

----------------------------------------------------------------------------
\* The transaction.  Its writes show only when it commits.

\* A check made only before the lock; see the properties.
PassageUnchecked(passage) == TRUE

PassageAllowed(passage) ==
  AssertPensionPassage(passes[passage.pass].inParking, passage.move.tipo)

RegisterPassage(r) ==
  LET passage == requests[r].passage
  IN  /\ requests[r].pc = "lock"
      /\ ~Locked(passage.pass)
      /\ PassageAllowed(passage)
      /\ Become(r, [pc |-> "open", passage |-> passage, live |-> TRUE])
      /\ UNCHANGED <<passes, moves, receipts, openings>>

RefusePassage(r) ==
  /\ requests[r].pc = "lock"
  /\ ~Locked(requests[r].passage.pass)
  /\ ~PassageAllowed(requests[r].passage)
  /\ Become(r, Idle)
  /\ UNCHANGED <<passes, moves, receipts, openings>>

\* The command reaches the device; its answer is on the way.
BarrierOpens(r) ==
  LET passage == requests[r].passage
  IN  /\ requests[r].pc = "open"
      /\ Len(openings[passage.pass]) < MaxOpenings
      /\ openings' = [openings EXCEPT ![passage.pass] = Append(@, passage.move.tipo)]
      /\ Become(r, [requests[r] EXCEPT !.pc = "answer"])
      /\ UNCHANGED <<passes, moves, receipts>>

BarrierConfirmed(r) ==
  /\ requests[r].pc = "answer"
  /\ Become(r, [requests[r] EXCEPT !.pc = "confirmed"])
  /\ UNCHANGED <<passes, moves, receipts, openings>>

\* No authorized device, a refusal, or an answer that does not come in time.
BarrierFails(r) ==
  /\ requests[r].pc \in {"open", "answer"}
  /\ Become(r, Idle)
  /\ UNCHANGED <<passes, moves, receipts, openings>>

\* The time limit strikes while the request waits for the lock, or later.
LockTimesOut(r) ==
  /\ requests[r].pc = "lock"
  /\ Become(r, Idle)
  /\ UNCHANGED <<passes, moves, receipts, openings>>

TransactionTimesOut(r) ==
  /\ InTransaction(r)
  /\ requests[r].live
  /\ Become(r, [requests[r] EXCEPT !.live = FALSE])
  /\ UNCHANGED <<passes, moves, receipts, openings>>

\* A commit that does not wait for the device; see the properties.
CommitsUnopened(r) == InTransaction(r)

MayCommit(r) == requests[r].pc = "confirmed"

ReceiptOf(move) == {move.command} \ {None}

CommitPassage(r) ==
  LET p == requests[r].passage.pass
      move == requests[r].passage.move
  IN  /\ MayCommit(r)
      /\ requests[r].live
      /\ passes' = [passes EXCEPT ![p].inParking = (move.tipo = "ENTRADA")]
      /\ moves' = [moves EXCEPT ![p] = Append(@, move)]
      /\ receipts' = receipts \cup ReceiptOf(move)
      /\ Become(r, Idle)
      /\ UNCHANGED openings

CommitRefused(r) ==
  /\ requests[r].pc = "confirmed"
  /\ ~requests[r].live
  /\ Become(r, Idle)
  /\ UNCHANGED <<passes, moves, receipts, openings>>

----------------------------------------------------------------------------
\* Time, the cloud and the server.

ContractExpires(p) ==
  /\ passes[p].contract = "vigent"
  /\ passes' = [passes EXCEPT ![p].contract = "expired"]
  /\ UNCHANGED <<moves, receipts, openings, requests>>

\* The configuration sync stores the renewed pass and keeps inParking.
Renew(p) ==
  /\ passes[p].contract # "vigent"
  /\ passes[p].renewals < MaxRenewals
  /\ ~Locked(p)
  /\ passes' = [passes EXCEPT ![p].contract = "vigent", ![p].renewals = @ + 1]
  /\ UNCHANGED <<moves, receipts, openings, requests>>

\* Requests are lost and the database rolls their transactions back.
ServerStops ==
  /\ requests # [r \in Requests |-> Idle]
  /\ requests' = [r \in Requests |-> Idle]
  /\ UNCHANGED <<passes, moves, receipts, openings>>

----------------------------------------------------------------------------
PassageAdvances(r) ==
  RegisterPassage(r) \/ BarrierOpens(r) \/ BarrierConfirmed(r) \/ TransactionTimesOut(r)

PassageFails(r) ==
  RefusePassage(r) \/ LockTimesOut(r) \/ BarrierFails(r) \/ CommitRefused(r)

DirectRequest(r) ==
  \/ \E p \in Passes, tipo \in Tipo : Present(r, p, tipo, None)
  \/ \E p \in Passes : PresentExpired(r, p)
  \/ EndContract(r)
  \/ PassageAdvances(r)
  \/ PassageFails(r)
  \/ CommitPassage(r)

ContractChanges == \E p \in Passes : ContractExpires(p) \/ Renew(p)

Next ==
  \/ \E r \in Requests : DirectRequest(r)
  \/ ContractChanges
  \/ ServerStops

Spec == Init /\ [][Next]_vars

----------------------------------------------------------------------------
Tipos(s) == [i \in DOMAIN s |-> s[i].tipo]

Alternates(s) ==
  \A i \in DOMAIN s : s[i] = (IF i % 2 = 1 THEN "ENTRADA" ELSE "SALIDA")

\* Anti-passback: the moves of a pass are an entry, an exit, an entry and so
\* on, and inParking agrees with them, however many requests read the pass
\* before any of them locks it (registerPassage).
AntiPassback ==
  \A p \in Passes :
    /\ Alternates(Tipos(moves[p]))
    /\ passes[p].inParking <=> Len(moves[p]) % 2 = 1

Passed(s, tipo) == {i \in DOMAIN s : s[i] = tipo}

\* "The passage is recorded only if the barrier opens": a pass has no more moves
\* in a direction than its barriers were opened for it (openBarrier inside the
\* transaction of openBarrierWithPensionPass).
MovesWereOpened ==
  \A p \in Passes, tipo \in Tipo :
    Cardinality(Passed(Tipos(moves[p]), tipo)) <= Cardinality(Passed(openings[p], tipo))

\* Anti-passback at the barrier: it opens for an entry, an exit, an entry...
\* The code does not keep this: an opening whose answer is lost is not recorded.
BarrierAlternates == \A p \in Passes : Alternates(openings[p])

\* "inParking is the only state this server owns": a pass renewed by the cloud
\* stays vigent until its own time comes.  The code does not keep this: a
\* request ends the contract it read before the renewal (getValidPensionPass).
RenewalKept ==
  [][\A p \in Passes : passes[p].contract = "vigent" => passes'[p].contract # "ended"]_vars
=============================================================================
