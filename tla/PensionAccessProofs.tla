------------------------- MODULE PensionAccessProofs -------------------------
(***************************************************************************)
(* Anti-passback of PensionAccess, for any number of passes and requests   *)
(* and any number of passages, and of MobileCommands, whose worker serves  *)
(* commands beside the direct requests.                                    *)
(***************************************************************************)
EXTENDS MobileCommands, FiniteSetTheorems, TLAPS

Live(r) == InTransaction(r) /\ requests[r].live

\* AntiPassback with what the row locks keep until a passage commits: its check
\* of the locked pass still holds, and no other transaction holds the pass.
PassInv ==
  /\ AntiPassback
  /\ \A r \in Requests : Live(r) => PassageAllowed(requests[r].passage)
  /\ \A r, q \in Requests :
       /\ Live(r)
       /\ Live(q)
       /\ requests[r].passage.pass = requests[q].passage.pass
       => r = q

Transaction == [pc : {"open", "answer", "confirmed"}, passage : Passage, live : BOOLEAN]

----------------------------------------------------------------------------
LEMMA RequestFields ==
  ASSUME NEW request \in Request
  PROVE  /\ request.pc = "expiry" => request.pass \in Passes
         /\ request.pc = "lock" => request.passage \in Passage
         /\ request.pc \in {"open", "answer", "confirmed"} => request \in Transaction
BY DEF Request, Transaction

LEMMA PassageFields ==
  ASSUME NEW passage \in Passage
  PROVE  /\ passage.pass \in Passes
         /\ passage.move \in Move
         /\ passage.move.tipo \in Tipo
         /\ passage.move.command \in Commands \cup {None}
BY DEF Passage, Move

LEMMA TransactionMoves ==
  ASSUME NEW request \in Transaction
  PROVE  /\ \A pc \in {"open", "answer", "confirmed"} :
              [request EXCEPT !.pc = pc] \in Transaction
         /\ [request EXCEPT !.live = FALSE] \in Transaction
BY DEF Transaction

LEMMA TransactionIsRequest == Transaction \subseteq Request /\ Idle \in Request
BY DEF Transaction, Request, Idle

LEMMA BecomeTyped ==
  ASSUME TypeOK, NEW r \in Requests, NEW request \in Request, Become(r, request)
  PROVE  requests' \in [Requests -> Request]
BY DEF TypeOK, Become

----------------------------------------------------------------------------
LEMMA PresentTyped ==
  ASSUME TypeOK, NEW r \in Requests, NEW p \in Passes, NEW tipo \in Tipo,
         NEW command \in Commands \cup {None},
         Present(r, p, tipo, command) \/ PresentExpired(r, p)
  PROVE  TypeOK'
<1>1. /\ [pc |-> "lock", passage |-> [pass |-> p, move |-> [tipo |-> tipo, command |-> command]]]
           \in Request
      /\ [pc |-> "expiry", pass |-> p] \in Request
  BY DEF Request, Passage, Move
<1>2. requests' \in [Requests -> Request]
  BY <1>1, BecomeTyped DEF Present, PresentExpired
<1>3. QED  BY <1>2 DEF TypeOK, Present, PresentExpired

LEMMA EndContractTyped ==
  ASSUME TypeOK, NEW r \in Requests, EndContract(r)
  PROVE  TypeOK'
<1>1. requests[r] \in Request  BY DEF TypeOK
<1>2. requests[r].pass \in Passes  BY <1>1, RequestFields DEF EndContract
<1>3. requests' \in [Requests -> Request]
  BY TransactionIsRequest, BecomeTyped DEF EndContract
<1>4. \A pass \in Pass : [pass EXCEPT !.contract = "ended"] \in Pass
  BY DEF Pass, Contract
<1>5. passes' \in [Passes -> Pass]  BY <1>2, <1>4 DEF TypeOK, EndContract
<1>6. QED  BY <1>3, <1>5 DEF TypeOK, EndContract

LEMMA PassageTyped ==
  ASSUME TypeOK, NEW r \in Requests, PassageAdvances(r) \/ PassageFails(r)
  PROVE  TypeOK'
<1>1. requests[r] \in Request  BY DEF TypeOK
<1>2. CASE RegisterPassage(r)
  <2>1. [pc |-> "open", passage |-> requests[r].passage, live |-> TRUE] \in Request
    BY <1>1, <1>2, RequestFields, TransactionIsRequest DEF RegisterPassage, Transaction
  <2>2. requests' \in [Requests -> Request]  BY <1>2, <2>1, BecomeTyped DEF RegisterPassage
  <2>3. QED  BY <1>2, <2>2 DEF TypeOK, RegisterPassage
<1>3. CASE BarrierOpens(r)
  <2>1. requests[r] \in Transaction  BY <1>1, <1>3, RequestFields DEF BarrierOpens
  <2>2. requests[r].passage \in Passage  BY <2>1 DEF Transaction
  <2>3. [requests[r] EXCEPT !.pc = "answer"] \in Request
    BY <2>1, TransactionMoves, TransactionIsRequest
  <2>4. requests' \in [Requests -> Request]  BY <1>3, <2>3, BecomeTyped DEF BarrierOpens
  <2>5. openings' \in [Passes -> Seq(Tipo)]
    BY <1>3, <2>2, PassageFields DEF TypeOK, BarrierOpens
  <2>6. QED  BY <1>3, <2>4, <2>5 DEF TypeOK, BarrierOpens
<1>4. CASE BarrierConfirmed(r)
  <2>1. requests[r] \in Transaction  BY <1>1, <1>4, RequestFields DEF BarrierConfirmed
  <2>2. [requests[r] EXCEPT !.pc = "confirmed"] \in Request
    BY <2>1, TransactionMoves, TransactionIsRequest
  <2>3. requests' \in [Requests -> Request]  BY <1>4, <2>2, BecomeTyped DEF BarrierConfirmed
  <2>4. QED  BY <1>4, <2>3 DEF TypeOK, BarrierConfirmed
<1>5. CASE TransactionTimesOut(r)
  <2>1. requests[r] \in Transaction
    BY <1>1, <1>5, RequestFields DEF TransactionTimesOut, InTransaction
  <2>2. [requests[r] EXCEPT !.live = FALSE] \in Request
    BY <2>1, TransactionMoves, TransactionIsRequest
  <2>3. requests' \in [Requests -> Request]  BY <1>5, <2>2, BecomeTyped DEF TransactionTimesOut
  <2>4. QED  BY <1>5, <2>3 DEF TypeOK, TransactionTimesOut
<1>6. CASE PassageFails(r)
  <2>1. requests' \in [Requests -> Request]
    BY <1>6, TransactionIsRequest, BecomeTyped
       DEF PassageFails, RefusePassage, LockTimesOut, BarrierFails, CommitRefused
  <2>2. QED
    BY <1>6, <2>1
       DEF TypeOK, PassageFails, RefusePassage, LockTimesOut, BarrierFails, CommitRefused
<1>7. QED  BY <1>2, <1>3, <1>4, <1>5, <1>6 DEF PassageAdvances

LEMMA CommitTyped ==
  ASSUME TypeOK, NEW r \in Requests, CommitPassage(r)
  PROVE  TypeOK'
<1>1. requests[r] \in Request  BY DEF TypeOK
<1>2. requests[r] \in Transaction  BY <1>1, RequestFields DEF CommitPassage, MayCommit
<1>3. requests[r].passage \in Passage  BY <1>2 DEF Transaction
<1>4. requests' \in [Requests -> Request]
  BY TransactionIsRequest, BecomeTyped DEF CommitPassage
<1>5. \A pass \in Pass, inside \in BOOLEAN : [pass EXCEPT !.inParking = inside] \in Pass
  BY DEF Pass
<1>6. passes' \in [Passes -> Pass]  BY <1>3, <1>5, PassageFields DEF TypeOK, CommitPassage
<1>7. moves' \in [Passes -> Seq(Move)]  BY <1>3, PassageFields DEF TypeOK, CommitPassage
<1>8. receipts' \in SUBSET Commands
  BY <1>3, PassageFields DEF TypeOK, CommitPassage, ReceiptOf
<1>9. QED  BY <1>4, <1>6, <1>7, <1>8 DEF TypeOK, CommitPassage

LEMMA ContractsTyped ==
  ASSUME TypeOK, ContractChanges
  PROVE  TypeOK'
<1>1. ASSUME NEW p \in Passes, ContractExpires(p)
      PROVE  TypeOK'
  <2>1. \A pass \in Pass : [pass EXCEPT !.contract = "expired"] \in Pass
    BY DEF Pass, Contract
  <2>2. passes' \in [Passes -> Pass]  BY <1>1, <2>1 DEF TypeOK, ContractExpires
  <2>3. QED  BY <1>1, <2>2 DEF TypeOK, ContractExpires
<1>2. ASSUME NEW p \in Passes, Renew(p)
      PROVE  TypeOK'
  <2>1. passes[p] \in Pass  BY DEF TypeOK
  <2>2. \A pass \in Pass, n \in 0 .. MaxRenewals :
          [pass EXCEPT !.contract = "vigent", !.renewals = n] \in Pass
    BY DEF Pass, Contract
  <2>3. passes[p].renewals + 1 \in 0 .. MaxRenewals
    BY <1>2, <2>1, PensionAssumption DEF Pass, Renew
  <2>4. [passes[p] EXCEPT !.contract = "vigent", !.renewals = passes[p].renewals + 1] \in Pass
    BY <2>1, <2>2, <2>3
  <2>5. passes' \in [Passes -> Pass]  BY <1>2, <2>4 DEF TypeOK, Renew
  <2>6. QED  BY <1>2, <2>5 DEF TypeOK, Renew
<1>3. QED  BY <1>1, <1>2 DEF ContractChanges

\* A step of a direct request.
LEMMA DirectTyped ==
  ASSUME TypeOK, NEW r \in Requests, DirectRequest(r)
  PROVE  TypeOK'
<1>1. ASSUME NEW p \in Passes, NEW tipo \in Tipo, Present(r, p, tipo, None)
      PROVE  TypeOK'
  <2>1. None \in Commands \cup {None}  OBVIOUS
  <2>2. QED  BY <1>1, <2>1, PresentTyped
<1>2. ASSUME NEW p \in Passes, PresentExpired(r, p)
      PROVE  TypeOK'
  <2>1. "ENTRADA" \in Tipo /\ None \in Commands \cup {None}  BY DEF Tipo
  <2>2. QED  BY <1>2, <2>1, PresentTyped
<1>3. CASE EndContract(r) \/ PassageAdvances(r) \/ PassageFails(r) \/ CommitPassage(r)
  BY <1>3, EndContractTyped, PassageTyped, CommitTyped
<1>4. QED  BY <1>1, <1>2, <1>3 DEF DirectRequest

LEMMA InitTyped ==
  ASSUME Init
  PROVE  TypeOK
<1>1. passes \in [Passes -> Pass]  BY PensionAssumption DEF Init, Pass, Contract
<1>2. requests \in [Requests -> Request]  BY TransactionIsRequest DEF Init
<1>3. QED  BY <1>1, <1>2 DEF Init, TypeOK

\* Rows and requests of the passages stay well typed.
THEOREM PensionTypeCorrect == Spec => []TypeOK
<1>1. Init => TypeOK  BY InitTyped
<1>2. TypeOK /\ [Next]_vars => TypeOK'
  <2> SUFFICES ASSUME TypeOK, [Next]_vars
               PROVE  TypeOK'
    OBVIOUS
  <2>1. CASE \E r \in Requests : DirectRequest(r)
    BY <2>1, DirectTyped
  <2>2. CASE ContractChanges
    BY <2>2, ContractsTyped
  <2>3. CASE ServerStops
    BY <2>3, TransactionIsRequest DEF TypeOK, ServerStops
  <2>4. CASE UNCHANGED vars
    BY <2>4 DEF TypeOK, vars
  <2>5. QED  BY <2>1, <2>2, <2>3, <2>4 DEF Next
<1>3. QED  BY <1>1, <1>2, PTL DEF Spec

----------------------------------------------------------------------------
LEMMA Parity == \A n \in Nat : (n + 1) % 2 = 1 <=> n % 2 # 1
OBVIOUS

\* A sequence that alternates goes on with an exit when its length is odd.
LEMMA AlternatesOn ==
  ASSUME NEW s \in Seq(Move), Alternates(Tipos(s)), NEW move \in Move,
         (Len(s) % 2 = 1) <=> (move.tipo = "SALIDA")
  PROVE  Alternates(Tipos(Append(s, move)))
<1> DEFINE longer == Append(s, move)
<1>1. /\ DOMAIN s = 1 .. Len(s)
      /\ DOMAIN longer = 1 .. Len(s) + 1
      /\ Len(s) \in Nat
      /\ \A i \in 1 .. Len(s) : longer[i] = s[i]
      /\ longer[Len(s) + 1] = move
  OBVIOUS
<1>2. move.tipo \in {"ENTRADA", "SALIDA"}  BY DEF Move, Tipo
<1>3. ASSUME NEW i \in 1 .. Len(s) + 1
      PROVE  longer[i].tipo = (IF i % 2 = 1 THEN "ENTRADA" ELSE "SALIDA")
  <2>1. CASE i \in 1 .. Len(s)
    BY <1>1, <2>1 DEF Alternates, Tipos
  <2>2. CASE i = Len(s) + 1
    <3>1. i % 2 = 1 <=> Len(s) % 2 # 1  BY <1>1, <2>2
    <3>2. QED  BY <1>1, <1>2, <2>2, <3>1
  <2>3. QED  BY <1>1, <2>1, <2>2
<1> HIDE DEF longer
<1>4. QED  BY <1>1, <1>3 DEF Alternates, Tipos, longer

----------------------------------------------------------------------------
\* A step that leaves the moves and inParking alone, and opens no transaction:
\* each live one was live before, for the same passage.
NoNewTransaction ==
  /\ moves' = moves
  /\ \A p \in Passes : passes'[p].inParking = passes[p].inParking
  /\ \A r \in Requests : Live(r)' =>
       Live(r) /\ requests'[r].passage = requests[r].passage

LEMMA QuietStep ==
  ASSUME TypeOK, PassInv, NoNewTransaction
  PROVE  PassInv'
<1>1. AntiPassback'
  BY DEF PassInv, AntiPassback, NoNewTransaction
<1>2. ASSUME NEW r \in Requests, Live(r)'
      PROVE  PassageAllowed(requests[r].passage)'
  <2>1. Live(r) /\ requests'[r].passage = requests[r].passage
    BY <1>2 DEF NoNewTransaction
  <2>2. PassageAllowed(requests[r].passage)  BY <2>1 DEF PassInv
  <2>3. requests[r].passage.pass \in Passes
    BY <2>1, RequestFields, PassageFields DEF TypeOK, Live, InTransaction, Transaction
  <2>4. QED
    BY <2>1, <2>2, <2>3 DEF NoNewTransaction, PassageAllowed, AssertPensionPassage
<1>3. ASSUME NEW r \in Requests, NEW q \in Requests, Live(r)', Live(q)',
             requests'[r].passage.pass = requests'[q].passage.pass
      PROVE  r = q
  BY <1>3 DEF NoNewTransaction, PassInv
<1>4. QED  BY <1>1, <1>2, <1>3 DEF PassInv

\* The steps of one request that end it, or leave its passage as it is.
LEMMA QuietRequest ==
  ASSUME TypeOK, NEW r \in Requests, NEW request, Become(r, request),
         moves' = moves,
         \A p \in Passes : passes'[p].inParking = passes[p].inParking,
         \/ request.pc \notin {"open", "answer", "confirmed"}
         \/ /\ request.live => Live(r)
            /\ request.passage = requests[r].passage
  PROVE  NoNewTransaction
<1>1. \A q \in Requests : requests'[q] = IF q = r THEN request ELSE requests[q]
  BY DEF Become, TypeOK
<1>2. QED  BY <1>1 DEF NoNewTransaction, Live, InTransaction

LEMMA PresentQuiet ==
  ASSUME TypeOK, NEW r \in Requests, NEW p \in Passes, NEW tipo, NEW command,
         Present(r, p, tipo, command) \/ PresentExpired(r, p)
  PROVE  NoNewTransaction
<1>1. CASE Present(r, p, tipo, command)
  <2>1. PICK request : request =
          [pc |-> "lock", passage |-> [pass |-> p, move |-> [tipo |-> tipo, command |-> command]]]
    OBVIOUS
  <2>2. request.pc = "lock"  BY <2>1
  <2>3. QED  BY <1>1, <2>1, <2>2, QuietRequest DEF Present
<1>2. CASE PresentExpired(r, p)
  <2>1. PICK request : request = [pc |-> "expiry", pass |-> p]
    OBVIOUS
  <2>2. request.pc = "expiry"  BY <2>1
  <2>3. QED  BY <1>2, <2>1, <2>2, QuietRequest DEF PresentExpired
<1>3. QED  BY <1>1, <1>2

LEMMA EndContractQuiet ==
  ASSUME TypeOK, NEW r \in Requests, EndContract(r)
  PROVE  NoNewTransaction
<1>1. Idle.pc = "idle"  BY DEF Idle
<1>2. \A p \in Passes : passes'[p].inParking = passes[p].inParking
  <2> TAKE p \in Passes
  <2>1. passes[p] \in Pass  BY DEF TypeOK
  <2>2. [passes[p] EXCEPT !.contract = "ended"].inParking = passes[p].inParking
    BY <2>1 DEF Pass
  <2>3. passes'[p] = passes[p] \/ passes'[p] = [passes[p] EXCEPT !.contract = "ended"]
    BY DEF EndContract, TypeOK
  <2>4. QED  BY <2>2, <2>3
<1>3. QED  BY <1>1, <1>2, QuietRequest DEF EndContract

LEMMA PassageFailsQuiet ==
  ASSUME TypeOK, NEW r \in Requests, PassageFails(r)
  PROVE  NoNewTransaction
<1>1. Idle.pc = "idle"  BY DEF Idle
<1>2. QED
  BY <1>1, QuietRequest
     DEF PassageFails, RefusePassage, LockTimesOut, BarrierFails, CommitRefused

LEMMA BarrierQuiet ==
  ASSUME TypeOK, NEW r \in Requests,
         BarrierOpens(r) \/ BarrierConfirmed(r) \/ TransactionTimesOut(r)
  PROVE  NoNewTransaction
<1>1. InTransaction(r)
  BY DEF BarrierOpens, BarrierConfirmed, TransactionTimesOut, InTransaction
<1>2. requests[r] \in Transaction  BY <1>1, RequestFields DEF TypeOK, InTransaction
<1>3. PICK request : /\ Become(r, request)
                     /\ \/ request = [requests[r] EXCEPT !.pc = "answer"]
                        \/ request = [requests[r] EXCEPT !.pc = "confirmed"]
                        \/ request = [requests[r] EXCEPT !.live = FALSE]
  BY DEF BarrierOpens, BarrierConfirmed, TransactionTimesOut
<1>4. (request.live => requests[r].live) /\ request.passage = requests[r].passage
  BY <1>2, <1>3 DEF Transaction
<1>5. moves' = moves /\ passes' = passes
  BY DEF BarrierOpens, BarrierConfirmed, TransactionTimesOut
<1>6. QED  BY <1>1, <1>3, <1>4, <1>5, QuietRequest DEF Live

LEMMA ContractsQuiet ==
  ASSUME TypeOK, ContractChanges
  PROVE  NoNewTransaction
<1>1. PICK p \in Passes : ContractExpires(p) \/ Renew(p)  BY DEF ContractChanges
<1>2. requests' = requests /\ moves' = moves  BY <1>1 DEF ContractExpires, Renew
<1>3. passes[p] \in Pass  BY DEF TypeOK
<1>4. [passes[p] EXCEPT !.contract = "expired"].inParking = passes[p].inParking
  BY <1>3 DEF Pass
<1>5. [passes[p] EXCEPT !.contract = "vigent", !.renewals = passes[p].renewals + 1].inParking
        = passes[p].inParking
  BY <1>3 DEF Pass
<1>6. ASSUME NEW q \in Passes
      PROVE  passes'[q].inParking = passes[q].inParking
  <2>1. CASE q # p  BY <1>1, <2>1 DEF ContractExpires, Renew, TypeOK
  <2>2. CASE q = p /\ ContractExpires(p)  BY <1>4, <2>2 DEF ContractExpires, TypeOK
  <2>3. CASE q = p /\ Renew(p)  BY <1>5, <2>3 DEF Renew, TypeOK
  <2>4. QED  BY <1>1, <2>1, <2>2, <2>3
<1>7. QED  BY <1>2, <1>6 DEF NoNewTransaction, Live, InTransaction

\* The passage is checked again once its pass is locked.
LEMMA RegisterKeeps ==
  ASSUME TypeOK, PassInv, NEW r \in Requests, RegisterPassage(r)
  PROVE  PassInv'
<1> DEFINE passage == requests[r].passage
<1>1. passage \in Passage  BY RequestFields DEF TypeOK, RegisterPassage
<1>2. AntiPassback'  BY DEF PassInv, AntiPassback, RegisterPassage
<1>3. \A q \in Requests :
        requests'[q] = IF q = r THEN [pc |-> "open", passage |-> passage, live |-> TRUE]
                       ELSE requests[q]
  BY DEF RegisterPassage, Become, TypeOK
<1>4. \A q \in Requests : q # r => (Live(q)' <=> Live(q))
  BY <1>3 DEF Live, InTransaction
<1>5. requests'[r].passage = passage  BY <1>3
<1>6. ASSUME NEW q \in Requests, Live(q)'
      PROVE  PassageAllowed(requests[q].passage)'
  <2>1. CASE q = r
    BY <1>5, <2>1 DEF RegisterPassage, PassageAllowed
  <2>2. CASE q # r
    BY <1>3, <1>4, <1>6, <2>2 DEF PassInv, RegisterPassage, PassageAllowed
  <2>3. QED  BY <2>1, <2>2
<1>7. ASSUME NEW q \in Requests, q # r, Live(q)
      PROVE  requests[q].passage.pass # passage.pass
  BY <1>7 DEF RegisterPassage, Locked, Live
<1>8. ASSUME NEW q \in Requests, NEW u \in Requests, Live(q)', Live(u)',
             requests'[q].passage.pass = requests'[u].passage.pass
      PROVE  q = u
  BY <1>3, <1>4, <1>5, <1>7, <1>8 DEF PassInv
<1>9. QED  BY <1>2, <1>6, <1>8 DEF PassInv

\* A commit appends the move that its check allowed, and no other transaction
\* holds the pass that it changes.
LEMMA CommitKeeps ==
  ASSUME TypeOK, PassInv, NEW r \in Requests, CommitPassage(r)
  PROVE  PassInv'
<1> DEFINE p == requests[r].passage.pass
           move == requests[r].passage.move
<1>1. Live(r)  BY DEF CommitPassage, MayCommit, Live, InTransaction
<1>2. requests[r] \in Transaction
  BY <1>1, RequestFields DEF TypeOK, Live, InTransaction
<1>3. p \in Passes /\ move \in Move /\ move.tipo \in Tipo
  BY <1>2, PassageFields DEF Transaction
<1>4. passes[p].inParking = (move.tipo = "SALIDA")
  BY <1>1 DEF PassInv, PassageAllowed, AssertPensionPassage
<1>5. passes[p] \in Pass /\ moves[p] \in Seq(Move)  BY <1>3 DEF TypeOK
<1>6. Alternates(Tipos(moves[p])) /\ (passes[p].inParking <=> Len(moves[p]) % 2 = 1)
  BY <1>3 DEF PassInv, AntiPassback
<1>7. Alternates(Tipos(Append(moves[p], move)))
  BY <1>3, <1>4, <1>5, <1>6, AlternatesOn
<1>8. [passes[p] EXCEPT !.inParking = (move.tipo = "ENTRADA")].inParking = (move.tipo = "ENTRADA")
  BY <1>5 DEF Pass
<1>9. passes'[p].inParking = (move.tipo = "ENTRADA") /\ moves'[p] = Append(moves[p], move)
  BY <1>3, <1>8 DEF CommitPassage, TypeOK
<1>10. passes'[p].inParking <=> Len(moves'[p]) % 2 = 1
  <2>1. Len(moves'[p]) = Len(moves[p]) + 1 /\ Len(moves[p]) \in Nat  BY <1>3, <1>5, <1>9
  <2>2. Len(moves'[p]) % 2 = 1 <=> Len(moves[p]) % 2 # 1  BY <2>1, Parity
  <2>3. move.tipo = "ENTRADA" <=> move.tipo # "SALIDA"  BY <1>3 DEF Tipo
  <2>4. QED  BY <1>4, <1>6, <1>9, <2>2, <2>3
<1>11. \A q \in Passes : q # p => passes'[q] = passes[q] /\ moves'[q] = moves[q]
  BY DEF CommitPassage, TypeOK
<1>12. AntiPassback'
  BY <1>7, <1>9, <1>10, <1>11 DEF PassInv, AntiPassback
<1>13. ASSUME NEW q \in Requests, Live(q)'
       PROVE  Live(q) /\ requests'[q] = requests[q] /\ requests[q].passage.pass # p
  <2>1. requests'[r] = Idle /\ \A u \in Requests : u # r => requests'[u] = requests[u]
    BY DEF CommitPassage, Become, TypeOK
  <2>2. q # r  BY <1>13, <2>1 DEF Live, InTransaction, Idle
  <2>3. Live(q) /\ requests'[q] = requests[q]
    BY <1>13, <2>1, <2>2 DEF Live, InTransaction
  <2>4. QED  BY <1>1, <2>2, <2>3 DEF PassInv
<1>14. ASSUME NEW q \in Requests, Live(q)'
       PROVE  PassageAllowed(requests[q].passage)'
  <2>1. requests[q].passage.pass \in Passes
    BY <1>13, <1>14, RequestFields, PassageFields DEF TypeOK, Live, InTransaction, Transaction
  <2>2. QED
    BY <1>11, <1>13, <1>14, <2>1 DEF PassInv, PassageAllowed
<1>15. ASSUME NEW q \in Requests, NEW u \in Requests, Live(q)', Live(u)',
              requests'[q].passage.pass = requests'[u].passage.pass
       PROVE  q = u
  BY <1>13, <1>15 DEF PassInv
<1>16. QED  BY <1>12, <1>14, <1>15 DEF PassInv

----------------------------------------------------------------------------
LEMMA DirectKeeps ==
  ASSUME TypeOK, PassInv, NEW r \in Requests, DirectRequest(r)
  PROVE  PassInv'
<1>1. CASE \E p \in Passes, tipo \in Tipo : Present(r, p, tipo, None)
  BY <1>1, PresentQuiet, QuietStep
<1>2. CASE \E p \in Passes : PresentExpired(r, p)
  BY <1>2, PresentQuiet, QuietStep
<1>3. CASE EndContract(r)  BY <1>3, EndContractQuiet, QuietStep
<1>4. CASE RegisterPassage(r)  BY <1>4, RegisterKeeps
<1>5. CASE BarrierOpens(r) \/ BarrierConfirmed(r) \/ TransactionTimesOut(r)
  BY <1>5, BarrierQuiet, QuietStep
<1>6. CASE PassageFails(r)  BY <1>6, PassageFailsQuiet, QuietStep
<1>7. CASE CommitPassage(r)  BY <1>7, CommitKeeps
<1>8. QED
  BY <1>1, <1>2, <1>3, <1>4, <1>5, <1>6, <1>7 DEF DirectRequest, PassageAdvances

LEMMA PassInvStarts ==
  ASSUME Init
  PROVE  PassInv
BY DEF Init, PassInv, AntiPassback, Alternates, Tipos, Live, InTransaction, Idle

LEMMA StopQuiet ==
  ASSUME requests' = [r \in Requests |-> Idle], UNCHANGED <<passes, moves>>
  PROVE  NoNewTransaction
BY DEF NoNewTransaction, Live, InTransaction, Idle

\* Anti-passback: the moves of each pass are an entry, an exit, an entry and so
\* on, and inParking agrees with them, however many requests present the pass at
\* once and whatever time limits, expiries, renewals and stops come between
\* (openBarrierWithPensionPass, registerPassage).
THEOREM AntiPassbackHolds == Spec => []AntiPassback
<1>1. Init => PassInv  BY PassInvStarts
<1>2. TypeOK /\ PassInv /\ [Next]_vars => PassInv'
  <2> SUFFICES ASSUME TypeOK, PassInv, [Next]_vars
               PROVE  PassInv'
    OBVIOUS
  <2>1. CASE \E r \in Requests : DirectRequest(r)  BY <2>1, DirectKeeps
  <2>2. CASE ContractChanges  BY <2>2, ContractsQuiet, QuietStep
  <2>3. CASE ServerStops  BY <2>3, StopQuiet, QuietStep DEF ServerStops
  <2>4. CASE UNCHANGED vars
    BY <2>4, QuietStep DEF vars, NoNewTransaction, Live, InTransaction
  <2>5. QED  BY <2>1, <2>2, <2>3, <2>4 DEF Next
<1>3. PassInv => AntiPassback  BY DEF PassInv
<1>4. QED  BY <1>1, <1>2, <1>3, PensionTypeCorrect, PTL DEF Spec

----------------------------------------------------------------------------
\* A live transaction whose barrier opened, and whose move is not written yet.
BarrierOpened(p, tipo) ==
  \E r \in Requests :
    /\ Live(r)
    /\ requests[r].pc # "open"
    /\ requests[r].passage.pass = p
    /\ requests[r].passage.move.tipo = tipo

MoveCount(p, tipo) == Cardinality(Passed(Tipos(moves[p]), tipo))

OpeningCount(p, tipo) == Cardinality(Passed(openings[p], tipo))

\* MovesWereOpened with the move that is on its way; that there is one at most for each
\* pass is part of PassInv.
OpenedInv ==
  \A p \in Passes, tipo \in Tipo :
    MoveCount(p, tipo) + (IF BarrierOpened(p, tipo) THEN 1 ELSE 0) <= OpeningCount(p, tipo)

\* One more passage counts once, in its own direction.
LEMMA PassedOnce ==
  ASSUME NEW n \in Nat, NEW s, NEW t, NEW tipo, NEW passing,
         DOMAIN s = 1 .. n, DOMAIN t = 1 .. n + 1,
         \A i \in 1 .. n : t[i] = s[i],
         t[n + 1] = passing
  PROVE  /\ Cardinality(Passed(s, tipo)) \in Nat
         /\ Cardinality(Passed(t, tipo)) =
              Cardinality(Passed(s, tipo)) + (IF passing = tipo THEN 1 ELSE 0)
<1>1. Passed(s, tipo) \in SUBSET (1 .. n) /\ n + 1 \notin Passed(s, tipo)
  BY DEF Passed
<1>2. IsFiniteSet(1 .. n)
  <2>1. 1 \in Int /\ n \in Int  OBVIOUS
  <2>2. QED  BY <2>1, FS_Interval
<1>3. IsFiniteSet(Passed(s, tipo))  BY <1>1, <1>2, FS_Subset
<1>4. Cardinality(Passed(s, tipo)) \in Nat  BY <1>3, FS_CardinalityType
<1>5. CASE passing = tipo
  <2>1. Passed(t, tipo) = Passed(s, tipo) \cup {n + 1}  BY <1>5 DEF Passed
  <2>2. Cardinality(Passed(s, tipo) \cup {n + 1}) = Cardinality(Passed(s, tipo)) + 1
    BY <1>1, <1>3, FS_AddElement
  <2>3. QED  BY <1>4, <1>5, <2>1, <2>2
<1>6. CASE passing # tipo
  <2>1. Passed(t, tipo) = Passed(s, tipo)  BY <1>6 DEF Passed
  <2>2. QED  BY <1>4, <1>6, <2>1
<1>7. QED  BY <1>4, <1>5, <1>6

LEMMA MovePassed ==
  ASSUME NEW s \in Seq(Move), NEW move \in Move, NEW tipo \in Tipo
  PROVE  /\ Cardinality(Passed(Tipos(s), tipo)) \in Nat
         /\ Cardinality(Passed(Tipos(Append(s, move)), tipo)) =
              Cardinality(Passed(Tipos(s), tipo)) + (IF move.tipo = tipo THEN 1 ELSE 0)
<1> DEFINE longer == Append(s, move)
           n == Len(s)
<1>1. /\ n \in Nat
      /\ DOMAIN s = 1 .. n
      /\ DOMAIN longer = 1 .. n + 1
      /\ \A i \in 1 .. n : longer[i] = s[i]
      /\ longer[n + 1] = move
  OBVIOUS
<1> HIDE DEF longer, n
<1>2. /\ DOMAIN Tipos(s) = 1 .. n
      /\ DOMAIN Tipos(longer) = 1 .. n + 1
      /\ \A i \in 1 .. n : Tipos(longer)[i] = Tipos(s)[i]
      /\ Tipos(longer)[n + 1] = move.tipo
  BY <1>1 DEF Tipos
<1>3. /\ Cardinality(Passed(Tipos(s), tipo)) \in Nat
      /\ Cardinality(Passed(Tipos(longer), tipo)) =
           Cardinality(Passed(Tipos(s), tipo)) + (IF move.tipo = tipo THEN 1 ELSE 0)
  BY <1>1, <1>2, PassedOnce
<1>4. QED  BY <1>3 DEF longer

LEMMA OpeningPassed ==
  ASSUME NEW s \in Seq(Tipo), NEW passing \in Tipo, NEW tipo \in Tipo
  PROVE  /\ Cardinality(Passed(s, tipo)) \in Nat
         /\ Cardinality(Passed(Append(s, passing), tipo)) =
              Cardinality(Passed(s, tipo)) + (IF passing = tipo THEN 1 ELSE 0)
<1> DEFINE longer == Append(s, passing)
           n == Len(s)
<1>1. /\ n \in Nat
      /\ DOMAIN s = 1 .. n
      /\ DOMAIN longer = 1 .. n + 1
      /\ \A i \in 1 .. n : longer[i] = s[i]
      /\ longer[n + 1] = passing
  OBVIOUS
<1> HIDE DEF longer, n
<1>2. /\ Cardinality(Passed(s, tipo)) \in Nat
      /\ Cardinality(Passed(longer, tipo)) =
           Cardinality(Passed(s, tipo)) + (IF passing = tipo THEN 1 ELSE 0)
  BY <1>1, PassedOnce
<1>3. QED  BY <1>2 DEF longer

LEMMA CountsTyped ==
  ASSUME TypeOK, NEW p \in Passes, NEW tipo \in Tipo
  PROVE  MoveCount(p, tipo) \in Nat /\ OpeningCount(p, tipo) \in Nat
<1>1. moves[p] \in Seq(Move) /\ openings[p] \in Seq(Tipo)  BY DEF TypeOK
<1>2. "ENTRADA" \in Tipo /\ [tipo |-> "ENTRADA", command |-> None] \in Move  BY DEF Tipo, Move
<1>3. QED  BY <1>1, <1>2, MovePassed, OpeningPassed DEF MoveCount, OpeningCount

\* A step that writes no move, opens no barrier and begins no transaction past its opening.
NoNewOpening ==
  /\ moves' = moves
  /\ openings' = openings
  /\ \A r \in Requests :
       Live(r)' /\ requests'[r].pc # "open" =>
         /\ Live(r)
         /\ requests[r].pc # "open"
         /\ requests'[r].passage = requests[r].passage

LEMMA NoNewOpeningKeeps ==
  ASSUME TypeOK, OpenedInv, NoNewOpening
  PROVE  OpenedInv'
<1>1. ASSUME NEW p \in Passes, NEW tipo \in Tipo
      PROVE  MoveCount(p, tipo)' + (IF BarrierOpened(p, tipo)' THEN 1 ELSE 0)
               <= OpeningCount(p, tipo)'
  <2>1. MoveCount(p, tipo)' = MoveCount(p, tipo) /\ OpeningCount(p, tipo)' = OpeningCount(p, tipo)
    BY DEF NoNewOpening, MoveCount, OpeningCount
  <2>2. BarrierOpened(p, tipo)' => BarrierOpened(p, tipo)
    BY DEF NoNewOpening, BarrierOpened
  <2>3. MoveCount(p, tipo) + (IF BarrierOpened(p, tipo) THEN 1 ELSE 0) <= OpeningCount(p, tipo)
    BY DEF OpenedInv
  <2>4. MoveCount(p, tipo) \in Nat /\ OpeningCount(p, tipo) \in Nat  BY CountsTyped
  <2>5. QED  BY <2>1, <2>2, <2>3, <2>4
<1>2. QED  BY <1>1 DEF OpenedInv

\* A request that ends, or that only begins its transaction.
LEMMA NothingOpened ==
  ASSUME TypeOK, NEW r \in Requests, NEW request, Become(r, request),
         UNCHANGED <<moves, openings>>,
         \/ request.pc \notin {"answer", "confirmed"}
         \/ /\ requests[r].pc # "open"
            /\ request.live => Live(r)
            /\ request.passage = requests[r].passage
  PROVE  NoNewOpening
<1>1. \A q \in Requests : requests'[q] = IF q = r THEN request ELSE requests[q]
  BY DEF Become, TypeOK
<1>2. QED  BY <1>1 DEF NoNewOpening, Live, InTransaction

LEMMA PresentOpensNothing ==
  ASSUME TypeOK, NEW r \in Requests, NEW p \in Passes, NEW tipo, NEW command,
         Present(r, p, tipo, command) \/ PresentExpired(r, p)
  PROVE  NoNewOpening
<1>1. CASE Present(r, p, tipo, command)
  <2>1. PICK request : request =
          [pc |-> "lock", passage |-> [pass |-> p, move |-> [tipo |-> tipo, command |-> command]]]
    OBVIOUS
  <2>2. request.pc = "lock"  BY <2>1
  <2>3. QED  BY <1>1, <2>1, <2>2, NothingOpened DEF Present
<1>2. CASE PresentExpired(r, p)
  <2>1. PICK request : request = [pc |-> "expiry", pass |-> p]
    OBVIOUS
  <2>2. request.pc = "expiry"  BY <2>1
  <2>3. QED  BY <1>2, <2>1, <2>2, NothingOpened DEF PresentExpired
<1>3. QED  BY <1>1, <1>2

LEMMA RequestOpensNothing ==
  ASSUME TypeOK, NEW r \in Requests,
         \/ EndContract(r) \/ PassageFails(r)
         \/ RegisterPassage(r) \/ BarrierConfirmed(r) \/ TransactionTimesOut(r)
  PROVE  NoNewOpening
<1>1. CASE EndContract(r) \/ PassageFails(r)
  <2>1. Idle.pc = "idle"  BY DEF Idle
  <2>2. QED
    BY <1>1, <2>1, NothingOpened
       DEF EndContract, PassageFails, RefusePassage, LockTimesOut, BarrierFails, CommitRefused
<1>2. CASE RegisterPassage(r)
  <2>1. PICK request : request = [pc |-> "open", passage |-> requests[r].passage, live |-> TRUE]
    OBVIOUS
  <2>2. request.pc = "open"  BY <2>1
  <2>3. QED  BY <1>2, <2>1, <2>2, NothingOpened DEF RegisterPassage
<1>3. CASE BarrierConfirmed(r) \/ TransactionTimesOut(r)
  <2>1. InTransaction(r)
    BY <1>3 DEF BarrierConfirmed, TransactionTimesOut, InTransaction
  <2>2. requests[r] \in Transaction  BY <2>1, RequestFields DEF TypeOK, InTransaction
  <2>3. PICK request : /\ Become(r, request)
                       /\ \/ /\ requests[r].pc = "answer"
                             /\ request = [requests[r] EXCEPT !.pc = "confirmed"]
                          \/ request = [requests[r] EXCEPT !.live = FALSE]
    BY <1>3 DEF BarrierConfirmed, TransactionTimesOut
  <2>4. /\ request.live => requests[r].live
        /\ request.passage = requests[r].passage
        /\ requests[r].pc = "open" => request.pc = "open"
    BY <2>2, <2>3 DEF Transaction
  <2>5. UNCHANGED <<moves, openings>>  BY <1>3 DEF BarrierConfirmed, TransactionTimesOut
  <2>6. QED  BY <2>1, <2>3, <2>4, <2>5, NothingOpened DEF Live
<1>4. QED  BY <1>1, <1>2, <1>3

\* A barrier that opens is counted before the move that it lets in or out.
LEMMA BarrierOpensKeeps ==
  ASSUME TypeOK, OpenedInv, NEW r \in Requests, BarrierOpens(r)
  PROVE  OpenedInv'
<1> DEFINE pass == requests[r].passage.pass
           passing == requests[r].passage.move.tipo
<1>1. requests[r] \in Transaction  BY RequestFields DEF TypeOK, BarrierOpens
<1>2. pass \in Passes /\ passing \in Tipo  BY <1>1, PassageFields DEF Transaction
<1>3. openings' = [openings EXCEPT ![pass] = Append(@, passing)] /\ moves' = moves
  BY DEF BarrierOpens
<1>4. PICK request : request = [requests[r] EXCEPT !.pc = "answer"]
  OBVIOUS
<1>5. \A q \in Requests : requests'[q] = IF q = r THEN request ELSE requests[q]
  BY <1>4 DEF BarrierOpens, Become, TypeOK
<1>6. request.passage = requests[r].passage  BY <1>1, <1>4 DEF Transaction
<1> HIDE DEF pass, passing
<1>7. ASSUME NEW p \in Passes, NEW tipo \in Tipo
      PROVE  MoveCount(p, tipo)' + (IF BarrierOpened(p, tipo)' THEN 1 ELSE 0)
               <= OpeningCount(p, tipo)'
  <2>1. MoveCount(p, tipo)' = MoveCount(p, tipo)  BY <1>3 DEF MoveCount
  <2>2. MoveCount(p, tipo) + (IF BarrierOpened(p, tipo) THEN 1 ELSE 0) <= OpeningCount(p, tipo)
    BY DEF OpenedInv
  <2>3. MoveCount(p, tipo) \in Nat /\ OpeningCount(p, tipo) \in Nat  BY CountsTyped
  <2>4. openings[p] \in Seq(Tipo)  BY DEF TypeOK
  <2>5. CASE p = pass /\ tipo = passing
    <3>1. openings'[p] = Append(openings[p], passing)  BY <1>3, <2>5 DEF TypeOK
    <3>2. OpeningCount(p, tipo)' = OpeningCount(p, tipo) + 1
      BY <1>2, <2>4, <2>5, <3>1, OpeningPassed DEF OpeningCount
    <3>3. QED  BY <2>1, <2>2, <2>3, <3>2
  <2>6. CASE ~(p = pass /\ tipo = passing)
    <3>1. BarrierOpened(p, tipo)' => BarrierOpened(p, tipo)
      BY <1>5, <1>6, <2>6 DEF BarrierOpened, Live, InTransaction, pass, passing
    <3>2. openings'[p] = openings[p] \/ (openings'[p] = Append(openings[p], passing) /\ p = pass)
      BY <1>3 DEF TypeOK
    <3>3. OpeningCount(p, tipo)' = OpeningCount(p, tipo)
      <4>1. CASE openings'[p] = openings[p]  BY <4>1 DEF OpeningCount
      <4>2. CASE openings'[p] = Append(openings[p], passing) /\ p = pass
        <5>1. OpeningCount(p, tipo)' = OpeningCount(p, tipo) + (IF passing = tipo THEN 1 ELSE 0)
          BY <1>2, <2>4, <4>2, OpeningPassed DEF OpeningCount
        <5>2. passing # tipo  BY <2>6, <4>2
        <5>3. QED  BY <2>3, <5>1, <5>2
      <4>3. QED  BY <3>2, <4>1, <4>2
    <3>4. QED  BY <2>1, <2>2, <2>3, <3>1, <3>3
  <2>7. QED  BY <2>5, <2>6
<1>8. QED  BY <1>7 DEF OpenedInv

\* The move of a commit was counted as opened, and its pass has no other transaction.
LEMMA CommitOpened ==
  ASSUME TypeOK, PassInv, OpenedInv, NEW r \in Requests, CommitPassage(r)
  PROVE  OpenedInv'
<1>. PICK pass, move : pass = requests[r].passage.pass /\ move = requests[r].passage.move
  OBVIOUS
<1>1. Live(r) /\ requests[r].pc # "open"
  BY DEF CommitPassage, MayCommit, Live, InTransaction
<1>2. requests[r] \in Transaction
  BY <1>1, RequestFields DEF TypeOK, Live, InTransaction
<1>3. pass \in Passes /\ move \in Move /\ move.tipo \in Tipo
  BY <1>2, PassageFields DEF Transaction
<1>4. moves' = [moves EXCEPT ![pass] = Append(@, move)] /\ openings' = openings
  BY DEF CommitPassage
<1>5. requests'[r] = Idle /\ \A q \in Requests : q # r => requests'[q] = requests[q]
  BY DEF CommitPassage, Become, TypeOK
<1>6. BarrierOpened(pass, move.tipo)  BY <1>1 DEF BarrierOpened
<1>7. \A q \in Requests : Live(q)' => Live(q) /\ q # r /\ requests'[q] = requests[q]
  BY <1>5 DEF Live, InTransaction, Idle
<1>8. \A q \in Requests : Live(q)' => requests[q].passage.pass # pass
  BY <1>1, <1>7 DEF PassInv
<1>9. \A tipo \in Tipo : ~BarrierOpened(pass, tipo)'
  BY <1>7, <1>8 DEF BarrierOpened
<1>10. ASSUME NEW p \in Passes, NEW tipo \in Tipo
       PROVE  MoveCount(p, tipo)' + (IF BarrierOpened(p, tipo)' THEN 1 ELSE 0)
                <= OpeningCount(p, tipo)'
  <2>1. OpeningCount(p, tipo)' = OpeningCount(p, tipo)  BY <1>4 DEF OpeningCount
  <2>2. MoveCount(p, tipo) + (IF BarrierOpened(p, tipo) THEN 1 ELSE 0) <= OpeningCount(p, tipo)
    BY DEF OpenedInv
  <2>3. MoveCount(p, tipo) \in Nat /\ OpeningCount(p, tipo) \in Nat  BY CountsTyped
  <2>4. moves[p] \in Seq(Move)  BY DEF TypeOK
  <2>5. CASE p = pass
    <3>1. moves'[p] = Append(moves[p], move)  BY <1>4, <2>5 DEF TypeOK
    <3>2. MoveCount(p, tipo)' = MoveCount(p, tipo) + (IF move.tipo = tipo THEN 1 ELSE 0)
      BY <1>3, <2>4, <3>1, MovePassed DEF MoveCount
    <3>3. move.tipo = tipo => BarrierOpened(p, tipo)  BY <1>6, <2>5
    <3>4. ~BarrierOpened(p, tipo)'  BY <1>9, <2>5
    <3>5. QED  BY <2>1, <2>2, <2>3, <3>2, <3>3, <3>4
  <2>6. CASE p # pass
    <3>1. moves'[p] = moves[p]  BY <1>4, <2>6 DEF TypeOK
    <3>2. MoveCount(p, tipo)' = MoveCount(p, tipo)  BY <3>1 DEF MoveCount
    <3>3. BarrierOpened(p, tipo)' => BarrierOpened(p, tipo)  BY <1>7 DEF BarrierOpened
    <3>4. QED  BY <2>1, <2>2, <2>3, <3>2, <3>3
  <2>7. QED  BY <2>5, <2>6
<1>11. QED  BY <1>10 DEF OpenedInv

LEMMA DirectOpened ==
  ASSUME TypeOK, PassInv, OpenedInv, NEW r \in Requests, DirectRequest(r)
  PROVE  OpenedInv'
<1>1. CASE \E p \in Passes, tipo \in Tipo : Present(r, p, tipo, None)
  BY <1>1, PresentOpensNothing, NoNewOpeningKeeps
<1>2. CASE \E p \in Passes : PresentExpired(r, p)
  BY <1>2, PresentOpensNothing, NoNewOpeningKeeps
<1>3. CASE \/ EndContract(r) \/ PassageFails(r)
           \/ RegisterPassage(r) \/ BarrierConfirmed(r) \/ TransactionTimesOut(r)
  BY <1>3, RequestOpensNothing, NoNewOpeningKeeps
<1>4. CASE BarrierOpens(r)  BY <1>4, BarrierOpensKeeps
<1>5. CASE CommitPassage(r)  BY <1>5, CommitOpened
<1>6. QED  BY <1>1, <1>2, <1>3, <1>4, <1>5 DEF DirectRequest, PassageAdvances

LEMMA ContractsOpenNothing ==
  ASSUME ContractChanges \/ ServerStops \/ UNCHANGED vars
  PROVE  NoNewOpening
<1>1. CASE ContractChanges \/ UNCHANGED vars
  <2>1. UNCHANGED <<moves, openings, requests>>
    BY <1>1 DEF ContractChanges, ContractExpires, Renew, vars
  <2>2. QED  BY <2>1 DEF NoNewOpening, Live, InTransaction
<1>2. CASE ServerStops
  <2>1. UNCHANGED <<moves, openings>> /\ \A r \in Requests : requests'[r] = Idle
    BY <1>2 DEF ServerStops
  <2>2. QED  BY <2>1 DEF NoNewOpening, Live, InTransaction, Idle
<1>3. QED  BY <1>1, <1>2

LEMMA OpenedStarts ==
  ASSUME Init
  PROVE  OpenedInv
<1>1. ASSUME NEW p \in Passes, NEW tipo \in Tipo
      PROVE  /\ MoveCount(p, tipo) = 0 /\ OpeningCount(p, tipo) = 0
             /\ ~BarrierOpened(p, tipo)
  <2>1. Passed(Tipos(moves[p]), tipo) = {} /\ Passed(openings[p], tipo) = {}
    BY DEF Init, Passed, Tipos
  <2>2. MoveCount(p, tipo) = 0 /\ OpeningCount(p, tipo) = 0
    BY <2>1, FS_EmptySet DEF MoveCount, OpeningCount
  <2>3. ~BarrierOpened(p, tipo)  BY DEF Init, BarrierOpened, Live, InTransaction, Idle
  <2>4. QED  BY <2>2, <2>3
<1>2. QED  BY <1>1 DEF OpenedInv

LEMMA OpenedImplies ==
  ASSUME TypeOK, OpenedInv
  PROVE  MovesWereOpened
<1>1. ASSUME NEW p \in Passes, NEW tipo \in Tipo
      PROVE  MoveCount(p, tipo) <= OpeningCount(p, tipo)
  <2>1. MoveCount(p, tipo) + (IF BarrierOpened(p, tipo) THEN 1 ELSE 0) <= OpeningCount(p, tipo)
    BY DEF OpenedInv
  <2>2. MoveCount(p, tipo) \in Nat /\ OpeningCount(p, tipo) \in Nat  BY CountsTyped
  <2>3. QED  BY <2>1, <2>2
<1>2. QED  BY <1>1 DEF MovesWereOpened, MoveCount, OpeningCount

\* "The passage is recorded only if the barrier opens": no pass has more moves in a
\* direction than openings for it, however many requests present the pass, whatever
\* answers are lost, time limits strike and transactions are rolled back
\* (openBarrierWithPensionPass).
THEOREM RecordedOnlyIfOpened == Spec => []MovesWereOpened
<1>1. Init => TypeOK /\ PassInv /\ OpenedInv  BY InitTyped, PassInvStarts, OpenedStarts
<1>2. TypeOK /\ PassInv /\ OpenedInv /\ [Next]_vars => PassInv' /\ OpenedInv'
  <2> SUFFICES ASSUME TypeOK, PassInv, OpenedInv, [Next]_vars
               PROVE  PassInv' /\ OpenedInv'
    OBVIOUS
  <2>1. CASE \E r \in Requests : DirectRequest(r)
    BY <2>1, DirectKeeps, DirectOpened
  <2>2. CASE ContractChanges
    BY <2>2, ContractsQuiet, QuietStep, ContractsOpenNothing, NoNewOpeningKeeps
  <2>3. CASE ServerStops
    BY <2>3, StopQuiet, QuietStep, ContractsOpenNothing, NoNewOpeningKeeps DEF ServerStops
  <2>4. CASE UNCHANGED vars
    <3>1. NoNewTransaction  BY <2>4 DEF vars, NoNewTransaction, Live, InTransaction
    <3>2. QED  BY <2>4, <3>1, QuietStep, ContractsOpenNothing, NoNewOpeningKeeps
  <2>5. QED  BY <2>1, <2>2, <2>3, <2>4 DEF Next
<1>3. TypeOK /\ OpenedInv => MovesWereOpened  BY OpenedImplies
<1>4. QED  BY <1>1, <1>2, <1>3, PensionTypeCorrect, PTL DEF Spec

----------------------------------------------------------------------------
\* The worker of MobileCommands.

LEMMA WorkerFields ==
  ASSUME MobileTypeOK
  PROVE  /\ worker.pc # "idle" => worker.command \in Commands
         /\ \A c \in Commands :
              commands[c].type = "PENSION_PASS_ACCESS" =>
                commands[c].pass \in Passes /\ commands[c].tipo \in Tipo
BY DEF MobileTypeOK, WorkerState, Ask

LEMMA WorkerGoes ==
  ASSUME MobileTypeOK
  PROVE  /\ Idle \in WorkerState
         /\ \A c \in Commands, pc \in {"delivered", "executing", "save", "succeeded", "failed"} :
              [pc |-> pc, command |-> c] \in WorkerState
BY DEF WorkerState, Idle

LEMMA GotoTyped ==
  ASSUME MobileTypeOK, worker.pc # "idle",
         NEW pc \in {"delivered", "executing", "save", "succeeded", "failed"}, Goto(pc)
  PROVE  /\ worker' \in WorkerState
         /\ worker'.pc = pc
         /\ worker'.command = worker.command
<1>1. PICK c \in Commands : c = worker.command  BY WorkerFields
<1>2. worker' = [pc |-> pc, command |-> c]  BY <1>1 DEF Goto
<1>3. QED  BY <1>1, <1>2, WorkerGoes

\* The worker takes part in a passage as one request of its own.
LEMMA BeginPassageKeeps ==
  ASSUME MobileTypeOK, PassInv, BeginPassage
  PROVE  TypeOK' /\ PassInv'
<1>1. Worker \in Requests /\ TypeOK  BY WorkerAssumption DEF MobileTypeOK
<1>2. PICK c \in Commands : c = worker.command
  BY WorkerFields DEF BeginPassage, Executes
<1>3. commands[c].pass \in Passes /\ commands[c].tipo \in Tipo
  BY <1>2, WorkerFields DEF BeginPassage, Executes
<1>4. PICK p \in Passes, tipo \in Tipo : p = commands[c].pass /\ tipo = commands[c].tipo
  BY <1>3
<1>5. Present(Worker, p, tipo, c) \/ PresentExpired(Worker, p)
  BY <1>2, <1>4 DEF BeginPassage
<1>6. QED  BY <1>1, <1>5, PresentTyped, PresentQuiet, QuietStep

\* What WorkerStep does to the passages.
LEMMA WorkerKeeps ==
  ASSUME MobileTypeOK, PassInv, WorkerStep
  PROVE  TypeOK' /\ PassInv'
<1>1. Worker \in Requests /\ TypeOK  BY WorkerAssumption DEF MobileTypeOK
<1>2. CASE ReuseReceipt \/ PassRefused \/ ExecuteOther \/ Report
           \/ \E c \in Commands : Deliver(c)
  <2>1. UNCHANGED vars
    BY <1>2 DEF ReuseReceipt, PassRefused, ExecuteOther, Report, Deliver
  <2>2. QED
    BY <1>1, <2>1, QuietStep DEF TypeOK, vars, NoNewTransaction, Live, InTransaction
<1>3. CASE BeginPassage  BY <1>3, BeginPassageKeeps
<1>4. CASE ContinuePassage
  <2>1. DirectRequest(Worker)  BY <1>4 DEF ContinuePassage, DirectRequest
  <2>2. QED  BY <1>1, <2>1, DirectTyped, DirectKeeps
<1>5. CASE SaveReceipt
  <2>1. worker.command \in Commands  BY <1>5, WorkerFields DEF SaveReceipt
  <2>2. TypeOK'  BY <1>1, <1>5, <2>1 DEF TypeOK, SaveReceipt
  <2>3. NoNewTransaction
    BY <1>5 DEF SaveReceipt, NoNewTransaction, Live, InTransaction
  <2>4. QED  BY <1>1, <2>2, <2>3, QuietStep
<1>6. QED  BY <1>2, <1>3, <1>4, <1>5 DEF WorkerStep

\* What the other steps do to the passages.
LEMMA OthersKeep ==
  ASSUME MobileTypeOK, PassInv,
         \/ \E c \in Commands, ask \in Ask : Queue(c, ask)
         \/ Others \/ ReportFails \/ MobileServerStops \/ UNCHANGED mobileVars
  PROVE  TypeOK' /\ PassInv'
<1>1. TypeOK  BY DEF MobileTypeOK
<1>2. CASE \/ \E c \in Commands, ask \in Ask : Queue(c, ask)
           \/ ReportFails \/ UNCHANGED mobileVars
  <2>1. UNCHANGED vars  BY <1>2 DEF Queue, ReportFails, mobileVars
  <2>2. QED
    BY <1>1, <2>1, QuietStep DEF TypeOK, vars, NoNewTransaction, Live, InTransaction
<1>3. CASE Others
  <2>1. CASE \E r \in Requests \ {Worker} : DirectRequest(r)
    BY <1>1, <2>1, DirectTyped, DirectKeeps
  <2>2. CASE ContractChanges
    BY <1>1, <2>2, ContractsTyped, ContractsQuiet, QuietStep
  <2>3. QED  BY <1>3, <2>1, <2>2 DEF Others
<1>4. CASE MobileServerStops
  <2>1. TypeOK'  BY <1>1, <1>4, TransactionIsRequest DEF TypeOK, MobileServerStops
  <2>2. NoNewTransaction  BY <1>4, StopQuiet DEF MobileServerStops
  <2>3. QED  BY <1>1, <2>1, <2>2, QuietStep
<1>5. QED  BY <1>2, <1>3, <1>4

----------------------------------------------------------------------------
\* A worker about to report a success has its result stored.
AnswerInv ==
  /\ SuccessIsStored
  /\ worker.pc = "succeeded" => worker.command \in receipts

\* The commands, the worker and the answers keep their types, receipts are
\* never taken back, and a success is only reported when it is stored.
LEMMA WorkerAnswers ==
  ASSUME MobileTypeOK, AnswerInv, WorkerStep
  PROVE  /\ commands' = commands /\ faults' = faults
         /\ effects' \in SUBSET Commands
         /\ answers' \in [Commands -> SUBSET {"success", "error"}]
         /\ worker' \in WorkerState
         /\ AnswerInv'
<1>1. CASE \E c \in Commands : Deliver(c)
  <2>1. PICK c \in Commands : Deliver(c)  BY <1>1
  <2>2. worker' \in WorkerState /\ worker'.pc # "succeeded"
    BY <2>1, WorkerGoes DEF Deliver
  <2>3. UNCHANGED <<commands, effects, answers, faults, receipts>>  BY <2>1 DEF Deliver, vars
  <2>4. AnswerInv'  BY <2>2, <2>3 DEF AnswerInv, SuccessIsStored
  <2>5. QED  BY <2>2, <2>3, <2>4 DEF MobileTypeOK
<1>2. CASE ReuseReceipt
  BY <1>2, WorkerFields, WorkerGoes
     DEF MobileTypeOK, AnswerInv, SuccessIsStored, ReuseReceipt, HasReceipt, Goto, vars
<1>3. CASE BeginPassage
  BY <1>3, WorkerFields, WorkerGoes
     DEF MobileTypeOK, AnswerInv, SuccessIsStored, BeginPassage, Executes, Goto,
         Present, PresentExpired
<1>4. CASE PassRefused
  BY <1>4, WorkerFields, WorkerGoes
     DEF MobileTypeOK, AnswerInv, SuccessIsStored, PassRefused, Executes, Goto, vars
<1>5. CASE ContinuePassage
  <2>1. receipts \subseteq receipts'
    BY <1>5 DEF ContinuePassage, PassageAdvances, RegisterPassage, BarrierOpens,
         BarrierConfirmed, TransactionTimesOut, CommitPassage, PassageFails, RefusePassage,
         LockTimesOut, BarrierFails, CommitRefused, EndContract
  <2>2. worker' \in WorkerState /\ worker'.pc # "succeeded"
    <3>1. worker.pc = "executing" /\ (UNCHANGED worker \/ Goto("save") \/ Goto("failed"))
      BY <1>5 DEF ContinuePassage
    <3>2. QED  BY <3>1, GotoTyped DEF MobileTypeOK
  <2>3. UNCHANGED <<commands, effects, answers, faults>>  BY <1>5 DEF ContinuePassage
  <2>4. AnswerInv'  BY <2>1, <2>2, <2>3 DEF AnswerInv, SuccessIsStored
  <2>5. QED  BY <2>2, <2>3, <2>4 DEF MobileTypeOK
<1>6. CASE ExecuteOther
  <2>1. PICK c \in Commands : c = worker.command
    BY <1>6, WorkerFields DEF ExecuteOther, Executes
  <2>2. worker' \in WorkerState /\ worker'.pc # "succeeded"
    <3>1. worker.pc = "delivered" /\ (Goto("save") \/ Goto("failed"))
      BY <1>6 DEF ExecuteOther, Executes
    <3>2. QED  BY <3>1, GotoTyped
  <2>3. effects' \in SUBSET Commands  BY <1>6, <2>1 DEF MobileTypeOK, ExecuteOther
  <2>4. UNCHANGED <<commands, answers, faults, receipts>>  BY <1>6 DEF ExecuteOther, vars
  <2>5. AnswerInv'  BY <2>2, <2>4 DEF AnswerInv, SuccessIsStored
  <2>6. QED  BY <2>2, <2>3, <2>4, <2>5 DEF MobileTypeOK
<1>7. CASE SaveReceipt
  BY <1>7, WorkerFields, WorkerGoes
     DEF MobileTypeOK, AnswerInv, SuccessIsStored, SaveReceipt, Goto
<1>8. CASE Report
  <2>1. PICK c \in Commands : c = worker.command  BY <1>8, WorkerFields DEF Report
  <2>2. answers' = [answers EXCEPT ![c] = @ \cup {Reported}]  BY <1>8, <2>1 DEF Report
  <2>3. Reported \in {"success", "error"} /\ (Reported = "success" => c \in receipts)
    BY <2>1 DEF Reported, AnswerInv
  <2>4. SuccessIsStored'
    BY <1>8, <2>2, <2>3 DEF MobileTypeOK, AnswerInv, SuccessIsStored, Report, vars
  <2>5. worker'.pc # "succeeded" /\ worker' \in WorkerState
    BY <1>8, WorkerGoes DEF Report, Idle
  <2>6. answers' \in [Commands -> SUBSET {"success", "error"}]
    BY <2>2, <2>3 DEF MobileTypeOK
  <2>7. UNCHANGED <<commands, effects, faults>>  BY <1>8 DEF Report
  <2>8. AnswerInv'  BY <2>4, <2>5 DEF AnswerInv
  <2>9. QED  BY <2>5, <2>6, <2>7, <2>8 DEF MobileTypeOK
<1>9. QED
  BY <1>1, <1>2, <1>3, <1>4, <1>5, <1>6, <1>7, <1>8 DEF WorkerStep

\* The other steps report nothing that is not stored.
LEMMA OthersAnswer ==
  ASSUME MobileTypeOK, AnswerInv,
         \/ \E c \in Commands, ask \in Ask : Queue(c, ask)
         \/ Others \/ ReportFails \/ MobileServerStops \/ UNCHANGED mobileVars
  PROVE  /\ commands' \in [Commands -> Ask]
         /\ effects' = effects
         /\ answers' \in [Commands -> SUBSET {"success", "error"}]
         /\ worker' \in WorkerState
         /\ faults' \in 0 .. MaxFaults
         /\ AnswerInv'
<1>1. CASE \E c \in Commands, ask \in Ask : Queue(c, ask)
  <2>1. UNCHANGED <<effects, answers, worker, faults, receipts>>  BY <1>1 DEF Queue, vars
  <2>2. commands' \in [Commands -> Ask]  BY <1>1 DEF Queue, MobileTypeOK
  <2>3. QED  BY <2>1, <2>2 DEF MobileTypeOK, AnswerInv, SuccessIsStored
<1>2. CASE Others
  <2>1. receipts \subseteq receipts'
    BY <1>2 DEF Others, DirectRequest, Present, PresentExpired, PassageAdvances, RegisterPassage,
         BarrierOpens, BarrierConfirmed, TransactionTimesOut, CommitPassage, PassageFails,
         RefusePassage, LockTimesOut, BarrierFails, CommitRefused, EndContract,
         ContractChanges, ContractExpires, Renew
  <2>2. UNCHANGED <<commands, effects, answers, worker, faults>>  BY <1>2 DEF Others
  <2>3. QED  BY <2>1, <2>2 DEF MobileTypeOK, AnswerInv, SuccessIsStored
<1>3. CASE ReportFails
  <2>1. PICK c \in Commands : c = worker.command  BY <1>3, WorkerFields DEF ReportFails
  <2>2. Reported \in {"success", "error"} /\ (Reported = "success" => c \in receipts)
    BY <2>1 DEF Reported, AnswerInv
  <2>3. answers' = answers \/ answers' = [answers EXCEPT ![c] = @ \cup {Reported}]
    BY <1>3, <2>1 DEF ReportFails
  <2>4. receipts' = receipts  BY <1>3 DEF ReportFails, vars
  <2>5. answers' \in [Commands -> SUBSET {"success", "error"}] /\ SuccessIsStored'
    BY <2>2, <2>3, <2>4 DEF MobileTypeOK, AnswerInv, SuccessIsStored
  <2>6. worker' \in WorkerState /\ worker'.pc # "succeeded"
    <3>1. worker.pc # "idle" /\ (Goto("failed") \/ worker' = Idle)  BY <1>3 DEF ReportFails
    <3>2. CASE Goto("failed")  BY <3>1, <3>2, GotoTyped
    <3>3. CASE worker' = Idle  BY <3>3, WorkerGoes DEF Idle
    <3>4. QED  BY <3>1, <3>2, <3>3
  <2>7. faults' \in 0 .. MaxFaults  BY <1>3, WorkerAssumption DEF MobileTypeOK, ReportFails
  <2>8. QED  BY <1>3, <2>5, <2>6, <2>7 DEF MobileTypeOK, AnswerInv, ReportFails
<1>4. CASE MobileServerStops
  <2>1. UNCHANGED <<commands, effects, answers, receipts>>  BY <1>4 DEF MobileServerStops
  <2>2. worker' \in WorkerState /\ worker'.pc # "succeeded"
    BY <1>4, WorkerGoes DEF MobileServerStops, Idle
  <2>3. faults' \in 0 .. MaxFaults
    BY <1>4, WorkerAssumption DEF MobileTypeOK, MobileServerStops
  <2>4. QED  BY <2>1, <2>2, <2>3 DEF MobileTypeOK, AnswerInv, SuccessIsStored
<1>5. CASE UNCHANGED mobileVars
  BY <1>5 DEF mobileVars, vars, MobileTypeOK, AnswerInv, SuccessIsStored
<1>6. QED  BY <1>1, <1>2, <1>3, <1>4, <1>5

----------------------------------------------------------------------------
\* Commands and passages.

Serving == {"lock", "open", "answer", "confirmed"}

Made(c) == \E p \in Passes : \E i \in DOMAIN moves[p] : moves[p][i].command = c

MadeOnce(c) ==
  \A p, q \in Passes : \A i \in DOMAIN moves[p], j \in DOMAIN moves[q] :
    moves[p][i].command = c /\ moves[q][j].command = c => p = q /\ i = j

\* A command that moves passes has its receipt from its one move.
MovesFollow ==
  \A c \in Commands :
    /\ MadeOnce(c)
    /\ commands[c].type # "other" => (c \in receipts <=> Made(c))
    /\ commands[c].type = "none" => c \notin receipts

\* The worker runs what was asked, and a passage only without a receipt.
WorkerFollows ==
  /\ worker.pc # "idle" => commands[worker.command].type # "none"
  /\ worker.pc = "executing" =>
       commands[worker.command].type = "PENSION_PASS_ACCESS" /\ worker.command \notin receipts
  /\ worker.pc = "save" /\ commands[worker.command].type = "PENSION_PASS_ACCESS" =>
       worker.command \in receipts

\* Only the request of the worker bears a command, the one it runs.
RequestsFollow ==
  /\ \A r \in Requests :
       requests[r].pc \in Serving =>
         requests[r].passage.move.command = (IF r = Worker THEN worker.command ELSE None)
  /\ requests[Worker].pc # "idle" => worker.pc = "executing"

CommandInv == MovesFollow /\ WorkerFollows /\ RequestsFollow

LEMMA MovesOfCommand ==
  ASSUME NEW c
  PROVE  /\ MovesOf(c) # {} <=> Made(c)
         /\ MadeOnce(c) => Cardinality(MovesOf(c)) <= 1
<1>1. \A x : x \in MovesOf(c) <=>
        \E p \in Passes : \E i \in DOMAIN moves[p] : moves[p][i].command = c /\ x = <<p, i>>
  BY DEF MovesOf
<1>2. MovesOf(c) # {} <=> Made(c)  BY <1>1 DEF Made
<1>3. ASSUME MadeOnce(c)
      PROVE  Cardinality(MovesOf(c)) <= 1
  <2>1. CASE MovesOf(c) = {}  BY <2>1, FS_EmptySet
  <2>2. CASE MovesOf(c) # {}
    <3>1. PICK x : x \in MovesOf(c)  BY <2>2
    <3>2. \A y \in MovesOf(c) : y = x  BY <1>1, <1>3, <3>1 DEF MadeOnce
    <3>3. MovesOf(c) = {x}  BY <3>1, <3>2
    <3>4. QED  BY <3>3, FS_Singleton
  <2>3. QED  BY <2>1, <2>2
<1>4. QED  BY <1>2, <1>3

\* A step that writes no move and no receipt, and queues no command.
LEMMA MovesStand ==
  ASSUME MovesFollow, UNCHANGED <<moves, receipts, commands>>
  PROVE  MovesFollow'
BY DEF MovesFollow, MadeOnce, Made

\* A step of a passage touches one request and keeps its passage.
LEMMA PassageStays ==
  ASSUME TypeOK, NEW r \in Requests,
         EndContract(r) \/ PassageAdvances(r) \/ PassageFails(r) \/ CommitPassage(r)
  PROVE  /\ requests[r].pc # "idle"
         /\ \A q \in Requests : q # r => requests'[q] = requests[q]
         /\ requests'[r].pc \in Serving =>
              requests[r].pc \in Serving /\ requests'[r].passage = requests[r].passage
         /\ ~PassageAdvances(r) => requests'[r].pc = "idle"
         /\ ~CommitPassage(r) => UNCHANGED <<moves, receipts>>
<1>1. CASE EndContract(r) \/ PassageFails(r) \/ CommitPassage(r)
  <2>1. Become(r, Idle)
    BY <1>1 DEF EndContract, PassageFails, RefusePassage, LockTimesOut, BarrierFails,
         CommitRefused, CommitPassage
  <2>2. requests'[r].pc = "idle" /\ \A q \in Requests : q # r => requests'[q] = requests[q]
    BY <2>1 DEF Become, TypeOK, Idle
  <2>3. requests[r].pc # "idle"
    BY <1>1 DEF EndContract, PassageFails, RefusePassage, LockTimesOut, BarrierFails,
         CommitRefused, CommitPassage, MayCommit
  <2>4. ~CommitPassage(r) => UNCHANGED <<moves, receipts>>
    BY <1>1 DEF EndContract, PassageFails, RefusePassage, LockTimesOut, BarrierFails, CommitRefused
  <2>5. QED  BY <2>2, <2>3, <2>4 DEF Serving
<1>2. CASE RegisterPassage(r)
  <2>1. PICK request : request = [pc |-> "open", passage |-> requests[r].passage, live |-> TRUE]
    OBVIOUS
  <2>2. request.passage = requests[r].passage  BY <2>1
  <2>3. requests'[r] = request /\ \A q \in Requests : q # r => requests'[q] = requests[q]
    BY <1>2, <2>1 DEF RegisterPassage, Become, TypeOK
  <2>4. requests[r].pc = "lock" /\ UNCHANGED <<moves, receipts>>
    BY <1>2 DEF RegisterPassage
  <2>5. QED  BY <1>2, <2>2, <2>3, <2>4 DEF Serving, PassageAdvances
<1>3. CASE BarrierOpens(r) \/ BarrierConfirmed(r) \/ TransactionTimesOut(r)
  <2>1. requests[r].pc \in {"open", "answer", "confirmed"} /\ UNCHANGED <<moves, receipts>>
    BY <1>3 DEF BarrierOpens, BarrierConfirmed, TransactionTimesOut, InTransaction
  <2>2. requests[r] \in Transaction  BY <2>1, RequestFields DEF TypeOK
  <2>3. PICK request : /\ Become(r, request)
                       /\ \/ request = [requests[r] EXCEPT !.pc = "answer"]
                          \/ request = [requests[r] EXCEPT !.pc = "confirmed"]
                          \/ request = [requests[r] EXCEPT !.live = FALSE]
    BY <1>3 DEF BarrierOpens, BarrierConfirmed, TransactionTimesOut
  <2>4. request.passage = requests[r].passage  BY <2>2, <2>3 DEF Transaction
  <2>5. requests'[r] = request /\ \A q \in Requests : q # r => requests'[q] = requests[q]
    BY <2>3 DEF Become, TypeOK
  <2>6. QED  BY <1>3, <2>1, <2>4, <2>5 DEF Serving, PassageAdvances
<1>4. QED  BY <1>1, <1>2, <1>3 DEF PassageAdvances

\* The move of a commit is its command's, and its receipt is written with it.
LEMMA CommitMakes ==
  ASSUME TypeOK, NEW r \in Requests, CommitPassage(r),
         NEW command, command = requests[r].passage.move.command
  PROVE  /\ \A c \in Commands : c # command =>
              /\ Made(c)' <=> Made(c)
              /\ MadeOnce(c) => MadeOnce(c)'
              /\ c \in receipts' <=> c \in receipts
         /\ command \in Commands =>
              /\ Made(command)'
              /\ ~Made(command) => MadeOnce(command)'
              /\ command \in receipts'
<1>. PICK p, move : p = requests[r].passage.pass /\ move = requests[r].passage.move
  OBVIOUS
<1>1. requests[r] \in Transaction
  BY RequestFields DEF TypeOK, CommitPassage, MayCommit
<1>2. p \in Passes /\ move \in Move  BY <1>1, PassageFields DEF Transaction
<1>3. moves' = [moves EXCEPT ![p] = Append(@, move)] /\ receipts' = receipts \cup ReceiptOf(move)
  BY DEF CommitPassage
<1>4. PICK n \in Nat : n = Len(moves[p])  BY <1>2 DEF TypeOK
<1>5. /\ DOMAIN moves[p] = 1 .. n
      /\ DOMAIN moves'[p] = 1 .. n + 1
      /\ \A i \in 1 .. n : moves'[p][i] = moves[p][i]
      /\ moves'[p][n + 1] = move
  BY <1>2, <1>3, <1>4 DEF TypeOK
<1>6. \A q \in Passes : q # p => moves'[q] = moves[q]  BY <1>3 DEF TypeOK
<1>7. \A i \in 1 .. n + 1 : i \in 1 .. n \/ i = n + 1  OBVIOUS
<1>8. ASSUME NEW c \in Commands, c # command
      PROVE  /\ Made(c)' <=> Made(c)
             /\ MadeOnce(c) => MadeOnce(c)'
             /\ c \in receipts' <=> c \in receipts
  <2>1. \A q \in Passes : \A i \in DOMAIN moves'[q] :
          moves'[q][i].command = c => i \in DOMAIN moves[q] /\ moves[q][i].command = c
    BY <1>5, <1>6, <1>7, <1>8
  <2>2. \A q \in Passes : \A i \in DOMAIN moves[q] :
          moves[q][i].command = c => i \in DOMAIN moves'[q] /\ moves'[q][i].command = c
    BY <1>5, <1>6
  <2>3. Made(c)' <=> Made(c)  BY <2>1, <2>2 DEF Made
  <2>4. MadeOnce(c) => MadeOnce(c)'  BY <2>1 DEF MadeOnce
  <2>5. QED  BY <1>3, <1>8, <2>3, <2>4 DEF ReceiptOf
<1>9. ASSUME command \in Commands
      PROVE  /\ Made(command)'
             /\ ~Made(command) => MadeOnce(command)'
             /\ command \in receipts'
  <2>1. Made(command)'
    <3>1. n + 1 \in DOMAIN moves'[p] /\ moves'[p][n + 1].command = command  BY <1>5
    <3>2. QED  BY <1>2, <3>1 DEF Made
  <2>2. ASSUME ~Made(command)
        PROVE  MadeOnce(command)'
    <3>1. \A q \in Passes : \A i \in DOMAIN moves'[q] :
            moves'[q][i].command = command => q = p /\ i = n + 1
      BY <1>5, <1>6, <1>7, <2>2 DEF Made
    <3>2. QED  BY <3>1 DEF MadeOnce
  <2>3. command # None  BY <1>9, PensionAssumption
  <2>4. QED  BY <1>3, <2>1, <2>2, <2>3 DEF ReceiptOf
<1>10. QED  BY <1>8, <1>9

\* A direct request bears no command.
LEMMA DirectCommands ==
  ASSUME MobileTypeOK, CommandInv, NEW r \in Requests \ {Worker}, DirectRequest(r),
         UNCHANGED <<commands, worker>>
  PROVE  CommandInv'
<1>1. TypeOK /\ Worker \in Requests  BY WorkerAssumption DEF MobileTypeOK
<1>2. CASE \/ \E p \in Passes, tipo \in Tipo : Present(r, p, tipo, None)
           \/ \E p \in Passes : PresentExpired(r, p)
  <2>1. UNCHANGED <<moves, receipts>>  BY <1>2 DEF Present, PresentExpired
  <2>2. /\ \A q \in Requests : q # r => requests'[q] = requests[q]
        /\ requests'[r].pc \in Serving => requests'[r].passage.move.command = None
    BY <1>1, <1>2 DEF Present, PresentExpired, Become, TypeOK, Serving
  <2>3. MovesFollow'  BY <2>1, MovesStand DEF CommandInv
  <2>4. WorkerFollows'  BY <2>1 DEF CommandInv, WorkerFollows
  <2>5. RequestsFollow'  BY <1>1, <2>2 DEF CommandInv, RequestsFollow
  <2>6. QED  BY <2>3, <2>4, <2>5 DEF CommandInv
<1>3. CASE EndContract(r) \/ PassageAdvances(r) \/ PassageFails(r) \/ CommitPassage(r)
  <2>1. /\ \A q \in Requests : q # r => requests'[q] = requests[q]
        /\ requests'[r].pc \in Serving =>
             requests[r].pc \in Serving /\ requests'[r].passage = requests[r].passage
        /\ ~CommitPassage(r) => UNCHANGED <<moves, receipts>>
    BY <1>1, <1>3, PassageStays
  <2>2. RequestsFollow'  BY <1>1, <2>1 DEF CommandInv, RequestsFollow
  <2>3. MovesFollow' /\ (\A c \in Commands : c \in receipts' <=> c \in receipts)
    <3>1. CASE ~CommitPassage(r)  BY <2>1, <3>1, MovesStand DEF CommandInv
    <3>2. CASE CommitPassage(r)
      <4>1. requests[r].passage.move.command = None
        BY <3>2 DEF CommitPassage, MayCommit, CommandInv, RequestsFollow, Serving
      <4>2. \A c \in Commands :
              /\ Made(c)' <=> Made(c)
              /\ MadeOnce(c) => MadeOnce(c)'
              /\ c \in receipts' <=> c \in receipts
        BY <1>1, <3>2, <4>1, CommitMakes, PensionAssumption
      <4>3. QED  BY <4>2 DEF CommandInv, MovesFollow
    <3>3. QED  BY <3>1, <3>2
  <2>4. WorkerFollows'
    <3>1. worker.pc # "idle" => worker.command \in Commands  BY WorkerFields
    <3>2. QED  BY <2>3, <3>1 DEF CommandInv, WorkerFollows
  <2>5. QED  BY <2>2, <2>3, <2>4 DEF CommandInv
<1>4. QED  BY <1>2, <1>3 DEF DirectRequest

\* The steps of the worker outside its passage: none of its requests is served.
LEMMA WorkerMoves ==
  ASSUME MobileTypeOK, CommandInv,
         UNCHANGED <<moves, receipts, commands, requests>>,
         worker.pc # "executing", worker'.pc # "executing",
         worker'.pc = "save" => commands[worker'.command].type # "PENSION_PASS_ACCESS",
         worker'.pc # "idle" => commands[worker'.command].type # "none"
  PROVE  CommandInv'
<1>1. Worker \in Requests  BY WorkerAssumption
<1>2. requests[Worker].pc = "idle"  BY DEF CommandInv, RequestsFollow
<1>3. MovesFollow'  BY MovesStand DEF CommandInv
<1>4. WorkerFollows'  BY DEF WorkerFollows
<1>5. RequestsFollow'  BY <1>2 DEF CommandInv, RequestsFollow, Serving
<1>6. QED  BY <1>3, <1>4, <1>5 DEF CommandInv

LEMMA WorkerBegins ==
  ASSUME MobileTypeOK, CommandInv, BeginPassage
  PROVE  CommandInv'
<1>1. TypeOK /\ Worker \in Requests  BY WorkerAssumption DEF MobileTypeOK
<1>2. PICK c \in Commands : c = worker.command
  BY WorkerFields DEF BeginPassage, Executes
<1>3. /\ worker.pc = "delivered" /\ worker'.pc = "executing" /\ worker'.command = c
      /\ commands[c].type = "PENSION_PASS_ACCESS" /\ c \notin receipts
  BY <1>2 DEF BeginPassage, Executes, HasReceipt, Goto
<1>4. UNCHANGED <<moves, receipts, commands>>
  BY DEF BeginPassage, Present, PresentExpired
<1>5. /\ \A q \in Requests : q # Worker => requests'[q] = requests[q]
      /\ requests'[Worker].pc \in Serving => requests'[Worker].passage.move.command = c
  BY <1>1, <1>2 DEF BeginPassage, Present, PresentExpired, Become, TypeOK, Serving
<1>6. MovesFollow'  BY <1>4, MovesStand DEF CommandInv
<1>7. WorkerFollows'  BY <1>3, <1>4 DEF WorkerFollows
<1>8. RequestsFollow'  BY <1>1, <1>3, <1>5 DEF CommandInv, RequestsFollow
<1>9. QED  BY <1>6, <1>7, <1>8 DEF CommandInv

LEMMA WorkerContinues ==
  ASSUME MobileTypeOK, CommandInv, ContinuePassage
  PROVE  CommandInv'
<1>1. TypeOK /\ Worker \in Requests  BY WorkerAssumption DEF MobileTypeOK
<1>2. worker.pc = "executing" /\ commands' = commands  BY DEF ContinuePassage
<1>3. PICK c \in Commands : c = worker.command  BY <1>2, WorkerFields
<1>4. /\ EndContract(Worker) \/ PassageAdvances(Worker) \/ PassageFails(Worker)
           \/ CommitPassage(Worker)
      /\ worker' = worker \/ Goto("save") \/ Goto("failed")
  BY DEF ContinuePassage
<1>5. /\ requests[Worker].pc # "idle"
      /\ \A q \in Requests : q # Worker => requests'[q] = requests[q]
      /\ requests'[Worker].pc \in Serving =>
           requests[Worker].pc \in Serving /\ requests'[Worker].passage = requests[Worker].passage
      /\ ~PassageAdvances(Worker) => requests'[Worker].pc = "idle"
      /\ ~CommitPassage(Worker) => UNCHANGED <<moves, receipts>>
  BY <1>1, <1>4, PassageStays
<1>6. commands[c].type = "PENSION_PASS_ACCESS" /\ c \notin receipts
  BY <1>2, <1>3 DEF CommandInv, WorkerFollows
<1>7. worker'.command = c
  BY <1>3, <1>4 DEF Goto
<1>8. CASE PassageAdvances(Worker) /\ UNCHANGED worker
  <2>1. UNCHANGED <<moves, receipts>>
    BY <1>8 DEF PassageAdvances, RegisterPassage, BarrierOpens, BarrierConfirmed,
         TransactionTimesOut
  <2>2. MovesFollow'  BY <1>2, <2>1, MovesStand DEF CommandInv
  <2>3. WorkerFollows'  BY <1>2, <1>8, <2>1 DEF CommandInv, WorkerFollows
  <2>4. RequestsFollow'  BY <1>1, <1>2, <1>5, <1>8 DEF CommandInv, RequestsFollow
  <2>5. QED  BY <2>2, <2>3, <2>4 DEF CommandInv
<1>9. CASE CommitPassage(Worker) /\ Goto("save")
  <2>1. requests[Worker].passage.move.command = c
    BY <1>1, <1>3, <1>9 DEF CommitPassage, MayCommit, CommandInv, RequestsFollow, Serving
  <2>2. /\ \A d \in Commands : d # c =>
             /\ Made(d)' <=> Made(d)
             /\ MadeOnce(d) => MadeOnce(d)'
             /\ d \in receipts' <=> d \in receipts
        /\ Made(c)'
        /\ ~Made(c) => MadeOnce(c)'
        /\ c \in receipts'
    BY <1>1, <1>9, <2>1, CommitMakes
  <2>3. ~Made(c)  BY <1>6 DEF CommandInv, MovesFollow
  <2>4. MovesFollow'
    <3>1. ASSUME NEW d \in Commands
          PROVE  /\ MadeOnce(d)'
                 /\ commands[d].type # "other" => (d \in receipts' <=> Made(d)')
                 /\ commands[d].type = "none" => d \notin receipts'
      <4>1. CASE d = c  BY <1>6, <2>2, <2>3, <4>1
      <4>2. CASE d # c  BY <2>2, <4>2 DEF CommandInv, MovesFollow
      <4>3. QED  BY <4>1, <4>2
    <3>2. QED  BY <1>2, <3>1 DEF MovesFollow
  <2>5. worker'.pc = "save"  BY <1>9 DEF Goto
  <2>6. WorkerFollows'  BY <1>2, <1>6, <1>7, <2>2, <2>5 DEF WorkerFollows
  <2>7. requests'[Worker].pc = "idle"
    BY <1>1, <1>9 DEF CommitPassage, Become, TypeOK, Idle
  <2>8. RequestsFollow'  BY <1>5, <2>7 DEF CommandInv, RequestsFollow, Serving
  <2>9. QED  BY <2>4, <2>6, <2>8 DEF CommandInv
<1>10. CASE (PassageFails(Worker) \/ EndContract(Worker)) /\ Goto("failed")
  <2>1. Become(Worker, Idle) /\ UNCHANGED <<moves, receipts>>
    BY <1>10 DEF EndContract, PassageFails, RefusePassage, LockTimesOut, BarrierFails,
         CommitRefused
  <2>2. requests'[Worker].pc = "idle"  BY <1>1, <2>1 DEF Become, TypeOK, Idle
  <2>3. worker'.pc = "failed"  BY <1>10 DEF Goto
  <2>4. MovesFollow'  BY <1>2, <2>1, MovesStand DEF CommandInv
  <2>5. WorkerFollows'  BY <1>2, <1>6, <1>7, <2>3 DEF WorkerFollows
  <2>6. RequestsFollow'  BY <1>5, <2>2 DEF CommandInv, RequestsFollow, Serving
  <2>7. QED  BY <2>4, <2>5, <2>6 DEF CommandInv
<1>11. QED  BY <1>8, <1>9, <1>10 DEF ContinuePassage

LEMMA WorkerSaves ==
  ASSUME MobileTypeOK, CommandInv, SaveReceipt
  PROVE  CommandInv'
<1>1. PICK c \in Commands : c = worker.command  BY WorkerFields DEF SaveReceipt
<1>2. /\ worker.pc = "save" /\ worker'.pc = "succeeded" /\ worker'.command = c
      /\ receipts' = receipts \cup {c}
      /\ UNCHANGED <<moves, requests, commands>>
  BY <1>1 DEF SaveReceipt, Goto
<1>3. /\ commands[c].type # "none"
      /\ commands[c].type = "PENSION_PASS_ACCESS" => c \in receipts
  BY <1>1, <1>2 DEF CommandInv, WorkerFollows
<1>4. commands[c].type \in {"none", "other", "PENSION_PASS_ACCESS"}
  BY DEF MobileTypeOK, Ask
<1>5. MovesFollow'
  <2>1. ASSUME NEW d \in Commands
        PROVE  /\ MadeOnce(d)'
               /\ commands[d].type # "other" => (d \in receipts' <=> Made(d)')
               /\ commands[d].type = "none" => d \notin receipts'
    <3>1. MadeOnce(d)' /\ (Made(d)' <=> Made(d))
      BY <1>2 DEF CommandInv, MovesFollow, MadeOnce, Made
    <3>2. d = c => commands[d].type = "other" \/ d \in receipts  BY <1>3, <1>4
    <3>3. QED  BY <1>2, <1>3, <3>1, <3>2 DEF CommandInv, MovesFollow
  <2>2. QED  BY <1>2, <2>1 DEF MovesFollow
<1>6. WorkerFollows'  BY <1>2, <1>3 DEF WorkerFollows
<1>7. requests[Worker].pc = "idle"  BY <1>2 DEF CommandInv, RequestsFollow
<1>8. RequestsFollow'  BY <1>2, <1>7 DEF CommandInv, RequestsFollow, Serving
<1>9. QED  BY <1>5, <1>6, <1>8 DEF CommandInv

\* What WorkerStep does to the commands.
LEMMA WorkerCommands ==
  ASSUME MobileTypeOK, CommandInv, WorkerStep
  PROVE  CommandInv'
<1>1. CASE \E c \in Commands : Deliver(c)
  <2>1. PICK c \in Commands : Deliver(c)  BY <1>1
  <2>2. /\ UNCHANGED <<moves, receipts, commands, requests>>
        /\ worker.pc = "idle" /\ worker'.pc = "delivered" /\ worker'.command = c
        /\ commands[c].type # "none"
    BY <2>1 DEF Deliver, Unanswered, vars
  <2>3. QED  BY <2>2, WorkerMoves
<1>2. CASE ReuseReceipt \/ PassRefused \/ ExecuteOther
  <2>1. /\ UNCHANGED <<moves, receipts, commands, requests>>
        /\ worker.pc = "delivered"
        /\ Goto("succeeded") \/ Goto("failed")
             \/ (Goto("save") /\ commands[worker.command].type = "other")
    BY <1>2 DEF ReuseReceipt, PassRefused, ExecuteOther, Executes, vars
  <2>2. commands[worker.command].type # "none"  BY <2>1 DEF CommandInv, WorkerFollows
  <2>3. /\ worker'.command = worker.command
        /\ worker'.pc \in {"succeeded", "failed", "save"}
        /\ worker'.pc = "save" => commands[worker.command].type = "other"
    BY <2>1 DEF Goto
  <2>4. QED  BY <2>1, <2>2, <2>3, WorkerMoves
<1>3. CASE BeginPassage  BY <1>3, WorkerBegins
<1>4. CASE ContinuePassage  BY <1>4, WorkerContinues
<1>5. CASE SaveReceipt  BY <1>5, WorkerSaves
<1>6. CASE Report
  <2>1. /\ UNCHANGED <<moves, receipts, commands, requests>>
        /\ worker.pc \in {"succeeded", "failed"} /\ worker'.pc = "idle"
    BY <1>6 DEF Report, vars, Idle
  <2>2. QED  BY <2>1, WorkerMoves
<1>7. QED  BY <1>1, <1>2, <1>3, <1>4, <1>5, <1>6 DEF WorkerStep

\* A command that is queued was not run before.
LEMMA QueueCommands ==
  ASSUME MobileTypeOK, CommandInv, NEW c \in Commands, NEW ask \in Ask, ask.type # "none",
         Queue(c, ask)
  PROVE  CommandInv'
<1>1. /\ commands[c].type = "none"
      /\ commands'[c] = ask /\ \A d \in Commands : d # c => commands'[d] = commands[d]
      /\ UNCHANGED <<moves, receipts, requests, worker>>
  BY DEF Queue, MobileTypeOK, vars
<1>2. c \notin receipts /\ ~Made(c)  BY <1>1 DEF CommandInv, MovesFollow
<1>3. worker.pc # "idle" => worker.command \in Commands /\ worker.command # c
  BY <1>1, WorkerFields DEF CommandInv, WorkerFollows
<1>4. MovesFollow'
  <2>1. ASSUME NEW d \in Commands
        PROVE  /\ MadeOnce(d)'
               /\ commands'[d].type # "other" => (d \in receipts' <=> Made(d)')
               /\ commands'[d].type = "none" => d \notin receipts'
    <3>1. MadeOnce(d)' /\ (Made(d)' <=> Made(d))
      BY <1>1 DEF CommandInv, MovesFollow, MadeOnce, Made
    <3>2. QED  BY <1>1, <1>2, <3>1 DEF CommandInv, MovesFollow
  <2>2. QED  BY <2>1 DEF MovesFollow
<1>5. WorkerFollows'  BY <1>1, <1>3 DEF CommandInv, WorkerFollows
<1>6. RequestsFollow'  BY <1>1 DEF CommandInv, RequestsFollow
<1>7. QED  BY <1>4, <1>5, <1>6 DEF CommandInv

\* What the other steps do to the commands.
LEMMA OthersCommands ==
  ASSUME MobileTypeOK, CommandInv,
         \/ \E c \in Commands, ask \in Ask : ask.type # "none" /\ Queue(c, ask)
         \/ Others \/ ReportFails \/ MobileServerStops \/ UNCHANGED mobileVars
  PROVE  CommandInv'
<1>1. CASE \E c \in Commands, ask \in Ask : ask.type # "none" /\ Queue(c, ask)
  BY <1>1, QueueCommands
<1>2. CASE Others
  <2>1. UNCHANGED <<commands, worker>>  BY <1>2 DEF Others
  <2>2. CASE \E r \in Requests \ {Worker} : DirectRequest(r)
    BY <2>1, <2>2, DirectCommands
  <2>3. CASE ContractChanges
    <3>1. UNCHANGED <<moves, receipts, requests>>
      BY <2>3 DEF ContractChanges, ContractExpires, Renew
    <3>2. MovesFollow'  BY <2>1, <3>1, MovesStand DEF CommandInv
    <3>3. WorkerFollows' /\ RequestsFollow'
      BY <2>1, <3>1 DEF CommandInv, WorkerFollows, RequestsFollow
    <3>4. QED  BY <3>2, <3>3 DEF CommandInv
  <2>4. QED  BY <1>2, <2>2, <2>3 DEF Others
<1>3. CASE ReportFails
  <2>1. /\ UNCHANGED <<moves, receipts, commands, requests>>
        /\ worker.pc \in {"succeeded", "failed"}
        /\ Goto("failed") \/ worker' = Idle
    BY <1>3 DEF ReportFails, vars
  <2>2. commands[worker.command].type # "none"  BY <2>1 DEF CommandInv, WorkerFollows
  <2>3. \/ worker'.pc = "failed" /\ worker'.command = worker.command
        \/ worker'.pc = "idle"
    BY <2>1 DEF Goto, Idle
  <2>4. QED  BY <2>1, <2>2, <2>3, WorkerMoves
<1>4. CASE MobileServerStops
  <2>1. /\ UNCHANGED <<moves, receipts, commands>>
        /\ \A r \in Requests : requests'[r].pc = "idle"
        /\ worker'.pc = "idle"
    BY <1>4 DEF MobileServerStops, Idle
  <2>2. MovesFollow'  BY <2>1, MovesStand DEF CommandInv
  <2>3. WorkerFollows'  BY <2>1 DEF WorkerFollows
  <2>4. RequestsFollow'  BY <2>1, WorkerAssumption DEF RequestsFollow, Serving
  <2>5. QED  BY <2>2, <2>3, <2>4 DEF CommandInv
<1>5. CASE UNCHANGED mobileVars
  BY <1>5 DEF mobileVars, vars, CommandInv, MovesFollow, MadeOnce, Made, WorkerFollows,
       RequestsFollow
<1>6. QED  BY <1>1, <1>2, <1>3, <1>4, <1>5

\* What the steps of the worker and of the others do to the openings.
LEMMA MobileOpened ==
  ASSUME MobileTypeOK, PassInv, OpenedInv, [MobileNext]_mobileVars
  PROVE  OpenedInv'
<1>1. Worker \in Requests /\ TypeOK  BY WorkerAssumption DEF MobileTypeOK
<1>2. CASE \/ \E c \in Commands, ask \in Ask : Queue(c, ask)
           \/ \E c \in Commands : Deliver(c)
           \/ ReuseReceipt \/ PassRefused \/ ExecuteOther \/ Report \/ ReportFails
           \/ UNCHANGED mobileVars
  <2>1. UNCHANGED vars
    BY <1>2 DEF Queue, Deliver, ReuseReceipt, PassRefused, ExecuteOther, Report, ReportFails,
         mobileVars
  <2>2. QED  BY <1>1, <2>1, ContractsOpenNothing, NoNewOpeningKeeps
<1>3. CASE BeginPassage
  <2>1. PICK c \in Commands : c = worker.command
    BY <1>3, WorkerFields DEF BeginPassage, Executes
  <2>2. PICK p \in Passes : p = commands[c].pass
    BY <1>3, <2>1, WorkerFields DEF BeginPassage, Executes
  <2>3. PICK tipo : tipo = commands[c].tipo  OBVIOUS
  <2>4. Present(Worker, p, tipo, c) \/ PresentExpired(Worker, p)
    BY <1>3, <2>1, <2>2, <2>3 DEF BeginPassage
  <2>5. QED  BY <1>1, <2>4, PresentOpensNothing, NoNewOpeningKeeps
<1>4. CASE ContinuePassage
  <2>1. DirectRequest(Worker)  BY <1>4 DEF ContinuePassage, DirectRequest
  <2>2. QED  BY <1>1, <2>1, DirectOpened
<1>5. CASE SaveReceipt
  <2>1. NoNewOpening
    BY <1>5 DEF SaveReceipt, NoNewOpening, Live, InTransaction
  <2>2. QED  BY <1>1, <2>1, NoNewOpeningKeeps
<1>6. CASE Others
  <2>1. CASE \E r \in Requests \ {Worker} : DirectRequest(r)  BY <1>1, <2>1, DirectOpened
  <2>2. CASE ContractChanges  BY <1>1, <2>2, ContractsOpenNothing, NoNewOpeningKeeps
  <2>3. QED  BY <1>6, <2>1, <2>2 DEF Others
<1>7. CASE MobileServerStops
  <2>1. UNCHANGED <<moves, openings>> /\ \A r \in Requests : requests'[r] = Idle
    BY <1>7 DEF MobileServerStops
  <2>2. NoNewOpening  BY <2>1 DEF NoNewOpening, Live, InTransaction, Idle
  <2>3. QED  BY <1>1, <2>2, NoNewOpeningKeeps
<1>8. QED
  BY <1>2, <1>3, <1>4, <1>5, <1>6, <1>7 DEF MobileNext, WorkerStep

LEMMA CommandsStart ==
  ASSUME MobileInit
  PROVE  CommandInv
<1>1. /\ receipts = {} /\ \A p \in Passes : moves[p] = <<>>
      /\ \A r \in Requests : requests[r].pc = "idle"
      /\ worker.pc = "idle"
  BY DEF MobileInit, Init, Idle
<1>2. MovesFollow  BY <1>1 DEF MovesFollow, MadeOnce, Made
<1>3. WorkerFollows /\ RequestsFollow
  BY <1>1, WorkerAssumption DEF WorkerFollows, RequestsFollow, Serving
<1>4. QED  BY <1>2, <1>3 DEF CommandInv

\* The passages, commands and answers, taken together.
MobileInv == MobileTypeOK /\ PassInv /\ OpenedInv /\ AnswerInv /\ CommandInv

\* The inductive invariant holds with the worker of the commands (processNext)
\* beside the direct requests (openBarrierWithPensionPass).
THEOREM MobileInvariant == MobileSpec => []MobileInv
<1>1. MobileInit => MobileInv
  <2> SUFFICES ASSUME MobileInit
               PROVE  MobileInv
    OBVIOUS
  <2>1. TypeOK /\ PassInv /\ OpenedInv /\ CommandInv
    BY InitTyped, PassInvStarts, OpenedStarts, CommandsStart DEF MobileInit
  <2>2. commands \in [Commands -> Ask]  BY DEF MobileInit, Ask
  <2>3. worker \in WorkerState /\ worker.pc = "idle"
    BY DEF MobileInit, WorkerState, Idle
  <2>4. faults \in 0 .. MaxFaults  BY WorkerAssumption DEF MobileInit
  <2>5. QED
    BY <2>1, <2>2, <2>3, <2>4 DEF MobileInit, MobileInv, MobileTypeOK, AnswerInv, SuccessIsStored
<1>2. MobileInv /\ [MobileNext]_mobileVars => MobileInv'
  <2> SUFFICES ASSUME MobileTypeOK, PassInv, OpenedInv, AnswerInv, CommandInv,
                      [MobileNext]_mobileVars
               PROVE  MobileInv'
    BY DEF MobileInv
  <2>1. OpenedInv'  BY MobileOpened
  <2>2. CASE WorkerStep
    BY <2>1, <2>2, WorkerKeeps, WorkerAnswers, WorkerCommands DEF MobileInv, MobileTypeOK
  <2>3. CASE \/ \E c \in Commands, ask \in Ask : ask.type # "none" /\ Queue(c, ask)
             \/ Others \/ ReportFails \/ MobileServerStops \/ UNCHANGED mobileVars
    <3>1. \/ \E c \in Commands, ask \in Ask : Queue(c, ask)
          \/ Others \/ ReportFails \/ MobileServerStops \/ UNCHANGED mobileVars
      BY <2>3
    <3>2. TypeOK' /\ PassInv'  BY <3>1, OthersKeep
    <3>3. /\ commands' \in [Commands -> Ask] /\ effects' = effects
          /\ answers' \in [Commands -> SUBSET {"success", "error"}]
          /\ worker' \in WorkerState /\ faults' \in 0 .. MaxFaults
          /\ AnswerInv'
      BY <3>1, OthersAnswer
    <3>4. CommandInv'  BY <2>3, OthersCommands
    <3>5. QED  BY <2>1, <3>2, <3>3, <3>4 DEF MobileInv, MobileTypeOK
  <2>4. QED  BY <2>2, <2>3 DEF MobileNext
<1>3. QED  BY <1>1, <1>2, PTL DEF MobileSpec

\* The tables of the passages and the commands stay well typed.
THEOREM MobileTypeCorrect == MobileSpec => []MobileTypeOK
<1>1. MobileInv => MobileTypeOK  BY DEF MobileInv
<1>2. QED  BY <1>1, MobileInvariant, PTL

\* Anti-passback holds with the worker of the commands beside the direct
\* requests, through repeated deliveries (processNext).
THEOREM CommandsAntiPassback == MobileSpec => []AntiPassback
<1>1. MobileInv => AntiPassback  BY DEF MobileInv, PassInv
<1>2. QED  BY <1>1, MobileInvariant, PTL

\* The cloud only hears of a success whose result is stored, whatever calls to
\* the cloud fail and whenever the server stops (processNext).
THEOREM ReportedIsStored == MobileSpec => []SuccessIsStored
<1>1. MobileInv => SuccessIsStored  BY DEF MobileInv, AnswerInv
<1>2. QED  BY <1>1, MobileInvariant, PTL

\* "The receipt commits with the passage": a command moves a pass once at most, and has a
\* receipt exactly when it did, for any number of passes, commands, stops and repeated
\* deliveries (processNext, beforeOpen).
THEOREM CommandPassesOnce == MobileSpec => []OnePassagePerCommand
<1>1. MobileInv => OnePassagePerCommand
  BY MovesOfCommand DEF MobileInv, CommandInv, MovesFollow, OnePassagePerCommand
<1>2. QED  BY <1>1, MobileInvariant, PTL

\* No more moves than openings, with the passages of the worker among the others.
THEOREM CommandsRecordedOnlyIfOpened == MobileSpec => []MovesWereOpened
<1>1. MobileInv => MovesWereOpened  BY OpenedImplies DEF MobileInv, MobileTypeOK
<1>2. QED  BY <1>1, MobileInvariant, PTL
=============================================================================
