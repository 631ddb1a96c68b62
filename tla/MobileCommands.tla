---------------------------- MODULE MobileCommands ----------------------------
(***************************************************************************)
(* Commands of the app, delivered by the cloud: one worker takes the next  *)
(* command, runs it unless a receipt says it already ran, stores the       *)
(* result as a receipt and reports it.  The cloud delivers a command until *)
(* it is answered.  Pension passages run through PensionAccess, beside the *)
(* requests that come directly; their receipt commits with the passage.    *)
(* The other commands carry a key that makes running them again harmless   *)
(* (CashPayments shows it for payments, TicketGate for entries and exits), *)
(* so only whether they took effect is kept here.                          *)
(*                                                                         *)
(* Left out: commands of another project, which are answered with an error *)
(* like any that fails before its effect.                                  *)
(***************************************************************************)
EXTENDS PensionAccess

CONSTANTS
  Worker,      \* the request that runs commands
  MaxFaults    \* bound: calls to the cloud that fail, and server stops

ASSUME WorkerAssumption == Worker \in Requests /\ MaxFaults \in Nat

VARIABLES
  commands,    \* what each command asks for
  effects,     \* other commands that took effect
  answers,     \* what the cloud heard about each command
  worker,
  faults

mobileVars == <<vars, commands, effects, answers, worker, faults>>

Ask ==
       [type : {"none", "other"}]
  \cup [type : {"PENSION_PASS_ACCESS"}, pass : Passes, tipo : Tipo]

WorkerState ==
       [pc : {"idle"}]
  \cup [pc : {"delivered", "executing", "save", "succeeded", "failed"}, command : Commands]

MobileTypeOK ==
  /\ TypeOK
  /\ commands \in [Commands -> Ask]
  /\ effects \in SUBSET Commands
  /\ answers \in [Commands -> SUBSET {"success", "error"}]
  /\ worker \in WorkerState
  /\ faults \in 0 .. MaxFaults

MobileInit ==
  /\ Init
  /\ commands = [c \in Commands |-> [type |-> "none"]]
  /\ effects = {}
  /\ answers = [c \in Commands |-> {}]
  /\ worker = Idle
  /\ faults = 0

----------------------------------------------------------------------------
\* The cloud.
Queue(c, ask) ==
  /\ commands[c].type = "none"
  /\ commands' = [commands EXCEPT ![c] = ask]
  /\ UNCHANGED <<vars, effects, answers, worker, faults>>

Unanswered(c) == commands[c].type # "none" /\ answers[c] = {}

----------------------------------------------------------------------------
\* The worker, in the order of processNext.
Goto(pc) == worker' = [pc |-> pc, command |-> worker.command]

Deliver(c) ==
  /\ worker.pc = "idle"
  /\ Unanswered(c)
  /\ worker' = [pc |-> "delivered", command |-> c]
  /\ UNCHANGED <<vars, commands, effects, answers, faults>>

\* Receipts that are never looked up; see the properties.
ReceiptIgnored(c) == FALSE

HasReceipt(c) == c \in receipts

\* A re-delivered command returns the stored result.
ReuseReceipt ==
  /\ worker.pc = "delivered"
  /\ HasReceipt(worker.command)
  /\ Goto("succeeded")
  /\ UNCHANGED <<vars, commands, effects, answers, faults>>

Executes(type) ==
  /\ worker.pc = "delivered"
  /\ ~HasReceipt(worker.command)
  /\ commands[worker.command].type = type

\* PENSION_PASS_ACCESS
BeginPassage ==
  LET ask == commands[worker.command]
  IN  /\ Executes("PENSION_PASS_ACCESS")
      /\ \/ Present(Worker, ask.pass, ask.tipo, worker.command)
         \/ PresentExpired(Worker, ask.pass)
      /\ Goto("executing")
      /\ UNCHANGED <<commands, effects, answers, faults>>

PassRefused ==
  LET ask == commands[worker.command]
  IN  /\ Executes("PENSION_PASS_ACCESS")
      /\ \/ passes[ask.pass].contract = "ended"
         \/ /\ passes[ask.pass].contract = "vigent"
            /\ ~AssertPensionPassage(passes[ask.pass].inParking, ask.tipo)
      /\ Goto("failed")
      /\ UNCHANGED <<vars, commands, effects, answers, faults>>

ContinuePassage ==
  /\ worker.pc = "executing"
  /\ \/ PassageAdvances(Worker) /\ UNCHANGED worker
     \/ CommitPassage(Worker) /\ Goto("save")
     \/ (PassageFails(Worker) \/ EndContract(Worker)) /\ Goto("failed")
  /\ UNCHANGED <<commands, effects, answers, faults>>

\* Any other type: it takes effect, or fails before it does.
ExecuteOther ==
  /\ Executes("other")
  /\ \/ effects' = effects \cup {worker.command} /\ Goto("save")
     \/ Goto("failed") /\ UNCHANGED effects
  /\ UNCHANGED <<vars, commands, answers, faults>>

\* Insert-if-absent: a passage has stored its receipt already.
SaveReceipt ==
  /\ worker.pc = "save"
  /\ receipts' = receipts \cup {worker.command}
  /\ Goto("succeeded")
  /\ UNCHANGED <<passes, moves, openings, requests, commands, effects, answers, faults>>

\* A success reported for what an error stopped; see the properties.
ReportsSuccess == "success"

Reported == IF worker.pc = "succeeded" THEN "success" ELSE "error"

\* A worker that only answers when it succeeded; see the properties.
ReportSuccessOnly ==
  /\ worker.pc = "succeeded"
  /\ answers' = [answers EXCEPT ![worker.command] = @ \cup {Reported}]
  /\ worker' = Idle
  /\ UNCHANGED <<vars, commands, effects, faults>>

Report ==
  /\ worker.pc \in {"succeeded", "failed"}
  /\ answers' = [answers EXCEPT ![worker.command] = @ \cup {Reported}]
  /\ worker' = Idle
  /\ UNCHANGED <<vars, commands, effects, faults>>

\* The call to the cloud fails, before or after the cloud took the report.  An
\* error response is not looked at; a call without response throws, and the
\* handler of a failed command also catches the report of a success.
ReportFails ==
  /\ worker.pc \in {"succeeded", "failed"}
  /\ faults < MaxFaults
  /\ faults' = faults + 1
  /\ \/ UNCHANGED answers
     \/ answers' = [answers EXCEPT ![worker.command] = @ \cup {Reported}]
  /\ \/ worker.pc = "succeeded" /\ Goto("failed")
     \/ worker' = Idle
  /\ UNCHANGED <<vars, commands, effects>>

MobileServerStops ==
  /\ worker # Idle \/ requests # [r \in Requests |-> Idle]
  /\ faults < MaxFaults
  /\ faults' = faults + 1
  /\ requests' = [r \in Requests |-> Idle]
  /\ worker' = Idle
  /\ UNCHANGED <<passes, moves, receipts, openings, commands, effects, answers>>

----------------------------------------------------------------------------
WorkerStep ==
  \/ \E c \in Commands : Deliver(c)
  \/ ReuseReceipt
  \/ BeginPassage
  \/ PassRefused
  \/ ContinuePassage
  \/ ExecuteOther
  \/ SaveReceipt
  \/ Report

Others ==
  /\ \/ \E r \in Requests \ {Worker} : DirectRequest(r)
     \/ ContractChanges
  /\ UNCHANGED <<commands, effects, answers, worker, faults>>

MobileNext ==
  \/ \E c \in Commands, ask \in Ask : ask.type # "none" /\ Queue(c, ask)
  \/ WorkerStep
  \/ Others
  \/ ReportFails
  \/ MobileServerStops

MobileSpec == MobileInit /\ [][MobileNext]_mobileVars

DirectProgress ==
  /\ \E r \in Requests \ {Worker} : PassageAdvances(r) \/ PassageFails(r) \/ CommitPassage(r)
  /\ UNCHANGED <<commands, effects, answers, worker, faults>>

\* The scheduler polls the cloud again and again, one run at a time; the time
\* limits end every transaction; and the database serves the requests that wait
\* for a row in turn, so that no stream of others keeps the worker from it.
MobileFairSpec ==
  /\ MobileSpec
  /\ SF_mobileVars(WorkerStep)
  /\ WF_mobileVars(DirectProgress)

----------------------------------------------------------------------------
\* The places <<pass, position>> of the moves made by a command.
MovesOf(c) == UNION {{p} \X {i \in DOMAIN moves[p] : moves[p][i].command = c} : p \in Passes}

\* "The receipt commits with the passage": a command moves a pass once at most,
\* and has a receipt exactly when it did, whenever the server stops or the
\* command is delivered again (beforeOpen).
OnePassagePerCommand ==
  \A c \in Commands :
    commands[c].type = "PENSION_PASS_ACCESS" =>
      /\ Cardinality(MovesOf(c)) <= 1
      /\ c \in receipts <=> MovesOf(c) # {}

\* The cloud hears of a success only when the result is stored, so that another
\* delivery would answer the same (processNext).
SuccessIsStored == \A c \in Commands : "success" \in answers[c] => c \in receipts

\* "A re-delivered command returns the stored result instead of running again":
\* a command with a stored result is never answered only with an error.  The
\* code does not keep this: a report that fails is followed by an error report.
StoredResultReturned == \A c \in Commands : c \in receipts => answers[c] # {"error"}

\* Every command of the app is answered, through stops and lost reports.
EveryCommandAnswered ==
  \A c \in Commands : commands[c].type # "none" ~> answers[c] # {}
=============================================================================
