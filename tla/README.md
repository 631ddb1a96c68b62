# Verification of the Viggo local server (OPERATIVO)

The server of `src/` runs at one parking. It talks to the barriers and the POS registers over
HTTP and sockets, keeps everything in one PostgreSQL database, and exchanges events, commands
and configuration with the ADMINISTRATIVO cloud. It is one Node process: there are no threads,
but every `await` lets another request, timer or socket event run, and most operations are
several queries without a transaction. That is where its hard behaviour is, and that is what
these modules model: who reads what, when it is used, and what may happen in between.

Run everything from this directory:

    tlc -workers 2 -config CashPayments.cfg MCCashPayments     # one run
    tlapm CashPaymentsProofs.tla                               # one module of proofs

`PROJECT.json` lists the components, runs, mutants, hazards and theorems, and maps each
definition to the lines of the code that it models.

Paths below are relative to `src/src/`, except `prisma/`, which is beside it; `services` is `presentation/services`, `ds` is
`infrastructure/datasources`.

## 1. Inventory

### Components that are modelled

| Component | State it keeps | Operations | What is hard | What makes it correct |
|---|---|---|---|---|
| Cash ticket payments: `services/payments/cash-ticket-payment.service.ts`, the payment part of `services/parking/ticket.service.ts` and of `services/mobile/mobile-command.service.ts` | tickets (`pagado`, `monto`), cash sessions with their events, payments, movements | start or return a session, insert cash, cancel, quote, free exit, payment by the cloud | insertions lock session and ticket in a transaction; everything else reads without a lock and writes later | a ticket is charged once, its ledger agrees, cash is counted once |
| Cash register: `services/cash-register/cash-register.service.ts` | shifts, movements, counts, cuts | open, manual movement, count, close | no transaction at all; unique indexes are the only guard | one open shift per register, a cut that matches its drawer and never changes |
| Outbox and local retention: `services/outbox/*`, `ds/system/outbox.datasource.postgres.ts`, `ds/system/local-retention.datasource.postgres.ts`, triggers of `prisma/migrations` | outbox rows with state, error and next attempt; the rows they tell of | capture by trigger, publish a batch, mark, purge sent events, purge old rows | outages, lost answers, refused events, order, a purge that does not wait | nothing lost, each row in order, refused events hold nobody |
| Mobile commands: `services/mobile/*` | receipts | take the next command, run it, store, report | the cloud delivers a command until it is answered; the server may stop anywhere | a command acts once and is answered |
| Tickets and gates: `services/parking/ticket.service.ts`, `ds/parking/ticket.datasource.postgres.ts` | tickets with entry and exit keys | entry, exit, undo, replay by key | the barrier is opened between two writes, with no transaction around them | one active ticket per user, one entry per key, nobody leaves unpaid |
| Pension pass access: `services/pension/pension-pass-access.service.ts` | passes (`inParking`, contract), moves, receipts | open a barrier with a pass, expire a contract, renewal from the cloud | the barrier opens inside the transaction and obeys no rollback | anti-passback |
| Device access events: `presentation/sockets/device-runtime-access-event.*` | the marks on a ticket | barrier opened, vehicle passed, vehicle missing | events overtake each other, repeat, and are written back from an old read | marks agree with each other and with what the device said |
| Device binding and sockets: `services/parking/modulo-device-lifecycle.service.ts`, `presentation/sockets/device-socket-*` | binding and requests in the database; connections and sessions in memory | register, heartbeat, resolve, reset, open barrier, close socket, monitor | memory and database change at different steps; lists are written back whole | only approved devices open, closed sockets are forgotten |
| Configuration sync: `services/config/*`, `services/sync/*`, `ds/sync/*` | projected rows (projects, modules, pensions, passes, users, profiles); versions noted in the installation | fetch, check and apply in a transaction, note apart; pushes of the cloud | syncs overlap, versions are noted after the commit, a row has a part that is not the cloud's | what is noted was applied, what is applied is sound, the local part stays, the two sides converge |
| Installation link and identity: `services/installation/*`, `ds/installation/*` | the row `local_installation` (status, project, token, versions) | request a link, ask for its status, reset, rotate the token | each call reads the row or the cloud first and writes later; tokens are handed over once | a linked installation holds a token the cloud takes |
| Heartbeat publisher and snapshot: `services/heartbeat/*` | due, sending, retry and keepalive times of a project, in memory | note a change, tick, build, send | changes while a snapshot is sent, failures, restarts, lapses nobody reports | a change stays due until the cloud has it |
| Monthly flush and operational logs: `services/monthly-flush/*`, `services/operational-logs/*`, `ds/system/monthly-flush.datasource.postgres.ts` | logs, summaries, one job row, settings | write a log; list, summarise, delete; scheduled and manual; settings | three steps without a transaction, stale jobs taken over, stops | no log is neither stored nor counted, a month gets closed |
| Authentication and permissions: `services/auth/auth.service.ts`, `presentation/middlewares/auth.middleware.ts`, `ds/auth/*` | copies of users and profiles, tokens | login with and without the cloud, authenticated request, renewal; sync of the copies | copies age, are written by logins and syncs, and are read several times in one request | an offline login was vouched for; a deactivated user is out |
| Parking rates and fees: `services/parking/parking-rate.service.ts`, `services/parking/parking-fee.service.ts`, `domain/entities/parking/parking-rate.entity.ts` | versions of a project's rate | save a rate, quote a stay | blocks, fractions, days and caps at their edges; concurrent saves | a quote is what the rules say, every save is stored |
| Schema and migrations: `prisma/schema.prisma`, `prisma/migrations` | unique indexes, triggers | - | they are what is left when two requests race | the models use them where a write meets them |

### How they interact

- Every insertion and update of a ticket, payment, cash session, shift, movement, cut, pension
  move or rate fires a trigger that writes an outbox row in the same transaction
  (`Outbox!Capture`). Deletions fire none: the cloud hears of an entry, not of its undoing.
- `openBarrier` of the device sockets is called by entries and exits (after resp. before their
  write, `TicketGate`) and by pension passages (inside their transaction, `PensionAccess`).
- The worker of the commands calls the payment (`CashPayments!ApplyCloudPayment`), the entries
  and exits (`TicketGate`), and the pension passages (`MobileCommands` extends
  `PensionAccess`).
- A cash insertion that completes a session writes income into the shift of the register
  (`CashRegister!SaleRead`).
- Device events and exits write the same ticket row (`AccessEvents!BeginExit`).
- The configuration sync writes passes that a passage may hold (`PensionAccess`, the renewals)
  and the copies that logins and requests read (`Access!SyncApply`).
- Syncs and heartbeats go out with the credentials of the installation, which an operator may
  reset or relink and the cloud may ask to rotate meanwhile: `ConfigSync` and
  `HeartbeatPublisher` extend `InstallationLink`, whose calls run beside theirs.
- A reset is refused while the outbox holds events (`InstallationLink!MayReset`); sending them
  uses the same token (`OutboxSends`).
- The retention deletes rows that the outbox may still have to tell of (`Outbox!SelectOld`,
  `Outbox!DeleteOld`).
- Registrations, heartbeats and resolutions of devices end by telling the heartbeat publisher
  (`HeartbeatPublisher!ModuleUpdated`).

### Components that are not modelled

| Component | Why |
|---|---|
| Token cryptography | a cipher without state |
| Occupancy, local reports, payment history | they only read |
| Projects and modules | single writes of configuration rows; the device side is in `DeviceBinding`, the projection in `ConfigSync` |
| Pensions and manual moves | single writes of rows the cloud owns; a move entered by hand (`POST` and `PATCH pension-moves`) is a row of `pension_moves` that leaves `inParking` alone, so `AntiPassback` speaks of the moves of passages |
| Remote support | calls an external provider |
| Device setup | reads and a page |
| HTTP routes, middlewares and wiring | call the services; the exit on an unhandled rejection (`app.ts:12`) is the stop action of every module |
| Health and request log | input and output |

Partly modelled: of the local retention the tables whose rows have outbox events, not config
audits, binding requests and command receipts; of the operational logs the writing and the
flush, not queries and exports; of authentication not password resets, registration, or which permission a
route asks for.

Inside the modelled components these are also left out, each named at the head of its module: who the
actor is and other checks that only refuse a request; listings and reports; log wording;
`BARRIER_SOCKET_REQUIRED=false` (a development mode without devices); requests without an
idempotency key at the gates; secrets of devices, runtime and audit rows.

## 2. Modules

Each module declares its parameters as `CONSTANTS` with named assumptions, one variable per
table or per part of the memory, and one action per stretch of code between two `await`s that
other requests can observe. A request in progress is a record in `requests` (`tasks`,
`handlers`, `publisher`, `worker`): `pc` names the place where it waits and the other fields
are what the code still holds from earlier reads. An action's guard is the place and the
conditions of the code there; a read that may be stale is a field, never a look at the table.
Transactions that hold `SELECT ... FOR UPDATE` rows appear as predicates over `requests`
(`SessionLocked`, `TicketLocked`), and writers of those rows wait for them.

| Module | Models | Correspondence |
|---|---|---|
| `Processes` | what waits and what is not there | `None` is the null of the code and of the tables; `Idle` is a request that does nothing. Extended by most modules below |
| `TicketSettlement` | what charging a ticket promises (abstract) | `Settle(t, channel)`: a ticket goes once from owed to cash, app or free |
| `CashPayments` | cash sessions, cloud payments, quotes, free exits | `InsertionLocksAndChecks` and `CommitInsertion` are `commitCashInsertionTransaction`; `StartRead`, `StartFindShift`, `CreateSession`, `ReturnActiveSession` are `startSession`; `CancelRead`, `CancelWrite`, `AppendCancelEvent` are `cancelSession`. `Settlement` is the refinement mapping to `TicketSettlement` |
| `CashRegister` | shifts | `Open*`, `Movement*`, `SaleRead`, `Count*`, `Close*`, `Cut*` follow `openShift`, `registerMovement`, `recordTicketPaymentFromCashSession`, `saveCount`, `closeShift`; `Abandon` is an error or a stop between two queries. `drawer` is a ghost: the cash really in the register |
| `Outbox` | delivery of events | `Capture`, `CommitChange`, `RollbackChange` are the triggers and their transactions; `Publish` is the loop of `publishPending`; `CloudStores` and `CloudChanges` are the cloud; `Crash` and `RunFails` leave the batch at any step |
| `PensionAccess` | a passage with a pass | `Present`, `PresentExpired`, `EndContract`, then the places of the transaction: lock, register, open, answer, commit; `LockTimesOut`, `BarrierFails` and the 10 s limit end it early while the device may still open |
| `MobileCommands` | the command worker over `PensionAccess` | `Deliver` to `Report` follow `processNext`; the worker is one of the `Requests` of `PensionAccess` while it runs a passage |
| `TicketGate` | entries and exits | `EntryReplay`, `EntryKeyRead`, `Entry`, `ExitReplay`, `ExitKeyRead`, `Exit`; `RequestStops` anywhere; `answered` is a ghost of what clients were told |
| `AccessEvents` | events of one ticket | the device acts (`BarrierOpens`, `VehiclePasses`, `VehicleMissing`), a handler reads and computes (`Receive`), writes (`WritePatch`) and the exit does the same (`BeginExit`, `CompleteExit`) |
| `DeviceBinding` | one barrier module and its devices | `Register`, `Heartbeat`, `ResolveRead`, `OpenBarrier` begin a task; `TaskStep` is its next write; `TaskFails` a database error; `MonitorStep` drops silent sessions; `ServerStops` empties the memory |
| `InstallationLink` | the installation's row and the cloud's tokens | `RequestSend` and `RequestWrite` are `requestLink`, `StatusAsk` and `StatusWrite` `ensureInstallation`, `ResetRead` and `ResetWrite` `reset`, `Rotate*` `rotateSyncToken`; the cloud is `Cloud*` and `Accepts`. Extended by the next two |
| `ConfigSync` | projection of the cloud's snapshots | `SyncStart`, `Fetch`, and the steps of a sync or push (`SyncContinues`) follow `syncNow`; the transaction has a read and a write, between which `UseRow` changes the local part of a row. `applied`, `stale`, `pushed`, `notedFor` are history, and `from` of a task, the projects whose syncs had noted versions when it fetched |
| `HeartbeatPublisher` | the publisher of one project | `UpdateModulo` then `ModuleUpdated` is a request that changes a module, `Tick`, `BuildSnapshot`, `PostSnapshot`, `SnapshotFails` are the ticker and `send`; times count down in `TimePasses`; `owed` is history |
| `MonthlyFlush` | flush of operational logs | `RunAutomatic`, `RunManual`, then `CreateJob`, `ListLogs`, `UpsertSummaries`, `DeleteLogs`, `FinishJob`, `SaveRun`; `Log` and `StoreLog` are the two sides of the `await` in `log`; `logged`, `open`, `lagged` are history |
| `Access` | logins, requests, copies of users | `LoginStep` follows `login` with its offline branch, `RequestStep` follows `requireAuth` and `renewToken`, `Sync*` what a sync writes of users |
| `ParkingRates` | fee and versions of a rate | `CalculateParkingFee` is the function of that name; `SaveRate`, `LatestVersion`, `CreateVersion` follow `createVersion` under the lock of the project, `QuoteMinutes` and `QuoteRate` follow `quote` |
| `MC*` | TLC instances | symmetry sets, function-valued constants, and where the system is best started after its setup an initial state of its own |
| `FiniteSums` | sums of finite sets | lemmas about the `reduce` and `SUM` of the code, as `MapThenSumSet` adds them up |
| `*Proofs` | theorems | see section 5 |

## 3. Runs

| Run | What it shows | Bounds, and why they are enough |
|---|---|---|
| `cash_payments` | `CashLedgerAgrees`, `CashCounted`, `OneSessionStillOwed`, `NoCashForPaidTicket`, the inductive invariant `LedgerInv` (with it `ChargeInv` and `ChargedOnce`), and `SettledOnce`: the code implements `TicketSettlement` | one ticket, two sessions, two shifts, two requests, two keys, two app references, cash of 1 or 2 against quotes of 0 to 2: two of everything that can race, exact payment, change, partial payment and tolerance. A second ticket shares no row with the first |
| `cash_register` | the inductive invariant `RegisterInv` (with it one open shift per register and one movement per reference), `ClosedAsCut`, `CutIsFinal`, `ExpectedIsDrawerLessFunds`, `UnexplainedWasOvertaken` | two shifts of one register, two requests, one key, one sale, amounts above and below zero under both types, one shift at a time that is counted or cut (`BoundClosing`): the second shift meets the unique index, the two requests race at every step of closing |
| `outbox` | `NothingLost`, `HeadHoldsQueue`, `RowOrder`, `RefusedDoNotHoldQueue` | three events of two rows, the first refused, a batch of two: the batch holds a refused event and another, events wait outside it, the retention looks at the rows and deletes them later, between any two other steps, one stop or error at any step |
| `mobile_commands` | `AntiPassback`, `MovesWereOpened`, `OnePassagePerCommand`, `SuccessIsStored`, `EveryCommandAnswered` | two commands and a direct request for one pass, three openings (in, out, in), one renewal, one fault: each kind of passage may come between the two steps of another |
| `ticket_gate` | the inductive invariant `GateInv` (with it one active ticket per user, and `LeavesPaidAndRecorded`), `OneEntryPerKey` | one user, two tickets, two keys, two requests, two openings of the exit |
| `access_events` | `MarksAgree`, `MarksAreReported` | four events, three handlers: opened and passed (or missed) at the entry and at the exit, in any order, repeated, beside the exit |
| `device_binding` | `OnlyApprovedDevicesOpen`, `ClosedSocketForgotten` (liveness) | one device on two sockets, two tasks and the monitor, one resolution, one fault: a registration overlaps another of the same device, a heartbeat, a resolution and the closing of its socket |
| `config_sync` | `NotedWasApplied`, `SyncedIsSound`, `OwnStateKept`, `SyncConverges` (liveness) | a project with a module, a pension, a pass and a user and another with a user, two syncs, and four starts: with a push of this project or of the one linked before, a fault, an unsound version and the one that repairs it; with an operator who changes the link twice, once by a reset, to the same project or the other; with a cloud that still configures the project; with a project that was synced before. Faults, pushes and changes of the link do not meet in one behaviour, nor do three syncs |
| `heartbeat` | `TokenAccepted`, `ChangeIsDue`, `CloudSeesModulos` (liveness) | one module, two updates at once, two changes, an operator, two responses that ask for a rotation, three tokens, one fault; one request for a link and resets before, during and after it. Batch, retry and keepalive are 1, 2 and 2 ticks: only their order matters |
| `monthly_flush` | `NoLogLost`, `MonthIsClosed` (liveness) | two days of a month and the first of the next, one log, the scheduler beside one administrator, one change of settings, one fault: a partial flush, a monthly one, a manual one over either, a job that is taken over |
| `access` | `OfflineIsVouched`, `RevokedIsOut` (liveness) | one user, two passwords, one profile, a login beside a request, three days against a maximum age of one, one change in the cloud, one fault |
| `parking_rates` | `QuotedAsDocumented`, `QuoteIsBounded`, `EverySaveIsStored` | every valid rate over a day of four minutes, with and without tolerance and cap, stays up to three days, beside a second save: every edge is met by a minute before and a minute after it |

Deadlock is not checked: every bounded counter and every finite set of identifiers stops the
system once it is used up, which the real one is not.

Every action and every disjunct of the next-state relations fires in these runs, and each
property has a mutant: a definition with a plausible bug (a missing unique index, an unlocked
read, a missing hold, a deletion before its summary, ...) under which its run fails. The
mutated operator stands just before the definition that it stands in for.

The type invariants are conjuncts of the inductive invariants `LedgerInv` and `GateInv`, or
can be checked by adding them as an `INVARIANT` to the configuration of their module.

### Fairness

- `Outbox!Fairness`: the publisher goes on (`outbox.scheduler.ts`, a timer that starts over
  after any error), the cloud serves a request that reached it, and the next attempt of an event
  comes due because time passes. Nothing is assumed of transactions, of the link or of
  the cloud being reachable: the property itself only speaks of a queue for which they stay up.
- `MobileFairSpec`: weak fairness of the direct requests, since the transaction limit and the time
  limit of the device end every passage (`pension-pass-access.service.ts`, `transaction-runner.postgres.ts`).
  Strong fairness of the worker: the scheduler polls for ever and catches every error
  (`mobile-command.scheduler.ts:27`), and PostgreSQL grants a row lock in turn, so a stream of
  other requests does not keep the worker from its pass. Weak fairness is not enough: the lock is
  disabled whenever another request holds the row.
- `DeviceBinding!FairSpec`: a task that waits for a query is resumed, and the interval of the
  monitor fires. No fairness for new requests, sockets or the administrator.

- `ConfigFairness`: the scheduler's interval starts a sync again and again
  (`config-sync.scheduler.ts`), and a sync or push that runs goes on, because a query or a call to
  the cloud ends or times out. No fairness for operators, for the cloud or for its pushes.
- `HeartbeatFairness`: time passes, the interval ticks, a call ends or times out
  (`heartbeat-snapshot.publisher.ts`), and a request that wrote a module goes on to tell it.
- `FlushFairness`: the interval fires, a run goes on, and half hours pass, after which a running
  job counts as stale. Nothing makes the next day wait for the run: `MonthIsClosed` speaks of a
  first day that lasts.
- `AccessFairness`: the scheduler's sync starts, applies and notes. No fairness for logins or requests.

Safety needs no fairness.

### Where the code does less than it says

While modelling, these statements of a message, a comment or a document turned out not to hold.
Each is written as a property in its module, beside those that hold. To see the counterexample,
put it in place of the properties of the configuration (`INVARIANT` for a state, `PROPERTY` for
one with `[]` or `~>`), with the bound given if there is one; TLC then reports it violated.

| Configuration | Property | What happens | Where |
|---|---|---|---|
| `CashPayments` | `MovementIsTicketAmount` | a quote between the start of a session and its payment: the payment takes the new amount, the movement the old one | `cash-ticket-payment.service.ts:624` |
| `CashPayments` | `CashCancelledWithReason` | the status of a cancellation is set from an unlocked read, over an insertion, even over a payment that completed | `cash-ticket-payment.service.ts:382` |
| `CashRegister`, `Modulos = {m1, m2}` | `OneOpenShiftPerUser` | one cashier opens two registers at once; the index covers the register only | `cash-register.service.ts:87` |
| `CashRegister` | `CutMeansClosed` | a stop between cut and update leaves an open shift with a cut, that can never close | `cash-register.service.ts:394` |
| `CashRegister` | `CutCoversShift` | a movement that saw the shift open is inserted after its cut | `cash-register.service.ts:274` |
| `CashRegister` | `DifferenceIsExplained` | the note on a difference is demanded by movements read earlier than those the cut is made of | `cash-register.service.ts:370` |
| `CashRegister` | `ExpectedIsDrawer` | a movement that a client stores with the type `opening_fund` is cash in the drawer and is left out of the totals | `cash-register.service.ts:673` |
| `Outbox` | `ConfirmedBeforeDeleted` | a change is committed between the look at the outbox, which takes no lock, and the deletion: its event waits for a row that is gone | `local-retention.datasource.postgres.ts:21` |
| `Outbox` | `NothingReordered` | positions are taken at the write and visible at the commit; between rows, events overtake | `outbox.datasource.postgres.ts:31` |
| `Outbox`, `BatchSize = 1` | `RefusedDoNotHoldQueue` | refused events count in a batch; when they fill it, nothing behind them is read again | `outbox.datasource.postgres.ts:29` |
| `MobileCommands` | `BarrierAlternates` | the barrier opened, the transaction is rolled back, the pass may enter again | `pension-pass-access.service.ts:68` |
| `MobileCommands` | `RenewalKept` | a contract read as expired is ended over its renewal | `pension-pass-access.service.ts:92` |
| `MobileCommands` | `StoredResultReturned` | a success whose report fails is reported as an error | `mobile-command.service.ts:53` |
| `TicketGate` | `AnsweredTicketExists` | a ticket exists for retries before its barrier opens, and is deleted when it does not | `ticket.service.ts:205` |
| `TicketGate` | `AnsweredExitIsFound` | two exits with different keys; the later one overwrites the key of the first | `ticket.service.ts:281` |
| `AccessEvents` | `CompletedForGood` | an opening event read before the exit sets the ticket back to active | `device-runtime-access-event.helpers.ts:41` |
| `AccessEvents` | `MissedExitIsMarked` | `barrierConfirmedAt` of the entry hides a vehicle missing at the exit | `device-runtime-access-event.helpers.ts:83` |
| `DeviceBinding` | `RejectionHolds` | a registration writes back the list of requests it read before the rejection | `modulo-device-lifecycle.service.ts:404` |
| `DeviceBinding` | `ConnectedDeviceIsFound` | of two registrations of one device, the connection that stays is the one that leaves | `device-socket-runtime.service.ts:134` |
| `DeviceBinding`, `MaxResolved = 2` | `ResetLetsAskAgain` | a reset clears the binding and keeps the rejections | `modulo-device-lifecycle.service.ts:378` |
| `DeviceBinding`, `MaxResolved = 2` | `ResetHolds` | a heartbeat writes back the binding it read before the reset | `modulo-device-lifecycle.service.ts:343` |
| `ConfigSync` | `NeverStale` | a push or an earlier fetch is committed over a newer snapshot | `config-sync.service.ts:181` |
| `ConfigSync` | `NotedIsOfProject` | a new link without a reset keeps the versions noted for the project before, and a sync on its way notes those of a former one: a snapshot of the new project with an equal version is skipped | `config-sync.service.ts:105`, `installation-link.service.ts:184` |
| `Heartbeat` | `ResetAfterSent` | a change is stored after the check that nothing is pending and before the reset | `installation-link.service.ts:112` |
| `Heartbeat` | `LinkedIsWatched` | a project linked after the start is not watched until one of its modules changes | `app.ts:43` |
| `MonthlyFlush`, `MaxLogs = 2` | `EveryLogCounted` | a flush of a day that is not over deletes logs it did not list, and a later one replaces the totals of the first | `monthly-flush-admin.service.ts:281` |
| `MonthlyFlush` | `CountedOnce` | a stop between summary and deletion leaves logs both stored and counted | `monthly-flush-admin.service.ts:390` |
| `MonthlyFlush` | `SettingsKept` | a run saves the settings it read at its start over those an administrator saved meanwhile | `monthly-flush-admin.service.ts:206` |
| `Access` | `RevokedDuringLogin` | a login stores the user it fetched before the deactivation after the sync that carried it, and no later sync repeats it | `auth.service.ts:140` |
| `Access` | `RemovedIsOut` | a user who lost the application is dropped from the snapshot, so the copy here stays active | `sync.normalizers.ts:82` |
| `Access` | `OfflineUsesCheckedCopy` | the age of one copy is checked and the password of another | `auth.service.ts:170` |
| `Access` | `AgeEndsSessions` | a token is renewed whatever the age of the last login with the cloud | `auth.service.ts:102` |
| `ParkingRates`, `Quotes = {q1, q2}` | `FeeNeverDrops` | a stay that completes a day below the cap may cost less than a minute before | `parking-rate.entity.ts:97` |

## 4. What "correct" means where the code has no transaction

Several properties are weaker than one would first write, because the stronger one is one of the
counterexamples above. `ExpectedIsDrawerLessFunds` speaks of the drawer at the preview, not of the
one that the shift ends up with (`CutCoversShift`), and leaves out what clients put in as an opening
fund (`ExpectedIsDrawer`); `UnexplainedWasOvertaken` says when a difference may lack its note
(`DifferenceIsExplained`). `NothingLost` keeps deleted rows to the changes that were committed when
the retention looked (`ConfirmedBeforeDeleted`; the later ones are in `late`). `NotedWasApplied` and
`SyncConverges` speak of a link for which nobody else has noted versions since the last reset
(`NotedForIt`), for otherwise the code skips snapshots that it never applied
(`NotedIsOfProject`). `RowOrder` orders the events of one row, not all
(`NothingReordered`). `AntiPassback` speaks of the table of moves, not of the barrier
(`BarrierAlternates`); `MovesWereOpened` relates the two in the direction that holds: a move
in the table was opened. `OnlyApprovedDevicesOpen` says a device was approved at some time, for
a reset does not hold (`ResetHolds`).

## 5. Proofs

TLAPS checks these for every value of the constants that satisfies the assumptions in the
modules: any number of tickets, sessions, shifts, passes, commands, devices, sockets and requests.

**`CashPaymentsProofs`** (from `CashAssumption`, `QuotesAssumption`, `IdsAssumption`).
`ChargedOnce` is not inductive: between the checks of an insertion and its commit nothing in the
tables says that the ticket will be charged. `ChargeInv` adds what the locks hold:
`CommitsHoldTicket` (an insertion past its checks has an unpaid ticket, that no other insertion
holds), `PaymentsSettle` (a ticket with a payment is paid) and `SessionsBegun` (a session in use
has a ticket and a shift). Preservation is proved action by action: `CommitEffect`
describes the one action that changes three tables, the rest leave payments or locks alone.

The three properties of the ledger are proved together, as `LedgerInv`: an insertion commits into
four tables at once, and each property needs the rows of the others. `CommitsFindSession` says that
an insertion past its checks finds its session still taking cash and its key unused when it commits,
for the row of the session is locked;
`EventsFinite` that the events of a session can be added up. That `acceptedAmount` is the sum of
the events (`CashCounted`) needs that a sum does not depend on the order of its terms and that one
more event adds its amount. That is induction over a finite set, which the prover's library offers
only for operators; `FiniteSums` proves it by a minimal counterexample instead (`MinimalSet`:
among the subsets of a finite set for which something fails there is one that is smallest), and
shows that such a sum exists (`SumExists`), is unique (`SumsAgree`) and may take any element first
(`SumRemove`).

- `ChargeInvariant`: `Spec => []ChargeInv`. `TypeCorrect` and `NeverChargedTwice` follow.
- `LedgerInvariant`: `Spec => []LedgerInv`. `LedgerAlwaysAgrees`, `CashAlwaysCounted` and
  `SessionAlwaysOwed` follow.
- `NeverCashForPaidTicket`: an action property, from `ChargeInv` before each step.
- `ImplementsSettlement`: `Spec` implements `TicketSettlement` under the mapping `SettledBy`.
  Each step settles one ticket that is owed, or stutters; that a payment and `pagado` agree, which
  the mapping needs, is `PaymentsSettle`.

**`PensionAccessProofs`** (from `PensionAssumption`, `WorkerAssumption`). `AntiPassback` needs that
the check made under the row lock still holds at the commit, several steps and a device later.
`PassInv` says so for every transaction not rolled back yet (`Live`), and that no two of
them hold one pass. Most steps leave both alone (`QuietStep`); only taking the lock
(`RegisterKeeps`) and the commit (`CommitKeeps`, with `AlternatesOn` about sequences) need more.

`MovesWereOpened` counts: `OpenedInv` says that the moves of a pass in one direction, with the one
whose barrier has opened and whose transaction may still commit, are no more than its openings;
that only one such transaction can commit is `PassInv`. `OnePassagePerCommand` needs what the
worker and the receipts know of each other (`CommandInv`): a move that bears a command was stored
with its receipt, the worker begins a passage only without one, and no other request bears a
command.

- `PensionTypeCorrect`, `AntiPassbackHolds`, `RecordedOnlyIfOpened`: for direct requests only.
- `MobileInvariant`: with the worker. `WorkerKeeps` and `OthersKeep` reuse the lemmas above, since
  the worker is one of the requests; `AnswerInv` adds that a worker about to report a success
  has its receipt. `MobileTypeCorrect`, `CommandsAntiPassback`, `ReportedIsStored`,
  `CommandPassesOnce`, `CommandsRecordedOnlyIfOpened` follow.

**`DeviceBindingProofs`** (from `DeviceAssumption`). A binding is written back by tasks that read
it long ago, so `OnlyApprovedDevicesOpen` needs what they remember: `RemembersApproved` says of
every place of a task that the binding it would write, or the device it would command, was approved
by the time it read it, and `ApprovalsStay` that an approval is never taken back.

- `DeviceTypeCorrect`, `OnlyApprovedOpen`.

**`BooksProofs`, the registers** (from the assumptions on the constants of `CashRegister`). `ClosedAsCut` and `CutIsFinal` need what a
request still holds between two queries: `RequestsHold` says that a request past the cut has the
row it is about to copy into the shift, `FundsPending` that an opening fund is inserted once,
`RowsShaped` that rows refer to rows that exist. The two unique indexes are the guards of the
actions that meet them. One lemma per action, in the order of the code.

- `RegisterInvariant`: `Spec => []RegisterInv`. `ClosedShiftAsCut` follows.
- `CutsAreFinal`: an action property, from `RegisterInv` before each step.

`ExpectedIsDrawerLessFunds` compares what a preview computes from rows with the cash that was put in and
taken out one movement at a time. `DrawerInv` says that they agree in every state
(`DrawerBalances`: the opening amount, the balance of the movements that count and `FundsByHand`,
by the lemmas of `FiniteSums`, for amounts of any sign), which needs that a shift that was never opened has no movements and nobody about to
move, count or close it (`OnlyOpened`), since opening sets the drawer.

- `DrawerInvariant`: `Spec => []DrawerInv`. The rows of the registers are well typed with it.
- `ExpectedIsTheDrawer`: an action property, from `RegisterInv` and `DrawerInv` before each step.

`UnexplainedWasOvertaken` speaks of what a request saw some steps before its cut. `CutsInv` carries
it there: the difference that was projected without a note is nothing over the movements in `seen`
(`Projects`), and it is so in the cut that waits to be inserted and in the stored ones (`CutSound`).

- `UnexplainedCutWasOvertaken`: from `CutsInv`, inductive beside `RegisterInv` and `DrawerInv`.

**`TicketProofs`, the gates** (from the assumption of `TicketGate`). Whoever leaves was paid at the time the exit was read, several steps
and an open barrier before the ticket is completed: `ExitsHold` says that what an exit read
still holds, `EntriesHold` that an entry between its two writes owns its ticket, `KeysDiffer` that a key
names one ticket among those stored.

- `GateInvariant`: `Spec => []GateInv`. `LeavesPaid` follows.
- `KeyEntersOnce`: `OneEntryPerKey`, from `KeysDiffer` and what was answered.

**`TicketProofs`, the events** (from `TimeAssumption`). A handler computes its patch from a ticket it
read before other events and the exit wrote it. `HandledWasReported` says that an event in hand was
reported, and that the opening which let it in is still marked, for `barrierOpenedAt` is never
taken away. With that the marks of the row a patch is written over agree again, case by case of the
event (`PatchWritten`).

- `EventsInvariant`: `EventsSpec => []EventsInv`. `MarksAlwaysAgree` and `MarksFromReports` follow.

**`TicketProofs`, the rates** (from `RatesAssumption`: `Savers` are no null). Two saves get different
versions because the lock of the project is held from the read of the latest version to the insert
(`NextVersionHeld`). A quote is the fee of the version it names, since versions are never changed
(`QuotedByVersion`); what remains is arithmetic about `CalculateParkingFee`, for rules and minutes
of any size. `FeeFacts` gives its bounds. `FeeIsDocumented` equates its divisions with the blocks
that begin in the stay: `StartedBlocksAre` counts those by a bijection with the numbers below the
quotient rounded up, and `TotalOfDays` adds the days up by the smallest number of days for which
the sum would differ.

- `RatesInvariant`: `RatesSpec => []RatesInv`. `SavesAreStored` follows.
- `QuotesAreBounded`, `QuotesAreDocumented`: from `RatesInv` and the arithmetic.

**`CopyProofs`, the outbox** (from the assumptions of `Outbox`). A mark is written when the answer is in, so
`NothingLost` needs that the publisher remembers whether the event in hand was stored
(`SentIsStored`), and, for rows that were purged or are about to be, that all their events are
settled or came after the retention looked (`GoneIsSettled`, `late`). The order of a row needs `RowsInOrder` (events of one row are
captured one after the other), `HandIsPending` and `NothingOvertaken`: an earlier event that
still waits behind the batch in hand belongs to another row unless it was refused.

- `OutboxInvariant`: inductive. `NoEventLost` follows.
- `QueueIsHeld` and `RowsArriveInOrder`: action properties of the one step that stores an event.

**`CopyProofs`, the users** (from `AccessAssumption`). A session without the cloud trusts a password
and an age that a login read, and that logins and syncs write back. `CopiesAreVouched` says that a
copy has a password the cloud had for its user, and that its age counts from the last login the
cloud accepted; `CloudIsKnown` and `LoginsRead` say the same of what a sync or a login still
carries. `AcceptedBefore` keeps that login in the past, so that an age within `MaxAge` bounds it.

- `AccessInvariant`: `AccessSpec => []AccessInv`. `OfflineAlwaysVouched` follows.

**`BooksProofs`, the monthly flush** (from `FlushAssumption`). A run deletes what it listed two steps before, and the
settings, the day and other runs go on meanwhile. `StoredOrCounted` says that the logs of a day are
all stored, or all gone and counted; to keep it, `RunSound` says that what a run listed is all there
was of a day that is over (`ListedWhole`), and that what it will delete is counted
(`DeletesCounted`). `StaysWhole` keeps the days that are not over out of it, `TimerSound` the
scheduler inside the past, `StampedByToday` the logs that are being written.

- `FlushInvariant`: `FlushSpec => []FlushInv`. `LogsAreKept` (`NoLogLost`) follows.

**`CloudProofs`, the link** (from `LinkAssumption`). `TokenAccepted` depends on every call that is on its way:
a poll of the link brings a token that was handed over once, and a rotation brings the one that
replaces it. `CallsAgree` says that, while no call crossed a reset or a new link (`crossed`), the
calls of this link are about its project, one poll at most brings the sync token, and a rotation
was asked with the token in use; `TokenServes` that the stored token is accepted also while a poll
may still link again; `CallsBegan` that what a call holds was issued. A token taken from the
installation earlier is not newer than the stored one (`NotNewer`), which is all that an answer
needs to know of the request it belongs to.

- `LinkInvariant`: the link by itself. `PublisherLinkInvariant`: with the publisher, whose posts
  carry such tokens (`SnapshotToken`). `LinkedTokenAccepted` follows.

**`CloudProofs`, the syncs** (from `ConfigAssumption`). Several syncs and pushes compute what they
write before others commit. `WritesHeld` says that a transaction about to commit is the only one
with writes for its rows and that the part this server owns is the stored one, for the rows are
locked; `WritesSound` that a snapshot that was checked stays sound over what other transactions
commit, until a push is stored, which checks nothing. `NotesApplied` carries the
versions from the fetch to the note, across the commit and the change of the link (`TaskNotes`): what
a sync is about to note it applied, skipped as noted, or fetched when other projects had noted
(`from`), and what the installation has noted was applied if its project alone noted (`NotedBy`).

- `SyncInvariant`: `ConfigSpec => []SyncInv`. `NotedVersionWasApplied` and `SyncedRowsSound` follow.
- `OwnPartSurvives`: an action property, from `WritesHeld` before each commit.

**`CloudProofs`, the publisher** (from `HeartbeatAssumption`). `ChangeIsDue` needs `SendingShown`, that one snapshot is
sent at a time, and `DueDuringPost`: a change that came while a snapshot was posted is due by
itself, for the answer to that snapshot makes the project fresh again. The calls of
`InstallationLink` are steps like any other, so nothing about the link is assumed.

- `PublisherInvariant`: inductive. `ToldChangeIsDue` follows.

### Only model-checked

Every safety property that a run checks is proved. Liveness is not: `RefusedDoNotHoldQueue`,
`EveryCommandAnswered`, `ClosedSocketForgotten`, `SyncConverges`, `CloudSeesModulos`,
`MonthIsClosed`, `RevokedIsOut`. The prover does not handle fairness and `ENABLED`. Nor are the
properties of section 3 that do not hold.

Nothing is assumed but the assumptions on constants, which TLC evaluates in the runs. They say that
`None` is no identifier, that bounds and amounts are numbers (`MaxDay` of `Access` is not zero: the
first day is day one), and that identifiers of different tables differ where the code puts them in
one column. Sums, counts and totals over data of any size, which need induction, are all proved by a
minimal counterexample, among finite sets (`FiniteSums!MinimalSet`) or numbers
(`TicketProofs!MinimalNat`).

## 6. What is left

The order was the money first, then what leaves the building, then what opens barriers, then what
ties the server to its cloud, and then its upkeep. What would add most next:

1. `CashPayments` with `TicketGate`: an entry that is undone after its ticket was paid, and
   `Outbox` with `TicketGate`: a ticket that is deleted after its insertion was captured.
2. `TicketGate` with `AccessEvents`: the marks of a ticket that really enters and leaves.
3. `ConfigSync` with `DeviceBinding`: a module that a snapshot disables while its device opens.
4. An abstract ticket's life (absent, inside, gone) that `TicketGate` implements, and an abstract
   log of alternating passages that `PensionAccess` implements.
5. Proofs that `RevokedIsOut`, `MonthIsClosed` and the other liveness properties can only fail by
   waiting: a measure that every step of the scheduler lowers, as a safety property.

## 7. Not modelled, and why

Besides the components of section 1: request validation (`domain/dtos`), mappers between rows
and entities, pages and mail texts, environment settings, listings, reports and exports. They keep
no state and decide nothing that a property here is about; together they are
about half of the source, which is why the map covers less than that.
