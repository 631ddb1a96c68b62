----------------------------- MODULE MonthlyFlush -----------------------------
(***************************************************************************)
(* Operational logs and their flush: the logs of a range of days are       *)
(* listed, their totals by day stored as summaries, and the logs deleted,  *)
(* each apart.  On the first day of a month the scheduler flushes the      *)
(* month before, on chosen days the days so far of the current one, and    *)
(* an administrator any month; a job row keeps others away until it is     *)
(* old.  Settings may change meanwhile, and the server may stop anywhere.  *)
(*                                                                         *)
(* Logs of a day that share kind, scope, type, module and source are what  *)
(* a summary counts: one such group is modelled.                           *)
(*                                                                         *)
(* Left out: the hour of the run (it may come at any time of its day), the *)
(* sample messages, and the listings of logs and summaries.                *)
(***************************************************************************)
EXTENDS Processes, Integers, Sequences, FiniteSets, Functions

CONSTANTS
  MaxDay,       \* bound: days
  Month,        \* [1 .. MaxDay -> month]
  PartialDays,  \* days chosen for a flush of the current month
  Timer,        \* the scheduler's run
  Admins,       \* runs that administrators ask for at the same time
  Writers,      \* logs being written at the same time
  MaxLogs,      \* bound: logs
  MaxSettings,  \* bound: changes of the settings
  MaxFaults     \* bound: steps that fail, and stops

Days == 1 .. MaxDay

Flushers == {Timer} \cup Admins

FirstOfMonth(d) == \A e \in Days : e < d => Month[e] # Month[d]

ASSUME FlushAssumption ==
  /\ MaxDay \in Nat \ {0}
  /\ Month \in [Days -> Nat]
  /\ \A d, e \in Days : d <= e => Month[d] <= Month[e]
  /\ PartialDays \subseteq {d \in Days : ~FirstOfMonth(d)}
  /\ Timer \notin Admins

VARIABLES
  today,
  live,        \* operational_logs: how many are stored of each day
  summaries,   \* operational_log_flush_summaries: totals by type and day
  job,         \* monthly_flush_jobs: the row that is running; others no longer matter
  config,      \* monthly_flush_config
  scheduled,   \* whether the scheduler's interval is set
  flushes,     \* what each run remembers
  settings,    \* the configuration that a change of the settings has read
  writers,     \* the day each log under way is stamped with
  logged,      \* history: logs stored of each day
  open,        \* history: days that were listed while they could still get logs
  lagged,      \* history: days that got a log after they were over
  saved,       \* bound: settings
  faults

dataVars == <<live, summaries, logged, open, lagged>>
boundVars == <<saved, faults>>
flushVars == <<today, dataVars, job, config, scheduled, flushes, settings, writers, boundVars>>

----------------------------------------------------------------------------
OperationalLog == [day : Days]

Summary == [{"monthly", "partial"} -> [Days -> Nat]]

\* A job that has been running for half an hour is old; one whose run was stopped has no owner.
Job == [owner : Flushers \cup {None}, old : BOOLEAN]

Config == [enabled : BOOLEAN, partial : BOOLEAN, lastRun : 0 .. MaxDay]

Flush ==
       [pc : {"idle"}]
  \cup [pc : {"start", "list", "upsert", "delete", "finish", "save"},
        type : {"monthly", "partial"},
        range : SUBSET Days,
        config : Config \cup {None},   \* what the scheduler saves after the run
        listed : [Days -> Nat]]

FlushTypeOK ==
  /\ today \in Days
  /\ live \in [Days -> Nat]
  /\ summaries \in Summary
  /\ job \in Job \cup {None}
  /\ config \in Config
  /\ scheduled \in BOOLEAN
  /\ flushes \in [Flushers -> Flush]
  /\ settings \in Config \cup {None}
  /\ writers \in [Writers -> OperationalLog \cup {None}]
  /\ logged \in [Days -> Nat]
  /\ open \subseteq Days
  /\ lagged \subseteq Days

Nothing == [d \in Days |-> 0]

FlushInit ==
  /\ today = 1
  /\ live = Nothing
  /\ summaries = [t \in {"monthly", "partial"} |-> Nothing]
  /\ job = None
  /\ config = [enabled |-> FALSE, partial |-> FALSE, lastRun |-> 0]
  /\ scheduled = FALSE
  /\ flushes = [f \in Flushers |-> Idle]
  /\ settings = None
  /\ writers = [w \in Writers |-> None]
  /\ logged = Nothing
  /\ open = {}
  /\ lagged = {}
  /\ saved = 0
  /\ faults = 0

----------------------------------------------------------------------------
RoomForLog ==
  FoldFunctionOnSet(+, 0, logged, Days) + Cardinality({w \in Writers : writers[w] # None}) < MaxLogs

\* log: stamped when it is called, stored after its project and module are looked up.
Log(w) ==
  /\ writers[w] = None
  /\ RoomForLog
  /\ writers' = [writers EXCEPT ![w] = [day |-> today]]
  /\ UNCHANGED <<today, dataVars, job, config, scheduled, flushes, settings, boundVars>>

StoreLog(w) ==
  LET d == writers[w].day
  IN  /\ writers[w] # None
      /\ live' = [live EXCEPT ![d] = @ + 1]
      /\ logged' = [logged EXCEPT ![d] = @ + 1]
      /\ lagged' = IF d < today THEN lagged \cup {d} ELSE lagged
      /\ writers' = [writers EXCEPT ![w] = None]
      /\ UNCHANGED <<today, summaries, open, job, config, scheduled, flushes, settings, boundVars>>

NextDay ==
  /\ today < MaxDay
  /\ today' = today + 1
  /\ UNCHANGED <<dataVars, job, config, scheduled, flushes, settings, writers, boundVars>>

HalfHourPasses ==
  /\ job # None
  /\ ~job.old
  /\ job' = [job EXCEPT !.old = TRUE]
  /\ UNCHANGED <<today, dataVars, config, scheduled, flushes, settings, writers, boundVars>>

----------------------------------------------------------------------------
\* buildMonthRange and buildCurrentMonthYesterdayRange, on the day of the run.
MonthRange(m) == {d \in Days : Month[d] = m}

UntilYesterday(day) == {d \in Days : Month[d] = Month[day] /\ d < day}

NewFlush(type, range, save) ==
  [pc |-> "start", type |-> type, range |-> range, config |-> save, listed |-> Nothing]

Listing(f, listed, pc) ==
  flushes' = [flushes EXCEPT
    ![f] = [pc |-> pc, type |-> @.type, range |-> @.range, config |-> @.config, listed |-> listed]]

To(f, pc) == Listing(f, flushes[f].listed, pc)

\* The configuration as it is read before the run, with the day of the run.
Ran == [config EXCEPT !.lastRun = today]

\* runAutomaticIfDue, called by the interval while no other call of it runs.
RunAutomatic ==
  /\ scheduled
  /\ flushes[Timer].pc = "idle"
  /\ config.enabled
  /\ config.lastRun # today
  /\ \/ /\ FirstOfMonth(today)
        /\ flushes' = [flushes EXCEPT
             ![Timer] = NewFlush("monthly", MonthRange(Month[today] - 1), Ran)]
     \/ /\ today \in PartialDays
        /\ config.partial
        /\ flushes' = [flushes EXCEPT
             ![Timer] = NewFlush("partial", UntilYesterday(today), Ran)]
  /\ UNCHANGED <<today, dataVars, job, config, scheduled, settings, writers, boundVars>>

RunManual(f, m) ==
  /\ flushes[f].pc = "idle"
  /\ flushes' = [flushes EXCEPT ![f] = NewFlush("monthly", MonthRange(m), None)]
  /\ UNCHANGED <<today, dataVars, job, config, scheduled, settings, writers, boundVars>>

\* A job that is too old no longer keeps others away.
KeepStale(j) == j

FailStale(j) == IF j # None /\ j.old THEN None ELSE j

\* One running job, by the check and the unique index.
CreateJob(f) ==
  /\ flushes[f].pc = "start"
  /\ IF FailStale(job) # None
     THEN /\ flushes' = [flushes EXCEPT ![f] = Idle]
          /\ UNCHANGED job
     ELSE /\ job' = [owner |-> f, old |-> FALSE]
          /\ To(f, "list")
  /\ UNCHANGED <<today, dataVars, config, scheduled, settings, writers, boundVars>>

\* A run writes the end to its own row, whether or not that was failed as stale.
EndJob(f) == job' = IF job # None /\ job.owner = f THEN None ELSE job

\* The summaries are stored before the logs are deleted.
DeletesFirst(pc) == CASE pc = "list" -> "delete" [] pc = "delete" -> "upsert" [] OTHER -> "finish"

Following(pc) == CASE pc = "list" -> "upsert" [] pc = "upsert" -> "delete" [] OTHER -> "finish"

ListLogs(f) ==
  LET range  == flushes[f].range
      listed == [d \in Days |-> IF d \in range THEN live[d] ELSE 0]
  IN  /\ flushes[f].pc = "list"
      /\ Listing(f, listed, IF listed = Nothing THEN "finish" ELSE Following("list"))
      /\ open' = IF f \in Admins THEN open \cup {d \in range : d >= today} ELSE open
      /\ UNCHANGED <<today, live, summaries, logged, lagged, job, config, scheduled,
                     settings, writers, boundVars>>

\* Totals that were stored before for the same day are replaced.
UpsertSummaries(f) ==
  LET listed == flushes[f].listed
  IN  /\ flushes[f].pc = "upsert"
      /\ summaries' = [summaries EXCEPT ![flushes[f].type] =
           [d \in Days |-> IF listed[d] > 0 THEN listed[d] ELSE @[d]]]
      /\ Listing(f, Nothing, Following("upsert"))
      /\ UNCHANGED <<today, live, logged, open, lagged, job, config, scheduled,
                     settings, writers, boundVars>>

DeleteLogs(f) ==
  /\ flushes[f].pc = "delete"
  /\ live' = [d \in Days |-> IF d \in flushes[f].range THEN 0 ELSE live[d]]
  /\ To(f, Following("delete"))
  /\ UNCHANGED <<today, summaries, logged, open, lagged, job, config, scheduled,
                 settings, writers, boundVars>>

FinishJob(f) ==
  /\ flushes[f].pc = "finish"
  /\ EndJob(f)
  /\ IF f = Timer THEN To(f, "save") ELSE flushes' = [flushes EXCEPT ![f] = Idle]
  /\ UNCHANGED <<today, dataVars, config, scheduled, settings, writers, boundVars>>

SaveRun ==
  /\ flushes[Timer].pc = "save"
  /\ config' = flushes[Timer].config
  /\ flushes' = [flushes EXCEPT ![Timer] = Idle]
  /\ UNCHANGED <<today, dataVars, job, scheduled, settings, writers, boundVars>>

FlushFails(f) ==
  /\ flushes[f].pc \in {"list", "upsert", "delete"}
  /\ faults < MaxFaults
  /\ faults' = faults + 1
  /\ EndJob(f)
  /\ flushes' = [flushes EXCEPT ![f] = Idle]
  /\ UNCHANGED <<today, dataVars, config, scheduled, settings, writers, saved>>

----------------------------------------------------------------------------
\* updateSettings: read, then written; the interval is set or cleared after it.
ReadSettings ==
  /\ settings = None
  /\ saved < MaxSettings
  /\ saved' = saved + 1
  /\ settings' = config
  /\ UNCHANGED <<today, dataVars, job, config, scheduled, flushes, writers, faults>>

UpdateSettings(enabled, partial) ==
  /\ settings # None
  /\ config' = [settings EXCEPT !.enabled = enabled, !.partial = partial]
  /\ scheduled' = enabled
  /\ settings' = None
  /\ UNCHANGED <<today, dataVars, job, flushes, writers, boundVars>>

\* The server stops and starts again; logs and runs under way are gone, job rows are not.
Restart ==
  /\ faults < MaxFaults
  /\ faults' = faults + 1
  /\ flushes' = [f \in Flushers |-> Idle]
  /\ writers' = [w \in Writers |-> None]
  /\ settings' = None
  /\ scheduled' = config.enabled
  /\ job' = IF job # None THEN [job EXCEPT !.owner = None] ELSE None
  /\ UNCHANGED <<today, dataVars, config, saved>>

----------------------------------------------------------------------------
FlushStep(f) ==
  CreateJob(f) \/ ListLogs(f) \/ UpsertSummaries(f) \/ DeleteLogs(f) \/ FinishJob(f)

FlushNext ==
  \/ \E w \in Writers : Log(w) \/ StoreLog(w)
  \/ NextDay \/ HalfHourPasses
  \/ RunAutomatic \/ SaveRun
  \/ \E f \in Admins, d \in Days : RunManual(f, Month[d])
  \/ \E f \in Flushers : FlushStep(f) \/ FlushFails(f)
  \/ ReadSettings
  \/ \E enabled, partial \in BOOLEAN : UpdateSettings(enabled, partial)
  \/ Restart

\* The interval goes on, a run that started goes on, and half hours pass.
FlushFairness ==
  /\ WF_flushVars(RunAutomatic) /\ WF_flushVars(SaveRun)
  /\ \A f \in Flushers : WF_flushVars(FlushStep(f))
  /\ WF_flushVars(HalfHourPasses)

FlushSpec == FlushInit /\ [][FlushNext]_flushVars /\ FlushFairness

----------------------------------------------------------------------------
(***************************************************************************)
(* Properties.                                                             *)
(***************************************************************************)

Accounted(d) == live[d] + summaries["monthly"][d] + summaries["partial"][d]

\* Every log stays stored or counted through flushes that fail, stop, repeat or overlap,
\* unless an administrator flushed its day before it was over or it was stored after
\* midnight (STALE_RUNNING_FLUSH_MS, "the flush is idempotent").
NoLogLost == \A d \in Days \ (open \cup lagged) : Accounted(d) >= logged[d]

\* The month that ended is flushed on the first day of the next one, as long as that day
\* lasts, the flush stays enabled and no administrator keeps asking for runs, also after a
\* stop left its job running (runAutomaticIfDue, failStaleRunningJobs).
MonthIsClosed ==
  <>[](/\ FirstOfMonth(today) /\ config.enabled /\ scheduled
       /\ \A f \in Admins : flushes[f].pc = "idle")
    => []<>(config.lastRun = today)

\* Without the exceptions: a flush of the current month loses the logs it did not list.
EveryLogCounted == \A d \in Days : Accounted(d) >= logged[d]

\* No log is counted twice once no flush is under way.
CountedOnce ==
  (\A f \in Flushers : flushes[f].pc = "idle") => \A d \in Days : Accounted(d) <= logged[d]

\* Settings change by an administrator only (updateSettings).
SettingsKept ==
  [][settings = settings' => config'.enabled = config.enabled /\ config'.partial = config.partial]_flushVars
=============================================================================
