------------------------------ MODULE ConfigSync ------------------------------
(***************************************************************************)
(* The configuration of the cloud, copied to this server.  A sync reads    *)
(* what versions the installation noted, fetches the configuration and the *)
(* access snapshot, and applies in one transaction those it has not noted: *)
(* existing rows are read, the items upserted, the result checked.  Only   *)
(* then, apart, it notes the versions.  The scheduler, an administrator    *)
(* and the cloud itself start syncs, none of which waits for another; the  *)
(* cloud may also push a snapshot, which is neither checked nor noted.     *)
(*                                                                         *)
(* A row stands for a project, module, pension, pass, user or profile: its *)
(* revision, whether it is well formed, and whether this server changed    *)
(* the part it owns (inParking, high score); the device state of a module  *)
(* is in tables that no snapshot writes.                                   *)
(*                                                                         *)
(* Left out: the audit of each sync, and what only its result shows.       *)
(***************************************************************************)
EXTENDS InstallationLink

CONSTANTS
  Rows,       \* ids of projected rows
  Tipo,       \* [Rows -> kind of row]
  Parent,     \* [Rows -> the row it references, or None]
  ProjectOf,  \* [Rows -> Projects]
  Snapshots,  \* [Projects -> [Kinds -> [versions -> set of items]]]
  Syncs,      \* syncs, of any origin, under way at the same time
  Scheduler,  \* the sync that the scheduler runs
  Pushes      \* snapshots the cloud pushes at the same time

Item == [id : Rows, rev : Nat, ok : BOOLEAN]

ASSUME ConfigAssumption ==
  /\ Scheduler \in Syncs
  /\ Syncs \cap Pushes = {}
  /\ Kinds = {"configuration", "access"}
  /\ Tipo \in [Rows -> {"proyecto", "modulo", "pension", "pass", "usuario", "profile"}]
  /\ Parent \in [Rows -> Rows \cup {None}]
  /\ ProjectOf \in [Rows -> Projects]
  /\ \A p \in Projects : \E id \in Rows : Tipo[id] = "proyecto" /\ ProjectOf[id] = p
  /\ \A id \in Rows : Tipo[id] = "pass" => Parent[id] # None
  /\ None \notin [rev : Nat, ok : BOOLEAN, own : BOOLEAN]
  /\ \A p \in Projects, k \in Kinds : \A v \in 0 .. MaxVersion[k] :
       \A i \in Snapshots[p][k][v] : i \in Item /\ ProjectOf[i.id] = p

VARIABLES
  versions,   \* the cloud: the current version of each snapshot
  rows,       \* the tables of projected rows
  tasks,      \* what each sync or push remembers
  applied,    \* history: versions whose snapshot a sync wrote
  stale,      \* history: an older item replaced a newer one
  pushed,     \* history: a pushed snapshot was committed
  notedFor    \* history: projects whose syncs noted, or skipped what was noted, since a reset

syncVars == <<versions, rows, tasks, applied, stale, pushed, notedFor>>
configVars == <<linkVars, syncVars>>

----------------------------------------------------------------------------
Row == [rev : Nat, ok : BOOLEAN, own : BOOLEAN]

Got ==
  {g \in [Kinds -> Nat \cup {None}] : \A k \in Kinds : g[k] = None \/ g[k] <= MaxVersion[k]}

Task ==
       [pc : {"idle"}]
  \cup [pc : {"fetch", "note"}, proyectoId : Projects, noted : Versions, got : Got, from : SUBSET Projects]
  \cup [pc : {"push"}, proyectoId : Projects, noted : Versions, got : Got, from : SUBSET Projects]
  \cup [pc : {"apply"}, proyectoId : Projects, noted : Versions, got : Got, from : SUBSET Projects,
        existing : [Rows -> Row \cup {None}]]
  \cup [pc : {"commit"}, proyectoId : Projects, noted : Versions, got : Got, from : SUBSET Projects,
        writes : [Rows -> Row \cup {None}]]

ConfigTypeOK ==
  /\ LinkTypeOK
  /\ versions \in [Projects -> Versions]
  /\ rows \in [Rows -> Row \cup {None}]
  /\ tasks \in [Syncs \cup Pushes -> Task]
  /\ applied \in [Projects -> [Kinds -> SUBSET Nat]]
  /\ stale \in BOOLEAN
  /\ pushed \in BOOLEAN
  /\ notedFor \subseteq Projects

ConfigInit ==
  /\ LinkInit
  /\ versions = [p \in Projects |-> NothingNoted]
  /\ rows = [id \in Rows |-> None]
  /\ tasks = [s \in Syncs \cup Pushes |-> Idle]
  /\ applied = [p \in Projects |-> [k \in Kinds |-> {}]]
  /\ stale = FALSE
  /\ pushed = FALSE
  /\ notedFor = {}

----------------------------------------------------------------------------
\* Users without access to this application and profiles without modules are not stored.
Normalized(k, items) == {i \in items : k = "configuration" \/ i.ok}

\* An item that is stored as it comes is not written.
Unchanged(row, i) == row # None /\ row.rev = i.rev /\ row.ok = i.ok

\* The part of a row that this server owns survives: a write leaves it alone, and a new
\* row starts without.  See the properties.
OwnAsRead(read, row) == IF read = None THEN FALSE ELSE read.own

OwnPart(read, row) == IF row = None THEN FALSE ELSE row.own

Written(read, row, i) == [rev |-> i.rev, ok |-> i.ok, own |-> OwnPart(read, row)]

\* What applyProjection writes, given the rows it read first; None where nothing.
Projection(read, items) ==
  [id \in Rows |->
    LET its == {i \in items : i.id = id /\ ~Unchanged(read[id], i)}
    IN  IF its = {} THEN None
        ELSE Written(read[id], rows[id], CHOOSE i \in its : TRUE)]

Over(stored, writes) == [id \in Rows |-> IF writes[id] = None THEN stored[id] ELSE writes[id]]

\* A snapshot whose version is noted is skipped; one without a version never is.
AppliedOnce(task, k) == task.noted[k] # 0

AlreadyApplied(task, k) == task.got[k] # 0 /\ task.noted[k] = task.got[k]

ToApply(task) == {k \in Kinds : task.got[k] # None /\ ~AlreadyApplied(task, k)}

Items(task) ==
  UNION {Normalized(k, Snapshots[task.proyectoId][k][task.got[k]]) : k \in ToApply(task)}

\* Two transactions that create one row, or a row whose parent is not stored, fail; users
\* and profiles are upserted.
CanWrite(read, writes) ==
  /\ \A id \in Rows : writes[id] # None /\ read[id] = None =>
       rows[id] = None \/ Tipo[id] \in {"usuario", "profile"}
  /\ \A id \in Rows : writes[id] # None /\ Parent[id] # None => Over(rows, writes)[Parent[id]] # None

\* Rows of another open transaction are locked.
NotLocked(s, writes) ==
  \A t \in DOMAIN tasks \ {s} :
    tasks[t].pc = "commit" =>
      ~ \E id \in Rows : writes[id] # None /\ tasks[t].writes[id] # None

\* The errors of validateLocalIntegrity; its warnings change nothing.
Sound(p, stored) ==
  \A id \in Rows : ProjectOf[id] = p =>
    /\ Tipo[id] = "proyecto" => stored[id] # None
    /\ Tipo[id] \in {"modulo", "pension"} /\ stored[id] # None => stored[id].ok
    /\ Tipo[id] = "pass" /\ stored[id] # None => stored[Parent[id]] # None

NotChecked(p, stored) == TRUE

SyncIsSound(p, stored) == Sound(p, stored)

----------------------------------------------------------------------------
Keep(s, task) == tasks' = [tasks EXCEPT ![s] = task]

\* The cloud: configuration and access change.
Publish(p, k) ==
  /\ versions[p][k] < MaxVersion[k]
  /\ versions' = [versions EXCEPT ![p][k] = @ + 1]
  /\ UNCHANGED <<linkVars, rows, tasks, applied, stale, pushed, notedFor>>

\* syncNow: an installation that is not linked stops here.
SyncStart(s) ==
  /\ tasks[s].pc = "idle"
  /\ installation.status = "linked"
  /\ installation.proyectoId # None
  /\ Keep(s, [pc |-> "fetch", proyectoId |-> installation.proyectoId,
              noted |-> installation.noted, got |-> [k \in Kinds |-> None], from |-> notedFor])
  /\ UNCHANGED <<linkVars, versions, rows, applied, stale, pushed, notedFor>>

MayFetch(s) ==
  /\ HasCredentials
  /\ Accepts(installation.token)
  /\ installation.token.proyectoId = tasks[s].proyectoId

\* Both snapshots are fetched at the same time.
Fetch(s, k) ==
  /\ tasks[s].pc = "fetch"
  /\ tasks[s].got[k] = None
  /\ MayFetch(s)
  /\ Keep(s, [tasks[s] EXCEPT !.got[k] = versions[tasks[s].proyectoId][k]])
  /\ tokens' = AfterUse(installation.token)
  /\ UNCHANGED <<installation, pending, operators, rotations, reviews, links, crossed, faults,
                 versions, rows, applied, stale, pushed, notedFor>>

FetchFails(s) ==
  /\ tasks[s].pc = "fetch"
  /\ \/ ~MayFetch(s) /\ UNCHANGED faults
     \/ faults < MaxFaults /\ faults' = faults + 1
  /\ Keep(s, Idle)
  /\ UNCHANGED <<installation, pending, operators, rotations, reviews, tokens, links, crossed,
                 versions, rows, applied, stale, pushed, notedFor>>

\* A snapshot pushed by the cloud, on its way, and let in by requireSyncAuth.
PushSend(s, p, k) ==
  /\ tasks[s].pc = "idle"
  /\ tokens[p].issued > 0
  /\ versions[p][k] > 0
  /\ ~pushed
  /\ Keep(s, [pc |-> "push", proyectoId |-> p, noted |-> NothingNoted,
              got |-> [x \in Kinds |-> IF x = k THEN versions[p][k] ELSE None], from |-> {}])
  /\ UNCHANGED <<linkVars, versions, rows, applied, stale, pushed, notedFor>>

PushRefused(s) ==
  /\ tasks[s].pc = "push"
  /\ ~MayFetch(s)
  /\ Keep(s, Idle)
  /\ UNCHANGED <<linkVars, versions, rows, applied, stale, pushed, notedFor>>

----------------------------------------------------------------------------
\* The transaction: the existing rows are read, the items written, the result checked.
ReadExisting(s) ==
  /\ \/ tasks[s].pc = "fetch" /\ \A k \in Kinds : tasks[s].got[k] # None
     \/ tasks[s].pc = "push" /\ MayFetch(s)
  /\ Keep(s, [pc |-> "apply", proyectoId |-> tasks[s].proyectoId, noted |-> tasks[s].noted,
              got |-> tasks[s].got, from |-> tasks[s].from, existing |-> rows])
  /\ UNCHANGED <<linkVars, versions, rows, applied, stale, pushed, notedFor>>

\* A failed sync keeps the versions that were noted.
NotesAnyway(task) ==
  [pc |-> "note", proyectoId |-> task.proyectoId, noted |-> task.noted,
   got |-> task.got, from |-> task.from]

AfterFailure(task) == Idle

Apply(s) ==
  LET task   == tasks[s]
      writes == Projection(task.existing, Items(task))
  IN  /\ task.pc = "apply"
      /\ NotLocked(s, writes)
      /\ IF /\ CanWrite(task.existing, writes)
            /\ s \in Syncs => SyncIsSound(task.proyectoId, Over(rows, writes))
         THEN Keep(s, [pc |-> "commit", proyectoId |-> task.proyectoId, noted |-> task.noted,
                       got |-> task.got, from |-> task.from, writes |-> writes])
         ELSE Keep(s, AfterFailure(task))
      /\ UNCHANGED <<linkVars, versions, rows, applied, stale, pushed, notedFor>>

Replaced(writes) ==
  \E id \in Rows : writes[id] # None /\ rows[id] # None /\ writes[id].rev < rows[id].rev

Commit(s) ==
  LET task == tasks[s]
  IN  /\ task.pc = "commit"
      /\ rows' = Over(rows, task.writes)
      /\ stale' = (stale \/ Replaced(task.writes))
      /\ applied' = IF s \in Pushes THEN applied
                    ELSE [applied EXCEPT ![task.proyectoId] =
                           [k \in Kinds |-> IF k \in ToApply(task) THEN @[k] \cup {task.got[k]}
                                            ELSE @[k]]]
      /\ pushed' = (pushed \/ s \in Pushes)
      /\ Keep(s, IF s \in Pushes THEN Idle
                 ELSE [pc |-> "note", proyectoId |-> task.proyectoId, noted |-> task.noted,
                       got |-> task.got, from |-> task.from])
      /\ UNCHANGED <<linkVars, versions, notedFor>>

\* updateSyncState, apart from the transaction; a missing version leaves the noted one.
Noted(task) ==
  [installation EXCEPT !.noted = [k \in Kinds |-> IF task.got[k] = 0 THEN @[k] ELSE task.got[k]]]

Note(s) ==
  /\ tasks[s].pc = "note"
  /\ installation' = Noted(tasks[s])
  /\ notedFor' = notedFor \cup tasks[s].from \cup {tasks[s].proyectoId}
  /\ Keep(s, Idle)
  /\ UNCHANGED <<pending, operators, rotations, reviews, tokens, links, crossed, faults,
                 versions, rows, applied, stale, pushed>>

----------------------------------------------------------------------------
\* A passage or a high score: this server changes the part of a row it owns, unless the row is locked.
UseRow(id) ==
  /\ Tipo[id] \in {"pass", "usuario"}
  /\ rows[id] # None
  /\ ~rows[id].own
  /\ \A t \in DOMAIN tasks : tasks[t].pc = "commit" => tasks[t].writes[id] = None
  /\ rows' = [rows EXCEPT ![id].own = TRUE]
  /\ UNCHANGED <<linkVars, versions, tasks, applied, stale, pushed, notedFor>>

\* upsertProject, before the link: the project as the cloud has it.
LinkedProject(p) ==
  LET items == {i \in Snapshots[p]["configuration"][versions[p]["configuration"]] :
                  Tipo[i.id] = "proyecto"}
      id    == CHOOSE x \in Rows : Tipo[x] = "proyecto" /\ ProjectOf[x] = p
  IN  [rows EXCEPT ![id] =
        IF items = {} THEN IF @ = None THEN [rev |-> 0, ok |-> TRUE, own |-> FALSE] ELSE @
        ELSE Written(@, @, CHOOSE i \in items : TRUE)]

\* The outbox is empty here, so that no reset is refused.
LinkStep ==
  \/ /\ \E o \in Operators : StatusWrite(o)
     /\ rows' = IF installation'.status = "linked" THEN LinkedProject(installation'.proyectoId)
                ELSE rows
     /\ UNCHANGED <<versions, tasks, applied, stale, pushed, notedFor>>
  \/ /\ LinkCalls
     /\ \A o \in Operators : ~StatusWrite(o)
     /\ notedFor' = IF \E o \in Operators : ResetWrite(o) THEN {} ELSE notedFor
     /\ UNCHANGED <<versions, rows, tasks, applied, stale, pushed>>

ServerStops ==
  /\ faults < MaxFaults
  /\ faults' = faults + 1
  /\ tasks' = [s \in Syncs \cup Pushes |-> Idle]
  /\ operators' = [o \in Operators |-> Idle]
  /\ rotations' = [r \in Responses |-> Idle]
  /\ UNCHANGED <<installation, pending, reviews, tokens, links, crossed,
                 versions, rows, applied, stale, pushed, notedFor>>

\* A sync that has started goes on to its end.
SyncContinues(s) ==
  \/ \E k \in Kinds : Fetch(s, k)
  \/ FetchFails(s) \/ PushRefused(s)
  \/ ReadExisting(s) \/ Apply(s) \/ Commit(s) \/ Note(s)

ConfigNext ==
  \/ LinkStep
  \/ \E p \in Projects, k \in Kinds : Publish(p, k) \/ \E s \in Pushes : PushSend(s, p, k)
  \/ \E s \in Syncs : SyncStart(s)
  \/ \E s \in Syncs \cup Pushes : SyncContinues(s)
  \/ \E id \in Rows : UseRow(id)
  \/ ServerStops

ConfigSpec == ConfigInit /\ [][ConfigNext]_configVars

\* Timers start the scheduler's sync again and again, and a call that runs goes on.
ConfigFairness ==
  /\ WF_configVars(SyncStart(Scheduler))
  /\ \A s \in Syncs \cup Pushes : WF_configVars(SyncContinues(s))

ConfigFairSpec == ConfigSpec /\ ConfigFairness

----------------------------------------------------------------------------
(***************************************************************************)
(* Properties.                                                             *)
(***************************************************************************)

\* Since the last reset, only syncs of the linked project noted versions.
NotedForIt == notedFor \subseteq {installation.proyectoId}

\* A version is noted for the linked project only after a sync wrote its snapshot, so a
\* crash between the two repeats the work and never skips it (syncNow), also when a reset
\* or a new link comes between any two steps of a sync.  Exempt is a row that syncs of
\* another project noted versions in since the last reset: see NotedIsOfProject.
NotedWasApplied ==
  installation.status = "linked" /\ NotedForIt =>
    \A k \in Kinds : installation.noted[k] \in {0} \cup applied[installation.proyectoId][k]

\* Claimed: a snapshot is skipped because its version was applied already
\* ("VERSION_ALREADY_APPLIED", syncNow).  It does not hold: a new link without a reset keeps
\* the versions of the last project, and a sync under way notes those of a former one.
NotedIsOfProject ==
  installation.status = "linked" =>
    \A k \in Kinds : installation.noted[k] \in {0} \cup applied[installation.proyectoId][k]

\* What syncs leave behind passes the integrity check, also when two of them interleave and
\* each checks its own view; until a pushed snapshot, which is not checked, is stored
\* (syncNow, "the previous configuration stays in place").
SyncedIsSound ==
  ~pushed => \A p \in Projects : (\E k \in Kinds : applied[p][k] # {}) => Sound(p, rows)

\* No sync or push undoes the part of a row this server owns, even when it changes between
\* the read and the write of the transaction (pensionPassSpec, moduloSpec, usuarioSpec).
OwnStateKept ==
  [][\A id \in Rows : rows[id] # None /\ rows[id].own => rows'[id] # None /\ rows'[id].own]_configVars

Unsound(p) ==
  \E i \in Snapshots[p]["configuration"][versions[p]["configuration"]] :
    Tipo[i.id] \in {"modulo", "pension"} /\ ~i.ok

Synced(p) ==
  \A k \in Kinds : \A i \in Normalized(k, Snapshots[p][k][versions[p][k]]) : Unchanged(rows[i.id], i)

CanSync ==
  /\ HasCredentials
  /\ Accepts(installation.token)
  /\ installation.token.proyectoId = installation.proyectoId

\* A linked installation ends up with the configuration of the cloud, through failures and
\* stops, resets and new links, as long as the cloud's is sound, no older snapshot overtook
\* a newer one, and syncs of no other project noted versions since the last reset
\* (ConfigSyncScheduler, syncNow).
SyncConverges ==
  <>[](CanSync /\ NotedForIt /\ ~stale /\ ~Unsound(installation.proyectoId)
        => Synced(installation.proyectoId))

\* An older item never replaces a newer one (syncNow reads what is noted before it fetches).
NeverStale == ~stale
=============================================================================
