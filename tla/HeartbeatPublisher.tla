-------------------------- MODULE HeartbeatPublisher --------------------------
(***************************************************************************)
(* The state of the project's modules, told to the cloud.  A request that  *)
(* updates a module tells the publisher after its write; the publisher     *)
(* sends a snapshot of all modules a batch after a status changed, again   *)
(* after a failure, and otherwise as a keepalive.  A snapshot is built     *)
(* when it is sent, from the rows as they are by then, with the            *)
(* credentials of InstallationLink, whose calls and rotations go on.       *)
(*                                                                         *)
(* Times are counted down in steps of the ticker.  A status also lapses    *)
(* with time alone, which no request tells.                                *)
(*                                                                         *)
(* Left out: what a snapshot shows besides status and binding.             *)
(***************************************************************************)
EXTENDS InstallationLink

CONSTANTS
  Modulos,
  Updates,     \* requests that update a module at the same time
  Batch,       \* batchMs, in ticks
  Retry,       \* retryMs
  Keepalive,   \* keepaliveMs
  MaxChanges   \* bound: changes of modules

ASSUME HeartbeatAssumption ==
  /\ Batch \in Nat \ {0} /\ Retry \in Nat \ {0} /\ Keepalive \in Nat \ {0}
  /\ Batch <= Retry
  /\ None \notin Nat

VARIABLES
  modulos,   \* the rows of the modules
  updates,   \* a request between its write and moduleUpdated
  statuses,  \* memory: the status of each module that was told last
  watched,   \* memory: whether the project has a state in the publisher
  project,   \* memory: that state
  snapshot,  \* the snapshot being sent
  cloud,     \* the cloud: the modules of the last snapshot it took
  owed,      \* history: a told change waits for a snapshot, or is in the one being sent
  changes

beatVars == <<modulos, updates, statuses, watched, project, snapshot, cloud, owed, changes>>
heartbeatVars == <<linkVars, beatVars>>

----------------------------------------------------------------------------
Modulo == [status : {"online", "offline"}, bound : BOOLEAN]

Update ==
       [pc : {"idle"}]
  \cup [pc : {"tell"}, modulo : Modulos, status : {"online", "offline"}, force : BOOLEAN]

\* sinceSent stops at Keepalive, beyond which nothing depends on it.
ProjectState ==
  [dueIn : 0 .. Retry \cup {None},
   sinceSent : 0 .. Keepalive,
   retryIn : 0 .. Retry,
   sending : BOOLEAN]

Snapshot ==
       [pc : {"idle", "build"}]
  \cup [pc : {"post"}, token : Token, modulos : [Modulos -> Modulo]]

HeartbeatTypeOK ==
  /\ LinkTypeOK
  /\ modulos \in [Modulos -> Modulo]
  /\ updates \in [Updates -> Update]
  /\ statuses \in [Modulos -> {"online", "offline", None}]
  /\ watched \in BOOLEAN
  /\ project \in ProjectState
  /\ snapshot \in Snapshot
  /\ cloud \in [Modulos -> Modulo \cup {None}]
  /\ owed \in {"no", "waits", "sent"}
  /\ changes \in 0 .. MaxChanges

State(dueIn, sinceSent, retryIn, sending) ==
  [dueIn |-> dueIn, sinceSent |-> sinceSent, retryIn |-> retryIn, sending |-> sending]

NewProject == State(None, Keepalive, 0, FALSE)

HeartbeatInit ==
  /\ LinkInit
  /\ modulos = [m \in Modulos |-> [status |-> "offline", bound |-> FALSE]]
  /\ updates = [u \in Updates |-> Idle]
  /\ statuses = [m \in Modulos |-> None]
  /\ watched = FALSE
  /\ project = NewProject
  /\ snapshot = Idle
  /\ cloud = [m \in Modulos |-> None]
  /\ owed = "no"
  /\ changes = 0

----------------------------------------------------------------------------
\* Heartbeats, connections and binding changes write a module and tell it afterwards.
UpdateModulo(u, m, to, force) ==
  /\ updates[u].pc = "idle"
  /\ changes < MaxChanges
  /\ changes' = changes + 1
  /\ modulos' = [modulos EXCEPT ![m] = to]
  /\ updates' = [updates EXCEPT
       ![u] = [pc |-> "tell", modulo |-> m, status |-> to.status, force |-> force]]
  /\ UNCHANGED <<linkVars, statuses, watched, project, snapshot, cloud, owed>>

Heartbeat(u, m, status) == UpdateModulo(u, m, [modulos[m] EXCEPT !.status = status], FALSE)

ResolveBinding(u, m) == UpdateModulo(u, m, [modulos[m] EXCEPT !.bound = ~@], TRUE)

\* The heartbeat of a module grows too old.
Lapse(m) ==
  /\ modulos[m].status = "online"
  /\ changes < MaxChanges
  /\ changes' = changes + 1
  /\ modulos' = [modulos EXCEPT ![m].status = "offline"]
  /\ UNCHANGED <<linkVars, updates, statuses, watched, project, snapshot, cloud, owed>>

Earlier(a, b) == IF a = None THEN b ELSE IF a <= b THEN a ELSE b

ModuleUpdated(u) ==
  LET update  == updates[u]
      changed == update.force \/ statuses[update.modulo] # update.status
  IN  /\ update.pc = "tell"
      /\ statuses' = [statuses EXCEPT ![update.modulo] = update.status]
      /\ watched' = (watched \/ changed)
      /\ project' = IF changed THEN [project EXCEPT !.dueIn = Earlier(@, Batch)] ELSE project
      /\ owed' = IF changed THEN "waits" ELSE owed
      /\ updates' = [updates EXCEPT ![u] = Idle]
      /\ UNCHANGED <<linkVars, modulos, snapshot, cloud, changes>>

----------------------------------------------------------------------------
NoKeepalive == FALSE

IsStale == project.sinceSent = Keepalive

Down(n) == IF n = None \/ n = 0 THEN n ELSE n - 1

TimePasses ==
  /\ project' = State(Down(project.dueIn),
                      IF project.sinceSent = Keepalive THEN Keepalive ELSE project.sinceSent + 1,
                      Down(project.retryIn), project.sending)
  /\ project' # project
  /\ UNCHANGED <<linkVars, modulos, updates, statuses, watched, snapshot, cloud, owed, changes>>

\* What is due before its sending is no longer due; what comes due during it stays due.
\* See the properties.
ClearsDue(dueIn) == None

StaysDue(dueIn) == dueIn

Tick ==
  /\ watched
  /\ ~project.sending
  /\ project.retryIn = 0
  /\ project.dueIn = 0 \/ IsStale
  /\ project' = State(None, project.sinceSent, project.retryIn, TRUE)
  /\ snapshot' = [pc |-> "build"]
  /\ UNCHANGED <<linkVars, modulos, updates, statuses, watched, cloud, owed, changes>>

Accepted == State(StaysDue(project.dueIn), 0, 0, FALSE)

Failed == State(Earlier(project.dueIn, Retry), project.sinceSent, Retry, FALSE)

\* Not linked: nothing to send, and nothing to retry.
BuildSnapshot ==
  /\ snapshot.pc = "build"
  /\ IF HasCredentials
     THEN /\ snapshot' = [pc |-> "post", token |-> installation.token, modulos |-> modulos]
          /\ owed' = IF owed = "waits" THEN "sent" ELSE owed
          /\ UNCHANGED project
     ELSE /\ snapshot' = Idle
          /\ project' = Accepted
          /\ owed' = IF project.dueIn = None THEN "no" ELSE owed
  /\ UNCHANGED <<linkVars, modulos, updates, statuses, watched, cloud, changes>>

PostSnapshot ==
  /\ snapshot.pc = "post"
  /\ Accepts(snapshot.token)
  /\ tokens' = AfterUse(snapshot.token)
  /\ cloud' = snapshot.modulos
  /\ snapshot' = Idle
  /\ project' = Accepted
  /\ owed' = IF owed = "sent" THEN "no" ELSE owed
  /\ UNCHANGED <<installation, pending, operators, rotations, reviews, links, crossed, faults,
                 modulos, updates, statuses, watched, changes>>

\* Refused, or lost on the way there or back.
SnapshotFails ==
  /\ snapshot.pc = "post"
  /\ \/ /\ ~Accepts(snapshot.token)
        /\ UNCHANGED <<tokens, cloud, faults>>
     \/ /\ faults < MaxFaults
        /\ faults' = faults + 1
        /\ \/ UNCHANGED <<tokens, cloud>>
           \/ /\ Accepts(snapshot.token)
              /\ tokens' = AfterUse(snapshot.token)
              /\ cloud' = snapshot.modulos
  /\ snapshot' = Idle
  /\ project' = Failed
  /\ owed' = IF owed = "sent" THEN "waits" ELSE owed
  /\ UNCHANGED <<installation, pending, operators, rotations, reviews, links, crossed,
                 modulos, updates, statuses, watched, changes>>

\* The server stops and starts again: a linked project is watched from the start.
Restart ==
  /\ faults < MaxFaults
  /\ faults' = faults + 1
  /\ operators' = [o \in Operators |-> Idle]
  /\ rotations' = [r \in Responses |-> Idle]
  /\ updates' = [u \in Updates |-> Idle]
  /\ statuses' = [m \in Modulos |-> None]
  /\ watched' = HasCredentials
  /\ project' = NewProject
  /\ snapshot' = Idle
  /\ owed' = IF owed # "no" /\ HasCredentials THEN "waits" ELSE "no"
  /\ UNCHANGED <<installation, pending, reviews, tokens, links, crossed, modulos, cloud, changes>>

----------------------------------------------------------------------------
PublisherStep == TimePasses \/ Tick \/ BuildSnapshot \/ PostSnapshot \/ SnapshotFails

HeartbeatNext ==
  \/ LinkNext /\ UNCHANGED beatVars
  \/ \E u \in Updates, m \in Modulos :
       \/ \E status \in {"online", "offline"} : Heartbeat(u, m, status)
       \/ ResolveBinding(u, m)
  \/ \E m \in Modulos : Lapse(m)
  \/ \E u \in Updates : ModuleUpdated(u)
  \/ PublisherStep
  \/ Restart

\* Time passes, the ticker ticks, and a request that wrote a module goes on.
HeartbeatFairness ==
  /\ WF_heartbeatVars(PublisherStep)
  /\ \A u \in Updates : WF_heartbeatVars(ModuleUpdated(u))

HeartbeatSpec == HeartbeatInit /\ [][HeartbeatNext]_heartbeatVars /\ HeartbeatFairness

----------------------------------------------------------------------------
(***************************************************************************)
(* Properties.                                                             *)
(***************************************************************************)

\* A change that was told is due or being sent until the cloud has it, also when it comes
\* while an earlier snapshot is under way or after a failure (send, "keeps its own due
\* time"), or when the server restarts.
ChangeIsDue ==
  /\ owed = "waits" => project.dueIn # None \/ IsStale \/ snapshot.pc = "build"
  /\ owed = "sent" => snapshot.pc = "post"

\* The cloud ends up with the state of the modules, the lapses nobody told included, as
\* long as the installation stays linked and the project watched (keepaliveMs).
CloudSeesModulos ==
  <>[](watched /\ HasCredentials /\ Accepts(installation.token) => cloud = modulos)

\* A linked project is watched, "at least once a minute, even with no device activity"
\* (bootstrap).
LinkedIsWatched == []<>(HasCredentials => watched)
=============================================================================
