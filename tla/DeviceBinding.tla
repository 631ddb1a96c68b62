---------------------------- MODULE DeviceBinding ----------------------------
(***************************************************************************)
(* The device of one barrier module: its binding and the requests for it   *)
(* in the database, and the authorized connection and the sessions that    *)
(* the server keeps in memory.  Devices register and send heartbeats on    *)
(* sockets, an administrator resolves requests, users have the barrier     *)
(* opened, and a monitor drops sessions that fell silent.  All of them     *)
(* read first and write later; a write replaces the whole list of requests *)
(* by the one that was read.                                               *)
(*                                                                         *)
(* Left out: the secret of a device, a device that cannot be identified    *)
(* and a module that is inactive, which only refuse registrations;         *)
(* registrations without moduleId; and the rows that only report           *)
(* (runtime, audit), whose writes remain as steps that may fail.  Two      *)
(* lists of requests are not written at the same instant.                  *)
(***************************************************************************)
EXTENDS Processes, Naturals

CONSTANTS
  Sockets,
  Devices,
  DeviceOf,    \* the device behind each socket
  Tasks,       \* requests being served at the same time
  Monitor,     \* the task that drops silent sessions
  MaxFaults,   \* bound: database errors
  MaxResolved  \* bound: requests the administrator resolves

ASSUME DeviceAssumption ==
  /\ DeviceOf \in [Sockets -> Devices]
  /\ Monitor \notin Tasks
  /\ None \notin Sockets \cup Devices
  /\ MaxFaults \in Nat
  /\ MaxResolved \in Nat

VARIABLES
  binding,     \* table modulo_device_bindings
  requests,    \* table modulo_device_binding_requests
  authorized,  \* authorizedDevices of the module: a socket
  sessions,    \* deviceSessions
  sockets,     \* each socket, with what socket.data says while it is open
  tasks,       \* what each task in progress remembers
  approved,    \* devices the administrator ever approved
  commanded,   \* devices that were told to open the barrier
  resolved,
  faults

rows == <<binding, requests, approved, resolved>>
memory == <<authorized, sessions, sockets>>
vars == <<rows, memory, tasks, commanded, faults>>

----------------------------------------------------------------------------
Requests == [Devices -> {"none", "PENDING", "APPROVED", "REJECTED"}]

\* "refused" stands for the sessions PENDING and REJECTED.
Session == {"none", "APPROVED", "refused"}

\* "connected" says nothing of the device yet; "new" is not connected yet.
Socket == {"new", "connected", "approved", "refused", "closed"}

Resolution == {"APPROVED", "REJECTED", "PENDING", "RESET"}

Task ==
       [pc : {"idle"}]
  \cup [pc : {"validate"}, socket : Sockets, active : BOOLEAN]
  \cup [pc : {"upsert"}, socket : Sockets, requests : Requests]
  \cup [pc : {"rebind", "authorize", "record", "refuse", "beat", "drop", "expired", "emit"},
        socket : Sockets]
  \cup [pc : {"resolve"}, status : Resolution, device : Devices,
        binding : Devices \cup {None}, requests : Requests]
  \cup [pc : {"open"}, socket : Sockets]
  \cup [pc : {"check"}, socket : Sockets, bound : BOOLEAN]

TypeOK ==
  /\ binding \in Devices \cup {None}
  /\ requests \in Requests
  /\ authorized \in Sockets \cup {None}
  /\ sessions \in [Sockets -> Session]
  /\ sockets \in [Sockets -> Socket]
  /\ tasks \in [Tasks \cup {Monitor} -> Task]
  /\ approved \in SUBSET Devices
  /\ commanded \in SUBSET Devices
  /\ resolved \in 0 .. MaxResolved
  /\ faults \in 0 .. MaxFaults

Init ==
  /\ binding = None
  /\ requests = [d \in Devices |-> "none"]
  /\ authorized = None
  /\ sessions = [s \in Sockets |-> "none"]
  /\ sockets = [s \in Sockets |-> "new"]
  /\ tasks = [t \in Tasks \cup {Monitor} |-> Idle]
  /\ approved = {}
  /\ commanded = {}
  /\ resolved = 0
  /\ faults = 0

----------------------------------------------------------------------------
Become(t, task) == tasks' = [tasks EXCEPT ![t] = task]

At(pc, s) == [pc |-> pc, socket |-> s]

Upsert(s, read) == [pc |-> "upsert", socket |-> s, requests |-> read]

Open(s) == sockets[s] \notin {"new", "closed"}

\* Nobody reads socket.data once the socket is closed.
Note(s, data) ==
  sockets' = [sockets EXCEPT ![s] = IF Open(s) THEN data ELSE @]

Free(t) == t \in Tasks /\ tasks[t].pc = "idle"

\* A session that goes and leaves its connection; see the properties.
ForgetSession(s) ==
  /\ sessions' = [sessions EXCEPT ![s] = "none"]
  /\ UNCHANGED authorized

\* deleteAuthorizedConnectionIfMatches and deleteSession.
Forget(s) ==
  /\ authorized' = (IF authorized = s THEN None ELSE authorized)
  /\ sessions' = [sessions EXCEPT ![s] = "none"]

----------------------------------------------------------------------------
\* Sockets.

Connect(s) ==
  /\ sockets[s] = "new"
  /\ sockets' = [sockets EXCEPT ![s] = "connected"]
  /\ UNCHANGED <<rows, authorized, sessions, tasks, commanded, faults>>

\* handleDisconnect: a socket that nothing was noted on loses its session only.
Disconnect(s) ==
  /\ Open(s)
  /\ Note(s, "closed")
  /\ IF sockets[s] = "connected"
     THEN sessions' = [sessions EXCEPT ![s] = "none"] /\ UNCHANGED authorized
     ELSE Forget(s)
  /\ UNCHANGED <<rows, tasks, commanded, faults>>

----------------------------------------------------------------------------
\* Registration.  A device waits for the answer before it registers again.

Registering(s) ==
  \E t \in Tasks :
    /\ tasks[t].pc \in {"validate", "upsert", "rebind", "authorize", "record", "refuse"}
    /\ tasks[t].socket = s

Register(t, s) ==
  /\ Free(t)
  /\ Open(s)
  /\ ~Registering(s)
  /\ Become(t, [pc |-> "validate", socket |-> s, active |-> authorized \notin {None, s}])
  /\ UNCHANGED <<rows, memory, commanded, faults>>

\* A module that is not bound takes the first device; see the properties.
BindsFirst(d) == binding \in {d, None}

IsBound(d) == binding = d

Validate(t) ==
  LET s == tasks[t].socket
      d == DeviceOf[s]
      askAgain == tasks[t].active \/ (~IsBound(d) /\ (binding # None \/ requests[d] # "PENDING"))
  IN  /\ tasks[t].pc = "validate"
      /\ Become(t, IF requests[d] = "REJECTED" THEN At("refuse", s)
                   ELSE IF askAgain THEN Upsert(s, requests)
                   ELSE IF IsBound(d) THEN At("rebind", s)
                   ELSE At("refuse", s))
      /\ UNCHANGED <<rows, memory, commanded, faults>>

\* The request of this device, in the list as it was read.
UpsertRequest(t) ==
  /\ tasks[t].pc = "upsert"
  /\ requests' = [tasks[t].requests EXCEPT ![DeviceOf[tasks[t].socket]] = "PENDING"]
  /\ Become(t, At("refuse", tasks[t].socket))
  /\ UNCHANGED <<binding, approved, resolved, memory, commanded, faults>>

Rebind(t) ==
  /\ tasks[t].pc = "rebind"
  /\ binding' = DeviceOf[tasks[t].socket]
  /\ Become(t, At("authorize", tasks[t].socket))
  /\ UNCHANGED <<requests, approved, resolved, memory, commanded, faults>>

Authorize(t) ==
  /\ tasks[t].pc = "authorize"
  /\ authorized' = tasks[t].socket
  /\ Become(t, At("record", tasks[t].socket))
  /\ UNCHANGED <<rows, sessions, sockets, commanded, faults>>

\* The session is kept once the runtime and the audit are written.
KeepSession(t) ==
  LET s == tasks[t].socket
  IN  /\ tasks[t].pc = "record"
      /\ sessions' = [sessions EXCEPT ![s] = "APPROVED"]
      /\ Note(s, "approved")
      /\ Become(t, Idle)
      /\ UNCHANGED <<rows, authorized, commanded, faults>>

Refuse(t) ==
  LET s == tasks[t].socket
  IN  /\ tasks[t].pc = "refuse"
      /\ sessions' = [sessions EXCEPT ![s] = "refused"]
      /\ Note(s, "refused")
      /\ Become(t, Idle)
      /\ UNCHANGED <<rows, authorized, commanded, faults>>

----------------------------------------------------------------------------
\* Heartbeats, of sockets that registered.

Heartbeat(t, s) ==
  /\ Free(t)
  /\ sockets[s] \in {"approved", "refused"}
  /\ Become(t, At(IF IsBound(DeviceOf[s]) THEN "beat" ELSE "drop", s))
  /\ UNCHANGED <<rows, memory, commanded, faults>>

\* The binding is written back as it was read.
HeartbeatWrite(t) ==
  /\ tasks[t].pc = "beat"
  /\ binding' = DeviceOf[tasks[t].socket]
  /\ Become(t, Idle)
  /\ UNCHANGED <<requests, approved, resolved, memory, commanded, faults>>

HeartbeatDrop(t) ==
  LET s == tasks[t].socket
  IN  /\ tasks[t].pc = "drop"
      /\ Forget(s)
      /\ Note(s, "closed")
      /\ Become(t, Idle)
      /\ UNCHANGED <<rows, commanded, faults>>

\* expireStaleSessions: any session may have fallen silent, and the socket is
\* closed once the runtime is written.
Expire(s) ==
  /\ tasks[Monitor].pc = "idle"
  /\ sessions[s] = "APPROVED"
  /\ Forget(s)
  /\ Become(Monitor, At("expired", s))
  /\ UNCHANGED <<rows, sockets, commanded, faults>>

CloseExpired ==
  LET s == tasks[Monitor].socket
  IN  /\ tasks[Monitor].pc = "expired"
      /\ IF Open(s) THEN Forget(s) /\ Note(s, "closed") ELSE UNCHANGED memory
      /\ Become(Monitor, Idle)
      /\ UNCHANGED <<rows, commanded, faults>>

----------------------------------------------------------------------------
\* The administrator.

Resolvable(status, d) ==
  CASE status \in {"APPROVED", "REJECTED"} -> requests[d] = "PENDING"
    [] status = "PENDING"                  -> requests[d] # "none"
    [] status = "RESET"                    -> TRUE

ResolveRead(t, status, d) ==
  /\ Free(t)
  /\ resolved < MaxResolved
  /\ Resolvable(status, d)
  /\ resolved' = resolved + 1
  /\ Become(t, [pc |-> "resolve", status |-> status, device |-> d,
                binding |-> binding, requests |-> requests])
  /\ UNCHANGED <<binding, requests, approved, memory, commanded, faults>>

BindingAfter(task) ==
  CASE task.status = "APPROVED" -> task.device
    [] task.status = "REJECTED" -> binding
    [] task.status = "PENDING"  -> IF task.binding = task.device THEN None ELSE task.binding
    [] task.status = "RESET"    -> None

RequestsAfter(task) ==
  IF task.status = "RESET" THEN task.requests
  ELSE [task.requests EXCEPT ![task.device] = task.status]

ResolveWrite(t) ==
  /\ tasks[t].pc = "resolve"
  /\ binding' = BindingAfter(tasks[t])
  /\ requests' = RequestsAfter(tasks[t])
  /\ approved' = (IF tasks[t].status = "APPROVED" THEN approved \cup {tasks[t].device}
                  ELSE approved)
  /\ Become(t, Idle)
  /\ UNCHANGED <<resolved, memory, commanded, faults>>

----------------------------------------------------------------------------
\* openBarrier.

OpenBarrier(t) ==
  /\ Free(t)
  /\ authorized # None
  /\ Become(t, At("open", authorized))
  /\ UNCHANGED <<rows, memory, commanded, faults>>

OpenRead(t) ==
  LET s == tasks[t].socket
  IN  /\ tasks[t].pc = "open"
      /\ Become(t, [pc |-> "check", socket |-> s, bound |-> IsBound(DeviceOf[s])])
      /\ UNCHANGED <<rows, memory, commanded, faults>>

MayOpen(task) ==
  /\ task.bound
  /\ sessions[task.socket] = "APPROVED"
  /\ sockets[task.socket] = "approved"

OpenAllowed(t) ==
  /\ tasks[t].pc = "check"
  /\ MayOpen(tasks[t])
  /\ Become(t, At("emit", tasks[t].socket))
  /\ UNCHANGED <<rows, memory, commanded, faults>>

\* Whatever connection is authorized by now is deleted; the session goes when it
\* fell silent or when socket.data does not agree.
OpenRefused(t) ==
  LET s == tasks[t].socket
      silent == tasks[t].bound /\ sessions[s] # "none"
      disagrees == tasks[t].bound /\ sessions[s] = "APPROVED" /\ Open(s)
  IN  /\ tasks[t].pc = "check"
      /\ \/ /\ ~MayOpen(tasks[t])
            /\ IF disagrees THEN sessions' = [sessions EXCEPT ![s] = "none"]
               ELSE UNCHANGED sessions
         \/ /\ silent
            /\ sessions' = [sessions EXCEPT ![s] = "none"]
      /\ authorized' = None
      /\ Become(t, Idle)
      /\ UNCHANGED <<rows, sockets, commanded, faults>>

Emit(t) ==
  LET s == tasks[t].socket
  IN  /\ tasks[t].pc = "emit"
      /\ commanded' = (IF Open(s) THEN commanded \cup {DeviceOf[s]}
                       ELSE commanded)
      /\ Become(t, Idle)
      /\ UNCHANGED <<rows, memory, faults>>

----------------------------------------------------------------------------
\* A read or write of the database fails where the task stands.  A heartbeat
\* that fails drops its socket.
TaskFails(t) ==
  /\ tasks[t].pc \in {"validate", "upsert", "rebind", "authorize", "record", "beat", "resolve", "open"}
  /\ faults < MaxFaults
  /\ faults' = faults + 1
  /\ IF tasks[t].pc = "beat"
     THEN Forget(tasks[t].socket) /\ Note(tasks[t].socket, "closed")
     ELSE UNCHANGED memory
  /\ Become(t, Idle)
  /\ UNCHANGED <<rows, commanded>>

\* The server stops.  It also ends itself when the database fails while it notes
\* a refusal, a dropped heartbeat, a disconnection or a silent session.
ServerStops ==
  /\ faults < MaxFaults
  /\ faults' = faults + 1
  /\ authorized' = None
  /\ sessions' = [s \in Sockets |-> "none"]
  /\ sockets' = [s \in Sockets |-> IF Open(s) THEN "closed" ELSE sockets[s]]
  /\ tasks' = [t \in Tasks \cup {Monitor} |-> Idle]
  /\ UNCHANGED <<rows, commanded>>

TaskStep(t) ==
  \/ Validate(t) \/ UpsertRequest(t) \/ Rebind(t) \/ Authorize(t) \/ KeepSession(t) \/ Refuse(t)
  \/ HeartbeatWrite(t) \/ HeartbeatDrop(t)
  \/ ResolveWrite(t)
  \/ OpenRead(t) \/ OpenAllowed(t) \/ OpenRefused(t) \/ Emit(t)

MonitorStep == CloseExpired \/ \E s \in Sockets : Expire(s)

Next ==
  \/ \E s \in Sockets : Connect(s) \/ Disconnect(s)
  \/ \E t \in Tasks :
       \/ \E s \in Sockets : Register(t, s) \/ Heartbeat(t, s)
       \/ \E status \in Resolution, d \in Devices : ResolveRead(t, status, d)
       \/ OpenBarrier(t)
       \/ TaskStep(t)
       \/ TaskFails(t)
  \/ MonitorStep
  \/ ServerStops

Spec == Init /\ [][Next]_vars

\* Requests that were begun go on, and the monitor scans at every interval.
FairSpec ==
  /\ Spec
  /\ \A t \in Tasks : WF_vars(TaskStep(t))
  /\ WF_vars(MonitorStep)

----------------------------------------------------------------------------
\* The barrier is only ever opened through a device that the administrator
\* approved at some time, however registrations, heartbeats and resolutions are
\* written over each other (validateDeviceRegistration, openBarrier).
OnlyApprovedDevicesOpen ==
  /\ commanded \subseteq approved
  /\ binding \in approved \cup {None}

\* A socket that is gone is not taken for the authorized one for ever, though it
\* may go while its registration is still under way (expireStaleSessions).  After
\* an error of the database nothing is promised: a dead session may stay.
ClosedSocketForgotten ==
  \A s \in Sockets :
    (authorized = s /\ sockets[s] = "closed") ~> (authorized # s \/ faults > 0)

\* "Este dispositivo fue rechazado y requiere reset manual": a rejected device
\* stays rejected until the administrator resolves a request.  The code does not
\* keep this: another device's request writes back the list it read.
RejectionHolds ==
  [][\A d \in Devices :
       requests[d] = "REJECTED" /\ requests'[d] # "REJECTED" =>
         \E t \in Tasks : tasks[t].pc = "resolve" /\ tasks'[t] = Idle]_vars

\* "... requiere reset manual del modulo para volver a intentarlo": a reset lets
\* rejected devices ask again.  The code does not do this: it keeps the requests.
ResetLetsAskAgain ==
  [][\A t \in Tasks :
       tasks[t].pc = "resolve" /\ tasks[t].status = "RESET" /\ ResolveWrite(t) =>
         \A d \in Devices : requests'[d] # "REJECTED"]_vars

\* "El modulo no tiene un dispositivo aprobado": a module whose binding was reset
\* has no device until the administrator approves one.  The code does not keep
\* this: a heartbeat or a registration writes back the binding it read.
ResetHolds ==
  [][binding = None /\ binding' # None =>
       \E t \in Tasks : tasks[t].pc = "resolve" /\ tasks'[t] = Idle]_vars

\* "El modulo no tiene un dispositivo autorizado conectado": the server finds a
\* device whose approved session is alive, once no request is under way.  The
\* code does not keep this: of two sockets, the last one to leave was not the
\* authorized one.
Quiet == \A t \in Tasks \cup {Monitor} : tasks[t] = Idle

ConnectedDeviceIsFound ==
  Quiet =>
    \A s \in Sockets :
      /\ sockets[s] = "approved"
      /\ sessions[s] = "APPROVED"
      /\ binding = DeviceOf[s]
      => authorized # None
=============================================================================
