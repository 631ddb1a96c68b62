------------------------- MODULE DeviceBindingProofs -------------------------
(***************************************************************************)
(* Proofs about DeviceBinding, for any number of devices, sockets, tasks,  *)
(* failures and resolutions.                                               *)
(***************************************************************************)
EXTENDS DeviceBinding, TLAPS

AllTasks == Tasks \cup {Monitor}

\* The tasks that act on a binding they found earlier: each one's device was
\* approved by then, and an approval is never taken back.
RemembersApproved(task) ==
  /\ task.pc \in {"rebind", "beat", "emit"} => DeviceOf[task.socket] \in approved
  /\ task.pc = "check" /\ task.bound => DeviceOf[task.socket] \in approved
  /\ task.pc = "resolve" => task.binding \in approved \cup {None}

\* OnlyApprovedDevicesOpen with what the tasks in progress remember.
DeviceInv ==
  /\ OnlyApprovedDevicesOpen
  /\ \A t \in Tasks : RemembersApproved(tasks[t])

----------------------------------------------------------------------------
\* What a task remembers, by where it stands.
LEMMA TaskFields ==
  ASSUME NEW task \in Task
  PROVE  /\ task.pc \notin {"idle", "resolve"} => task.socket \in Sockets
         /\ task.pc = "upsert" => task.requests \in Requests
         /\ task.pc = "resolve" =>
              /\ task.status \in Resolution
              /\ task.device \in Devices
              /\ task.binding \in Devices \cup {None}
              /\ task.requests \in Requests
BY DEF Task

\* A step of the task t that leaves it at a known place.
LEMMA BecomeTyped ==
  ASSUME TypeOK, NEW t \in AllTasks, NEW task \in Task, Become(t, task)
  PROVE  tasks' \in [AllTasks -> Task]
BY DEF TypeOK, AllTasks, Become

LEMMA TaskPlaces ==
  ASSUME NEW s \in Sockets
  PROVE  /\ Idle \in Task
         /\ \A pc \in {"rebind", "authorize", "record", "refuse", "beat",
                       "drop", "expired", "emit", "open"} : At(pc, s) \in Task
         /\ \A read \in Requests : Upsert(s, read) \in Task
BY DEF Task, Idle, At, Upsert

LEMMA IdleIsTask == Idle \in Task
BY DEF Task, Idle

\* Writing socket.data, and forgetting a session, keep the types of the memory.
LEMMA NoteTyped ==
  ASSUME TypeOK, NEW s \in Sockets, NEW data \in Socket, Note(s, data)
  PROVE  sockets' \in [Sockets -> Socket]
BY DEF TypeOK, Note

LEMMA ForgetTyped ==
  ASSUME TypeOK, NEW s \in Sockets, Forget(s)
  PROVE  /\ authorized' \in Sockets \cup {None}
         /\ sessions' \in [Sockets -> Session]
<1>1. authorized' \in Sockets \cup {None}
  BY DEF TypeOK, Forget
<1>2. "none" \in Session
  BY DEF Session
<1>3. sessions' \in [Sockets -> Session]
  BY <1>2 DEF TypeOK, Forget
<1>4. QED  BY <1>1, <1>3

----------------------------------------------------------------------------
LEMMA InitTyped ==
  ASSUME Init
  PROVE  TypeOK
<1>1. [t \in AllTasks |-> Idle] \in [AllTasks -> Task]
  BY IdleIsTask
<1>2. requests \in Requests /\ sessions \in [Sockets -> Session] /\ sockets \in [Sockets -> Socket]
  BY DEF Init, Requests, Session, Socket
<1>3. QED  BY <1>1, <1>2, DeviceAssumption DEF Init, TypeOK, AllTasks

LEMMA SocketTyped ==
  ASSUME TypeOK, NEW s \in Sockets, Connect(s) \/ Disconnect(s)
  PROVE  TypeOK'
<1>1. CASE Connect(s)
  <2>1. "connected" \in Socket  BY DEF Socket
  <2>2. sockets' \in [Sockets -> Socket]  BY <1>1, <2>1 DEF TypeOK, Connect
  <2>3. QED  BY <1>1, <2>2 DEF TypeOK, Connect, rows
<1>2. CASE Disconnect(s)
  <2>1. "closed" \in Socket /\ "none" \in Session  BY DEF Socket, Session
  <2>2. sockets' \in [Sockets -> Socket]  BY <1>2, <2>1, NoteTyped DEF Disconnect
  <2>3. sessions' \in [Sockets -> Session] /\ authorized' \in Sockets \cup {None}
    <3>1. CASE sockets[s] = "connected"
      BY <1>2, <2>1, <3>1 DEF TypeOK, Disconnect
    <3>2. CASE sockets[s] # "connected"
      BY <1>2, <3>2, ForgetTyped DEF Disconnect
    <3>3. QED  BY <3>1, <3>2
  <2>4. QED  BY <1>2, <2>2, <2>3 DEF TypeOK, Disconnect, rows
<1>3. QED  BY <1>1, <1>2

\* Requests that begin.
LEMMA BeginTyped ==
  ASSUME TypeOK, NEW t \in Tasks, NEW s \in Sockets,
         Register(t, s) \/ Heartbeat(t, s) \/ OpenBarrier(t)
  PROVE  TypeOK'
<1>1. CASE Register(t, s)
  <2>1. [pc |-> "validate", socket |-> s, active |-> authorized \notin {None, s}] \in Task
    BY DEF Task
  <2>2. tasks' \in [AllTasks -> Task]
    BY <1>1, <2>1, BecomeTyped DEF Register, AllTasks
  <2>3. QED  BY <1>1, <2>2 DEF TypeOK, Register, AllTasks, rows, memory
<1>2. CASE Heartbeat(t, s)
  <2>1. At(IF IsBound(DeviceOf[s]) THEN "beat" ELSE "drop", s) \in Task
    BY TaskPlaces
  <2>2. tasks' \in [AllTasks -> Task]
    BY <1>2, <2>1, BecomeTyped DEF Heartbeat, AllTasks
  <2>3. QED  BY <1>2, <2>2 DEF TypeOK, Heartbeat, AllTasks, rows, memory
<1>3. CASE OpenBarrier(t)
  <2>1. authorized \in Sockets  BY <1>3 DEF TypeOK, OpenBarrier
  <2>2. At("open", authorized) \in Task  BY <2>1, TaskPlaces
  <2>3. tasks' \in [AllTasks -> Task]
    BY <1>3, <2>2, BecomeTyped DEF OpenBarrier, AllTasks
  <2>4. QED  BY <1>3, <2>3 DEF TypeOK, OpenBarrier, AllTasks, rows, memory
<1>4. QED  BY <1>1, <1>2, <1>3

LEMMA RegistrationTyped ==
  ASSUME TypeOK, NEW t \in Tasks,
         \/ Validate(t) \/ UpsertRequest(t) \/ Rebind(t)
         \/ Authorize(t) \/ KeepSession(t) \/ Refuse(t)
  PROVE  TypeOK'
<1> DEFINE s == tasks[t].socket
<1>1. tasks[t].pc \notin {"idle", "resolve"}
  BY DEF Validate, UpsertRequest, Rebind, Authorize, KeepSession, Refuse
<1>2. tasks[t] \in Task  BY DEF TypeOK
<1>3. s \in Sockets  BY <1>1, <1>2, TaskFields
<1>4. DeviceOf[s] \in Devices  BY <1>3, DeviceAssumption
<1>5. {"approved", "refused"} \subseteq Socket /\ {"APPROVED", "refused"} \subseteq Session
  BY DEF Socket, Session
<1>6. CASE Validate(t)
  <2>1. requests \in Requests  BY DEF TypeOK
  <2>2. PICK task \in {At("refuse", s), Upsert(s, requests), At("rebind", s)} : Become(t, task)
    BY <1>6 DEF Validate
  <2>3. task \in Task  BY <1>3, <2>1, TaskPlaces
  <2>4. tasks' \in [AllTasks -> Task]  BY <2>2, <2>3, BecomeTyped DEF AllTasks
  <2>5. QED  BY <1>6, <2>4 DEF TypeOK, Validate, AllTasks, rows, memory
<1>7. CASE UpsertRequest(t)
  <2>1. tasks[t].requests \in Requests  BY <1>2, <1>7, TaskFields DEF UpsertRequest
  <2>2. requests' \in Requests  BY <1>4, <1>7, <2>1 DEF UpsertRequest, Requests
  <2>3. tasks' \in [AllTasks -> Task]
    BY <1>3, <1>7, TaskPlaces, BecomeTyped DEF UpsertRequest, AllTasks
  <2>4. QED  BY <1>7, <2>2, <2>3 DEF TypeOK, UpsertRequest, AllTasks, memory
<1>8. CASE Rebind(t)
  <2>1. tasks' \in [AllTasks -> Task]
    BY <1>3, <1>8, TaskPlaces, BecomeTyped DEF Rebind, AllTasks
  <2>2. QED  BY <1>4, <1>8, <2>1 DEF TypeOK, Rebind, AllTasks, memory
<1>9. CASE Authorize(t)
  <2>1. tasks' \in [AllTasks -> Task]
    BY <1>3, <1>9, TaskPlaces, BecomeTyped DEF Authorize, AllTasks
  <2>2. QED  BY <1>3, <1>9, <2>1 DEF TypeOK, Authorize, AllTasks, rows
<1>10. CASE KeepSession(t)
  <2>1. tasks' \in [AllTasks -> Task]
    BY <1>10, IdleIsTask, BecomeTyped DEF KeepSession, AllTasks
  <2>2. sockets' \in [Sockets -> Socket]  BY <1>3, <1>5, <1>10, NoteTyped DEF KeepSession
  <2>3. sessions' \in [Sockets -> Session]  BY <1>5, <1>10 DEF KeepSession, TypeOK
  <2>4. QED  BY <1>10, <2>1, <2>2, <2>3 DEF TypeOK, KeepSession, AllTasks, rows
<1>11. CASE Refuse(t)
  <2>1. tasks' \in [AllTasks -> Task]
    BY <1>11, IdleIsTask, BecomeTyped DEF Refuse, AllTasks
  <2>2. sockets' \in [Sockets -> Socket]  BY <1>3, <1>5, <1>11, NoteTyped DEF Refuse
  <2>3. sessions' \in [Sockets -> Session]  BY <1>5, <1>11 DEF Refuse, TypeOK
  <2>4. QED  BY <1>11, <2>1, <2>2, <2>3 DEF TypeOK, Refuse, AllTasks, rows
<1>12. QED  BY <1>6, <1>7, <1>8, <1>9, <1>10, <1>11

LEMMA HeartbeatTyped ==
  ASSUME TypeOK, NEW t \in Tasks, HeartbeatWrite(t) \/ HeartbeatDrop(t)
  PROVE  TypeOK'
<1> DEFINE s == tasks[t].socket
<1>1. tasks[t].pc \notin {"idle", "resolve"}  BY DEF HeartbeatWrite, HeartbeatDrop
<1>2. tasks[t] \in Task  BY DEF TypeOK
<1>3. s \in Sockets  BY <1>1, <1>2, TaskFields
<1>4. DeviceOf[s] \in Devices  BY <1>3, DeviceAssumption
<1>5. CASE HeartbeatWrite(t)
  <2>1. tasks' \in [AllTasks -> Task]
    BY <1>5, IdleIsTask, BecomeTyped DEF HeartbeatWrite, AllTasks
  <2>2. QED  BY <1>4, <1>5, <2>1 DEF TypeOK, HeartbeatWrite, AllTasks, memory
<1>6. CASE HeartbeatDrop(t)
  <2>1. tasks' \in [AllTasks -> Task]
    BY <1>6, IdleIsTask, BecomeTyped DEF HeartbeatDrop, AllTasks
  <2>2. "closed" \in Socket  BY DEF Socket
  <2>3. sockets' \in [Sockets -> Socket]  BY <1>3, <1>6, <2>2, NoteTyped DEF HeartbeatDrop
  <2>4. authorized' \in Sockets \cup {None} /\ sessions' \in [Sockets -> Session]
    BY <1>3, <1>6, ForgetTyped DEF HeartbeatDrop
  <2>5. QED  BY <1>6, <2>1, <2>3, <2>4 DEF TypeOK, HeartbeatDrop, AllTasks, rows
<1>7. QED  BY <1>5, <1>6

LEMMA MonitorTyped ==
  ASSUME TypeOK, MonitorStep
  PROVE  TypeOK'
<1>1. ASSUME NEW s \in Sockets, Expire(s)
      PROVE  TypeOK'
  <2>1. At("expired", s) \in Task  BY TaskPlaces
  <2>2. tasks' \in [AllTasks -> Task]  BY <1>1, <2>1, BecomeTyped DEF Expire, AllTasks
  <2>3. authorized' \in Sockets \cup {None} /\ sessions' \in [Sockets -> Session]
    BY <1>1, ForgetTyped DEF Expire
  <2>4. QED  BY <1>1, <2>2, <2>3 DEF TypeOK, Expire, AllTasks, rows
<1>2. ASSUME CloseExpired
      PROVE  TypeOK'
  <2> DEFINE s == tasks[Monitor].socket
  <2>1. tasks[Monitor] \in Task  BY DEF TypeOK
  <2>2. s \in Sockets  BY <1>2, <2>1, TaskFields DEF CloseExpired
  <2>3. tasks' \in [AllTasks -> Task]
    BY <1>2, IdleIsTask, BecomeTyped DEF CloseExpired, AllTasks
  <2>4. "closed" \in Socket  BY DEF Socket
  <2>5. /\ authorized' \in Sockets \cup {None}
        /\ sessions' \in [Sockets -> Session]
        /\ sockets' \in [Sockets -> Socket]
    <3>1. CASE Open(s)
      BY <1>2, <2>2, <2>4, <3>1, ForgetTyped, NoteTyped DEF CloseExpired
    <3>2. CASE ~Open(s)
      BY <1>2, <3>2 DEF CloseExpired, TypeOK, memory
    <3>3. QED  BY <3>1, <3>2
  <2>6. QED  BY <1>2, <2>3, <2>5 DEF TypeOK, CloseExpired, AllTasks, rows
<1>3. QED  BY <1>1, <1>2 DEF MonitorStep

LEMMA ResolutionTyped ==
  ASSUME TypeOK, NEW t \in Tasks,
         \/ \E status \in Resolution, d \in Devices : ResolveRead(t, status, d)
         \/ ResolveWrite(t)
  PROVE  TypeOK'
<1>1. ASSUME NEW status \in Resolution, NEW d \in Devices, ResolveRead(t, status, d)
      PROVE  TypeOK'
  <2> DEFINE task == [pc |-> "resolve", status |-> status, device |-> d,
                      binding |-> binding, requests |-> requests]
  <2>1. task \in Task  BY DEF TypeOK, Task
  <2>2. tasks' \in [AllTasks -> Task]  BY <1>1, <2>1, BecomeTyped DEF ResolveRead, AllTasks
  <2>3. resolved' \in 0 .. MaxResolved
    BY <1>1, DeviceAssumption DEF TypeOK, ResolveRead
  <2>4. QED  BY <1>1, <2>2, <2>3 DEF TypeOK, ResolveRead, AllTasks, memory
<1>2. ASSUME ResolveWrite(t)
      PROVE  TypeOK'
  <2>1. tasks[t] \in Task  BY DEF TypeOK
  <2>2. /\ tasks[t].status \in Resolution
        /\ tasks[t].device \in Devices
        /\ tasks[t].binding \in Devices \cup {None}
        /\ tasks[t].requests \in Requests
    BY <1>2, <2>1, TaskFields DEF ResolveWrite
  <2>3. binding' \in Devices \cup {None}
    BY <1>2, <2>2 DEF TypeOK, ResolveWrite, BindingAfter, Resolution
  <2>4. requests' \in Requests
    BY <1>2, <2>2 DEF ResolveWrite, RequestsAfter, Requests, Resolution
  <2>5. approved' \in SUBSET Devices  BY <1>2, <2>2 DEF TypeOK, ResolveWrite
  <2>6. tasks' \in [AllTasks -> Task]
    BY <1>2, IdleIsTask, BecomeTyped DEF ResolveWrite, AllTasks
  <2>7. QED  BY <1>2, <2>3, <2>4, <2>5, <2>6 DEF TypeOK, ResolveWrite, AllTasks, memory
<1>3. QED  BY <1>1, <1>2

LEMMA OpeningTyped ==
  ASSUME TypeOK, NEW t \in Tasks,
         OpenRead(t) \/ OpenAllowed(t) \/ OpenRefused(t) \/ Emit(t)
  PROVE  TypeOK'
<1> DEFINE s == tasks[t].socket
<1>1. tasks[t].pc \notin {"idle", "resolve"}
  BY DEF OpenRead, OpenAllowed, OpenRefused, Emit
<1>2. tasks[t] \in Task  BY DEF TypeOK
<1>3. s \in Sockets  BY <1>1, <1>2, TaskFields
<1>4. CASE OpenRead(t)
  <2>1. [pc |-> "check", socket |-> s, bound |-> IsBound(DeviceOf[s])] \in Task
    BY <1>3 DEF Task, IsBound
  <2>2. tasks' \in [AllTasks -> Task]  BY <1>4, <2>1, BecomeTyped DEF OpenRead, AllTasks
  <2>3. QED  BY <1>4, <2>2 DEF TypeOK, OpenRead, AllTasks, rows, memory
<1>5. CASE OpenAllowed(t)
  <2>1. At("emit", s) \in Task  BY <1>3, TaskPlaces
  <2>2. tasks' \in [AllTasks -> Task]  BY <1>5, <2>1, BecomeTyped DEF OpenAllowed, AllTasks
  <2>3. QED  BY <1>5, <2>2 DEF TypeOK, OpenAllowed, AllTasks, rows, memory
<1>6. CASE OpenRefused(t)
  <2>1. tasks' \in [AllTasks -> Task]
    BY <1>6, IdleIsTask, BecomeTyped DEF OpenRefused, AllTasks
  <2>2. "none" \in Session  BY DEF Session
  <2>3. sessions' = sessions \/ sessions' = [sessions EXCEPT ![s] = "none"]
    BY <1>6 DEF OpenRefused
  <2>4. sessions' \in [Sockets -> Session]  BY <2>2, <2>3 DEF TypeOK
  <2>5. QED  BY <1>6, <2>1, <2>4 DEF TypeOK, OpenRefused, AllTasks, rows
<1>7. CASE Emit(t)
  <2>1. DeviceOf[s] \in Devices  BY <1>3, DeviceAssumption
  <2>2. tasks' \in [AllTasks -> Task]  BY <1>7, IdleIsTask, BecomeTyped DEF Emit, AllTasks
  <2>3. commanded' \in SUBSET Devices  BY <1>7, <2>1 DEF TypeOK, Emit
  <2>4. QED  BY <1>7, <2>2, <2>3 DEF TypeOK, Emit, AllTasks, rows, memory
<1>8. QED  BY <1>4, <1>5, <1>6, <1>7

LEMMA FailureTyped ==
  ASSUME TypeOK, NEW t \in Tasks, TaskFails(t)
  PROVE  TypeOK'
<1> DEFINE s == tasks[t].socket
<1>1. tasks' \in [AllTasks -> Task]
  BY IdleIsTask, BecomeTyped DEF TaskFails, AllTasks
<1>2. faults' \in 0 .. MaxFaults  BY DeviceAssumption DEF TypeOK, TaskFails
<1>3. /\ authorized' \in Sockets \cup {None}
      /\ sessions' \in [Sockets -> Session]
      /\ sockets' \in [Sockets -> Socket]
  <2>1. CASE tasks[t].pc = "beat"
    <3>1. tasks[t] \in Task  BY DEF TypeOK
    <3>2. s \in Sockets  BY <2>1, <3>1, TaskFields
    <3>3. "closed" \in Socket  BY DEF Socket
    <3>4. QED  BY <2>1, <3>2, <3>3, ForgetTyped, NoteTyped DEF TaskFails
  <2>2. CASE tasks[t].pc # "beat"
    BY <2>2 DEF TaskFails, TypeOK, memory
  <2>3. QED  BY <2>1, <2>2
<1>4. QED  BY <1>1, <1>2, <1>3 DEF TypeOK, TaskFails, AllTasks, rows

LEMMA StopTyped ==
  ASSUME TypeOK, ServerStops
  PROVE  TypeOK'
<1>1. tasks' \in [AllTasks -> Task]  BY IdleIsTask DEF ServerStops, AllTasks
<1>2. faults' \in 0 .. MaxFaults  BY DeviceAssumption DEF TypeOK, ServerStops
<1>3. "none" \in Session /\ "closed" \in Socket  BY DEF Session, Socket
<1>4. sessions' \in [Sockets -> Session]  BY <1>3 DEF ServerStops
<1>5. sockets' \in [Sockets -> Socket]  BY <1>3 DEF TypeOK, ServerStops
<1>6. QED  BY <1>1, <1>2, <1>4, <1>5 DEF TypeOK, ServerStops, AllTasks, rows

\* Rows, memory and tasks stay well typed; no list of requests loses a device.
THEOREM DeviceTypeCorrect == Spec => []TypeOK
<1>1. Init => TypeOK  BY InitTyped
<1>2. TypeOK /\ [Next]_vars => TypeOK'
  <2> SUFFICES ASSUME TypeOK, [Next]_vars
               PROVE  TypeOK'
    OBVIOUS
  <2>1. CASE \E s \in Sockets : Connect(s) \/ Disconnect(s)
    BY <2>1, SocketTyped
  <2>2. ASSUME NEW t \in Tasks, NEW s \in Sockets, Register(t, s) \/ Heartbeat(t, s)
        PROVE  TypeOK'
    BY <2>2, BeginTyped
  <2>3. ASSUME NEW t \in Tasks, OpenBarrier(t)
        PROVE  TypeOK'
    <3>1. PICK s \in Sockets : authorized = s  BY <2>3 DEF TypeOK, OpenBarrier
    <3>2. QED  BY <2>3, <3>1, BeginTyped
  <2>4. ASSUME NEW t \in Tasks, TaskStep(t)
        PROVE  TypeOK'
    BY <2>4, RegistrationTyped, HeartbeatTyped, ResolutionTyped, OpeningTyped DEF TaskStep
  <2>5. ASSUME NEW t \in Tasks, NEW status \in Resolution, NEW d \in Devices,
               ResolveRead(t, status, d)
        PROVE  TypeOK'
    BY <2>5, ResolutionTyped
  <2>6. CASE \E t \in Tasks : TaskFails(t)
    BY <2>6, FailureTyped
  <2>7. CASE MonitorStep
    BY <2>7, MonitorTyped
  <2>8. CASE ServerStops
    BY <2>8, StopTyped
  <2>9. CASE UNCHANGED vars
    BY <2>9 DEF TypeOK, vars, rows, memory
  <2>10. QED
    BY <2>1, <2>2, <2>3, <2>4, <2>5, <2>6, <2>7, <2>8, <2>9 DEF Next
<1>3. QED  BY <1>1, <1>2, PTL DEF Spec

----------------------------------------------------------------------------
\* Approvals are never taken back.
LEMMA ApprovalsStay ==
  ASSUME [Next]_vars
  PROVE  approved \subseteq approved'
<1>1. CASE \E s \in Sockets : Connect(s) \/ Disconnect(s)
  BY <1>1 DEF Connect, Disconnect, rows
<1>2. ASSUME NEW t \in Tasks, NEW s \in Sockets, Register(t, s) \/ Heartbeat(t, s)
      PROVE  approved \subseteq approved'
  BY <1>2 DEF Register, Heartbeat, rows
<1>3. ASSUME NEW t \in Tasks, NEW status \in Resolution, NEW d \in Devices,
             ResolveRead(t, status, d)
      PROVE  approved \subseteq approved'
  BY <1>3 DEF ResolveRead
<1>4. ASSUME NEW t \in Tasks, OpenBarrier(t) \/ TaskFails(t)
      PROVE  approved \subseteq approved'
  BY <1>4 DEF OpenBarrier, TaskFails, rows
<1>5. ASSUME NEW t \in Tasks, TaskStep(t)
      PROVE  approved \subseteq approved'
  BY <1>5 DEF TaskStep, Validate, UpsertRequest, Rebind, Authorize, KeepSession, Refuse,
       HeartbeatWrite, HeartbeatDrop, ResolveWrite, OpenRead, OpenAllowed, OpenRefused, Emit, rows
<1>6. CASE MonitorStep
  BY <1>6 DEF MonitorStep, Expire, CloseExpired, rows
<1>7. CASE ServerStops \/ UNCHANGED vars
  BY <1>7 DEF ServerStops, vars, rows
<1>8. QED
  BY <1>1, <1>2, <1>3, <1>4, <1>5, <1>6, <1>7 DEF Next

\* What one task remembers stays true while the approvals grow.
LEMMA StillApproved ==
  ASSUME NEW task, RemembersApproved(task), approved \subseteq approved'
  PROVE  RemembersApproved(task)'
BY DEF RemembersApproved

\* A step that changes one task needs to be looked at for that task only.
LEMMA OthersRemember ==
  ASSUME TypeOK, DeviceInv, [Next]_vars,
         NEW t \in AllTasks, NEW task, Become(t, task),
         t \in Tasks => RemembersApproved(task)'
  PROVE  \A u \in Tasks : RemembersApproved(tasks[u])'
<1> TAKE u \in Tasks
<1>1. approved \subseteq approved'  BY ApprovalsStay
<1>2. CASE u = t
  <2>1. tasks'[u] = task  BY <1>2 DEF Become, TypeOK, AllTasks
  <2>2. RemembersApproved(task)'  BY <1>2
  <2>3. QED  BY <2>1, <2>2 DEF RemembersApproved
<1>3. CASE u # t
  <2>1. tasks'[u] = tasks[u]  BY <1>3 DEF Become, TypeOK, AllTasks
  <2>2. RemembersApproved(tasks[u])  BY DEF DeviceInv
  <2>3. QED  BY <1>1, <2>1, <2>2 DEF RemembersApproved
<1>4. QED  BY <1>2, <1>3

\* A step that leaves the binding, the approvals and the commands alone.
LEMMA RowsKept ==
  ASSUME OnlyApprovedDevicesOpen, UNCHANGED <<binding, approved, commanded>>
  PROVE  OnlyApprovedDevicesOpen'
BY DEF OnlyApprovedDevicesOpen

\* A bound device was approved.
LEMMA BoundIsApproved ==
  ASSUME OnlyApprovedDevicesOpen, NEW s \in Sockets, IsBound(DeviceOf[s])
  PROVE  DeviceOf[s] \in approved
BY DeviceAssumption DEF OnlyApprovedDevicesOpen, IsBound

LEMMA BeginKeeps ==
  ASSUME TypeOK, DeviceInv, [Next]_vars, NEW t \in Tasks, NEW s \in Sockets,
         Register(t, s) \/ Heartbeat(t, s) \/ OpenBarrier(t)
  PROVE  DeviceInv'
<1>1. UNCHANGED <<binding, approved, commanded>>
  BY DEF Register, Heartbeat, OpenBarrier, rows
<1>2. OnlyApprovedDevicesOpen'  BY <1>1, RowsKept DEF DeviceInv
<1>3. PICK task : Become(t, task) /\ RemembersApproved(task)
  <2>1. CASE Register(t, s)
    <3>1. PICK task : task = [pc |-> "validate", socket |-> s, active |-> authorized \notin {None, s}]
      OBVIOUS
    <3>2. RemembersApproved(task)  BY <3>1 DEF RemembersApproved
    <3>3. QED  BY <2>1, <3>1, <3>2 DEF Register
  <2>2. CASE Heartbeat(t, s)
    <3>1. PICK task : task = At(IF IsBound(DeviceOf[s]) THEN "beat" ELSE "drop", s)
      OBVIOUS
    <3>2. RemembersApproved(task)
      BY <3>1, BoundIsApproved DEF RemembersApproved, At, DeviceInv
    <3>3. QED  BY <2>2, <3>1, <3>2 DEF Heartbeat
  <2>3. CASE OpenBarrier(t)
    <3>1. PICK task : task = At("open", authorized)
      OBVIOUS
    <3>2. RemembersApproved(task)  BY <3>1 DEF RemembersApproved, At
    <3>3. QED  BY <2>3, <3>1, <3>2 DEF OpenBarrier
  <2>4. QED  BY <2>1, <2>2, <2>3
<1>4. RemembersApproved(task)'  BY <1>3, ApprovalsStay, StillApproved
<1>5. QED  BY <1>2, <1>3, <1>4, OthersRemember DEF DeviceInv, AllTasks

\* Going idle, or to a place that remembers no binding, is always safe.
LEMMA SafePlaces ==
  ASSUME NEW s
  PROVE  /\ RemembersApproved(Idle)
         /\ \A pc \in {"authorize", "record", "refuse", "drop", "expired", "open"} :
              RemembersApproved(At(pc, s))
         /\ \A read : RemembersApproved(Upsert(s, read))
BY DEF RemembersApproved, Idle, At, Upsert

LEMMA TaskStepKeeps ==
  ASSUME TypeOK, DeviceInv, [Next]_vars, NEW t \in Tasks, TaskStep(t)
  PROVE  DeviceInv'
<1> DEFINE s == tasks[t].socket
<1>1. RemembersApproved(tasks[t])  BY DEF DeviceInv
<1>2. tasks[t] \in Task  BY DEF TypeOK
<1>3. approved \subseteq approved'  BY ApprovalsStay
<1>4. OnlyApprovedDevicesOpen'
  <2>1. CASE Rebind(t)
    BY <1>1, <2>1 DEF Rebind, RemembersApproved, OnlyApprovedDevicesOpen, DeviceInv
  <2>2. CASE HeartbeatWrite(t)
    BY <1>1, <2>2 DEF HeartbeatWrite, RemembersApproved, OnlyApprovedDevicesOpen, DeviceInv
  <2>3. CASE ResolveWrite(t)
    <3>1. tasks[t].status \in Resolution  BY <1>2, <2>3, TaskFields DEF ResolveWrite
    <3>2. binding' \in approved' \cup {None}
      BY <1>1, <1>3, <2>3, <3>1
         DEF ResolveWrite, BindingAfter, Resolution, RemembersApproved,
             OnlyApprovedDevicesOpen, DeviceInv
    <3>3. commanded' \subseteq approved'
      BY <1>3, <2>3 DEF ResolveWrite, OnlyApprovedDevicesOpen, DeviceInv
    <3>4. QED  BY <3>2, <3>3 DEF OnlyApprovedDevicesOpen
  <2>4. CASE Emit(t)
    BY <1>1, <2>4 DEF Emit, rows, RemembersApproved, OnlyApprovedDevicesOpen, DeviceInv
  <2>5. CASE \/ Validate(t) \/ UpsertRequest(t) \/ Authorize(t) \/ KeepSession(t) \/ Refuse(t)
             \/ HeartbeatDrop(t) \/ OpenRead(t) \/ OpenAllowed(t) \/ OpenRefused(t)
    <3>1. UNCHANGED <<binding, approved, commanded>>
      BY <2>5 DEF Validate, UpsertRequest, Authorize, KeepSession, Refuse, HeartbeatDrop,
                  OpenRead, OpenAllowed, OpenRefused, rows
    <3>2. QED  BY <3>1, RowsKept DEF DeviceInv
  <2>6. QED  BY <2>1, <2>2, <2>3, <2>4, <2>5 DEF TaskStep
<1>5. PICK task : Become(t, task) /\ RemembersApproved(task)
  <2>1. CASE Validate(t)
    <3>1. s \in Sockets  BY <1>2, <2>1, TaskFields DEF Validate
    <3>2. CASE IsBound(DeviceOf[s])
      <4>1. RemembersApproved(At("rebind", s))
        BY <3>1, <3>2, BoundIsApproved DEF RemembersApproved, At, DeviceInv
      <4>2. QED  BY <2>1, <4>1, SafePlaces DEF Validate
    <3>3. CASE ~IsBound(DeviceOf[s])
      BY <2>1, <3>3, SafePlaces DEF Validate
    <3>4. QED  BY <3>2, <3>3
  <2>2. CASE OpenRead(t)
    <3>1. s \in Sockets  BY <1>2, <2>2, TaskFields DEF OpenRead
    <3>2. RemembersApproved([pc |-> "check", socket |-> s, bound |-> IsBound(DeviceOf[s])])
      BY <3>1, BoundIsApproved DEF RemembersApproved, DeviceInv
    <3>3. QED  BY <2>2, <3>2 DEF OpenRead
  <2>3. CASE OpenAllowed(t)
    <3>1. RemembersApproved(At("emit", s))
      BY <1>1, <2>3 DEF OpenAllowed, MayOpen, RemembersApproved, At
    <3>2. QED  BY <2>3, <3>1 DEF OpenAllowed
  <2>4. CASE UpsertRequest(t) \/ Rebind(t) \/ Authorize(t)
    BY <2>4, SafePlaces DEF UpsertRequest, Rebind, Authorize
  <2>5. CASE \/ KeepSession(t) \/ Refuse(t) \/ HeartbeatWrite(t) \/ HeartbeatDrop(t)
             \/ ResolveWrite(t) \/ OpenRefused(t) \/ Emit(t)
    BY <2>5, SafePlaces
       DEF KeepSession, Refuse, HeartbeatWrite, HeartbeatDrop, ResolveWrite, OpenRefused, Emit
  <2>6. QED  BY <2>1, <2>2, <2>3, <2>4, <2>5 DEF TaskStep
<1>6. RemembersApproved(task)'  BY <1>3, <1>5, StillApproved
<1>7. QED  BY <1>4, <1>5, <1>6, OthersRemember DEF DeviceInv, AllTasks

LEMMA ResolveReadKeeps ==
  ASSUME TypeOK, DeviceInv, [Next]_vars, NEW t \in Tasks,
         NEW status \in Resolution, NEW d \in Devices, ResolveRead(t, status, d)
  PROVE  DeviceInv'
<1>1. OnlyApprovedDevicesOpen'  BY RowsKept DEF DeviceInv, ResolveRead
<1>2. PICK task : task = [pc |-> "resolve", status |-> status, device |-> d,
                          binding |-> binding, requests |-> requests]
  OBVIOUS
<1>3. RemembersApproved(task)
  BY <1>2 DEF RemembersApproved, OnlyApprovedDevicesOpen, DeviceInv
<1>4. Become(t, task)  BY <1>2 DEF ResolveRead
<1>5. RemembersApproved(task)'  BY <1>3, ApprovalsStay, StillApproved
<1>6. QED  BY <1>1, <1>4, <1>5, OthersRemember DEF DeviceInv, AllTasks

LEMMA FailureKeeps ==
  ASSUME TypeOK, DeviceInv, [Next]_vars, NEW t \in Tasks, TaskFails(t)
  PROVE  DeviceInv'
<1>1. OnlyApprovedDevicesOpen'  BY RowsKept DEF DeviceInv, TaskFails, rows
<1>2. RemembersApproved(Idle)'  BY DEF RemembersApproved, Idle
<1>3. QED  BY <1>1, <1>2, OthersRemember DEF DeviceInv, AllTasks, TaskFails

\* The monitor is not one of the tasks.
LEMMA MonitorKeeps ==
  ASSUME TypeOK, DeviceInv, [Next]_vars, MonitorStep
  PROVE  DeviceInv'
<1>1. UNCHANGED <<binding, approved, commanded>>
  BY DEF MonitorStep, Expire, CloseExpired, rows
<1>2. OnlyApprovedDevicesOpen'  BY <1>1, RowsKept DEF DeviceInv
<1>3. PICK task : Become(Monitor, task)
  BY DEF MonitorStep, Expire, CloseExpired
<1>4. QED  BY <1>2, <1>3, OthersRemember, DeviceAssumption DEF DeviceInv, AllTasks

LEMMA SocketKeeps ==
  ASSUME TypeOK, DeviceInv, NEW s \in Sockets, Connect(s) \/ Disconnect(s)
  PROVE  DeviceInv'
BY DEF DeviceInv, OnlyApprovedDevicesOpen, RemembersApproved, Connect, Disconnect, rows

LEMMA StopKeeps ==
  ASSUME TypeOK, DeviceInv, ServerStops
  PROVE  DeviceInv'
<1>1. OnlyApprovedDevicesOpen'  BY RowsKept DEF DeviceInv, ServerStops, rows
<1>2. \A t \in Tasks : tasks'[t] = Idle  BY DEF ServerStops
<1>3. QED  BY <1>1, <1>2 DEF DeviceInv, RemembersApproved, Idle

LEMMA DeviceInvStep ==
  ASSUME TypeOK, DeviceInv, [Next]_vars
  PROVE  DeviceInv'
<1>1. CASE \E s \in Sockets : Connect(s) \/ Disconnect(s)
  BY <1>1, SocketKeeps
<1>2. ASSUME NEW t \in Tasks, NEW s \in Sockets, Register(t, s) \/ Heartbeat(t, s)
      PROVE  DeviceInv'
  BY <1>2, BeginKeeps
<1>3. ASSUME NEW t \in Tasks, OpenBarrier(t)
      PROVE  DeviceInv'
  <2>1. PICK s \in Sockets : authorized = s  BY <1>3 DEF TypeOK, OpenBarrier
  <2>2. QED  BY <1>3, <2>1, BeginKeeps
<1>4. ASSUME NEW t \in Tasks, TaskStep(t)
      PROVE  DeviceInv'
  BY <1>4, TaskStepKeeps
<1>5. ASSUME NEW t \in Tasks, NEW status \in Resolution, NEW d \in Devices,
             ResolveRead(t, status, d)
      PROVE  DeviceInv'
  BY <1>5, ResolveReadKeeps
<1>6. CASE \E t \in Tasks : TaskFails(t)
  BY <1>6, FailureKeeps
<1>7. CASE MonitorStep
  BY <1>7, MonitorKeeps
<1>8. CASE ServerStops
  BY <1>8, StopKeeps
<1>9. CASE UNCHANGED vars
  BY <1>9 DEF DeviceInv, OnlyApprovedDevicesOpen, RemembersApproved, vars, rows
<1>10. QED
  BY <1>1, <1>2, <1>3, <1>4, <1>5, <1>6, <1>7, <1>8, <1>9 DEF Next

\* Whatever registrations, heartbeats and resolutions are written over each
\* other, the module is bound to a device that was approved at some time, and
\* only such a device is told to open (validateDeviceRegistration, openBarrier).
THEOREM OnlyApprovedOpen == Spec => []OnlyApprovedDevicesOpen
<1>1. Init => DeviceInv
  BY DEF Init, DeviceInv, OnlyApprovedDevicesOpen, RemembersApproved, Idle
<1>2. TypeOK /\ DeviceInv /\ [Next]_vars => DeviceInv'
  BY DeviceInvStep
<1>3. DeviceInv => OnlyApprovedDevicesOpen  BY DEF DeviceInv
<1>4. QED  BY <1>1, <1>2, <1>3, DeviceTypeCorrect, PTL DEF Spec
=============================================================================
