----------------------------- MODULE UsbHal_proofs -----------------------------
(***************************************************************************)
(* Proofs about UsbHal for any ports, modes and bounds.  The inductive     *)
(* invariant IInv says which thread holds mRoleSwitchLock and mPartnerLock *)
(* at each of its steps; the signal of the partner, a switch in progress   *)
(* and the life of the worker are safe because of that.                    *)
(***************************************************************************)
EXTENDS UsbHal, TLAPS

ModeSteps == {"open", "lock", "write", "wait", "waiting", "woken", "expired"}
SwitchSteps == ModeSteps \cup {"node", "drp", "notify"}

\* The binder thread has mRoleSwitchLock from its request on until the answer, and
\* mPartnerLock from before the write of the mode on, except while it sleeps; the worker
\* has mRoleSwitchLock while it looks at the ports.
LockInv ==
  /\ bpc \in SwitchSteps <=> mRoleSwitchLock = "binder"
  /\ wpc \in {"ports", "force"} <=> mRoleSwitchLock = "worker"
  /\ bpc \in {"write", "wait"} <=> mPartnerLock = "binder"

\* The arguments of a switch, and the port the worker writes to.
CallInv ==
  /\ bpc \in SwitchSteps \cup {"role"} => call.port \in Ports
  /\ bpc \in ModeSteps => call.op = "switchMode"
  /\ call.op = "switchMode" => call.mode \in Modes
  /\ wpc = "force" => wport \in Ports

\* A partner that came since the write of the mode is either not there yet or in
\* mPartnerUp when the binder thread looks at it.
SignalInv ==
  /\ bpc \in {"wait", "waiting"} => ~partnerAdded
  /\ bpc = "woken" => (partnerAdded => mPartnerUp)

\* landed speaks of the switch in progress, after its write.
SwitchInv ==
  /\ landed # "none" => bpc \in SwitchSteps
  /\ SwitchUndisturbed

\* The thread of the last callback has ended before the next one is created.
WorkerInv ==
  /\ WorkerOnlyWithCallback
  /\ bpc = "create" => wpc = "none" /\ mCallback

IInv == TypeOK /\ LockInv /\ CallInv /\ SignalInv /\ SwitchInv /\ WorkerInv

-----------------------------------------------------------------------------
\* Before the first call no thread has a lock and there is no worker.
LEMMA InitEstablishes == Init => IInv
  <1> SUFFICES ASSUME Init PROVE IInv
    OBVIOUS
  <1>1. TypeOK
    <2>1. call \in Calls
      BY UsbAssumption DEF Init, NoCall, NewCall, Calls
    <2>2. status \in Statuses /\ reported \in Statuses
      BY DEF Init, NoStatus, Statuses
    <2>3. /\ uevents \in Seq({"add", "remove"}) /\ Len(uevents) <= QueueSize
          /\ events \in 0..MaxEvents
      BY UsbAssumption DEF Init
    <2>4. portType \in [Ports -> Modes \cup {"dual"}]
      BY DEF Init
    <2>5. QED
      BY <2>1, <2>2, <2>3, <2>4 DEF Init, TypeOK, Threads, BinderSteps, WorkerSteps
  <1>2. LockInv /\ CallInv /\ SignalInv /\ SwitchInv /\ WorkerInv
    BY DEF Init, LockInv, CallInv, SignalInv, SwitchInv, WorkerInv, NoCall, NewCall, ModeSteps,
           SwitchSteps, SwitchUndisturbed, WorkerOnlyWithCallback
  <1>3. QED BY <1>1, <1>2 DEF IInv

\* The record of a call keeps its type when one of its fields is set.
LEMMA CallFacts ==
  ASSUME NEW c \in Calls
  PROVE  /\ NoCall \in Calls
         /\ \A ok \in BOOLEAN :
              /\ [c EXCEPT !.roleSwitch = ok] \in Calls
              /\ [c EXCEPT !.roleSwitch = ok].op = c.op
              /\ [c EXCEPT !.roleSwitch = ok].port = c.port
              /\ [c EXCEPT !.roleSwitch = ok].mode = c.mode
         /\ c.spurious < MaxSpurious =>
              /\ [c EXCEPT !.spurious = @ + 1] \in Calls
              /\ [c EXCEPT !.spurious = @ + 1].op = c.op
              /\ [c EXCEPT !.spurious = @ + 1].port = c.port
              /\ [c EXCEPT !.spurious = @ + 1].mode = c.mode
  BY UsbAssumption DEF Calls, NoCall, NewCall

\* What queryVersionHelper makes of what it read.
LEMMA StatusFacts ==
  ASSUME NEW ok \in BOOLEAN, partners \subseteq Ports
  PROVE  [ok |-> ok, connected |-> IF ok THEN partners ELSE {}] \in Statuses
  <1>1. (IF ok THEN partners ELSE {}) \in SUBSET Ports
    OBVIOUS
  <1>2. QED BY <1>1 DEF Statuses

\* What writing a type to a port does to the content of the files.
LEMMA WriteFacts ==
  ASSUME NEW f \in [Ports -> Modes \cup {"dual"}], NEW p \in Ports,
         NEW v \in Modes \cup {"dual"}
  PROVE  /\ [f EXCEPT ![p] = v] \in [Ports -> Modes \cup {"dual"}]
         /\ [f EXCEPT ![p] = v][p] = v
         /\ \A q \in Ports : q # p => [f EXCEPT ![p] = v][q] = f[q]
  OBVIOUS

-----------------------------------------------------------------------------
(* The binder thread. *)

\* The call that comes in has the arguments its first step looks at.
LEMMA ServedCall ==
  ASSUME Serve
  PROVE  /\ call' \in Calls /\ bpc' \in {"answer", "read", "setCallback", "role"}
         /\ bpc' = "role" => call'.port \in Ports
         /\ call'.op = "switchMode" => call'.mode \in Modes
         /\ bpc = "idle"
  <1>1. CASE \E op \in {"answer", "answerQuery", "queryAnswer"} :
               /\ call' = NewCall(op, "none", "none", FALSE)
               /\ bpc' = IF op = "queryAnswer" THEN "read" ELSE "answer"
    <2>1. PICK op \in {"answer", "answerQuery", "queryAnswer"} :
                 call' = NewCall(op, "none", "none", FALSE)
      BY <1>1
    <2>2. call' \in Calls /\ call'.op = op
      BY <2>1, UsbAssumption DEF NewCall, Calls
    <2>3. QED BY <1>1, <2>2 DEF Serve
  <1>2. CASE \E set \in BOOLEAN :
               /\ call' = NewCall("setCallback", "none", "none", set)
               /\ bpc' = "setCallback"
    BY <1>2, UsbAssumption DEF Serve, NewCall, Calls
  <1>3. CASE \E p \in Ports, m \in Modes :
               /\ call' = NewCall("switchMode", p, m, FALSE)
               /\ bpc' = "role"
    <2>1. PICK p \in Ports, m \in Modes : call' = NewCall("switchMode", p, m, FALSE)
      BY <1>3
    <2>2. call' \in Calls /\ call'.port = p /\ call'.mode = m
      BY <2>1, UsbAssumption DEF NewCall, Calls
    <2>3. QED BY <1>3, <2>2 DEF Serve
  <1>4. CASE \E p \in Ports :
               /\ call' = NewCall("switchOther", p, "none", FALSE)
               /\ bpc' = "role"
    <2>1. PICK p \in Ports : call' = NewCall("switchOther", p, "none", FALSE)
      BY <1>4
    <2>2. call' \in Calls /\ call'.op = "switchOther" /\ call'.port = p
      BY <2>1, UsbAssumption DEF NewCall, Calls
    <2>3. QED BY <1>4, <2>2 DEF Serve
  <1>5. QED BY <1>1, <1>2, <1>3, <1>4 DEF Serve

\* The calls that switch no role, and the arrival of every call.
LEMMA CallsPreserve ==
  ASSUME IInv,
         \/ Serve \/ Answer \/ BinderReadsStatus \/ BinderNotifiesStatus
         \/ SetCallback \/ KillWorker \/ JoinWorker \/ CreateWorker
  PROVE  IInv'
  <1> USE DEF IInv, LockInv, CallInv, SignalInv, SwitchInv, WorkerInv, ModeSteps,
              SwitchSteps, SwitchUndisturbed, WorkerOnlyWithCallback, TypeOK,
              locks, worker, query, kernel, partner, BGoto, Return
  <1>1. call \in Calls /\ NoCall \in Calls /\ NoCall.op = "none" /\ NoCall.port = "none"
    BY CallFacts DEF NoCall, NewCall
  <1>2. CASE Serve
    <2>1. /\ call' \in Calls /\ bpc' \in {"answer", "read", "setCallback", "role"}
          /\ bpc' = "role" => call'.port \in Ports
          /\ call'.op = "switchMode" => call'.mode \in Modes
          /\ bpc = "idle"
      BY <1>2, ServedCall
    <2>2. UNCHANGED <<mCallback, locks, destroyThread, landed, worker, query, portType,
                      kernel, missed, partner>>
      BY <1>2 DEF Serve
    <2>3. QED BY <2>1, <2>2 DEF BinderSteps
  <1>3. CASE Answer
    BY <1>3, <1>1 DEF Answer, BinderSteps
  <1>4. CASE BinderReadsStatus
    <2>1. status' \in Statuses /\ missed' \in BOOLEAN
      BY <1>4, StatusFacts DEF BinderReadsStatus, ReadStatus
    <2>2. /\ bpc = "read" /\ bpc' = "report" /\ mLock' = "binder"
          /\ UNCHANGED <<mCallback, mRoleSwitchLock, mPartnerLock, destroyThread, call, landed,
                         worker, reported, portType, kernel, partner>>
      BY <1>4 DEF BinderReadsStatus, ReadStatus
    <2>3. QED BY <1>1, <2>1, <2>2 DEF Threads, BinderSteps
  <1>5. CASE BinderNotifiesStatus
    BY <1>5, <1>1 DEF BinderNotifiesStatus, NotifyStatus, NoStatus, Statuses, BinderSteps
  <1>6. CASE SetCallback
    BY <1>6, <1>1 DEF SetCallback, NoStatus, Statuses, Threads, BinderSteps, Calls
  <1>7. CASE KillWorker
    <2>1. sigPending' \in BOOLEAN
      BY <1>7 DEF KillWorker
    <2>2. QED BY <1>7, <1>1, <2>1 DEF KillWorker, BinderSteps
  <1>8. CASE JoinWorker
    BY <1>8, <1>1 DEF JoinWorker, BinderSteps
  <1>9. CASE CreateWorker
    <2>1. mCallback' \in BOOLEAN /\ destroyThread' \in BOOLEAN
      BY <1>9 DEF CreateWorker
    <2>2. /\ wpc = "none" /\ wpc' \in {"none", "open"}
          /\ wpc' = "open" => mCallback'
      BY <1>9 DEF CreateWorker, WorkerSteps
    <2>3. QED BY <1>9, <1>1, <2>1, <2>2 DEF CreateWorker, BinderSteps, WorkerSteps
  <1>10. QED BY <1>2, <1>3, <1>4, <1>5, <1>6, <1>7, <1>8, <1>9

\* switchRole and switchMode.
LEMMA SwitchPreserves ==
  ASSUME IInv,
         \/ TakeRoleSwitchLock \/ SwitchOtherRole \/ OpenPortType \/ TakePartnerLock
         \/ WriteMode \/ WriteModeFails \/ StartWait \/ WaitExpires \/ WakesSpuriously
         \/ WaitWoken \/ WaitTimedOut \/ SwitchFails \/ NotifyRoleSwitch
  PROVE  IInv'
  <1> USE DEF IInv, LockInv, CallInv, SignalInv, SwitchInv, WorkerInv, ModeSteps,
              SwitchSteps, SwitchUndisturbed, WorkerOnlyWithCallback, TypeOK,
              locks, worker, query, kernel, partner, BGoto, Return, BinderSteps
  <1>1. call \in Calls /\ NoCall \in Calls /\ NoCall.op = "none" /\ NoCall.port = "none"
    BY CallFacts DEF NoCall, NewCall
  <1>2. CASE TakeRoleSwitchLock
    BY <1>2, <1>1 DEF TakeRoleSwitchLock, Threads
  <1>3. CASE SwitchOtherRole
    <2>1. PICK ok \in BOOLEAN : call' = [call EXCEPT !.roleSwitch = ok]
      BY <1>3 DEF SwitchOtherRole
    <2>2. call' \in Calls /\ call'.op = call.op /\ call'.port = call.port
          /\ call'.mode = call.mode
      BY <1>1, <2>1, CallFacts
    <2>3. QED BY <1>3, <1>1, <2>2 DEF SwitchOtherRole
  <1>4. CASE OpenPortType
    BY <1>4, <1>1 DEF OpenPortType
  <1>5. CASE TakePartnerLock
    <2>1. TypeOK'
      BY <1>5, <1>1 DEF TakePartnerLock, Threads, BinderSteps
    <2>2. (LockInv /\ CallInv /\ SignalInv /\ SwitchInv /\ WorkerInv)'
      BY <1>5 DEF TakePartnerLock
    <2>3. QED BY <2>1, <2>2
  <1>6. CASE WriteMode
    <2>1. call.port \in Ports /\ call.mode \in Modes
      BY <1>6 DEF WriteMode
    <2>2. /\ portType' \in [Ports -> Modes \cup {"dual"}]
          /\ landed' \in Modes \cup {"dual", "none"}
          /\ landed' # "none" => portType'[call.port] = landed'
      BY <1>6, <2>1, WriteFacts DEF WriteMode, WritePortType
    <2>3. QED BY <1>6, <1>1, <2>1, <2>2 DEF WriteMode
  <1>7. CASE WriteModeFails
    BY <1>7, <1>1 DEF WriteModeFails
  <1>8. CASE StartWait
    BY <1>8, <1>1 DEF StartWait
  <1>9. CASE WaitExpires
    BY <1>9, <1>1 DEF WaitExpires
  <1>10. CASE WakesSpuriously
    BY <1>10, <1>1, CallFacts DEF WakesSpuriously
  <1>11. CASE WaitWoken
    <2>1. CASE mPartnerUp
      <3>1. call' = [call EXCEPT !.roleSwitch = TRUE]
        BY <1>11, <2>1 DEF WaitWoken
      <3>2. call' \in Calls /\ call'.op = call.op /\ call'.port = call.port
            /\ call'.mode = call.mode
        BY <1>1, <3>1, CallFacts
      <3>3. QED BY <1>11, <1>1, <2>1, <3>2 DEF WaitWoken
    <2>2. CASE ~mPartnerUp
      BY <1>11, <1>1, <2>2 DEF WaitWoken
    <2>3. QED BY <2>1, <2>2
  <1>12. CASE WaitTimedOut
    BY <1>12, <1>1 DEF WaitTimedOut
  <1>13. CASE SwitchFails
    BY <1>13, <1>1, WriteFacts DEF SwitchFails, WritePortType
  <1>14. CASE NotifyRoleSwitch
    BY <1>14, <1>1 DEF NotifyRoleSwitch
  <1>15. QED
    BY <1>2, <1>3, <1>4, <1>5, <1>6, <1>7, <1>8, <1>9, <1>10, <1>11, <1>12, <1>13, <1>14

-----------------------------------------------------------------------------
(* The worker thread, its signal and the kernel. *)

\* What the queue of uevents is before and after a message.
LEMMA QueueFacts ==
  ASSUME NEW q \in Seq({"add", "remove"})
  PROVE  /\ <<>> \in Seq({"add", "remove"}) /\ Len(<<>>) = 0 /\ Len(q) \in Nat
         /\ q # <<>> => Tail(q) \in Seq({"add", "remove"}) /\ Len(Tail(q)) = Len(q) - 1
         /\ \A e \in {"add", "remove"} :
              Append(q, e) \in Seq({"add", "remove"}) /\ Len(Append(q, e)) = Len(q) + 1
  OBVIOUS

\* The worker: uevent_event, its status queries, and the signal that ends it.
LEMMA WorkerPreserves ==
  ASSUME IInv, WorkerStep
  PROVE  IInv'
  <1> USE DEF IInv, LockInv, CallInv, SignalInv, SwitchInv, WorkerInv, ModeSteps,
              SwitchSteps, SwitchUndisturbed, WorkerOnlyWithCallback, TypeOK,
              locks, binder, query, kernel, partner, WGoto, WorkerSteps
  <1>1. /\ uevents \in Seq({"add", "remove"}) /\ <<>> \in Seq({"add", "remove"})
        /\ Len(<<>>) = 0 /\ Len(uevents) \in Nat
    BY QueueFacts
  <1>2. CASE OpenSocket
    <2>1. missed' \in BOOLEAN /\ sigPending' \in BOOLEAN
      BY <1>2 DEF OpenSocket, WorkerExits
    <2>2. /\ wpc' \in {"none", "check", "epoll"} /\ wlist' \subseteq Ports
          /\ wport' \in Ports \cup {"none"}
          /\ uevents' \in Seq({"add", "remove"}) /\ Len(uevents') <= QueueSize
      <3>1. CASE WorkerExits
        BY <1>1, <3>1, UsbAssumption DEF WorkerExits
      <3>2. CASE /\ wpc' \in {"check", "epoll"}
                 /\ UNCHANGED <<wlist, wport, sigPending, uevents, missed>>
        BY <1>1, <3>2
      <3>3. QED BY <1>2, <3>1, <3>2 DEF OpenSocket
    <2>3. QED BY <1>2, <2>1, <2>2 DEF OpenSocket
  <1>3. CASE CheckDestroy
    <2>1. missed' \in BOOLEAN /\ sigPending' \in BOOLEAN
      BY <1>3 DEF CheckDestroy, WorkerExits
    <2>2. /\ wpc' \in {"none", "enter"} /\ wlist' \subseteq Ports
          /\ wport' \in Ports \cup {"none"}
          /\ uevents' \in Seq({"add", "remove"}) /\ Len(uevents') <= QueueSize
      <3>1. CASE WorkerExits
        BY <1>1, <3>1, UsbAssumption DEF WorkerExits
      <3>2. CASE /\ wpc' \in {"enter"}
                 /\ UNCHANGED <<wlist, wport, sigPending, uevents, missed>>
        BY <1>1, <3>2
      <3>3. QED BY <1>3, <3>1, <3>2 DEF CheckDestroy
    <2>3. QED BY <1>3, <2>1, <2>2 DEF CheckDestroy
  <1>4. CASE EnterEpoll
    BY <1>4, <1>1 DEF EnterEpoll
  <1>5. CASE Receive
    BY <1>5, <1>1, QueueFacts, UsbAssumption DEF Receive
  <1>6. CASE Discard
    BY <1>6, <1>1, QueueFacts, UsbAssumption DEF Discard
  <1>7. CASE PartnerAdded
    BY <1>7, <1>1 DEF PartnerAdded, BinderSteps
  <1>8. CASE WorkerReadsStatus
    <2>1. status' \in Statuses /\ missed' \in BOOLEAN /\ wlist' \subseteq Ports
      BY <1>8, StatusFacts DEF WorkerReadsStatus, ReadStatus
    <2>2. QED BY <1>8, <1>1, <2>1 DEF WorkerReadsStatus, ReadStatus, Threads
  <1>9. CASE WorkerNotifiesStatus
    BY <1>9, <1>1 DEF WorkerNotifiesStatus, NotifyStatus, NoStatus, Statuses
  <1>10. CASE TryRoleSwitchLock
    BY <1>10, <1>1 DEF TryRoleSwitchLock, Threads
  <1>11. CASE LookAtPort
    BY <1>11, <1>1 DEF LookAtPort
  <1>12. CASE ForceDrp
    BY <1>12, <1>1, WriteFacts DEF ForceDrp
  <1>13. QED
    BY <1>2, <1>3, <1>5, <1>7, <1>8, <1>9, <1>10, <1>11, <1>12, <1>6, <1>4 DEF WorkerStep

\* Every step of the two threads, the signal and the kernel.
LEMMA StepPreserves == IInv /\ [Next]_vars => IInv'
  <1> SUFFICES ASSUME IInv, [Next]_vars PROVE IInv'
    OBVIOUS
  <1> USE DEF LockInv, CallInv, SignalInv, SwitchInv, WorkerInv, ModeSteps, SwitchSteps,
              SwitchUndisturbed, WorkerOnlyWithCallback, TypeOK, locks, binder, worker,
              query, kernel, partner
  <1>1. CASE Serve \/ BinderStep
    BY <1>1, CallsPreserve, SwitchPreserves DEF BinderStep
  <1>2. CASE WorkerStep
    BY <1>2, WorkerPreserves
  <1>3. CASE EpollFails
    <2>1. missed' \in BOOLEAN /\ sigPending' \in BOOLEAN
      BY <1>3 DEF EpollFails, WorkerExits
    <2>2. /\ wpc' = "none" /\ wpc = "epoll" /\ wlist' \subseteq Ports
          /\ wport' \in Ports \cup {"none"}
          /\ uevents' \in Seq({"add", "remove"}) /\ Len(uevents') <= QueueSize
      BY <1>3, QueueFacts, UsbAssumption DEF EpollFails, WorkerExits, IInv
    <2>3. QED BY <1>3, <2>1, <2>2 DEF EpollFails, IInv, WorkerSteps
  <1>4. CASE HandleSignal
    <2>1. sigPending' \in BOOLEAN /\ destroyThread' \in BOOLEAN
      BY <1>4 DEF HandleSignal
    <2>2. QED BY <1>4, <2>1 DEF HandleSignal, IInv, WorkerSteps
  <1>5. CASE \E p \in Ports : PartnerChanges(p)
    <2>1. PICK p \in Ports : PartnerChanges(p)
      BY <1>5
    <2>2. partners' \subseteq Ports /\ missed' \in BOOLEAN
      BY <2>1 DEF PartnerChanges, IInv
    <2>3. /\ uevents' \in Seq({"add", "remove"}) /\ Len(uevents') <= QueueSize
          /\ events' \in 0..MaxEvents
      <3>1. events' \in 0..MaxEvents
        BY <2>1, UsbAssumption DEF PartnerChanges, IInv
      <3>2. CASE UNCHANGED uevents
        BY <3>1, <3>2 DEF IInv
      <3>3. CASE /\ Len(uevents) < QueueSize
                 /\ uevents' = Append(uevents, IF p \in partners THEN "remove" ELSE "add")
        BY <3>1, <3>3, QueueFacts, UsbAssumption DEF IInv
      <3>4. QED BY <2>1, <3>2, <3>3 DEF PartnerChanges
    <2>4. QED BY <2>1, <2>2, <2>3 DEF PartnerChanges, IInv
  <1>6. CASE UNCHANGED vars
    BY <1>6 DEF vars, IInv
  <1>7. QED
    BY <1>1, <1>2, <1>4, <1>5, <1>6, <1>3 DEF Next

\* The inductive invariant holds in every state.
LEMMA Invariance == Spec => []IInv
  BY InitEstablishes, StepPreserves, PTL DEF Spec

-----------------------------------------------------------------------------

\* Every variable keeps its type.
THEOREM TypeCorrect == Spec => []TypeOK
  <1>1. IInv => TypeOK BY DEF IInv
  <1>2. QED BY <1>1, Invariance, PTL

\* switchMode does not sleep through a partner whose uevent the worker has handled since the
\* write of port_type: mPartnerLock is held over the write and given up only by the wait.
THEOREM SignalIsKept == Spec => []PartnerSignalKept
  <1>1. IInv => PartnerSignalKept BY DEF IInv, SignalInv, PartnerSignalKept
  <1>2. QED BY <1>1, Invariance, PTL

\* uevent_event leaves the ports alone from the write of a mode to its answer.
THEOREM SwitchIsUndisturbed == Spec => []SwitchUndisturbed
  <1>1. IInv => SwitchUndisturbed BY DEF IInv, SwitchInv
  <1>2. QED BY <1>1, Invariance, PTL

\* setCallback does not return while the thread of a callback that is gone still runs.
THEOREM WorkerGoesWithCallback == Spec => []WorkerOnlyWithCallback
  <1>1. IInv => WorkerOnlyWithCallback BY DEF IInv, WorkerInv
  <1>2. QED BY <1>1, Invariance, PTL

-----------------------------------------------------------------------------
(* The status that the callback has. *)

\* mLock is held from the reading of a status to its report, and while a worker is
\* stopped or created.
NotifyLockInv ==
  /\ bpc \in {"report", "kill", "join", "create"} => mLock = "binder"
  /\ wpc = "report" => mLock = "worker"

\* Something is left that makes the worker read the status again, or was lost.
Due == uevents # <<>> \/ wpc \in {"partner", "query"} \/ missed

\* A status that was read and, between reports, the one that was reported last have the
\* partners there are, or another is due; without a callback there is none.
StatusInv ==
  /\ (bpc = "report" \/ wpc = "report") /\ status.ok => status.connected = partners \/ Due
  /\ bpc # "report" /\ wpc # "report" /\ reported.ok => reported.connected = partners \/ Due
  /\ ~mCallback \/ bpc = "create" => ~reported.ok

QueryInv == NotifyLockInv /\ StatusInv

\* The binder thread's calls.
LEMMA BinderKeepsStatus ==
  ASSUME TypeOK, QueryInv, Serve \/ BinderStep
  PROVE  QueryInv'
  <1> USE DEF QueryInv, NotifyLockInv, StatusInv, Due, worker, kernel, query, locks, partner
  <1>1. CASE Serve
    BY <1>1 DEF Serve
  <1>2. CASE Answer
    BY <1>2 DEF Answer, Return
  <1>3. CASE BinderReadsStatus
    <2>1. PICK ok \in BOOLEAN : status' = [ok |-> ok, connected |-> IF ok THEN partners ELSE {}]
      BY <1>3 DEF BinderReadsStatus, ReadStatus
    <2>2. status'.ok => status'.connected = partners
      BY <2>1
    <2>3. QED BY <1>3, <2>2 DEF BinderReadsStatus, ReadStatus, BGoto
  <1>4. CASE BinderNotifiesStatus
    BY <1>4 DEF BinderNotifiesStatus, NotifyStatus, Return
  <1>5. CASE SetCallback
    <2>1. ~reported'.ok
      BY <1>5 DEF SetCallback, NoStatus
    <2>2. QED BY <1>5, <2>1 DEF SetCallback, Return
  <1>6. CASE KillWorker \/ JoinWorker \/ CreateWorker
    BY <1>6 DEF KillWorker, JoinWorker, CreateWorker, Return
  <1>7. CASE TakeRoleSwitchLock \/ SwitchOtherRole \/ OpenPortType \/ TakePartnerLock
    BY <1>7 DEF TakeRoleSwitchLock, SwitchOtherRole, OpenPortType, TakePartnerLock, BGoto
  <1>8. CASE WriteMode \/ WriteModeFails \/ StartWait \/ WaitExpires \/ WakesSpuriously
    BY <1>8 DEF WriteMode, WriteModeFails, StartWait, WaitExpires, WakesSpuriously, BGoto
  <1>9. CASE WaitWoken \/ WaitTimedOut \/ SwitchFails \/ NotifyRoleSwitch
    BY <1>9 DEF WaitWoken, WaitTimedOut, SwitchFails, NotifyRoleSwitch, BGoto, Return
  <1>10. QED
    BY <1>1, <1>2, <1>3, <1>4, <1>5, <1>6, <1>7, <1>8, <1>9 DEF BinderStep

\* The worker, its signal and the partners.
LEMMA WorkerKeepsStatus ==
  ASSUME TypeOK, QueryInv,
         WorkerStep \/ EpollFails \/ HandleSignal \/ \E p \in Ports : PartnerChanges(p)
  PROVE  QueryInv'
  <1> USE DEF QueryInv, NotifyLockInv, StatusInv, Due, binder, worker, query, locks, partner
  <1>1. CASE OpenSocket
    BY <1>1 DEF OpenSocket, WorkerExits
  <1>2. CASE CheckDestroy
    BY <1>2 DEF CheckDestroy, WorkerExits
  <1>3. CASE EpollFails
    BY <1>3 DEF EpollFails, WorkerExits
  <1>4. CASE EnterEpoll
    BY <1>4 DEF EnterEpoll, WGoto, kernel
  <1>5. CASE Discard
    BY <1>5 DEF Discard, WGoto
  <1>6. CASE Receive
    BY <1>6 DEF Receive
  <1>7. CASE PartnerAdded
    BY <1>7 DEF PartnerAdded, WGoto, kernel
  <1>8. CASE WorkerReadsStatus
    <2>1. PICK ok \in BOOLEAN : status' = [ok |-> ok, connected |-> IF ok THEN partners ELSE {}]
      BY <1>8 DEF WorkerReadsStatus, ReadStatus
    <2>2. status'.ok => status'.connected = partners
      BY <2>1
    <2>3. QED BY <1>8, <2>2 DEF WorkerReadsStatus, ReadStatus, WGoto, kernel
  <1>9. CASE WorkerNotifiesStatus
    BY <1>9 DEF WorkerNotifiesStatus, NotifyStatus, WGoto, kernel
  <1>10. CASE TryRoleSwitchLock \/ LookAtPort \/ ForceDrp
    BY <1>10 DEF TryRoleSwitchLock, LookAtPort, ForceDrp, WGoto, kernel
  <1>11. CASE HandleSignal
    BY <1>11 DEF HandleSignal, kernel
  <1>12. ASSUME NEW p \in Ports, PartnerChanges(p)
         PROVE  QueryInv'
    <2>1. CASE missed' /\ UNCHANGED uevents
      BY <1>12, <2>1 DEF PartnerChanges
    <2>2. CASE \E e \in {"add", "remove"} : uevents' = Append(uevents, e)
      <3>1. uevents' # <<>>
        BY <2>2 DEF TypeOK
      <3>2. QED BY <1>12, <3>1 DEF PartnerChanges
    <2>3. QED BY <1>12, <2>1, <2>2 DEF PartnerChanges
  <1>13. QED
    BY <1>1, <1>2, <1>6, <1>7, <1>8, <1>9, <1>10, <1>11, <1>12, <1>3, <1>4, <1>5 DEF WorkerStep

\* The callback's status is current when the worker waits, nothing was lost and no query
\* is under way, whoever queried last and whatever came in between reading and reporting.
THEOREM StatusIsCurrent == Spec => []ReportedIsCurrent
  <1>1. Init => QueryInv
    BY DEF Init, QueryInv, NotifyLockInv, StatusInv, NoStatus
  <1>2. TypeOK /\ QueryInv /\ [Next]_vars => QueryInv'
    <2> SUFFICES ASSUME TypeOK, QueryInv, [Next]_vars PROVE QueryInv'
      OBVIOUS
    <2>1. CASE UNCHANGED vars
      BY <2>1 DEF vars, QueryInv, NotifyLockInv, StatusInv, Due, binder, worker, query, locks, kernel
    <2>2. QED BY <2>1, BinderKeepsStatus, WorkerKeepsStatus DEF Next
  <1>3. QueryInv => ReportedIsCurrent
    BY DEF QueryInv, StatusInv, Due, ReportedIsCurrent
  <1>4. QED BY <1>1, <1>2, <1>3, TypeCorrect, PTL DEF Spec
=============================================================================
