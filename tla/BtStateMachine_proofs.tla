------------------------ MODULE BtStateMachine_proofs ------------------------
(***************************************************************************)
(* Proofs about BtStateMachine for every set of clients and of binder      *)
(* threads and every bound on calls.  One inductive invariant, IInv, made  *)
(* of four named parts, carries all of them.                               *)
(***************************************************************************)
EXTENDS BtStateMachine, TLAPS

\* Until HIDL_FETCH returns nothing has been asked of the HAL, and it returns only
\* after the looper thread has posted the semaphore.
BootInv ==
  /\ mpc # "serving" =>
       /\ \A t \in Threads : bpc[t] = "idle"
       /\ queue = <<>> /\ state = "Idle" /\ vendor = "null" /\ lpc # "turnOn"
       /\ lastReq = "none"
  /\ lpc \in {"down", "prepare", "post"} => mpc # "serving" /\ sem = 0
  /\ lpc \in {"post", "poll", "turnOn"} => looper
  /\ mpc = "serving" => lpc \in {"poll", "turnOn"}
  /\ mpc = "fetch" => lpc = "down"

\* Between messages the state is On exactly when there is a vendor interface; inside
\* a double on there is none and the state is still On.
LifecycleInv ==
  /\ lpc # "turnOn" => (vendor # "null" <=> state = "On")
  /\ lpc = "turnOn" => vendor = "null" /\ state = "On"
  /\ aborted # "shutdown"

\* The last request is the last one queued, or the one the state machine obeys.
RequestInv ==
  /\ queue # <<>> => lastReq = queue[Len(queue)]
  /\ queue = <<>> => (state = "On" <=> lastReq = "On")

AnswerInv ==
  /\ answers <= 1
  /\ vendor = "configuring" => answers = 0
  /\ vendor \in {"ready", "failed"} => answers = 1

IInv == TypeOK /\ BootInv /\ LifecycleInv /\ RequestInv /\ AnswerInv

-----------------------------------------------------------------------------

\* What appending and taking the first message do to a queue of requests.
LEMMA QueueFacts ==
  ASSUME NEW q \in Seq(Request)
  PROVE  /\ \A r \in Request :
              /\ Append(q, r) \in Seq(Request) /\ Append(q, r) # <<>>
              /\ Append(q, r)[Len(Append(q, r))] = r
         /\ q # <<>> =>
              /\ Tail(q) \in Seq(Request) /\ Head(q) \in Request
              /\ Tail(q) = <<>> => Head(q) = q[Len(q)]
              /\ Tail(q) # <<>> => Tail(q)[Len(Tail(q))] = q[Len(q)]
  OBVIOUS

\* Before the main thread starts nothing was asked and nothing is on.
LEMMA InitEstablishes == Init => IInv
  <1> SUFFICES ASSUME Init PROVE IInv
    OBVIOUS
  <1>1. TypeOK
    <2>1. bpc \in [Threads -> BinderStep] /\ arg \in [Threads -> Clients \cup {None}]
      BY DEF Init, BinderStep
    <2>2. links \in [Clients -> Nat] /\ obits \in [Clients -> Nat]
      BY DEF Init
    <2>3. queue \in Seq(Request) /\ calls \in 0..MaxCalls
      BY ClientAssumption DEF Init
    <2>4. QED BY <2>1, <2>2, <2>3 DEF Init, TypeOK
  <1>2. BootInv /\ LifecycleInv /\ RequestInv /\ AnswerInv
    BY DEF Init, BootInv, LifecycleInv, RequestInv, AnswerInv
  <1>3. QED BY <1>1, <1>2 DEF IInv

\* The steps of the looper thread, message by message.
LEMMA LooperPreserves == IInv /\ Looper => IInv'
  <1> SUFFICES ASSUME IInv, Looper PROVE IInv'
    OBVIOUS
  <1> USE DEF IInv, TypeOK, BootInv, LifecycleInv, RequestInv, AnswerInv,
              start, binder, machine
  <1>1. queue \in Seq(Request) BY DEF Request
  <1>2. CASE HandleOnWhenDown
    BY <1>2, <1>1, QueueFacts DEF HandleOnWhenDown, Dequeue, TurnOn, Request
  <1>3. CASE HandleDoubleOn
    <2>1. /\ queue # <<>> /\ Tail(queue) \in Seq(Request)
          /\ Tail(queue) = <<>> => queue[Len(queue)] = "On"
          /\ Tail(queue) # <<>> => Tail(queue)[Len(Tail(queue))] = queue[Len(queue)]
      BY <1>3, <1>1, QueueFacts DEF HandleDoubleOn, Dequeue
    <2>2. QED BY <1>3, <2>1 DEF HandleDoubleOn, Dequeue, Shutdown, Request
  <1>4. CASE RestartAfterDoubleOn
    BY <1>4 DEF RestartAfterDoubleOn, TurnOn
  <1>5. CASE HandleOff
    BY <1>5, <1>1, QueueFacts DEF HandleOff, Dequeue, Shutdown, Request
  <1>6. CASE IgnoreOff
    BY <1>6, <1>1, QueueFacts DEF IgnoreOff, Dequeue, Request
  <1>7. QED
    BY <1>2, <1>3, <1>4, <1>5, <1>6 DEF Looper

\* The steps of one binder thread.
LEMMA BinderPreserves ==
  ASSUME IInv, NEW t \in Threads,
         \/ Proceed(t) \/ CallClose(t)
         \/ \E c \in Clients : CallInitialize(t, c)
  PROVE  IInv'
  <1> USE DEF IInv, TypeOK, BootInv, LifecycleInv, RequestInv, AnswerInv,
              start, machine, Step, BinderStep
  <1>1. queue \in Seq(Request) OBVIOUS
  <1>2. CASE LinkToDeath(t)
    <2>1. links' \in [Clients -> Nat]
      BY <1>2 DEF LinkToDeath
    <2>2. bpc' \in [Threads -> BinderStep] /\ unlinkTo' \in Clients \cup {None}
      BY <1>2 DEF LinkToDeath
    <2>3. TypeOK'
      BY <1>2, <2>1, <2>2 DEF LinkToDeath
    <2>4. (BootInv /\ LifecycleInv /\ RequestInv /\ AnswerInv)'
      BY <1>2 DEF LinkToDeath
    <2>5. QED BY <2>3, <2>4
  <1>3. CASE InitHciCallbacks(t)
    <2>1. bpc' \in [Threads -> BinderStep] /\ arg' \in [Threads -> Clients \cup {None}]
      BY <1>3 DEF InitHciCallbacks
    <2>2. cb' \in Clients \cup {None} /\ waiting' \subseteq Clients \cup {None}
      BY <1>3 DEF InitHciCallbacks
    <2>3. QED BY <1>3, <2>1, <2>2 DEF InitHciCallbacks
  <1>4. CASE Unlink(t)
    <2>1. links' \in [Clients -> Nat]
      <3>1. CASE links' = links
        BY <3>1
      <3>2. CASE links' # links
        <4>1. /\ links' = [links EXCEPT ![unlinkTo] = links[unlinkTo] - 1]
              /\ links[unlinkTo] # 0
          BY <1>4, <3>2 DEF Unlink
        <4>2. CASE unlinkTo \in Clients
          <5>1. links[unlinkTo] - 1 \in Nat BY <4>1, <4>2
          <5>2. QED BY <4>1, <5>1
        <4>3. CASE unlinkTo \notin Clients
          BY <4>1, <4>3
        <4>4. QED BY <4>2, <4>3
      <3>3. QED BY <3>1, <3>2
    <2>2. bpc' \in [Threads -> BinderStep]
      BY <1>4 DEF Unlink
    <2>3. QED BY <1>4, <2>1, <2>2 DEF Unlink
  <1>5. CASE Transit(t)
    <2>1. PICK r \in Request :
            /\ bpc[t] \in {"transitOn", "transitOff"}
            /\ bpc' = [bpc EXCEPT ![t] = "idle"]
            /\ queue' = Append(queue, r) /\ lastReq' = r
            /\ UNCHANGED <<start, lpc, machine, cb, arg, hasDied, unlinkTo, links,
                           obits, alive, calls, waiting>>
      BY <1>5 DEF Transit, Request
    <2>2. mpc = "serving" BY <2>1
    <2>3. QED BY <2>1, <2>2, <1>1, QueueFacts DEF Request
  <1>6. CASE \E c \in Clients : ServiceDied(t, c)
    BY <1>6 DEF ServiceDied
  <1>7. CASE CallClose(t)
    BY <1>7, ClientAssumption DEF CallClose
  <1>8. CASE \E c \in Clients : CallInitialize(t, c)
    BY <1>8, ClientAssumption DEF CallInitialize
  <1>9. QED
    BY <1>2, <1>3, <1>4, <1>5, <1>6, <1>7, <1>8 DEF Proceed

\* The handshake of StartThread and RunLooper, and the registration of the service.
LEMMA StartUpPreserves == IInv /\ StartUp => IInv'
  <1> SUFFICES ASSUME IInv, StartUp PROVE IInv'
    OBVIOUS
  <1> USE DEF IInv, TypeOK, BootInv, LifecycleInv, RequestInv, AnswerInv,
              start, binder, machine
  <1>1. CASE StartLooper   BY <1>1 DEF StartLooper
  <1>2. CASE PrepareLooper BY <1>2 DEF PrepareLooper
  <1>3. CASE PostSemaphore BY <1>3 DEF PostSemaphore
  <1>4. CASE Serve         BY <1>4 DEF Serve
  <1>5. QED BY <1>1, <1>2, <1>3, <1>4 DEF StartUp

\* Every step of every thread.
LEMMA StepPreserves == IInv /\ [Next]_vars => IInv'
  <1> SUFFICES ASSUME IInv, [Next]_vars PROVE IInv'
    OBVIOUS
  <1>1. CASE StartUp BY <1>1, StartUpPreserves
  <1>2. CASE Looper BY <1>2, LooperPreserves
  <1>3. CASE FirmwareConfigured
    BY <1>3 DEF FirmwareConfigured, Answer, IInv, TypeOK, BootInv, LifecycleInv,
                RequestInv, AnswerInv, start, binder, machine
  <1>4. CASE \E t \in Threads : \/ Proceed(t) \/ CallClose(t)
                                \/ \E c \in Clients : CallInitialize(t, c)
    BY <1>4, BinderPreserves
  <1>5. CASE \E c \in Clients : ClientDies(c)
    BY <1>5 DEF ClientDies, IInv, TypeOK, BootInv, LifecycleInv, RequestInv,
                AnswerInv, start, machine
  <1>6. CASE UNCHANGED vars
    BY <1>6 DEF vars, IInv, TypeOK, BootInv, LifecycleInv, RequestInv, AnswerInv,
                start, binder, machine, Request, BinderStep
  <1>7. QED
    BY <1>1, <1>2, <1>3, <1>4, <1>5, <1>6 DEF Next

\* The inductive invariant holds in every state.
LEMMA Invariance == Spec => []IInv
  BY InitEstablishes, StepPreserves, PTL DEF Spec

-----------------------------------------------------------------------------

\* Every variable keeps its type.
THEOREM TypeCorrect == Spec => []TypeOK
  <1>1. IInv => TypeOK BY DEF IInv
  <1>2. QED BY <1>1, Invariance, PTL

\* VendorInterface::Shutdown never aborts for want of an interface.
THEOREM LifecycleSafe == Spec => []ShutdownFindsInterface
  <1>1. IInv => ShutdownFindsInterface
    BY DEF IInv, LifecycleInv, ShutdownFindsInterface
  <1>2. QED BY <1>1, Invariance, PTL

\* With nothing left to handle, power is what the last request asked for.
THEOREM PowerIsLastRequest == Spec => []PowerFollowsLastRequest
  <1>1. IInv => PowerFollowsLastRequest
    BY DEF IInv, LifecycleInv, RequestInv, PowerFollowsLastRequest
  <1>2. QED BY <1>1, Invariance, PTL

\* No message is sent through a null looper_.
THEOREM LooperSafe == Spec => []LooperReadyForMessages
  <1>1. IInv => LooperReadyForMessages
    BY DEF IInv, TypeOK, BootInv, LooperReadyForMessages
  <1>2. QED BY <1>1, Invariance, PTL

\* A session is answered once.
THEOREM AnsweredOnce == Spec => []OneAnswerPerSession
  <1>1. IInv => OneAnswerPerSession
    BY DEF IInv, AnswerInv, OneAnswerPerSession
  <1>2. QED BY <1>1, Invariance, PTL

-----------------------------------------------------------------------------

\* Each step of the HAL is a request made, a request taking effect, or no step of
\* the power switch; a double on takes effect when its first half does.
LEMMA StepRefines == IInv /\ [Next]_vars => [Power!PowerNext]_(Power!pvars)
  <1> SUFFICES ASSUME IInv, [Next]_vars PROVE [Power!PowerNext]_(Power!pvars)
    OBVIOUS
  <1> USE DEF Power!PowerNext, Power!pvars
  <1>1. CASE Looper
    <2> USE DEF Dequeue, start, binder, machine, IInv, LifecycleInv
    <2>1. CASE HandleOnWhenDown
      BY <2>1 DEF HandleOnWhenDown, TurnOn, Power!TakeEffect
    <2>2. CASE HandleDoubleOn
      BY <2>2 DEF HandleDoubleOn, Shutdown, Power!TakeEffect
    <2>3. CASE RestartAfterDoubleOn
      BY <2>3 DEF RestartAfterDoubleOn, TurnOn
    <2>4. CASE HandleOff
      BY <2>4 DEF HandleOff, Shutdown, Power!TakeEffect
    <2>5. CASE IgnoreOff
      BY <2>5 DEF IgnoreOff, Power!TakeEffect
    <2>6. QED BY <1>1, <2>1, <2>2, <2>3, <2>4, <2>5 DEF Looper
  <1>2. CASE \E t \in Threads : Transit(t)
    BY <1>2 DEF Transit, Power!Ask, machine
  <1>3. CASE StartUp
    BY <1>3 DEF StartUp, StartLooper, PrepareLooper, PostSemaphore, Serve, machine,
                IInv, BootInv
  <1>4. CASE FirmwareConfigured
    BY <1>4 DEF FirmwareConfigured
  <1>5. CASE \/ \E t \in Threads : LinkToDeath(t) \/ InitHciCallbacks(t) \/ Unlink(t)
             \/ \E t \in Threads : CallClose(t)
             \/ \E t \in Threads, c \in Clients : ServiceDied(t, c) \/ CallInitialize(t, c)
             \/ \E c \in Clients : ClientDies(c)
    BY <1>5 DEF LinkToDeath, InitHciCallbacks, Unlink, CallClose, ServiceDied,
                CallInitialize, ClientDies, machine
  <1>6. CASE UNCHANGED vars
    BY <1>6 DEF vars, machine
  <1>7. QED
    BY <1>1, <1>2, <1>3, <1>4, <1>5, <1>6 DEF Next, Proceed

\* The state machine implements the power switch: power follows the requests in
\* the order in which they were made (handleMessage over a FIFO looper).
THEOREM Refinement == Spec => ImplementsPowerSwitch
  <1>1. Init => Power!PowerInit
    BY DEF Init, Power!PowerInit
  <1>2. QED
    BY <1>1, Invariance, StepRefines, PTL DEF Spec, Power!PowerSpec, ImplementsPowerSwitch
=============================================================================
