--------------------------- MODULE BtLowPower_proofs ---------------------------
(***************************************************************************)
(* Proofs about BtLowPower for any set of senders and any pipe that holds  *)
(* a byte: what the watcher thread may count on although no lock orders    *)
(* the changes of its timer, the notification of them and its select().    *)
(***************************************************************************)
EXTENDS BtLowPower, TLAPS

\* Whoever sets the callback that must not run turns the timer off in the same locked
\* section, and the watcher looks at both in one.
TimerInv ==
  /\ timeoutCb = "zero" => ~armed
  /\ ZeroTimeoutNeverFires

\* The firmware callback does not run before Open() has asked for the download.
FirmwareInv == opc \in {"watchEvent", "watchAcl", "fwCfg"} => fpc = "none"

IInv == TypeOK /\ ChangesReachSelect /\ TimerInv /\ FirmwareInv

\* Before Open() there is no watcher and the timer is off.
LEMMA InitEstablishes == Init => IInv
  <1> SUFFICES ASSUME Init PROVE IInv
    OBVIOUS
  <1>1. TypeOK
    <2>1. spc \in [Senders -> {"idle", "check", "arm", "notify", "unflag", "assert", "write"}]
      BY DEF Init
    <2>2. pipe \in 0..PipeSize
      BY PipeAssumption DEF Init
    <2>3. QED BY <2>1, <2>2 DEF Init, TypeOK
  <1>2. ChangesReachSelect /\ TimerInv /\ FirmwareInv
    BY DEF Init, ChangesReachSelect, TimerInv, ZeroTimeoutNeverFires, FirmwareInv
  <1>3. QED BY <1>1, <1>2 DEF IInv

\* A notification leaves a byte in the pipe, whether or not there was room for its own.
LEMMA Notified ==
  ASSUME TypeOK, NotifyThread
  PROVE  pipe' \in 0..PipeSize /\ pipe' > 0
  BY PipeAssumption DEF TypeOK, NotifyThread

-----------------------------------------------------------------------------

\* The watcher: ThreadRoutine and the OnTimeout it calls.
LEMMA WatcherPreserves ==
  ASSUME IInv, Watcher
  PROVE  IInv'
  <1> USE DEF IInv, TypeOK, ChangesReachSelect, Notifying, TimerInv,
              ZeroTimeoutNeverFires, FirmwareInv, timer, lpm, threads, WGoto
  <1>1. CASE WatcherLoop
    BY <1>1 DEF WatcherLoop, AtTop
  <1>2. CASE WatcherNotified
    BY <1>2, PipeAssumption DEF WatcherNotified
  <1>3. CASE WatcherReads
    BY <1>3 DEF WatcherReads
  <1>4. CASE WatcherExpires
    BY <1>4 DEF WatcherExpires
  <1>5. CASE WatcherTakesCallback
    BY <1>5 DEF WatcherTakesCallback
  <1>6. CASE TimeoutCallback
    <2> UNCHANGED <<running, watched, selArmed, selFds, lpmMs, threads, readable>>
      BY <1>6 DEF TimeoutCallback
    <2>1. CASE wpc = "check"
      BY <1>6, <2>1 DEF TimeoutCallback, OnTimeout
    <2>2. CASE wpc = "flag"
      BY <1>6, <2>2 DEF TimeoutCallback, OnTimeout
    <2>3. CASE wpc = "deassert"
      BY <1>6, <2>3 DEF TimeoutCallback, OnTimeout
    <2>4. CASE wpc = "disarm"
      <3>1. armed' \in BOOLEAN /\ ~armed' /\ timeoutCb' = "zero"
        BY <1>6, <2>4 DEF TimeoutCallback, OnTimeout, SetTimeout
      <3>2. QED BY <1>6, <2>4, <3>1 DEF TimeoutCallback, OnTimeout
    <2>5. CASE wpc = "notify"
      <3>1. pipe' \in 0..PipeSize /\ pipe' > 0
        BY <1>6, <2>5, Notified DEF TimeoutCallback, OnTimeout
      <3>2. QED BY <1>6, <2>5, <3>1 DEF TimeoutCallback, OnTimeout
    <2>6. CASE wpc = "clear"
      <3>1. recent' \in BOOLEAN
        BY <1>6, <2>6 DEF TimeoutCallback, OnTimeout
      <3>2. QED BY <1>6, <2>6, <3>1 DEF TimeoutCallback, OnTimeout
    <2>7. QED
      BY <1>6, <2>1, <2>2, <2>3, <2>4, <2>5, <2>6 DEF TimeoutCallback, OnTimeout
  <1>7. QED
    BY <1>1, <1>2, <1>3, <1>4, <1>5, <1>6 DEF Watcher

\* A sender, step by step: the change of the timer leaves it about to notify.
LEMMA SenderPreserves ==
  ASSUME IInv, NEW s \in Senders, StartSend(s) \/ SendStep(s)
  PROVE  IInv'
  <1> USE DEF IInv, TypeOK, ChangesReachSelect, Notifying, TimerInv,
              ZeroTimeoutNeverFires, FirmwareInv, timer, watcher, lpm, SGoto
  <1>1. CASE StartSend(s)
    BY <1>1 DEF StartSend
  <1>2. CASE SendStep(s)
    <2> UNCHANGED <<running, watched, watcher, recent, lpmMs, fpc, opc, readable>>
      BY <1>2 DEF SendStep
    <2>1. CASE spc[s] = "check"
      BY <1>2, <2>1 DEF SendStep, Send
    <2>2. CASE spc[s] = "arm"
      BY <1>2, <2>2 DEF SendStep, Send, SetTimeout
    <2>3. CASE spc[s] = "notify"
      <3>1. pipe' \in 0..PipeSize /\ pipe' > 0
        BY <1>2, <2>3, Notified DEF SendStep, Send
      <3>2. QED BY <1>2, <2>3, <3>1 DEF SendStep, Send
    <2>4. CASE spc[s] = "unflag"
      <3>1. deasserted' \in BOOLEAN
        BY <1>2, <2>4 DEF SendStep, Send
      <3>2. QED BY <1>2, <2>4, <3>1 DEF SendStep, Send
    <2>5. CASE spc[s] \in {"assert", "write"}
      BY <1>2, <2>5 DEF SendStep, Send
    <2>6. QED
      BY <1>2, <2>1, <2>2, <2>3, <2>4, <2>5 DEF SendStep, Send
  <1>3. QED BY <1>1, <1>2

\* The firmware callback, and Open() and Close() of the session.
LEMMA SessionPreserves ==
  ASSUME IInv, FirmwareConfigured \/ Open \/ Close
  PROVE  IInv'
  <1> USE DEF IInv, TypeOK, ChangesReachSelect, Notifying, TimerInv,
              ZeroTimeoutNeverFires, FirmwareInv, timer, watcher, lpm
  <1>1. CASE FirmwareConfigured
    <2>1. CASE fpc = "configure"
      BY <1>1, <2>1 DEF FirmwareConfigured, FGoto
    <2>2. CASE fpc = "arm"
      BY <1>1, <2>2 DEF FirmwareConfigured, FGoto, SetTimeout
    <2>3. CASE fpc = "notify"
      <3>1. pipe' \in 0..PipeSize /\ pipe' > 0
        BY <1>1, <2>3, Notified DEF FirmwareConfigured, FGoto
      <3>2. QED BY <1>1, <2>3, <3>1 DEF FirmwareConfigured, FGoto
    <2>4. QED BY <1>1, <2>1, <2>2, <2>3 DEF FirmwareConfigured, FGoto
  <1>2. CASE Open
    <2>1. CASE opc = "watchEvent"
      BY <1>2, <2>1 DEF Open, OGoto, Fds
    <2>2. CASE opc = "watchAcl"
      BY <1>2, <2>2 DEF Open, OGoto
    <2>3. CASE opc = "fwCfg"
      BY <1>2, <2>3 DEF Open, OGoto
    <2>4. QED BY <1>2, <2>1, <2>2, <2>3 DEF Open, OGoto
  <1>3. CASE Close
    <2>1. CASE opc = "open"
      BY <1>3, <2>1 DEF Close, OGoto
    <2>2. CASE opc = "stop"
      <3>1. /\ running' \in BOOLEAN /\ opc' = "notify"
            /\ UNCHANGED <<watched, timer, pipe, watcher, lpm, lpmMs, spc, fpc, readable>>
        BY <1>3, <2>2 DEF Close, OGoto
      <3>2. QED BY <2>2, <3>1
    <2>3. CASE opc = "notify"
      <3>1. pipe' \in 0..PipeSize /\ pipe' > 0
        BY <1>3, <2>3, Notified DEF Close, OGoto
      <3>2. QED BY <1>3, <2>3, <3>1 DEF Close, OGoto
    <2>4. CASE opc \in {"join", "clear"}
      BY <1>3, <2>4 DEF Close, OGoto
    <2>5. QED BY <1>3, <2>1, <2>2, <2>3, <2>4 DEF Close, OGoto
  <1>4. QED BY <1>1, <1>2, <1>3

\* Every step of every thread.
LEMMA StepPreserves == IInv /\ [Next]_vars => IInv'
  <1> SUFFICES ASSUME IInv, [Next]_vars PROVE IInv'
    OBVIOUS
  <1>1. CASE Watcher
    BY <1>1, WatcherPreserves
  <1>2. CASE FirmwareConfigured \/ Open \/ Close
    BY <1>2, SessionPreserves
  <1>3. CASE \E s \in Senders : StartSend(s) \/ SendStep(s)
    BY <1>3, SenderPreserves
  <1>4. CASE \E fd \in Fds : Arrives(fd)
    BY <1>4 DEF Arrives, IInv, TypeOK, ChangesReachSelect, Notifying, TimerInv,
                ZeroTimeoutNeverFires, FirmwareInv, timer, watcher, lpm, threads
  <1>5. CASE UNCHANGED vars
    BY <1>5 DEF vars, IInv, TypeOK, ChangesReachSelect, Notifying, TimerInv,
                ZeroTimeoutNeverFires, FirmwareInv, timer, watcher, lpm, threads
  <1>6. QED BY <1>1, <1>2, <1>3, <1>4, <1>5 DEF Next

\* The inductive invariant holds in every state.
LEMMA Invariance == Spec => []IInv
  BY InitEstablishes, StepPreserves, PTL DEF Spec

-----------------------------------------------------------------------------

\* Every variable keeps its type.
THEOREM TypeCorrect == Spec => []TypeOK
  <1>1. IInv => TypeOK BY DEF IInv
  <1>2. QED BY <1>1, Invariance, PTL

\* ConfigureTimeout and stopThread reach a watcher that sleeps on what was before.
THEOREM ChangesAreSeen == Spec => []ChangesReachSelect
  <1>1. IInv => ChangesReachSelect BY DEF IInv
  <1>2. QED BY <1>1, Invariance, PTL

\* "Zero timeout! Should never happen." never happens.
THEOREM NoZeroTimeout == Spec => []ZeroTimeoutNeverFires
  <1>1. IInv => ZeroTimeoutNeverFires BY DEF IInv, TimerInv
  <1>2. QED BY <1>1, Invariance, PTL
=============================================================================
