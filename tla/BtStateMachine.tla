---------------------------- MODULE BtStateMachine ----------------------------
(***************************************************************************)
(* The Bluetooth HAL service in its state-machine build                    *)
(* (MTK_BT_HAL_STATE_MACHINE): binder threads run initialize(), close()    *)
(* and death notifications (bluetooth_hci.cc) and enqueue kOnMsg/kOffMsg;  *)
(* one looper thread (hci_hal_msg_handler.cc) hands them to the state      *)
(* machine (hci_hal_state_machine.cc), which creates and shuts down the    *)
(* VendorInterface (vendor_interface.cc); the vendor library reports the   *)
(* end of the firmware download on a thread of its own.                    *)
(***************************************************************************)
EXTENDS Naturals, Sequences

CONSTANTS Clients,      \* processes that call the HAL
          Threads,      \* binder threads of the service (kMaxThreads)
          None,         \* no client: a null sp<> or an empty std::function
          MaxCalls      \* bound of the model on initialize() and close() calls

ASSUME ClientAssumption == None \notin Clients /\ MaxCalls \in Nat

VARIABLES
  mpc,        \* the main thread, in HIDL_FETCH: "fetch", "semwait", "serving"
  running,    \* BtHalMessageLooper::running_
  looper,     \* looper_ is not null
  sem,        \* the semaphore of StartThread
  lpc,        \* the looper thread: "down", "prepare", "post", "poll", "turnOn"
  queue,      \* messages sent to the looper and not handled
  state,      \* StateMessageHanlder::current_state_
  cb,         \* MtkStateController::cb_
  vendor,     \* g_vendor_interface: "null", "configuring" (initialize_complete_cb_
              \* is set), "ready" (it has been called), "failed" (Open() returned false)
  aborted,    \* the LOG_ALWAYS_FATAL that ended the process, or "no"
  bpc,        \* per binder thread, the next step of the call it runs
  arg,        \* per binder thread, the client it runs initialize() for
  hasDied,    \* BluetoothDeathRecipient::has_died_
  unlinkTo,   \* the client captured by unlink_cb_
  links,      \* per client, registrations of the death recipient
  obits,      \* per client, serviceDied() calls still to be made
  alive,      \* clients that have not died
  calls,      \* initialize() and close() calls so far, at most MaxCalls
  lastReq,    \* history: the last message enqueued, "none" at first
  answers,    \* history: initializationComplete() calls since the last TurnOn()
  waiting     \* history: clients whose initialize() has not been answered

binder == <<bpc, arg, hasDied, unlinkTo, links, obits, alive, calls>>
start  == <<mpc, running, looper, sem>>
machine == <<state, vendor, aborted, answers>>
vars == <<start, lpc, queue, machine, cb, binder, lastReq, waiting>>

Request == {"On", "Off"}
BinderStep == {"idle", "link", "callbacks", "unlink", "transitOn", "transitOff"}

TypeOK ==
  /\ mpc \in {"fetch", "semwait", "serving"}
  /\ running \in BOOLEAN /\ looper \in BOOLEAN /\ sem \in {0, 1}
  /\ lpc \in {"down", "prepare", "post", "poll", "turnOn"}
  /\ queue \in Seq(Request)
  /\ state \in {"Idle", "On", "Off"}
  /\ cb \in Clients \cup {None}
  /\ vendor \in {"null", "configuring", "ready", "failed"}
  /\ aborted \in {"no", "firmware", "shutdown"}
  /\ bpc \in [Threads -> BinderStep]
  /\ arg \in [Threads -> Clients \cup {None}]
  /\ hasDied \in BOOLEAN
  /\ unlinkTo \in Clients \cup {None}
  /\ links \in [Clients -> Nat] /\ obits \in [Clients -> Nat]
  /\ alive \subseteq Clients
  /\ calls \in 0..MaxCalls
  /\ lastReq \in Request \cup {"none"}
  /\ answers \in Nat
  /\ waiting \subseteq Clients \cup {None}

Init ==
  /\ mpc = "fetch" /\ running = FALSE /\ looper = FALSE /\ sem = 0
  /\ lpc = "down" /\ queue = <<>> /\ state = "Idle" /\ cb = None
  /\ vendor = "null" /\ aborted = "no"
  /\ bpc = [t \in Threads |-> "idle"] /\ arg = [t \in Threads |-> None]
  /\ hasDied = FALSE /\ unlinkTo = None
  /\ links = [c \in Clients |-> 0] /\ obits = [c \in Clients |-> 0]
  /\ alive = Clients /\ calls = 0
  /\ lastReq = "none" /\ answers = 0 /\ waiting = {}

-----------------------------------------------------------------------------
(* Starting the looper thread, before the service is registered. *)

\* StateMachine::Start() from HIDL_FETCH: the thread is created, then sem_wait.
\* Every later Start() finds running_ set and returns at once.
StartLooper ==
  /\ mpc = "fetch" /\ ~running
  /\ running' = TRUE /\ lpc' = "prepare" /\ mpc' = "semwait"
  /\ UNCHANGED <<looper, sem, queue, machine, cb, binder, lastReq, waiting>>

PrepareLooper ==
  /\ lpc = "prepare"
  /\ looper' = TRUE /\ lpc' = "post"
  /\ UNCHANGED <<mpc, running, sem, queue, machine, cb, binder, lastReq, waiting>>

PostSemaphore ==
  /\ lpc = "post"
  /\ sem' = sem + 1 /\ lpc' = "poll"
  /\ UNCHANGED <<mpc, running, looper, queue, machine, cb, binder, lastReq, waiting>>

\* Variant: StartThread without sem_wait.
MutServe ==
  /\ mpc = "semwait" /\ mpc' = "serving"
  /\ UNCHANGED <<running, looper, sem, lpc, queue, machine, cb, binder, lastReq, waiting>>

Serve ==
  /\ mpc = "semwait" /\ sem > 0
  /\ sem' = sem - 1 /\ mpc' = "serving"
  /\ UNCHANGED <<running, looper, lpc, queue, machine, cb, binder, lastReq, waiting>>

-----------------------------------------------------------------------------
(* Binder threads.  A call is a sequence of steps that other threads may     *)
(* interleave with; each step ends by naming the next one.                   *)

Step(t, from, to) == bpc[t] = from /\ bpc' = [bpc EXCEPT ![t] = to]

CallInitialize(t, c) ==
  /\ mpc = "serving" /\ c \in alive /\ calls < MaxCalls
  /\ Step(t, "idle", "link")
  /\ arg' = [arg EXCEPT ![t] = c] /\ calls' = calls + 1
  /\ UNCHANGED <<start, lpc, queue, machine, cb, hasDied, unlinkTo, links, obits,
                 alive, lastReq, waiting>>

\* setHasDied(false); linkToDeath(), which fails for a dead client and whose
\* result is ignored; unlink_cb_ now names the new client.
LinkToDeath(t) ==
  /\ Step(t, "link", "callbacks")
  /\ hasDied' = FALSE /\ unlinkTo' = arg[t]
  /\ links' = IF arg[t] \in alive THEN [links EXCEPT ![arg[t]] = @ + 1] ELSE links
  /\ UNCHANGED <<start, lpc, queue, machine, cb, arg, obits, alive, calls,
                 lastReq, waiting>>

\* StateMachine::InitHciCallbacks writes cb_ at once, on the binder thread.
InitHciCallbacks(t) ==
  /\ Step(t, "callbacks", "transitOn")
  /\ cb' = arg[t] /\ waiting' = waiting \cup {arg[t]}
  /\ arg' = [arg EXCEPT ![t] = None]
  /\ UNCHANGED <<start, lpc, queue, machine, hasDied, unlinkTo, links, obits,
                 alive, calls, lastReq>>

\* close() on an HAL that was initialized: before that unlink_cb_ is empty and
\* calling it ends the process, so a client that follows the interface does not.
CallClose(t) ==
  /\ mpc = "serving" /\ alive # {} /\ unlinkTo # None /\ calls < MaxCalls
  /\ Step(t, "idle", "unlink") /\ calls' = calls + 1
  /\ UNCHANGED <<start, lpc, queue, machine, cb, arg, hasDied, unlinkTo, links,
                 obits, alive, lastReq, waiting>>

\* Variant: serviceDied() that only unlinks and does not ask to turn off.
MutServiceDied(t, c) ==
  /\ mpc = "serving" /\ obits[c] > 0 /\ bpc[t] = "idle"
  /\ hasDied' = TRUE /\ obits' = [obits EXCEPT ![c] = @ - 1]
  /\ UNCHANGED <<start, lpc, queue, machine, cb, bpc, arg, unlinkTo, links, alive,
                 calls, lastReq, waiting>>

\* BluetoothDeathRecipient::serviceDied, up to UnlinkDeathReception().
ServiceDied(t, c) ==
  /\ mpc = "serving" /\ obits[c] > 0
  /\ Step(t, "idle", "unlink")
  /\ hasDied' = TRUE /\ obits' = [obits EXCEPT ![c] = @ - 1]
  /\ UNCHANGED <<start, lpc, queue, machine, cb, arg, unlinkTo, links, alive,
                 calls, lastReq, waiting>>

\* unlink_cb_(death_recipient_), shared by close() and serviceDied().
Unlink(t) ==
  /\ Step(t, "unlink", "transitOff")
  /\ links' = IF hasDied \/ links[unlinkTo] = 0 THEN links
              ELSE [links EXCEPT ![unlinkTo] = @ - 1]
  /\ UNCHANGED <<start, lpc, queue, machine, cb, arg, hasDied, unlinkTo, obits,
                 alive, calls, lastReq, waiting>>

\* Variant: the new message overtakes those already queued.
MutTransit(t) ==
  \E r \in Request :
    /\ Step(t, IF r = "On" THEN "transitOn" ELSE "transitOff", "idle")
    /\ queue' = <<r>> \o queue /\ lastReq' = r
    /\ UNCHANGED <<start, lpc, machine, cb, arg, hasDied, unlinkTo, links, obits,
                   alive, calls, waiting>>

\* StateMachine::Transit -> EnqueueMessage -> looper_->sendMessage.
Transit(t) ==
  \E r \in Request :
    /\ Step(t, IF r = "On" THEN "transitOn" ELSE "transitOff", "idle")
    /\ queue' = Append(queue, r) /\ lastReq' = r
    /\ UNCHANGED <<start, lpc, machine, cb, arg, hasDied, unlinkTo, links, obits,
                   alive, calls, waiting>>

\* A client process dies; each registration owes one notification.
ClientDies(c) ==
  /\ c \in alive /\ alive' = alive \ {c}
  /\ obits' = [obits EXCEPT ![c] = links[c]] /\ links' = [links EXCEPT ![c] = 0]
  /\ UNCHANGED <<start, lpc, queue, machine, cb, bpc, arg, hasDied, unlinkTo,
                 calls, lastReq, waiting>>

-----------------------------------------------------------------------------
(* The looper thread and the vendor library. *)

\* initializationComplete() goes to whatever cb_ is when it is called.
Answer == answers' = answers + 1 /\ waiting' = waiting \ {cb}

\* VendorInterface::Shutdown(), fatal without an interface.
Shutdown ==
  IF vendor = "null" THEN aborted' = "shutdown" /\ UNCHANGED vendor
  ELSE vendor' = "null" /\ UNCHANGED aborted

\* Variant: a failed Open() is not reported to the client.
MutTurnOn ==
  /\ vendor = "null" /\ vendor' \in {"configuring", "failed"} /\ answers' = 0
  /\ UNCHANGED <<aborted, waiting>>

\* MtkStateController::TurnOn() with VendorInterface::Initialize(): refused with
\* an interface left from before, and otherwise Open() succeeds or fails.
TurnOn ==
  \/ /\ vendor # "null" /\ answers' = answers + 1
     /\ waiting' = waiting \ {cb} /\ UNCHANGED <<vendor, aborted>>
  \/ /\ vendor = "null" /\ vendor' = "configuring" /\ answers' = 0
     /\ UNCHANGED <<aborted, waiting>>
  \/ /\ vendor = "null" /\ vendor' = "failed" /\ answers' = 1
     /\ waiting' = waiting \ {cb} /\ UNCHANGED aborted

Dequeue(r) ==
  /\ lpc = "poll" /\ queue # <<>> /\ Head(queue) = r
  /\ queue' = Tail(queue)
  /\ UNCHANGED <<start, cb, binder, lastReq>>

\* IdleState and OffState handle kOnMsg by turning on.
HandleOnWhenDown ==
  /\ Dequeue("On") /\ state \in {"Idle", "Off"}
  /\ TurnOn /\ state' = "On" /\ UNCHANGED lpc

\* Variant: the second kOnMsg only turns off.
MutHandleDoubleOn ==
  /\ Dequeue("On") /\ state = "On"
  /\ Shutdown /\ UNCHANGED <<lpc, state, answers, waiting>>

\* OnState handles a second kOnMsg with Off() and then On().
HandleDoubleOn ==
  /\ Dequeue("On") /\ state = "On"
  /\ Shutdown /\ lpc' = "turnOn" /\ UNCHANGED <<state, answers, waiting>>

RestartAfterDoubleOn ==
  /\ lpc = "turnOn"
  /\ TurnOn /\ lpc' = "poll"
  /\ UNCHANGED <<start, queue, state, cb, binder, lastReq>>

\* Variant: OffState and IdleState handle kOffMsg too.
MutHandleOff ==
  /\ Dequeue("Off")
  /\ Shutdown /\ state' = "Off" /\ UNCHANGED <<lpc, answers, waiting>>

HandleOff ==
  /\ Dequeue("Off") /\ state = "On"
  /\ Shutdown /\ state' = "Off" /\ UNCHANGED <<lpc, answers, waiting>>

\* IdleState and OffState ignore kOffMsg.
IgnoreOff ==
  /\ Dequeue("Off") /\ state # "On"
  /\ UNCHANGED <<machine, lpc, waiting>>

\* Variant: initialize_complete_cb_ is not cleared.
MutFirmwareConfigured ==
  /\ vendor = "configuring" /\ Answer
  /\ UNCHANGED <<start, lpc, queue, state, vendor, aborted, cb, binder, lastReq>>

\* firmware_config_cb -> OnFirmwareConfigured: a failed download is fatal, and
\* initialize_complete_cb_ is called once and then cleared.
FirmwareConfigured ==
  /\ vendor = "configuring"
  /\ \/ aborted' = "firmware" /\ UNCHANGED <<vendor, answers, waiting>>
     \/ vendor' = "ready" /\ Answer /\ UNCHANGED aborted
  /\ UNCHANGED <<start, lpc, queue, state, cb, binder, lastReq>>

-----------------------------------------------------------------------------

StartUp == StartLooper \/ PrepareLooper \/ PostSemaphore \/ Serve

Looper ==
  HandleOnWhenDown \/ HandleDoubleOn \/ RestartAfterDoubleOn \/ HandleOff \/ IgnoreOff

\* The steps of a call that has begun, and the delivery of death notifications.
Proceed(t) ==
  \/ LinkToDeath(t) \/ InitHciCallbacks(t) \/ Unlink(t) \/ Transit(t)
  \/ \E c \in Clients : ServiceDied(t, c)

Next ==
  /\ aborted = "no"
  /\ \/ StartUp
     \/ Looper
     \/ FirmwareConfigured
     \/ \E t \in Threads : Proceed(t)
     \/ \E t \in Threads, c \in Clients : CallInitialize(t, c)
     \/ \E t \in Threads : CallClose(t)
     \/ \E c \in Clients : ClientDies(c)

Spec == Init /\ [][Next]_vars

\* The service's own threads keep running and the vendor library ends each
\* firmware download; clients need not do anything.
Fairness ==
  /\ WF_vars(aborted = "no" /\ StartUp)
  /\ WF_vars(aborted = "no" /\ Looper)
  /\ WF_vars(aborted = "no" /\ FirmwareConfigured)
  /\ \A t \in Threads : WF_vars(aborted = "no" /\ Proceed(t))

FairSpec == Spec /\ Fairness

-----------------------------------------------------------------------------
(* Properties *)

\* LOG_ALWAYS_FATAL("No Vendor interface!") in VendorInterface::Shutdown is never
\* reached: the states of the state machine agree with g_vendor_interface whatever
\* order the requests of several binder threads arrive in, also after an Open()
\* that failed and left the interface behind.
ShutdownFindsInterface == aborted # "shutdown"

\* When every message has been handled the controller is on exactly when the last
\* request was kOnMsg (handleMessage keeps current_state_ in step with the vendor
\* interface, also after a double on and an ignored off).
PowerFollowsLastRequest ==
  (aborted = "no" /\ queue = <<>> /\ lpc = "poll")
    => (vendor # "null" <=> lastReq = "On")

\* StartThread returns only after the looper exists, so EnqueueMessage never calls
\* sendMessage on a null looper_.
LooperReadyForMessages ==
  \A t \in Threads : bpc[t] # "idle" => looper

\* A session gets one initializationComplete(): OnFirmwareConfigured clears
\* initialize_complete_cb_, a failed Open() is answered by TurnOn itself, and
\* Initialize() never finds "No previous Shutdown()?", which would answer again.
OneAnswerPerSession ==
  /\ answers <= 1
  /\ lpc = "poll" /\ vendor \in {"ready", "failed"} => answers = 1

\* A client whose initialize() put its callbacks last is answered, unless the HAL
\* is asked to turn off, another client takes over, or the service dies.
InitializeIsAnswered ==
  \A c \in Clients :
    (c \in waiting /\ cb = c /\ lastReq = "On")
      ~> (c \notin waiting \/ cb # c \/ lastReq = "Off" \/ aborted # "no")

\* The death of a client that is linked turns the controller off (serviceDied sends
\* kOffMsg), even when it comes in the middle of another request.
DeathTurnsOff ==
  \A c \in Clients : (obits[c] > 0) ~> (vendor = "null" \/ aborted # "no")

\* The state machine implements the power switch: in the middle of a double on the
\* controller counts as on.
Power == INSTANCE BtPowerSwitch WITH
  pending <- queue,
  power <- IF vendor # "null" \/ lpc = "turnOn" THEN "on" ELSE "off"

ImplementsPowerSwitch == Power!PowerSpec
=============================================================================
