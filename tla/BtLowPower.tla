------------------------------ MODULE BtLowPower ------------------------------
(***************************************************************************)
(* One session of the Bluetooth VendorInterface: the AsyncFdWatcher thread *)
(* (async_fd_watcher.cc) that selects on the HCI descriptors, runs the     *)
(* idle timer and is told of changes through a pipe, and the low power     *)
(* wake logic (vendor_interface.cc: Send, OnTimeout, OnFirmwareConfigured) *)
(* that binder threads, the vendor library and the watcher thread run      *)
(* concurrently on the globals lpm_wake_deasserted, lpm_timeout_ms and     *)
(* recent_activity_flag, which no lock protects.  Every access of a shared *)
(* variable is a step of its own.                                          *)
(***************************************************************************)
EXTENDS Naturals

CONSTANTS Senders,    \* threads that call VendorInterface::Send
          PipeSize    \* bytes the notification pipe holds (O_NONBLOCK)

ASSUME PipeAssumption == PipeSize \in Nat \ {0}

Fds == {"event", "acl"}    \* CH_EVT and CH_ACL_IN of MctProtocol

VARIABLES
  \* AsyncFdWatcher
  running,      \* running_
  watched,      \* keys of watched_fds_
  armed,        \* timeout_ms_ > 0
  timeoutCb,    \* timeout_cb_: "null", "OnTimeout", or "zero", the one that logs
                \* "Zero timeout! Should never happen."
  pipe,         \* bytes in the notification pipe
  wpc,          \* next step of ThreadRoutine
  selArmed,     \* the select() in progress has a timeout
  selFds,       \* the descriptors it looks at
  \* VendorInterface
  recent,       \* recent_activity_flag
  deasserted,   \* lpm_wake_deasserted
  lpmMs,        \* lpm_timeout_ms > 0
  wake,         \* what LPM_WAKE_SET_STATE last told the controller
  spc,          \* per sender, next step of Send
  fpc,          \* next step of OnFirmwareConfigured
  opc,          \* next step of the thread that runs Open() and then Close()
  \* the controller
  readable      \* descriptors with data to read

watcher == <<wpc, selArmed, selFds>>
timer   == <<armed, timeoutCb>>
lpm     == <<recent, deasserted, wake>>
threads == <<spc, fpc, opc>>
vars == <<running, watched, timer, pipe, watcher, lpm, lpmMs, threads, readable>>

TypeOK ==
  /\ running \in BOOLEAN /\ armed \in BOOLEAN /\ selArmed \in BOOLEAN
  /\ recent \in BOOLEAN /\ deasserted \in BOOLEAN /\ lpmMs \in BOOLEAN
  /\ watched \subseteq Fds /\ selFds \subseteq Fds /\ readable \subseteq Fds
  /\ timeoutCb \in {"null", "OnTimeout", "zero"}
  /\ pipe \in 0..PipeSize
  /\ wake \in {"asserted", "deasserted"}
  /\ wpc \in {"none", "loop", "select", "expired", "zero", "check", "flag",
              "deassert", "disarm", "notify", "clear", "exited"}
  /\ spc \in [Senders -> {"idle", "check", "arm", "notify", "unflag", "assert", "write"}]
  /\ fpc \in {"none", "configure", "arm", "notify", "done"}
  /\ opc \in {"watchEvent", "watchAcl", "fwCfg", "open", "stop", "notify", "join", "clear", "closed"}

\* A second session starts with what the first left in the globals.
Init ==
  /\ running = FALSE /\ watched = {} /\ armed = FALSE /\ timeoutCb = "null"
  /\ pipe = 0 /\ wpc = "none" /\ selArmed = FALSE /\ selFds = {}
  /\ recent \in BOOLEAN /\ lpmMs \in BOOLEAN /\ deasserted = TRUE
  /\ wake = "deasserted"
  /\ spc = [s \in Senders |-> "idle"] /\ fpc = "none" /\ opc = "watchEvent"
  /\ readable = {}

\* Variant: the notification byte is not written.
MutNotifyThread == UNCHANGED pipe

\* notifyThread(): a full pipe fails with EAGAIN and stays readable.
NotifyThread == pipe' = IF pipe < PipeSize THEN pipe + 1 ELSE pipe

\* Variant: a zero timeout leaves the timer as it was.
MutSetTimeout(on, callback) == armed' = (armed \/ on) /\ timeoutCb' = callback

\* The locked half of ConfigureTimeout().
SetTimeout(on, callback) == armed' = on /\ timeoutCb' = callback

-----------------------------------------------------------------------------
(* ThreadRoutine of the watcher. *)

WGoto(from, to) == wpc = from /\ wpc' = to

\* The callback set with a zero timeout ("zero") logs that it should never happen, no more.
AtTop == wpc \in {"loop", "zero"}

\* Variant: the loop does not look at running_.
MutWatcherLoop ==
  /\ AtTop /\ wpc' = "select" /\ selArmed' = armed /\ selFds' = watched
  /\ UNCHANGED <<running, watched, timer, pipe, lpm, lpmMs, threads, readable>>

\* The top of the loop: running_, the descriptors and the timeout of this select().
WatcherLoop ==
  /\ AtTop /\ wpc' = IF running THEN "select" ELSE "exited"
  /\ selArmed' = armed /\ selFds' = watched
  /\ UNCHANGED <<running, watched, timer, pipe, lpm, lpmMs, threads, readable>>

\* The notification is read first; descriptors that are ready wait for the next turn.
WatcherNotified ==
  /\ WGoto("select", "loop") /\ pipe > 0
  /\ pipe' = pipe - 1
  /\ UNCHANGED <<running, watched, timer, selArmed, selFds, lpm, lpmMs, threads, readable>>

\* Data-ready callbacks, under internal_mutex_; each reads what its descriptor holds.
WatcherReads ==
  /\ WGoto("select", "loop") /\ pipe = 0 /\ selFds \cap readable # {}
  /\ readable' = readable \ selFds
  /\ UNCHANGED <<running, watched, timer, pipe, selArmed, selFds, lpm, lpmMs, threads>>

\* select() returns 0: only with a timeout and nothing to read.
WatcherExpires ==
  /\ WGoto("select", "expired") /\ selArmed /\ pipe = 0 /\ selFds \cap readable = {}
  /\ UNCHANGED <<running, watched, timer, pipe, selArmed, selFds, lpm, lpmMs, threads, readable>>

\* timeout_cb_ is copied under timeout_mutex_, unless the timer was turned off.
WatcherTakesCallback ==
  /\ wpc = "expired"
  /\ wpc' = CASE ~armed \/ timeoutCb = "null" -> "loop"
              [] armed /\ timeoutCb = "zero" -> "zero"
              [] armed /\ timeoutCb = "OnTimeout" -> "check"
  /\ UNCHANGED <<running, watched, timer, pipe, selArmed, selFds, lpm, lpmMs, threads, readable>>

\* OnTimeout(): with no recent activity, lpm_wake_deasserted = true, the wake line is
\* deasserted, the timer turned off; at the end recent_activity_flag = false.
OnTimeout ==
  \/ /\ WGoto("check", IF recent THEN "clear" ELSE "flag")
     /\ UNCHANGED <<timer, pipe, lpm>>
  \/ /\ WGoto("flag", "deassert") /\ deasserted' = TRUE
     /\ UNCHANGED <<timer, pipe, recent, wake>>
  \/ /\ WGoto("deassert", "disarm") /\ wake' = "deasserted"
     /\ UNCHANGED <<timer, pipe, recent, deasserted>>
  \/ /\ WGoto("disarm", "notify") /\ SetTimeout(FALSE, "zero")
     /\ UNCHANGED <<pipe, lpm>>
  \/ /\ WGoto("notify", "clear") /\ NotifyThread
     /\ UNCHANGED <<timer, lpm>>
  \/ /\ WGoto("clear", "loop") /\ recent' = FALSE
     /\ UNCHANGED <<timer, pipe, deasserted, wake>>

TimeoutCallback ==
  OnTimeout /\ UNCHANGED <<running, watched, selArmed, selFds, lpmMs, threads, readable>>

Watcher ==
  \/ WatcherLoop \/ WatcherNotified \/ WatcherReads \/ WatcherExpires
  \/ WatcherTakesCallback \/ TimeoutCallback

-----------------------------------------------------------------------------
(* Senders and the vendor library. *)

SGoto(s, from, to) == spc[s] = from /\ spc' = [spc EXCEPT ![s] = to]

\* The HAL's clients send from when Open() has set hci_ until they ask to close.
StartSend(s) ==
  /\ opc = "open" /\ SGoto(s, "idle", "check") /\ recent' = TRUE
  /\ UNCHANGED <<running, watched, timer, pipe, watcher, deasserted, wake, lpmMs, fpc, opc, readable>>

\* Send(): if wake is deasserted, restart the timer, clear the flag, assert wake;
\* then write the packet.
Send(s) ==
  \/ /\ SGoto(s, "check", IF deasserted THEN "arm" ELSE "write")
     /\ UNCHANGED <<timer, pipe, deasserted, wake>>
  \/ /\ SGoto(s, "arm", "notify") /\ SetTimeout(lpmMs, "OnTimeout")
     /\ UNCHANGED <<pipe, deasserted, wake>>
  \/ /\ SGoto(s, "notify", "unflag") /\ NotifyThread
     /\ UNCHANGED <<timer, deasserted, wake>>
  \/ /\ SGoto(s, "unflag", "assert") /\ deasserted' = FALSE
     /\ UNCHANGED <<timer, pipe, wake>>
  \/ /\ SGoto(s, "assert", "write") /\ wake' = "asserted"
     /\ UNCHANGED <<timer, pipe, deasserted>>
  \/ /\ SGoto(s, "write", "idle")
     /\ UNCHANGED <<timer, pipe, deasserted, wake>>

SendStep(s) ==
  Send(s) /\ UNCHANGED <<running, watched, watcher, recent, lpmMs, fpc, opc, readable>>

FGoto(from, to) == fpc = from /\ fpc' = to

\* OnFirmwareConfigured(): reads the idle timeout, enables LPM, starts the timer.
FirmwareConfigured ==
  /\ \/ FGoto("configure", "arm") /\ lpmMs' = TRUE /\ UNCHANGED <<timer, pipe>>
     \/ FGoto("arm", "notify") /\ SetTimeout(lpmMs, "OnTimeout") /\ UNCHANGED <<pipe, lpmMs>>
     \/ FGoto("notify", "done") /\ NotifyThread /\ UNCHANGED <<timer, lpmMs>>
  /\ UNCHANGED <<running, watched, watcher, lpm, spc, opc, readable>>

-----------------------------------------------------------------------------
(* Open() and Close(). *)

OGoto(from, to) == opc = from /\ opc' = to

\* Open(): the first WatchFdForNonBlockingReads starts the thread, the second only
\* adds a descriptor, and BT_VND_OP_FW_CFG starts the firmware download.
Open ==
  /\ \/ /\ OGoto("watchEvent", "watchAcl") /\ watched' = {"event"}
        /\ running' = TRUE /\ wpc' = "loop" /\ UNCHANGED fpc
     \/ /\ OGoto("watchAcl", "fwCfg") /\ watched' = Fds
        /\ UNCHANGED <<running, wpc, fpc>>
     \/ /\ OGoto("fwCfg", "open") /\ fpc' = "configure"
        /\ UNCHANGED <<running, wpc, watched>>
  /\ UNCHANGED <<timer, pipe, selArmed, selFds, lpm, lpmMs, spc, readable>>

\* Close(), once the clients have stopped sending and the firmware is configured:
\* stopThread() clears running_, notifies and joins the watcher, then clears the
\* callbacks.  timeout_ms_ keeps its value.
Close ==
  /\ \/ /\ OGoto("open", "stop") /\ fpc = "done" /\ \A s \in Senders : spc[s] = "idle"
        /\ UNCHANGED <<running, watched, timer, pipe>>
     \/ /\ OGoto("stop", "notify") /\ running' = FALSE /\ UNCHANGED <<watched, timer, pipe>>
     \/ /\ OGoto("notify", "join") /\ NotifyThread /\ UNCHANGED <<running, watched, timer>>
     \/ /\ OGoto("join", "clear") /\ wpc = "exited"
        /\ UNCHANGED <<running, watched, timer, pipe>>
     \/ /\ OGoto("clear", "closed") /\ watched' = {}
        /\ timeoutCb' = "null" /\ UNCHANGED <<running, armed, pipe>>
  /\ UNCHANGED <<watcher, lpm, lpmMs, spc, fpc, readable>>

\* The controller has something for the host on a descriptor.
Arrives(fd) ==
  /\ opc \in {"fwCfg", "open"} /\ fd \notin readable /\ readable' = readable \cup {fd}
  /\ UNCHANGED <<running, watched, timer, pipe, watcher, lpm, lpmMs, threads>>

-----------------------------------------------------------------------------

Next ==
  \/ Watcher \/ FirmwareConfigured \/ Open \/ Close
  \/ \E s \in Senders : StartSend(s) \/ SendStep(s)
  \/ \E fd \in Fds : Arrives(fd)

Spec == Init /\ [][Next]_vars

\* Threads of the service and of the vendor library run when they can, select()
\* times out when nothing else happens; clients and controller owe nothing.
Fairness ==
  /\ WF_vars(Watcher) /\ WF_vars(FirmwareConfigured) /\ WF_vars(Open)
  /\ WF_vars(Close /\ opc # "open")
  /\ \A s \in Senders : WF_vars(SendStep(s))

FairSpec == Spec /\ Fairness

-----------------------------------------------------------------------------
(* Properties *)

Notifying ==
  wpc = "notify" \/ fpc = "notify" \/ opc = "notify" \/ \E s \in Senders : spc[s] = "notify"

\* The watcher never sleeps in select() on a timeout that ConfigureTimeout has since
\* changed, or after stopThread cleared running_, without a notification in the pipe
\* or about to be written.
ChangesReachSelect ==
  (wpc = "select" /\ (selArmed # armed \/ ~running)) => pipe > 0 \/ Notifying

\* The callback that logs "Zero timeout! Should never happen." is never run.
ZeroTimeoutNeverFires == wpc # "zero"

\* What the controller sends is read, also on the descriptor that is added while the
\* watcher already sleeps without it, unless the session is closed.
DataIsRead ==
  \A fd \in Fds : (fd \in readable) ~> (fd \notin readable \/ opc = "closed")

\* stopThread() returns: its join does not wait for ever.
CloseReturns == (opc = "stop") ~> (opc = "closed")

\* "True when LPM is not enabled yet or wake is not asserted": when no thread is in
\* the middle of Send or OnTimeout and the firmware is configured, a false
\* lpm_wake_deasserted means that wake is asserted.
WakeFlagIsTrue ==
  (/\ fpc = "done" /\ opc = "open" /\ wpc \in {"loop", "select"}
   /\ \A s \in Senders : spc[s] = "idle")
    => (deasserted \/ wake = "asserted")
=============================================================================
