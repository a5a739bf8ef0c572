-------------------------------- MODULE UsbHal --------------------------------
(***************************************************************************)
(* The USB HAL (interfaces/usb/Usb.cpp).  One binder thread serves the     *)
(* calls of the framework one at a time (service.cpp starts no other), a   *)
(* worker thread that setCallback starts and joins reads the kernel's      *)
(* uevents, and both work on the files of /sys/class/typec.  A critical    *)
(* section that cannot block is one step, taken when its lock is free; one *)
(* in which the thread waits, or that spans a read and its use, is cut     *)
(* there.                                                                  *)
(***************************************************************************)
EXTENDS Naturals, Sequences

CONSTANTS Ports,        \* names under /sys/class/typec
          Modes,        \* what a switchRole of the mode tag writes to port_type
          QueueSize,    \* messages the uevent socket buffers
          MaxEvents,    \* bound: partners that come or go
          MaxSpurious   \* bound: spurious wakeups of one switchMode

ASSUME UsbAssumption ==
  /\ "dual" \notin Modes /\ "none" \notin Modes
  /\ QueueSize \in Nat /\ MaxEvents \in Nat /\ MaxSpurious \in Nat

VARIABLES
  \* members of struct Usb
  mCallback,        \* a callback is registered
  mLock, mRoleSwitchLock, mPartnerLock,    \* holder, or "free"
  mPartnerUp,
  destroyThread,    \* set by the signal handler
  \* binder thread
  bpc,              \* its next step
  call,             \* arguments and locals of the call it serves
  \* worker thread
  wpc,              \* its next step, "none" if there is no thread
  wlist,            \* ports of its currentPortStatus that it has still to look at
  wport,            \* the one without a partner that it sets back
  sigPending,       \* SIGUSR1 sent and not yet handled
  \* what queryVersionHelper read and has not notified yet, and what it notified last
  status, reported,
  \* the kernel
  portType,         \* content of port_type
  partners,         \* ports with a -partner directory
  uevents,          \* messages in the worker's socket
  events,           \* partners that came or went
  missed,           \* a change's message was lost, and no status was read since
  landed,           \* the last type the switch in progress got into port_type
  partnerAdded      \* an add was handled since that switch wrote its mode

locks   == <<mLock, mRoleSwitchLock, mPartnerLock>>
binder  == <<bpc, call, landed>>
worker  == <<wpc, wlist, wport, sigPending>>
query   == <<status, reported>>
kernel  == <<partners, uevents, events>>
partner == <<mPartnerUp, partnerAdded>>
vars == <<mCallback, locks, destroyThread, binder, worker, query, portType,
          kernel, missed, partner>>

Threads == {"binder", "worker"}
NewCall(op, p, m, set) == [op |-> op, port |-> p, mode |-> m, set |-> set,
                           roleSwitch |-> FALSE, spurious |-> 0]
NoCall  == NewCall("none", "none", "none", FALSE)
Calls   == [op : {"none", "answer", "answerQuery", "queryAnswer", "setCallback",
                  "switchMode", "switchOther"},
            port : Ports \cup {"none"}, mode : Modes \cup {"none"}, set : BOOLEAN,
            roleSwitch : BOOLEAN, spurious : 0..MaxSpurious]
\* A port status: no error, and the ports with a partner.
Statuses == [ok : BOOLEAN, connected : SUBSET Ports]
NoStatus == [ok |-> FALSE, connected |-> {}]

-----------------------------------------------------------------------------
(* queryVersionHelper, on either thread. *)

\* Under mLock: getPortStatusHelper finds the ports that have a partner, or fails.
ReadStatus(t, ok) ==
  /\ mLock = "free" /\ mLock' = t
  /\ status' = [ok |-> ok, connected |-> IF ok THEN partners ELSE {}]
  /\ missed' = FALSE

\* Still under it: the status goes to the callback, if there is one.
NotifyStatus ==
  /\ mLock' = "free"
  /\ reported' = IF mCallback THEN status ELSE reported
  /\ status' = NoStatus

-----------------------------------------------------------------------------
(* The binder thread. *)

BGoto(from, to) == bpc = from /\ bpc' = to

\* Back to the thread pool.
Return == bpc' = "idle" /\ call' = NoCall

\* Calls: what each does first.  "answer" sends one notification, "query" sends the port
\* status, in the order of the name.
Serve ==
  /\ bpc = "idle"
  /\ \/ \E op \in {"answer", "answerQuery", "queryAnswer"} :
          /\ call' = NewCall(op, "none", "none", FALSE)
          /\ bpc' = IF op = "queryAnswer" THEN "read" ELSE "answer"
     \/ \E set \in BOOLEAN :
          /\ call' = NewCall("setCallback", "none", "none", set)
          /\ bpc' = "setCallback"
     \/ \E p \in Ports, m \in Modes :
          /\ call' = NewCall("switchMode", p, m, FALSE)
          /\ bpc' = "role"
     \/ \E p \in Ports :
          /\ call' = NewCall("switchOther", p, "none", FALSE)
          /\ bpc' = "role"
  /\ UNCHANGED <<mCallback, locks, destroyThread, landed, worker, query, portType,
                 kernel, missed, partner>>

\* One notification to the callback, under mLock.
Answer ==
  /\ bpc = "answer" /\ mLock = "free"
  /\ IF call.op = "answerQuery" THEN bpc' = "read" /\ call' = call ELSE Return
  /\ UNCHANGED <<mCallback, locks, destroyThread, landed, worker, query, portType,
                 kernel, missed, partner>>

BinderReadsStatus ==
  /\ BGoto("read", "report")
  /\ \E ok \in BOOLEAN : ReadStatus("binder", ok)
  /\ UNCHANGED <<mCallback, mRoleSwitchLock, mPartnerLock, destroyThread, call, landed,
                 worker, reported, portType, kernel, partner>>

BinderNotifiesStatus ==
  /\ bpc = "report"
  /\ NotifyStatus
  /\ IF call.op = "queryAnswer" THEN bpc' = "answer" /\ call' = call ELSE Return
  /\ UNCHANGED <<mCallback, mRoleSwitchLock, mPartnerLock, destroyThread, landed, worker,
                 portType, kernel, missed, partner>>

-----------------------------------------------------------------------------
(* setCallback. *)

\* Under mLock: the callback is replaced; a worker is stopped when the last callback goes
\* and created when the first one comes.
SetCallback ==
  /\ bpc = "setCallback" /\ mLock = "free"
  /\ mCallback' = call.set /\ reported' = NoStatus
  /\ IF mCallback = call.set
       THEN Return /\ UNCHANGED mLock
       ELSE /\ bpc' = IF call.set THEN "create" ELSE "kill"
            /\ mLock' = "binder" /\ call' = call
  /\ UNCHANGED <<mRoleSwitchLock, mPartnerLock, destroyThread, landed, worker, status,
                 portType, kernel, missed, partner>>

\* pthread_kill fails on a thread that has ended, and then nothing is joined.
KillWorker ==
  /\ bpc = "kill"
  /\ IF wpc = "none"
       THEN Return /\ mLock' = "free" /\ UNCHANGED sigPending
       ELSE bpc' = "join" /\ sigPending' = TRUE /\ UNCHANGED <<mLock, call>>
  /\ UNCHANGED <<mCallback, mRoleSwitchLock, mPartnerLock, destroyThread, landed, wpc,
                 wlist, wport, query, portType, kernel, missed, partner>>

\* pthread_join, mLock held.
JoinWorker ==
  /\ bpc = "join" /\ wpc = "none" /\ Return /\ mLock' = "free"
  /\ UNCHANGED <<mCallback, mRoleSwitchLock, mPartnerLock, destroyThread, landed, worker,
                 query, portType, kernel, missed, partner>>

\* pthread_create; on failure there is no callback either.
CreateWorker ==
  /\ bpc = "create" /\ destroyThread' = FALSE
  /\ \/ wpc' = "open" /\ UNCHANGED mCallback
     \/ mCallback' = FALSE /\ UNCHANGED wpc
  /\ Return /\ mLock' = "free"
  /\ UNCHANGED <<mRoleSwitchLock, mPartnerLock, landed, wlist, wport, sigPending, query, portType,
                 kernel, missed, partner>>

-----------------------------------------------------------------------------
(* switchRole and switchMode. *)

TakeRoleSwitchLock ==
  /\ bpc = "role" /\ mRoleSwitchLock = "free" /\ mRoleSwitchLock' = "binder"
  /\ bpc' = IF call.op = "switchMode" THEN "open" ELSE "node"
  /\ UNCHANGED <<mCallback, mLock, mPartnerLock, destroyThread, call, landed, worker, query,
                 portType, kernel, missed, partner>>

\* data_role and power_role: the file is written and read back.
SwitchOtherRole ==
  /\ BGoto("node", "notify")
  /\ \E ok \in BOOLEAN : call' = [call EXCEPT !.roleSwitch = ok]
  /\ UNCHANGED <<mCallback, locks, destroyThread, landed, worker, query, portType, kernel,
                 missed, partner>>

OpenPortType ==
  /\ bpc = "open" /\ bpc' \in {"lock", "drp"}
  /\ UNCHANGED <<mCallback, locks, destroyThread, call, landed, worker, query, portType,
                 kernel, missed, partner>>

\* Variant: the lock is taken for the wait only.
MutTakePartnerLock ==
  /\ BGoto("lock", "write") /\ mPartnerUp' = FALSE
  /\ UNCHANGED <<mCallback, locks, destroyThread, call, landed, worker, query, portType,
                 kernel, missed, partnerAdded>>

TakePartnerLock ==
  /\ BGoto("lock", "write")
  /\ mPartnerLock = "free" /\ mPartnerLock' = "binder" /\ mPartnerUp' = FALSE
  /\ UNCHANGED <<mCallback, mLock, mRoleSwitchLock, destroyThread, call, landed, worker,
                 query, portType, kernel, missed, partnerAdded>>

\* The kernel takes a value written to port_type, or refuses it; fclose() has the error of
\* the write and is not looked at.
WritePortType(p, value) ==
  \/ portType' = [portType EXCEPT ![p] = value] /\ landed' = value
  \/ UNCHANGED <<portType, landed>>

WriteMode ==
  /\ BGoto("write", "wait")
  /\ WritePortType(call.port, call.mode)
  /\ partnerAdded' = FALSE
  /\ UNCHANGED <<mCallback, locks, destroyThread, call, worker, query, kernel, missed,
                 mPartnerUp>>

\* fputs() returns EOF: no write, no wait.
WriteModeFails ==
  /\ BGoto("write", "drp") /\ mPartnerLock' = "free"
  /\ UNCHANGED <<mCallback, mLock, mRoleSwitchLock, destroyThread, call, landed, worker,
                 query, portType, kernel, missed, partner>>

\* pthread_cond_timedwait releases the lock and sleeps ...
StartWait ==
  /\ BGoto("wait", "waiting") /\ mPartnerLock' = "free"
  /\ UNCHANGED <<mCallback, mLock, mRoleSwitchLock, destroyThread, call, landed, worker,
                 query, portType, kernel, missed, partner>>

\* ... until PORT_TYPE_TIMEOUT has passed ...
WaitExpires ==
  /\ BGoto("waiting", "expired")
  /\ UNCHANGED <<mCallback, locks, destroyThread, call, landed, worker, query, portType,
                 kernel, missed, partner>>

\* ... or for no reason ...
WakesSpuriously ==
  /\ BGoto("waiting", "woken")
  /\ call.spurious < MaxSpurious /\ call' = [call EXCEPT !.spurious = @ + 1]
  /\ UNCHANGED <<mCallback, locks, destroyThread, landed, worker, query, portType,
                 kernel, missed, partner>>

\* ... or the worker signals.  Awake it takes the lock, and waits again (the whole time)
\* unless the partner is up.
WaitWoken ==
  /\ bpc = "woken" /\ mPartnerLock = "free"
  /\ IF mPartnerUp
       THEN /\ bpc' = "notify" /\ call' = [call EXCEPT !.roleSwitch = TRUE]
            /\ UNCHANGED mPartnerLock
       ELSE bpc' = "wait" /\ mPartnerLock' = "binder" /\ call' = call
  /\ UNCHANGED <<mCallback, mLock, mRoleSwitchLock, destroyThread, landed, worker, query,
                 portType, kernel, missed, partner>>

\* ETIMEDOUT: the lock is taken and released, mPartnerUp is not looked at.
WaitTimedOut ==
  /\ BGoto("expired", "drp") /\ mPartnerLock = "free"
  /\ UNCHANGED <<mCallback, locks, destroyThread, call, landed, worker, query, portType,
                 kernel, missed, partner>>

\* The mode was not switched: switchToDrp.
SwitchFails ==
  /\ BGoto("drp", "notify")
  /\ WritePortType(call.port, "dual")
  /\ UNCHANGED <<mCallback, locks, destroyThread, call, worker, query, kernel, missed,
                 partner>>

\* Variant: the role switch lock is kept when no callback is registered.
MutNotifyRoleSwitch ==
  /\ bpc = "notify" /\ mLock = "free"
  /\ mRoleSwitchLock' = IF mCallback THEN "free" ELSE mRoleSwitchLock
  /\ landed' = "none" /\ Return
  /\ UNCHANGED <<mCallback, mLock, mPartnerLock, destroyThread, worker, query, portType,
                 kernel, missed, partner>>

\* notifyRoleSwitchStatus under mLock, then both locks are released.
NotifyRoleSwitch ==
  /\ bpc = "notify" /\ mLock = "free" /\ mRoleSwitchLock' = "free"
  /\ landed' = "none" /\ Return
  /\ UNCHANGED <<mCallback, mLock, mPartnerLock, destroyThread, worker, query, portType,
                 kernel, missed, partner>>

\* What the binder thread does once a call is in.
BinderStep ==
  \/ Answer \/ BinderReadsStatus \/ BinderNotifiesStatus
  \/ SetCallback \/ KillWorker \/ JoinWorker \/ CreateWorker
  \/ TakeRoleSwitchLock \/ SwitchOtherRole \/ OpenPortType \/ TakePartnerLock
  \/ WriteMode \/ WriteModeFails \/ StartWait \/ WaitExpires \/ WakesSpuriously
  \/ WaitWoken \/ WaitTimedOut \/ SwitchFails \/ NotifyRoleSwitch

-----------------------------------------------------------------------------
(* The worker thread. *)

WGoto(from, to) == wpc = from /\ wpc' = to

\* The thread ends: its socket is closed, and with it go the messages and the signal.
WorkerExits ==
  /\ wpc' = "none" /\ wlist' = {} /\ wport' = "none" /\ sigPending' = FALSE /\ uevents' = <<>>
  /\ missed' = (missed \/ uevents # <<>>)

OpenSocket ==
  /\ wpc = "open"
  /\ \/ wpc' = "check" /\ UNCHANGED <<wlist, wport, sigPending, uevents, missed>>
     \/ WorkerExits
  /\ UNCHANGED <<mCallback, locks, destroyThread, binder, query, portType, partners,
                 events, partner>>

CheckDestroy ==
  /\ wpc = "check"
  /\ IF destroyThread
       THEN WorkerExits
       ELSE wpc' = "enter" /\ UNCHANGED <<wlist, wport, sigPending, uevents, missed>>
  /\ UNCHANGED <<mCallback, locks, destroyThread, binder, query, portType, partners,
                 events, partner>>

\* epoll_wait without a timeout: a signal that came since the test does not end it.
EnterEpoll ==
  /\ WGoto("enter", "epoll")
  /\ UNCHANGED <<mCallback, locks, destroyThread, binder, wlist, wport, sigPending, query,
                 portType, kernel, missed, partner>>

\* An error of epoll_wait other than EINTR ends the thread.
EpollFails ==
  /\ wpc = "epoll" /\ WorkerExits
  /\ UNCHANGED <<mCallback, locks, destroyThread, binder, query, portType, partners,
                 events, partner>>

\* Variant: the message of a partner that came is not followed by a query.
MutReceive ==
  /\ wpc = "epoll" /\ uevents # <<>> /\ uevents' = Tail(uevents)
  /\ wpc' = IF Head(uevents) = "add" THEN "partner" ELSE "check"
  /\ UNCHANGED <<mCallback, locks, destroyThread, binder, wlist, wport, sigPending, query,
                 portType, partners, events, missed, partner>>

\* epoll_wait returns: one message.  Every one of them has a DEVTYPE=typec_ line; that of a
\* partner that came begins with its add line.
Receive ==
  /\ wpc = "epoll" /\ uevents # <<>> /\ uevents' = Tail(uevents)
  /\ wpc' = IF Head(uevents) = "add" THEN "partner" ELSE "query"
  /\ UNCHANGED <<mCallback, locks, destroyThread, binder, wlist, wport, sigPending, query,
                 portType, partners, events, missed, partner>>

\* Under mPartnerLock: mPartnerUp and the signal that wakes a waiting switchMode.
PartnerAdded ==
  /\ WGoto("partner", "query") /\ mPartnerLock = "free"
  /\ mPartnerUp' = TRUE /\ partnerAdded' = TRUE
  /\ bpc' = IF bpc = "waiting" THEN "woken" ELSE bpc
  /\ UNCHANGED <<mCallback, locks, destroyThread, call, landed, wlist, wport, sigPending, query,
                 portType, kernel, missed>>

\* One that cannot be received, or that fills the whole buffer, is discarded.
Discard ==
  /\ WGoto("epoll", "check") /\ uevents # <<>> /\ uevents' = Tail(uevents)
  /\ missed' = TRUE
  /\ UNCHANGED <<mCallback, locks, destroyThread, binder, wlist, wport, sigPending, query,
                 portType, partners, events, partner>>

WorkerReadsStatus ==
  /\ WGoto("query", "report")
  /\ \E ok \in BOOLEAN, listed \in SUBSET Ports :
       /\ ok => listed = Ports
       /\ ReadStatus("worker", ok) /\ wlist' = listed
  /\ UNCHANGED <<mCallback, mRoleSwitchLock, mPartnerLock, destroyThread, binder, wport,
                 sigPending, reported, portType, kernel, partner>>

WorkerNotifiesStatus ==
  /\ WGoto("report", "try")
  /\ NotifyStatus
  /\ UNCHANGED <<mCallback, mRoleSwitchLock, mPartnerLock, destroyThread, binder, wlist,
                 wport, sigPending, portType, kernel, missed, partner>>

\* Variant: ports are looked at whether or not a role switch is in progress.
MutTryRoleSwitchLock ==
  /\ WGoto("try", "ports")
  /\ UNCHANGED <<mCallback, locks, destroyThread, binder, wlist, wport, sigPending, query,
                 portType, kernel, missed, partner>>

\* pthread_mutex_trylock: with a role switch in progress the ports are left alone.
TryRoleSwitchLock ==
  /\ wpc = "try"
  /\ IF mRoleSwitchLock = "free"
       THEN wpc' = "ports" /\ mRoleSwitchLock' = "worker" /\ UNCHANGED wlist
       ELSE wpc' = "check" /\ wlist' = {} /\ UNCHANGED mRoleSwitchLock
  /\ UNCHANGED <<mCallback, mLock, mPartnerLock, destroyThread, binder, wport, sigPending, query,
                 portType, kernel, missed, partner>>

\* A listed port without a -partner directory is set back to drp; it is written to in a
\* later step than it is looked at.
LookAtPort ==
  /\ wpc = "ports"
  /\ \/ /\ \E p \in wlist :
              IF p \in partners THEN wlist' = wlist \ {p} /\ UNCHANGED <<wpc, wport>>
              ELSE wpc' = "force" /\ wport' = p /\ UNCHANGED wlist
        /\ UNCHANGED mRoleSwitchLock
     \/ /\ wlist = {} /\ wpc' = "check" /\ mRoleSwitchLock' = "free"
        /\ UNCHANGED <<wlist, wport>>
  /\ UNCHANGED <<mCallback, mLock, mPartnerLock, destroyThread, binder, sigPending, query,
                 portType, kernel, missed, partner>>

\* switchToDrp of that port.
ForceDrp ==
  /\ WGoto("force", "ports")
  /\ portType' \in {portType, [portType EXCEPT ![wport] = "dual"]}
  /\ wlist' = wlist \ {wport} /\ wport' = "none"
  /\ UNCHANGED <<mCallback, locks, destroyThread, binder, sigPending, query, kernel,
                 missed, partner>>

WorkerStep ==
  \/ OpenSocket \/ CheckDestroy \/ EnterEpoll \/ Receive \/ Discard \/ PartnerAdded
  \/ WorkerReadsStatus \/ WorkerNotifiesStatus \/ TryRoleSwitchLock \/ LookAtPort \/ ForceDrp

\* sighandler runs on the worker, between any two of its steps.  Only an epoll_wait that has
\* begun returns with EINTR.
HandleSignal ==
  /\ sigPending /\ sigPending' = FALSE /\ destroyThread' = TRUE
  /\ wpc' = IF wpc = "epoll" THEN "check" ELSE wpc
  /\ UNCHANGED <<mCallback, locks, binder, wlist, wport, query, portType, kernel, missed,
                 partner>>

-----------------------------------------------------------------------------
(* The kernel. *)

\* A partner comes or goes, and the worker's socket gets a message if there is one that has
\* room.
PartnerChanges(p) ==
  /\ events < MaxEvents /\ events' = events + 1
  /\ partners' = IF p \in partners THEN partners \ {p} ELSE partners \cup {p}
  /\ IF wpc \notin {"none", "open"} /\ Len(uevents) < QueueSize
       THEN /\ uevents' = Append(uevents, IF p \in partners THEN "remove" ELSE "add")
            /\ UNCHANGED missed
       ELSE missed' = TRUE /\ UNCHANGED uevents
  /\ UNCHANGED <<mCallback, locks, destroyThread, binder, worker, query, portType, partner>>

Init ==
  /\ mCallback = FALSE /\ destroyThread = FALSE
  /\ mLock = "free" /\ mRoleSwitchLock = "free" /\ mPartnerLock = "free"
  /\ mPartnerUp = FALSE /\ partnerAdded = FALSE
  /\ bpc = "idle" /\ call = NoCall /\ landed = "none"
  /\ wpc = "none" /\ wlist = {} /\ wport = "none" /\ sigPending = FALSE
  /\ status = NoStatus /\ reported = NoStatus
  /\ portType = [p \in Ports |-> "dual"]
  /\ partners \in SUBSET Ports /\ uevents = <<>> /\ events = 0 /\ missed = FALSE

Next ==
  \/ Serve \/ BinderStep \/ WorkerStep \/ EpollFails \/ HandleSignal
  \/ \E p \in Ports : PartnerChanges(p)

Spec == Init /\ [][Next]_vars

\* The threads are scheduled and a signal is delivered; calls and partners may never come,
\* and epoll_wait need not fail.
Fairness == WF_vars(BinderStep) /\ WF_vars(WorkerStep) /\ WF_vars(HandleSignal)
FairSpec == Spec /\ Fairness

-----------------------------------------------------------------------------
(* Properties. *)

BinderSteps == {"idle", "answer", "read", "report", "setCallback", "kill", "join", "create",
                "role", "node", "open", "lock", "write", "wait", "waiting", "woken",
                "expired", "drp", "notify"}
WorkerSteps == {"none", "open", "check", "enter", "epoll", "partner", "query", "report", "try",
                "ports", "force"}

\* The variables have their types; a lock's holder is the thread that is in its section.
TypeOK ==
  /\ mCallback \in BOOLEAN /\ destroyThread \in BOOLEAN /\ sigPending \in BOOLEAN
  /\ mPartnerUp \in BOOLEAN /\ partnerAdded \in BOOLEAN /\ missed \in BOOLEAN
  /\ {mLock, mRoleSwitchLock} \subseteq Threads \cup {"free"}
  /\ mPartnerLock \in {"binder", "free"}
  /\ bpc \in BinderSteps /\ wpc \in WorkerSteps
  /\ call \in Calls
  /\ wlist \subseteq Ports /\ wport \in Ports \cup {"none"}
  /\ status \in Statuses /\ reported \in Statuses
  /\ portType \in [Ports -> Modes \cup {"dual"}]
  /\ landed \in Modes \cup {"dual", "none"}
  /\ partners \subseteq Ports /\ uevents \in Seq({"add", "remove"})
  /\ Len(uevents) <= QueueSize /\ events \in 0..MaxEvents

\* "Hold the lock here to prevent loosing connected signals as once the file is written the
\* partner added signal can arrive anytime" (switchMode): a switch never sleeps on once the
\* worker has handled a partner that came after its write.
PartnerSignalKept == bpc = "waiting" => ~partnerAdded

\* From the write of a mode to the answer, what switchRole last got into port_type stays
\* there: uevent_event, which resets ports without a partner, leaves a switch alone.
SwitchUndisturbed == landed # "none" => portType[call.port] = landed

\* Outside setCallback, a worker exists only while a callback is registered: setCallback
\* does not return before the thread of the last callback has ended.
WorkerOnlyWithCallback ==
  wpc # "none" => mCallback \/ bpc \in {"kill", "join"}

\* When the worker is waiting for messages and has none left, no message was lost and no
\* query is under way, the last status the callback got has the partners there are.
ReportedIsCurrent ==
  (/\ wpc \in {"check", "enter", "epoll"} /\ uevents = <<>> /\ ~missed /\ bpc # "report"
   /\ reported.ok)
  => reported.connected = partners

\* Every switchRole is answered, whatever the partner, the worker and the sysfs files do.
SwitchIsAnswered == (bpc = "role") ~> (bpc = "idle")

\* "Set by the signal handler to destroy the thread" (destroyThread): a worker for which it
\* is set ends, if it was entering epoll_wait when the signal came then with the next
\* message.
DestroyEndsWorker ==
  (destroyThread /\ wpc = "epoll" /\ uevents # <<>>) ~> (wpc = "none")
=============================================================================
