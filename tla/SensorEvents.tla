---------------------------- MODULE SensorEvents ----------------------------
(***************************************************************************)
(* The way of sensor events through the sensors HAL: the readers of the    *)
(* drivers (SensorEventReader.cpp), the share that each driver has of the  *)
(* poll buffer (SensorContext.cpp), the drivers' readEvents(), and the     *)
(* distribution to the framework and to drivers that compute their events  *)
(* from those of others (parsePollData in SensorManager.cpp).              *)
(*                                                                         *)
(* poll() runs on one thread of the service, activate and flush on the     *)
(* other.  Both write to the sysfs nodes of a driver, whose name is put    *)
(* together in a buffer of the driver that no lock protects.  What the     *)
(* connections ask of a driver is the matter of SensorManager.             *)
(***************************************************************************)
EXTENDS Integers, Sequences, FiniteSets, SequencesExt

CONSTANTS Drivers,     \* the drivers in the order of mPollFds, a sequence
          Handles,     \* the sensors of those drivers that are used
          RingSize,    \* numEvents of a reader
          PollSize,    \* pollMaxBufferSize
          PipeSize,    \* events a pipe holds; what is written to a full one is lost
          MaxEvents,   \* bound: events the hardware ever raises
          MaxCalls,    \* bound: activate and flush calls
          Apart        \* no call to a driver while its one-shot sensor switches itself off

D == DOMAIN Drivers

-----------------------------------------------------------------------------
(* The drivers.  keeps: events that are saved and not reported (BIAS_ACTION,  *)
(* CALI_ACTION, TEMP_ACTION).  oneShot: switched off by readEvents().  needs:  *)
(* what a driver with a pipe activates for a sensor that it computes; from: the *)
(* one of them that makes it report.                                           *)

Device(handles, oneShot, keeps) ==
  [handles |-> handles, oneShot |-> oneShot, keeps |-> keeps, needs |-> <<>>, from |-> "none"]
Computed(handle, needs, from) ==
  [handles |-> {handle}, oneShot |-> {}, keeps |-> FALSE, needs |-> needs, from |-> from]

AccelerationSensor == Device({"acc"}, {}, TRUE)
MagneticSensor     == Device({"mag"}, {}, TRUE)
HwGyroscopeSensor  == Device({"gyro"}, {}, TRUE)
AmbiLightSensor    == Device({"light", "rgbw"}, {}, TRUE)
ProximitySensor    == Device({"proximity"}, {}, TRUE)
PressureSensor     == Device({"pressure"}, {}, FALSE)
StepCounterSensor  == Device({"counter", "detector", "motion", "floor"}, {"motion"}, FALSE)
PedometerSensor    == Device({"pedometer"}, {}, FALSE)
ActivitySensor     == Device({"activity"}, {}, FALSE)
SituationSensor    == Device({"wake", "pickup", "glance", "answer", "pocket", "stationary",
                              "moved", "tilt", "orientation", "sar"},
                             {"wake", "pickup", "glance", "answer", "pocket", "stationary", "moved"},
                             FALSE)
ScpFusionSensor    == Device({"rv", "grv", "gmrv", "la", "grav", "orient", "pdr",
                              "uncaliAcc", "uncaliGyro", "uncaliMag", "gyroTemp"}, {}, FALSE)
BiometricSensor    == Device({"ekg", "ppg1", "ppg2"}, {}, FALSE)
VirtGyroscopeSensor == Computed("gyro", <<"acc", "mag">>, "acc")
WakeUpSetSensor     == Computed("wakeup", <<"detector">>, "detector")

Driver == [accel |-> AccelerationSensor, magnetic |-> MagneticSensor,
           proximity |-> ProximitySensor, light |-> AmbiLightSensor,
           gyro |-> HwGyroscopeSensor, virtualGyro |-> VirtGyroscopeSensor,
           pressure |-> PressureSensor, stepcounter |-> StepCounterSensor,
           pedometer |-> PedometerSensor, activity |-> ActivitySensor,
           situation |-> SituationSensor, scpfusion |-> ScpFusionSensor,
           bio |-> BiometricSensor, wakeupset |-> WakeUpSetSensor]
Is(d) == Driver[Drivers[d]]

\* handleToDriver, which names one driver: mSensors[gyro] is one of the two.
DriverOf(h) == CHOOSE d \in D : h \in Is(d).handles
HasPipe(d) == Is(d).from # "none"

ASSUME EventsAssumption ==
  /\ RingSize \in Nat \ {0} /\ PipeSize \in Nat \ {0} /\ MaxEvents \in Nat /\ MaxCalls \in Nat
  /\ Drivers \in Seq(DOMAIN Driver) /\ PollSize \in Nat /\ PollSize >= Len(Drivers)
  /\ Handles \subseteq UNION {Is(d).handles : d \in D} /\ Apart \in BOOLEAN
  /\ \A h \in Handles : ToSet(Is(DriverOf(h)).needs) \subseteq Handles
  /\ \A c, d \in D : c # d => Is(c).handles \cap Is(d).handles = {}
-----------------------------------------------------------------------------
VARIABLES
  fd,       \* the events in each driver's device or pipe
  ring,     \* each driver's SensorEventCircularReader
  sent,     \* events sent by each driver, which number them
  raised,   \* events the hardware has raised
  on,       \* the handles the hardware has switched on
  active,   \* mActiveHandles of the framework's connection (0) and of each driver's
  path,     \* input_sysfs_path of each driver
  ctl,      \* the thread of the calls: what is left of the call
  calls,    \* calls made
  poll,     \* the poll thread
  buffer,   \* pollBuffer, as far as it is filled
  revents,  \* the drivers whose revents has POLLIN
  asked,    \* history: flushes of a handle that are not answered
  armed     \* history: handles the framework has activated and not had the one shot of

readers == <<fd, ring, sent>>
hardware == <<raised, on, path>>
history == <<asked, armed>>
vars == <<readers, hardware, active, ctl, calls, poll, buffer, revents, history>>

Nil == [handle |-> "none", act |-> "none", n |-> 0]
EmptyRing == [cells |-> [p \in 0..2 * RingSize - 1 |-> Nil], head |-> 0, curr |-> 0, free |-> RingSize]
Out == [at |-> "out", drv |-> 0, count |-> 0, share |-> 0, loop |-> 0, left |-> 0, handle |-> "none"]

Init ==
  /\ fd = [d \in D |-> <<>>] /\ ring = [d \in D |-> EmptyRing] /\ sent = [d \in D |-> 0]
  /\ raised = 0 /\ on = {} /\ path = [d \in D |-> "none"]
  /\ active = [c \in D \cup {0} |-> {}] /\ ctl = <<>> /\ calls = 0
  /\ poll = Out /\ buffer = <<>> /\ revents = {}
  /\ asked = [h \in Handles |-> 0] /\ armed = {}
-----------------------------------------------------------------------------
(* SensorEventCircularReader: a ring of RingSize events in an array of twice  *)
(* that size, so that one read() goes beyond the end and is then moved.       *)

Available(r) == RingSize - r.free
pendingEvent(d) == Available(ring[d]) > 0

\* The array after a read() of s at head, and what went beyond the end moved to the front.
ReadInto(r, s) ==
  [p \in DOMAIN r.cells |->
     IF p \in r.head..r.head + Len(s) - 1 THEN s[p - r.head + 1] ELSE r.cells[p]]
Folded(cells, beyond) ==
  [p \in DOMAIN cells |-> IF p < beyond THEN cells[RingSize + p] ELSE cells[p]]

\* Variant: after the move the next read() starts at the front again.
MutFill(r, s) ==
  LET head == r.head + Len(s) IN
  [cells |-> Folded(ReadInto(r, s), head - RingSize),
   head |-> IF head >= RingSize THEN 0 ELSE head, curr |-> r.curr, free |-> r.free - Len(s)]

\* fill()
Fill(r, s) ==
  LET head == r.head + Len(s) IN
  IF head > RingSize
  THEN [cells |-> Folded(ReadInto(r, s), head - RingSize), head |-> head - RingSize,
        curr |-> r.curr, free |-> r.free - Len(s)]
  ELSE [cells |-> ReadInto(r, s), head |-> head, curr |-> r.curr, free |-> r.free - Len(s)]

\* Variant: the reader wraps one place too late.
MutAdvance(r) == [r EXCEPT !.curr = IF @ + 1 > RingSize THEN 0 ELSE @ + 1, !.free = @ + 1]

\* next()
Advance(r) == [r EXCEPT !.curr = IF @ + 1 >= RingSize THEN 0 ELSE @ + 1, !.free = @ + 1]

\* What is in the ring, in order.
Content(r) == [i \in 1..Available(r) |-> r.cells[(r.curr + i - 1) % RingSize]]
Event(h, act, n) == [handle |-> h, act |-> act, n |-> n]

\* write() to the pipe, or the hardware's own queue; a full pipe loses the event.
Send(d, h, act) ==
  IF HasPipe(d) /\ Len(fd[d]) >= PipeSize THEN UNCHANGED <<fd, sent>>
  ELSE /\ fd' = [fd EXCEPT ![d] = Append(@, Event(h, act, sent[d] + 1))]
       /\ sent' = [sent EXCEPT ![d] = @ + 1]

\* The hardware, external: an event of a handle that is on, or a value to keep.
Raise(h) ==
  LET d == DriverOf(h) IN
  /\ raised < MaxEvents /\ h \in on
  /\ Send(d, h, "data") \/ (Is(d).keeps /\ Send(d, h, "keep"))
  /\ raised' = raised + 1
  /\ UNCHANGED <<ring, on, path, active, ctl, calls, poll, buffer, revents, history>>
-----------------------------------------------------------------------------
(* The calls, one at a time: a list of steps that are left.                   *)

Listen(c, h, en) == [do |-> "listen", conn |-> c, handle |-> h, en |-> en, node |-> "none"]
Name(node, h)    == [do |-> "name", conn |-> DriverOf(h), handle |-> h, en |-> FALSE, node |-> node]
Write(node, h, en) == [do |-> "write", conn |-> DriverOf(h), handle |-> h, en |-> en, node |-> node]
Pipe(h)          == [do |-> "pipe", conn |-> DriverOf(h), handle |-> h, en |-> FALSE, node |-> "none"]

\* SensorManager::activate of connection c, down to the driver's enable() when c is
\* the first or the last to listen.
Others(c, h) == \E k \in DOMAIN active \ {c} : h \in active[k]
EnableNode(c, h, en) ==
  <<Listen(c, h, en)>> \o IF Others(c, h) THEN <<>> ELSE <<Name("active", h), Write("active", h, en)>>
\* A driver with a pipe has no node: it activates what it computes from.
Activation(h, en) ==
  LET d == DriverOf(h) IN
  IF HasPipe(d)
  THEN <<Listen(0, h, en)>> \o FlattenSeq([i \in DOMAIN Is(d).needs |-> EnableNode(d, Is(d).needs[i], en)])
  ELSE EnableNode(0, h, en)

\* poll__activate.  The framework does not deactivate a one-shot sensor that has
\* fired: it activates it again.
Activate(h, en) ==
  /\ ctl = <<>> /\ calls < MaxCalls /\ en = (h \notin armed)
  /\ calls' = calls + 1
  /\ ctl' = Activation(h, en)
  /\ armed' = IF en THEN armed \cup {h} ELSE armed \ {h}
  /\ UNCHANGED <<readers, hardware, active, poll, buffer, revents, asked>>

\* poll__flush of a sensor that is on; one-shot sensors are not flushed.
Flush(h) ==
  /\ ctl = <<>> /\ calls < MaxCalls /\ h \in armed /\ h \notin Is(DriverOf(h)).oneShot
  /\ calls' = calls + 1
  /\ asked' = [asked EXCEPT ![h] = @ + 1]
  /\ ctl' = IF HasPipe(DriverOf(h)) THEN <<Pipe(h)>> ELSE <<Name("flush", h), Write("flush", h, FALSE)>>
  /\ UNCHANGED <<readers, hardware, active, poll, buffer, revents, armed>>

Left == ctl' = Tail(ctl)

\* addActiveHandle, removeActiveHandle, under mActiveConnectionsLock.
ChangeHandles ==
  /\ ctl # <<>> /\ Head(ctl).do = "listen" /\ Left
  /\ active' = [active EXCEPT ![Head(ctl).conn] =
                  IF Head(ctl).en THEN @ \cup {Head(ctl).handle} ELSE @ \ {Head(ctl).handle}]
  /\ UNCHANGED <<readers, hardware, calls, poll, buffer, revents, history>>

\* The other thread is between the name and the open().
PollInNode(d) == poll.at = "write" /\ poll.drv = d
CallInNode(d) == ctl # <<>> /\ Head(ctl).do = "write" /\ Head(ctl).conn = d

\* strlcpy() to input_sysfs_path
NameNode ==
  /\ ctl # <<>> /\ Head(ctl).do = "name" /\ Left
  /\ Apart => ~PollInNode(Head(ctl).conn)
  /\ path' = [path EXCEPT ![Head(ctl).conn] = Head(ctl).node]
  /\ UNCHANGED <<readers, raised, on, active, calls, poll, buffer, revents, history>>

\* open() of whatever the path says and write(); a node refuses what is not for it.
WriteNode ==
  /\ ctl # <<>> /\ Head(ctl).do = "write" /\ Left
  /\ LET c == Head(ctl) IN
     \/ path[c.conn] # c.node /\ UNCHANGED <<readers, on>>
     \/ path[c.conn] = c.node /\ c.node = "active"
        /\ on' = (IF c.en THEN on \cup {c.handle} ELSE on \ {c.handle}) /\ UNCHANGED readers
     \/ path[c.conn] = c.node /\ c.node = "flush"
        /\ Send(c.conn, c.handle, "flush") /\ UNCHANGED <<ring, on>>
  /\ UNCHANGED <<raised, path, active, calls, poll, buffer, revents, history>>

\* reportFlush of a driver with a pipe
WritePipe ==
  /\ ctl # <<>> /\ Head(ctl).do = "pipe" /\ Left
  /\ Send(Head(ctl).conn, Head(ctl).handle, "flush")
  /\ UNCHANGED <<ring, hardware, active, calls, poll, buffer, revents, history>>

Control == ChangeHandles \/ NameNode \/ WriteNode \/ WritePipe
-----------------------------------------------------------------------------
(* The poll thread. *)

\* poll__poll
PollEvent ==
  /\ poll.at = "out" /\ buffer' = <<>>
  /\ poll' = [Out EXCEPT !.at = "share", !.count = PollSize]
  /\ UNCHANGED <<readers, hardware, active, ctl, calls, revents, history>>

Pending == {d \in D : d \in revents \/ pendingEvent(d)}

\* Variant: each driver may fill all that is left.
MutComputeCountForEachFd ==
  /\ poll.at = "share"
  /\ poll' = [poll EXCEPT !.at = "scan", !.drv = 0, !.loop = Cardinality(Pending), !.share = poll.count]
  /\ UNCHANGED <<readers, hardware, active, ctl, calls, buffer, revents, history>>

ComputeCountForEachFd ==
  LET k == Cardinality(Pending) IN
  /\ poll.at = "share"
  /\ poll' = [poll EXCEPT !.at = "scan", !.drv = 0,
                          !.loop = IF poll.count < k THEN 1 ELSE k,
                          !.share = IF k = 0 \/ poll.count \div k = 0 THEN poll.count ELSE poll.count \div k]
  /\ UNCHANGED <<readers, hardware, active, ctl, calls, buffer, revents, history>>

\* The next driver with events, and the fill() of its readEvents(); or on to poll().
Next1 == {d \in Pending : d > poll.drv}
ReadEvents ==
  /\ poll.at = "scan" /\ poll.count > 0 /\ poll.loop > 0 /\ Next1 # {}
  /\ LET d == CHOOSE e \in Next1 : \A f \in Next1 : e <= f
         s == SubSeq(fd[d], 1, IF Len(fd[d]) < ring[d].free THEN Len(fd[d]) ELSE ring[d].free)
     IN  /\ ring' = [ring EXCEPT ![d] = Fill(@, s)]
         /\ fd' = [fd EXCEPT ![d] = SubSeq(@, Len(s) + 1, Len(@))]
         /\ poll' = [poll EXCEPT !.at = "read", !.drv = d, !.left = poll.share]
  /\ UNCHANGED <<sent, hardware, active, ctl, calls, buffer, revents, history>>
NoMoreDrivers ==
  /\ poll.at = "scan" /\ (poll.count = 0 \/ poll.loop = 0 \/ Next1 = {})
  /\ poll' = [poll EXCEPT !.at = "poll"]
  /\ UNCHANGED <<readers, hardware, active, ctl, calls, buffer, revents, history>>

Current == ring[poll.drv].cells[ring[poll.drv].curr]

\* One turn of the loop in readEvents(): processEvent, the report of data and flushes,
\* next(); a one-shot sensor is then switched off.
TakeEvent ==
  /\ poll.at = "read" /\ poll.left > 0 /\ pendingEvent(poll.drv)
  /\ ring' = [ring EXCEPT ![poll.drv] = Advance(@)]
  /\ \/ Current.act = "keep" /\ UNCHANGED <<buffer, poll>>
     \/ /\ Current.act # "keep"
        /\ buffer' = Append(buffer, Current)
        /\ poll' = [poll EXCEPT !.left = @ - 1, !.handle = Current.handle,
                                !.at = IF Current.handle \in Is(poll.drv).oneShot THEN "name" ELSE "read"]
  /\ UNCHANGED <<fd, sent, hardware, active, ctl, calls, revents, history>>

\* enable(handle, false) on the poll thread
NameOneShot ==
  /\ poll.at = "name" /\ (Apart => ~CallInNode(poll.drv))
  /\ path' = [path EXCEPT ![poll.drv] = "active"]
  /\ poll' = [poll EXCEPT !.at = "write"]
  /\ UNCHANGED <<readers, raised, on, active, ctl, calls, buffer, revents, history>>
\* Variant: the sensor is deactivated for the framework's connection as well.
MutDisableOneShot ==
  /\ poll.at = "write" /\ poll' = [poll EXCEPT !.at = "read"]
  /\ on' = IF path[poll.drv] = "active" THEN on \ {poll.handle} ELSE on
  /\ active' = [active EXCEPT ![0] = @ \ {poll.handle}]
  /\ UNCHANGED <<readers, raised, path, ctl, calls, buffer, revents, history>>

DisableOneShot ==
  /\ poll.at = "write" /\ poll' = [poll EXCEPT !.at = "read"]
  /\ on' = IF path[poll.drv] = "active" THEN on \ {poll.handle} ELSE on
  /\ UNCHANGED <<readers, raised, path, active, ctl, calls, buffer, revents, history>>

\* readEvents() returns; more than the share, or than what is left, is an abort().
EndRead ==
  /\ poll.at = "read" /\ (poll.left = 0 \/ ~pendingEvent(poll.drv))
  /\ LET count == poll.count - (poll.share - poll.left) IN
     poll' = [poll EXCEPT !.count = count, !.loop = @ - 1, !.handle = "none", !.left = 0,
                          !.at = IF count < 0 THEN "aborted" ELSE "scan"]
  /\ UNCHANGED <<readers, hardware, active, ctl, calls, buffer, revents, history>>

\* poll() of all drivers, which waits when there is nothing to return.
PollFds ==
  LET readable == {d \in D : fd[d] # <<>>} IN
  /\ poll.at = "poll" /\ (buffer = <<>> => readable # {})
  /\ revents' = readable
  /\ poll' = [poll EXCEPT !.at = IF readable # {} /\ poll.count > 0 THEN "share" ELSE "parse"]
  /\ UNCHANGED <<readers, hardware, active, ctl, calls, buffer, history>>

\* Variant: the answer to a flush is only for sensors that are still active.
MutForFramework(e) == e.handle \in active[0]

ForFramework(e) == e.act = "flush" \/ e.handle \in active[0]

\* setEvent() of a driver that listens, which reports to its own pipe.
FedTo(d) == {i \in DOMAIN buffer : /\ buffer[i].act = "data" /\ buffer[i].handle = Is(d).from
                                   /\ buffer[i].handle \in active[d]}
Room(d) == PipeSize - Len(fd[d])
Feed(d) ==
  LET n == Cardinality(FedTo(d)) IN
  [i \in 1..(IF n > Room(d) THEN Room(d) ELSE n) |->
     Event(CHOOSE h \in Is(d).handles : TRUE, "data", sent[d] + i)]

\* parsePollData under mActiveConnectionsLock; pollEvent goes on when nothing is left.
ParsePollData ==
  LET data == {i \in DOMAIN buffer : ForFramework(buffer[i])} IN
  /\ poll.at = "parse"
  /\ fd' = [d \in D |-> fd[d] \o Feed(d)]
  /\ sent' = [d \in D |-> sent[d] + Len(Feed(d))]
  /\ buffer' = <<>>
  /\ poll' = IF data = {} THEN [Out EXCEPT !.at = "share", !.count = PollSize] ELSE Out
  /\ asked' = [h \in Handles |->
                 asked[h] - Cardinality({i \in data : buffer[i].act = "flush" /\ buffer[i].handle = h})]
  /\ armed' = {h \in armed : ~(h \in Is(DriverOf(h)).oneShot /\ \E i \in data : buffer[i].handle = h)}
  /\ UNCHANGED <<ring, hardware, active, ctl, calls, revents>>

Poller ==
  \/ ComputeCountForEachFd \/ ReadEvents \/ NoMoreDrivers \/ TakeEvent \/ NameOneShot
  \/ DisableOneShot \/ EndRead \/ PollFds \/ ParsePollData

Next ==
  \/ \E h \in Handles : Raise(h) \/ Flush(h)
  \/ \E h \in Handles, en \in BOOLEAN : Activate(h, en)
  \/ Control \/ PollEvent \/ Poller
Spec == Init /\ [][Next]_vars
\* The framework calls poll() again and again; it need not call anything else.
FairSpec == Spec /\ WF_vars(PollEvent \/ Poller) /\ WF_vars(Control)
-----------------------------------------------------------------------------
\* Where the events of a driver are in the poll buffer.
OfDriver(d) == {i \in DOMAIN buffer : buffer[i].handle \in Is(d).handles}

\* The reader neither loses, repeats nor reorders events on their way through its ring,
\* whose end is passed in the middle of a read() and whose array is twice its size.
EventsInOrder ==
  \A d \in D :
    LET way == Content(ring[d]) \o fd[d] IN
    /\ \A i \in DOMAIN way : way[i].n = sent[d] - Len(way) + i
    /\ \A i, j \in OfDriver(d) : i < j => buffer[i].n < buffer[j].n
    /\ \A i \in OfDriver(d) : buffer[i].n <= sent[d] - Len(way)

\* A reader is a queue behind its descriptor, step by step: fill() moves the oldest events of
\* the descriptor behind what the reader has, also beyond the end of its ring, next() takes
\* the oldest one, and nothing else that either thread does touches the reader.
ReaderStep(d) ==
  \/ ring'[d] = ring[d]
  \/ \E k \in 0..Len(fd[d]) :
       /\ Content(ring'[d]) = Content(ring[d]) \o SubSeq(fd[d], 1, k)
       /\ fd'[d] = SubSeq(fd[d], k + 1, Len(fd[d]))
  \/ Content(ring[d]) = <<ring[d].cells[ring[d].curr]>> \o Content(ring'[d])
ReadersAreQueues == [][\A d \in D : ReaderStep(d)]_vars

\* The shares of the drivers fit in the poll buffer in every turn of pollEvent, also when
\* fewer places are left than drivers have events: its abort() is never reached.
SharesFit == poll.at # "aborted" /\ Len(buffer) <= PollSize

\* A one-shot sensor that the framework has activated is on in the hardware, or the event
\* that switched it off is on its way to the framework: stale events of an earlier
\* activation, read after the next one, switch it off only when they are also reported.
OneShotStaysArmed ==
  \A h \in armed : h \in Is(DriverOf(h)).oneShot /\ (\A i \in DOMAIN ctl : ctl[i].handle # h) =>
    h \in on \/ \E i \in DOMAIN buffer : buffer[i].handle = h

\* Every flush is answered, also when the sensor is deactivated meanwhile and when the
\* answer waits in a reader whose descriptor has nothing more: "important to update fd
\* revents which sensor data pending in buffer" (pollEvent).
FlushIsAnswered == \A h \in Handles : asked[h] > 0 ~> asked[h] = 0
=============================================================================
