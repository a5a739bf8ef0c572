# TLA+ models of the MT8163 vendor tree

The repository is the vendor tree of an Android device: some twenty HALs,
daemons and tools, most of them a thin layer over a file of sysfs. The ones
that keep state, run several threads or share a device between several clients
are modelled here; their safety and liveness is model-checked by TLC on small
instances. Every invariant and action property of the passing runs, in each of the eight
modules that have runs, is also proved by TLAPS for every value of the parameters
(section 4 has the hypotheses); what stays with TLC alone is liveness.

Paths below are relative to `src/proprietary/`.

## 1. The system

| Component | State it keeps | Operations | Who it talks to |
|---|---|---|---|
| **Bluetooth service and state machine** `hardware/interfaces/bluetooth/{bluetooth_hci.cc,service.cpp}`, `mediatek/hci_hal_{state_machine,msg_handler}.cc` | death recipient and `unlink_cb_`; the looper and its queue; `current_state_`, `cb_`; `g_vendor_interface` | `initialize`, `close`, `serviceDied` on binder threads; `kOnMsg`, `kOffMsg` on the looper thread; `firmware_config_cb` on a thread of the vendor library | binder clients, the vendor library, `VendorInterface` |
| **Vendor interface, low power, watcher** `vendor_interface.cc`, `async_fd_watcher.cc` | `running_`, `watched_fds_`, `timeout_ms_`, `timeout_cb_`, the notification pipe; `lpm_wake_deasserted`, `lpm_timeout_ms`, `recent_activity_flag` | `Open`, `Close`, `Send`, `OnTimeout`, `OnFirmwareConfigured`, `ConfigureTimeout`, `WatchFdForNonBlockingReads`, `StopWatchingFileDescriptors`, `ThreadRoutine` | state machine above, packetizer below |
| **Packetizer and H4** `hci_packetizer.cc`, `h4_protocol.cc`, `hci_protocol.cc` | `state_`, `preamble_`, `packet_`, `bytes_read_`, `bytes_remaining_`, `hci_packet_type_` | `OnDataReady`, `OnPacketReady`, `Send` | watcher above, UART below |
| Bluetooth debugger ring `mediatek/hci_hal_debugger.cc` | ring of recent packets | add, dump | `Send` and the packet callbacks |
| MCT transport, address `mct_protocol.cc`, `bluetooth_address.cc` | two packetizers | as H4 | used instead of H4 when the vendor library opens several descriptors |
| **USB HAL** `hardware/interfaces/usb/Usb.cpp` | callback, `mPartnerUp`, three locks and a condition variable, `destroyThread`, the worker | `switchRole`, `setCallback`, `queryPortStatus`, contaminant calls; worker: `uevent_event`, `sighandler` | framework, kernel uevents, `/sys/class/typec` |
| **Remote submix** `hardware/audio_remote_submix/audio_hw.cpp` | ten routes: address, output, input with reference count, `MonoPipe` pair, rate, masks | `adev_open/close_{output,input}_stream`, `out_write`, `in_read`, standby, `exiting`, positions | a playback thread per address, recording threads |
| **Sensor multiplexer, fusion, direct channels** `hardware/sensor/Sensor{Manager,Context}.cpp`, `Fusion.cpp`, `DirectChannelManager.cpp`, `sensors.cpp` | parameters per sensor and connection, best parameters, `mActivationCount`; `accEnabledCount` and best period; channels, rate levels | `activate`, `batch`, `flush`, `getSensorsList`, `registerDirectChannel`, `configDirectReport`, `poll` | framework, drivers (sysfs nodes), direct channel memory |
| **Sensor drivers and event readers** `SensorEventReader.cpp`, `Acceleration.cpp`, `StepCounter.cpp`, `WakeUpSet.cpp`, ... and the poll loop of `SensorContext.cpp` | each reader's ring and descriptor or pipe, `mEnabled`, `input_sysfs_path`, the poll buffer, active handles per connection | `readEvents`, `enable`, `flush`, `setEvent`; `pollEvent`, `parsePollData` | the poll thread, the thread of the calls, sysfs |
| **WiFi registry and event loop** `hardware/connectivity/wlan/wifi_hal/{wifi_hal,common}.cpp` | `event_cb[]` under `cb_lock`, `cmd[]` under no lock, `mRefs` of each command, sockets, `clean_up` | register/unregister of handlers and commands, dispatch, `wifi_cleanup` | the framework's thread, netlink |
| **WiFi gscan, rtt** `gscan.cpp`, `rtt.cpp` | scan, hotlist, change, ePNO, passpoint, RSSI and ranging commands | start, cancel, handleEvent | the registry |
| wpa_supplicant driver commands | none | one request each | netlink |
| Lights `hardware/liblights/` | state per light under one lock | `set_light` | sysfs |
| Thermal daemon, HAL, manager `external/thermal*`, `hardware/thermal` | last reported temperatures | poll, retry | modem sockets, sysfs |
| Power, Health, camera parameters, small tools | none or strings | one write or print each | sysfs |
| libudf recorders `external/libudf/` | tables of allocations, descriptors and maps | record, dump | debug builds |
| Build files, OpenMAX and kernel headers | none | none | |

The components in bold are modelled. `PROJECT.json` lists all of them with their
sources and, where one is not modelled, the reason.

### What is hard in each, and what makes it correct

* **Bluetooth service.** Several binder threads run multi-step calls at once and
  the results are queued; a client may die, with its notification, at any moment;
  firmware download ends on another thread. Correct when requests take effect in
  order, the vendor interface's life follows the state machine, every session
  is answered once, and a death turns the controller off.
* **Watcher and low power.** No lock protects the timer flags; the watcher may be
  asleep on old ones. Correct when a change always reaches `select()`, a stopped
  timer never fires its replaced callback, data is read, and `Close` returns.
* **Packetizer.** A packet arrives in any number of reads. Correct when packets
  come out whole, in order and as soon as they are complete.
* **USB.** A wait on a condition variable against a worker's signal; a `trylock`
  that keeps the worker off a port; a thread stopped with a POSIX signal, which it may
  miss, and joined under a lock. Correct when no signal is lost, a switch is left alone and
  answered, and the worker goes with its callback.
* **Remote submix.** `out_write` and `in_read` leave the lock while they use the
  pipe; two streams share it and either may close first. Correct when every open
  stream has a pipe, routes are freed with their last stream, and a write is
  held up only by an open input.
* **Sensors.** Three kinds of client share a driver by minimum and count, one of
  them being itself a driver; driver calls fail half way; the framework restarts
  while the HAL lives on. Correct when nobody is slowed down or switched off by
  another, and counts and levels are right at all times.
* **Sensor events.** The poll buffer is shared out among the drivers again in every
  turn of the loop; a reader's ring is filled past its end and folded back; what a
  reader keeps is unknown to `poll()`; the poll thread switches one-shot sensors off
  while the other thread switches them on; some drivers compute their events from
  those of others through a pipe. Correct when no event is lost, repeated or
  reordered, the shares fit, a stale event does not disarm a sensor, and every flush
  is answered.
* **WiFi registry.** Handlers are added and removed under `cb_lock`, commands are not;
  the event loop calls back into commands that the other thread may cancel or that
  end themselves; `wifi_cleanup` waits for the loop's "Done" without a timeout, and
  the loop looks at the cleanup socket only when no event waits. Correct when no
  deleted command is used, none is leaked, a running command hears its events, and
  the cleanup returns. When a cleanup socket fails, `wifi_cleanup` goes on beside the
  loop ("Not much can be done in that case", `wifi_hal.cpp:360`), and nothing is promised.

`PROJECT.json` has the hazards line by line under "hazards", each with the
properties that would catch it or the reason why none does yet.

## 2. The modules

Every module declares its parameters as CONSTANTS with a named assumption, has
one action per operation or per step between two accesses that another thread
may see, and ends with its properties. A definition called `Mut...` (or
commented "Variant") is a plausible bug: it stands next to the definition it
changes and is used by no specification, only to show that a property notices.
Each `MC*` module instantiates one of them for TLC. "map" in `PROJECT.json`
names the source lines behind every definition.

### `BtPowerSwitch` and `BtStateMachine`

`BtStateMachine` is the Bluetooth service in its `MTK_BT_HAL_STATE_MACHINE`
build. Its actors and their steps:

* *main thread, looper start*: `StartLooper`, `PrepareLooper`, `PostSemaphore`,
  `Serve`: `StartThread`'s handshake, before the service is registered.
* *binder threads*: `initialize()` is `CallInitialize`, `LinkToDeath`,
  `InitHciCallbacks`, `Transit`; `close()` is `CallClose`, `Unlink`, `Transit`;
  `serviceDied` is `ServiceDied`, `Unlink`, `Transit`. They share the one death
  recipient and the one `unlink_cb_`, as in the code. Any number of threads runs
  them, interleaved. `ClientDies` is a client's process going at any time.
* *looper thread*: one action per message and state. `kOnMsg` in `On` is two
  steps, `HandleDoubleOn` and `RestartAfterDoubleOn`, because binder threads see
  the moment between `Off()` and `On()`.
* *vendor library*: `FirmwareConfigured`, which may fail and end the process.

`lastReq`, `answers` and `waiting` are history variables for the properties.
`BtPowerSwitch` is the abstract promise: requests take effect one at a time, in
order, a second "on" leaves the controller on. `ImplementsPowerSwitch` says that
`BtStateMachine` implements it with `pending <- queue` and power on when there is
a vendor interface or a double on is under way.

### `BtLowPower`

One session of `VendorInterface`: the watcher thread's loop (`Watcher`, one step
per access of a shared variable), `Send` on binder threads, `OnFirmwareConfigured`
on the vendor library's thread, `Open` and `Close` on the looper. `armed` and
`timeoutCb` are written together, as `ConfigureTimeout` does under
`timeout_mutex_`; `pipe` counts the bytes of the non-blocking notification pipe.
`recent_activity_flag`, `lpm_wake_deasserted` and the wake line are three
separate variables because no lock protects them. It composes with
`BtStateMachine` at `Open` and `Close` (`TurnOn` and `Shutdown` there) and with
`HciH4` at the callback of a readable descriptor.

### `HciH4`

`ReadType`, `ReadPreamble(n)`, `ReadPayload(n)` and `ReadNothing` are one
`OnDataReady` each: a `read()` that returns `n` bytes of those that have arrived.
`ReadFails` is any
error of `read()` but `EAGAIN` and ends the process. `Arrive(n)` and `HangUp` are the controller. Bytes are real numbers of the
stream, with the code's offsets and its two-byte little endian length for ACL
data, and payloads are made to look like packet types, so that a packetizer out
of step is seen to deliver something else.

### `UsbHal`

`service.cpp` sets no additional binder threads, so calls are served one at a
time by `BinderStep`; `WorkerStep` is the thread of `setCallback`. The three
mutexes are variables that hold their owner. `switchMode` is cut at every point
at which the worker can come in: the write of `port_type`, the release of
`mPartnerLock` inside `pthread_cond_timedwait`, the timeout, the re-acquisition.
The worker's turn is `CheckDestroy` (the test of `destroyThread`), `EnterEpoll`, and one of
`Receive`, `Discard` (a message that is too long, or a failed `recv`) and `EpollFails`,
which ends the thread. `HandleSignal` may run between any two steps of the worker: it
interrupts an `epoll_wait` that sleeps, and not one that is about to begin, so between
`CheckDestroy` and `EnterEpoll` the signal is lost. `WritePortType`
may not land: `fputs` fills a buffer, and the kernel's refusal is an error of
`fclose` that nobody reads. Calls that only notify are one operation, `answer`.
`landed`, `partnerAdded` and `missed` are history.

### `RemoteSubmix`

Streams, routes and pipes. Calls under the device lock are one step;
`out_write` is `StartWrite`, `WritePipe` (which may sleep), `FinishWrite`, and
`in_read` is `StartRead`, `FinishRead`. A pipe is an object with an identity,
because a writer or a reader holds a reference to one that the route may have
replaced. Frames are counted in buffers of one transfer.

### `SensorManager`

`service.cpp` gives the HAL two threads, and `poll()` blocks in one of them, so
the other calls are serial and each is one step. What the module keeps is the
layering: the framework, direct channels and the fusion driver are three clients
of the manager (`AccBatch`, `AccEnable`, `AccDisable`), the fusion driver is
itself a driver under it (`FusionRequest`, `FusionEnable`, `FusionDisable`), and
a call at the top runs all the way down in one step, as it does in the code.
`fails` chooses which driver calls of the step fail; `GetSensorsList` is a
framework that restarts. One physical sensor stands for the three the fusion
driver uses.

### `SensorEvents`

Two threads: `Control` is what is left of an `activate` or `flush` (`ctl`, a list of
steps), `Poller` is the poll thread. `Activation` unrolls `SensorManager::activate`
down to the drivers: a driver with a pipe has no node and activates what it computes
from. A node is written in two steps, `NameNode` and `WriteNode`, because its name
is put together in a buffer that the poll thread uses as well (`NameOneShot`,
`DisableOneShot`). The poll thread takes one event per step: `ComputeCountForEachFd`
shares out the buffer, `ReadEvents` fills the ring, `TakeEvent` takes from it,
`EndRead` accounts for what the driver returned, `PollFds` may wait, and
`ParsePollData` distributes to the framework and to the drivers that listen
(`Feed`). `Driver` gives fourteen drivers by what tells their `readEvents` apart:
handles, one-shot handles, events that are kept for calibration, and what they are
computed from. `asked` and `armed` are history.

What the module assumes and the code does not enforce:

* `Apart`: the two threads are not in one driver's `input_sysfs_path` at once. Without
  it a flush, or the disabling of a one-shot sensor, goes to another node;
  `FlushIsAnswered` is then violated. `OneShotStaysArmed` does not need it (section 4).
* A device that has nothing returns nothing to `read()`, and a one-shot sensor that
  has fired is activated again by the framework without a deactivation (external).
* Pipes do not fill (`PipeSize` is larger than the events there can be): `writeEvent`
  only logs an event that a full pipe refuses, and a flush lost in that way is never
  answered.

### `WifiRegistry`

The framework's calls run one at a time (`Requester`), the event loop beside them
(`EventLoop`). Each command class is a record of two scripts, its `start()` and its
`cancel()`, with the steps that matter: `Register`, `Unregister`, and requests to
the driver, which may refuse any of them. Each step is an action, and so is each half
of the unlocked changes of `cmd[]` and `num_cmd`: `Start` and `CountCmd`, `Shift`
and `Shrink`, `LoopShift` and `LoopShrink`. `StoreNumCmd` lets such a change be
lost. `wifi_cleanup` is `Cleanup`, `ReadDone`, `Sweep`, `FreeInfo`; a command whose
`mRefs` falls to zero is deleted. `phase` is history.

A socket of the cleanup may fail. `WriteFails` is the write of "Exit" (`wifi_hal.cpp:354`)
and `ReadFails` the read of the answer (364): the code then sets `clean_up` as a fallback and
sweeps and frees without the event loop, which goes on until it sees the flag (`NextTurn`)
or reads "Exit" after all. From then on `Blind` holds. The steps of both threads are
modelled up to the end of `hal_info`; what the loop does without it, and what a thread
does with a command that the other has deleted, is undefined in the code and not followed.
`DoneFails` is the failed write of "Done" (468): the loop has left, and `wifi_cleanup`
waits for ever ("mute").

Assumed of the framework, and not enforced by the code:

* Request ids are unique, so a command stands for its id.
* `Sharing`: it does not start two commands that wait for the same event (a scan and full
  scan results do), and does not cancel by its id a command that was stopped with the id
  -1, and is still in `cmd[]`, while another waits for its events. A handler is removed by its event and not by its command
  (`common.cpp:135`), so the second one could lose its handler to the first, also
  through a start that fails before it has registered anything (`gscan.cpp:1119`,
  `gscan.cpp:1338`).
* `Overlap`: no other call is made while a ranging request is outstanding or
  its results are handled. Results end the request on the event loop, which then
  changes `cmd[]` against the other thread: run `wifi_cmd_race`.

`MayCall`, `MayTouch` and `MayStart` are these assumptions; they are guards of the
framework and not of the code.

The module keeps other oddities of the code as they are: the ranging handler is registered
after the request was sent (`rtt.cpp:475`), so results may find nobody; stops without
an id, and ranging that is cancelled, leave the started command in `cmd[]` until the
cleanup or a cancel by its id (`rtt.cpp:651`, `gscan.cpp:743`); a result that finds no
memory ends its request like the last one (`rtt.cpp:553`); a late result may end a newer ranging
request (`rtt.cpp:608`).

## 3. The runs

| Run | Instance | Result |
|---|---|---|
| `bt_state_machine` | 2 clients, 2 binder threads, 3 calls; 169 000 states | `ShutdownFindsInterface`, `PowerFollowsLastRequest`, `LooperReadyForMessages`, `OneAnswerPerSession`, `InitializeIsAnswered`, `DeathTurnsOff`, `ImplementsPowerSwitch` hold |
| `bt_low_power` | 2 senders, pipe of 2; 192 000 states | `ChangesReachSelect`, `ZeroTimeoutNeverFires`, `DataIsRead`, `CloseReturns` hold |
| `bt_wake_flag` | 1 sender | `WakeFlagIsTrue` fails |
| `hci_h4` | payloads of 1 to 3 bytes, 2 packets, weight 3 of the high byte | `DeliveredInOrder`, `FatalOnlyAtEof`, `ArrivedIsDelivered` hold |
| `usb_hal` | 2 ports, 2 partner events, queue of 2, 1 spurious wakeup; 579 000 states | `PartnerSignalKept`, `SwitchUndisturbed`, `ReportedIsCurrent`, `SwitchIsAnswered` hold |
| `usb_destroy` | 1 port, 1 event | `DestroyEndsWorker` fails |
| `submix` | 2 addresses, 2 recording clients, 2 routes, 2 rates; 1.6 million states up to symmetry | `StreamHasPipe`, `RoutesFollowStreams`, `InputCounted`, `WriteWaitsForInput`, `OpenInputHears` hold |
| `sensors` | 2 fusion sensors, 2 channels, 2 periods around the minimum; 124 000 states | `NobodyIsSlowed`, `OffOnlyWhenUnused`, `OffWithoutClients`, `FusionCounted`, `FusionIsServed`, `DirectLevelKept` hold |
| `sensors_unregister` | the same | `RemovedChannelIsGone` fails |
| `sensor_events` | accelerometer, step counter with significant motion, wake-up steps; ring of 2, poll buffer of 3, 3 events, 3 calls; 394 000 states | `EventsInOrder`, `ReadersAreQueues`, `SharesFit`, `OneShotStaysArmed`, `FlushIsAnswered` hold |
| `wifi_registry` | scan, ePNO, ranging; 3 commands, table of 2, 2 events, cleanup sockets that may fail; 1.2 million states | `NoUseAfterFree`, `ReferencesCounted`, `RunningIsHeard`, `CleanupReturns` hold until a cleanup socket fails |
| `wifi_cmd_race` | one command started while ranging results are handled | `SavedHoldsReference` fails |

Type correctness of the Bluetooth modules, of `UsbHal` and of `RemoteSubmix` is proved
(section 4) and not run.

### What the failing runs show

* `bt_wake_flag`: `OnTimeout` sets `lpm_wake_deasserted`, deasserts wake and
  disarms the timer in separate steps. A `Send` between the first two clears the
  flag and asserts wake, and `OnTimeout` then deasserts it. The flag stays false
  with wake deasserted, which its comment (`vendor_interface.cc:47`) rules out,
  and no later `Send` asserts wake.
* `usb_destroy`: the signal of `setCallback(NULL)` comes after the worker's test of
  `destroyThread` and before `epoll_wait`, which sleeps on with the flag set. A partner's
  message then wakes the worker, which needs `mLock` to report a status; but
  `setCallback` holds `mLock` over its join. Each half is enough on its own: without a
  message the worker sleeps for ever, and a signal that comes while the worker waits for
  `mLock` does not help it.
* `wifi_cmd_race`: `wifi_cleanup` says "release reference added when command is saved"
  (`wifi_hal.cpp:397`). A command that registers between the two halves of the
  event loop's `wifi_unregister_cmd` falls out of the counted part of `cmd[]`, and
  the ranging command, which is then deleted, stays in it.
* `sensors_unregister`: `ID_OFFSET` is taken off a channel handle on removal and
  on no other path, so another channel's record is removed.

### Bounds, and why they are enough

* *Bluetooth.* Two clients and two threads are needed for a request of one client
  to overtake another's and for a death in the middle of a call. Three calls give
  on-on-off, on-off-on and two sessions with a death between; deaths are not
  counted against the bound.
* *Watcher.* The pipe of 2 fills with two senders, so a refused notification
  happens; two descriptors are what the session watches.
* *H4.* With 3 as the weight of the high length byte, a length of 3 needs both
  bytes. Two packets show a packetizer that does not reset. Payloads of no bytes are left
  out: the process dies of them (section 4, `DeathIsAtEof`).
* *USB.* Two events give a partner that comes and goes during one switch, and two
  ports a worker that resets one while the other is switched. A queue of 2
  does not overflow in this instance except when the worker is not there yet; a
  change without a message is covered by `missed`.
* *Submix.* A pipe of one buffer is full after one write, so every later write
  has to wait or flush. Two routes are exhausted by two addresses; two rates
  cause a pipe to be replaced under the other stream.
* *Sensors.* Periods lie on both sides of the minimum delay and of the two rate
  levels, so that every client can be the fastest in turn; two fusion sensors
  share one connection by count; two channels are needed for the rate level to
  outlive one of them.

* *Sensor events.* A ring of 2 is passed in the middle of a read; 3 places for three
  drivers give shares of 1, and a turn of the loop with fewer places than drivers.
  Three calls are activate, flush, deactivate, or a one-shot sensor that is activated
  again before its event was read; three events fill the ring and leave one in the
  device.
* *WiFi.* Three commands on a table of two meet a full table. Two events suffice for a
  result that is late for its request and one for the next. The three kinds have the
  forms of script there are: handlers before the request or after it, undone by a
  refusal or not, one event or several, a cancel that asks the driver first or last.
  What the proofs say holds for all eight.

Names of threads, clients and rates are used only for equality. `submix` uses
that as a symmetry, and a `VIEW` that forgets the number of a pipe: pipes are
told apart by who holds them. `submix` checks safety only, for which both
are sound. `CHECK_DEADLOCK FALSE` is set where the system may stop for good: a
service that ended itself, a session that closed, bounded calls that are used up,
the deadlock of `usb_destroy`, a HAL that was cleaned up. `sensors` checks for deadlock.

### Fairness

* `bt_state_machine`: the looper, a binder thread in the middle of a call, the
  delivery of a death notification and the vendor library's callback happen when
  they can. Nothing obliges a client to call. Each thread is weakly fair on its own;
  that is what the scheduler gives.
* `bt_low_power`: the watcher, senders in a `Send`, the firmware callback, `Open`
  and a `Close` that has begun. A `select()` with a timeout returns in the end.
* `hci_h4`: the watcher reads what is readable. The controller may stop, and a read may fail.
* `usb_hal`, `usb_destroy`: both threads run and a signal that was sent is
  delivered; the wait on the condition variable times out in the end. Calls,
  partners and signals of partners are not fair.
* `sensor_events`: the framework calls `poll()` again and again, which is what its
  thread does, and a call that has begun goes on. Nothing else need be called, and the
  hardware need not raise anything.
* `wifi_registry`: a call that has begun and the event loop go on. The driver is
  not fair; it sends a bounded number of events, so that the event socket is empty at
  some time, without which the loop never looks at the cleanup socket. `CleanupReturns`
  speaks of cleanups whose sockets do not fail.
* Faults (`EpollFails`, `Discard`, `SocketFails`, refused requests, failing driver calls) may
  happen and need not: none has fairness of its own.
* `submix` and `sensors` check safety, without fairness.

## 4. What is proved

Most proof modules have one inductive invariant `IInv`, the lemmas `InitEstablishes`,
`StepPreserves` and `Invariance` (`Spec => []IInv`), with lemmas per actor or per
operation below `StepPreserves`, and the theorems that follow from `IInv`. Where a
property needs more, a further invariant stands on top of the first: `QueryInv` in
`UsbHal_proofs`, `RingInv`, `CallInv`, `OrderInv` and `ArmInv` in `SensorEvents_proofs`,
`SInv` in `SensorManager_proofs`. `HciH4_proofs` has one,
`HInv`; `WifiRegistry_proofs` has `RInv`, which every step keeps unless it fails a socket. Nothing is assumed but the named assumptions on the constants and the
hypotheses that a theorem states, and no theorem uses fairness.

Three of the arguments need induction: over the packets of a stream, over the list
that `getSensorsList` goes through, and over the nodes of a computed sensor. Each is
over a recursive function on `1..n`, and is led as an induction over a set of numbers:
`SetInduction` (in `HciH4_proofs`, `SensorManager_proofs` and `SensorEvents_proofs`) follows
from the library's least element of a well-founded order, `WFMin`.

### `BtStateMachine_proofs`

It proves, for every set of clients and of binder threads and
every bound on calls (`ClientAssumption`: `None` is not a client and the bound is a
natural number):

| Theorem | Statement |
|---|---|
| `TypeCorrect` | `Spec => []TypeOK` |
| `LifecycleSafe` | `Spec => []ShutdownFindsInterface` |
| `PowerIsLastRequest` | `Spec => []PowerFollowsLastRequest` |
| `LooperSafe` | `Spec => []LooperReadyForMessages` |
| `AnsweredOnce` | `Spec => []OneAnswerPerSession` |
| `Refinement` | `Spec => ImplementsPowerSwitch` |

The properties are not inductive. `PowerFollowsLastRequest` speaks of an empty queue
only, and says nothing of the state from which the last message was taken;
`ShutdownFindsInterface` says nothing of the states from which the abort is one
step away. `IInv` strengthens them with four parts:

* `BootInv`: until `HIDL_FETCH` has returned, nothing was asked of the HAL, and it
  returns only after the looper exists. From this `LooperReadyForMessages`.
* `LifecycleInv`: between messages `current_state_` is `On` exactly when there is
  a vendor interface, and in the middle of a double on there is none. This is what
  makes `Shutdown` find one, whatever the order of messages.
* `RequestInv`: the last request is the last of the queue or, with the queue empty,
  the one that `current_state_` obeys. With `LifecycleInv` it gives
  `PowerFollowsLastRequest`.
* `AnswerInv`: a session that is configuring has not been answered, one that is
  ready or has failed was answered once.

The actors' lemmas are `LooperPreserves`, `BinderPreserves` and `StartUpPreserves`;
`QueueFacts` is what they need of sequences. `StepRefines` shows that every step maps to `Ask`,
`TakeEffect` or a stutter of `BtPowerSwitch` under `IInv`.

### `BtLowPower_proofs`

For every set of senders and every pipe that holds at least one byte
(`PipeAssumption`):

| Theorem | Statement |
|---|---|
| `TypeCorrect` | `Spec => []TypeOK` |
| `ChangesAreSeen` | `Spec => []ChangesReachSelect` |
| `NoZeroTimeout` | `Spec => []ZeroTimeoutNeverFires` |

`ChangesReachSelect` is inductive as it stands, given that a notification leaves a
byte in the pipe even when there was no room for its own (`Notified`): here the
assumption on the pipe is used. `ZeroTimeoutNeverFires` needs more: `TimerInv` says that the
callback that must not run is set only with the timer off, in one locked section,
and `FirmwareInv` that the firmware callback, which turns the timer on, has not
run before `Open()` asked for the download.

### `UsbHal_proofs`

For all ports, modes and bounds (`UsbAssumption`: no mode is called `"dual"` or
`"none"`, and the bounds are natural numbers):

| Theorem | Statement |
|---|---|
| `TypeCorrect` | `Spec => []TypeOK` |
| `SignalIsKept` | `Spec => []PartnerSignalKept` |
| `SwitchIsUndisturbed` | `Spec => []SwitchUndisturbed` |
| `WorkerGoesWithCallback` | `Spec => []WorkerOnlyWithCallback` |
| `StatusIsCurrent` | `Spec => []ReportedIsCurrent` |

`WorkerOnlyWithCallback` is proved and not run. It and the two before it
hold because of who has which lock at which step, so that is the core of `IInv`:

* `LockInv`: `mRoleSwitchLock` belongs to the binder thread from its request to
  the answer and to the worker while it looks at the ports; `mPartnerLock` belongs
  to the binder thread from before the write to its answer, except in the wait.
* `CallInv`: the arguments of a switch, which type the port that is written.
* `SignalInv`: a partner that came since the write is in `mPartnerUp` when the
  binder thread looks. `PartnerSignalKept` follows.
* `SwitchInv`: `landed` speaks only of a switch in progress; with `LockInv` the
  worker is then not at a port.
* `WorkerInv`: a worker is created only when there is none.

`StatusIsCurrent` needs its own invariant, `QueryInv`. Two threads read the status and
report what they read; a partner may change in between. `NotifyLockInv` says that `mLock`
is held from the reading to the report, so at most one status is on its way.
`StatusInv` says that this status, or with none on its way the one reported last, has
the partners there are, or something is `Due`: a uevent in the queue, the worker's turn to
query, or a message that was lost. A change of a partner makes one of them true, and only
the worker's own reading takes the last one away.

### `RemoteSubmix_proofs`

For any finite sets of addresses and recording clients, any number of routes, any rates
and any size of a pipe (`SubmixAssumption`):

| Theorem | Statement |
|---|---|
| `TypeCorrect` | `Spec => []TypeOK` |
| `PipeIsThere` | `Spec => []StreamHasPipe` |
| `RoutesAreFreed` | `Spec => []RoutesFollowStreams` |
| `CountIsExact` | `Spec => []InputCounted` |
| `NoIdleWait` | `Spec => []WriteWaitsForInput` |
| `InputHears` | `Spec => []OpenInputHears` |

`IInv` is the conjunction of all of them with `HandleInv` (a closed handle refers to no
pipe, a transfer under way to one) and `SinkInv`: the pipe that a writer holds is its route's
own, or was shut down and taken off the route. The last is why a writer never
sleeps on a pipe that nobody reads: a pipe is replaced or released only after
its shutdown. The properties hold one another up: that a route is freed at the right
moment rests on the count of its input, the count on the route that a client has, and
the pipe on both. A new pipe must not be one that somebody still holds after its route
gave it up. `FreePipeIsFree` shows that there is one, by counting: routes, writers and
readers refer to at most one pipe each, and the stream that is being opened to none.

### `SensorManager_proofs`

For any sensors, periods, number of channels and choice of failing driver calls
(`SensorAssumption`: finitely many fusion sensors, a list of sensors that names each of
them, and the periods of the two rate levels in order below the longest period):

| Theorem | Statement |
|---|---|
| `DirectLevelIsKept` | `Spec => []DirectLevelKept` |
| `NobodyIsEverSlowed` | `Spec => []NobodyIsSlowed` |
| `OffMeansUnused` | `Spec => OffOnlyWhenUnused` |
| `IsOffWithoutClients` | `Spec => []OffWithoutClients` |
| `FusionIsCounted` | `Spec => []FusionCounted` |
| `FusionIsAlwaysServed` | `Spec => []FusionIsServed` |

The rate level that `DirectChannelManager` keeps beside the channels' own is at least that of
each channel, and is cleared with the last that reports. It need not be the fastest of
them: `stopAllDirectReportOnChannel` (190-206) merges only a sensor that it leaves without
channels, so when the fastest of two channels goes the level stays. `MaxLevelFacts` is
what `mergeDirectReportRequest` computes.

The rest is about calls that run from the framework through the fusion driver down to
the accelerometer. `Good` is what holds between any two of the calls inside one step,
whichever driver call fails: `AccServed` (the best parameters are those of the connections,
and the period is no longer than any of theirs), `FusionOwn` (a fusion sensor has only
the framework's parameters, which its driver knows) and `IdleReleases` (with no fusion
sensor counted, the fusion driver has given the accelerometer back). Without a failed
call there is more: the fusion driver asks for the best period of what it counts
(`BestIsAsked`), and the accelerometer is on only with clients. Each operation has a lemma
that says which of this it keeps; `SInv` joins them to what the framework has done
(`FrameworkKnown`, `FusionCounted`). `getSensorsList` cancels sensor by sensor along the
whole list, which is the induction.

### `HciH4_proofs`

For any payload lengths, any number of packets and any base of the length field
(`StreamAssumption`):

| Theorem | Statement |
|---|---|
| `PacketsAreDelivered` | `Spec => []DeliveredInOrder` |
| `DeathIsAtEof` | `0 \notin Lengths => (Spec => []FatalOnlyAtEof)` |

The argument has two parts. `LayoutExists`: there is a function `off` such that the bytes of
packet k + 1 lie behind `off[k]` in the stream, by induction over the packets. And
`HInv`: the reader is, in that layout, where the packets it has delivered and what it has
read of the next one say (`Between`, `InPreamble`, `InPayload`), and has stored just those
bytes. Then the length it computes from the preamble is that of the payload, a type byte
is read only where there is one, and what it delivers is the next packet. The
hypothesis of `DeathIsAtEof` is real: for a payload of no bytes `OnDataReady` calls `read()`
with length 0, takes the 0 for the end and dies, with the descriptor open.

### `SensorEvents_proofs`

For any drivers, any size of ring and pipe and any poll buffer with a place for each driver
(`EventsAssumption`):

| Theorem | Statement |
|---|---|
| `SharesAlwaysFit` | `Spec => []SharesFit` |
| `ReaderIsQueue` | `Spec => ReadersAreQueues` |
| `FillAppends` | `fill()` of a well-formed reader appends what was read to its content |
| `AdvanceTakesHead` | `next()` takes the oldest event and leaves the rest |
| `EventsStayInOrder` | `Spec => []EventsInOrder` |
| `OneShotIsKept` | `Spec => []OneShotStaysArmed` |

`SharesAlwaysFit` is why `pollEvent` never reaches its `abort()` for what its drivers return
and it accounts for (a negative return is not modelled, section 5). `ShareInv` counts what is
in the buffer, what was accounted for and what the driver in progress has taken, and says
that the turns left times a share fit in what is left; the division that rounds
down and the last driver's remainder are `DivisionFacts` and `TurnFacts`.

`ReaderIsQueue` is the abstract specification of `SensorEventCircularReader`: a queue
behind its descriptor. A read may pass the end of the ring into the second half of
the buffer, from where it is copied to the front. `WellFormed` relates head, read
position and free space, `FilledCells` says what is in every place after a read, `Behind` and
`Before` which places those are, and `FillAppends` follows place by place. `RingInv` carries
`WellFormed` through every step of both threads.

`EventsStayInOrder` stands on it. `Ordered` says of one driver that the numbers on its way
(ring and descriptor) go up by one to the last one sent, and that the buffer has only
earlier ones, going up; there is one lemma for each thing that can happen to a way:
`OrderedGrows` (an event is sent), `OrderedTaken` (the oldest is taken),
`OrderedReported` (and reported), `OrderedEmpty` (the buffer is parsed). That an event is
counted for its own driver only needs handles that name one driver
(`EventsAssumption`, and the code: one of the two gyroscopes is `mSensors[gyro]`), and
that a call's steps concern a handle of the driver they go to (`CallInv`).

`OneShotIsKept` does not need `Apart`: it also holds when both threads put their node's
name together at once, since the one name that the poll thread writes there is the one an
activation needs. `Kept` says where an armed sensor is: its activation is at one of three
places, and from the second on it is heard, at the third with the right name; or no call
speaks of it, it is heard, and it is on or its event is in the buffer (`Coming`). What the
poll thread switches off is always `Coming`, and `parsePollData` gives a sensor that is
heard to the framework, which disarms it. No other driver listens to a one-shot sensor
(`OneShotFacts`, `NoOthers`), so each activation reaches the node.

### `WifiRegistry_proofs`

For any commands, tables and bounds (`RegistryAssumption`, and `KindsAssumption`: the
commands the framework uses are ones there are):

| Theorem | Statement |
|---|---|
| `ReferencesAreCounted` | `~Sharing /\ ~Overlap => (Spec => []ReferencesCounted)` |
| `NothingIsUsedAfterFree` | `~Sharing /\ ~Overlap => (Spec => []NoUseAfterFree)` |
| `RunningCommandsAreHeard` | the same hypotheses and `Cardinality(Used) <= CbSlots`: `Spec => []RunningIsHeard` |

They hold for a framework that neither starts nor cancels commands whose events an
outstanding one has, nor makes calls beside a ranging request; `wifi_cmd_race` shows
what happens without the latter. And they hold up to the step in which a failed socket
lets `wifi_cleanup` go on beside the loop: each of the three properties is `Blind` or its
statement, `BlindStays` says that `Blind` is for good, and `RegistryInvariance` is
`Spec => [](Shapes /\ (Blind \/ Sound))`, where `Sound` is `RInv` and `Completed` (a ranging
command that the loop releases has ended). `RInv` has one part for each table and thread:

* `Threads`: what each place of a thread means, above all that the loop ends a ranging
  command only where the other thread is not at `cmd[]` (with `Ranging`).
* `Table`: `cmd[]` without the entry that is being taken out (`Size`) has each command
  once, and every command that is starting, runs or was stopped.
* `Phases`: which call a starting or an ended command belongs to.
* `Owned`: a handler is of a command that has not ended, or the call that runs will still
  remove it; `OnePerEvent`, `Apart`: no two handlers, nor two outstanding commands, share an
  event, so that a handler removed by its event is the command's own.
* `Scripts`: the rest of a `start()` undoes, if the driver refuses, what it has registered;
  the rest of a `cancel()` only removes.
* `Counted`, which is `ReferencesCounted` without `Blind`: a command has one reference for each handler, entry and
  thread that has it, so one that is had is not deleted, which is `NoUseAfterFree`.

`RunningIsHeard` needs a table with a place for every event of the commands in use
(`event_cb[]` has 64, and the kinds have fewer events together): a full one refuses a
handler, and the commands do not look at the result. `Heard` carries a command's handlers from its script to the table.

### What is only model-checked

* Liveness, which needs fairness and ENABLED and is out of the prover's reach:
  `InitializeIsAnswered`, `DeathTurnsOff`, `DataIsRead`, `CloseReturns`,
  `ArrivedIsDelivered`, `SwitchIsAnswered`, `FlushIsAnswered`, `CleanupReturns`.
* The four runs that find a violation: a counterexample is their result.

## 5. What is not modelled

* Of the Bluetooth service: `Stop`, `Reset` and observers, which only the unit tests
  use; the build without the state machine; a `Send` that races with `Shutdown`
  (two modules would have to be composed, see the plan); allocation failures.
  `BtLowPower` closes a session only when its senders are idle and the firmware callback
  has run; `VendorInterface::Close` (`vendor_interface.cc:290`) itself waits for neither.
* Of the watcher: internal commands of the vendor library, and `Open()` that fails
  (it is in `BtStateMachine`).
* Of the packetizer: the write side, whose loops belong with `Send`.
* Of USB: the contents of a port status beyond which ports have a partner, and the
  strings of the HIDL structures.
* Of remote submix: sample data, resampling, channel conversion, and the pacing of
  reads and writes by the clock; a failed `calloc` of an input stream, which returns
  with the device lock held (`audio_hw.cpp:1830`).
* Of the sensor multiplexer: report latency, which is minimised like the period, and
  the shared memory of direct channels. `batch` is in `SensorManager` only: in
  `SensorEvents` it would write a node like the others.
* Of the poll loop: a `poll()` that fails, which drops the events already read
  (`SensorContext.cpp:387`-390), and events of a handle that the driver does not know,
  for which `readEvents` returns `-EINVAL` (`Situation.cpp:217`, `Fusion.cpp:227`,
  `Biometric.cpp:182`) and `pollEvent` aborts: `SharesFit` rules out its other abort.
* Of the sensor drivers: the humidity driver, which fills gaps between its events and
  answers no flush; the events of the ApFusion driver (its requests are in
  `SensorManager`); the distance filter of the proximity driver; the drivers of older
  input devices, which `sensors_poll_context_t` does not load.
* Of WiFi: a broken event socket (`POLLERR`, `POLLHUP`), a failed read of "Exit" by the
  event loop, what follows a cleanup that went on without the loop (section 2), the waits of `requestEvent`, which nobody uses,
  one-shot requests that keep no state, the attributes of requests and the contents of
  results.
* The components of section 1 that are not in bold; `PROJECT.json` gives the reason
  for each.

External code that a module needs is modelled from how `src/` uses it: the binder
driver's death notifications, the vendor library's callbacks, `MonoPipe`, the
kernel's uevents and condition variables, and the framework's order of sensor calls
(batch before activate, deactivate only what is active).

## 6. Plan

Done, in this order: the Bluetooth lifecycle with its abstract specification and
proofs, the watcher and low power logic with theirs, the packetizer, USB with its
proofs, remote submix with its proofs, the sensor multiplexer, the WiFi registry with
the commands of gscan and rtt on it, the sensors' events. Next, extending the model:

1. `BtSession`: `BtStateMachine` composed with `BtLowPower`, for `Send` racing with
   `Shutdown` and `firmware_config_cb` arriving after it; with the write loops of
   `hci_protocol.cc` and the MCT transport.
2. The direct channel's buffer against a reader without a lock, as an extension of
   `SensorEvents`, and the drivers it leaves out.
3. `Lights`, the debugger ring, the recorders of libudf, as far as their state
   goes. They keep one table under one lock, and most of what they do is formatting.

All invariants and action properties of the passing runs are proved. What is worth proving
next:

1. `SensorEvents`: that an asked flush is on its way, in a ring, a descriptor or the buffer, as
   long as it is not answered: the safety half of `FlushIsAnswered`.
2. `HciH4`: that a packet is delivered once its last byte is read, with nothing read beyond
   it: the safety half of `ArrivedIsDelivered`.
3. `BtStateMachine` with `BtLowPower`, once they are composed.
