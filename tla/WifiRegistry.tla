---------------------------- MODULE WifiRegistry ----------------------------
(***************************************************************************)
(* The registry of the WiFi HAL (common.cpp, wifi_hal.cpp): the handlers   *)
(* of driver events, event_cb[], under cb_lock; the commands that are      *)
(* outstanding, cmd[], under no lock; the reference counts of commands;    *)
(* the event loop that dispatches; wifi_cleanup with its Exit and Done.    *)
(* On top of it the commands of gscan.cpp, rtt.cpp and wifi_hal.cpp, each  *)
(* given by the steps of its start() and cancel().                         *)
(*                                                                         *)
(* The framework's calls run one at a time on one thread (requester), the  *)
(* event loop on another.  A request id is given to one command only, so   *)
(* a command stands for its id.                                            *)
(***************************************************************************)
EXTENDS Integers, Sequences, SequencesExt

CONSTANTS Kinds,       \* the commands the framework uses, names of DOMAIN Command
          MaxCmds,     \* bound: commands ever created
          CmdSlots,    \* alloc_cmd
          CbSlots,     \* alloc_event_cb
          MaxEvents,   \* bound: events the driver ever sends
          Sharing,     \* it starts or cancels commands whose events an outstanding one has
          Overlap      \* it makes other calls while a ranging request is outstanding

ASSUME RegistryAssumption ==
  /\ MaxCmds \in Nat /\ MaxEvents \in Nat
  /\ CmdSlots \in Nat \ {0} /\ CbSlots \in Nat \ {0}
  /\ Sharing \in BOOLEAN /\ Overlap \in BOOLEAN

Cmds == 1..MaxCmds
None == 0

-----------------------------------------------------------------------------
(* The commands.  A step asks the driver (undo: the handlers to remove when *)
(* it refuses a start) or adds or removes a handler.                        *)

Ask(what, undo) == [do |-> what, undo |-> undo]
Configure(undo) == Ask("configure", undo)
Enable(undo)    == Ask("enable", undo)
Disable         == Ask("disable", <<>>)
Register(e)     == [do |-> "register", event |-> e]
Unregister(e)   == [do |-> "unregister", event |-> e]

FullScanResultsCommand ==
  [start  |-> <<Register("full"), Enable(<<"full">>)>>,
   cancel |-> <<Disable, Unregister("full")>>]

ScanCommand ==
  [start  |-> <<Configure(<<>>), Configure(<<>>),
                Register("available"), Register("complete"), Register("full"),
                Enable(<<"complete", "available", "full">>)>>,
   cancel |-> <<Disable, Unregister("complete"), Unregister("available"), Unregister("full")>>]

BssidHotlistCommand ==
  [start  |-> <<Configure(<<"found", "lost">>), Register("found"), Register("lost"),
                Enable(<<"found", "lost">>)>>,
   cancel |-> <<Unregister("found"), Unregister("lost"), Disable>>]

ePNOCommand ==
  [start  |-> <<Enable(<<"epno">>), Register("epno")>>,
   cancel |-> <<Unregister("epno"), Disable>>]

SignificantWifiChangeCommand ==
  [start  |-> <<Configure(<<>>), Register("change"), Enable(<<"change">>)>>,
   cancel |-> <<Unregister("change"), Disable>>]

AnqpoConfigureCommand ==
  [start  |-> <<Register("hotspot"), Enable(<<"hotspot">>)>>,
   cancel |-> <<Disable, Unregister("hotspot")>>]

SetRSSIMonitorCommand ==
  [start  |-> <<Enable(<<>>), Register("rssi")>>,
   cancel |-> <<Disable, Unregister("rssi")>>]

\* cancel() and cancel_specific() are the same but for the addresses.
RttCommand ==
  [start  |-> <<Enable(<<>>), Register("rtt")>>,
   cancel |-> <<Disable, Unregister("rtt")>>]

Command == [scan |-> ScanCommand, fullScan |-> FullScanResultsCommand,
            hotlist |-> BssidHotlistCommand, epno |-> ePNOCommand,
            change |-> SignificantWifiChangeCommand, anqpo |-> AnqpoConfigureCommand,
            rssi |-> SetRSSIMonitorCommand, rtt |-> RttCommand]

ASSUME KindsAssumption == Kinds \subseteq DOMAIN Command

\* The calls that take the id -1 for "whatever runs", and wifi_rtt_range_cancel.
StoppedWithoutId == {"scan", "fullScan", "epno", "rssi", "rtt"}

EventsOf(k) == {s.event : s \in {t \in ToSet(Command[k].start) : t.do = "register"}}
Events == UNION {EventsOf(k) : k \in DOMAIN Command}

-----------------------------------------------------------------------------
VARIABLES
  eventCb,    \* event_cb[0 .. num_event_cb - 1], each [event, cmd]
  slots,      \* cmd[], the whole array
  numCmd,     \* num_cmd
  refs,       \* mRefs of every command, 0 when it does not exist
  kind,       \* what each command is
  phase,      \* history: how far each command is
  created,    \* commands created so far
  rq,         \* the requester: its call, its next step, what it works on
  loop,       \* the event loop: its next step, the command it calls
  driver,     \* the features that are switched on
  sock,       \* the event socket
  sent,       \* events sent so far
  cleanup     \* cleanup_socks, clean_up and hal_info

registry == <<eventCb, slots, numCmd>>
objects  == <<refs, kind, created>>
device   == <<driver, sock, sent>>
vars == <<registry, objects, phase, rq, loop, device, cleanup>>

Idle == [op |-> "none", at |-> "idle", cmd |-> None, todo |-> <<>>, saw |-> 0]
Poll == [at |-> "poll", cmd |-> None, last |-> FALSE, saw |-> 0]

\* wifi_initialize: empty tables, and the loop is started.
Init ==
  /\ eventCb = <<>> /\ slots = [i \in 1..CmdSlots |-> None] /\ numCmd = 0
  /\ refs = [c \in Cmds |-> 0] /\ kind = [c \in Cmds |-> "none"]
  /\ phase = [c \in Cmds |-> "none"] /\ created = 0
  /\ rq = Idle /\ loop = Poll
  /\ driver = {} /\ sock = <<>> /\ sent = 0 /\ cleanup = "none"

\* wifi_cleanup: "exit" is asked for, "done" is answered, or the loop has gone without
\* a word ("mute"), then hal_info is "freed".  Or the sockets have failed it and it has
\* gone on without the loop, whose "Exit" is "unread" or "unsent", until hal_info is
\* freed under the loop ("abandoned").
Blind == cleanup \in {"unread", "unsent", "abandoned"}

Live(c) == refs[c] > 0
AddRef(c)     == refs' = [refs EXCEPT ![c] = @ + 1]
\* The last reference deletes the command.
ReleaseRef(c) ==
  /\ refs' = [refs EXCEPT ![c] = @ - 1]
  /\ kind' = IF refs[c] = 1 THEN [kind EXCEPT ![c] = "none"] ELSE kind

\* The handlers of an event in the order in which they were added.
HandlersOf(e) == {i \in 1..Len(eventCb) : eventCb[i].event = e}
FirstOf(S) == CHOOSE i \in S : \A j \in S : i <= j

\* wifi_register_vendor_handler; the commands do not look at its result.
RegisterHandler(e, c) ==
  eventCb' = IF Len(eventCb) < CbSlots THEN Append(eventCb, [event |-> e, cmd |-> c]) ELSE eventCb

\* Variant: the subcommand is not compared.
MutUnregisterHandler(e) == eventCb' = IF HandlersOf(e) = {} THEN eventCb ELSE Tail(eventCb)

\* wifi_unregister_vendor_handler: the first handler of the event, whoever's it is.
UnregisterHandler(e) ==
  eventCb' = IF HandlersOf(e) = {} THEN eventCb ELSE RemoveAt(eventCb, FirstOf(HandlersOf(e)))

\* wifi_unregister_cmd up to the memmove.  Here and below num_cmd is a plain
\* variable that two threads change: the store may go back to the value read first.
Listed(c) == {i \in 1..numCmd : slots[i] = c}
ShiftSlots(c) ==
  slots' = [i \in DOMAIN slots |-> IF i >= FirstOf(Listed(c)) /\ i < numCmd THEN slots[i + 1] ELSE slots[i]]
StoreNumCmd(seen, change) == numCmd' \in {seen + change, numCmd + change}
-----------------------------------------------------------------------------
(* The requester. *)

Outstanding == {c \in Cmds : phase[c] \in {"starting", "running"}}
InCallback(k) == loop.cmd # None /\ kind[loop.cmd] = k
RangingAlone == \A c \in Outstanding : kind[c] # "rtt"

\* The framework, external: it calls between calls; see Sharing and Overlap.
MayCall == rq.at = "idle" /\ cleanup = "none" /\ (Overlap \/ (RangingAlone /\ ~InCallback("rtt")))
MayTouch(k) == Sharing \/ \A c \in Outstanding : EventsOf(kind[c]) \cap EventsOf(k) = {}
MayStart(k) == MayCall /\ created < MaxCmds /\ MayTouch(k)

\* new Command; wifi_register_cmd writes the free slot, or finds the table full.
Start(k) ==
  /\ MayStart(k)
  /\ LET c == created + 1 IN
     /\ created' = c /\ kind' = [kind EXCEPT ![c] = k]
     /\ \/ /\ numCmd < CmdSlots
           /\ slots' = [slots EXCEPT ![numCmd + 1] = c] /\ AddRef(c)
           /\ rq' = [Idle EXCEPT !.op = "start", !.at = "count", !.cmd = c, !.saw = numCmd]
        \/ /\ numCmd >= CmdSlots
           /\ UNCHANGED <<slots, refs, rq>>
  /\ UNCHANGED <<eventCb, numCmd, phase, loop, device, cleanup>>

\* num_cmd++, and on to start().
CountCmd ==
  /\ rq.at = "count" /\ StoreNumCmd(rq.saw, 1)
  /\ phase' = [phase EXCEPT ![rq.cmd] = "starting"]
  /\ rq' = [rq EXCEPT !.at = "script", !.todo = Command[kind[rq.cmd]].start]
  /\ UNCHANGED <<eventCb, slots, objects, loop, device, cleanup>>

Step == Head(rq.todo)
Done == rq' = [rq EXCEPT !.todo = Tail(@)]

ChangeHandlers ==
  /\ rq.at = "script" /\ rq.todo # <<>>
  /\ \/ Step.do = "register" /\ RegisterHandler(Step.event, rq.cmd)
     \/ Step.do = "unregister" /\ UnregisterHandler(Step.event)
  /\ Done
  /\ UNCHANGED <<slots, numCmd, objects, phase, loop, device, cleanup>>

\* requestResponse; the driver may refuse.  A start that is refused removes its
\* handlers and goes on to the failure path, a cancel goes on.
AskDriver(k) ==
  /\ rq.at = "script" /\ rq.todo # <<>> /\ Step.do \in {"configure", "enable", "disable"}
  /\ \/ /\ driver' = CASE Step.do = "enable" -> driver \cup {k}
                       [] Step.do = "disable" -> driver \ {k}
                       [] OTHER -> driver
        /\ Done
     \/ /\ UNCHANGED driver
        /\ IF rq.op = "start"
           THEN rq' = [rq EXCEPT !.op = "fail",
                                 !.todo = [i \in DOMAIN Step.undo |-> Unregister(Step.undo[i])]]
           ELSE Done
  /\ UNCHANGED <<registry, objects, phase, loop, sock, sent, cleanup>>

\* start() has succeeded.
Started ==
  /\ rq.at = "script" /\ rq.todo = <<>> /\ rq.op = "start"
  /\ phase' = IF phase[rq.cmd] = "starting" THEN [phase EXCEPT ![rq.cmd] = "running"] ELSE phase
  /\ rq' = Idle
  /\ UNCHANGED <<registry, objects, loop, device, cleanup>>

\* start() has failed: wifi_unregister_cmd, then releaseRef.
Failed ==
  /\ rq.at = "script" /\ rq.todo = <<>> /\ rq.op = "fail"
  /\ phase' = [phase EXCEPT ![rq.cmd] = "ended"]
  /\ rq' = [rq EXCEPT !.at = "shift"]
  /\ UNCHANGED <<registry, objects, loop, device, cleanup>>

\* wifi_cancel_cmd of a command by its id, also of one that was stopped without it and
\* is still in cmd[]; ranging is never cancelled this way.
Cancel(c) ==
  /\ MayCall /\ kind[c] # "rtt"
  /\ phase[c] = "running" \/ (phase[c] = "stopped" /\ MayTouch(kind[c]))
  /\ phase' = [phase EXCEPT ![c] = "ended"]
  /\ rq' = [Idle EXCEPT !.op = "cancel", !.at = "shift", !.cmd = c]
  /\ UNCHANGED <<registry, objects, loop, device, cleanup>>

\* wifi_unregister_cmd, first half.  wifi_cancel_cmd returns when the id is unknown.
Shift ==
  /\ rq.at = "shift" /\ UNCHANGED <<eventCb, numCmd, objects, phase, loop, device, cleanup>>
  /\ \/ /\ Listed(rq.cmd) # {} /\ ShiftSlots(rq.cmd)
        /\ rq' = [rq EXCEPT !.at = "shrink", !.saw = numCmd]
     \/ /\ Listed(rq.cmd) = {} /\ UNCHANGED slots
        /\ rq' = IF rq.op = "fail" THEN [rq EXCEPT !.at = "release"] ELSE Idle

\* num_cmd--; a cancel then runs cancel().
Shrink ==
  /\ rq.at = "shrink" /\ StoreNumCmd(rq.saw, -1)
  /\ rq' = IF rq.op = "fail" THEN [rq EXCEPT !.at = "release"]
           ELSE [rq EXCEPT !.at = "script", !.todo = Command[kind[rq.cmd]].cancel]
  /\ UNCHANGED <<eventCb, slots, objects, phase, loop, device, cleanup>>

\* The end of a failed start, of wifi_cancel_cmd, and of one turn of wifi_cleanup.
Release ==
  /\ \/ rq.at = "release"
     \/ rq.at = "script" /\ rq.todo = <<>> /\ rq.op \in {"cancel", "sweep"}
  /\ ReleaseRef(rq.cmd)
  /\ rq' = IF rq.op = "sweep" THEN [rq EXCEPT !.at = "sweep", !.cmd = None, !.saw = @ + 1] ELSE Idle
  /\ UNCHANGED <<registry, created, phase, loop, device, cleanup>>

\* The id -1 and wifi_rtt_range_cancel: a command of its own runs cancel() and
\* goes; the one that was started stays in cmd[].
StopAny(k) ==
  /\ rq.at = "idle" /\ cleanup = "none" /\ k \in StoppedWithoutId \cap Kinds
  /\ \E c \in Outstanding : kind[c] = k
  /\ k = "rtt" \/ MayCall
  /\ phase' = [c \in Cmds |-> IF c \in Outstanding /\ kind[c] = k THEN "stopped" ELSE phase[c]]
  /\ rq' = [Idle EXCEPT !.op = k, !.at = "script", !.todo = Command[k].cancel]
  /\ UNCHANGED <<registry, objects, loop, device, cleanup>>
Stopped ==
  /\ rq.at = "script" /\ rq.todo = <<>> /\ rq.op \in StoppedWithoutId
  /\ rq' = Idle
  /\ UNCHANGED <<registry, objects, phase, loop, device, cleanup>>

\* wifi_cleanup: "Exit", then the wait for "Done", which has no timeout.
Cleanup ==
  /\ rq.at = "idle" /\ cleanup = "none"
  /\ cleanup' = "exit" /\ rq' = [Idle EXCEPT !.op = "cleanup", !.at = "wait"]
  /\ UNCHANGED <<registry, objects, phase, loop, device>>
ReadDone ==
  /\ rq.at = "wait" /\ cleanup = "done"
  /\ rq' = [rq EXCEPT !.op = "sweep", !.at = "sweep"]
  /\ UNCHANGED <<registry, objects, phase, loop, device, cleanup>>

\* The write of "Exit" fails, or the read of the answer does: wifi_cleanup goes on.
WriteFails ==
  /\ rq.at = "idle" /\ cleanup = "none"
  /\ cleanup' = "unsent" /\ rq' = [Idle EXCEPT !.op = "sweep", !.at = "sweep"]
  /\ UNCHANGED <<registry, objects, phase, loop, device>>
ReadFails ==
  /\ rq.at = "wait"
  /\ cleanup' = IF cleanup = "exit" THEN "unread" ELSE "unsent"
  /\ rq' = [rq EXCEPT !.op = "sweep", !.at = "sweep"]
  /\ UNCHANGED <<registry, objects, phase, loop, device>>

\* cancel() leaves the command in cmd[], so saw, the bad_commands of the code,
\* grows with every turn.  Beside a loop that runs the place may be that of a command
\* the loop has deleted, which is undefined: nothing is said of the rest.
Sweep ==
  /\ rq.at = "sweep" /\ numCmd > rq.saw
  /\ LET c == slots[rq.saw + 1] IN
     /\ c # None /\ kind[c] # "none"
     /\ phase' = [phase EXCEPT ![c] = "ended"]
     /\ rq' = [rq EXCEPT !.at = "script", !.cmd = c, !.todo = Command[kind[c]].cancel]
  /\ UNCHANGED <<registry, objects, loop, device, cleanup>>
\* internal_cleaned_up_handler.  What a loop that still runs does without hal_info is
\* undefined, and not followed.
FreeInfo ==
  /\ rq.at = "sweep" /\ numCmd <= rq.saw
  /\ cleanup' = IF Blind THEN "abandoned" ELSE "freed"
  /\ rq' = [Idle EXCEPT !.at = "gone"]
  /\ loop' = IF Blind THEN [Poll EXCEPT !.at = "gone"] ELSE loop
  /\ UNCHANGED <<registry, objects, phase, device>>

\* What the step at hand asks the driver about.
Feature == IF rq.cmd = None THEN rq.op ELSE kind[rq.cmd]

Requester ==
  \/ CountCmd \/ ChangeHandlers \/ AskDriver(Feature) \/ Started \/ Failed \/ Shift \/ Shrink
  \/ Release \/ Stopped \/ ReadDone \/ Sweep \/ FreeInfo
Framework ==
  \/ \E k \in Kinds : Start(k)
  \/ \E k \in Kinds : StopAny(k)
  \/ \E c \in Cmds : Cancel(c)
  \/ Cleanup
-----------------------------------------------------------------------------
(* wifi_event_loop *)

\* The turn ends: while (!info->clean_up).
NextTurn == IF Blind THEN [Poll EXCEPT !.at = "gone"] ELSE Poll

\* Variant: the loop takes no reference of its own.
MutDispatch ==
  /\ loop.at = "poll" /\ sock # <<>>
  /\ sock' = Tail(sock)
  /\ LET H == HandlersOf(Head(sock).event) IN
     \/ H = {} /\ UNCHANGED loop
     \/ H # {} /\ loop' = [Poll EXCEPT !.at = "call", !.cmd = eventCb[FirstOf(H)].cmd,
                                       !.last = Head(sock).last]
  /\ UNCHANGED <<registry, objects, phase, rq, driver, sent, cleanup>>

\* internal_valid_message_handler: under cb_lock the first handler and a
\* reference to its command; an event without a handler is dropped.
Dispatch ==
  /\ loop.at = "poll" /\ sock # <<>>
  /\ sock' = Tail(sock)
  /\ LET H == HandlersOf(Head(sock).event)
         c == eventCb[FirstOf(H)].cmd IN
     \/ H = {} /\ UNCHANGED refs /\ loop' = NextTurn
     \/ H # {} /\ AddRef(c)
               /\ loop' = [Poll EXCEPT !.at = "call", !.cmd = c, !.last = Head(sock).last]
  /\ UNCHANGED <<registry, kind, created, phase, rq, driver, sent, cleanup>>

\* handleEvent reports to the framework.
HandleEvent ==
  /\ loop.at = "call" /\ ~loop.last
  /\ loop' = [loop EXCEPT !.at = "signal"]
  /\ UNCHANGED <<registry, objects, phase, rq, device, cleanup>>

\* RttCommand::handleEvent with mCompleted, set by the last results or when a result
\* finds no memory: the handler goes, the results are reported.
HandleResults ==
  /\ loop.at = "call" /\ kind[loop.cmd] = "rtt"
  /\ UnregisterHandler("rtt")
  /\ phase' = [phase EXCEPT ![loop.cmd] = "ended"]
  /\ loop' = [loop EXCEPT !.at = "shift"]
  /\ UNCHANGED <<slots, numCmd, objects, rq, device, cleanup>>

\* wifi_unregister_cmd in the event loop, and the releaseRef of what it returned.
LoopShift ==
  /\ loop.at = "shift"
  /\ \/ /\ Listed(loop.cmd) # {} /\ ShiftSlots(loop.cmd)
        /\ loop' = [loop EXCEPT !.at = "shrink", !.saw = numCmd]
     \/ /\ Listed(loop.cmd) = {} /\ UNCHANGED slots
        /\ loop' = [loop EXCEPT !.at = "signal"]
  /\ UNCHANGED <<eventCb, numCmd, objects, phase, rq, device, cleanup>>
LoopShrink ==
  /\ loop.at = "shrink" /\ StoreNumCmd(loop.saw, -1)
  /\ loop' = [loop EXCEPT !.at = "release"]
  /\ UNCHANGED <<eventCb, slots, objects, phase, rq, device, cleanup>>
\* Variant: what wifi_unregister_cmd returned is not released.
MutLoopRelease ==
  /\ loop.at = "release"
  /\ loop' = [loop EXCEPT !.at = "signal"]
  /\ UNCHANGED <<registry, objects, phase, rq, device, cleanup>>

LoopRelease ==
  /\ loop.at = "release" /\ ReleaseRef(loop.cmd)
  /\ loop' = [loop EXCEPT !.at = "signal"]
  /\ UNCHANGED <<registry, created, phase, rq, device, cleanup>>

\* event_handler signals the command's condition; the dispatcher drops its reference.
Signal ==
  /\ loop.at = "signal" /\ ReleaseRef(loop.cmd)
  /\ loop' = NextTurn
  /\ UNCHANGED <<registry, created, phase, rq, device, cleanup>>

\* Variant: the loop leaves without an answer.
MutLoopExit ==
  /\ loop.at = "poll" /\ sock = <<>> /\ cleanup = "exit"
  /\ loop' = [Poll EXCEPT !.at = "gone"]
  /\ UNCHANGED <<registry, objects, phase, rq, device, cleanup>>

\* The cleanup socket is looked at only when the event socket is empty.
LoopExit ==
  /\ loop.at = "poll" /\ sock = <<>> /\ cleanup \in {"exit", "unread"}
  /\ cleanup' = IF cleanup = "exit" THEN "done" ELSE "unsent"
  /\ loop' = [Poll EXCEPT !.at = "gone"]
  /\ UNCHANGED <<registry, objects, phase, rq, device>>
\* The write of "Done" fails, and wifi_cleanup waits for it.
DoneFails ==
  /\ loop.at = "poll" /\ sock = <<>> /\ cleanup = "exit"
  /\ cleanup' = "mute" /\ loop' = [Poll EXCEPT !.at = "gone"]
  /\ UNCHANGED <<registry, objects, phase, rq, device>>

EventLoop == \/ Dispatch \/ HandleEvent \/ HandleResults \/ LoopShift \/ LoopShrink
             \/ LoopRelease \/ Signal \/ LoopExit

SocketFails == WriteFails \/ ReadFails \/ DoneFails

\* The driver, external: an event of a feature that is on; the last results of a
\* ranging request end it.
DriverEvent(k) ==
  /\ k \in driver /\ sent < MaxEvents /\ loop.at # "gone"
  /\ \E e \in EventsOf(k), last \in IF k = "rtt" THEN BOOLEAN ELSE {FALSE} :
       /\ sock' = Append(sock, [event |-> e, last |-> last])
       /\ driver' = IF last THEN driver \ {k} ELSE driver
  /\ sent' = sent + 1
  /\ UNCHANGED <<registry, objects, phase, rq, loop, cleanup>>

Next == Requester \/ Framework \/ EventLoop \/ SocketFails \/ \E k \in Kinds : DriverEvent(k)
Spec == Init /\ [][Next]_vars
FairSpec == Spec /\ WF_vars(Requester) /\ WF_vars(EventLoop)
-----------------------------------------------------------------------------
\* The part of cmd[] that counts; wifi_cleanup goes through it.
Pending == IF cleanup = "freed" THEN {} ELSE (IF rq.op = "sweep" THEN rq.saw + 1 ELSE 1)..numCmd
Saved(c) == \E i \in Pending : slots[i] = c

\* No thread is left with a command that was deleted: not in a handler, not in
\* cmd[], not in the callback the event loop is in, not in the call that runs.
\* internal_valid_message_handler relies on the reference it takes under cb_lock,
\* event_handler's signal() on the same after handleEvent has released the command.
\* This, like the next two, is for a cleanup that has not given up its sockets.
NoUseAfterFree ==
  Blind \/
  /\ \A i \in DOMAIN eventCb : Live(eventCb[i].cmd)
  /\ \A i \in Pending : slots[i] # None /\ Live(slots[i])
  /\ loop.cmd # None => Live(loop.cmd)
  /\ rq.at \in {"shift", "shrink", "release"} => Live(rq.cmd)

\* A command has one reference for its place in cmd[] (or for the thread that
\* took it out) and one for the callback it is in: none is deleted early, and
\* none is kept when nobody has it (releaseRef in wifi_cancel_cmd, the failed
\* starts, RttCommand::handleEvent and wifi_cleanup).
Holds(b) == IF b THEN 1 ELSE 0
TakenByCall(c) == rq.cmd = c /\ (rq.at = "count" \/ rq.op \in {"fail", "cancel", "sweep"})
TakenByLoop(c) == loop.cmd = c /\ loop.at \in {"shrink", "release"}
ReferencesCounted ==
  Blind \/ \A c \in Cmds :
    refs[c] = Holds(Saved(c) \/ TakenByCall(c) \/ TakenByLoop(c)) + Holds(loop.cmd = c)

\* While the loop runs, every event of a command that was started and not
\* cancelled goes to that command (the first match of
\* internal_valid_message_handler), whatever other commands were refused,
\* cancelled or completed meanwhile.
RunningIsHeard ==
  Blind \/ loop.at = "gone" \/ \A c \in Cmds : phase[c] = "running" =>
    \A e \in EventsOf(kind[c]) : HandlersOf(e) # {} /\ eventCb[FirstOf(HandlersOf(e))].cmd = c

\* wifi_cleanup returns, with every command released, when the driver does not
\* keep the event socket full and no cleanup socket fails.
CleanupReturns ==
  cleanup = "exit" ~> (cleanup = "freed" /\ \A c \in Cmds : ~Live(c)) \/ Blind \/ cleanup = "mute"

\* What a comment says of cmd[]: "release reference added when command is saved"
\* (wifi_hal.cpp:397), so a saved command has a reference, and can be used.
SavedHoldsReference == Blind \/ \A i \in Pending : slots[i] # None /\ Live(slots[i])
=============================================================================
