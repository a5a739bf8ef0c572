-------------------------- MODULE WifiRegistry_proofs --------------------------
(***************************************************************************)
(* Proofs about WifiRegistry for any commands, any tables and any bounds.  *)
(*                                                                         *)
(* They are for a framework that neither makes calls beside a ranging      *)
(* request nor starts or cancels commands whose events an outstanding one  *)
(* has, and up to the step in which a failed socket lets wifi_cleanup go   *)
(* on without the event loop: what each thread and each table has (RInv)   *)
(* is kept by every step, and from it follow the reference counts, that    *)
(* nothing is used after it was deleted and, when event_cb[] has room for  *)
(* the events of the commands, that a command which runs hears its events. *)
(***************************************************************************)
EXTENDS WifiRegistry, SequenceTheorems, FiniteSetTheorems, WellFoundedInduction, TLAPS

\* The requester's and the loop's records have the fields they are made of.
Shapes ==
  /\ rq = [op |-> rq.op, at |-> rq.at, cmd |-> rq.cmd, todo |-> rq.todo, saw |-> rq.saw]
  /\ loop = [at |-> loop.at, cmd |-> loop.cmd, last |-> loop.last, saw |-> loop.saw]

\* wifi_initialize leaves both threads idle.
LEMMA InitEstablishes == Init => Shapes
  BY DEF Init, Shapes, Idle, Poll

-----------------------------------------------------------------------------

\* The call that runs.
LEMMA RequesterPreserves ==
  ASSUME Shapes, Requester
  PROVE  Shapes'
  <1> USE DEF Shapes, Idle, Poll
  <1>1. CASE CountCmd
    BY <1>1 DEF CountCmd
  <1>2. CASE ChangeHandlers
    BY <1>2 DEF ChangeHandlers, Done
  <1>3. CASE AskDriver(Feature)
    BY <1>3 DEF AskDriver, Done
  <1>4. CASE Started
    BY <1>4 DEF Started
  <1>5. CASE Failed
    BY <1>5 DEF Failed
  <1>6. CASE Shift
    <2>1. CASE Listed(rq.cmd) # {}
      BY <1>6, <2>1 DEF Shift
    <2>2. CASE Listed(rq.cmd) = {}
      BY <1>6, <2>2 DEF Shift
    <2>3. QED BY <2>1, <2>2
  <1>7. CASE Shrink
    <2>1. CASE rq.op = "fail"
      BY <1>7, <2>1 DEF Shrink
    <2>2. CASE rq.op # "fail"
      BY <1>7, <2>2 DEF Shrink
    <2>3. QED BY <2>1, <2>2
  <1>8. CASE Release
    BY <1>8 DEF Release
  <1>9. CASE Stopped
    BY <1>9 DEF Stopped
  <1>10. CASE ReadDone
    BY <1>10 DEF ReadDone
  <1>11. CASE Sweep
    BY <1>11 DEF Sweep
  <1>12. CASE FreeInfo
    BY <1>12 DEF FreeInfo
  <1>13. QED
    BY <1>1, <1>2, <1>3, <1>4, <1>5, <1>6, <1>7, <1>8, <1>9, <1>10, <1>11, <1>12 DEF Requester

\* A call begins.
LEMMA FrameworkPreserves ==
  ASSUME Shapes, Framework
  PROVE  Shapes'
  BY DEF Shapes, Idle, Framework, Start, StopAny, Cancel, Cleanup

\* A step of the event loop.
LEMMA EventLoopPreserves ==
  ASSUME Shapes, EventLoop
  PROVE  Shapes'
  <1> USE DEF Shapes, Poll, NextTurn
  <1>1. CASE Dispatch
    <2>1. rq' = rq /\ (loop' = NextTurn \/ \E c, l : loop' = [Poll EXCEPT !.at = "call", !.cmd = c, !.last = l])
      BY <1>1 DEF Dispatch
    <2>2. CASE loop' = NextTurn
      <3>1. loop' = Poll \/ loop' = [Poll EXCEPT !.at = "gone"]
        BY <2>2
      <3>2. QED BY <2>1, <3>1
    <2>3. CASE \E c, l : loop' = [Poll EXCEPT !.at = "call", !.cmd = c, !.last = l]
      <3>1. PICK c, l : loop' = [Poll EXCEPT !.at = "call", !.cmd = c, !.last = l]
        BY <2>3
      <3>2. loop' = [at |-> "call", cmd |-> c, last |-> l, saw |-> 0]
        BY <3>1
      <3>3. QED BY <2>1, <3>2
    <2>4. QED BY <2>1, <2>2, <2>3
  <1>2. CASE HandleEvent
    BY <1>2 DEF HandleEvent
  <1>3. CASE HandleResults
    BY <1>3 DEF HandleResults
  <1>4. CASE LoopShift
    BY <1>4 DEF LoopShift
  <1>5. CASE LoopShrink
    BY <1>5 DEF LoopShrink
  <1>6. CASE LoopRelease
    BY <1>6 DEF LoopRelease
  <1>7. CASE Signal
    BY <1>7 DEF Signal
  <1>8. CASE LoopExit
    BY <1>8 DEF LoopExit
  <1>9. QED
    BY <1>1, <1>2, <1>3, <1>4, <1>5, <1>6, <1>7, <1>8 DEF EventLoop

\* Every step of every actor.
LEMMA StepPreserves == Shapes /\ [Next]_vars => Shapes'
  <1> SUFFICES ASSUME Shapes, [Next]_vars PROVE Shapes'
    OBVIOUS
  <1>1. CASE Requester
    BY <1>1, RequesterPreserves
  <1>2. CASE Framework
    BY <1>2, FrameworkPreserves
  <1>3. CASE EventLoop
    BY <1>3, EventLoopPreserves
  <1>4. CASE SocketFails
    BY <1>4 DEF SocketFails, WriteFails, ReadFails, DoneFails, Shapes, Idle, Poll
  <1>5. CASE (\E k \in Kinds : DriverEvent(k)) \/ UNCHANGED vars
    BY <1>5 DEF DriverEvent, vars, Shapes
  <1>6. QED BY <1>1, <1>2, <1>3, <1>4, <1>5 DEF Next

\* wifi_cleanup that has gone on without the event loop never hears of it again.
LEMMA BlindStays == Blind /\ [Next]_vars => Blind'
  <1> SUFFICES ASSUME Blind, [Next]_vars PROVE Blind'
    OBVIOUS
  <1> USE DEF Blind
  <1>1. CASE Requester
    BY <1>1 DEF Requester, CountCmd, ChangeHandlers, AskDriver, Started, Failed, Shift, Shrink, Release, Stopped,
                ReadDone, Sweep, FreeInfo
  <1>2. CASE Framework
    BY <1>2 DEF Framework, Start, MayStart, MayCall, StopAny, Cancel, Cleanup
  <1>3. CASE EventLoop
    BY <1>3 DEF EventLoop, Dispatch, HandleEvent, HandleResults, LoopShift, LoopShrink, LoopRelease, Signal, LoopExit
  <1>4. CASE SocketFails
    BY <1>4 DEF SocketFails, WriteFails, ReadFails, DoneFails
  <1>5. CASE (\E k \in Kinds : DriverEvent(k)) \/ UNCHANGED vars
    BY <1>5 DEF DriverEvent, vars
  <1>6. QED BY <1>1, <1>2, <1>3, <1>4, <1>5 DEF Next

-----------------------------------------------------------------------------
(* The registry, for a framework that neither makes calls beside a ranging  *)
(* request nor starts or cancels commands that share an event.             *)

Steps == [do : {"register", "unregister"}, event : Events]
         \cup [do : {"configure", "enable", "disable"}, undo : Seq(Events)]

\* What every variable is.
Types ==
  /\ eventCb \in Seq([event : Events, cmd : Cmds])
  /\ slots \in [1..CmdSlots -> Cmds \cup {None}]
  /\ numCmd \in 0..CmdSlots
  /\ refs \in [Cmds -> Nat]
  /\ kind \in [Cmds -> Kinds \cup {"none"}]
  /\ phase \in [Cmds -> {"none", "starting", "running", "stopped", "ended"}]
  /\ created \in 0..MaxCmds
  /\ rq.op \in {"none", "start", "fail", "cancel", "cleanup", "sweep"} \cup (StoppedWithoutId \cap Kinds)
  /\ rq.at \in {"idle", "count", "script", "shift", "shrink", "release", "wait", "sweep", "gone"}
  /\ rq.cmd \in Cmds \cup {None} /\ rq.todo \in Seq(Steps) /\ rq.saw \in Nat
  /\ loop.at \in {"poll", "call", "shift", "shrink", "release", "signal", "gone"}
  /\ loop.cmd \in Cmds \cup {None} /\ loop.last \in BOOLEAN /\ loop.saw \in Nat
  /\ sock \in Seq([event : Events, last : BOOLEAN])

\* What each place of the two threads means.
Stopping == rq.op \in StoppedWithoutId
Threads ==
  /\ rq.at \in {"idle", "gone"} <=> rq.op = "none"
  /\ rq.at = "count" => rq.op = "start"
  /\ rq.at \in {"shift", "shrink"} => rq.op \in {"fail", "cancel"}
  /\ rq.at = "release" => rq.op = "fail"
  /\ rq.at = "script" => rq.op # "cleanup"
  /\ rq.at = "wait" => rq.op = "cleanup"
  /\ rq.at = "sweep" => rq.op = "sweep"
  /\ rq.op = "cleanup" => rq.at = "wait"
  /\ Stopping => rq.at = "script"
  /\ rq.op = "sweep" => rq.at \in {"script", "sweep"}
  /\ rq.cmd # None <=> (rq.op \in {"start", "fail", "cancel"} \/ (rq.op = "sweep" /\ rq.at = "script"))
  /\ rq.at = "gone" <=> cleanup = "freed"
  /\ (rq.at = "idle" \/ Stopping \/ rq.op \in {"start", "fail", "cancel"}) => cleanup = "none"
  /\ rq.op = "sweep" => cleanup = "done"
  /\ cleanup \in {"none", "exit", "done", "mute", "freed"}
  /\ loop.at = "gone" <=> cleanup \in {"done", "mute", "freed"}
  /\ loop.cmd # None <=> loop.at \notin {"poll", "gone"}
  /\ (loop.at \in {"shift", "shrink", "release"} \/ (loop.at = "call" /\ loop.last)) => InCallback("rtt")
  /\ \A i \in DOMAIN sock : sock[i].last => sock[i].event = "rtt"

\* cmd[] without the entry that wifi_unregister_cmd is taking out.
Size == IF rq.at = "shrink" \/ loop.at = "shrink" THEN numCmd - 1 ELSE numCmd
InTable(c) == \E i \in 1..Size : slots[i] = c
Taken == IF loop.at = "shrink" THEN loop.cmd ELSE rq.cmd

Table ==
  /\ \A i, j \in 1..Size : slots[i] = slots[j] => i = j
  /\ \A i \in 1..Size : slots[i] # None
  /\ (rq.at = "shrink" \/ loop.at = "shrink") =>
       numCmd > 0 /\ slots[numCmd] # None /\ (slots[numCmd] = Taken \/ InTable(slots[numCmd]))
  /\ rq.at = "count" => /\ numCmd < CmdSlots /\ slots[numCmd + 1] = rq.cmd
                        /\ phase[rq.cmd] = "none" /\ ~InTable(rq.cmd)
  /\ rq.at \in {"count", "shrink"} => rq.saw = numCmd
  /\ loop.at = "shrink" => loop.saw = numCmd
  /\ rq.at = "wait" => rq.saw = 0
  /\ (rq.at \in {"shrink", "release"} \/ (rq.at = "script" /\ rq.op = "cancel")) => ~InTable(rq.cmd)
  /\ loop.at \in {"shrink", "release"} => ~InTable(loop.cmd)
  /\ rq.at = "shift" => InTable(rq.cmd)
  /\ \A c \in Cmds : phase[c] \in {"starting", "running", "stopped"} => InTable(c)
  /\ rq.op = "sweep" /\ rq.at = "script" => rq.saw < numCmd /\ slots[rq.saw + 1] = rq.cmd

Phases ==
  /\ \A c \in Cmds : refs[c] > 0 => kind[c] # "none"
  /\ \A c \in Cmds : c > created => refs[c] = 0 /\ phase[c] = "none"
  /\ \A c \in Cmds : phase[c] = "starting" => rq.cmd = c /\ rq.at = "script" /\ rq.op \in {"start", "fail"}
  /\ rq.at = "script" /\ rq.op = "fail" => phase[rq.cmd] = "starting"
  /\ rq.at = "script" /\ rq.op = "start" => phase[rq.cmd] = "starting" \/ (phase[rq.cmd] = "ended" /\ rq.todo = <<>>)
  /\ (rq.op = "cancel" \/ (rq.op = "fail" /\ rq.at # "script") \/ (rq.op = "sweep" /\ rq.at = "script")) =>
       phase[rq.cmd] = "ended"

\* A handler is of a command that has not ended, or the call that runs will still remove it.
WillUnregister(e) == \E i \in DOMAIN rq.todo : rq.todo[i].do = "unregister" /\ rq.todo[i].event = e
Sweeping == rq.op = "sweep" \/ cleanup = "freed"
Handlers == ToSet(eventCb)
Owned ==
  \A h \in Handlers :
    /\ h.event \in EventsOf(kind[h.cmd])
    /\ \/ ~Sweeping /\ h.cmd \in Outstanding /\ ~(rq.op = "fail" /\ rq.cmd = h.cmd)
       \/ rq.cmd = h.cmd /\ rq.op = "cancel" /\ rq.at \in {"shift", "shrink"}
       \/ rq.cmd = h.cmd /\ rq.op \in {"fail", "cancel"} /\ rq.at = "script" /\ WillUnregister(h.event)
       \/ Stopping /\ rq.op = kind[h.cmd] /\ phase[h.cmd] = "stopped" /\ WillUnregister(h.event)
       \/ Sweeping /\ Saved(h.cmd) /\ (rq.cmd = h.cmd => WillUnregister(h.event))
OnePerEvent == \A g, h \in DOMAIN eventCb : eventCb[g].event = eventCb[h].event => g = h

\* The rest of a start().
StartPart(s, k) ==
  /\ \A i \in DOMAIN s : s[i].do \in {"register", "configure", "enable"}
  /\ \A i \in DOMAIN s : s[i].do = "register" => s[i].event \in EventsOf(k)
  /\ \A i \in DOMAIN s : s[i].do # "register" => ToSet(s[i].undo) \subseteq EventsOf(k)
  /\ \A i, j \in DOMAIN s : i < j /\ s[i].do = "register" =>
       IF s[j].do = "register" THEN s[i].event # s[j].event ELSE s[i].event \in ToSet(s[j].undo)
  /\ \A i \in DOMAIN s : s[i].do = "register" /\ s[i].event = "rtt" => i = Len(s)
StopPart(s, k) ==
  /\ \A i \in DOMAIN s : s[i].do \in {"unregister", "disable"}
  /\ \A i \in DOMAIN s : s[i].do = "unregister" => s[i].event \in EventsOf(k)

Scripts ==
  /\ rq.at = "count" => \A h \in Handlers : h.event \notin EventsOf(kind[rq.cmd])
  /\ rq.at = "script" /\ rq.op = "start" =>
       /\ StartPart(rq.todo, kind[rq.cmd])
       /\ \A i \in DOMAIN rq.todo : \A h \in Handlers :
            IF rq.todo[i].do = "register" THEN h.event # rq.todo[i].event
            ELSE h.cmd = rq.cmd => h.event \in ToSet(rq.todo[i].undo)
  /\ rq.at = "script" /\ rq.op # "start" => StopPart(rq.todo, Feature)

\* No two outstanding commands share an event, nor does the call that runs.
Apart ==
  /\ \A c, d \in Outstanding : c # d => EventsOf(kind[c]) \cap EventsOf(kind[d]) = {}
  /\ (Stopping \/ rq.op \in {"fail", "cancel"} \/ rq.at = "count") =>
       \A d \in Outstanding \ {rq.cmd} : EventsOf(kind[d]) \cap EventsOf(Feature) = {}
  /\ InCallback("rtt") => \A d \in Outstanding : kind[d] = "rtt" => d = loop.cmd

\* Ranging: while its handler is there or the loop is in its callback, the requester
\* is between calls, or ends the start of it, or cancels it.
Ranging ==
  (loop.at # "gone" /\ (InCallback("rtt") \/ \E h \in Handlers : h.event = "rtt")) =>
    rq.at \in {"idle", "wait"} \/ rq.op = "rtt" \/ (rq.at = "script" /\ rq.op = "start" /\ rq.todo = <<>>)

Hears(c, e) == [event |-> e, cmd |-> c] \in Handlers
WillRegister(e) == \E i \in DOMAIN rq.todo : rq.todo[i].do = "register" /\ rq.todo[i].event = e
Heard ==
  \A c \in Cmds :
    /\ phase[c] = "running" /\ loop.at # "gone" => \A e \in EventsOf(kind[c]) : Hears(c, e)
    /\ phase[c] = "starting" /\ rq.op = "start" => \A e \in EventsOf(kind[c]) : Hears(c, e) \/ WillRegister(e)

\* ReferencesCounted, where no socket has failed.
Counted ==
  \A c \in Cmds :
    refs[c] = Holds(Saved(c) \/ TakenByCall(c) \/ TakenByLoop(c)) + Holds(loop.cmd = c)

RInv == /\ Types /\ Threads /\ Table /\ Phases /\ Counted
        /\ Owned /\ OnePerEvent /\ Scripts /\ Apart /\ Ranging
\* Where RInv holds, no socket has failed wifi_cleanup.
LEMMA Sighted ==
  ASSUME RInv
  PROVE  ~Blind /\ NextTurn = Poll
  BY DEF RInv, Threads, Blind, NextTurn

-----------------------------------------------------------------------------
(* The operators of the registry. *)

\* A non-empty set of indices has a first.
LEMMA FirstIsLeast ==
  ASSUME NEW S \in SUBSET Nat, S # {}
  PROVE  FirstOf(S) \in S /\ \A j \in S : FirstOf(S) <= j
  <1> DEFINE R == OpToRel(<, Nat)
  <1>1. IsWellFoundedOn(R, Nat)
    BY NatLessThanWellFounded
  <1>2. \A x, y \in Nat : <<y, x>> \in R <=> y < x
    BY DEF OpToRel
  <1> HIDE DEF R
  <1>3. PICK x \in S : \A y \in S : ~(<<y, x>> \in R)
    BY <1>1, WFMin
  <1>4. ASSUME NEW y \in S PROVE x <= y
    <2>1. x \in Nat /\ y \in Nat
      OBVIOUS
    <2>2. ~(y < x)
      BY <1>2, <1>3, <2>1
    <2>3. QED BY <2>1, <2>2
  <1>5. QED BY <1>4 DEF FirstOf

\* What a script promises: a start() asks the driver with handlers to undo that cover
\* what it has registered, a cancel() unregisters every event of the command.
Fits(k) ==
  /\ StartPart(Command[k].start, k) /\ Command[k].start \in Seq(Steps)
  /\ StopPart(Command[k].cancel, k) /\ Command[k].cancel \in Seq(Steps)
  /\ \A e \in EventsOf(k) :
       /\ \E i \in DOMAIN Command[k].start : Command[k].start[i] = Register(e)
       /\ \E i \in DOMAIN Command[k].cancel : Command[k].cancel[i] = Unregister(e)
  /\ EventsOf(k) # {} /\ EventsOf(k) \subseteq Events
  /\ "rtt" \in EventsOf(k) <=> k = "rtt"

\* ScanCommand
LEMMA Fits_scan == Fits("scan")
  <1> DEFINE s == Command["scan"].start
             t == Command["scan"].cancel
             E == {"available", "complete", "full"}
  <1>1. EventsOf("scan") = E
    BY DEF EventsOf, ToSet, Command, ScanCommand, Ask, Configure, Enable, Disable, Register, Unregister
  <1>2. E \subseteq Events
    BY <1>1 DEF Events, Command
  <1>3. s = <<[do |-> "configure", undo |-> <<>>],
            [do |-> "configure", undo |-> <<>>],
            [do |-> "register", event |-> "available"],
            [do |-> "register", event |-> "complete"],
            [do |-> "register", event |-> "full"],
            [do |-> "enable", undo |-> <<"complete", "available", "full">>]>>
    BY DEF Command, ScanCommand, Ask, Configure, Enable, Disable, Register, Unregister
  <1>4. t = <<[do |-> "disable", undo |-> <<>>],
            [do |-> "unregister", event |-> "complete"],
            [do |-> "unregister", event |-> "available"],
            [do |-> "unregister", event |-> "full"]>>
    BY DEF Command, ScanCommand, Ask, Configure, Enable, Disable, Register, Unregister
  <1>5. ToSet(<<"complete", "available", "full">>) = {"complete", "available", "full"} /\ ToSet(<<>>) = {}
    BY DEF ToSet
  <1>6. <<"complete", "available", "full">> \in Seq(Events) /\ <<>> \in Seq(Events)
    BY <1>2
  <1>7. s \in Seq(Steps) /\ DOMAIN s = 1..6 /\ Len(s) = 6
    BY <1>2, <1>3, <1>6 DEF Steps
  <1>8. t \in Seq(Steps) /\ DOMAIN t = 1..4
    BY <1>2, <1>4, <1>6 DEF Steps
  <1> HIDE DEF s, t
  <1>9. StartPart(s, "scan")
    BY <1>1, <1>3, <1>5, <1>7 DEF StartPart
  <1>10. StopPart(t, "scan")
    BY <1>1, <1>4, <1>8 DEF StopPart
  <1>11. \A e \in E : (\E i \in DOMAIN s : s[i] = Register(e)) /\ (\E i \in DOMAIN t : t[i] = Unregister(e))
    BY <1>3, <1>4, <1>7, <1>8 DEF Register, Unregister
  <1>12. QED
    BY <1>1, <1>2, <1>7, <1>8, <1>9, <1>10, <1>11 DEF Fits, s, t

\* FullScanResultsCommand
LEMMA Fits_fullScan == Fits("fullScan")
  <1> DEFINE s == Command["fullScan"].start
             t == Command["fullScan"].cancel
             E == {"full"}
  <1>1. EventsOf("fullScan") = E
    BY DEF EventsOf, ToSet, Command, FullScanResultsCommand, Ask, Configure, Enable, Disable, Register, Unregister
  <1>2. E \subseteq Events
    BY <1>1 DEF Events, Command
  <1>3. s = <<[do |-> "register", event |-> "full"],
            [do |-> "enable", undo |-> <<"full">>]>>
    BY DEF Command, FullScanResultsCommand, Ask, Configure, Enable, Disable, Register, Unregister
  <1>4. t = <<[do |-> "disable", undo |-> <<>>],
            [do |-> "unregister", event |-> "full"]>>
    BY DEF Command, FullScanResultsCommand, Ask, Configure, Enable, Disable, Register, Unregister
  <1>5. ToSet(<<>>) = {} /\ ToSet(<<"full">>) = {"full"}
    BY DEF ToSet
  <1>6. <<>> \in Seq(Events) /\ <<"full">> \in Seq(Events)
    BY <1>2
  <1>7. s \in Seq(Steps) /\ DOMAIN s = 1..2 /\ Len(s) = 2
    BY <1>2, <1>3, <1>6 DEF Steps
  <1>8. t \in Seq(Steps) /\ DOMAIN t = 1..2
    BY <1>2, <1>4, <1>6 DEF Steps
  <1> HIDE DEF s, t
  <1>9. StartPart(s, "fullScan")
    BY <1>1, <1>3, <1>5, <1>7 DEF StartPart
  <1>10. StopPart(t, "fullScan")
    BY <1>1, <1>4, <1>8 DEF StopPart
  <1>11. \A e \in E : (\E i \in DOMAIN s : s[i] = Register(e)) /\ (\E i \in DOMAIN t : t[i] = Unregister(e))
    BY <1>3, <1>4, <1>7, <1>8 DEF Register, Unregister
  <1>12. QED
    BY <1>1, <1>2, <1>7, <1>8, <1>9, <1>10, <1>11 DEF Fits, s, t

\* BssidHotlistCommand
LEMMA Fits_hotlist == Fits("hotlist")
  <1> DEFINE s == Command["hotlist"].start
             t == Command["hotlist"].cancel
             E == {"found", "lost"}
  <1>1. EventsOf("hotlist") = E
    BY DEF EventsOf, ToSet, Command, BssidHotlistCommand, Ask, Configure, Enable, Disable, Register, Unregister
  <1>2. E \subseteq Events
    BY <1>1 DEF Events, Command
  <1>3. s = <<[do |-> "configure", undo |-> <<"found", "lost">>],
            [do |-> "register", event |-> "found"],
            [do |-> "register", event |-> "lost"],
            [do |-> "enable", undo |-> <<"found", "lost">>]>>
    BY DEF Command, BssidHotlistCommand, Ask, Configure, Enable, Disable, Register, Unregister
  <1>4. t = <<[do |-> "unregister", event |-> "found"],
            [do |-> "unregister", event |-> "lost"],
            [do |-> "disable", undo |-> <<>>]>>
    BY DEF Command, BssidHotlistCommand, Ask, Configure, Enable, Disable, Register, Unregister
  <1>5. ToSet(<<"found", "lost">>) = {"found", "lost"} /\ ToSet(<<>>) = {}
    BY DEF ToSet
  <1>6. <<"found", "lost">> \in Seq(Events) /\ <<>> \in Seq(Events)
    BY <1>2
  <1>7. s \in Seq(Steps) /\ DOMAIN s = 1..4 /\ Len(s) = 4
    BY <1>2, <1>3, <1>6 DEF Steps
  <1>8. t \in Seq(Steps) /\ DOMAIN t = 1..3
    BY <1>2, <1>4, <1>6 DEF Steps
  <1> HIDE DEF s, t
  <1>9. StartPart(s, "hotlist")
    BY <1>1, <1>3, <1>5, <1>7 DEF StartPart
  <1>10. StopPart(t, "hotlist")
    BY <1>1, <1>4, <1>8 DEF StopPart
  <1>11. \A e \in E : (\E i \in DOMAIN s : s[i] = Register(e)) /\ (\E i \in DOMAIN t : t[i] = Unregister(e))
    BY <1>3, <1>4, <1>7, <1>8 DEF Register, Unregister
  <1>12. QED
    BY <1>1, <1>2, <1>7, <1>8, <1>9, <1>10, <1>11 DEF Fits, s, t

\* ePNOCommand
LEMMA Fits_epno == Fits("epno")
  <1> DEFINE s == Command["epno"].start
             t == Command["epno"].cancel
             E == {"epno"}
  <1>1. EventsOf("epno") = E
    BY DEF EventsOf, ToSet, Command, ePNOCommand, Ask, Configure, Enable, Disable, Register, Unregister
  <1>2. E \subseteq Events
    BY <1>1 DEF Events, Command
  <1>3. s = <<[do |-> "enable", undo |-> <<"epno">>],
            [do |-> "register", event |-> "epno"]>>
    BY DEF Command, ePNOCommand, Ask, Configure, Enable, Disable, Register, Unregister
  <1>4. t = <<[do |-> "unregister", event |-> "epno"],
            [do |-> "disable", undo |-> <<>>]>>
    BY DEF Command, ePNOCommand, Ask, Configure, Enable, Disable, Register, Unregister
  <1>5. ToSet(<<"epno">>) = {"epno"} /\ ToSet(<<>>) = {}
    BY DEF ToSet
  <1>6. <<"epno">> \in Seq(Events) /\ <<>> \in Seq(Events)
    BY <1>2
  <1>7. s \in Seq(Steps) /\ DOMAIN s = 1..2 /\ Len(s) = 2
    BY <1>2, <1>3, <1>6 DEF Steps
  <1>8. t \in Seq(Steps) /\ DOMAIN t = 1..2
    BY <1>2, <1>4, <1>6 DEF Steps
  <1> HIDE DEF s, t
  <1>9. StartPart(s, "epno")
    BY <1>1, <1>3, <1>5, <1>7 DEF StartPart
  <1>10. StopPart(t, "epno")
    BY <1>1, <1>4, <1>8 DEF StopPart
  <1>11. \A e \in E : (\E i \in DOMAIN s : s[i] = Register(e)) /\ (\E i \in DOMAIN t : t[i] = Unregister(e))
    BY <1>3, <1>4, <1>7, <1>8 DEF Register, Unregister
  <1>12. QED
    BY <1>1, <1>2, <1>7, <1>8, <1>9, <1>10, <1>11 DEF Fits, s, t

\* SignificantWifiChangeCommand
LEMMA Fits_change == Fits("change")
  <1> DEFINE s == Command["change"].start
             t == Command["change"].cancel
             E == {"change"}
  <1>1. EventsOf("change") = E
    BY DEF EventsOf, ToSet, Command, SignificantWifiChangeCommand, Ask, Configure, Enable, Disable, Register, Unregister
  <1>2. E \subseteq Events
    BY <1>1 DEF Events, Command
  <1>3. s = <<[do |-> "configure", undo |-> <<>>],
            [do |-> "register", event |-> "change"],
            [do |-> "enable", undo |-> <<"change">>]>>
    BY DEF Command, SignificantWifiChangeCommand, Ask, Configure, Enable, Disable, Register, Unregister
  <1>4. t = <<[do |-> "unregister", event |-> "change"],
            [do |-> "disable", undo |-> <<>>]>>
    BY DEF Command, SignificantWifiChangeCommand, Ask, Configure, Enable, Disable, Register, Unregister
  <1>5. ToSet(<<"change">>) = {"change"} /\ ToSet(<<>>) = {}
    BY DEF ToSet
  <1>6. <<"change">> \in Seq(Events) /\ <<>> \in Seq(Events)
    BY <1>2
  <1>7. s \in Seq(Steps) /\ DOMAIN s = 1..3 /\ Len(s) = 3
    BY <1>2, <1>3, <1>6 DEF Steps
  <1>8. t \in Seq(Steps) /\ DOMAIN t = 1..2
    BY <1>2, <1>4, <1>6 DEF Steps
  <1> HIDE DEF s, t
  <1>9. StartPart(s, "change")
    BY <1>1, <1>3, <1>5, <1>7 DEF StartPart
  <1>10. StopPart(t, "change")
    BY <1>1, <1>4, <1>8 DEF StopPart
  <1>11. \A e \in E : (\E i \in DOMAIN s : s[i] = Register(e)) /\ (\E i \in DOMAIN t : t[i] = Unregister(e))
    BY <1>3, <1>4, <1>7, <1>8 DEF Register, Unregister
  <1>12. QED
    BY <1>1, <1>2, <1>7, <1>8, <1>9, <1>10, <1>11 DEF Fits, s, t

\* AnqpoConfigureCommand
LEMMA Fits_anqpo == Fits("anqpo")
  <1> DEFINE s == Command["anqpo"].start
             t == Command["anqpo"].cancel
             E == {"hotspot"}
  <1>1. EventsOf("anqpo") = E
    BY DEF EventsOf, ToSet, Command, AnqpoConfigureCommand, Ask, Configure, Enable, Disable, Register, Unregister
  <1>2. E \subseteq Events
    BY <1>1 DEF Events, Command
  <1>3. s = <<[do |-> "register", event |-> "hotspot"],
            [do |-> "enable", undo |-> <<"hotspot">>]>>
    BY DEF Command, AnqpoConfigureCommand, Ask, Configure, Enable, Disable, Register, Unregister
  <1>4. t = <<[do |-> "disable", undo |-> <<>>],
            [do |-> "unregister", event |-> "hotspot"]>>
    BY DEF Command, AnqpoConfigureCommand, Ask, Configure, Enable, Disable, Register, Unregister
  <1>5. ToSet(<<>>) = {} /\ ToSet(<<"hotspot">>) = {"hotspot"}
    BY DEF ToSet
  <1>6. <<>> \in Seq(Events) /\ <<"hotspot">> \in Seq(Events)
    BY <1>2
  <1>7. s \in Seq(Steps) /\ DOMAIN s = 1..2 /\ Len(s) = 2
    BY <1>2, <1>3, <1>6 DEF Steps
  <1>8. t \in Seq(Steps) /\ DOMAIN t = 1..2
    BY <1>2, <1>4, <1>6 DEF Steps
  <1> HIDE DEF s, t
  <1>9. StartPart(s, "anqpo")
    BY <1>1, <1>3, <1>5, <1>7 DEF StartPart
  <1>10. StopPart(t, "anqpo")
    BY <1>1, <1>4, <1>8 DEF StopPart
  <1>11. \A e \in E : (\E i \in DOMAIN s : s[i] = Register(e)) /\ (\E i \in DOMAIN t : t[i] = Unregister(e))
    BY <1>3, <1>4, <1>7, <1>8 DEF Register, Unregister
  <1>12. QED
    BY <1>1, <1>2, <1>7, <1>8, <1>9, <1>10, <1>11 DEF Fits, s, t

\* SetRSSIMonitorCommand
LEMMA Fits_rssi == Fits("rssi")
  <1> DEFINE s == Command["rssi"].start
             t == Command["rssi"].cancel
             E == {"rssi"}
  <1>1. EventsOf("rssi") = E
    BY DEF EventsOf, ToSet, Command, SetRSSIMonitorCommand, Ask, Configure, Enable, Disable, Register, Unregister
  <1>2. E \subseteq Events
    BY <1>1 DEF Events, Command
  <1>3. s = <<[do |-> "enable", undo |-> <<>>],
            [do |-> "register", event |-> "rssi"]>>
    BY DEF Command, SetRSSIMonitorCommand, Ask, Configure, Enable, Disable, Register, Unregister
  <1>4. t = <<[do |-> "disable", undo |-> <<>>],
            [do |-> "unregister", event |-> "rssi"]>>
    BY DEF Command, SetRSSIMonitorCommand, Ask, Configure, Enable, Disable, Register, Unregister
  <1>5. ToSet(<<>>) = {}
    BY DEF ToSet
  <1>6. <<>> \in Seq(Events)
    BY <1>2
  <1>7. s \in Seq(Steps) /\ DOMAIN s = 1..2 /\ Len(s) = 2
    BY <1>2, <1>3, <1>6 DEF Steps
  <1>8. t \in Seq(Steps) /\ DOMAIN t = 1..2
    BY <1>2, <1>4, <1>6 DEF Steps
  <1> HIDE DEF s, t
  <1>9. StartPart(s, "rssi")
    BY <1>1, <1>3, <1>5, <1>7 DEF StartPart
  <1>10. StopPart(t, "rssi")
    BY <1>1, <1>4, <1>8 DEF StopPart
  <1>11. \A e \in E : (\E i \in DOMAIN s : s[i] = Register(e)) /\ (\E i \in DOMAIN t : t[i] = Unregister(e))
    BY <1>3, <1>4, <1>7, <1>8 DEF Register, Unregister
  <1>12. QED
    BY <1>1, <1>2, <1>7, <1>8, <1>9, <1>10, <1>11 DEF Fits, s, t

\* RttCommand
LEMMA Fits_rtt == Fits("rtt")
  <1> DEFINE s == Command["rtt"].start
             t == Command["rtt"].cancel
             E == {"rtt"}
  <1>1. EventsOf("rtt") = E
    BY DEF EventsOf, ToSet, Command, RttCommand, Ask, Configure, Enable, Disable, Register, Unregister
  <1>2. E \subseteq Events
    BY <1>1 DEF Events, Command
  <1>3. s = <<[do |-> "enable", undo |-> <<>>],
            [do |-> "register", event |-> "rtt"]>>
    BY DEF Command, RttCommand, Ask, Configure, Enable, Disable, Register, Unregister
  <1>4. t = <<[do |-> "disable", undo |-> <<>>],
            [do |-> "unregister", event |-> "rtt"]>>
    BY DEF Command, RttCommand, Ask, Configure, Enable, Disable, Register, Unregister
  <1>5. ToSet(<<>>) = {}
    BY DEF ToSet
  <1>6. <<>> \in Seq(Events)
    BY <1>2
  <1>7. s \in Seq(Steps) /\ DOMAIN s = 1..2 /\ Len(s) = 2
    BY <1>2, <1>3, <1>6 DEF Steps
  <1>8. t \in Seq(Steps) /\ DOMAIN t = 1..2
    BY <1>2, <1>4, <1>6 DEF Steps
  <1> HIDE DEF s, t
  <1>9. StartPart(s, "rtt")
    BY <1>1, <1>3, <1>5, <1>7 DEF StartPart
  <1>10. StopPart(t, "rtt")
    BY <1>1, <1>4, <1>8 DEF StopPart
  <1>11. \A e \in E : (\E i \in DOMAIN s : s[i] = Register(e)) /\ (\E i \in DOMAIN t : t[i] = Unregister(e))
    BY <1>3, <1>4, <1>7, <1>8 DEF Register, Unregister
  <1>12. QED
    BY <1>1, <1>2, <1>7, <1>8, <1>9, <1>10, <1>11 DEF Fits, s, t

\* The commands of gscan.cpp, rtt.cpp and wifi_hal.cpp.
LEMMA AllFit == \A k \in Kinds : Fits(k)
  <1>1. DOMAIN Command = {"scan", "fullScan", "hotlist", "epno", "change", "anqpo", "rssi", "rtt"}
    BY DEF Command
  <1>2. QED
    BY <1>1, KindsAssumption, Fits_scan, Fits_fullScan, Fits_hotlist, Fits_epno, Fits_change, Fits_anqpo, Fits_rssi, Fits_rtt

\* Taking an element out of a list shifts what comes after it.
LEMMA RemoveAtIs ==
  ASSUME NEW S, NEW s \in Seq(S), NEW p \in 1..Len(s)
  PROVE  /\ RemoveAt(s, p) \in Seq(S)
         /\ Len(RemoveAt(s, p)) = Len(s) - 1
         /\ \A i \in 1..(Len(s) - 1) : RemoveAt(s, p)[i] = IF i < p THEN s[i] ELSE s[i + 1]
  <1> DEFINE A == SubSeq(s, 1, p - 1)
             B == SubSeq(s, p + 1, Len(s))
  <1>1. A \in Seq(S) /\ Len(A) = p - 1
    OBVIOUS
  <1>2. B \in Seq(S) /\ Len(B) = Len(s) - p
    OBVIOUS
  <1>3. \A i \in 1..(p - 1) : A[i] = s[i]
    OBVIOUS
  <1>4. \A i \in 1..(Len(s) - p) : B[i] = s[p + i]
    OBVIOUS
  <1>5. RemoveAt(s, p) = A \o B
    BY DEF RemoveAt
  <1>6. Len(s) \in Nat /\ p \in Nat /\ 1 <= p /\ p <= Len(s)
    OBVIOUS
  <1> HIDE DEF A, B
  <1>7. /\ A \o B \in Seq(S) /\ Len(A \o B) = Len(A) + Len(B)
        /\ \A i \in 1..(Len(A) + Len(B)) : (A \o B)[i] = IF i <= Len(A) THEN A[i] ELSE B[i - Len(A)]
    BY <1>1, <1>2, ConcatProperties
  <1>8. RemoveAt(s, p) \in Seq(S) /\ Len(RemoveAt(s, p)) = Len(s) - 1
    BY <1>1, <1>2, <1>5, <1>6, <1>7
  <1>9. ASSUME NEW i \in 1..(Len(s) - 1)
        PROVE  RemoveAt(s, p)[i] = IF i < p THEN s[i] ELSE s[i + 1]
    <2>1. RemoveAt(s, p)[i] = IF i <= p - 1 THEN A[i] ELSE B[i - (p - 1)]
      BY <1>1, <1>2, <1>5, <1>6, <1>7, SMTT(30)
    <2>2. CASE i < p
      BY <1>3, <1>6, <2>1, <2>2
    <2>3. CASE i >= p
      <3>1. i - (p - 1) \in 1..(Len(s) - p) /\ p + (i - (p - 1)) = i + 1
        BY <1>6, <2>3
      <3>2. B[i - (p - 1)] = s[i + 1]
        BY <1>4, <3>1
      <3>3. QED BY <1>6, <2>1, <2>3, <3>2
    <2>4. QED BY <1>6, <2>2, <2>3
  <1>10. QED BY <1>8, <1>9

\* wifi_unregister_vendor_handler removes the handler of the event, and no other.
LEMMA UnregisterIs ==
  ASSUME Types, OnePerEvent, NEW e, UnregisterHandler(e)
  PROVE  /\ eventCb' \in Seq([event : Events, cmd : Cmds])
         /\ OnePerEvent'
         /\ Handlers' = {h \in Handlers : h.event # e}
  <1> DEFINE S == [event : Events, cmd : Cmds]
             p == FirstOf(HandlersOf(e))
  <1>1. eventCb \in Seq(S)
    BY DEF Types
  <1>2. CASE HandlersOf(e) = {}
    BY <1>1, <1>2 DEF UnregisterHandler, HandlersOf, OnePerEvent, Handlers, ToSet
  <1>3. CASE HandlersOf(e) # {}
    <2> HandlersOf(e) \in SUBSET Nat
      BY <1>1 DEF HandlersOf
    <2>1. p \in HandlersOf(e)
      BY <1>3, FirstIsLeast
    <2>2. p \in 1..Len(eventCb) /\ eventCb[p].event = e
      BY <2>1 DEF HandlersOf
    <2>3. eventCb' = RemoveAt(eventCb, p)
      BY <1>3 DEF UnregisterHandler
    <2> HIDE DEF S, p
    <2>4. /\ eventCb' \in Seq(S) /\ Len(eventCb') = Len(eventCb) - 1
          /\ \A i \in 1..(Len(eventCb) - 1) : eventCb'[i] = IF i < p THEN eventCb[i] ELSE eventCb[i + 1]
      BY <1>1, <2>2, <2>3, RemoveAtIs
    <2>5. DOMAIN eventCb = 1..Len(eventCb) /\ DOMAIN eventCb' = 1..(Len(eventCb) - 1) /\ Len(eventCb) \in Nat
      BY <1>1, <2>4
    <2>6. OnePerEvent'
      <3>1. ASSUME NEW i \in DOMAIN eventCb', NEW j \in DOMAIN eventCb', eventCb'[i].event = eventCb'[j].event
            PROVE  i = j
        <4> DEFINE before(x) == IF x < p THEN x ELSE x + 1
        <4>1. before(i) \in DOMAIN eventCb /\ before(j) \in DOMAIN eventCb
          BY <2>2, <2>5
        <4>2. eventCb'[i] = eventCb[before(i)] /\ eventCb'[j] = eventCb[before(j)]
          BY <2>2, <2>4, <2>5
        <4>3. before(i) = before(j)
          BY <3>1, <4>1, <4>2 DEF OnePerEvent
        <4>4. QED BY <2>2, <2>5, <4>3
      <3>2. QED BY <3>1 DEF OnePerEvent
    <2>7. ASSUME NEW i \in DOMAIN eventCb, eventCb[i].event # e
          PROVE  \E j \in DOMAIN eventCb' : eventCb'[j] = eventCb[i]
      <3>1. CASE i < p
        BY <2>2, <2>4, <2>5, <3>1
      <3>2. CASE i > p
        <4>1. i - 1 \in DOMAIN eventCb' /\ eventCb'[i - 1] = eventCb[i]
          BY <2>2, <2>4, <2>5, <3>2
        <4>2. QED BY <4>1
      <3>3. QED BY <2>2, <2>5, <2>7, <3>1, <3>2
    <2>8. ASSUME NEW j \in DOMAIN eventCb'
          PROVE  \E i \in DOMAIN eventCb : i # p /\ eventCb'[j] = eventCb[i]
      <3>1. CASE j < p
        BY <2>2, <2>4, <2>5, <3>1
      <3>2. CASE j >= p
        BY <2>2, <2>4, <2>5, <3>2
      <3>3. QED BY <2>2, <2>5, <3>1, <3>2
    <2>9. \A i \in DOMAIN eventCb : i # p => eventCb[i].event # e
      BY <2>2, <2>5 DEF OnePerEvent
    <2>10. Handlers' = {h \in Handlers : h.event # e}
      BY <2>7, <2>8, <2>9 DEF Handlers, ToSet
    <2>11. QED BY <2>4, <2>6, <2>10 DEF S
  <1>4. QED BY <1>2, <1>3

\* wifi_register_vendor_handler adds a handler, or finds the table full.
LEMMA RegisterIs ==
  ASSUME Types, OnePerEvent, NEW e \in Events, NEW c \in Cmds, RegisterHandler(e, c),
         \A h \in Handlers : h.event # e
  PROVE  /\ eventCb' \in Seq([event : Events, cmd : Cmds])
         /\ OnePerEvent'
         /\ Handlers' = IF Len(eventCb) < CbSlots THEN Handlers \cup {[event |-> e, cmd |-> c]} ELSE Handlers
  <1> DEFINE S == [event : Events, cmd : Cmds]
             n == [event |-> e, cmd |-> c]
  <1>1. eventCb \in Seq(S) /\ n \in S
    BY DEF Types
  <1>2. CASE Len(eventCb) < CbSlots
    <2>1. eventCb' = Append(eventCb, n)
      BY <1>2 DEF RegisterHandler
    <2>2. n.event = e
      OBVIOUS
    <2> HIDE DEF S, n
    <2>3. /\ eventCb' \in Seq(S) /\ DOMAIN eventCb = 1..Len(eventCb) /\ DOMAIN eventCb' = 1..(Len(eventCb) + 1)
          /\ Len(eventCb) \in Nat /\ eventCb'[Len(eventCb) + 1] = n
          /\ \A i \in 1..Len(eventCb) : eventCb'[i] = eventCb[i]
      BY <1>1, <2>1
    <2>4. \A i \in DOMAIN eventCb : eventCb[i].event # e
      BY DEF Handlers, ToSet
    <2>5. OnePerEvent'
      BY <2>2, <2>3, <2>4 DEF OnePerEvent
    <2>6. Handlers' = Handlers \cup {n}
      BY <2>3 DEF Handlers, ToSet
    <2>7. QED BY <1>2, <2>3, <2>5, <2>6 DEF S, n
  <1>3. CASE ~(Len(eventCb) < CbSlots)
    BY <1>1, <1>3 DEF RegisterHandler, OnePerEvent, Handlers, ToSet
  <1>4. QED BY <1>2, <1>3

\* The memmove of wifi_unregister_cmd takes one command out and keeps the others.
LEMMA ShiftIs ==
  ASSUME NEW c \in Cmds, Types, ShiftSlots(c), Listed(c) # {},
         \A i, j \in 1..numCmd : slots[i] = slots[j] => i = j,
         \A i \in 1..numCmd : slots[i] # None
  PROVE  /\ slots' \in [1..CmdSlots -> Cmds \cup {None}]
         /\ numCmd \in 1..CmdSlots
         /\ \A i, j \in 1..(numCmd - 1) : slots'[i] = slots'[j] => i = j
         /\ \A i \in 1..(numCmd - 1) : slots'[i] # None /\ slots'[i] # c
         /\ slots'[numCmd] = slots[numCmd]
         /\ \A d \in Cmds \ {c} : (\E i \in 1..numCmd : slots[i] = d) <=> (\E i \in 1..(numCmd - 1) : slots'[i] = d)
         /\ \E i \in 1..numCmd : slots[i] = c
  <1> DEFINE p == FirstOf(Listed(c))
  <1>1. numCmd \in 0..CmdSlots /\ CmdSlots \in Nat /\ slots \in [1..CmdSlots -> Cmds \cup {None}]
    BY RegistryAssumption DEF Types
  <1> Listed(c) \in SUBSET Nat
    BY <1>1 DEF Listed
  <1>2. p \in Listed(c)
    BY FirstIsLeast
  <1>3. p \in 1..numCmd /\ slots[p] = c
    BY <1>2 DEF Listed
  <1>4. slots' = [i \in 1..CmdSlots |-> IF i >= p /\ i < numCmd THEN slots[i + 1] ELSE slots[i]]
    BY <1>1 DEF ShiftSlots
  <1> HIDE DEF p
  <1>5. slots' \in [1..CmdSlots -> Cmds \cup {None}] /\ slots'[numCmd] = slots[numCmd] /\ numCmd \in 1..CmdSlots
    BY <1>1, <1>3, <1>4
  <1>6. \A i \in 1..(numCmd - 1) : slots'[i] = IF i < p THEN slots[i] ELSE slots[i + 1]
    BY <1>1, <1>3, <1>4
  <1>7. \A i, j \in 1..(numCmd - 1) : slots'[i] = slots'[j] => i = j
    BY <1>1, <1>3, <1>6
  <1>8. \A i \in 1..(numCmd - 1) : slots'[i] # None /\ slots'[i] # c
    BY <1>1, <1>3, <1>6
  <1>9. ASSUME NEW d \in Cmds \ {c}, NEW i \in 1..numCmd, slots[i] = d
        PROVE  \E j \in 1..(numCmd - 1) : slots'[j] = d
    <2>1. CASE i < p
      BY <1>1, <1>3, <1>6, <1>9, <2>1
    <2>2. CASE i > p
      <3>1. i - 1 \in 1..(numCmd - 1) /\ slots'[i - 1] = d
        BY <1>1, <1>3, <1>6, <1>9, <2>2
      <3>2. QED BY <3>1
    <2>3. i # p
      BY <1>3, <1>9
    <2>4. QED BY <1>1, <1>3, <2>1, <2>2, <2>3
  <1>10. ASSUME NEW d \in Cmds \ {c}, NEW j \in 1..(numCmd - 1), slots'[j] = d
         PROVE  \E i \in 1..numCmd : slots[i] = d
    BY <1>1, <1>3, <1>6, <1>10
  <1>11. QED
    BY <1>3, <1>5, <1>7, <1>8, <1>9, <1>10

-----------------------------------------------------------------------------
(* What every step of the requester keeps. *)

\* What RInv says of the two threads together: a thread that works on cmd[] is alone there.
LEMMA Alone ==
  ASSUME RInv
  PROVE  /\ rq.at \in {"count", "shift", "shrink", "release"} \/ rq.op \in {"fail", "cancel", "sweep"} =>
              loop.at \notin {"shift", "shrink", "release"} /\ ~(loop.at = "call" /\ loop.last)
              /\ ~InCallback("rtt")
         /\ rq.at = "sweep" \/ rq.op = "sweep" \/ rq.at = "gone" => loop.at = "gone"
         /\ rq.op \in {"start", "fail", "cancel"} \/ Stopping => loop.at # "gone"
  <1>1. loop.at \in {"shift", "shrink", "release"} \/ (loop.at = "call" /\ loop.last) => InCallback("rtt")
    BY DEF RInv, Threads
  <1>2. rq.at \in {"count", "shift", "shrink", "release"} \/ rq.op \in {"fail", "cancel"} =>
          ~(rq.at \in {"idle", "wait"}) /\ rq.op # "rtt" /\ ~(rq.at = "script" /\ rq.op = "start")
    BY DEF RInv, Threads, Stopping, StoppedWithoutId
  <1>3. rq.op = "sweep" \/ rq.at = "sweep" \/ rq.at = "gone" => loop.at = "gone"
    BY DEF RInv, Threads
  <1>4. rq.op \in {"start", "fail", "cancel"} \/ Stopping => loop.at # "gone"
    BY DEF RInv, Threads
  <1>5. InCallback("rtt") => loop.at # "gone"
    BY DEF RInv, Threads, InCallback
  <1>6. QED BY <1>1, <1>2, <1>3, <1>4, <1>5 DEF RInv, Ranging

Held(c) == Saved(c) \/ TakenByCall(c) \/ TakenByLoop(c)

\* A command that a thread or the table has is there.
LEMMA HeldIsLive ==
  ASSUME RInv, NEW c \in Cmds, Held(c) \/ loop.cmd = c
  PROVE  Live(c) /\ kind[c] \in Kinds
  <1>1. refs[c] = Holds(Held(c)) + Holds(loop.cmd = c)
    BY DEF RInv, Counted, Held
  <1>2. refs[c] > 0
    BY <1>1 DEF Holds
  <1>3. QED BY <1>2 DEF RInv, Types, Phases, Live

\* A step that moves no reference.
LEMMA CountedStays ==
  ASSUME Counted, refs' = refs, loop'.cmd = loop.cmd, \A c \in Cmds : Held(c)' <=> Held(c)
  PROVE  Counted'
  BY DEF Counted, Held, Holds

\* What the tables and the commands in them are.
LEMMA Handled ==
  ASSUME RInv
  PROVE  /\ Handlers \subseteq [event : Events, cmd : Cmds]
         /\ \A c \in Cmds : Live(c) => kind[c] \in Kinds
         /\ "none" \notin Kinds /\ Outstanding \subseteq Cmds
  <1>1. Handlers \subseteq [event : Events, cmd : Cmds]
    <2> DEFINE S == [event : Events, cmd : Cmds]
    <2>1. eventCb \in Seq(S)
      BY DEF RInv, Types
    <2> HIDE DEF S
    <2>2. Handlers \subseteq S
      BY <2>1 DEF Handlers, ToSet
    <2>3. QED BY <2>2 DEF S
  <1>2. \A c \in Cmds : Live(c) => kind[c] \in Kinds
    BY DEF RInv, Types, Phases, Live
  <1>3. QED BY <1>1, <1>2, KindsAssumption DEF Outstanding, Command

\* wifi_register_cmd counts the command it has put in the table's last slot.
LEMMA CountCmdKeeps ==
  ASSUME RInv, Shapes, CountCmd
  PROVE  RInv'
  <1> DEFINE c == rq.cmd
  <1>1. /\ rq.at = "count" /\ rq.op = "start" /\ c \in Cmds /\ rq.saw = numCmd
        /\ numCmd \in Nat /\ numCmd < CmdSlots /\ CmdSlots \in Nat
    BY RegistryAssumption DEF RInv, CountCmd, Threads, Table, Types
  <1>2. loop.at \notin {"shift", "shrink", "release"} /\ ~(loop.at = "call" /\ loop.last) /\ loop.at # "gone"
    BY <1>1, Alone
  <1>3. Live(c) /\ kind[c] \in Kinds
    BY <1>1, HeldIsLive DEF Held, TakenByCall
  <1>4. Fits(kind[c])
    BY <1>3, AllFit
  <1>5. /\ numCmd' = numCmd + 1 /\ phase' = [phase EXCEPT ![c] = "starting"]
        /\ rq' = [rq EXCEPT !.at = "script", !.todo = Command[kind[c]].start]
        /\ eventCb' = eventCb /\ slots' = slots /\ refs' = refs /\ kind' = kind /\ created' = created
        /\ loop' = loop /\ sock' = sock /\ cleanup' = cleanup
    BY <1>1 DEF CountCmd, StoreNumCmd, objects, device
  <1>6. /\ rq'.at = "script" /\ rq'.op = "start" /\ rq'.cmd = c /\ rq'.todo = Command[kind[c]].start
        /\ rq'.saw = rq.saw /\ phase'[c] = "starting" /\ (\A d \in Cmds : d # c => phase'[d] = phase[d])
        /\ Handlers' = Handlers
    BY <1>1, <1>5 DEF RInv, Types, Shapes, Handlers
  <1>7. Types'
    <2>1. Command[kind[c]].start \in Seq(Steps)
      BY <1>4 DEF Fits
    <2>2. QED BY <1>1, <1>5, <1>6, <2>1, SMTT(30) DEF RInv, Types
  <1>8. Threads'
    BY <1>1, <1>2, <1>5, <1>6 DEF RInv, Threads, InCallback, Stopping
  <1>9. Size = numCmd /\ Size' = numCmd' /\ \A d \in Cmds : InTable(d)' <=> InTable(d) \/ d = c
    BY <1>1, <1>2, <1>5, <1>6 DEF RInv, Table, Size, InTable
  <1>10. Table'
    <2>1. slots[numCmd + 1] = c /\ ~InTable(c) /\ c # None
      BY <1>1 DEF RInv, Table, Threads
    <2>2. \A i \in 1..Size' : slots'[i] # None /\ (i # numCmd + 1 => i \in 1..Size /\ slots'[i] # c)
      BY <1>1, <1>5, <1>9, <2>1 DEF RInv, Table, InTable
    <2>3. \A i, j \in 1..Size' : slots'[i] = slots'[j] => i = j
      BY <1>1, <1>5, <1>9, <2>1, <2>2 DEF RInv, Table
    <2>4. \A d \in Cmds : phase'[d] \in {"starting", "running", "stopped"} => InTable(d)'
      BY <1>1, <1>6, <1>9 DEF RInv, Table
    <2>5. QED
      BY <1>1, <1>2, <1>5, <1>6, <2>2, <2>3, <2>4 DEF Table
  <1>11. Phases'
    <2>1. c <= created
      BY <1>1, <1>3 DEF RInv, Phases, Live, Types, Cmds
    <2>2. QED BY <1>1, <1>2, <1>5, <1>6, <2>1 DEF RInv, Phases, Types, Cmds
  <1>12. Counted'
    <2>1. \A d \in Cmds : Held(d)' <=> Held(d)
      BY <1>1, <1>2, <1>5, <1>6, <1>9 DEF Held, Saved, Pending, TakenByCall, TakenByLoop, RInv, Table, Threads, InTable, Size
    <2>2. QED BY <1>5, <2>1, CountedStays DEF RInv
  <1>13. Outstanding' = Outstanding \cup {c}
    BY <1>1, <1>6 DEF Outstanding
  <1>14. Owned'
    <2>1. ~Sweeping /\ ~Sweeping' /\ ~Stopping
      BY <1>1, <1>5, <1>6 DEF RInv, Threads, Sweeping, Stopping, StoppedWithoutId
    <2>2. QED
      BY <1>1, <1>5, <1>6, <1>13, <2>1 DEF RInv, Owned
  <1>15. OnePerEvent'
    BY <1>5 DEF RInv, OnePerEvent
  <1>16. Scripts'
    <2>1. StartPart(rq'.todo, kind'[c])
      BY <1>4, <1>5, <1>6 DEF Fits
    <2>2. ASSUME NEW h \in Handlers PROVE h.event \notin EventsOf(kind[c]) /\ h.cmd # c
      BY <1>1 DEF RInv, Scripts, Owned
    <2>3. \A i \in DOMAIN rq'.todo : rq'.todo[i].do = "register" => rq'.todo[i].event \in EventsOf(kind[c])
      BY <1>5, <2>1 DEF StartPart
    <2>4. QED
      BY <1>5, <1>6, <2>1, <2>2, <2>3 DEF Scripts
  <1>17. Apart'
    <2>1. \A d \in Outstanding \ {c} : EventsOf(kind[d]) \cap EventsOf(kind[c]) = {}
      BY <1>1 DEF RInv, Apart, Feature, Threads
    <2>2. ~Stopping' /\ ~InCallback("rtt")'
      BY <1>1, <1>5, <1>6, Alone DEF Stopping, StoppedWithoutId, InCallback
    <2>3. QED
      BY <1>1, <1>5, <1>6, <1>13, <2>1, <2>2 DEF RInv, Apart
  <1>18. Ranging'
    BY <1>1, <1>2, <1>5, <1>6 DEF RInv, Ranging, InCallback
  <1>19. QED
    BY <1>7, <1>8, <1>10, <1>11, <1>12, <1>14, <1>15, <1>16, <1>17, <1>18 DEF RInv

\* A step of a script is taken: the rest of the script is what it was without its head.
LEMMA Advance ==
  ASSUME Types, Shapes, rq.todo # <<>>, Done
  PROVE  /\ rq'.op = rq.op /\ rq'.at = rq.at /\ rq'.cmd = rq.cmd /\ rq'.saw = rq.saw
         /\ rq'.todo \in Seq(Steps) /\ Step = rq.todo[1] /\ 1 \in DOMAIN rq.todo
         /\ \A i \in DOMAIN rq'.todo : i + 1 \in DOMAIN rq.todo /\ rq'.todo[i] = rq.todo[i + 1]
         /\ \A i \in DOMAIN rq.todo : i = 1 \/ (i - 1 \in DOMAIN rq'.todo /\ rq'.todo[i - 1] = rq.todo[i])
         /\ \A k : StartPart(rq.todo, k) => StartPart(rq'.todo, k)
         /\ \A k : StopPart(rq.todo, k) => StopPart(rq'.todo, k)
  <1>1. rq.todo \in Seq(Steps)
    BY DEF Types
  <1>2. rq' = [rq EXCEPT !.todo = Tail(rq.todo)]
    BY DEF Done
  <1>3. rq'.op = rq.op /\ rq'.at = rq.at /\ rq'.cmd = rq.cmd /\ rq'.saw = rq.saw /\ rq'.todo = Tail(rq.todo)
    BY <1>2 DEF Shapes
  <1> DEFINE s == rq.todo
             t == rq'.todo
  <1>4. /\ Len(s) \in Nat /\ Len(s) > 0 /\ DOMAIN s = 1..Len(s) /\ DOMAIN t = 1..(Len(s) - 1)
        /\ t \in Seq(Steps) /\ Step = s[1] /\ Len(t) = Len(s) - 1 /\ \A i \in 1..(Len(s) - 1) : t[i] = s[i + 1]
    BY <1>1, <1>3 DEF Step
  <1> HIDE DEF s, t
  <1>5. \A i \in DOMAIN t : i + 1 \in DOMAIN s /\ t[i] = s[i + 1]
    BY <1>4
  <1>6. \A i \in DOMAIN s : i = 1 \/ (i - 1 \in DOMAIN t /\ t[i - 1] = s[i])
    BY <1>4
  <1>7. ASSUME NEW k, StartPart(s, k) PROVE StartPart(t, k)
    <2>1. ASSUME NEW i \in DOMAIN t, NEW j \in DOMAIN t, i < j, t[i].do = "register"
          PROVE  IF t[j].do = "register" THEN t[i].event # t[j].event ELSE t[i].event \in ToSet(t[j].undo)
      <3>1. i + 1 \in DOMAIN s /\ j + 1 \in DOMAIN s /\ i + 1 < j + 1 /\ t[i] = s[i + 1] /\ t[j] = s[j + 1]
        BY <1>4, <1>5, <2>1
      <3>2. QED BY <1>7, <2>1, <3>1 DEF StartPart
    <2>2. ASSUME NEW i \in DOMAIN t, t[i].do = "register", t[i].event = "rtt" PROVE i = Len(t)
      BY <1>4, <1>5, <1>7, <2>2 DEF StartPart
    <2>3. QED BY <1>5, <1>7, <2>1, <2>2 DEF StartPart
  <1>8. \A k : StopPart(s, k) => StopPart(t, k)
    BY <1>5 DEF StopPart
  <1>9. QED BY <1>3, <1>4, <1>5, <1>6, <1>7, <1>8 DEF s, t

\* A step that leaves cmd[], the commands and the places of the two threads alone.
LEMMA PlacesStay ==
  ASSUME RInv, rq.at = "script", rq.todo # <<>>,
         rq'.op = rq.op, rq'.at = rq.at, rq'.cmd = rq.cmd, rq'.saw = rq.saw,
         slots' = slots, numCmd' = numCmd, refs' = refs, kind' = kind, created' = created,
         phase' = phase, loop' = loop, sock' = sock, cleanup' = cleanup
  PROVE  Threads' /\ Table' /\ Phases' /\ Counted'
  <1>1. Threads'
    BY DEF RInv, Threads, InCallback, Stopping
  <1>2. Size' = Size /\ Taken' = Taken /\ \A d : InTable(d)' <=> InTable(d)
    BY DEF Size, InTable, Taken
  <1>3. Table'
    BY <1>2 DEF RInv, Table
  <1>4. Phases'
    BY DEF RInv, Phases
  <1>5. \A d \in Cmds : Held(d)' <=> Held(d)
    BY DEF Held, Saved, Pending, TakenByCall, TakenByLoop
  <1>6. Counted'
    BY <1>5, CountedStays DEF RInv
  <1>7. QED BY <1>1, <1>3, <1>4, <1>6

\* So do the events of the commands and of the call.
LEMMA ApartStays ==
  ASSUME Apart, rq'.op = rq.op, rq'.at = rq.at, rq'.cmd = rq.cmd, kind' = kind, phase' = phase,
         loop'.cmd = loop.cmd
  PROVE  Apart'
  <1>1. Outstanding' = Outstanding /\ Feature' = Feature
    BY DEF Outstanding, Feature
  <1>2. (Stopping' <=> Stopping) /\ (InCallback("rtt")' <=> InCallback("rtt"))
    BY DEF Stopping, InCallback
  <1> HIDE DEF Outstanding, Feature, Stopping, InCallback
  <1>3. QED BY <1>1, <1>2 DEF Apart

\* A handler is added in the call that starts its command.
LEMMA RegisterKeeps ==
  ASSUME RInv, Shapes, ChangeHandlers, Step.do = "register"
  PROVE  RInv'
  <1> DEFINE e == Step.event
             c == rq.cmd
  <1>1. /\ rq.at = "script" /\ rq.todo # <<>> /\ Done /\ RegisterHandler(e, c) /\ Step \in Steps
        /\ slots' = slots /\ numCmd' = numCmd /\ refs' = refs /\ kind' = kind /\ created' = created
        /\ phase' = phase /\ loop' = loop /\ sock' = sock /\ cleanup' = cleanup
    <2>1. Step \in Steps
      BY DEF ChangeHandlers, RInv, Types, Step
    <2>2. QED BY <2>1 DEF ChangeHandlers, objects, device
  <1>2. /\ rq'.op = rq.op /\ rq'.at = rq.at /\ rq'.cmd = rq.cmd /\ rq'.saw = rq.saw
        /\ rq'.todo \in Seq(Steps) /\ Step = rq.todo[1] /\ 1 \in DOMAIN rq.todo
        /\ \A i \in DOMAIN rq'.todo : i + 1 \in DOMAIN rq.todo /\ rq'.todo[i] = rq.todo[i + 1]
        /\ \A k : StartPart(rq.todo, k) => StartPart(rq'.todo, k)
    BY <1>1, Advance DEF RInv
  <1>3. rq.op = "start" /\ c \in Cmds
    <2>1. rq.op = "start"
      BY <1>1, <1>2 DEF RInv, Scripts, StopPart
    <2>2. QED BY <2>1 DEF RInv, Threads, Types
  <1>4. StartPart(rq.todo, kind[c]) /\ phase[c] = "starting" /\ e \in EventsOf(kind[c])
        /\ (\A h \in Handlers : h.event # e)
    BY <1>1, <1>2, <1>3 DEF RInv, Scripts, Phases, StartPart
  <1>5. e \in Events /\ Live(c) /\ kind[c] \in Kinds
    <2>1. InTable(c) /\ rq.at # "shrink" /\ rq.op # "sweep" /\ cleanup = "none"
      BY <1>1, <1>3, <1>4 DEF RInv, Table, Threads
    <2>2. Held(c)
      BY <2>1 DEF Held, Saved, Pending, InTable, Size, RInv, Types
    <2>3. e \in Events
      BY <1>1 DEF Steps
    <2>4. QED BY <1>3, <2>2, <2>3, HeldIsLive
  <1>6. /\ eventCb' \in Seq([event : Events, cmd : Cmds]) /\ OnePerEvent'
        /\ Handlers' = IF Len(eventCb) < CbSlots THEN Handlers \cup {[event |-> e, cmd |-> c]} ELSE Handlers
    <2>1. Types /\ OnePerEvent
      BY DEF RInv
    <2>2. PICK x \in Events, d \in Cmds : x = e /\ d = c
      BY <1>3, <1>5
    <2>3. RegisterHandler(x, d) /\ \A h \in Handlers : h.event # x
      BY <1>1, <1>4, <2>2
    <2>4. /\ eventCb' \in Seq([event : Events, cmd : Cmds]) /\ OnePerEvent'
          /\ Handlers' = IF Len(eventCb) < CbSlots THEN Handlers \cup {[event |-> x, cmd |-> d]} ELSE Handlers
      BY <2>1, <2>2, <2>3, RegisterIs
    <2>5. QED BY <2>2, <2>4
  <1>7. \A h \in Handlers' : h \in Handlers \/ (h.event = e /\ h.cmd = c)
    BY <1>6
  <1>8. Types'
    BY <1>1, <1>2, <1>6 DEF RInv, Types
  <1>9. Threads' /\ Table' /\ Phases' /\ Counted'
    BY <1>1, <1>2, PlacesStay
  <1>10. Owned'
    <2>1. ~Sweeping /\ ~Sweeping' /\ ~Stopping /\ Outstanding' = Outstanding /\ c \in Outstanding
      BY <1>1, <1>2, <1>3, <1>4 DEF RInv, Threads, Sweeping, Stopping, StoppedWithoutId, Outstanding
    <2>2. QED BY <1>1, <1>2, <1>3, <1>4, <1>7, <2>1 DEF RInv, Owned
  <1>11. Scripts'
    <2>1. StartPart(rq'.todo, kind[c])
      BY <1>2, <1>4
    <2>2. \A i \in DOMAIN rq'.todo : rq'.todo[i].do = "register" => rq'.todo[i].event # e
      BY <1>1, <1>2, <1>4, SMTT(30) DEF StartPart, RInv, Types
    <2>3. \A i \in DOMAIN rq'.todo : rq'.todo[i].do # "register" => e \in ToSet(rq'.todo[i].undo)
      <3>1. SUFFICES ASSUME NEW i \in DOMAIN rq'.todo, rq'.todo[i].do # "register"
                     PROVE  e \in ToSet(rq'.todo[i].undo)
        OBVIOUS
      <3>2. 1 < i + 1 /\ i + 1 \in DOMAIN rq.todo /\ rq'.todo[i] = rq.todo[i + 1]
        BY <1>2
      <3>3. rq.todo[1].do = "register" /\ rq.todo[1].event = e
        BY <1>2
      <3>4. QED BY <1>2, <1>4, <3>1, <3>2, <3>3 DEF StartPart
    <2>4. QED
      BY <1>1, <1>2, <1>3, <1>7, <2>1, <2>2, <2>3 DEF RInv, Scripts
  <1>12. Apart'
    BY <1>1, <1>2, ApartStays DEF RInv
  <1>13. Ranging'
    <2>1. ASSUME e = "rtt" PROVE rq'.todo = <<>>
      <3>1. Len(rq.todo) = 1
        <4>1. 1 \in DOMAIN rq.todo /\ rq.todo[1].do = "register" /\ rq.todo[1].event = "rtt"
          BY <1>2, <2>1
        <4>2. \A i \in DOMAIN rq.todo : rq.todo[i].do = "register" /\ rq.todo[i].event = "rtt" => i = Len(rq.todo)
          BY <1>4 DEF StartPart
        <4>3. 1 = Len(rq.todo)
          BY <4>1, <4>2
        <4>4. QED BY <4>3
      <3>2. 1 \notin DOMAIN rq'.todo
        BY <1>2, <3>1 DEF RInv, Types
      <3>3. QED BY <1>2, <3>2
    <2>2. InCallback("rtt")' <=> InCallback("rtt")
      BY <1>1 DEF InCallback
    <2>3. QED BY <1>1, <1>2, <1>3, <1>7, <2>1, <2>2 DEF RInv, Ranging
  <1>14. QED
    BY <1>6, <1>8, <1>9, <1>10, <1>11, <1>12, <1>13 DEF RInv

\* A handler is removed by the call that undoes its command.
LEMMA UnregisterKeeps ==
  ASSUME RInv, Shapes, ChangeHandlers, Step.do = "unregister"
  PROVE  RInv'
  <1> DEFINE e == Step.event
             c == rq.cmd
  <1>1. /\ rq.at = "script" /\ rq.todo # <<>> /\ Done /\ UnregisterHandler(e)
        /\ slots' = slots /\ numCmd' = numCmd /\ refs' = refs /\ kind' = kind /\ created' = created
        /\ phase' = phase /\ loop' = loop /\ sock' = sock /\ cleanup' = cleanup
    BY DEF ChangeHandlers, objects, device
  <1>2. /\ rq'.op = rq.op /\ rq'.at = rq.at /\ rq'.cmd = rq.cmd /\ rq'.saw = rq.saw
        /\ rq'.todo \in Seq(Steps) /\ Step = rq.todo[1] /\ 1 \in DOMAIN rq.todo
        /\ \A i \in DOMAIN rq'.todo : i + 1 \in DOMAIN rq.todo /\ rq'.todo[i] = rq.todo[i + 1]
        /\ \A i \in DOMAIN rq.todo : i = 1 \/ (i - 1 \in DOMAIN rq'.todo /\ rq'.todo[i - 1] = rq.todo[i])
        /\ \A k : StopPart(rq.todo, k) => StopPart(rq'.todo, k)
    BY <1>1, Advance DEF RInv
  <1>3. rq.op # "start"
    BY <1>1, <1>2 DEF RInv, Scripts, StartPart
  <1>4. /\ eventCb' \in Seq([event : Events, cmd : Cmds]) /\ OnePerEvent'
        /\ Handlers' = {h \in Handlers : h.event # e}
    <2>1. PICK x : x = e
      OBVIOUS
    <2>2. Types /\ OnePerEvent /\ UnregisterHandler(x)
      BY <1>1, <2>1 DEF RInv
    <2>3. /\ eventCb' \in Seq([event : Events, cmd : Cmds]) /\ OnePerEvent'
          /\ Handlers' = {h \in Handlers : h.event # x}
      BY <2>2, UnregisterIs
    <2>4. QED BY <2>1, <2>3
  <1>5. \A x : x # e /\ WillUnregister(x) => WillUnregister(x)'
    BY <1>2 DEF WillUnregister
  <1>6. Types'
    BY <1>1, <1>2, <1>4 DEF RInv, Types
  <1>7. Threads' /\ Table' /\ Phases' /\ Counted'
    BY <1>1, <1>2, PlacesStay
  <1>8. Owned'
    <2>1. (Sweeping' <=> Sweeping) /\ (Stopping' <=> Stopping) /\ Outstanding' = Outstanding
          /\ \A d : Saved(d)' <=> Saved(d)
      BY <1>1, <1>2 DEF Sweeping, Stopping, Outstanding, Saved, Pending
    <2>2. QED BY <1>1, <1>2, <1>4, <1>5, <2>1 DEF RInv, Owned
  <1>9. Scripts'
    <2>1. Feature' = Feature
      BY <1>1, <1>2 DEF Feature
    <2>2. QED BY <1>1, <1>2, <1>3, <2>1 DEF RInv, Scripts
  <1>10. Apart'
    BY <1>1, <1>2, ApartStays DEF RInv
  <1>11. Ranging'
    BY <1>1, <1>2, <1>3, <1>4 DEF RInv, Ranging, InCallback
  <1>12. QED
    BY <1>4, <1>6, <1>7, <1>8, <1>9, <1>10, <1>11 DEF RInv

\* The driver answers, and the script goes on.
LEMMA AnsweredKeeps ==
  ASSUME RInv, Shapes, rq.at = "script", rq.todo # <<>>, Step.do # "register", Step.do # "unregister", Done,
         UNCHANGED <<registry, objects, phase, loop, sock, sent, cleanup>>
  PROVE  RInv'
  <1>1. /\ eventCb' = eventCb /\ slots' = slots /\ numCmd' = numCmd /\ refs' = refs /\ kind' = kind
        /\ created' = created /\ phase' = phase /\ loop' = loop /\ sock' = sock /\ cleanup' = cleanup
        /\ Handlers' = Handlers
    BY DEF registry, objects, Handlers
  <1>2. /\ rq'.op = rq.op /\ rq'.at = rq.at /\ rq'.cmd = rq.cmd /\ rq'.saw = rq.saw
        /\ rq'.todo \in Seq(Steps) /\ Step = rq.todo[1] /\ 1 \in DOMAIN rq.todo
        /\ \A i \in DOMAIN rq'.todo : i + 1 \in DOMAIN rq.todo /\ rq'.todo[i] = rq.todo[i + 1]
        /\ \A i \in DOMAIN rq.todo : i = 1 \/ (i - 1 \in DOMAIN rq'.todo /\ rq'.todo[i - 1] = rq.todo[i])
        /\ \A k : StartPart(rq.todo, k) => StartPart(rq'.todo, k)
        /\ \A k : StopPart(rq.todo, k) => StopPart(rq'.todo, k)
    BY Advance DEF RInv
  <1>3. \A x : WillUnregister(x) => WillUnregister(x)'
    BY <1>2 DEF WillUnregister
  <1>4. Types'
    BY <1>1, <1>2 DEF RInv, Types
  <1>5. Threads' /\ Table' /\ Phases' /\ Counted'
    BY <1>1, <1>2, PlacesStay
  <1>6. Owned'
    <2>1. (Sweeping' <=> Sweeping) /\ (Stopping' <=> Stopping) /\ Outstanding' = Outstanding
          /\ \A d : Saved(d)' <=> Saved(d)
      BY <1>1, <1>2 DEF Sweeping, Stopping, Outstanding, Saved, Pending
    <2>2. QED BY <1>1, <1>2, <1>3, <2>1 DEF RInv, Owned
  <1>7. OnePerEvent'
    BY <1>1 DEF RInv, OnePerEvent
  <1>8. Scripts'
    <2>1. Feature' = Feature
      BY <1>1, <1>2 DEF Feature
    <2>2. QED BY <1>1, <1>2, <2>1 DEF RInv, Scripts
  <1>9. Apart'
    BY <1>1, <1>2, ApartStays DEF RInv
  <1>10. Ranging'
    BY <1>1, <1>2 DEF RInv, Ranging, InCallback
  <1>11. QED
    BY <1>4, <1>5, <1>6, <1>7, <1>8, <1>9, <1>10 DEF RInv

\* The driver refuses a start: what was registered for it will be removed.
LEMMA RefusedKeeps ==
  ASSUME RInv, Shapes, rq.at = "script", rq.todo # <<>>, Step.do # "register", rq.op = "start",
         rq' = [rq EXCEPT !.op = "fail", !.todo = [i \in DOMAIN Step.undo |-> Unregister(Step.undo[i])]],
         UNCHANGED <<registry, objects, phase, loop, sock, sent, cleanup>>
  PROVE  RInv'
  <1> DEFINE c == rq.cmd
             u == Step.undo
  <1>1. /\ eventCb' = eventCb /\ slots' = slots /\ numCmd' = numCmd /\ refs' = refs /\ kind' = kind
        /\ created' = created /\ phase' = phase /\ loop' = loop /\ sock' = sock /\ cleanup' = cleanup
        /\ Handlers' = Handlers
    BY DEF registry, objects, Handlers
  <1>2. /\ rq'.op = "fail" /\ rq'.at = rq.at /\ rq'.cmd = rq.cmd /\ rq'.saw = rq.saw
        /\ rq'.todo = [i \in DOMAIN u |-> Unregister(u[i])]
    BY DEF Shapes
  <1>3. Step = rq.todo[1] /\ 1 \in DOMAIN rq.todo /\ Step \in Steps
    BY DEF RInv, Types, Step
  <1>4. StartPart(rq.todo, kind[c]) /\ phase[c] = "starting" /\ c \in Cmds
    BY DEF RInv, Scripts, Phases, Threads, Types
  <1>5. Step.do \in {"configure", "enable"} /\ ToSet(u) \subseteq EventsOf(kind[c])
    BY <1>3, <1>4 DEF StartPart
  <1>6. u \in Seq(Events)
    BY <1>3, <1>5 DEF Steps
  <1>7. rq'.todo \in Seq(Steps) /\ DOMAIN rq'.todo = DOMAIN u
        /\ \A i \in DOMAIN u : rq'.todo[i].do = "unregister" /\ rq'.todo[i].event = u[i]
    <2>1. \A x \in Events : Unregister(x) \in Steps /\ Unregister(x).do = "unregister" /\ Unregister(x).event = x
      BY DEF Unregister, Steps
    <2>2. \A i \in DOMAIN u : u[i] \in Events
      BY <1>6
    <2>3. DOMAIN u = 1..Len(u) /\ Len(u) \in Nat
      BY <1>6
    <2> HIDE DEF u
    <2>4. QED BY <1>2, <2>1, <2>2, <2>3
  <1>8. rq.at # "shrink" /\ loop.at # "shrink" /\ cleanup = "none" /\ c # None /\ loop.at # "gone"
        /\ ~InCallback("rtt") /\ \A h \in Handlers : h.event # "rtt"
    BY DEF RInv, Threads, Ranging
  <1>9. Types'
    BY <1>1, <1>2, <1>7 DEF RInv, Types
  <1>10. Threads'
    BY <1>1, <1>2, <1>8 DEF RInv, Threads, InCallback, Stopping, StoppedWithoutId
  <1>11. \A d : InTable(d)' <=> InTable(d)
    BY <1>1, <1>2, <1>8 DEF InTable, Size
  <1>12. Table'
    <2>1. Size' = Size
      BY <1>1, <1>2, <1>8 DEF Size
    <2>2. QED BY <1>1, <1>2, <1>8, <1>11, <2>1 DEF RInv, Table
  <1>13. Phases'
    BY <1>1, <1>2, <1>4 DEF RInv, Phases
  <1>14. Counted'
    <2>1. \A d \in Cmds : Saved(d)' <=> Saved(d)
      BY <1>1, <1>2, <1>8 DEF Saved, Pending
    <2>2. Saved(c)
      BY <1>4, <1>8 DEF RInv, Table, InTable, Size, Saved, Pending
    <2>3. \A d \in Cmds : Held(d)' <=> Held(d)
      BY <1>1, <1>2, <2>1, <2>2 DEF Held, TakenByCall, TakenByLoop
    <2>4. QED BY <1>1, <2>3, CountedStays DEF RInv
  <1>15. Owned'
    <2>1. ~Sweeping /\ ~Sweeping' /\ ~Stopping /\ ~Stopping' /\ Outstanding' = Outstanding
      BY <1>1, <1>2, <1>8 DEF Sweeping, Stopping, StoppedWithoutId, Outstanding
    <2>2. ASSUME NEW h \in Handlers, h.cmd = c PROVE WillUnregister(h.event)'
      <3>1. h.event \in ToSet(u)
        BY <1>3, <2>2 DEF RInv, Scripts
      <3>2. PICK i \in DOMAIN u : u[i] = h.event
        BY <3>1 DEF ToSet
      <3>3. QED BY <1>7, <3>2 DEF WillUnregister
    <2>3. QED BY <1>1, <1>2, <2>1, <2>2 DEF RInv, Owned
  <1>16. OnePerEvent'
    BY <1>1 DEF RInv, OnePerEvent
  <1>17. Scripts'
    <2>1. Feature' = kind[c]
      BY <1>1, <1>2, <1>8 DEF Feature
    <2>2. \A i \in DOMAIN u : u[i] \in EventsOf(kind[c])
      BY <1>5 DEF ToSet
    <2>3. StopPart(rq'.todo, kind[c])
      BY <1>7, <2>2 DEF StopPart
    <2>4. QED BY <1>2, <2>1, <2>3 DEF Scripts
  <1>18. Apart'
    <2>1. Outstanding' = Outstanding /\ c \in Outstanding
      BY <1>1, <1>4 DEF Outstanding
    <2>2. Feature' = kind[c] /\ ~InCallback("rtt")' /\ ~Stopping'
      BY <1>1, <1>2, <1>8 DEF Feature, InCallback, Stopping, StoppedWithoutId
    <2>3. QED BY <1>1, <1>2, <2>1, <2>2 DEF RInv, Apart
  <1>19. Ranging'
    BY <1>1, <1>8 DEF Ranging, InCallback
  <1>20. QED
    BY <1>9, <1>10, <1>12, <1>13, <1>14, <1>15, <1>16, <1>17, <1>18, <1>19 DEF RInv

\* start() has returned: the command runs, or its results have come already.
LEMMA StartedKeeps ==
  ASSUME RInv, Shapes, Started
  PROVE  RInv'
  <1> DEFINE c == rq.cmd
  <1>1. /\ eventCb' = eventCb /\ slots' = slots /\ numCmd' = numCmd /\ refs' = refs /\ kind' = kind
        /\ created' = created /\ loop' = loop /\ sock' = sock /\ cleanup' = cleanup
        /\ Handlers' = Handlers /\ rq.at = "script" /\ rq.todo = <<>> /\ rq.op = "start"
    BY DEF registry, objects, device, Handlers, Started
  <1>2. rq'.op = "none" /\ rq'.at = "idle" /\ rq'.cmd = None /\ rq'.saw = 0 /\ rq'.todo = <<>>
    BY DEF Started, Idle
  <1>3. c \in Cmds /\ cleanup = "none" /\ loop.at # "gone"
    BY <1>1 DEF RInv, Threads, Types
  <1>4. /\ phase' \in [Cmds -> {"none", "starting", "running", "stopped", "ended"}]
        /\ \A d \in Cmds : phase'[d] = IF d = c /\ phase[d] = "starting" THEN "running" ELSE phase[d]
        /\ \A d \in Cmds : phase[d] = "starting" => d = c
    BY <1>1, <1>3 DEF Started, RInv, Types, Phases
  <1>5. Outstanding' = Outstanding
    BY <1>4 DEF Outstanding
  <1>6. Types'
    BY <1>1, <1>2, <1>4 DEF RInv, Types
  <1>7. Threads'
    BY <1>1, <1>2, <1>3 DEF RInv, Threads, InCallback, Stopping, StoppedWithoutId
  <1>8. Table'
    <2>1. Size' = Size /\ (loop.at = "shrink" => Taken' = Taken) /\ \A d : InTable(d)' <=> InTable(d)
      BY <1>1, <1>2 DEF Size, InTable, Taken
    <2>2. \A d \in Cmds : phase'[d] \in {"starting", "running", "stopped"} => InTable(d)'
      BY <1>4, <2>1 DEF RInv, Table
    <2>3. QED BY <1>1, <1>2, <2>1, <2>2 DEF RInv, Table
  <1>9. Phases'
    BY <1>1, <1>2, <1>4 DEF RInv, Phases
  <1>10. Counted'
    <2>1. \A d \in Cmds : Held(d)' <=> Held(d)
      BY <1>1, <1>2 DEF Held, Saved, Pending, TakenByCall, TakenByLoop
    <2>2. QED BY <1>1, <2>1, CountedStays DEF RInv
  <1>11. Owned'
    <2>1. ~Sweeping /\ ~Sweeping' /\ ~Stopping
      BY <1>1, <1>2, <1>3 DEF Sweeping, Stopping, StoppedWithoutId
    <2>2. QED BY <1>1, <1>2, <1>5, <2>1 DEF RInv, Owned
  <1>12. OnePerEvent'
    BY <1>1 DEF RInv, OnePerEvent
  <1>13. Scripts' /\ Ranging'
    BY <1>2 DEF Scripts, Ranging
  <1>14. Apart'
    <2>1. ~Stopping' /\ (InCallback("rtt")' <=> InCallback("rtt"))
      BY <1>1, <1>2 DEF Stopping, StoppedWithoutId, InCallback
    <2>2. QED BY <1>1, <1>2, <1>5, <2>1 DEF RInv, Apart
  <1>15. QED
    BY <1>6, <1>7, <1>8, <1>9, <1>10, <1>11, <1>12, <1>13, <1>14 DEF RInv

\* start() has failed and its handlers are gone.
LEMMA FailedKeeps ==
  ASSUME RInv, Shapes, Failed
  PROVE  RInv'
  <1> DEFINE c == rq.cmd
  <1>1. /\ eventCb' = eventCb /\ slots' = slots /\ numCmd' = numCmd /\ refs' = refs /\ kind' = kind
        /\ created' = created /\ loop' = loop /\ sock' = sock /\ cleanup' = cleanup
        /\ Handlers' = Handlers /\ rq.at = "script" /\ rq.todo = <<>> /\ rq.op = "fail"
    BY DEF registry, objects, device, Handlers, Failed
  <1>2. rq'.op = "fail" /\ rq'.at = "shift" /\ rq'.cmd = c /\ rq'.saw = rq.saw /\ rq'.todo = rq.todo
    BY <1>1 DEF Failed, Shapes
  <1>3. c \in Cmds /\ cleanup = "none" /\ loop.at # "gone" /\ phase[c] = "starting" /\ InTable(c)
    BY <1>1 DEF RInv, Threads, Types, Phases, Table
  <1>4. /\ phase' \in [Cmds -> {"none", "starting", "running", "stopped", "ended"}]
        /\ \A d \in Cmds : phase'[d] = IF d = c THEN "ended" ELSE phase[d]
        /\ \A d \in Cmds : phase[d] = "starting" => d = c
    BY <1>1, <1>3 DEF Failed, RInv, Types, Phases
  <1>5. Outstanding' = Outstanding \ {c}
    BY <1>4 DEF Outstanding
  <1>6. loop.at \notin {"shift", "shrink", "release"} /\ ~(loop.at = "call" /\ loop.last) /\ ~InCallback("rtt")
    BY <1>1, Alone
  <1>7. Types'
    BY <1>1, <1>2, <1>4 DEF RInv, Types
  <1>8. Threads'
    BY <1>1, <1>2, <1>3, <1>6 DEF RInv, Threads, InCallback, Stopping, StoppedWithoutId
  <1>9. Table'
    <2>1. Size' = Size /\ \A d : InTable(d)' <=> InTable(d)
      BY <1>1, <1>2, <1>6 DEF Size, InTable
    <2>2. \A d \in Cmds : phase'[d] \in {"starting", "running", "stopped"} => InTable(d)'
      BY <1>4, <2>1 DEF RInv, Table
    <2>3. QED BY <1>1, <1>2, <1>3, <1>6, <2>1, <2>2 DEF RInv, Table
  <1>10. Phases'
    BY <1>1, <1>2, <1>3, <1>4 DEF RInv, Phases
  <1>11. Counted'
    <2>1. \A d \in Cmds : Held(d)' <=> Held(d)
      BY <1>1, <1>2 DEF Held, Saved, Pending, TakenByCall, TakenByLoop
    <2>2. QED BY <1>1, <2>1, CountedStays DEF RInv
  <1>12. Owned'
    <2>1. ~Sweeping /\ ~Sweeping' /\ ~Stopping
      BY <1>1, <1>2, <1>3 DEF Sweeping, Stopping, StoppedWithoutId
    <2>2. \A x : ~WillUnregister(x)
      BY <1>1 DEF WillUnregister
    <2>3. QED BY <1>1, <1>2, <1>5, <2>1, <2>2 DEF RInv, Owned
  <1>13. OnePerEvent'
    BY <1>1 DEF RInv, OnePerEvent
  <1>14. Scripts'
    BY <1>2 DEF Scripts
  <1>15. Apart'
    <2>1. Feature' = Feature /\ ~Stopping' /\ ~InCallback("rtt")'
      BY <1>1, <1>2, <1>6 DEF Feature, Stopping, StoppedWithoutId, InCallback
    <2>2. QED BY <1>1, <1>2, <1>5, <2>1 DEF RInv, Apart
  <1>16. Ranging'
    BY <1>1, <1>2, <1>3 DEF RInv, Ranging, InCallback
  <1>17. QED
    BY <1>7, <1>8, <1>9, <1>10, <1>11, <1>12, <1>13, <1>14, <1>15, <1>16 DEF RInv

\* The command of the id -1 has cancelled.
LEMMA StoppedKeeps ==
  ASSUME RInv, Shapes, Stopped
  PROVE  RInv'
  <1>1. /\ eventCb' = eventCb /\ slots' = slots /\ numCmd' = numCmd /\ refs' = refs /\ kind' = kind
        /\ created' = created /\ loop' = loop /\ sock' = sock /\ cleanup' = cleanup /\ phase' = phase
        /\ Handlers' = Handlers /\ rq.at = "script" /\ rq.todo = <<>> /\ Stopping
        /\ rq.op \notin {"start", "fail", "cancel", "sweep"}
    BY DEF registry, objects, device, Handlers, Stopped, Stopping, StoppedWithoutId
  <1>2. rq'.op = "none" /\ rq'.at = "idle" /\ rq'.cmd = None /\ rq'.saw = 0 /\ rq'.todo = <<>>
    BY DEF Stopped, Idle
  <1>3. cleanup = "none" /\ loop.at # "gone" /\ rq.cmd = None
    BY <1>1 DEF RInv, Threads
  <1>4. Outstanding' = Outstanding
    BY <1>1 DEF Outstanding
  <1>5. Types'
    BY <1>1, <1>2 DEF RInv, Types
  <1>6. Threads'
    BY <1>1, <1>2, <1>3 DEF RInv, Threads, InCallback, Stopping, StoppedWithoutId
  <1>7. Table'
    <2>1. Size' = Size /\ (loop.at = "shrink" => Taken' = Taken) /\ \A d : InTable(d)' <=> InTable(d)
      BY <1>1, <1>2 DEF Size, InTable, Taken
    <2>2. QED BY <1>1, <1>2, <2>1 DEF RInv, Table
  <1>8. Phases'
    BY <1>1, <1>2 DEF RInv, Phases
  <1>9. Counted'
    <2>1. \A d \in Cmds : Held(d)' <=> Held(d)
      BY <1>1, <1>2, <1>3 DEF Held, Saved, Pending, TakenByCall, TakenByLoop
    <2>2. QED BY <1>1, <2>1, CountedStays DEF RInv
  <1>10. Owned'
    <2>1. ~Sweeping /\ ~Sweeping'
      BY <1>1, <1>2, <1>3 DEF Sweeping
    <2>2. \A x : ~WillUnregister(x)
      BY <1>1 DEF WillUnregister
    <2>3. QED BY <1>1, <1>2, <1>4, <2>1, <2>2 DEF RInv, Owned
  <1>11. OnePerEvent'
    BY <1>1 DEF RInv, OnePerEvent
  <1>12. Scripts' /\ Ranging'
    BY <1>2 DEF Scripts, Ranging
  <1>13. Apart'
    <2>1. ~Stopping' /\ (InCallback("rtt")' <=> InCallback("rtt"))
      BY <1>1, <1>2 DEF Stopping, StoppedWithoutId, InCallback
    <2>2. QED BY <1>1, <1>2, <1>4, <2>1 DEF RInv, Apart
  <1>14. QED
    BY <1>5, <1>6, <1>7, <1>8, <1>9, <1>10, <1>11, <1>12, <1>13 DEF RInv

\* wifi_cleanup asks the loop to leave.
LEMMA CleanupKeeps ==
  ASSUME RInv, Shapes, Cleanup
  PROVE  RInv'
  <1>1. /\ eventCb' = eventCb /\ slots' = slots /\ numCmd' = numCmd /\ refs' = refs /\ kind' = kind
        /\ created' = created /\ loop' = loop /\ sock' = sock /\ phase' = phase
        /\ Handlers' = Handlers /\ rq.at = "idle" /\ cleanup = "none" /\ cleanup' = "exit"
    BY DEF registry, objects, device, Handlers, Cleanup
  <1>2. rq'.op = "cleanup" /\ rq'.at = "wait" /\ rq'.cmd = None /\ rq'.saw = 0 /\ rq'.todo = <<>>
    BY DEF Cleanup, Idle
  <1>3. rq.op = "none" /\ loop.at # "gone" /\ rq.cmd = None
    BY <1>1 DEF RInv, Threads
  <1>4. Outstanding' = Outstanding
    BY <1>1 DEF Outstanding
  <1>5. Types'
    BY <1>1, <1>2 DEF RInv, Types
  <1>6. Threads'
    BY <1>1, <1>2, <1>3 DEF RInv, Threads, InCallback, Stopping, StoppedWithoutId
  <1>7. Table'
    <2>1. Size' = Size /\ (loop.at = "shrink" => Taken' = Taken) /\ \A d : InTable(d)' <=> InTable(d)
      BY <1>1, <1>2 DEF Size, InTable, Taken
    <2>2. QED BY <1>1, <1>2, <2>1 DEF RInv, Table
  <1>8. Phases'
    BY <1>1, <1>2 DEF RInv, Phases
  <1>9. Counted'
    <2>1. \A d \in Cmds : Held(d)' <=> Held(d)
      BY <1>1, <1>2, <1>3 DEF Held, Saved, Pending, TakenByCall, TakenByLoop
    <2>2. QED BY <1>1, <2>1, CountedStays DEF RInv
  <1>10. Owned'
    <2>1. ~Sweeping /\ ~Sweeping' /\ ~Stopping
      BY <1>1, <1>2, <1>3 DEF Sweeping, Stopping, StoppedWithoutId
    <2>2. QED BY <1>1, <1>2, <1>3, <1>4, <2>1 DEF RInv, Owned
  <1>11. OnePerEvent'
    BY <1>1 DEF RInv, OnePerEvent
  <1>12. Scripts' /\ Ranging'
    BY <1>2 DEF Scripts, Ranging
  <1>13. Apart'
    <2>1. ~Stopping' /\ (InCallback("rtt")' <=> InCallback("rtt"))
      BY <1>1, <1>2 DEF Stopping, StoppedWithoutId, InCallback
    <2>2. QED BY <1>1, <1>2, <1>4, <2>1 DEF RInv, Apart
  <1>14. QED
    BY <1>5, <1>6, <1>7, <1>8, <1>9, <1>10, <1>11, <1>12, <1>13 DEF RInv

\* The loop has answered: wifi_cleanup begins with the first command.
LEMMA ReadDoneKeeps ==
  ASSUME RInv, Shapes, ReadDone
  PROVE  RInv'
  <1>1. /\ eventCb' = eventCb /\ slots' = slots /\ numCmd' = numCmd /\ refs' = refs /\ kind' = kind
        /\ created' = created /\ loop' = loop /\ sock' = sock /\ phase' = phase /\ cleanup' = cleanup
        /\ Handlers' = Handlers /\ rq.at = "wait" /\ cleanup = "done"
    BY DEF registry, objects, device, Handlers, ReadDone
  <1>2. rq'.op = "sweep" /\ rq'.at = "sweep" /\ rq'.cmd = rq.cmd /\ rq'.saw = rq.saw /\ rq'.todo = rq.todo
    BY DEF ReadDone, Shapes
  <1>3. rq.op = "cleanup" /\ loop.at = "gone" /\ rq.cmd = None /\ loop.cmd = None /\ rq.saw = 0
    BY <1>1 DEF RInv, Threads, Table
  <1>4. Outstanding' = Outstanding
    BY <1>1 DEF Outstanding
  <1>5. Types'
    BY <1>1, <1>2 DEF RInv, Types
  <1>6. Threads'
    BY <1>1, <1>2, <1>3 DEF RInv, Threads, InCallback, Stopping, StoppedWithoutId
  <1>7. Size = numCmd /\ Size' = numCmd /\ \A d : InTable(d)' <=> InTable(d)
    BY <1>1, <1>2, <1>3 DEF Size, InTable
  <1>8. Table'
    BY <1>1, <1>2, <1>3, <1>7 DEF RInv, Table
  <1>9. Phases'
    BY <1>1, <1>2, <1>3 DEF RInv, Phases
  <1>10. \A d \in Cmds : (Saved(d)' <=> Saved(d)) /\ (Saved(d) <=> InTable(d))
    BY <1>1, <1>2, <1>3, <1>7 DEF Saved, Pending, InTable
  <1>11. Counted'
    <2>1. \A d \in Cmds : Held(d)' <=> Held(d)
      BY <1>1, <1>2, <1>3, <1>10 DEF Held, TakenByCall, TakenByLoop, Cmds, None
    <2>2. QED BY <1>1, <2>1, CountedStays DEF RInv
  <1>12. Owned'
    <2>1. ~Sweeping /\ Sweeping' /\ ~Stopping
      BY <1>1, <1>2, <1>3 DEF Sweeping, Stopping, StoppedWithoutId
    <2>2. ASSUME NEW h \in Handlers PROVE h.cmd \in Cmds /\ h.cmd # None /\ h.cmd \in Outstanding /\ h.event \in EventsOf(kind[h.cmd])
      BY <1>3, <2>1, Handled DEF RInv, Owned, Cmds, None
    <2>3. \A d \in Outstanding : Saved(d)'
      BY <1>10 DEF Outstanding, RInv, Table
    <2>4. QED BY <1>1, <1>2, <1>3, <2>1, <2>2, <2>3 DEF Owned
  <1>13. OnePerEvent'
    BY <1>1 DEF RInv, OnePerEvent
  <1>14. Scripts' /\ Ranging'
    BY <1>1, <1>2, <1>3 DEF Scripts, Ranging
  <1>15. Apart'
    <2>1. ~Stopping' /\ ~InCallback("rtt")'
      BY <1>1, <1>2, <1>3 DEF Stopping, StoppedWithoutId, InCallback
    <2>2. QED BY <1>1, <1>2, <1>4, <2>1 DEF RInv, Apart
  <1>16. QED
    BY <1>5, <1>6, <1>8, <1>9, <1>11, <1>12, <1>13, <1>14, <1>15 DEF RInv

\* wifi_cleanup turns to the next command.
LEMMA SweepKeeps ==
  ASSUME RInv, Shapes, Sweep
  PROVE  RInv'
  <1> DEFINE c == slots[rq.saw + 1]
  <1>1. /\ eventCb' = eventCb /\ slots' = slots /\ numCmd' = numCmd /\ refs' = refs /\ kind' = kind
        /\ created' = created /\ loop' = loop /\ sock' = sock /\ cleanup' = cleanup
        /\ Handlers' = Handlers /\ rq.at = "sweep" /\ numCmd > rq.saw
        /\ phase' = [phase EXCEPT ![c] = "ended"]
    BY DEF registry, objects, device, Handlers, Sweep
  <1>2. rq'.op = rq.op /\ rq'.at = "script" /\ rq'.cmd = c /\ rq'.saw = rq.saw /\ rq'.todo = Command[kind[c]].cancel
    BY DEF Sweep, Shapes
  <1>3. rq.op = "sweep" /\ loop.at = "gone" /\ rq.cmd = None /\ loop.cmd = None /\ cleanup = "done"
    BY <1>1 DEF RInv, Threads
  <1>4. Size = numCmd /\ Size' = numCmd /\ \A d : InTable(d)' <=> InTable(d)
    BY <1>1, <1>2, <1>3 DEF Size, InTable
  <1>5. numCmd \in Nat /\ rq.saw \in Nat /\ rq.saw + 1 \in 1..numCmd /\ numCmd <= CmdSlots /\ CmdSlots \in Nat
    BY <1>1, RegistryAssumption DEF RInv, Types
  <1>6. c \in Cmds /\ c # None
    BY <1>4, <1>5 DEF RInv, Types, Table
  <1>7. Saved(c) /\ \A d : Saved(d)' <=> Saved(d)
    BY <1>1, <1>2, <1>3, <1>5 DEF Saved, Pending
  <1>8. Fits(kind[c])
    BY <1>6, <1>7, HeldIsLive, AllFit DEF Held
  <1>9. phase' \in [Cmds -> {"none", "starting", "running", "stopped", "ended"}] /\ phase'[c] = "ended"
        /\ \A d \in Cmds : d # c => phase'[d] = phase[d]
    BY <1>1, <1>6 DEF RInv, Types
  <1>10. Outstanding' = Outstanding \ {c}
    BY <1>9 DEF Outstanding
  <1>11. Types'
    BY <1>1, <1>2, <1>6, <1>8, <1>9 DEF RInv, Types, Fits
  <1>12. Threads'
    BY <1>1, <1>2, <1>3, <1>6 DEF RInv, Threads, InCallback, Stopping, StoppedWithoutId
  <1>13. Table'
    <2>1. \A d \in Cmds : phase'[d] \in {"starting", "running", "stopped"} => InTable(d)'
      BY <1>4, <1>9 DEF RInv, Table
    <2>2. QED
      BY <1>1, <1>2, <1>3, <1>4, <2>1 DEF RInv, Table
  <1>14. Phases'
    BY <1>1, <1>2, <1>3, <1>9, HeldIsLive, <1>6, <1>7 DEF RInv, Phases, Held, Live, Cmds, None, Types
  <1>15. Counted'
    <2>1. \A d \in Cmds : Held(d)' <=> Held(d)
      BY <1>1, <1>2, <1>3, <1>7 DEF Held, TakenByCall, TakenByLoop, Cmds, None
    <2>2. QED BY <1>1, <2>1, CountedStays DEF RInv
  <1>16. Owned'
    <2>1. Sweeping /\ Sweeping' /\ ~Stopping
      BY <1>1, <1>2, <1>3 DEF Sweeping, Stopping, StoppedWithoutId
    <2>2. ASSUME NEW x \in EventsOf(kind[c]) PROVE WillUnregister(x)'
      <3>1. PICK i \in DOMAIN Command[kind[c]].cancel : Command[kind[c]].cancel[i] = Unregister(x)
        BY <1>8 DEF Fits
      <3>2. rq'.todo[i].do = "unregister" /\ rq'.todo[i].event = x /\ i \in DOMAIN rq'.todo
        BY <1>2, <3>1 DEF Unregister
      <3>3. QED BY <3>2 DEF WillUnregister
    <2>3. ASSUME NEW h \in Handlers PROVE Saved(h.cmd) /\ h.event \in EventsOf(kind[h.cmd])
      BY <1>3, <2>1 DEF RInv, Owned
    <2>4. QED BY <1>1, <1>2, <1>7, <2>1, <2>2, <2>3 DEF Owned
  <1>17. OnePerEvent'
    BY <1>1 DEF RInv, OnePerEvent
  <1>18. Scripts' /\ Ranging'
    <2>1. Feature' = kind[c]
      BY <1>1, <1>2, <1>6 DEF Feature
    <2>2. QED BY <1>1, <1>2, <1>3, <1>8, <2>1 DEF Scripts, Ranging, Fits
  <1>19. Apart'
    <2>1. ~Stopping' /\ ~InCallback("rtt")'
      BY <1>1, <1>2, <1>3 DEF Stopping, StoppedWithoutId, InCallback
    <2>2. QED BY <1>1, <1>2, <1>3, <1>10, <2>1 DEF RInv, Apart
  <1>20. QED
    BY <1>11, <1>12, <1>13, <1>14, <1>15, <1>16, <1>17, <1>18, <1>19 DEF RInv

\* internal_cleaned_up_handler: no command is left, and no handler.
LEMMA FreeInfoKeeps ==
  ASSUME RInv, Shapes, FreeInfo
  PROVE  RInv'
  <1>1. /\ eventCb' = eventCb /\ slots' = slots /\ numCmd' = numCmd /\ refs' = refs /\ kind' = kind
        /\ created' = created /\ loop' = loop /\ sock' = sock /\ phase' = phase /\ cleanup' = "freed"
        /\ Handlers' = Handlers /\ rq.at = "sweep" /\ numCmd <= rq.saw
    BY Sighted DEF registry, objects, device, Handlers, FreeInfo
  <1>2. rq'.op = "none" /\ rq'.at = "gone" /\ rq'.cmd = None /\ rq'.saw = 0 /\ rq'.todo = <<>>
    BY DEF FreeInfo, Idle
  <1>3. rq.op = "sweep" /\ loop.at = "gone" /\ rq.cmd = None /\ loop.cmd = None /\ cleanup = "done"
    BY <1>1 DEF RInv, Threads
  <1>4. Size = numCmd /\ Size' = numCmd /\ \A d : InTable(d)' <=> InTable(d)
    BY <1>1, <1>2, <1>3 DEF Size, InTable
  <1>5. \A d : ~Saved(d) /\ ~Saved(d)'
    BY <1>1, <1>3 DEF Saved, Pending, RInv, Types
  <1>6. Types'
    BY <1>1, <1>2 DEF RInv, Types
  <1>7. Threads'
    BY <1>1, <1>2, <1>3 DEF RInv, Threads, InCallback, Stopping, StoppedWithoutId
  <1>8. Table' /\ Phases'
    BY <1>1, <1>2, <1>3, <1>4 DEF RInv, Table, Phases
  <1>9. Counted'
    <2>1. \A d \in Cmds : Held(d)' <=> Held(d)
      BY <1>1, <1>2, <1>3, <1>5 DEF Held, TakenByCall, TakenByLoop, Cmds, None
    <2>2. QED BY <1>1, <2>1, CountedStays DEF RInv
  <1>10. Owned'
    <2>1. Sweeping /\ ~Stopping
      BY <1>3 DEF Sweeping, Stopping, StoppedWithoutId
    <2>2. \A h \in Handlers : FALSE
      BY <1>3, <1>5, <2>1 DEF RInv, Owned
    <2>3. QED BY <1>1, <2>2 DEF Owned
  <1>11. OnePerEvent'
    BY <1>1 DEF RInv, OnePerEvent
  <1>12. Scripts' /\ Ranging'
    BY <1>1, <1>2, <1>3 DEF Scripts, Ranging
  <1>13. Apart'
    <2>1. ~Stopping' /\ ~InCallback("rtt")' /\ Outstanding' = Outstanding
      BY <1>1, <1>2, <1>3 DEF Stopping, StoppedWithoutId, InCallback, Outstanding
    <2>2. QED BY <1>1, <1>2, <2>1 DEF RInv, Apart
  <1>14. QED
    BY <1>6, <1>7, <1>8, <1>9, <1>10, <1>11, <1>12, <1>13 DEF RInv

\* The memmove of the requester.  The command it takes out is in cmd[].
LEMMA ShiftKeeps ==
  ASSUME RInv, Shapes, Shift
  PROVE  RInv'
  <1> DEFINE c == rq.cmd
  <1>1. /\ eventCb' = eventCb /\ numCmd' = numCmd /\ refs' = refs /\ kind' = kind
        /\ created' = created /\ loop' = loop /\ sock' = sock /\ cleanup' = cleanup /\ phase' = phase
        /\ Handlers' = Handlers /\ rq.at = "shift"
    BY DEF registry, objects, device, Handlers, Shift
  <1>2. c \in Cmds /\ cleanup = "none" /\ loop.at # "gone" /\ InTable(c) /\ rq.op \in {"fail", "cancel"}
        /\ phase[c] = "ended"
    BY <1>1 DEF RInv, Threads, Types, Table, Phases
  <1>3. loop.at \notin {"shift", "shrink", "release"} /\ ~(loop.at = "call" /\ loop.last) /\ ~InCallback("rtt")
    BY <1>1, Alone
  <1>4. Size = numCmd
    BY <1>1, <1>3 DEF Size
  <1>5. Listed(c) # {}
    BY <1>2, <1>4 DEF InTable, Listed
  <1>6. ShiftSlots(c) /\ rq' = [rq EXCEPT !.at = "shrink", !.saw = numCmd]
    BY <1>5 DEF Shift
  <1>7. rq'.op = rq.op /\ rq'.at = "shrink" /\ rq'.cmd = c /\ rq'.saw = numCmd /\ rq'.todo = rq.todo
    BY <1>6 DEF Shapes
  <1>8. /\ slots' \in [1..CmdSlots -> Cmds \cup {None}]
        /\ numCmd \in 1..CmdSlots
        /\ \A i, j \in 1..(numCmd - 1) : slots'[i] = slots'[j] => i = j
        /\ \A i \in 1..(numCmd - 1) : slots'[i] # None /\ slots'[i] # c
        /\ slots'[numCmd] = slots[numCmd]
        /\ \A d \in Cmds \ {c} : (\E i \in 1..numCmd : slots[i] = d) <=> (\E i \in 1..(numCmd - 1) : slots'[i] = d)
    <2>1. /\ \A i, j \in 1..numCmd : slots[i] = slots[j] => i = j
          /\ \A i \in 1..numCmd : slots[i] # None
      BY <1>4 DEF RInv, Table
    <2>2. PICK d \in Cmds : d = c
      BY <1>2
    <2>3. ShiftSlots(d) /\ Listed(d) # {} /\ Types
      BY <1>5, <1>6, <2>2 DEF RInv
    <2>4. /\ slots' \in [1..CmdSlots -> Cmds \cup {None}]
          /\ numCmd \in 1..CmdSlots
          /\ \A i, j \in 1..(numCmd - 1) : slots'[i] = slots'[j] => i = j
          /\ \A i \in 1..(numCmd - 1) : slots'[i] # None /\ slots'[i] # d
          /\ slots'[numCmd] = slots[numCmd]
          /\ \A x \in Cmds \ {d} : (\E i \in 1..numCmd : slots[i] = x) <=> (\E i \in 1..(numCmd - 1) : slots'[i] = x)
      BY <2>1, <2>3, ShiftIs
    <2>5. QED BY <2>2, <2>4
  <1>9. /\ numCmd \in Nat /\ numCmd > 0 /\ Size' = numCmd - 1 /\ ~InTable(c)'
        /\ \A d \in Cmds : d # c => (InTable(d)' <=> InTable(d))
    <2>1. numCmd \in Nat /\ numCmd > 0 /\ Size' = numCmd - 1
      BY <1>1, <1>7, <1>8, RegistryAssumption DEF Size
    <2>2. ~InTable(c)'
      BY <1>7, <1>8, <2>1 DEF InTable
    <2>3. \A d \in Cmds : d # c => (InTable(d)' <=> InTable(d))
      BY <1>4, <1>8, <2>1 DEF InTable
    <2>4. QED BY <2>1, <2>2, <2>3
  <1>10. slots[numCmd] \in Cmds /\ InTable(slots[numCmd]) /\ numCmd \in 1..numCmd
    BY <1>4, <1>8, <1>9, SMTT(30) DEF InTable, RInv, Table, Types
  <1>11. Types'
    BY <1>1, <1>7, <1>8, <1>9 DEF RInv, Types
  <1>12. Threads'
    BY <1>1, <1>2, <1>3, <1>7 DEF RInv, Threads, InCallback, Stopping, StoppedWithoutId
  <1>13. Table'
    <2>1. \A d \in Cmds : phase'[d] \in {"starting", "running", "stopped"} => InTable(d)'
      BY <1>1, <1>2, <1>9 DEF RInv, Table
    <2>2. slots'[numCmd'] # None
      BY <1>1, <1>8, <1>10 DEF Cmds, None
    <2>3. slots'[numCmd'] = Taken' \/ InTable(slots[numCmd])'
      <3>1. PICK d \in Cmds : d = slots[numCmd]
        BY <1>10
      <3>2. slots'[numCmd'] = d
        BY <1>1, <1>8, <3>1
      <3>3. CASE d = c
        BY <1>1, <1>7, <1>3, <3>2, <3>3 DEF Taken
      <3>4. CASE d # c
        <4>1. InTable(d)'
          BY <1>9, <1>10, <3>1, <3>4
        <4>2. QED BY <3>2, <4>1 DEF InTable
      <3>5. QED BY <3>3, <3>4
    <2>4. QED BY <1>1, <1>2, <1>3, <1>7, <1>8, <1>9, <2>1, <2>2, <2>3 DEF Table
  <1>14. Phases'
    BY <1>1, <1>2, <1>7 DEF RInv, Phases
  <1>15. Counted'
    <2>1. Pending = 1..numCmd /\ Pending' = 1..numCmd
      BY <1>1, <1>2, <1>7 DEF Pending
    <2>2. \A d \in Cmds : d # c => (Saved(d)' <=> Saved(d))
      <3>1. \A d \in Cmds : Saved(d) <=> InTable(d)
        BY <1>4, <2>1 DEF Saved, InTable
      <3>2. \A d \in Cmds : InTable(d)' => Saved(d)'
        BY <1>9, <2>1 DEF Saved, InTable
      <3>3. ASSUME NEW d \in Cmds, d # c, Saved(d)' PROVE Saved(d)
        <4>1. PICK i \in 1..numCmd : slots'[i] = d
          BY <2>1, <3>3 DEF Saved
        <4>2. CASE i = numCmd
          BY <1>8, <1>10, <3>1, <4>1, <4>2
        <4>3. CASE i # numCmd
          BY <1>8, <1>9, <3>1, <3>3, <4>1, <4>3 DEF InTable
        <4>4. QED BY <4>2, <4>3
      <3>4. QED BY <1>9, <3>1, <3>2, <3>3
    <2>3. \A d \in Cmds : Held(d)' <=> Held(d)
      BY <1>1, <1>2, <1>7, <2>2 DEF Held, TakenByCall, TakenByLoop
    <2>4. QED BY <1>1, <2>3, CountedStays DEF RInv
  <1>16. Owned'
    <2>1. ~Sweeping /\ ~Sweeping' /\ ~Stopping /\ Outstanding' = Outstanding
      BY <1>1, <1>2, <1>7 DEF Sweeping, Stopping, StoppedWithoutId, Outstanding
    <2>2. QED BY <1>1, <1>2, <1>7, <2>1 DEF RInv, Owned
  <1>17. OnePerEvent'
    BY <1>1 DEF RInv, OnePerEvent
  <1>18. Scripts'
    BY <1>7 DEF Scripts
  <1>19. Apart'
    <2>1. Feature' = Feature /\ ~Stopping' /\ ~InCallback("rtt")' /\ Outstanding' = Outstanding
      BY <1>1, <1>2, <1>3, <1>7 DEF Feature, Stopping, StoppedWithoutId, InCallback, Outstanding
    <2>2. QED BY <1>1, <1>2, <1>7, <2>1 DEF RInv, Apart
  <1>20. Ranging'
    BY <1>1, <1>2, <1>7 DEF RInv, Ranging, InCallback, Threads, Stopping, StoppedWithoutId
  <1>21. QED
    BY <1>11, <1>12, <1>13, <1>14, <1>15, <1>16, <1>17, <1>18, <1>19, <1>20 DEF RInv

\* num_cmd--, and a cancel goes on to its script.
LEMMA ShrinkKeeps ==
  ASSUME RInv, Shapes, Shrink
  PROVE  RInv'
  <1> DEFINE c == rq.cmd
  <1>1. /\ eventCb' = eventCb /\ slots' = slots /\ refs' = refs /\ kind' = kind
        /\ created' = created /\ loop' = loop /\ sock' = sock /\ cleanup' = cleanup /\ phase' = phase
        /\ Handlers' = Handlers /\ rq.at = "shrink"
    BY DEF registry, objects, device, Handlers, Shrink
  <1>2. c \in Cmds /\ cleanup = "none" /\ loop.at # "gone" /\ ~InTable(c) /\ rq.op \in {"fail", "cancel"}
        /\ phase[c] = "ended" /\ rq.saw = numCmd /\ numCmd \in Nat /\ numCmd > 0
    BY <1>1 DEF RInv, Threads, Types, Table, Phases
  <1>3. loop.at \notin {"shift", "shrink", "release"} /\ ~(loop.at = "call" /\ loop.last) /\ ~InCallback("rtt")
    BY <1>1, Alone
  <1>4. numCmd' = numCmd - 1
    BY <1>2 DEF Shrink, StoreNumCmd
  <1>5. Live(c) /\ kind[c] \in Kinds /\ Fits(kind[c])
    BY <1>2, HeldIsLive, AllFit DEF Held, TakenByCall
  <1>6. /\ rq'.op = rq.op /\ rq'.cmd = c /\ rq'.saw = rq.saw
        /\ rq.op = "fail" => rq'.at = "release" /\ rq'.todo = rq.todo
        /\ rq.op = "cancel" => rq'.at = "script" /\ rq'.todo = Command[kind[c]].cancel
    BY <1>2 DEF Shrink, Shapes
  <1>7. Size = numCmd - 1 /\ Size' = numCmd - 1 /\ \A d : InTable(d)' <=> InTable(d)
    BY <1>1, <1>2, <1>3, <1>4, <1>6 DEF Size, InTable
  <1>8. Types'
    <2>1. rq'.todo \in Seq(Steps) /\ rq'.at \in {"script", "release"}
      BY <1>2, <1>5, <1>6 DEF RInv, Types, Fits
    <2>2. numCmd' \in 0..CmdSlots
      BY <1>2, <1>4, RegistryAssumption DEF RInv, Types
    <2>3. QED BY <1>1, <1>2, <1>6, <2>1, <2>2 DEF RInv, Types
  <1>9. Threads'
    BY <1>1, <1>2, <1>3, <1>6 DEF RInv, Threads, InCallback, Stopping, StoppedWithoutId
  <1>10. Table'
    BY <1>1, <1>2, <1>3, <1>6, <1>7 DEF RInv, Table
  <1>11. Phases'
    BY <1>1, <1>2, <1>6 DEF RInv, Phases
  <1>12. Counted'
    <2>1. Pending = 1..numCmd /\ Pending' = 1..(numCmd - 1)
      BY <1>1, <1>2, <1>4, <1>6 DEF Pending
    <2>2. \A d \in Cmds : d # c => (Saved(d)' <=> Saved(d))
      <3>1. \A d \in Cmds : Saved(d)' <=> InTable(d)
        BY <1>1, <1>7, <2>1 DEF Saved, InTable
      <3>2. \A d \in Cmds : InTable(d) => Saved(d)
        BY <1>2, <1>7, <2>1 DEF Saved, InTable
      <3>3. ASSUME NEW d \in Cmds, d # c, Saved(d) PROVE InTable(d)
        <4>1. PICK i \in 1..numCmd : slots[i] = d
          BY <2>1, <3>3 DEF Saved
        <4>2. CASE i = numCmd
          BY <1>1, <1>3, <3>3, <4>1, <4>2 DEF RInv, Table, Taken
        <4>3. CASE i # numCmd
          BY <1>2, <1>7, <4>1, <4>3 DEF InTable
        <4>4. QED BY <4>2, <4>3
      <3>4. QED BY <3>1, <3>2, <3>3
    <2>3. \A d \in Cmds : Held(d)' <=> Held(d)
      BY <1>1, <1>2, <1>6, <2>2 DEF Held, TakenByCall, TakenByLoop
    <2>4. QED BY <1>1, <2>3, CountedStays DEF RInv
  <1>13. Owned'
    <2>1. ~Sweeping /\ ~Sweeping' /\ ~Stopping /\ Outstanding' = Outstanding
      BY <1>1, <1>2, <1>6 DEF Sweeping, Stopping, StoppedWithoutId, Outstanding
    <2>2. ASSUME rq.op = "cancel", NEW x \in EventsOf(kind[c]) PROVE WillUnregister(x)'
      <3>1. PICK i \in DOMAIN Command[kind[c]].cancel : Command[kind[c]].cancel[i] = Unregister(x)
        BY <1>5 DEF Fits
      <3>2. rq'.todo[i].do = "unregister" /\ rq'.todo[i].event = x /\ i \in DOMAIN rq'.todo
        BY <1>6, <2>2, <3>1 DEF Unregister
      <3>3. QED BY <3>2 DEF WillUnregister
    <2>3. QED BY <1>1, <1>2, <1>6, <2>1, <2>2 DEF RInv, Owned
  <1>14. OnePerEvent'
    BY <1>1 DEF RInv, OnePerEvent
  <1>15. Scripts'
    <2>1. Feature' = kind[c]
      BY <1>1, <1>2, <1>6 DEF Feature, Cmds, None
    <2>2. QED BY <1>1, <1>2, <1>5, <1>6, <2>1 DEF Scripts, Fits
  <1>16. Apart'
    <2>1. Feature' = Feature /\ ~Stopping' /\ ~InCallback("rtt")' /\ Outstanding' = Outstanding
      BY <1>1, <1>2, <1>3, <1>6 DEF Feature, Stopping, StoppedWithoutId, InCallback, Outstanding
    <2>2. QED BY <1>1, <1>2, <1>6, <2>1 DEF RInv, Apart
  <1>17. Ranging'
    BY <1>1, <1>2, <1>6 DEF RInv, Ranging, InCallback, Threads, Stopping, StoppedWithoutId
  <1>18. QED
    BY <1>8, <1>9, <1>10, <1>11, <1>12, <1>13, <1>14, <1>15, <1>16, <1>17 DEF RInv

\* A reference goes that nobody needs any more.
LEMMA Released ==
  ASSUME RInv, NEW c \in Cmds, refs[c] > 0, ReleaseRef(c)
  PROVE  /\ refs' \in [Cmds -> Nat] /\ kind' \in [Cmds -> Kinds \cup {"none"}]
         /\ refs'[c] = refs[c] - 1 /\ \A d \in Cmds : d # c => refs'[d] = refs[d] /\ kind'[d] = kind[d]
         /\ refs[c] > 1 => kind'[c] = kind[c]
         /\ \A d \in Cmds : (refs'[d] > 0 => kind'[d] # "none") /\ (kind'[d] = kind[d] \/ kind'[d] = "none")
         /\ kind' = kind \/ (refs[c] = 1 /\ refs'[c] = 0)
  <1>1. refs \in [Cmds -> Nat] /\ kind \in [Cmds -> Kinds \cup {"none"}]
    BY DEF RInv, Types
  <1>2. \A d \in Cmds : refs[d] > 0 => kind[d] # "none"
    BY DEF RInv, Phases
  <1>3. CASE refs[c] = 1
    BY <1>1, <1>2, <1>3 DEF ReleaseRef
  <1>4. CASE refs[c] # 1
    BY <1>1, <1>2, <1>4 DEF ReleaseRef
  <1>5. QED BY <1>3, <1>4

\* wifi_cancel_cmd and a failed start drop the reference of cmd[], and so does
\* each turn of wifi_cleanup: no handler of the command is left.
LEMMA ReleaseKeeps ==
  ASSUME RInv, Shapes, Release
  PROVE  RInv'
  <1>1. PICK c \in Cmds : c = rq.cmd
    BY DEF Release, RInv, Threads, Types
  <1>2. /\ eventCb' = eventCb /\ slots' = slots /\ numCmd' = numCmd /\ phase' = phase
        /\ created' = created /\ loop' = loop /\ sock' = sock /\ cleanup' = cleanup
        /\ Handlers' = Handlers /\ ReleaseRef(c) /\ rq.cmd = c
        /\ (rq.at = "release" \/ (rq.at = "script" /\ rq.todo = <<>> /\ rq.op \in {"cancel", "sweep"}))
    BY <1>1 DEF registry, device, Handlers, Release
  <1>3. rq.op \in {"fail", "cancel", "sweep"} /\ c \in Cmds /\ TakenByCall(c) /\ rq.saw \in Nat
    BY <1>2 DEF RInv, Threads, Types, TakenByCall
  <1>4. loop.at \notin {"shift", "shrink", "release"} /\ ~(loop.at = "call" /\ loop.last) /\ ~InCallback("rtt")
        /\ (rq.op = "sweep" <=> loop.at = "gone")
    BY <1>2, <1>3, Alone
  <1>5. Live(c) /\ refs[c] > 0 /\ refs[c] = 1 + Holds(loop.cmd = c)
    BY <1>3, HeldIsLive DEF Held, Live, RInv, Counted, Holds
  <1>6. /\ rq.op = "sweep" => /\ rq'.op = "sweep" /\ rq'.at = "sweep" /\ rq'.cmd = None
                              /\ rq'.saw = rq.saw + 1 /\ rq'.todo = rq.todo
        /\ rq.op # "sweep" => rq'.op = "none" /\ rq'.at = "idle" /\ rq'.cmd = None /\ rq'.saw = 0 /\ rq'.todo = <<>>
    BY <1>2 DEF Release, Shapes, Idle
  <1>7. /\ refs' \in [Cmds -> Nat] /\ kind' \in [Cmds -> Kinds \cup {"none"}]
        /\ refs'[c] = refs[c] - 1 /\ \A d \in Cmds : d # c => refs'[d] = refs[d] /\ kind'[d] = kind[d]
        /\ refs[c] > 1 => kind'[c] = kind[c]
        /\ \A d \in Cmds : (refs'[d] > 0 => kind'[d] # "none") /\ (kind'[d] = kind[d] \/ kind'[d] = "none")
    BY <1>2, <1>5, Released
  <1>8. phase[c] = "ended" /\ c \notin Outstanding /\ Outstanding' = Outstanding
    BY <1>2, <1>3 DEF RInv, Phases, Threads, Outstanding
  <1>9. ~Stopping /\ ~Stopping' /\ (Sweeping <=> rq.op = "sweep") /\ (Sweeping' <=> Sweeping)
        /\ (rq.op = "sweep" => cleanup = "done") /\ (rq.op # "sweep" => cleanup = "none")
    BY <1>2, <1>3, <1>6 DEF Stopping, StoppedWithoutId, Sweeping, RInv, Threads
  <1>10. \A h \in Handlers : h.cmd \in Cmds /\ h.cmd # c
    <2>1. (\A x : ~WillUnregister(x)) \/ (rq.at = "release" /\ rq.op = "fail")
      BY <1>2 DEF WillUnregister, RInv, Threads
    <2>2. SUFFICES ASSUME NEW h \in Handlers PROVE h.cmd # c
      BY Handled
    <2>3. CASE rq.op = "sweep"
      BY <1>2, <1>8, <1>9, <2>1, <2>3 DEF RInv, Owned
    <2>4. CASE rq.op # "sweep"
      BY <1>2, <1>8, <1>9, <2>1, <2>4 DEF RInv, Owned
    <2>5. QED BY <2>3, <2>4
  <1>11. (rq.op = "sweep" => Size = numCmd /\ rq.saw < numCmd /\ slots[rq.saw + 1] = c) /\ Size' = Size
         /\ \A d \in Cmds : InTable(d)' <=> InTable(d)
    BY <1>2, <1>3, <1>4, <1>6 DEF Size, InTable, RInv, Table, Threads
  <1>12. Types'
    <2>1. rq'.op \in {"sweep", "none"} /\ rq'.at \in {"sweep", "idle"} /\ rq'.cmd = None /\ rq'.saw \in Nat
      BY <1>3, <1>6
    <2>2. rq'.todo \in Seq(Steps)
      <3>1. <<>> \in Seq(Steps) /\ rq.todo \in Seq(Steps)
        BY DEF RInv, Types
      <3>2. QED BY <1>3, <1>6, <3>1
    <2>3. QED BY <1>2, <1>7, <2>1, <2>2 DEF RInv, Types
  <1>13. Threads'
    <2>1. ~InCallback("rtt")' /\ ~InCallback("rtt")
      BY <1>2, <1>4, <1>7 DEF InCallback, RInv, Types
    <2>2. QED BY <1>2, <1>3, <1>4, <1>6, <1>9, <2>1 DEF RInv, Threads
  <1>14. Table'
    BY <1>2, <1>3, <1>4, <1>6, <1>11 DEF RInv, Table
  <1>15. Phases'
    BY <1>2, <1>3, <1>6, <1>7, <1>8 DEF RInv, Phases
  <1>16. ASSUME NEW d \in Cmds, d # c PROVE Saved(d)' <=> Saved(d)
    <2>1. CASE rq.op # "sweep"
      BY <1>2, <1>6, <1>9, <2>1 DEF Saved, Pending
    <2>2. CASE rq.op = "sweep"
      <3>1. Pending = (rq.saw + 1)..numCmd /\ Pending' = (rq.saw + 2)..numCmd
        BY <1>2, <1>3, <1>6, <1>9, <2>2 DEF Pending
      <3>2. slots[rq.saw + 1] = c
        BY <1>11, <2>2
      <3>3. numCmd \in Nat
        BY DEF RInv, Types
      <3>4. QED BY <1>2, <1>3, <1>16, <3>1, <3>2, <3>3 DEF Saved
    <2>3. QED BY <2>1, <2>2
  <1>17. Counted'
    <2>1. ~Saved(c)'
      <3>1. CASE rq.op # "sweep"
        <4>1. ~InTable(c) /\ Size = numCmd
          BY <1>2, <1>3, <1>4, <3>1 DEF RInv, Table, Threads, Size
        <4>2. Pending' = 1..numCmd
          BY <1>2, <1>6, <1>9, <3>1 DEF Pending
        <4>3. QED BY <1>2, <4>1, <4>2 DEF Saved, InTable
      <3>2. CASE rq.op = "sweep"
        <4>1. Pending' = (rq.saw + 2)..numCmd
          BY <1>2, <1>3, <1>6, <1>9, <3>2 DEF Pending
        <4>2. slots[rq.saw + 1] = c /\ rq.saw + 1 \in 1..Size /\ Size = numCmd /\ numCmd \in Nat
          BY <1>3, <1>11, <3>2 DEF RInv, Types
        <4>3. \A i \in 1..Size : slots[i] = c => i = rq.saw + 1
          BY <4>2 DEF RInv, Table
        <4>4. QED BY <1>2, <1>3, <4>1, <4>2, <4>3 DEF Saved
      <3>3. QED BY <3>1, <3>2
    <2>2. ~TakenByCall(c)' /\ ~TakenByLoop(c)'
      BY <1>2, <1>3, <1>4, <1>6 DEF TakenByCall, TakenByLoop, Cmds, None
    <2>3. \A d \in Cmds : d # c => ~TakenByCall(d) /\ ~TakenByCall(d)' /\ (TakenByLoop(d)' <=> TakenByLoop(d))
      BY <1>2, <1>6 DEF TakenByCall, TakenByLoop, Cmds, None
    <2>4. \A d \in Cmds : d # c => (Held(d)' <=> Held(d))
      BY <1>16, <2>3 DEF Held
    <2>5. ~Held(c)'
      BY <2>1, <2>2 DEF Held
    <2>6. \A d \in Cmds : refs'[d] = Holds(Held(d)') + Holds(loop'.cmd = d)
      <3>1. \A d \in Cmds : refs[d] = Holds(Held(d)) + Holds(loop.cmd = d)
        BY DEF RInv, Counted, Held
      <3>2. \A d \in Cmds : d # c => refs'[d] = Holds(Held(d)') + Holds(loop'.cmd = d)
        BY <1>2, <1>7, <2>4, <3>1 DEF Holds
      <3>3. refs'[c] = Holds(Held(c)') + Holds(loop'.cmd = c)
        BY <1>2, <1>5, <1>7, <2>5 DEF Holds
      <3>4. QED BY <3>2, <3>3
    <2>7. QED BY <2>6 DEF Counted, Held
  <1>18. Owned'
    <2>1. SUFFICES ASSUME NEW h \in Handlers
                   PROVE  /\ h.event \in EventsOf(kind'[h.cmd])
                          /\ \/ ~Sweeping' /\ h.cmd \in Outstanding' /\ ~(rq'.op = "fail" /\ rq'.cmd = h.cmd)
                             \/ Sweeping' /\ Saved(h.cmd)' /\ ~(rq'.cmd = h.cmd)
      BY <1>2 DEF Owned
    <2>2. h.cmd \in Cmds /\ h.cmd # c /\ kind'[h.cmd] = kind[h.cmd] /\ h.event \in EventsOf(kind[h.cmd]) /\ h.cmd # None
      BY <1>7, <1>10 DEF RInv, Owned, Cmds, None
    <2>3. CASE rq.op # "sweep"
      BY <1>2, <1>3, <1>6, <1>8, <1>9, <2>2, <2>3 DEF RInv, Owned
    <2>4. CASE rq.op = "sweep"
      BY <1>2, <1>3, <1>6, <1>9, <1>16, <2>2, <2>4 DEF RInv, Owned
    <2>5. QED BY <2>3, <2>4
  <1>19. OnePerEvent'
    BY <1>2 DEF RInv, OnePerEvent
  <1>20. Scripts' /\ Ranging'
    BY <1>2, <1>4, <1>6 DEF Scripts, Ranging
  <1>21. Apart'
    <2>1. ~InCallback("rtt")'
      BY <1>2, <1>4, <1>7 DEF InCallback, RInv, Types
    <2>2. \A d \in Outstanding : d # c /\ d \in Cmds /\ kind'[d] = kind[d]
      BY <1>7, <1>8 DEF Outstanding
    <2>3. QED BY <1>2, <1>6, <1>8, <1>9, <2>1, <2>2 DEF RInv, Apart
  <1>22. QED
    BY <1>12, <1>13, <1>14, <1>15, <1>17, <1>18, <1>19, <1>20, <1>21 DEF RInv

-----------------------------------------------------------------------------
(* The calls that begin. *)

\* Between two calls every handler is of an outstanding command.
LEMMA BetweenCalls ==
  ASSUME RInv, rq.at = "idle"
  PROVE  /\ rq.op = "none" /\ rq.cmd = None /\ cleanup = "none" /\ loop.at # "gone" /\ ~Sweeping /\ ~Stopping
         /\ \A h \in Handlers : h.cmd \in Outstanding
         /\ \A c \in Outstanding : c \in Cmds /\ Live(c) /\ kind[c] \in Kinds /\ phase[c] = "running"
         /\ \A c \in Cmds : phase[c] # "starting"
  <1>1. rq.op = "none" /\ rq.cmd = None /\ cleanup = "none" /\ loop.at # "gone"
    BY DEF RInv, Threads
  <1>2. ~Sweeping /\ ~Stopping
    BY <1>1 DEF Sweeping, Stopping, StoppedWithoutId
  <1>3. \A h \in Handlers : h.cmd \in Outstanding
    BY <1>1, <1>2, Handled DEF RInv, Owned, Cmds, None
  <1>4. \A c \in Cmds : phase[c] # "starting"
    BY DEF RInv, Phases
  <1>5. ASSUME NEW c \in Outstanding PROVE c \in Cmds /\ Live(c) /\ kind[c] \in Kinds /\ phase[c] = "running"
    <2>1. c \in Cmds /\ InTable(c) /\ phase[c] = "running"
      BY <1>4 DEF Outstanding, RInv, Table
    <2>2. Saved(c)
      <3>1. PICK i \in 1..Size : slots[i] = c
        BY <2>1 DEF InTable
      <3>2. Size \in {numCmd, numCmd - 1} /\ numCmd \in Nat
        BY RegistryAssumption DEF Size, RInv, Types
      <3>3. i \in 1..numCmd
        BY <3>2
      <3>4. Pending = 1..numCmd
        BY <1>1 DEF Pending
      <3>5. QED BY <3>1, <3>3, <3>4 DEF Saved
    <2>3. QED BY <2>1, <2>2, HeldIsLive DEF Held
  <1>6. QED BY <1>1, <1>2, <1>3, <1>4, <1>5

\* The framework that waits for its ranging requests finds nothing of ranging between calls.
LEMMA NothingRanges ==
  ASSUME RInv, MayCall, ~Overlap
  PROVE  /\ rq.at = "idle" /\ ~InCallback("rtt") /\ loop.at \notin {"shift", "shrink", "release"}
         /\ ~(loop.at = "call" /\ loop.last) /\ \A h \in Handlers : h.event # "rtt"
  <1>1. rq.at = "idle" /\ RangingAlone /\ ~InCallback("rtt")
    BY DEF MayCall
  <1>2. ASSUME NEW h \in Handlers PROVE h.event # "rtt"
    <2>1. h.cmd \in Outstanding /\ kind[h.cmd] \in Kinds /\ h.event \in EventsOf(kind[h.cmd])
      BY <1>1, BetweenCalls DEF RInv, Owned
    <2>2. kind[h.cmd] # "rtt"
      BY <1>1, <2>1 DEF RangingAlone
    <2>3. QED BY <2>1, <2>2, AllFit DEF Fits
  <1>3. QED BY <1>1, <1>2 DEF RInv, Threads

\* wifi_cancel_cmd begins.
LEMMA CancelKeeps ==
  ASSUME RInv, Shapes, ~Overlap, ~Sharing, NEW c \in Cmds, Cancel(c)
  PROVE  RInv'
  <1>1. /\ eventCb' = eventCb /\ slots' = slots /\ numCmd' = numCmd /\ refs' = refs /\ kind' = kind
        /\ created' = created /\ loop' = loop /\ sock' = sock /\ cleanup' = cleanup
        /\ Handlers' = Handlers /\ MayCall /\ rq.at = "idle"
        /\ phase[c] = "running" \/ (phase[c] = "stopped" /\ MayTouch(kind[c]))
    BY DEF registry, objects, device, Handlers, Cancel, MayCall
  <1>2. rq'.op = "cancel" /\ rq'.at = "shift" /\ rq'.cmd = c /\ rq'.saw = 0 /\ rq'.todo = <<>>
    BY DEF Cancel, Idle
  <1>3. /\ ~InCallback("rtt") /\ loop.at \notin {"shift", "shrink", "release"}
        /\ ~(loop.at = "call" /\ loop.last) /\ \A h \in Handlers : h.event # "rtt"
    BY <1>1, NothingRanges
  <1>4. /\ rq.op = "none" /\ rq.cmd = None /\ cleanup = "none" /\ loop.at # "gone" /\ ~Sweeping /\ ~Stopping
        /\ \A h \in Handlers : h.cmd \in Outstanding
        /\ \A d \in Cmds : phase[d] # "starting"
    BY <1>1, BetweenCalls
  <1>5. /\ phase' \in [Cmds -> {"none", "starting", "running", "stopped", "ended"}]
        /\ \A d \in Cmds : phase'[d] = IF d = c THEN "ended" ELSE phase[d]
    BY DEF Cancel, RInv, Types
  <1>6. Outstanding' = Outstanding \ {c} /\ \A d \in Outstanding \ {c} : EventsOf(kind[d]) \cap EventsOf(kind[c]) = {}
    <2>1. Outstanding' = Outstanding \ {c}
      BY <1>1, <1>5 DEF Outstanding
    <2>2. CASE phase[c] = "running"
      <3>1. c \in Outstanding
        BY <2>2 DEF Outstanding
      <3>2. QED BY <2>1, <3>1 DEF RInv, Apart
    <2>3. CASE phase[c] = "stopped"
      <3>1. MayTouch(kind[c])
        BY <1>1, <2>3
      <3>2. QED BY <2>1, <3>1 DEF MayTouch
    <2>4. QED BY <1>1, <2>1, <2>2, <2>3
  <1>7. c # None /\ InTable(c) /\ Size = numCmd /\ Size' = numCmd /\ \A d \in Cmds : InTable(d)' <=> InTable(d)
    BY <1>1, <1>2, <1>3 DEF Cmds, None, RInv, Table, Size, InTable
  <1>8. Types'
    <2>1. <<>> \in Seq(Steps)
      OBVIOUS
    <2>2. QED BY <1>1, <1>2, <1>5, <2>1 DEF RInv, Types
  <1>9. ~Stopping' /\ ~Sweeping' /\ ~InCallback("rtt")'
    BY <1>1, <1>2, <1>3, <1>4 DEF Stopping, StoppedWithoutId, Sweeping, InCallback
  <1>10. Threads'
    BY <1>1, <1>2, <1>3, <1>4, <1>7, <1>9 DEF RInv, Threads
  <1>11. Table'
    <2>1. \A d \in Cmds : phase'[d] \in {"starting", "running", "stopped"} => InTable(d)'
      BY <1>5, <1>7 DEF RInv, Table
    <2>2. InTable(rq.cmd)'
      BY <1>1, <1>2, <1>7 DEF InTable
    <2>3. QED BY <1>1, <1>2, <1>3, <1>7, <2>1, <2>2 DEF RInv, Table
  <1>12. Phases'
    BY <1>1, <1>2, <1>4, <1>5, <1>6 DEF RInv, Phases
  <1>13. Counted'
    <2>1. Saved(c) /\ \A d : Saved(d)' <=> Saved(d)
      BY <1>1, <1>2, <1>4, <1>7 DEF Saved, Pending, InTable
    <2>2. \A d \in Cmds : Held(d)' <=> Held(d)
      BY <1>1, <1>2, <1>4, <2>1 DEF Held, TakenByCall, TakenByLoop, Cmds, None
    <2>3. QED BY <1>1, <2>2, CountedStays DEF RInv
  <1>14. Owned'
    BY <1>1, <1>2, <1>4, <1>6, <1>9 DEF RInv, Owned
  <1>15. OnePerEvent'
    BY <1>1 DEF RInv, OnePerEvent
  <1>16. Scripts'
    BY <1>2 DEF Scripts
  <1>17. Apart'
    <2>1. Feature' = kind[c]
      BY <1>1, <1>2, <1>7 DEF Feature
    <2>2. QED BY <1>1, <1>2, <1>6, <1>9, <2>1 DEF RInv, Apart
  <1>18. Ranging'
    BY <1>1, <1>3, <1>9 DEF Ranging
  <1>19. QED
    BY <1>8, <1>10, <1>11, <1>12, <1>13, <1>14, <1>15, <1>16, <1>17, <1>18 DEF RInv

\* The id -1 begins: every command of the kind is stopped, whichever it is.
LEMMA StopAnyKeeps ==
  ASSUME RInv, Shapes, ~Overlap, NEW k \in Kinds, StopAny(k)
  PROVE  RInv'
  <1>1. /\ eventCb' = eventCb /\ slots' = slots /\ numCmd' = numCmd /\ refs' = refs /\ kind' = kind
        /\ created' = created /\ loop' = loop /\ sock' = sock /\ cleanup' = cleanup
        /\ Handlers' = Handlers /\ rq.at = "idle" /\ k \in StoppedWithoutId /\ Fits(k)
    BY AllFit DEF registry, objects, device, Handlers, StopAny
  <1>2. rq'.op = k /\ rq'.at = "script" /\ rq'.cmd = None /\ rq'.saw = 0 /\ rq'.todo = Command[k].cancel
    BY DEF StopAny, Idle
  <1>3. /\ rq.op = "none" /\ rq.cmd = None /\ cleanup = "none" /\ loop.at # "gone" /\ ~Sweeping /\ ~Stopping
        /\ \A h \in Handlers : h.cmd \in Outstanding
        /\ \A c \in Outstanding : c \in Cmds /\ kind[c] \in Kinds
        /\ \A d \in Cmds : phase[d] # "starting"
    BY <1>1, BetweenCalls
  <1>4. k # "rtt" => ~InCallback("rtt") /\ \A h \in Handlers : h.event # "rtt"
    BY NothingRanges DEF StopAny
  <1>5. /\ phase' \in [Cmds -> {"none", "starting", "running", "stopped", "ended"}]
        /\ \A d \in Cmds : phase'[d] = IF d \in Outstanding /\ kind[d] = k THEN "stopped" ELSE phase[d]
    BY DEF StopAny, RInv, Types
  <1>6. Outstanding' = {d \in Outstanding : kind[d] # k}
    BY <1>5 DEF Outstanding
  <1>7. PICK c \in Outstanding : kind[c] = k
    BY DEF StopAny
  <1>8. Size' = Size /\ (loop.at = "shrink" => Taken' = Taken) /\ \A d : InTable(d)' <=> InTable(d)
    BY <1>1, <1>2 DEF Size, InTable, Taken
  <1>9. k \notin {"none", "start", "fail", "cancel", "cleanup", "sweep"} /\ Stopping' /\ ~Sweeping'
        /\ (InCallback("rtt")' <=> InCallback("rtt"))
    BY <1>1, <1>2, <1>3 DEF Stopping, StoppedWithoutId, Sweeping, InCallback
  <1>10. Types'
    BY <1>1, <1>2, <1>5, SMTT(30) DEF RInv, Types, Fits
  <1>11. Threads'
    BY <1>1, <1>2, <1>3, <1>9 DEF RInv, Threads
  <1>12. Table'
    <2>1. \A d \in Cmds : phase'[d] \in {"starting", "running", "stopped"} => InTable(d)'
      BY <1>5, <1>8 DEF RInv, Table, Outstanding
    <2>2. QED BY <1>1, <1>2, <1>8, <1>9, <2>1 DEF RInv, Table
  <1>13. Phases'
    BY <1>1, <1>2, <1>3, <1>5, <1>9 DEF RInv, Phases, Outstanding
  <1>14. Counted'
    <2>1. \A d : Saved(d)' <=> Saved(d)
      BY <1>1, <1>2, <1>3, <1>9 DEF Saved, Pending
    <2>2. \A d \in Cmds : Held(d)' <=> Held(d)
      BY <1>1, <1>2, <1>3, <2>1 DEF Held, TakenByCall, TakenByLoop, Cmds, None
    <2>3. QED BY <1>1, <2>2, CountedStays DEF RInv
  <1>15. Owned'
    <2>1. ASSUME NEW x \in EventsOf(k) PROVE WillUnregister(x)'
      <3>1. PICK i \in DOMAIN Command[k].cancel : Command[k].cancel[i] = Unregister(x)
        BY <1>1 DEF Fits
      <3>2. rq'.todo[i].do = "unregister" /\ rq'.todo[i].event = x /\ i \in DOMAIN rq'.todo
        BY <1>2, <3>1 DEF Unregister
      <3>3. QED BY <3>2 DEF WillUnregister
    <2>2. SUFFICES ASSUME NEW h \in Handlers
                   PROVE  /\ h.event \in EventsOf(kind'[h.cmd])
                          /\ \/ ~Sweeping' /\ h.cmd \in Outstanding' /\ ~(rq'.op = "fail" /\ rq'.cmd = h.cmd)
                             \/ Stopping' /\ rq'.op = kind'[h.cmd] /\ phase'[h.cmd] = "stopped" /\ WillUnregister(h.event)'
      BY <1>1 DEF Owned
    <2>3. h.cmd \in Outstanding /\ h.cmd \in Cmds /\ h.event \in EventsOf(kind[h.cmd])
      BY <1>3 DEF RInv, Owned
    <2>4. CASE kind[h.cmd] = k
      BY <1>1, <1>2, <1>5, <1>9, <2>1, <2>3, <2>4
    <2>5. CASE kind[h.cmd] # k
      BY <1>1, <1>2, <1>6, <1>9, <2>3, <2>5
    <2>6. QED BY <2>4, <2>5
  <1>16. OnePerEvent'
    BY <1>1 DEF RInv, OnePerEvent
  <1>17. Feature' = k
    BY <1>2 DEF Feature
  <1>18. Scripts'
    BY <1>1, <1>2, <1>9, <1>17 DEF Scripts, Fits
  <1>19. Apart'
    <2>1. \A d \in Outstanding' : d \in Outstanding /\ d # c
      BY <1>6, <1>7
    <2>2. \A d \in Outstanding' : EventsOf(kind[d]) \cap EventsOf(k) = {}
      BY <1>7, <2>1 DEF RInv, Apart
    <2>3. QED BY <1>1, <1>2, <1>9, <1>17, <2>1, <2>2 DEF RInv, Apart
  <1>20. Ranging'
    BY <1>1, <1>2, <1>4, <1>9 DEF Ranging
  <1>21. QED
    BY <1>10, <1>11, <1>12, <1>13, <1>14, <1>15, <1>16, <1>18, <1>19, <1>20 DEF RInv

\* A new command: it is written to cmd[] and has its reference, or cmd[] is full and it is given up.
LEMMA StartKeeps ==
  ASSUME RInv, Shapes, ~Overlap, ~Sharing, NEW k \in Kinds, Start(k)
  PROVE  RInv'
  <1> DEFINE full == numCmd >= CmdSlots
  <1>1. MayCall /\ created < MaxCmds /\ \A d \in Outstanding : EventsOf(kind[d]) \cap EventsOf(k) = {}
    BY DEF Start, MayStart, MayTouch
  <1>2. PICK c \in Cmds : c = created + 1
    BY <1>1, RegistryAssumption DEF Cmds, RInv, Types
  <1>3. /\ eventCb' = eventCb /\ numCmd' = numCmd /\ phase' = phase /\ created' = c /\ kind' = [kind EXCEPT ![c] = k]
        /\ loop' = loop /\ sock' = sock /\ cleanup' = cleanup /\ Handlers' = Handlers
    BY <1>2 DEF Start, device, Handlers
  <1>4. \/ /\ numCmd < CmdSlots /\ slots' = [slots EXCEPT ![numCmd + 1] = c] /\ AddRef(c)
           /\ rq' = [Idle EXCEPT !.op = "start", !.at = "count", !.cmd = c, !.saw = numCmd]
        \/ slots' = slots /\ refs' = refs /\ rq' = rq
    BY <1>2 DEF Start
  <1>5. /\ rq.at = "idle" /\ ~InCallback("rtt") /\ loop.at \notin {"shift", "shrink", "release"}
        /\ ~(loop.at = "call" /\ loop.last) /\ \A h \in Handlers : h.event # "rtt"
    BY <1>1, NothingRanges
  <1>6. /\ rq.op = "none" /\ rq.cmd = None /\ cleanup = "none" /\ loop.at # "gone" /\ ~Sweeping /\ ~Stopping
        /\ \A h \in Handlers : h.cmd \in Outstanding
        /\ \A d \in Outstanding : d \in Cmds /\ Live(d)
        /\ \A d \in Cmds : phase[d] # "starting"
    BY <1>5, BetweenCalls
  <1>7. refs[c] = 0 /\ phase[c] = "none" /\ c # None /\ created \in Nat
    BY <1>2 DEF RInv, Phases, Types, Cmds, None
  <1>8. ~Held(c) /\ loop.cmd # c
    BY <1>7, HeldIsLive DEF Live
  <1>9. numCmd \in Nat /\ CmdSlots \in Nat /\ Size = numCmd /\ (\A d \in Cmds : Saved(d) <=> InTable(d)) /\ ~InTable(c)
    <2>1. Size = numCmd /\ Pending = 1..numCmd
      BY <1>5, <1>6 DEF Size, Pending
    <2>2. \A d \in Cmds : Saved(d) <=> InTable(d)
      BY <2>1 DEF Saved, InTable
    <2>3. QED BY <1>8, <2>1, <2>2, RegistryAssumption DEF Held, RInv, Types
  <1>10. /\ kind' \in [Cmds -> Kinds \cup {"none"}] /\ kind'[c] = k /\ \A d \in Cmds : d # c => kind'[d] = kind[d]
    BY <1>3 DEF RInv, Types
  <1>11. Outstanding' = Outstanding /\ c \notin Outstanding /\ \A d \in Outstanding : kind'[d] = kind[d]
    BY <1>3, <1>6, <1>7, <1>10 DEF Outstanding
  <1>12. ~InCallback("rtt")'
    BY <1>3, <1>5, <1>8, <1>10 DEF InCallback, RInv, Types
  <1>13. "none" # k /\ Fits(k) /\ "none" \notin Kinds
    BY AllFit, Handled
  <1>14. \A h \in Handlers : h.event \in EventsOf(kind'[h.cmd]) /\ h.event \notin EventsOf(k) /\ h.cmd # c
    BY <1>1, <1>6, <1>11 DEF RInv, Owned
  <1>15. OnePerEvent'
    BY <1>3 DEF RInv, OnePerEvent
  <1>16. Ranging'
    BY <1>3, <1>5, <1>12 DEF Ranging
  <1>17. CASE slots' = slots /\ refs' = refs /\ rq' = rq
    <2>1. Types'
      <3>1. created' \in 0..MaxCmds
        BY <1>3, RegistryAssumption DEF Cmds
      <3>2. QED BY <1>3, <1>10, <1>17, <3>1 DEF RInv, Types
    <2>2. Threads'
      BY <1>3, <1>5, <1>12, <1>17 DEF RInv, Threads, Stopping
    <2>3. \A d : InTable(d)' <=> InTable(d)
      BY <1>3, <1>17 DEF InTable, Size
    <2>4. Table'
      BY <1>3, <1>5, <1>17, <2>3 DEF RInv, Table, Size, Taken
    <2>5. Phases'
      BY <1>2, <1>3, <1>5, <1>6, <1>7, <1>10, <1>13, <1>17 DEF RInv, Phases, Cmds
    <2>6. \A d \in Cmds : Held(d)' <=> Held(d)
      BY <1>3, <1>17 DEF Held, Saved, Pending, TakenByCall, TakenByLoop
    <2>7. Counted'
      BY <1>3, <1>17, <2>6, CountedStays DEF RInv
    <2>8. ~Sweeping' /\ ~Stopping'
      BY <1>3, <1>6, <1>17 DEF Sweeping, Stopping
    <2>9. Owned'
      BY <1>3, <1>6, <1>11, <1>14, <1>17, <2>8 DEF Owned
    <2>10. Scripts'
      BY <1>5, <1>17 DEF Scripts
    <2>11. Apart'
      BY <1>3, <1>5, <1>6, <1>11, <1>12, <1>17, <2>8 DEF RInv, Apart
    <2>12. QED
      BY <1>15, <1>16, <2>1, <2>2, <2>4, <2>5, <2>7, <2>9, <2>10, <2>11 DEF RInv
  <1>18. CASE /\ numCmd < CmdSlots /\ slots' = [slots EXCEPT ![numCmd + 1] = c] /\ AddRef(c)
              /\ rq' = [Idle EXCEPT !.op = "start", !.at = "count", !.cmd = c, !.saw = numCmd]
    <2>1. rq'.op = "start" /\ rq'.at = "count" /\ rq'.cmd = c /\ rq'.saw = numCmd /\ rq'.todo = <<>>
      BY <1>18 DEF Idle
    <2>2. refs' \in [Cmds -> Nat] /\ refs'[c] = 1 /\ \A d \in Cmds : d # c => refs'[d] = refs[d]
      BY <1>7, <1>18 DEF AddRef, RInv, Types
    <2>3. /\ slots' \in [1..CmdSlots -> Cmds \cup {None}] /\ slots'[numCmd + 1] = c
          /\ \A i \in 1..numCmd : slots'[i] = slots[i]
      BY <1>9, <1>18 DEF RInv, Types
    <2>4. <<>> \in Seq(Steps)
      OBVIOUS
    <2>5. Types'
      <3>1. created' \in 0..MaxCmds
        BY <1>3, RegistryAssumption DEF Cmds
      <3>2. QED BY <1>3, <1>9, <1>10, <2>1, <2>2, <2>3, <2>4, <3>1 DEF RInv, Types
    <2>6. ~Sweeping' /\ ~Stopping' /\ Size' = numCmd
      BY <1>3, <1>5, <1>6, <2>1 DEF Sweeping, Stopping, StoppedWithoutId, Size
    <2>7. Threads'
      BY <1>3, <1>5, <1>6, <1>7, <1>12, <2>1, <2>6 DEF RInv, Threads
    <2>8. \A d \in Cmds : (InTable(d)' <=> InTable(d))
      BY <1>9, <2>3, <2>6 DEF InTable
    <2>9. Table'
      <3>1. \A i, j \in 1..Size' : slots'[i] = slots'[j] => i = j
        BY <1>9, <2>3, <2>6 DEF RInv, Table
      <3>2. \A i \in 1..Size' : slots'[i] # None
        BY <1>9, <2>3, <2>6 DEF RInv, Table
      <3>3. \A d \in Cmds : phase'[d] \in {"starting", "running", "stopped"} => InTable(d)'
        BY <1>3, <2>8 DEF RInv, Table
      <3>4. ~InTable(rq.cmd)'
        <4>1. ~InTable(c)'
          BY <1>9, <2>8
        <4>2. QED BY <2>1, <4>1 DEF InTable
      <3>5. QED
        BY <1>3, <1>5, <1>7, <1>18, <2>1, <2>3, <3>1, <3>2, <3>3, <3>4 DEF Table
    <2>10. Phases'
      BY <1>2, <1>3, <1>6, <1>7, <1>10, <1>13, <2>1, <2>2 DEF RInv, Phases, Cmds
    <2>11. Counted'
      <3>1. \A d \in Cmds : d # c => (Held(d)' <=> Held(d))
        <4>1. Pending' = 1..numCmd /\ Pending = 1..numCmd
          BY <1>3, <1>6, <2>1 DEF Pending
        <4>2. \A d : Saved(d)' <=> Saved(d)
          BY <2>3, <4>1 DEF Saved
        <4>3. QED BY <1>3, <1>5, <1>6, <2>1, <4>2 DEF Held, TakenByCall, TakenByLoop
      <3>2. Held(c)' /\ loop'.cmd # c
        BY <1>3, <1>8, <2>1 DEF Held, TakenByCall
      <3>3. \A d \in Cmds : refs[d] = Holds(Held(d)) + Holds(loop.cmd = d)
        BY DEF RInv, Counted, Held
      <3>4. \A d \in Cmds : d # c => refs'[d] = Holds(Held(d)') + Holds(loop'.cmd = d)
        BY <1>3, <2>2, <3>1, <3>3 DEF Holds
      <3>5. refs'[c] = Holds(Held(c)') + Holds(loop'.cmd = c)
        BY <2>2, <3>2 DEF Holds
      <3>6. \A d \in Cmds : refs'[d] = Holds(Held(d)') + Holds(loop'.cmd = d)
        BY <3>4, <3>5
      <3>7. QED BY <3>6 DEF Counted, Held
    <2>12. Owned'
      BY <1>3, <1>6, <1>11, <1>14, <2>1, <2>6 DEF Owned
    <2>13. Scripts'
      BY <1>3, <1>10, <1>14, <2>1 DEF Scripts
    <2>14. Apart'
      <3>1. Feature' = k
        BY <1>7, <1>10, <2>1 DEF Feature
      <3>2. QED BY <1>1, <1>11, <1>12, <2>1, <2>6, <3>1 DEF RInv, Apart
    <2>15. QED
      BY <1>15, <1>16, <2>5, <2>7, <2>9, <2>10, <2>11, <2>12, <2>13, <2>14 DEF RInv
  <1>19. QED BY <1>4, <1>17, <1>18

-----------------------------------------------------------------------------
(* The event loop. *)

\* Nothing but the last results of ranging is an event of it.
LEMMA RttEvents == EventsOf("rtt") = {"rtt"}
  BY DEF EventsOf, ToSet, Command, RttCommand, Ask, Enable, Disable, Register, Unregister

\* Every handler's command is held by a thread or by cmd[].
LEMMA HandlersHeld ==
  ASSUME RInv
  PROVE  /\ \A h \in Handlers : h.cmd \in Cmds /\ Held(h.cmd)
         /\ loop.at # "gone" => \A c \in Outstanding : c \in Cmds /\ Held(c)
  <1>1. numCmd \in Nat /\ Size \in {numCmd, numCmd - 1}
    BY RegistryAssumption DEF RInv, Types, Size
  <1>2. ASSUME NEW c \in Cmds, InTable(c), ~Sweeping PROVE Held(c)
    <2>1. PICK i \in 1..Size : slots[i] = c
      BY <1>2 DEF InTable
    <2>2. i \in 1..numCmd
      BY <1>1
    <2>3. Pending = 1..numCmd
      BY <1>2 DEF Sweeping, Pending
    <2>4. QED BY <2>1, <2>2, <2>3 DEF Held, Saved
  <1>3. ASSUME NEW c \in Cmds, phase[c] \in {"starting", "running", "stopped"}, ~Sweeping PROVE Held(c)
    BY <1>2, <1>3 DEF RInv, Table
  <1>4. \A c \in Outstanding : c \in Cmds /\ (~Sweeping => Held(c))
    BY <1>3 DEF Outstanding
  <1>5. (Sweeping => loop.at = "gone") /\ (Stopping => ~Sweeping)
    BY DEF Sweeping, Stopping, StoppedWithoutId, RInv, Threads
  <1>6. ASSUME NEW h \in Handlers PROVE h.cmd \in Cmds /\ Held(h.cmd)
    <2>1. h.cmd \in Cmds
      BY Handled
    <2>2. QED BY <1>3, <1>4, <1>5, <2>1 DEF RInv, Owned, Held, TakenByCall
  <1>7. QED BY <1>4, <1>5, <1>6

\* What a step of the event loop leaves alone when it touches neither handlers nor cmd[].
LEMMA LoopStays ==
  ASSUME RInv, eventCb' = eventCb, slots' = slots, numCmd' = numCmd, phase' = phase, rq' = rq, kind' = kind,
         cleanup' = cleanup, loop.at # "shrink", loop'.at # "shrink", loop'.at # "release",
         (loop'.at = "gone") <=> (loop.at = "gone"),
         InCallback("rtt")' => InCallback("rtt") /\ loop'.cmd = loop.cmd
  PROVE  /\ Table' /\ Owned' /\ OnePerEvent' /\ Scripts' /\ Apart' /\ Ranging'
         /\ \A c \in Cmds : (Saved(c)' <=> Saved(c)) /\ (TakenByCall(c)' <=> TakenByCall(c))
  <1>1. Handlers' = Handlers /\ Outstanding' = Outstanding /\ OnePerEvent' /\ Feature' = Feature
    BY DEF Handlers, Outstanding, OnePerEvent, RInv, Feature
  <1>2. Size' = Size /\ \A d : InTable(d)' <=> InTable(d)
    BY DEF Size, InTable
  <1>3. rq.at = "shrink" => Taken' = Taken
    BY DEF Taken
  <1>4. \A d : (Saved(d)' <=> Saved(d)) /\ (TakenByCall(d)' <=> TakenByCall(d)) /\ (WillUnregister(d)' <=> WillUnregister(d))
    BY DEF Saved, Pending, TakenByCall, WillUnregister
  <1>5. (Stopping' <=> Stopping) /\ (Sweeping' <=> Sweeping)
    BY DEF Stopping, Sweeping
  <1>6. Table'
    BY <1>2, <1>3 DEF RInv, Table
  <1>7. Owned'
    BY <1>1, <1>4, <1>5 DEF RInv, Owned
  <1>8. Scripts'
    BY <1>1 DEF RInv, Scripts
  <1>9. Apart'
    BY <1>1, <1>5 DEF RInv, Apart
  <1>10. Ranging'
    BY <1>1 DEF RInv, Ranging
  <1>11. QED BY <1>1, <1>4, <1>6, <1>7, <1>8, <1>9, <1>10

\* handleEvent reports and the loop goes on to signal.
LEMMA HandleEventKeeps ==
  ASSUME RInv, Shapes, HandleEvent
  PROVE  RInv'
  <1>1. /\ eventCb' = eventCb /\ slots' = slots /\ numCmd' = numCmd /\ refs' = refs /\ kind' = kind
        /\ created' = created /\ rq' = rq /\ sock' = sock /\ cleanup' = cleanup /\ phase' = phase
        /\ loop.at = "call" /\ ~loop.last
    BY DEF registry, objects, device, HandleEvent
  <1>2. loop'.at = "signal" /\ loop'.cmd = loop.cmd /\ loop'.last = loop.last /\ loop'.saw = loop.saw
    BY DEF HandleEvent, Shapes
  <1>3. Types'
    BY <1>1, <1>2 DEF RInv, Types
  <1>4. Threads'
    BY <1>1, <1>2 DEF RInv, Threads, InCallback, Stopping
  <1>5. Phases'
    BY <1>1 DEF RInv, Phases
  <1>6. /\ Table' /\ Owned' /\ OnePerEvent' /\ Scripts' /\ Apart' /\ Ranging'
        /\ \A c \in Cmds : (Saved(c)' <=> Saved(c)) /\ (TakenByCall(c)' <=> TakenByCall(c))
    BY <1>1, <1>2, LoopStays DEF InCallback
  <1>7. Counted'
    BY <1>1, <1>2, <1>6, CountedStays DEF RInv, Held, TakenByLoop
  <1>8. QED BY <1>3, <1>4, <1>5, <1>6, <1>7 DEF RInv

\* The event socket's next message, with a handler or without one.
LEMMA DispatchKeeps ==
  ASSUME RInv, Shapes, Dispatch
  PROVE  RInv'
  <1> DEFINE H == HandlersOf(Head(sock).event)
             p == FirstOf(H)
  <1>1. /\ eventCb' = eventCb /\ slots' = slots /\ numCmd' = numCmd /\ kind' = kind
        /\ created' = created /\ rq' = rq /\ cleanup' = cleanup /\ phase' = phase
        /\ loop.at = "poll" /\ sock # <<>> /\ sock' = Tail(sock) /\ Handlers' = Handlers
    BY DEF registry, Handlers, Dispatch
  <1>2. /\ sock' \in Seq([event : Events, last : BOOLEAN])
        /\ \A i \in DOMAIN sock' : sock'[i].last => sock'[i].event = "rtt"
        /\ Head(sock) = sock[1] /\ 1 \in DOMAIN sock /\ Head(sock).last \in BOOLEAN
    <2> DEFINE M == [event : Events, last : BOOLEAN]
    <2>1. sock \in Seq(M) /\ \A m \in M : m.last \in BOOLEAN
      BY DEF RInv, Types
    <2>2. \A i \in DOMAIN sock : sock[i].last => sock[i].event = "rtt"
      BY DEF RInv, Threads
    <2> HIDE DEF M
    <2>3. sock' \in Seq(M) /\ Head(sock) = sock[1] /\ 1 \in DOMAIN sock /\ sock[1] \in M
          /\ \A i \in DOMAIN sock' : i + 1 \in DOMAIN sock /\ sock'[i] = sock[i + 1]
      BY <1>1, <2>1
    <2>4. QED BY <2>1, <2>2, <2>3 DEF M
  <1>3. CASE H = {}
    <2>1. /\ loop'.at = "poll" /\ loop'.cmd = None /\ loop'.last = FALSE /\ loop'.saw = 0 /\ refs' = refs
          /\ loop'.last \in BOOLEAN
      <3>1. loop' = Poll /\ refs' = refs
        BY <1>3, Sighted DEF Dispatch
      <3>2. loop'.at = "poll" /\ loop'.cmd = None /\ loop'.last = FALSE /\ loop'.saw = 0
        BY <3>1 DEF Poll
      <3>3. loop'.last \in BOOLEAN
        BY <3>2
      <3>4. QED BY <3>1, <3>2, <3>3
    <2>2. loop.cmd = None
      BY <1>1 DEF RInv, Threads
    <2>3. Types'
      BY <1>1, <1>2, <2>1 DEF RInv, Types
    <2>4. Threads'
      BY <1>1, <1>2, <2>1 DEF RInv, Threads, InCallback, Stopping
    <2>5. Phases'
      BY <1>1, <2>1 DEF RInv, Phases
    <2>6. /\ Table' /\ Owned' /\ OnePerEvent' /\ Scripts' /\ Apart' /\ Ranging'
          /\ \A c \in Cmds : (Saved(c)' <=> Saved(c)) /\ (TakenByCall(c)' <=> TakenByCall(c))
      BY <1>1, <2>1, LoopStays DEF InCallback
    <2>7. Counted'
      BY <1>1, <2>1, <2>2, <2>6, CountedStays DEF RInv, Held, TakenByLoop
    <2>8. QED BY <2>3, <2>4, <2>5, <2>6, <2>7 DEF RInv
  <1>4. CASE H # {}
    <2>1. H \in SUBSET Nat
      BY DEF HandlersOf, RInv, Types
    <2>2. p \in 1..Len(eventCb) /\ eventCb[p].event = Head(sock).event
      BY <1>4, <2>1, FirstIsLeast DEF HandlersOf
    <2>3. eventCb[p] \in Handlers
      BY <2>2 DEF Handlers, ToSet, RInv, Types
    <2>4. PICK h \in Handlers : h = eventCb[p]
      BY <2>3
    <2>5. PICK c \in Cmds : c = h.cmd
      BY Handled
    <2>6. /\ AddRef(c) /\ loop' = [Poll EXCEPT !.at = "call", !.cmd = c, !.last = Head(sock).last]
          /\ h.event = Head(sock).event
      BY <1>4, <2>2, <2>4, <2>5 DEF Dispatch
    <2>7. loop'.at = "call" /\ loop'.cmd = c /\ loop'.last = Head(sock).last /\ loop'.saw = 0 /\ c # None
      BY <2>6 DEF Poll, Cmds, None
    <2>8. Held(c) /\ Live(c) /\ kind[c] \in Kinds /\ h.event \in EventsOf(kind[c])
      BY <2>4, <2>5, HandlersHeld, HeldIsLive DEF RInv, Owned
    <2>9. (h.event = "rtt" <=> kind[c] = "rtt") /\ (loop'.last => h.event = "rtt") /\ loop.cmd = None
      BY <1>1, <1>2, <2>6, <2>7, <2>8, AllFit, RttEvents DEF Fits, RInv, Threads
    <2>10. /\ refs' \in [Cmds -> Nat] /\ refs'[c] = refs[c] + 1 /\ \A d \in Cmds : d # c => refs'[d] = refs[d]
      BY <2>6 DEF AddRef, RInv, Types
    <2>11. Types'
      BY <1>1, <1>2, <2>7, <2>10, SMTT(30) DEF RInv, Types
    <2>12. Threads'
      BY <1>1, <1>2, <2>7, <2>9 DEF RInv, Threads, InCallback, Stopping
    <2>13. c <= created
      BY <2>8 DEF RInv, Phases, Live, Types, Cmds
    <2>14. Phases'
      <3>1. kind[c] # "none"
        BY <2>8, Handled
      <3>2. \A d \in Cmds : refs'[d] > 0 => kind'[d] # "none"
        BY <1>1, <2>10, <3>1 DEF RInv, Phases
      <3>3. \A d \in Cmds : d > created' => d # c
        BY <1>1, <2>13 DEF Cmds, RInv, Types
      <3>4. \A d \in Cmds : d > created' => refs'[d] = 0 /\ phase'[d] = "none"
        BY <1>1, <2>10, <3>3 DEF RInv, Phases
      <3>5. QED BY <1>1, <3>2, <3>4 DEF RInv, Phases
    <2>15. Outstanding' = Outstanding /\ OnePerEvent' /\ Feature' = Feature
      BY <1>1 DEF Outstanding, OnePerEvent, RInv, Feature
    <2>16. Size' = Size /\ \A d : InTable(d)' <=> InTable(d)
      BY <1>1, <2>7 DEF Size, InTable
    <2>17. rq.at = "shrink" => Taken' = Taken
      BY <1>1, <2>7 DEF Taken
    <2>18. Table'
      BY <1>1, <2>7, <2>16, <2>17 DEF RInv, Table
    <2>19. \A d : (Saved(d)' <=> Saved(d)) /\ (TakenByCall(d)' <=> TakenByCall(d)) /\ (WillUnregister(d)' <=> WillUnregister(d))
                  /\ ~TakenByLoop(d) /\ ~TakenByLoop(d)'
      BY <1>1, <2>7 DEF Saved, Pending, TakenByCall, WillUnregister, TakenByLoop
    <2>20. Counted'
      <3>1. \A d \in Cmds : Held(d)' <=> Held(d)
        BY <2>19 DEF Held
      <3>2. \A d \in Cmds : refs[d] = Holds(Held(d)) + Holds(loop.cmd = d)
        BY DEF RInv, Counted, Held
      <3>3. \A d \in Cmds : refs'[d] = Holds(Held(d)') + Holds(loop'.cmd = d)
        BY <2>7, <2>9, <2>10, <3>1, <3>2 DEF Holds, Cmds, None
      <3>4. QED BY <3>3 DEF Counted, Held
    <2>21. (Stopping' <=> Stopping) /\ (Sweeping' <=> Sweeping) /\ ~InCallback("rtt")
      BY <1>1, <2>9 DEF Stopping, Sweeping, InCallback
    <2>22. Owned'
      BY <1>1, <2>15, <2>19, <2>21 DEF RInv, Owned
    <2>23. Scripts'
      BY <1>1, <2>15 DEF RInv, Scripts
    <2>24. Ranging'
      BY <1>1, <2>4, <2>7, <2>9 DEF RInv, Ranging, InCallback
    <2>25. ASSUME kind[c] = "rtt", NEW d \in Outstanding, kind[d] = "rtt" PROVE d = c
      <3>1. rq.at \in {"idle", "wait"} \/ rq.op = "rtt" \/ (rq.at = "script" /\ rq.op = "start" /\ rq.todo = <<>>)
        BY <1>1, <2>4, <2>9, <2>25 DEF RInv, Ranging
      <3>2. rq.op # "fail" /\ rq.op # "cancel" /\ ~Sweeping
        BY <1>1, <3>1 DEF RInv, Threads, Sweeping, Stopping, StoppedWithoutId
      <3>3. CASE c \in Outstanding
        BY <2>25, <3>3, RttEvents DEF RInv, Apart
      <3>4. CASE c \notin Outstanding
        <4>1. Stopping /\ rq.op = "rtt"
          BY <2>4, <2>5, <2>25, <3>2, <3>4 DEF RInv, Owned
        <4>2. rq.cmd = None /\ Feature = "rtt"
          BY <4>1 DEF RInv, Threads, Feature
        <4>3. d \in Outstanding \ {rq.cmd}
          BY <4>2 DEF Outstanding, Cmds, None
        <4>4. QED BY <2>25, <4>1, <4>2, <4>3, RttEvents DEF RInv, Apart
      <3>5. QED BY <3>3, <3>4
    <2>26. Apart'
      BY <1>1, <2>7, <2>15, <2>21, <2>25 DEF RInv, Apart, InCallback
    <2>27. QED
      BY <2>11, <2>12, <2>14, <2>15, <2>18, <2>20, <2>22, <2>23, <2>24, <2>26 DEF RInv
  <1>5. QED BY <1>3, <1>4

\* The loop ends a ranging request alone: the requester is between calls, or has just
\* started the request, or cancels it.
LEMMA EndsRanging ==
  ASSUME RInv, NEW c, c = loop.cmd, loop.at \in {"shift", "shrink", "release"} \/ InCallback("rtt")
  PROVE  /\ c \in Cmds /\ kind[c] = "rtt" /\ Live(c) /\ EventsOf(kind[c]) = {"rtt"} /\ loop.at # "gone"
         /\ rq.at \in {"idle", "wait", "script"} /\ rq.op \notin {"fail", "cancel", "sweep"} /\ ~Sweeping
         /\ (rq.at = "script" /\ rq.op = "start" => rq.todo = <<>>)
         /\ (rq.at = "script" => rq.op = "start" \/ (rq.op = "rtt" /\ rq.cmd = None))
         /\ (\A d \in Cmds : ~TakenByCall(d)) /\ Size = (IF loop.at = "shrink" THEN numCmd - 1 ELSE numCmd)
         /\ (cleanup \in {"none", "exit"})
         /\ \A d \in Outstanding : kind[d] = "rtt" => d = c
  <1>1. InCallback("rtt") /\ loop.at # "gone"
    BY DEF RInv, Threads, InCallback
  <1>2. c \in Cmds /\ kind[c] = "rtt"
    BY <1>1 DEF InCallback, RInv, Types
  <1>3. Live(c) /\ EventsOf(kind[c]) = {"rtt"}
    BY <1>2, HeldIsLive, RttEvents
  <1>4. rq.at \in {"idle", "wait"} \/ rq.op = "rtt" \/ (rq.at = "script" /\ rq.op = "start" /\ rq.todo = <<>>)
    BY <1>1 DEF RInv, Ranging
  <1>5. /\ rq.at \in {"idle", "wait", "script"} /\ rq.op \notin {"fail", "cancel", "sweep"}
        /\ (rq.at = "script" => rq.op = "start" \/ (rq.op = "rtt" /\ rq.cmd = None))
        /\ (rq.at = "script" /\ rq.op = "start" => rq.todo = <<>>)
    BY <1>4 DEF RInv, Threads, Stopping, StoppedWithoutId
  <1>6. cleanup \in {"none", "exit"} /\ ~Sweeping
    BY <1>1, <1>5 DEF RInv, Threads, Sweeping
  <1>7. \A d \in Cmds : ~TakenByCall(d)
    BY <1>5 DEF TakenByCall
  <1>8. Size = (IF loop.at = "shrink" THEN numCmd - 1 ELSE numCmd)
    BY <1>5 DEF Size
  <1>9. \A d \in Outstanding : kind[d] = "rtt" => d = c
    BY <1>1 DEF RInv, Apart
  <1>10. QED BY <1>1, <1>2, <1>3, <1>5, <1>6, <1>7, <1>8, <1>9

\* The request whose last results were reported has ended.
Completed == loop.at \in {"shift", "shrink", "release"} => phase[loop.cmd] = "ended"

\* RttCommand::handleEvent with mCompleted takes the handler of ranging away.
LEMMA HandleResultsKeeps ==
  ASSUME RInv, Shapes, HandleResults
  PROVE  RInv'
  <1>1. PICK c : c = loop.cmd
    OBVIOUS
  <1>2. /\ slots' = slots /\ numCmd' = numCmd /\ refs' = refs /\ kind' = kind
        /\ created' = created /\ rq' = rq /\ sock' = sock /\ cleanup' = cleanup
        /\ loop.at = "call" /\ InCallback("rtt") /\ UnregisterHandler("rtt") /\ phase' = [phase EXCEPT ![c] = "ended"]
    BY <1>1 DEF objects, device, HandleResults, InCallback, RInv, Threads
  <1>3. loop'.at = "shift" /\ loop'.cmd = c /\ loop'.last = loop.last /\ loop'.saw = loop.saw /\ loop.cmd = c
    BY <1>1 DEF HandleResults, Shapes
  <1>4. /\ c \in Cmds /\ kind[c] = "rtt" /\ Live(c) /\ EventsOf(kind[c]) = {"rtt"} /\ loop.at # "gone"
        /\ rq.at \in {"idle", "wait", "script"} /\ rq.op \notin {"fail", "cancel", "sweep"} /\ ~Sweeping
        /\ (rq.at = "script" /\ rq.op = "start" => rq.todo = <<>>)
        /\ (rq.at = "script" => rq.op = "start" \/ (rq.op = "rtt" /\ rq.cmd = None))
    BY <1>1, <1>2, EndsRanging
  <1>5. /\ eventCb' \in Seq([event : Events, cmd : Cmds]) /\ OnePerEvent'
        /\ Handlers' = {h \in Handlers : h.event # "rtt"}
    BY <1>2, UnregisterIs DEF RInv
  <1>6. phase'[c] = "ended" /\ (\A d \in Cmds : d # c => phase'[d] = phase[d])
        /\ phase' \in [Cmds -> {"none", "starting", "running", "stopped", "ended"}]
    BY <1>2, <1>4 DEF RInv, Types
  <1>7. Outstanding' = Outstanding \ {c} /\ Feature' = Feature
    BY <1>2, <1>6 DEF Outstanding, Feature
  <1>8. Types'
    BY <1>2, <1>3, <1>5, <1>6 DEF RInv, Types
  <1>9. Threads'
    BY <1>2, <1>3, <1>4 DEF RInv, Threads, InCallback, Stopping
  <1>10. Size' = Size /\ \A d : InTable(d)' <=> InTable(d)
    BY <1>2, <1>3 DEF Size, InTable
  <1>11. Table'
    <2>1. \A d \in Cmds : phase'[d] \in {"starting", "running", "stopped"} => InTable(d)'
      BY <1>6, <1>10 DEF RInv, Table
    <2>2. QED BY <1>2, <1>3, <1>4, <1>10, <2>1 DEF RInv, Table
  <1>12. Phases'
    <2>1. \A d \in Cmds : refs'[d] > 0 => kind'[d] # "none"
      BY <1>2 DEF RInv, Phases
    <2>2. \A d \in Cmds : d > created' => refs'[d] = 0 /\ phase'[d] = "none"
      BY <1>2, <1>4, <1>6 DEF RInv, Phases, Live
    <2>3. \A d \in Cmds : phase'[d] = "starting" => rq'.cmd = d /\ rq'.at = "script" /\ rq'.op \in {"start", "fail"}
      BY <1>2, <1>6 DEF RInv, Phases
    <2>4. rq'.at = "script" /\ rq'.op = "start" => phase'[rq'.cmd] = "starting" \/ (phase'[rq'.cmd] = "ended" /\ rq'.todo = <<>>)
      <3>1. ASSUME rq.at = "script", rq.op = "start"
            PROVE  phase'[rq.cmd] = "starting" \/ (phase'[rq.cmd] = "ended" /\ rq.todo = <<>>)
        <4>1. PICK d \in Cmds : d = rq.cmd
          BY <3>1 DEF RInv, Threads, Types
        <4>2. phase[d] = "starting" \/ (phase[d] = "ended" /\ rq.todo = <<>>)
          BY <3>1, <4>1 DEF RInv, Phases
        <4>3. rq.todo = <<>>
          BY <1>4, <3>1
        <4>4. QED BY <1>6, <4>1, <4>2, <4>3
      <3>2. QED BY <1>2, <3>1
    <2>5. QED BY <1>2, <1>4, <2>1, <2>2, <2>3, <2>4 DEF RInv, Phases, Threads
  <1>13. Counted'
    <2>1. \A d \in Cmds : Held(d)' <=> Held(d)
      BY <1>2, <1>3 DEF Held, Saved, Pending, TakenByCall, TakenByLoop
    <2>2. QED BY <1>2, <1>3, <2>1, CountedStays DEF RInv
  <1>14. Owned'
    <2>1. ~Sweeping' /\ (Stopping' <=> Stopping)
      BY <1>2, <1>4 DEF Sweeping, Stopping
    <2>2. \A h \in Handlers' : h \in Handlers /\ h.cmd # c /\ h.cmd \in Cmds
      BY <1>4, <1>5, Handled DEF RInv, Owned
    <2>3. \A x : WillUnregister(x)' <=> WillUnregister(x)
      BY <1>2 DEF WillUnregister
    <2>4. QED BY <1>2, <1>4, <1>6, <1>7, <2>1, <2>2, <2>3 DEF RInv, Owned
  <1>15. Scripts'
    <2>1. rq.at # "count"
      BY <1>4
    <2>2. rq.at = "script" /\ rq.op = "start" => DOMAIN rq.todo = {} /\ StartPart(rq.todo, kind[rq.cmd])
      BY <1>4 DEF RInv, Scripts
    <2>3. QED BY <1>2, <1>7, <2>1, <2>2 DEF RInv, Scripts
  <1>16. Apart'
    <2>1. (Stopping' <=> Stopping) /\ (InCallback("rtt")' <=> InCallback("rtt"))
      BY <1>2, <1>3 DEF Stopping, InCallback
    <2>2. QED BY <1>2, <1>3, <1>7, <2>1 DEF RInv, Apart
  <1>17. Ranging'
    <2>1. InCallback("rtt")
      BY <1>3, <1>4 DEF InCallback, Cmds, None
    <2>2. QED BY <1>2, <1>4, <2>1 DEF RInv, Ranging
  <1>18. QED
    BY <1>5, <1>8, <1>9, <1>11, <1>12, <1>13, <1>14, <1>15, <1>16, <1>17 DEF RInv

\* The memmove of wifi_unregister_cmd in the event loop.
LEMMA LoopShiftKeeps ==
  ASSUME RInv, Completed, Shapes, LoopShift
  PROVE  RInv'
  <1>1. PICK c : c = loop.cmd
    OBVIOUS
  <1>2. /\ eventCb' = eventCb /\ numCmd' = numCmd /\ refs' = refs /\ kind' = kind /\ phase' = phase
        /\ created' = created /\ rq' = rq /\ sock' = sock /\ cleanup' = cleanup
        /\ loop.at = "shift" /\ loop.cmd = c /\ Handlers' = Handlers
    BY <1>1 DEF objects, device, LoopShift, Handlers
  <1>3. /\ c \in Cmds /\ kind[c] = "rtt" /\ Live(c) /\ loop.at # "gone" /\ c # None
        /\ rq.at \in {"idle", "wait", "script"} /\ rq.op \notin {"fail", "cancel", "sweep"} /\ ~Sweeping
        /\ (\A d \in Cmds : ~TakenByCall(d)) /\ Size = numCmd
        /\ (cleanup \in {"none", "exit"})
    BY <1>1, <1>2, EndsRanging DEF Cmds, None
  <1>4. phase[c] \notin {"starting", "running", "stopped"}
    BY <1>2 DEF Completed
  <1>5. CASE Listed(c) = {}
    <2>1. slots' = slots /\ loop'.at = "signal" /\ loop'.cmd = c /\ loop'.last = loop.last /\ loop'.saw = loop.saw
      BY <1>1, <1>5 DEF LoopShift, Shapes
    <2>2. Types'
      BY <1>2, <2>1 DEF RInv, Types
    <2>3. Threads'
      BY <1>2, <1>3, <2>1 DEF RInv, Threads, InCallback, Stopping
    <2>4. Phases'
      BY <1>2 DEF RInv, Phases
    <2>5. /\ Table' /\ Owned' /\ OnePerEvent' /\ Scripts' /\ Apart' /\ Ranging'
          /\ \A d \in Cmds : (Saved(d)' <=> Saved(d)) /\ (TakenByCall(d)' <=> TakenByCall(d))
      BY <1>2, <2>1, LoopStays DEF InCallback
    <2>6. Counted'
      BY <1>2, <2>1, <2>5, CountedStays DEF RInv, Held, TakenByLoop
    <2>7. QED BY <2>2, <2>3, <2>4, <2>5, <2>6 DEF RInv
  <1>6. CASE Listed(c) # {}
    <2>1. ShiftSlots(c) /\ loop'.at = "shrink" /\ loop'.cmd = c /\ loop'.last = loop.last /\ loop'.saw = numCmd
      BY <1>1, <1>6 DEF LoopShift, Shapes
    <2>2. /\ slots' \in [1..CmdSlots -> Cmds \cup {None}]
          /\ numCmd \in 1..CmdSlots
          /\ \A i, j \in 1..(numCmd - 1) : slots'[i] = slots'[j] => i = j
          /\ \A i \in 1..(numCmd - 1) : slots'[i] # None /\ slots'[i] # c
          /\ slots'[numCmd] = slots[numCmd]
          /\ \A d \in Cmds \ {c} : (\E i \in 1..numCmd : slots[i] = d) <=> (\E i \in 1..(numCmd - 1) : slots'[i] = d)
          /\ \E i \in 1..numCmd : slots[i] = c
      <3>1. /\ \A i, j \in 1..numCmd : slots[i] = slots[j] => i = j
            /\ \A i \in 1..numCmd : slots[i] # None
        BY <1>3 DEF RInv, Table
      <3>2. Types
        BY DEF RInv
      <3>3. QED BY <1>3, <1>6, <2>1, <3>1, <3>2, ShiftIs
    <2>3. /\ numCmd \in Nat /\ numCmd > 0 /\ Size' = numCmd - 1 /\ ~InTable(c)' /\ InTable(c)
          /\ \A d \in Cmds : d # c => (InTable(d)' <=> InTable(d))
      <3>1. numCmd \in Nat /\ numCmd > 0 /\ Size' = numCmd - 1
        BY <1>2, <2>1, <2>2, RegistryAssumption DEF Size
      <3>2. ~InTable(c)' /\ InTable(c)
        BY <1>3, <2>2, <3>1 DEF InTable
      <3>3. \A d \in Cmds : d # c => (InTable(d)' <=> InTable(d))
        BY <1>3, <2>2, <3>1 DEF InTable
      <3>4. QED BY <3>1, <3>2, <3>3
    <2>4. slots[numCmd] \in Cmds /\ InTable(slots[numCmd]) /\ numCmd \in 1..numCmd
      <3>1. numCmd \in 1..Size /\ Size = numCmd
        BY <1>3, <2>3
      <3>2. slots[numCmd] # None
        BY <3>1 DEF RInv, Table
      <3>3. slots[numCmd] \in Cmds
        <4>1. slots \in [1..CmdSlots -> Cmds \cup {None}] /\ numCmd \in 1..CmdSlots
          BY <2>2 DEF RInv, Types
        <4>2. QED BY <3>2, <4>1
      <3>4. QED BY <3>1, <3>3 DEF InTable
    <2>5. Types'
      BY <1>2, <2>1, <2>2, <2>3 DEF RInv, Types
    <2>6. Threads'
      BY <1>2, <1>3, <2>1 DEF RInv, Threads, InCallback, Stopping
    <2>7. Table'
      <3>1. \A d \in Cmds : phase'[d] \in {"starting", "running", "stopped"} => InTable(d)'
        BY <1>2, <1>4, <2>3 DEF RInv, Table
      <3>2. slots'[numCmd'] # None
        BY <1>2, <2>2, <2>4 DEF Cmds, None
      <3>3. slots'[numCmd'] = Taken' \/ InTable(slots[numCmd])'
        <4>1. PICK d \in Cmds : d = slots[numCmd]
          BY <2>4
        <4>2. slots'[numCmd'] = d
          BY <1>2, <2>2, <4>1
        <4>3. CASE d = c
          BY <2>1, <4>2, <4>3 DEF Taken
        <4>4. CASE d # c
          <5>1. InTable(d)'
            BY <2>3, <2>4, <4>1, <4>4
          <5>2. QED BY <4>2, <5>1 DEF InTable
        <4>5. QED BY <4>3, <4>4
      <3>4. numCmd' > 0 /\ loop'.saw = numCmd' /\ \A i, j \in 1..Size' : slots'[i] = slots'[j] => i = j
        BY <1>2, <2>1, <2>2, <2>3
      <3>5. \A i \in 1..Size' : slots'[i] # None
        BY <2>2, <2>3
      <3>6. rq'.at = "wait" => rq'.saw = 0
        BY <1>2 DEF RInv, Table
      <3>7. QED BY <1>2, <1>3, <2>1, <2>3, <3>1, <3>2, <3>3, <3>4, <3>5, <3>6 DEF Table
    <2>8. Phases'
      BY <1>2 DEF RInv, Phases
    <2>9. Pending = 1..numCmd /\ Pending' = 1..numCmd
      BY <1>2, <1>3 DEF Pending
    <2>10. \A d \in Cmds : d # c => (Saved(d)' <=> Saved(d))
      <3>1. \A d \in Cmds : Saved(d) <=> InTable(d)
        BY <1>3, <2>9 DEF Saved, InTable
      <3>2. \A d \in Cmds : InTable(d)' => Saved(d)'
        BY <2>3, <2>9 DEF Saved, InTable
      <3>3. ASSUME NEW d \in Cmds, d # c, Saved(d)' PROVE Saved(d)
        <4>1. PICK i \in 1..numCmd : slots'[i] = d
          BY <2>9, <3>3 DEF Saved
        <4>2. CASE i = numCmd
          BY <2>2, <2>4, <3>1, <4>1, <4>2
        <4>3. CASE i # numCmd
          BY <2>2, <2>3, <3>1, <3>3, <4>1, <4>3 DEF InTable
        <4>4. QED BY <4>2, <4>3
      <3>4. QED BY <2>3, <3>1, <3>2, <3>3
    <2>11. Counted'
      <3>1. Saved(c)
        BY <1>3, <2>3, <2>9 DEF Saved, InTable
      <3>2. \A d \in Cmds : Held(d)' <=> Held(d)
        BY <1>2, <2>1, <2>10, <3>1 DEF Held, TakenByCall, TakenByLoop
      <3>3. QED BY <1>2, <2>1, <3>2, CountedStays DEF RInv
    <2>12. Outstanding' = Outstanding /\ OnePerEvent' /\ Feature' = Feature /\ (Stopping' <=> Stopping)
           /\ (InCallback("rtt")' <=> InCallback("rtt")) /\ ~Sweeping'
      BY <1>2, <1>3, <2>1 DEF Outstanding, OnePerEvent, RInv, Feature, Stopping, InCallback, Sweeping
    <2>13. Owned'
      <3>1. \A x : WillUnregister(x)' <=> WillUnregister(x)
        BY <1>2 DEF WillUnregister
      <3>2. QED BY <1>2, <1>3, <2>12, <3>1 DEF RInv, Owned
    <2>14. Scripts'
      BY <1>2, <2>12 DEF RInv, Scripts
    <2>15. Apart'
      BY <1>2, <2>1, <2>12 DEF RInv, Apart
    <2>16. Ranging'
      BY <1>2, <1>3, <2>12 DEF RInv, Ranging
    <2>17. QED
      BY <2>5, <2>6, <2>7, <2>8, <2>11, <2>12, <2>13, <2>14, <2>15, <2>16 DEF RInv
  <1>7. QED BY <1>5, <1>6

\* num_cmd-- in the event loop.
LEMMA LoopShrinkKeeps ==
  ASSUME RInv, Shapes, LoopShrink
  PROVE  RInv'
  <1>1. PICK c : c = loop.cmd
    OBVIOUS
  <1>2. /\ eventCb' = eventCb /\ slots' = slots /\ refs' = refs /\ kind' = kind /\ phase' = phase
        /\ created' = created /\ rq' = rq /\ sock' = sock /\ cleanup' = cleanup
        /\ loop.at = "shrink" /\ loop.cmd = c /\ Handlers' = Handlers
    BY <1>1 DEF objects, device, LoopShrink, Handlers
  <1>3. /\ c \in Cmds /\ kind[c] = "rtt" /\ Live(c) /\ loop.at # "gone" /\ c # None
        /\ rq.at \in {"idle", "wait", "script"} /\ rq.op \notin {"fail", "cancel", "sweep"} /\ ~Sweeping
        /\ (\A d \in Cmds : ~TakenByCall(d)) /\ Size = numCmd - 1
        /\ (cleanup \in {"none", "exit"})
    BY <1>1, <1>2, EndsRanging DEF Cmds, None
  <1>4. numCmd \in Nat /\ numCmd > 0 /\ loop.saw = numCmd /\ ~InTable(c)
        /\ (slots[numCmd] = c \/ InTable(slots[numCmd]))
    BY <1>2 DEF RInv, Table, Types, Taken
  <1>5. numCmd' = numCmd - 1
    BY <1>4 DEF LoopShrink, StoreNumCmd
  <1>6. loop'.at = "release" /\ loop'.cmd = c /\ loop'.last = loop.last /\ loop'.saw = loop.saw
    BY <1>1 DEF LoopShrink, Shapes
  <1>7. Size' = numCmd - 1 /\ \A d : InTable(d)' <=> InTable(d)
    BY <1>2, <1>3, <1>5, <1>6 DEF Size, InTable
  <1>8. Types'
    <2>1. numCmd' \in 0..CmdSlots
      BY <1>4, <1>5, RegistryAssumption DEF RInv, Types
    <2>2. QED BY <1>2, <1>4, <1>6, <2>1 DEF RInv, Types
  <1>9. Threads'
    BY <1>2, <1>3, <1>6 DEF RInv, Threads, InCallback, Stopping
  <1>10. Table'
    BY <1>2, <1>3, <1>4, <1>6, <1>7 DEF RInv, Table
  <1>11. Phases'
    BY <1>2 DEF RInv, Phases
  <1>12. Counted'
    <2>1. Pending = 1..numCmd /\ Pending' = 1..(numCmd - 1)
      BY <1>2, <1>3, <1>5 DEF Pending
    <2>2. ASSUME NEW d \in Cmds, d # c PROVE Saved(d)' <=> Saved(d)
      <3>1. Saved(d)' <=> InTable(d)
        BY <1>2, <1>3, <2>1 DEF Saved, InTable
      <3>2. InTable(d) => Saved(d)
        BY <1>3, <1>4, <2>1 DEF Saved, InTable
      <3>3. ASSUME NEW i \in 1..numCmd, slots[i] = d PROVE InTable(d)
        <4>1. CASE i = numCmd
          BY <1>4, <2>2, <3>3, <4>1
        <4>2. CASE i # numCmd
          BY <1>3, <1>4, <3>3, <4>2 DEF InTable
        <4>3. QED BY <4>1, <4>2
      <3>4. QED BY <2>1, <3>1, <3>2, <3>3 DEF Saved
    <2>3. \A d \in Cmds : Held(d)' <=> Held(d)
      BY <1>2, <1>6, <2>2 DEF Held, TakenByCall, TakenByLoop
    <2>4. QED BY <1>2, <1>6, <2>3, CountedStays DEF RInv
  <1>13. Outstanding' = Outstanding /\ OnePerEvent' /\ Feature' = Feature /\ (Stopping' <=> Stopping)
         /\ (InCallback("rtt")' <=> InCallback("rtt")) /\ ~Sweeping'
    BY <1>2, <1>3, <1>6 DEF Outstanding, OnePerEvent, RInv, Feature, Stopping, InCallback, Sweeping
  <1>14. Owned'
    <2>1. \A x : WillUnregister(x)' <=> WillUnregister(x)
      BY <1>2 DEF WillUnregister
    <2>2. QED BY <1>2, <1>3, <1>13, <2>1 DEF RInv, Owned
  <1>15. Scripts'
    BY <1>2, <1>13 DEF RInv, Scripts
  <1>16. Apart'
    BY <1>2, <1>6, <1>13 DEF RInv, Apart
  <1>17. Ranging'
    BY <1>2, <1>3, <1>13 DEF RInv, Ranging
  <1>18. QED
    BY <1>8, <1>9, <1>10, <1>11, <1>12, <1>13, <1>14, <1>15, <1>16, <1>17 DEF RInv

\* The loop drops a reference of the command it calls: who else has the command still has it.
LEMMA LoopDrops ==
  ASSUME RInv, NEW c \in Cmds, loop.cmd = c, ReleaseRef(c),
         eventCb' = eventCb, slots' = slots, numCmd' = numCmd, created' = created, phase' = phase,
         rq' = rq, sock' = sock, cleanup' = cleanup, loop'.last \in BOOLEAN, loop'.saw \in Nat,
         \/ loop.at = "release" /\ loop'.at = "signal" /\ loop'.cmd = c
         \/ loop.at = "signal" /\ loop'.at = "poll" /\ loop'.cmd = None
  PROVE  RInv'
  <1>1. /\ refs' \in [Cmds -> Nat] /\ kind' \in [Cmds -> Kinds \cup {"none"}]
        /\ refs'[c] = refs[c] - 1 /\ \A d \in Cmds : d # c => refs'[d] = refs[d] /\ kind'[d] = kind[d]
        /\ refs[c] > 1 => kind'[c] = kind[c]
        /\ \A d \in Cmds : (refs'[d] > 0 => kind'[d] # "none") /\ (kind'[d] = kind[d] \/ kind'[d] = "none")
    <2>1. refs[c] > 0
      BY HeldIsLive DEF Live
    <2>2. QED BY <2>1, Released
  <1>2. Handlers' = Handlers /\ Outstanding' = Outstanding /\ OnePerEvent' /\ c # None /\ loop.at # "gone"
        /\ loop.at # "shrink" /\ loop'.at # "shrink" /\ loop'.at # "gone"
    BY DEF Handlers, Outstanding, OnePerEvent, RInv, Cmds, None
  <1>3. Size' = Size /\ (\A d : InTable(d)' <=> InTable(d)) /\ Taken' = Taken
    BY <1>2 DEF Size, InTable, Taken
  <1>4. \A d : (Saved(d)' <=> Saved(d)) /\ (TakenByCall(d)' <=> TakenByCall(d)) /\ (WillUnregister(d)' <=> WillUnregister(d))
               /\ ~TakenByLoop(d)' /\ (TakenByLoop(d) <=> d = c /\ loop.at = "release")
    BY DEF Saved, Pending, TakenByCall, WillUnregister, TakenByLoop
  <1>5. (Stopping' <=> Stopping) /\ (Sweeping' <=> Sweeping) /\ ~Sweeping
    BY <1>2 DEF Stopping, Sweeping, RInv, Threads
  <1>6. loop.at = "release" => ~Held(c)' /\ Held(c)
    <2>1. SUFFICES ASSUME loop.at = "release" PROVE ~Held(c)' /\ Held(c)
      OBVIOUS
    <2>2. ~TakenByCall(c) /\ Size = numCmd /\ cleanup \in {"none", "exit"} /\ rq.op # "sweep"
      BY <2>1, EndsRanging
    <2>3. ~InTable(c)
      BY <2>1 DEF RInv, Table
    <2>4. ~Saved(c)
      BY <2>2, <2>3 DEF Saved, Pending, InTable
    <2>5. QED BY <1>4, <2>1, <2>2, <2>4 DEF Held
  <1>7. \A d \in Cmds : ~(d = c /\ loop.at = "release") => (Held(d)' <=> Held(d))
    BY <1>4 DEF Held
  <1>8. \A d \in Cmds : refs[d] = Holds(Held(d)) + Holds(loop.cmd = d)
    BY DEF RInv, Counted, Held
  <1>9. \A d \in Cmds : Held(d) => kind'[d] = kind[d]
    BY <1>1, <1>8 DEF Holds
  <1>10. Counted'
    <2>1. \A d \in Cmds : d # c => refs'[d] = Holds(Held(d)') + Holds(loop'.cmd = d)
      BY <1>1, <1>7, <1>8 DEF Holds, Cmds, None
    <2>2. refs'[c] = Holds(Held(c)') + Holds(loop'.cmd = c)
      <3>1. CASE loop.at = "release"
        BY <1>1, <1>6, <1>8, <3>1 DEF Holds
      <3>2. CASE loop.at = "signal"
        <4>1. loop'.cmd # c /\ (Held(c)' <=> Held(c)) /\ refs[c] = Holds(Held(c)) + Holds(loop.cmd = c)
          BY <1>2, <1>7, <1>8, <3>2
        <4>2. QED BY <1>1, <4>1 DEF Holds
      <3>3. QED BY <3>1, <3>2
    <2>3. QED BY <2>1, <2>2 DEF Counted, Held
  <1>11. Types'
    BY <1>1 DEF RInv, Types
  <1>12. InCallback("rtt")' => InCallback("rtt") /\ loop'.cmd = loop.cmd
    BY <1>1 DEF InCallback
  <1>13. Threads'
    <2>1. loop.at = "release" => InCallback("rtt")
      BY DEF RInv, Threads
    <2>2. QED BY <1>2, <1>5 DEF RInv, Threads
  <1>14. Table'
    BY <1>2, <1>3 DEF RInv, Table
  <1>15. Phases'
    <2>1. \A d \in Cmds : d > created' => refs'[d] = 0 /\ phase'[d] = "none"
      BY <1>1, HeldIsLive DEF RInv, Phases, Live, Types
    <2>2. QED BY <1>1, <2>1 DEF RInv, Phases
  <1>16. \A h \in Handlers : h.cmd \in Cmds /\ kind'[h.cmd] = kind[h.cmd]
    BY <1>9, HandlersHeld
  <1>17. \A d \in Outstanding : d \in Cmds /\ kind'[d] = kind[d]
    BY <1>2, <1>9, HandlersHeld
  <1>18. Feature' = Feature \/ (rq.op = "start" /\ rq.at = "script" /\ rq.todo = <<>>)
    <2>1. CASE rq.cmd = None
      BY <2>1 DEF Feature
    <2>2. CASE rq.cmd # None
      <3>1. PICK d \in Cmds : d = rq.cmd
        BY <2>2 DEF RInv, Types
      <3>2. SUFFICES ASSUME ~(rq.op = "start" /\ rq.at = "script" /\ rq.todo = <<>>) PROVE kind'[d] = kind[d]
        BY <2>2, <3>1 DEF Feature
      <3>3. rq.at = "count" \/ rq.op \in {"fail", "cancel"} \/ (rq.at = "script" /\ rq.op = "start")
        BY <1>2, <1>5, <2>2 DEF RInv, Threads, Types, Sweeping
      <3>4. CASE rq.at = "script" /\ rq.op = "start"
        BY <1>2, <1>17, <3>1, <3>2, <3>4 DEF RInv, Phases, Outstanding
      <3>5. CASE rq.at = "count" \/ rq.op \in {"fail", "cancel"}
        BY <1>9, <3>1, <3>5 DEF Held, TakenByCall
      <3>6. QED BY <3>3, <3>4, <3>5
    <2>3. QED BY <2>1, <2>2
  <1>19. Owned'
    BY <1>2, <1>4, <1>5, <1>16 DEF RInv, Owned
  <1>20. Scripts'
    <2>1. rq.at = "count" => Feature' = Feature /\ rq.cmd # None
      BY <1>18 DEF RInv, Threads
    <2>2. rq.at = "count" => kind'[rq.cmd] = kind[rq.cmd]
      BY <2>1 DEF Feature
    <2>3. ASSUME rq.at = "script", rq.op = "start", rq.todo = <<>> PROVE Scripts'
      <3>1. DOMAIN rq.todo = {}
        BY <2>3
      <3>2. QED BY <2>3, <3>1 DEF Scripts, StartPart
    <2>4. ASSUME ~(rq.op = "start" /\ rq.at = "script" /\ rq.todo = <<>>) PROVE Scripts'
      <3>1. Feature' = Feature
        BY <1>18, <2>4
      <3>2. rq.at = "script" /\ rq.op = "start" => kind'[rq.cmd] = kind[rq.cmd]
        BY <3>1 DEF Feature, RInv, Threads
      <3>3. QED BY <1>2, <2>2, <3>1, <3>2 DEF RInv, Scripts
    <2>5. QED BY <2>3, <2>4
  <1>21. Apart'
    <2>1. \A d, e \in Outstanding' : d # e => EventsOf(kind'[d]) \cap EventsOf(kind'[e]) = {}
      BY <1>2, <1>17 DEF RInv, Apart
    <2>2. (Stopping \/ rq.op \in {"fail", "cancel"} \/ rq.at = "count") => Feature' = Feature
      BY <1>18 DEF Stopping, StoppedWithoutId
    <2>3. (Stopping' \/ rq'.op \in {"fail", "cancel"} \/ rq'.at = "count") =>
             \A d \in Outstanding' \ {rq'.cmd} : EventsOf(kind'[d]) \cap EventsOf(Feature') = {}
      BY <1>2, <1>5, <1>17, <2>2 DEF RInv, Apart
    <2>4. InCallback("rtt")' => \A d \in Outstanding' : kind'[d] = "rtt" => d = loop'.cmd
      BY <1>2, <1>12, <1>17 DEF RInv, Apart
    <2>5. QED BY <2>1, <2>3, <2>4 DEF Apart
  <1>22. Ranging'
    BY <1>2, <1>12 DEF RInv, Ranging
  <1>23. QED
    BY <1>2, <1>10, <1>11, <1>13, <1>14, <1>15, <1>19, <1>20, <1>21, <1>22 DEF RInv

\* RttCommand releases itself, and is still there for the signal.
LEMMA LoopReleaseKeeps ==
  ASSUME RInv, Shapes, LoopRelease
  PROVE  RInv'
  <1>1. PICK c \in Cmds : c = loop.cmd
    BY DEF LoopRelease, RInv, Threads, Types
  <1>2. /\ eventCb' = eventCb /\ slots' = slots /\ numCmd' = numCmd /\ phase' = phase
        /\ created' = created /\ rq' = rq /\ sock' = sock /\ cleanup' = cleanup
        /\ loop.at = "release" /\ loop.cmd = c /\ ReleaseRef(c)
    BY <1>1 DEF registry, device, LoopRelease
  <1>3. loop'.at = "signal" /\ loop'.cmd = c /\ loop'.last = loop.last /\ loop'.saw = loop.saw
    BY <1>1 DEF LoopRelease, Shapes
  <1>4. loop'.last \in BOOLEAN /\ loop'.saw \in Nat
    BY <1>3 DEF RInv, Types
  <1>5. QED BY <1>2, <1>3, <1>4, LoopDrops

\* The dispatcher drops its own reference.
LEMMA SignalKeeps ==
  ASSUME RInv, Shapes, Signal
  PROVE  RInv'
  <1>1. PICK c \in Cmds : c = loop.cmd
    BY DEF Signal, RInv, Threads, Types
  <1>2. /\ eventCb' = eventCb /\ slots' = slots /\ numCmd' = numCmd /\ phase' = phase
        /\ created' = created /\ rq' = rq /\ sock' = sock /\ cleanup' = cleanup
        /\ loop.at = "signal" /\ loop.cmd = c /\ ReleaseRef(c)
    BY <1>1 DEF registry, device, Signal
  <1>3. loop'.at = "poll" /\ loop'.cmd = None /\ loop'.last = FALSE /\ loop'.saw = 0
    BY Sighted DEF Signal, Poll
  <1>4. loop'.last \in BOOLEAN
    BY <1>3
  <1>5. loop'.saw \in Nat
    BY <1>3
  <1>6. QED BY <1>2, <1>3, <1>4, <1>5, LoopDrops

-----------------------------------------------------------------------------
(* The driver, and every step of every actor. *)

\* The loop answers, or fails to, and leaves: the requester waits for the answer.
LEMMA LoopExitKeeps ==
  ASSUME RInv, Shapes, LoopExit \/ DoneFails
  PROVE  RInv'
  <1>1. /\ eventCb' = eventCb /\ slots' = slots /\ numCmd' = numCmd /\ refs' = refs /\ kind' = kind /\ phase' = phase
        /\ created' = created /\ rq' = rq /\ sock' = sock /\ cleanup' \in {"done", "mute"} /\ cleanup = "exit"
        /\ loop.at = "poll" /\ Handlers' = Handlers /\ Outstanding' = Outstanding
    BY Sighted DEF registry, objects, device, LoopExit, DoneFails, Blind, Handlers, Outstanding
  <1>2. loop'.at = "gone" /\ loop'.cmd = None /\ loop'.last = FALSE /\ loop'.saw = 0 /\ loop.cmd = None
    BY <1>1 DEF LoopExit, DoneFails, Poll, RInv, Threads
  <1>3. rq.at = "wait" /\ rq.op = "cleanup" /\ ~Sweeping /\ ~Stopping
    BY <1>1 DEF RInv, Threads, Types, Sweeping, Stopping, StoppedWithoutId
  <1>4. Types'
    <2>1. loop'.last \in BOOLEAN
      BY <1>2
    <2>2. loop'.at = "gone" /\ loop'.cmd \in Cmds \cup {None} /\ loop'.saw \in Nat
      BY <1>2
    <2>3. QED BY <1>1, <2>1, <2>2 DEF RInv, Types
  <1>5. Threads'
    BY <1>1, <1>2, <1>3 DEF RInv, Threads, InCallback, Stopping
  <1>6. Size' = Size /\ Taken' = Taken /\ \A d : InTable(d)' <=> InTable(d)
    BY <1>1, <1>2 DEF Size, InTable, Taken
  <1>7. Table'
    BY <1>1, <1>2, <1>6 DEF RInv, Table
  <1>8. Phases'
    BY <1>1 DEF RInv, Phases
  <1>9. \A d : (Saved(d)' <=> Saved(d)) /\ (TakenByCall(d)' <=> TakenByCall(d)) /\ (TakenByLoop(d)' <=> TakenByLoop(d))
    BY <1>1, <1>2 DEF Saved, Pending, TakenByCall, TakenByLoop
  <1>10. Counted'
    BY <1>1, <1>2, <1>9, CountedStays DEF RInv, Held
  <1>11. Owned'
    <2>1. ~Sweeping' /\ ~Stopping'
      BY <1>1, <1>3 DEF Sweeping, Stopping, RInv, Threads
    <2>2. QED BY <1>1, <1>3, <2>1 DEF RInv, Owned
  <1>12. OnePerEvent'
    BY <1>1 DEF RInv, OnePerEvent
  <1>13. Scripts' /\ Ranging'
    BY <1>1, <1>2, <1>3 DEF Scripts, Ranging
  <1>14. Apart'
    <2>1. ~InCallback("rtt")' /\ ~Stopping'
      BY <1>1, <1>2, <1>3 DEF InCallback, Stopping
    <2>2. QED BY <1>1, <1>3, <2>1 DEF RInv, Apart
  <1>15. QED
    BY <1>4, <1>5, <1>7, <1>8, <1>10, <1>11, <1>12, <1>13, <1>14 DEF RInv

\* What no thread's step is about.
LEMMA OtherwiseStays ==
  ASSUME RInv, eventCb' = eventCb, slots' = slots, numCmd' = numCmd, refs' = refs, kind' = kind, phase' = phase,
         created' = created, rq' = rq, cleanup' = cleanup, loop' = loop,
         sock' \in Seq([event : Events, last : BOOLEAN]),
         \A i \in DOMAIN sock' : sock'[i].last => sock'[i].event = "rtt"
  PROVE  RInv'
  <1>1. Handlers' = Handlers /\ Outstanding' = Outstanding /\ Feature' = Feature /\ Size' = Size /\ Taken' = Taken
    BY DEF Handlers, Outstanding, Feature, Size, Taken
  <1>2. \A d : (Saved(d)' <=> Saved(d)) /\ (TakenByCall(d)' <=> TakenByCall(d)) /\ (TakenByLoop(d)' <=> TakenByLoop(d))
               /\ (InTable(d)' <=> InTable(d)) /\ (WillUnregister(d)' <=> WillUnregister(d))
    BY <1>1 DEF Saved, Pending, TakenByCall, TakenByLoop, InTable, WillUnregister
  <1>3. (Stopping' <=> Stopping) /\ (Sweeping' <=> Sweeping) /\ (InCallback("rtt")' <=> InCallback("rtt"))
    BY DEF Stopping, Sweeping, InCallback
  <1>4. Types'
    BY DEF RInv, Types
  <1>5. Threads'
    BY <1>3 DEF RInv, Threads
  <1>6. Table'
    BY <1>1, <1>2 DEF RInv, Table
  <1>7. Phases' /\ OnePerEvent'
    BY DEF RInv, Phases, OnePerEvent
  <1>8. Counted'
    BY <1>2, CountedStays DEF RInv, Held
  <1>9. Owned'
    BY <1>1, <1>2, <1>3 DEF RInv, Owned
  <1>10. Scripts' /\ Ranging'
    BY <1>1, <1>3 DEF RInv, Scripts, Ranging
  <1>11. Apart'
    BY <1>1, <1>3 DEF RInv, Apart
  <1>12. QED
    BY <1>4, <1>5, <1>6, <1>7, <1>8, <1>9, <1>10, <1>11 DEF RInv

\* The driver sends an event of a command; only ranging has last results.
LEMMA DriverEventKeeps ==
  ASSUME RInv, NEW k \in Kinds, DriverEvent(k)
  PROVE  RInv'
  <1> DEFINE M == [event : Events, last : BOOLEAN]
  <1>1. PICK e \in EventsOf(k), last \in IF k = "rtt" THEN BOOLEAN ELSE {FALSE} :
           sock' = Append(sock, [event |-> e, last |-> last])
    BY DEF DriverEvent
  <1>2. [event |-> e, last |-> last] \in M /\ (last => e = "rtt")
    <2>1. e \in Events
      BY AllFit DEF Fits
    <2>2. last \in BOOLEAN
      OBVIOUS
    <2>3. last => e = "rtt"
      <3>1. CASE k = "rtt"
        BY <3>1, RttEvents
      <3>2. CASE k # "rtt"
        BY <3>2
      <3>3. QED BY <3>1, <3>2
    <2>4. QED BY <2>1, <2>2, <2>3
  <1>3. PICK m \in M : m = [event |-> e, last |-> last]
    BY <1>2
  <1>4. m.last => m.event = "rtt"
    BY <1>2, <1>3
  <1>5. sock \in Seq(M) /\ \A i \in DOMAIN sock : sock[i].last => sock[i].event = "rtt"
    BY DEF RInv, Types, Threads
  <1>6. sock' = Append(sock, m)
    BY <1>1, <1>3
  <1>7. /\ eventCb' = eventCb /\ slots' = slots /\ numCmd' = numCmd /\ refs' = refs /\ kind' = kind /\ phase' = phase
        /\ created' = created /\ rq' = rq /\ cleanup' = cleanup /\ loop' = loop
    BY DEF DriverEvent, registry, objects
  <1>8. sock' \in Seq(M) /\ \A i \in DOMAIN sock' : sock'[i].last => sock'[i].event = "rtt"
    <2> HIDE DEF M
    <2>1. /\ sock' \in Seq(M) /\ DOMAIN sock = 1..Len(sock) /\ DOMAIN sock' = 1..(Len(sock) + 1)
          /\ Len(sock) \in Nat /\ sock'[Len(sock) + 1] = m /\ \A i \in 1..Len(sock) : sock'[i] = sock[i]
      BY <1>5, <1>6
    <2>2. QED BY <1>4, <1>5, <2>1
  <1>9. QED BY <1>8, <1>7, OtherwiseStays

\* Both ends of an AskDriver.
LEMMA AskDriverKeeps ==
  ASSUME RInv, Shapes, AskDriver(Feature)
  PROVE  RInv'
  <1>1. /\ rq.at = "script" /\ rq.todo # <<>> /\ Step.do # "register" /\ Step.do # "unregister"
        /\ UNCHANGED <<registry, objects, phase, loop, sock, sent, cleanup>>
        /\ \/ Done
           \/ /\ rq.op = "start"
              /\ rq' = [rq EXCEPT !.op = "fail", !.todo = [i \in DOMAIN Step.undo |-> Unregister(Step.undo[i])]]
    BY DEF AskDriver
  <1>2. QED BY <1>1, AnsweredKeeps, RefusedKeeps

\* wifi_initialize.
LEMMA InitRegistry == Init => RInv /\ Completed
  <1> SUFFICES ASSUME Init PROVE RInv /\ Completed
    OBVIOUS
  <1>1. /\ eventCb = <<>> /\ slots = [i \in 1..CmdSlots |-> None] /\ numCmd = 0
        /\ refs = [c \in Cmds |-> 0] /\ kind = [c \in Cmds |-> "none"]
        /\ phase = [c \in Cmds |-> "none"] /\ created = 0 /\ sock = <<>> /\ cleanup = "none"
    BY DEF Init
  <1>2. rq.op = "none" /\ rq.at = "idle" /\ rq.cmd = None /\ rq.saw = 0 /\ rq.todo = <<>>
        /\ loop.at = "poll" /\ loop.cmd = None /\ loop.last = FALSE /\ loop.saw = 0
    BY DEF Init, Idle, Poll
  <1>3. CmdSlots \in Nat /\ MaxCmds \in Nat /\ Handlers = {} /\ DOMAIN eventCb = {} /\ DOMAIN sock = {}
    BY <1>1, RegistryAssumption DEF Handlers, ToSet
  <1>4. Types
    <2>1. eventCb \in Seq([event : Events, cmd : Cmds]) /\ sock \in Seq([event : Events, last : BOOLEAN]) /\ rq.todo \in Seq(Steps)
      BY <1>1, <1>2
    <2>2. loop.last \in BOOLEAN
      BY <1>2
    <2>3. slots \in [1..CmdSlots -> Cmds \cup {None}] /\ refs \in [Cmds -> Nat] /\ kind \in [Cmds -> Kinds \cup {"none"}]
          /\ phase \in [Cmds -> {"none", "starting", "running", "stopped", "ended"}]
      BY <1>1
    <2>4. numCmd \in 0..CmdSlots /\ created \in 0..MaxCmds /\ rq.cmd \in Cmds \cup {None} /\ rq.saw \in Nat
          /\ loop.cmd \in Cmds \cup {None} /\ loop.saw \in Nat
      BY <1>1, <1>2, <1>3
    <2>5. QED BY <1>2, <2>1, <2>2, <2>3, <2>4 DEF Types
  <1>5. ~Stopping /\ Outstanding = {} /\ ~InCallback("rtt") /\ Size = 0
    BY <1>1, <1>2 DEF Stopping, StoppedWithoutId, Outstanding, InCallback, Size
  <1>6. Threads
    BY <1>1, <1>2, <1>3, <1>5 DEF Threads
  <1>7. Table
    <2>1. \A c \in Cmds : phase[c] = "none"
      BY <1>1
    <2>2. QED BY <1>2, <1>3, <1>5, <2>1 DEF Table
  <1>8. Phases
    BY <1>1, <1>2 DEF Phases
  <1>9. Counted
    <2>1. \A c \in Cmds : ~Saved(c) /\ ~TakenByCall(c) /\ ~TakenByLoop(c) /\ loop.cmd # c
      BY <1>1, <1>2 DEF Saved, Pending, TakenByCall, TakenByLoop, Cmds, None
    <2>2. QED BY <1>1, <2>1 DEF Counted, Holds
  <1>10. Owned /\ OnePerEvent /\ Scripts /\ Apart /\ Ranging
    BY <1>2, <1>3, <1>5 DEF Owned, OnePerEvent, Scripts, Apart, Ranging
  <1>11. QED
    BY <1>2, <1>4, <1>6, <1>7, <1>8, <1>9, <1>10 DEF RInv, Completed

\* A step of the call that runs.
LEMMA RequesterKeeps ==
  ASSUME RInv, Shapes, Requester
  PROVE  RInv'
  <1>1. ASSUME ChangeHandlers PROVE RInv'
    <2>1. Step.do = "register" \/ Step.do = "unregister"
      BY <1>1 DEF ChangeHandlers
    <2>2. QED BY <1>1, <2>1, RegisterKeeps, UnregisterKeeps
  <1>2. QED
    BY <1>1, CountCmdKeeps, AskDriverKeeps, StartedKeeps, FailedKeeps, ShiftKeeps, ShrinkKeeps, ReleaseKeeps,
       StoppedKeeps, ReadDoneKeeps, SweepKeeps, FreeInfoKeeps DEF Requester

\* A call begins.
LEMMA FrameworkKeeps ==
  ASSUME RInv, Shapes, ~Sharing, ~Overlap, Framework
  PROVE  RInv'
  BY StartKeeps, StopAnyKeeps, CancelKeeps, CleanupKeeps DEF Framework

\* A step of the event loop.
LEMMA EventLoopKeeps ==
  ASSUME RInv, Completed, Shapes, EventLoop
  PROVE  RInv'
  BY DispatchKeeps, HandleEventKeeps, HandleResultsKeeps, LoopShiftKeeps, LoopShrinkKeeps, LoopReleaseKeeps,
     SignalKeeps, LoopExitKeeps DEF EventLoop

\* What has ended is never started again.
LEMMA CompletedKeeps ==
  ASSUME RInv, Completed, Shapes, [Next]_vars
  PROVE  Completed'
  <1>1. ASSUME loop.at \in {"shift", "shrink", "release"}, phase' = phase, loop' = loop PROVE Completed'
    BY <1>1 DEF Completed
  <1>2. ASSUME phase' = phase, loop' = loop PROVE Completed'
    BY <1>2 DEF Completed
  <1>3. CASE Requester
    <2>1. CASE CountCmd
      <3>1. loop.at \notin {"shift", "shrink", "release"} /\ loop' = loop
        BY <2>1, Alone DEF CountCmd
      <3>2. QED BY <3>1 DEF Completed
    <2>2. CASE Started
      <3>1. loop' = loop /\ (phase' = phase \/ (phase[rq.cmd] = "starting" /\ phase' = [phase EXCEPT ![rq.cmd] = "running"]))
        BY <2>2 DEF Started
      <3>2. ASSUME loop.at \in {"shift", "shrink", "release"} PROVE phase'[loop.cmd] = "ended"
        <4>1. phase[loop.cmd] = "ended" /\ phase \in [Cmds -> {"none", "starting", "running", "stopped", "ended"}]
          BY <3>2 DEF Completed, RInv, Types
        <4>2. loop.cmd \in Cmds
          BY <3>2 DEF RInv, Types, Threads
        <4>3. QED BY <3>1, <4>1, <4>2
      <3>3. QED BY <3>1, <3>2 DEF Completed
    <2>3. CASE Failed \/ Sweep
      <3>1. loop.at \notin {"shift", "shrink", "release"} /\ loop' = loop
        BY <2>3, Alone DEF Failed, Sweep
      <3>2. QED BY <3>1 DEF Completed
    <2>4. QED
      BY <1>2, <1>3, <2>1, <2>2, <2>3, Sighted DEF Requester, ChangeHandlers, AskDriver, Shift, Shrink, Release, Stopped, ReadDone, FreeInfo
  <1>4. CASE Framework
    <2>1. ASSUME NEW k \in Kinds, StopAny(k) PROVE Completed'
      <3>1. loop' = loop /\ phase' = [c \in Cmds |-> IF c \in Outstanding /\ kind[c] = k THEN "stopped" ELSE phase[c]]
        BY <2>1 DEF StopAny
      <3>2. ASSUME loop.at \in {"shift", "shrink", "release"} PROVE phase'[loop.cmd] = "ended"
        <4>1. PICK c \in Cmds : c = loop.cmd
          BY <3>2 DEF RInv, Threads, Types
        <4>2. phase[c] = "ended"
          BY <3>2, <4>1 DEF Completed
        <4>3. c \notin Outstanding
          BY <4>2 DEF Outstanding
        <4>4. QED BY <3>1, <4>1, <4>2, <4>3
      <3>3. QED BY <3>1, <3>2 DEF Completed
    <2>2. ASSUME NEW d \in Cmds, Cancel(d) PROVE Completed'
      <3>1. loop' = loop /\ phase' = [phase EXCEPT ![d] = "ended"] /\ phase \in [Cmds -> {"none", "starting", "running", "stopped", "ended"}]
        BY <2>2 DEF Cancel, RInv, Types
      <3>2. ASSUME loop.at \in {"shift", "shrink", "release"} PROVE phase'[loop.cmd] = "ended"
        <4>1. PICK c \in Cmds : c = loop.cmd
          BY <3>2 DEF RInv, Threads, Types
        <4>2. phase[c] = "ended"
          BY <3>2, <4>1 DEF Completed
        <4>3. QED BY <3>1, <4>1, <4>2
      <3>3. QED BY <3>1, <3>2 DEF Completed
    <2>3. QED BY <1>2, <1>4, <2>1, <2>2 DEF Framework, Start, Cleanup
  <1>5. CASE EventLoop
    <2>1. CASE HandleResults
      <3>1. PICK c \in Cmds : c = loop.cmd
        BY <2>1 DEF HandleResults, RInv, Threads, Types
      <3>2. phase'[c] = "ended" /\ loop'.cmd = c
        BY <2>1, <3>1 DEF HandleResults, Shapes, RInv, Types
      <3>3. QED BY <3>2 DEF Completed
    <2>2. CASE Dispatch \/ HandleEvent \/ LoopRelease \/ Signal \/ LoopExit
      <3>1. (loop' = loop /\ phase' = phase) \/ loop'.at \in {"call", "signal", "poll", "gone"}
        <4>1. CASE Dispatch
          <5>1. phase' = phase /\ (loop' = Poll \/ \E c, l : loop' = [Poll EXCEPT !.at = "call", !.cmd = c, !.last = l])
            BY <4>1, Sighted DEF Dispatch
          <5>2. CASE loop' = Poll
            BY <5>2 DEF Poll
          <5>3. CASE \E c, l : loop' = [Poll EXCEPT !.at = "call", !.cmd = c, !.last = l]
            <6>1. PICK c, l : loop' = [Poll EXCEPT !.at = "call", !.cmd = c, !.last = l]
              BY <5>3
            <6>2. loop'.at = "call"
              BY <6>1 DEF Poll
            <6>3. QED BY <6>2
          <5>4. QED BY <5>1, <5>2, <5>3
        <4>2. CASE HandleEvent \/ LoopRelease
          BY <4>2 DEF HandleEvent, LoopRelease, Shapes
        <4>3. CASE Signal \/ LoopExit
          BY <4>3, Sighted DEF Signal, LoopExit, Poll
        <4>4. QED BY <2>2, <4>1, <4>2, <4>3
      <3>2. QED BY <1>2, <3>1 DEF Completed
    <2>3. CASE LoopShift \/ LoopShrink
      <3>1. phase' = phase /\ loop'.cmd = loop.cmd /\ loop.at \in {"shift", "shrink"}
        BY <2>3 DEF LoopShift, LoopShrink, Shapes
      <3>2. QED BY <3>1 DEF Completed
    <2>4. QED BY <1>5, <2>1, <2>2, <2>3 DEF EventLoop
  <1>6. CASE \E k \in Kinds : DriverEvent(k)
    BY <1>2, <1>6 DEF DriverEvent
  <1>7. CASE UNCHANGED vars
    BY <1>2, <1>7 DEF vars
  <1>8. CASE SocketFails
    <2>1. (loop' = loop /\ phase' = phase) \/ loop'.at = "gone"
      BY <1>8 DEF SocketFails, WriteFails, ReadFails, DoneFails, Poll
    <2>2. QED BY <1>2, <2>1 DEF Completed
  <1>9. QED BY <1>3, <1>4, <1>5, <1>6, <1>7, <1>8 DEF Next

\* Every step of every actor keeps the registry as it should be, or fails wifi_cleanup.
LEMMA RegistryStep ==
  ASSUME ~Sharing, ~Overlap, Shapes, RInv, Completed, [Next]_vars
  PROVE  (RInv' /\ Completed') \/ Blind'
  <1>1. WriteFails \/ ReadFails => Blind'
    BY DEF WriteFails, ReadFails, Blind
  <1>2. Completed'
    BY CompletedKeeps
  <1>3. CASE UNCHANGED vars
    <2>1. /\ eventCb' = eventCb /\ slots' = slots /\ numCmd' = numCmd /\ refs' = refs /\ kind' = kind /\ phase' = phase
          /\ created' = created /\ rq' = rq /\ cleanup' = cleanup /\ loop' = loop /\ sock' = sock
      BY <1>3 DEF vars, registry, objects, device
    <2>2. sock' \in Seq([event : Events, last : BOOLEAN]) /\ \A i \in DOMAIN sock' : sock'[i].last => sock'[i].event = "rtt"
      BY <2>1 DEF RInv, Types, Threads
    <2>3. RInv'
      BY <2>1, <2>2, OtherwiseStays
    <2>4. QED BY <1>2, <2>3
  <1>4. CASE SocketFails
    BY <1>1, <1>2, <1>4, LoopExitKeeps DEF SocketFails
  <1>5. QED
    BY <1>2, <1>3, <1>4, RequesterKeeps, FrameworkKeeps, EventLoopKeeps, DriverEventKeeps DEF Next

\* The inductive invariant of the registry, until a socket fails wifi_cleanup.
Sound == RInv /\ Completed

\* It holds in every state.
LEMMA RegistryInvariance == ~Sharing /\ ~Overlap => (Spec => [](Shapes /\ (Blind \/ Sound)))
  <1> SUFFICES ASSUME ~Sharing, ~Overlap PROVE Spec => [](Shapes /\ (Blind \/ Sound))
    OBVIOUS
  <1>1. Init => Shapes /\ Sound
    BY InitEstablishes, InitRegistry DEF Sound
  <1>2. Shapes /\ Sound /\ [Next]_vars => Sound' \/ Blind'
    BY RegistryStep DEF Sound
  <1>3. QED BY <1>1, <1>2, BlindStays, StepPreserves, PTL DEF Spec

\* A command has exactly the references of those who have it.
THEOREM ReferencesAreCounted == ~Sharing /\ ~Overlap => (Spec => []ReferencesCounted)
  <1>1. Blind \/ RInv => ReferencesCounted
    BY DEF RInv, Counted, ReferencesCounted
  <1>2. Blind \/ Sound => ReferencesCounted
    BY <1>1 DEF Sound
  <1>3. QED BY <1>2, RegistryInvariance, PTL

\* No thread has a command that was deleted.
THEOREM NothingIsUsedAfterFree == ~Sharing /\ ~Overlap => (Spec => []NoUseAfterFree)
  <1>1. RInv => NoUseAfterFree
    <2> SUFFICES ASSUME RInv PROVE NoUseAfterFree
      OBVIOUS
    <2>1. ASSUME NEW i \in DOMAIN eventCb PROVE Live(eventCb[i].cmd)
      <3>1. eventCb[i] \in Handlers
        BY DEF Handlers, ToSet
      <3>2. QED BY <3>1, HandlersHeld, HeldIsLive
    <2>2. ASSUME NEW i \in Pending PROVE slots[i] # None /\ Live(slots[i])
      <3>1. numCmd \in 0..CmdSlots /\ CmdSlots \in Nat /\ rq.saw \in Nat /\ slots \in [1..CmdSlots -> Cmds \cup {None}]
        BY RegistryAssumption DEF RInv, Types
      <3>2. i \in 1..numCmd
        BY <3>1 DEF Pending
      <3>3. slots[i] # None
        <4>1. CASE i \in 1..Size
          BY <4>1 DEF RInv, Table
        <4>2. CASE i \notin 1..Size
          BY <3>1, <3>2, <4>2 DEF RInv, Table, Size
        <4>3. QED BY <4>1, <4>2
      <3>4. PICK c \in Cmds : c = slots[i]
        BY <3>1, <3>2, <3>3
      <3>5. Held(c)
        BY <3>4 DEF Held, Saved
      <3>6. QED BY <3>3, <3>4, <3>5, HeldIsLive
    <2>3. ASSUME loop.cmd # None PROVE Live(loop.cmd)
      <3>1. PICK c \in Cmds : c = loop.cmd
        BY <2>3 DEF RInv, Types
      <3>2. QED BY <3>1, HeldIsLive
    <2>4. ASSUME rq.at \in {"shift", "shrink", "release"} PROVE Live(rq.cmd)
      <3>1. PICK c \in Cmds : c = rq.cmd
        BY <2>4 DEF RInv, Types, Threads
      <3>2. Held(c)
        BY <2>4, <3>1 DEF Held, TakenByCall, RInv, Threads
      <3>3. QED BY <3>1, <3>2, HeldIsLive
    <2>5. QED BY <2>1, <2>2, <2>3, <2>4 DEF NoUseAfterFree
  <1>2. Blind \/ Sound => NoUseAfterFree
    BY <1>1 DEF Sound, NoUseAfterFree
  <1>3. QED BY <1>2, RegistryInvariance, PTL

-----------------------------------------------------------------------------
(* The commands that run are heard. *)

\* The events of the commands that the framework uses.
Used == UNION {EventsOf(k) : k \in Kinds}

\* A function on a finite set has finitely many values.
LEMMA ImageIsFinite ==
  ASSUME NEW S, IsFiniteSet(S), NEW f, DOMAIN f = S, f = [x \in S |-> f[x]]
  PROVE  IsFiniteSet({f[x] : x \in S})
  <1> DEFINE T == {f[x] : x \in S}
  <1>1. f \in [S -> T] /\ \A t \in T : \E x \in S : f[x] = t
    OBVIOUS
  <1>2. f \in Surjection(S, T)
    BY <1>1 DEF Surjection
  <1>3. QED BY <1>2, FS_Surjection

\* They are finitely many.
LEMMA UsedIsFinite == IsFiniteSet(Used)
  <1>1. ASSUME NEW k \in Kinds PROVE IsFiniteSet(EventsOf(k))
    <2> DEFINE s == Command[k].start
               f == [i \in DOMAIN s |-> s[i].event]
    <2>1. s \in Seq(Steps)
      BY AllFit DEF Fits
    <2>2. EventsOf(k) \subseteq {f[i] : i \in DOMAIN s}
      BY DEF EventsOf, ToSet
    <2> HIDE DEF s
    <2>3. IsFiniteSet(DOMAIN s)
      <3>1. DOMAIN s = 1..Len(s) /\ Len(s) \in Nat
        BY <2>1
      <3>2. QED BY <3>1, FS_Interval
    <2>4. IsFiniteSet({f[i] : i \in DOMAIN s})
      <3>1. DOMAIN f = DOMAIN s /\ f = [i \in DOMAIN s |-> f[i]]
        OBVIOUS
      <3> HIDE DEF f
      <3>2. QED BY <2>3, <3>1, ImageIsFinite
    <2>5. QED BY <2>2, <2>4, FS_Subset
  <1>2. IsFiniteSet(Kinds)
    <2>1. DOMAIN Command = {"scan", "fullScan", "hotlist", "epno", "change", "anqpo", "rssi", "rtt"}
      BY DEF Command
    <2> DEFINE f == <<"scan", "fullScan", "hotlist", "epno", "change", "anqpo", "rssi", "rtt">>
    <2>2. DOMAIN f = 1..8 /\ f = [i \in 1..8 |-> f[i]]
      OBVIOUS
    <2>3. f[1] = "scan" /\ f[2] = "fullScan" /\ f[3] = "hotlist" /\ f[4] = "epno"
          /\ f[5] = "change" /\ f[6] = "anqpo" /\ f[7] = "rssi" /\ f[8] = "rtt"
      OBVIOUS
    <2> HIDE DEF f
    <2>4. 1 \in 1..8 /\ 2 \in 1..8 /\ 3 \in 1..8 /\ 4 \in 1..8 /\ 5 \in 1..8 /\ 6 \in 1..8 /\ 7 \in 1..8 /\ 8 \in 1..8
      OBVIOUS
    <2>5. ASSUME NEW k \in DOMAIN Command PROVE \E i \in 1..8 : f[i] = k
      BY <2>1, <2>3, <2>4
    <2>6. DOMAIN Command \subseteq {f[i] : i \in 1..8}
      BY <2>5
    <2>7. IsFiniteSet(1..8)
      <3>1. 1 \in Int /\ 8 \in Int
        OBVIOUS
      <3>2. QED BY <3>1, FS_Interval, Zenon
    <2>8. IsFiniteSet({f[i] : i \in 1..8})
      BY <2>2, <2>7, ImageIsFinite
    <2>9. QED BY <2>6, <2>8, KindsAssumption, FS_Subset
  <1>3. IsFiniteSet({EventsOf(k) : k \in Kinds})
    <2> DEFINE f == [k \in Kinds |-> EventsOf(k)]
    <2>1. DOMAIN f = Kinds /\ f = [k \in Kinds |-> f[k]] /\ {EventsOf(k) : k \in Kinds} = {f[k] : k \in Kinds}
      OBVIOUS
    <2> HIDE DEF f
    <2>2. QED BY <1>2, <2>1, ImageIsFinite
  <1>4. QED BY <1>1, <1>3, FS_UNION DEF Used

\* While an event of a command has no handler, the table has room for one.
LEMMA RoomForOne ==
  ASSUME RInv, Cardinality(Used) <= CbSlots, NEW e \in Used, \A h \in Handlers : h.event # e
  PROVE  Len(eventCb) < CbSlots
  <1> DEFINE n == Len(eventCb)
             f == [i \in 1..n |-> eventCb[i].event]
  <1>1. n \in Nat /\ DOMAIN eventCb = 1..n
    BY DEF RInv, Types
  <1>2. \A i \in 1..n : eventCb[i] \in Handlers
    BY <1>1 DEF Handlers, ToSet
  <1>3. \A i \in 1..n : eventCb[i].event \in Used \ {e}
    <2>1. SUFFICES ASSUME NEW i \in 1..n PROVE eventCb[i].event \in Used \ {e}
      OBVIOUS
    <2>2. PICK h \in Handlers : h = eventCb[i]
      BY <1>2
    <2>3. h.cmd \in Cmds /\ kind[h.cmd] \in Kinds
      BY HandlersHeld, HeldIsLive
    <2>4. h.event \in EventsOf(kind[h.cmd])
      BY DEF RInv, Owned
    <2>5. QED BY <2>2, <2>3, <2>4 DEF Used
  <1>4. f \in Injection(1..n, Used \ {e})
    <2>1. f \in [1..n -> Used \ {e}]
      BY <1>3
    <2>2. \A i, j \in 1..n : f[i] = f[j] => i = j
      BY <1>1 DEF RInv, OnePerEvent
    <2>3. QED BY <2>1, <2>2 DEF Injection, IsInjective
  <1>5. IsFiniteSet(Used) /\ IsFiniteSet(Used \ {e}) /\ Cardinality(Used \ {e}) = Cardinality(Used) - 1
        /\ Cardinality(Used) \in Nat
    BY UsedIsFinite, FS_RemoveElement, FS_CardinalityType
  <1> HIDE DEF f, n
  <1>6. Cardinality(1..n) = n
    <2>1. 1 \in Int /\ n \in Int
      BY <1>1
    <2>2. Cardinality(1..n) = IF 1 > n THEN 0 ELSE n - 1 + 1
      BY <2>1, FS_Interval, Zenon
    <2>3. QED BY <1>1, <2>2
  <1>7. Cardinality(1..n) <= Cardinality(Used \ {e})
    BY <1>4, <1>5, FS_Injection DEF ExistsInjection
  <1>8. QED BY <1>1, <1>5, <1>6, <1>7, RegistryAssumption DEF n

\* What a step must leave to the commands that are started.
LEMMA HeardStays ==
  ASSUME Heard,
         \A c \in Cmds : phase'[c] = "running" /\ loop'.at # "gone" =>
           /\ phase[c] = "running" /\ loop.at # "gone" /\ kind'[c] = kind[c]
           /\ \A h \in Handlers : h.cmd = c => h \in Handlers',
         \A c \in Cmds : phase'[c] = "starting" /\ rq'.op = "start" =>
           /\ phase[c] = "starting" /\ rq.op = "start" /\ kind'[c] = kind[c]
           /\ \A h \in Handlers : h.cmd = c => h \in Handlers'
           /\ \A e \in EventsOf(kind[c]) : WillRegister(e) => WillRegister(e)' \/ Hears(c, e)'
  PROVE  Heard'
  <1>1. ASSUME NEW c \in Cmds, NEW e, Hears(c, e), \A h \in Handlers : h.cmd = c => h \in Handlers' PROVE Hears(c, e)'
    BY <1>1 DEF Hears
  <1>2. ASSUME NEW c \in Cmds, phase'[c] = "running", loop'.at # "gone", NEW e \in EventsOf(kind'[c]) PROVE Hears(c, e)'
    BY <1>1, <1>2 DEF Heard
  <1>3. ASSUME NEW c \in Cmds, phase'[c] = "starting", rq'.op = "start", NEW e \in EventsOf(kind'[c])
        PROVE  Hears(c, e)' \/ WillRegister(e)'
    BY <1>1, <1>3 DEF Heard
  <1>4. QED BY <1>2, <1>3 DEF Heard

\* A step of the requester.
LEMMA RequesterHeard ==
  ASSUME RInv, Heard, Shapes, Cardinality(Used) <= CbSlots, Requester
  PROVE  Heard'
  <1>1. phase \in [Cmds -> {"none", "starting", "running", "stopped", "ended"}]
        /\ \A d \in Cmds : phase[d] = "starting" => rq.cmd = d /\ rq.at = "script" /\ rq.op \in {"start", "fail"}
    BY DEF RInv, Types, Phases
  <1>2. CASE CountCmd
    <2>1. PICK c \in Cmds : c = rq.cmd
      BY <1>2 DEF CountCmd, RInv, Threads, Types
    <2>2. Fits(kind[c])
      BY <1>2, <2>1, HeldIsLive, AllFit DEF CountCmd, Held, TakenByCall
    <2>3. /\ Handlers' = Handlers /\ kind' = kind /\ loop' = loop /\ phase' = [phase EXCEPT ![c] = "starting"]
          /\ rq'.todo = Command[kind[c]].start /\ rq.at = "count"
      BY <1>2, <2>1 DEF CountCmd, Handlers, objects, Shapes
    <2>4. ASSUME NEW e \in EventsOf(kind[c]) PROVE WillRegister(e)'
      <3>1. PICK i \in DOMAIN Command[kind[c]].start : Command[kind[c]].start[i] = Register(e)
        BY <2>2 DEF Fits
      <3>2. i \in DOMAIN rq'.todo /\ rq'.todo[i].do = "register" /\ rq'.todo[i].event = e
        BY <2>3, <3>1 DEF Register
      <3>3. QED BY <3>2 DEF WillRegister
    <2>5. \A d \in Cmds : phase'[d] = "starting" => d = c
      BY <1>1, <2>3
    <2>6. \A d \in Cmds : phase'[d] = "running" => phase[d] = "running"
      BY <1>1, <2>3
    <2>7. \A d \in Cmds : \A e : Hears(d, e) => Hears(d, e)'
      BY <2>3 DEF Hears
    <2>8. QED BY <2>3, <2>4, <2>5, <2>6, <2>7 DEF Heard
  <1>3. CASE ChangeHandlers
    <2>1. /\ kind' = kind /\ loop' = loop /\ phase' = phase /\ Done /\ rq.at = "script" /\ rq.todo # <<>>
      BY <1>3 DEF ChangeHandlers, objects
    <2>2. /\ rq'.op = rq.op /\ Step = rq.todo[1] /\ 1 \in DOMAIN rq.todo /\ rq.todo \in Seq(Steps)
          /\ \A i \in DOMAIN rq.todo : i = 1 \/ (i - 1 \in DOMAIN rq'.todo /\ rq'.todo[i - 1] = rq.todo[i])
      BY <2>1, Advance DEF RInv, Types
    <2>3. CASE Step.do = "register"
      <3>1. RegisterHandler(Step.event, rq.cmd)
        BY <1>3, <2>3 DEF ChangeHandlers
      <3>2. rq.op = "start"
        BY <2>1, <2>2, <2>3 DEF RInv, Scripts, StopPart
      <3>3. PICK c \in Cmds : c = rq.cmd
        BY <3>2 DEF RInv, Threads, Types
      <3>4. StartPart(rq.todo, kind[c]) /\ Step.event \in EventsOf(kind[c]) /\ (\A h \in Handlers : h.event # Step.event)
        BY <2>1, <2>2, <2>3, <3>2, <3>3 DEF RInv, Scripts, StartPart
      <3>5. phase[c] = "starting"
        BY <2>1, <3>2, <3>3 DEF RInv, Phases
      <3>6. c \in Outstanding /\ loop.at # "gone"
        BY <3>2, <3>5, Alone DEF Outstanding
      <3>7. Held(c) /\ kind[c] \in Kinds
        BY <3>6, HandlersHeld, HeldIsLive
      <3>8. PICK e \in Events : e = Step.event
        BY <3>4, <3>7, AllFit DEF Fits
      <3>9. e \in Used
        BY <3>4, <3>7, <3>8 DEF Used
      <3>10. Len(eventCb) < CbSlots
        BY <3>4, <3>8, <3>9, RoomForOne
      <3>11. Handlers' = Handlers \cup {[event |-> e, cmd |-> c]}
        <4>1. RegisterHandler(e, c) /\ Types /\ OnePerEvent /\ \A h \in Handlers : h.event # e
          BY <3>1, <3>3, <3>4, <3>8 DEF RInv
        <4>2. QED BY <3>10, <4>1, RegisterIs
      <3>12. \A x : WillRegister(x) => WillRegister(x)' \/ x = e
        BY <2>2, <3>8 DEF WillRegister
      <3>13. Hears(c, e)'
        BY <3>11 DEF Hears
      <3>14. \A d \in Cmds : phase[d] = "starting" => d = c
        BY <1>1, <3>3
      <3>15. QED BY <2>1, <2>2, <3>2, <3>11, <3>12, <3>13, <3>14, HeardStays
    <2>4. CASE Step.do = "unregister"
      <3>1. UnregisterHandler(Step.event)
        BY <1>3, <2>4 DEF ChangeHandlers
      <3>2. rq.op # "start"
        BY <2>1, <2>2, <2>4 DEF RInv, Scripts, StartPart
      <3>3. Step.event \in EventsOf(Feature)
        BY <2>1, <2>2, <2>4, <3>2 DEF RInv, Scripts, StopPart
      <3>4. PICK x : x = Step.event
        OBVIOUS
      <3>5. Handlers' = {h \in Handlers : h.event # x}
        BY <3>1, <3>4, UnregisterIs DEF RInv
      <3>6. ASSUME NEW c \in Cmds, phase'[c] = "running", loop'.at # "gone", NEW h \in Handlers, h.cmd = c
            PROVE  h \in Handlers'
        <4>1. Stopping \/ rq.op \in {"fail", "cancel"}
          BY <2>1, <3>2, <3>6, Alone DEF Stopping, RInv, Threads, Types
        <4>2. c \in Outstanding \ {rq.cmd}
          <5>1. rq.op \in {"fail", "cancel"} => phase[rq.cmd] # "running"
            BY <2>1 DEF RInv, Phases
          <5>2. Stopping => rq.cmd = None
            BY DEF Stopping, StoppedWithoutId, RInv, Threads
          <5>3. QED BY <2>1, <3>6, <4>1, <5>1, <5>2 DEF Outstanding, Cmds, None
        <4>3. EventsOf(kind[c]) \cap EventsOf(Feature) = {}
          BY <4>1, <4>2 DEF RInv, Apart
        <4>4. h.event \in EventsOf(kind[c])
          BY <3>6 DEF RInv, Owned
        <4>5. QED BY <3>3, <3>4, <3>5, <4>3, <4>4
      <3>7. QED BY <2>1, <2>2, <3>2, <3>6, HeardStays
    <2>5. QED BY <1>3, <2>3, <2>4 DEF ChangeHandlers
  <1>4. CASE AskDriver(Feature)
    <2>1. /\ rq.at = "script" /\ rq.todo # <<>> /\ Step.do # "register"
          /\ Handlers' = Handlers /\ kind' = kind /\ loop' = loop /\ phase' = phase
          /\ Done \/ rq'.op = "fail"
      BY <1>4 DEF AskDriver, registry, objects, Handlers, Shapes
    <2>2. CASE Done
      <3>1. /\ rq'.op = rq.op /\ Step = rq.todo[1]
            /\ \A i \in DOMAIN rq.todo : i = 1 \/ (i - 1 \in DOMAIN rq'.todo /\ rq'.todo[i - 1] = rq.todo[i])
        BY <2>1, <2>2, Advance DEF RInv
      <3>2. \A x : WillRegister(x) => WillRegister(x)'
        BY <2>1, <3>1 DEF WillRegister
      <3>3. QED BY <2>1, <3>1, <3>2, HeardStays
    <2>3. CASE rq'.op = "fail"
      BY <2>1, <2>3, HeardStays
    <2>4. QED BY <2>1, <2>2, <2>3
  <1>5. CASE Started
    <2>1. PICK c \in Cmds : c = rq.cmd
      BY <1>5 DEF Started, RInv, Threads, Types
    <2>2. /\ Handlers' = Handlers /\ kind' = kind /\ loop' = loop /\ rq'.op = "none" /\ rq.op = "start" /\ rq.todo = <<>>
          /\ phase' = IF phase[c] = "starting" THEN [phase EXCEPT ![c] = "running"] ELSE phase
      BY <1>5, <2>1 DEF Started, registry, objects, Handlers, Idle
    <2>3. \A e : ~WillRegister(e) /\ \A d : Hears(d, e) => Hears(d, e)'
      BY <2>2 DEF WillRegister, Hears
    <2>4. \A d \in Cmds : phase'[d] = "running" => phase[d] = "running" \/ phase[d] = "starting"
      BY <1>1, <2>2
    <2>5. QED BY <2>2, <2>3, <2>4 DEF Heard
  <1>6. CASE Failed \/ Sweep
    <2>1. /\ Handlers' = Handlers /\ kind' = kind /\ loop' = loop /\ rq'.op = rq.op /\ rq.op # "start"
      BY <1>6 DEF Failed, Sweep, registry, objects, Handlers, Shapes, RInv, Threads
    <2>2. \A d \in Cmds : phase'[d] = "running" => phase[d] = "running"
      <3>1. \E c : phase' = [phase EXCEPT ![c] = "ended"]
        BY <1>6 DEF Failed, Sweep
      <3>2. QED BY <1>1, <3>1
    <2>3. QED BY <2>1, <2>2, HeardStays
  <1>7. CASE Release
    <2>1. PICK c \in Cmds : c = rq.cmd
      BY <1>7 DEF Release, RInv, Threads, Types
    <2>2. /\ Handlers' = Handlers /\ loop' = loop /\ phase' = phase /\ rq'.op # "start" /\ ReleaseRef(c)
      BY <1>7, <2>1 DEF Release, registry, Handlers, Shapes, Idle
    <2>3. phase[c] = "ended"
      BY <1>7, <2>1 DEF Release, RInv, Phases, Threads
    <2>4. \A d \in Cmds : d # c => kind'[d] = kind[d]
      BY <2>2 DEF ReleaseRef, RInv, Types
    <2>5. QED BY <2>2, <2>3, <2>4, HeardStays
  <1>8. CASE Shift \/ Shrink \/ Stopped \/ ReadDone \/ FreeInfo
    <2>1. /\ Handlers' = Handlers /\ kind' = kind /\ loop' = loop /\ phase' = phase
      BY <1>8, Sighted DEF Shift, Shrink, Stopped, ReadDone, FreeInfo, registry, objects, Handlers
    <2>2. \A d \in Cmds : phase[d] # "starting"
      BY <1>1, <1>8 DEF Shift, Shrink, Stopped, ReadDone, FreeInfo, StoppedWithoutId
    <2>3. QED BY <2>1, <2>2, HeardStays
  <1>9. QED BY <1>2, <1>3, <1>4, <1>5, <1>6, <1>7, <1>8 DEF Requester

\* A call begins.
LEMMA FrameworkHeard ==
  ASSUME RInv, Heard, Framework
  PROVE  Heard'
  <1>1. phase \in [Cmds -> {"none", "starting", "running", "stopped", "ended"}]
    BY DEF RInv, Types
  <1>2. rq.at = "idle" /\ \A d \in Cmds : phase[d] # "starting"
    BY BetweenCalls DEF Framework, Start, MayStart, StopAny, Cancel, Cleanup, MayCall
  <1>3. Handlers' = Handlers /\ loop' = loop
    BY DEF Framework, Start, StopAny, Cancel, Cleanup, registry, Handlers
  <1>4. CASE \E k \in Kinds : Start(k)
    <2>1. PICK k \in Kinds : Start(k)
      BY <1>4
    <2>2. phase' = phase /\ kind' = [kind EXCEPT ![created + 1] = k]
      BY <2>1 DEF Start
    <2>3. \A d \in Cmds : d = created + 1 => phase[d] = "none"
      BY DEF RInv, Phases, Types
    <2>4. \A d \in Cmds : phase[d] = "running" => kind'[d] = kind[d]
      BY <2>2, <2>3 DEF RInv, Types
    <2>5. QED BY <1>2, <1>3, <2>2, <2>4, HeardStays
  <1>5. CASE (\E k \in Kinds : StopAny(k)) \/ (\E c \in Cmds : Cancel(c)) \/ Cleanup
    <2>1. kind' = kind
      BY <1>5 DEF StopAny, Cancel, Cleanup, objects
    <2>2. \A d \in Cmds : (phase'[d] = "running" => phase[d] = "running") /\ (phase'[d] = "starting" => phase[d] = "starting")
      BY <1>1, <1>5 DEF StopAny, Cancel, Cleanup
    <2>3. QED BY <1>2, <1>3, <2>1, <2>2, HeardStays
  <1>6. QED BY <1>4, <1>5 DEF Framework

\* A step of the event loop.
LEMMA EventLoopHeard ==
  ASSUME RInv, Heard, Shapes, EventLoop
  PROVE  Heard'
  <1>1. rq' = rq /\ (loop.at = "gone" => loop'.at = "gone") /\ \A x : WillRegister(x)' <=> WillRegister(x)
    BY DEF EventLoop, Dispatch, HandleEvent, HandleResults, LoopShift, LoopShrink, LoopRelease, Signal, LoopExit, WillRegister
  <1>2. CASE Dispatch \/ HandleEvent \/ LoopShift \/ LoopShrink \/ LoopExit
    <2>1. Handlers' = Handlers /\ kind' = kind /\ phase' = phase
      BY <1>2 DEF Dispatch, HandleEvent, LoopShift, LoopShrink, LoopExit, Handlers, registry, objects
    <2>2. QED BY <1>1, <2>1, HeardStays
  <1>3. CASE HandleResults
    <2>1. PICK c : c = loop.cmd
      OBVIOUS
    <2>2. c \in Cmds /\ \A d \in Outstanding : kind[d] = "rtt" => d = c
      BY <1>3, <2>1, EndsRanging DEF HandleResults, InCallback, RInv, Threads
    <2>3. phase' = [phase EXCEPT ![c] = "ended"] /\ kind' = kind /\ UnregisterHandler("rtt")
      BY <1>3, <2>1 DEF HandleResults, objects
    <2>4. Handlers' = {h \in Handlers : h.event # "rtt"}
      BY <2>3, UnregisterIs DEF RInv
    <2>5. phase'[c] = "ended" /\ \A d \in Cmds : d # c => phase'[d] = phase[d]
      BY <2>2, <2>3 DEF RInv, Types
    <2>6. ASSUME NEW d \in Cmds, d # c, phase[d] \in {"starting", "running"}, NEW h \in Handlers, h.cmd = d PROVE h \in Handlers'
      <3>1. d \in Outstanding /\ kind[d] # "rtt"
        BY <2>2, <2>6 DEF Outstanding
      <3>2. h.event \in EventsOf(kind[d]) /\ kind[d] \in Kinds
        BY <2>6, HandlersHeld, HeldIsLive DEF RInv, Owned
      <3>3. h.event # "rtt"
        BY <3>1, <3>2, AllFit DEF Fits
      <3>4. QED BY <2>4, <3>3
    <2>7. QED BY <1>1, <2>3, <2>5, <2>6, HeardStays
  <1>4. CASE LoopRelease \/ Signal
    <2>1. PICK c \in Cmds : c = loop.cmd
      BY <1>4 DEF LoopRelease, Signal, RInv, Threads, Types
    <2>2. Handlers' = Handlers /\ phase' = phase /\ ReleaseRef(c) /\ loop.at # "gone"
      BY <1>4, <2>1 DEF LoopRelease, Signal, Handlers, registry
    <2>3. \A d \in Outstanding : d \in Cmds /\ Held(d)
      BY <2>2, HandlersHeld
    <2>4. \A d \in Cmds : refs[d] = Holds(Held(d)) + Holds(loop.cmd = d)
      BY DEF RInv, Counted, Held
    <2>5. c \in Outstanding => refs[c] # 1
      BY <2>1, <2>3, <2>4 DEF Holds
    <2>6. \A d \in Outstanding : kind'[d] = kind[d]
      BY <2>2, <2>3, <2>5 DEF ReleaseRef, RInv, Types
    <2>7. \A d \in Cmds : phase[d] \in {"starting", "running"} => kind'[d] = kind[d]
      BY <2>6 DEF Outstanding
    <2>8. QED BY <1>1, <2>2, <2>7, HeardStays
  <1>5. QED BY <1>2, <1>3, <1>4 DEF EventLoop

\* A command that runs keeps its handlers.
LEMMA HeardInvariance ==
  ~Sharing /\ ~Overlap /\ Cardinality(Used) <= CbSlots => (Spec => [](Blind \/ (Sound /\ Heard)))
  <1> SUFFICES ASSUME ~Sharing, ~Overlap, Cardinality(Used) <= CbSlots PROVE Spec => [](Blind \/ (Sound /\ Heard))
    OBVIOUS
  <1>1. Init => Heard
    BY DEF Init, Heard
  <1>2. Shapes /\ Sound /\ Heard /\ [Next]_vars => Heard' \/ Blind'
    <2> SUFFICES ASSUME Shapes, Sound, Heard, [Next]_vars PROVE Heard' \/ Blind'
      OBVIOUS
    <2>1. RInv
      BY DEF Sound
    <2>2. CASE (\E k \in Kinds : DriverEvent(k)) \/ UNCHANGED vars
      <3>1. Handlers' = Handlers /\ kind' = kind /\ phase' = phase /\ rq' = rq /\ loop' = loop
        BY <2>2 DEF DriverEvent, vars, registry, objects, Handlers
      <3>2. \A x : WillRegister(x)' <=> WillRegister(x)
        BY <3>1 DEF WillRegister
      <3>3. QED BY <3>1, <3>2, HeardStays
    <2>3. CASE DoneFails
      <3>1. loop'.at = "gone" /\ phase' = phase /\ rq' = rq /\ kind' = kind /\ Handlers' = Handlers
        BY <2>3 DEF DoneFails, Poll, registry, objects, Handlers
      <3>2. \A x : WillRegister(x)' <=> WillRegister(x)
        BY <3>1 DEF WillRegister
      <3>3. QED BY <3>1, <3>2, HeardStays
    <2>4. CASE WriteFails \/ ReadFails
      BY <2>4 DEF WriteFails, ReadFails, Blind
    <2>5. QED
      BY <2>1, <2>2, <2>3, <2>4, RequesterHeard, FrameworkHeard, EventLoopHeard DEF Next, SocketFails
  <1>3. Spec => [](Shapes /\ (Blind \/ Sound))
    BY RegistryInvariance
  <1>4. QED BY <1>1, <1>2, <1>3, BlindStays, PTL DEF Spec

\* While the loop runs, a running command's events go to it.
THEOREM RunningCommandsAreHeard ==
  ~Sharing /\ ~Overlap /\ Cardinality(Used) <= CbSlots => (Spec => []RunningIsHeard)
  <1>1. RInv /\ Heard => RunningIsHeard
    <2> SUFFICES ASSUME RInv, Heard, loop.at # "gone", NEW c \in Cmds, phase[c] = "running", NEW e \in EventsOf(kind[c])
                 PROVE  HandlersOf(e) # {} /\ eventCb[FirstOf(HandlersOf(e))].cmd = c
      BY DEF RunningIsHeard
    <2>1. [event |-> e, cmd |-> c] \in Handlers
      BY DEF Heard, Hears
    <2>2. PICK i \in DOMAIN eventCb : eventCb[i] = [event |-> e, cmd |-> c]
      BY <2>1 DEF Handlers, ToSet
    <2>3. eventCb[i].event = e /\ eventCb[i].cmd = c
      BY <2>2
    <2>4. i \in HandlersOf(e) /\ HandlersOf(e) \subseteq Nat /\ HandlersOf(e) \subseteq DOMAIN eventCb
      BY <2>3, SMTT(30) DEF HandlersOf, RInv, Types
    <2>5. \A j \in HandlersOf(e) : j = i
      BY <2>3, <2>4 DEF HandlersOf, RInv, OnePerEvent
    <2>6. FirstOf(HandlersOf(e)) \in HandlersOf(e)
      BY <2>4, FirstIsLeast
    <2>7. QED BY <2>3, <2>4, <2>5, <2>6
  <1>2. Blind \/ (Sound /\ Heard) => RunningIsHeard
    BY <1>1 DEF Sound, RunningIsHeard
  <1>3. QED BY <1>2, HeardInvariance, PTL
=============================================================================
