-------------------------- MODULE SensorEvents_proofs --------------------------
(***************************************************************************)
(* Proofs about SensorEvents for any drivers, any ring, any poll buffer    *)
(* that has a place for each driver, and any bounds: the shares of the     *)
(* poll buffer always fit, a reader's ring is a queue, the events of a     *)
(* driver stay in order, and a one-shot sensor is kept on.                 *)
(***************************************************************************)
EXTENDS SensorEvents, FiniteSetTheorems, SequenceTheorems, WellFoundedInduction, TLAPS

\* The poll thread's record has the fields it is made of, the buffer is a sequence.
Shape ==
  /\ poll = [at |-> poll.at, drv |-> poll.drv, count |-> poll.count, share |-> poll.share,
             loop |-> poll.loop, left |-> poll.left, handle |-> poll.handle]
  /\ poll.at \in {"out", "share", "scan", "read", "name", "write", "poll", "parse"}
  /\ poll.count \in Nat /\ poll.share \in Nat /\ poll.loop \in Nat /\ poll.left \in Nat
  /\ \E S : buffer \in Seq(S)

Reading == poll.at \in {"read", "name", "write"}

\* What the driver that is being read has put in the buffer of its share.
Taken == IF Reading THEN poll.share - poll.left ELSE 0

\* The buffer holds what was accounted for and what is taken, and the turns that are
\* left fit into what is left.
ShareInv ==
  /\ poll.at \in {"share", "scan", "read", "name", "write", "poll"} =>
       Len(buffer) + poll.count - Taken = PollSize
  /\ Reading => poll.left <= poll.share /\ poll.loop > 0
  /\ poll.at = "scan" \/ Reading => poll.share * poll.loop <= poll.count
  /\ Len(buffer) <= PollSize

IInv == Shape /\ ShareInv

\* The poll thread is outside the HAL and the buffer is empty.
LEMMA InitEstablishes == Init => IInv
  <1> SUFFICES ASSUME Init PROVE IInv
    OBVIOUS
  <1>1. poll = Out /\ buffer = <<>>
    BY DEF Init
  <1>2. buffer \in Seq({}) /\ Len(buffer) = 0
    BY <1>1
  <1>3. Shape
    BY <1>1, <1>2 DEF Shape, Out
  <1>4. ShareInv
    BY <1>1, <1>2, EventsAssumption DEF ShareInv, Reading, Taken, Out
  <1>5. QED BY <1>3, <1>4 DEF IInv

-----------------------------------------------------------------------------

\* The number of drivers that have events, in any state.
LEMMA PendingIsFinite == Cardinality(Pending) \in Nat
  <1>1. IsFiniteSet(D)
    <2>1. Drivers \in Seq(DOMAIN Driver)
      BY EventsAssumption
    <2>2. Len(Drivers) \in Int /\ 1 \in Int /\ D = 1..Len(Drivers)
      BY <2>1 DEF D
    <2>3. QED BY <2>2, FS_Interval, Zenon
  <1>2. Pending \subseteq D
    BY DEF Pending
  <1>3. QED BY <1>1, <1>2, FS_Subset, FS_CardinalityType

\* computeCountForEachFd's division.
LEMMA DivisionFacts ==
  ASSUME NEW a \in Nat, NEW k \in Nat, k > 0
  PROVE  a \div k \in Nat /\ (a \div k) * k <= a /\ (a \div k = 0 <=> a < k)
  OBVIOUS

\* A driver's turn costs one share at most.
LEMMA TurnFacts ==
  ASSUME NEW s \in Nat, NEW n \in Nat, NEW c \in Nat, n > 0, s * n <= c
  PROVE  s <= c /\ s * (n - 1) <= c - s
  <1>1. s * (n - 1) = s * n - s
    OBVIOUS
  <1>2. s * (n - 1) >= 0
    OBVIOUS
  <1>3. QED BY <1>1, <1>2

\* A report adds one event to the buffer.
LEMMA AppendFacts ==
  ASSUME NEW s, NEW e, \E S : s \in Seq(S)
  PROVE  /\ \E S : Append(s, e) \in Seq(S)
         /\ Len(s) \in Nat /\ Len(Append(s, e)) = Len(s) + 1
  <1>1. PICK S : s \in Seq(S)
    OBVIOUS
  <1>2. s \in Seq(S \cup {e})
    BY <1>1
  <1>3. QED BY <1>2

-----------------------------------------------------------------------------

\* The poll thread.
LEMMA PollerPreserves ==
  ASSUME IInv, PollEvent \/ Poller
  PROVE  IInv'
  <1> USE DEF IInv, Shape, ShareInv, Reading, Taken
  <1>1. Len(buffer) \in Nat
    <2>1. PICK S : buffer \in Seq(S)
      OBVIOUS
    <2>2. QED BY <2>1
  <1>2. PollSize \in Nat
    BY EventsAssumption
  <1>3. (\E S : <<>> \in Seq(S)) /\ Len(<<>>) = 0
    <2>1. <<>> \in Seq({})
      OBVIOUS
    <2>2. QED BY <2>1
  <1>4. CASE PollEvent
    <2>1. (\E S : buffer' \in Seq(S)) /\ Len(buffer') = 0
      BY <1>4, <1>3 DEF PollEvent
    <2>2. poll' = [Out EXCEPT !.at = "share", !.count = PollSize]
      BY <1>4 DEF PollEvent
    <2>3. Shape'
      BY <2>1, <2>2, <1>2 DEF Out
    <2>4. ShareInv'
      BY <2>1, <2>2, <1>2 DEF Out
    <2>5. QED BY <2>3, <2>4
  <1>5. CASE ComputeCountForEachFd
    <2> DEFINE k == Cardinality(Pending)
               share == IF k = 0 \/ poll.count \div k = 0 THEN poll.count ELSE poll.count \div k
               loop == IF poll.count < k THEN 1 ELSE k
    <2>1. k \in Nat
      BY PendingIsFinite
    <2>2. /\ poll.at = "share" /\ UNCHANGED buffer
          /\ poll' = [poll EXCEPT !.at = "scan", !.drv = 0, !.loop = loop, !.share = share]
      BY <1>5 DEF ComputeCountForEachFd
    <2> HIDE DEF k
    <2>3. poll.count \in Nat
      OBVIOUS
    <2>4. share \in Nat /\ loop \in Nat /\ share * loop <= poll.count
      <3> HIDE DEF IInv, Shape, ShareInv, Reading, Taken
      <3>1. CASE k = 0
        BY <2>3, <3>1
      <3>2. CASE k > 0 /\ poll.count < k
        BY <2>1, <2>3, <3>2, DivisionFacts
      <3>3. CASE k > 0 /\ poll.count >= k
        <4>1. share = poll.count \div k /\ loop = k
          BY <2>1, <2>3, <3>3, DivisionFacts
        <4>2. QED BY <2>1, <2>3, <3>3, <4>1, DivisionFacts
      <3>4. QED BY <2>1, <2>3, <3>1, <3>2, <3>3
    <2> HIDE DEF share, loop
    <2>5. QED BY <2>2, <2>4, <1>1, <1>2
  <1>6. CASE ReadEvents
    <2>1. /\ poll.at = "scan" /\ poll.loop > 0 /\ UNCHANGED buffer
          /\ \E d : poll' = [poll EXCEPT !.at = "read", !.drv = d, !.left = poll.share]
      BY <1>6 DEF ReadEvents
    <2>2. Shape'
      BY <2>1
    <2>3. ShareInv'
      BY <2>1, <1>1, <1>2
    <2>4. QED BY <2>2, <2>3
  <1>7. CASE NoMoreDrivers
    BY <1>7, <1>1, <1>2 DEF NoMoreDrivers
  <1>8. CASE TakeEvent
    <2>1. CASE UNCHANGED <<buffer, poll>>
      BY <2>1
    <2>2. CASE ~UNCHANGED <<buffer, poll>>
      <3>1. /\ poll.at = "read" /\ poll.left > 0
            /\ buffer' = Append(buffer, Current)
            /\ \E h, at : /\ at \in {"name", "read"}
                          /\ poll' = [poll EXCEPT !.left = @ - 1, !.handle = h, !.at = at]
        BY <1>8, <2>2 DEF TakeEvent
      <3>2. (\E S : buffer' \in Seq(S)) /\ Len(buffer') = Len(buffer) + 1
        BY <3>1, AppendFacts
      <3>3. PICK h, at : /\ at \in {"name", "read"}
                         /\ poll' = [poll EXCEPT !.left = @ - 1, !.handle = h, !.at = at]
        BY <3>1
      <3>4. /\ poll' = [at |-> at, drv |-> poll.drv, count |-> poll.count, share |-> poll.share,
                        loop |-> poll.loop, left |-> poll.left - 1, handle |-> h]
            /\ at \in {"name", "read"}
        BY <3>3
      <3>5. Shape'
        <4>1. poll.left - 1 \in Nat
          BY <3>1
        <4>2. QED BY <3>2, <3>4, <4>1
      <3>6. poll.share <= poll.count
        BY <3>1, TurnFacts
      <3>7. Len(buffer') <= PollSize
        BY <3>1, <3>2, <3>6, <1>1, <1>2
      <3>8. ShareInv'
        <4>1. Len(buffer') + poll'.count - (poll'.share - poll'.left) = PollSize
          BY <3>1, <3>2, <3>4, <1>1, <1>2
        <4>2. poll'.share * poll'.loop <= poll'.count /\ poll'.loop > 0 /\ poll'.left <= poll'.share
          BY <3>1, <3>4
        <4>3. QED BY <3>4, <3>7, <4>1, <4>2
      <3>9. QED BY <3>5, <3>8
    <2>3. QED BY <2>1, <2>2
  <1>9. CASE NameOneShot
    BY <1>9, <1>1, <1>2 DEF NameOneShot
  <1>10. CASE DisableOneShot
    BY <1>10, <1>1, <1>2 DEF DisableOneShot
  <1>11. CASE EndRead
    <2> DEFINE count == poll.count - (poll.share - poll.left)
    <2>1. /\ poll.at = "read" /\ UNCHANGED buffer
          /\ poll' = [poll EXCEPT !.count = count, !.loop = @ - 1, !.handle = "none", !.left = 0,
                                  !.at = IF count < 0 THEN "aborted" ELSE "scan"]
      BY <1>11 DEF EndRead
    <2>2. poll.share <= poll.count /\ poll.share * (poll.loop - 1) <= poll.count - poll.share
      BY <2>1, TurnFacts
    <2>3. count \in Nat /\ poll.share * (poll.loop - 1) <= count
      <3>1. poll.share * (poll.loop - 1) \in Int
        BY <2>1
      <3>2. QED BY <2>1, <2>2, <3>1
    <2>4. ~(count < 0) /\ poll.loop - 1 \in Nat
      BY <2>1, <2>3
    <2>5. poll' = [poll EXCEPT !.count = count, !.loop = @ - 1, !.handle = "none", !.left = 0,
                              !.at = "scan"]
      BY <2>1, <2>4
    <2>6. poll' = [at |-> "scan", drv |-> poll.drv, count |-> count, share |-> poll.share,
                   loop |-> poll.loop - 1, left |-> 0, handle |-> "none"]
      BY <2>5
    <2>7. Len(buffer) + count = PollSize
      BY <2>1, <1>1, <1>2
    <2> HIDE DEF count
    <2>8. Shape'
      <3>1. count \in Nat /\ buffer' = buffer
        BY <2>1, <2>3
      <3>2. QED BY <3>1, <2>6, <2>4
    <2>9. ShareInv'
      BY <2>1, <2>3, <2>6, <2>7, <1>1, <1>2
    <2>10. QED BY <2>8, <2>9
  <1>12. CASE PollFds
    BY <1>12, <1>1, <1>2 DEF PollFds
  <1>13. CASE ParsePollData
    <2>1. (\E S : buffer' \in Seq(S)) /\ Len(buffer') = 0
      BY <1>13, <1>3 DEF ParsePollData
    <2>2. CASE poll' = Out
      <3>1. Shape'
        BY <2>1, <2>2 DEF Out
      <3>2. ShareInv'
        BY <2>1, <2>2, <1>2 DEF Out
      <3>3. QED BY <3>1, <3>2
    <2>3. CASE poll' = [Out EXCEPT !.at = "share", !.count = PollSize]
      <3>1. Shape'
        BY <2>1, <2>3, <1>2 DEF Out
      <3>2. ShareInv'
        BY <2>1, <2>3, <1>2 DEF Out
      <3>3. QED BY <3>1, <3>2
    <2>4. QED BY <1>13, <2>2, <2>3 DEF ParsePollData
  <1>14. QED
    BY <1>4, <1>5, <1>6, <1>7, <1>8, <1>9, <1>10, <1>11, <1>12, <1>13 DEF Poller

\* Neither the hardware nor the other thread touches the poll thread's record and buffer.
LEMMA OthersPreserve ==
  ASSUME IInv, UNCHANGED <<poll, buffer>>
  PROVE  IInv'
  BY DEF IInv, Shape, ShareInv, Reading, Taken

\* Every step of every actor.
LEMMA StepPreserves == IInv /\ [Next]_vars => IInv'
  <1> SUFFICES ASSUME IInv, [Next]_vars PROVE IInv'
    OBVIOUS
  <1>1. CASE PollEvent \/ Poller
    BY <1>1, PollerPreserves
  <1>2. CASE \E h \in Handles : Raise(h) \/ Flush(h)
    BY <1>2, OthersPreserve DEF Raise, Flush
  <1>3. CASE \E h \in Handles, en \in BOOLEAN : Activate(h, en)
    BY <1>3, OthersPreserve DEF Activate
  <1>4. CASE Control
    BY <1>4, OthersPreserve DEF Control, ChangeHandles, NameNode, WriteNode, WritePipe
  <1>5. CASE UNCHANGED vars
    BY <1>5, OthersPreserve DEF vars
  <1>6. QED BY <1>1, <1>2, <1>3, <1>4, <1>5 DEF Next

\* The inductive invariant holds in every state.
LEMMA Invariance == Spec => []IInv
  BY InitEstablishes, StepPreserves, PTL DEF Spec

-----------------------------------------------------------------------------

\* pollEvent's abort() is never reached and the poll buffer never overflows, whatever the
\* drivers have and however often the shares are computed again.
THEOREM SharesAlwaysFit == Spec => []SharesFit
  <1>1. IInv => SharesFit BY DEF IInv, Shape, ShareInv, SharesFit
  <1>2. QED BY <1>1, Invariance, PTL

-----------------------------------------------------------------------------

\* The fields of a reader agree: as many events lie between curr and head, around the end
\* of the ring, as are not free.
Agree(head, curr, free) ==
  /\ head \in 0..RingSize /\ curr \in 0..RingSize - 1 /\ free \in 0..RingSize
  /\ \/ head = curr + (RingSize - free)
     \/ head = curr + (RingSize - free) - RingSize
     \/ head = curr + (RingSize - free) + RingSize

WellFormed(r) ==
  /\ r = [cells |-> r.cells, head |-> r.head, curr |-> r.curr, free |-> r.free]
  /\ DOMAIN r.cells = 0..2 * RingSize - 1
  /\ Agree(r.head, r.curr, r.free)

\* The ring has at least one place.
LEMMA RingSizeType == RingSize \in Nat /\ RingSize > 0
  BY EventsAssumption

\* The place of an event in the ring.
LEMMA Wrap ==
  ASSUME NEW x \in 0..2 * RingSize - 1
  PROVE  /\ x < RingSize => x % RingSize = x
         /\ ~(x < RingSize) => x % RingSize = x - RingSize
  <1>1. CASE x < RingSize
    BY <1>1, RingSizeType
  <1>2. CASE ~(x < RingSize)
    <2>1. x - RingSize \in 0..RingSize - 1
      BY <1>2, RingSizeType
    <2>2. QED BY <1>2, <2>1, RingSizeType
  <1>3. QED BY <1>1, <1>2, RingSizeType

\* The arithmetic of next() and of fill().
LEMMA AgreeAdvance ==
  ASSUME NEW head, NEW curr, NEW free, Agree(head, curr, free), free < RingSize
  PROVE  /\ curr + 1 >= RingSize => Agree(head, 0, free + 1)
         /\ ~(curr + 1 >= RingSize) => Agree(head, curr + 1, free + 1)
  BY RingSizeType DEF Agree

\* The end of the ring wraps around, and the room shrinks by what was read.
LEMMA AgreeFill ==
  ASSUME NEW head, NEW curr, NEW free, Agree(head, curr, free), NEW m \in 0..free
  PROVE  /\ head + m > RingSize => Agree((head + m) - RingSize, curr, free - m)
         /\ ~(head + m > RingSize) => Agree(head + m, curr, free - m)
  BY RingSizeType DEF Agree

\* A new reader is well formed, and so is one after next().
LEMMA ReaderForm ==
  /\ WellFormed(EmptyRing)
  /\ \A r : WellFormed(r) /\ Available(r) > 0 => WellFormed(Advance(r))
  <1>1. WellFormed(EmptyRing)
    BY RingSizeType DEF WellFormed, Agree, EmptyRing
  <1>2. ASSUME NEW r, WellFormed(r), Available(r) > 0
        PROVE  WellFormed(Advance(r))
    <2>1. Agree(r.head, r.curr, r.free) /\ r.free < RingSize
      <3>1. Agree(r.head, r.curr, r.free)
        BY <1>2 DEF WellFormed
      <3>2. QED BY <1>2, <3>1, RingSizeType DEF Available, Agree
    <2>2. CASE r.curr + 1 >= RingSize
      <3>1. Advance(r) = [r EXCEPT !.curr = 0, !.free = r.free + 1]
        BY <2>2 DEF Advance
      <3>2. Advance(r) = [cells |-> r.cells, head |-> r.head, curr |-> 0, free |-> r.free + 1]
        BY <1>2, <3>1 DEF WellFormed
      <3>3. Agree(r.head, 0, r.free + 1)
        BY <2>1, <2>2, AgreeAdvance
      <3>4. QED BY <1>2, <3>2, <3>3 DEF WellFormed
    <2>3. CASE ~(r.curr + 1 >= RingSize)
      <3>1. Advance(r) = [r EXCEPT !.curr = r.curr + 1, !.free = r.free + 1]
        BY <2>3 DEF Advance
      <3>2. Advance(r) = [cells |-> r.cells, head |-> r.head, curr |-> r.curr + 1, free |-> r.free + 1]
        BY <1>2, <3>1 DEF WellFormed
      <3>3. Agree(r.head, r.curr + 1, r.free + 1)
        BY <2>1, <2>3, AgreeAdvance
      <3>4. QED BY <1>2, <3>2, <3>3 DEF WellFormed
    <2>4. QED BY <2>2, <2>3
  <1>3. QED BY <1>1, <1>2

\* Both ways through fill().
LEMMA FillCases ==
  ASSUME NEW r, NEW s, NEW head, head = r.head + Len(s)
  PROVE  /\ head > RingSize =>
              Fill(r, s) = [cells |-> Folded(ReadInto(r, s), head - RingSize), head |-> head - RingSize,
                            curr |-> r.curr, free |-> r.free - Len(s)]
         /\ ~(head > RingSize) =>
              Fill(r, s) = [cells |-> ReadInto(r, s), head |-> head,
                            curr |-> r.curr, free |-> r.free - Len(s)]
  <1>1. CASE head > RingSize
    BY <1>1, Zenon DEF Fill
  <1>2. CASE ~(head > RingSize)
    BY <1>2, Zenon DEF Fill
  <1>3. QED BY <1>1, <1>2

\* fill() after a read() of at most as many events as are free keeps a reader well formed.
LEMMA FillForm ==
  ASSUME NEW r, WellFormed(r), NEW s, Len(s) \in 0..r.free
  PROVE  /\ WellFormed(Fill(r, s))
         /\ Available(Fill(r, s)) = Available(r) + Len(s) /\ Fill(r, s).curr = r.curr
  <1>1. Agree(r.head, r.curr, r.free)
    BY DEF WellFormed
  <1>2. RingSize - (r.free - Len(s)) = (RingSize - r.free) + Len(s)
    BY <1>1, RingSizeType DEF Agree
  <1>3. CASE r.head + Len(s) > RingSize
    <2>1. Fill(r, s) = [cells |-> Folded(ReadInto(r, s), (r.head + Len(s)) - RingSize), head |-> (r.head + Len(s)) - RingSize,
                        curr |-> r.curr, free |-> r.free - Len(s)]
      BY <1>3, FillCases
    <2>2. Agree((r.head + Len(s)) - RingSize, r.curr, r.free - Len(s))
      BY <1>1, <1>3, AgreeFill, Zenon
    <2>3. DOMAIN Folded(ReadInto(r, s), (r.head + Len(s)) - RingSize) = 0..2 * RingSize - 1
      BY DEF Folded, ReadInto, WellFormed
    <2>4. QED BY <1>2, <2>1, <2>2, <2>3 DEF WellFormed, Available
  <1>4. CASE ~(r.head + Len(s) > RingSize)
    <2>1. Fill(r, s) = [cells |-> ReadInto(r, s), head |-> r.head + Len(s),
                        curr |-> r.curr, free |-> r.free - Len(s)]
      BY <1>4, FillCases
    <2>2. Agree(r.head + Len(s), r.curr, r.free - Len(s))
      BY <1>1, <1>4, AgreeFill
    <2>3. DOMAIN ReadInto(r, s) = 0..2 * RingSize - 1
      BY DEF ReadInto, WellFormed
    <2>4. QED BY <1>2, <2>1, <2>2, <2>3 DEF WellFormed, Available
  <1>5. QED BY <1>3, <1>4

\* The places of the events: at most RingSize of them, around the end, before head.
LEMMA Places ==
  ASSUME NEW head, NEW curr, NEW free, Agree(head, curr, free),
         NEW i \in 1..2 * RingSize - curr
  PROVE  /\ curr + i - 1 < RingSize => (curr + i - 1) % RingSize = curr + i - 1
         /\ ~(curr + i - 1 < RingSize) => (curr + i - 1) % RingSize = (curr + i - 1) - RingSize
  <1>1. curr + i - 1 \in 0..2 * RingSize - 1
    BY RingSizeType DEF Agree
  <1>2. CASE curr + i - 1 < RingSize
    BY <1>1, <1>2, Wrap
  <1>3. CASE ~(curr + i - 1 < RingSize)
    BY <1>1, <1>3, Wrap
  <1>4. QED BY <1>2, <1>3

\* fill() puts the j-th event it reads in the place behind what the reader has, and
\* leaves the places of what it has alone.
LEMMA Behind ==
  ASSUME NEW head, NEW curr, NEW free, Agree(head, curr, free), NEW m \in 0..free,
         NEW i \in 1..(RingSize - free) + m, i > RingSize - free, NEW p \in 0..RingSize - 1,
         p = curr + i - 1 \/ p = (curr + i - 1) - RingSize
  PROVE  \/ p \in head..head + m - 1 /\ p - head + 1 = i - (RingSize - free)
         \/ /\ p \notin head..head + m - 1 /\ p + RingSize \in head..head + m - 1
            /\ (p + RingSize) - head + 1 = i - (RingSize - free)
  BY RingSizeType DEF Agree

\* fill() writes to no place that holds an event.
LEMMA Before ==
  ASSUME NEW head, NEW curr, NEW free, Agree(head, curr, free), NEW m \in 0..free,
         NEW i \in 1..RingSize - free, NEW p \in 0..RingSize - 1,
         p = curr + i - 1 \/ p = (curr + i - 1) - RingSize
  PROVE  p \notin head..head + m - 1 /\ p + RingSize \notin head..head + m - 1
  BY RingSizeType DEF Agree

\* What is in a place after fill().
LEMMA FilledCells ==
  ASSUME NEW r, WellFormed(r), NEW s, Len(s) \in 0..r.free, NEW p \in 0..RingSize - 1
  PROVE  Fill(r, s).cells[p] =
           IF p \in r.head..r.head + Len(s) - 1 THEN s[p - r.head + 1]
           ELSE IF p + RingSize \in r.head..r.head + Len(s) - 1 THEN s[(p + RingSize) - r.head + 1]
           ELSE r.cells[p]
  <1>1. Agree(r.head, r.curr, r.free)
    BY DEF WellFormed
  <1>2. /\ RingSize \in Nat /\ r.head \in Nat /\ Len(s) \in Nat /\ p \in Nat
        /\ p < RingSize /\ r.head <= RingSize /\ Len(s) <= RingSize
        /\ r.head + Len(s) < 2 * RingSize + 1
    BY <1>1, RingSizeType DEF Agree
  <1>3. p \in DOMAIN r.cells /\ p + RingSize \in DOMAIN r.cells
    <2>1. p \in 0..2 * RingSize - 1 /\ p + RingSize \in 0..2 * RingSize - 1
      BY RingSizeType
    <2>2. QED BY <2>1 DEF WellFormed
  <1>4. DOMAIN ReadInto(r, s) = DOMAIN r.cells
    BY DEF ReadInto
  <1>5. \A q \in DOMAIN r.cells :
          /\ q \in r.head..r.head + Len(s) - 1 => ReadInto(r, s)[q] = s[q - r.head + 1]
          /\ q \notin r.head..r.head + Len(s) - 1 => ReadInto(r, s)[q] = r.cells[q]
    BY Zenon DEF ReadInto
  <1>6. RingSize + p = p + RingSize
    BY RingSizeType
  <1>7. CASE r.head + Len(s) > RingSize
    <2>1. Fill(r, s).cells = Folded(ReadInto(r, s), (r.head + Len(s)) - RingSize)
      BY <1>7, FillCases
    <2>2. CASE p < (r.head + Len(s)) - RingSize
      <3>1. Fill(r, s).cells[p] = ReadInto(r, s)[p + RingSize]
        <4>1. Fill(r, s).cells[p] = ReadInto(r, s)[RingSize + p]
          BY <1>3, <1>4, <2>1, <2>2 DEF Folded
        <4>2. QED BY <4>1, <1>6, Zenon
      <3>2. p + RingSize \in r.head..r.head + Len(s) - 1 /\ p \notin r.head..r.head + Len(s) - 1
        BY <1>2, <2>2
      <3>3. ReadInto(r, s)[p + RingSize] = s[(p + RingSize) - r.head + 1]
        BY <1>3, <1>5, <3>2
      <3>4. QED BY <3>1, <3>2, <3>3
    <2>3. CASE ~(p < (r.head + Len(s)) - RingSize)
      <3>1. Fill(r, s).cells[p] = ReadInto(r, s)[p]
        BY <1>3, <1>4, <2>1, <2>3 DEF Folded
      <3>2. p + RingSize \notin r.head..r.head + Len(s) - 1
        BY <1>2, <2>3
      <3>3. QED BY <1>3, <1>5, <3>1, <3>2, Zenon
    <2>4. QED BY <2>2, <2>3
  <1>8. CASE ~(r.head + Len(s) > RingSize)
    <2>1. Fill(r, s).cells[p] = ReadInto(r, s)[p]
      BY <1>8, FillCases
    <2>2. p + RingSize \notin r.head..r.head + Len(s) - 1
      BY <1>2, <1>8
    <2>3. QED BY <1>3, <1>5, <2>1, <2>2, Zenon
  <1>9. QED BY <1>7, <1>8

\* For a ring of any size fill() appends to what the reader has, also when read() went beyond
\* the end of the ring and what it left there was moved to the front.
THEOREM FillAppends ==
  ASSUME NEW r, WellFormed(r), NEW S, NEW s \in Seq(S), Len(s) <= r.free
  PROVE  Content(Fill(r, s)) = Content(r) \o s
  <1> DEFINE m == Len(s)
             a == Available(r)
             Place(i) == (r.curr + i - 1) % RingSize
             filled == Fill(r, s)
  <1>1. Agree(r.head, r.curr, r.free)
    BY DEF WellFormed
  <1>2. m \in 0..r.free /\ a \in 0..RingSize /\ a + m <= RingSize
    BY <1>1, RingSizeType DEF Agree, Available
  <1>3. Available(filled) = a + m /\ filled.curr = r.curr
    BY <1>2, FillForm
  <1>4. Content(filled) = [i \in 1..a + m |-> filled.cells[Place(i)]]
    BY <1>3 DEF Content
  <1>5. Content(r) = [i \in 1..a |-> r.cells[Place(i)]]
    BY DEF Content
  <1>6. Content(r) \o s = [i \in 1..a + m |-> IF i <= a THEN r.cells[Place(i)] ELSE s[i - a]]
    <2>1. Content(r) \in Seq({r.cells[Place(i)] : i \in 1..a})
      BY <1>2, <1>5
    <2>2. Len(Content(r)) = a
      BY <1>2, <1>5
    <2>3. QED BY <1>2, <1>5, <2>1, <2>2
  <1>7. ASSUME NEW i \in 1..a + m
        PROVE  filled.cells[Place(i)] = IF i <= a THEN r.cells[Place(i)] ELSE s[i - a]
    <2>1. i \in 1..2 * RingSize - r.curr
      BY <1>1, <1>2, RingSizeType DEF Agree
    <2>2. /\ r.curr + i - 1 < RingSize => Place(i) = r.curr + i - 1
          /\ ~(r.curr + i - 1 < RingSize) => Place(i) = (r.curr + i - 1) - RingSize
      BY <1>1, <2>1, Places, Zenon
    <2> HIDE DEF filled, Place
    <2>3. PICK p : p = Place(i)
      OBVIOUS
    <2>4. p \in 0..RingSize - 1 /\ (p = r.curr + i - 1 \/ p = (r.curr + i - 1) - RingSize)
      BY <1>1, <2>1, <2>2, <2>3, RingSizeType DEF Agree
    <2>5. filled.cells[p] =
            IF p \in r.head..r.head + m - 1 THEN s[p - r.head + 1]
            ELSE IF p + RingSize \in r.head..r.head + m - 1 THEN s[(p + RingSize) - r.head + 1]
            ELSE r.cells[p]
      BY <1>2, <2>4, FilledCells DEF filled
    <2>6. i \in 1..(RingSize - r.free) + m /\ a = RingSize - r.free
      BY DEF Available
    <2> HIDE DEF m, a
    <2>7. i <= a \/ i > a
      BY <1>2
    <2>8. CASE i <= a
      <3>1. i \in 1..RingSize - r.free
        BY <1>2, <2>6, <2>8
      <3>2. p \notin r.head..r.head + m - 1 /\ p + RingSize \notin r.head..r.head + m - 1
        BY <1>1, <1>2, <2>4, <3>1, Before
      <3>3. QED BY <2>3, <2>5, <2>8, <3>2
    <2>9. CASE i > a
      <3>1. i > RingSize - r.free
        BY <2>6, <2>9
      <3>2. \/ p \in r.head..r.head + m - 1 /\ p - r.head + 1 = i - (RingSize - r.free)
            \/ /\ p \notin r.head..r.head + m - 1 /\ p + RingSize \in r.head..r.head + m - 1
               /\ (p + RingSize) - r.head + 1 = i - (RingSize - r.free)
        BY <1>1, <1>2, <2>4, <2>6, <3>1, Behind
      <3>3. QED BY <1>2, <2>3, <2>5, <2>6, <2>9, <3>2
    <2>10. QED BY <2>7, <2>8, <2>9
  <1>8. QED BY <1>4, <1>6, <1>7

\* next() takes the first event of the reader and leaves the others in their order.
THEOREM AdvanceTakesHead ==
  ASSUME NEW r, WellFormed(r), Available(r) > 0
  PROVE  Content(r) = <<r.cells[r.curr]>> \o Content(Advance(r))
  <1> DEFINE a == Available(r)
             next == Advance(r)
  <1>1. Agree(r.head, r.curr, r.free)
    BY DEF WellFormed
  <1>2. a \in 1..RingSize
    BY <1>1, RingSizeType DEF Agree, Available
  <1>3. /\ next.cells = r.cells /\ Available(next) = a - 1
        /\ next.curr = r.curr + 1 \/ next.curr = r.curr + 1 - RingSize
        /\ next.curr \in 0..RingSize - 1
    <2>1. next = [r EXCEPT !.curr = IF r.curr + 1 >= RingSize THEN 0 ELSE r.curr + 1, !.free = r.free + 1]
      BY DEF Advance
    <2>2. /\ next.cells = r.cells /\ next.free = r.free + 1
          /\ next.curr = IF r.curr + 1 >= RingSize THEN 0 ELSE r.curr + 1
      BY <2>1 DEF WellFormed
    <2> HIDE DEF next
    <2>3. RingSize - (r.free + 1) = (RingSize - r.free) - 1
      BY <1>1, RingSizeType DEF Agree
    <2>4. QED BY <1>1, <2>2, <2>3, RingSizeType DEF Agree, Available
  <1> HIDE DEF next
  <1>4. ASSUME NEW i \in 1..a - 1
        PROVE  (next.curr + i - 1) % RingSize = (r.curr + i) % RingSize
    <2>1. /\ next.curr + i - 1 \in 0..2 * RingSize - 1 /\ r.curr + i \in 0..2 * RingSize - 1
      BY <1>1, <1>2, <1>3, RingSizeType DEF Agree
    <2>2. /\ next.curr + i - 1 < RingSize => (next.curr + i - 1) % RingSize = next.curr + i - 1
          /\ r.curr + i < RingSize => (r.curr + i) % RingSize = r.curr + i
      BY <2>1, Wrap
    <2>3. CASE ~(r.curr + i < RingSize)
      <3>1. (r.curr + i) % RingSize = (r.curr + i) - RingSize
        BY <2>1, <2>3, Wrap
      <3>2. CASE next.curr + i - 1 < RingSize
        BY <1>1, <1>2, <1>3, <2>2, <2>3, <3>1, <3>2, RingSizeType DEF Agree
      <3>3. CASE ~(next.curr + i - 1 < RingSize)
        <4>1. (next.curr + i - 1) % RingSize = (next.curr + i - 1) - RingSize
          BY <2>1, <3>3, Wrap
        <4>2. QED BY <1>1, <1>2, <1>3, <2>3, <3>1, <3>3, <4>1, RingSizeType DEF Agree
      <3>4. QED BY <3>2, <3>3
    <2>4. CASE r.curr + i < RingSize
      <3>1. next.curr + i - 1 = r.curr + i
        BY <1>1, <1>2, <1>3, <2>1, <2>4, RingSizeType DEF Agree
      <3>2. QED BY <3>1
    <2>5. QED BY <2>3, <2>4
  <1>5. Content(next) = [i \in 1..a - 1 |-> r.cells[(r.curr + i) % RingSize]]
    BY <1>3, <1>4 DEF Content
  <1>6. r.curr % RingSize = r.curr
    <2>1. r.curr \in 0..2 * RingSize - 1 /\ r.curr < RingSize
      BY <1>1, RingSizeType DEF Agree
    <2>2. QED BY <2>1, Wrap
  <1>7. Content(r) = [i \in 1..a |-> r.cells[(r.curr + i - 1) % RingSize]]
    BY DEF Content
  <1> HIDE DEF a
  <1>8. /\ Content(next) \in Seq({r.cells[(r.curr + i) % RingSize] : i \in 1..a - 1})
        /\ Len(Content(next)) = a - 1
    BY <1>2, <1>5
  <1>9. <<r.cells[r.curr]>> \o Content(next) =
          [i \in 1..a |-> IF i = 1 THEN r.cells[r.curr] ELSE Content(next)[i - 1]]
    <2>1. <<r.cells[r.curr]>> \in Seq({r.cells[r.curr]}) /\ Len(<<r.cells[r.curr]>>) = 1
      OBVIOUS
    <2>2. QED BY <1>2, <1>8, <2>1
  <1>10. ASSUME NEW i \in 1..a
         PROVE  r.cells[(r.curr + i - 1) % RingSize] =
                  IF i = 1 THEN r.cells[r.curr] ELSE Content(next)[i - 1]
    <2>1. CASE i = 1
      <3>1. r.curr + i - 1 = r.curr
        BY <1>1, <2>1, RingSizeType DEF Agree
      <3>2. QED BY <1>6, <2>1, <3>1
    <2>2. CASE i # 1
      <3>1. i - 1 \in 1..a - 1 /\ r.curr + (i - 1) = r.curr + i - 1
        BY <1>1, <1>2, <2>2, RingSizeType DEF Agree
      <3>2. QED BY <1>5, <2>2, <3>1
    <2>3. QED BY <2>1, <2>2
  <1>11. QED BY <1>7, <1>9, <1>10 DEF next

-----------------------------------------------------------------------------

\* Every reader is well formed, and every descriptor holds a sequence of events.
RingInv ==
  /\ ring = [d \in D |-> ring[d]] /\ \A d \in D : WellFormed(ring[d])
  /\ fd = [d \in D |-> fd[d]] /\ \A d \in D : \E S : fd[d] \in Seq(S)

\* The first and the other part of a sequence.
LEMMA Parts ==
  ASSUME NEW S, NEW s \in Seq(S), NEW k \in 0..Len(s)
  PROVE  /\ SubSeq(s, 1, k) \in Seq(S) /\ Len(SubSeq(s, 1, k)) = k
         /\ SubSeq(s, k + 1, Len(s)) \in Seq(S)
  OBVIOUS

\* What a driver that listens reports is a sequence.
LEMMA FeedIsSequence ==
  ASSUME IInv, RingInv, NEW d \in D
  PROVE  \E S : Feed(d) \in Seq(S)
  <1> DEFINE m == Cardinality(FedTo(d))
             n == IF m > Room(d) THEN Room(d) ELSE m
             e(i) == Event(CHOOSE h \in Is(d).handles : TRUE, "data", sent[d] + i)
  <1>1. m \in Nat
    <2>1. PICK S : buffer \in Seq(S)
      BY DEF IInv, Shape
    <2>2. IsFiniteSet(1..Len(buffer)) /\ DOMAIN buffer = 1..Len(buffer)
      BY <2>1, FS_Interval
    <2>3. FedTo(d) \subseteq 1..Len(buffer)
      BY <2>2 DEF FedTo
    <2>4. QED BY <2>2, <2>3, FS_Subset, FS_CardinalityType
  <1>2. n \in Int
    <2>1. PICK S : fd[d] \in Seq(S)
      BY DEF RingInv
    <2>2. Room(d) \in Int
      BY <2>1, EventsAssumption DEF Room
    <2>3. QED BY <1>1, <2>2
  <1>3. Feed(d) = [i \in 1..n |-> e(i)]
    BY DEF Feed
  <1> HIDE DEF n, e
  <1>4. CASE n >= 0
    <2>1. [i \in 1..n |-> e(i)] \in Seq({e(i) : i \in 1..n})
      BY <1>2, <1>4
    <2>2. QED BY <1>3, <2>1
  <1>5. CASE n < 0
    <2>1. 1..n = 1..0
      BY <1>2, <1>5
    <2>2. [i \in 1..n |-> e(i)] = [i \in 1..0 |-> e(i)]
      BY <2>1
    <2>3. [i \in 1..0 |-> e(i)] \in Seq({})
      OBVIOUS
    <2>4. QED BY <1>3, <2>2, <2>3
  <1>6. QED BY <1>2, <1>4, <1>5

\* An event is sent to a descriptor, and the readers are left alone.
LEMMA SendKeepsRings ==
  ASSUME RingInv, UNCHANGED ring, NEW d, NEW h, NEW act, Send(d, h, act) \/ UNCHANGED fd
  PROVE  RingInv' /\ \A c \in D : ReaderStep(c)
  <1>1. \A c \in D : ReaderStep(c)
    BY DEF ReaderStep
  <1>2. CASE UNCHANGED fd
    BY <1>1, <1>2 DEF RingInv
  <1>3. CASE fd' = [fd EXCEPT ![d] = Append(@, Event(h, act, sent[d] + 1))]
    <2>1. fd' = [c \in D |-> fd'[c]]
      BY <1>3 DEF RingInv
    <2>2. ASSUME NEW c \in D PROVE \E S : fd'[c] \in Seq(S)
      <3>1. PICK S : fd[c] \in Seq(S)
        BY DEF RingInv
      <3>2. CASE c = d
        <4>1. fd'[c] = Append(fd[c], Event(h, act, sent[d] + 1))
          BY <1>3, <3>2 DEF RingInv
        <4>2. fd'[c] \in Seq(S \cup {Event(h, act, sent[d] + 1)})
          <5> DEFINE e == Event(h, act, sent[d] + 1)
          <5> HIDE DEF e
          <5>1. fd[c] \in Seq(S \cup {e})
            BY <3>1
          <5>2. Append(fd[c], e) \in Seq(S \cup {e})
            BY <5>1
          <5>3. QED BY <4>1, <5>2 DEF e
        <4>3. QED BY <4>2
      <3>3. CASE c # d
        BY <1>3, <3>1, <3>3 DEF RingInv
      <3>4. QED BY <3>2, <3>3
    <2>3. QED BY <1>1, <2>1, <2>2 DEF RingInv
  <1>4. QED BY <1>2, <1>3 DEF Send

\* readEvents() fills the reader of one driver from its descriptor.
LEMMA ReadKeepsRings ==
  ASSUME RingInv, ReadEvents
  PROVE  RingInv' /\ \A c \in D : ReaderStep(c)
  <1> DEFINE d == CHOOSE e \in Next1 : \A f \in Next1 : e <= f
             n == IF Len(fd[d]) < ring[d].free THEN Len(fd[d]) ELSE ring[d].free
             s == SubSeq(fd[d], 1, n)
  <1>1. /\ ring' = [ring EXCEPT ![d] = Fill(ring[d], s)]
        /\ fd' = [fd EXCEPT ![d] = SubSeq(fd[d], Len(s) + 1, Len(fd[d]))]
    BY DEF ReadEvents
  <1> HIDE DEF d
  <1>2. CASE d \notin D
    <2>1. UNCHANGED <<ring, fd>>
      BY <1>1, <1>2 DEF RingInv
    <2>2. QED BY <2>1 DEF RingInv, ReaderStep
  <1>3. CASE d \in D
    <2>1. PICK S : fd[d] \in Seq(S)
      BY <1>3 DEF RingInv
    <2>2. WellFormed(ring[d]) /\ ring[d].free \in Nat
      BY <1>3 DEF RingInv, WellFormed, Agree
    <2>3. n \in 0..Len(fd[d]) /\ n <= ring[d].free
      BY <2>1, <2>2
    <2> HIDE DEF n
    <2>4. /\ s \in Seq(S) /\ Len(s) = n
          /\ SubSeq(fd[d], n + 1, Len(fd[d])) \in Seq(S)
      BY <2>1, <2>3, Parts
    <2>5. /\ ring'[d] = Fill(ring[d], s)
          /\ fd'[d] = SubSeq(fd[d], n + 1, Len(fd[d]))
          /\ \A c \in D \ {d} : ring'[c] = ring[c] /\ fd'[c] = fd[c]
          /\ ring' = [c \in D |-> ring'[c]] /\ fd' = [c \in D |-> fd'[c]]
      BY <1>1, <1>3, <2>4 DEF RingInv
    <2> HIDE DEF s
    <2>6. WellFormed(ring'[d]) /\ Content(ring'[d]) = Content(ring[d]) \o s
      BY <2>2, <2>3, <2>4, <2>5, FillForm, FillAppends
    <2>7. RingInv'
      BY <2>4, <2>5, <2>6 DEF RingInv
    <2>8. \A c \in D : ReaderStep(c)
      BY <2>3, <2>5, <2>6 DEF ReaderStep, s
    <2>9. QED BY <2>7, <2>8
  <1>4. QED BY <1>2, <1>3

\* One turn of a driver's loop takes one event from its reader.
LEMMA TakeKeepsRings ==
  ASSUME RingInv, TakeEvent
  PROVE  RingInv' /\ \A c \in D : ReaderStep(c)
  <1> DEFINE d == poll.drv
  <1>1. ring' = [ring EXCEPT ![d] = Advance(ring[d])] /\ UNCHANGED fd /\ Available(ring[d]) > 0
    BY DEF TakeEvent, pendingEvent
  <1>2. CASE d \notin D
    <2>1. UNCHANGED <<ring, fd>>
      BY <1>1, <1>2 DEF RingInv
    <2>2. QED BY <2>1 DEF RingInv, ReaderStep
  <1>3. CASE d \in D
    <2>1. WellFormed(ring[d])
      BY <1>3 DEF RingInv
    <2>2. /\ WellFormed(Advance(ring[d]))
          /\ Content(ring[d]) = <<ring[d].cells[ring[d].curr]>> \o Content(Advance(ring[d]))
      BY <1>1, <2>1, ReaderForm, AdvanceTakesHead
    <2>3. /\ ring'[d] = Advance(ring[d]) /\ \A c \in D \ {d} : ring'[c] = ring[c]
          /\ ring' = [c \in D |-> ring'[c]]
      BY <1>1, <1>3 DEF RingInv
    <2>4. QED BY <1>1, <2>2, <2>3 DEF RingInv, ReaderStep
  <1>4. QED BY <1>2, <1>3

\* Every step of every actor.
LEMMA StepKeepsRings ==
  ASSUME IInv, RingInv, [Next]_vars
  PROVE  RingInv' /\ \A c \in D : ReaderStep(c)
  <1>1. CASE UNCHANGED <<ring, fd>>
    BY <1>1, SendKeepsRings
  <1>2. CASE \E h \in Handles : Raise(h)
    BY <1>2, SendKeepsRings DEF Raise
  <1>3. CASE WriteNode \/ WritePipe
    BY <1>3, SendKeepsRings DEF WriteNode, WritePipe, readers
  <1>4. CASE ReadEvents
    BY <1>4, ReadKeepsRings
  <1>5. CASE TakeEvent
    BY <1>5, TakeKeepsRings
  <1>6. CASE ParsePollData
    <2>1. UNCHANGED ring /\ fd' = [d \in D |-> fd[d] \o Feed(d)]
      BY <1>6 DEF ParsePollData
    <2>2. ASSUME NEW d \in D PROVE \E S : fd'[d] \in Seq(S)
      <3>1. PICK S : fd[d] \in Seq(S)
        BY DEF RingInv
      <3>2. PICK T : Feed(d) \in Seq(T)
        BY FeedIsSequence
      <3> DEFINE f == Feed(d)
      <3> HIDE DEF f
      <3>3. fd[d] \in Seq(S \cup T) /\ f \in Seq(S \cup T)
        BY <3>1, <3>2 DEF f
      <3>4. fd[d] \o f \in Seq(S \cup T)
        BY <3>3
      <3>5. QED BY <2>1, <3>4 DEF f
    <2>3. QED BY <2>1, <2>2 DEF RingInv, ReaderStep
  <1>7. CASE \/ PollEvent \/ ComputeCountForEachFd \/ NoMoreDrivers \/ NameOneShot \/ DisableOneShot
             \/ EndRead \/ PollFds \/ ChangeHandles \/ NameNode \/ UNCHANGED vars
             \/ (\E h \in Handles : Flush(h))
             \/ (\E h \in Handles, en \in BOOLEAN : Activate(h, en))
    BY <1>1, <1>7 DEF PollEvent, ComputeCountForEachFd, NoMoreDrivers, NameOneShot, DisableOneShot,
       EndRead, PollFds, ChangeHandles, NameNode, Flush, Activate, vars, readers
  <1>8. QED BY <1>2, <1>3, <1>4, <1>5, <1>6, <1>7 DEF Next, Poller, Control

\* Whatever the drivers, the framework and the hardware do, a reader is a queue: for any
\* ring, also where read() goes beyond its end, no event is lost, repeated or overtaken.
THEOREM ReaderIsQueue == Spec => ReadersAreQueues
  <1>1. Init => RingInv
    <2>1. Init => ring = [d \in D |-> EmptyRing] /\ fd = [d \in D |-> <<>>]
      BY DEF Init
    <2>2. \A S : <<>> \in Seq(S)
      OBVIOUS
    <2>3. QED BY <2>1, <2>2, ReaderForm DEF RingInv
  <1>2. IInv /\ RingInv /\ [Next]_vars => RingInv'
    BY StepKeepsRings
  <1>3. IInv /\ RingInv /\ [Next]_vars => [\A d \in D : ReaderStep(d)]_vars
    BY StepKeepsRings
  <1>4. QED BY <1>1, <1>2, <1>3, Invariance, PTL DEF Spec, ReadersAreQueues

-----------------------------------------------------------------------------
(* What is on its way through a driver, and the buffer it comes to. *)

\* What a concatenation is made of.
LEMMA Concatenation ==
  ASSUME NEW S, NEW x \in Seq(S), NEW y \in Seq(S), NEW z, z = x \o y
  PROVE  /\ z \in Seq(S) /\ Len(z) = Len(x) + Len(y)
         /\ \A i \in 1..Len(x) : z[i] = x[i]
         /\ \A i \in 1..Len(y) : z[Len(x) + i] = y[i]
  <1>1. z \in Seq(S) /\ Len(z) = Len(x) + Len(y)
    OBVIOUS
  <1>2. \A i \in 1..Len(x) : z[i] = x[i]
    OBVIOUS
  <1>3. \A i \in 1..Len(y) : z[Len(x) + i] = y[i]
    OBVIOUS
  <1>4. QED BY <1>1, <1>2, <1>3

\* Events on their way are numbered up to the last one sent, those of the buffer before
\* them and upwards.
Ordered(way, n, buf, hs) ==
  /\ n \in Int /\ (\E S : way \in Seq(S)) /\ (\E S : buf \in Seq(S))
  /\ \A i \in 1..Len(way) : way[i].n = n - Len(way) + i /\ way[i].handle \in hs
  /\ \A i \in 1..Len(buf) : buf[i].handle \in hs => buf[i].n \in Int /\ buf[i].n <= n - Len(way)
  /\ \A i, j \in 1..Len(buf) :
       i < j /\ buf[i].handle \in hs /\ buf[j].handle \in hs => buf[i].n < buf[j].n

\* More events are sent.
LEMMA OrderedGrows ==
  ASSUME NEW way, NEW n, NEW buf, NEW hs, Ordered(way, n, buf, hs),
         NEW S, NEW s \in Seq(S),
         \A i \in 1..Len(s) : s[i].n = n + i /\ s[i].handle \in hs
  PROVE  Ordered(way \o s, n + Len(s), buf, hs)
  <1>1. PICK T : way \in Seq(T)
    BY DEF Ordered
  <1>2. PICK U : U = S \cup T
    OBVIOUS
  <1>3. PICK x \in Seq(U) : x = way
    BY <1>1, <1>2
  <1>4. PICK y \in Seq(U) : y = s
    BY <1>2
  <1>5. PICK z : z = x \o y
    OBVIOUS
  <1>6. z \in Seq(U) /\ Len(z) = Len(x) + Len(y)
    BY <1>5
  <1>7. PICK l \in Nat : l = Len(x)
    OBVIOUS
  <1>8. PICK k \in Nat : k = Len(y)
    OBVIOUS
  <1>9. n \in Int
    BY DEF Ordered
  <1>10. ASSUME NEW i \in 1..l + k
         PROVE  z[i].n = (n + k) - (l + k) + i /\ z[i].handle \in hs
    <2>1. CASE i \in 1..l
      <3>1. z[i] = x[i]
        BY <1>5, <1>7, <2>1
      <3>2. x[i].n = n - l + i /\ x[i].handle \in hs
        BY <1>3, <1>7, <2>1 DEF Ordered
      <3>3. (n + k) - (l + k) + i = n - l + i
        BY <1>9, <2>1
      <3>4. QED BY <3>1, <3>2, <3>3
    <2>2. CASE i \notin 1..l
      <3>1. i - l \in 1..k
        BY <2>2
      <3>2. z[i] = y[i - l]
        BY <1>5, <1>7, <1>8, <2>2, <3>1
      <3>3. y[i - l].n = n + (i - l) /\ y[i - l].handle \in hs
        BY <1>4, <1>8, <3>1
      <3>4. (n + k) - (l + k) + i = n + (i - l)
        BY <1>9, <3>1
      <3>5. QED BY <3>2, <3>3, <3>4
    <2>3. QED BY <2>1, <2>2
  <1>11. Len(z) = l + k /\ (n + k) - (l + k) = n - l
    BY <1>6, <1>7, <1>8, <1>9
  <1>12. n + k \in Int /\ \E V : z \in Seq(V)
    BY <1>6, <1>9
  <1>13. /\ (\E V : buf \in Seq(V))
         /\ \A i \in 1..Len(buf) : buf[i].handle \in hs => buf[i].n \in Int /\ buf[i].n <= n - l
         /\ \A i, j \in 1..Len(buf) :
              i < j /\ buf[i].handle \in hs /\ buf[j].handle \in hs => buf[i].n < buf[j].n
    BY <1>3, <1>7 DEF Ordered
  <1>14. Ordered(z, n + k, buf, hs)
    BY <1>10, <1>11, <1>12, <1>13 DEF Ordered
  <1>15. QED BY <1>3, <1>4, <1>5, <1>8, <1>14

\* The first event on the way is taken.
LEMMA OrderedTaken ==
  ASSUME NEW e, NEW way, NEW n, NEW buf, NEW hs, Ordered(<<e>> \o way, n, buf, hs),
         NEW S, way \in Seq(S)
  PROVE  Ordered(way, n, buf, hs) /\ e.handle \in hs /\ e.n = n - Len(way) /\ n - Len(way) \in Int
  <1>1. PICK T : T = S \cup {e}
    OBVIOUS
  <1>2. PICK y \in Seq(T) : y = way
    BY <1>1
  <1>3. e \in T
    BY <1>1
  <1>4. <<e>> \in Seq(T)
    BY <1>3
  <1>5. PICK x \in Seq(T) : x = <<e>>
    BY <1>4
  <1>6. PICK z : z = x \o y
    OBVIOUS
  <1>7. Len(x) = 1 /\ x[1] = e
    BY <1>5
  <1>8. PICK l \in Nat : l = Len(y)
    OBVIOUS
  <1>9. Len(z) = 1 + l
    <2>1. Len(z) = Len(x) + Len(y)
      BY <1>6
    <2>2. QED BY <1>7, <1>8, <2>1
  <1>10. z[1] = e /\ \A i \in 1..l : z[1 + i] = y[i]
    <2>1. /\ \A i \in 1..Len(x) : z[i] = x[i]
          /\ \A i \in 1..Len(y) : z[Len(x) + i] = y[i]
      BY <1>6, Concatenation
    <2>2. QED BY <1>7, <1>8, <2>1
  <1>11. Ordered(z, n, buf, hs)
    BY <1>2, <1>5, <1>6
  <1>12. n \in Int
    BY <1>11 DEF Ordered
  <1>13. \A i \in 1..1 + l : z[i].n = n - (1 + l) + i /\ z[i].handle \in hs
    BY <1>9, <1>11 DEF Ordered
  <1>14. e.n = n - l /\ e.handle \in hs
    <2>1. 1 \in 1..1 + l /\ n - (1 + l) + 1 = n - l
      BY <1>12
    <2>2. QED BY <1>10, <1>13, <2>1
  <1>15. ASSUME NEW i \in 1..l PROVE y[i].n = n - l + i /\ y[i].handle \in hs
    <2>1. 1 + i \in 1..1 + l /\ n - (1 + l) + (1 + i) = n - l + i
      BY <1>12
    <2>2. QED BY <1>10, <1>13, <2>1
  <1>16. ASSUME NEW i \in 1..Len(buf), buf[i].handle \in hs PROVE buf[i].n \in Int /\ buf[i].n <= n - l
    <2>1. buf[i].n \in Int /\ buf[i].n <= n - (1 + l)
      BY <1>9, <1>11, <1>16 DEF Ordered
    <2>2. QED BY <1>12, <2>1
  <1>17. /\ (\E V : buf \in Seq(V))
         /\ \A i, j \in 1..Len(buf) :
              i < j /\ buf[i].handle \in hs /\ buf[j].handle \in hs => buf[i].n < buf[j].n
    BY <1>11 DEF Ordered
  <1>18. Ordered(y, n, buf, hs)
    BY <1>8, <1>12, <1>15, <1>16, <1>17 DEF Ordered
  <1>19. QED BY <1>2, <1>8, <1>12, <1>14, <1>18

\* An event is reported: one of another driver, or the last one taken.
LEMMA OrderedReported ==
  ASSUME NEW e, NEW way, NEW n, NEW buf, NEW hs, Ordered(way, n, buf, hs),
         e.handle \in hs => /\ e.n \in Int /\ e.n <= n - Len(way)
                            /\ \A i \in 1..Len(buf) : buf[i].handle \in hs => buf[i].n < e.n
  PROVE  Ordered(way, n, Append(buf, e), hs)
  <1>1. PICK S : buf \in Seq(S)
    BY DEF Ordered
  <1>2. PICK T : T = S \cup {e}
    OBVIOUS
  <1>3. PICK x \in Seq(T) : x = buf
    BY <1>1, <1>2
  <1>4. e \in T
    BY <1>2
  <1>5. PICK z : z = Append(x, e)
    OBVIOUS
  <1>6. PICK l \in Nat : l = Len(x)
    OBVIOUS
  <1>7. z \in Seq(T) /\ Len(z) = l + 1
    BY <1>4, <1>5, <1>6
  <1>8. z[l + 1] = e /\ \A i \in 1..l : z[i] = x[i]
    BY <1>4, <1>5, <1>6
  <1>9. \A i \in 1..l + 1 : i = l + 1 \/ i \in 1..l
    BY <1>6
  <1>10. \A i \in 1..l + 1 : z[i].handle \in hs => z[i].n \in Int /\ z[i].n <= n - Len(way)
    BY <1>3, <1>6, <1>8, <1>9 DEF Ordered
  <1>11. ASSUME NEW i \in 1..l + 1, NEW j \in 1..l + 1, i < j, z[i].handle \in hs, z[j].handle \in hs
         PROVE  z[i].n < z[j].n
    <2>1. i \in 1..l
      BY <1>11
    <2>2. CASE j = l + 1
      BY <1>3, <1>6, <1>8, <1>11, <2>1, <2>2
    <2>3. CASE j # l + 1
      <3>1. j \in 1..l
        BY <1>9, <2>3
      <3>2. x[i].handle \in hs /\ x[j].handle \in hs
        BY <1>8, <1>11, <2>1, <3>1
      <3>3. x[i].n < x[j].n
        BY <1>3, <1>6, <1>11, <2>1, <3>1, <3>2 DEF Ordered
      <3>4. QED BY <1>8, <2>1, <3>1, <3>3
    <2>4. QED BY <2>2, <2>3
  <1>12. /\ n \in Int /\ (\E V : way \in Seq(V))
         /\ \A i \in 1..Len(way) : way[i].n = n - Len(way) + i /\ way[i].handle \in hs
    BY DEF Ordered
  <1>13. Ordered(way, n, z, hs)
    BY <1>7, <1>10, <1>11, <1>12 DEF Ordered
  <1>14. QED BY <1>3, <1>5, <1>13

\* The buffer is emptied.
LEMMA OrderedEmpty ==
  ASSUME NEW way, NEW n, NEW buf, NEW hs, Ordered(way, n, buf, hs)
  PROVE  Ordered(way, n, <<>>, hs)
  <1>1. (\E S : <<>> \in Seq(S)) /\ 1..Len(<<>>) = {}
    <2>1. <<>> \in Seq({}) /\ Len(<<>>) = 0
      OBVIOUS
    <2>2. QED BY <2>1
  <1>2. /\ n \in Int /\ (\E V : way \in Seq(V))
        /\ \A i \in 1..Len(way) : way[i].n = n - Len(way) + i /\ way[i].handle \in hs
    BY DEF Ordered
  <1>3. QED BY <1>1, <1>2 DEF Ordered

-----------------------------------------------------------------------------
(* The calls. *)

\* A step of a call: what it does is about a sensor of its driver, and listening of a
\* driver about what it computes from.
CallStep ==
  {s \in [do : {"listen", "name", "write", "pipe"}, conn : D \cup {0}, handle : Handles,
          en : BOOLEAN, node : {"none", "active", "flush"}] :
     /\ s.do # "listen" => s.conn = DriverOf(s.handle)
     /\ s.do = "listen" /\ s.conn \in D => s.handle \in ToSet(Is(s.conn).needs)}

CallInv == ctl \in Seq(CallStep)

\* Every handle has a driver.
LEMMA DriverFacts ==
  ASSUME NEW h \in Handles
  PROVE  DriverOf(h) \in D /\ h \in Is(DriverOf(h)).handles
  <1>1. Handles \subseteq UNION {Is(d).handles : d \in D}
    BY EventsAssumption
  <1>2. \E d \in D : h \in Is(d).handles
    BY <1>1
  <1>3. QED BY <1>2 DEF DriverOf

\* What a driver with a pipe computes from are sensors that are used.
LEMMA NeedsAreHandles ==
  ASSUME NEW h \in Handles
  PROVE  ToSet(Is(DriverOf(h)).needs) \subseteq Handles
  BY EventsAssumption

\* Every number is reached from zero.
LEMMA SetInduction ==
  ASSUME NEW S \in SUBSET Nat, 0 \in S, \A n \in S : n + 1 \in S
  PROVE  S = Nat
  <1> SUFFICES ASSUME S # Nat PROVE FALSE
    OBVIOUS
  <1> DEFINE R == OpToRel(<, Nat)
             T == Nat \ S
  <1>1. IsWellFoundedOn(R, Nat)
    BY NatLessThanWellFounded
  <1>2. T \subseteq Nat /\ T # {}
    OBVIOUS
  <1>3. \A x, y \in Nat : <<y, x>> \in R <=> y < x
    BY DEF OpToRel
  <1> HIDE DEF R
  <1>4. PICK x \in T : \A y \in T : ~(<<y, x>> \in R)
    BY <1>1, <1>2, WFMin
  <1>5. x \in Nat /\ x # 0
    OBVIOUS
  <1>6. x - 1 \in Nat /\ (x - 1) + 1 = x /\ x - 1 < x
    BY <1>5
  <1>7. x - 1 \in T
    BY <1>6
  <1>8. QED BY <1>3, <1>4, <1>5, <1>6, <1>7

\* The recursion of FlattenSeq has a value.
LEMMA FlattenExists ==
  ASSUME NEW s
  PROVE  \A m \in Nat : \E F : F = [i \in 1..m |-> IF i = 1 THEN s[i] ELSE F[i - 1] \o s[i]]
  <1> DEFINE S == {m \in Nat : \E F : F = [i \in 1..m |-> IF i = 1 THEN s[i] ELSE F[i - 1] \o s[i]]}
  <1>1. 0 \in S
    <2>1. PICK F : F = [i \in 1..0 |-> s[i]]
      OBVIOUS
    <2>2. F = [i \in 1..0 |-> IF i = 1 THEN s[i] ELSE F[i - 1] \o s[i]]
      BY <2>1
    <2>3. QED BY <2>2
  <1>2. ASSUME NEW m \in S PROVE m + 1 \in S
    <2>1. m \in Nat /\ m + 1 \in Nat
      OBVIOUS
    <2>2. PICK F : F = [i \in 1..m |-> IF i = 1 THEN s[i] ELSE F[i - 1] \o s[i]]
      OBVIOUS
    <2>3. PICK G : G = [i \in 1..m + 1 |-> IF i = 1 THEN s[i] ELSE IF i = m + 1 THEN F[m] \o s[i] ELSE F[i]]
      OBVIOUS
    <2>4. ASSUME NEW i \in 1..m + 1 PROVE G[i] = IF i = 1 THEN s[i] ELSE G[i - 1] \o s[i]
      <3>1. CASE i = 1
        BY <2>3, <3>1
      <3>2. CASE i # 1
        <4>1. i - 1 \in 1..m /\ i - 1 \in 1..m + 1 /\ i - 1 # m + 1
          BY <2>1, <3>2
        <4>2. G[i - 1] = F[i - 1]
          <5>1. CASE i - 1 = 1
            BY <2>2, <2>3, <4>1, <5>1
          <5>2. CASE i - 1 # 1
            BY <2>3, <4>1, <5>2
          <5>3. QED BY <5>1, <5>2
        <4>3. CASE i = m + 1
          <5>1. i - 1 = m
            BY <2>1, <4>3
          <5>2. G[i] = F[m] \o s[i]
            BY <2>3, <3>2, <4>3
          <5>3. QED BY <3>2, <4>2, <5>1, <5>2
        <4>4. CASE i # m + 1
          <5>1. i \in 1..m
            BY <2>1, <4>4
          <5>2. G[i] = F[i]
            BY <2>3, <3>2, <4>4
          <5>3. F[i] = F[i - 1] \o s[i]
            BY <2>2, <3>2, <5>1
          <5>4. QED BY <3>2, <4>2, <5>2, <5>3
        <4>5. QED BY <4>3, <4>4
      <3>3. QED BY <3>1, <3>2
    <2>5. G = [i \in 1..m + 1 |-> G[i]]
      BY <2>3
    <2>6. G = [i \in 1..m + 1 |-> IF i = 1 THEN s[i] ELSE G[i - 1] \o s[i]]
      BY <2>4, <2>5
    <2>7. QED BY <2>1, <2>6
  <1>3. S \in SUBSET Nat
    OBVIOUS
  <1>4. S = Nat
    <2> HIDE DEF S
    <2>1. QED BY <1>1, <1>2, <1>3, SetInduction
  <1>5. QED BY <1>4

\* The concatenation of sequences over a set is one.
LEMMA FlattenType ==
  ASSUME NEW S, NEW s, s \in Seq(Seq(S))
  PROVE  FlattenSeq(s) \in Seq(S)
  <1>1. PICK m \in Nat : m = Len(s)
    OBVIOUS
  <1>2. PICK F : F = CHOOSE f : f = [i \in 1..m |-> IF i = 1 THEN s[i] ELSE f[i - 1] \o s[i]]
    OBVIOUS
  <1>3. F = [i \in 1..m |-> IF i = 1 THEN s[i] ELSE F[i - 1] \o s[i]]
    BY <1>2, FlattenExists
  <1> DEFINE T == {i \in Nat : i \in 1..m => F[i] \in Seq(S)}
  <1>4. 0 \in T
    OBVIOUS
  <1>5. ASSUME NEW i \in T PROVE i + 1 \in T
    <2>1. i \in Nat /\ i + 1 \in Nat
      OBVIOUS
    <2>2. SUFFICES ASSUME i + 1 \in 1..m PROVE F[i + 1] \in Seq(S)
      BY <2>1
    <2>3. s[i + 1] \in Seq(S)
      BY <1>1, <2>2
    <2>4. CASE i = 0
      <3>1. F[1] = s[1]
        BY <1>3, <2>2, <2>4
      <3>2. QED BY <2>3, <2>4, <3>1
    <2>5. CASE i # 0
      <3>1. i \in 1..m /\ i + 1 # 1 /\ (i + 1) - 1 = i
        BY <2>1, <2>2, <2>5
      <3>2. F[i] \in Seq(S)
        BY <3>1
      <3>3. F[i + 1] = F[(i + 1) - 1] \o s[i + 1]
        BY <1>3, <2>2, <3>1
      <3>4. F[i + 1] = F[i] \o s[i + 1]
        BY <3>1, <3>3
      <3>5. PICK x \in Seq(S) : x = F[i]
        BY <3>2
      <3>6. PICK y \in Seq(S) : y = s[i + 1]
        BY <2>3
      <3>7. x \o y \in Seq(S)
        OBVIOUS
      <3>8. QED BY <3>4, <3>5, <3>6, <3>7
    <2>6. QED BY <2>4, <2>5
  <1>6. T \in SUBSET Nat
    OBVIOUS
  <1>7. T = Nat
    <2> HIDE DEF T
    <2>1. QED BY <1>4, <1>5, <1>6, SetInduction
  <1>8. CASE m = 0
    <2>1. PICK T0 : T0 = Seq(S)
      OBVIOUS
    <2>2. PICK t \in Seq(T0) : t = s
      BY <2>1
    <2>3. Len(t) = 0
      BY <1>1, <1>8, <2>2
    <2>4. s = <<>>
      BY <2>2, <2>3
    <2>5. FlattenSeq(s) = <<>>
      BY <2>4 DEF FlattenSeq
    <2>6. QED BY <2>5
  <1>9. CASE m # 0
    <2>1. m \in T /\ m \in 1..m
      BY <1>7, <1>9
    <2>2. F[m] \in Seq(S)
      BY <2>1
    <2>3. s # <<>>
      BY <1>1, <1>9
    <2>4. FlattenSeq(s) = F[m]
      BY <1>1, <1>2, <2>3 DEF FlattenSeq
    <2>5. QED BY <2>2, <2>4
  <1>10. QED BY <1>8, <1>9

\* The steps of a call.
LEMMA StepForms ==
  /\ \A h \in Handles, en \in BOOLEAN : Listen(0, h, en) \in CallStep
  /\ \A h \in Handles, en \in BOOLEAN, d \in D :
       h \in ToSet(Is(d).needs) => Listen(d, h, en) \in CallStep
  /\ \A h \in Handles, node \in {"active", "flush"} : Name(node, h) \in CallStep
  /\ \A h \in Handles, en \in BOOLEAN, node \in {"active", "flush"} : Write(node, h, en) \in CallStep
  /\ \A h \in Handles : Pipe(h) \in CallStep
  <1>1. 0 \notin D
    <2>1. Drivers \in Seq(DOMAIN Driver)
      BY EventsAssumption
    <2>2. QED BY <2>1 DEF D
  <1>2. \A h \in Handles : DriverOf(h) \in D
    BY DriverFacts
  <1>3. ASSUME NEW h \in Handles, NEW en \in BOOLEAN PROVE Listen(0, h, en) \in CallStep
    BY <1>1 DEF CallStep, Listen
  <1>4. ASSUME NEW h \in Handles, NEW en \in BOOLEAN, NEW d \in D, h \in ToSet(Is(d).needs)
        PROVE  Listen(d, h, en) \in CallStep
    BY <1>4 DEF CallStep, Listen
  <1>5. ASSUME NEW h \in Handles, NEW node \in {"active", "flush"} PROVE Name(node, h) \in CallStep
    BY <1>2 DEF CallStep, Name
  <1>6. ASSUME NEW h \in Handles, NEW en \in BOOLEAN, NEW node \in {"active", "flush"}
        PROVE  Write(node, h, en) \in CallStep
    BY <1>2 DEF CallStep, Write
  <1>7. ASSUME NEW h \in Handles PROVE Pipe(h) \in CallStep
    BY <1>2 DEF CallStep, Pipe
  <1>8. QED BY <1>3, <1>4, <1>5, <1>6, <1>7

\* A sequence of one or two.
LEMMA ShortSequences ==
  ASSUME NEW S, NEW a \in S
  PROVE  <<a>> \in Seq(S) /\ \A b \in S : <<a, b>> \in Seq(S)
  <1>1. <<a>> \in Seq(S)
    OBVIOUS
  <1>2. ASSUME NEW b \in S PROVE <<a, b>> \in Seq(S)
    OBVIOUS
  <1>3. QED BY <1>1, <1>2

\* The steps of a call for one sensor's node.
LEMMA EnableNodeType ==
  ASSUME NEW S, NEW c, NEW h, NEW en,
         Listen(c, h, en) \in S, Name("active", h) \in S, Write("active", h, en) \in S
  PROVE  EnableNode(c, h, en) \in Seq(S)
  <1>1. PICK a \in S : a = Listen(c, h, en)
    OBVIOUS
  <1>2. PICK b \in S : b = Name("active", h)
    OBVIOUS
  <1>3. PICK w \in S : w = Write("active", h, en)
    OBVIOUS
  <1>4. CASE Others(c, h)
    <2>1. EnableNode(c, h, en) = <<a>> \o <<>>
      BY <1>1, <1>4 DEF EnableNode
    <2>2. QED BY <2>1
  <1>5. CASE ~Others(c, h)
    <2>1. EnableNode(c, h, en) = <<a>> \o <<b, w>>
      BY <1>1, <1>2, <1>3, <1>5 DEF EnableNode
    <2>2. QED BY <2>1
  <1>6. QED BY <1>4, <1>5

\* What a driver computes from is a sequence.
LEMMA NeedsForm ==
  ASSUME NEW d \in D
  PROVE  /\ \E S : Is(d).needs \in Seq(S)
         /\ \A i \in DOMAIN Is(d).needs : Is(d).needs[i] \in ToSet(Is(d).needs)
  <1>1. Drivers[d] \in DOMAIN Driver
    <2>1. Drivers \in Seq(DOMAIN Driver)
      BY EventsAssumption
    <2>2. QED BY <2>1 DEF D
  <1>2. \A x \in DOMAIN Driver : Driver[x].needs \in {<<>>, <<"acc", "mag">>, <<"detector">>}
    BY DEF Driver, AccelerationSensor, MagneticSensor, HwGyroscopeSensor, AmbiLightSensor,
       ProximitySensor, PressureSensor, StepCounterSensor, PedometerSensor, ActivitySensor,
       SituationSensor, ScpFusionSensor, BiometricSensor, VirtGyroscopeSensor, WakeUpSetSensor,
       Device, Computed
  <1>3. PICK s : s = Is(d).needs
    OBVIOUS
  <1>4. s \in {<<>>, <<"acc", "mag">>, <<"detector">>}
    BY <1>1, <1>2, <1>3 DEF Is
  <1>5. \E S : s \in Seq(S)
    <2>1. <<>> \in Seq({})
      OBVIOUS
    <2>2. <<"acc", "mag">> \in Seq({"acc", "mag"}) /\ <<"detector">> \in Seq({"detector"})
      BY ShortSequences
    <2>3. QED BY <1>4, <2>1, <2>2
  <1>6. \A i \in DOMAIN s : s[i] \in ToSet(s)
    BY DEF ToSet
  <1>7. QED BY <1>3, <1>5, <1>6

\* The steps of an activation: those of the sensor's node, or of the nodes of what it is
\* computed from.
LEMMA ActivationType ==
  ASSUME NEW S, NEW h \in Handles, NEW en, Listen(0, h, en) \in S,
         ~HasPipe(DriverOf(h)) => Name("active", h) \in S /\ Write("active", h, en) \in S,
         \A x \in ToSet(Is(DriverOf(h)).needs) :
           /\ Listen(DriverOf(h), x, en) \in S
           /\ Name("active", x) \in S /\ Write("active", x, en) \in S
  PROVE  Activation(h, en) \in Seq(S)
  <1>1. PICK d \in D : d = DriverOf(h)
    BY DriverFacts
  <1>2. CASE ~HasPipe(d)
    <2>1. Activation(h, en) = EnableNode(0, h, en)
      BY <1>1, <1>2 DEF Activation
    <2>2. QED BY <1>1, <1>2, <2>1, EnableNodeType
  <1>3. CASE HasPipe(d)
    <2>1. PICK needs : needs = Is(d).needs
      OBVIOUS
    <2>2. PICK T : needs \in Seq(T)
      BY <2>1, NeedsForm
    <2>3. \A i \in DOMAIN needs : needs[i] \in ToSet(Is(d).needs)
      BY <2>1, NeedsForm
    <2>4. PICK s : s = [i \in DOMAIN needs |-> EnableNode(d, needs[i], en)]
      OBVIOUS
    <2>5. ASSUME NEW i \in DOMAIN needs PROVE s[i] \in Seq(S)
      <3>1. EnableNode(d, needs[i], en) \in Seq(S)
        BY <1>1, <2>3, EnableNodeType
      <3>2. QED BY <2>4, <3>1
    <2>6. s \in Seq(Seq(S))
      BY <2>2, <2>4, <2>5
    <2>7. PICK t \in Seq(S) : t = FlattenSeq(s)
      BY <2>6, FlattenType
    <2>8. PICK a \in S : a = Listen(0, h, en)
      OBVIOUS
    <2>9. Activation(h, en) = <<a>> \o t
      BY <1>1, <1>3, <2>1, <2>4, <2>7, <2>8 DEF Activation
    <2>10. <<a>> \in Seq(S)
      BY ShortSequences
    <2>11. QED BY <2>9, <2>10
  <1>4. QED BY <1>2, <1>3

\* The first step of a call, and what is left behind it.
LEMMA CallHead ==
  ASSUME CallInv, ctl # <<>>
  PROVE  Head(ctl) \in CallStep /\ Tail(ctl) \in Seq(CallStep)
  BY DEF CallInv

\* Every step keeps the form of the call.
LEMMA StepKeepsCall == ASSUME CallInv, [Next]_vars PROVE CallInv'
  <1>1. CASE ctl' = ctl
    BY <1>1 DEF CallInv, CallStep
  <1>2. CASE Control
    <2>1. ctl # <<>> /\ ctl' = Tail(ctl)
      BY <1>2 DEF Control, ChangeHandles, NameNode, WriteNode, WritePipe, Left
    <2>2. QED BY <2>1, CallHead DEF CallInv, CallStep
  <1>3. ASSUME NEW h \in Handles, NEW en \in BOOLEAN, Activate(h, en) PROVE CallInv'
    <2>1. ctl' = Activation(h, en)
      BY <1>3 DEF Activate
    <2>2. ASSUME NEW x \in ToSet(Is(DriverOf(h)).needs)
          PROVE  /\ Listen(DriverOf(h), x, en) \in CallStep
                 /\ Name("active", x) \in CallStep /\ Write("active", x, en) \in CallStep
      <3>1. x \in Handles /\ DriverOf(h) \in D
        BY DriverFacts, NeedsAreHandles
      <3>2. QED BY <3>1, StepForms
    <2>3. /\ Listen(0, h, en) \in CallStep
          /\ Name("active", h) \in CallStep /\ Write("active", h, en) \in CallStep
      BY StepForms
    <2>4. Activation(h, en) \in Seq(CallStep)
      BY <2>2, <2>3, ActivationType
    <2>5. QED BY <2>1, <2>4 DEF CallInv, CallStep
  <1>4. ASSUME NEW h \in Handles, Flush(h) PROVE CallInv'
    <2>1. ctl' \in Seq(CallStep)
      <3>1. PICK p \in CallStep : p = Pipe(h)
        BY StepForms
      <3>2. PICK b \in CallStep : b = Name("flush", h)
        BY StepForms
      <3>3. PICK w \in CallStep : w = Write("flush", h, FALSE)
        BY StepForms
      <3>4. ctl' = <<p>> \/ ctl' = <<b, w>>
        BY <1>4, <3>1, <3>2, <3>3 DEF Flush
      <3>5. <<p>> \in Seq(CallStep) /\ <<b, w>> \in Seq(CallStep)
        BY ShortSequences
      <3>6. QED BY <3>4, <3>5
    <2>2. QED BY <2>1 DEF CallInv, CallStep
  <1>5. CASE (\E h \in Handles : Raise(h)) \/ PollEvent \/ Poller \/ UNCHANGED vars
    BY <1>1, <1>5 DEF Raise, PollEvent, Poller, ComputeCountForEachFd, ReadEvents, NoMoreDrivers,
       TakeEvent, NameOneShot, DisableOneShot, EndRead, PollFds, ParsePollData, vars
  <1>6. QED BY <1>2, <1>3, <1>4, <1>5 DEF Next

-----------------------------------------------------------------------------
(* Every step keeps the order of the events. *)

IsSeq(s) == \E S : s \in Seq(S)

\* Sequences over any elements are concatenated associatively.
LEMMA Associative ==
  ASSUME NEW a, NEW b, NEW c, IsSeq(a), IsSeq(b), IsSeq(c)
  PROVE  IsSeq(a \o b) /\ (a \o b) \o c = a \o (b \o c)
  <1>1. PICK A : a \in Seq(A)
    BY DEF IsSeq
  <1>2. PICK B : b \in Seq(B)
    BY DEF IsSeq
  <1>3. PICK C : c \in Seq(C)
    BY DEF IsSeq
  <1>4. PICK S : S = A \cup B \cup C
    OBVIOUS
  <1>5. a \in Seq(S)
    BY <1>1, <1>4
  <1>6. b \in Seq(S)
    BY <1>2, <1>4
  <1>7. c \in Seq(S)
    BY <1>3, <1>4
  <1>8. a \o b \in Seq(S)
    BY <1>5, <1>6
  <1>9. (a \o b) \o c = a \o (b \o c)
    BY <1>5, <1>6, <1>7, ConcatAssociative
  <1>10. QED BY <1>8, <1>9 DEF IsSeq

\* One element as a sequence, and at the end of one.
LEMMA One ==
  ASSUME NEW s, NEW e, IsSeq(s)
  PROVE  IsSeq(<<e>>) /\ Append(s, e) = s \o <<e>> /\ IsSeq(Append(s, e)) /\ <<e>> \in Seq({e})
         /\ Len(<<e>>) = 1 /\ <<e>>[1] = e
  <1>1. PICK S : s \in Seq(S)
    BY DEF IsSeq
  <1>2. PICK T : T = S \cup {e}
    OBVIOUS
  <1>3. s \in Seq(T) /\ e \in T
    BY <1>1, <1>2
  <1>4. Append(s, e) = s \o <<e>>
    BY <1>3, AppendIsConcat
  <1>5. Append(s, e) \in Seq(T)
    BY <1>3
  <1>6. <<e>> \in Seq({e}) /\ Len(<<e>>) = 1 /\ <<e>>[1] = e
    OBVIOUS
  <1>7. QED BY <1>4, <1>5, <1>6 DEF IsSeq

\* The content of a reader is a sequence.
LEMMA ContentIsSequence == ASSUME NEW r, WellFormed(r) PROVE IsSeq(Content(r))
  <1>1. PICK a \in Nat : a = Available(r)
    BY RingSizeType DEF WellFormed, Agree, Available
  <1>2. PICK c : c = Content(r)
    OBVIOUS
  <1>3. c = [i \in 1..a |-> r.cells[(r.curr + i - 1) % RingSize]]
    BY <1>1, <1>2 DEF Content
  <1>4. c = [i \in 1..a |-> c[i]]
    BY <1>3
  <1>5. c \in Seq({c[i] : i \in 1..a})
    BY <1>4
  <1>6. QED BY <1>2, <1>5 DEF IsSeq

\* The events on their way through a driver.
Way(d) == Content(ring[d]) \o fd[d]

OrderInv ==
  /\ sent = [d \in D |-> sent[d]] /\ (Reading => poll.drv \in D)
  /\ \A d \in D : Ordered(Way(d), sent[d], buffer, Is(d).handles)

\* The parts of a way are sequences.
LEMMA WayParts ==
  ASSUME RingInv, NEW d \in D
  PROVE  IsSeq(Content(ring[d])) /\ IsSeq(fd[d]) /\ IsSeq(Way(d)) /\ WellFormed(ring[d])
  <1>1. WellFormed(ring[d]) /\ IsSeq(fd[d])
    BY DEF RingInv, IsSeq
  <1>2. IsSeq(Content(ring[d]))
    BY <1>1, ContentIsSequence
  <1>3. Content(ring[d]) \o fd[d] \in {Content(ring[d]) \o fd[d]} /\ IsSeq(Content(ring[d]) \o fd[d])
    BY <1>1, <1>2, Associative
  <1>4. QED BY <1>1, <1>2, <1>3 DEF Way

\* An event is sent.
LEMMA SendKeepsOrder ==
  ASSUME RingInv, OrderInv, NEW h \in Handles, NEW act,
         Send(DriverOf(h), h, act) \/ UNCHANGED <<fd, sent>>,
         UNCHANGED <<ring, buffer>>
  PROVE  sent' = [d \in D |-> sent'[d]]
         /\ \A d \in D : Ordered(Way(d), sent[d], buffer, Is(d).handles)'
  <1>1. CASE UNCHANGED <<fd, sent>>
    BY <1>1 DEF OrderInv, Way
  <1>2. CASE ~UNCHANGED <<fd, sent>>
    <2>1. PICK c \in D : c = DriverOf(h) /\ h \in Is(c).handles
      BY DriverFacts
    <2>2. PICK e : e = Event(h, act, sent[c] + 1)
      OBVIOUS
    <2>3. /\ fd' = [fd EXCEPT ![c] = Append(@, e)] /\ sent' = [sent EXCEPT ![c] = @ + 1]
      BY <1>2, <2>1, <2>2 DEF Send
    <2>4. /\ fd'[c] = Append(fd[c], e) /\ sent'[c] = sent[c] + 1
          /\ \A d \in D \ {c} : fd'[d] = fd[d] /\ sent'[d] = sent[d]
          /\ sent' = [d \in D |-> sent'[d]]
      BY <2>1, <2>3 DEF RingInv, OrderInv
    <2>5. ASSUME NEW d \in D PROVE Ordered(Way(d), sent[d], buffer, Is(d).handles)'
      <3>1. CASE d # c
        BY <2>4, <3>1 DEF OrderInv, Way
      <3>2. CASE d = c
        <4>1. PICK way : way = Way(c)
          OBVIOUS
        <4>2. PICK n : n = sent[c]
          OBVIOUS
        <4>3. Ordered(way, n, buffer, Is(c).handles)
          BY <2>1, <4>1, <4>2 DEF OrderInv
        <4>4. IsSeq(Content(ring[c])) /\ IsSeq(fd[c])
          BY <2>1, WayParts
        <4>5. Append(fd[c], e) = fd[c] \o <<e>> /\ IsSeq(<<e>>)
          BY <4>4, One
        <4>6. way \o <<e>> = Content(ring[c]) \o (fd[c] \o <<e>>)
          <5>1. PICK x : x = Content(ring[c]) /\ IsSeq(x)
            BY <4>4
          <5>2. PICK y : y = fd[c] /\ IsSeq(y)
            BY <4>4
          <5>3. PICK z : z = <<e>> /\ IsSeq(z)
            BY <4>5
          <5>4. (x \o y) \o z = x \o (y \o z)
            <6>1. IsSeq(x)
              BY <5>1
            <6>2. IsSeq(y)
              BY <5>2
            <6>3. IsSeq(z)
              BY <5>3
            <6>4. QED BY <6>1, <6>2, <6>3, Associative
          <5>5. QED BY <4>1, <5>1, <5>2, <5>3, <5>4 DEF Way
        <4>7. Way(c)' = way \o <<e>>
          BY <2>4, <4>5, <4>6 DEF Way
        <4>8. PICK s : s = <<e>>
          OBVIOUS
        <4>9. s \in Seq({e}) /\ Len(s) = 1 /\ s[1] = e
          BY <4>8
        <4>10. e.n = n + 1 /\ e.handle \in Is(c).handles
          BY <2>1, <2>2, <4>2 DEF Event
        <4>11. \A i \in 1..Len(s) : s[i].n = n + i /\ s[i].handle \in Is(c).handles
          BY <4>9, <4>10
        <4>12. Ordered(way \o s, n + Len(s), buffer, Is(c).handles)
          BY <4>3, <4>9, <4>11, OrderedGrows
        <4>13. n + Len(s) = sent'[c]
          BY <2>4, <4>2, <4>9
        <4>14. QED BY <3>2, <4>7, <4>8, <4>12, <4>13
      <3>3. QED BY <3>1, <3>2
    <2>6. QED BY <2>4, <2>5
  <1>3. QED BY <1>1, <1>2

\* fill() moves events from the descriptor to the ring.
LEMMA ReadKeepsOrder ==
  ASSUME IInv, RingInv, OrderInv, ReadEvents
  PROVE  OrderInv'
  <1>1. PICK d : d = CHOOSE e \in Next1 : \A f \in Next1 : e <= f
    OBVIOUS
  <1>2. d \in D
    <2>1. Next1 # {}
      BY DEF ReadEvents
    <2>2. D \subseteq Nat
      <3>1. Drivers \in Seq(DOMAIN Driver)
        BY EventsAssumption
      <3>2. QED BY <3>1 DEF D
    <2>3. Next1 \subseteq D
      BY DEF Next1, Pending
    <2> DEFINE R == OpToRel(<, Nat)
    <2>4. IsWellFoundedOn(R, Nat)
      BY NatLessThanWellFounded
    <2>5. \A x, y \in Nat : <<y, x>> \in R <=> y < x
      BY DEF OpToRel
    <2> HIDE DEF R
    <2>6. PICK x \in Next1 : \A y \in Next1 : ~(<<y, x>> \in R)
      BY <2>1, <2>2, <2>3, <2>4, WFMin
    <2>7. ASSUME NEW y \in Next1 PROVE x <= y
      <3>1. x \in Nat /\ y \in Nat
        BY <2>2, <2>3
      <3>2. ~(y < x)
        BY <2>5, <2>6, <3>1
      <3>3. QED BY <3>1, <3>2
    <2>8. d \in Next1
      BY <1>1, <2>6, <2>7
    <2>9. QED BY <2>3, <2>8
  <1>3. PICK s : s = SubSeq(fd[d], 1, IF Len(fd[d]) < ring[d].free THEN Len(fd[d]) ELSE ring[d].free)
    OBVIOUS
  <1>4. /\ ring' = [ring EXCEPT ![d] = Fill(ring[d], s)]
        /\ fd' = [fd EXCEPT ![d] = SubSeq(fd[d], Len(s) + 1, Len(fd[d]))]
        /\ poll' = [poll EXCEPT !.at = "read", !.drv = d, !.left = poll.share]
        /\ sent' = sent /\ buffer' = buffer
    BY <1>1, <1>3 DEF ReadEvents
  <1>5. /\ ring'[d] = Fill(ring[d], s) /\ fd'[d] = SubSeq(fd[d], Len(s) + 1, Len(fd[d]))
        /\ \A c \in D \ {d} : ring'[c] = ring[c] /\ fd'[c] = fd[c]
    BY <1>2, <1>4 DEF RingInv
  <1>6. Way(d)' = Way(d)
    <2>1. PICK S : fd[d] \in Seq(S)
      BY <1>2 DEF RingInv
    <2>2. WellFormed(ring[d]) /\ ring[d].free \in Nat /\ IsSeq(Content(ring[d]))
      BY <1>2, WayParts DEF WellFormed, Agree
    <2>3. PICK f \in Seq(S) : f = fd[d]
      BY <2>1
    <2>4. PICK n : n = IF Len(f) < ring[d].free THEN Len(f) ELSE ring[d].free
      OBVIOUS
    <2>5. n \in 0..Len(f) /\ n <= ring[d].free
      BY <2>2, <2>4
    <2>6. s = SubSeq(f, 1, n)
      BY <1>3, <2>3, <2>4
    <2>7. PICK rest : rest = SubSeq(f, n + 1, Len(f))
      OBVIOUS
    <2>8. s \in Seq(S) /\ Len(s) = n /\ rest \in Seq(S)
      BY <2>5, <2>6, <2>7, Parts
    <2>9. s \o rest = f
      <3>1. SubSeq(f, 1, n) \o SubSeq(f, n + 1, Len(f)) = SubSeq(f, 1, Len(f))
        <4>1. 1 \in 1..Len(f) + 1 /\ n \in 1 - 1..Len(f) /\ Len(f) \in n..Len(f)
          BY <2>5
        <4>2. QED BY <4>1, ConcatAdjacentSubSeq
      <3>2. SubSeq(f, 1, Len(f)) = f
        BY SubSeqFull
      <3>3. QED BY <2>6, <2>7, <3>1, <3>2
    <2>10. Content(Fill(ring[d], s)) = Content(ring[d]) \o s
      BY <2>2, <2>5, <2>8, FillAppends
    <2>11. Content(ring'[d]) = Content(ring[d]) \o s /\ fd'[d] = rest
      BY <1>5, <2>3, <2>7, <2>8, <2>10
    <2>12. (Content(ring[d]) \o s) \o rest = Content(ring[d]) \o (s \o rest)
      BY <2>2, <2>8, Associative DEF IsSeq
    <2>13. QED BY <2>3, <2>9, <2>11, <2>12 DEF Way
  <1>7. \A c \in D : Way(c)' = Way(c)
    BY <1>5, <1>6 DEF Way
  <1>8. \A c \in D : Ordered(Way(c), sent[c], buffer, Is(c).handles)'
    BY <1>4, <1>7 DEF OrderInv
  <1>9. poll'.drv = d
    BY <1>4 DEF IInv, Shape
  <1>10. QED BY <1>2, <1>4, <1>8, <1>9 DEF OrderInv

\* next() takes an event, which is kept or reported.
LEMMA TakeKeepsOrder ==
  ASSUME IInv, RingInv, OrderInv, TakeEvent
  PROVE  OrderInv'
  <1>1. PICK d : d = poll.drv
    OBVIOUS
  <1>2. d \in D
    BY <1>1 DEF OrderInv, Reading, TakeEvent
  <1>3. PICK e : e = ring[d].cells[ring[d].curr]
    OBVIOUS
  <1>4. /\ Available(ring[d]) > 0 /\ ring' = [ring EXCEPT ![d] = Advance(ring[d])]
        /\ fd' = fd /\ sent' = sent
        /\ (buffer' = buffer \/ buffer' = Append(buffer, e))
    BY <1>1, <1>3 DEF TakeEvent, pendingEvent, Current
  <1>5. poll'.drv = d
    BY <1>1 DEF TakeEvent, IInv, Shape
  <1>6. /\ ring'[d] = Advance(ring[d]) /\ \A c \in D \ {d} : ring'[c] = ring[c]
    BY <1>2, <1>4 DEF RingInv
  <1>7. PICK way : way = Way(d)'
    OBVIOUS
  <1>8. Way(d) = <<e>> \o way /\ IsSeq(way)
    <2>1. WellFormed(ring[d])
      BY <1>2, WayParts
    <2>2. PICK x : x = Content(ring'[d]) /\ IsSeq(x)
      BY <1>4, <1>6, <2>1, ReaderForm, ContentIsSequence
    <2>3. PICK f : f = fd[d] /\ IsSeq(f)
      BY <1>2, WayParts
    <2>4. Content(ring[d]) = <<e>> \o x
      BY <1>3, <1>4, <1>6, <2>1, <2>2, AdvanceTakesHead
    <2>5. PICK z : z = <<e>>
      OBVIOUS
    <2>6. IsSeq(z)
      <3>1. IsSeq(x)
        BY <2>2
      <3>2. QED BY <2>5, <3>1, One
    <2>7. IsSeq(x) /\ IsSeq(f)
      BY <2>2, <2>3
    <2>8. (z \o x) \o f = z \o (x \o f)
      BY <2>6, <2>7, Associative
    <2>9. IsSeq(x \o f)
      BY <2>7, Associative
    <2>10. way = x \o f
      BY <1>4, <1>7, <2>2, <2>3 DEF Way
    <2>11. QED BY <2>3, <2>4, <2>5, <2>8, <2>9, <2>10 DEF Way
  <1>9. PICK n : n = sent[d]
    OBVIOUS
  <1>10. PICK hs : hs = Is(d).handles
    OBVIOUS
  <1>11. PICK buf : buf = buffer
    OBVIOUS
  <1>12. Ordered(<<e>> \o way, n, buf, hs)
    BY <1>2, <1>8, <1>9, <1>10, <1>11 DEF OrderInv
  <1>13. PICK S : way \in Seq(S)
    BY <1>8 DEF IsSeq
  <1>14. Ordered(way, n, buf, hs) /\ e.handle \in hs /\ e.n = n - Len(way) /\ n - Len(way) \in Int
    BY <1>12, <1>13, OrderedTaken
  <1>15. \A i \in 1..Len(buf) : buf[i].handle \in hs => buf[i].n < e.n
    <2>1. ASSUME NEW i \in 1..Len(buf), buf[i].handle \in hs PROVE buf[i].n < e.n
      <3>1. PICK z : z = <<e>> \o way
        OBVIOUS
      <3>2. buf[i].n \in Int /\ buf[i].n <= n - Len(z)
        BY <1>12, <2>1, <3>1 DEF Ordered
      <3>3. Len(z) = Len(way) + 1 /\ Len(way) \in Nat
        <4>1. PICK T : T = S \cup {e}
          OBVIOUS
        <4>2. e \in T
          BY <4>1
        <4>3. <<e>> \in Seq(T) /\ Len(<<e>>) = 1
          BY <4>2
        <4>4. PICK x \in Seq(T) : x = <<e>> /\ Len(x) = 1
          BY <4>3
        <4>5. PICK y \in Seq(T) : y = way
          BY <1>13, <4>1
        <4>6. z = x \o y
          BY <3>1, <4>4, <4>5
        <4>7. Len(z) = Len(x) + Len(y)
          BY <4>6, Concatenation
        <4>8. Len(y) \in Nat
          OBVIOUS
        <4>9. QED BY <4>4, <4>5, <4>7, <4>8
      <3>4. n \in Int
        BY <1>12 DEF Ordered
      <3>5. QED BY <1>14, <3>2, <3>3, <3>4
    <2>2. QED BY <2>1
  <1>16. Ordered(way, n, Append(buf, e), hs)
    BY <1>14, <1>15, OrderedReported
  <1>17. Ordered(Way(d), sent[d], buffer, Is(d).handles)'
    <2>1. CASE buffer' = buffer
      BY <1>4, <1>7, <1>9, <1>10, <1>11, <1>14, <2>1 DEF Is
    <2>2. CASE buffer' = Append(buffer, e)
      BY <1>4, <1>7, <1>9, <1>10, <1>11, <1>16, <2>2 DEF Is
    <2>3. QED BY <1>4, <2>1, <2>2
  <1>18. ASSUME NEW c \in D, c # d PROVE Ordered(Way(c), sent[c], buffer, Is(c).handles)'
    <2>1. PICK o : o = Way(c)
      OBVIOUS
    <2>2. PICK m : m = sent[c]
      OBVIOUS
    <2>3. PICK cs : cs = Is(c).handles
      OBVIOUS
    <2>4. Ordered(o, m, buf, cs)
      BY <1>11, <2>1, <2>2, <2>3 DEF OrderInv
    <2>5. e.handle \notin cs
      <3>1. Is(c).handles \cap Is(d).handles = {}
        BY <1>2, <1>18, EventsAssumption
      <3>2. QED BY <1>10, <1>14, <2>3, <3>1
    <2>6. Ordered(o, m, Append(buf, e), cs)
      BY <2>4, <2>5, OrderedReported
    <2>7. Way(c)' = o /\ sent'[c] = m
      BY <1>4, <1>6, <1>18, <2>1, <2>2 DEF Way
    <2>8. CASE buffer' = buffer
      BY <1>11, <2>3, <2>4, <2>7, <2>8
    <2>9. CASE buffer' = Append(buffer, e)
      BY <1>11, <2>3, <2>6, <2>7, <2>9
    <2>10. QED BY <1>4, <2>8, <2>9
  <1>19. sent' = [c \in D |-> sent'[c]]
    BY <1>4 DEF OrderInv
  <1>20. QED BY <1>2, <1>5, <1>17, <1>18, <1>19 DEF OrderInv

\* A driver reports its own sensor.
LEMMA FeedForm ==
  ASSUME NEW d \in D
  PROVE  \A i \in DOMAIN Feed(d) :
           Feed(d)[i].n = sent[d] + i /\ Feed(d)[i].handle \in Is(d).handles
  <1>1. Drivers[d] \in DOMAIN Driver
    <2>1. Drivers \in Seq(DOMAIN Driver)
      BY EventsAssumption
    <2>2. QED BY <2>1 DEF D
  <1>2. /\ "acc" \in AccelerationSensor.handles /\ "mag" \in MagneticSensor.handles
        /\ "gyro" \in HwGyroscopeSensor.handles /\ "light" \in AmbiLightSensor.handles
        /\ "proximity" \in ProximitySensor.handles /\ "pressure" \in PressureSensor.handles
        /\ "counter" \in StepCounterSensor.handles /\ "pedometer" \in PedometerSensor.handles
        /\ "activity" \in ActivitySensor.handles /\ "wake" \in SituationSensor.handles
        /\ "rv" \in ScpFusionSensor.handles /\ "ekg" \in BiometricSensor.handles
        /\ "gyro" \in VirtGyroscopeSensor.handles /\ "wakeup" \in WakeUpSetSensor.handles
    BY DEF AccelerationSensor, MagneticSensor, HwGyroscopeSensor, AmbiLightSensor,
       ProximitySensor, PressureSensor, StepCounterSensor, PedometerSensor, ActivitySensor,
       SituationSensor, ScpFusionSensor, BiometricSensor, VirtGyroscopeSensor, WakeUpSetSensor,
       Device, Computed
  <1>3. \A x \in DOMAIN Driver :
          Driver[x] \in {AccelerationSensor, MagneticSensor, HwGyroscopeSensor, AmbiLightSensor,
                        ProximitySensor, PressureSensor, StepCounterSensor, PedometerSensor,
                        ActivitySensor, SituationSensor, ScpFusionSensor, BiometricSensor,
                        VirtGyroscopeSensor, WakeUpSetSensor}
    BY DEF Driver
  <1>4. \A x \in DOMAIN Driver : \E h : h \in Driver[x].handles
    BY <1>2, <1>3
  <1>5. \E h : h \in Is(d).handles
    BY <1>1, <1>4 DEF Is
  <1>6. PICK h : h = CHOOSE x \in Is(d).handles : TRUE
    OBVIOUS
  <1>7. h \in Is(d).handles
    BY <1>5, <1>6
  <1>8. PICK f : f = Feed(d)
    OBVIOUS
  <1>9. ASSUME NEW i \in DOMAIN f PROVE f[i] = Event(h, "data", sent[d] + i)
    BY <1>6, <1>8 DEF Feed
  <1>10. ASSUME NEW i \in DOMAIN f PROVE f[i].n = sent[d] + i /\ f[i].handle \in Is(d).handles
    BY <1>7, <1>9 DEF Event
  <1>11. QED BY <1>8, <1>10

\* The buffer is distributed, and drivers send what they compute from it.
LEMMA ParseKeepsOrder ==
  ASSUME IInv, RingInv, OrderInv, ParsePollData
  PROVE  OrderInv'
  <1>1. /\ ring' = ring /\ buffer' = <<>> /\ fd' = [d \in D |-> fd[d] \o Feed(d)]
        /\ sent' = [d \in D |-> sent[d] + Len(Feed(d))]
        /\ (poll'.at = "share" \/ poll'.at = "out")
    BY DEF ParsePollData, Out
  <1>2. ASSUME NEW d \in D PROVE Ordered(Way(d), sent[d], buffer, Is(d).handles)'
    <2>1. PICK f : f = Feed(d)
      OBVIOUS
    <2>2. PICK S : f \in Seq(S)
      BY <2>1, FeedIsSequence
    <2>3. \A i \in 1..Len(f) : f[i].n = sent[d] + i /\ f[i].handle \in Is(d).handles
      <3>1. \A i \in DOMAIN f : f[i].n = sent[d] + i /\ f[i].handle \in Is(d).handles
        BY <2>1, FeedForm
      <3>2. DOMAIN f = 1..Len(f)
        BY <2>2
      <3>3. QED BY <3>1, <3>2
    <2>4. PICK way : way = Way(d)
      OBVIOUS
    <2>5. PICK n : n = sent[d]
      OBVIOUS
    <2>6. PICK buf : buf = buffer
      OBVIOUS
    <2>7. PICK hs : hs = Is(d).handles
      OBVIOUS
    <2>8. Ordered(way, n, buf, hs)
      BY <2>4, <2>5, <2>6, <2>7 DEF OrderInv
    <2>9. Ordered(way \o f, n + Len(f), buf, hs)
      <3>1. \A i \in 1..Len(f) : f[i].n = n + i /\ f[i].handle \in hs
        BY <2>3, <2>5, <2>7
      <3>2. QED BY <2>2, <2>8, <3>1, OrderedGrows
    <2>10. Ordered(way \o f, n + Len(f), <<>>, hs)
      BY <2>9, OrderedEmpty
    <2>11. Way(d)' = way \o f
      <3>1. PICK x : x = Content(ring[d])
        OBVIOUS
      <3>2. PICK y : y = fd[d]
        OBVIOUS
      <3>3. IsSeq(x)
        BY <3>1, WayParts
      <3>4. IsSeq(y)
        BY <3>2, WayParts
      <3>5. IsSeq(f)
        BY <2>2 DEF IsSeq
      <3>6. (x \o y) \o f = x \o (y \o f)
        BY <3>3, <3>4, <3>5, Associative
      <3>7. Content(ring'[d]) = x /\ fd'[d] = y \o f
        BY <1>1, <2>1, <3>1, <3>2
      <3>8. QED BY <2>4, <3>1, <3>2, <3>6, <3>7 DEF Way
    <2>12. sent'[d] = n + Len(f) /\ Is(d).handles = hs
      BY <1>1, <2>1, <2>5, <2>7
    <2>13. QED BY <1>1, <2>10, <2>11, <2>12
  <1>3. sent' = [d \in D |-> sent'[d]]
    BY <1>1
  <1>4. ~Reading'
    BY <1>1 DEF Reading
  <1>5. QED BY <1>2, <1>3, <1>4 DEF OrderInv

\* Every step keeps the order.
LEMMA StepKeepsOrder ==
  ASSUME IInv, RingInv, CallInv, OrderInv, [Next]_vars
  PROVE  OrderInv'
  <1>1. CASE ReadEvents
    BY <1>1, ReadKeepsOrder
  <1>2. CASE TakeEvent
    BY <1>2, TakeKeepsOrder
  <1>3. CASE ParsePollData
    BY <1>3, ParseKeepsOrder
  <1>4. ASSUME NEW h \in Handles, NEW act,
               Send(DriverOf(h), h, act) \/ UNCHANGED <<fd, sent>>,
               UNCHANGED <<ring, buffer, poll>>
        PROVE  OrderInv'
    <2>1. /\ sent' = [d \in D |-> sent'[d]]
          /\ \A d \in D : Ordered(Way(d), sent[d], buffer, Is(d).handles)'
      BY <1>4, SendKeepsOrder
    <2>2. Reading' => poll'.drv \in D
      BY <1>4 DEF OrderInv, Reading
    <2>3. QED BY <2>1, <2>2 DEF OrderInv
  <1>5. ASSUME NEW h \in Handles, Raise(h) PROVE OrderInv'
    BY <1>4, <1>5 DEF Raise
  <1>6. CASE WriteNode \/ WritePipe
    <2>1. PICK s \in CallStep : s = Head(ctl)
      <3>1. ctl # <<>>
        BY <1>6 DEF WriteNode, WritePipe
      <3>2. QED BY <3>1, CallHead
    <2>2. s.do # "listen"
      BY <1>6, <2>1 DEF WriteNode, WritePipe
    <2>3. s.handle \in Handles /\ s.conn = DriverOf(s.handle)
      BY <2>2 DEF CallStep
    <2>4. UNCHANGED <<ring, buffer, poll>>
      BY <1>6 DEF WriteNode, WritePipe, readers
    <2>5. Send(s.conn, s.handle, "flush") \/ UNCHANGED <<fd, sent>>
      BY <1>6, <2>1 DEF WriteNode, WritePipe, readers
    <2>6. PICK h \in Handles : h = s.handle /\ s.conn = DriverOf(h)
      BY <2>3
    <2>7. Send(DriverOf(h), h, "flush") \/ UNCHANGED <<fd, sent>>
      BY <2>5, <2>6
    <2>8. PICK act : act = "flush"
      OBVIOUS
    <2>9. QED BY <1>4, <2>4, <2>6, <2>7
  <1>7. CASE UNCHANGED <<fd, ring, sent, buffer>> /\ (Reading' => poll'.drv \in D)
    BY <1>7 DEF OrderInv, Way
  <1>8. CASE PollEvent
    <2>1. UNCHANGED <<fd, ring, sent>> /\ buffer' = <<>> /\ poll'.at = "share"
      BY <1>8 DEF PollEvent, readers, Out
    <2>2. ASSUME NEW d \in D PROVE Ordered(Way(d), sent[d], buffer, Is(d).handles)'
      <3>1. PICK way, n, hs : way = Way(d) /\ n = sent[d] /\ hs = Is(d).handles
        OBVIOUS
      <3>2. PICK buf : buf = buffer
        OBVIOUS
      <3>3. Ordered(way, n, buf, hs)
        BY <3>1, <3>2 DEF OrderInv
      <3>4. Ordered(way, n, <<>>, hs)
        BY <3>3, OrderedEmpty
      <3>5. Way(d)' = way /\ sent'[d] = n
        BY <2>1, <3>1 DEF Way
      <3>6. QED BY <2>1, <3>1, <3>4, <3>5
    <2>3. ~Reading'
      BY <2>1 DEF Reading
    <2>4. QED BY <2>1, <2>2, <2>3 DEF OrderInv
  <1>9. CASE ComputeCountForEachFd \/ NoMoreDrivers \/ EndRead \/ PollFds
    <2>1. UNCHANGED <<fd, ring, sent, buffer>>
      BY <1>9 DEF ComputeCountForEachFd, NoMoreDrivers, EndRead, PollFds, readers
    <2>2. poll'.at \in {"scan", "poll", "share", "parse", "aborted"}
      BY <1>9 DEF ComputeCountForEachFd, NoMoreDrivers, EndRead, PollFds, IInv, Shape
    <2>3. QED BY <1>7, <2>1, <2>2 DEF Reading
  <1>10. CASE NameOneShot \/ DisableOneShot
    <2>1. UNCHANGED <<fd, ring, sent, buffer>>
      BY <1>10 DEF NameOneShot, DisableOneShot, readers
    <2>2. Reading /\ poll'.drv = poll.drv
      BY <1>10 DEF NameOneShot, DisableOneShot, Reading, IInv, Shape
    <2>3. poll'.drv \in D
      BY <2>2 DEF OrderInv
    <2>4. QED BY <1>7, <2>1, <2>3
  <1>11. CASE ChangeHandles \/ NameNode \/ (\E h \in Handles : Flush(h)) \/ UNCHANGED vars
              \/ \E h \in Handles, en \in BOOLEAN : Activate(h, en)
    <2>1. UNCHANGED <<fd, ring, sent, buffer, poll>>
      BY <1>11 DEF ChangeHandles, NameNode, Flush, Activate, readers, vars
    <2>2. Reading' => poll'.drv \in D
      BY <2>1 DEF OrderInv, Reading
    <2>3. QED BY <1>7, <2>1, <2>2
  <1>12. QED BY <1>1, <1>2, <1>3, <1>5, <1>6, <1>8, <1>9, <1>10, <1>11 DEF Next, Poller, Control

\* In the first state the ways are empty.
LEMMA InitKeepsOrder == Init => RingInv /\ CallInv /\ OrderInv
  <1>1. Init => RingInv
    <2>1. Init => ring = [d \in D |-> EmptyRing] /\ fd = [d \in D |-> <<>>]
      BY DEF Init
    <2>2. \A S : <<>> \in Seq(S)
      OBVIOUS
    <2>3. QED BY <2>1, <2>2, ReaderForm DEF RingInv
  <1>2. Init => CallInv
    BY DEF Init, CallInv
  <1>3. Init => OrderInv
    <2> SUFFICES ASSUME Init PROVE OrderInv
      OBVIOUS
    <2>1. ~Reading /\ buffer = <<>> /\ sent = [d \in D |-> 0]
      BY DEF Init, Reading, Out
    <2>2. ASSUME NEW d \in D PROVE Ordered(Way(d), sent[d], buffer, Is(d).handles)
      <3>1. ring[d] = EmptyRing /\ fd[d] = <<>> /\ sent[d] = 0
        BY DEF Init
      <3>2. Available(ring[d]) = 0
        BY <3>1, RingSizeType DEF EmptyRing, Available
      <3>3. Content(ring[d]) \in Seq({}) /\ Len(Content(ring[d])) = 0
        BY <3>2 DEF Content
      <3>4. fd[d] \in Seq({}) /\ Len(fd[d]) = 0
        BY <3>1
      <3>5. Way(d) \in Seq({}) /\ Len(Way(d)) = 0
        <4>1. PICK x \in Seq({}) : x = Content(ring[d]) /\ Len(x) = 0
          BY <3>3
        <4>2. PICK y \in Seq({}) : y = fd[d] /\ Len(y) = 0
          BY <3>4
        <4>3. x = <<>> /\ y = <<>>
          BY <4>1, <4>2, EmptySeq
        <4>4. <<>> \o <<>> \in Seq({}) /\ Len(<<>> \o <<>>) = 0
          BY EmptySeq, ConcatEmptySeq
        <4>5. QED BY <4>1, <4>2, <4>3, <4>4 DEF Way
      <3>6. buffer \in Seq({}) /\ Len(buffer) = 0
        BY <2>1
      <3>7. QED BY <3>1, <3>5, <3>6 DEF Ordered
    <2>3. sent = [d \in D |-> sent[d]]
      BY <2>1
    <2>4. QED BY <2>1, <2>2, <2>3 DEF OrderInv
  <1>4. QED BY <1>1, <1>2, <1>3

\* The order of the events holds in every state: whatever the drivers report and wherever a
\* read passes the end of a ring, the numbers of a driver's events go up without a gap on
\* their way through fd and ring, and upwards in the poll buffer (SensorEventReader.cpp,
\* readEvents of the drivers, pollEvent).
THEOREM EventsStayInOrder == Spec => []EventsInOrder
  <1>1. Init => RingInv /\ CallInv /\ OrderInv
    BY InitKeepsOrder
  <1>2. IInv /\ RingInv /\ CallInv /\ OrderInv /\ [Next]_vars => RingInv' /\ CallInv' /\ OrderInv'
    BY StepKeepsRings, StepKeepsCall, StepKeepsOrder
  <1>3. OrderInv => EventsInOrder
    <2> SUFFICES ASSUME OrderInv, NEW d \in D
                 PROVE  LET way == Content(ring[d]) \o fd[d] IN
                        /\ \A i \in DOMAIN way : way[i].n = sent[d] - Len(way) + i
                        /\ \A i, j \in OfDriver(d) : i < j => buffer[i].n < buffer[j].n
                        /\ \A i \in OfDriver(d) : buffer[i].n <= sent[d] - Len(way)
      BY DEF EventsInOrder
    <2>1. Ordered(Way(d), sent[d], buffer, Is(d).handles)
      BY DEF OrderInv
    <2>2. DOMAIN Way(d) = 1..Len(Way(d)) /\ DOMAIN buffer = 1..Len(buffer)
      BY <2>1 DEF Ordered
    <2>3. \A i \in DOMAIN Way(d) : Way(d)[i].n = sent[d] - Len(Way(d)) + i
      BY <2>1, <2>2 DEF Ordered
    <2>4. \A i \in OfDriver(d) : i \in 1..Len(buffer) /\ buffer[i].handle \in Is(d).handles
      BY <2>2 DEF OfDriver
    <2>5. \A i, j \in OfDriver(d) : i < j => buffer[i].n < buffer[j].n
      BY <2>1, <2>4 DEF Ordered
    <2>6. \A i \in OfDriver(d) : buffer[i].n <= sent[d] - Len(Way(d))
      BY <2>1, <2>4 DEF Ordered
    <2>7. QED BY <2>3, <2>5, <2>6 DEF Way
  <1>4. QED BY <1>1, <1>2, <1>3, Invariance, PTL DEF Spec

\* A driver with a one-shot sensor has no pipe, and none computes from a one-shot sensor.
LEMMA OneShotFacts ==
  ASSUME NEW h \in Handles, h \in Is(DriverOf(h)).oneShot
  PROVE  ~HasPipe(DriverOf(h)) /\ \A d \in D : h \notin ToSet(Is(d).needs)
  <1>1. \A d \in D : Drivers[d] \in DOMAIN Driver
    <2>1. Drivers \in Seq(DOMAIN Driver)
      BY EventsAssumption
    <2>2. QED BY <2>1 DEF D
  <1>2. PICK base : base = {"acc", "mag", "detector"}
    OBVIOUS
  <1>3. \A x \in DOMAIN Driver :
          Driver[x] \in {AccelerationSensor, MagneticSensor, HwGyroscopeSensor, AmbiLightSensor,
                        ProximitySensor, PressureSensor, StepCounterSensor, PedometerSensor,
                        ActivitySensor, SituationSensor, ScpFusionSensor, BiometricSensor,
                        VirtGyroscopeSensor, WakeUpSetSensor}
    BY DEF Driver

  <1>4. ASSUME NEW handle, NEW needs, NEW from
        PROVE  /\ Computed(handle, needs, from).oneShot = {}
               /\ Computed(handle, needs, from).needs = needs
    BY DEF Computed
  <1>5. \A x \in {AccelerationSensor, MagneticSensor, HwGyroscopeSensor, AmbiLightSensor,
                  ProximitySensor, PressureSensor, PedometerSensor, ActivitySensor,
                  ScpFusionSensor, BiometricSensor} : x.oneShot = {} /\ x.needs = <<>>
    <2>1. AccelerationSensor.oneShot = {} /\ AccelerationSensor.needs = <<>>
      BY DEF AccelerationSensor, Device
    <2>2. MagneticSensor.oneShot = {} /\ MagneticSensor.needs = <<>>
      BY DEF MagneticSensor, Device
    <2>3. HwGyroscopeSensor.oneShot = {} /\ HwGyroscopeSensor.needs = <<>>
      BY DEF HwGyroscopeSensor, Device
    <2>4. AmbiLightSensor.oneShot = {} /\ AmbiLightSensor.needs = <<>>
      BY DEF AmbiLightSensor, Device
    <2>5. ProximitySensor.oneShot = {} /\ ProximitySensor.needs = <<>>
      BY DEF ProximitySensor, Device
    <2>6. PressureSensor.oneShot = {} /\ PressureSensor.needs = <<>>
      BY DEF PressureSensor, Device
    <2>7. PedometerSensor.oneShot = {} /\ PedometerSensor.needs = <<>>
      BY DEF PedometerSensor, Device
    <2>8. ActivitySensor.oneShot = {} /\ ActivitySensor.needs = <<>>
      BY DEF ActivitySensor, Device
    <2>9. ScpFusionSensor.oneShot = {} /\ ScpFusionSensor.needs = <<>>
      BY DEF ScpFusionSensor, Device
    <2>10. BiometricSensor.oneShot = {} /\ BiometricSensor.needs = <<>>
      BY DEF BiometricSensor, Device
    <2>11. QED BY <2>1, <2>2, <2>3, <2>4, <2>5, <2>6, <2>7, <2>8, <2>9, <2>10
  <1>6. \A x \in {StepCounterSensor, SituationSensor} :
          /\ x.from = "none" /\ x.needs = <<>>
          /\ x.oneShot \subseteq {"motion", "wake", "pickup", "glance", "answer", "pocket",
                                  "stationary", "moved"}
    <2>1. /\ StepCounterSensor.from = "none" /\ StepCounterSensor.needs = <<>>
          /\ StepCounterSensor.oneShot = {"motion"}
      BY DEF StepCounterSensor, Device
    <2>2. /\ SituationSensor.from = "none" /\ SituationSensor.needs = <<>>
          /\ SituationSensor.oneShot =
               {"wake", "pickup", "glance", "answer", "pocket", "stationary", "moved"}
      BY DEF SituationSensor, Device
    <2>3. QED BY <2>1, <2>2
  <1>7. \A x \in {VirtGyroscopeSensor, WakeUpSetSensor} :
          x.oneShot = {} /\ x.needs \in {<<"acc", "mag">>, <<"detector">>}
    BY <1>4 DEF VirtGyroscopeSensor, WakeUpSetSensor
  <1>8. \A x \in DOMAIN Driver : Driver[x].needs \in {<<>>, <<"acc", "mag">>, <<"detector">>}
    BY <1>3, <1>5, <1>6, <1>7
  <1>9. \A x \in DOMAIN Driver : Driver[x].oneShot # {} =>
          /\ Driver[x].from = "none"
          /\ Driver[x].oneShot \subseteq {"motion", "wake", "pickup", "glance", "answer", "pocket",
                                          "stationary", "moved"}
    BY <1>3, <1>5, <1>6, <1>7
  <1>10. \A s \in {<<>>, <<"acc", "mag">>, <<"detector">>} : ToSet(s) \subseteq base
    BY <1>2 DEF ToSet
  <1>11. DriverOf(h) \in D
    BY DriverFacts
  <1>12. ~HasPipe(DriverOf(h)) /\ h \in {"motion", "wake", "pickup", "glance", "answer", "pocket",
                                         "stationary", "moved"}
    BY <1>1, <1>9, <1>11 DEF HasPipe, Is
  <1>13. h \notin base
    BY <1>2, <1>12
  <1>14. ASSUME NEW d \in D PROVE h \notin ToSet(Is(d).needs)
    BY <1>1, <1>8, <1>10, <1>13 DEF Is
  <1>15. QED BY <1>12, <1>14

-----------------------------------------------------------------------------
(* One-shot sensors. *)

\* The call that switches a one-shot sensor on: its three steps, two and one of them left.
AllThree(h) == <<Listen(0, h, TRUE), Name("active", h), Write("active", h, TRUE)>>
LastTwo(h)  == <<Name("active", h), Write("active", h, TRUE)>>
LastOne(h)  == <<Write("active", h, TRUE)>>

Mentioned(h) == \E i \in DOMAIN ctl : ctl[i].handle = h
Coming(h) == \E i \in DOMAIN buffer : buffer[i].handle = h

\* A one-shot sensor that the framework has activated is being switched on, or it is heard
\* and is on or its event is in the buffer.
Kept(h) ==
  \/ ctl = AllThree(h)
  \/ h \in active[0] /\ ctl = LastTwo(h)
  \/ h \in active[0] /\ ctl = LastOne(h) /\ path[DriverOf(h)] = "active"
  \/ h \in active[0] /\ ~Mentioned(h) /\ (h \in on \/ Coming(h))

ArmFrame ==
  /\ armed \subseteq Handles
  /\ poll.at = "out" => buffer = <<>>
  /\ poll.at \in {"name", "write"} => Coming(poll.handle)
  /\ active = [c \in D \cup {0} |-> active[c]]
  /\ \A d \in D : active[d] \subseteq ToSet(Is(d).needs)
  /\ path = [d \in D |-> path[d]]

ArmInv == ArmFrame /\ \A h \in armed : h \in Is(DriverOf(h)).oneShot => Kept(h)

\* The steps of that call one by one.
LEMMA CallSteps ==
  ASSUME NEW h
  PROVE  /\ Head(AllThree(h)) = Listen(0, h, TRUE) /\ Tail(AllThree(h)) = LastTwo(h)
         /\ Head(LastTwo(h)) = Name("active", h) /\ Tail(LastTwo(h)) = LastOne(h)
         /\ Head(LastOne(h)) = Write("active", h, TRUE) /\ Tail(LastOne(h)) = <<>>
         /\ AllThree(h) # <<>> /\ LastTwo(h) # <<>> /\ LastOne(h) # <<>>
  <1>1. ASSUME NEW a, NEW b, NEW w
        PROVE  /\ Head(<<a, b, w>>) = a /\ Tail(<<a, b, w>>) = <<b, w>>
               /\ Head(<<b, w>>) = b /\ Tail(<<b, w>>) = <<w>>
               /\ Head(<<w>>) = w /\ Tail(<<w>>) = <<>>
               /\ <<a, b, w>> # <<>> /\ <<b, w>> # <<>> /\ <<w>> # <<>>
    OBVIOUS
  <1>2. PICK a : a = Listen(0, h, TRUE)
    OBVIOUS
  <1>3. PICK b : b = Name("active", h)
    OBVIOUS
  <1>4. PICK w : w = Write("active", h, TRUE)
    OBVIOUS
  <1>5. AllThree(h) = <<a, b, w>> /\ LastTwo(h) = <<b, w>> /\ LastOne(h) = <<w>>
    BY <1>2, <1>3, <1>4 DEF AllThree, LastTwo, LastOne
  <1>6. /\ Head(<<a, b, w>>) = a /\ Tail(<<a, b, w>>) = <<b, w>>
        /\ Head(<<b, w>>) = b /\ Tail(<<b, w>>) = <<w>>
        /\ Head(<<w>>) = w /\ Tail(<<w>>) = <<>>
        /\ <<a, b, w>> # <<>> /\ <<b, w>> # <<>> /\ <<w>> # <<>>
    BY <1>1
  <1>7. QED BY <1>2, <1>3, <1>4, <1>5, <1>6

\* The first step of a call about another sensor leaves that sensor out.
LEMMA OthersCall ==
  ASSUME NEW h, CallInv, ctl # <<>>, ~Mentioned(h), ctl' = Tail(ctl)
  PROVE  Head(ctl).handle # h /\ ~Mentioned(h)'
  <1>1. PICK s \in Seq(CallStep) : s = ctl
    BY DEF CallInv
  <1>2. Len(s) >= 1 /\ \A i \in 1..Len(s) : s[i].handle # h
    BY <1>1 DEF Mentioned
  <1>3. Head(ctl).handle # h
    BY <1>1, <1>2
  <1>4. PICK t : t = Tail(s)
    OBVIOUS
  <1>5. DOMAIN t = 1..Len(s) - 1 /\ \A i \in 1..Len(s) - 1 : t[i] = s[i + 1]
    BY <1>2, <1>4
  <1>6. \A i \in 1..Len(s) - 1 : i + 1 \in 1..Len(s)
    BY <1>1
  <1>7. \A i \in DOMAIN t : t[i].handle # h
    BY <1>2, <1>5, <1>6
  <1>8. ~Mentioned(h)'
    BY <1>1, <1>4, <1>7 DEF Mentioned
  <1>9. QED BY <1>3, <1>8

\* A call that does not mention a one-shot sensor begins.
LEMMA OtherCallBegins ==
  ASSUME NEW h \in Handles, h \in Is(DriverOf(h)).oneShot,
         NEW g \in Handles, g # h, NEW en \in BOOLEAN
  PROVE  \A i \in DOMAIN Activation(g, en) : Activation(g, en)[i].handle # h
  <1>1. PICK S : S = {s \in CallStep : s.handle # h}
    OBVIOUS
  <1>2. ASSUME NEW x \in Handles, x # h
        PROVE  Name("active", x) \in S /\ Write("active", x, en) \in S
    BY <1>1, <1>2, StepForms DEF Name, Write
  <1>3. Listen(0, g, en) \in S
    BY <1>1, StepForms DEF Listen
  <1>4. ASSUME NEW x \in ToSet(Is(DriverOf(g)).needs)
        PROVE  /\ Listen(DriverOf(g), x, en) \in S
               /\ Name("active", x) \in S /\ Write("active", x, en) \in S
    <2>1. x \in Handles /\ DriverOf(g) \in D
      BY DriverFacts, NeedsAreHandles
    <2>2. x # h
      BY <2>1, OneShotFacts
    <2>3. Listen(DriverOf(g), x, en) \in CallStep /\ Listen(DriverOf(g), x, en).handle = x
      BY <2>1, StepForms DEF Listen
    <2>4. QED BY <1>1, <1>2, <2>1, <2>2, <2>3
  <1>5. Activation(g, en) \in Seq(S)
    BY <1>2, <1>3, <1>4, ActivationType
  <1>6. PICK t \in Seq(S) : t = Activation(g, en)
    BY <1>5
  <1>7. \A i \in DOMAIN t : t[i] \in S
    OBVIOUS
  <1>8. QED BY <1>1, <1>6, <1>7

\* No driver listens to a one-shot sensor for itself.
LEMMA NoOthers ==
  ASSUME ArmFrame, NEW h \in Handles, h \in Is(DriverOf(h)).oneShot
  PROVE  ~Others(0, h)
  <1>1. DOMAIN active = D \cup {0}
    BY DEF ArmFrame
  <1>2. \A d \in D : h \notin active[d]
    BY OneShotFacts DEF ArmFrame
  <1>3. QED BY <1>1, <1>2 DEF Others

\* What is in the buffer stays there until it is parsed.
LEMMA ComingStays ==
  ASSUME IInv, NEW e, buffer' = buffer \/ buffer' = Append(buffer, e)
  PROVE  /\ \A h : Coming(h) => Coming(h)'
         /\ buffer' = Append(buffer, e) => Coming(e.handle)'
  <1>1. CASE buffer' = buffer
    BY <1>1 DEF Coming
  <1>2. CASE buffer' = Append(buffer, e)
    <2>1. PICK S : buffer \in Seq(S)
      BY DEF IInv, Shape
    <2>2. PICK T : T = S \cup {e}
      OBVIOUS
    <2>3. PICK b \in Seq(T) : b = buffer
      BY <2>1, <2>2
    <2>4. e \in T
      BY <2>2
    <2>5. Append(b, e) \in Seq(T)
      BY <2>4
    <2>6. PICK c \in Seq(T) : c = Append(b, e)
      BY <2>5
    <2>7. /\ DOMAIN b = 1..Len(b) /\ DOMAIN c = 1..Len(b) + 1 /\ Len(b) \in Nat
          /\ \A i \in 1..Len(b) : c[i] = b[i]
          /\ c[Len(b) + 1] = e
      BY <2>2, <2>6
    <2>8. \A h : (\E i \in DOMAIN b : b[i].handle = h) => \E i \in DOMAIN c : c[i].handle = h
      BY <2>7
    <2>9. \E i \in DOMAIN c : c[i].handle = e.handle
      BY <2>7
    <2>10. buffer' = c
      BY <1>2, <2>3, <2>6
    <2>11. QED BY <2>3, <2>8, <2>9, <2>10 DEF Coming
  <1>3. CASE buffer' = buffer /\ buffer' = Append(buffer, e)
    <2>1. buffer' = Append(buffer, e)
      BY <1>3
    <2>2. QED BY <1>2, <2>1
  <1>4. QED BY <1>1, <1>2

\* Every step keeps the frame.
LEMMA StepKeepsFrame ==
  ASSUME IInv, CallInv, OrderInv, ArmFrame, [Next]_vars
  PROVE  ArmFrame'
  <1>1. armed' \subseteq Handles
    BY DEF ArmFrame, Next, Raise, Flush, Activate, Control, ChangeHandles, NameNode, WriteNode,
       WritePipe, PollEvent, Poller, ComputeCountForEachFd, ReadEvents, NoMoreDrivers, TakeEvent,
       NameOneShot, DisableOneShot, EndRead, PollFds, ParsePollData, vars, history
  <1>2. /\ poll'.at = "out" => buffer' = <<>>
        /\ poll'.at \in {"name", "write"} => Coming(poll.handle)'
    <2>1. CASE UNCHANGED <<poll, buffer>>
      BY <2>1 DEF ArmFrame, Coming
    <2>2. CASE TakeEvent
      <3>1. PICK e : e = Current
        OBVIOUS
      <3>2. CASE poll' = poll /\ buffer' = buffer
        BY <3>2 DEF ArmFrame, Coming
      <3>3. CASE poll' # poll \/ buffer' # buffer
        <4>1. /\ buffer' = Append(buffer, e)
              /\ poll' = [poll EXCEPT !.left = @ - 1, !.handle = e.handle,
                            !.at = IF e.handle \in Is(poll.drv).oneShot THEN "name" ELSE "read"]
          BY <2>2, <3>1, <3>3 DEF TakeEvent
        <4>2. poll'.handle = e.handle /\ poll'.at \in {"name", "read"}
          BY <4>1 DEF IInv, Shape
        <4>3. Coming(e.handle)'
          BY <4>1, ComingStays
        <4>4. PICK x : x = e.handle
          OBVIOUS
        <4>5. QED BY <4>2, <4>3, <4>4 DEF Coming
      <3>4. QED BY <3>2, <3>3
    <2>3. CASE NameOneShot \/ DisableOneShot
      <3>1. /\ poll.at \in {"name", "write"} /\ poll'.at \in {"write", "read"}
            /\ poll'.handle = poll.handle /\ buffer' = buffer
        BY <2>3 DEF NameOneShot, DisableOneShot, IInv, Shape
      <3>2. QED BY <3>1 DEF ArmFrame, Coming
    <2>4. CASE PollEvent \/ ParsePollData
      <3>1. buffer' = <<>> /\ (poll' = Out \/ poll' = [Out EXCEPT !.at = "share", !.count = PollSize])
        <4>1. CASE PollEvent
          BY <4>1 DEF PollEvent
        <4>2. CASE ParsePollData
          BY <4>2 DEF ParsePollData
        <4>3. QED BY <2>4, <4>1, <4>2
      <3>2. PICK n : n = PollSize
        OBVIOUS
      <3>3. Out.at = "out" /\ [Out EXCEPT !.at = "share", !.count = n].at = "share"
        BY DEF Out
      <3>4. poll'.at \in {"out", "share"}
        BY <3>1, <3>2, <3>3
      <3>5. QED BY <3>1, <3>4
    <2>5. CASE ComputeCountForEachFd \/ ReadEvents \/ NoMoreDrivers \/ EndRead \/ PollFds
      <3>1. poll'.at \in {"scan", "read", "poll", "aborted", "share", "parse"}
        BY <2>5 DEF ComputeCountForEachFd, ReadEvents, NoMoreDrivers, EndRead, PollFds, IInv, Shape
      <3>2. QED BY <3>1
    <2>6. CASE (\E h \in Handles : Raise(h) \/ Flush(h)) \/ Control
               \/ (\E h \in Handles, en \in BOOLEAN : Activate(h, en)) \/ UNCHANGED vars
      BY <2>1, <2>6 DEF Raise, Flush, Activate, Control, ChangeHandles, NameNode, WriteNode,
         WritePipe, vars
    <2>7. QED BY <2>2, <2>3, <2>4, <2>5, <2>6 DEF Next, Poller
  <1>3. /\ active' = [c \in D \cup {0} |-> active'[c]]
        /\ \A d \in D : active'[d] \subseteq ToSet(Is(d).needs)
    <2>1. CASE active' = active
      BY <2>1 DEF ArmFrame
    <2>2. CASE ChangeHandles
      <3>1. PICK s \in CallStep : s = Head(ctl)
        BY <2>2, CallHead DEF ChangeHandles
      <3>2. /\ s.do = "listen" /\ s.conn \in D \cup {0}
            /\ s.conn \in D => s.handle \in ToSet(Is(s.conn).needs)
        BY <2>2, <3>1 DEF ChangeHandles, CallStep
      <3>3. PICK now : now = IF s.en THEN active[s.conn] \cup {s.handle} ELSE active[s.conn] \ {s.handle}
        OBVIOUS
      <3>4. active' = [active EXCEPT ![s.conn] = now]
        BY <2>2, <3>1, <3>3 DEF ChangeHandles
      <3>5. /\ active'[s.conn] = now
            /\ \A c \in D \cup {0} : c # s.conn => active'[c] = active[c]
            /\ active' = [c \in D \cup {0} |-> active'[c]]
        BY <3>2, <3>4 DEF ArmFrame
      <3>6. ASSUME NEW d \in D PROVE active'[d] \subseteq ToSet(Is(d).needs)
        <4>1. CASE d = s.conn
          <5>1. active[d] \subseteq ToSet(Is(d).needs) /\ s.handle \in ToSet(Is(d).needs)
            BY <3>2, <4>1 DEF ArmFrame
          <5>2. active'[d] = IF s.en THEN active[d] \cup {s.handle} ELSE active[d] \ {s.handle}
            BY <3>3, <3>5, <4>1
          <5>3. PICK T : T = ToSet(Is(d).needs)
            OBVIOUS
          <5>4. active'[d] \subseteq T
            BY <5>1, <5>2, <5>3
          <5>5. QED BY <5>3, <5>4
        <4>2. CASE d # s.conn
          BY <3>5, <4>2 DEF ArmFrame
        <4>3. QED BY <4>1, <4>2
      <3>7. QED BY <3>5, <3>6
    <2>3. CASE ~ChangeHandles
      BY <2>1, <2>3 DEF Next, Raise, Flush, Activate, Control, NameNode, WriteNode,
         WritePipe, PollEvent, Poller, ComputeCountForEachFd, ReadEvents, NoMoreDrivers, TakeEvent,
         NameOneShot, DisableOneShot, EndRead, PollFds, ParsePollData, vars
    <2>4. QED BY <2>2, <2>3
  <1>4. path' = [d \in D |-> path'[d]]
    BY DEF ArmFrame, Next, Raise, Flush, Activate, Control, ChangeHandles, NameNode, WriteNode,
       WritePipe, PollEvent, Poller, ComputeCountForEachFd, ReadEvents, NoMoreDrivers, TakeEvent,
       NameOneShot, DisableOneShot, EndRead, PollFds, ParsePollData, vars, hardware
  <1>5. QED BY <1>1, <1>2, <1>3, <1>4 DEF ArmFrame, Coming, Is

\* Nothing that matters to the sensor happens.
LEMMA KeptFrame ==
  ASSUME NEW h, Kept(h), ctl' = ctl, active' = active,
         path'[DriverOf(h)] \in {path[DriverOf(h)], "active"},
         h \in on \/ Coming(h) => h \in on' \/ Coming(h)'
  PROVE  Kept(h)'
  <1>1. ctl = AllThree(h) => ctl' = AllThree(h)
    OBVIOUS
  <1>2. Mentioned(h)' <=> Mentioned(h)
    BY DEF Mentioned
  <1>3. path[DriverOf(h)] = "active" => path'[DriverOf(h)] = "active"
    OBVIOUS
  <1>4. CASE ctl = AllThree(h)
    BY <1>4 DEF Kept, AllThree
  <1>5. CASE h \in active[0] /\ ctl = LastTwo(h)
    BY <1>5 DEF Kept, LastTwo
  <1>6. CASE h \in active[0] /\ ctl = LastOne(h) /\ path[DriverOf(h)] = "active"
    BY <1>6, <1>3 DEF Kept, LastOne
  <1>7. CASE h \in active[0] /\ ~Mentioned(h) /\ (h \in on \/ Coming(h))
    BY <1>2, <1>7 DEF Kept
  <1>8. QED BY <1>4, <1>5, <1>6, <1>7 DEF Kept

\* A step of the calls' thread.
LEMMA ControlKeeps ==
  ASSUME CallInv, ArmFrame, NEW h \in Handles, h \in Is(DriverOf(h)).oneShot, Kept(h), Control
  PROVE  Kept(h)'
  <1>1. ctl # <<>> /\ ctl' = Tail(ctl) /\ buffer' = buffer
    BY DEF Control, ChangeHandles, NameNode, WriteNode, WritePipe, Left
  <1>2. DriverOf(h) \in D
    BY DriverFacts
  <1>3. DOMAIN active = D \cup {0} /\ DOMAIN path = D
    BY DEF ArmFrame
  <1>4. CASE ctl = AllThree(h)
    <2>1. Head(ctl) = Listen(0, h, TRUE) /\ ctl' = LastTwo(h)
      BY <1>1, <1>4, CallSteps
    <2>2. Head(ctl).do = "listen" /\ Head(ctl).conn = 0 /\ Head(ctl).handle = h /\ Head(ctl).en
      BY <2>1 DEF Listen
    <2>3. ChangeHandles
      BY <2>2 DEF Control, ChangeHandles, NameNode, WriteNode, WritePipe
    <2>4. active'[0] = active[0] \cup {h}
      BY <1>3, <2>2, <2>3 DEF ChangeHandles
    <2>5. QED BY <2>1, <2>4 DEF Kept, LastTwo
  <1>5. CASE h \in active[0] /\ ctl = LastTwo(h)
    <2>1. Head(ctl) = Name("active", h) /\ ctl' = LastOne(h)
      BY <1>1, <1>5, CallSteps
    <2>2. Head(ctl).do = "name" /\ Head(ctl).conn = DriverOf(h) /\ Head(ctl).node = "active"
      BY <2>1 DEF Name
    <2>3. NameNode
      BY <2>2 DEF Control, ChangeHandles, NameNode, WriteNode, WritePipe
    <2>4. path'[DriverOf(h)] = "active" /\ active' = active
      BY <1>2, <1>3, <2>2, <2>3 DEF NameNode
    <2>5. QED BY <1>5, <2>1, <2>4 DEF Kept, LastOne
  <1>6. CASE h \in active[0] /\ ctl = LastOne(h) /\ path[DriverOf(h)] = "active"
    <2>1. Head(ctl) = Write("active", h, TRUE) /\ ctl' = <<>>
      BY <1>1, <1>6, CallSteps
    <2>2. /\ Head(ctl).do = "write" /\ Head(ctl).conn = DriverOf(h) /\ Head(ctl).node = "active"
          /\ Head(ctl).handle = h /\ Head(ctl).en
      BY <2>1 DEF Write
    <2>3. WriteNode
      BY <2>2 DEF Control, ChangeHandles, NameNode, WriteNode, WritePipe
    <2>4. h \in on' /\ active' = active
      BY <1>6, <2>2, <2>3 DEF WriteNode
    <2>5. ~Mentioned(h)'
      BY <2>1 DEF Mentioned
    <2>6. QED BY <1>6, <2>4, <2>5 DEF Kept
  <1>7. CASE h \in active[0] /\ ~Mentioned(h) /\ (h \in on \/ Coming(h))
    <2>1. Head(ctl).handle # h /\ ~Mentioned(h)'
      BY <1>1, <1>7, OthersCall
    <2>2. h \in active'[0]
      <3>1. CASE ChangeHandles
        <4>1. active' = [active EXCEPT ![Head(ctl).conn] =
                  IF Head(ctl).en THEN @ \cup {Head(ctl).handle} ELSE @ \ {Head(ctl).handle}]
          BY <3>1 DEF ChangeHandles
        <4>2. QED BY <1>3, <1>7, <2>1, <4>1
      <3>2. CASE ~ChangeHandles
        BY <1>7, <3>2 DEF Control, NameNode, WriteNode, WritePipe
      <3>3. QED BY <3>1, <3>2
    <2>3. h \in on => h \in on'
      <3>1. CASE WriteNode
        BY <2>1, <3>1 DEF WriteNode, readers
      <3>2. CASE ~WriteNode
        BY <3>2 DEF Control, ChangeHandles, NameNode, WritePipe, hardware
      <3>3. QED BY <3>1, <3>2
    <2>4. Coming(h)' <=> Coming(h)
      BY <1>1 DEF Coming
    <2>5. QED BY <1>7, <2>1, <2>2, <2>3, <2>4 DEF Kept
  <1>8. QED BY <1>4, <1>5, <1>6, <1>7 DEF Kept

\* A call begins.
LEMMA CallKeeps ==
  ASSUME ArmInv, NEW h \in Handles, h \in Is(DriverOf(h)).oneShot, h \in armed',
         (\E g \in Handles : Flush(g)) \/ \E g \in Handles, en \in BOOLEAN : Activate(g, en)
  PROVE  Kept(h)'
  <1>1. ctl = <<>> /\ active' = active /\ on' = on /\ buffer' = buffer
    BY DEF Flush, Activate, hardware
  <1>2. Coming(h)' <=> Coming(h)
    BY <1>1 DEF Coming
  <1>3. ASSUME h \in armed, ~Mentioned(h)' PROVE Kept(h)'
    <2>1. Kept(h)
      BY <1>3 DEF ArmInv
    <2>2. h \in active[0] /\ (h \in on \/ Coming(h))
      BY <1>1, <2>1, CallSteps DEF Kept
    <2>3. QED BY <1>1, <1>2, <1>3, <2>2 DEF Kept
  <1>4. ASSUME NEW g \in Handles, Flush(g) PROVE Kept(h)'
    <2>1. g # h
      BY <1>4 DEF Flush
    <2>2. h \in armed
      BY <1>4 DEF Flush
    <2>3. PICK S : S = {s \in CallStep : s.handle # h}
      OBVIOUS
    <2>4. PICK p \in S : p = Pipe(g)
      BY <2>1, <2>3, StepForms DEF Pipe
    <2>5. PICK b \in S : b = Name("flush", g)
      BY <2>1, <2>3, StepForms DEF Name
    <2>6. PICK w \in S : w = Write("flush", g, FALSE)
      BY <2>1, <2>3, StepForms DEF Write
    <2>7. ctl' = <<p>> \/ ctl' = <<b, w>>
      BY <1>4, <2>4, <2>5, <2>6 DEF Flush
    <2>8. <<p>> \in Seq(S) /\ <<b, w>> \in Seq(S)
      BY ShortSequences
    <2>9. PICK t \in Seq(S) : t = ctl'
      BY <2>7, <2>8
    <2>10. \A i \in DOMAIN t : t[i].handle # h
      BY <2>3, <2>9
    <2>11. ~Mentioned(h)'
      BY <2>9, <2>10 DEF Mentioned
    <2>12. QED BY <1>3, <2>2, <2>11
  <1>5. ASSUME NEW g \in Handles, NEW en \in BOOLEAN, Activate(g, en) PROVE Kept(h)'
    <2>1. ctl' = Activation(g, en) /\ armed' = IF en THEN armed \cup {g} ELSE armed \ {g}
      BY <1>5 DEF Activate
    <2>2. CASE g # h
      <3>1. \A i \in DOMAIN Activation(g, en) : Activation(g, en)[i].handle # h
        BY <2>2, OtherCallBegins
      <3>2. ~Mentioned(h)'
        BY <2>1, <3>1 DEF Mentioned
      <3>3. h \in armed
        BY <2>1, <2>2
      <3>4. QED BY <1>3, <3>2, <3>3
    <2>3. CASE g = h
      <3>1. en
        BY <2>1, <2>3
      <3>2. ~HasPipe(DriverOf(h)) /\ ~Others(0, h)
        BY OneShotFacts, NoOthers DEF ArmInv
      <3>3. en = TRUE
        BY <3>1
      <3>4. Activation(h, TRUE) = <<Listen(0, h, TRUE)>> \o <<Name("active", h), Write("active", h, TRUE)>>
        BY <3>2 DEF Activation, EnableNode
      <3>5. ASSUME NEW a, NEW b, NEW w PROVE <<a>> \o <<b, w>> = <<a, b, w>>
        <4>1. PICK T : T = {a, b, w}
          OBVIOUS
        <4>2. a \in T /\ b \in T /\ w \in T
          BY <4>1
        <4>3. <<a>> \in Seq(T) /\ <<b, w>> \in Seq(T)
          BY <4>2, ShortSequences
        <4>4. <<a, b, w>> \in Seq(T)
          BY <4>2
        <4>5. PICK x \in Seq(T) : x = <<a>>
          BY <4>3
        <4>6. PICK y \in Seq(T) : y = <<b, w>>
          BY <4>3
        <4>7. PICK z \in Seq(T) : z = <<a, b, w>>
          BY <4>4
        <4>8. /\ Len(x) = 1 /\ Len(y) = 2 /\ Len(z) = 3
              /\ x[1] = a /\ y[1] = b /\ y[2] = w /\ z[1] = a /\ z[2] = b /\ z[3] = w
          BY <4>5, <4>6, <4>7
        <4>9. PICK v : v = x \o y
          OBVIOUS
        <4>10. /\ v \in Seq(T) /\ Len(v) = Len(x) + Len(y)
               /\ \A i \in 1..Len(x) : v[i] = x[i]
               /\ \A i \in 1..Len(y) : v[Len(x) + i] = y[i]
          BY <4>9, Concatenation
        <4>11. v \in Seq(T) /\ Len(v) = 3 /\ v[1] = a /\ v[1 + 1] = b /\ v[1 + 2] = w
          BY <4>8, <4>10
        <4>12. \A i \in 1..3 : v[i] = z[i]
          BY <4>8, <4>11
        <4>13. v = z
          BY <4>8, <4>11, <4>12, SeqEqual
        <4>14. QED BY <4>5, <4>6, <4>7, <4>9, <4>13
      <3>6. Activation(h, TRUE) = AllThree(h)
        BY <3>4, <3>5 DEF AllThree
      <3>7. ctl' = AllThree(h)
        BY <2>1, <2>3, <3>3, <3>6
      <3>8. QED BY <3>7 DEF Kept, AllThree
    <2>4. QED BY <2>2, <2>3
  <1>6. QED BY <1>4, <1>5

\* A step of the poll thread or of the hardware.
LEMMA PollKeeps ==
  ASSUME IInv, ArmInv, NEW h \in Handles, h \in Is(DriverOf(h)).oneShot, h \in armed',
         PollEvent \/ Poller \/ (\E g \in Handles : Raise(g)) \/ UNCHANGED vars
  PROVE  Kept(h)'
  <1>1. ctl' = ctl /\ active' = active /\ h \in armed
    BY DEF Raise, PollEvent, Poller, ComputeCountForEachFd, ReadEvents, NoMoreDrivers, TakeEvent,
       NameOneShot, DisableOneShot, EndRead, PollFds, ParsePollData, vars, history
  <1>2. Kept(h)
    BY <1>1 DEF ArmInv
  <1>3. path'[DriverOf(h)] \in {path[DriverOf(h)], "active"}
    <2>1. CASE NameOneShot
      BY <2>1 DEF NameOneShot, ArmInv, ArmFrame
    <2>2. CASE ~NameOneShot
      BY <2>2 DEF Raise, PollEvent, Poller, ComputeCountForEachFd, ReadEvents, NoMoreDrivers,
         TakeEvent, DisableOneShot, EndRead, PollFds, ParsePollData, vars, hardware
    <2>3. QED BY <2>1, <2>2
  <1>4. CASE ParsePollData
    <2>1. on' = on
      BY <1>4 DEF ParsePollData, hardware
    <2>2. h \in active[0] => ~Coming(h)
      <3>1. ASSUME NEW i \in DOMAIN buffer, buffer[i].handle = h, h \in active[0] PROVE FALSE
        <4>1. i \in {j \in DOMAIN buffer : ForFramework(buffer[j])}
          BY <3>1 DEF ForFramework
        <4>2. h \notin armed'
          BY <1>4, <3>1, <4>1 DEF ParsePollData
        <4>3. QED BY <4>2
      <3>2. QED BY <3>1 DEF Coming
    <2>3. h \in active[0] => (h \in on \/ Coming(h) => h \in on')
      BY <2>1, <2>2
    <2>4. CASE h \in active[0]
      BY <1>1, <1>2, <1>3, <2>3, <2>4, KeptFrame
    <2>5. CASE h \notin active[0]
      <3>1. ctl' = AllThree(h)
        BY <1>1, <1>2, <2>5 DEF Kept
      <3>2. QED BY <3>1 DEF Kept, AllThree
    <2>6. QED BY <2>4, <2>5
  <1>5. CASE ~ParsePollData
    <2>1. Coming(h) => Coming(h)'
      <3>1. CASE buffer' = buffer
        BY <3>1 DEF Coming
      <3>2. CASE PollEvent
        BY <3>2 DEF PollEvent, ArmInv, ArmFrame, Coming
      <3>3. CASE TakeEvent
        BY <3>3, ComingStays DEF TakeEvent
      <3>4. QED BY <1>5, <3>1, <3>2, <3>3 DEF Raise, Poller, ComputeCountForEachFd, ReadEvents,
         NoMoreDrivers, NameOneShot, DisableOneShot, EndRead, PollFds, vars
    <2>2. h \in on => h \in on' \/ Coming(h)'
      <3>1. CASE DisableOneShot
        <4>1. Coming(poll.handle) /\ buffer' = buffer
          BY <3>1 DEF DisableOneShot, ArmInv, ArmFrame
        <4>2. on' = on \/ on' = on \ {poll.handle}
          BY <3>1 DEF DisableOneShot
        <4>3. CASE h = poll.handle
          BY <2>1, <4>1, <4>3
        <4>4. CASE h # poll.handle
          BY <4>2, <4>4
        <4>5. QED BY <4>3, <4>4
      <3>2. CASE ~DisableOneShot
        BY <1>5, <3>2 DEF Raise, PollEvent, Poller, ComputeCountForEachFd, ReadEvents, NoMoreDrivers,
           TakeEvent, NameOneShot, EndRead, PollFds, vars, hardware
      <3>3. QED BY <3>1, <3>2
    <2>3. QED BY <1>1, <1>2, <1>3, <2>1, <2>2, KeptFrame
  <1>6. QED BY <1>4, <1>5

\* Every step keeps the invariant.
LEMMA StepKeepsArm ==
  ASSUME IInv, CallInv, OrderInv, ArmInv, [Next]_vars
  PROVE  ArmInv'
  <1>1. ArmFrame'
    BY StepKeepsFrame DEF ArmInv
  <1>2. ASSUME NEW h \in armed', h \in Is(DriverOf(h)).oneShot PROVE Kept(h)'
    <2>1. h \in Handles
      BY <1>1 DEF ArmFrame
    <2>2. CASE PollEvent \/ Poller \/ (\E g \in Handles : Raise(g)) \/ UNCHANGED vars
      BY <1>2, <2>1, <2>2, PollKeeps
    <2>3. CASE (\E g \in Handles : Flush(g)) \/ \E g \in Handles, en \in BOOLEAN : Activate(g, en)
      BY <1>2, <2>1, <2>3, CallKeeps
    <2>4. CASE Control
      <3>1. h \in armed
        BY <2>4 DEF Control, ChangeHandles, NameNode, WriteNode, WritePipe, history
      <3>2. Kept(h)
        BY <1>2, <3>1 DEF ArmInv
      <3>3. QED BY <1>2, <2>1, <2>4, <3>2, ControlKeeps DEF ArmInv
    <2>5. QED BY <2>2, <2>3, <2>4 DEF Next
  <1>3. QED BY <1>1, <1>2 DEF ArmInv, Is, DriverOf

\* A one-shot sensor stays on until its event is on its way to the framework: what the poll
\* thread switches off behind the calls' thread has an event in the poll buffer
\* (readEvents() of StepCounter.cpp and Situation.cpp), also when both put their node's name
\* together in the same buffer.
THEOREM OneShotIsKept == Spec => []OneShotStaysArmed
  <1>1. Init => RingInv /\ CallInv /\ OrderInv
    BY InitKeepsOrder
  <1>2. Init => ArmInv
    <2> SUFFICES ASSUME Init PROVE ArmInv
      OBVIOUS
    <2>1. /\ armed = {} /\ poll.at = "out" /\ buffer = <<>> /\ path = [d \in D |-> "none"]
          /\ active = [c \in D \cup {0} |-> {}]
      BY DEF Init, Out
    <2>2. QED BY <2>1 DEF ArmInv, ArmFrame
  <1>3. IInv /\ RingInv /\ CallInv /\ OrderInv /\ ArmInv /\ [Next]_vars
          => RingInv' /\ CallInv' /\ OrderInv' /\ ArmInv'
    BY StepKeepsRings, StepKeepsCall, StepKeepsOrder, StepKeepsArm
  <1>4. ArmInv => OneShotStaysArmed
    <2> SUFFICES ASSUME ArmInv, NEW h \in armed, h \in Is(DriverOf(h)).oneShot,
                        \A i \in DOMAIN ctl : ctl[i].handle # h
                 PROVE  h \in on \/ \E i \in DOMAIN buffer : buffer[i].handle = h
      BY DEF OneShotStaysArmed
    <2>1. Kept(h)
      BY DEF ArmInv
    <2>2. ~Mentioned(h)
      BY DEF Mentioned
    <2>3. \A s : s = AllThree(h) \/ s = LastTwo(h) \/ s = LastOne(h) => \E i \in DOMAIN s : s[i].handle = h
      <3>1. \A a, b, w : 1 \in DOMAIN <<a, b, w>> /\ 1 \in DOMAIN <<b, w>> /\ 1 \in DOMAIN <<w>>
        OBVIOUS
      <3>2. PICK a : a = Listen(0, h, TRUE)
        OBVIOUS
      <3>3. PICK b : b = Name("active", h)
        OBVIOUS
      <3>4. PICK w : w = Write("active", h, TRUE)
        OBVIOUS
      <3>5. a = Listen(0, h, TRUE) /\ a.handle = h
        BY <3>2 DEF Listen
      <3>6. b = Name("active", h) /\ b.handle = h
        BY <3>3 DEF Name
      <3>7. w = Write("active", h, TRUE) /\ w.handle = h
        BY <3>4 DEF Write
      <3>8. AllThree(h) = <<a, b, w>> /\ LastTwo(h) = <<b, w>> /\ LastOne(h) = <<w>>
        BY <3>5, <3>6, <3>7 DEF AllThree, LastTwo, LastOne
      <3>9. <<a, b, w>>[1] = a /\ <<b, w>>[1] = b /\ <<w>>[1] = w
        OBVIOUS
      <3>10. QED BY <3>1, <3>5, <3>6, <3>7, <3>8, <3>9
    <2>4. h \in on \/ Coming(h)
      BY <2>1, <2>2, <2>3 DEF Kept, Mentioned
    <2>5. QED BY <2>4 DEF Coming
  <1>5. QED BY <1>1, <1>2, <1>3, <1>4, Invariance, PTL DEF Spec
==============================================================================
