-------------------------- MODULE SensorManager_proofs --------------------------
(***************************************************************************)
(* Proofs about SensorManager for any sensors, periods and channels and    *)
(* any driver calls that fail.  First the direct channels: the rate level  *)
(* that DirectChannelManager keeps beside the channels' own.  Then the     *)
(* manager, from the bottom up: what each operation on one connection's    *)
(* parameters does, what a call on the accelerometer does, what the fusion *)
(* driver does with it, and what the framework's and the direct channels'  *)
(* calls make of the two.                                                  *)
(***************************************************************************)
EXTENDS SensorManager, FiniteSetTheorems, WellFoundedInduction, TLAPS

Levels == {RATE_STOP, RATE_NORMAL, RATE_FAST}

\* The types of the direct channels' state.
ChannelTypes ==
  /\ registered \subseteq Channels
  /\ nextHandle \in 1..MaxChannels + 1
  /\ level \in [Channels -> Levels]
  /\ rateLevel \in Levels

IInv == ChannelTypes /\ DirectLevelKept

\* mergeDirectReportRequest's fastest level is one of the levels, none is above it, and it
\* is RATE_STOP only when every channel is stopped.
LEMMA MaxLevelFacts ==
  ASSUME NEW lv \in [Channels -> Levels]
  PROVE  /\ MaxLevel(lv) \in Levels
         /\ \A ch \in Channels : lv[ch] <= MaxLevel(lv)
         /\ MaxLevel(lv) = RATE_STOP <=> \A ch \in Channels : lv[ch] = RATE_STOP
  <1> USE DEF Levels, RATE_STOP, RATE_NORMAL, RATE_FAST
  <1> DEFINE S == {RATE_STOP} \union {lv[ch] : ch \in Channels}
  <1>1. S \subseteq {0, 1, 2} /\ 0 \in S
    OBVIOUS
  <1>2. \E x \in S : \A y \in S : x >= y
    <2>1. CASE 2 \in S
      BY <1>1, <2>1
    <2>2. CASE 2 \notin S /\ 1 \in S
      BY <1>1, <2>2
    <2>3. CASE 2 \notin S /\ 1 \notin S
      BY <1>1, <2>3
    <2>4. QED BY <2>1, <2>2, <2>3
  <1>3. MaxLevel(lv) = Max(S)
    BY DEF MaxLevel
  <1>4. Max(S) \in S /\ \A y \in S : Max(S) >= y
    <2> HIDE DEF S
    <2>1. QED BY <1>2 DEF Max
  <1>5. \A ch \in Channels : lv[ch] \in S
    OBVIOUS
  <1>6. Max(S) = 0 \/ \E ch \in Channels : Max(S) = lv[ch]
    BY <1>4
  <1> HIDE DEF S
  <1>7. QED BY <1>1, <1>3, <1>4, <1>5, <1>6

\* No channel is registered and none has a level.
LEMMA InitEstablishes == Init => IInv
  BY SensorAssumption
  DEF Init, IInv, ChannelTypes, DirectLevelKept, Levels, Channels, RATE_STOP, RATE_NORMAL, RATE_FAST

-----------------------------------------------------------------------------

\* stopAllDirectReportOnChannel: the level that stays belongs to a channel that stays.
LEMMA UnregisterPreserves ==
  ASSUME IInv, NEW ch \in Channels, NEW fails, UnregisterDirectChannel(ch, fails)
  PROVE  IInv'
  <1> DEFINE k == ch - ID_OFFSET
             lv == [level EXCEPT ![k] = RATE_STOP]
  <1>1. StopAll(k, fails) /\ registered' = registered \ {k} /\ UNCHANGED nextHandle
    BY DEF UnregisterDirectChannel
  <1>2. CASE k \notin registered
    BY <1>1, <1>2 DEF StopAll, IInv, ChannelTypes, DirectLevelKept
  <1>3. CASE k \in registered
    <2>1. k \in Channels /\ lv \in [Channels -> Levels]
      BY <1>3 DEF IInv, ChannelTypes, Levels
    <2>2. level' = lv /\ lv[k] = RATE_STOP /\ \A c \in Channels \ {k} : lv[c] = level[c]
      BY <1>1, <1>3, <2>1 DEF StopAll, IInv, ChannelTypes
    <2>3. rateLevel' = IF level[k] # RATE_STOP /\ MaxLevel(lv) = RATE_STOP THEN RATE_STOP ELSE rateLevel
      BY <1>1, <1>3 DEF StopAll
    <2>4. ChannelTypes'
      BY <1>1, <2>1, <2>2, <2>3 DEF IInv, ChannelTypes, Levels
    <2>5. MaxLevel(lv) = RATE_STOP <=> \A c \in Channels : lv[c] = RATE_STOP
      BY <2>1, MaxLevelFacts
    <2> HIDE DEF k, lv
    <2>6. (\A c \in Channels : level[c] <= rateLevel)'
      BY <2>1, <2>2, <2>3, <2>5
      DEF IInv, ChannelTypes, DirectLevelKept, Levels, RATE_STOP, RATE_NORMAL, RATE_FAST
    <2>7. (rateLevel = RATE_STOP <=> \A c \in Channels : level[c] = RATE_STOP)'
      BY <2>1, <2>2, <2>3, <2>5
      DEF IInv, ChannelTypes, DirectLevelKept, Levels, RATE_STOP, RATE_NORMAL, RATE_FAST
    <2>8. ({c \in Channels : level[c] # RATE_STOP} \subseteq registered)'
      BY <1>1, <2>1, <2>2 DEF k, IInv, DirectLevelKept
    <2>9. QED BY <2>4, <2>6, <2>7, <2>8 DEF IInv, DirectLevelKept
  <1>4. QED BY <1>2, <1>3

\* configDirectReport: the rate level is taken afresh from the channels' levels.
LEMMA ConfigPreserves ==
  ASSUME IInv, NEW ch, NEW l \in Levels, NEW fails, ConfigDirectReport(ch, l, fails)
  PROVE  IInv'
  <1>1. /\ ch \in registered /\ level' = [level EXCEPT ![ch] = l]
        /\ rateLevel' = MaxLevel(level') /\ UNCHANGED <<registered, nextHandle>>
    BY DEF ConfigDirectReport
  <1>2. level' \in [Channels -> Levels]
    BY <1>1 DEF IInv, ChannelTypes
  <1>3. /\ rateLevel' \in Levels
        /\ \A c \in Channels : level'[c] <= rateLevel'
        /\ rateLevel' = RATE_STOP <=> \A c \in Channels : level'[c] = RATE_STOP
    BY <1>1, <1>2, MaxLevelFacts
  <1>4. \A c \in Channels : level'[c] # RATE_STOP => c \in registered
    BY <1>1 DEF IInv, ChannelTypes, DirectLevelKept
  <1>5. QED BY <1>1, <1>2, <1>3, <1>4 DEF IInv, ChannelTypes, DirectLevelKept

\* The calls on sensors leave the channels alone; driver calls may fail in all.
LEMMA StepPreserves == IInv /\ [Next]_vars => IInv'
  <1> SUFFICES ASSUME IInv, [Next]_vars PROVE IInv'
    OBVIOUS
  <1>1. CASE RegisterDirectChannel
    BY <1>1, SensorAssumption
    DEF RegisterDirectChannel, IInv, ChannelTypes, DirectLevelKept, Channels
  <1>2. ASSUME NEW fails \in SUBSET DriverCalls, NEW s \in Sensors,
               \/ \E p \in Periods : Batch(s, p, fails)
               \/ Enable(s, fails) \/ Disable(s, fails)
        PROVE  IInv'
    BY <1>2 DEF Batch, Enable, Disable, IInv, ChannelTypes, DirectLevelKept
  <1>3. ASSUME NEW fails \in SUBSET DriverCalls, GetSensorsList(fails)
        PROVE  IInv'
    BY <1>3 DEF GetSensorsList, IInv, ChannelTypes, DirectLevelKept
  <1>4. ASSUME NEW fails \in SUBSET DriverCalls, NEW ch \in Channels,
               \/ UnregisterDirectChannel(ch, fails)
               \/ \E l \in Levels : ConfigDirectReport(ch, l, fails)
        PROVE  IInv'
    BY <1>4, UnregisterPreserves, ConfigPreserves
  <1>5. CASE UNCHANGED vars
    BY <1>5 DEF vars, IInv, ChannelTypes, DirectLevelKept
  <1>6. QED BY <1>1, <1>2, <1>3, <1>4, <1>5 DEF Next, Levels

\* The inductive invariant holds in every state.
LEMMA Invariance == Spec => []IInv
  BY InitEstablishes, StepPreserves, PTL DEF Spec

-----------------------------------------------------------------------------

\* The recorded rate level is no lower than any channel's and is gone exactly when no
\* channel reports, and a channel that reports has its memory, although unregistering
\* removes another channel than the one named (ID_OFFSET) and drivers fail.
THEOREM DirectLevelIsKept == Spec => []DirectLevelKept
  <1>1. IInv => DirectLevelKept BY DEF IInv
  <1>2. QED BY <1>1, Invariance, PTL

-----------------------------------------------------------------------------
(***************************************************************************)
(* The manager, the accelerometer's driver and the fusion driver.          *)
(***************************************************************************)
Delays == 1..MaxDelay
Asked == Delays \union {None}

\* The types of the manager's and the two drivers' state.
Hal ==
  [params : [Sensors -> [Clients -> Asked]], best : [Sensors -> Asked],
   handles : [Clients -> SUBSET Sensors], on : BOOLEAN, period : Delays,
   enabled : SUBSET FusionSensors, asked : [FusionSensors -> Delays],
   bestDelay : Delays, accCount : Nat]

\* The best of the accelerometer is that of its parameters, and no connection that has
\* parameters asked for less than the period.
AccServed(h) ==
  /\ h.best[Acc] = Best(h.params[Acc])
  /\ \A c \in Clients : h.params[Acc][c] # None => h.period <= h.params[Acc][c]

\* A fusion sensor has only the framework's parameters, which its driver knows and, while it
\* is enabled, has counted in its best period.
FusionOwn(h) ==
  \A f \in FusionSensors :
    /\ h.best[f] = Best(h.params[f])
    /\ h.params[f]["direct"] = None /\ h.params[f]["fusion"] = None
    /\ h.params[f]["native"] # None => h.asked[f] = h.params[f]["native"]
    /\ f \in h.enabled => h.bestDelay <= h.asked[f]

IdleReleases(h) == h.accCount = 0 => h.params[Acc]["fusion"] = None
BestIsAsked(h) == h.accCount > 0 => h.params[Acc]["fusion"] = Clamp(h.bestDelay, MinDelay)
HasClients(h) == \E c \in Clients : h.params[Acc][c] # None

\* A nonempty set of numbers has a least one.
LEMMA LeastOf ==
  ASSUME NEW S \in SUBSET Nat, S # {}
  PROVE  Min(S) \in S /\ \A j \in S : Min(S) <= j
  <1> DEFINE R == OpToRel(<, Nat)
  <1>1. IsWellFoundedOn(R, Nat)
    BY NatLessThanWellFounded
  <1>2. \A x, y \in Nat : <<y, x>> \in R <=> y < x
    BY DEF OpToRel
  <1> HIDE DEF R
  <1>3. PICK x \in S : \A y \in S : ~(<<y, x>> \in R)
    BY <1>1, WFMin
  <1>4. ASSUME NEW y \in S PROVE x <= y
    <2>1. x \in Nat /\ y \in Nat
      OBVIOUS
    <2>2. ~(y < x)
      BY <1>2, <1>3, <2>1
    <2>3. QED BY <2>1, <2>2
  <1>5. \E z \in S : \A y \in S : z <= y
    BY <1>4
  <1>6. QED BY <1>5 DEF Min

\* selectBatchParams: the least of the parameters there are.
LEMMA BestIs ==
  ASSUME NEW ps \in [Clients -> Asked]
  PROVE  /\ Best(ps) \in Asked
         /\ Best(ps) = None <=> \A c \in Clients : ps[c] = None
         /\ \A c \in Clients : ps[c] # None => Best(ps) <= ps[c]
         /\ Best(ps) # None => \E c \in Clients : ps[c] = Best(ps)
  <1> DEFINE S == {ps[c] : c \in Clients} \ {None}
  <1>1. S \subseteq Delays /\ Delays \subseteq Nat /\ None \notin Delays
    BY SensorAssumption DEF Asked, Delays, None
  <1>2. Best(ps) = IF S = {} THEN None ELSE Min(S)
    BY DEF Best
  <1>3. \A c \in Clients : ps[c] # None <=> ps[c] \in S
    OBVIOUS
  <1>4. \A x \in S : \E c \in Clients : ps[c] = x
    OBVIOUS
  <1> HIDE DEF S
  <1>5. CASE S = {}
    BY <1>2, <1>3, <1>5 DEF Asked
  <1>6. CASE S # {}
    <2>1. S \in SUBSET Nat
      BY <1>1
    <2>2. Best(ps) = Min(S)
      BY <1>2, <1>6
    <2>3. Min(S) \in S /\ \A y \in S : Min(S) <= y
      BY <1>6, <2>1, LeastOf
    <2>4. Best(ps) \in S /\ \A y \in S : Best(ps) <= y
      BY <2>2, <2>3
    <2>5. Best(ps) \in Asked /\ Best(ps) # None
      BY <1>1, <2>4 DEF Asked
    <2>6. QED BY <1>3, <1>4, <2>4, <2>5
  <1>7. QED BY <1>5, <1>6

\* With only the framework's parameters these are the best.
LEMMA BestOfOne ==
  ASSUME NEW ps \in [Clients -> Asked], ps["direct"] = None, ps["fusion"] = None
  PROVE  Best(ps) = ps["native"]
  BY BestIs DEF Clients

\* The number of connections with parameters.
LEMMA NumActiveIs ==
  ASSUME NEW h \in Hal, NEW s \in Sensors
  PROVE  /\ NumActive(h, s) \in Nat
         /\ NumActive(h, s) = 0 <=> \A c \in Clients : h.params[s][c] = None
         /\ NumActive(h, s) = 1 <=> \E c \in Clients : {d \in Clients : h.params[s][d] # None} = {c}
  <1> DEFINE S == {c \in Clients : h.params[s][c] # None}
  <1>1. IsFiniteSet(Clients)
    <2>1. IsFiniteSet({"native"})
      BY FS_Singleton
    <2>2. IsFiniteSet({"native"} \cup {"direct"})
      BY <2>1, FS_AddElement
    <2>3. IsFiniteSet(({"native"} \cup {"direct"}) \cup {"fusion"})
      BY <2>2, FS_AddElement
    <2>4. Clients = ({"native"} \cup {"direct"}) \cup {"fusion"}
      BY DEF Clients
    <2>5. QED BY <2>3, <2>4
  <1>2. S \in SUBSET Clients
    OBVIOUS
  <1>3. IsFiniteSet(S)
    BY <1>1, <1>2, FS_Subset
  <1>4. NumActive(h, s) = Cardinality(S)
    BY DEF NumActive
  <1>5. S = {} <=> \A c \in Clients : h.params[s][c] = None
    OBVIOUS
  <1> HIDE DEF S
  <1>6. Cardinality(S) \in Nat /\ (Cardinality(S) = 0 <=> S = {})
    BY <1>3, FS_EmptySet, FS_CardinalityType
  <1>7. Cardinality(S) = 1 <=> \E c : S = {c}
    BY <1>3, FS_Singleton
  <1>8. Cardinality(S) = 1 <=> \E c \in Clients : S = {c}
    BY <1>2, <1>7
  <1>9. QED BY <1>4, <1>5, <1>6, <1>8 DEF S

-----------------------------------------------------------------------------

\* The accelerometer's least delay bounds what is asked of it, once and in order.
LEMMA ClampIs ==
  ASSUME NEW p \in Delays
  PROVE  /\ Clamp(p, MinDelay) \in Delays
         /\ Clamp(Clamp(p, MinDelay), MinDelay) = Clamp(p, MinDelay)
         /\ \A q \in Delays : p <= q => Clamp(p, MinDelay) <= Clamp(q, MinDelay)
  BY SensorAssumption DEF Clamp, Delays

\* setBatchParamsForIdent changes one connection's parameters and selects the best again.
LEMMA StoreParamsIs ==
  ASSUME NEW h \in Hal, NEW s \in Sensors, NEW c \in Clients, NEW p \in Asked, NEW k,
         k = StoreParams(h, s, c, p)
  PROVE  /\ k \in Hal
         /\ k.params[s] = [h.params[s] EXCEPT ![c] = p] /\ k.best[s] = Best(k.params[s])
         /\ \A t \in Sensors : t # s => k.params[t] = h.params[t] /\ k.best[t] = h.best[t]
         /\ k.handles = h.handles /\ k.on = h.on /\ k.period = h.period
         /\ k.enabled = h.enabled /\ k.asked = h.asked
         /\ k.bestDelay = h.bestDelay /\ k.accCount = h.accCount
  <1> DEFINE ps == [h.params[s] EXCEPT ![c] = p]
  <1>1. k = [h EXCEPT !.params[s] = ps, !.best[s] = Best(ps)]
    BY DEF StoreParams
  <1>2. ps \in [Clients -> Asked]
    BY DEF Hal
  <1>3. Best(ps) \in Asked
    BY <1>2, BestIs
  <1> HIDE DEF ps
  <1>4. PICK b \in Asked : b = Best(ps)
    BY <1>3
  <1>5. PICK P : P = [h.params EXCEPT ![s] = ps]
    OBVIOUS
  <1>6. PICK B : B = [h.best EXCEPT ![s] = b]
    OBVIOUS
  <1>7. P \in [Sensors -> [Clients -> Asked]] /\ B \in [Sensors -> Asked]
    BY <1>2, <1>5, <1>6 DEF Hal
  <1>8. k = [h EXCEPT !.params = P, !.best = B]
    BY <1>1, <1>4, <1>5, <1>6 DEF Hal
  <1>9. /\ k \in Hal /\ k.params = P /\ k.best = B
        /\ k.handles = h.handles /\ k.on = h.on /\ k.period = h.period
        /\ k.enabled = h.enabled /\ k.asked = h.asked
        /\ k.bestDelay = h.bestDelay /\ k.accCount = h.accCount
    BY <1>7, <1>8 DEF Hal
  <1>10. /\ k \in Hal
         /\ k.params = [h.params EXCEPT ![s] = ps] /\ k.best = [h.best EXCEPT ![s] = b]
         /\ k.handles = h.handles /\ k.on = h.on /\ k.period = h.period
         /\ k.enabled = h.enabled /\ k.asked = h.asked
         /\ k.bestDelay = h.bestDelay /\ k.accCount = h.accCount
    BY <1>5, <1>6, <1>9
  <1>11. k.params[s] = ps /\ k.best[s] = b
    BY <1>10 DEF Hal
  <1>12. ASSUME NEW t \in Sensors, t # s PROVE k.params[t] = h.params[t] /\ k.best[t] = h.best[t]
    BY <1>10, <1>12 DEF Hal
  <1>13. QED BY <1>4, <1>10, <1>11, <1>12 DEF ps

\* removeBatchParamsForIdent changes nothing when there are none, and neither does storing
\* None where there is none.
LEMMA RemoveParamsIs ==
  ASSUME NEW h \in Hal, NEW s \in Sensors, NEW c \in Clients, h.best[s] = Best(h.params[s]),
         NEW k, k = RemoveParams(h, s, c)
  PROVE  /\ k \in Hal
         /\ k.params[s] = [h.params[s] EXCEPT ![c] = None] /\ k.best[s] = Best(k.params[s])
         /\ \A t \in Sensors : t # s => k.params[t] = h.params[t] /\ k.best[t] = h.best[t]
         /\ k.handles = h.handles /\ k.on = h.on /\ k.period = h.period
         /\ k.enabled = h.enabled /\ k.asked = h.asked
         /\ k.bestDelay = h.bestDelay /\ k.accCount = h.accCount
  <1>1. CASE h.params[s][c] = None
    <2>1. k = h
      BY <1>1 DEF RemoveParams
    <2>2. h.params[s] \in [Clients -> Asked]
      BY DEF Hal
    <2>3. [h.params[s] EXCEPT ![c] = None] = h.params[s]
      BY <1>1, <2>2
    <2>4. QED BY <2>1, <2>3
  <1>2. CASE h.params[s][c] # None
    <2>1. k = StoreParams(h, s, c, None) /\ None \in Asked
      BY <1>2 DEF RemoveParams, Asked
    <2>2. QED BY <2>1, StoreParamsIs
  <1>3. QED BY <1>1, <1>2

\* Adding or removing a sensor's handle changes only the handles.
LEMMA HandlesAre ==
  ASSUME NEW h \in Hal, NEW c \in Clients, NEW H \in SUBSET Sensors, NEW k,
         k = [h EXCEPT !.handles[c] = H]
  PROVE  /\ k \in Hal /\ k.params = h.params /\ k.best = h.best
         /\ k.on = h.on /\ k.period = h.period /\ k.enabled = h.enabled /\ k.asked = h.asked
         /\ k.bestDelay = h.bestDelay /\ k.accCount = h.accCount
  BY DEF Hal

\* activate(..., true) adds the sensor's handle to the connection.
LEMMA ListeningIs ==
  ASSUME NEW h \in Hal, NEW c \in Clients, NEW s \in Sensors, NEW k, k = Listening(h, c, s)
  PROVE  /\ k \in Hal /\ k.params = h.params /\ k.best = h.best
         /\ k.on = h.on /\ k.period = h.period /\ k.enabled = h.enabled /\ k.asked = h.asked
         /\ k.bestDelay = h.bestDelay /\ k.accCount = h.accCount
  <1> DEFINE H == h.handles[c] \union {s}
  <1>1. H \in SUBSET Sensors
    BY DEF Hal
  <1>2. k = [h EXCEPT !.handles[c] = H]
    BY DEF Listening
  <1> HIDE DEF H
  <1>3. QED BY <1>1, <1>2, HandlesAre

\* activate(..., false) removes the handle and the connection's parameters.
LEMMA LeftIs ==
  ASSUME NEW h \in Hal, NEW c \in Clients, NEW s \in Sensors, h.best[s] = Best(h.params[s]),
         NEW k, k = Left(h, c, s)
  PROVE  /\ k \in Hal
         /\ k.params[s] = [h.params[s] EXCEPT ![c] = None] /\ k.best[s] = Best(k.params[s])
         /\ \A t \in Sensors : t # s => k.params[t] = h.params[t] /\ k.best[t] = h.best[t]
         /\ k.on = h.on /\ k.period = h.period
         /\ k.enabled = h.enabled /\ k.asked = h.asked
         /\ k.bestDelay = h.bestDelay /\ k.accCount = h.accCount
  <1> DEFINE H == h.handles[c] \ {s}
  <1>1. H \in SUBSET Sensors
    BY DEF Hal
  <1>2. PICK g : g = [h EXCEPT !.handles[c] = H]
    OBVIOUS
  <1>3. k = RemoveParams(g, s, c)
    BY <1>2 DEF Left
  <1> HIDE DEF H
  <1>4. /\ g \in Hal /\ g.params = h.params /\ g.best = h.best
        /\ g.on = h.on /\ g.period = h.period /\ g.enabled = h.enabled /\ g.asked = h.asked
        /\ g.bestDelay = h.bestDelay /\ g.accCount = h.accCount
    BY <1>1, <1>2, HandlesAre
  <1>5. g.best[s] = Best(g.params[s]) /\ g \in Hal
    BY <1>4
  <1>6. /\ k \in Hal
        /\ k.params[s] = [g.params[s] EXCEPT ![c] = None] /\ k.best[s] = Best(k.params[s])
        /\ \A t \in Sensors : t # s => k.params[t] = g.params[t] /\ k.best[t] = g.best[t]
        /\ k.on = g.on /\ k.period = g.period
        /\ k.enabled = g.enabled /\ k.asked = g.asked
        /\ k.bestDelay = g.bestDelay /\ k.accCount = g.accCount
    BY <1>3, <1>5, RemoveParamsIs
  <1>7. QED BY <1>4, <1>6

\* What a call of connection c on the accelerometer leaves as it was.
AccOnly(h, k, c) ==
  /\ k \in Hal
  /\ \A d \in Clients : d # c => k.params[Acc][d] = h.params[Acc][d]
  /\ \A t \in FusionSensors : k.params[t] = h.params[t] /\ k.best[t] = h.best[t]
  /\ k.enabled = h.enabled /\ k.asked = h.asked
  /\ k.bestDelay = h.bestDelay /\ k.accCount = h.accCount

\* The accelerometer's driver sets its period, or keeps it when the call fails.
LEMMA DriverBatchIs ==
  ASSUME NEW h \in Hal, NEW p \in Delays, NEW fails, NEW k, k = AccDriverBatch(h, p, fails)
  PROVE  /\ k \in Hal /\ k.params = h.params /\ k.best = h.best /\ k.on = h.on
         /\ k.enabled = h.enabled /\ k.asked = h.asked
         /\ k.bestDelay = h.bestDelay /\ k.accCount = h.accCount
         /\ k.period = IF "batch" \in fails THEN h.period ELSE p
  BY DEF AccDriverBatch, Hal

\* The accelerometer's driver is switched on, or stays as it is when the call fails.
LEMMA DriverOnIs ==
  ASSUME NEW h \in Hal, NEW fails, NEW k, k = AccDriverEnable(h, TRUE, fails)
  PROVE  /\ k \in Hal /\ k.params = h.params /\ k.best = h.best /\ k.period = h.period
         /\ k.enabled = h.enabled /\ k.asked = h.asked
         /\ k.bestDelay = h.bestDelay /\ k.accCount = h.accCount
         /\ k.on <=> h.on \/ "activate" \notin fails
  <1>1. CASE "activate" \in fails
    BY <1>1 DEF AccDriverEnable
  <1>2. CASE "activate" \notin fails
    <2>1. k = [h EXCEPT !.on = TRUE]
      BY <1>2 DEF AccDriverEnable
    <2>2. k.on = TRUE
      BY <2>1, Zenon DEF Hal
    <2>3. /\ k \in Hal /\ k.params = h.params /\ k.best = h.best /\ k.period = h.period
          /\ k.enabled = h.enabled /\ k.asked = h.asked
          /\ k.bestDelay = h.bestDelay /\ k.accCount = h.accCount
      BY <2>1 DEF Hal
    <2>4. QED BY <1>2, <2>2, <2>3
  <1>3. QED BY <1>1, <1>2

\* The accelerometer's driver is switched off, or stays as it is when the call fails.
LEMMA DriverOffIs ==
  ASSUME NEW h \in Hal, NEW fails, NEW k, k = AccDriverEnable(h, FALSE, fails)
  PROVE  /\ k \in Hal /\ k.params = h.params /\ k.best = h.best /\ k.period = h.period
         /\ k.enabled = h.enabled /\ k.asked = h.asked
         /\ k.bestDelay = h.bestDelay /\ k.accCount = h.accCount
         /\ k.on <=> h.on /\ "activate" \in fails
  <1>1. CASE "activate" \in fails
    BY <1>1 DEF AccDriverEnable
  <1>2. CASE "activate" \notin fails
    <2>1. k = [h EXCEPT !.on = FALSE]
      BY <1>2 DEF AccDriverEnable
    <2>2. k.on = FALSE
      BY <2>1, Zenon DEF Hal
    <2>3. /\ k \in Hal /\ k.params = h.params /\ k.best = h.best /\ k.period = h.period
          /\ k.enabled = h.enabled /\ k.asked = h.asked
          /\ k.bestDelay = h.bestDelay /\ k.accCount = h.accCount
      BY <2>1 DEF Hal
    <2>4. QED BY <1>2, <2>2, <2>3
  <1>3. QED BY <1>1, <1>2

\* removeBatchParamsForIdent of the accelerometer.
LEMMA AccRemoveIs ==
  ASSUME NEW h \in Hal, h.best[Acc] = Best(h.params[Acc]), NEW c \in Clients,
         NEW k, k = RemoveParams(h, Acc, c)
  PROVE  /\ AccOnly(h, k, c) /\ k.params[Acc][c] = None /\ k.best[Acc] = Best(k.params[Acc])
         /\ k.on = h.on /\ k.period = h.period
  <1>1. PICK s \in Sensors : s = Acc
    BY DEF Sensors
  <1>2. /\ k \in Hal
        /\ k.params[s] = [h.params[s] EXCEPT ![c] = None] /\ k.best[s] = Best(k.params[s])
        /\ \A t \in Sensors : t # s => k.params[t] = h.params[t] /\ k.best[t] = h.best[t]
        /\ k.handles = h.handles /\ k.on = h.on /\ k.period = h.period
        /\ k.enabled = h.enabled /\ k.asked = h.asked
        /\ k.bestDelay = h.bestDelay /\ k.accCount = h.accCount
    BY <1>1, RemoveParamsIs
  <1>3. h.params[Acc] \in [Clients -> Asked]
    BY <1>1 DEF Hal
  <1>4. k.params[Acc][c] = None /\ \A d \in Clients : d # c => k.params[Acc][d] = h.params[Acc][d]
    BY <1>1, <1>2, <1>3
  <1>5. \A t \in FusionSensors : t \in Sensors /\ t # s
    BY <1>1, SensorAssumption DEF Sensors
  <1>6. QED BY <1>1, <1>2, <1>4, <1>5 DEF AccOnly

\* batch() of the accelerometer: its period is at least as short as every connection asked
\* for, the new parameters included, whether the best changes or not and whether the driver
\* refuses or not.
LEMMA AccBatchIs ==
  ASSUME NEW h \in Hal, AccServed(h), NEW c \in Clients, NEW p \in Delays, NEW fails,
         NEW k, k = AccBatch(h, c, p, fails)
  PROVE  /\ AccOnly(h, k, c) /\ AccServed(k) /\ k.on = h.on
         /\ k.params[Acc][c] \in {None, Clamp(p, MinDelay)}
         /\ fails = {} => k.params[Acc][c] = Clamp(p, MinDelay)
  <1>1. PICK q \in Delays : q = Clamp(p, MinDelay)
    BY ClampIs
  <1>2. q \in Asked /\ Acc \in Sensors /\ q # None /\ \A t \in FusionSensors : t \in Sensors /\ t # Acc
    BY SensorAssumption DEF Asked, Sensors, Delays, None
  <1>3. PICK st : st = StoreParams(h, Acc, c, q)
    OBVIOUS
  <1>4. /\ st \in Hal
        /\ st.params[Acc] = [h.params[Acc] EXCEPT ![c] = q] /\ st.best[Acc] = Best(st.params[Acc])
        /\ \A t \in Sensors : t # Acc => st.params[t] = h.params[t] /\ st.best[t] = h.best[t]
        /\ st.on = h.on /\ st.period = h.period
        /\ st.enabled = h.enabled /\ st.asked = h.asked
        /\ st.bestDelay = h.bestDelay /\ st.accCount = h.accCount
    BY <1>2, <1>3, StoreParamsIs
  <1>5. /\ st.params[Acc] \in [Clients -> Asked] /\ h.params[Acc] \in [Clients -> Asked]
        /\ h.period \in Delays /\ st \in Hal
    BY <1>2, <1>4 DEF Hal
  <1>6. st.params[Acc][c] = q /\ \A d \in Clients : d # c => st.params[Acc][d] = h.params[Acc][d]
    BY <1>4, <1>5
  <1>7. PICK b : b = st.best[Acc]
    OBVIOUS
  <1>8. b \in Delays /\ \A d \in Clients : st.params[Acc][d] # None => b <= st.params[Acc][d]
    <2>1. PICK ps \in [Clients -> Asked] : ps = st.params[Acc]
      BY <1>5
    <2>2. b = Best(ps)
      BY <1>4, <1>7, <2>1
    <2>3. ps[c] # None
      BY <1>2, <1>6, <2>1
    <2>4. QED BY <2>1, <2>2, <2>3, BestIs DEF Asked
  <1>9. PICK sent : sent = AccDriverBatch(st, b, fails)
    OBVIOUS
  <1>10. /\ sent \in Hal /\ sent.params = st.params /\ sent.best = st.best /\ sent.on = st.on
         /\ sent.enabled = st.enabled /\ sent.asked = st.asked
         /\ sent.bestDelay = st.bestDelay /\ sent.accCount = st.accCount
         /\ sent.period = IF "batch" \in fails THEN st.period ELSE b
    BY <1>5, <1>8, <1>9, DriverBatchIs, SMTT(30)
  <1>11. k = ManagerBatch(h, st, sent, c, Acc, "batch" \in fails)
    BY <1>1, <1>3, <1>7, <1>9 DEF AccBatch
  <1>12. CASE b = h.best[Acc]
    <2>1. k = st
      BY <1>7, <1>11, <1>12 DEF ManagerBatch
    <2>2. AccOnly(h, st, c)
      BY <1>2, <1>4, <1>5, <1>6 DEF AccOnly
    <2>3. h.period <= b
      <3>1. PICK ps \in [Clients -> Asked] : ps = h.params[Acc]
        BY <1>5
      <3>2. Best(ps) = b
        BY <1>12, <3>1 DEF AccServed
      <3>3. b # None
        BY <1>8 DEF Delays, None
      <3>4. PICK d \in Clients : ps[d] = b
        BY <3>1, <3>2, <3>3, BestIs
      <3>5. QED BY <3>1, <3>3, <3>4 DEF AccServed
    <2>4. \A d \in Clients : st.params[Acc][d] # None => h.period <= st.params[Acc][d]
      BY <1>5, <1>8, <2>3, SensorAssumption DEF Delays, Asked, None
    <2>5. AccServed(st)
      BY <1>4, <2>4 DEF AccServed
    <2>6. QED BY <1>1, <1>4, <1>6, <2>1, <2>2, <2>5
  <1>13. CASE b # h.best[Acc] /\ "batch" \notin fails
    <2>1. k = sent
      BY <1>7, <1>11, <1>13 DEF ManagerBatch
    <2>2. AccOnly(h, sent, c)
      BY <1>2, <1>4, <1>6, <1>10, ZenonT(30) DEF AccOnly
    <2>3. AccServed(sent)
      BY <1>4, <1>8, <1>10, <1>13 DEF AccServed
    <2>4. QED BY <1>1, <1>4, <1>6, <1>10, <2>1, <2>2, <2>3
  <1>14. CASE b # h.best[Acc] /\ "batch" \in fails
    <2>1. k = RemoveParams(sent, Acc, c)
      BY <1>7, <1>11, <1>14 DEF ManagerBatch
    <2>2. sent.best[Acc] = Best(sent.params[Acc]) /\ sent \in Hal
      BY <1>4, <1>10
    <2>3. AccOnly(sent, k, c) /\ k.params[Acc][c] = None /\ k.best[Acc] = Best(k.params[Acc])
          /\ k.on = sent.on /\ k.period = sent.period
      BY <2>1, <2>2, AccRemoveIs
    <2>4. sent.params[Acc] = st.params[Acc]
      BY <1>10
    <2>5. k.params[Acc][c] = None /\ \A d \in Clients : d # c => k.params[Acc][d] = h.params[Acc][d]
      BY <1>6, <2>3, <2>4 DEF AccOnly
    <2>6. AccOnly(h, k, c)
      BY <1>2, <1>4, <1>10, <2>3, <2>5 DEF AccOnly
    <2>7. k.period = h.period /\ k.on = h.on
      BY <1>4, <1>10, <1>14, <2>3
    <2>8. AccServed(k)
      BY <2>3, <2>5, <2>7 DEF AccServed
    <2>9. QED BY <1>14, <2>5, <2>6, <2>7, <2>8
  <1>15. QED BY <1>12, <1>13, <1>14

\* activate(..., true) of the accelerometer: it goes on only with a connection, and a driver
\* that refuses costs the connection its parameters.
LEMMA AccEnableIs ==
  ASSUME NEW h \in Hal, AccServed(h), NEW c \in Clients, NEW fails,
         NEW k, k = AccEnable(h, c, fails)
  PROVE  /\ AccOnly(h, k, c) /\ AccServed(k) /\ (h.on => k.on)
         /\ k.on => h.on \/ HasClients(k)
         /\ k.params[Acc][c] \in {None, h.params[Acc][c]}
         /\ fails = {} => k.params[Acc][c] = h.params[Acc][c]
  <1>1. Acc \in Sensors /\ \A t \in FusionSensors : t \in Sensors /\ t # Acc
    BY SensorAssumption DEF Sensors
  <1>2. PICK g : g = Listening(h, c, Acc)
    OBVIOUS
  <1>3. /\ g \in Hal /\ g.params = h.params /\ g.best = h.best
        /\ g.on = h.on /\ g.period = h.period /\ g.enabled = h.enabled /\ g.asked = h.asked
        /\ g.bestDelay = h.bestDelay /\ g.accCount = h.accCount
    BY <1>1, <1>2, ListeningIs
  <1>4. g \in Hal /\ g.best[Acc] = Best(g.params[Acc])
    BY <1>3 DEF AccServed
  <1>5. PICK st : st = AccDriverEnable(g, TRUE, fails)
    OBVIOUS
  <1>6. /\ st \in Hal /\ st.params = g.params /\ st.best = g.best /\ st.period = g.period
        /\ st.enabled = g.enabled /\ st.asked = g.asked
        /\ st.bestDelay = g.bestDelay /\ st.accCount = g.accCount
        /\ st.on <=> g.on \/ "activate" \notin fails
    <2>1. g \in Hal
      BY <1>4
    <2>2. QED BY <1>5, <2>1, DriverOnIs DEF AccDriverEnable
  <1>7. k = ManagerEnable(h, st, c, Acc, "activate" \in fails)
    BY <1>2, <1>5 DEF AccEnable
  <1>8. CASE h.params[Acc][c] = None \/ NumActive(h, Acc) # 1
    <2>1. k = g
      BY <1>2, <1>7, <1>8 DEF ManagerEnable
    <2>2. AccOnly(h, g, c) /\ AccServed(g)
      BY <1>3 DEF AccOnly, AccServed
    <2>3. QED BY <1>3, <2>1, <2>2
  <1>9. CASE h.params[Acc][c] # None /\ NumActive(h, Acc) = 1 /\ "activate" \notin fails
    <2>1. k = st
      BY <1>7, <1>9 DEF ManagerEnable
    <2>2. AccOnly(h, st, c) /\ AccServed(st)
      BY <1>3, <1>6 DEF AccOnly, AccServed
    <2>3. st.on /\ HasClients(st)
      BY <1>3, <1>6, <1>9 DEF HasClients
    <2>4. QED BY <1>3, <1>6, <2>1, <2>2, <2>3
  <1>10. CASE h.params[Acc][c] # None /\ NumActive(h, Acc) = 1 /\ "activate" \in fails
    <2>1. k = RemoveParams(st, Acc, c)
      BY <1>7, <1>10 DEF ManagerEnable
    <2>2. st.best[Acc] = Best(st.params[Acc]) /\ st \in Hal
      BY <1>4, <1>6
    <2>3. AccOnly(st, k, c) /\ k.params[Acc][c] = None /\ k.best[Acc] = Best(k.params[Acc])
          /\ k.on = st.on /\ k.period = st.period
      BY <2>1, <2>2, AccRemoveIs
    <2>4. st.params[Acc] = h.params[Acc]
      BY <1>3, <1>6
    <2>5. k.params[Acc][c] = None /\ \A d \in Clients : d # c => k.params[Acc][d] = h.params[Acc][d]
      BY <2>3, <2>4 DEF AccOnly
    <2>6. AccOnly(h, k, c)
      BY <1>1, <1>3, <1>6, <2>3, <2>5 DEF AccOnly
    <2>7. k.period = h.period /\ (k.on <=> h.on)
      BY <1>3, <1>6, <1>10, <2>3
    <2>8. AccServed(k)
      BY <2>3, <2>5, <2>7 DEF AccServed
    <2>9. QED BY <1>10, <2>5, <2>6, <2>7, <2>8
  <1>11. QED BY <1>8, <1>9, <1>10

\* activate(..., false) of the accelerometer: it goes off only with its last connection, and
\* stays on without one only when the driver fails.
LEMMA AccDisableIs ==
  ASSUME NEW h \in Hal, AccServed(h), NEW c \in Clients, NEW fails,
         NEW k, k = AccDisable(h, c, fails)
  PROVE  /\ AccOnly(h, k, c) /\ AccServed(k) /\ k.params[Acc][c] = None
         /\ k.on => h.on
         /\ h.on /\ ~k.on => ~HasClients(k)
         /\ fails = {} /\ k.on /\ HasClients(h) => HasClients(k)
  <1>1. Acc \in Sensors /\ \A t \in FusionSensors : t \in Sensors /\ t # Acc
    BY SensorAssumption DEF Sensors
  <1>2. PICK g : g = Left(h, c, Acc)
    OBVIOUS
  <1>3. /\ g \in Hal
        /\ g.params[Acc] = [h.params[Acc] EXCEPT ![c] = None] /\ g.best[Acc] = Best(g.params[Acc])
        /\ \A t \in Sensors : t # Acc => g.params[t] = h.params[t] /\ g.best[t] = h.best[t]
        /\ g.on = h.on /\ g.period = h.period
        /\ g.enabled = h.enabled /\ g.asked = h.asked
        /\ g.bestDelay = h.bestDelay /\ g.accCount = h.accCount
    BY <1>1, <1>2, LeftIs DEF AccServed
  <1>4. g.params[Acc] \in [Clients -> Asked] /\ h.params[Acc] \in [Clients -> Asked] /\ g \in Hal
    BY <1>1, <1>3 DEF Hal
  <1>5. g.params[Acc][c] = None /\ \A d \in Clients : d # c => g.params[Acc][d] = h.params[Acc][d]
    BY <1>3, <1>4
  <1>6. AccOnly(h, g, c)
    BY <1>1, <1>3, <1>5 DEF AccOnly
  <1>7. \A d \in Clients : g.params[Acc][d] # None => g.period <= g.params[Acc][d]
    BY <1>3, <1>5 DEF AccServed
  <1>8. AccServed(g)
    BY <1>3, <1>7 DEF AccServed
  <1>9. PICK off : off = AccDriverEnable(g, FALSE, fails)
    OBVIOUS
  <1>10. PICK b : b = g.best[Acc]
    OBVIOUS
  <1>11. PICK told : told = AccDriverBatch(g, b, fails)
    OBVIOUS
  <1>12. k = ManagerDisable(h, off, told, c, Acc)
    BY <1>2, <1>9, <1>10, <1>11 DEF AccDisable
  <1>13. CASE h.params[Acc][c] = None
    <2>1. k = g
      BY <1>2, <1>12, <1>13 DEF ManagerDisable
    <2>2. HasClients(h) => HasClients(g)
      BY <1>5, <1>13 DEF HasClients
    <2>3. QED BY <1>3, <1>5, <1>6, <1>8, <2>1, <2>2
  <1>14. CASE h.params[Acc][c] # None /\ NumActive(g, Acc) = 0
    <2>1. k = off
      BY <1>2, <1>12, <1>14 DEF ManagerDisable
    <2>2. /\ off \in Hal /\ off.params = g.params /\ off.best = g.best /\ off.period = g.period
          /\ off.enabled = g.enabled /\ off.asked = g.asked
          /\ off.bestDelay = g.bestDelay /\ off.accCount = g.accCount
          /\ off.on <=> g.on /\ "activate" \in fails
      <3>1. g \in Hal
        BY <1>4
      <3>2. QED BY <1>9, <3>1, DriverOffIs DEF AccDriverEnable
    <2>3. ~HasClients(off)
      BY <1>1, <1>4, <1>14, <2>2, NumActiveIs DEF HasClients
    <2>4. AccOnly(h, off, c) /\ AccServed(off)
      BY <1>6, <1>8, <2>2 DEF AccOnly, AccServed
    <2>5. QED BY <1>3, <1>5, <2>1, <2>2, <2>3, <2>4
  <1>15. CASE h.params[Acc][c] # None /\ NumActive(g, Acc) # 0
    <2>1. k = told
      BY <1>2, <1>12, <1>15 DEF ManagerDisable
    <2>2. HasClients(g)
      BY <1>1, <1>4, <1>15, NumActiveIs DEF HasClients
    <2>3. b \in Delays /\ \A d \in Clients : g.params[Acc][d] # None => b <= g.params[Acc][d]
      <3>1. PICK ps \in [Clients -> Asked] : ps = g.params[Acc]
        BY <1>4
      <3>2. b = Best(ps)
        BY <1>3, <1>10, <3>1
      <3>3. PICK d \in Clients : ps[d] # None
        BY <2>2, <3>1 DEF HasClients
      <3>4. QED BY <3>1, <3>2, <3>3, BestIs DEF Asked
    <2>4. /\ told \in Hal /\ told.params = g.params /\ told.best = g.best /\ told.on = g.on
          /\ told.enabled = g.enabled /\ told.asked = g.asked
          /\ told.bestDelay = g.bestDelay /\ told.accCount = g.accCount
          /\ told.period = IF "batch" \in fails THEN g.period ELSE b
      BY <1>4, <1>11, <2>3, DriverBatchIs
    <2>5. HasClients(told)
      BY <2>2, <2>4 DEF HasClients
    <2>6. AccOnly(h, told, c)
      BY <1>6, <2>4 DEF AccOnly
    <2>7. AccServed(told)
      <3>1. told.best[Acc] = Best(told.params[Acc])
        BY <1>3, <2>4
      <3>2. CASE "batch" \in fails
        BY <1>7, <2>4, <3>1, <3>2 DEF AccServed
      <3>3. CASE "batch" \notin fails
        BY <2>3, <2>4, <3>1, <3>3 DEF AccServed
      <3>4. QED BY <3>2, <3>3
    <2>8. QED BY <1>3, <1>5, <2>1, <2>4, <2>5, <2>6, <2>7
  <1>16. QED BY <1>13, <1>14, <1>15

\* What the fusion driver leaves as it was: the connections of others and the manager's
\* record of the fusion sensors.
DriverOnly(h, k) ==
  /\ k \in Hal
  /\ \A d \in Clients : d # "fusion" => k.params[Acc][d] = h.params[Acc][d]
  /\ \A t \in FusionSensors : k.params[t] = h.params[t] /\ k.best[t] = h.best[t]

\* The best period of the fusion driver is at least as short as every enabled sensor's.
BestCounts(h) == \A f \in h.enabled : h.bestDelay <= h.asked[f]

\* The accelerometer goes off only without connections, and when no call fails stays on only
\* with one.
OffUnused(h, k) == h.on /\ ~k.on => ~HasClients(k)
OnUsed(h, k) == (h.on => HasClients(h)) => (k.on => HasClients(k))

\* selectBestSampleLatency.
LEMMA SelectBestIs ==
  ASSUME NEW h \in Hal, NEW k, k = SelectBest(h)
  PROVE  /\ k \in Hal /\ BestCounts(k)
         /\ k.params = h.params /\ k.best = h.best /\ k.on = h.on /\ k.period = h.period
         /\ k.enabled = h.enabled /\ k.asked = h.asked /\ k.accCount = h.accCount
  <1> DEFINE S == {h.bestDelay} \union {h.asked[f] : f \in h.enabled}
  <1>1. /\ h.bestDelay \in Delays /\ h.enabled \subseteq FusionSensors
        /\ \A f \in FusionSensors : h.asked[f] \in Delays
    BY DEF Hal
  <1>2. S \subseteq Delays /\ S # {} /\ \A f \in h.enabled : h.asked[f] \in S
    BY <1>1
  <1>3. S \in SUBSET Nat
    BY <1>2, SMTT(30) DEF Delays
  <1>4. k = [h EXCEPT !.bestDelay = Min(S)]
    BY DEF SelectBest
  <1> HIDE DEF S
  <1>5. PICK m : m = Min(S)
    OBVIOUS
  <1>6. m \in S /\ \A y \in S : m <= y
    BY <1>2, <1>3, <1>5, LeastOf
  <1>7. m \in Delays /\ \A f \in h.enabled : m <= h.asked[f]
    BY <1>2, <1>6
  <1>8. /\ k \in Hal /\ k.bestDelay = m
        /\ k.params = h.params /\ k.best = h.best /\ k.on = h.on /\ k.period = h.period
        /\ k.enabled = h.enabled /\ k.asked = h.asked /\ k.accCount = h.accCount
    BY <1>4, <1>5, <1>7 DEF Hal
  <1>9. BestCounts(k)
    BY <1>7, <1>8 DEF BestCounts
  <1>10. QED BY <1>8, <1>9

\* The fusion driver asks the manager for its best period.
LEMMA AskAccIs ==
  ASSUME NEW h \in Hal, AccServed(h), NEW fails, NEW k, k = AskAcc(h, fails)
  PROVE  /\ AccOnly(h, k, "fusion") /\ AccServed(k) /\ k.on = h.on
         /\ fails = {} => k.params[Acc]["fusion"] = Clamp(h.bestDelay, MinDelay) /\ HasClients(k)
  <1>1. PICK p \in Delays : p = h.bestDelay
    BY DEF Hal
  <1>2. PICK q \in Delays : q = Clamp(p, MinDelay)
    BY ClampIs
  <1>3. PICK c \in Clients : c = "fusion"
    BY DEF Clients
  <1>4. k = AccBatch(h, c, q, fails)
    BY <1>1, <1>2, <1>3 DEF AskAcc
  <1>5. /\ AccOnly(h, k, c) /\ AccServed(k) /\ k.on = h.on
        /\ fails = {} => k.params[Acc][c] = Clamp(q, MinDelay)
    BY <1>4, AccBatchIs
  <1>6. Clamp(q, MinDelay) = q /\ q # None
    BY <1>2, ClampIs, SensorAssumption DEF Delays, None
  <1>7. QED BY <1>1, <1>2, <1>3, <1>5, <1>6 DEF HasClients

\* batch() of the fusion driver.
LEMMA FusionBatchIs ==
  ASSUME NEW h \in Hal, AccServed(h), IdleReleases(h), NEW f \in FusionSensors, NEW p \in Delays,
         NEW fails, NEW k, k = FusionBatch(h, f, p, fails)
  PROVE  /\ DriverOnly(h, k) /\ AccServed(k) /\ IdleReleases(k) /\ BestCounts(k)
         /\ k.enabled = h.enabled /\ k.accCount = h.accCount
         /\ k.asked = [h.asked EXCEPT ![f] = p] /\ k.on = h.on
         /\ fails = {} => BestIsAsked(k) /\ OnUsed(h, k)
  <1>1. PICK g : g = [h EXCEPT !.asked[f] = p]
    OBVIOUS
  <1>2. /\ g \in Hal /\ g.asked = [h.asked EXCEPT ![f] = p]
        /\ g.params = h.params /\ g.best = h.best /\ g.on = h.on /\ g.period = h.period
        /\ g.enabled = h.enabled /\ g.accCount = h.accCount
    BY <1>1 DEF Hal
  <1>3. PICK b : b = SelectBest(g)
    OBVIOUS
  <1>4. /\ b \in Hal /\ BestCounts(b)
        /\ b.params = g.params /\ b.best = g.best /\ b.on = g.on /\ b.period = g.period
        /\ b.enabled = g.enabled /\ b.asked = g.asked /\ b.accCount = g.accCount
    BY <1>2, <1>3, SelectBestIs
  <1>5. AccServed(b) /\ b \in Hal
    BY <1>2, <1>4 DEF AccServed
  <1>6. k = IF h.accCount # 0 THEN AskAcc(b, fails) ELSE b
    BY <1>1, <1>3 DEF FusionBatch
  <1>7. CASE h.accCount = 0
    <2>1. k = b
      BY <1>6, <1>7
    <2>2. DriverOnly(h, b) /\ IdleReleases(b) /\ (HasClients(h) => HasClients(b))
      BY <1>2, <1>4 DEF DriverOnly, IdleReleases, HasClients
    <2>3. BestIsAsked(b) /\ OnUsed(h, b)
      BY <1>2, <1>4, <1>7, <2>2 DEF BestIsAsked, OnUsed
    <2>4. QED BY <1>2, <1>4, <1>5, <2>1, <2>2, <2>3
  <1>8. CASE h.accCount # 0
    <2>1. k = AskAcc(b, fails)
      BY <1>6, <1>8
    <2>2. /\ AccOnly(b, k, "fusion") /\ AccServed(k) /\ k.on = b.on
          /\ fails = {} => k.params[Acc]["fusion"] = Clamp(b.bestDelay, MinDelay) /\ HasClients(k)
      BY <1>5, <2>1, AskAccIs
    <2>3. DriverOnly(h, k)
      BY <1>2, <1>4, <2>2 DEF DriverOnly, AccOnly
    <2>4. /\ k.enabled = h.enabled /\ k.asked = [h.asked EXCEPT ![f] = p]
          /\ k.bestDelay = b.bestDelay /\ k.accCount = h.accCount /\ k.on = h.on
      BY <1>2, <1>4, <2>2 DEF AccOnly
    <2>5. BestCounts(k) /\ IdleReleases(k)
      BY <1>2, <1>4, <1>8, <2>4 DEF BestCounts, IdleReleases
    <2>6. fails = {} => BestIsAsked(k) /\ OnUsed(h, k)
      BY <2>2, <2>4 DEF BestIsAsked, OnUsed
    <2>7. QED BY <2>2, <2>3, <2>4, <2>5, <2>6
  <1>9. QED BY <1>7, <1>8

\* activate(..., true) of the fusion driver.
LEMMA FusionOnIs ==
  ASSUME NEW h \in Hal, AccServed(h), NEW f \in FusionSensors,
         NEW fails, NEW k, k = FusionOn(h, f, fails)
  PROVE  /\ DriverOnly(h, k) /\ AccServed(k) /\ IdleReleases(k) /\ BestCounts(k)
         /\ k.enabled = h.enabled \union {f} /\ k.accCount = h.accCount + 1
         /\ k.asked = h.asked /\ OffUnused(h, k)
         /\ fails = {} => BestIsAsked(k) /\ OnUsed(h, k)
  <1>1. PICK g : g = [h EXCEPT !.enabled = @ \union {f}]
    OBVIOUS
  <1>2. /\ g \in Hal /\ g.asked = h.asked
        /\ g.params = h.params /\ g.best = h.best /\ g.on = h.on /\ g.period = h.period
        /\ g.enabled = h.enabled \union {f} /\ g.accCount = h.accCount
    BY <1>1 DEF Hal
  <1>3. PICK b : b = SelectBest(g)
    OBVIOUS
  <1>4. /\ b \in Hal /\ BestCounts(b)
        /\ b.params = g.params /\ b.best = g.best /\ b.on = g.on /\ b.period = g.period
        /\ b.enabled = g.enabled /\ b.asked = g.asked /\ b.accCount = g.accCount
    BY <1>2, <1>3, SelectBestIs
  <1>5. AccServed(b) /\ b \in Hal
    BY <1>2, <1>4 DEF AccServed
  <1>6. PICK a : a = AskAcc(b, fails)
    OBVIOUS
  <1>7. /\ AccOnly(b, a, "fusion") /\ AccServed(a) /\ a.on = b.on
        /\ fails = {} => a.params[Acc]["fusion"] = Clamp(b.bestDelay, MinDelay) /\ HasClients(a)
    BY <1>5, <1>6, AskAccIs
  <1>8. PICK u : u = [a EXCEPT !.accCount = @ + 1]
    OBVIOUS
  <1>9. a \in Hal /\ a.accCount = h.accCount /\ h.accCount \in Nat
    BY <1>2, <1>4, <1>7 DEF AccOnly, Hal
  <1>10. PICK n \in Nat : n = h.accCount + 1
    BY <1>9
  <1>11. u = [a EXCEPT !.accCount = n]
    BY <1>8, <1>9, <1>10 DEF Hal
  <1>12. /\ u \in Hal /\ u.asked = a.asked /\ u.bestDelay = a.bestDelay
         /\ u.params = a.params /\ u.best = a.best /\ u.on = a.on /\ u.period = a.period
         /\ u.enabled = a.enabled /\ u.accCount = h.accCount + 1
    BY <1>9, <1>10, <1>11 DEF Hal
  <1>13. AccServed(u) /\ u \in Hal
    BY <1>7, <1>12 DEF AccServed
  <1>14. DriverOnly(h, u)
    BY <1>2, <1>4, <1>7, <1>12 DEF DriverOnly, AccOnly
  <1>15. /\ u.enabled = h.enabled \union {f} /\ u.asked = h.asked /\ u.bestDelay = b.bestDelay
         /\ u.on = h.on /\ \A x \in u.enabled : b.bestDelay <= h.asked[x]
    BY <1>2, <1>4, <1>7, <1>12 DEF AccOnly, BestCounts
  <1>16. fails = {} => u.params[Acc]["fusion"] = Clamp(b.bestDelay, MinDelay) /\ HasClients(u)
    BY <1>7, <1>12 DEF HasClients
  <1>17. k = IF h.accCount = 0 THEN AccEnable(u, "fusion", fails) ELSE u
    BY <1>1, <1>3, <1>6, <1>8 DEF FusionOn
  <1>18. CASE h.accCount # 0
    <2>1. k = u
      BY <1>17, <1>18
    <2>2. BestCounts(u) /\ IdleReleases(u) /\ (fails = {} => BestIsAsked(u))
      BY <1>9, <1>12, <1>15, <1>16 DEF BestCounts, IdleReleases, BestIsAsked
    <2>3. OffUnused(h, u) /\ (fails = {} => OnUsed(h, u))
      BY <1>15, <1>16 DEF OffUnused, OnUsed
    <2>4. QED BY <1>12, <1>13, <1>14, <1>15, <2>1, <2>2, <2>3
  <1>19. CASE h.accCount = 0
    <2>1. PICK c \in Clients : c = "fusion"
      BY DEF Clients
    <2>2. k = AccEnable(u, c, fails)
      BY <1>17, <1>19, <2>1
    <2>3. /\ AccOnly(u, k, c) /\ AccServed(k) /\ (u.on => k.on)
          /\ k.on => u.on \/ HasClients(k)
          /\ fails = {} => k.params[Acc][c] = u.params[Acc][c]
      BY <1>13, <2>2, AccEnableIs
    <2>4. DriverOnly(h, k)
      BY <1>14, <2>1, <2>3 DEF DriverOnly, AccOnly
    <2>5. /\ k.enabled = u.enabled /\ k.asked = u.asked
          /\ k.bestDelay = u.bestDelay /\ k.accCount = u.accCount
      BY <2>3 DEF AccOnly
    <2>6. BestCounts(k) /\ IdleReleases(k)
      BY <1>12, <1>15, <1>9, <2>5 DEF BestCounts, IdleReleases
    <2>7. fails = {} => BestIsAsked(k) /\ HasClients(k)
      <3>1. ASSUME fails = {} PROVE k.params[Acc][c] = Clamp(b.bestDelay, MinDelay)
        BY <1>16, <2>1, <2>3, <3>1
      <3>2. PICK q \in Delays : q = b.bestDelay
        BY <1>4 DEF Hal
      <3>3. Clamp(b.bestDelay, MinDelay) # None
        BY <3>2, ClampIs, SensorAssumption DEF Delays, None
      <3>4. QED BY <1>15, <2>1, <2>5, <3>1, <3>3 DEF BestIsAsked, HasClients
    <2>8. OffUnused(h, k) /\ (fails = {} => OnUsed(h, k))
      BY <1>15, <2>3, <2>7 DEF OffUnused, OnUsed
    <2>9. QED BY <1>12, <1>15, <2>3, <2>4, <2>5, <2>6, <2>7, <2>8
  <1>20. QED BY <1>18, <1>19

\* activate(..., false) of the fusion driver, of a sensor that may not be enabled: the count
\* stops at zero, and with it the connection's parameters are gone.
LEMMA FusionOffIs ==
  ASSUME NEW h \in Hal, AccServed(h), IdleReleases(h), NEW f \in FusionSensors,
         NEW fails, NEW k, k = FusionOff(h, f, fails)
  PROVE  /\ DriverOnly(h, k) /\ AccServed(k) /\ IdleReleases(k) /\ BestCounts(k)
         /\ k.enabled = h.enabled \ {f}
         /\ k.accCount = IF h.accCount = 0 THEN 0 ELSE h.accCount - 1
         /\ k.asked = [h.asked EXCEPT ![f] = MaxDelay] /\ OffUnused(h, k)
         /\ fails = {} => OnUsed(h, k)
         /\ fails = {} /\ k.enabled # {} => BestIsAsked(k)
  <1>1. MaxDelay \in Delays
    BY SensorAssumption DEF Delays
  <1>2. PICK g : g = [h EXCEPT !.enabled = @ \ {f}, !.asked[f] = MaxDelay]
    OBVIOUS
  <1>3. /\ g \in Hal /\ g.asked = [h.asked EXCEPT ![f] = MaxDelay]
        /\ g.params = h.params /\ g.best = h.best /\ g.on = h.on /\ g.period = h.period
        /\ g.enabled = h.enabled \ {f} /\ g.accCount = h.accCount
    BY <1>1, <1>2 DEF Hal
  <1>4. PICK b : b = SelectBest(g)
    OBVIOUS
  <1>5. /\ b \in Hal /\ BestCounts(b)
        /\ b.params = g.params /\ b.best = g.best /\ b.on = g.on /\ b.period = g.period
        /\ b.enabled = g.enabled /\ b.asked = g.asked /\ b.accCount = g.accCount
    BY <1>3, <1>4, SelectBestIs
  <1>6. PICK n \in Nat : n = IF h.accCount - 1 < 0 THEN 0 ELSE h.accCount - 1
    BY DEF Hal
  <1>7. h.accCount \in Nat /\ n = IF h.accCount = 0 THEN 0 ELSE h.accCount - 1
    BY <1>6 DEF Hal
  <1>8. PICK left : left = [b EXCEPT !.accCount = n]
    OBVIOUS
  <1>9. /\ left \in Hal /\ left.asked = b.asked /\ left.bestDelay = b.bestDelay
        /\ left.params = b.params /\ left.best = b.best /\ left.on = b.on /\ left.period = b.period
        /\ left.enabled = b.enabled /\ left.accCount = n
    BY <1>5, <1>8 DEF Hal
  <1>10. AccServed(left) /\ left \in Hal /\ DriverOnly(h, left)
    BY <1>3, <1>5, <1>9 DEF AccServed, DriverOnly
  <1>11. /\ left.enabled = h.enabled \ {f} /\ left.asked = [h.asked EXCEPT ![f] = MaxDelay]
         /\ left.on = h.on /\ BestCounts(left) /\ left.accCount = n
         /\ (HasClients(h) <=> HasClients(left))
    BY <1>3, <1>5, <1>9 DEF BestCounts, HasClients
  <1>12. PICK told : told = IF h.accCount - 1 = 0 THEN AccDisable(left, "fusion", fails)
                            ELSE IF h.accCount - 1 > 0 THEN AskAcc(left, fails) ELSE left
    OBVIOUS
  <1>13. k = IF b.enabled = {} THEN [told EXCEPT !.bestDelay = MaxDelay] ELSE told
    BY <1>2, <1>4, <1>6, <1>8, <1>12 DEF FusionOff
  <1>14. /\ DriverOnly(h, told) /\ AccServed(told) /\ IdleReleases(told) /\ BestCounts(told)
         /\ told.enabled = h.enabled \ {f} /\ told.accCount = n
         /\ told.asked = [h.asked EXCEPT ![f] = MaxDelay] /\ OffUnused(h, told)
         /\ fails = {} => OnUsed(h, told) /\ BestIsAsked(told)
    <2>1. CASE h.accCount = 0
      <3>1. told = left /\ n = 0
        BY <1>7, <1>12, <2>1
      <3>2. IdleReleases(left) /\ BestIsAsked(left)
        BY <1>3, <1>5, <1>9, <1>11, <2>1, <3>1 DEF IdleReleases, BestIsAsked
      <3>3. OffUnused(h, left) /\ OnUsed(h, left)
        BY <1>11 DEF OffUnused, OnUsed
      <3>4. QED BY <1>10, <1>11, <3>1, <3>2, <3>3
    <2>2. CASE h.accCount = 1
      <3>1. PICK c \in Clients : c = "fusion"
        BY DEF Clients
      <3>2. told = AccDisable(left, c, fails) /\ n = 0
        BY <1>7, <1>12, <2>2, <3>1
      <3>3. /\ AccOnly(left, told, c) /\ AccServed(told) /\ told.params[Acc][c] = None
            /\ told.on => left.on
            /\ left.on /\ ~told.on => ~HasClients(told)
            /\ fails = {} /\ told.on /\ HasClients(left) => HasClients(told)
        BY <1>10, <3>2, AccDisableIs
      <3>4. DriverOnly(h, told)
        BY <1>10, <3>1, <3>3 DEF DriverOnly, AccOnly
      <3>5. /\ told.enabled = left.enabled /\ told.asked = left.asked
            /\ told.bestDelay = left.bestDelay /\ told.accCount = left.accCount
        BY <3>3 DEF AccOnly
      <3>6. told.accCount = 0 /\ told.params[Acc]["fusion"] = None
        BY <1>11, <3>1, <3>2, <3>3, <3>5
      <3>7. BestCounts(told)
        BY <1>11, <3>5 DEF BestCounts
      <3>8. IdleReleases(told) /\ BestCounts(told) /\ BestIsAsked(told)
        BY <3>6, <3>7 DEF IdleReleases, BestIsAsked
      <3>9. OffUnused(h, told) /\ (fails = {} => OnUsed(h, told))
        BY <1>11, <3>3 DEF OffUnused, OnUsed
      <3>10. QED BY <1>11, <3>3, <3>4, <3>5, <3>8, <3>9
    <2>3. CASE h.accCount > 1
      <3>1. told = AskAcc(left, fails) /\ n > 0
        BY <1>7, <1>12, <2>3
      <3>2. /\ AccOnly(left, told, "fusion") /\ AccServed(told) /\ told.on = left.on
            /\ fails = {} => told.params[Acc]["fusion"] = Clamp(left.bestDelay, MinDelay) /\ HasClients(told)
        BY <1>10, <3>1, AskAccIs
      <3>3. DriverOnly(h, told)
        BY <1>10, <3>2 DEF DriverOnly, AccOnly
      <3>4. /\ told.enabled = left.enabled /\ told.asked = left.asked
            /\ told.bestDelay = left.bestDelay /\ told.accCount = left.accCount
        BY <3>2 DEF AccOnly
      <3>5. IdleReleases(told) /\ BestCounts(told)
        BY <1>11, <3>1, <3>4 DEF IdleReleases, BestCounts
      <3>6. OffUnused(h, told) /\ (fails = {} => OnUsed(h, told) /\ BestIsAsked(told))
        BY <1>11, <3>2, <3>4 DEF OffUnused, OnUsed, BestIsAsked
      <3>7. QED BY <1>11, <3>2, <3>3, <3>4, <3>5, <3>6
    <2>4. QED BY <1>7, <2>1, <2>2, <2>3
  <1>15. b.enabled = h.enabled \ {f}
    BY <1>9, <1>11
  <1>16. CASE b.enabled # {}
    <2>1. k = told
      BY <1>13, <1>16
    <2>2. QED BY <1>7, <1>14, <2>1
  <1>17. CASE b.enabled = {}
    <2>1. k = [told EXCEPT !.bestDelay = MaxDelay]
      BY <1>13, <1>17
    <2>2. told \in Hal
      BY <1>14 DEF DriverOnly
    <2>3. /\ k \in Hal /\ k.asked = told.asked
          /\ k.params = told.params /\ k.best = told.best /\ k.on = told.on /\ k.period = told.period
          /\ k.enabled = told.enabled /\ k.accCount = told.accCount
      BY <1>1, <2>1, <2>2 DEF Hal
    <2>4. DriverOnly(h, k) /\ AccServed(k) /\ IdleReleases(k)
      BY <1>14, <2>3 DEF DriverOnly, AccServed, IdleReleases
    <2>5. BestCounts(k)
      BY <1>14, <1>15, <1>17, <2>3 DEF BestCounts
    <2>6. OffUnused(h, k) /\ (fails = {} => OnUsed(h, k))
      BY <1>14, <2>3 DEF OffUnused, OnUsed, HasClients
    <2>7. k.enabled = {}
      BY <1>14, <1>15, <1>17, <2>3
    <2>8. QED BY <1>7, <1>14, <2>3, <2>4, <2>5, <2>6, <2>7
  <1>18. QED BY <1>16, <1>17

-----------------------------------------------------------------------------

\* What holds of the manager and the drivers between calls, failures or not.
Good(h) == h \in Hal /\ AccServed(h) /\ FusionOwn(h) /\ IdleReleases(h)

\* What a call keeps when no driver fails.
Smooth(h, k) == OnUsed(h, k) /\ (BestIsAsked(h) => BestIsAsked(k))

\* A call of the framework's or a direct channel's connection on the accelerometer.
LEMMA AccKeepsGood ==
  ASSUME NEW h, Good(h), NEW c \in Clients \ {"fusion"}, NEW k, AccOnly(h, k, c), AccServed(k)
  PROVE  /\ Good(k) /\ (BestIsAsked(h) => BestIsAsked(k))
         /\ k.enabled = h.enabled /\ k.accCount = h.accCount
         /\ \A t \in FusionSensors : k.params[t] = h.params[t]
  <1>1. /\ k \in Hal /\ k.params[Acc]["fusion"] = h.params[Acc]["fusion"]
        /\ \A t \in FusionSensors : k.params[t] = h.params[t] /\ k.best[t] = h.best[t]
        /\ k.enabled = h.enabled /\ k.asked = h.asked
        /\ k.bestDelay = h.bestDelay /\ k.accCount = h.accCount
    BY DEF AccOnly, Clients
  <1>2. FusionOwn(k)
    BY <1>1 DEF Good, FusionOwn
  <1>3. IdleReleases(k) /\ (BestIsAsked(h) => BestIsAsked(k))
    BY <1>1 DEF Good, IdleReleases, BestIsAsked
  <1>4. QED BY <1>1, <1>2, <1>3 DEF Good

\* batch() of a fusion sensor.
LEMMA FusionRequestIs ==
  ASSUME NEW h, Good(h), NEW f \in FusionSensors, NEW p \in Delays, NEW fails,
         NEW k, k = FusionRequest(h, f, p, fails)
  PROVE  /\ Good(k) /\ k.on = h.on /\ (fails = {} => Smooth(h, k))
         /\ k.enabled = h.enabled /\ k.accCount = h.accCount /\ k.params[f]["native"] = p
         /\ \A t \in FusionSensors : t # f => k.params[t] = h.params[t]
  <1>1. PICK c \in Clients : c = "native"
    BY DEF Clients
  <1>2. f \in Sensors /\ f # Acc /\ p \in Asked /\ p # None /\ h \in Hal
    BY SensorAssumption DEF Sensors, Asked, Delays, None, Good
  <1>3. PICK st : st = StoreParams(h, f, c, p)
    OBVIOUS
  <1>4. /\ st \in Hal
        /\ st.params[f] = [h.params[f] EXCEPT ![c] = p] /\ st.best[f] = Best(st.params[f])
        /\ \A t \in Sensors : t # f => st.params[t] = h.params[t] /\ st.best[t] = h.best[t]
        /\ st.on = h.on /\ st.period = h.period
        /\ st.enabled = h.enabled /\ st.asked = h.asked
        /\ st.bestDelay = h.bestDelay /\ st.accCount = h.accCount
    BY <1>2, <1>3, StoreParamsIs
  <1>5. st.params[f] \in [Clients -> Asked] /\ h.params[f] \in [Clients -> Asked]
    BY <1>2, <1>4 DEF Hal
  <1>6. st.params[f]["native"] = p /\ st.params[f]["direct"] = None /\ st.params[f]["fusion"] = None
    BY <1>1, <1>4, <1>5 DEF Good, FusionOwn, Clients
  <1>7. st.best[f] = p
    BY <1>4, <1>5, <1>6, BestOfOne
  <1>8. Acc \in Sensors /\ st.params[Acc] = h.params[Acc] /\ st.best[Acc] = h.best[Acc]
        /\ \A t \in FusionSensors : t # f => st.params[t] = h.params[t] /\ st.best[t] = h.best[t]
    BY <1>2, <1>4 DEF Sensors
  <1>9. AccServed(st) /\ IdleReleases(st) /\ st \in Hal
    BY <1>4, <1>8 DEF Good, AccServed, IdleReleases
  <1>10. PICK sent : sent = FusionBatch(st, f, p, fails)
    OBVIOUS
  <1>11. k = ManagerBatch(h, st, sent, c, f, FALSE)
    BY <1>1, <1>3, <1>7, <1>10 DEF FusionRequest
  <1>12. CASE h.best[f] = p
    <2>1. k = st
      BY <1>7, <1>11, <1>12 DEF ManagerBatch
    <2>2. h.params[f]["native"] = p
      BY <1>5, <1>12, BestOfOne DEF Good, FusionOwn
    <2>3. FusionOwn(st)
      BY <1>2, <1>4, <1>6, <1>8, <2>2, ZenonT(30) DEF Good, FusionOwn
    <2>4. Smooth(h, st)
      BY <1>4, <1>8 DEF Smooth, OnUsed, BestIsAsked, HasClients
    <2>5. QED BY <1>4, <1>6, <1>8, <1>9, <2>1, <2>3, <2>4 DEF Good
  <1>13. CASE h.best[f] # p
    <2>1. k = sent
      BY <1>7, <1>11, <1>13 DEF ManagerBatch
    <2>2. /\ DriverOnly(st, sent) /\ AccServed(sent) /\ IdleReleases(sent) /\ BestCounts(sent)
          /\ sent.enabled = st.enabled /\ sent.accCount = st.accCount
          /\ sent.asked = [st.asked EXCEPT ![f] = p] /\ sent.on = st.on
          /\ fails = {} => BestIsAsked(sent) /\ OnUsed(st, sent)
      BY <1>9, <1>10, FusionBatchIs
    <2>3. sent \in Hal /\ \A t \in FusionSensors : sent.params[t] = st.params[t] /\ sent.best[t] = st.best[t]
      BY <2>2 DEF DriverOnly
    <2>4. sent.asked[f] = p /\ \A t \in FusionSensors : t # f => sent.asked[t] = h.asked[t]
      BY <1>4, <2>2 DEF Hal
    <2>5. FusionOwn(sent)
      <3>1. ASSUME NEW t \in FusionSensors
            PROVE  /\ sent.best[t] = Best(sent.params[t])
                   /\ sent.params[t]["direct"] = None /\ sent.params[t]["fusion"] = None
                   /\ sent.params[t]["native"] # None => sent.asked[t] = sent.params[t]["native"]
        <4>1. CASE t = f
          BY <1>4, <1>6, <2>3, <2>4, <4>1
        <4>2. CASE t # f
          BY <1>8, <2>3, <2>4, <4>2 DEF Good, FusionOwn
        <4>3. QED BY <4>1, <4>2
      <3>2. QED BY <2>2, <3>1 DEF FusionOwn, BestCounts
    <2>6. OnUsed(st, sent) => OnUsed(h, sent)
      BY <1>4, <1>8 DEF OnUsed, HasClients
    <2>7. QED BY <1>4, <1>6, <1>8, <2>1, <2>2, <2>3, <2>5, <2>6, ZenonT(30) DEF Good, Smooth
  <1>14. QED BY <1>12, <1>13

\* activate(..., true) of a fusion sensor that the framework has batched reaches the driver.
LEMMA FusionEnableIs ==
  ASSUME NEW h, Good(h), NEW f \in FusionSensors, h.params[f]["native"] # None, NEW fails,
         NEW k, k = FusionEnable(h, f, fails)
  PROVE  /\ Good(k) /\ OffUnused(h, k) /\ (fails = {} => Smooth(h, k))
         /\ k.enabled = h.enabled \union {f} /\ k.accCount = h.accCount + 1
         /\ \A t \in FusionSensors : k.params[t] = h.params[t]
  <1>1. PICK c \in Clients : c = "native"
    BY DEF Clients
  <1>2. f \in Sensors /\ f # Acc /\ h \in Hal
    BY SensorAssumption DEF Sensors, Good
  <1>3. PICK g : g = Listening(h, c, f)
    OBVIOUS
  <1>4. /\ g \in Hal /\ g.params = h.params /\ g.best = h.best
        /\ g.on = h.on /\ g.period = h.period /\ g.enabled = h.enabled /\ g.asked = h.asked
        /\ g.bestDelay = h.bestDelay /\ g.accCount = h.accCount
    BY <1>2, <1>3, ListeningIs
  <1>5. AccServed(g) /\ g \in Hal
    BY <1>4 DEF Good, AccServed
  <1>6. PICK started : started = FusionOn(g, f, fails)
    OBVIOUS
  <1>7. NumActive(h, f) = 1
    <2>1. {d \in Clients : h.params[f][d] # None} = {c}
      BY <1>1 DEF Good, FusionOwn, Clients
    <2>2. QED BY <1>2, <2>1, NumActiveIs
  <1>8. k = started
    BY <1>1, <1>3, <1>6, <1>7 DEF FusionEnable, ManagerEnable
  <1>9. /\ DriverOnly(g, k) /\ AccServed(k) /\ IdleReleases(k) /\ BestCounts(k)
        /\ k.enabled = g.enabled \union {f} /\ k.accCount = g.accCount + 1
        /\ k.asked = g.asked /\ OffUnused(g, k)
        /\ fails = {} => BestIsAsked(k) /\ OnUsed(g, k)
    BY <1>5, <1>6, <1>8, FusionOnIs
  <1>10. k \in Hal /\ \A t \in FusionSensors : k.params[t] = h.params[t] /\ k.best[t] = h.best[t]
    BY <1>4, <1>9 DEF DriverOnly
  <1>11. FusionOwn(k)
    BY <1>4, <1>9, <1>10 DEF Good, FusionOwn, BestCounts
  <1>12. OffUnused(h, k) /\ (OnUsed(g, k) => OnUsed(h, k))
    BY <1>4, <1>9 DEF OffUnused, OnUsed, HasClients
  <1>13. QED BY <1>4, <1>9, <1>10, <1>11, <1>12 DEF Good, Smooth

\* activate(..., false) of a fusion sensor that has the framework's parameters stops it.
LEMMA FusionDisableIs ==
  ASSUME NEW h, Good(h), NEW f \in FusionSensors, h.params[f]["native"] # None, NEW fails,
         NEW k, k = FusionDisable(h, f, fails)
  PROVE  /\ Good(k) /\ OffUnused(h, k) /\ (fails = {} => OnUsed(h, k))
         /\ fails = {} /\ k.enabled # {} => BestIsAsked(k)
         /\ k.enabled = h.enabled \ {f}
         /\ k.accCount = IF h.accCount = 0 THEN 0 ELSE h.accCount - 1
         /\ \A t \in FusionSensors : t # f => k.params[t] = h.params[t]
  <1>1. PICK c \in Clients : c = "native"
    BY DEF Clients
  <1>2. f \in Sensors /\ f # Acc /\ Acc \in Sensors /\ h \in Hal /\ h.best[f] = Best(h.params[f])
    BY SensorAssumption DEF Sensors, Good, FusionOwn
  <1>3. PICK g : g = Left(h, c, f)
    OBVIOUS
  <1>4. /\ g \in Hal
        /\ g.params[f] = [h.params[f] EXCEPT ![c] = None] /\ g.best[f] = Best(g.params[f])
        /\ \A t \in Sensors : t # f => g.params[t] = h.params[t] /\ g.best[t] = h.best[t]
        /\ g.on = h.on /\ g.period = h.period
        /\ g.enabled = h.enabled /\ g.asked = h.asked
        /\ g.bestDelay = h.bestDelay /\ g.accCount = h.accCount
    BY <1>2, <1>3, LeftIs
  <1>5. h.params[f] \in [Clients -> Asked]
    BY <1>2 DEF Hal
  <1>6. \A d \in Clients : g.params[f][d] = None
    BY <1>1, <1>4, <1>5 DEF Good, FusionOwn, Clients
  <1>7. NumActive(g, f) = 0
    BY <1>2, <1>4, <1>6, NumActiveIs
  <1>8. g.params[Acc] = h.params[Acc] /\ g.best[Acc] = h.best[Acc]
        /\ \A t \in FusionSensors : t # f => g.params[t] = h.params[t] /\ g.best[t] = h.best[t]
    BY <1>2, <1>4 DEF Sensors
  <1>9. AccServed(g) /\ IdleReleases(g) /\ g \in Hal
    BY <1>4, <1>8 DEF Good, AccServed, IdleReleases
  <1>10. k = FusionOff(g, f, fails)
    BY <1>1, <1>3, <1>7 DEF FusionDisable, ManagerDisable
  <1>11. /\ DriverOnly(g, k) /\ AccServed(k) /\ IdleReleases(k) /\ BestCounts(k)
         /\ k.enabled = g.enabled \ {f}
         /\ k.accCount = IF g.accCount = 0 THEN 0 ELSE g.accCount - 1
         /\ k.asked = [g.asked EXCEPT ![f] = MaxDelay] /\ OffUnused(g, k)
         /\ fails = {} => OnUsed(g, k)
         /\ fails = {} /\ k.enabled # {} => BestIsAsked(k)
    BY <1>9, <1>10, FusionOffIs
  <1>12. k \in Hal /\ \A t \in FusionSensors : k.params[t] = g.params[t] /\ k.best[t] = g.best[t]
    BY <1>11 DEF DriverOnly
  <1>13. \A t \in FusionSensors : t # f => k.asked[t] = h.asked[t]
    BY <1>4, <1>11 DEF Hal
  <1>14. FusionOwn(k)
    <2>1. ASSUME NEW t \in FusionSensors
          PROVE  /\ k.best[t] = Best(k.params[t])
                 /\ k.params[t]["direct"] = None /\ k.params[t]["fusion"] = None
                 /\ k.params[t]["native"] # None => k.asked[t] = k.params[t]["native"]
      <3>1. CASE t = f
        BY <1>4, <1>6, <1>12, <3>1 DEF Clients
      <3>2. CASE t # f
        BY <1>8, <1>12, <1>13, <3>2 DEF Good, FusionOwn
      <3>3. QED BY <3>1, <3>2
    <2>2. QED BY <1>11, <2>1 DEF FusionOwn, BestCounts
  <1>15. OffUnused(h, k) /\ (OnUsed(g, k) => OnUsed(h, k))
    BY <1>4, <1>8, <1>11 DEF OffUnused, OnUsed, HasClients
  <1>16. QED BY <1>4, <1>8, <1>11, <1>12, <1>14, <1>15 DEF Good

\* The record with a fresh Info of one sensor.
Fresh(h, s, ps) == [h EXCEPT !.params[s] = ps, !.best[s] = None]

\* A fresh Info forgets the sensor's parameters.
LEMMA FreshIs ==
  ASSUME NEW h \in Hal, NEW s \in Sensors,
         NEW ps, ps = [c \in Clients |-> None],
         NEW k, k = Fresh(h, s, ps)
  PROVE  /\ k \in Hal /\ \A c \in Clients : k.params[s][c] = None
         /\ k.best[s] = Best(k.params[s]) /\ k.best[s] = None
         /\ \A t \in Sensors : t # s => k.params[t] = h.params[t] /\ k.best[t] = h.best[t]
         /\ k.on = h.on /\ k.period = h.period
         /\ k.enabled = h.enabled /\ k.asked = h.asked
         /\ k.bestDelay = h.bestDelay /\ k.accCount = h.accCount
  <1>1. None \in Asked
    BY DEF Asked
  <1>2. ps \in [Clients -> Asked] /\ \A c \in Clients : ps[c] = None
    BY <1>1
  <1>3. Best(ps) = None
    BY <1>2, BestIs
  <1>4. PICK P : P = [h.params EXCEPT ![s] = ps]
    OBVIOUS
  <1>5. PICK B : B = [h.best EXCEPT ![s] = None]
    OBVIOUS
  <1>6. P \in [Sensors -> [Clients -> Asked]] /\ B \in [Sensors -> Asked]
    BY <1>1, <1>2, <1>4, <1>5 DEF Hal
  <1>7. P[s] = ps /\ B[s] = None /\ \A t \in Sensors : t # s => P[t] = h.params[t] /\ B[t] = h.best[t]
    BY <1>4, <1>5 DEF Hal
  <1>8. k = [h EXCEPT !.params = P, !.best = B]
    BY <1>4, <1>5 DEF Hal, Fresh
  <1>9. /\ k \in Hal /\ k.params = P /\ k.best = B
        /\ k.on = h.on /\ k.period = h.period
        /\ k.enabled = h.enabled /\ k.asked = h.asked
        /\ k.bestDelay = h.bestDelay /\ k.accCount = h.accCount
    BY <1>6, <1>8 DEF Hal
  <1>10. QED BY <1>2, <1>3, <1>7, <1>9

\* addSensorsList for the accelerometer.
LEMMA AddAccIs ==
  ASSUME NEW h, Good(h), NEW fails, NEW k, k = AddSensor(h, Acc, fails)
  PROVE  /\ Good(k) /\ (fails = {} => OnUsed(h, k))
         /\ k.enabled = h.enabled /\ k.accCount = h.accCount
         /\ ~HasClients(k)
  <1>1. PICK s \in Sensors : s = Acc
    BY DEF Sensors
  <1>2. PICK ps : ps = [c \in Clients |-> None]
    OBVIOUS
  <1>3. PICK g : g = Fresh(h, s, ps)
    OBVIOUS
  <1>4. h \in Hal
    BY DEF Good
  <1>5. /\ g \in Hal /\ \A c \in Clients : g.params[s][c] = None
        /\ g.best[s] = Best(g.params[s]) /\ g.best[s] = None
        /\ \A t \in Sensors : t # s => g.params[t] = h.params[t] /\ g.best[t] = h.best[t]
        /\ g.on = h.on /\ g.period = h.period
        /\ g.enabled = h.enabled /\ g.asked = h.asked
        /\ g.bestDelay = h.bestDelay /\ g.accCount = h.accCount
    BY <1>4, <1>2, <1>3, FreshIs
  <1>6. g \in Hal
    BY <1>5
  <1>7. k = AccDriverEnable(g, FALSE, fails)
    BY <1>1, <1>2, <1>3 DEF AddSensor, Fresh
  <1>8. /\ k \in Hal /\ k.params = g.params /\ k.best = g.best /\ k.period = g.period
        /\ k.enabled = g.enabled /\ k.asked = g.asked
        /\ k.bestDelay = g.bestDelay /\ k.accCount = g.accCount
        /\ k.on <=> g.on /\ "activate" \in fails
    BY <1>6, <1>7, DriverOffIs DEF AccDriverEnable
  <1>9. \A t \in FusionSensors : t \in Sensors /\ t # s
    BY <1>1, SensorAssumption DEF Sensors
  <1>10. FusionOwn(k)
    BY <1>5, <1>8, <1>9 DEF Good, FusionOwn
  <1>11. AccServed(k) /\ IdleReleases(k) /\ ~HasClients(k)
    BY <1>1, <1>5, <1>8 DEF AccServed, IdleReleases, HasClients, Clients
  <1>12. fails = {} => OnUsed(h, k)
    BY <1>8 DEF OnUsed
  <1>13. QED BY <1>5, <1>8, <1>10, <1>11, <1>12 DEF Good

\* addSensorsList for a fusion sensor.
LEMMA AddFusionIs ==
  ASSUME NEW h, Good(h), NEW f \in FusionSensors, NEW fails, NEW k, k = AddSensor(h, f, fails)
  PROVE  /\ Good(k) /\ (fails = {} => OnUsed(h, k))
         /\ k.enabled = h.enabled \ {f}
         /\ k.accCount = IF h.accCount = 0 THEN 0 ELSE h.accCount - 1
         /\ \A d \in Clients : d # "fusion" => k.params[Acc][d] = h.params[Acc][d]
  <1>1. f \in Sensors /\ f # Acc /\ Acc \in Sensors /\ h \in Hal
    BY SensorAssumption DEF Sensors, Good
  <1>2. PICK ps : ps = [c \in Clients |-> None]
    OBVIOUS
  <1>3. PICK g : g = Fresh(h, f, ps)
    OBVIOUS
  <1>4. /\ g \in Hal /\ \A c \in Clients : g.params[f][c] = None
        /\ g.best[f] = Best(g.params[f]) /\ g.best[f] = None
        /\ \A t \in Sensors : t # f => g.params[t] = h.params[t] /\ g.best[t] = h.best[t]
        /\ g.on = h.on /\ g.period = h.period
        /\ g.enabled = h.enabled /\ g.asked = h.asked
        /\ g.bestDelay = h.bestDelay /\ g.accCount = h.accCount
    <2>1. f \in Sensors
      BY <1>1
    <2>2. h \in Hal
      BY <1>1
    <2>3. QED BY <1>2, <1>3, <2>1, <2>2, FreshIs
  <1>5. g.params[Acc] = h.params[Acc] /\ g.best[Acc] = h.best[Acc]
        /\ \A t \in FusionSensors : t # f => g.params[t] = h.params[t] /\ g.best[t] = h.best[t]
    BY <1>1, <1>4 DEF Sensors
  <1>6. AccServed(g) /\ IdleReleases(g) /\ g \in Hal
    BY <1>4, <1>5 DEF Good, AccServed, IdleReleases
  <1>7. k = FusionOff(g, f, fails)
    BY <1>1, <1>2, <1>3 DEF AddSensor, Fresh
  <1>8. /\ DriverOnly(g, k) /\ AccServed(k) /\ IdleReleases(k) /\ BestCounts(k)
        /\ k.enabled = g.enabled \ {f}
        /\ k.accCount = IF g.accCount = 0 THEN 0 ELSE g.accCount - 1
        /\ k.asked = [g.asked EXCEPT ![f] = MaxDelay]
        /\ fails = {} => OnUsed(g, k)
    BY <1>6, <1>7, FusionOffIs
  <1>9. k \in Hal /\ \A t \in FusionSensors : k.params[t] = g.params[t] /\ k.best[t] = g.best[t]
    BY <1>8 DEF DriverOnly
  <1>10. \A t \in FusionSensors : t # f => k.asked[t] = h.asked[t]
    BY <1>4, <1>8 DEF Hal
  <1>11. FusionOwn(k)
    <2>1. ASSUME NEW t \in FusionSensors
          PROVE  /\ k.best[t] = Best(k.params[t])
                 /\ k.params[t]["direct"] = None /\ k.params[t]["fusion"] = None
                 /\ k.params[t]["native"] # None => k.asked[t] = k.params[t]["native"]
      <3>1. CASE t = f
        BY <1>4, <1>9, <3>1 DEF Clients
      <3>2. CASE t # f
        BY <1>5, <1>9, <1>10, <3>2 DEF Good, FusionOwn
      <3>3. QED BY <3>1, <3>2
    <2>2. QED BY <1>8, <2>1 DEF FusionOwn, BestCounts
  <1>12. OnUsed(g, k) => OnUsed(h, k)
    BY <1>4, <1>5 DEF OnUsed, HasClients
  <1>13. \A d \in Clients : d # "fusion" => k.params[Acc][d] = h.params[Acc][d]
    BY <1>5, <1>8 DEF DriverOnly
  <1>14. QED BY <1>4, <1>8, <1>9, <1>11, <1>12, <1>13 DEF Good

\* Adding one sensor disables it, and the count does not exceed the enabled sensors.
LEMMA AddSensorIs ==
  ASSUME NEW h, Good(h), NEW s \in Sensors, NEW fails, NEW k, k = AddSensor(h, s, fails)
  PROVE  /\ Good(k) /\ (fails = {} => OnUsed(h, k))
         /\ k.enabled = h.enabled \ {s}
         /\ h.accCount <= Cardinality(h.enabled) => k.accCount <= Cardinality(k.enabled)
         /\ \A d \in Clients \ {"fusion"} :
              k.params[Acc][d] = IF s = Acc THEN None ELSE h.params[Acc][d]
  <1>1. h.enabled \subseteq FusionSensors /\ h.accCount \in Nat
    BY DEF Good, Hal
  <1>2. CASE s = Acc
    <2>1. k = AddSensor(h, Acc, fails)
      BY <1>2
    <2>2. /\ Good(k) /\ (fails = {} => OnUsed(h, k))
          /\ k.enabled = h.enabled /\ k.accCount = h.accCount /\ ~HasClients(k)
      BY <2>1, AddAccIs
    <2>3. h.enabled = h.enabled \ {s}
      BY <1>1, <1>2, SensorAssumption
    <2>4. \A d \in Clients : k.params[Acc][d] = None
      BY <2>2 DEF HasClients
    <2>5. QED BY <1>2, <2>2, <2>3, <2>4
  <1>3. CASE s # Acc
    <2>1. s \in FusionSensors
      BY <1>3 DEF Sensors
    <2>2. /\ Good(k) /\ (fails = {} => OnUsed(h, k))
          /\ k.enabled = h.enabled \ {s}
          /\ k.accCount = IF h.accCount = 0 THEN 0 ELSE h.accCount - 1
          /\ \A d \in Clients : d # "fusion" => k.params[Acc][d] = h.params[Acc][d]
      BY <2>1, AddFusionIs
    <2>3. IsFiniteSet(h.enabled)
      BY <1>1, SensorAssumption, FS_Subset
    <2>4. Cardinality(h.enabled \ {s}) = IF s \in h.enabled THEN Cardinality(h.enabled) - 1 ELSE Cardinality(h.enabled)
      BY <2>3, FS_RemoveElement
    <2>5. IsFiniteSet(h.enabled \ {s})
      BY <2>3, FS_RemoveElement
    <2>6. Cardinality(h.enabled) \in Nat /\ Cardinality(h.enabled \ {s}) \in Nat
      BY <2>3, <2>5, FS_CardinalityType
    <2>7. h.accCount <= Cardinality(h.enabled) => k.accCount <= Cardinality(k.enabled)
      BY <1>1, <2>2, <2>4, <2>6
    <2>8. QED BY <1>3, <2>2, <2>7
  <1>4. QED BY <1>2, <1>3

-----------------------------------------------------------------------------

\* Every number is reached from zero.
LEMMA SetInduction ==
  ASSUME NEW S \in SUBSET Nat, 0 \in S, \A n \in S : n + 1 \in S
  PROVE  S = Nat
  <1> SUFFICES ASSUME S # Nat PROVE FALSE
    OBVIOUS
  <1> DEFINE R == OpToRel(<, Nat)
             T == Nat \ S
  <1>1. IsWellFoundedOn(R, Nat)
    BY NatLessThanWellFounded
  <1>2. T \subseteq Nat /\ T # {}
    OBVIOUS
  <1>3. \A x, y \in Nat : <<y, x>> \in R <=> y < x
    BY DEF OpToRel
  <1> HIDE DEF R
  <1>4. PICK x \in T : \A y \in T : ~(<<y, x>> \in R)
    BY <1>1, <1>2, WFMin
  <1>5. x \in Nat /\ x # 0
    OBVIOUS
  <1>6. x - 1 \in Nat /\ (x - 1) + 1 = x /\ x - 1 < x
    BY <1>5
  <1>7. x - 1 \in T
    BY <1>6
  <1>8. QED BY <1>3, <1>4, <1>5, <1>6, <1>7

\* The states of addSensorsList, sensor by sensor: the recursion has a value.
LEMMA AddedExists ==
  ASSUME NEW h, NEW fails
  PROVE  \A m \in Nat : \E g : g = [i \in 0..m |-> IF i = 0 THEN h ELSE AddSensor(g[i - 1], ListOrder[i], fails)]
  <1> DEFINE S == {m \in Nat : \E g : g = [i \in 0..m |-> IF i = 0 THEN h ELSE AddSensor(g[i - 1], ListOrder[i], fails)]}
  <1>1. 0 \in S
    <2>1. PICK g : g = [i \in 0..0 |-> h]
      OBVIOUS
    <2>2. g = [i \in 0..0 |-> IF i = 0 THEN h ELSE AddSensor(g[i - 1], ListOrder[i], fails)]
      BY <2>1
    <2>3. QED BY <2>2
  <1>2. ASSUME NEW m \in S PROVE m + 1 \in S
    <2>1. m \in Nat
      OBVIOUS
    <2>2. PICK g : g = [i \in 0..m |-> IF i = 0 THEN h ELSE AddSensor(g[i - 1], ListOrder[i], fails)]
      OBVIOUS
    <2>3. PICK k : k = [i \in 0..m + 1 |-> IF i = m + 1 THEN AddSensor(g[m], ListOrder[m + 1], fails) ELSE g[i]]
      OBVIOUS
    <2>4. \A i \in 0..m + 1 : k[i] = IF i = 0 THEN h ELSE AddSensor(k[i - 1], ListOrder[i], fails)
      <3>1. ASSUME NEW i \in 0..m + 1 PROVE k[i] = IF i = 0 THEN h ELSE AddSensor(k[i - 1], ListOrder[i], fails)
        <4>1. CASE i = 0
          <5>1. i \in 0..m /\ i # m + 1
            BY <2>1, <4>1
          <5>2. k[i] = g[i]
            BY <2>3, <5>1
          <5>3. g[i] = h
            BY <2>2, <4>1, <5>1
          <5>4. QED BY <4>1, <5>2, <5>3
        <4>2. CASE i = m + 1
          <5>1. m \in 0..m + 1 /\ m # m + 1 /\ i # 0 /\ i - 1 = m
            BY <2>1, <4>2
          <5>2. k[m] = g[m]
            BY <2>3, <5>1
          <5>3. k[i] = AddSensor(g[m], ListOrder[m + 1], fails)
            BY <2>3, <4>2
          <5>4. QED BY <4>2, <5>1, <5>2, <5>3
        <4>3. CASE i # 0 /\ i # m + 1
          <5>1. i \in 0..m /\ i - 1 \in 0..m + 1 /\ i - 1 # m + 1
            BY <2>1, <4>3
          <5>2. k[i] = g[i] /\ k[i - 1] = g[i - 1]
            BY <2>3, <4>3, <5>1
          <5>3. g[i] = AddSensor(g[i - 1], ListOrder[i], fails)
            BY <2>2, <4>3, <5>1
          <5>4. QED BY <4>3, <5>2, <5>3
        <4>4. QED BY <4>1, <4>2, <4>3
      <3>2. QED BY <3>1
    <2>5. k = [i \in 0..m + 1 |-> k[i]]
      BY <2>3
    <2>6. k = [i \in 0..m + 1 |-> IF i = 0 THEN h ELSE AddSensor(k[i - 1], ListOrder[i], fails)]
      BY <2>4, <2>5
    <2>7. m + 1 \in Nat
      BY <2>1
    <2>8. QED BY <2>6, <2>7
  <1>3. S \in SUBSET Nat
    OBVIOUS
  <1>4. S = Nat
    <2> HIDE DEF S
    <2>1. QED BY <1>1, <1>2, <1>3, SetInduction
  <1>5. QED BY <1>4

\* getSensorsList after a restart of the framework: every sensor is disabled, those that
\* were never enabled too, and the accelerometer has no connection left.
LEMMA RestartIs ==
  ASSUME NEW fails, GetSensorsList(fails), Good(hal), hal.accCount = Cardinality(hal.enabled)
  PROVE  /\ Good(hal') /\ (fails = {} => OnUsed(hal, hal'))
         /\ hal'.enabled = {} /\ hal'.accCount = 0 /\ ~HasClients(hal')
  <1>1. PICK h : h = hal
    OBVIOUS
  <1>2. PICK n \in Nat : n = Len(ListOrder)
    BY SensorAssumption
  <1>3. ListOrder \in [1..n -> Sensors] /\ \A s \in Sensors : \E i \in 1..n : ListOrder[i] = s
    BY <1>2, SensorAssumption DEF ToSet
  <1>4. PICK g : g = CHOOSE f : f = [i \in 0..n |-> IF i = 0 THEN h ELSE AddSensor(f[i - 1], ListOrder[i], fails)]
    OBVIOUS
  <1>5. hal' = g[n]
    BY <1>1, <1>2, <1>4 DEF GetSensorsList
  <1>6. g = [i \in 0..n |-> IF i = 0 THEN h ELSE AddSensor(g[i - 1], ListOrder[i], fails)]
    BY <1>4, AddedExists
  <1> DEFINE Done(i) ==
        /\ Good(g[i]) /\ (fails = {} => OnUsed(h, g[i]))
        /\ g[i].accCount <= Cardinality(g[i].enabled)
        /\ \A j \in 1..i : ListOrder[j] \notin g[i].enabled
        /\ (\E j \in 1..i : ListOrder[j] = Acc) => \A d \in Clients \ {"fusion"} : g[i].params[Acc][d] = None
             S == {i \in Nat : i <= n => Done(i)}
  <1>7. 0 \in S
    <2>1. g[0] = h
      BY <1>2, <1>6
    <2>2. Good(h) /\ h.accCount = Cardinality(h.enabled) /\ OnUsed(h, h) /\ h.accCount \in Nat
      BY <1>1 DEF OnUsed, Good, Hal
    <2>3. QED BY <2>1, <2>2
  <1>8. ASSUME NEW i \in S PROVE i + 1 \in S
    <2>1. i \in Nat /\ i + 1 \in Nat
      OBVIOUS
    <2>2. SUFFICES ASSUME i + 1 <= n PROVE Done(i + 1)
      BY <2>1
    <2>3. Done(i) /\ i + 1 \in 1..n
      BY <1>2, <2>1, <2>2
    <2>4. PICK s \in Sensors : s = ListOrder[i + 1]
      BY <1>3, <2>3
    <2>5. PICK a : a = g[i]
      OBVIOUS
    <2>6. PICK b : b = g[i + 1]
      OBVIOUS
    <2>7. b = AddSensor(a, s, fails)
      BY <1>6, <2>1, <2>3, <2>4, <2>5, <2>6
    <2>8. /\ Good(a) /\ (fails = {} => OnUsed(h, a))
          /\ a.accCount <= Cardinality(a.enabled)
          /\ \A j \in 1..i : ListOrder[j] \notin a.enabled
          /\ (\E j \in 1..i : ListOrder[j] = Acc) => \A d \in Clients \ {"fusion"} : a.params[Acc][d] = None
      BY <2>3, <2>5
    <2> HIDE DEF Done
    <2>9. /\ Good(b) /\ (fails = {} => OnUsed(a, b))
          /\ b.enabled = a.enabled \ {s}
          /\ a.accCount <= Cardinality(a.enabled) => b.accCount <= Cardinality(b.enabled)
          /\ \A d \in Clients \ {"fusion"} :
               b.params[Acc][d] = IF s = Acc THEN None ELSE a.params[Acc][d]
      BY <2>7, <2>8, AddSensorIs
    <2>10. fails = {} => OnUsed(h, b)
      BY <2>8, <2>9 DEF OnUsed
    <2>11. \A j \in 1..i + 1 : j \in 1..i \/ j = i + 1
      BY <2>1
    <2>12. \A j \in 1..i + 1 : ListOrder[j] \notin b.enabled
      BY <2>4, <2>8, <2>9, <2>11
    <2>13. (\E j \in 1..i + 1 : ListOrder[j] = Acc) => \A d \in Clients \ {"fusion"} : b.params[Acc][d] = None
      BY <2>4, <2>8, <2>9, <2>11
    <2>14. QED BY <2>6, <2>8, <2>9, <2>10, <2>12, <2>13 DEF Done
  <1>9. S \in SUBSET Nat
    OBVIOUS
  <1>10. S = Nat
    <2> HIDE DEF S
    <2>1. QED BY <1>7, <1>8, <1>9, SetInduction
  <1>11. Done(n)
    <2> HIDE DEF Done
    <2>1. n \in S /\ n <= n
      BY <1>10
    <2>2. QED BY <2>1
  <1>12. PICK k : k = g[n]
    OBVIOUS
  <1>13. /\ Good(k) /\ (fails = {} => OnUsed(h, k))
         /\ k.accCount <= Cardinality(k.enabled)
         /\ \A j \in 1..n : ListOrder[j] \notin k.enabled
         /\ (\E j \in 1..n : ListOrder[j] = Acc) => \A d \in Clients \ {"fusion"} : k.params[Acc][d] = None
    BY <1>11, <1>12
  <1> HIDE DEF Done, S
  <1>14. k.enabled \subseteq Sensors /\ k.accCount \in Nat /\ Acc \in Sensors
    BY <1>13 DEF Good, Hal, Sensors
  <1>15. k.enabled = {}
    BY <1>3, <1>13, <1>14
  <1>16. k.accCount = 0
    <2>1. Cardinality(k.enabled) = 0
      BY <1>15, FS_EmptySet
    <2>2. QED BY <1>13, <1>14, <2>1
  <1>17. ~HasClients(k)
    <2>1. k.params[Acc]["fusion"] = None
      BY <1>13, <1>16 DEF Good, IdleReleases
    <2>2. \A d \in Clients \ {"fusion"} : k.params[Acc][d] = None
      BY <1>3, <1>13, <1>14
    <2>3. QED BY <2>1, <2>2 DEF HasClients
  <1>18. QED BY <1>1, <1>5, <1>12, <1>13, <1>15, <1>16, <1>17

\* The framework's view: a fusion sensor it has batched or activated has its parameters.
FrameworkKnown ==
  /\ framework \in [Sensors -> {"idle", "batched", "active"}]
  /\ \A f \in FusionSensors : framework[f] # "idle" => hal.params[f]["native"] # None

\* The inductive invariant of the manager.
SInv ==
  /\ Good(hal) /\ failed \in BOOLEAN
  /\ ~failed => BestIsAsked(hal) /\ (hal.on => HasClients(hal))
  /\ FrameworkKnown /\ FusionCounted

\* After getSensorsList nothing is in use.
LEMMA InitIsGood == Init => SInv
  <1> SUFFICES ASSUME Init PROVE SInv
    OBVIOUS
  <1>1. MaxDelay \in Delays /\ None \in Asked /\ Acc \in Sensors
    BY SensorAssumption DEF Delays, Asked, Sensors
  <1>2. PICK ps : ps = [c \in Clients |-> None]
    OBVIOUS
  <1>3. ps \in [Clients -> Asked] /\ \A c \in Clients : ps[c] = None
    BY <1>1, <1>2
  <1>4. Best(ps) = None
    BY <1>3, BestIs
  <1>5. /\ hal.params = [s \in Sensors |-> ps] /\ hal.best = [s \in Sensors |-> None]
        /\ hal.handles = [c \in Clients |-> {}] /\ hal.on = FALSE /\ hal.period = MaxDelay
        /\ hal.enabled = {} /\ hal.asked = [f \in FusionSensors |-> MaxDelay]
        /\ hal.bestDelay = MaxDelay /\ hal.accCount = 0
    BY <1>2 DEF Init
  <1>6. hal \in Hal
    BY <1>1, <1>2, <1>3 DEF Init, Hal
  <1>7. \A s \in Sensors : hal.params[s] = ps /\ hal.best[s] = None
    BY <1>5
  <1>8. \A f \in FusionSensors : f \in Sensors
    BY DEF Sensors
  <1>9. AccServed(hal) /\ IdleReleases(hal)
    BY <1>1, <1>3, <1>4, <1>7 DEF AccServed, IdleReleases, Clients
  <1>10. FusionOwn(hal)
    BY <1>3, <1>4, <1>5, <1>7, <1>8 DEF FusionOwn, Clients
  <1>11. BestIsAsked(hal) /\ ~hal.on
    BY <1>5 DEF BestIsAsked
  <1>12. failed \in BOOLEAN
    BY DEF Init
  <1>13. framework = [s \in Sensors |-> "idle"]
    BY DEF Init
  <1>14. FrameworkKnown
    BY <1>8, <1>13 DEF FrameworkKnown
  <1>15. FusionCounted
    BY <1>5, <1>8, <1>13, FS_EmptySet DEF FusionCounted
  <1>16. QED BY <1>6, <1>9, <1>10, <1>11, <1>12, <1>14, <1>15 DEF SInv, Good

\* A call keeps the invariant when what it leaves is good, no failure is forgotten and the
\* framework's view is that of the fusion driver.
LEMMA KeptBy ==
  ASSUME SInv, NEW fails, Outcome(fails), Good(hal'),
         fails = {} => OnUsed(hal, hal') /\ (BestIsAsked(hal) => BestIsAsked(hal')),
         FrameworkKnown', FusionCounted'
  PROVE  SInv'
  <1>1. failed' \in BOOLEAN /\ (~failed' => ~failed /\ fails = {})
    BY DEF SInv, Outcome
  <1>2. ~failed' => BestIsAsked(hal') /\ (hal'.on => HasClients(hal'))
    BY <1>1 DEF SInv, OnUsed
  <1>3. QED BY <1>1, <1>2 DEF SInv

\* A call of the framework's or a direct channel's connection on the accelerometer.
LEMMA AccStep ==
  ASSUME SInv, NEW fails, Outcome(fails), NEW c \in Clients \ {"fusion"},
         AccOnly(hal, hal', c), AccServed(hal'), fails = {} => OnUsed(hal, hal'),
         framework' \in [Sensors -> {"idle", "batched", "active"}],
         \A f \in FusionSensors : framework'[f] = framework[f]
  PROVE  SInv'
  <1>1. PICK h : h = hal
    OBVIOUS
  <1>2. PICK k : k = hal'
    OBVIOUS
  <1>3. /\ Good(k) /\ (BestIsAsked(h) => BestIsAsked(k))
        /\ k.enabled = h.enabled /\ k.accCount = h.accCount
        /\ \A t \in FusionSensors : k.params[t] = h.params[t]
    BY <1>1, <1>2, AccKeepsGood DEF SInv
  <1>4. FrameworkKnown'
    BY <1>1, <1>2, <1>3 DEF SInv, FrameworkKnown
  <1>5. FusionCounted'
    BY <1>1, <1>2, <1>3 DEF SInv, FusionCounted
  <1>6. QED BY <1>1, <1>2, <1>3, <1>4, <1>5, KeptBy

\* The framework's calls on the accelerometer.
LEMMA AccCalls ==
  ASSUME SInv, NEW fails,
         (\E p \in Periods : Batch(Acc, p, fails)) \/ Enable(Acc, fails) \/ Disable(Acc, fails)
  PROVE  SInv' /\ OffUnused(hal, hal')
  <1>1. PICK h : h = hal
    OBVIOUS
  <1>2. PICK k : k = hal'
    OBVIOUS
  <1>3. PICK c \in Clients \ {"fusion"} : c = "native"
    BY DEF Clients
  <1>4. h \in Hal /\ AccServed(h) /\ Acc \in Sensors
    BY <1>1 DEF SInv, Good, Sensors
  <1>5. /\ AccOnly(h, k, c) /\ AccServed(k) /\ OffUnused(h, k) /\ (fails = {} => OnUsed(h, k))
    <2>1. ASSUME NEW p \in Periods, Batch(Acc, p, fails)
          PROVE  AccOnly(h, k, c) /\ AccServed(k) /\ OffUnused(h, k) /\ (fails = {} => OnUsed(h, k))
      <3>1. p \in Delays
        BY SensorAssumption DEF Delays
      <3>2. k = AccBatch(h, c, p, fails)
        BY <1>1, <1>2, <1>3, <2>1 DEF Batch
      <3>3. /\ AccOnly(h, k, c) /\ AccServed(k) /\ k.on = h.on
            /\ fails = {} => k.params[Acc][c] = Clamp(p, MinDelay)
        BY <1>4, <3>1, <3>2, AccBatchIs
      <3>4. Clamp(p, MinDelay) # None
        BY <3>1, ClampIs, SensorAssumption DEF Delays, None
      <3>5. QED BY <3>3, <3>4 DEF OffUnused, OnUsed, HasClients
    <2>2. CASE Enable(Acc, fails)
      <3>1. k = AccEnable(h, c, fails)
        BY <1>1, <1>2, <1>3, <2>2 DEF Enable
      <3>2. /\ AccOnly(h, k, c) /\ AccServed(k) /\ (h.on => k.on)
            /\ k.on => h.on \/ HasClients(k)
            /\ fails = {} => k.params[Acc][c] = h.params[Acc][c]
        BY <1>4, <3>1, AccEnableIs
      <3>3. fails = {} => (HasClients(h) => HasClients(k))
        BY <3>2 DEF HasClients, AccOnly
      <3>4. QED BY <3>2, <3>3 DEF OffUnused, OnUsed
    <2>3. CASE Disable(Acc, fails)
      <3>1. k = AccDisable(h, c, fails)
        BY <1>1, <1>2, <1>3, <2>3 DEF Disable
      <3>2. /\ AccOnly(h, k, c) /\ AccServed(k)
            /\ k.on => h.on
            /\ h.on /\ ~k.on => ~HasClients(k)
            /\ fails = {} /\ k.on /\ HasClients(h) => HasClients(k)
        BY <1>4, <3>1, AccDisableIs
      <3>3. QED BY <3>2 DEF OffUnused, OnUsed
    <2>4. QED BY <2>1, <2>2, <2>3
  <1>6. /\ Outcome(fails) /\ framework \in [Sensors -> {"idle", "batched", "active"}]
        /\ framework' \in [Sensors -> {"idle", "batched", "active"}]
    BY <1>4 DEF Batch, Enable, Disable, SInv, FrameworkKnown
  <1>7. \A f \in FusionSensors : framework'[f] = framework[f]
    BY <1>6, SensorAssumption DEF Batch, Enable, Disable, Sensors
  <1>8. QED BY <1>1, <1>2, <1>5, <1>6, <1>7, AccStep

\* mergeDirectReportRequest.
LEMMA MergeIs ==
  ASSUME NEW h \in Hal, AccServed(h), NEW c \in Clients, c = "direct", NEW lv, NEW fails,
         NEW k, k = Merge(h, lv, fails)
  PROVE  AccOnly(h, k, c) /\ AccServed(k) /\ OffUnused(h, k) /\ (fails = {} => OnUsed(h, k))
  <1>1. PICK max : max = MaxLevel(lv)
    OBVIOUS
  <1>2. FastPeriod \in Delays /\ NormalPeriod \in Delays
    BY SensorAssumption DEF Delays
  <1>3. PICK p \in Delays : p = PeriodOf(max)
    BY <1>2 DEF PeriodOf
  <1>4. PICK b : b = IF rateLevel # max THEN AccBatch(h, c, p, fails) ELSE h
    OBVIOUS
  <1>5. k = IF max # RATE_STOP
            THEN IF rateLevel = RATE_STOP THEN AccEnable(b, c, fails) ELSE b
            ELSE IF rateLevel # RATE_STOP THEN AccDisable(h, c, fails) ELSE h
    BY <1>1, <1>3, <1>4 DEF Merge
  <1>6. AccOnly(h, h, c) /\ OffUnused(h, h) /\ OnUsed(h, h)
    BY DEF AccOnly, OffUnused, OnUsed
  <1>7. AccOnly(h, b, c) /\ AccServed(b) /\ b.on = h.on /\ (fails = {} => OnUsed(h, b))
    <2>1. CASE rateLevel = max
      BY <1>4, <1>6, <2>1
    <2>2. CASE rateLevel # max
      <3>1. /\ AccOnly(h, b, c) /\ AccServed(b) /\ b.on = h.on
            /\ fails = {} => b.params[Acc][c] = Clamp(p, MinDelay)
        BY <1>4, <2>2, AccBatchIs
      <3>2. Clamp(p, MinDelay) # None
        BY ClampIs, SensorAssumption DEF Delays, None
      <3>3. QED BY <3>1, <3>2 DEF OnUsed, HasClients
    <2>3. QED BY <2>1, <2>2
  <1>8. CASE k = h
    BY <1>6, <1>8
  <1>9. CASE k = b
    BY <1>7, <1>9 DEF OffUnused
  <1>10. CASE k = AccEnable(b, c, fails)
    <2>1. b \in Hal
      BY <1>7 DEF AccOnly
    <2>2. /\ AccOnly(b, k, c) /\ AccServed(k) /\ (b.on => k.on)
          /\ k.on => b.on \/ HasClients(k)
          /\ fails = {} => k.params[Acc][c] = b.params[Acc][c]
      BY <1>7, <1>10, <2>1, AccEnableIs
    <2>3. AccOnly(h, k, c)
      BY <1>7, <2>2 DEF AccOnly
    <2>4. fails = {} => (HasClients(b) => HasClients(k))
      BY <2>2 DEF HasClients, AccOnly
    <2>5. QED BY <1>7, <2>2, <2>3, <2>4 DEF OffUnused, OnUsed
  <1>11. CASE k = AccDisable(h, c, fails)
    <2>1. /\ AccOnly(h, k, c) /\ AccServed(k)
          /\ k.on => h.on
          /\ h.on /\ ~k.on => ~HasClients(k)
          /\ fails = {} /\ k.on /\ HasClients(h) => HasClients(k)
      BY <1>11, AccDisableIs
    <2>2. QED BY <2>1 DEF OffUnused, OnUsed
  <1>12. QED BY <1>5, <1>8, <1>9, <1>10, <1>11

\* The calls of the direct channels.
LEMMA DirectCalls ==
  ASSUME SInv, NEW ch, NEW l, NEW fails,
         UnregisterDirectChannel(ch, fails) \/ ConfigDirectReport(ch, l, fails)
  PROVE  SInv' /\ OffUnused(hal, hal')
  <1>1. PICK h : h = hal
    OBVIOUS
  <1>2. PICK k : k = hal'
    OBVIOUS
  <1>3. PICK c \in Clients \ {"fusion"} : c = "direct"
    BY DEF Clients
  <1>4. h \in Hal /\ AccServed(h)
    BY <1>1 DEF SInv, Good
  <1>5. (\E lv : k = Merge(h, lv, fails)) \/ k = h
    BY <1>1, <1>2 DEF UnregisterDirectChannel, StopAll, ConfigDirectReport
  <1>6. AccOnly(h, k, c) /\ AccServed(k) /\ OffUnused(h, k) /\ (fails = {} => OnUsed(h, k))
    <2>1. CASE k = h
      BY <1>4, <2>1 DEF AccOnly, OffUnused, OnUsed
    <2>2. CASE \E lv : k = Merge(h, lv, fails)
      BY <1>3, <1>4, <2>2, MergeIs
    <2>3. QED BY <1>5, <2>1, <2>2
  <1>7. Outcome(fails) /\ UNCHANGED framework
    BY DEF UnregisterDirectChannel, ConfigDirectReport
  <1>8. framework' \in [Sensors -> {"idle", "batched", "active"}]
        /\ \A f \in FusionSensors : framework'[f] = framework[f]
    BY <1>7 DEF SInv, FrameworkKnown
  <1>9. QED BY <1>1, <1>2, <1>6, <1>7, <1>8, AccStep

\* The framework's batch of a fusion sensor.
LEMMA FusionBatchCall ==
  ASSUME SInv, NEW f \in FusionSensors, NEW p \in Periods, NEW fails, Batch(f, p, fails)
  PROVE  SInv' /\ OffUnused(hal, hal')
  <1>1. PICK h : h = hal
    OBVIOUS
  <1>2. PICK k : k = hal'
    OBVIOUS
  <1>3. Good(h) /\ p \in Delays /\ f \in Sensors /\ f # Acc /\ p # None
    BY <1>1, SensorAssumption DEF SInv, Delays, Sensors, None
  <1>4. k = FusionRequest(h, f, p, fails) /\ Outcome(fails)
    BY <1>1, <1>2, <1>3 DEF Batch
  <1>5. /\ Good(k) /\ k.on = h.on /\ (fails = {} => Smooth(h, k))
        /\ k.enabled = h.enabled /\ k.accCount = h.accCount /\ k.params[f]["native"] = p
        /\ \A t \in FusionSensors : t # f => k.params[t] = h.params[t]
    BY <1>3, <1>4, FusionRequestIs
  <1>6. framework' = [framework EXCEPT ![f] = IF @ = "active" THEN @ ELSE "batched"]
    BY <1>2, <1>3, <1>5 DEF Batch
  <1>7. framework \in [Sensors -> {"idle", "batched", "active"}]
        /\ framework' \in [Sensors -> {"idle", "batched", "active"}]
    BY <1>6 DEF SInv, FrameworkKnown
  <1>8. \A t \in FusionSensors : t \in Sensors /\ (framework'[t] = "active" <=> framework[t] = "active")
                                 /\ (t # f => framework'[t] = framework[t])
    BY <1>6, <1>7 DEF Sensors
  <1>9. FrameworkKnown'
    <2>1. \A t \in FusionSensors : framework'[t] # "idle" => k.params[t]["native"] # None
      BY <1>1, <1>3, <1>5, <1>8 DEF SInv, FrameworkKnown
    <2>2. QED BY <1>2, <1>7, <2>1 DEF FrameworkKnown
  <1>10. FusionCounted'
    BY <1>1, <1>2, <1>5, <1>8 DEF SInv, FusionCounted
  <1>11. SInv'
    BY <1>1, <1>2, <1>4, <1>5, <1>9, <1>10, KeptBy DEF Smooth
  <1>12. QED BY <1>1, <1>2, <1>5, <1>11 DEF OffUnused

\* The framework's activation of a fusion sensor that it has batched.
LEMMA FusionEnableCall ==
  ASSUME SInv, NEW f \in FusionSensors, NEW fails, Enable(f, fails)
  PROVE  SInv' /\ OffUnused(hal, hal')
  <1>1. PICK h : h = hal
    OBVIOUS
  <1>2. PICK k : k = hal'
    OBVIOUS
  <1>3. Good(h) /\ f \in Sensors /\ f # Acc /\ framework[f] = "batched" /\ h.params[f]["native"] # None
    BY <1>1, SensorAssumption DEF SInv, Sensors, Enable, FrameworkKnown
  <1>4. k = FusionEnable(h, f, fails) /\ Outcome(fails)
    BY <1>1, <1>2, <1>3 DEF Enable
  <1>5. /\ Good(k) /\ OffUnused(h, k) /\ (fails = {} => Smooth(h, k))
        /\ k.enabled = h.enabled \union {f} /\ k.accCount = h.accCount + 1
        /\ \A t \in FusionSensors : k.params[t] = h.params[t]
    BY <1>3, <1>4, FusionEnableIs
  <1>6. framework' = [framework EXCEPT ![f] = "active"]
    BY <1>1, <1>2, <1>3, <1>5 DEF Enable
  <1>7. framework \in [Sensors -> {"idle", "batched", "active"}]
        /\ framework' \in [Sensors -> {"idle", "batched", "active"}]
    BY <1>6 DEF SInv, FrameworkKnown
  <1>8. framework'[f] = "active" /\ \A t \in FusionSensors : t # f => framework'[t] = framework[t]
    BY <1>3, <1>6, <1>7 DEF Sensors
  <1>9. FrameworkKnown'
    <2>1. \A t \in FusionSensors : framework'[t] # "idle" => k.params[t]["native"] # None
      BY <1>1, <1>3, <1>5, <1>8 DEF SInv, FrameworkKnown
    <2>2. QED BY <1>2, <1>7, <2>1 DEF FrameworkKnown
  <1>10. FusionCounted'
    <2>1. h.enabled = {t \in FusionSensors : framework[t] = "active"} /\ h.accCount = Cardinality(h.enabled)
      BY <1>1 DEF SInv, FusionCounted
    <2>2. k.enabled = {t \in FusionSensors : framework'[t] = "active"} /\ f \notin h.enabled
      BY <1>3, <1>5, <1>8, <2>1
    <2>3. h.enabled \in SUBSET FusionSensors
      BY <2>1
    <2>4. IsFiniteSet(h.enabled)
      BY <2>3, SensorAssumption, FS_Subset
    <2>5. Cardinality(h.enabled \cup {f}) = Cardinality(h.enabled) + 1
      BY <2>2, <2>4, FS_AddElement
    <2>6. QED BY <1>2, <1>5, <2>1, <2>2, <2>5 DEF FusionCounted
  <1>11. SInv'
    BY <1>1, <1>2, <1>4, <1>5, <1>9, <1>10, KeptBy DEF Smooth
  <1>12. QED BY <1>1, <1>2, <1>5, <1>11

\* The framework's deactivation of a fusion sensor that it has activated.
LEMMA FusionDisableCall ==
  ASSUME SInv, NEW f \in FusionSensors, NEW fails, Disable(f, fails)
  PROVE  SInv' /\ OffUnused(hal, hal')
  <1>1. PICK h : h = hal
    OBVIOUS
  <1>2. PICK k : k = hal'
    OBVIOUS
  <1>3. Good(h) /\ f \in Sensors /\ f # Acc /\ framework[f] = "active" /\ h.params[f]["native"] # None
    BY <1>1, SensorAssumption DEF SInv, Sensors, Disable, FrameworkKnown
  <1>4. k = FusionDisable(h, f, fails) /\ Outcome(fails)
    BY <1>1, <1>2, <1>3 DEF Disable
  <1>5. /\ Good(k) /\ OffUnused(h, k) /\ (fails = {} => OnUsed(h, k))
        /\ fails = {} /\ k.enabled # {} => BestIsAsked(k)
        /\ k.enabled = h.enabled \ {f}
        /\ k.accCount = IF h.accCount = 0 THEN 0 ELSE h.accCount - 1
        /\ \A t \in FusionSensors : t # f => k.params[t] = h.params[t]
    BY <1>3, <1>4, FusionDisableIs
  <1>6. framework' = [framework EXCEPT ![f] = "idle"]
    BY DEF Disable
  <1>7. framework \in [Sensors -> {"idle", "batched", "active"}]
        /\ framework' \in [Sensors -> {"idle", "batched", "active"}]
    BY <1>6 DEF SInv, FrameworkKnown
  <1>8. framework'[f] = "idle" /\ \A t \in FusionSensors : t # f => framework'[t] = framework[t]
    BY <1>3, <1>6, <1>7 DEF Sensors
  <1>9. FrameworkKnown'
    <2>1. \A t \in FusionSensors : framework'[t] # "idle" => k.params[t]["native"] # None
      BY <1>1, <1>3, <1>5, <1>8 DEF SInv, FrameworkKnown
    <2>2. QED BY <1>2, <1>7, <2>1 DEF FrameworkKnown
  <1>10. /\ k.enabled = {t \in FusionSensors : framework'[t] = "active"}
         /\ k.accCount = Cardinality(k.enabled)
         /\ k.enabled = {} => k.accCount = 0
    <2>1. h.enabled = {t \in FusionSensors : framework[t] = "active"} /\ h.accCount = Cardinality(h.enabled)
      BY <1>1 DEF SInv, FusionCounted
    <2>2. k.enabled = {t \in FusionSensors : framework'[t] = "active"} /\ f \in h.enabled
      BY <1>3, <1>5, <1>8, <2>1
    <2>3. h.enabled \in SUBSET FusionSensors
      BY <2>1
    <2>4. IsFiniteSet(h.enabled)
      BY <2>3, SensorAssumption, FS_Subset
    <2>5. Cardinality(h.enabled \ {f}) = Cardinality(h.enabled) - 1 /\ IsFiniteSet(h.enabled \ {f})
      BY <2>2, <2>4, FS_RemoveElement
    <2>6. Cardinality(h.enabled) \in Nat /\ Cardinality(h.enabled) # 0
      BY <2>2, <2>4, FS_EmptySet, FS_CardinalityType
    <2>7. k.accCount = Cardinality(k.enabled)
      BY <1>5, <2>1, <2>5, <2>6
    <2>8. k.enabled = {} => k.accCount = 0
      BY <2>7, FS_EmptySet
    <2>9. QED BY <2>2, <2>7, <2>8
  <1>11. FusionCounted'
    BY <1>2, <1>10 DEF FusionCounted
  <1>12. fails = {} => BestIsAsked(k)
    BY <1>5, <1>10 DEF BestIsAsked
  <1>13. SInv'
    BY <1>1, <1>2, <1>4, <1>5, <1>9, <1>11, <1>12, KeptBy
  <1>14. QED BY <1>1, <1>2, <1>5, <1>13

\* The framework comes back and asks for the list.
LEMMA RestartCall ==
  ASSUME SInv, NEW fails, GetSensorsList(fails)
  PROVE  SInv' /\ OffUnused(hal, hal')
  <1>1. /\ Good(hal') /\ (fails = {} => OnUsed(hal, hal'))
        /\ hal'.enabled = {} /\ hal'.accCount = 0 /\ ~HasClients(hal')
    BY RestartIs DEF SInv, FusionCounted
  <1>2. Outcome(fails) /\ framework' = [s \in Sensors |-> "idle"]
    BY DEF GetSensorsList
  <1>3. \A f \in FusionSensors : f \in Sensors
    BY DEF Sensors
  <1>4. FrameworkKnown'
    BY <1>2, <1>3 DEF FrameworkKnown
  <1>5. FusionCounted'
    BY <1>1, <1>2, <1>3, FS_EmptySet DEF FusionCounted
  <1>6. BestIsAsked(hal')
    BY <1>1 DEF BestIsAsked
  <1>7. SInv'
    BY <1>1, <1>2, <1>4, <1>5, <1>6, KeptBy
  <1>8. QED BY <1>1, <1>7 DEF OffUnused

\* Every call keeps the invariant, and none switches the accelerometer off while it is used.
LEMMA CallsKeep == SInv /\ [Next]_vars => SInv' /\ (UNCHANGED vars \/ OffUnused(hal, hal'))
  <1> SUFFICES ASSUME SInv, [Next]_vars PROVE SInv' /\ (UNCHANGED vars \/ OffUnused(hal, hal'))
    OBVIOUS
  <1>1. CASE RegisterDirectChannel
    <2>1. UNCHANGED <<hal, framework, failed>>
      BY <1>1 DEF RegisterDirectChannel
    <2>2. SInv'
      BY <2>1 DEF SInv, FrameworkKnown, FusionCounted
    <2>3. QED BY <2>1, <2>2 DEF OffUnused
  <1>2. ASSUME NEW fails \in SUBSET DriverCalls, NEW s \in Sensors,
               \/ \E p \in Periods : Batch(s, p, fails)
               \/ Enable(s, fails) \/ Disable(s, fails)
        PROVE  SInv' /\ OffUnused(hal, hal')
    <2>1. CASE s = Acc
      BY <1>2, <2>1, AccCalls
    <2>2. CASE s # Acc
      <3>1. s \in FusionSensors
        BY <2>2 DEF Sensors
      <3>2. QED BY <1>2, <3>1, FusionBatchCall, FusionEnableCall, FusionDisableCall
    <2>3. QED BY <2>1, <2>2
  <1>3. ASSUME NEW fails \in SUBSET DriverCalls, GetSensorsList(fails)
        PROVE  SInv' /\ OffUnused(hal, hal')
    BY <1>3, RestartCall
  <1>4. ASSUME NEW fails \in SUBSET DriverCalls, NEW ch \in Channels,
               \/ UnregisterDirectChannel(ch, fails)
               \/ \E l \in Levels : ConfigDirectReport(ch, l, fails)
        PROVE  SInv' /\ OffUnused(hal, hal')
    BY <1>4, DirectCalls
  <1>5. CASE UNCHANGED vars
    <2>1. UNCHANGED <<hal, framework, failed>>
      BY <1>5 DEF vars
    <2>2. SInv'
      BY <2>1 DEF SInv, FrameworkKnown, FusionCounted
    <2>3. QED BY <1>5, <2>2
  <1>6. QED BY <1>1, <1>2, <1>3, <1>4, <1>5 DEF Next, Levels

\* The manager's invariant holds in every state.
LEMMA ManagerInvariance == Spec => []SInv
  BY InitIsGood, CallsKeep, PTL DEF Spec

-----------------------------------------------------------------------------

\* However connections batch, activate and leave, and whichever driver calls fail, the
\* accelerometer's period is no longer than any connection asked for.
THEOREM NobodyIsEverSlowed == Spec => []NobodyIsSlowed
  <1>1. SInv => NobodyIsSlowed
    BY DEF SInv, Good, AccServed, NobodyIsSlowed
  <1>2. QED BY <1>1, ManagerInvariance, PTL

\* Without a failed call the accelerometer is on only while a connection has it.
THEOREM IsOffWithoutClients == Spec => []OffWithoutClients
  <1>1. SInv => OffWithoutClients
    BY DEF SInv, HasClients, OffWithoutClients
  <1>2. QED BY <1>1, ManagerInvariance, PTL

\* accEnabledCount is the number of fusion sensors the framework has active, through every
\* restart of the framework.
THEOREM FusionIsCounted == Spec => []FusionCounted
  <1>1. SInv => FusionCounted
    BY DEF SInv
  <1>2. QED BY <1>1, ManagerInvariance, PTL

\* While no call of the accelerometer's driver has failed, an active fusion sensor's period
\* has reached the fusion driver's connection to the accelerometer.
THEOREM FusionIsAlwaysServed == Spec => []FusionIsServed
  <1>1. SInv => FusionIsServed
    <2> SUFFICES ASSUME SInv, NEW f \in FusionSensors, framework[f] = "active", ~failed
                 PROVE  /\ hal.params[Acc]["fusion"] # None
                        /\ hal.params[Acc]["fusion"] <= Clamp(hal.params[f]["native"], MinDelay)
      BY DEF FusionIsServed
    <2>1. f \in hal.enabled /\ hal.accCount = Cardinality(hal.enabled) /\ hal.enabled \in SUBSET FusionSensors
      BY DEF SInv, FusionCounted
    <2>2. IsFiniteSet(hal.enabled)
      BY <2>1, SensorAssumption, FS_Subset
    <2>3. hal.accCount \in Nat /\ hal.accCount # 0
      BY <2>1, <2>2, FS_EmptySet, FS_CardinalityType
    <2>4. hal.params[Acc]["fusion"] = Clamp(hal.bestDelay, MinDelay)
      BY <2>3 DEF SInv, BestIsAsked
    <2>5. hal.params[f]["native"] # None
      BY DEF SInv, FrameworkKnown
    <2>6. hal.bestDelay <= hal.params[f]["native"]
      BY <2>1, <2>5 DEF SInv, Good, FusionOwn
    <2>7. f \in Sensors /\ "native" \in Clients /\ hal \in Hal
      BY DEF Sensors, Clients, SInv, Good
    <2>8. hal.bestDelay \in Delays /\ hal.params[f]["native"] \in Delays
      BY <2>5, <2>7 DEF Hal, Asked
    <2>9. Clamp(hal.bestDelay, MinDelay) # None
      BY <2>8, ClampIs, SensorAssumption DEF Delays, None
    <2>10. QED BY <2>4, <2>6, <2>8, <2>9, ClampIs
  <1>2. QED BY <1>1, ManagerInvariance, PTL

\* The accelerometer is switched off only when no connection has parameters left.
THEOREM OffMeansUnused == Spec => OffOnlyWhenUnused
  <1>1. SInv /\ [Next]_vars => [hal.on /\ ~hal'.on => \A c \in Clients : hal'.params[Acc][c] = None]_vars
    BY CallsKeep DEF OffUnused, HasClients
  <1>2. QED BY <1>1, ManagerInvariance, PTL DEF Spec, OffOnlyWhenUnused
=============================================================================
