--------------------------- MODULE SensorManager ---------------------------
(***************************************************************************)
(* The multiplexer of the sensor HAL: SensorManager shares each sensor     *)
(* between its connections (the framework's, the direct channels' and the  *)
(* fusion driver's), keeps the parameters every connection asked for and   *)
(* sends the driver the smallest.  The fusion sensors are themselves       *)
(* drivers that open a connection to the accelerometer, and direct         *)
(* channels keep a rate per channel and ask for the fastest.               *)
(*                                                                         *)
(* service.cpp gives the HAL two threads, one of which blocks in poll();   *)
(* every other call runs on the second, so a call is one step.  What makes *)
(* it hard is the order of calls of three clients, driver calls that fail  *)
(* half way and a framework that restarts while the HAL lives on.          *)
(*                                                                         *)
(* One physical sensor stands for the accelerometer, gyroscope and         *)
(* magnetometer, which the code treats alike; the report latency, which is *)
(* minimised beside the period in the same way, is left out.               *)
(***************************************************************************)
EXTENDS Integers, FiniteSets, Sequences, SequencesExt, FiniteSetsExt

CONSTANTS
  FusionSensors,   \* sensors computed by ApFusionSensor from the accelerometer
  ListOrder,       \* the sensor list, in the order addSensorsList walks it
  Periods,         \* sampling periods the framework asks for
  MinDelay,        \* minDelay of the accelerometer, also MIN_ACC_SAMPLE_DELAY_NS
  FastPeriod,      \* rateLevelToDeviceSamplingPeriodNs(RATE_FAST)
  NormalPeriod,    \* rateLevelToDeviceSamplingPeriodNs(RATE_NORMAL)
  MaxDelay,        \* MAX_SAMPLE_DELAY_NS
  MaxChannels      \* direct channels registered in one run (bound)

Acc == "acc"
Sensors == {Acc} \union FusionSensors
Clients == {"native", "direct", "fusion"}
None == -1
ID_OFFSET == 1

ASSUME SensorAssumption ==
  /\ Acc \notin FusionSensors /\ IsFiniteSet(FusionSensors)
  /\ ListOrder \in Seq(Sensors) /\ ToSet(ListOrder) = Sensors
  /\ Periods \subseteq 1 .. MaxDelay
  /\ MinDelay \in 1 .. MaxDelay /\ MaxDelay \in Nat /\ MaxChannels \in Nat
  /\ FastPeriod \in 1 .. NormalPeriod /\ NormalPeriod \in 1 .. MaxDelay - 1

VARIABLES
  hal,          \* the manager, the accelerometer's driver and the fusion driver
  registered,   \* keys of mDirectChannel
  nextHandle,   \* mDirectChannelHandle
  level,        \* mSensorToChannel[acc]: channel -> rate level, 0 when absent
  rateLevel,    \* mSensorRateLevel[acc], 0 when absent
  framework,    \* what the framework has done with each sensor
  failed        \* history: a call of the accelerometer's driver has failed

vars == <<hal, registered, nextHandle, level, rateLevel, framework, failed>>

RATE_STOP == 0
RATE_NORMAL == 1
RATE_FAST == 2
Channels == 1 .. MaxChannels

\* Calls of the accelerometer's driver that can fail: opening a sysfs node.
DriverCalls == {"batch", "activate"}

Clamp(p, low) == IF p < low THEN low ELSE p

(***************************************************************************)
(* SensorManager over one sensor s of the state h.  `fails' names the      *)
(* driver calls of the step that fail.                                     *)
(***************************************************************************)
\* Mutant of Best: the comparison is the wrong way round.
MutBest(params) ==
  LET asked == {params[c] : c \in Clients} \ {None}
  IN  IF asked = {} THEN None ELSE Max(asked)

\* selectBatchParams
Best(params) ==
  LET asked == {params[c] : c \in Clients} \ {None}
  IN  IF asked = {} THEN None ELSE Min(asked)

\* numActiveClients: connections with parameters, activated or not.
NumActive(h, s) == Cardinality({c \in Clients : h.params[s][c] # None})

\* Info::setBatchParamsForIdent, or add, then selectBatchParams
StoreParams(h, s, c, p) ==
  LET ps == [h.params[s] EXCEPT ![c] = p]
  IN  [h EXCEPT !.params[s] = ps, !.best[s] = Best(ps)]

\* Info::removeBatchParamsForIdent
RemoveParams(h, s, c) ==
  IF h.params[s][c] = None THEN h ELSE StoreParams(h, s, c, None)

\* batch(), given the state with the parameters stored and the one the driver
\* makes of it; the driver is called when the best changed.
ManagerBatch(h, stored, sent, c, s, refused) ==
  IF stored.best[s] = h.best[s] THEN stored
  ELSE IF refused THEN RemoveParams(sent, s, c) ELSE sent

\* activate(..., true), given the state with the handle added and the one the
\* driver makes of it.
Listening(h, c, s) == [h EXCEPT !.handles[c] = @ \union {s}]

ManagerEnable(h, started, c, s, refused) ==
  IF h.params[s][c] = None \/ NumActive(h, s) # 1 THEN Listening(h, c, s)
  ELSE IF refused THEN RemoveParams(started, s, c) ELSE started

\* activate(..., false): the driver is stopped with the last connection, and
\* otherwise told the best parameters of those that remain.
Left(h, c, s) == RemoveParams([h EXCEPT !.handles[c] = @ \ {s}], s, c)

\* Mutant of ManagerDisable: the connections that remain are not counted.
MutManagerDisable(h, stopped, told, c, s) ==
  IF h.params[s][c] = None THEN Left(h, c, s) ELSE stopped

ManagerDisable(h, stopped, told, c, s) ==
  IF h.params[s][c] = None THEN Left(h, c, s)
  ELSE IF NumActive(Left(h, c, s), s) = 0 THEN stopped ELSE told

(***************************************************************************)
(* The accelerometer: its driver, and the manager's calls on it.           *)
(***************************************************************************)
AccDriverBatch(h, p, fails) == IF "batch" \in fails THEN h ELSE [h EXCEPT !.period = p]
AccDriverEnable(h, en, fails) == IF "activate" \in fails THEN h ELSE [h EXCEPT !.on = en]

AccBatch(h, c, p, fails) ==
  LET stored == StoreParams(h, Acc, c, Clamp(p, MinDelay))
  IN  ManagerBatch(h, stored, AccDriverBatch(stored, stored.best[Acc], fails),
                   c, Acc, "batch" \in fails)

AccEnable(h, c, fails) ==
  ManagerEnable(h, AccDriverEnable(Listening(h, c, Acc), TRUE, fails),
                c, Acc, "activate" \in fails)

AccDisable(h, c, fails) ==
  LET left == Left(h, c, Acc)
  IN  ManagerDisable(h, AccDriverEnable(left, FALSE, fails),
                     AccDriverBatch(left, left.best[Acc], fails), c, Acc)

(***************************************************************************)
(* ApFusionSensor, a driver below the manager and a connection above it.   *)
(***************************************************************************)
\* selectBestSampleLatency only ever lowers the period.
SelectBest(h) ==
  [h EXCEPT !.bestDelay = Min({@} \union {h.asked[f] : f \in h.enabled})]

AskAcc(h, fails) == AccBatch(h, "fusion", Clamp(h.bestDelay, MinDelay), fails)

\* Mutant of FusionBatch: the best period is not selected again.
MutFusionBatch(h, f, p, fails) ==
  LET noted == [h EXCEPT !.asked[f] = p]
  IN  IF h.accCount # 0 THEN AskAcc(noted, fails) ELSE noted

FusionBatch(h, f, p, fails) ==
  LET selected == SelectBest([h EXCEPT !.asked[f] = p])
  IN  IF h.accCount # 0 THEN AskAcc(selected, fails) ELSE selected

\* Mutant of FusionOn: only the sensor that starts the accelerometer counts.
MutFusionOn(h, f, fails) ==
  LET asked == AskAcc(SelectBest([h EXCEPT !.enabled = @ \union {f}]), fails)
  IN  IF h.accCount = 0 THEN AccEnable([asked EXCEPT !.accCount = 1], "fusion", fails)
      ELSE asked

FusionOn(h, f, fails) ==
  LET asked == AskAcc(SelectBest([h EXCEPT !.enabled = @ \union {f}]), fails)
      used  == [asked EXCEPT !.accCount = @ + 1]
  IN  IF h.accCount = 0 THEN AccEnable(used, "fusion", fails) ELSE used

\* With the last sensor the best period starts afresh; a count below zero,
\* which disabling an idle sensor gives, is put back to zero.
FusionOff(h, f, fails) ==
  LET idle  == SelectBest([h EXCEPT !.enabled = @ \ {f}, !.asked[f] = MaxDelay])
      count == h.accCount - 1
      left  == [idle EXCEPT !.accCount = IF count < 0 THEN 0 ELSE count]
      told  == IF count = 0 THEN AccDisable(left, "fusion", fails)
               ELSE IF count > 0 THEN AskAcc(left, fails) ELSE left
  IN  IF idle.enabled = {} THEN [told EXCEPT !.bestDelay = MaxDelay] ELSE told

\* The framework's calls on a fusion sensor, whose driver never fails.
FusionRequest(h, f, p, fails) ==
  LET stored == StoreParams(h, f, "native", p)
  IN  ManagerBatch(h, stored, FusionBatch(stored, f, stored.best[f], fails), "native", f, FALSE)

FusionEnable(h, f, fails) ==
  ManagerEnable(h, FusionOn(Listening(h, "native", f), f, fails), "native", f, FALSE)

FusionDisable(h, f, fails) ==
  LET left == Left(h, "native", f)
  IN  ManagerDisable(h, FusionOff(left, f, fails),
                     FusionBatch(left, f, left.best[f], fails), "native", f)

(***************************************************************************)
(* DirectChannelManager::mergeDirectReportRequest after the channels'      *)
(* levels became lv: the state of the manager and the new rate level.      *)
(***************************************************************************)
MaxLevel(lv) == Max({RATE_STOP} \union {lv[ch] : ch \in Channels})
PeriodOf(l) == IF l = RATE_FAST THEN FastPeriod ELSE NormalPeriod

Merge(h, lv, fails) ==
  LET max     == MaxLevel(lv)
      batched == IF rateLevel # max THEN AccBatch(h, "direct", PeriodOf(max), fails) ELSE h
  IN  IF max # RATE_STOP
      THEN IF rateLevel = RATE_STOP THEN AccEnable(batched, "direct", fails) ELSE batched
      ELSE IF rateLevel # RATE_STOP THEN AccDisable(h, "direct", fails) ELSE h

\* Mutant of StopAll: the sensors of the channel are not merged again.
MutStopAll(ch, fails) ==
  /\ level' = IF ch \in registered THEN [level EXCEPT ![ch] = RATE_STOP] ELSE level
  /\ UNCHANGED <<hal, rateLevel>>

\* stopAllDirectReportOnChannel: only a sensor left without channels is merged.
StopAll(ch, fails) ==
  LET lv == [level EXCEPT ![ch] = RATE_STOP]
      merged == level[ch] # RATE_STOP /\ MaxLevel(lv) = RATE_STOP
  IN  IF ch \in registered
      THEN /\ level' = lv
           /\ hal' = IF merged THEN Merge(hal, lv, fails) ELSE hal
           /\ rateLevel' = IF merged THEN RATE_STOP ELSE rateLevel
      ELSE UNCHANGED <<hal, level, rateLevel>>

-----------------------------------------------------------------------------
(***************************************************************************)
(* Calls of the HAL.                                                       *)
(***************************************************************************)
\* A failure is recorded when the step's driver calls could fail.
Outcome(fails) == fails \subseteq DriverCalls /\ failed' = (failed \/ fails # {})

\* The state after getSensorsList was first called.
Init ==
  /\ hal = [params   |-> [s \in Sensors |-> [c \in Clients |-> None]],
            best     |-> [s \in Sensors |-> None],
            handles  |-> [c \in Clients |-> {}],
            on       |-> FALSE, period |-> MaxDelay,
            enabled  |-> {}, asked |-> [f \in FusionSensors |-> MaxDelay],
            bestDelay |-> MaxDelay, accCount |-> 0]
  /\ registered = {} /\ nextHandle = 1
  /\ level = [ch \in Channels |-> RATE_STOP] /\ rateLevel = RATE_STOP
  /\ framework = [s \in Sensors |-> "idle"]
  /\ failed = FALSE

\* The framework's batch of a sensor; it may change the period while active.
Batch(s, p, fails) ==
  /\ Outcome(fails)
  /\ hal' = IF s = Acc THEN AccBatch(hal, "native", p, fails)
            ELSE FusionRequest(hal, s, p, fails)
  /\ framework' = [framework EXCEPT ![s] =
       IF @ = "active" THEN @
       ELSE IF hal'.params[s]["native"] # None THEN "batched" ELSE "idle"]
  /\ UNCHANGED <<registered, nextHandle, level, rateLevel>>

\* The framework activates what it has batched.
Enable(s, fails) ==
  /\ framework[s] = "batched"
  /\ Outcome(fails)
  /\ hal' = IF s = Acc THEN AccEnable(hal, "native", fails)
            ELSE FusionEnable(hal, s, fails)
  /\ framework' = [framework EXCEPT ![s] =
       IF hal.params[s]["native"] # None /\ hal'.params[s]["native"] = None
       THEN "idle" ELSE "active"]
  /\ UNCHANGED <<registered, nextHandle, level, rateLevel>>

\* The framework deactivates what it has activated.
Disable(s, fails) ==
  /\ framework[s] = "active"
  /\ Outcome(fails)
  /\ hal' = IF s = Acc THEN AccDisable(hal, "native", fails)
            ELSE FusionDisable(hal, s, fails)
  /\ framework' = [framework EXCEPT ![s] = "idle"]
  /\ UNCHANGED <<registered, nextHandle, level, rateLevel>>

\* Mutant of AddSensor: the driver is not stopped.
MutAddSensor(h, s, fails) ==
  LET fresh == [h EXCEPT !.params[s] = [c \in Clients |-> None], !.best[s] = None]
  IN  IF s = Acc THEN fresh ELSE FusionOff(fresh, s, fails)

\* addSensorsList for one sensor: a fresh Info, and the driver is stopped.
AddSensor(h, s, fails) ==
  LET fresh == [h EXCEPT !.params[s] = [c \in Clients |-> None], !.best[s] = None]
  IN  IF s = Acc THEN AccDriverEnable(fresh, FALSE, fails) ELSE FusionOff(fresh, s, fails)

\* A framework that died comes back and asks for the list again.
GetSensorsList(fails) ==
  /\ Outcome(fails)
  /\ LET added[i \in 0..Len(ListOrder)] ==
           IF i = 0 THEN hal ELSE AddSensor(added[i - 1], ListOrder[i], fails)
     IN  hal' = added[Len(ListOrder)]
  /\ framework' = [s \in Sensors |-> "idle"]
  /\ UNCHANGED <<registered, nextHandle, level, rateLevel>>

RegisterDirectChannel ==
  /\ nextHandle <= MaxChannels
  /\ registered' = registered \union {nextHandle}
  /\ nextHandle' = nextHandle + 1
  /\ UNCHANGED <<hal, level, rateLevel, framework, failed>>

\* poll__registerDirectChannel without memory takes ID_OFFSET off the channel.
UnregisterDirectChannel(ch, fails) ==
  /\ ch < nextHandle
  /\ Outcome(fails)
  /\ StopAll(ch - ID_OFFSET, fails)
  /\ registered' = registered \ {ch - ID_OFFSET}
  /\ UNCHANGED <<nextHandle, framework>>

\* configDirectReport of one sensor.  Stopping every sensor with the handle -1
\* has no effect: poll__configDirectReport takes ID_OFFSET off that one too,
\* and no sensor is found under -2.
ConfigDirectReport(ch, l, fails) ==
  /\ ch \in registered
  /\ Outcome(fails)
  /\ level' = [level EXCEPT ![ch] = l]
  /\ hal' = Merge(hal, level', fails)
  /\ rateLevel' = MaxLevel(level')
  /\ UNCHANGED <<registered, nextHandle, framework>>

Next ==
  \/ RegisterDirectChannel
  \/ \E fails \in SUBSET DriverCalls :
       \/ \E s \in Sensors : \/ \E p \in Periods : Batch(s, p, fails)
                             \/ Enable(s, fails)
                             \/ Disable(s, fails)
       \/ GetSensorsList(fails)
       \/ \E ch \in Channels :
            \/ UnregisterDirectChannel(ch, fails)
            \/ \E l \in {RATE_STOP, RATE_NORMAL, RATE_FAST} : ConfigDirectReport(ch, l, fails)

Spec == Init /\ [][Next]_vars
-----------------------------------------------------------------------------
(***************************************************************************)
(* Properties.                                                             *)
(***************************************************************************)
\* The accelerometer is never slower than any of the connections that share it
\* asked for, although the manager calls the driver only when the best changes,
\* ignores its errors on the way down and drops a connection whose batch fails.
NobodyIsSlowed ==
  \A c \in Clients :
    hal.params[Acc][c] # None => hal.period <= hal.params[Acc][c]

\* The accelerometer is switched off only when no connection has it: neither
\* another connection's deactivation nor a fusion sensor's turns it off.
OffOnlyWhenUnused ==
  [][hal.on /\ ~hal'.on => \A c \in Clients : hal'.params[Acc][c] = None]_vars

\* Unless a driver call has failed, it is never left on without a connection.
OffWithoutClients ==
  hal.on /\ ~failed => \E c \in Clients : hal.params[Acc][c] # None

\* accEnabledCount is the number of fusion sensors the framework has active,
\* so the last one to go, and no other, gives the accelerometer up; it survives
\* the framework's restart, which disables sensors that were never enabled.
FusionCounted ==
  /\ hal.enabled = {f \in FusionSensors : framework[f] = "active"}
  /\ hal.accCount = Cardinality(hal.enabled)

\* What the framework asked of an active fusion sensor arrives, through the
\* fusion driver's own best period, as the parameters of its connection to the
\* accelerometer, unless the accelerometer's driver has failed.
FusionIsServed ==
  \A f \in FusionSensors : framework[f] = "active" /\ ~failed =>
    /\ hal.params[Acc]["fusion"] # None
    /\ hal.params[Acc]["fusion"] <= Clamp(hal.params[f]["native"], MinDelay)

\* The recorded rate level is at least every channel's and is gone exactly when
\* no channel reports; a channel that reports is registered, so the poll thread
\* finds the memory it writes to.
DirectLevelKept ==
  /\ \A ch \in Channels : level[ch] <= rateLevel
  /\ rateLevel = RATE_STOP <=> \A ch \in Channels : level[ch] = RATE_STOP
  /\ {ch \in Channels : level[ch] # RATE_STOP} \subseteq registered

\* DirectChannelManager.cpp says of removeDirectChannel "remove the channel
\* record": the channel that is unregistered is no longer recorded.
RemovedChannelIsGone ==
  [][\A ch \in Channels, fails \in SUBSET DriverCalls :
       UnregisterDirectChannel(ch, fails) => ch \notin registered']_vars
=============================================================================
