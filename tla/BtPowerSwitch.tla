---------------------------- MODULE BtPowerSwitch ----------------------------
(***************************************************************************)
(* What the Bluetooth HAL promises about power: requests to turn the       *)
(* controller on and off take effect one at a time, in the order in which  *)
(* they were made, and the controller is then on exactly when the last     *)
(* request that took effect asked for it.  A second "on" in a row restarts *)
(* the controller and leaves it on; an "off" with the controller off has   *)
(* no effect.                                                              *)
(***************************************************************************)
EXTENDS Sequences

CONSTANT Request          \* the messages of the state machine: "On" and "Off"

VARIABLES pending,        \* the requests that have not taken effect, oldest first
          power           \* "on" or "off"

pvars == <<pending, power>>

PowerInit == pending = <<>> /\ power = "off"

Ask(r) == pending' = Append(pending, r) /\ UNCHANGED power

TakeEffect ==
  /\ pending # <<>>
  /\ pending' = Tail(pending)
  /\ power' = IF Head(pending) = "On" THEN "on" ELSE "off"

PowerNext == (\E r \in Request : Ask(r)) \/ TakeEffect

PowerSpec == PowerInit /\ [][PowerNext]_pvars
=============================================================================
