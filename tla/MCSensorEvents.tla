--------------------------- MODULE MCSensorEvents ---------------------------
(* An accelerometer, which keeps some of its events, a step counter with its    *)
(* one-shot sensor, and the driver that computes wake-up steps from its steps.  *)
EXTENDS SensorEvents

Three == <<"accel", "stepcounter", "wakeupset">>
=============================================================================
