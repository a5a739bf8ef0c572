--------------------------- MODULE MCBtStateMachine ---------------------------
(* The Bluetooth state machine with two clients and two binder threads. *)
EXTENDS BtStateMachine
=============================================================================
