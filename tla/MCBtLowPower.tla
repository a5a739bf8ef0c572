----------------------------- MODULE MCBtLowPower -----------------------------
(* One VendorInterface session with two sending threads. *)
EXTENDS BtLowPower
=============================================================================
