------------------------------- MODULE MCUsbHal -------------------------------
(* The USB HAL with a few ports. *)
EXTENDS UsbHal
=============================================================================
