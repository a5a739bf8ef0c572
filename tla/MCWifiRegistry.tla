--------------------------- MODULE MCWifiRegistry ---------------------------
(* Three commands of a few kinds on a table with room for two. *)
EXTENDS WifiRegistry
=============================================================================
