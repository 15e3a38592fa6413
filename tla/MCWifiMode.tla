----------------------------- MODULE MCWifiMode -----------------------------
(* Values of the constants of WifiMode. *)
EXTENDS WifiMode

AllModes == {"STATION", "AP", "MONITOR", "AP_STATION", "AP_MONITOR"}
=============================================================================
