--------------------------- MODULE MCDeviceStart -----------------------------
(* Bring-up with a small number of time requests and polls.                  *)
EXTENDS DeviceStart
============================================================================
