---------------------------- MODULE MCActTransfer ----------------------------
(***************************************************************************)
(* ActTransfer for TLC: three callers, two calls each, a queue of one       *)
(* message, so that a second request in flight would not even fit.          *)
(***************************************************************************)
EXTENDS ActTransfer
=============================================================================
