---------------------------- MODULE MCVoicePack ------------------------------
(***************************************************************************)
(* VoicePack for TLC: two languages and two versions, so that one pack can  *)
(* be installed over another; three requests, with failing commands and     *)
(* power cuts in between.                                                   *)
(***************************************************************************)
EXTENDS VoicePack
=============================================================================
