---------------------------- MODULE MCStaConnect ----------------------------
(***************************************************************************)
(* StaConnect for TLC.  The access points are interchangeable, which is     *)
(* used where only invariants are checked.                                  *)
(***************************************************************************)
EXTENDS StaConnect, TLC

APSymmetry == Permutations(APs)
=============================================================================
