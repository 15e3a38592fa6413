------------------------------ MODULE MCMapSync ------------------------------
(***************************************************************************)
(* A small instance of MapSync: two maps that share a file and differ in   *)
(* another, so that a map installed over the other leaves a file behind.   *)
(***************************************************************************)
EXTENDS MapSync, TLC

CONSTANTS m1, m2, main, extra

MCFilesOf == (m1 :> {main}) @@ (m2 :> {main, extra})

=============================================================================
