------------------------------ MODULE MCRingBuff ------------------------------
(***************************************************************************)
(* RingBuff for TLC.  A ring of three bytes and chunks of up to two: chunks *)
(* wrap around the end of the buffer, leave one byte free, fill the ring    *)
(* exactly and are refused, and two producers can both be past the enable   *)
(* test when the ring is stopped and started again.                         *)
(***************************************************************************)
EXTENDS RingBuff, TLC

ProducerSymmetry == Permutations(Producers)
=============================================================================
