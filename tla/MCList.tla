------------------------------- MODULE MCList -------------------------------
(***************************************************************************)
(* TttList for TLC: the gateway threads are interchangeable.               *)
(***************************************************************************)
EXTENDS TttList, TLC

MCSymmetry == Permutations(Shards)
=============================================================================
