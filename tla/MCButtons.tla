------------------------------ MODULE MCButtons ------------------------------
(***************************************************************************)
(* Buttons for TLC: the ids are taken from right to left, as the compiler  *)
(* of the project may do, and a board takes one id where the code takes    *)
(* nine.                                                                   *)
(***************************************************************************)
EXTENDS Buttons, TLC

CONSTANTS s1, s2, ann, bob

MCOrder == <<"no", "yes", "uid">>

MCSymmetry == Permutations({s1, s2}) \cup Permutations({ann, bob})
=============================================================================
