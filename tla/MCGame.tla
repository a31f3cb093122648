------------------------------- MODULE MCGame -------------------------------
(* Game for TLC: two players and a bystander, every order of all moves.    *)
EXTENDS Game
=============================================================================
