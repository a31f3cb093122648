------------------------------ MODULE MCTttBot ------------------------------
(***************************************************************************)
(* TttBot for TLC.  Ann and bob play each other, cat and dan are there to  *)
(* play next to them or to interfere, robot is a bot.                      *)
(***************************************************************************)
EXTENDS TttBot

CONSTANTS ann, bob, cat, dan, robot

MCUsers == {ann, bob, cat, dan, robot}

(* Ann challenges bob, a bot and herself; the last two are refused. *)
OneMention == {<<ann, bob>>, <<ann, robot>>, <<ann, ann>>}

(* Bob plays in both entries, so that each has a player who is refused.    *)
TwoMentions == {<<ann, bob>>, <<cat, bob>>}

OtherMention == {<<ann, bob>>, <<cat, dan>>}

Squares(a, b, s) ==
  [u \in Users |-> IF u = ann THEN a ELSE IF u = bob THEN b ELSE s]

(* Ann can complete row 0 and wins with it; bob may have squares left and *)
(* click late, and completes row 1 when he does.                           *)
AimRows == Squares({<<0, 0>>, <<0, 1>>, <<0, 2>>}, {<<1, 0>>, <<1, 1>>, <<1, 2>>}, {<<2, 2>>})

(* The shortest wins of ann and of cat, in whichever entries they play. *)
AimWins == Squares({<<0, 0>>, <<0, 1>>, <<0, 2>>}, {<<1, 0>>, <<1, 1>>}, {<<0, 0>>, <<0, 1>>, <<0, 2>>})

(* One square each: nobody wins, the entries stay. *)
AimTouch == Squares({<<0, 0>>}, {<<1, 1>>}, {<<2, 2>>})
=============================================================================
