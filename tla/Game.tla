-------------------------------- MODULE Game --------------------------------
(***************************************************************************)
(* One started game: the object of class ttt between init_game() and the   *)
(* end of the board, driven by the clicks that on_ttt_interaction()        *)
(* accepts.  A refused click (wrong turn, square taken) changes nothing,   *)
(* so it is a stuttering step.                                             *)
(*                                                                         *)
(* Clicks keep being accepted after a win: the handler never reads         *)
(* `result', and the disabled buttons reach the players only with the      *)
(* update of the message, so a click made on the old message still         *)
(* arrives.  What must survive such clicks is stated below.                *)
(***************************************************************************)
EXTENDS Board

CONSTANTS Player1, Player2

(* main.cpp refuses a challenge of oneself. *)
ASSUME PlayersAssumption ==
  Player1 \in Users /\ Player2 \in Users /\ Player1 # Player2

VARIABLE ttt

Init == ttt = InitGame(NewTtt(Player1, Player2))

Click(u, c) ==
  /\ MayPlay(ttt, u, c)
  /\ ttt' = Play(ttt, c)

Next == \E u \in Users, c \in Cells : Click(u, c)

Spec == Init /\ [][Next]_ttt

-----------------------------------------------------------------------------
(* A reference for "three in a row" that shares nothing with fetch_winner: *)
(* number the cells by a magic square; a line is three cells summing to 15.*)
Magic == << <<2, 7, 6>>, <<9, 5, 1>>, <<4, 3, 8>> >>

Number(c) == Magic[c[1] + 1][c[2] + 1]

MagicLines(b) ==
  {s \in SUBSET Marked(b) :
     \E x, y, z \in s :
       /\ s = {x, y, z} /\ x # y /\ y # z /\ x # z
       /\ b[x] = b[y] /\ b[y] = b[z]
       /\ Number(x) + Number(y) + Number(z) = 15}

-----------------------------------------------------------------------------
(* Every field of the ttt object keeps its type, the players stay, one of  *)
(* them is on turn with a mark, and EXPIRED never appears.                 *)
TypeOK ==
  /\ ttt \in Ttt
  /\ ttt.p1 = Player1 /\ ttt.p2 = Player2
  /\ ttt.turn \in {Player1, Player2} /\ ttt.mark \in Marks
  /\ ttt.result # "EXPIRED"

(* fetch_winner and swap_turn together: the result is WON exactly when the *)
(* board has a line, and DRAW exactly when it is full without one.  A win  *)
(* on the ninth move is a win and stays one under late clicks.             *)
ResultIsRight == RightResult(ttt)

(* fetch_winner finds a winner, and flags as won, exactly the cells that   *)
(* the magic square says are three in a row (tictactoe.cpp:71-97).         *)
AgreesWithMagic ==
  /\ HasLine(ttt.board) <=> MagicLines(ttt.board) # {}
  /\ ttt.won = UNION MagicLines(ttt.board)

(* swap_turn keeps the player, the mark and the counter in step: X belongs *)
(* to player 1, there is one mark per counted turn, player 1 has the same  *)
(* number of marks or one more, and the counter never passes nine.         *)
TurnsAreFair == FairTurns(ttt)

(* A click never changes a square somebody took, and never takes back a    *)
(* result: WON and DRAW are final even though clicks go on.                *)
NothingIsTakenBack ==
  [][/\ \A c \in Cells : ttt.board[c] # "IDLE" => ttt'.board[c] = ttt.board[c]
     /\ Over(ttt) => ttt'.result = ttt.result
     /\ ttt.won \subseteq ttt'.won]_ttt
=============================================================================
