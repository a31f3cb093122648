------------------------------- MODULE Board -------------------------------
(***************************************************************************)
(* The data of class ttt (tictactoe.hpp, tictactoe.cpp): the 3x3 board,    *)
(* whose turn it is, the result, and the methods that change them, as      *)
(* operators on a record.  There is no state machine here: Game plays one  *)
(* board in isolation and TttBot plays one per entry of ttt_list_g.        *)
(*                                                                         *)
(* Left out: labels, colours, texts and mentions.  A snowflake is a        *)
(* member of Users, and the default-constructed snowflake 0 is NoUser.     *)
(***************************************************************************)
EXTENDS Integers, FiniteSets

CONSTANTS
  Users,    \* people (and bots) of the Discord channel
  NoUser    \* the snowflake 0 of a default-constructed turn

ASSUME NoUserAssumption == NoUser \notin Users

(* ttt::pair::status_t, and the two marks a turn can carry. *)
Marks    == {"X", "O"}
Statuses == {"IDLE"} \cup Marks

(* ttt::RESULT.  EXPIRED is declared by the code and never assigned. *)
Results == {"IN_PROGRESS", "EXPIRED", "DRAW", "WON"}

Cells == (0..2) \X (0..2)

Empty == [c \in Cells |-> "IDLE"]

(* A ttt object.  `won' holds the cells whose pair has won = true. *)
Ttt == [p1: Users, p2: Users, board: [Cells -> Statuses], won: SUBSET Cells,
        turn: Users \cup {NoUser}, mark: Statuses, turns: Nat, result: Results]

(* The constructor: no turn yet, and pairs that are IDLE by default. *)
NewTtt(p1, p2) ==
  [p1 |-> p1, p2 |-> p2, board |-> Empty, won |-> {}, turn |-> NoUser,
   mark |-> "IDLE", turns |-> 0, result |-> "IN_PROGRESS"]

Mutant_InitGameNoMark(g) ==
  [g EXCEPT !.turn = g.p1, !.board = Empty, !.won = {}]

Mutant_InitGameSecond(g) ==
  [g EXCEPT !.turn = g.p2, !.mark = "X", !.board = Empty, !.won = {}]

(* init_game() gives the first turn to player 1 with X and makes a fresh   *)
(* board; it resets neither `turns' nor `result'.                          *)
InitGame(g) ==
  [g EXCEPT !.turn = g.p1, !.mark = "X", !.board = Empty, !.won = {}]

Started(g) == g.turn # NoUser

Over(g) == g.result \in {"WON", "DRAW"}

IsPlayer(g, u) == u \in {g.p1, g.p2}

-----------------------------------------------------------------------------
(* fetch_winner() *)

Rows      == {<<<<i, 0>>, <<i, 1>>, <<i, 2>>>> : i \in 0..2}
Columns   == {<<<<0, i>>, <<1, i>>, <<2, i>>>> : i \in 0..2}
Diagonals == {<<<<0, 0>>, <<1, 1>>, <<2, 2>>>>, <<<<0, 2>>, <<1, 1>>, <<2, 0>>>>}

Mutant_LinesOneDiagonal ==
  Rows \cup Columns \cup {<<<<0, 0>>, <<1, 1>>, <<2, 2>>>>}

(* The eight triples the loop and the two conditions after it look at. *)
Lines == Rows \cup Columns \cup Diagonals

CellsOf(l) == {l[1], l[2], l[3]}

(* Three equal marks on a line, the first of them not IDLE. *)
Three(b, l) == b[l[1]] # "IDLE" /\ b[l[1]] = b[l[2]] /\ b[l[2]] = b[l[3]]

HasLine(b) == \E l \in Lines : Three(b, l)

WonCells(b) == UNION {CellsOf(l) : l \in {k \in Lines : Three(b, k)}}

FetchWinner(g) ==
  [g EXCEPT !.won    = @ \cup WonCells(g.board),
            !.result = IF HasLine(g.board) THEN "WON" ELSE @]

-----------------------------------------------------------------------------
(* swap_turn() *)

LastTurn == 9

Mutant_SwapTurn(g) ==
  IF g.turns + 1 >= LastTurn
    THEN [g EXCEPT !.turns = @ + 1, !.result = "DRAW"]
    ELSE [g EXCEPT !.turns = @ + 1,
                   !.turn  = IF @ = g.p1 THEN g.p2 ELSE g.p1,
                   !.mark  = IF @ = "X" THEN "O" ELSE "X"]

(* The ninth swap without a winner is a draw and does not swap. *)
SwapTurn(g) ==
  IF g.turns + 1 >= LastTurn /\ g.result # "WON"
    THEN [g EXCEPT !.turns = @ + 1, !.result = "DRAW"]
    ELSE [g EXCEPT !.turns = @ + 1,
                   !.turn  = IF @ = g.p1 THEN g.p2 ELSE g.p1,
                   !.mark  = IF @ = "X" THEN "O" ELSE "X"]

-----------------------------------------------------------------------------
(* What on_ttt_interaction() does to the object for a click of u on c. *)

Mutant_MayPlay(g, u, c) == u = g.turn

(* The click counts: it is u's turn and nobody took the square.  The       *)
(* result is not consulted.                                                *)
MayPlay(g, u, c) == u = g.turn /\ g.board[c] = "IDLE"

SetStatus(g, c) == [g EXCEPT !.board[c] = g.mark]

Play(g, c) == SwapTurn(FetchWinner(SetStatus(g, c)))

-----------------------------------------------------------------------------
(* fetch_ttt_turn() and fetch_ttt_components(): what the message shows.    *)

View == [board: [Cells -> Statuses], won: SUBSET Cells, disabled: BOOLEAN,
         named: Users \cup {NoUser}]

Mutant_Render(g) ==
  [board |-> g.board, won |-> g.won, disabled |-> g.turns >= 4, named |-> g.turn]

(* The buttons are disabled and the text blanked once the game is over.    *)
Render(g) ==
  [board |-> g.board, won |-> g.won, disabled |-> Over(g),
   named |-> IF Over(g) THEN NoUser ELSE g.turn]
-----------------------------------------------------------------------------
(* What a started game promises, whoever clicks.                           *)

MarkedBy(b, m) == {c \in Cells : b[c] = m}

Marked(b) == {c \in Cells : b[c] # "IDLE"}

(* The result is WON exactly when the board has a line, and DRAW exactly   *)
(* when it is full without one.                                            *)
RightResult(g) ==
  /\ g.result = "WON"  <=> HasLine(g.board)
  /\ g.result = "DRAW" <=> Marked(g.board) = Cells /\ ~HasLine(g.board)

(* X belongs to player 1, `turns' counts the marks and never passes nine,  *)
(* and player 1 has as many marks as player 2 or one more.                 *)
FairTurns(g) ==
  /\ g.turn = g.p1 <=> g.mark = "X"
  /\ g.turns = Cardinality(Marked(g.board)) /\ g.turns <= LastTurn
  /\ 2 * Cardinality(MarkedBy(g.board, "X")) = g.turns + (g.turns % 2)
  /\ g.result # "DRAW" => (g.mark = "X" <=> g.turns % 2 = 0)

(* A started game in good order.  RightResult alone is not inductive: that *)
(* the counter tells a full board needs the count of marks in FairTurns,   *)
(* and the count needs the result, since a drawn board takes no click.     *)
Good(g) ==
  /\ g \in Ttt /\ g.p1 # g.p2
  /\ g.turn \in {g.p1, g.p2} /\ g.mark \in Marks /\ g.result # "EXPIRED"
  /\ RightResult(g)
  /\ FairTurns(g)
=============================================================================
