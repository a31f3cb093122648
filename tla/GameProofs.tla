----------------------------- MODULE GameProofs -----------------------------
(***************************************************************************)
(* Proofs about one game, for any users and any two different players.     *)
(***************************************************************************)
EXTENDS Game, BoardProofs

(* The inductive invariant: a good game between the two players. *)
GameInv == Good(ttt) /\ ttt.p1 = Player1 /\ ttt.p2 = Player2

(* init_game makes a started game in good order. *)
LEMMA InitGameInv == Init => GameInv
<1> SUFFICES ASSUME Init PROVE GameInv
  OBVIOUS
<1>1. Good(ttt)
  BY InitGood, PlayersAssumption DEF Init
<1>2. ttt.p1 = Player1 /\ ttt.p2 = Player2
  BY DEF Init, InitGame, NewTtt
<1> QED
  BY <1>1, <1>2 DEF GameInv

(* An accepted click keeps it in good order. *)
LEMMA ClickKeepsGameInv ==
  ASSUME GameInv, NEW u \in Users, NEW c \in Cells, Click(u, c)
  PROVE  GameInv'
<1>1. Good(ttt')
  BY PlayGood DEF GameInv, Click
<1>2. ttt'.p1 = ttt.p1 /\ ttt'.p2 = ttt.p2
  BY PlayFields DEF GameInv, Good, Click
<1> QED
  BY <1>1, <1>2 DEF GameInv

(* Good order is kept by every click, late ones included. *)
THEOREM GameInvariant == Spec => []GameInv
<1>1. GameInv /\ UNCHANGED ttt => GameInv'
  BY DEF GameInv
<1>2. GameInv /\ [Next]_ttt => GameInv'
  BY <1>1, ClickKeepsGameInv DEF Next
<1> QED
  BY InitGameInv, <1>2, PTL DEF Spec

-----------------------------------------------------------------------------
(* Every field of the ttt object keeps its type, for any two players.      *)
THEOREM TypeCorrect == Spec => []TypeOK
<1>1. GameInv => TypeOK
  BY DEF GameInv, Good, TypeOK
<1> QED
  BY GameInvariant, <1>1, PTL

(* fetch_winner and swap_turn, called after every accepted click, decide   *)
(* every position rightly: WON with a line, DRAW when full without one,    *)
(* however long the players go on clicking.                                *)
THEOREM ResultCorrect == Spec => []ResultIsRight
<1>1. GameInv => ResultIsRight
  BY DEF GameInv, Good, ResultIsRight
<1> QED
  BY GameInvariant, <1>1, PTL

(* The players alternate, each with one mark, and `turns' counts the marks *)
(* and never passes nine.                                                  *)
THEOREM TurnsCorrect == Spec => []TurnsAreFair
<1>1. GameInv => TurnsAreFair
  BY DEF GameInv, Good, TurnsAreFair
<1> QED
  BY GameInvariant, <1>1, PTL

(* No click changes a taken square or takes a result back.                 *)
THEOREM Permanent == Spec => NothingIsTakenBack
<1> DEFINE Kept ==
      /\ \A c \in Cells : ttt.board[c] # "IDLE" => ttt'.board[c] = ttt.board[c]
      /\ Over(ttt) => ttt'.result = ttt.result
      /\ ttt.won \subseteq ttt'.won
<1>1. ASSUME GameInv, NEW u \in Users, NEW c \in Cells, Click(u, c)
      PROVE  Kept
  BY <1>1, PlayIsPermanent DEF GameInv, Click
<1>2. GameInv /\ [Next]_ttt => [Kept]_ttt
  BY <1>1 DEF Next
<1> QED
  BY GameInvariant, <1>2, PTL DEF Spec, NothingIsTakenBack
-----------------------------------------------------------------------------
(* Three in a row and the magic square.                                    *)

(* The magic square numbers the nine cells, each with a number of its own. *)
LEMMA Numbers ==
  \A c \in Cells :
    /\ Number(c) \in 1..9
    /\ Number(c) = 1 <=> c = <<1, 2>>
    /\ Number(c) = 2 <=> c = <<0, 0>>
    /\ Number(c) = 3 <=> c = <<2, 1>>
    /\ Number(c) = 4 <=> c = <<2, 0>>
    /\ Number(c) = 5 <=> c = <<1, 1>>
    /\ Number(c) = 6 <=> c = <<0, 2>>
    /\ Number(c) = 7 <=> c = <<0, 1>>
    /\ Number(c) = 8 <=> c = <<2, 2>>
    /\ Number(c) = 9 <=> c = <<1, 0>>
<1> SUFFICES ASSUME NEW i \in 0..2, NEW j \in 0..2
             PROVE  LET c == <<i, j>>
                    IN  /\ Number(c) \in 1..9
                        /\ Number(c) = 1 <=> c = <<1, 2>>
                        /\ Number(c) = 2 <=> c = <<0, 0>>
                        /\ Number(c) = 3 <=> c = <<2, 1>>
                        /\ Number(c) = 4 <=> c = <<2, 0>>
                        /\ Number(c) = 5 <=> c = <<1, 1>>
                        /\ Number(c) = 6 <=> c = <<0, 2>>
                        /\ Number(c) = 7 <=> c = <<0, 1>>
                        /\ Number(c) = 8 <=> c = <<2, 2>>
                        /\ Number(c) = 9 <=> c = <<1, 0>>
  BY DEF Cells
<1>1. CASE i = 0
  BY <1>1 DEF Number, Magic
<1>2. CASE i = 1
  BY <1>2 DEF Number, Magic
<1>3. CASE i = 2
  BY <1>3 DEF Number, Magic
<1> QED
  BY <1>1, <1>2, <1>3

(* Three different numbers up to nine make fifteen in eight ways only.     *)
LEMMA FifteenInEightWays ==
  ASSUME NEW x \in 1..9, NEW y \in 1..9, NEW z \in 1..9,
         x # y, y # z, x # z, x + y + z = 15
  PROVE  \/ x \in {2, 7, 6} /\ y \in {2, 7, 6} /\ z \in {2, 7, 6}
         \/ x \in {9, 5, 1} /\ y \in {9, 5, 1} /\ z \in {9, 5, 1}
         \/ x \in {4, 3, 8} /\ y \in {4, 3, 8} /\ z \in {4, 3, 8}
         \/ x \in {2, 9, 4} /\ y \in {2, 9, 4} /\ z \in {2, 9, 4}
         \/ x \in {7, 5, 3} /\ y \in {7, 5, 3} /\ z \in {7, 5, 3}
         \/ x \in {6, 1, 8} /\ y \in {6, 1, 8} /\ z \in {6, 1, 8}
         \/ x \in {2, 5, 8} /\ y \in {2, 5, 8} /\ z \in {2, 5, 8}
         \/ x \in {6, 5, 4} /\ y \in {6, 5, 4} /\ z \in {6, 5, 4}
OBVIOUS

(* The triples fetch_winner looks at are three different cells of the      *)
(* board, and their numbers make fifteen.                                  *)
LEMMA LinesAreMagic ==
  \A l \in Lines :
    /\ l[1] \in Cells /\ l[2] \in Cells /\ l[3] \in Cells
    /\ l[1] # l[2] /\ l[2] # l[3] /\ l[1] # l[3]
    /\ Number(l[1]) + Number(l[2]) + Number(l[3]) = 15
<1> SUFFICES ASSUME NEW l \in Lines
             PROVE  /\ l[1] # l[2] /\ l[2] # l[3] /\ l[1] # l[3]
                    /\ Number(l[1]) + Number(l[2]) + Number(l[3]) = 15
  BY LinesAreOnTheBoard
<1>1. CASE \E i \in 0..2 : l = <<<<i, 0>>, <<i, 1>>, <<i, 2>>>>
  BY <1>1 DEF Number, Magic
<1>2. CASE \E i \in 0..2 : l = <<<<0, i>>, <<1, i>>, <<2, i>>>>
  BY <1>2 DEF Number, Magic
<1>3. CASE l \in Diagonals
  BY <1>3 DEF Diagonals, Number, Magic
<1> QED
  BY <1>1, <1>2, <1>3 DEF Lines, Rows, Columns

(* And no other three cells make fifteen.                                  *)
LEMMA MagicIsALine ==
  ASSUME NEW x \in Cells, NEW y \in Cells, NEW z \in Cells,
         x # y, y # z, x # z, Number(x) + Number(y) + Number(z) = 15
  PROVE  \E l \in Lines : CellsOf(l) = {x, y, z}
<1> DEFINE In(a, b, c) == {x, y, z} \subseteq {a, b, c}
<1>1. /\ Number(x) \in 1..9 /\ Number(y) \in 1..9 /\ Number(z) \in 1..9
      /\ Number(x) # Number(y) /\ Number(y) # Number(z) /\ Number(x) # Number(z)
  BY Numbers
<1>2. \/ In(<<0, 0>>, <<0, 1>>, <<0, 2>>) \/ In(<<1, 0>>, <<1, 1>>, <<1, 2>>)
      \/ In(<<2, 0>>, <<2, 1>>, <<2, 2>>) \/ In(<<0, 0>>, <<1, 0>>, <<2, 0>>)
      \/ In(<<0, 1>>, <<1, 1>>, <<2, 1>>) \/ In(<<0, 2>>, <<1, 2>>, <<2, 2>>)
      \/ In(<<0, 0>>, <<1, 1>>, <<2, 2>>) \/ In(<<0, 2>>, <<1, 1>>, <<2, 0>>)
  <2>1. \/ Number(x) \in {2, 7, 6} /\ Number(y) \in {2, 7, 6} /\ Number(z) \in {2, 7, 6}
        \/ Number(x) \in {9, 5, 1} /\ Number(y) \in {9, 5, 1} /\ Number(z) \in {9, 5, 1}
        \/ Number(x) \in {4, 3, 8} /\ Number(y) \in {4, 3, 8} /\ Number(z) \in {4, 3, 8}
        \/ Number(x) \in {2, 9, 4} /\ Number(y) \in {2, 9, 4} /\ Number(z) \in {2, 9, 4}
        \/ Number(x) \in {7, 5, 3} /\ Number(y) \in {7, 5, 3} /\ Number(z) \in {7, 5, 3}
        \/ Number(x) \in {6, 1, 8} /\ Number(y) \in {6, 1, 8} /\ Number(z) \in {6, 1, 8}
        \/ Number(x) \in {2, 5, 8} /\ Number(y) \in {2, 5, 8} /\ Number(z) \in {2, 5, 8}
        \/ Number(x) \in {6, 5, 4} /\ Number(y) \in {6, 5, 4} /\ Number(z) \in {6, 5, 4}
    BY <1>1, FifteenInEightWays
  <2> QED
    BY <2>1, Numbers
<1>3. \A a, b, c : In(a, b, c) => {a, b, c} = {x, y, z}
  OBVIOUS
<1> HIDE DEF In
<1>4. ASSUME NEW a, NEW b, NEW c, In(a, b, c), <<a, b, c>> \in Lines
      PROVE  \E l \in Lines : CellsOf(l) = {x, y, z}
  BY <1>3, <1>4 DEF CellsOf
<1>5. /\ \A i \in 0..2 : <<<<i, 0>>, <<i, 1>>, <<i, 2>>>> \in Lines
      /\ \A i \in 0..2 : <<<<0, i>>, <<1, i>>, <<2, i>>>> \in Lines
      /\ <<<<0, 0>>, <<1, 1>>, <<2, 2>>>> \in Lines /\ <<<<0, 2>>, <<1, 1>>, <<2, 0>>>> \in Lines
  BY DEF Lines, Rows, Columns, Diagonals
<1> QED
  BY <1>2, <1>4, <1>5

(* On every board the two notions of three in a row agree.                 *)
LEMMA MagicAgrees ==
  ASSUME NEW b \in [Cells -> Statuses]
  PROVE  /\ HasLine(b) <=> MagicLines(b) # {}
         /\ WonCells(b) = UNION MagicLines(b)
<1>1. ASSUME NEW l \in Lines, Three(b, l) PROVE CellsOf(l) \in MagicLines(b)
  <2>1. /\ l[1] \in Marked(b) /\ l[2] \in Marked(b) /\ l[3] \in Marked(b)
        /\ b[l[1]] = b[l[2]] /\ b[l[2]] = b[l[3]]
    BY <1>1, LinesAreMagic DEF Three, Marked
  <2> QED
    BY <2>1, LinesAreMagic DEF MagicLines, CellsOf
<1>2. ASSUME NEW s \in MagicLines(b) PROVE \E l \in Lines : CellsOf(l) = s /\ Three(b, l)
  <2>1. PICK x, y, z \in s : /\ s = {x, y, z} /\ x # y /\ y # z /\ x # z
                             /\ b[x] = b[y] /\ b[y] = b[z]
                             /\ Number(x) + Number(y) + Number(z) = 15
    BY DEF MagicLines
  <2>2. x \in Cells /\ y \in Cells /\ z \in Cells /\ b[x] # "IDLE"
    BY <2>1 DEF MagicLines, Marked
  <2>3. PICK l \in Lines : CellsOf(l) = {x, y, z}
    BY <2>1, <2>2, MagicIsALine
  <2>4. l[1] \in {x, y, z} /\ l[2] \in {x, y, z} /\ l[3] \in {x, y, z}
    BY <2>3 DEF CellsOf
  <2> QED
    BY <2>1, <2>2, <2>3, <2>4 DEF Three
<1> QED
  BY <1>1, <1>2 DEF HasLine, WonCells

(* The flags of the pairs are those of the lines on the board: a pair      *)
(* flagged once stays part of a line.                                      *)
WonInv == ttt.won = WonCells(ttt.board)

(* A click flags what the new line adds and keeps the flags there were.    *)
LEMMA ClickKeepsWonInv ==
  ASSUME GameInv, WonInv, NEW u \in Users, NEW c \in Cells, Click(u, c)
  PROVE  WonInv'
<1> DEFINE b == [ttt.board EXCEPT ![c] = ttt.mark]
<1>1. ttt \in Ttt /\ ttt.mark \in Marks /\ ttt.board \in [Cells -> Statuses] /\ ttt.board[c] = "IDLE"
  BY DEF GameInv, Good, Click, MayPlay, Ttt
<1>2. ttt'.board = b /\ ttt'.won = ttt.won \cup WonCells(b)
  BY <1>1, PlayFields DEF Click
<1>3. WonCells(ttt.board) \subseteq WonCells(b)
  <2>1. \A l \in Lines : Three(ttt.board, l) => Three(b, l)
    BY <1>1, LinesAreOnTheBoard DEF Three
  <2> QED
    BY <2>1 DEF WonCells
<1> QED
  BY <1>2, <1>3 DEF WonInv

(* fetch_winner finds and flags exactly what the magic square calls three  *)
(* in a row, on every board a game can reach (tictactoe.cpp:71-97).        *)
THEOREM WinnersAreMagic == Spec => []AgreesWithMagic
<1>1. Init => WonInv
  <2>1. \A c \in Cells : Empty[c] = "IDLE"
    BY DEF Empty
  <2>2. WonCells(Empty) = {}
    BY <2>1, LinesAreOnTheBoard DEF WonCells, Three
  <2>3. Init => ttt.board = Empty /\ ttt.won = {}
    BY DEF Init, InitGame, NewTtt
  <2> QED
    BY <2>2, <2>3 DEF WonInv
<1>2. GameInv /\ WonInv /\ [Next]_ttt => WonInv'
  BY ClickKeepsWonInv DEF Next, WonInv
<1>3. GameInv /\ WonInv => AgreesWithMagic
  <2>1. GameInv => ttt.board \in [Cells -> Statuses]
    BY DEF GameInv, Good, Ttt
  <2> QED
    BY <2>1, MagicAgrees DEF AgreesWithMagic, WonInv
<1> QED
  BY GameInvariant, <1>1, <1>2, <1>3, PTL DEF Spec
=============================================================================
