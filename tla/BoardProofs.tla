---------------------------- MODULE BoardProofs ----------------------------
(***************************************************************************)
(* Lemmas about the ttt object, for any users: what one click does to it,  *)
(* and that a game which is Good stays Good.  GameProofs and TttBotProofs  *)
(* build on them.                                                          *)
(***************************************************************************)
EXTENDS Board, FiniteSetTheorems, TLAPS

-----------------------------------------------------------------------------
(* The board. *)

(* There are nine squares. *)
LEMMA NineCells == IsFiniteSet(Cells) /\ Cardinality(Cells) = 9
<1>1. 0 \in Int /\ 2 \in Int /\ ~(0 > 2) /\ 2 - 0 + 1 = 3
  OBVIOUS
<1>2. IsFiniteSet(0..2) /\ Cardinality(0..2) = 3
  BY <1>1, FS_Interval
<1> QED
  BY <1>2, FS_Product DEF Cells

(* fetch_winner looks at squares of the board only. *)
LEMMA LinesAreOnTheBoard ==
  \A l \in Lines : l[1] \in Cells /\ l[2] \in Cells /\ l[3] \in Cells
BY DEF Lines, Rows, Columns, Diagonals, Cells

(* The cells flagged as won are cells. *)
LEMMA WonCellsAreCells == \A b : WonCells(b) \subseteq Cells
BY LinesAreOnTheBoard DEF WonCells, CellsOf

(* Marking an idle square keeps every line that was complete. *)
LEMMA LinesStay ==
  ASSUME NEW b \in [Cells -> Statuses], NEW c \in Cells, NEW m \in Marks,
         b[c] = "IDLE"
  PROVE  HasLine(b) => HasLine([b EXCEPT ![c] = m])
BY LinesAreOnTheBoard DEF HasLine, Three

(* Marking an idle square adds one to the count of marked squares and,     *)
(* only if the mark is X, one to the count of X.                           *)
LEMMA OneMoreMark ==
  ASSUME NEW b \in [Cells -> Statuses], NEW c \in Cells, NEW m \in Marks,
         b[c] = "IDLE"
  PROVE  LET d == [b EXCEPT ![c] = m]
         IN  /\ Cardinality(Marked(d)) = Cardinality(Marked(b)) + 1
             /\ Cardinality(MarkedBy(d, "X")) =
                  Cardinality(MarkedBy(b, "X")) + IF m = "X" THEN 1 ELSE 0
<1> DEFINE d == [b EXCEPT ![c] = m]
<1>1. IsFiniteSet(Marked(b)) /\ IsFiniteSet(MarkedBy(b, "X"))
  BY NineCells, FS_Subset DEF Marked, MarkedBy
<1>2. Marked(d) = Marked(b) \cup {c} /\ c \notin Marked(b)
  BY DEF Marked, Marks
<1>3. c \notin MarkedBy(b, "X")
  BY DEF MarkedBy
<1>4. m = "X" => MarkedBy(d, "X") = MarkedBy(b, "X") \cup {c}
  BY DEF MarkedBy
<1>5. m # "X" => MarkedBy(d, "X") = MarkedBy(b, "X")
  BY DEF MarkedBy
<1>6. Cardinality(Marked(d)) = Cardinality(Marked(b)) + 1
  BY <1>1, <1>2, FS_AddElement
<1>7. Cardinality(MarkedBy(d, "X")) \in Nat /\ Cardinality(MarkedBy(b, "X")) \in Nat
  BY <1>1, <1>3, <1>4, <1>5, FS_AddElement, FS_CardinalityType
<1>8. m = "X" => Cardinality(MarkedBy(d, "X")) = Cardinality(MarkedBy(b, "X")) + 1
  BY <1>1, <1>3, <1>4, FS_AddElement
<1>9. m # "X" => Cardinality(MarkedBy(d, "X")) = Cardinality(MarkedBy(b, "X")) + 0
  BY <1>5, <1>7
<1> QED
  BY <1>6, <1>8, <1>9

(* A count of marked squares is a number up to nine, nine only when full.  *)
LEMMA CountBound ==
  ASSUME NEW b
  PROVE  /\ Cardinality(Marked(b)) \in 0..9
         /\ Cardinality(MarkedBy(b, "X")) \in Nat
         /\ Cardinality(Marked(b)) = 9 <=> Marked(b) = Cells
<1>1. Marked(b) \in SUBSET Cells /\ MarkedBy(b, "X") \in SUBSET Cells
  BY DEF Marked, MarkedBy
<1>2. IsFiniteSet(Marked(b)) /\ IsFiniteSet(MarkedBy(b, "X"))
  BY <1>1, NineCells, FS_Subset
<1>3. Cardinality(Marked(b)) <= 9 /\ (Cardinality(Marked(b)) = 9 => Marked(b) = Cells)
  BY <1>1, NineCells, FS_Subset
<1>4. Cardinality(Marked(b)) \in Nat /\ Cardinality(MarkedBy(b, "X")) \in Nat
  BY <1>2, FS_CardinalityType
<1> QED
  BY <1>3, <1>4, NineCells

-----------------------------------------------------------------------------
(* One click. *)

(* What Play does to every field of a ttt object. *)
LEMMA PlayFields ==
  ASSUME NEW g \in Ttt, NEW c \in Cells
  PROVE  LET b == [g.board EXCEPT ![c] = g.mark]
             h == Play(g, c)
             won == HasLine(b) \/ g.result = "WON"
             full == g.turns + 1 >= 9
         IN  /\ h.p1 = g.p1 /\ h.p2 = g.p2
             /\ h.board = b /\ h.turns = g.turns + 1
             /\ h.won = g.won \cup WonCells(b)
             /\ h.result = IF won THEN "WON" ELSE IF full THEN "DRAW" ELSE g.result
             /\ h.turn = IF full /\ ~won THEN g.turn
                         ELSE IF g.turn = g.p1 THEN g.p2 ELSE g.p1
             /\ h.mark = IF full /\ ~won THEN g.mark
                         ELSE IF g.mark = "X" THEN "O" ELSE "X"
             /\ h = [p1 |-> h.p1, p2 |-> h.p2, board |-> h.board, won |-> h.won,
                     turn |-> h.turn, mark |-> h.mark, turns |-> h.turns, result |-> h.result]
BY DEF Ttt, Play, SwapTurn, FetchWinner, SetStatus, LastTurn
-----------------------------------------------------------------------------
(* A new object is a ttt object that waits for its game. *)
LEMMA NewFields ==
  ASSUME NEW p1 \in Users, NEW p2 \in Users
  PROVE  LET o == NewTtt(p1, p2)
         IN  /\ o \in Ttt
             /\ o.p1 = p1 /\ o.p2 = p2 /\ o.turn = NoUser /\ o.board = Empty
             /\ o.won = {} /\ o.turns = 0 /\ o.result = "IN_PROGRESS"
<1>1. Empty \in [Cells -> Statuses]
  BY DEF Empty, Statuses
<1> QED
  BY <1>1 DEF NewTtt, Ttt, Statuses, Results

(* What init_game does to every field. *)
LEMMA InitFields ==
  ASSUME NEW o \in Ttt, NEW g, g = InitGame(o)
  PROVE  /\ g.p1 = o.p1 /\ g.p2 = o.p2 /\ g.turn = o.p1 /\ g.mark = "X"
         /\ g.board = Empty /\ g.won = {} /\ g.turns = o.turns /\ g.result = o.result
         /\ g = [p1 |-> g.p1, p2 |-> g.p2, board |-> g.board, won |-> g.won,
                 turn |-> g.turn, mark |-> g.mark, turns |-> g.turns, result |-> g.result]
<1>1. g = [p1 |-> g.p1, p2 |-> g.p2, board |-> g.board, won |-> g.won,
           turn |-> g.turn, mark |-> g.mark, turns |-> g.turns, result |-> g.result]
  BY DEF Ttt, InitGame
<1>2. /\ g.p1 = o.p1 /\ g.p2 = o.p2 /\ g.turn = o.p1 /\ g.mark = "X"
      /\ g.board = Empty /\ g.won = {} /\ g.turns = o.turns /\ g.result = o.result
  BY DEF Ttt, InitGame
<1> QED
  BY <1>1, <1>2

(* init_game makes a good game of a new object. *)
LEMMA InitGood ==
  ASSUME NEW p1 \in Users, NEW p2 \in Users, p1 # p2
  PROVE  Good(InitGame(NewTtt(p1, p2)))
<1> DEFINE g == InitGame(NewTtt(p1, p2))
<1>1. g = [p1 |-> p1, p2 |-> p2, board |-> Empty, won |-> {}, turn |-> p1,
           mark |-> "X", turns |-> 0, result |-> "IN_PROGRESS"]
  BY NewFields, InitFields
<1>2. Empty \in [Cells -> Statuses] /\ \A c \in Cells : Empty[c] = "IDLE"
  BY DEF Empty, Statuses
<1>3. g \in Ttt
  BY <1>1, <1>2 DEF Ttt, Marks, Statuses, Results
<1>4. Marked(Empty) = {} /\ MarkedBy(Empty, "X") = {}
  BY <1>2 DEF Marked, MarkedBy
<1>5. Cardinality(Marked(Empty)) = 0 /\ Cardinality(MarkedBy(Empty, "X")) = 0
  BY <1>4, FS_EmptySet
<1>6. ~HasLine(Empty)
  BY <1>2, LinesAreOnTheBoard DEF HasLine, Three
<1>7. RightResult(g)
  BY <1>1, <1>5, <1>6, CountBound DEF RightResult
<1>8. FairTurns(g)
  BY <1>1, <1>5 DEF FairTurns, LastTurn
<1> QED
  BY <1>1, <1>3, <1>7, <1>8 DEF Good, Marks

(* A drawn game has no idle square left. *)
LEMMA NoPlayAfterDraw ==
  ASSUME NEW g, Good(g), NEW u, NEW c \in Cells, MayPlay(g, u, c)
  PROVE  g.result # "DRAW"
BY DEF Good, RightResult, MayPlay, Marked

(* A click that counts keeps a good game good. *)
LEMMA PlayGood ==
  ASSUME NEW g, Good(g), NEW u, NEW c \in Cells, MayPlay(g, u, c)
  PROVE  Good(Play(g, c))
<1> DEFINE b == [g.board EXCEPT ![c] = g.mark]
           h == Play(g, c)
<1>1. /\ g \in Ttt /\ g.board \in [Cells -> Statuses] /\ g.mark \in Marks
      /\ g.turns \in Nat /\ g.won \subseteq Cells
      /\ g.p1 \in Users /\ g.p2 \in Users /\ g.p1 # g.p2 /\ g.turn \in {g.p1, g.p2}
      /\ g.board[c] = "IDLE" /\ g.result \in {"IN_PROGRESS", "WON"}
  <2>1. g.result # "DRAW"
    BY NoPlayAfterDraw
  <2> QED
    BY <2>1 DEF Good, Ttt, Results, MayPlay
<1>2. Cardinality(Marked(b)) = g.turns + 1
  BY <1>1, OneMoreMark DEF Good, FairTurns
<1>3. g.turns + 1 <= 9 /\ (g.turns + 1 >= 9 <=> Marked(b) = Cells)
  BY <1>1, <1>2, CountBound
<1>4. HasLine(b) \/ g.result = "WON" <=> HasLine(b)
  BY <1>1, LinesStay DEF Good, RightResult
<1>5. b \in [Cells -> Statuses]
  BY <1>1 DEF Statuses
<1>6. /\ h.p1 = g.p1 /\ h.p2 = g.p2
      /\ h.board = b /\ h.turns = g.turns + 1
      /\ h.won = g.won \cup WonCells(b)
  BY <1>1, PlayFields
<1>7. h.result = IF HasLine(b) THEN "WON"
                 ELSE IF Marked(b) = Cells THEN "DRAW" ELSE g.result
  BY <1>1, <1>3, <1>4, PlayFields
<1>8. IF Marked(b) = Cells /\ ~HasLine(b)
        THEN h.turn = g.turn /\ h.mark = g.mark
        ELSE /\ h.turn = IF g.turn = g.p1 THEN g.p2 ELSE g.p1
             /\ h.mark = IF g.mark = "X" THEN "O" ELSE "X"
  BY <1>1, <1>3, <1>4, PlayFields
<1>9. h \in Ttt /\ h.turn \in {h.p1, h.p2} /\ h.mark \in Marks /\ h.result # "EXPIRED"
  <2>1. h = [p1 |-> h.p1, p2 |-> h.p2, board |-> h.board, won |-> h.won, turn |-> h.turn,
             mark |-> h.mark, turns |-> h.turns, result |-> h.result]
    BY <1>1, PlayFields
  <2>2. h.turn \in {g.p1, g.p2} /\ h.mark \in Marks
    BY <1>1, <1>8 DEF Marks
  <2>3. h.result \in Results \ {"EXPIRED"}
    BY <1>1, <1>7 DEF Results
  <2>4. h.won \subseteq Cells /\ h.turns \in Nat
    BY <1>1, <1>6, WonCellsAreCells
  <2> HIDE DEF h, b
  <2> QED
    BY <1>1, <1>5, <1>6, <2>1, <2>2, <2>3, <2>4 DEF Ttt, Statuses
<1>10. RightResult(h)
  <2>1. h.result = "WON" <=> HasLine(b)
    BY <1>1, <1>4, <1>7
  <2>2. h.result = "DRAW" <=> Marked(b) = Cells /\ ~HasLine(b)
    BY <1>1, <1>7
  <2> QED
    BY <1>6, <2>1, <2>2 DEF RightResult
<1>11. FairTurns(h)
  <2>1. /\ g.turn = g.p1 <=> g.mark = "X"
        /\ 2 * Cardinality(MarkedBy(g.board, "X")) = g.turns + (g.turns % 2)
        /\ g.mark = "X" <=> g.turns % 2 = 0
    BY <1>1 DEF Good, FairTurns
  <2>2. h.turn = h.p1 <=> h.mark = "X"
    BY <1>1, <1>6, <1>8, <2>1 DEF Marks
  <2>3. h.turns = Cardinality(Marked(h.board)) /\ h.turns <= LastTurn
    BY <1>2, <1>3, <1>6 DEF LastTurn
  <2>4. 2 * Cardinality(MarkedBy(b, "X")) = (g.turns + 1) + ((g.turns + 1) % 2)
    <3>1. Cardinality(MarkedBy(g.board, "X")) \in Nat
      BY CountBound
    <3>2. CASE g.mark = "X"
      <4>1. Cardinality(MarkedBy(b, "X")) = Cardinality(MarkedBy(g.board, "X")) + 1
        BY <1>1, <3>2, OneMoreMark
      <4> QED
        BY <1>1, <2>1, <3>1, <3>2, <4>1
    <3>3. CASE g.mark # "X"
      <4>1. Cardinality(MarkedBy(b, "X")) = Cardinality(MarkedBy(g.board, "X")) + 0
        BY <1>1, <3>3, OneMoreMark
      <4>2. g.turns % 2 = 1 /\ (g.turns + 1) % 2 = 0
        BY <1>1, <2>1, <3>3
      <4> HIDE DEF b
      <4> QED
        BY <1>1, <2>1, <3>1, <4>1, <4>2
    <3> QED
      BY <3>2, <3>3
  <2>5. h.result # "DRAW" => (h.mark = "X" <=> h.turns % 2 = 0)
    BY <1>1, <1>6, <1>7, <1>8, <2>1 DEF Marks
  <2> QED
    BY <1>6, <2>2, <2>3, <2>4, <2>5 DEF FairTurns
<1>12. Good(h)
  <2> HIDE DEF h
  <2> QED
    BY <1>1, <1>6, <1>9, <1>10, <1>11 DEF Good
<1> QED
  BY <1>12

(* A click that counts adds to the board and takes nothing back, a result  *)
(* least of all.                                                           *)
LEMMA PlayIsPermanent ==
  ASSUME NEW g, Good(g), NEW u, NEW c \in Cells, MayPlay(g, u, c)
  PROVE  /\ \A d \in Cells : g.board[d] # "IDLE" => Play(g, c).board[d] = g.board[d]
         /\ Over(g) => Play(g, c).result = g.result
         /\ g.won \subseteq Play(g, c).won
<1>1. g \in Ttt /\ g.board \in [Cells -> Statuses] /\ g.board[c] = "IDLE"
  BY DEF Good, Ttt, MayPlay
<1>2. g.result # "DRAW"
  BY NoPlayAfterDraw
<1>3. /\ Play(g, c).board = [g.board EXCEPT ![c] = g.mark]
      /\ Play(g, c).won = g.won \cup WonCells([g.board EXCEPT ![c] = g.mark])
      /\ g.result = "WON" => Play(g, c).result = "WON"
  BY <1>1, PlayFields
<1> QED
  BY <1>1, <1>2, <1>3 DEF Over
=============================================================================
