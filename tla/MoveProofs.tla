----------------------------- MODULE MoveProofs -----------------------------
(***************************************************************************)
(* What the callbacks report and touch: whose move a result is, which      *)
(* callback may find its entry erased, and which handler may find the      *)
(* origin message missing.                                                 *)
(***************************************************************************)
EXTENDS ReplyProofs

MoveOps == {"move", "result"}

(* The update for one move and the result it may lead to. *)
Moves(n, t) == {r \in RequestSet : r.op \in MoveOps /\ r.uid = n /\ r.turns = t}

(* A request about a move says which turn it was, and whose. *)
OfItsMover(r) ==
  r.op \in MoveOps =>
    /\ r.uid \in 1..last
    /\ r.turns \in 1..game[r.uid].turns /\ r.user = Mover(game[r.uid], r.turns)

MoverInv ==
  /\ \A r \in requests \cup announced : OfItsMover(r)
  /\ \A c \in Members(done) : OfItsMover(c.req)

Reported(n, t) == \E a \in announced : a.uid = n /\ a.turns = t

(* One request or completion per move; what is reported is requested no    *)
(* more, and only its completion is still to be handled.                   *)
MoveOK(n, t) ==
  /\ Once(Moves(n, t))
  /\ Reported(n, t) =>
       /\ requests \cap Moves(n, t) = {}
       /\ \A i \in 1..Len(done) :
            done[i].req \in Moves(n, t) => done[i].req.op = "result"

ReportedOnce ==
  \A a, b \in announced : a.uid = b.uid /\ a.turns = b.turns => a = b

(* An entry is erased for a move that was reported and needs nothing more. *)
GoneInv ==
  Running => \A n \in (1..last) \ live :
    \E a \in announced : a.uid = n /\ ~Queued(Moves(n, a.turns))

MoveInv ==
  /\ MoverInv
  /\ \A n \in Uid, t \in Nat : MoveOK(n, t)
  /\ ReportedOnce
  /\ announced \subseteq {r \in RequestSet : r.op = "result"}
  /\ GoneInv

-----------------------------------------------------------------------------
(* Players and counters. *)

(* What a step does to the players and the counter of every entry.         *)
Counts ==
  /\ last' >= last /\ last' \in Nat /\ 1..last \subseteq Uid
  /\ \A n \in 1..last :
       /\ game'[n].p1 = game[n].p1 /\ game'[n].p2 = game[n].p2
       /\ game[n].turns \in Nat /\ game'[n].turns \in Nat /\ game'[n].turns >= game[n].turns

(* An entry counts its turns. *)
LEMMA TurnsType ==
  ASSUME Inv, NEW n \in 1..last
  PROVE  n \in Uid /\ game[n] \in Ttt /\ game[n].turns \in Nat
<1>1. n \in Uid
  BY BotAssumption DEF Inv, TypeOK, Uid
<1>2. game[n] \in Ttt
  BY <1>1 DEF Inv, TypeOK, EntryTypeOK
<1> QED
  BY <1>1, <1>2 DEF Ttt

(* A played square counts one turn, of the player whose turn it was.       *)
LEMMA PlayCounts ==
  ASSUME NEW g, Good(g), NEW u, NEW c \in Cells, MayPlay(g, u, c)
  PROVE  /\ Play(g, c).turns = g.turns + 1 /\ g.turns \in Nat
         /\ Play(g, c).p1 = g.p1 /\ Play(g, c).p2 = g.p2
         /\ u = Mover(g, g.turns + 1)
<1>1. /\ g \in Ttt /\ g.turns \in Nat /\ g.p1 # g.p2 /\ g.turn \in {g.p1, g.p2}
      /\ g.turn = g.p1 <=> g.mark = "X"
      /\ g.result # "DRAW" => (g.mark = "X" <=> g.turns % 2 = 0)
  BY DEF Good, FairTurns, Ttt
<1>2. u = g.turn /\ g.result # "DRAW"
  BY NoPlayAfterDraw DEF MayPlay
<1>3. Play(g, c).turns = g.turns + 1 /\ Play(g, c).p1 = g.p1 /\ Play(g, c).p2 = g.p2
  BY <1>1, PlayFields
<1>4. (g.turns + 1) % 2 = 1 <=> g.turns % 2 = 0
  BY <1>1
<1>5. u = IF (g.turns + 1) % 2 = 1 THEN g.p1 ELSE g.p2
  BY <1>1, <1>2, <1>4
<1> QED
  BY <1>1, <1>3, <1>5 DEF Mover

(* Entries that do not change count as before. *)
LEMMA SameCounts ==
  ASSUME Inv, UNCHANGED <<last, game>>
  PROVE  Counts
BY TurnsType DEF Counts, Inv, TypeOK

(* Every step keeps the players and takes back no turn. *)
LEMMA NextCounts ==
  ASSUME Inv, Next
  PROVE  Counts
<1>1. CASE Command
  <2>1. PICK p \in Mentions : TttCommand(p[1], p[2])
    BY <1>1 DEF Command
  <2>2. p[1] \in Users /\ p[2] \in Users
    BY BotAssumption
  <2>3. last' = last + 1 /\ \A n \in Uid \ {last + 1} : game'[n] = game[n]
    BY <2>1, <2>2, CommandEntries
  <2>4. last \in Nat
    BY DEF Inv, TypeOK
  <2>5. \A n \in 1..last : game'[n] = game[n]
    BY <2>3, <2>4, TurnsType
  <2> QED
    BY <2>3, <2>4, <2>5, TurnsType DEF Counts
<1>2. ASSUME NEW e, SecondYes(e) PROVE Counts
  <2>1. Press(e) /\ last' = last /\ game' = [game EXCEPT ![e.uid] = InitGame(game[e.uid])]
    BY <1>2 DEF SecondYes
  <2>2. e.uid \in 1..last /\ game[e.uid] \in Ttt
    BY <2>1, PressFacts, TurnsType
  <2>3. /\ InitGame(game[e.uid]).p1 = game[e.uid].p1 /\ InitGame(game[e.uid]).p2 = game[e.uid].p2
        /\ InitGame(game[e.uid]).turns = game[e.uid].turns
    BY <2>2, InitFields
  <2>4. \A n \in 1..last : game'[n] = IF n = e.uid THEN InitGame(game[e.uid]) ELSE game[n]
    BY <2>1, TurnsType DEF Inv, TypeOK
  <2>5. \A n \in 1..last : game'[n].p1 = game[n].p1 /\ game'[n].p2 = game[n].p2
                           /\ game'[n].turns = game[n].turns
    BY <2>3, <2>4
  <2>6. last' >= last /\ last' \in Nat
    BY <2>1 DEF Inv, TypeOK
  <2> QED
    BY <2>5, <2>6, TurnsType DEF Counts
<1>3. ASSUME NEW e, PlayCell(e) PROVE Counts
  <2>1. /\ e.uid \in 1..last /\ Good(game[e.uid]) /\ e.cell \in Cells
        /\ MayPlay(game[e.uid], e.user, e.cell) /\ last' = last
        /\ game' = [game EXCEPT ![e.uid] = Play(game[e.uid], e.cell)]
    BY <1>3, PlayEntries, TakeClick DEF PlayCell, CellCounts, Inv, EntryInv
  <2>2. \A n \in 1..last : game'[n] = IF n = e.uid THEN Play(game[e.uid], e.cell) ELSE game[n]
    BY <2>1, TurnsType DEF Inv, TypeOK
  <2>3. /\ Play(game[e.uid], e.cell).turns = game[e.uid].turns + 1
        /\ Play(game[e.uid], e.cell).p1 = game[e.uid].p1
        /\ Play(game[e.uid], e.cell).p2 = game[e.uid].p2
    BY <2>1, PlayCounts
  <2>4. last' >= last /\ last' \in Nat
    BY <2>1 DEF Inv, TypeOK
  <2>5. \A n \in 1..last : game'[n].p1 = game[n].p1 /\ game'[n].p2 = game[n].p2
                           /\ game'[n].turns \in {game[n].turns, game[n].turns + 1}
    BY <2>2, <2>3
  <2>6. \A n \in 1..last : game[n].turns \in Nat
    BY TurnsType
  <2>7. \A n \in 1..last : game'[n].turns \in Nat /\ game'[n].turns >= game[n].turns
    BY <2>5, <2>6
  <2> QED
    BY <2>4, <2>5, <2>6, <2>7, TurnsType DEF Counts
<1>4. CASE UNCHANGED <<last, game>>
  BY <1>4, SameCounts
<1>5. CASE OnButtonClick
  BY <1>2, <1>3, <1>4, <1>5 DEF OnButtonClick, FirstYes, Decline, IgnorePress, RefuseCell, process
<1>6. CASE RunCallback \/ DiscordServes \/ UserClick
  <2>1. UNCHANGED <<last, game>>
    BY <1>6 DEF RunCallback, SetOrigin, ReplySent, StoreReply, MoveShown, ResultShown,
                DiscordServes, Serve, UserClick, ClickAsk, ClickBoard, ClickButton, process
  <2> QED
    BY <2>1, <1>4
<1> QED
  BY <1>1, <1>5, <1>6 DEF Next

(* A request about a move has a turn. *)
LEMMA RequestTurns ==
  ASSUME NEW r \in RequestSet, r.op \in MoveOps
  PROVE  r.uid \in Uid /\ r.user \in Users /\ r.turns \in Nat
BY DEF RequestSet, MoveOps

(* A request about a move stays right. *)
LEMMA MoverStays ==
  ASSUME Inv, Counts, NEW r, OfItsMover(r)
  PROVE  OfItsMover(r)'
<1> SUFFICES ASSUME r.op \in MoveOps
             PROVE  /\ r.uid \in 1..last' /\ r.turns \in 1..game'[r.uid].turns
                    /\ r.user = Mover(game'[r.uid], r.turns)
  BY DEF OfItsMover
<1>1. /\ r.uid \in 1..last /\ r.turns \in 1..game[r.uid].turns
      /\ r.user = Mover(game[r.uid], r.turns) /\ last \in Nat
  BY DEF OfItsMover, Inv, TypeOK
<1> QED
  BY <1>1 DEF Counts, Mover

-----------------------------------------------------------------------------
(* What is enough for one step. *)

(* What is posted, reported back or shown is about a move as it should be. *)
LEMMA MoverStep ==
  ASSUME Inv, MoverInv, Counts, NEW r, requests' \subseteq requests \cup {r}, OfItsMover(r)',
         announced' \subseteq announced \cup requests,
         \A c \in Members(done') : c \in Members(done) \/ c.req \in requests
  PROVE  MoverInv'
<1>1. \A s \in requests' \cup announced' : OfItsMover(s)'
  BY MoverStays DEF MoverInv
<1>2. \A c \in Members(done') : OfItsMover(c.req)'
  BY MoverStays DEF MoverInv
<1> QED
  BY <1>1, <1>2 DEF MoverInv

(* A request that is not about a move says nothing of one.                 *)
LEMMA NoMove ==
  ASSUME NEW r, r.op \notin MoveOps
  PROVE  OfItsMover(r)' /\ \A n, t : r \notin Moves(n, t)
BY DEF OfItsMover, Moves

(* No update or result of a move is added to those under way. *)
LEMMA MoveKept ==
  ASSUME NEW n, NEW t, MoveOK(n, t), Once(Moves(n, t))', announced' = announced,
         \A r \in requests' : r \in Moves(n, t) => r \in requests,
         \A i \in 1..Len(done') : \E j \in 1..Len(done) : done'[i] = done[j]
  PROVE  MoveOK(n, t)'
BY DEF MoveOK, Reported

(* An erased entry stays settled while nothing is added for a move of it   *)
(* that was reported.                                                      *)
LEMMA GoneStep ==
  ASSUME MoveInv, Running, announced \subseteq announced',
         \A n \in (1..last') \ live' : n \in (1..last) \ live,
         \A n \in (1..last) \ live, t \in Nat :
           Reported(n, t) => (Queued(Moves(n, t))' => Queued(Moves(n, t)))
  PROVE  GoneInv'
<1> SUFFICES ASSUME NEW n \in (1..last') \ live'
             PROVE  \E a \in announced' : a.uid = n /\ ~Queued(Moves(n, a.turns))'
  BY DEF GoneInv
<1>1. n \in (1..last) \ live
  OBVIOUS
<1>2. PICK a \in announced : a.uid = n /\ ~Queued(Moves(n, a.turns))
  BY <1>1 DEF MoveInv, GoneInv
<1>3. a.turns \in Nat
  <2>1. a \in RequestSet /\ a.op \in MoveOps
    BY <1>2 DEF MoveInv, MoveOps
  <2> QED
    BY <2>1, RequestTurns
<1>4. ~Queued(Moves(n, a.turns))'
  BY <1>1, <1>2, <1>3 DEF Reported
<1> QED
  BY <1>2, <1>4

(* Where the queue is after a callback. *)
LEMMA DoneAt ==
  ASSUME Inv, NEW c, NEW op, Complete(c, op)
  PROVE  /\ \A i \in 1..Len(done') : \E j \in 1..Len(done) : done'[i] = done[j]
         /\ \E j \in 1..Len(done) : c = done[j]
BY TailAt DEF Inv, TypeOK, Complete

-----------------------------------------------------------------------------
(* One lemma per kind of step. *)

(* A handler that posts nothing about a move, and a click on its way. *)
LEMMA HandlerMoves ==
  ASSUME Inv, MoveInv, Running, Counts, NEW r, r.op \notin MoveOps,
         requests' \in {requests, requests \cup {r}}, UNCHANGED <<done, announced>>,
         \A n \in (1..last') \ live' : n \in (1..last) \ live
  PROVE  MoveInv'
<1>1. OfItsMover(r)' /\ \A n, t : r \notin Moves(n, t)
  BY NoMove
<1>2. MoverInv'
  BY <1>1, MoverStep DEF MoveInv
<1>3. ASSUME NEW n \in Uid, NEW t \in Nat
      PROVE  /\ MoveOK(n, t)'
             /\ Queued(Moves(n, t))' => Queued(Moves(n, t))
  <2>1. MoveOK(n, t)
    BY DEF MoveInv
  <2>2. Once(Moves(n, t))' /\ (Queued(Moves(n, t))' => Queued(Moves(n, t)))
    BY <1>1, <2>1, PostOnce DEF MoveOK
  <2>3. MoveOK(n, t)'
    BY <1>1, <2>1, <2>2, MoveKept
  <2> QED
    BY <2>2, <2>3
<1>4. GoneInv'
  BY <1>3, GoneStep, TurnsType
<1> QED
  BY <1>2, <1>3, <1>4 DEF MoveInv, ReportedOnce

(* A move: the first of its turn. *)
LEMMA PlayMoves ==
  ASSUME Inv, MoveInv, Running, Counts, NEW e, PlayCell(e)
  PROVE  MoveInv'
<1> DEFINE k == e.uid
           g == game[k]
<1>1. /\ k \in 1..last /\ k \in live /\ k \in Uid /\ Good(g) /\ e.cell \in Cells
      /\ MayPlay(g, e.user, e.cell)
      /\ game'[k] = Play(g, e.cell)
  BY PlayEntries, TakeClick DEF PlayCell, CellCounts, Inv, TypeOK, EntryInv
<1>2. /\ game'[k].turns = g.turns + 1 /\ g.turns \in Nat
      /\ game'[k].p1 = g.p1 /\ game'[k].p2 = g.p2
      /\ e.user = Mover(g, g.turns + 1)
  BY <1>1, PlayCounts
<1>3. PICK r :
        /\ requests' = requests \cup {r} /\ UNCHANGED <<last, live, done, announced>>
        /\ r.op = "move" /\ r.uid = k /\ r.turns = g.turns + 1 /\ r.user = e.user
  <2> DEFINE q == [op |-> "move", uid |-> k, user |-> e.user, turns |-> game'[k].turns,
                   first |-> ~TurnedAway(e.user, MaxTtt), view |-> Render(game'[k])]
  <2>1. q.op = "move" /\ q.uid = k /\ q.turns = g.turns + 1 /\ q.user = e.user
    BY <1>2
  <2>2. requests' = requests \cup {q} /\ UNCHANGED <<last, live, done, announced>>
    BY DEF PlayCell, Post, discord
  <2> HIDE DEF q
  <2> QED
    BY <2>1, <2>2
<1>4. \A n, t : r \in Moves(n, t) => n = k /\ t = g.turns + 1
  BY <1>3 DEF Moves
<1>5. OfItsMover(r)'
  <2>1. r.user = Mover(game'[k], g.turns + 1)
    BY <1>2, <1>3 DEF Mover
  <2> QED
    BY <1>1, <1>2, <1>3, <2>1 DEF OfItsMover
<1>6. MoverInv'
  BY <1>3, <1>5, MoverStep DEF MoveInv
<1>7. ~Queued(Moves(k, g.turns + 1)) /\ ~Reported(k, g.turns + 1)
  <2>1. \A s : OfItsMover(s) /\ s.op \in MoveOps /\ s.uid = k => s.turns # g.turns + 1
    BY <1>2 DEF OfItsMover
  <2>2. \A i \in 1..Len(done) : done[i] \in Members(done)
    BY DEF Members
  <2>3. ~Queued(Moves(k, g.turns + 1))
    BY <2>1, <2>2 DEF Queued, Moves, MoveInv, MoverInv
  <2>4. ~Reported(k, g.turns + 1)
    BY <2>1 DEF Reported, MoveInv, MoverInv, MoveOps
  <2> QED
    BY <2>3, <2>4
<1>8. ASSUME NEW n \in Uid, NEW t \in Nat
      PROVE  /\ MoveOK(n, t)'
             /\ Reported(n, t) => (Queued(Moves(n, t))' => Queued(Moves(n, t)))
  <2>1. MoveOK(n, t)
    BY DEF MoveInv
  <2>2. r \in Moves(n, t) => ~Queued(Moves(n, t)) /\ ~Reported(n, t)
    BY <1>4, <1>7
  <2>3. Once(Moves(n, t))' /\ (Queued(Moves(n, t))' => Queued(Moves(n, t)) \/ r \in Moves(n, t))
    BY <1>3, <2>1, <2>2, PostOnce DEF MoveOK
  <2>4. MoveOK(n, t)'
    BY <1>3, <2>1, <2>2, <2>3 DEF MoveOK, Reported
  <2> QED
    BY <2>2, <2>3, <2>4
<1>9. GoneInv'
  BY <1>3, <1>8, GoneStep, TurnsType
<1> QED
  BY <1>3, <1>6, <1>8, <1>9 DEF MoveInv, ReportedOnce

(* A callback that erases nothing and posts nothing about a move. *)
LEMMA CallbackMoves ==
  ASSUME Inv, MoveInv, Running, Counts, NEW c, NEW op, Complete(c, op),
         NEW r, r.op \notin MoveOps, requests' \in {requests, requests \cup {r}},
         UNCHANGED <<last, live, announced>>
  PROVE  MoveInv'
<1>1. OfItsMover(r)' /\ \A n, t : r \notin Moves(n, t)
  BY NoMove
<1>2. MoverInv'
  BY <1>1, MoverStep, TakeDone DEF MoveInv, Inv
<1>3. ASSUME NEW n \in Uid, NEW t \in Nat
      PROVE  /\ MoveOK(n, t)'
             /\ Queued(Moves(n, t))' => Queued(Moves(n, t))
  <2>1. MoveOK(n, t)
    BY DEF MoveInv
  <2>2. Once(Moves(n, t))' /\ (Queued(Moves(n, t))' => Queued(Moves(n, t)))
    BY <1>1, <2>1, CallbackOnce DEF MoveOK, Inv
  <2>3. MoveOK(n, t)'
    BY <1>1, <2>1, <2>2, DoneAt, MoveKept
  <2> QED
    BY <2>2, <2>3
<1>4. GoneInv'
  BY <1>3, GoneStep, TurnsType
<1> QED
  BY <1>2, <1>3, <1>4 DEF MoveInv, ReportedOnce

(* The callback of a move, which may post its result. *)
LEMMA MoveShownMoves ==
  ASSUME Inv, MoveInv, Running, Counts, NEW c, MoveShown(c)
  PROVE  MoveInv'
<1>1. /\ Complete(c, "move") /\ UNCHANGED <<last, live, game, announced>>
  BY DEF MoveShown, discord
<1>2. CASE requests' = requests
  <2>1. [op |-> "none"].op \notin MoveOps
    BY DEF MoveOps
  <2> QED
    BY <1>1, <1>2, <2>1, CallbackMoves
<1>3. CASE requests' # requests
  <2>1. PICK r :
          /\ requests' = requests \cup {r}
          /\ r.op = "result" /\ r.uid = c.req.uid /\ r.turns = c.req.turns
          /\ r.user = c.req.user
    <3> DEFINE q == [op |-> "result", uid |-> c.req.uid, user |-> c.req.user,
                     turns |-> c.req.turns, result |-> game[c.req.uid].result]
    <3>1. /\ q.op = "result" /\ q.uid = c.req.uid /\ q.turns = c.req.turns
          /\ q.user = c.req.user
      OBVIOUS
    <3>2. requests' = requests \cup {q}
      BY <1>3 DEF MoveShown, Post
    <3> HIDE DEF q
    <3> QED
      BY <3>1, <3>2
  <2>2. /\ c \in Members(done) /\ c.req \in RequestSet /\ c.req.op = "move"
        /\ Members(done') \subseteq Members(done)
    BY <1>1, TakeDone DEF Inv
  <2>3. \A n, t : r \in Moves(n, t) => c.req \in Moves(n, t)
    BY <2>1, <2>2 DEF Moves, MoveOps
  <2>4. OfItsMover(r)'
    <3>1. OfItsMover(c.req)
      BY <2>2 DEF MoveInv, MoverInv
    <3>2. OfItsMover(r)
      BY <2>1, <2>2, <3>1 DEF OfItsMover, MoveOps
    <3> QED
      BY <3>2, MoverStays
  <2>5. MoverInv'
    BY <1>1, <2>1, <2>2, <2>4, MoverStep DEF MoveInv
  <2>6. ASSUME NEW n \in Uid, NEW t \in Nat
        PROVE  /\ MoveOK(n, t)'
               /\ Queued(Moves(n, t))' => Queued(Moves(n, t))
    <3>1. MoveOK(n, t)
      BY DEF MoveInv
    <3>2. Once(Moves(n, t))' /\ (Queued(Moves(n, t))' => Queued(Moves(n, t)))
      BY <1>1, <2>1, <2>3, <3>1, CallbackOnce DEF MoveOK, Inv
    <3>3. Reported(n, t) => c.req \notin Moves(n, t)
      BY <1>1, <2>2, <3>1, DoneAt DEF MoveOK
    <3>4. MoveOK(n, t)'
      BY <1>1, <2>1, <2>3, <3>1, <3>2, <3>3, DoneAt DEF MoveOK, Reported
    <3> QED
      BY <3>2, <3>4
  <2>7. GoneInv'
    BY <1>1, <2>6, GoneStep, TurnsType
  <2> QED
    BY <1>1, <2>5, <2>6, <2>7 DEF MoveInv, ReportedOnce
<1> QED
  BY <1>2, <1>3

(* The callback of a result, which may erase the entry. *)
LEMMA ResultShownMoves ==
  ASSUME Inv, MoveInv, Running, Counts, NEW c, ResultShown(c)
  PROVE  MoveInv'
<1>1. Complete(c, "result") /\ UNCHANGED <<last, game, requests, announced>>
  BY DEF ResultShown, discord
<1>2. [op |-> "none"].op \notin MoveOps
  BY DEF MoveOps
<1>3. CASE live' = live
  BY <1>1, <1>2, <1>3, CallbackMoves
<1>4. CASE live' # live
  <2>1. c.ok /\ live' = live \ {c.req.uid}
    BY <1>4 DEF ResultShown
  <2>2. /\ c \in Members(done) /\ c.req \in RequestSet /\ c.req.op = "result"
        /\ Members(done') \subseteq Members(done) /\ c.req \in announced
    BY <1>1, <2>1, TakeDone DEF Inv, ResultInv
  <2>3. OfItsMover([op |-> "none"])'
    BY <1>2, NoMove
  <2>4. MoverInv'
    BY <1>1, <2>2, <2>3, MoverStep DEF MoveInv
  <2>5. ASSUME NEW n \in Uid, NEW t \in Nat
        PROVE  /\ MoveOK(n, t)'
               /\ Queued(Moves(n, t))' => Queued(Moves(n, t))
               /\ c.req \in Moves(n, t) => ~Queued(Moves(n, t))'
    <3>1. MoveOK(n, t)
      BY DEF MoveInv
    <3>2. /\ Once(Moves(n, t))' /\ (Queued(Moves(n, t))' => Queued(Moves(n, t)))
          /\ c.req \in Moves(n, t) => ~Queued(Moves(n, t))'
      BY <1>1, <3>1, CallbackOnce DEF MoveOK, Inv
    <3>3. MoveOK(n, t)'
      BY <1>1, <3>1, <3>2, DoneAt, MoveKept
    <3> QED
      BY <3>2, <3>3
  <2>6. ASSUME NEW n \in (1..last') \ live'
        PROVE  \E a \in announced' : a.uid = n /\ ~Queued(Moves(n, a.turns))'
    <3>1. n \in Uid
      BY <1>1, TurnsType
    <3>2. CASE n = c.req.uid
      <4>1. c.req.turns \in Nat /\ c.req \in Moves(n, c.req.turns)
        BY <2>2, <3>2, RequestTurns DEF Moves, MoveOps
      <4>2. ~Queued(Moves(n, c.req.turns))'
        BY <2>5, <3>1, <4>1
      <4> QED
        BY <1>1, <2>2, <3>2, <4>2
    <3>3. CASE n # c.req.uid
      <4>1. PICK a \in announced : a.uid = n /\ ~Queued(Moves(n, a.turns))
        BY <1>1, <2>1, <3>3 DEF MoveInv, GoneInv
      <4>2. a \in RequestSet /\ a.op \in MoveOps
        BY DEF MoveInv, MoveOps
      <4>3. ~Queued(Moves(n, a.turns))'
        BY <2>5, <3>1, <4>1, <4>2, RequestTurns
      <4> QED
        BY <1>1, <4>1, <4>3
    <3> QED
      BY <3>2, <3>3
  <2> QED
    BY <1>1, <2>4, <2>5, <2>6 DEF MoveInv, ReportedOnce, GoneInv
<1> QED
  BY <1>3, <1>4

(* Discord carries out a request, or refuses it. *)
LEMMA ServeMoves ==
  ASSUME Inv, MoveInv, Running, Counts,
         NEW r \in requests, NEW made \in BOOLEAN, NEW ok \in BOOLEAN, Serve(r, made, ok)
  PROVE  MoveInv'
<1>1. /\ requests' = requests \ {r} /\ r \in RequestSet
      /\ announced' = IF made /\ r.op = "result" THEN announced \cup {r} ELSE announced
      /\ UNCHANGED <<last, live, game>>
  BY DEF Serve, process, Inv, TypeOK
<1>2. [op |-> "none"].op \notin MoveOps
  BY DEF MoveOps
<1>3. MoverInv'
  <2>1. \A d \in Members(done') : d \in Members(done) \/ d.req \in requests
    <3> DEFINE S == [req: RequestSet, ok: BOOLEAN]
               x == [req |-> r, ok |-> ok]
    <3>1. x \in S /\ x.req = r
      BY <1>1
    <3>2. done \in Seq(S)
      BY DEF Inv, TypeOK
    <3>3. done' \in {done, Append(done, x)}
      BY DEF Serve
    <3> HIDE DEF S, x
    <3>4. Members(Append(done, x)) = Members(done) \cup {x}
      BY <3>1, <3>2, AppendMembers
    <3>5. Members(done') \subseteq Members(done) \cup {x}
      BY <3>3, <3>4
    <3> QED
      BY <3>1, <3>5
  <2>2. OfItsMover([op |-> "none"])'
    BY <1>2, NoMove
  <2> QED
    BY <1>1, <2>1, <2>2, MoverStep DEF MoveInv
<1>4. ASSUME NEW n \in Uid, NEW t \in Nat
      PROVE  /\ MoveOK(n, t)'
             /\ Queued(Moves(n, t))' => Queued(Moves(n, t))
  <2>1. MoveOK(n, t)
    BY DEF MoveInv
  <2>2. /\ Once(Moves(n, t))' /\ (Queued(Moves(n, t))' => Queued(Moves(n, t)))
        /\ \A i \in 1..Len(done') :
             \/ i \in 1..Len(done) /\ done'[i] = done[i]
             \/ done'[i] = [req |-> r, ok |-> ok]
        /\ r \in Moves(n, t) => \A i \in 1..Len(done) : done[i].req \notin Moves(n, t)
    BY <2>1, ServeOnce DEF MoveOK, Inv
  <2>3. CASE Reported(n, t)
    <3>1. r \notin Moves(n, t)
      BY <2>1, <2>3 DEF MoveOK
    <3>2. \A i \in 1..Len(done') : done'[i].req \in Moves(n, t) =>
            i \in 1..Len(done) /\ done'[i] = done[i]
      BY <2>2, <3>1
    <3> QED
      BY <1>1, <2>1, <2>2, <2>3, <3>1, <3>2 DEF MoveOK
  <2>4. CASE ~Reported(n, t) /\ Reported(n, t)'
    <3>1. r \in Moves(n, t) /\ r.op = "result"
      BY <1>1, <2>4 DEF Reported, Moves, MoveOps
    <3>2. requests' \cap Moves(n, t) = {}
      BY <1>1, <2>1, <3>1 DEF MoveOK, Once
    <3>3. \A i \in 1..Len(done') : done'[i].req \in Moves(n, t) =>
            done'[i] = [req |-> r, ok |-> ok]
      BY <2>2, <3>1
    <3>4. \A i \in 1..Len(done') : done'[i].req \in Moves(n, t) => done'[i].req.op = "result"
      BY <3>1, <3>3
    <3> QED
      BY <2>2, <3>2, <3>4 DEF MoveOK
  <2>5. CASE ~Reported(n, t) /\ ~Reported(n, t)'
    BY <2>2, <2>5 DEF MoveOK
  <2> QED
    BY <2>2, <2>3, <2>4, <2>5
<1>5. ReportedOnce'
  <2>1. ASSUME NEW a \in announced, r.op = "result", a.uid = r.uid, a.turns = r.turns
        PROVE  FALSE
    <3>1. r.uid \in Uid /\ r.turns \in Nat /\ r \in Moves(r.uid, r.turns)
      BY <1>1, <2>1, RequestTurns DEF Moves, MoveOps
    <3>2. MoveOK(r.uid, r.turns) /\ Reported(r.uid, r.turns)
      BY <2>1, <3>1 DEF MoveInv, Reported
    <3> QED
      BY <3>1, <3>2 DEF MoveOK
  <2> QED
    BY <1>1, <2>1 DEF MoveInv, ReportedOnce
<1>6. GoneInv'
  BY <1>1, <1>4, GoneStep, TurnsType
<1>7. announced' \subseteq {s \in RequestSet : s.op = "result"}
  BY <1>1 DEF MoveInv
<1> QED
  BY <1>3, <1>4, <1>5, <1>6, <1>7 DEF MoveInv

-----------------------------------------------------------------------------
(* Steps that change nothing that is about a move. *)
LEMMA OtherMoves ==
  ASSUME Inv, MoveInv, UNCHANGED <<last, live, game, fault, requests, done, announced>>
  PROVE  MoveInv'
<1>1. MoverInv' /\ ReportedOnce'
  BY DEF MoveInv, MoverInv, OfItsMover, ReportedOnce
<1>2. \A n \in Uid, t \in Nat : MoveOK(n, t)'
  BY DEF MoveInv, MoveOK, Once, Reported
<1>3. GoneInv'
  BY DEF MoveInv, GoneInv, Running, Queued
<1> QED
  BY <1>1, <1>2, <1>3 DEF MoveInv

(* Posting nothing, or a request that is not about a move. *)
LEMMA NoMovePosted ==
  ASSUME \/ UNCHANGED requests
         \/ \E n, b : Post([op |-> "confirm", uid |-> n, warned |-> b])
         \/ \E n, b : Post([op |-> "fetch", uid |-> n, warned |-> b])
         \/ \E n, b, v : Post([op |-> "deploy", uid |-> n, known |-> b, view |-> v])
         \/ \E n : Post([op |-> "delete", uid |-> n])
  PROVE  \E r : r.op \notin MoveOps /\ requests' \in {requests, requests \cup {r}}
<1>1. CASE UNCHANGED requests
  <2>1. [op |-> "none"].op \notin MoveOps
    BY DEF MoveOps
  <2> QED
    BY <1>1, <2>1
<1>2. ASSUME NEW r, Post(r), r.op \notin MoveOps
      PROVE  \E s : s.op \notin MoveOps /\ requests' \in {requests, requests \cup {s}}
  BY <1>2 DEF Post
<1>3. ASSUME NEW n, NEW b, NEW v
      PROVE  /\ [op |-> "confirm", uid |-> n, warned |-> b].op \notin MoveOps
             /\ [op |-> "fetch", uid |-> n, warned |-> b].op \notin MoveOps
             /\ [op |-> "deploy", uid |-> n, known |-> b, view |-> v].op \notin MoveOps
             /\ [op |-> "delete", uid |-> n].op \notin MoveOps
  BY DEF MoveOps
<1> QED
  BY <1>1, <1>2, <1>3

(* No step mixes up the moves. *)
LEMMA NextMoves ==
  ASSUME Inv, MoveInv, [Next]_vars
  PROVE  MoveInv'
<1>1. CASE Command
  <2>1. Running /\ Counts
    BY <1>1, NextCounts DEF Next, Command
  <2>2. PICK p \in Mentions : TttCommand(p[1], p[2])
    BY <1>1 DEF Command
  <2>3. PICK r : /\ r.op \notin MoveOps /\ requests' = requests \cup {r}
                 /\ UNCHANGED <<done, announced>>
    BY <2>2 DEF TttCommand, Post, MoveOps, discord
  <2>4. \A n \in (1..last') \ live' : n \in (1..last) \ live
    BY <2>2 DEF TttCommand, Inv, TypeOK
  <2> QED
    BY <2>1, <2>3, <2>4, HandlerMoves
<1>2. CASE OnButtonClick
  <2>1. Running /\ Counts
    BY <1>2, NextCounts DEF Next, OnButtonClick
  <2>2. ASSUME NEW e, FirstYes(e) \/ SecondYes(e) \/ Decline(e) PROVE MoveInv'
    <3>1. UNCHANGED <<done, announced, last, live>>
      BY <2>2 DEF FirstYes, SecondYes, Decline, discord
    <3>2. \/ UNCHANGED requests
          \/ Post([op |-> "confirm", uid |-> e.uid, warned |-> TurnedAway(e.user, MaxTtt)])
          \/ Post([op |-> "deploy", uid |-> e.uid, known |-> replied[e.uid],
                   view |-> Render(InitGame(game[e.uid]))])
          \/ Post([op |-> "delete", uid |-> e.uid])
      BY <2>2 DEF FirstYes, SecondYes, Decline
    <3>3. PICK r : r.op \notin MoveOps /\ requests' \in {requests, requests \cup {r}}
      BY <3>2, NoMovePosted
    <3> QED
      BY <2>1, <3>1, <3>3, HandlerMoves
  <2>3. ASSUME NEW e, IgnorePress(e) \/ RefuseCell(e) PROVE MoveInv'
    BY <2>3, OtherMoves DEF IgnorePress, RefuseCell, process, discord
  <2> QED
    BY <1>2, <2>1, <2>2, <2>3, PlayMoves DEF OnButtonClick
<1>3. CASE RunCallback
  <2>1. Running /\ Counts
    BY <1>3, NextCounts DEF Next, RunCallback
  <2>2. ASSUME NEW c, SetOrigin(c) \/ ReplySent(c) \/ StoreReply(c) PROVE MoveInv'
    <3>1. PICK op : Complete(c, op)
      BY <2>2 DEF SetOrigin, ReplySent, StoreReply
    <3>2. UNCHANGED <<last, live, announced>>
      BY <2>2 DEF SetOrigin, ReplySent, StoreReply, process, discord
    <3>3. \/ UNCHANGED requests
          \/ Post([op |-> "fetch", uid |-> c.req.uid, warned |-> c.req.warned])
      BY <2>2 DEF SetOrigin, ReplySent, StoreReply
    <3>4. PICK r : r.op \notin MoveOps /\ requests' \in {requests, requests \cup {r}}
      BY <3>3, NoMovePosted
    <3> QED
      BY <2>1, <3>1, <3>2, <3>4, CallbackMoves
  <2> QED
    BY <1>3, <2>1, <2>2, MoveShownMoves, ResultShownMoves DEF RunCallback
<1>4. CASE DiscordServes
  <2>1. Running /\ Counts
    BY <1>4, NextCounts DEF Next, DiscordServes
  <2> QED
    BY <1>4, <2>1, ServeMoves DEF DiscordServes
<1>5. CASE UserClick
  BY <1>5, OtherMoves DEF UserClick, ClickAsk, ClickBoard, ClickButton, process, discord
<1>6. CASE UNCHANGED vars
  BY <1>6, OtherMoves DEF vars, process, discord
<1> QED
  BY <1>1, <1>2, <1>3, <1>4, <1>5, <1>6 DEF Next

(* No move is under way at the start. *)
LEMMA InitMoves == Init => MoveInv
<1> SUFFICES ASSUME Init PROVE MoveInv
  OBVIOUS
<1>1. requests = {} /\ announced = {} /\ Len(done) = 0 /\ last = 0 /\ Members(done) = {}
  BY DEF Init, Members
<1>2. MoverInv /\ ReportedOnce /\ GoneInv
  BY <1>1 DEF MoverInv, ReportedOnce, GoneInv
<1>3. \A n \in Uid, t \in Nat : MoveOK(n, t)
  BY <1>1 DEF MoveOK, Once, Reported
<1> QED
  BY <1>1, <1>2, <1>3 DEF MoveInv

(* The chain of every move is single, of its mover, and settled before the *)
(* entry is erased for it.                                                 *)
THEOREM MovesAreSingle == Spec => []MoveInv
<1>1. Inv /\ MoveInv /\ [Next]_vars => MoveInv'
  BY NextMoves
<1> QED
  BY <1>1, InitMoves, Invariant, PTL DEF Spec

(* ResultIsOfItsMove: a result names the player of the move it reports,    *)
(* and no move is reported twice (tictactoe.cpp:604-629).                  *)
THEOREM ResultsNameMovers == Spec => []ResultIsOfItsMove
<1>1. MoveInv => ResultIsOfItsMove
  BY DEF MoveInv, MoverInv, OfItsMover, MoveOps, ReportedOnce, ResultIsOfItsMove
<1> QED
  BY <1>1, MovesAreSingle, PTL

-----------------------------------------------------------------------------
(* The use of an erased entry. *)

(* An entry that is missing to a callback about a move was erased for      *)
(* another move.                                                           *)
LEMMA ErasedForAnother ==
  ASSUME Inv, MoveInv, Running, NEW c, NEW op \in MoveOps, Complete(c, op),
         c.req.uid \notin live
  PROVE  \E a \in announced : a.uid = c.req.uid /\ a.turns # c.req.turns
<1>1. c \in Members(done) /\ c.req \in RequestSet /\ c.req.op = op
  BY TakeDone DEF Inv
<1>2. c.req.uid \in 1..last
  BY <1>1 DEF MoveInv, MoverInv, OfItsMover
<1>3. PICK a \in announced : a.uid = c.req.uid /\ ~Queued(Moves(c.req.uid, a.turns))
  BY <1>2 DEF MoveInv, GoneInv
<1>4. c.req \in Moves(c.req.uid, c.req.turns)
  BY <1>1 DEF Moves
<1>5. Queued(Moves(c.req.uid, c.req.turns))
  BY <1>4, DoneAt DEF Queued
<1> QED
  BY <1>3, <1>5

(* The callback that stores a message finds its entry. *)
LEMMA StoreFindsEntry ==
  ASSUME Inv, ReplyInv, NEW c, Complete(c, "fetch")
  PROVE  c.req.uid \in live
<1> DEFINE n == c.req.uid
<1>1. c \in Members(done) /\ c.req.op = "fetch" /\ n \in Uid
  BY TakeDone DEF Inv
<1>2. c.req \in PendingReplies(n)
  BY <1>1 DEF PendingReplies
<1> QED
  BY <1>1, <1>2, PendingIsOne DEF ReplyPathIsSingle

(* IteratorFaultHasCause: a callback finds its entry erased only after the *)
(* result of another move was shown (tictactoe.cpp:421, 604, 637).         *)
THEOREM IteratorFaultsHaveCauses == Spec => IteratorFaultHasCause
<1> DEFINE Cause ==
      fault = "none" /\ fault' = "iterator" =>
        LET r == Head(done).req
        IN  /\ r.op \in {"move", "result"}
            /\ \E a \in announced : a.uid = r.uid /\ a.turns # r.turns
<1>1. ASSUME Inv, ReplyInv, MoveInv, Next PROVE Cause
  <2> SUFFICES ASSUME fault = "none", fault' = "iterator"
               PROVE  /\ Head(done).req.op \in {"move", "result"}
                      /\ \E a \in announced :
                           a.uid = Head(done).req.uid /\ a.turns # Head(done).req.turns
    OBVIOUS
  <2>1. Running
    BY DEF Running
  <2>2. ~Command /\ ~OnButtonClick /\ ~DiscordServes /\ ~UserClick
    BY DEF Command, TttCommand, OnButtonClick, FirstYes, SecondYes, Decline, IgnorePress,
           PlayCell, RefuseCell, NeedsOrigin, DiscordServes, Serve,
           UserClick, ClickAsk, ClickBoard, ClickButton, process
  <2>3. PICK c : StoreReply(c) \/ MoveShown(c) \/ ResultShown(c)
    BY <1>1, <2>2 DEF Next, RunCallback, SetOrigin, ReplySent, process
  <2>4. CASE StoreReply(c)
    BY <1>1, <2>4, StoreFindsEntry DEF StoreReply, NeedsEntry
  <2>5. CASE MoveShown(c)
    <3>1. Complete(c, "move") /\ c.req.uid \notin live
      BY <2>5 DEF MoveShown, NeedsOrigin
    <3> QED
      BY <1>1, <2>1, <3>1, ErasedForAnother DEF MoveOps, Complete
  <2>6. CASE ResultShown(c)
    <3>1. Complete(c, "result") /\ c.req.uid \notin live
      BY <2>6 DEF ResultShown, NeedsEntry
    <3> QED
      BY <1>1, <2>1, <3>1, ErasedForAnother DEF MoveOps, Complete
  <2> QED
    BY <2>3, <2>4, <2>5, <2>6
<1>2. Inv /\ ReplyInv /\ MoveInv /\ [Next]_vars => [Cause]_vars
  BY <1>1
<1> QED
  BY <1>2, Invariant, ChainsAreSingle, MovesAreSingle, PTL DEF Spec, IteratorFaultHasCause

-----------------------------------------------------------------------------
(* The origin message. *)

(* The invitation was sent, and its callback has not run.                  *)
Asked(n) == \E c \in Members(done) : c.req.op = "ask" /\ c.req.uid = n /\ c.ok

OriginInv ==
  /\ OriginFaultHasCause
  /\ fault # "origin" => \A n \in 1..last : Started(game[n]) => origin[n]
  /\ \A n \in Uid : ask[n] => origin[n] \/ Asked(n) \/ lost[n]
  /\ \A e \in Members(clicks) : e.button \in AskButtons => ask[e.uid]
  /\ \A r \in requests : r.op = "ask" => r.uid \in 1..last
  /\ \A c \in Members(done) : c.req.op = "ask" => c.req.uid \in 1..last

(* A game that is over was started, and its entry pushed. *)
LEMMA OverIsStarted ==
  ASSUME Inv, NEW n \in Uid, Over(game[n])
  PROVE  n \in 1..last /\ Started(game[n])
<1>1. n \in 1..last
  BY NoTttFields DEF Inv, TypeOK, EntryTypeOK, Over, Uid
<1>2. game[n] \in Ttt
  BY <1>1, TurnsType
<1>3. NewTtt(game[n].p1, game[n].p2).result = "IN_PROGRESS"
  BY <1>2, NewFields DEF Ttt
<1> QED
  BY <1>1, <1>3 DEF Inv, EntryInv, Over

(* A press that counts needs an invitation that was sent: its callback has *)
(* run, or is to blame, or the answer was lost.                            *)
LEMMA PressAsked ==
  ASSUME Inv, OriginInv, NEW e, Press(e), e.button \in AskButtons
  PROVE  /\ e.uid \in 1..last
         /\ origin[e.uid] \/ Asked(e.uid) \/ lost[e.uid]
         /\ pressed'[e.uid] # {}
         /\ Members(clicks') \subseteq Members(clicks)
<1>1. e.uid \in Uid /\ e.uid \in 1..last
  BY PressFacts
<1>2. e \in Members(clicks) /\ Members(clicks') \subseteq Members(clicks)
  BY HeadTail DEF Inv, TypeOK, Press, Take
<1>3. ask[e.uid]
  BY <1>2 DEF OriginInv
<1> QED
  BY <1>1, <1>2, <1>3, PressGrows DEF OriginInv

(* A handler that needs the origin message and changes no other entry.     *)
LEMMA NeedsOriginKept ==
  ASSUME Inv, OriginInv, Running, NEW e, Press(e), e.button \in AskButtons, NeedsOrigin(e.uid),
         UNCHANGED <<last, origin, ask, done, lost>>,
         \A n \in (1..last) \ {e.uid} : game'[n] = game[n],
         \A r \in requests' : r \in requests \/ r.op # "ask"
  PROVE  OriginInv'
<1>1. /\ e.uid \in 1..last /\ (origin[e.uid] \/ Asked(e.uid) \/ lost[e.uid]) /\ pressed'[e.uid] # {}
      /\ Members(clicks') \subseteq Members(clicks)
  BY PressAsked
<1>2. fault = "none"
  BY DEF Running
<1>3. OriginFaultHasCause'
  <2> SUFFICES ASSUME fault' = "origin"
               PROVE  \E n \in 1..last' :
                        pressed'[n] # {} /\ ~origin'[n] /\ (lost'[n] \/ Asked(n)')
    BY DEF OriginFaultHasCause, Asked
  <2>1. ~origin[e.uid]
    BY <1>2 DEF NeedsOrigin
  <2> QED
    BY <1>1, <2>1 DEF Asked
<1>4. fault' # "origin" => \A n \in 1..last' : Started(game'[n]) => origin'[n]
  <2> SUFFICES ASSUME fault' # "origin", NEW n \in 1..last, Started(game'[n])
               PROVE  origin[n]
    OBVIOUS
  <2>1. origin[e.uid]
    BY DEF NeedsOrigin
  <2>2. n # e.uid => Started(game[n])
    OBVIOUS
  <2> QED
    BY <1>2, <2>1, <2>2 DEF OriginInv
<1> QED
  BY <1>1, <1>3, <1>4 DEF OriginInv, Asked

(* A step that changes neither what is known of the origin messages nor    *)
(* whose game has started.                                                 *)
LEMMA OriginKept ==
  ASSUME Inv, OriginInv, Running, fault' # "origin",
         \A n \in Uid : ask'[n] => origin'[n] \/ Asked(n)' \/ lost'[n],
         \A n \in 1..last' : Started(game'[n]) => n \in 1..last /\ Started(game[n]),
         \A n \in 1..last : origin[n] => origin'[n],
         \A n \in Uid : ask[n] => ask'[n], last' >= last, last' \in Nat,
         \A e \in Members(clicks') : e \in Members(clicks) \/ (e.button \in AskButtons => ask'[e.uid]),
         \A r \in requests' : r \in requests \/ (r.op = "ask" => r.uid \in 1..last'),
         \A c \in Members(done') : c \in Members(done) \/ c.req \in requests
  PROVE  OriginInv'
<1>1. OriginFaultHasCause'
  BY DEF OriginFaultHasCause
<1>2. fault # "origin" /\ last \in Nat
  BY DEF Running, Inv, TypeOK
<1>3. \A n \in 1..last' : Started(game'[n]) => origin'[n]
  BY <1>2 DEF OriginInv
<1>4. \A e \in Members(clicks') : e.button \in AskButtons => ask'[e.uid]
  <2>1. \A e \in Members(clicks) : e.uid \in Uid
    <3>1. clicks \in Seq(ClickSet)
      BY DEF Inv, TypeOK
    <3>2. \A e \in ClickSet : e.uid \in Uid
      BY DEF ClickSet
    <3> QED
      BY <3>1, <3>2, MembersType
  <2> QED
    BY <2>1 DEF OriginInv
<1>5. \A r \in requests' : r.op = "ask" => r.uid \in 1..last'
  BY <1>2 DEF OriginInv
<1>6. \A c \in Members(done') : c.req.op = "ask" => c.req.uid \in 1..last'
  BY <1>2 DEF OriginInv
<1> QED
  BY <1>1, <1>3, <1>4, <1>5, <1>6 DEF OriginInv

(* A ttt command: its invitation is for a pushed entry. *)
LEMMA CommandOrigin ==
  ASSUME Inv, OriginInv, Running, NEW u \in Users, NEW m \in Users, TttCommand(u, m)
  PROVE  OriginInv'
<1>1. /\ last + 1 \in Uid /\ last' = last + 1 /\ last \in Nat /\ ~Started(game'[last + 1])
      /\ \A n \in Uid \ {last + 1} : game'[n] = game[n]
  BY CommandEntries DEF Inv, TypeOK
<1>2. UNCHANGED <<origin, fault, ask, clicks, done, lost>>
  BY DEF TttCommand, discord, history
<1>3. \A r \in requests' : r \in requests \/ (r.op = "ask" => r.uid \in 1..last')
  BY <1>1 DEF TttCommand, Post
<1>4. \A n \in 1..last' : Started(game'[n]) => n \in 1..last /\ Started(game[n])
  <2>1. \A n \in 1..last' : n = last + 1 \/ n \in 1..last
    BY <1>1
  <2> QED
    BY <1>1, <2>1, TurnsType
<1>5. \A n \in Uid : ask'[n] => origin'[n] \/ Asked(n)' \/ lost'[n]
  BY <1>2 DEF OriginInv, Asked
<1>6. fault' # "origin" /\ last' >= last /\ last' \in Nat
  BY <1>1, <1>2 DEF Running
<1> QED
  BY <1>1, <1>2, <1>3, <1>4, <1>5, <1>6, OriginKept

(* A click handled on a board, ignored, or the first YES. *)
LEMMA ClickOrigin ==
  ASSUME Inv, OriginInv, Running, NEW e, Take(e), UNCHANGED <<last, origin, fault, ask, done, lost>>,
         \A n \in 1..last : Started(game'[n]) => Started(game[n]),
         \A r \in requests' : r \in requests \/ r.op # "ask"
  PROVE  OriginInv'
<1>1. Members(clicks') \subseteq Members(clicks)
  BY HeadTail DEF Inv, TypeOK, Take
<1>2. \A n \in Uid : ask'[n] => origin'[n] \/ Asked(n)' \/ lost'[n]
  BY DEF OriginInv, Asked
<1>3. fault' # "origin" /\ last' >= last /\ last' \in Nat
  BY DEF Running, Inv, TypeOK
<1> QED
  BY <1>1, <1>2, <1>3, OriginKept

(* Every click that is handled keeps what is known of the origin messages. *)
LEMMA ButtonOrigin ==
  ASSUME Inv, OriginInv, OnButtonClick
  PROVE  OriginInv'
<1>1. Running
  BY DEF OnButtonClick
<1>2. ASSUME NEW e, FirstYes(e) PROVE OriginInv'
  BY <1>1, <1>2, ClickOrigin DEF FirstYes, Press, Post, discord, history
<1>3. ASSUME NEW e, IgnorePress(e) \/ RefuseCell(e) PROVE OriginInv'
  BY <1>1, <1>3, ClickOrigin DEF IgnorePress, RefuseCell, process, discord, history
<1>4. ASSUME NEW e, PlayCell(e) PROVE OriginInv'
  <2>1. \A n \in 1..last : Started(game'[n]) => Started(game[n])
    BY <1>4, PlayEntries, TurnsType
  <2> QED
    BY <1>1, <1>4, <2>1, ClickOrigin DEF PlayCell, Post, discord, history
<1>5. ASSUME NEW e, SecondYes(e) PROVE OriginInv'
  <2>1. Press(e) /\ e.button \in AskButtons /\ NeedsOrigin(e.uid)
        /\ UNCHANGED <<last, origin, ask, done, lost>>
    BY <1>5 DEF SecondYes, AskButtons, discord, history
  <2>2. \A n \in (1..last) \ {e.uid} : game'[n] = game[n]
    BY <1>5, TurnsType DEF SecondYes, Inv, TypeOK
  <2>3. \A r \in requests' : r \in requests \/ r.op # "ask"
    BY <1>5 DEF SecondYes, Post
  <2> QED
    BY <1>1, <2>1, <2>2, <2>3, NeedsOriginKept
<1>6. ASSUME NEW e, Decline(e) PROVE OriginInv'
  <2>1. Press(e) /\ e.button \in AskButtons /\ NeedsOrigin(e.uid)
        /\ UNCHANGED <<last, origin, ask, done, lost, game>>
    BY <1>6 DEF Decline, AskButtons, discord, history
  <2>2. \A r \in requests' : r \in requests \/ r.op # "ask"
    BY <1>6 DEF Decline, Post
  <2> QED
    BY <1>1, <2>1, <2>2, NeedsOriginKept
<1> QED
  BY <1>2, <1>3, <1>4, <1>5, <1>6 DEF OnButtonClick

(* A callback that is not that of the invitation. *)
LEMMA CallbackOrigin ==
  ASSUME Inv, OriginInv, Running, NEW c, NEW op, Complete(c, op), op # "ask",
         UNCHANGED <<last, game, origin, ask, clicks, lost>>, fault' # "origin",
         \A r \in requests' : r \in requests \/ r.op # "ask"
  PROVE  OriginInv'
<1>1. Members(done) = {c} \cup Members(done') /\ c.req.op # "ask"
  BY HeadOrTail DEF Inv, TypeOK, Complete
<1>2. \A n \in Uid : ask'[n] => origin'[n] \/ Asked(n)' \/ lost'[n]
  BY <1>1 DEF OriginInv, Asked
<1>3. last' >= last /\ last' \in Nat
  BY DEF Inv, TypeOK
<1> QED
  BY <1>1, <1>2, <1>3, OriginKept

(* set_origin: the message is known, or its entry has gone, and then its   *)
(* game was over.                                                          *)
LEMMA SetOriginOrigin ==
  ASSUME Inv, OriginInv, Running, NEW c, SetOrigin(c)
  PROVE  OriginInv'
<1> DEFINE k == c.req.uid
<1>1. /\ Complete(c, "ask") /\ UNCHANGED <<last, game, fault, ask, clicks, requests, lost>>
      /\ origin' = [origin EXCEPT ![k] = origin[k] \/ (c.ok /\ k \in live)]
  BY DEF SetOrigin, discord, history
<1>2. Members(done) = {c} \cup Members(done') /\ c.req.op = "ask" /\ k \in Uid
  BY <1>1, HeadOrTail, TakeDone DEF Inv, TypeOK, Complete
<1>3. k \in 1..last
  BY <1>2 DEF OriginInv
<1>4. k \notin live => origin[k]
  <2> SUFFICES ASSUME k \notin live PROVE origin[k]
    OBVIOUS
  <2>1. Over(game[k])
    BY <1>3 DEF Inv, EraseOnlyFinished, Finished
  <2> QED
    BY <1>2, <2>1, OverIsStarted DEF OriginInv, Running
<1>5. \A n \in Uid : origin'[n] = (origin[n] \/ (n = k /\ c.ok /\ k \in live))
  BY <1>1, <1>2 DEF Inv, TypeOK
<1>6. \A n \in Uid : ask'[n] => origin'[n] \/ Asked(n)' \/ lost'[n]
  <2> SUFFICES ASSUME NEW n \in Uid, ask[n], ~origin'[n], ~lost[n] PROVE Asked(n)'
    BY <1>1
  <2>1. ~origin[n] /\ Asked(n)
    BY <1>5 DEF OriginInv
  <2>2. PICK d \in Members(done) : d.req.op = "ask" /\ d.req.uid = n /\ d.ok
    BY <2>1 DEF Asked
  <2>3. d # c
    BY <1>4, <1>5, <2>1, <2>2
  <2> QED
    BY <1>2, <2>2, <2>3 DEF Asked
<1>7. /\ fault' # "origin" /\ last' >= last /\ last' \in Nat
      /\ \A n \in 1..last : origin[n] => origin'[n]
  BY <1>1, <1>5, TurnsType DEF Running, Inv, TypeOK
<1> QED
  BY <1>1, <1>2, <1>6, <1>7, OriginKept

(* Every callback keeps what is known of the origin messages; a result     *)
(* finds its own.                                                          *)
LEMMA RunCallbackOrigin ==
  ASSUME Inv, OriginInv, RunCallback
  PROVE  OriginInv'
<1>1. Running
  BY DEF RunCallback
<1>2. ASSUME NEW c, ReplySent(c) PROVE OriginInv'
  BY <1>1, <1>2, CallbackOrigin DEF ReplySent, Post, process, discord, history, Running
<1>3. ASSUME NEW c, StoreReply(c) PROVE OriginInv'
  BY <1>1, <1>3, CallbackOrigin DEF StoreReply, NeedsEntry, discord, history, Running
<1>4. ASSUME NEW c, ResultShown(c) PROVE OriginInv'
  BY <1>1, <1>4, CallbackOrigin DEF ResultShown, NeedsEntry, discord, history, Running
<1>5. ASSUME NEW c, MoveShown(c) PROVE OriginInv'
  <2>1. c.req.uid \in Uid
    BY <1>5, TakeDone DEF MoveShown, Inv
  <2>2. Announces(c) => origin[c.req.uid]
    BY <1>1, <2>1, OverIsStarted DEF Announces, OriginInv, Running
  <2>3. fault' # "origin"
    BY <1>1, <1>5, <2>2 DEF MoveShown, NeedsOrigin, Running
  <2> QED
    BY <1>1, <1>5, <2>3, CallbackOrigin DEF MoveShown, Post, discord, history
<1> QED
  BY <1>1, <1>2, <1>3, <1>4, <1>5, SetOriginOrigin DEF RunCallback

(* Discord sends an invitation together with its completion, or the answer *)
(* is lost.                                                                *)
LEMMA ServeOrigin ==
  ASSUME Inv, OriginInv, Running,
         NEW r \in requests, NEW made \in BOOLEAN, NEW ok \in BOOLEAN, Serve(r, made, ok)
  PROVE  OriginInv'
<1> DEFINE S == [req: RequestSet, ok: BOOLEAN]
           x == [req |-> r, ok |-> ok]
<1>1. x \in S /\ x.req = r /\ x.ok = ok /\ done \in Seq(S) /\ r \in RequestSet
  BY DEF Inv, TypeOK
<1>2. Members(Append(done, x)) = Members(done) \cup {x}
  <2> HIDE DEF S, x
  <2> QED
    BY <1>1, AppendMembers
<1>3. done' = IF r.op \in Awaited THEN Append(done, x) ELSE done
  BY DEF Serve
<1>4. /\ UNCHANGED <<last, game, origin, fault, clicks>> /\ requests' \subseteq requests
      /\ ask' = [ask EXCEPT ![r.uid] = ask[r.uid] \/ (made /\ r.op = "ask")]
  BY DEF Serve, process
<1> HIDE DEF S, x
<1>5. Members(done) \subseteq Members(done') /\ Members(done') \subseteq Members(done) \cup {x}
  BY <1>2, <1>3
<1>6. \A n \in Uid : ask'[n] = (ask[n] \/ (n = r.uid /\ made /\ r.op = "ask"))
  BY <1>1, <1>4, RequestFields DEF Inv, TypeOK
<1>7. \A n \in Uid : ask'[n] => origin'[n] \/ Asked(n)' \/ lost'[n]
  <2>1. \A n \in Uid : Asked(n) => Asked(n)'
    BY <1>5 DEF Asked
  <2>2. ok /\ r.op = "ask" => Asked(r.uid)'
    BY <1>1, <1>2, <1>3 DEF Asked, Awaited
  <2>3. /\ \A n \in Uid : lost[n] => lost'[n]
        /\ made /\ ~ok /\ r.op = "ask" => lost'[r.uid]
    BY <1>1, RequestFields DEF Serve, Inv, TypeOK
  <2> QED
    BY <1>4, <1>6, <2>1, <2>2, <2>3 DEF OriginInv
<1>8. \A c \in Members(done') : c \in Members(done) \/ c.req \in requests
  BY <1>1, <1>5
<1>9. fault' # "origin" /\ last' >= last /\ last' \in Nat /\ \A n \in Uid : ask[n] => ask'[n]
  BY <1>4, <1>6 DEF Running, Inv, TypeOK
<1> QED
  BY <1>4, <1>7, <1>8, <1>9, OriginKept

(* A click is added last, and one on an invitation is on one that is shown. *)
LEMMA UserClickAdds ==
  ASSUME UserClick
  PROVE  \E e \in ClickSet : clicks' = Append(clicks, e) /\ (e.button \in AskButtons => ask[e.uid])
<1>1. PICK u \in Users, n \in Uid : ClickAsk(u, n) \/ ClickBoard(u, n)
  BY DEF UserClick
<1>2. CASE ClickAsk(u, n)
  <2>1. PICK b \in AskButtons : clicks' = Append(clicks, [user |-> u, uid |-> n, button |-> b])
    BY <1>2 DEF ClickAsk, ClickButton
  <2> DEFINE d == [user |-> u, uid |-> n, button |-> b]
  <2>2. d \in ClickSet /\ d.uid = n
    BY <1>1 DEF ClickSet
  <2>3. ask[n]
    BY <1>2 DEF ClickAsk
  <2> QED
    BY <2>1, <2>2, <2>3
<1>3. CASE ClickBoard(u, n)
  <2>1. PICK c \in Aim[u] : clicks' = Append(clicks, [user |-> u, uid |-> n, button |-> "cell", cell |-> c])
    BY <1>3 DEF ClickBoard, ClickButton
  <2> DEFINE d == [user |-> u, uid |-> n, button |-> "cell", cell |-> c]
  <2>2. c \in Cells
    BY <2>1, BotAssumption
  <2>3. d \in ClickSet /\ d.button \notin AskButtons
    BY <1>1, <2>2 DEF ClickSet, AskButtons
  <2> QED
    BY <2>1, <2>3
<1> QED
  BY <1>1, <1>2, <1>3

(* Users click on invitations that were sent. *)
LEMMA UserClickOrigin ==
  ASSUME Inv, OriginInv, UserClick
  PROVE  OriginInv'
<1>1. /\ Running /\ UNCHANGED <<last, game, origin, fault, ask, requests, done, lost>>
  BY DEF UserClick, ClickAsk, ClickBoard, ClickButton, process, discord, history
<1>2. PICK e \in ClickSet : clicks' = Append(clicks, e) /\ (e.button \in AskButtons => ask[e.uid])
  BY UserClickAdds
<1>3. Members(clicks') = Members(clicks) \cup {e}
  <2>1. clicks \in Seq(ClickSet)
    BY DEF Inv, TypeOK
  <2> QED
    BY <1>2, <2>1, AppendMembers
<1>4. \A n \in Uid : ask'[n] => origin'[n] \/ Asked(n)' \/ lost'[n]
  BY <1>1 DEF OriginInv, Asked
<1>5. fault' # "origin" /\ last' >= last /\ last' \in Nat
  BY <1>1 DEF Running, Inv, TypeOK
<1> QED
  BY <1>1, <1>2, <1>3, <1>4, <1>5, OriginKept

(* No step loses track of an origin message. *)
LEMMA NextOrigin ==
  ASSUME Inv, OriginInv, [Next]_vars
  PROVE  OriginInv'
<1>1. CASE Command
  <2>1. PICK p \in Mentions : TttCommand(p[1], p[2])
    BY <1>1 DEF Command
  <2>2. p[1] \in Users /\ p[2] \in Users /\ Running
    BY <1>1, BotAssumption DEF Command
  <2> QED
    BY <2>1, <2>2, CommandOrigin
<1>2. CASE DiscordServes
  BY <1>2, ServeOrigin DEF DiscordServes
<1>3. CASE UNCHANGED vars
  BY <1>3 DEF vars, process, discord, history, OriginInv, OriginFaultHasCause, Asked
<1> QED
  BY <1>1, <1>2, <1>3, ButtonOrigin, RunCallbackOrigin, UserClickOrigin DEF Next

(* There is no invitation at the start. *)
LEMMA InitOrigin == Init => OriginInv
<1> SUFFICES ASSUME Init PROVE OriginInv
  OBVIOUS
<1>1. /\ requests = {} /\ last = 0 /\ fault = "none" /\ \A n \in Uid : ~ask[n]
      /\ Members(done) = {} /\ Members(clicks) = {}
  BY DEF Init, Members
<1> QED
  BY <1>1 DEF OriginInv, OriginFaultHasCause

(* OriginFaultHasCause: a press finds the origin message missing only when *)
(* it overtakes the callback of the invitation, or when the answer to the  *)
(* invitation was lost (main.cpp:205-217, tictactoe.hpp:121).              *)
THEOREM OriginFaultsHaveCauses == Spec => []OriginFaultHasCause
<1>1. Inv /\ OriginInv /\ [Next]_vars => OriginInv'
  BY NextOrigin
<1>2. OriginInv => OriginFaultHasCause
  BY DEF OriginInv
<1> QED
  BY <1>1, <1>2, InitOrigin, Invariant, PTL DEF Spec

-----------------------------------------------------------------------------
(* Who plays whom. *)

(* The challenges that main.cpp:130-151 lets through. *)
Challenges == {p \in Mentions : p[2] \notin Bots /\ p[1] # p[2]}

(* Everybody who plays in the channel plays with the same opponent. *)
OnePair == \A p, q \in Challenges : {p[1], p[2]} = {q[1], q[2]}

(* The players of an entry are those of a challenge. *)
PairInv ==
  \A n \in 1..last : \E p \in Challenges : game[n].p1 = p[1] /\ game[n].p2 = p[2]

(* Every step keeps the players of an entry. *)
LEMMA NextPairs ==
  ASSUME Inv, PairInv, [Next]_vars
  PROVE  PairInv'
<1>1. CASE Command
  <2>1. PICK p \in Mentions : TttCommand(p[1], p[2])
    BY <1>1 DEF Command
  <2>2. p[1] \in Users /\ p[2] \in Users /\ last \in Nat
    BY BotAssumption DEF Inv, TypeOK
  <2>3. /\ last + 1 \in Uid /\ last' = last + 1
        /\ \A n \in Uid \ {last + 1} : game'[n] = game[n]
    BY <2>1, <2>2, CommandEntries
  <2>4. game'[last + 1] = NewTtt(p[1], p[2]) /\ p \in Challenges
    BY <2>1, <2>3 DEF TttCommand, Inv, TypeOK, Challenges
  <2>5. game'[last + 1].p1 = p[1] /\ game'[last + 1].p2 = p[2]
    BY <2>2, <2>4, NewFields
  <2>6. \A n \in 1..last' : n = last + 1 \/ (n \in 1..last /\ game'[n] = game[n])
    <3>1. \A n \in 1..last' : n = last + 1 \/ (n \in 1..last /\ n # last + 1)
      BY <2>2, <2>3
    <3> QED
      BY <2>3, <3>1, TurnsType
  <2> QED
    BY <2>4, <2>5, <2>6 DEF PairInv
<1>2. CASE OnButtonClick \/ RunCallback \/ DiscordServes \/ UserClick
  <2>1. last' = last
    BY <1>2 DEF OnButtonClick, FirstYes, SecondYes, Decline, IgnorePress, PlayCell, RefuseCell,
                RunCallback, SetOrigin, ReplySent, StoreReply, MoveShown, ResultShown,
                DiscordServes, Serve, UserClick, ClickAsk, ClickBoard, ClickButton, process
  <2>2. \A n \in 1..last : game'[n].p1 = game[n].p1 /\ game'[n].p2 = game[n].p2
    BY <1>2, NextCounts DEF Next, Counts
  <2> QED
    BY <2>1, <2>2 DEF PairInv
<1>3. CASE UNCHANGED vars
  BY <1>3 DEF vars, process, PairInv
<1> QED
  BY <1>1, <1>2, <1>3 DEF Next

(* Nobody is turned away from an entry of theirs. *)
LEMMA NobodyTurnedAway ==
  ASSUME OnePair, Inv, PairInv, NEW u, NEW n \in live, IsPlayer(game[n], u), NEW k
  PROVE  ~TurnedAway(u, k)
<1> SUFFICES ASSUME NEW m \in live, ~IsPlayer(game[m], u) PROVE FALSE
  BY DEF TurnedAway
<1>1. m \in 1..last /\ n \in 1..last
  BY DEF Inv, TypeOK
<1>2. PICK p \in Challenges : game[m].p1 = p[1] /\ game[m].p2 = p[2]
  BY <1>1 DEF PairInv
<1>3. PICK q \in Challenges : game[n].p1 = q[1] /\ game[n].p2 = q[2]
  BY <1>1 DEF PairInv
<1>4. {p[1], p[2]} = {q[1], q[2]}
  BY DEF OnePair
<1> QED
  BY <1>2, <1>3, <1>4 DEF IsPlayer

-----------------------------------------------------------------------------
(* When no request fails, an ended game is announced and erased. *)

(* What is under way of an ended game.                                     *)
IsEnding(r, n) == r.uid = n /\ r.op \in MoveOps

(* Every update of a board is the first answer to its click, so none fails.*)
EndInv ==
  /\ \A r \in requests : r.op = "move" => r.first
  /\ \A c \in Members(done) : c.req.op \in MoveOps => c.ok
  /\ EndedIsOnItsWay

(* What keeps EndInv: what is added is in good order, and of an ended game *)
(* something stays under way, or the game is erased.                       *)
LEMMA EndStep ==
  ASSUME EndInv, Running,
         \A r \in requests' : r \in requests \/ (r.op = "move" => r.first),
         \A c \in Members(done') : c \in Members(done) \/ (c.req.op \in MoveOps => c.ok),
         \A n \in live' : Over(game'[n]) /\ fault' = "none" =>
           \/ \E r \in UnderWay' : IsEnding(r, n)
           \/ /\ n \in live /\ Over(game[n])
              /\ \A r \in UnderWay : IsEnding(r, n) => r \in UnderWay'
  PROVE  EndInv'
<1>1. EndedIsOnItsWay'
  <2> SUFFICES ASSUME NEW n \in live', Over(game'[n]), fault' = "none"
               PROVE  \E r \in UnderWay' : IsEnding(r, n)
    BY DEF EndedIsOnItsWay, IsEnding, MoveOps, Crashed
  <2>1. CASE /\ n \in live /\ Over(game[n])
             /\ \A r \in UnderWay : IsEnding(r, n) => r \in UnderWay'
    <3>1. PICK r \in UnderWay : IsEnding(r, n)
      BY <2>1 DEF EndInv, EndedIsOnItsWay, IsEnding, MoveOps, Crashed, Running
    <3> QED
      BY <2>1, <3>1
  <2> QED
    BY <2>1
<1> QED
  BY <1>1 DEF EndInv

(* Handlers that end no game. *)
LEMMA HandlerEnds ==
  ASSUME EndInv, Running, requests \subseteq requests', done' = done,
         \A r \in requests' : r \in requests \/ r.op # "move",
         \A n \in live' : Over(game'[n]) => n \in live /\ Over(game[n])
  PROVE  EndInv'
<1>1. UnderWay \subseteq UnderWay'
  BY DEF UnderWay
<1> QED
  BY <1>1, EndStep

(* A move: it is under way from now on, with the board as it is. *)
LEMMA PlayCellEnds ==
  ASSUME OnePair, Inv, PairInv, EndInv, Running, NEW e, PlayCell(e)
  PROVE  EndInv'
<1>1. /\ e.uid \in live /\ e.uid \in Uid /\ live' = live /\ done' = done
      /\ \A n \in Uid \ {e.uid} : game'[n] = game[n]
      /\ IsPlayer(game[e.uid], e.user)
  BY PlayEntries DEF PlayCell, CellCounts, Inv, TypeOK
<1>2. ~TurnedAway(e.user, MaxTtt)
  BY <1>1, NobodyTurnedAway
<1>3. PICK r : requests' = requests \cup {r} /\ r.op = "move" /\ r.uid = e.uid /\ r.first
  <2> DEFINE q == [op |-> "move", uid |-> e.uid, user |-> e.user, turns |-> game'[e.uid].turns,
                   first |-> ~TurnedAway(e.user, MaxTtt), view |-> Render(game'[e.uid])]
  <2>1. requests' = requests \cup {q} /\ q.op = "move" /\ q.uid = e.uid /\ q.first
    BY <1>2 DEF PlayCell, Post
  <2> HIDE DEF q
  <2> QED
    BY <2>1
<1>4. UnderWay \subseteq UnderWay' /\ r \in UnderWay' /\ IsEnding(r, e.uid)
  BY <1>1, <1>3 DEF UnderWay, IsEnding, MoveOps
<1>5. \A n \in live : n \in Uid
  BY TurnsType DEF Inv, TypeOK
<1> QED
  BY <1>1, <1>3, <1>4, <1>5, EndStep

(* Callbacks that have nothing to do with moves. *)
LEMMA CallbackEnds ==
  ASSUME Inv, EndInv, Running, NEW c, NEW op, op \notin MoveOps, Complete(c, op),
         UNCHANGED <<live, game>>, requests \subseteq requests',
         \A r \in requests' : r \in requests \/ r.op # "move"
  PROVE  EndInv'
<1>1. /\ Members(done') \subseteq Members(done) /\ c.req.op = op
      /\ \A r \in UnderWay : r \in UnderWay' \/ r = c.req
  BY CallbackUnderWay, TakeDone DEF Inv
<1>2. \A n : \A r \in UnderWay : IsEnding(r, n) => r \in UnderWay'
  BY <1>1 DEF IsEnding
<1> QED
  BY <1>1, <1>2, EndStep

(* The update of an ended game is followed by its result. *)
LEMMA MoveShownEnds ==
  ASSUME Inv, EndInv, Running, NEW c, MoveShown(c)
  PROVE  EndInv'
<1>1. /\ Complete(c, "move") /\ UNCHANGED <<live, game>>
      /\ requests \subseteq requests'
      /\ \A r \in requests' : r \in requests \/ r.op # "move"
  BY DEF MoveShown, Post
<1>2. /\ Members(done') \subseteq Members(done) /\ c.ok
      /\ \A r \in UnderWay : r \in UnderWay' \/ r = c.req
  BY <1>1, CallbackUnderWay, TakeDone DEF Inv, EndInv, MoveOps
<1>3. Over(game[c.req.uid]) => \E r \in UnderWay' : IsEnding(r, c.req.uid)
  <2> DEFINE q == [op |-> "result", uid |-> c.req.uid, user |-> c.req.user,
                   turns |-> c.req.turns, result |-> game[c.req.uid].result]
  <2>1. q.op = "result" /\ q.uid = c.req.uid
    OBVIOUS
  <2>2. Over(game[c.req.uid]) => requests' = requests \cup {q}
    BY <1>2 DEF MoveShown, Announces, Post
  <2> HIDE DEF q
  <2> QED
    BY <2>1, <2>2 DEF UnderWay, IsEnding, MoveOps
<1>4. \A n : \A r \in UnderWay : IsEnding(r, n) /\ n # c.req.uid => r \in UnderWay'
  BY <1>2 DEF IsEnding
<1> QED
  BY <1>1, <1>2, <1>3, <1>4, EndStep

(* The result is followed by the erasure. *)
LEMMA ResultShownEnds ==
  ASSUME Inv, EndInv, Running, NEW c, ResultShown(c)
  PROVE  EndInv'
<1>1. /\ Complete(c, "result") /\ UNCHANGED <<game, requests>>
  BY DEF ResultShown
<1>2. /\ Members(done') \subseteq Members(done) /\ c.ok
      /\ \A r \in UnderWay : r \in UnderWay' \/ r = c.req
  BY <1>1, CallbackUnderWay, TakeDone DEF Inv, EndInv, MoveOps
<1>3. fault' = "none" => live' = live \ {c.req.uid}
  BY <1>2 DEF ResultShown
<1>4. \A n : \A r \in UnderWay : IsEnding(r, n) /\ n # c.req.uid => r \in UnderWay'
  BY <1>2 DEF IsEnding
<1> QED
  BY <1>1, <1>2, <1>3, <1>4, EndStep

(* Discord carries out every update and every result. *)
LEMMA ServeEnds ==
  ASSUME ~Faulty, Inv, EndInv, Running,
         NEW r \in requests, NEW made \in BOOLEAN, NEW ok \in BOOLEAN, Serve(r, made, ok)
  PROVE  EndInv'
<1>1. requests' \subseteq requests /\ UNCHANGED <<live, game>> /\ (ok \/ ~CanSucceed(r))
  BY DEF Serve, process
<1>2. /\ \A c \in Members(done') : c \in Members(done) \/ (c.req = r /\ c.ok = ok)
      /\ \A q \in UnderWay : q \in UnderWay' \/ q = r
      /\ r.op \in Awaited => r \in UnderWay'
  BY ServeUnderWay DEF Inv
<1>3. r.op \in MoveOps => ok
  BY <1>1 DEF EndInv, CanSucceed, MoveOps
<1>4. \A n : \A q \in UnderWay : IsEnding(q, n) => q \in UnderWay'
  BY <1>2 DEF IsEnding, MoveOps, Awaited
<1> QED
  BY <1>1, <1>2, <1>3, <1>4, EndStep

(* No step forgets an ended game. *)
LEMMA NextEnds ==
  ASSUME ~Faulty, OnePair, Inv, PairInv, EndInv, [Next]_vars
  PROVE  EndInv'
<1>1. \A n \in live : n \in 1..last /\ n \in Uid /\ game[n] \in Ttt
  BY TurnsType DEF Inv, TypeOK
<1>2. CASE Command
  <2>1. PICK p \in Mentions : TttCommand(p[1], p[2])
    BY <1>2 DEF Command
  <2>2. p[1] \in Users /\ p[2] \in Users
    BY BotAssumption
  <2>3. /\ last + 1 \in Uid /\ game'[last + 1] = NewTtt(p[1], p[2])
        /\ \A n \in Uid \ {last + 1} : game'[n] = game[n]
    BY <2>1, <2>2, CommandEntries DEF TttCommand, Inv, TypeOK
  <2>4. ~Over(game'[last + 1])
    BY <2>2, <2>3, NewFields DEF Over
  <2>5. /\ Running /\ requests \subseteq requests' /\ done' = done
        /\ \A r \in requests' : r \in requests \/ r.op # "move"
        /\ live' = live \cup {last + 1}
    BY <1>2, <2>1 DEF Command, TttCommand, Post
  <2> QED
    BY <1>1, <2>3, <2>4, <2>5, HandlerEnds
<1>3. CASE OnButtonClick
  <2>1. PICK e : \/ FirstYes(e) \/ SecondYes(e) \/ Decline(e) \/ IgnorePress(e)
                 \/ PlayCell(e) \/ RefuseCell(e)
    BY <1>3 DEF OnButtonClick
  <2>2. Running
    BY <1>3 DEF OnButtonClick
  <2>3. CASE SecondYes(e)
    <3>1. /\ requests \subseteq requests' /\ done' = done /\ live' = live
          /\ \A r \in requests' : r \in requests \/ r.op # "move"
      BY <2>3 DEF SecondYes, Post
    <3>2. ~Over(game'[e.uid])
      BY <2>3, PressAndStart DEF SecondYes
    <3>3. \A n \in Uid : n # e.uid => game'[n] = game[n]
      BY <2>3 DEF SecondYes, Inv, TypeOK
    <3> QED
      BY <1>1, <2>2, <3>1, <3>2, <3>3, HandlerEnds
  <2>4. CASE FirstYes(e) \/ Decline(e) \/ IgnorePress(e) \/ RefuseCell(e)
    <3>1. /\ requests \subseteq requests' /\ UNCHANGED <<done, live, game>>
          /\ \A r \in requests' : r \in requests \/ r.op # "move"
      BY <2>4 DEF FirstYes, Decline, IgnorePress, RefuseCell, Post, process
    <3> QED
      BY <2>2, <3>1, HandlerEnds
  <2> QED
    BY <2>1, <2>2, <2>3, <2>4, PlayCellEnds
<1>4. CASE RunCallback
  <2>1. PICK c : SetOrigin(c) \/ ReplySent(c) \/ StoreReply(c) \/ MoveShown(c) \/ ResultShown(c)
    BY <1>4 DEF RunCallback
  <2>2. Running
    BY <1>4 DEF RunCallback
  <2>3. CASE SetOrigin(c) \/ ReplySent(c) \/ StoreReply(c)
    <3>1. /\ requests \subseteq requests' /\ UNCHANGED <<live, game>>
          /\ \A r \in requests' : r \in requests \/ r.op # "move"
      BY <2>3 DEF SetOrigin, ReplySent, StoreReply, Post, process
    <3>2. PICK op \in {"ask", "confirm", "fetch"} : Complete(c, op)
      BY <2>3 DEF SetOrigin, ReplySent, StoreReply
    <3>3. op \notin MoveOps
      BY DEF MoveOps
    <3> QED
      BY <2>2, <3>1, <3>2, <3>3, CallbackEnds
  <2> QED
    BY <2>1, <2>2, <2>3, MoveShownEnds, ResultShownEnds
<1>5. CASE DiscordServes
  BY <1>5, ServeEnds DEF DiscordServes
<1>6. CASE UserClick
  <2>1. Running /\ UNCHANGED <<requests, done, live, game>>
    BY <1>6 DEF UserClick, ClickAsk, ClickBoard, ClickButton, process
  <2> QED
    BY <2>1, HandlerEnds
<1>7. CASE UNCHANGED vars
  BY <1>7 DEF vars, process, EndInv, EndedIsOnItsWay, UnderWay, Members, Crashed
<1> QED
  BY <1>2, <1>3, <1>4, <1>5, <1>6, <1>7 DEF Next

(* Nothing has ended at the start. *)
LEMMA InitEnds == Init => EndInv
BY DEF Init, EndInv, EndedIsOnItsWay, Members

(* EndedIsOnItsWay: when no request fails and all entries are between the  *)
(* same two people, an ended game is never forgotten before it is erased,  *)
(* whatever overlaps (tictactoe.cpp:594-645).  The run `finished_stays'    *)
(* shows what other people's entries do.                                   *)
THEOREM EndedGamesGoOn ==
  ASSUME ~Faulty, OnePair
  PROVE  Spec => []EndedIsOnItsWay
<1>1. Init => PairInv
  BY DEF Init, PairInv
<1>2. Inv /\ PairInv /\ [Next]_vars => PairInv'
  BY NextPairs
<1>3. Inv /\ PairInv /\ EndInv /\ [Next]_vars => EndInv'
  BY NextEnds
<1>4. EndInv => EndedIsOnItsWay
  BY DEF EndInv
<1> QED
  BY <1>1, <1>2, <1>3, <1>4, InitEnds, Invariant, PTL DEF Spec
=============================================================================
