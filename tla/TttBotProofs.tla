---------------------------- MODULE TttBotProofs ----------------------------
(***************************************************************************)
(* Proofs about the bot, for any users, any number of ttt commands and of  *)
(* clicks under way, and any failures.                                     *)
(***************************************************************************)
EXTENDS TttBot, BoardProofs

-----------------------------------------------------------------------------
(* The inductive invariant. *)

Inv ==
  TypeOK /\ EntryInv /\ BothPressed /\ ResultInv /\ EraseOnlyFinished /\ ScreenIsPast

-----------------------------------------------------------------------------
(* Sequences. *)

(* Taking the head of a queue leaves a queue of the rest. *)
LEMMA HeadTail ==
  ASSUME NEW S, NEW s \in Seq(S), s # <<>>
  PROVE  /\ Head(s) \in S /\ Head(s) \in Members(s)
         /\ Tail(s) \in Seq(S) /\ Members(Tail(s)) \subseteq Members(s)
<1>1. Len(s) \in Nat \ {0} /\ \A i \in 1..Len(s) : s[i] \in S
  OBVIOUS
<1>2. Head(s) = s[1] /\ 1 \in 1..Len(s)
  BY <1>1
<1>3. Tail(s) \in Seq(S) /\ Len(Tail(s)) = Len(s) - 1
  BY <1>1
<1>4. \A i \in 1..Len(Tail(s)) : Tail(s)[i] = s[i + 1] /\ i + 1 \in 1..Len(s)
  BY <1>1, <1>3
<1> QED
  BY <1>1, <1>2, <1>3, <1>4 DEF Members

(* Appending to a queue adds one member. *)
LEMMA AppendMembers ==
  ASSUME NEW S, NEW s \in Seq(S), NEW x \in S
  PROVE  /\ Append(s, x) \in Seq(S)
         /\ Members(Append(s, x)) = Members(s) \cup {x}
<1>1. Append(s, x) \in Seq(S) /\ Len(Append(s, x)) = Len(s) + 1 /\ Len(s) \in Nat
  OBVIOUS
<1>2. \A i \in 1..Len(s) : Append(s, x)[i] = s[i]
  OBVIOUS
<1>3. Append(s, x)[Len(s) + 1] = x
  OBVIOUS
<1>4. 1..Len(s) + 1 = (1..Len(s)) \cup {Len(s) + 1}
  BY <1>1
<1> QED
  BY <1>1, <1>2, <1>3, <1>4 DEF Members

(* The members of a queue are of its type. *)
LEMMA MembersType ==
  ASSUME NEW S, NEW s \in Seq(S)
  PROVE  Members(s) \subseteq S
BY DEF Members

(* The oldest click is a click. *)
LEMMA TakeClick ==
  ASSUME TypeOK, NEW e, Take(e)
  PROVE  /\ e \in ClickSet /\ e.user \in Users /\ e.uid \in Uid
         /\ e.button = "cell" => e.cell \in Cells
         /\ clicks' \in Seq(ClickSet)
<1>1. e \in ClickSet /\ clicks' \in Seq(ClickSet)
  BY HeadTail DEF TypeOK, Take
<1>2. e.user \in Users /\ e.uid \in Uid
  BY <1>1 DEF ClickSet
<1>3. e.button = "cell" => e.cell \in Cells
  BY <1>1 DEF ClickSet, AskButtons
<1> QED
  BY <1>1, <1>2, <1>3

(* The oldest completion is a completion. *)
LEMMA TakeDone ==
  ASSUME TypeOK, NEW c, NEW op, Complete(c, op)
  PROVE  /\ c \in Members(done) /\ c.req \in RequestSet /\ c.req.uid \in Uid
         /\ c.ok \in BOOLEAN /\ c.req.op = op
         /\ done' \in Seq([req: RequestSet, ok: BOOLEAN])
         /\ Members(done') \subseteq Members(done)
<1>1. /\ c \in [req: RequestSet, ok: BOOLEAN] /\ c \in Members(done)
      /\ done' \in Seq([req: RequestSet, ok: BOOLEAN])
      /\ Members(done') \subseteq Members(done)
  BY HeadTail DEF TypeOK, Complete
<1>2. c.req \in RequestSet /\ c.ok \in BOOLEAN
  BY <1>1
<1>3. c.req.uid \in Uid
  BY <1>2 DEF RequestSet
<1> QED
  BY <1>1, <1>2, <1>3 DEF Complete
-----------------------------------------------------------------------------
(* What a step does to one ttt object: nothing is taken back. *)

Advances(g, h) ==
  /\ \A c \in Cells : g.board[c] # "IDLE" => h.board[c] = g.board[c]
  /\ g.won \subseteq h.won
  /\ Over(g) => h.result = g.result
  /\ Started(g) => Started(h)

(* A board that was shown rightly stays right when the game advances.      *)
LEMMA PastStays ==
  ASSUME NEW v \in View, NEW g, NEW h, Advances(g, h), IsPast(v, g)
  PROVE  IsPast(v, h)
BY DEF Advances, IsPast, Over, View, Statuses

(* What is rendered now is right now. *)
LEMMA RenderIsPast ==
  ASSUME NEW g \in Ttt
  PROVE  IsPast(Render(g), g) /\ Render(g) \in View
<1>1. Over(g) \in BOOLEAN
  BY DEF Over
<1>2. Render(g) \in View
  BY <1>1 DEF Render, View, Ttt
<1>3. IsPast(Render(g), g)
  BY <1>1 DEF Render, IsPast
<1> QED
  BY <1>2, <1>3

(* The object of an entry that was not pushed yet. *)
LEMMA NoTttFields ==
  /\ NoTtt.board = Empty /\ NoTtt.won = {} /\ NoTtt.result = "IN_PROGRESS"
  /\ NoTtt.turn = NoUser /\ Render(NoTtt) \in View
<1>1. Empty \in [Cells -> Statuses]
  BY DEF Empty, Statuses
<1> QED
  BY <1>1 DEF NoTtt, NewTtt, Render, View, Over

(* Pushing an entry. *)
LEMMA NewAdvances ==
  ASSUME NEW p1 \in Users, NEW p2 \in Users
  PROVE  Advances(NoTtt, NewTtt(p1, p2)) /\ ~Started(NewTtt(p1, p2))
<1>1. \A c \in Cells : Empty[c] = "IDLE"
  BY DEF Empty
<1> QED
  BY <1>1, NewFields, NoTttFields DEF Advances, Started, Over

(* Starting the game of an entry. *)
LEMMA InitAdvances ==
  ASSUME NEW p1 \in Users, NEW p2 \in Users, p1 # p2, NEW g, g = NewTtt(p1, p2)
  PROVE  /\ Good(InitGame(g)) /\ InitGame(g).p1 = p1 /\ InitGame(g).p2 = p2
         /\ Started(InitGame(g)) /\ ~Over(InitGame(g)) /\ ~Started(g) /\ ~Over(g)
         /\ Advances(g, InitGame(g))
<1>1. \A c \in Cells : Empty[c] = "IDLE"
  BY DEF Empty
<1>2. /\ g \in Ttt /\ g.p1 = p1 /\ g.p2 = p2 /\ g.turn = NoUser /\ g.board = Empty
      /\ g.won = {} /\ g.result = "IN_PROGRESS"
  BY NewFields
<1>3. /\ InitGame(g).p1 = p1 /\ InitGame(g).p2 = p2 /\ InitGame(g).turn = p1
      /\ InitGame(g).result = "IN_PROGRESS"
  BY <1>2, InitFields
<1>4. Good(InitGame(g))
  BY InitGood
<1> QED
  BY <1>1, <1>2, <1>3, <1>4, NoUserAssumption DEF Advances, Started, Over

(* Playing a square of a started game. *)
LEMMA PlayAdvances ==
  ASSUME NEW g, Good(g), NEW u, NEW c \in Cells, MayPlay(g, u, c)
  PROVE  /\ Good(Play(g, c)) /\ Play(g, c).p1 = g.p1 /\ Play(g, c).p2 = g.p2
         /\ Started(Play(g, c)) /\ Advances(g, Play(g, c))
<1>1. Good(Play(g, c))
  BY PlayGood
<1>2. Play(g, c).p1 = g.p1 /\ Play(g, c).p2 = g.p2
  BY PlayFields DEF Good
<1>3. Started(Play(g, c))
  BY <1>1, NoUserAssumption DEF Good, Ttt, Started
<1> QED
  BY <1>1, <1>2, <1>3, PlayIsPermanent DEF Advances
-----------------------------------------------------------------------------
(* What a step does to the entries. *)

(* The parts of the invariant that are about entries, after the step, and  *)
(* the link between their objects before and after it.                     *)
EntriesStep ==
  /\ last' \in 0..MaxTtt /\ last' >= last
  /\ game' \in [Uid -> Ttt \cup {NoTtt}] /\ pressed' \in [Uid -> SUBSET Users]
  /\ (\A n \in Uid : EntryTypeOK(n))'
  /\ EntryInv' /\ BothPressed'
  /\ \A n \in Uid : Advances(game[n], game'[n])

(* Entries that do not change. *)
LEMMA SameEntries ==
  ASSUME Inv, UNCHANGED <<last, game, pressed>>
  PROVE  EntriesStep
<1>1. \A n \in Uid : Advances(game[n], game'[n])
  BY DEF Advances
<1>2. last' \in 0..MaxTtt /\ last' >= last
  BY DEF Inv, TypeOK
<1>3. game' \in [Uid -> Ttt \cup {NoTtt}] /\ pressed' \in [Uid -> SUBSET Users]
  BY DEF Inv, TypeOK
<1>4. (\A n \in Uid : EntryTypeOK(n))' /\ EntryInv' /\ BothPressed'
  BY DEF Inv, TypeOK, EntryTypeOK, EntryInv, BothPressed
<1> QED
  BY <1>1, <1>2, <1>3, <1>4 DEF EntriesStep

(* A press that counts is a player's first, before the game.               *)
LEMMA PressFacts ==
  ASSUME Inv, NEW e, Press(e)
  PROVE  /\ e.user \in Users /\ e.uid \in Uid /\ e.uid \in 1..last /\ e.uid \in live
         /\ e.user \in {game[e.uid].p1, game[e.uid].p2}
         /\ e.user \notin pressed[e.uid] /\ ~Started(game[e.uid])
<1>1. e.user \in Users /\ e.uid \in Uid
  BY TakeClick DEF Inv, Press
<1>2. e.uid \in live /\ e.uid \in 1..last
  BY DEF Inv, TypeOK, Press, PressCounts
<1>3. IsPlayer(game[e.uid], e.user) /\ e.user \notin pressed[e.uid]
  BY <1>1, <1>2 DEF Press, PressCounts, TurnedAway, Uid
<1>4. ~Started(game[e.uid])
  BY <1>2, <1>3 DEF Inv, BothPressed, IsPlayer
<1> QED
  BY <1>1, <1>2, <1>3, <1>4 DEF IsPlayer

(* A press that starts no game. *)
LEMMA PressOnly ==
  ASSUME Inv, NEW e, Press(e), UNCHANGED <<last, game>>
  PROVE  EntriesStep
<1>1. \A n \in Uid : Advances(game[n], game'[n])
  BY DEF Advances
<1>2. last' \in 0..MaxTtt /\ last' >= last /\ game' \in [Uid -> Ttt \cup {NoTtt}]
  BY DEF Inv, TypeOK
<1>3. pressed' \in [Uid -> SUBSET Users]
  <2>1. e.user \in Users /\ e.uid \in Uid
    BY PressFacts
  <2>2. pressed \in [Uid -> SUBSET Users]
    BY DEF Inv, TypeOK
  <2>3. pressed[e.uid] \cup {e.user} \in SUBSET Users
    BY <2>1, <2>2
  <2>4. pressed' = [pressed EXCEPT ![e.uid] = pressed[e.uid] \cup {e.user}]
    BY DEF Press
  <2> QED
    BY <2>1, <2>2, <2>3, <2>4
<1>4. pressed' = [pressed EXCEPT ![e.uid] = @ \cup {e.user}]
  BY DEF Press
<1>5. ASSUME NEW n \in Uid PROVE EntryTypeOK(n)'
  BY <1>4, PressFacts DEF Inv, TypeOK, EntryTypeOK
<1>6. EntryInv'
  BY DEF Inv, EntryInv
<1>7. ASSUME NEW n \in 1..last', Started(game'[n])
      PROVE  pressed'[n] = {game'[n].p1, game'[n].p2}
  BY <1>4, <1>7, PressFacts DEF Inv, TypeOK, BothPressed
<1> QED
  BY <1>1, <1>2, <1>3, <1>5, <1>6, <1>7 DEF EntriesStep, BothPressed

(* The press that starts the game. *)
LEMMA PressAndStart ==
  ASSUME Inv, NEW e, Press(e), pressed[e.uid] # {}, UNCHANGED last,
         game' = [game EXCEPT ![e.uid] = InitGame(@)]
  PROVE  EntriesStep /\ ~Over(game[e.uid]) /\ ~Over(game'[e.uid]) /\ Started(game'[e.uid])
<1> DEFINE k == e.uid
           g == game[k]
<1>1. /\ e.user \in Users /\ k \in Uid /\ k \in 1..last /\ e.user \in {g.p1, g.p2}
      /\ e.user \notin pressed[k] /\ ~Started(g)
  BY PressFacts
<1>2. g \in Ttt /\ pressed[k] \subseteq {g.p1, g.p2}
  BY <1>1 DEF Inv, TypeOK, EntryTypeOK
<1>3. g.p1 \in Users /\ g.p2 \in Users /\ g.p1 # g.p2 /\ g = NewTtt(g.p1, g.p2)
  BY <1>1, <1>2 DEF Inv, EntryInv, Ttt
<1>4. /\ Good(InitGame(g)) /\ InitGame(g).p1 = g.p1 /\ InitGame(g).p2 = g.p2
      /\ Started(InitGame(g)) /\ ~Over(InitGame(g)) /\ ~Over(g)
      /\ Advances(g, InitGame(g))
  BY <1>3, InitAdvances
<1>5. /\ game' \in [Uid -> Ttt \cup {NoTtt}]
      /\ game'[k] = InitGame(g) /\ \A n \in Uid \ {k} : game'[n] = game[n]
  BY <1>1, <1>4 DEF Inv, TypeOK, Good
<1>6. /\ pressed' \in [Uid -> SUBSET Users]
      /\ pressed'[k] = pressed[k] \cup {e.user} /\ \A n \in Uid \ {k} : pressed'[n] = pressed[n]
  BY <1>1 DEF Inv, TypeOK, Press
<1>7. \A n \in Uid : Advances(game[n], game'[n])
  <2>1. \A n \in Uid \ {k} : Advances(game[n], game'[n])
    BY <1>5 DEF Advances
  <2> QED
    BY <1>4, <1>5, <2>1
<1>8. pressed'[k] = {g.p1, g.p2}
  BY <1>1, <1>2, <1>6
<1>9. last' \in 0..MaxTtt /\ last' >= last /\ 1..last \subseteq Uid
  BY BotAssumption DEF Inv, TypeOK, Uid
<1>10. ASSUME NEW n \in Uid PROVE EntryTypeOK(n)'
  <2>1. CASE n = k
    <3>1. game'[k] \in Ttt /\ pressed'[k] \subseteq {game'[k].p1, game'[k].p2}
      BY <1>4, <1>5, <1>8 DEF Good
    <3>2. k <= last'
      BY <1>1
    <3> QED
      BY <2>1, <3>1, <3>2 DEF EntryTypeOK
  <2>2. CASE n # k
    BY <1>5, <1>6, <2>2 DEF Inv, TypeOK, EntryTypeOK
  <2> QED
    BY <2>1, <2>2
<1>11. ASSUME NEW n \in 1..last'
       PROVE  /\ game'[n].p1 # game'[n].p2
              /\ IF Started(game'[n]) THEN Good(game'[n])
                                      ELSE game'[n] = NewTtt(game'[n].p1, game'[n].p2)
              /\ Started(game'[n]) => pressed'[n] = {game'[n].p1, game'[n].p2}
  <2>1. CASE n = k
    BY <1>3, <1>4, <1>5, <1>8, <2>1
  <2>2. CASE n # k
    BY <1>5, <1>6, <1>9, <2>2 DEF Inv, EntryInv, BothPressed
  <2> QED
    BY <2>1, <2>2
<1> QED
  <2>1. EntryInv' /\ BothPressed'
    BY <1>11 DEF EntryInv, BothPressed
  <2>2. EntriesStep
    BY <1>5, <1>6, <1>7, <1>9, <1>10, <2>1 DEF EntriesStep
  <2> QED
    BY <1>4, <1>5, <2>2
(* A played square. *)
LEMMA PlayEntries ==
  ASSUME Inv, NEW e, PlayCell(e)
  PROVE  /\ EntriesStep
         /\ e.user \in Users /\ e.uid \in Uid /\ e.uid \in 1..last /\ e.uid \in live
         /\ Started(game[e.uid]) /\ Started(game'[e.uid])
         /\ IsPlayer(game[e.uid], e.user)
         /\ game'[e.uid] \in Ttt /\ \A n \in Uid \ {e.uid} : game'[n] = game[n]
<1> DEFINE k == e.uid
           g == game[k]
           h == Play(g, e.cell)
<1>1. e.user \in Users /\ k \in Uid /\ e.cell \in Cells
  BY TakeClick DEF Inv, PlayCell
<1>2. k \in live /\ k \in 1..last /\ MayPlay(g, e.user, e.cell)
  BY DEF Inv, TypeOK, PlayCell, CellCounts
<1>3. Started(g)
  BY <1>1, <1>2, NoUserAssumption DEF MayPlay, Started
<1>4. Good(g)
  BY <1>2, <1>3 DEF Inv, EntryInv
<1>5. Good(h) /\ h.p1 = g.p1 /\ h.p2 = g.p2 /\ Started(h) /\ Advances(g, h)
  BY <1>1, <1>2, <1>4, PlayAdvances
<1>6. /\ game' \in [Uid -> Ttt \cup {NoTtt}]
      /\ game'[k] = h /\ \A n \in Uid \ {k} : game'[n] = game[n]
  BY <1>1, <1>5 DEF Inv, TypeOK, Good, PlayCell
<1>7. UNCHANGED <<last, live, pressed>>
  BY DEF PlayCell
<1>8. \A n \in Uid : Advances(game[n], game'[n])
  <2>1. \A n \in Uid \ {k} : Advances(game[n], game'[n])
    BY <1>6 DEF Advances
  <2> QED
    BY <1>5, <1>6, <2>1
<1>9. last' \in 0..MaxTtt /\ last' >= last /\ 1..last \subseteq Uid
  BY <1>7, BotAssumption DEF Inv, TypeOK, Uid
<1>10. ASSUME NEW n \in Uid PROVE EntryTypeOK(n)'
  <2>1. CASE n = k
    BY <1>1, <1>2, <1>5, <1>6, <1>7, <2>1 DEF Inv, TypeOK, EntryTypeOK, Good
  <2>2. CASE n # k
    BY <1>6, <1>7, <2>2 DEF Inv, TypeOK, EntryTypeOK
  <2> QED
    BY <2>1, <2>2
<1>11. ASSUME NEW n \in 1..last'
       PROVE  /\ game'[n].p1 # game'[n].p2
              /\ IF Started(game'[n]) THEN Good(game'[n])
                                      ELSE game'[n] = NewTtt(game'[n].p1, game'[n].p2)
              /\ Started(game'[n]) => pressed'[n] = {game'[n].p1, game'[n].p2}
  <2>1. CASE n = k
    BY <1>2, <1>3, <1>4, <1>5, <1>6, <1>7, <2>1 DEF Inv, BothPressed, Good
  <2>2. CASE n # k
    BY <1>6, <1>7, <1>9, <2>2 DEF Inv, EntryInv, BothPressed
  <2> QED
    BY <2>1, <2>2
<1>12. pressed' \in [Uid -> SUBSET Users]
  BY <1>7 DEF Inv, TypeOK
<1>13. EntryInv' /\ BothPressed'
  BY <1>11 DEF EntryInv, BothPressed
<1>14. EntriesStep
  BY <1>6, <1>8, <1>9, <1>10, <1>12, <1>13 DEF EntriesStep
<1>15. IsPlayer(g, e.user)
  BY <1>2, <1>4 DEF MayPlay, IsPlayer, Good
<1>16. game'[k] \in Ttt
  BY <1>5, <1>6 DEF Good
<1> QED
  BY <1>1, <1>2, <1>3, <1>5, <1>6, <1>14, <1>15, <1>16

(* A pushed entry. *)
LEMMA CommandEntries ==
  ASSUME Inv, NEW u \in Users, NEW m \in Users, TttCommand(u, m)
  PROVE  /\ EntriesStep
         /\ last + 1 \in Uid /\ last' = last + 1 /\ live' = live \cup {last + 1}
         /\ ~Started(game'[last + 1]) /\ ~Over(game'[last + 1])
         /\ \A n \in Uid \ {last + 1} : game'[n] = game[n]
<1> DEFINE k == last + 1
           h == NewTtt(u, m)
<1>1. k \in Uid /\ last' = k /\ last' \in 0..MaxTtt /\ last' >= last /\ last \in Nat
  BY BotAssumption DEF Inv, TypeOK, TttCommand, Uid
<1>2. u # m
  BY DEF TttCommand
<1>3. h \in Ttt /\ h.p1 = u /\ h.p2 = m /\ h.result = "IN_PROGRESS"
  BY NewFields
<1>4. Advances(NoTtt, h) /\ ~Started(h)
  BY NewAdvances
<1>5. /\ game' \in [Uid -> Ttt \cup {NoTtt}]
      /\ game'[k] = h /\ \A n \in Uid \ {k} : game'[n] = game[n]
  BY <1>1, <1>3 DEF Inv, TypeOK, TttCommand
<1>6. pressed' = pressed /\ pressed' \in [Uid -> SUBSET Users]
  BY DEF Inv, TypeOK, TttCommand
<1>7. game[k] = NoTtt /\ pressed[k] = {}
  BY <1>1 DEF Inv, TypeOK, EntryTypeOK
<1>8. \A n \in Uid : Advances(game[n], game'[n])
  <2>1. \A n \in Uid \ {k} : Advances(game[n], game'[n])
    BY <1>5 DEF Advances
  <2> QED
    BY <1>4, <1>5, <1>7, <2>1
<1>9. ASSUME NEW n \in Uid PROVE EntryTypeOK(n)'
  <2>1. CASE n = k
    BY <1>1, <1>3, <1>5, <1>6, <1>7, <2>1 DEF EntryTypeOK
  <2>2. CASE n # k
    BY <1>1, <1>5, <1>6, <2>2 DEF Inv, TypeOK, EntryTypeOK, Uid
  <2> QED
    BY <2>1, <2>2
<1>10. ASSUME NEW n \in 1..last'
       PROVE  /\ game'[n].p1 # game'[n].p2
              /\ IF Started(game'[n]) THEN Good(game'[n])
                                      ELSE game'[n] = NewTtt(game'[n].p1, game'[n].p2)
              /\ Started(game'[n]) => pressed'[n] = {game'[n].p1, game'[n].p2}
  <2>1. CASE n = k
    BY <1>2, <1>3, <1>4, <1>5, <2>1
  <2>2. CASE n # k
    <3>1. n \in 1..last /\ n \in Uid
      BY <1>1, <2>2, BotAssumption DEF Uid
    <3> QED
      BY <1>5, <1>6, <2>2, <3>1 DEF Inv, EntryInv, BothPressed
  <2> QED
    BY <2>1, <2>2
<1>11. EntryInv' /\ BothPressed'
  BY <1>10 DEF EntryInv, BothPressed
<1>12. EntriesStep
  BY <1>1, <1>5, <1>6, <1>8, <1>9, <1>11 DEF EntriesStep
<1>13. live' = live \cup {k}
  BY DEF TttCommand
<1>14. ~Started(game'[k]) /\ ~Over(game'[k])
  BY <1>3, <1>4, <1>5 DEF Over
<1> QED
  BY <1>1, <1>5, <1>12, <1>13, <1>14
(* Every step keeps the parts of the invariant that are about entries.     *)
LEMMA NextEntries ==
  ASSUME Inv, Next
  PROVE  EntriesStep
<1>1. CASE Command
  <2>1. PICK p \in Mentions : TttCommand(p[1], p[2])
    BY <1>1 DEF Command
  <2>2. p[1] \in Users /\ p[2] \in Users
    BY BotAssumption
  <2> QED
    BY <2>1, <2>2, CommandEntries
<1>2. CASE OnButtonClick
  <2>1. ASSUME NEW e, FirstYes(e) PROVE EntriesStep
    BY <2>1, PressOnly DEF FirstYes
  <2>2. ASSUME NEW e, SecondYes(e) PROVE EntriesStep
    BY <2>2, PressAndStart DEF SecondYes
  <2>3. ASSUME NEW e, Decline(e) PROVE EntriesStep
    BY <2>3, PressOnly DEF Decline
  <2>4. ASSUME NEW e, IgnorePress(e) PROVE EntriesStep
    BY <2>4, SameEntries DEF IgnorePress, process
  <2>5. ASSUME NEW e, PlayCell(e) PROVE EntriesStep
    BY <2>5, PlayEntries
  <2>6. ASSUME NEW e, RefuseCell(e) PROVE EntriesStep
    BY <2>6, SameEntries DEF RefuseCell, process
  <2> QED
    BY <1>2, <2>1, <2>2, <2>3, <2>4, <2>5, <2>6 DEF OnButtonClick
<1>3. CASE RunCallback
  <2>1. UNCHANGED <<last, game, pressed>>
    BY <1>3 DEF RunCallback, SetOrigin, ReplySent, StoreReply, MoveShown, ResultShown, process
  <2> QED
    BY <2>1, SameEntries
<1>4. CASE DiscordServes
  BY <1>4, SameEntries DEF DiscordServes, Serve, process
<1>5. CASE UserClick
  BY <1>5, SameEntries DEF UserClick, ClickAsk, ClickBoard, ClickButton, process
<1> QED
  BY <1>1, <1>2, <1>3, <1>4, <1>5 DEF Next

-----------------------------------------------------------------------------
(* Types of what a step posts and stores. *)

(* A handler that posts r and keeps the rest of what it shares. *)
LEMMA PostType ==
  ASSUME Inv, NEW r \in RequestSet, Post(r), UNCHANGED announced
  PROVE  requests' \cup announced' \subseteq RequestSet
BY DEF Inv, TypeOK, Post

(* What a request carries. *)
LEMMA RequestFields ==
  ASSUME NEW r \in RequestSet
  PROVE  /\ r.uid \in Uid
         /\ r.op \in {"deploy", "move"} => r.view \in View
         /\ r.op \in {"confirm", "fetch"} => r.warned \in BOOLEAN
         /\ r.op = "deploy" => r.known \in BOOLEAN
         /\ r.op = "move" => r.user \in Users /\ r.turns \in Nat /\ r.first \in BOOLEAN
         /\ r.op = "result" => r.user \in Users /\ r.result \in Results
BY DEF RequestSet
-----------------------------------------------------------------------------
(* The type invariant. *)

(* One lemma per action: every variable keeps its type. The command first. *)
LEMMA CommandType ==
  ASSUME Inv, NEW u \in Users, NEW m \in Users, TttCommand(u, m)
  PROVE  TypeOK'
<1>1. EntriesStep /\ last + 1 \in Uid /\ last' = last + 1 /\ live' = live \cup {last + 1}
  BY CommandEntries
<1>2. live' \subseteq 1..last'
  BY <1>1 DEF Inv, TypeOK
<1>3. requests' \cup announced' \subseteq RequestSet
  BY <1>1, PostType DEF TttCommand, RequestSet, discord
<1> QED
  BY <1>1, <1>2, <1>3 DEF EntriesStep, Inv, TypeOK, TttCommand, discord, history

(* The types are kept by the first YES (tictactoe.cpp:414). *)
LEMMA FirstYesType == ASSUME Inv, NEW e, FirstYes(e) PROVE TypeOK'
<1>1. EntriesStep
  BY PressOnly DEF FirstYes
<1>2. e.uid \in Uid /\ clicks' \in Seq(ClickSet)
  BY TakeClick DEF Inv, FirstYes, Press
<1>3. requests' \cup announced' \subseteq RequestSet
  <2>1. TurnedAway(e.user, MaxTtt) \in BOOLEAN
    BY DEF TurnedAway
  <2>2. [op |-> "confirm", uid |-> e.uid, warned |-> TurnedAway(e.user, MaxTtt)] \in RequestSet
    BY <1>2, <2>1 DEF RequestSet
  <2> QED
    BY <2>2, PostType DEF FirstYes, discord
<1> QED
  BY <1>1, <1>2, <1>3 DEF EntriesStep, Inv, TypeOK, FirstYes, discord, history

(* The types are kept by the second YES (tictactoe.cpp:442). *)
LEMMA SecondYesType == ASSUME Inv, NEW e, SecondYes(e) PROVE TypeOK'
<1>1. EntriesStep
  BY PressAndStart DEF SecondYes
<1>2. e.uid \in Uid /\ clicks' \in Seq(ClickSet) /\ e.uid \in 1..last
  BY TakeClick, PressFacts DEF Inv, SecondYes, Press
<1>3. InitGame(game[e.uid]) \in Ttt /\ game'[e.uid] = InitGame(game[e.uid])
  <2>1. game'[e.uid] = InitGame(game[e.uid]) /\ game' \in [Uid -> Ttt \cup {NoTtt}]
    BY <1>1, <1>2 DEF EntriesStep, Inv, TypeOK, SecondYes
  <2>2. EntryTypeOK(e.uid)' /\ e.uid <= last'
    BY <1>1, <1>2 DEF EntriesStep, SecondYes
  <2> QED
    BY <2>1, <2>2 DEF EntryTypeOK
<1>4. Render(InitGame(game[e.uid])) \in View
  BY <1>3, RenderIsPast
<1>5. replied[e.uid] \in BOOLEAN
  BY <1>2 DEF Inv, TypeOK
<1>6. requests' \cup announced' \subseteq RequestSet
  BY <1>2, <1>4, <1>5, PostType DEF SecondYes, RequestSet, discord
<1>7. fault' \in Faults
  BY DEF Inv, TypeOK, SecondYes, NeedsOrigin, Faults
<1> QED
  BY <1>1, <1>2, <1>6, <1>7 DEF EntriesStep, Inv, TypeOK, SecondYes, discord, history

(* The types are kept by a Nah (tictactoe.cpp:492). *)
LEMMA DeclineType == ASSUME Inv, NEW e, Decline(e) PROVE TypeOK'
<1>1. EntriesStep
  BY PressOnly DEF Decline
<1>2. e.uid \in Uid /\ clicks' \in Seq(ClickSet)
  BY TakeClick DEF Inv, Decline, Press
<1>3. requests' \cup announced' \subseteq RequestSet
  <2>1. CASE replied[e.uid]
    BY <1>2, <2>1, PostType DEF Decline, RequestSet, discord
  <2>2. CASE ~replied[e.uid]
    BY <2>2 DEF Inv, TypeOK, Decline, discord
  <2> QED
    BY <2>1, <2>2
<1>4. fault' \in Faults
  BY DEF Inv, TypeOK, Decline, NeedsOrigin, Faults
<1>5. declined' \in [Uid -> BOOLEAN]
  BY <1>2 DEF Inv, TypeOK, Decline
<1> QED
  BY <1>1, <1>2, <1>3, <1>4, <1>5 DEF EntriesStep, Inv, TypeOK, Decline, discord, history

(* A click that changes nothing keeps every type. *)
LEMMA IgnoredType ==
  ASSUME Inv, NEW e, IgnorePress(e) \/ RefuseCell(e)
  PROVE  TypeOK'
<1>1. EntriesStep
  BY SameEntries DEF IgnorePress, RefuseCell, process
<1>2. clicks' \in Seq(ClickSet)
  BY TakeClick DEF Inv, IgnorePress, RefuseCell
<1> QED
  BY <1>1, <1>2 DEF EntriesStep, Inv, TypeOK, IgnorePress, RefuseCell, process, discord, history

(* The types are kept by a move on the board (tictactoe.cpp:576). *)
LEMMA PlayCellType == ASSUME Inv, NEW e, PlayCell(e) PROVE TypeOK'
<1>1. EntriesStep /\ e.user \in Users /\ e.uid \in Uid /\ game'[e.uid] \in Ttt
  BY PlayEntries
<1>2. clicks' \in Seq(ClickSet)
  BY TakeClick DEF Inv, PlayCell
<1>3. Render(game'[e.uid]) \in View /\ game'[e.uid].turns \in Nat
  BY <1>1, RenderIsPast DEF Ttt
<1>4. (~TurnedAway(e.user, MaxTtt)) \in BOOLEAN
  OBVIOUS
<1>5. [op |-> "move", uid |-> e.uid, user |-> e.user, turns |-> game'[e.uid].turns,
       first |-> ~TurnedAway(e.user, MaxTtt), view |-> Render(game'[e.uid])] \in RequestSet
  BY <1>1, <1>3, <1>4 DEF RequestSet
<1>6. requests' \cup announced' \subseteq RequestSet
  BY <1>5, PostType DEF PlayCell, discord
<1> QED
  BY <1>1, <1>2, <1>6 DEF EntriesStep, Inv, TypeOK, PlayCell, discord, history

(* The types are kept by set_origin. *)
LEMMA SetOriginType == ASSUME Inv, NEW c, SetOrigin(c) PROVE TypeOK'
<1>1. EntriesStep
  BY SameEntries DEF SetOrigin
<1>2. c.req.uid \in Uid /\ done' \in Seq([req: RequestSet, ok: BOOLEAN])
  BY TakeDone DEF Inv, SetOrigin
<1>3. origin' \in [Uid -> BOOLEAN]
  BY <1>2 DEF Inv, TypeOK, SetOrigin
<1> QED
  BY <1>1, <1>2, <1>3 DEF EntriesStep, Inv, TypeOK, SetOrigin, discord, history

(* The types are kept by the callback of (1/2). *)
LEMMA ReplySentType == ASSUME Inv, NEW c, ReplySent(c) PROVE TypeOK'
<1>1. EntriesStep
  BY SameEntries DEF ReplySent, process
<1>2. c.req.uid \in Uid /\ done' \in Seq([req: RequestSet, ok: BOOLEAN])
  BY TakeDone DEF Inv, ReplySent
<1>3. requests' \cup announced' \subseteq RequestSet
  <2>1. c.req.warned \in BOOLEAN
    BY TakeDone, RequestFields DEF Inv, ReplySent
  <2>2. [op |-> "fetch", uid |-> c.req.uid, warned |-> c.req.warned] \in RequestSet
    BY <1>2, <2>1 DEF RequestSet
  <2> QED
    BY <2>2, PostType DEF ReplySent, discord
<1> QED
  BY <1>1, <1>2, <1>3 DEF EntriesStep, Inv, TypeOK, ReplySent, process, discord, history

(* The types are kept by the callback of get_original_response. *)
LEMMA StoreReplyType == ASSUME Inv, NEW c, StoreReply(c) PROVE TypeOK'
<1>1. EntriesStep
  BY SameEntries DEF StoreReply
<1>2. c.req.uid \in Uid /\ done' \in Seq([req: RequestSet, ok: BOOLEAN])
  BY TakeDone DEF Inv, StoreReply
<1>3. fault' \in Faults /\ replied' \in [Uid -> BOOLEAN]
  BY <1>2 DEF Inv, TypeOK, StoreReply, NeedsEntry, Faults
<1> QED
  BY <1>1, <1>2, <1>3 DEF EntriesStep, Inv, TypeOK, StoreReply, discord, history

(* The types are kept by the callback of a move. *)
LEMMA MoveShownType == ASSUME Inv, NEW c, MoveShown(c) PROVE TypeOK'
<1>1. EntriesStep
  BY SameEntries DEF MoveShown
<1>2. /\ c.req \in RequestSet /\ c.req.uid \in Uid /\ c.req.op = "move"
      /\ done' \in Seq([req: RequestSet, ok: BOOLEAN])
  BY TakeDone DEF Inv, MoveShown
<1>3. c.req.user \in Users /\ c.req.turns \in Nat
  BY <1>2, RequestFields
<1>4. game[c.req.uid].result \in Results
  BY <1>2, NoTttFields DEF Inv, TypeOK, Ttt, Results
<1>5. requests' \cup announced' \subseteq RequestSet
  <2>1. CASE Announces(c)
    <3>1. [op |-> "result", uid |-> c.req.uid, user |-> c.req.user, turns |-> c.req.turns,
           result |-> game[c.req.uid].result] \in RequestSet
      BY <1>2, <1>3, <1>4 DEF RequestSet
    <3> QED
      BY <2>1, <3>1, PostType DEF MoveShown, discord
  <2>2. CASE ~Announces(c)
    BY <2>2 DEF Inv, TypeOK, MoveShown, discord
  <2> QED
    BY <2>1, <2>2
<1>6. fault' \in Faults
  BY DEF Inv, TypeOK, MoveShown, NeedsOrigin, Faults
<1> QED
  BY <1>1, <1>2, <1>5, <1>6 DEF EntriesStep, Inv, TypeOK, MoveShown, discord, history

(* The types are kept by the callback of a result. *)
LEMMA ResultShownType == ASSUME Inv, NEW c, ResultShown(c) PROVE TypeOK'
<1>1. EntriesStep
  BY SameEntries DEF ResultShown
<1>2. done' \in Seq([req: RequestSet, ok: BOOLEAN])
  BY TakeDone DEF Inv, ResultShown
<1>3. fault' \in Faults /\ live' \subseteq live
  BY DEF Inv, TypeOK, ResultShown, NeedsEntry, Faults
<1>4. live' \subseteq 1..last'
  BY <1>3 DEF Inv, TypeOK, ResultShown
<1> QED
  BY <1>1, <1>2, <1>3, <1>4 DEF EntriesStep, Inv, TypeOK, ResultShown, discord, history

(* What Discord does keeps every type. *)
LEMMA ServeType ==
  ASSUME Inv,
         NEW r \in requests, NEW made \in BOOLEAN, NEW ok \in BOOLEAN, Serve(r, made, ok)
  PROVE  TypeOK'
<1>1. EntriesStep
  BY SameEntries DEF Serve, process
<1>2. r \in RequestSet /\ r.uid \in Uid /\ (r.op \in {"deploy", "move"} => r.view \in View)
  BY RequestFields DEF Inv, TypeOK
<1>3. requests' \cup announced' \subseteq RequestSet
  BY <1>2 DEF Inv, TypeOK, Serve
<1>4. done' \in Seq([req: RequestSet, ok: BOOLEAN])
  BY <1>2, AppendMembers DEF Inv, TypeOK, Serve
<1>8. lost' \in [Uid -> BOOLEAN]
  BY <1>2 DEF Inv, TypeOK, Serve
<1>5. ask' \in [Uid -> BOOLEAN]
  BY <1>2 DEF Inv, TypeOK, Serve
<1>6. screen' \in [Uid -> View]
  BY <1>2 DEF Inv, TypeOK, Serve
<1>7. reply' \in [Uid -> {"none", "shown", "board", "deleted"}]
  <2>1. r.op \in DOMAIN NewReply => NewReply[r.op] \in {"none", "shown", "board", "deleted"}
    BY DEF NewReply
  <2> QED
    BY <1>2, <2>1 DEF Inv, TypeOK, Serve
<1> QED
  BY <1>1, <1>3, <1>4, <1>5, <1>6, <1>7, <1>8 DEF EntriesStep, Inv, TypeOK, Serve, process

(* The types are kept by a click. *)
LEMMA UserClickType == ASSUME Inv, UserClick PROVE TypeOK'
<1>1. EntriesStep
  BY SameEntries DEF UserClick, ClickAsk, ClickBoard, ClickButton, process
<1>2. PICK u \in Users, n \in Uid : ClickAsk(u, n) \/ ClickBoard(u, n)
  BY DEF UserClick
<1>3. clicks' \in Seq(ClickSet)
  <2>1. CASE ClickAsk(u, n)
    <3>1. PICK b \in AskButtons : clicks' = Append(clicks, [user |-> u, uid |-> n, button |-> b])
      BY <2>1 DEF ClickAsk, ClickButton
    <3>2. [user |-> u, uid |-> n, button |-> b] \in ClickSet
      BY <1>2 DEF ClickSet
    <3> QED
      BY <3>1, <3>2, AppendMembers DEF Inv, TypeOK
  <2>2. CASE ClickBoard(u, n)
    <3>1. PICK c \in Aim[u] : clicks' = Append(clicks, [user |-> u, uid |-> n, button |-> "cell", cell |-> c])
      BY <2>2 DEF ClickBoard, ClickButton
    <3>2. c \in Cells
      BY <3>1, BotAssumption
    <3>3. [user |-> u, uid |-> n, button |-> "cell", cell |-> c] \in ClickSet
      BY <1>2, <3>2 DEF ClickSet
    <3> QED
      BY <3>1, <3>3, AppendMembers DEF Inv, TypeOK
  <2> QED
    BY <1>2, <2>1, <2>2
<1> QED
  BY <1>1, <1>3 DEF EntriesStep, Inv, TypeOK, UserClick, ClickAsk, ClickBoard, ClickButton,
                    process, discord, history
(* Every step keeps every type. *)
LEMMA NextType == ASSUME Inv, Next PROVE TypeOK'
<1>1. CASE Command
  <2>1. PICK p \in Mentions : TttCommand(p[1], p[2])
    BY <1>1 DEF Command
  <2>2. p[1] \in Users /\ p[2] \in Users
    BY BotAssumption
  <2> QED
    BY <2>1, <2>2, CommandType
<1>2. CASE OnButtonClick
  BY <1>2, FirstYesType, SecondYesType, DeclineType, IgnoredType, PlayCellType
     DEF OnButtonClick
<1>3. CASE RunCallback
  BY <1>3, SetOriginType, ReplySentType, StoreReplyType, MoveShownType, ResultShownType
     DEF RunCallback
<1>4. CASE DiscordServes
  BY <1>4, ServeType DEF DiscordServes
<1>5. CASE UserClick
  BY <1>5, UserClickType
<1> QED
  BY <1>1, <1>2, <1>3, <1>4, <1>5 DEF Next

-----------------------------------------------------------------------------
(* Results, erasures and screens: what is enough for one step. *)

(* What is final stays final. *)
LEMMA FinalStays ==
  ASSUME EntriesStep, NEW r \in RequestSet, IsFinal(r)
  PROVE  IsFinal(r)'
<1>1. Advances(game[r.uid], game'[r.uid])
  BY RequestFields DEF EntriesStep
<1> QED
  BY <1>1 DEF IsFinal, Advances, Over

(* Results stay final when entries only move forward. *)
LEMMA ResultStep ==
  ASSUME Inv, EntriesStep, announced \subseteq announced',
         \A r \in requests' \cup announced' : r \in requests \cup announced \/ IsFinal(r)',
         \A c \in Members(done') :
           c \in Members(done) \/ (c.ok /\ c.req.op = "result" => c.req \in announced')
  PROVE  ResultInv'
<1>1. ASSUME NEW r \in requests' \cup announced' PROVE IsFinal(r)'
  <2>1. CASE r \in requests \cup announced
    BY <2>1, FinalStays DEF Inv, ResultInv, TypeOK
  <2> QED
    BY <2>1
<1>2. ASSUME NEW c \in Members(done'), c.ok, c.req.op = "result"
      PROVE  c.req \in announced'
  BY <1>2 DEF Inv, ResultInv
<1> QED
  BY <1>1, <1>2 DEF ResultInv

(* Erased entries stay finished and announced. *)
LEMMA EraseStep ==
  ASSUME Inv, EntriesStep, announced \subseteq announced',
         \A n \in (1..last') \ live' :
           \/ n \in (1..last) \ live
           \/ n \in 1..last /\ \E a \in announced : a.uid = n /\ a.op = "result"
  PROVE  EraseOnlyFinished'
<1>1. ASSUME NEW n \in (1..last') \ live'
      PROVE  /\ n \in 1..last /\ Over(game[n])
             /\ \E a \in announced : a.uid = n /\ a.result = game[n].result
  <2>1. CASE n \in (1..last) \ live
    BY <2>1 DEF Inv, EraseOnlyFinished, Finished
  <2>2. CASE n \in 1..last /\ \E a \in announced : a.uid = n /\ a.op = "result"
    BY <2>2 DEF Inv, ResultInv, IsFinal
  <2> QED
    BY <2>1, <2>2
<1>2. ASSUME NEW n \in (1..last') \ live'
      PROVE  n \in 1..last' /\ Over(game'[n]) /\ game'[n].result = game[n].result
  <2>1. n \in Uid
    BY <1>1, BotAssumption DEF Inv, TypeOK, Uid
  <2> QED
    BY <1>1, <2>1 DEF EntriesStep, Advances, Over
<1> QED
  BY <1>1, <1>2 DEF EraseOnlyFinished, Finished

(* What was shown or sent stays a past of its game. *)
LEMMA ScreenStep ==
  ASSUME Inv, EntriesStep,
         \A n \in Uid : reply'[n] = "board" =>
           \/ reply[n] = "board" /\ screen'[n] = screen[n]
           \/ \E r \in requests : r.op \in {"deploy", "move"} /\ r.uid = n /\ screen'[n] = r.view,
         \A r \in requests' : r.op \in {"deploy", "move"} =>
           r \in requests \/ IsPast(r.view, game'[r.uid])
  PROVE  ScreenIsPast'
<1>1. ASSUME NEW r \in requests, r.op \in {"deploy", "move"}
      PROVE  IsPast(r.view, game'[r.uid])
  <2>1. r.uid \in Uid /\ r.view \in View
    BY <1>1, RequestFields DEF Inv, TypeOK
  <2> QED
    BY <1>1, <2>1, PastStays DEF Inv, ScreenIsPast, EntriesStep
<1>2. ASSUME NEW n \in Uid, reply'[n] = "board"
      PROVE  IsPast(screen'[n], game'[n])
  <2>1. CASE reply[n] = "board" /\ screen'[n] = screen[n]
    <3>1. screen[n] \in View
      BY DEF Inv, TypeOK
    <3> QED
      BY <2>1, <3>1, PastStays DEF Inv, ScreenIsPast, EntriesStep
  <2>2. CASE \E r \in requests :
               r.op \in {"deploy", "move"} /\ r.uid = n /\ screen'[n] = r.view
    BY <1>1, <2>2
  <2> QED
    BY <1>2, <2>1, <2>2
<1>3. \A r \in requests' : r.op \in {"deploy", "move"} => IsPast(r.view, game'[r.uid])
  BY <1>1
<1> QED
  BY <1>2, <1>3 DEF ScreenIsPast
-----------------------------------------------------------------------------
(* Results, erasures and screens, step by step. *)

Shown == ResultInv /\ EraseOnlyFinished /\ ScreenIsPast

(* A handler keeps completions, announcements and screens, adds to the     *)
(* list only new entries, and posts no result and no board but the game's. *)
LEMMA HandlerShows ==
  ASSUME Inv, EntriesStep,
         UNCHANGED <<announced, done, reply, screen>>,
         \A n \in (1..last') \ live' : n \in (1..last) \ live,
         \A r \in requests' : r \in requests
           \/ /\ r.op # "result"
              /\ r.op \in {"deploy", "move"} => IsPast(r.view, game'[r.uid])
  PROVE  Shown'
<1>1. ResultInv'
  <2>1. \A r \in requests' \cup announced' : r \in requests \cup announced \/ IsFinal(r)'
    BY DEF IsFinal
  <2> QED
    BY <2>1, ResultStep
<1>2. EraseOnlyFinished'
  BY EraseStep
<1>3. ScreenIsPast'
  BY ScreenStep
<1> QED
  BY <1>1, <1>2, <1>3 DEF Shown

(* A command keeps results, erasures and screens right. *)
LEMMA CommandShows ==
  ASSUME Inv, NEW u \in Users, NEW m \in Users, TttCommand(u, m)
  PROVE  Shown'
<1>1. EntriesStep /\ last' = last + 1 /\ live' = live \cup {last + 1} /\ last \in Nat
  BY CommandEntries DEF Inv, TypeOK
<1>2. \A n \in (1..last') \ live' : n \in (1..last) \ live
  BY <1>1
<1>3. requests' = requests \cup {[op |-> "ask", uid |-> last + 1]}
  BY DEF TttCommand, Post
<1> QED
  BY <1>1, <1>2, <1>3, HandlerShows DEF TttCommand, discord

(* So does a click: the board it sends is rendered from the game now. *)
LEMMA ButtonShows == ASSUME Inv, OnButtonClick PROVE Shown'
<1>1. EntriesStep
  BY NextEntries DEF Next
<1>2. ASSUME NEW e, FirstYes(e) PROVE Shown'
  <2>1. requests' = requests \cup
                      {[op |-> "confirm", uid |-> e.uid, warned |-> TurnedAway(e.user, MaxTtt)]}
    BY <1>2 DEF FirstYes, Post
  <2> QED
    BY <1>1, <1>2, <2>1, HandlerShows DEF FirstYes, discord
<1>3. ASSUME NEW e, SecondYes(e) PROVE Shown'
  <2> DEFINE h == InitGame(game[e.uid])
             r == [op |-> "deploy", uid |-> e.uid, known |-> replied[e.uid], view |-> Render(h)]
  <2>1. e.uid \in Uid /\ e.uid \in 1..last /\ last' = last
    BY <1>3, PressFacts DEF SecondYes
  <2>2. game'[e.uid] = h /\ h \in Ttt
    <3>1. game'[e.uid] = h
      BY <1>3, <2>1 DEF Inv, TypeOK, SecondYes
    <3>2. EntryTypeOK(e.uid)' /\ e.uid <= last'
      BY <1>1, <2>1 DEF EntriesStep
    <3> QED
      BY <3>1, <3>2 DEF EntryTypeOK
  <2>3. IsPast(Render(h), game'[e.uid])
    BY <2>2, RenderIsPast
  <2>4. requests' = requests \cup {r}
    BY <1>3 DEF SecondYes, Post
  <2>5. r.op = "deploy" /\ r.uid = e.uid /\ r.view = Render(h)
    OBVIOUS
  <2>6. \A q \in requests' : q \in requests
          \/ (q.op # "result" /\ (q.op \in {"deploy", "move"} => IsPast(q.view, game'[q.uid])))
    BY <2>3, <2>4, <2>5
  <2> QED
    BY <1>1, <1>3, <2>6, HandlerShows DEF SecondYes, discord
<1>4. ASSUME NEW e, Decline(e) PROVE Shown'
  <2>1. requests' \subseteq requests \cup {[op |-> "delete", uid |-> e.uid]}
    BY <1>4 DEF Decline, Post
  <2> QED
    BY <1>1, <1>4, <2>1, HandlerShows DEF Decline, discord
<1>5. ASSUME NEW e, IgnorePress(e) \/ RefuseCell(e) PROVE Shown'
  BY <1>1, <1>5, HandlerShows DEF IgnorePress, RefuseCell, process, discord
<1>6. ASSUME NEW e, PlayCell(e) PROVE Shown'
  <2> DEFINE h == game'[e.uid]
             r == [op |-> "move", uid |-> e.uid, user |-> e.user, turns |-> h.turns,
                   first |-> ~TurnedAway(e.user, MaxTtt), view |-> Render(h)]
  <2>1. IsPast(Render(h), h)
    BY <1>6, PlayEntries, RenderIsPast
  <2>2. requests' = requests \cup {r}
    BY <1>6 DEF PlayCell, Post
  <2>3. r.op = "move" /\ r.uid = e.uid /\ r.view = Render(h)
    OBVIOUS
  <2>4. \A q \in requests' : q \in requests
          \/ (q.op # "result" /\ (q.op \in {"deploy", "move"} => IsPast(q.view, game'[q.uid])))
    BY <2>1, <2>2, <2>3
  <2> QED
    BY <1>1, <1>6, <2>4, HandlerShows DEF PlayCell, discord
<1> QED
  BY <1>2, <1>3, <1>4, <1>5, <1>6 DEF OnButtonClick

(* So does a callback: it announces, and erases, only final results. *)
LEMMA CallbackShows == ASSUME Inv, RunCallback PROVE Shown'
<1>1. EntriesStep /\ UNCHANGED <<last, game>>
  BY NextEntries DEF Next, RunCallback, SetOrigin, ReplySent, StoreReply, MoveShown,
                     ResultShown, process
<1>2. UNCHANGED <<announced, reply, screen>>
  BY DEF RunCallback, SetOrigin, ReplySent, StoreReply, MoveShown, ResultShown, discord
<1>3. Members(done') \subseteq Members(done)
  BY TakeDone DEF Inv, RunCallback, SetOrigin, ReplySent, StoreReply, MoveShown, ResultShown
<1>4. \A r \in requests' : r \in requests \/ (IsFinal(r)' /\ r.op \notin {"deploy", "move"})
  <2>1. ASSUME NEW c, ReplySent(c)
        PROVE  \A r \in requests' : r \in requests \/ r.op = "fetch"
    BY <2>1 DEF ReplySent, Post
  <2>2. ASSUME NEW c, MoveShown(c)
        PROVE  \A r \in requests' : r \in requests \/
                 (r.op = "result" /\ Over(game[r.uid]) /\ r.result = game[r.uid].result)
    BY <2>2 DEF MoveShown, Post, Announces
  <2>3. ASSUME NEW c, SetOrigin(c) \/ StoreReply(c) \/ ResultShown(c)
        PROVE  requests' = requests
    BY <2>3 DEF SetOrigin, StoreReply, ResultShown
  <2> QED
    BY <1>1, <2>1, <2>2, <2>3 DEF RunCallback, IsFinal
<1>5. ResultInv'
  BY <1>1, <1>2, <1>3, <1>4, ResultStep
<1>6. ScreenIsPast'
  BY <1>1, <1>2, <1>4, ScreenStep
<1>7. EraseOnlyFinished'
  <2>1. ASSUME NEW c, ResultShown(c), live' # live
        PROVE  /\ live' = live \ {c.req.uid}
               /\ \E a \in announced : a.uid = c.req.uid /\ a.op = "result"
    <3>1. c.ok /\ live' = live \ {c.req.uid}
      BY <2>1 DEF ResultShown
    <3>2. c \in Members(done) /\ c.req.op = "result"
      BY <2>1, TakeDone DEF Inv, ResultShown
    <3> QED
      BY <3>1, <3>2 DEF Inv, ResultInv
  <2>2. ASSUME NEW c, SetOrigin(c) \/ ReplySent(c) \/ StoreReply(c) \/ MoveShown(c)
        PROVE  live' = live
    BY <2>2 DEF SetOrigin, ReplySent, StoreReply, MoveShown, process
  <2>3. \A n \in (1..last') \ live' :
          \/ n \in (1..last) \ live
          \/ n \in 1..last /\ \E a \in announced : a.uid = n /\ a.op = "result"
    BY <1>1, <2>1, <2>2 DEF RunCallback
  <2> QED
    BY <1>1, <1>2, <2>3, EraseStep
<1> QED
  BY <1>5, <1>6, <1>7 DEF Shown

(* So does Discord: it shows what was on its way. *)
LEMMA ServeShows ==
  ASSUME Inv, EntriesStep,
         NEW r \in requests, NEW made \in BOOLEAN, NEW ok \in BOOLEAN, Serve(r, made, ok)
  PROVE  Shown'
<1>1. UNCHANGED <<last, live, game>> /\ requests' \subseteq requests
      /\ announced \subseteq announced' /\ announced' \subseteq announced \cup {r}
  BY DEF Serve, process
<1>2. r \in RequestSet /\ r.uid \in Uid
  BY RequestFields DEF Inv, TypeOK
<1>3. \A c \in Members(done') : c \in Members(done) \/ c = [req |-> r, ok |-> ok]
  <2> DEFINE S == [req: RequestSet, ok: BOOLEAN]
             x == [req |-> r, ok |-> ok]
  <2>1. x \in S /\ done \in Seq(S)
    BY <1>2 DEF Inv, TypeOK
  <2>2. Members(Append(done, x)) = Members(done) \cup {x}
    <3> HIDE DEF S, x
    <3> QED
      BY <2>1, AppendMembers
  <2>3. done' = Append(done, [req |-> r, ok |-> ok]) \/ done' = done
    BY DEF Serve
  <2> QED
    BY <2>2, <2>3
<1>4. ok /\ r.op = "result" => r \in announced'
  BY DEF Serve
<1>5. ResultInv'
  <2>1. ASSUME NEW q \in requests' \cup announced'
        PROVE  q \in requests \cup announced
    BY <1>1
  <2>2. ASSUME NEW c \in Members(done')
        PROVE  c \in Members(done) \/ (c.ok /\ c.req.op = "result" => c.req \in announced')
    BY <1>3, <1>4
  <2> QED
    BY <1>1, <2>1, <2>2, ResultStep
<1>6. EraseOnlyFinished'
  BY <1>1, EraseStep
<1>7. ASSUME NEW n \in Uid, reply'[n] = "board"
      PROVE  \/ reply[n] = "board" /\ screen'[n] = screen[n]
             \/ r.op \in {"deploy", "move"} /\ r.uid = n /\ screen'[n] = r.view
  <2>1. \A op \in DOMAIN NewReply : NewReply[op] = "board" => op \in {"deploy", "move"}
    BY DEF NewReply
  <2>2. r.uid # n => reply'[n] = reply[n] /\ screen'[n] = screen[n]
    BY <1>2 DEF Serve, Inv, TypeOK
  <2>3. r.uid = n /\ made /\ r.op \in {"deploy", "move"} => screen'[n] = r.view
    BY <1>2 DEF Serve, Inv, TypeOK
  <2>4. r.uid = n /\ ~(made /\ r.op \in {"deploy", "move"}) =>
          reply[n] = "board" /\ screen'[n] = screen[n]
    BY <1>2, <1>7, <2>1 DEF Serve, Inv, TypeOK
  <2> QED
    BY <1>7, <2>2, <2>3, <2>4
<1>8. ScreenIsPast'
  BY <1>1, <1>7, ScreenStep
<1> QED
  BY <1>5, <1>6, <1>8 DEF Shown

(* So does every step. *)
LEMMA NextShows == ASSUME Inv, Next PROVE Shown'
<1>1. EntriesStep
  BY NextEntries
<1>2. CASE Command
  <2>1. PICK p \in Mentions : TttCommand(p[1], p[2])
    BY <1>2 DEF Command
  <2>2. p[1] \in Users /\ p[2] \in Users
    BY BotAssumption
  <2> QED
    BY <2>1, <2>2, CommandShows
<1>3. CASE DiscordServes
  BY <1>1, <1>3, ServeShows DEF DiscordServes
<1>4. CASE UserClick
  BY <1>1, <1>4, HandlerShows
     DEF UserClick, ClickAsk, ClickBoard, ClickButton, process, discord
<1> QED
  BY <1>2, <1>3, <1>4, ButtonShows, CallbackShows DEF Next
-----------------------------------------------------------------------------
(* The invariant. *)

(* The invariant holds at the start. *)
LEMMA InitInv == Init => Inv
<1> SUFFICES ASSUME Init PROVE Inv
  OBVIOUS
<1>1. last = 0 /\ live = {} /\ 1..last = {} /\ \A n \in Uid : ~(n <= last)
  BY BotAssumption DEF Init, Uid
<1>2. /\ game \in [Uid -> Ttt \cup {NoTtt}] /\ pressed \in [Uid -> SUBSET Users]
      /\ \A n \in Uid : EntryTypeOK(n)
  BY <1>1 DEF Init, EntryTypeOK
<1>3. screen \in [Uid -> View]
  BY NoTttFields DEF Init
<1>4. clicks \in Seq(ClickSet) /\ done \in Seq([req: RequestSet, ok: BOOLEAN])
      /\ Members(done) = {}
  BY DEF Init, Members
<1>5. TypeOK
  BY <1>1, <1>2, <1>3, <1>4, BotAssumption DEF Init, TypeOK, Faults
<1>6. EntryInv /\ BothPressed /\ EraseOnlyFinished
  BY <1>1 DEF EntryInv, BothPressed, EraseOnlyFinished
<1>7. ResultInv
  BY <1>4 DEF Init, ResultInv
<1>8. ScreenIsPast
  BY DEF Init, ScreenIsPast
<1> QED
  BY <1>5, <1>6, <1>7, <1>8 DEF Inv

(* Every step keeps the invariant. *)
LEMMA NextInv == Inv /\ [Next]_vars => Inv'
<1>1. ASSUME Inv, Next PROVE Inv'
  BY <1>1, NextEntries, NextType, NextShows DEF EntriesStep, Shown, Inv
<1>2. ASSUME Inv, UNCHANGED vars PROVE Inv'
  <2>1. UNCHANGED <<last, live, game, origin, pressed, replied, fault>>
        /\ UNCHANGED <<ask, reply, screen, announced, clicks, requests, done, declined, lost>>
    BY <1>2 DEF vars, process, discord, history
  <2>2. EntriesStep
    BY <1>2, <2>1, SameEntries
  <2>3. TypeOK'
    BY <1>2, <2>1, <2>2 DEF EntriesStep, Inv, TypeOK
  <2>4. Shown'
    BY <1>2, <2>1, <2>2, HandlerShows
  <2> QED
    BY <2>2, <2>3, <2>4 DEF EntriesStep, Shown, Inv
<1> QED
  BY <1>1, <1>2

(* The inductive invariant holds in every state: ttt_list_g, the messages  *)
(* and what is between them never contradict each other. *)
THEOREM Invariant == Spec => []Inv
BY InitInv, NextInv, PTL DEF Spec

-----------------------------------------------------------------------------
(* Every variable keeps its type, and a press is always a player's.        *)
THEOREM TypeCorrect == Spec => []TypeOK
<1>1. Inv => TypeOK
  BY DEF Inv
<1> QED
  BY Invariant, <1>1, PTL

(* An entry leaves ttt_list_g only after its game ended and the right      *)
(* result was shown, whatever fails and whatever overtakes what.           *)
THEOREM EraseCorrect == Spec => []EraseOnlyFinished
<1>1. Inv => EraseOnlyFinished
  BY DEF Inv
<1> QED
  BY Invariant, <1>1, PTL

(* A board on the screen or on its way there is the game's, or was.        *)
THEOREM ScreenCorrect == Spec => []ScreenIsPast
<1>1. Inv => ScreenIsPast
  BY DEF Inv
<1> QED
  BY Invariant, <1>1, PTL

(* No game starts on the clicks of one player.                             *)
THEOREM StartCorrect == Spec => []BothPressed
<1>1. Inv => BothPressed
  BY DEF Inv
<1> QED
  BY Invariant, <1>1, PTL

(* EntryInv: an entry is a new object until its game starts                *)
(* (tictactoe.cpp:10-44), and good from then on.                           *)
THEOREM EntriesCorrect == Spec => []EntryInv
<1>1. Inv => EntryInv
  BY DEF Inv
<1> QED
  BY <1>1, Invariant, PTL

(* ResultInv: a result that is requested, announced or reported back is    *)
(* the game's and final (tictactoe.cpp:602-645).                           *)
THEOREM ResultsCorrect == Spec => []ResultInv
<1>1. Inv => ResultInv
  BY DEF Inv
<1> QED
  BY <1>1, Invariant, PTL

(* Every started game is decided rightly and played in turns.              *)
THEOREM GamesCorrect == Spec => []EveryGameIsRight
<1>1. Inv => EveryGameIsRight
  BY DEF Inv, EntryInv, EveryGameIsRight, Good
<1> QED
  BY Invariant, <1>1, PTL
-----------------------------------------------------------------------------
(* A step presses or plays only for the oldest click, on its entry.        *)

ClickedEntry(n) ==
  clicks # <<>> /\ Head(clicks).uid = n /\ IsPlayer(game[n], Head(clicks).user)

(* An entry that changes is the clicked one, by one of its players. *)
LEMMA NextClicked ==
  ASSUME Inv, Next, NEW n \in 1..last, pressed'[n] # pressed[n] \/ game'[n] # game[n]
  PROVE  ClickedEntry(n)
<1>1. n \in Uid
  BY BotAssumption DEF Inv, TypeOK, Uid
<1>2. ASSUME NEW e, Press(e), game' = game \/ game' = [game EXCEPT ![e.uid] = InitGame(@)]
      PROVE  ClickedEntry(n)
  <2>1. e.uid \in Uid /\ IsPlayer(game[e.uid], e.user)
    BY <1>2, PressFacts DEF IsPlayer
  <2>2. e.uid = n
    BY <1>1, <1>2, <2>1 DEF Inv, TypeOK, Press
  <2> QED
    BY <1>2, <2>1, <2>2 DEF ClickedEntry, Press, Take
<1>3. ASSUME NEW e, PlayCell(e) PROVE ClickedEntry(n)
  <2>1. e.uid = n /\ IsPlayer(game[e.uid], e.user)
    BY <1>1, <1>3, PlayEntries DEF PlayCell
  <2> QED
    BY <1>3, <2>1 DEF ClickedEntry, PlayCell, Take
<1>4. ~Command
  <2>1. ASSUME NEW p \in Mentions, TttCommand(p[1], p[2]) PROVE FALSE
    <3>1. p[1] \in Users /\ p[2] \in Users
      BY BotAssumption
    <3>2. last \in Nat /\ n # last + 1
      BY DEF Inv, TypeOK
    <3>3. game'[n] = game[n]
      BY <1>1, <2>1, <3>1, <3>2, CommandEntries
    <3> QED
      BY <2>1, <3>3 DEF TttCommand
  <2> QED
    BY <2>1 DEF Command
<1>5. ~RunCallback /\ ~DiscordServes /\ ~UserClick
  BY DEF RunCallback, SetOrigin, ReplySent, StoreReply, MoveShown, ResultShown,
         DiscordServes, Serve, UserClick, ClickAsk, ClickBoard, ClickButton, process
<1>6. PICK e : FirstYes(e) \/ SecondYes(e) \/ Decline(e) \/ IgnorePress(e) \/ PlayCell(e) \/ RefuseCell(e)
  BY <1>4, <1>5 DEF Next, OnButtonClick
<1>7. ~IgnorePress(e) /\ ~RefuseCell(e)
  BY DEF IgnorePress, RefuseCell, process
<1> QED
  BY <1>2, <1>3, <1>6, <1>7 DEF FirstYes, SecondYes, Decline

(* Presses and boards change only by a click of one of the entry's players.*)
THEOREM ClicksAreSeparate == Spec => OnlyTheClickedEntry
<1> DEFINE Only ==
      \A n \in 1..last :
        pressed'[n] # pressed[n] \/ game'[n] # game[n] =>
          /\ clicks # <<>>
          /\ Head(clicks).uid = n /\ IsPlayer(game[n], Head(clicks).user)
<1>1. Inv /\ Next => Only
  BY NextClicked DEF ClickedEntry
<1>2. Inv /\ [Next]_vars => [Only]_vars
  BY <1>1
<1> QED
  BY Invariant, <1>2, PTL DEF Spec, OnlyTheClickedEntry

(* NoGameGoesBack: whatever comes twice or late, what was played, won or   *)
(* decided in a started game stays so (tictactoe.cpp:411-412).             *)
THEOREM GamesGoForward == Spec => NoGameGoesBack
<1> DEFINE Forward ==
      \A n \in 1..last :
        Started(game[n]) =>
          /\ Started(game'[n]) /\ IsPast(Render(game[n]), game'[n])
          /\ Over(game[n]) => game'[n].result = game[n].result
<1>1. ASSUME Inv, Next PROVE Forward
  <2> SUFFICES ASSUME NEW n \in 1..last, Started(game[n])
               PROVE  /\ Started(game'[n]) /\ IsPast(Render(game[n]), game'[n])
                      /\ Over(game[n]) => game'[n].result = game[n].result
    OBVIOUS
  <2>1. n \in Uid /\ game[n] \in Ttt
    <3>1. n \in Uid /\ n <= last
      BY <1>1, BotAssumption DEF Inv, TypeOK, Uid
    <3> QED
      BY <1>1, <3>1 DEF Inv, TypeOK, EntryTypeOK
  <2>2. Advances(game[n], game'[n])
    BY <1>1, <2>1, NextEntries DEF EntriesStep
  <2>3. IsPast(Render(game[n]), game[n]) /\ Render(game[n]) \in View
    BY <2>1, RenderIsPast
  <2>4. IsPast(Render(game[n]), game'[n])
    BY <2>2, <2>3, PastStays
  <2> QED
    BY <2>2, <2>4 DEF Advances
<1>2. Inv /\ [Next]_vars => [Forward]_vars
  BY <1>1
<1> QED
  BY Invariant, <1>2, PTL DEF Spec, NoGameGoesBack

-----------------------------------------------------------------------------
(* The bot implements Lifecycle. *)

(* One entry that goes on while the others stay is a step of Lifecycle. *)
LEMMA OnePhase ==
  ASSUME NEW k \in Uid, NEW from, NEW to, Phase(k) = from, Phase(k)' = to,
         \A n \in Uid \ {k} : Phase(n)' = Phase(n)
  PROVE  Promise!Advance(k, from, to)
BY DEF Promise!Advance

(* Phases depend on the ids, the list and the games only. *)
LEMMA SamePhase ==
  ASSUME UNCHANGED <<last, live, game>>
  PROVE  \A n \in Uid : Phase(n)' = Phase(n)
BY DEF Phase

(* A command asks. *)
LEMMA CommandAsks ==
  ASSUME Inv, NEW u \in Users, NEW m \in Users, TttCommand(u, m)
  PROVE  \E n \in Uid : Promise!Ask(n)
<1>1. PICK k \in Uid :
        /\ k = last + 1 /\ last' = k /\ live' = live \cup {k}
        /\ ~Started(game'[k]) /\ ~Over(game'[k])
        /\ \A n \in Uid \ {k} : game'[n] = game[n]
  BY CommandEntries
<1>2. last \in Nat /\ \A n \in Uid : n \in Nat
  BY BotAssumption DEF Inv, TypeOK, Uid
<1>3. Phase(k) = "absent" /\ Phase(k)' = "asked"
  <2>1. k > last /\ ~(k > last') /\ k \in live'
    BY <1>1, <1>2
  <2> QED
    BY <1>1, <2>1 DEF Phase
<1>4. ASSUME NEW n \in Uid \ {k} PROVE Phase(n)' = Phase(n)
  <2>1. n > last' <=> n > last
    BY <1>1, <1>2
  <2>2. n \in live' <=> n \in live
    BY <1>1
  <2> QED
    BY <1>1, <2>1, <2>2 DEF Phase
<1> QED
  BY <1>1, <1>3, <1>4, OnePhase DEF Promise!Ask

(* The second YES starts. *)
LEMMA SecondYesStarts ==
  ASSUME Inv, NEW e, SecondYes(e)
  PROVE  \E n \in Uid : Promise!Start(n)
<1>1. /\ e.uid \in Uid /\ e.uid \in 1..last /\ e.uid \in live /\ ~Started(game[e.uid])
      /\ UNCHANGED <<last, live>>
  BY PressFacts DEF SecondYes
<1>2. ~Over(game[e.uid]) /\ ~Over(game'[e.uid]) /\ Started(game'[e.uid])
  BY PressAndStart DEF SecondYes
<1>3. Phase(e.uid) = "asked" /\ Phase(e.uid)' = "playing"
  BY <1>1, <1>2 DEF Phase, Inv, TypeOK
<1>4. \A n \in Uid \ {e.uid} : Phase(n)' = Phase(n)
  BY <1>1 DEF Phase, SecondYes, Inv, TypeOK
<1> QED
  BY <1>1, <1>3, <1>4, OnePhase DEF Promise!Start

(* A click on the board finishes its game or changes no phase. *)
LEMMA PlayCellFinishes ==
  ASSUME Inv, NEW e, PlayCell(e)
  PROVE  (\E n \in Uid : Promise!Finish(n)) \/ \A n \in Uid : Phase(n)' = Phase(n)
<1>1. /\ e.uid \in Uid /\ e.uid \in 1..last /\ e.uid \in live
      /\ Started(game[e.uid]) /\ Started(game'[e.uid])
      /\ \A n \in Uid \ {e.uid} : game'[n] = game[n]
      /\ UNCHANGED <<last, live>>
  BY PlayEntries DEF PlayCell
<1>2. Over(game[e.uid]) => Over(game'[e.uid])
  BY <1>1, PlayEntries DEF EntriesStep, Advances, Over
<1>3. \A n \in Uid \ {e.uid} : Phase(n)' = Phase(n)
  BY <1>1 DEF Phase
<1>4. CASE Over(game[e.uid]) \/ ~Over(game'[e.uid])
  <2>1. /\ Over(game[e.uid]) \in BOOLEAN /\ Over(game'[e.uid]) \in BOOLEAN
        /\ Over(game[e.uid]) <=> Over(game'[e.uid])
    BY <1>2, <1>4 DEF Over
  <2>2. Phase(e.uid)' = Phase(e.uid)
    BY <1>1, <2>1 DEF Phase
  <2> QED
    BY <1>3, <2>2
<1>5. CASE ~Over(game[e.uid]) /\ Over(game'[e.uid])
  <2>1. Phase(e.uid) = "playing" /\ Phase(e.uid)' = "over"
    <3>1. last \in Nat /\ ~(e.uid > last) /\ ~(e.uid > last') /\ e.uid \in live'
      BY <1>1 DEF Inv, TypeOK
    <3> QED
      BY <1>1, <1>5, <3>1 DEF Phase
  <2> QED
    BY <1>1, <1>3, <2>1, OnePhase DEF Promise!Finish
<1> QED
  BY <1>4, <1>5

(* What is in the list was pushed. *)
LEMMA LiveIsPushed ==
  ASSUME TypeOK, NEW k \in live
  PROVE  ~(k > last)
<1>1. last \in Nat /\ k \in 1..last
  BY BotAssumption DEF TypeOK
<1> QED
  BY <1>1

(* The last callback erases a finished entry or changes no phase. *)
LEMMA ResultShownErases ==
  ASSUME Inv, NEW c, ResultShown(c)
  PROVE  (\E n \in Uid : Promise!Erase(n)) \/ \A n \in Uid : Phase(n)' = Phase(n)
<1> DEFINE k == c.req.uid
<1>1. /\ k \in Uid /\ c \in Members(done) /\ c.req.op = "result"
      /\ UNCHANGED <<last, game>>
  BY TakeDone DEF Inv, ResultShown
<1>2. live' = live \/ (live' = live \ {k} /\ c.ok)
  BY DEF ResultShown
<1>3. CASE live' = live \/ k \notin live
  <2>1. live' = live \/ live' = live \ {k}
    BY <1>2
  <2>2. live' = live
    <3>1. CASE live' = live \ {k} /\ k \notin live
      <4>1. live \ {k} = live
        BY <3>1
      <4> QED
        BY <3>1, <4>1
    <3> HIDE DEF k
    <3> QED
      BY <1>3, <2>1, <3>1
  <2> QED
    BY <1>1, <2>2, SamePhase
<1>4. CASE live' = live \ {k} /\ c.ok /\ k \in live
  <2>1. Over(game[k])
    BY <1>1, <1>4 DEF Inv, ResultInv, IsFinal
  <2>2. ~(k > last) /\ ~(k > last')
    <3>1. k \in live
      BY <1>4
    <3> HIDE DEF k
    <3> QED
      BY <1>1, <3>1, LiveIsPushed DEF Inv
  <2>3. Phase(k) = "over" /\ Phase(k)' = "erased"
    BY <1>1, <1>4, <2>1, <2>2 DEF Phase
  <2>4. \A n \in Uid \ {k} : Phase(n)' = Phase(n)
    BY <1>1, <1>4 DEF Phase
  <2> QED
    BY <1>1, <2>3, <2>4, OnePhase DEF Promise!Erase
<1> QED
  BY <1>2, <1>3, <1>4

(* Every step is a step of Lifecycle or changes no phase. *)
LEMMA NextPhase ==
  ASSUME Inv, Next
  PROVE  Promise!Next \/ \A n \in Uid : Phase(n)' = Phase(n)
<1>1. CASE Command
  <2>1. PICK p \in Mentions : TttCommand(p[1], p[2])
    BY <1>1 DEF Command
  <2>2. p[1] \in Users /\ p[2] \in Users
    BY BotAssumption
  <2> QED
    BY <2>1, <2>2, CommandAsks DEF Promise!Next
<1>2. CASE OnButtonClick
  <2>1. ASSUME NEW e, FirstYes(e) \/ Decline(e) \/ IgnorePress(e) \/ RefuseCell(e)
        PROVE  UNCHANGED <<last, live, game>>
    BY <2>1 DEF FirstYes, Decline, IgnorePress, RefuseCell, process
  <2> QED
    BY <1>2, <2>1, SamePhase, SecondYesStarts, PlayCellFinishes DEF OnButtonClick, Promise!Next
<1>3. CASE RunCallback
  <2>1. ASSUME NEW c, SetOrigin(c) \/ ReplySent(c) \/ StoreReply(c) \/ MoveShown(c)
        PROVE  UNCHANGED <<last, live, game>>
    BY <2>1 DEF SetOrigin, ReplySent, StoreReply, MoveShown, process
  <2> QED
    BY <1>3, <2>1, SamePhase, ResultShownErases DEF RunCallback, Promise!Next
<1>4. CASE DiscordServes \/ UserClick
  BY <1>4, SamePhase
     DEF DiscordServes, Serve, UserClick, ClickAsk, ClickBoard, ClickButton, process
<1> QED
  BY <1>1, <1>2, <1>3, <1>4 DEF Next

(* Every ttt command is asked, may be played, may end, and is erased only  *)
(* after that: TttBot implements Lifecycle, each uid for itself.           *)
THEOREM ImplementsLifecycle == Spec => FollowsLifecycle
<1> DEFINE P == [n \in Uid |-> Phase(n)]
<1>1. Init => Promise!Init
  <2>1. Init => \A n \in Uid : Phase(n) = "absent"
    BY BotAssumption DEF Init, Phase, Uid
  <2> QED
    BY <2>1 DEF Promise!Init
<1>2. Inv /\ [Next]_vars => [Promise!Next]_P
  <2>1. ASSUME Inv, Next PROVE [Promise!Next]_P
    BY <2>1, NextPhase
  <2>2. ASSUME UNCHANGED vars PROVE P' = P
    BY <2>2, SamePhase DEF vars, process
  <2> QED
    BY <2>1, <2>2
<1> QED
  BY Invariant, <1>1, <1>2, PTL DEF Spec, FollowsLifecycle, Promise!Spec
=============================================================================
