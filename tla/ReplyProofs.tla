----------------------------- MODULE ReplyProofs -----------------------------
(***************************************************************************)
(* That the chain event.reply, get_original_response, "store replied       *)
(* message" runs once per entry.  A set of pending requests is not enough  *)
(* for the induction: a completion could be in the queue twice, so the     *)
(* invariant counts positions.                                             *)
(***************************************************************************)
EXTENDS TttBotProofs

(* Is a request of S, or its completion, under way?  Is there one only?    *)
Queued(S) ==
  \/ \E r \in requests : r \in S
  \/ \E i \in 1..Len(done) : done[i].req \in S

Once(S) ==
  /\ \A r, s \in requests : r \in S /\ s \in S => r = s
  /\ \A i, j \in 1..Len(done) : done[i].req \in S /\ done[j].req \in S => i = j
  /\ \A r \in requests, i \in 1..Len(done) : ~(r \in S /\ done[i].req \in S)

Replies(n) == {r \in RequestSet : r.op \in {"confirm", "fetch"} /\ r.uid = n}

(* The chain starts at a press, ends when the message is stored, and no    *)
(* game is over before it is.                                              *)
ChainOK(n) ==
  /\ Once(Replies(n))
  /\ Queued(Replies(n)) \/ replied[n] => pressed[n] # {}
  /\ ~(Queued(Replies(n)) /\ replied[n])
  /\ Over(game[n]) => replied[n]

ReplyInv == \A n \in Uid : ChainOK(n)

-----------------------------------------------------------------------------
(* Where the rest of a queue is in the queue. *)
LEMMA TailAt ==
  ASSUME NEW S, NEW s \in Seq(S), s # <<>>, NEW t, t = Tail(s)
  PROVE  /\ 1 \in 1..Len(s) /\ Head(s) = s[1]
         /\ \A i \in 1..Len(t) : i + 1 \in 1..Len(s) /\ t[i] = s[i + 1] /\ i + 1 # 1
         /\ \A i, j \in 1..Len(t) : i + 1 = j + 1 => i = j
<1>1. Len(s) \in Nat \ {0} /\ Len(t) = Len(s) - 1
  OBVIOUS
<1>2. \A i \in 1..Len(t) : t[i] = s[i + 1]
  OBVIOUS
<1> QED
  BY <1>1, <1>2

(* The members of a queue are its head and those of the rest. *)
LEMMA HeadOrTail ==
  ASSUME NEW S, NEW s \in Seq(S), s # <<>>
  PROVE  Members(s) = {Head(s)} \cup Members(Tail(s))
<1>1. Len(s) \in Nat \ {0} /\ Len(Tail(s)) = Len(s) - 1 /\ Head(s) = s[1]
  OBVIOUS
<1>2. \A i \in 1..Len(Tail(s)) : Tail(s)[i] = s[i + 1] /\ i + 1 \in 1..Len(s)
  BY <1>1
<1>3. \A i \in 1..Len(s) : i = 1 \/ (i - 1 \in 1..Len(Tail(s)) /\ Tail(s)[i - 1] = s[i])
  BY <1>1
<1> QED
  BY <1>1, <1>2, <1>3 DEF Members

(* Where the elements of a longer queue are. *)
LEMMA AppendAt ==
  ASSUME NEW S, NEW s \in Seq(S), NEW x \in S, NEW t, t = Append(s, x)
  PROVE  /\ Len(s) \in Nat /\ Len(t) = Len(s) + 1 /\ t[Len(s) + 1] = x
         /\ \A i \in 1..Len(s) : t[i] = s[i]
OBVIOUS

(* A callback takes one completion away and posts nothing, or something    *)
(* else, or what comes next in the same chain.                             *)
LEMMA CallbackOnce ==
  ASSUME TypeOK, NEW c, NEW op, Complete(c, op), NEW S, Once(S),
         NEW r, r \in S => c.req \in S, requests' \in {requests, requests \cup {r}}
  PROVE  /\ Once(S)' /\ (Queued(S)' => Queued(S))
         /\ c.req \in S => Queued(S) /\ (requests' = requests => ~Queued(S)')
<1>1. /\ 1 \in 1..Len(done) /\ c = done[1]
      /\ \A i \in 1..Len(done') : i + 1 \in 1..Len(done) /\ done'[i] = done[i + 1] /\ i + 1 # 1
      /\ \A i, j \in 1..Len(done') : i + 1 = j + 1 => i = j
  BY TailAt DEF TypeOK, Complete
<1>2. CASE c.req \in S
  <2>1. \A s \in requests : s \notin S
    BY <1>1, <1>2 DEF Once
  <2>2. \A i \in 1..Len(done') : done'[i].req \notin S
    BY <1>1, <1>2 DEF Once
  <2> QED
    BY <1>1, <1>2, <2>1, <2>2 DEF Once, Queued
<1>3. CASE c.req \notin S
  <2>1. \A s \in requests' : s \in S => s \in requests
    BY <1>3
  <2> QED
    BY <1>1, <1>3, <2>1 DEF Once, Queued
<1> QED
  BY <1>2, <1>3

(* Posting a request of S when none is under way, or another request.      *)
LEMMA PostOnce ==
  ASSUME NEW S, Once(S), NEW r, r \in S => ~Queued(S),
         requests' \in {requests, requests \cup {r}}, done' = done
  PROVE  Once(S)' /\ (Queued(S)' => Queued(S) \/ r \in S)
<1>1. CASE r \in S
  BY <1>1 DEF Once, Queued
<1>2. CASE r \notin S
  BY <1>2 DEF Once, Queued
<1> QED
  BY <1>1, <1>2

(* Discord turns a request into a completion, or into nothing. *)
LEMMA ServeOnce ==
  ASSUME TypeOK,
         NEW r \in requests, NEW made \in BOOLEAN, NEW ok \in BOOLEAN, Serve(r, made, ok),
         NEW S, Once(S)
  PROVE  /\ Once(S)' /\ (Queued(S)' => Queued(S))
         /\ \A i \in 1..Len(done') :
              \/ i \in 1..Len(done) /\ done'[i] = done[i]
              \/ done'[i] = [req |-> r, ok |-> ok]
         /\ r \in S => \A i \in 1..Len(done) : done[i].req \notin S
<1>1. requests' = requests \ {r} /\ r \in RequestSet /\ [req |-> r, ok |-> ok].req = r
  BY DEF Serve, TypeOK
<1>2. r \in S => \A i \in 1..Len(done) : done[i].req \notin S
  BY DEF Once
<1>3. CASE done' = done
  BY <1>1, <1>2, <1>3 DEF Once, Queued
<1>4. CASE done' = Append(done, [req |-> r, ok |-> ok])
  <2>1. /\ Len(done) \in Nat /\ Len(done') = Len(done) + 1
        /\ done'[Len(done) + 1] = [req |-> r, ok |-> ok]
        /\ \A i \in 1..Len(done) : done'[i] = done[i]
    <3>1. [req |-> r, ok |-> ok] \in [req: RequestSet, ok: BOOLEAN]
      BY <1>1
    <3>2. done \in Seq([req: RequestSet, ok: BOOLEAN])
      BY DEF TypeOK
    <3> QED
      BY <1>4, <3>1, <3>2, AppendAt
  <2>2. \A i \in 1..Len(done') : i = Len(done) + 1 \/ i \in 1..Len(done)
    BY <2>1
  <2>3. done'[Len(done) + 1].req = r
    BY <2>1
  <2>4. Queued(S)' => Queued(S)
    BY <1>1, <2>1, <2>2, <2>3 DEF Queued
  <2>5. Once(S)'
    <3>1. CASE r \in S
      BY <1>1, <2>1, <2>2, <2>3, <3>1 DEF Once
    <3>2. CASE r \notin S
      BY <1>1, <2>1, <2>2, <2>3, <3>2 DEF Once
    <3> QED
      BY <3>1, <3>2
  <2> QED
    BY <1>2, <2>1, <2>2, <2>4, <2>5
<1> QED
  BY <1>3, <1>4 DEF Serve

-----------------------------------------------------------------------------
(* What keeps a chain: nothing new pending, nothing stored or forgotten.   *)
LEMMA ChainKept ==
  ASSUME NEW n \in Uid, ChainOK(n), Once(Replies(n))', Queued(Replies(n))' => Queued(Replies(n)),
         replied'[n] = replied[n], pressed[n] \subseteq pressed'[n],
         Over(game'[n]) => Over(game[n]) \/ replied[n]
  PROVE  ChainOK(n)'
BY DEF ChainOK

(* A press grows the presses of one entry. *)
LEMMA PressGrows ==
  ASSUME Inv, NEW e, Press(e), NEW n \in Uid
  PROVE  pressed[n] \subseteq pressed'[n] /\ pressed'[e.uid] # {}
<1>1. e.uid \in Uid /\ pressed \in [Uid -> SUBSET Users]
  BY PressFacts DEF Inv, TypeOK
<1>2. pressed' = [pressed EXCEPT ![e.uid] = pressed[e.uid] \cup {e.user}]
  BY DEF Press
<1> QED
  BY <1>1, <1>2

(* Every chain is kept single by a ttt command. *)
LEMMA CommandChain ==
  ASSUME Inv, ReplyInv, NEW u \in Users, NEW m \in Users, TttCommand(u, m), NEW n \in Uid
  PROVE  ChainOK(n)'
<1> DEFINE r == [op |-> "ask", uid |-> last + 1]
<1>1. /\ UNCHANGED <<replied, pressed, done>> /\ requests' = requests \cup {r}
      /\ r \notin Replies(n)
  BY DEF TttCommand, Post, Replies
<1>2. Once(Replies(n))' /\ (Queued(Replies(n))' => Queued(Replies(n)))
  <2> HIDE DEF r
  <2> QED
    BY <1>1, PostOnce DEF ReplyInv, ChainOK
<1>3. Over(game'[n]) => Over(game[n])
  <2>1. game' = [game EXCEPT ![last + 1] = NewTtt(u, m)] /\ game \in [Uid -> Ttt \cup {NoTtt}]
    BY DEF TttCommand, Inv, TypeOK
  <2>2. game'[n] = game[n] \/ game'[n] = NewTtt(u, m)
    BY <2>1
  <2>3. ~Over(NewTtt(u, m))
    BY NewFields DEF Over
  <2> QED
    BY <2>2, <2>3
<1> QED
  BY <1>1, <1>2, <1>3, ChainKept DEF ReplyInv

(* Every chain is kept single by the first YES (tictactoe.cpp:414). *)
LEMMA FirstYesChain ==
  ASSUME Inv, ReplyInv, NEW e, FirstYes(e), NEW n \in Uid
  PROVE  ChainOK(n)'
<1> DEFINE r == [op |-> "confirm", uid |-> e.uid, warned |-> TurnedAway(e.user, MaxTtt)]
<1>1. /\ UNCHANGED <<replied, game, done>> /\ requests' = requests \cup {r}
      /\ r.uid = e.uid /\ Press(e) /\ pressed[e.uid] = {}
  BY DEF FirstYes, Post
<1>2. Once(Replies(n))' /\ (Queued(Replies(n))' => Queued(Replies(n)) \/ e.uid = n)
  <2>1. r \in Replies(n) => r.uid = n
    BY DEF Replies
  <2>2. r.uid = n => ~Queued(Replies(n))
    BY <1>1 DEF ReplyInv, ChainOK
  <2> HIDE DEF r
  <2> QED
    BY <1>1, <2>1, <2>2, PostOnce DEF ReplyInv, ChainOK
<1>3. pressed[n] \subseteq pressed'[n] /\ pressed'[e.uid] # {}
  BY <1>1, PressGrows
<1> QED
  BY <1>1, <1>2, <1>3 DEF ReplyInv, ChainOK

(* Every chain is kept single by the second YES (tictactoe.cpp:442). *)
LEMMA SecondYesChain ==
  ASSUME Inv, ReplyInv, NEW e, SecondYes(e), NEW n \in Uid
  PROVE  ChainOK(n)'
<1> DEFINE r == [op |-> "deploy", uid |-> e.uid, known |-> replied[e.uid],
                 view |-> Render(InitGame(game[e.uid]))]
<1>1. /\ UNCHANGED <<replied, done>> /\ requests' = requests \cup {r} /\ Press(e)
      /\ r \notin Replies(n)
  BY DEF SecondYes, Post, Replies
<1>2. Once(Replies(n))' /\ (Queued(Replies(n))' => Queued(Replies(n)))
  <2> HIDE DEF r
  <2> QED
    BY <1>1, PostOnce DEF ReplyInv, ChainOK
<1>3. Over(game'[n]) => Over(game[n])
  <2>1. ~Over(game'[e.uid])
    BY PressAndStart DEF SecondYes
  <2>2. n # e.uid => game'[n] = game[n]
    BY DEF SecondYes, Inv, TypeOK
  <2> QED
    BY <2>1, <2>2
<1> QED
  BY <1>1, <1>2, <1>3, PressGrows, ChainKept DEF ReplyInv

(* Every chain is kept single by a Nah (tictactoe.cpp:492). *)
LEMMA DeclineChain ==
  ASSUME Inv, ReplyInv, NEW e, Decline(e), NEW n \in Uid
  PROVE  ChainOK(n)'
<1> DEFINE r == [op |-> "delete", uid |-> e.uid]
<1>1. /\ UNCHANGED <<replied, game, done>> /\ requests' \in {requests, requests \cup {r}}
      /\ Press(e) /\ r \notin Replies(n)
  BY DEF Decline, Post, Replies
<1>2. Once(Replies(n))' /\ (Queued(Replies(n))' => Queued(Replies(n)))
  <2> HIDE DEF r
  <2> QED
    BY <1>1, PostOnce DEF ReplyInv, ChainOK
<1> QED
  BY <1>1, <1>2, PressGrows, ChainKept DEF ReplyInv

(* Every chain is kept single by a move on the board (tictactoe.cpp:576). *)
LEMMA PlayCellChain ==
  ASSUME Inv, ReplyInv, NEW e, PlayCell(e), NEW n \in Uid
  PROVE  ChainOK(n)'
<1> DEFINE r == [op |-> "move", uid |-> e.uid, user |-> e.user, turns |-> game'[e.uid].turns,
                 first |-> ~TurnedAway(e.user, MaxTtt), view |-> Render(game'[e.uid])]
<1>1. /\ UNCHANGED <<replied, pressed, done>> /\ requests' = requests \cup {r}
      /\ replied[e.uid] /\ r \notin Replies(n)
  BY DEF PlayCell, CellCounts, Post, Replies
<1>2. Once(Replies(n))' /\ (Queued(Replies(n))' => Queued(Replies(n)))
  <2> HIDE DEF r
  <2> QED
    BY <1>1, PostOnce DEF ReplyInv, ChainOK
<1>3. n # e.uid => game'[n] = game[n]
  BY PlayEntries
<1> QED
  BY <1>1, <1>2, <1>3, ChainKept DEF ReplyInv

(* Steps that touch no chain: those that leave its variables as they are.  *)
LEMMA OtherChain ==
  ASSUME ReplyInv, UNCHANGED <<requests, done, pressed, replied, game>>, NEW n \in Uid
  PROVE  ChainOK(n)'
BY DEF ReplyInv, ChainOK, Once, Queued

(* Every chain is kept single by set_origin. *)
LEMMA SetOriginChain ==
  ASSUME Inv, ReplyInv, NEW c, SetOrigin(c), NEW n \in Uid
  PROVE  ChainOK(n)'
<1>1. Complete(c, "ask") /\ UNCHANGED <<requests, replied, pressed, game>>
  BY DEF SetOrigin
<1>2. Once(Replies(n))' /\ (Queued(Replies(n))' => Queued(Replies(n)))
  BY <1>1, CallbackOnce DEF Inv, ReplyInv, ChainOK
<1> QED
  BY <1>1, <1>2, ChainKept DEF ReplyInv

(* Every chain is kept single by the callback of a result. *)
LEMMA ResultShownChain ==
  ASSUME Inv, ReplyInv, NEW c, ResultShown(c), NEW n \in Uid
  PROVE  ChainOK(n)'
<1>1. Complete(c, "result") /\ UNCHANGED <<requests, replied, pressed, game>>
  BY DEF ResultShown
<1>2. Once(Replies(n))' /\ (Queued(Replies(n))' => Queued(Replies(n)))
  BY <1>1, CallbackOnce DEF Inv, ReplyInv, ChainOK
<1> QED
  BY <1>1, <1>2, ChainKept DEF ReplyInv

(* Every chain is kept single by the callback of a move. *)
LEMMA MoveShownChain ==
  ASSUME Inv, ReplyInv, NEW c, MoveShown(c), NEW n \in Uid
  PROVE  ChainOK(n)'
<1> DEFINE r == [op |-> "result", uid |-> c.req.uid, user |-> c.req.user,
                 turns |-> c.req.turns, result |-> game[c.req.uid].result]
<1>1. /\ Complete(c, "move") /\ UNCHANGED <<replied, pressed, game>>
      /\ requests' \in {requests, requests \cup {r}} /\ r \notin Replies(n)
  BY DEF MoveShown, Post, Replies
<1>2. Once(Replies(n))' /\ (Queued(Replies(n))' => Queued(Replies(n)))
  <2> HIDE DEF r
  <2> QED
    BY <1>1, CallbackOnce DEF Inv, ReplyInv, ChainOK
<1> QED
  BY <1>1, <1>2, ChainKept DEF ReplyInv

(* Every chain is kept single by the callback of (1/2). *)
LEMMA ReplySentChain ==
  ASSUME Inv, ReplyInv, NEW c, ReplySent(c), NEW n \in Uid
  PROVE  ChainOK(n)'
<1> DEFINE r == [op |-> "fetch", uid |-> c.req.uid, warned |-> c.req.warned]
<1>1. /\ Complete(c, "confirm") /\ UNCHANGED <<replied, pressed, game>>
      /\ requests' = requests \cup {r} /\ (r \in Replies(n) => c.req \in Replies(n))
  <2>1. Complete(c, "confirm") /\ c.req \in RequestSet
    BY TakeDone DEF ReplySent, Inv
  <2>2. r \in Replies(n) => c.req \in Replies(n)
    BY <2>1 DEF Replies, Complete
  <2> QED
    BY <2>1, <2>2 DEF ReplySent, Post, process
<1>2. Once(Replies(n))' /\ (Queued(Replies(n))' => Queued(Replies(n)))
  <2> HIDE DEF r
  <2> QED
    BY <1>1, CallbackOnce DEF Inv, ReplyInv, ChainOK
<1> QED
  BY <1>1, <1>2, ChainKept DEF ReplyInv

(* The end of the chain: nothing is pending when the message is stored.    *)
LEMMA StoreReplyChain ==
  ASSUME Inv, ReplyInv, NEW c, StoreReply(c), NEW n \in Uid
  PROVE  ChainOK(n)'
<1>1. /\ Complete(c, "fetch") /\ UNCHANGED <<requests, pressed, game>>
      /\ replied' \in {replied, [replied EXCEPT ![c.req.uid] = TRUE]}
  BY DEF StoreReply
<1>2. Once(Replies(n))' /\ (Queued(Replies(n))' => Queued(Replies(n)))
      /\ (c.req \in Replies(n) => Queued(Replies(n)) /\ ~Queued(Replies(n))')
  BY <1>1, CallbackOnce DEF Inv, ReplyInv, ChainOK
<1>3. CASE c.req \in Replies(n)
  <2>1. replied'[n] \in {replied[n], TRUE}
    BY <1>1 DEF Inv, TypeOK
  <2> QED
    BY <1>1, <1>2, <1>3, <2>1 DEF ReplyInv, ChainOK
<1>4. CASE c.req \notin Replies(n)
  <2>1. c.req.uid # n
    BY <1>1, <1>4, TakeDone DEF Inv, Replies
  <2>2. replied'[n] = replied[n]
    BY <1>1, <2>1 DEF Inv, TypeOK
  <2> QED
    BY <1>1, <1>2, <2>2, ChainKept DEF ReplyInv
<1> QED
  BY <1>3, <1>4

(* Every chain is kept single by Discord. *)
LEMMA ServeChain ==
  ASSUME Inv, ReplyInv,
         NEW r \in requests, NEW made \in BOOLEAN, NEW ok \in BOOLEAN, Serve(r, made, ok),
         NEW n \in Uid
  PROVE  ChainOK(n)'
<1>1. UNCHANGED <<replied, pressed, game>>
  BY DEF Serve, process
<1>2. Once(Replies(n))' /\ (Queued(Replies(n))' => Queued(Replies(n)))
  BY ServeOnce DEF Inv, ReplyInv, ChainOK
<1> QED
  BY <1>1, <1>2, ChainKept DEF ReplyInv

-----------------------------------------------------------------------------
(* No step breaks a chain. *)
LEMMA NextChain ==
  ASSUME Inv, ReplyInv, [Next]_vars
  PROVE  ReplyInv'
<1> SUFFICES ASSUME NEW n \in Uid PROVE ChainOK(n)'
  BY DEF ReplyInv
<1>1. CASE Command
  <2>1. PICK p \in Mentions : TttCommand(p[1], p[2])
    BY <1>1 DEF Command
  <2>2. p[1] \in Users /\ p[2] \in Users
    BY BotAssumption
  <2> QED
    BY <2>1, <2>2, CommandChain
<1>2. CASE OnButtonClick
  <2>1. ASSUME NEW e, IgnorePress(e) \/ RefuseCell(e) PROVE ChainOK(n)'
    BY <2>1, OtherChain DEF IgnorePress, RefuseCell, process
  <2> QED
    BY <1>2, <2>1, FirstYesChain, SecondYesChain, DeclineChain, PlayCellChain DEF OnButtonClick
<1>3. CASE RunCallback
  BY <1>3, SetOriginChain, ReplySentChain, StoreReplyChain, MoveShownChain, ResultShownChain
     DEF RunCallback
<1>4. CASE DiscordServes
  BY <1>4, ServeChain DEF DiscordServes
<1>5. CASE UserClick
  BY <1>5, OtherChain DEF UserClick, ClickAsk, ClickBoard, ClickButton, process
<1>6. CASE UNCHANGED vars
  BY <1>6, OtherChain DEF vars, process
<1> QED
  BY <1>1, <1>2, <1>3, <1>4, <1>5, <1>6 DEF Next

(* Nothing is pending at the start. *)
LEMMA InitChain == Init => ReplyInv
<1> SUFFICES ASSUME Init, NEW n \in Uid PROVE ChainOK(n)
  BY DEF ReplyInv
<1>1. requests = {} /\ Len(done) = 0 /\ ~replied[n] /\ pressed[n] = {} /\ game[n] = NoTtt
  BY DEF Init
<1>2. ~Over(game[n])
  BY <1>1, NoTttFields DEF Over
<1> QED
  BY <1>1, <1>2 DEF ChainOK, Once, Queued

(* Chains are whole for any number of commands, clicks and failures.       *)
THEOREM ChainsAreSingle == Spec => []ReplyInv
<1>1. Inv /\ ReplyInv /\ [Next]_vars => ReplyInv'
  BY NextChain
<1> QED
  BY <1>1, InitChain, Invariant, PTL DEF Spec

(* The requests of a chain that is pending are one request of a listed     *)
(* entry.                                                                  *)
LEMMA PendingIsOne ==
  ASSUME Inv, ReplyInv
  PROVE  ReplyPathIsSingle
<1> SUFFICES ASSUME NEW n \in Uid, PendingReplies(n) # {}
             PROVE  Cardinality(PendingReplies(n)) = 1 /\ ~replied[n] /\ n \in live
  BY DEF ReplyPathIsSingle
<1>1. ChainOK(n)
  BY DEF ReplyInv
<1>2. PICK x : x \in PendingReplies(n)
  OBVIOUS
<1>3. \A y \in PendingReplies(n) :
        \/ y \in requests /\ y \in Replies(n)
        \/ \E i \in 1..Len(done) : y = done[i].req /\ done[i].req \in Replies(n)
  <2>1. \A d \in Members(done) : d.req \in RequestSet
    <3>1. done \in Seq([req: RequestSet, ok: BOOLEAN])
      BY DEF Inv, TypeOK
    <3> QED
      BY <3>1, MembersType
  <2>2. requests \subseteq RequestSet
    BY DEF Inv, TypeOK
  <2> QED
    BY <2>1, <2>2 DEF PendingReplies, Members, Replies
<1>4. \A y \in PendingReplies(n) : y = x
  BY <1>1, <1>2, <1>3 DEF ChainOK, Once
<1>5. PendingReplies(n) = {x}
  BY <1>2, <1>4
<1>6. Queued(Replies(n)) /\ pressed[n] # {} /\ ~replied[n] /\ ~Over(game[n])
  BY <1>1, <1>2, <1>3 DEF ChainOK, Queued
<1>7. n \in 1..last
  BY <1>6 DEF Inv, TypeOK, EntryTypeOK, Uid
<1>8. n \in live
  BY <1>6, <1>7 DEF Inv, EraseOnlyFinished, Finished
<1> QED
  BY <1>5, <1>6, <1>8, FS_Singleton

(* ReplyPathIsSingle: the message a board goes to is stored at most once,  *)
(* into a listed entry (tictactoe.cpp:417-439), whatever fails.            *)
THEOREM ReplyCorrect == Spec => []ReplyPathIsSingle
BY Invariant, ChainsAreSingle, PendingIsOne, PTL

-----------------------------------------------------------------------------
(* When no request fails, the chain does not break off. *)

Shows(n) == reply[n] \in {"shown", "board"}

(* What the chain still needs to end well: the message is there when it is *)
(* fetched and what was asked for arrived, unless somebody declined.       *)
CanGoOn(r) ==
  /\ r.op = "delete" => declined[r.uid]
  /\ r.op = "fetch" => declined[r.uid] \/ Shows(r.uid)

HasGoneOn(c) ==
  /\ c.req.op = "confirm" => c.ok /\ (declined[c.req.uid] \/ Shows(c.req.uid))
  /\ c.req.op = "fetch" => c.ok \/ declined[c.req.uid]

PathInv ==
  /\ \A r \in requests : CanGoOn(r)
  /\ \A c \in Members(done) : HasGoneOn(c)
  /\ PressIsOnItsWay

(* What keeps PathInv: answers and messages stay, what is added is in good *)
(* order, and a reply that is no longer under way was stored or declined.  *)
LEMMA PathStep ==
  ASSUME Inv, PathInv, Running,
         \A n \in Uid : (declined[n] => declined'[n]) /\ (replied[n] => replied'[n]),
         \A n \in Uid : Shows(n) => Shows(n)' \/ declined'[n],
         \A r \in requests' : r \in requests \/ CanGoOn(r)',
         \A c \in Members(done') : c \in Members(done) \/ HasGoneOn(c)',
         \A n \in Uid : pressed'[n] # {} =>
           pressed[n] # {} \/ declined'[n] \/ PendingReplies(n)' # {},
         \A n \in Uid : PendingReplies(n) # {} =>
           fault' # "none" \/ replied'[n] \/ declined'[n] \/ PendingReplies(n)' # {}
  PROVE  PathInv'
<1>1. \A r \in requests' : CanGoOn(r)'
  <2>1. \A r \in requests : r.uid \in Uid
    BY RequestFields DEF Inv, TypeOK
  <2> QED
    BY <2>1 DEF PathInv, CanGoOn
<1>2. \A c \in Members(done') : HasGoneOn(c)'
  <2>1. \A c \in Members(done) : c.req.uid \in Uid
    <3>1. Members(done) \subseteq [req: RequestSet, ok: BOOLEAN]
      BY MembersType DEF Inv, TypeOK
    <3> QED
      BY <3>1, RequestFields
  <2> QED
    BY <2>1 DEF PathInv, HasGoneOn
<1>3. PressIsOnItsWay'
  BY DEF PathInv, PressIsOnItsWay, Crashed, Running
<1> QED
  BY <1>1, <1>2, <1>3 DEF PathInv

(* The replies that are pending are those under way. *)
LEMMA PendingUnderWay ==
  ASSUME NEW n
  PROVE  /\ PendingReplies(n) = {r \in UnderWay : r.op \in {"confirm", "fetch"} /\ r.uid = n}
         /\ PendingReplies(n)' = {r \in UnderWay' : r.op \in {"confirm", "fetch"} /\ r.uid = n}
BY DEF PendingReplies, UnderWay

(* A callback ends one completion and leaves the rest under way. *)
LEMMA CallbackUnderWay ==
  ASSUME TypeOK, NEW c, NEW op, Complete(c, op), requests \subseteq requests'
  PROVE  /\ Members(done') \subseteq Members(done)
         /\ \A r \in UnderWay : r \in UnderWay' \/ r = c.req
<1>1. Members(done) = {c} \cup Members(done') /\ Members(done') \subseteq Members(done)
  BY HeadOrTail, TakeDone DEF TypeOK, Complete
<1> QED
  BY <1>1 DEF UnderWay

(* Discord ends one request, and what somebody waits for stays under way.  *)
LEMMA ServeUnderWay ==
  ASSUME TypeOK,
         NEW r \in requests, NEW made \in BOOLEAN, NEW ok \in BOOLEAN, Serve(r, made, ok)
  PROVE  /\ \A c \in Members(done') : c \in Members(done) \/ (c.req = r /\ c.ok = ok)
         /\ \A q \in UnderWay : q \in UnderWay' \/ q = r
         /\ r.op \in Awaited => r \in UnderWay'
<1> DEFINE S == [req: RequestSet, ok: BOOLEAN]
           x == [req |-> r, ok |-> ok]
<1>1. x \in S /\ x.req = r /\ x.ok = ok /\ done \in Seq(S)
  BY DEF TypeOK
<1>2. Members(Append(done, x)) = Members(done) \cup {x}
  <2> HIDE DEF S, x
  <2> QED
    BY <1>1, AppendMembers
<1>3. done' = (IF r.op \in Awaited THEN Append(done, x) ELSE done) /\ requests' = requests \ {r}
  BY DEF Serve
<1> HIDE DEF S, x
<1>4. Members(done') = IF r.op \in Awaited THEN Members(done) \cup {x} ELSE Members(done)
  BY <1>2, <1>3
<1> QED
  BY <1>1, <1>3, <1>4 DEF UnderWay

(* Handlers that decline nothing, show nothing and start no chain. *)
LEMMA HandlerPath ==
  ASSUME Inv, PathInv, Running, requests \subseteq requests',
         UNCHANGED <<declined, replied, reply, done>>,
         \A r \in requests' : r \in requests \/ r.op \notin {"delete", "fetch"},
         \A n \in Uid : pressed'[n] # {} => pressed[n] # {} \/ PendingReplies(n)' # {}
  PROVE  PathInv'
<1>1. \A n \in Uid : PendingReplies(n) \subseteq PendingReplies(n)'
  BY PendingUnderWay DEF UnderWay
<1>2. \A r \in requests' : r \in requests \/ CanGoOn(r)'
  BY DEF CanGoOn
<1>3. \A n \in Uid : Shows(n) => Shows(n)'
  BY DEF Shows
<1> QED
  BY <1>1, <1>2, <1>3, PathStep

(* The first YES starts the chain of its entry, and a second one adds no   *)
(* press to an entry without presses.                                      *)
LEMMA YesPath ==
  ASSUME Inv, PathInv, Running, NEW e, FirstYes(e) \/ SecondYes(e)
  PROVE  PathInv'
<1>1. /\ Press(e) /\ e.uid \in Uid
      /\ pressed \in [Uid -> SUBSET Users]
      /\ pressed' = [pressed EXCEPT ![e.uid] = pressed[e.uid] \cup {e.user}]
      /\ UNCHANGED <<declined, replied, reply, done>>
  BY PressFacts DEF FirstYes, SecondYes, Press, discord, history, Inv, TypeOK
<1>2. \A n \in Uid : pressed'[n] # {} => pressed[n] # {} \/ n = e.uid
  BY <1>1
<1>3. CASE FirstYes(e)
  <2> DEFINE r == [op |-> "confirm", uid |-> e.uid, warned |-> TurnedAway(e.user, MaxTtt)]
  <2>1. requests' = requests \cup {r} /\ r.op = "confirm" /\ r.uid = e.uid
    BY <1>3 DEF FirstYes, Post
  <2> HIDE DEF r
  <2>2. PendingReplies(e.uid)' # {}
    <3>1. r \in UnderWay'
      BY <2>1 DEF UnderWay
    <3> QED
      BY <2>1, <3>1, PendingUnderWay
  <2> QED
    BY <1>1, <1>2, <2>1, <2>2, HandlerPath
<1>4. CASE SecondYes(e)
  <2>1. /\ requests \subseteq requests'
        /\ \A r \in requests' : r \in requests \/ r.op = "deploy"
        /\ pressed[e.uid] # {}
    BY <1>4 DEF SecondYes, Post
  <2> QED
    BY <1>1, <1>2, <2>1, HandlerPath
<1> QED
  BY <1>3, <1>4

(* A Nah is what excuses the entry from then on. *)
LEMMA DeclinePath ==
  ASSUME Inv, PathInv, Running, NEW e, Decline(e)
  PROVE  PathInv'
<1>1. /\ Press(e) /\ e.uid \in Uid
      /\ pressed \in [Uid -> SUBSET Users] /\ declined \in [Uid -> BOOLEAN]
      /\ pressed' = [pressed EXCEPT ![e.uid] = pressed[e.uid] \cup {e.user}]
      /\ declined' = [declined EXCEPT ![e.uid] = TRUE]
      /\ UNCHANGED <<replied, reply, done>>
  BY PressFacts DEF Decline, Press, discord, history, Inv, TypeOK
<1>2. /\ requests \subseteq requests'
      /\ \A r \in requests' : r \in requests \/ (r.op = "delete" /\ r.uid = e.uid)
  BY DEF Decline, Post
<1>3. /\ declined'[e.uid] /\ \A n \in Uid : declined[n] => declined'[n]
      /\ \A n \in Uid : pressed'[n] # {} => pressed[n] # {} \/ n = e.uid
  BY <1>1
<1>4. \A n \in Uid : PendingReplies(n) \subseteq PendingReplies(n)'
  BY <1>1, <1>2, PendingUnderWay DEF UnderWay
<1>5. \A r \in requests' : r \in requests \/ CanGoOn(r)'
  BY <1>2, <1>3 DEF CanGoOn
<1>6. \A n \in Uid : Shows(n) => Shows(n)'
  BY <1>1 DEF Shows
<1> QED
  BY <1>1, <1>3, <1>4, <1>5, <1>6, PathStep

(* A callback that has nothing to do with the chain. *)
LEMMA CallbackPath ==
  ASSUME Inv, PathInv, Running, NEW c, NEW op, op \notin {"confirm", "fetch"}, Complete(c, op),
         UNCHANGED <<declined, replied, reply, pressed>>, requests \subseteq requests',
         \A r \in requests' : r \in requests \/ r.op \notin {"delete", "fetch"}
  PROVE  PathInv'
<1>1. /\ Members(done') \subseteq Members(done) /\ c.req.op = op
      /\ \A r \in UnderWay : r \in UnderWay' \/ r = c.req
  BY CallbackUnderWay, TakeDone DEF Inv
<1>2. \A n \in Uid : PendingReplies(n) \subseteq PendingReplies(n)'
  BY <1>1, PendingUnderWay
<1>3. \A r \in requests' : r \in requests \/ CanGoOn(r)'
  BY DEF CanGoOn
<1>4. \A n \in Uid : Shows(n) => Shows(n)'
  BY DEF Shows
<1> QED
  BY <1>1, <1>2, <1>3, <1>4, PathStep

(* "(1/2)" was sent, and is fetched next. *)
LEMMA ReplySentPath ==
  ASSUME Inv, PathInv, Running, NEW c, ReplySent(c)
  PROVE  PathInv'
<1> DEFINE r == [op |-> "fetch", uid |-> c.req.uid, warned |-> c.req.warned]
<1>1. /\ Complete(c, "confirm") /\ UNCHANGED <<declined, replied, reply, pressed>>
      /\ requests' = requests \cup {r} /\ r.op = "fetch" /\ r.uid = c.req.uid
  BY DEF ReplySent, Post, process, discord, history
<1> HIDE DEF r
<1>2. /\ Members(done') \subseteq Members(done) /\ c \in Members(done) /\ c.req.op = "confirm"
      /\ \A q \in UnderWay : q \in UnderWay' \/ q = c.req
  BY <1>1, CallbackUnderWay, TakeDone DEF Inv
<1>3. r \in UnderWay'
  BY <1>1 DEF UnderWay
<1>4. \A n \in Uid : PendingReplies(n) # {} => PendingReplies(n)' # {}
  BY <1>1, <1>2, <1>3, PendingUnderWay
<1>5. \A n : Shows(n)' = Shows(n)
  BY <1>1 DEF Shows
<1>6. CanGoOn(r)'
  BY <1>1, <1>2, <1>5 DEF PathInv, HasGoneOn, CanGoOn
<1> QED
  BY <1>1, <1>2, <1>4, <1>5, <1>6, PathStep

(* The message is stored, unless somebody declined. *)
LEMMA StoreReplyPath ==
  ASSUME Inv, PathInv, Running, NEW c, StoreReply(c)
  PROVE  PathInv'
<1>1. /\ Complete(c, "fetch") /\ UNCHANGED <<declined, reply, pressed, requests>>
      /\ replied' = IF c.ok THEN [replied EXCEPT ![c.req.uid] = TRUE] ELSE replied
  BY DEF StoreReply, discord, history
<1>2. /\ Members(done') \subseteq Members(done) /\ c \in Members(done)
      /\ c.req.op = "fetch" /\ c.req.uid \in Uid
      /\ \A q \in UnderWay : q \in UnderWay' \/ q = c.req
  BY <1>1, CallbackUnderWay, TakeDone DEF Inv
<1>3. replied \in [Uid -> BOOLEAN]
  BY DEF Inv, TypeOK
<1>4. replied'[c.req.uid] \/ declined'[c.req.uid]
  BY <1>1, <1>2, <1>3 DEF PathInv, HasGoneOn
<1>5. \A n \in Uid : replied[n] => replied'[n]
  BY <1>1, <1>3
<1>6. \A n \in Uid : PendingReplies(n) # {} =>
                       replied'[n] \/ declined'[n] \/ PendingReplies(n)' # {}
  BY <1>2, <1>4, PendingUnderWay
<1>7. \A n \in Uid : Shows(n) => Shows(n)'
  BY <1>1 DEF Shows
<1> QED
  BY <1>1, <1>2, <1>5, <1>6, <1>7, PathStep

(* Discord sends "(1/2)", finds it, and deletes it for a Nah only. *)
LEMMA ServePath ==
  ASSUME ~Faulty, Inv, PathInv, Running,
         NEW r \in requests, NEW made \in BOOLEAN, NEW ok \in BOOLEAN, Serve(r, made, ok)
  PROVE  PathInv'
<1>1. /\ UNCHANGED <<declined, replied, pressed>> /\ requests' \subseteq requests
      /\ ok \/ ~CanSucceed(r)
      /\ reply' = [reply EXCEPT ![r.uid] =
                     IF ok /\ r.op \in DOMAIN NewReply THEN NewReply[r.op] ELSE reply[r.uid]]
  <2>1. made = ok
    BY DEF Serve
  <2> QED
    BY <2>1 DEF Serve, process
<1>2. r.uid \in Uid /\ reply \in [Uid -> {"none", "shown", "board", "deleted"}]
  BY RequestFields DEF Inv, TypeOK
<1>3. /\ \A c \in Members(done') : c \in Members(done) \/ (c.req = r /\ c.ok = ok)
      /\ \A q \in UnderWay : q \in UnderWay' \/ q = r
      /\ r.op \in Awaited => r \in UnderWay'
  BY ServeUnderWay DEF Inv
<1>4. \A n \in Uid : Shows(n) => Shows(n)' \/ declined'[n]
  <2>1. r.op \in DOMAIN NewReply => NewReply[r.op] \in {"shown", "board"} \/ r.op = "delete"
    BY DEF NewReply
  <2>2. r.op = "delete" => declined'[r.uid]
    BY <1>1 DEF PathInv, CanGoOn
  <2> QED
    BY <1>1, <1>2, <2>1, <2>2 DEF Shows
<1>5. \A c \in Members(done') : c \in Members(done) \/ HasGoneOn(c)'
  <2>1. r.op = "confirm" => ok /\ Shows(r.uid)'
    BY <1>1, <1>2 DEF CanSucceed, NewReply, Shows
  <2>2. r.op = "fetch" => ok \/ declined'[r.uid]
    BY <1>1 DEF PathInv, CanGoOn, CanSucceed, Shows
  <2> QED
    BY <1>3, <2>1, <2>2 DEF HasGoneOn
<1>6. \A n \in Uid : PendingReplies(n) \subseteq PendingReplies(n)'
  BY <1>3, PendingUnderWay DEF Awaited
<1> QED
  BY <1>1, <1>4, <1>5, <1>6, PathStep

(* No step breaks the chain off. *)
LEMMA NextPath ==
  ASSUME ~Faulty, Inv, PathInv, [Next]_vars
  PROVE  PathInv'
<1>1. CASE Command
  <2>1. PICK p \in Mentions : TttCommand(p[1], p[2])
    BY <1>1 DEF Command
  <2>2. /\ Running /\ requests \subseteq requests' /\ pressed' = pressed
        /\ UNCHANGED <<declined, replied, reply, done>>
        /\ \A r \in requests' : r \in requests \/ r.op = "ask"
    BY <1>1, <2>1 DEF Command, TttCommand, Post, discord, history
  <2> QED
    BY <2>2, HandlerPath
<1>2. CASE OnButtonClick
  <2>1. PICK e : \/ FirstYes(e) \/ SecondYes(e) \/ Decline(e) \/ IgnorePress(e)
                 \/ PlayCell(e) \/ RefuseCell(e)
    BY <1>2 DEF OnButtonClick
  <2>2. Running
    BY <1>2 DEF OnButtonClick
  <2>3. CASE IgnorePress(e) \/ PlayCell(e) \/ RefuseCell(e)
    <3>1. /\ requests \subseteq requests' /\ UNCHANGED <<pressed, declined, replied, reply, done>>
          /\ \A r \in requests' : r \in requests \/ r.op = "move"
      BY <2>3 DEF IgnorePress, PlayCell, RefuseCell, Post, process, discord, history
    <3> QED
      BY <2>2, <3>1, HandlerPath
  <2> QED
    BY <2>1, <2>2, <2>3, YesPath, DeclinePath
<1>3. CASE RunCallback
  <2>1. PICK c : SetOrigin(c) \/ ReplySent(c) \/ StoreReply(c) \/ MoveShown(c) \/ ResultShown(c)
    BY <1>3 DEF RunCallback
  <2>2. Running
    BY <1>3 DEF RunCallback
  <2>3. CASE SetOrigin(c) \/ MoveShown(c) \/ ResultShown(c)
    <3>1. /\ requests \subseteq requests' /\ UNCHANGED <<pressed, declined, replied, reply>>
          /\ \A r \in requests' : r \in requests \/ r.op = "result"
      BY <2>3 DEF SetOrigin, MoveShown, ResultShown, Post, discord, history
    <3>2. PICK op \in {"ask", "move", "result"} : Complete(c, op)
      BY <2>3 DEF SetOrigin, MoveShown, ResultShown
    <3> QED
      BY <2>2, <3>1, <3>2, CallbackPath
  <2> QED
    BY <2>1, <2>2, <2>3, ReplySentPath, StoreReplyPath
<1>4. CASE DiscordServes
  BY <1>4, ServePath DEF DiscordServes
<1>5. CASE UserClick
  <2>1. Running /\ UNCHANGED <<requests, pressed, declined, replied, reply, done>>
    BY <1>5 DEF UserClick, ClickAsk, ClickBoard, ClickButton, process, discord, history
  <2> QED
    BY <2>1, HandlerPath
<1>6. CASE UNCHANGED vars
  BY <1>6 DEF vars, process, discord, history, PathInv, CanGoOn, HasGoneOn, Shows, PressIsOnItsWay,
              PendingReplies, Members, Crashed
<1> QED
  BY <1>1, <1>2, <1>3, <1>4, <1>5, <1>6 DEF Next

(* Nobody has pressed at the start. *)
LEMMA InitPath == Init => PathInv
BY DEF Init, PathInv, PressIsOnItsWay, Members

(* PressIsOnItsWay: when no request fails, what follows a press never      *)
(* breaks off before the message is stored or somebody declined, however   *)
(* presses, answers and other entries overlap (tictactoe.cpp:414-440).     *)
THEOREM PressesGoOn ==
  ASSUME ~Faulty
  PROVE  Spec => []PressIsOnItsWay
<1>1. Inv /\ PathInv /\ [Next]_vars => PathInv'
  BY NextPath
<1>2. PathInv => PressIsOnItsWay
  BY DEF PathInv
<1> QED
  BY <1>1, <1>2, InitPath, Invariant, PTL DEF Spec
=============================================================================
