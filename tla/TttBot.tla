------------------------------- MODULE TttBot -------------------------------
(***************************************************************************)
(* The bot: ttt_list_g, the handlers of the gateway thread (the `ttt'      *)
(* command and on_button_click, which runs on_confirm_click and then       *)
(* on_ttt_interaction) and the REST callbacks, which run on another        *)
(* thread.  Around them, as the code uses them: the users, who click what  *)
(* the messages show, and D++ with Discord, which carries out requests.    *)
(*                                                                         *)
(* A handler and a callback are one step each.  A list iterator is the     *)
(* uid of its node: std::list keeps iterators valid until their node is    *)
(* erased.  push_back appends and uids grow, so list order is uid order    *)
(* and the list is a set of uids.                                          *)
(***************************************************************************)
EXTENDS Board, Sequences

CONSTANTS
  Mentions,     \* bound: the pairs <<u, m>> such that u may challenge m
  Bots,         \* the members of Users that are bots: they click nothing
  MaxTtt,       \* bound: accepted ttt commands
  MaxInFlight,  \* bound: what is under way when a user clicks
  Aim,          \* bound: the squares each user ever clicks
  Faulty        \* may a request fail, or its answer be lost?

ASSUME BotAssumption ==
  /\ Bots \subseteq Users /\ Mentions \subseteq Users \X Users
  /\ MaxTtt \in Nat /\ MaxInFlight \in Nat
  /\ Aim \in [Users -> SUBSET Cells]
  /\ Faulty \in BOOLEAN

Uid == 1..MaxTtt

VARIABLES
  (* the process *)
  last,      \* the latest uid given to an entry
  live,      \* the entries of ttt_list_g
  game,      \* first half of an entry, the ttt object
  origin,    \* its have_origin
  pressed,   \* second half: the players whose is_player_k_confm is set
  replied,   \* its st.replied; game and replied_msg are set with it
  fault,     \* the undefined behaviour that ended the process, if any
  (* Discord *)
  ask,       \* is the invitation (YES / Nah) in the channel?
  reply,     \* the "(1/2)" message that becomes the board
  screen,    \* the board it shows
  announced, \* the result messages
  (* between the two *)
  clicks,    \* clicks on their way to the bot, in order
  requests,  \* requests posted and not carried out yet
  done,      \* completions whose callback has not run yet, in order
  (* history *)
  declined,  \* did a player's "Nah" count?
  lost       \* was the answer to the invitation lost?

process == <<last, live, game, origin, pressed, replied, fault>>
discord == <<ask, reply, screen, announced>>
history == <<declined, lost>>
vars    == <<process, discord, clicks, requests, done, history>>

AskButtons == {"yes", "no"}

ClickSet == [user: Users, uid: Uid, button: AskButtons]
       \cup [user: Users, uid: Uid, button: {"cell"}, cell: Cells]

RequestSet == [op: {"ask", "delete"}, uid: Uid]
         \cup [op: {"confirm", "fetch"}, uid: Uid, warned: BOOLEAN]
         \cup [op: {"deploy"}, uid: Uid, known: BOOLEAN, view: View]
         \cup [op: {"move"}, uid: Uid, user: Users, turns: Nat, first: BOOLEAN, view: View]
         \cup [op: {"result"}, uid: Uid, user: Users, turns: Nat, result: Results]

NoTtt == NewTtt(NoUser, NoUser)

Init ==
  /\ last = 0 /\ live = {} /\ fault = "none"
  /\ game = [n \in Uid |-> NoTtt]
  /\ origin = [n \in Uid |-> FALSE]
  /\ pressed = [n \in Uid |-> {}]
  /\ replied = [n \in Uid |-> FALSE]
  /\ ask = [n \in Uid |-> FALSE]
  /\ reply = [n \in Uid |-> "none"]
  /\ screen = [n \in Uid |-> Render(NoTtt)]
  /\ announced = {} /\ requests = {}
  /\ clicks = <<>> /\ done = <<>>
  /\ declined = [n \in Uid |-> FALSE]
  /\ lost = [n \in Uid |-> FALSE]

(* The first undefined behaviour ends the behaviour of the model. *)
Running == fault = "none"

Post(r) == requests' = requests \cup {r}

-----------------------------------------------------------------------------
(* Gateway thread: the ttt command. *)

(* u mentions m first.  Bots and oneself are refused with a message only;  *)
(* otherwise an entry is pushed and the invitation is sent.                *)
TttCommand(u, m) ==
  /\ last < MaxTtt
  /\ m \notin Bots /\ m # u
  /\ last' = last + 1
  /\ live' = live \cup {last + 1}
  /\ game' = [game EXCEPT ![last + 1] = NewTtt(u, m)]
  /\ Post([op |-> "ask", uid |-> last + 1])
  /\ UNCHANGED <<origin, pressed, replied, fault, discord, clicks, done, history>>

-----------------------------------------------------------------------------
(* Gateway thread: a click on the invitation. *)

Mutant_TurnedAway(u, n) == \E m \in live : m < n /\ ~IsPlayer(game[m], u)

(* The scan of on_confirm_click stops at the first entry the user does not *)
(* play in, and answers "that's not your button!".                         *)
TurnedAway(u, n) == \E m \in live : m <= n /\ ~IsPlayer(game[m], u)

Mutant_PressCounts(e) ==
  e.uid \in live /\ ~TurnedAway(e.user, e.uid)

(* The scan reaches the entry of the button, and the player is new to it.  *)
PressCounts(e) ==
  /\ e.uid \in live
  /\ ~TurnedAway(e.user, e.uid)
  /\ e.user \notin pressed[e.uid]

Take(e) ==
  /\ clicks # <<>>
  /\ e = Head(clicks)
  /\ clicks' = Tail(clicks)

Mutant_Press(e) ==
  /\ Take(e)
  /\ PressCounts(e)
  /\ pressed' = [pressed EXCEPT ![e.uid] = {e.user}]

Mutant_PressForgotten(e) ==
  /\ Take(e)
  /\ PressCounts(e)
  /\ UNCHANGED pressed

Press(e) ==
  /\ Take(e)
  /\ PressCounts(e)
  /\ pressed' = [pressed EXCEPT ![e.uid] = @ \cup {e.user}]

(* set_origin_embed assigns to embeds.front(), and the embeds are empty    *)
(* until set_origin has run.                                               *)
NeedsOrigin(n) == fault' = IF origin[n] THEN fault ELSE "origin"

(* The scan goes on, and a later entry may still answer the same click.    *)
FirstYes(e) ==
  /\ Press(e) /\ e.button = "yes" /\ pressed[e.uid] = {}
  /\ Post([op |-> "confirm", uid |-> e.uid, warned |-> TurnedAway(e.user, MaxTtt)])
  /\ UNCHANGED <<last, live, game, origin, replied, fault, discord, done, history>>

(* The other player has pressed too -- YES or Nah -- so the game starts:   *)
(* the board replaces the "(1/2)" message, if that is known by now.        *)
SecondYes(e) ==
  /\ Press(e) /\ e.button = "yes" /\ pressed[e.uid] # {}
  /\ NeedsOrigin(e.uid)
  /\ game' = [game EXCEPT ![e.uid] = InitGame(@)]
  /\ Post([op |-> "deploy", uid |-> e.uid, known |-> replied[e.uid],
           view |-> Render(InitGame(game[e.uid]))])
  /\ UNCHANGED <<last, live, origin, replied, discord, done, history>>

(* "Nah": the press is recorded as a YES is, and the entry stays. *)
Decline(e) ==
  /\ Press(e) /\ e.button = "no"
  /\ NeedsOrigin(e.uid)
  /\ IF replied[e.uid] THEN Post([op |-> "delete", uid |-> e.uid]) ELSE UNCHANGED requests
  /\ declined' = [declined EXCEPT ![e.uid] = TRUE]
  /\ UNCHANGED <<last, live, game, origin, replied, discord, done, lost>>

IgnorePress(e) ==
  /\ Take(e) /\ e.button \in AskButtons /\ ~PressCounts(e)
  /\ UNCHANGED <<process, discord, requests, done, history>>

-----------------------------------------------------------------------------
(* Gateway thread: a click on a board. *)

(* The click is on the game message of a listed entry, and may be played. *)
CellCounts(e) ==
  /\ e.uid \in live /\ replied[e.uid]
  /\ MayPlay(game[e.uid], e.user, e.cell)

(* on_confirm_click has run first on the same event; it answers it if any  *)
(* entry is not the user's, and Discord takes one answer per click.        *)
PlayCell(e) ==
  /\ Take(e) /\ e.button = "cell" /\ CellCounts(e)
  /\ game' = [game EXCEPT ![e.uid] = Play(@, e.cell)]
  /\ Post([op |-> "move", uid |-> e.uid, user |-> e.user, turns |-> game'[e.uid].turns,
           first |-> ~TurnedAway(e.user, MaxTtt), view |-> Render(game'[e.uid])])
  /\ UNCHANGED <<last, live, origin, pressed, replied, fault, discord, done, history>>

RefuseCell(e) ==
  /\ Take(e) /\ e.button = "cell" /\ ~CellCounts(e)
  /\ UNCHANGED <<process, discord, requests, done, history>>

OnButtonClick ==
  /\ Running
  /\ \E e \in {clicks[i] : i \in 1..Len(clicks)} :
       \/ FirstYes(e) \/ SecondYes(e) \/ Decline(e) \/ IgnorePress(e)
       \/ PlayCell(e) \/ RefuseCell(e)

-----------------------------------------------------------------------------
(* REST thread: the callbacks of main.cpp and tictactoe.cpp.  Those that   *)
(* only log are left out, and so are completions nobody waits for.         *)

Complete(c, op) ==
  /\ done # <<>>
  /\ c = Head(done)
  /\ c.req.op = op
  /\ done' = Tail(done)

(* The callback holds an iterator; its node may have been erased. *)
NeedsEntry(n) == fault' = IF n \in live THEN fault ELSE "iterator"

Mutant_SetOrigin(c) ==
  /\ Complete(c, "ask")
  /\ UNCHANGED <<process, discord, clicks, requests, history>>

SetOrigin(c) ==
  /\ Complete(c, "ask")
  /\ origin' = [origin EXCEPT ![c.req.uid] = @ \/ (c.ok /\ c.req.uid \in live)]
  /\ UNCHANGED <<last, live, game, pressed, replied, fault, discord, clicks, requests, history>>

(* The error of event.reply is not looked at. *)
ReplySent(c) ==
  /\ Complete(c, "confirm")
  /\ Post([op |-> "fetch", uid |-> c.req.uid, warned |-> c.req.warned])
  /\ UNCHANGED <<process, discord, clicks, history>>

Mutant_StoreReply(c) ==
  /\ Complete(c, "fetch")
  /\ UNCHANGED <<process, discord, clicks, requests, history>>

StoreReply(c) ==
  /\ Complete(c, "fetch")
  /\ IF c.ok THEN /\ NeedsEntry(c.req.uid)
                  /\ replied' = [replied EXCEPT ![c.req.uid] = TRUE]
             ELSE UNCHANGED <<fault, replied>>
  /\ UNCHANGED <<last, live, game, origin, pressed, discord, clicks, requests, history>>

Mutant_Announces(c) == c.ok

(* The result is read when the callback runs, not when the move was made.  *)
Announces(c) == c.ok /\ Over(game[c.req.uid])

(* Mutant: the winner is taken from the turn, which has been swapped. *)
Mutant_MoveShown(c) ==
  /\ Complete(c, "move")
  /\ IF Announces(c)
       THEN Post([op |-> "result", uid |-> c.req.uid, user |-> game[c.req.uid].turn,
                  turns |-> c.req.turns, result |-> game[c.req.uid].result])
       ELSE UNCHANGED requests
  /\ UNCHANGED <<process, discord, clicks, history>>

(* Mutant: the entry is erased as soon as its result is known. *)
Mutant_MoveShownErases(c) ==
  /\ Complete(c, "move")
  /\ IF c.ok THEN NeedsEntry(c.req.uid) ELSE UNCHANGED fault
  /\ IF Announces(c)
       THEN /\ live' = live \ {c.req.uid}
            /\ Post([op |-> "result", uid |-> c.req.uid, user |-> c.req.user,
                     turns |-> c.req.turns, result |-> game[c.req.uid].result])
       ELSE UNCHANGED <<live, requests>>
  /\ UNCHANGED <<last, game, origin, pressed, replied, discord, clicks, history>>

(* A result also changes the embed of the origin message. *)
MoveShown(c) ==
  /\ Complete(c, "move")
  /\ IF c.ok /\ c.req.uid \notin live THEN fault' = "iterator"
     ELSE IF Announces(c) THEN NeedsOrigin(c.req.uid)
     ELSE UNCHANGED fault
  /\ IF Announces(c)
       THEN Post([op |-> "result", uid |-> c.req.uid, user |-> c.req.user,
                  turns |-> c.req.turns, result |-> game[c.req.uid].result])
       ELSE UNCHANGED requests
  /\ UNCHANGED <<last, live, game, origin, pressed, replied, discord, clicks, history>>

Mutant_ResultShown(c) ==
  /\ Complete(c, "result")
  /\ UNCHANGED <<process, discord, clicks, requests, history>>

(* The callback holds its iterator by reference into the closure of the    *)
(* callback above, which is gone: it may still find the value, or not.     *)
ResultShown(c) ==
  /\ Complete(c, "result")
  /\ IF c.ok THEN \/ /\ NeedsEntry(c.req.uid)
                     /\ live' = live \ {c.req.uid}
                  \/ /\ fault' = "capture"
                     /\ UNCHANGED live
             ELSE UNCHANGED <<fault, live>>
  /\ UNCHANGED <<last, game, origin, pressed, replied, discord, clicks, requests, history>>

RunCallback ==
  /\ Running
  /\ \E c \in {done[i] : i \in 1..Len(done)} :
       SetOrigin(c) \/ ReplySent(c) \/ StoreReply(c) \/ MoveShown(c) \/ ResultShown(c)

-----------------------------------------------------------------------------
(* Discord and the network. *)

(* What must hold in Discord for a request to be carried out.  A click     *)
(* takes one answer: the update of the board is not the first if the       *)
(* warning of on_confirm_click got there, and the fetch may find that      *)
(* warning where "(1/2)" should be.                                        *)
CanSucceed(r) ==
  CASE r.op \in {"ask", "confirm", "result"} -> TRUE
    [] r.op = "fetch"  -> reply[r.uid] \in {"shown", "board"} \/ r.warned
    [] r.op = "delete" -> reply[r.uid] \in {"shown", "board"}
    [] r.op = "deploy" -> r.known /\ reply[r.uid] \in {"shown", "board"}
    [] r.op = "move"   -> r.first \/ Faulty

NewReply == [confirm |-> "shown", deploy |-> "board", move |-> "board", delete |-> "deleted"]

(* Requests somebody waits for; the other callbacks only log. *)
Awaited == {"ask", "confirm", "fetch", "move", "result"}

(* Requests to different endpoints overtake each other; completions are    *)
(* handed to the callback thread in the order they happen.  A request that *)
(* was carried out is reported as an error when its answer is lost.        *)
Serve(r, made, ok) ==
  /\ made => CanSucceed(r)
  /\ ~made => Faulty \/ ~CanSucceed(r)
  /\ ok # made => made /\ Faulty
  /\ requests' = requests \ {r}
  /\ ask' = [ask EXCEPT ![r.uid] = @ \/ (made /\ r.op = "ask")]
  /\ reply' = [reply EXCEPT ![r.uid] = IF made /\ r.op \in DOMAIN NewReply THEN NewReply[r.op] ELSE @]
  /\ screen' = [screen EXCEPT ![r.uid] = IF made /\ r.op \in {"deploy", "move"} THEN r.view ELSE @]
  /\ announced' = IF made /\ r.op = "result" THEN announced \cup {r} ELSE announced
  /\ done' = IF r.op \in Awaited THEN Append(done, [req |-> r, ok |-> ok]) ELSE done
  /\ lost' = [lost EXCEPT ![r.uid] = @ \/ (r.op = "ask" /\ ok # made)]
  /\ UNCHANGED <<process, clicks, declined>>

DiscordServes == Running /\ \E r \in requests, made, ok \in BOOLEAN : Serve(r, made, ok)

-----------------------------------------------------------------------------
(* Users: anyone but a bot clicks any button that is shown and enabled. *)

ClickButton(e) ==
  /\ Len(clicks) + Cardinality(requests) + Len(done) < MaxInFlight
  /\ clicks' = Append(clicks, e)
  /\ UNCHANGED <<process, discord, requests, done, history>>

ClickAsk(u, n) ==
  /\ ask[n]
  /\ \E b \in AskButtons : ClickButton([user |-> u, uid |-> n, button |-> b])

ClickBoard(u, n) ==
  /\ reply[n] = "board" /\ ~screen[n].disabled
  /\ \E c \in Aim[u] : ClickButton([user |-> u, uid |-> n, button |-> "cell", cell |-> c])

UserClick ==
  /\ Running
  /\ \E u \in Users \ Bots, n \in Uid : ClickAsk(u, n) \/ ClickBoard(u, n)

-----------------------------------------------------------------------------
Command == Running /\ \E p \in Mentions : TttCommand(p[1], p[2])

Next == Command \/ OnButtonClick \/ RunCallback \/ DiscordServes \/ UserClick

Spec == Init /\ [][Next]_vars

(* The gateway thread, the callback thread and Discord keep working; no    *)
(* user has to do anything.                                                *)
FairSpec ==
  /\ Spec
  /\ WF_vars(OnButtonClick)
  /\ WF_vars(RunCallback)
  /\ WF_vars(DiscordServes)

-----------------------------------------------------------------------------
(* Safety *)

Members(s) == {s[i] : i \in 1..Len(s)}

Faults == {"none", "origin", "iterator", "capture"}

(* Every variable keeps its type; the list holds entries that were pushed, *)
(* a press is always one of the two players' (tictactoe.cpp:378-404), and  *)
(* nothing is pressed before its entry exists.                             *)
EntryTypeOK(n) ==
  IF n <= last
    THEN game[n] \in Ttt /\ pressed[n] \subseteq {game[n].p1, game[n].p2}
    ELSE game[n] = NoTtt /\ pressed[n] = {}

TypeOK ==
  /\ last \in 0..MaxTtt /\ live \subseteq 1..last /\ fault \in Faults
  /\ game \in [Uid -> Ttt \cup {NoTtt}] /\ pressed \in [Uid -> SUBSET Users]
  /\ \A n \in Uid : EntryTypeOK(n)
  /\ origin \in [Uid -> BOOLEAN] /\ replied \in [Uid -> BOOLEAN]
  /\ ask \in [Uid -> BOOLEAN] /\ declined \in [Uid -> BOOLEAN] /\ lost \in [Uid -> BOOLEAN]
  /\ reply \in [Uid -> {"none", "shown", "board", "deleted"}]
  /\ screen \in [Uid -> View]
  /\ requests \cup announced \subseteq RequestSet
  /\ clicks \in Seq(ClickSet)
  /\ done \in Seq([req: RequestSet, ok: BOOLEAN])

Finished(n) == n \in 1..last /\ Over(game[n])

(* Whatever fails or overtakes, an entry leaves ttt_list_g only after its  *)
(* game ended and the right result was shown (tictactoe.cpp:604-637).      *)
EraseOnlyFinished ==
  \A n \in (1..last) \ live :
    /\ Finished(n)
    /\ \E a \in announced : a.uid = n /\ a.result = game[n].result

(* A board on the screen or on its way there never shows more than was     *)
(* played: updates that overtake each other leave it stale, not wrong, and *)
(* the buttons are disabled only when the game is over.                    *)
IsPast(v, g) ==
  /\ \A c \in Cells : v.board[c] # "IDLE" => v.board[c] = g.board[c]
  /\ v.won \subseteq g.won
  /\ v.disabled => Over(g)

ScreenIsPast ==
  /\ \A n \in Uid : reply[n] = "board" => IsPast(screen[n], game[n])
  /\ \A r \in requests : r.op \in {"deploy", "move"} => IsPast(r.view, game[r.uid])

(* No game starts on one player's clicks alone, however often and wherever *)
(* they click (tictactoe.cpp:411-412 and 495-496).                         *)
BothPressed ==
  \A n \in 1..last : Started(game[n]) => pressed[n] = {game[n].p1, game[n].p2}

(* Every game that was started, next to any other and under any clicks, is *)
(* decided rightly and played in turns (tictactoe.cpp:51-142, 545-590).    *)
EveryGameIsRight ==
  \A n \in 1..last : Started(game[n]) => RightResult(game[n]) /\ FairTurns(game[n])

PendingReplies(n) ==
  {r \in requests : r.op \in {"confirm", "fetch"} /\ r.uid = n}
    \cup {c.req : c \in {d \in Members(done) : d.req.op \in {"confirm", "fetch"} /\ d.req.uid = n}}

(* The chain event.reply, get_original_response, "store replied message"   *)
(* runs at most once per entry: the message the board goes to is never     *)
(* replaced, and the entry is there when the last callback stores into it. *)
ReplyPathIsSingle ==
  \A n \in Uid : PendingReplies(n) # {} =>
    Cardinality(PendingReplies(n)) = 1 /\ ~replied[n] /\ n \in live

(* The embed of the origin message is replaced before it is known for two  *)
(* reasons only: a press overtook the callback of the invitation, which is *)
(* still waiting, or the invitation is in the channel and its answer was   *)
(* lost.  No other failure, no result and no later press finds the message *)
(* missing (main.cpp:205-217, tictactoe.hpp:121).                          *)
OriginFaultHasCause ==
  fault = "origin" =>
    \E n \in 1..last :
      /\ pressed[n] # {} /\ ~origin[n]
      /\ lost[n] \/ \E c \in Members(done) : c.req.op = "ask" /\ c.req.uid = n /\ c.ok

(* The result is read late, but every result message names the player of   *)
(* the move it reports, and a move is reported once (tictactoe.cpp:609).   *)
Mover(g, turns) == IF turns % 2 = 1 THEN g.p1 ELSE g.p2

ResultIsOfItsMove ==
  /\ \A a \in announced :
       a.turns \in 1..game[a.uid].turns /\ a.user = Mover(game[a.uid], a.turns)
  /\ \A a, b \in announced : a.uid = b.uid /\ a.turns = b.turns => a = b

(* A callback finds its entry erased only after the result of another move *)
(* of the same game was shown: the storing of a message never does, and    *)
(* one result never erases twice (tictactoe.cpp:421, 604, 637).            *)
IteratorFaultHasCause ==
  [][fault = "none" /\ fault' = "iterator" =>
       LET r == Head(done).req
       IN  /\ r.op \in {"move", "result"}
           /\ \E a \in announced : a.uid = r.uid /\ a.turns # r.turns]_vars

(* A step changes presses or boards of one entry only: the one the oldest  *)
(* click is for, and only if the click came from a player of that entry.   *)
OnlyTheClickedEntry ==
  [][\A n \in 1..last :
       pressed'[n] # pressed[n] \/ game'[n] # game[n] =>
         /\ clicks # <<>>
         /\ Head(clicks).uid = n /\ IsPlayer(game[n], Head(clicks).user)]_vars

(* A game that was started is never started again or set back, by a press  *)
(* that comes twice or a callback that comes late: what was played, won or *)
(* decided stays (tictactoe.cpp:411-412, 451, and init_game at 27).        *)
NoGameGoesBack ==
  [][\A n \in 1..last :
       Started(game[n]) =>
         /\ Started(game'[n]) /\ IsPast(Render(game[n]), game'[n])
         /\ Over(game[n]) => game'[n].result = game[n].result]_vars

(* Every ttt command goes through the phases of Lifecycle: none is skipped *)
(* or entered twice, and only an ended game leaves the list.               *)
Phase(n) ==
  IF n > last THEN "absent"
  ELSE IF n \notin live THEN "erased"
  ELSE IF Over(game[n]) THEN "over"
  ELSE IF Started(game[n]) THEN "playing"
  ELSE "asked"

Promise == INSTANCE Lifecycle WITH phase <- [n \in Uid |-> Phase(n)]

FollowsLifecycle == Promise!Spec

-----------------------------------------------------------------------------
(* What makes the safety properties inductive *)

(* An entry is a new object until its game starts, and good from then on.  *)
EntryInv ==
  \A n \in 1..last :
    /\ game[n].p1 # game[n].p2
    /\ IF Started(game[n]) THEN Good(game[n])
                           ELSE game[n] = NewTtt(game[n].p1, game[n].p2)

(* A result on its way, on the screen or reported back is the game's, and  *)
(* final.                                                                  *)
IsFinal(r) == r.op = "result" => Over(game[r.uid]) /\ r.result = game[r.uid].result

ResultInv ==
  /\ \A r \in requests \cup announced : IsFinal(r)
  /\ \A c \in Members(done) :
       c.ok /\ c.req.op = "result" => c.req \in announced

-----------------------------------------------------------------------------
(* Liveness, under FairSpec, and what keeps it going at every moment *)

Crashed == fault # "none"

UnderWay == requests \cup {c.req : c \in Members(done)}

(* While no request fails and no two entries have different players: an    *)
(* ended game that is still listed is about to be announced or erased; no  *)
(* callback may drop it (tictactoe.cpp:594-645).                           *)
EndedIsOnItsWay ==
  \A n \in live : Over(game[n]) /\ ~Crashed =>
    \E r \in UnderWay : r.uid = n /\ r.op \in {"move", "result"}

(* While no request fails: after a press the "(1/2)" message is stored, or *)
(* being sent or fetched, unless somebody declined (tictactoe.cpp:414-440).*)
PressIsOnItsWay ==
  \A n \in Uid : pressed[n] # {} /\ ~Crashed =>
    replied[n] \/ declined[n] \/ PendingReplies(n) # {}

(* "the game has finished, we no longer wanted to store the data anymore"  *)
(* (tictactoe.cpp:636): an ended game is erased.                           *)
FinishedIsErased ==
  \A n \in Uid : (n \in live /\ Over(game[n])) ~> (n \notin live \/ Crashed)

(* The "(1/2)" message is stored after the first press, unless that press  *)
(* or a later one declines: the board will have a message to go to.        *)
PressIsAnswered ==
  \A n \in Uid : pressed[n] # {} ~> (replied[n] \/ declined[n] \/ Crashed)

-----------------------------------------------------------------------------
(* Claims of comments.  TLC refutes each of them, and FinishedIsErased as  *)
(* soon as there are entries of other people.                              *)

(* "someone that's not challenger pressthe button, warn them"              *)
(* (tictactoe.cpp:384): a player of the entry is heard, not warned.        *)
PressIsHeard ==
  [][\A e \in Members(clicks) :
       clicks' = Tail(clicks) /\ e = Head(clicks) /\ e.button \in AskButtons
         /\ e.uid \in live /\ IsPlayer(game[e.uid], e.user)
       => e.user \in pressed'[e.uid]]_vars

(* "both player is confirmed -> send tictactoe game!" (tictactoe.cpp:442): *)
(* a game somebody declined does not start.                                *)
DeclinedNeverStarts == \A n \in 1..last : declined[n] => ~Started(game[n])

(* "winner message" (tictactoe.cpp:608): who is said to have won has three *)
(* marks in a row.                                                         *)
HasWon(g, u) ==
  \E l \in Lines : Three(g.board, l) /\ g.board[l[1]] = IF u = g.p1 THEN "X" ELSE "O"

WinnerIsNamed ==
  \A a \in announced : a.result = "WON" => HasWon(game[a.uid], a.user)

Quiet == requests = {} /\ done = <<>> /\ fault = "none"

(* "this will later be edited to tic tac toe game if success"              *)
(* (tictactoe.cpp:425): once all answers are in, a started game that       *)
(* nobody declined has its board on the screen.                            *)
StartedIsDeployed ==
  \A n \in 1..last : Quiet /\ Started(game[n]) /\ ~declined[n] => reply[n] = "board"
=============================================================================
