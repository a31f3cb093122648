------------------------------- MODULE Buttons -------------------------------
(***************************************************************************)
(* Which entry a click on an invitation is for.  Entries and the buttons   *)
(* of their invitations are matched by numbers from UniqueID, whose        *)
(* counter the handlers of several shards increment without a lock and     *)
(* which starts again when the process does, while the messages stay in    *)
(* the channel.                                                            *)
(*                                                                         *)
(* A push, a traversal and a callback are one step each here, and all      *)
(* entries are between the same two players: what one entry does to the    *)
(* scan for another is the matter of TttBot.                               *)
(***************************************************************************)
EXTENDS Integers, FiniteSets

CONSTANTS
  Shards,      \* the gateway threads, one per shard
  Players,     \* those who press
  Order,       \* the order in which the compiler evaluates the three ids
  CellIds,     \* ids that the squares of one board take
  MaxCmd,      \* bound: ttt commands
  MaxRestart   \* bound: restarts of the process

Roles  == {"uid", "yes", "no"}
Choice == {"yes", "no"}
Cmd    == 1..MaxCmd

ASSUME ButtonsAssumption ==
  /\ Order \in [1..3 -> Roles] /\ \A i, j \in 1..3 : Order[i] = Order[j] => i = j
  /\ CellIds \in Nat /\ MaxCmd \in Nat /\ MaxRestart \in Nat

VARIABLES
  (* the process *)
  nextID,    \* UniqueID::nextID
  pc,        \* what each shard's handler does next
  reg,       \* the counter as it has loaded it
  left,      \* the ids it has still to take
  taken,     \* those it has taken for a ttt command
  pushed,    \* entries pushed so far, by all processes
  listed,    \* ttt_list_g
  pressed,   \* the players who have pressed in an entry
  started,   \* the entries whose game was started
  origin,    \* the invitation whose message is the origin message, or 0
  asked,     \* invitations posted and not answered yet
  answered,  \* those whose callback has not run yet
  (* Discord *)
  shown,     \* the invitations in the channel
  (* history *)
  ids,       \* the ids of every entry that was ever pushed
  epoch,     \* the process that pushed it
  restarts,
  begun,     \* ttt commands so far
  mixed,     \* did two increments of the counter overlap?
  heard      \* <<m, n>>: a press on the invitation of m counted for n

threads == <<pc, reg, left, taken>>
entries == <<pushed, listed, pressed, started, origin, ids, epoch>>
posts   == <<asked, answered, shown>>
counts  == <<restarts, begun>>
vars    == <<nextID, threads, entries, posts, counts, mixed, heard>>

NoIds == [r \in Roles |-> 0]

Init ==
  /\ nextID = 0 /\ pushed = 0 /\ restarts = 0 /\ begun = 0
  /\ pc = [s \in Shards |-> "idle"] /\ reg = [s \in Shards |-> 0]
  /\ left = [s \in Shards |-> 0] /\ taken = [s \in Shards |-> NoIds]
  /\ ids = [n \in Cmd |-> NoIds] /\ epoch = [n \in Cmd |-> 0]
  /\ pressed = [n \in Cmd |-> {}] /\ origin = [n \in Cmd |-> 0]
  /\ listed = {} /\ started = {} /\ asked = {} /\ answered = {} /\ shown = {}
  /\ mixed = FALSE /\ heard = {}

-----------------------------------------------------------------------------
(* UniqueID::UniqueID(), as often as the handler needs it.                 *)

LoadID(s) ==
  /\ pc[s] \in {"load", "loadCell"}
  /\ pc' = [pc EXCEPT ![s] = IF @ = "load" THEN "store" ELSE "storeCell"]
  /\ reg' = [reg EXCEPT ![s] = nextID]
  /\ mixed' = (mixed \/ \E t \in Shards \ {s} : pc[t] \in {"store", "storeCell"})
  /\ UNCHANGED <<nextID, left, taken, entries, posts, counts, heard>>

(* Mutant: the new number is not stored. *)
Mutant_StoreID(s) ==
  /\ pc[s] = "store"
  /\ left' = [left EXCEPT ![s] = @ - 1]
  /\ taken' = [taken EXCEPT ![s][Order[4 - left[s]]] = reg[s] + 1]
  /\ pc' = [pc EXCEPT ![s] = IF left[s] > 1 THEN "load" ELSE "push"]
  /\ UNCHANGED <<nextID, reg, entries, posts, counts, mixed, heard>>

(* id = ++nextID.  A command keeps the number; those of a board are in the *)
(* ids of its squares, which are compared on its own message only.         *)
StoreID(s) ==
  /\ pc[s] \in {"store", "storeCell"}
  /\ nextID' = reg[s] + 1
  /\ left' = [left EXCEPT ![s] = @ - 1]
  /\ reg' = [reg EXCEPT ![s] = 0]
  /\ IF pc[s] = "store"
       THEN /\ taken' = [taken EXCEPT ![s][Order[4 - left[s]]] = reg[s] + 1]
            /\ pc' = [pc EXCEPT ![s] = IF left[s] > 1 THEN "load" ELSE "push"]
       ELSE /\ pc' = [pc EXCEPT ![s] = IF left[s] > 1 THEN "loadCell" ELSE "idle"]
            /\ UNCHANGED taken
  /\ UNCHANGED <<entries, posts, counts, mixed, heard>>

-----------------------------------------------------------------------------
(* Handlers *)

(* Mutant: an entry is pushed before all its ids are taken. *)
Mutant_TttCommand(s) ==
  /\ pc[s] = "idle" /\ begun < MaxCmd
  /\ begun' = begun + 1
  /\ pc' = [pc EXCEPT ![s] = "load"]
  /\ left' = [left EXCEPT ![s] = 2]
  /\ UNCHANGED <<nextID, reg, taken, entries, posts, restarts, mixed, heard>>

TttCommand(s) ==
  /\ pc[s] = "idle" /\ begun < MaxCmd
  /\ begun' = begun + 1
  /\ pc' = [pc EXCEPT ![s] = "load"]
  /\ left' = [left EXCEPT ![s] = 3]
  /\ UNCHANGED <<nextID, reg, taken, entries, posts, restarts, mixed, heard>>

(* The entry is pushed and the invitation posted.  There is room for it,   *)
(* as every command pushes once.                                           *)
Push(s) ==
  /\ pc[s] = "push" /\ pushed < MaxCmd
  /\ pc' = [pc EXCEPT ![s] = "idle"]
  /\ taken' = [taken EXCEPT ![s] = NoIds]
  /\ pushed' = pushed + 1
  /\ listed' = listed \cup {pushed + 1}
  /\ ids' = [ids EXCEPT ![pushed + 1] = taken[s]]
  /\ epoch' = [epoch EXCEPT ![pushed + 1] = restarts]
  /\ asked' = asked \cup {pushed + 1}
  /\ UNCHANGED <<nextID, reg, left, pressed, started, origin, answered, shown,
                 counts, mixed, heard>>

(* The entries whose button b has the number of that of invitation m.      *)
Matching(m, b) == {n \in listed : ids[n][b] = ids[m][b]}

(* The scan returns at an entry in which the player has pressed before.    *)
Counting(u, m, b) ==
  {n \in Matching(m, b) : \A k \in Matching(m, b) : k <= n => u \notin pressed[k]}

(* Entries in which another player has pressed before are started. *)
Starting(u, m, b) ==
  IF b = "yes" THEN {n \in Counting(u, m, b) : pressed[n] # {}} ELSE {}

Press(s, u, m, b) ==
  /\ pc[s] = "idle" /\ m \in shown
  /\ Counting(u, m, b) # {}
  /\ pressed' = [n \in Cmd |-> IF n \in Counting(u, m, b) THEN pressed[n] \cup {u} ELSE pressed[n]]
  /\ heard' = heard \cup {<<m, n>> : n \in Counting(u, m, b)}
  /\ started' = started \cup Starting(u, m, b)
  /\ left' = [left EXCEPT ![s] = CellIds * Cardinality(Starting(u, m, b))]
  /\ pc' = [pc EXCEPT ![s] = IF left'[s] = 0 THEN "idle" ELSE "loadCell"]
  /\ UNCHANGED <<nextID, reg, taken, pushed, listed, origin, ids, epoch, posts, counts, mixed>>

-----------------------------------------------------------------------------
(* REST thread and Discord *)

(* The invitation appears, or the request fails, or the invitation appears *)
(* and the answer that says so is lost.                                    *)
Answer(n) ==
  /\ n \in asked
  /\ asked' = asked \ {n}
  /\ \/ shown' = shown \cup {n} /\ answered' = answered \cup {n}
     \/ shown' = shown \cup {n} /\ UNCHANGED answered
     \/ UNCHANGED <<shown, answered>>
  /\ UNCHANGED <<nextID, threads, entries, counts, mixed, heard>>

(* Mutant: the id is not compared. *)
Mutant_SetOrigin(n) ==
  /\ n \in answered
  /\ answered' = answered \ {n}
  /\ origin' = [k \in Cmd |-> IF k \in listed /\ origin[k] = 0 THEN n ELSE origin[k]]
  /\ UNCHANGED <<nextID, threads, pushed, listed, pressed, started, ids, epoch, asked, shown,
                 counts, mixed, heard>>

(* set_origin looks for the uid and goes on after it has found one.        *)
SetOrigin(n) ==
  /\ n \in answered
  /\ answered' = answered \ {n}
  /\ origin' = [k \in Cmd |->
       IF k \in listed /\ ids[k]["uid"] = ids[n]["uid"] /\ origin[k] = 0 THEN n ELSE origin[k]]
  /\ UNCHANGED <<nextID, threads, pushed, listed, pressed, started, ids, epoch, asked, shown,
                 counts, mixed, heard>>

(* The game of the entry has ended. *)
Erase(n) ==
  /\ n \in listed \cap started
  /\ listed' = listed \ {n}
  /\ UNCHANGED <<nextID, threads, pushed, pressed, started, origin, ids, epoch, posts,
                 counts, mixed, heard>>

(* The process ends at any point and is started again.  What was posted    *)
(* may still be carried out; nobody waits for it any more.                 *)
Restart ==
  /\ restarts < MaxRestart
  /\ restarts' = restarts + 1
  /\ nextID' = 0 /\ listed' = {}
  /\ pc' = [s \in Shards |-> "idle"] /\ reg' = [s \in Shards |-> 0]
  /\ left' = [s \in Shards |-> 0] /\ taken' = [s \in Shards |-> NoIds]
  /\ asked' = {} /\ answered' = {}
  /\ \E lost \in SUBSET asked : shown' = shown \cup (asked \ lost)
  /\ UNCHANGED <<pushed, pressed, started, origin, ids, epoch, begun, mixed, heard>>

-----------------------------------------------------------------------------
Gateway(s) ==
  \/ TttCommand(s) \/ LoadID(s) \/ StoreID(s) \/ Push(s)
  \/ \E u \in Players, m \in Cmd, b \in Choice : Press(s, u, m, b)

Callback == \E n \in Cmd : Answer(n) \/ SetOrigin(n) \/ Erase(n)

Next == (\E s \in Shards : Gateway(s)) \/ Callback \/ Restart

Spec == Init /\ [][Next]_vars

-----------------------------------------------------------------------------
(* Every entry that was pushed has its three ids. *)
TypeOK ==
  /\ nextID \in Nat /\ restarts \in 0..MaxRestart
  /\ begun \in 0..MaxCmd /\ pushed \in 0..MaxCmd
  /\ pc \in [Shards -> {"idle", "load", "store", "push", "loadCell", "storeCell"}]
  /\ reg \in [Shards -> Nat] /\ left \in [Shards -> Nat]
  /\ taken \in [Shards -> [Roles -> Nat]]
  /\ ids \in [Cmd -> [Roles -> Nat]] /\ epoch \in [Cmd -> 0..MaxRestart]
  /\ \A n \in 1..pushed, r \in Roles : ids[n][r] # 0
  /\ listed \cup asked \cup answered \cup shown \subseteq 1..pushed
  /\ pressed \in [Cmd -> SUBSET Players] /\ started \subseteq Cmd
  /\ origin \in [Cmd -> 0..MaxCmd]
  /\ mixed \in BOOLEAN /\ heard \subseteq Cmd \X Cmd

(* A press on an invitation counts for the entry of another only if that   *)
(* entry was pushed after a restart, or two shards have taken ids at once  *)
(* (tictactoe.cpp:408 and 492, uniqueid.hpp:23).                           *)
ForeignPressHasCause ==
  \A p \in heard : p[1] # p[2] => mixed \/ epoch[p[1]] < epoch[p[2]]

(* set_origin (tictactoe.cpp:237) stores a message in the entry it belongs *)
(* to, unless two shards have taken ids at once; a restart is harmless.    *)
OriginIsOwn == ~mixed => \A n \in listed : origin[n] \in {0, n}
=============================================================================
