------------------------------- MODULE TttList -------------------------------
(***************************************************************************)
(* ttt_list_g as the std::list it is, changed and traversed by the gateway *)
(* threads and by the thread of the REST callbacks with no lock.  TttBot   *)
(* takes a push, an erase and a traversal as one step each; here they are  *)
(* taken apart, to see what that rests on.                                 *)
(*                                                                         *)
(* A step is one load or one store of what another thread may change.  The *)
(* layout is that of the compiler of the project (MSVC): a ring of nodes   *)
(* through a sentinel, and a size, which empty() tests.  A node is not     *)
(* used again after it was freed; touching it ends the behaviour.          *)
(***************************************************************************)
EXTENDS Integers

CONSTANTS
  Shards,   \* the gateway threads, one per shard
  Rest,     \* the thread that runs the REST callbacks
  MaxPush   \* bound: entries ever pushed

ASSUME ListAssumption == Rest \notin Shards /\ MaxPush \in Nat

Threads == Shards \cup {Rest}
Node    == 1..MaxPush
End     == 0
Links   == Node \cup {End}

VARIABLES
  next, prev,   \* the links of the nodes and of the sentinel
  size,         \* the size of the list
  pushed,       \* nodes allocated so far
  freed,        \* nodes erased and freed
  fault,        \* did a thread touch a freed node?
  pc,           \* what each thread does next
  at,           \* the node it works on, or stands on
  reg,          \* what it has loaded
  (* history *)
  listed,       \* the list if every change were one step
  seen,         \* the nodes a traversal has visited
  stayed,       \* the entries that were listed since it began
  overlap,      \* did two changes of the list overlap?
  clash         \* did two of them overlap at its end?

list    == <<next, prev, size, pushed, freed>>
history == <<listed, seen, stayed, overlap, clash>>
vars    == <<list, fault, pc, at, reg, history>>

PushSteps  == {"count", "link", "back", "front"}
EraseSteps == {"unlink", "reload", "unback", "load", "uncount", "free"}

Init ==
  /\ next = [n \in Links |-> End] /\ prev = [n \in Links |-> End]
  /\ size = 0 /\ pushed = 0 /\ freed = {} /\ fault = FALSE
  /\ pc = [t \in Threads |-> "idle"]
  /\ at = [t \in Threads |-> End] /\ reg = [t \in Threads |-> 0]
  /\ listed = {}
  /\ seen = [t \in Threads |-> {}] /\ stayed = [t \in Threads |-> {}]
  /\ overlap = FALSE /\ clash = FALSE

Pushing(t) == pc[t] \in PushSteps
Erasing(t) == pc[t] \in EraseSteps
Changing(t) == Pushing(t) \/ Erasing(t)
ChangesEnd(t) == Pushing(t) \/ (Erasing(t) /\ next[at[t]] = End)

TwoChanges    == \E t, u \in Threads : t # u /\ Changing(t) /\ Changing(u)
TwoChangesEnd == \E t, u \in Threads : t # u /\ ChangesEnd(t) /\ ChangesEnd(u)

(* A change begins: does it overlap another? *)
NoteOverlap ==
  /\ overlap' = (overlap \/ TwoChanges')
  /\ clash' = (clash \/ TwoChangesEnd')

Goto(t, from, to) == pc[t] = from /\ pc' = [pc EXCEPT ![t] = to]

(* A thread is done with the list. *)
Return(t) ==
  /\ pc' = [pc EXCEPT ![t] = "idle"]
  /\ at' = [at EXCEPT ![t] = End]
  /\ reg' = [reg EXCEPT ![t] = 0]

-----------------------------------------------------------------------------
(* push_onto_list *)

PushBegin(s) ==
  /\ Goto(s, "idle", "count")
  /\ pushed < MaxPush
  /\ pushed' = pushed + 1
  /\ at' = [at EXCEPT ![s] = pushed + 1]
  /\ reg' = [reg EXCEPT ![s] = size]
  /\ UNCHANGED <<next, prev, size, freed, fault, listed, seen, stayed>>
  /\ NoteOverlap

(* Mutant: the push forgets the size. *)
Mutant_PushCount(s) ==
  /\ Goto(s, "count", "link")
  /\ UNCHANGED <<list, fault, at, reg, history>>

PushCount(s) ==
  /\ Goto(s, "count", "link")
  /\ size' = reg[s] + 1
  /\ UNCHANGED <<next, prev, pushed, freed, fault, at, reg, history>>

(* Mutant: the links of the new node are exchanged. *)
Mutant_PushLink(s) ==
  /\ Goto(s, "link", "back")
  /\ reg' = [reg EXCEPT ![s] = prev[End]]
  /\ next' = [next EXCEPT ![at[s]] = prev[End]]
  /\ prev' = [prev EXCEPT ![at[s]] = End]
  /\ UNCHANGED <<size, pushed, freed, fault, at, history>>

(* The new node gets its links: after the last node, before the sentinel.  *)
PushLink(s) ==
  /\ Goto(s, "link", "back")
  /\ reg' = [reg EXCEPT ![s] = prev[End]]
  /\ next' = [next EXCEPT ![at[s]] = End]
  /\ prev' = [prev EXCEPT ![at[s]] = prev[End]]
  /\ UNCHANGED <<size, pushed, freed, fault, at, history>>

PushBack(s) ==
  /\ Goto(s, "back", "front")
  /\ prev' = [prev EXCEPT ![End] = at[s]]
  /\ UNCHANGED <<next, size, pushed, freed, fault, at, reg, history>>

(* Mutant: the last node is not linked to the new one. *)
Mutant_PushFront(s) ==
  /\ pc[s] = "front"
  /\ fault' = (reg[s] \in freed)
  /\ listed' = listed \cup {at[s]}
  /\ Return(s)
  /\ UNCHANGED <<next, prev, size, pushed, freed, seen, stayed, overlap, clash>>

PushFront(s) ==
  /\ pc[s] = "front"
  /\ fault' = (reg[s] \in freed)
  /\ next' = [next EXCEPT ![reg[s]] = at[s]]
  /\ listed' = listed \cup {at[s]}
  /\ Return(s)
  /\ UNCHANGED <<prev, size, pushed, freed, seen, stayed, overlap, clash>>

Push(s) == PushBegin(s) \/ PushCount(s) \/ PushLink(s) \/ PushBack(s) \/ PushFront(s)

-----------------------------------------------------------------------------
(* erase_one_from_list *)

EraseBegin(t) ==
  /\ Goto(t, "idle", "unlink")
  /\ \E n \in listed : /\ at' = [at EXCEPT ![t] = n]
                       /\ reg' = [reg EXCEPT ![t] = next[n]]
  /\ UNCHANGED <<list, fault, listed, seen, stayed>>
  /\ NoteOverlap

(* Mutant: the node before is not linked past the erased one. *)
Mutant_EraseNext(t) ==
  /\ Goto(t, "unlink", "reload")
  /\ fault' = (prev[at[t]] \in freed)
  /\ listed' = listed \ {at[t]}
  /\ stayed' = [u \in Threads |-> stayed[u] \ {at[t]}]
  /\ UNCHANGED <<next, prev, size, pushed, freed, at, reg, seen, overlap, clash>>

EraseNext(t) ==
  /\ Goto(t, "unlink", "reload")
  /\ fault' = (prev[at[t]] \in freed)
  /\ next' = [next EXCEPT ![prev[at[t]]] = reg[t]]
  /\ listed' = listed \ {at[t]}
  /\ stayed' = [u \in Threads |-> stayed[u] \ {at[t]}]
  /\ UNCHANGED <<prev, size, pushed, freed, at, reg, seen, overlap, clash>>

EraseReload(t) ==
  /\ Goto(t, "reload", "unback")
  /\ reg' = [reg EXCEPT ![t] = next[at[t]]]
  /\ UNCHANGED <<list, fault, at, history>>

(* Mutant: the node after keeps its link to the erased one. *)
Mutant_EraseBack(t) ==
  /\ Goto(t, "unback", "load")
  /\ fault' = (reg[t] \in freed)
  /\ UNCHANGED <<next, prev, size, pushed, freed, at, reg, history>>

EraseBack(t) ==
  /\ Goto(t, "unback", "load")
  /\ fault' = (reg[t] \in freed)
  /\ prev' = [prev EXCEPT ![reg[t]] = prev[at[t]]]
  /\ UNCHANGED <<next, size, pushed, freed, at, reg, history>>

EraseLoad(t) ==
  /\ Goto(t, "load", "uncount")
  /\ reg' = [reg EXCEPT ![t] = size]
  /\ UNCHANGED <<list, fault, at, history>>

EraseCount(t) ==
  /\ Goto(t, "uncount", "free")
  /\ size' = reg[t] - 1
  /\ UNCHANGED <<next, prev, pushed, freed, fault, at, reg, history>>

(* Mutant: the node after is freed. *)
Mutant_EraseFree(t) ==
  /\ pc[t] = "free"
  /\ freed' = freed \cup {next[at[t]]}
  /\ Return(t)
  /\ UNCHANGED <<next, prev, size, pushed, fault, history>>

EraseFree(t) ==
  /\ pc[t] = "free"
  /\ freed' = freed \cup {at[t]}
  /\ Return(t)
  /\ UNCHANGED <<next, prev, size, pushed, fault, history>>

Erase(t) ==
  \/ EraseBegin(t) \/ EraseNext(t) \/ EraseReload(t) \/ EraseBack(t)
  \/ EraseLoad(t) \/ EraseCount(t) \/ EraseFree(t)

-----------------------------------------------------------------------------
(* The loops of on_confirm_click, on_ttt_interaction and set_origin.       *)

(* if (!ttt_list_g.empty()) ... begin() *)
ScanBegin(t) ==
  /\ Goto(t, "idle", "scan")
  /\ size # 0
  /\ stayed' = [stayed EXCEPT ![t] = listed]
  /\ UNCHANGED <<list, fault, at, reg, listed, seen, overlap, clash>>

Forget(t) ==
  /\ seen' = [seen EXCEPT ![t] = {}]
  /\ stayed' = [stayed EXCEPT ![t] = {}]

(* The loop reads the entry it stands on, and then its link. *)
Standing(t) == pc[t] = "scan" /\ at[t] \notin freed

ScanNext(t) ==
  /\ Standing(t) /\ next[at[t]] # End
  /\ at' = [at EXCEPT ![t] = next[at[t]]]
  /\ seen' = [seen EXCEPT ![t] = @ \cup {next[at[t]]}]
  /\ UNCHANGED <<list, fault, pc, reg, listed, stayed, overlap, clash>>

ScanEnd(t) ==
  /\ Standing(t) /\ next[at[t]] = End
  /\ Return(t) /\ Forget(t)
  /\ UNCHANGED <<list, fault, listed, overlap, clash>>

(* A handler returns from the loop; set_origin does not. *)
ScanLeave(s) ==
  /\ Standing(s) /\ at[s] # End
  /\ Return(s) /\ Forget(s)
  /\ UNCHANGED <<list, fault, listed, overlap, clash>>

ScanHit(t) ==
  /\ pc[t] = "scan" /\ at[t] \in freed
  /\ fault' = TRUE
  /\ UNCHANGED <<list, pc, at, reg, history>>

Scan(t) == ScanBegin(t) \/ ScanNext(t) \/ ScanEnd(t) \/ ScanHit(t)

-----------------------------------------------------------------------------
Gateway(s) == Push(s) \/ Scan(s) \/ ScanLeave(s)

Callback == Erase(Rest) \/ Scan(Rest)

Next == ~fault /\ ((\E s \in Shards : Gateway(s)) \/ Callback)

Spec == Init /\ [][Next]_vars

-----------------------------------------------------------------------------
TypeOK ==
  /\ next \in [Links -> Links] /\ prev \in [Links -> Links]
  /\ size \in Int /\ pushed \in 0..MaxPush
  /\ freed \subseteq 1..pushed /\ listed \subseteq 1..pushed
  /\ fault \in BOOLEAN /\ overlap \in BOOLEAN /\ clash \in BOOLEAN
  /\ pc \in [Threads -> {"idle", "scan"} \cup PushSteps \cup EraseSteps]
  /\ at \in [Threads -> Links] /\ reg \in [Threads -> Int]
  /\ seen \in [Threads -> SUBSET Node] /\ stayed \in [Threads -> SUBSET Node]

(* Nodes are numbered as they are pushed, so the list is in the order of   *)
(* the numbers; the sentinel is before and after all of them.              *)
IsNext(a, b) ==
  /\ a \in listed \cup {End} /\ b \in listed \cup {End}
  /\ b # End => a < b
  /\ \A m \in listed : a < m => b # End /\ b <= m

Forward  == \A a \in listed \cup {End} : IsNext(a, next[a])
Backward == \A b \in listed \cup {End} : IsNext(prev[b], b)

Settled == \A t \in Threads : ~Changing(t)

(* Only changes that overlap at the end of the list damage it: the erasure *)
(* of an older entry is safe next to a push, and so is any traversal       *)
(* (tictactoe.cpp:221 and 226).                                            *)
ListIsIntact ==
  ~clash => Forward /\ (Settled => Backward)

(* empty() (tictactoe.cpp:233, 372, 531) overlooks no entry unless an      *)
(* update of the size was lost.                                            *)
EmptyIsRight == ~overlap /\ size = 0 => listed = {}

(* A traversal never steps onto a freed node; it is hit only if the node   *)
(* it stands on is erased under its feet (tictactoe.cpp:235, 375, 534).    *)
NeverOntoFreed ==
  [][\A t \in Threads : ScanNext(t) => at'[t] \notin freed]_vars

(* A traversal meets no entry twice, so it ends, even in a damaged list.   *)
NoEntryTwice ==
  [][\A t \in Threads : ScanNext(t) => at'[t] \notin seen[t]]_vars

(* A traversal that comes to the end has met every entry that was listed   *)
(* all the time, whatever was pushed or erased meanwhile: a press reaches  *)
(* its entry and set_origin finds its id.                                  *)
ScanMissesNothing ==
  [][\A t \in Threads : ScanEnd(t) /\ ~clash => stayed[t] \subseteq seen[t]]_vars

(* "push new tic-tac-toe game operation to global list" (tictactoe.hpp:162): *)
(* when no change is under way, every entry pushed and not erased is       *)
(* reached from the beginning of the list.                                 *)
Within[k \in 0..MaxPush] ==
  IF k = 0 THEN {End} ELSE Within[k - 1] \cup {next[n] : n \in Within[k - 1]}

PushedIsListed == Settled => listed \subseteq Within[MaxPush]
=============================================================================
