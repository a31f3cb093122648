---------------------------- MODULE DamageProofs ----------------------------
(***************************************************************************)
(* What a traversal may rely on even in a list that clashing changes have  *)
(* damaged, for any number of shards and entries: it meets no entry twice  *)
(* and never steps onto a freed node.                                      *)
(*                                                                         *)
(* Two arguments.  Every link goes up in an order of the nodes, the order  *)
(* in which they were linked: damage makes a link skip entries, never turn *)
(* back.  And as long as no freed node was touched, at most one sound node *)
(* leads to a given node, the one an erasure unlinks it from.              *)
(***************************************************************************)
EXTENDS ListProofs

(* A node that is being pushed leads nowhere yet and nothing leads to it.  *)
Unmet(n) ==
  /\ n \in 1..pushed /\ n \notin listed \cup freed
  /\ \A x \in Links : next[x] # n
  /\ \A t \in Threads : n \notin seen[t]
  /\ pc[Rest] \in {"unlink", "unback"} => reg[Rest] # n

(* And nothing leads back to it before it is linked. *)
Unlinked(n) ==
  /\ \A x \in Links : prev[x] # n
  /\ \A t \in Shards : pc[t] \in {"back", "front"} => reg[t] # n

FreshInv ==
  \A s \in Shards : Pushing(s) =>
    /\ Unmet(at[s])
    /\ \A t \in Threads : t # s => at[t] # at[s]
    /\ pc[s] \in {"count", "link"} => Unlinked(at[s])
    /\ pc[s] \in {"back", "front"} => prev[at[s]] = reg[s]

(* Nothing leads to a node that was not pushed, and where the node of an   *)
(* erasure is at each point of it.                                         *)
PlaceInv ==
  /\ \A x \in Links : next[x] \in 0..pushed /\ prev[x] \in 0..pushed
  /\ \A t \in Threads : at[t] \in 0..pushed /\ seen[t] \subseteq 1..pushed
  /\ \A t \in Threads : pc[t] \in {"back", "front", "unlink", "unback"} => reg[t] \in 0..pushed
  /\ listed \cap freed = {}
  /\ Erasing(Rest) => at[Rest] \notin freed
  /\ pc[Rest] = "unlink" => at[Rest] \in listed
  /\ pc[Rest] \in GoneSteps => at[Rest] \notin listed

DamageInv == PlaceInv /\ FreshInv

-----------------------------------------------------------------------------
(* The steps, thread by thread and link by link.                           *)

(* Thread t goes from p to q; the others keep their place. *)
Goes(t, p, q, a, r) ==
  /\ pc[t] = p /\ pc'[t] = q /\ at'[t] = a /\ reg'[t] = r
  /\ \A u \in Threads : u # t => pc'[u] = pc[u] /\ at'[u] = at[u] /\ reg'[u] = reg[u]

(* The links g are the links f but for that of x. *)
Relinks(f, g, x, v) == g[x] = v /\ \A y \in Links : y # x => g[y] = f[y]

(* The points a thread can be at are different, and in groups. *)
LEMMA Points ==
  \A t \in Threads :
    /\ Pushing(t) <=> pc[t] \in {"count", "link", "back", "front"}
    /\ Erasing(t) <=> pc[t] = "unlink" \/ pc[t] \in GoneSteps
    /\ Pushing(t)' <=> pc'[t] \in {"count", "link", "back", "front"}
    /\ Erasing(t)' <=> pc'[t] = "unlink" \/ pc'[t] \in GoneSteps
BY DEF Pushing, Erasing, PushSteps, EraseSteps, GoneSteps

(* What the types say of the places of the threads. *)
LEMMA Places ==
  ASSUME BaseInv
  PROVE  /\ pushed \in Nat /\ 0..pushed \subseteq Links /\ End = 0 /\ End \in Links
         /\ listed \subseteq 1..pushed /\ freed \subseteq 1..pushed
         /\ \A t \in Threads : /\ at[t] \in Links /\ seen[t] \subseteq Node
                               /\ pc[t] \in {"back", "front", "unlink", "unback"} => reg[t] \in Links
                               /\ Changing(t) => at[t] \in 1..pushed
                               /\ pc[t] = "idle" => at[t] = End
         /\ \A x \in Links : next[x] \in Links /\ prev[x] \in Links
         /\ \A s \in Shards : ~Erasing(s)
         /\ ~Pushing(Rest)
<1>1. pushed \in 0..MaxPush /\ MaxPush \in Nat BY ListAssumption DEF BaseInv, TypeOK
<1>2. pushed \in Nat /\ 0..pushed \subseteq Links BY <1>1 DEF Links, Node, End
<1> QED BY <1>2 DEF BaseInv, TypeOK, Links, End

(* push_back, step by step. *)
LEMMA PushDoes ==
  ASSUME BaseInv, NEW s \in Shards
  PROVE  /\ PushBegin(s) =>
              /\ Goes(s, "idle", "count", pushed + 1, size) /\ pushed' = pushed + 1
              /\ UNCHANGED <<next, prev, freed, fault, listed, seen>>
         /\ PushCount(s) =>
              /\ Goes(s, "count", "link", at[s], reg[s])
              /\ UNCHANGED <<next, prev, pushed, freed, fault, listed, seen>>
         /\ PushLink(s) =>
              /\ Goes(s, "link", "back", at[s], prev[End])
              /\ Relinks(next, next', at[s], End) /\ Relinks(prev, prev', at[s], prev[End])
              /\ UNCHANGED <<pushed, freed, fault, listed, seen>>
         /\ PushBack(s) =>
              /\ Goes(s, "back", "front", at[s], reg[s])
              /\ Relinks(prev, prev', End, at[s])
              /\ UNCHANGED <<next, pushed, freed, fault, listed, seen>>
         /\ PushFront(s) =>
              /\ Goes(s, "front", "idle", End, 0)
              /\ Relinks(next, next', reg[s], at[s])
              /\ listed' = listed \cup {at[s]} /\ fault' = (reg[s] \in freed)
              /\ UNCHANGED <<prev, pushed, freed, seen>>
BY Roles, Places DEF Goes, Relinks, BaseInv, TypeOK, list, history, PushBegin, PushCount, PushLink, PushBack, PushFront,
   Goto, Return

(* erase, step by step. *)
LEMMA EraseDoes ==
  ASSUME BaseInv
  PROVE  /\ EraseBegin(Rest) =>
              /\ \E n \in listed : Goes(Rest, "idle", "unlink", n, next[n])
              /\ UNCHANGED <<next, prev, pushed, freed, fault, listed, seen>>
         /\ EraseNext(Rest) =>
              /\ Goes(Rest, "unlink", "reload", at[Rest], reg[Rest])
              /\ Relinks(next, next', prev[at[Rest]], reg[Rest])
              /\ listed' = listed \ {at[Rest]} /\ fault' = (prev[at[Rest]] \in freed)
              /\ UNCHANGED <<prev, pushed, freed, seen>>
         /\ EraseReload(Rest) =>
              /\ Goes(Rest, "reload", "unback", at[Rest], next[at[Rest]])
              /\ UNCHANGED <<next, prev, pushed, freed, fault, listed, seen>>
         /\ EraseBack(Rest) =>
              /\ Goes(Rest, "unback", "load", at[Rest], reg[Rest])
              /\ Relinks(prev, prev', reg[Rest], prev[at[Rest]])
              /\ fault' = (reg[Rest] \in freed)
              /\ UNCHANGED <<next, pushed, freed, listed, seen>>
         /\ EraseLoad(Rest) =>
              /\ Goes(Rest, "load", "uncount", at[Rest], size)
              /\ UNCHANGED <<next, prev, pushed, freed, fault, listed, seen>>
         /\ EraseCount(Rest) =>
              /\ Goes(Rest, "uncount", "free", at[Rest], reg[Rest])
              /\ UNCHANGED <<next, prev, pushed, freed, fault, listed, seen>>
         /\ EraseFree(Rest) =>
              /\ Goes(Rest, "free", "idle", End, 0) /\ freed' = freed \cup {at[Rest]}
              /\ UNCHANGED <<next, prev, pushed, fault, listed, seen>>
BY Roles, Places DEF Goes, Relinks, BaseInv, TypeOK, list, history, EraseBegin, EraseNext, EraseReload, EraseBack, EraseLoad, EraseCount, EraseFree,
   Goto, Return

(* A traversal looks at one link, or comes to an end, or is hit.           *)
LEMMA ScanDoes ==
  ASSUME BaseInv, NEW t \in Threads
  PROVE  /\ ScanBegin(t) =>
              /\ Goes(t, "idle", "scan", at[t], reg[t])
              /\ UNCHANGED <<next, prev, pushed, freed, fault, listed, seen>>
         /\ ScanNext(t) =>
              /\ Goes(t, "scan", "scan", next[at[t]], reg[t])
              /\ next[at[t]] # End /\ at[t] \notin freed /\ seen'[t] = seen[t] \cup {next[at[t]]}
              /\ \A u \in Threads : u # t => seen'[u] = seen[u]
              /\ UNCHANGED <<next, prev, pushed, freed, fault, listed>>
         /\ ScanEnd(t) \/ ScanLeave(t) =>
              /\ Goes(t, "scan", "idle", End, 0) /\ seen'[t] = {}
              /\ \A u \in Threads : u # t => seen'[u] = seen[u]
              /\ UNCHANGED <<next, prev, pushed, freed, fault, listed>>
         /\ ScanHit(t) =>
              /\ fault' = TRUE
              /\ UNCHANGED <<next, prev, pushed, freed, listed, seen, pc, at, reg>>
BY Roles, Places DEF Goes, Relinks, BaseInv, TypeOK, list, history, ScanBegin, ScanNext, ScanEnd, ScanLeave, ScanHit,
   Goto, Standing, Return, Forget
-----------------------------------------------------------------------------
(* New and listed nodes.                                                   *)

(* A push leads to no node but its own, when that is linked.               *)
LEMMA PushDamage ==
  ASSUME BaseInv, DamageInv, NEW s \in Shards, Push(s)
  PROVE  DamageInv'
<1> USE Roles, Places, Points DEF Goes, Relinks, DamageInv
<1>1. CASE PushBegin(s)
  <2>1. PlaceInv' BY <1>1, PushDoes DEF PlaceInv, GoneSteps, FreshInv, Unmet
  <2>2. FreshInv' BY <1>1, PushDoes DEF FreshInv, Unmet, Unlinked, PlaceInv
  <2> QED BY <2>1, <2>2
<1>2. CASE PushCount(s)
  <2>1. PlaceInv' BY <1>2, PushDoes DEF PlaceInv, GoneSteps, FreshInv, Unmet
  <2>2. FreshInv' BY <1>2, PushDoes DEF FreshInv, Unmet, Unlinked, PlaceInv
  <2> QED BY <2>1, <2>2
<1>3. CASE PushLink(s)
  <2>1. PlaceInv' BY <1>3, PushDoes DEF PlaceInv, GoneSteps, FreshInv, Unmet
  <2>2. FreshInv' BY <1>3, PushDoes DEF FreshInv, Unmet, Unlinked, PlaceInv
  <2> QED BY <2>1, <2>2
<1>4. CASE PushBack(s)
  <2>1. PlaceInv' BY <1>4, PushDoes DEF PlaceInv, GoneSteps, FreshInv, Unmet
  <2>2. FreshInv' BY <1>4, PushDoes DEF FreshInv, Unmet, Unlinked, PlaceInv
  <2> QED BY <2>1, <2>2
<1>5. CASE PushFront(s)
  <2>1. PlaceInv' BY <1>5, PushDoes DEF PlaceInv, GoneSteps, FreshInv, Unmet
  <2>2. FreshInv' BY <1>5, PushDoes DEF FreshInv, Unmet, Unlinked, PlaceInv
  <2> QED BY <2>1, <2>2
<1> QED BY <1>1, <1>2, <1>3, <1>4, <1>5 DEF Push

(* An erasure leads to the nodes it has read from the list.                *)
LEMMA EraseDamage ==
  ASSUME BaseInv, DamageInv, Erase(Rest)
  PROVE  DamageInv'
<1> USE Roles, Places, Points DEF Goes, Relinks, DamageInv
<1>1. CASE EraseBegin(Rest)
  <2>1. PlaceInv' BY <1>1, EraseDoes DEF PlaceInv, GoneSteps
  <2>2. FreshInv' BY <1>1, EraseDoes DEF FreshInv, Unmet, Unlinked, PlaceInv
  <2> QED BY <2>1, <2>2
<1>2. CASE EraseNext(Rest)
  <2>1. PlaceInv' BY <1>2, EraseDoes DEF PlaceInv, GoneSteps
  <2>2. FreshInv' BY <1>2, EraseDoes DEF FreshInv, Unmet, Unlinked, PlaceInv
  <2> QED BY <2>1, <2>2
<1>3. CASE EraseReload(Rest)
  <2>1. PlaceInv' BY <1>3, EraseDoes DEF PlaceInv, GoneSteps
  <2>2. FreshInv' BY <1>3, EraseDoes DEF FreshInv, Unmet, Unlinked, PlaceInv
  <2> QED BY <2>1, <2>2
<1>4. CASE EraseBack(Rest)
  <2>1. PlaceInv' BY <1>4, EraseDoes DEF PlaceInv, GoneSteps
  <2>2. FreshInv' BY <1>4, EraseDoes DEF FreshInv, Unmet, Unlinked, PlaceInv
  <2> QED BY <2>1, <2>2
<1>5. CASE EraseLoad(Rest)
  <2>1. PlaceInv' BY <1>5, EraseDoes DEF PlaceInv, GoneSteps
  <2>2. FreshInv' BY <1>5, EraseDoes DEF FreshInv, Unmet, Unlinked, PlaceInv
  <2> QED BY <2>1, <2>2
<1>6. CASE EraseCount(Rest)
  <2>1. PlaceInv' BY <1>6, EraseDoes DEF PlaceInv, GoneSteps
  <2>2. FreshInv' BY <1>6, EraseDoes DEF FreshInv, Unmet, Unlinked, PlaceInv
  <2> QED BY <2>1, <2>2
<1>7. CASE EraseFree(Rest)
  <2>1. PlaceInv' BY <1>7, EraseDoes DEF PlaceInv, GoneSteps
  <2>2. FreshInv' BY <1>7, EraseDoes DEF FreshInv, Unmet, Unlinked, PlaceInv
  <2> QED BY <2>1, <2>2
<1> QED BY <1>1, <1>2, <1>3, <1>4, <1>5, <1>6, <1>7 DEF Erase

(* A traversal follows the links there are.                                *)
LEMMA ScanDamage ==
  ASSUME BaseInv, DamageInv, NEW t \in Threads, Scan(t) \/ ScanLeave(t)
  PROVE  DamageInv'
<1> USE Roles, Places, Points DEF Goes, DamageInv
<1>1. CASE ScanBegin(t)
  <2>0. /\ Goes(t, "idle", "scan", at[t], reg[t])
        /\ UNCHANGED <<next, prev, pushed, freed, fault, listed, seen>>
    BY <1>1, ScanDoes
  <2>1. PlaceInv' BY <2>0 DEF PlaceInv, GoneSteps
  <2>2. FreshInv' BY <2>0 DEF FreshInv, Unmet, Unlinked, PlaceInv
  <2> QED BY <2>1, <2>2
<1>2. CASE ScanNext(t)
  <2>0. /\ Goes(t, "scan", "scan", next[at[t]], reg[t])
        /\ seen'[t] = seen[t] \cup {next[at[t]]} /\ next[at[t]] # End
        /\ \A u \in Threads : u # t => seen'[u] = seen[u]
        /\ UNCHANGED <<next, prev, pushed, freed, fault, listed>>
    BY <1>2, ScanDoes
  <2>1. PlaceInv' BY <2>0 DEF PlaceInv, GoneSteps
  <2>2. FreshInv' BY <2>0 DEF FreshInv, Unmet, Unlinked, PlaceInv
  <2> QED BY <2>1, <2>2
<1>3. CASE ScanEnd(t) \/ ScanLeave(t)
  <2>0. /\ Goes(t, "scan", "idle", End, 0) /\ seen'[t] = {}
        /\ \A u \in Threads : u # t => seen'[u] = seen[u]
        /\ UNCHANGED <<next, prev, pushed, freed, fault, listed>>
    BY <1>3, ScanDoes
  <2>1. PlaceInv' BY <2>0 DEF PlaceInv, GoneSteps
  <2>2. FreshInv' BY <2>0 DEF FreshInv, Unmet, Unlinked, PlaceInv
  <2> QED BY <2>1, <2>2
<1>4. CASE ScanHit(t)
  <2>0. UNCHANGED <<next, prev, pushed, freed, listed, seen, pc, at, reg>>
    BY <1>4, ScanDoes
  <2>1. PlaceInv' BY <2>0 DEF PlaceInv, GoneSteps
  <2>2. FreshInv' BY <2>0 DEF FreshInv, Unmet, Unlinked, PlaceInv
  <2> QED BY <2>1, <2>2
<1> QED BY <1>1, <1>2, <1>3, <1>4 DEF Scan
(* Nothing was pushed at the start.                                        *)
LEMMA InitDamage == Init => DamageInv
<1> SUFFICES ASSUME Init PROVE DamageInv OBVIOUS
<1>1. \A t \in Threads : pc[t] = "idle" /\ at[t] = End /\ seen[t] = {} BY DEF Init
<1>2. /\ listed = {} /\ pushed = 0 /\ End = 0
      /\ \A x \in Links : next[x] = End /\ prev[x] = End
  BY DEF Init, End
<1>3. \A t \in Threads : ~Pushing(t) /\ ~Erasing(t) BY <1>1 DEF Pushing, Erasing, PushSteps, EraseSteps
<1>4. PlaceInv BY <1>1, <1>2, <1>3, Roles DEF PlaceInv, GoneSteps
<1> QED BY <1>3, <1>4, Roles DEF DamageInv, FreshInv

(* What holds of new and listed nodes in every list, damaged or not.       *)
THEOREM NodesAreFresh == Spec => [](IInv /\ DamageInv)
<1>1. IInv /\ DamageInv /\ [Next]_vars => DamageInv'
  <2> SUFFICES ASSUME IInv, DamageInv, [Next]_vars PROVE DamageInv' OBVIOUS
  <2>1. BaseInv BY DEF IInv
  <2>2. CASE UNCHANGED vars
    BY <2>2 DEF DamageInv, PlaceInv, FreshInv, Unmet, Unlinked, Pushing, Erasing, vars, list, history
  <2> QED BY <2>1, <2>2, PushDamage, EraseDamage, ScanDamage, Roles DEF Next, Gateway, Callback
<1> QED BY <1>1, InitDamage, Invariant, PTL DEF Spec

-----------------------------------------------------------------------------
(* The order of the links.                                                 *)

Up(rank, a, b) == a = End \/ b = End \/ rank[a] < rank[b]

(* The nodes are ranked so that every link, and every link that a thread   *)
(* is about to store, goes up; a traversal has only met lower nodes.       *)
InOrder(rank) ==
  /\ \A x \in Links : Up(rank, x, next[x]) /\ Up(rank, prev[x], x)
  /\ \A s \in Shards : pc[s] \in {"back", "front"} => Up(rank, reg[s], at[s])
  /\ pc[Rest] \in {"unlink", "unback"} => Up(rank, at[Rest], reg[Rest])
  /\ \A t \in Threads : \A m \in seen[t] :
       pc[t] = "scan" /\ at[t] # End /\ rank[m] <= rank[at[t]]

OrderInv ==
  \E rank \in [Node -> Nat], top \in Nat :
    InOrder(rank) /\ \A n \in Node : rank[n] <= top

(* A push gives its node the highest rank when it links it, and else keeps *)
(* the order.                                                              *)
LEMMA PushOrder ==
  ASSUME BaseInv, DamageInv, OrderInv, NEW s \in Shards, Push(s)
  PROVE  OrderInv'
<1>1. PICK rank \in [Node -> Nat], top \in Nat : InOrder(rank) /\ \A n \in Node : rank[n] <= top
  BY DEF OrderInv
<1> USE Roles, Places, Points DEF Goes, Relinks, InOrder, Up
<1>2. CASE PushBegin(s)
  <2>1. InOrder(rank)' BY <1>1, <1>2, PushDoes
  <2> QED BY <1>1, <2>1 DEF OrderInv
<1>3. CASE PushCount(s)
  <2>1. InOrder(rank)' BY <1>1, <1>3, PushDoes
  <2> QED BY <1>1, <2>1 DEF OrderInv
<1>4. CASE PushLink(s)
  <2>1. pc[s] = "link" /\ at[s] \in Node /\ top + 1 \in Nat BY <1>1, <1>4, PushDoes, Numbers DEF Changing
  <2>2. PICK above \in [Node -> Nat] :
          above[at[s]] = top + 1 /\ \A n \in Node : n # at[s] => above[n] = rank[n]
    <3>1. [rank EXCEPT ![at[s]] = top + 1] \in [Node -> Nat] BY <1>1, <2>1
    <3> QED BY <1>1, <2>1, <3>1
  <2>3. \A n \in Node : above[n] <= top + 1 /\ (n # at[s] => above[n] < top + 1)
    BY <1>1, <2>1, <2>2
  <2>4. Unmet(at[s]) /\ Unlinked(at[s]) /\ \A t \in Threads : t # s => at[t] # at[s]
    BY <2>1 DEF DamageInv, FreshInv
  <2>5. \A a, b \in Links : b # at[s] /\ Up(rank, a, b) /\ a # at[s] => Up(above, a, b)
    BY <2>2 DEF Links
  <2>6. \A a \in Links : a # at[s] => Up(above, a, at[s])
    BY <2>2, <2>3 DEF Links
  <2>7. /\ Goes(s, "link", "back", at[s], prev[End])
        /\ Relinks(next, next', at[s], End) /\ Relinks(prev, prev', at[s], prev[End])
        /\ UNCHANGED <<pushed, freed, fault, listed, seen>>
    BY <1>4, PushDoes
  <2> HIDE DEF Up
  <2>8. Up(above, at[s], End) BY DEF Up
  <2>9. \A x \in Links : Up(above, x, next'[x]) /\ Up(above, prev'[x], x)
    BY <1>1, <2>4, <2>5, <2>6, <2>7, <2>8 DEF Unmet, Unlinked
  <2>10. \A t \in Shards : pc'[t] \in {"back", "front"} => Up(above, reg'[t], at'[t])
    BY <1>1, <2>4, <2>5, <2>6, <2>7 DEF Unlinked
  <2>11. pc'[Rest] \in {"unlink", "unback"} => Up(above, at'[Rest], reg'[Rest])
    BY <1>1, <2>4, <2>5, <2>7 DEF Unmet
  <2>12. ASSUME NEW t \in Threads, NEW m \in seen'[t]
         PROVE  pc'[t] = "scan" /\ at'[t] # End /\ above[m] <= above[at'[t]]
    <3>1. m \in seen[t] /\ pc[t] = "scan" /\ at[t] # End /\ rank[m] <= rank[at[t]]
      BY <1>1, <2>7
    <3>2. t # s /\ m # at[s] /\ at[t] # at[s] /\ m \in Node /\ at[t] \in Node
      BY <2>1, <2>4, <3>1 DEF Unmet, Links
    <3> QED BY <2>2, <2>7, <3>1, <3>2
  <2>13. InOrder(above)' BY <2>9, <2>10, <2>11, <2>12 DEF Up
  <2> HIDE DEF InOrder
  <2> QED BY <2>1, <2>2, <2>3, <2>13 DEF OrderInv
<1>5. CASE PushBack(s)
  <2>1. InOrder(rank)' BY <1>1, <1>5, PushDoes
  <2> QED BY <1>1, <2>1 DEF OrderInv
<1>6. CASE PushFront(s)
  <2>1. InOrder(rank)' BY <1>1, <1>6, PushDoes
  <2> QED BY <1>1, <2>1 DEF OrderInv
<1> QED BY <1>2, <1>3, <1>4, <1>5, <1>6 DEF Push

(* An erasure joins a node before its own to one after it.                 *)
LEMMA EraseOrder ==
  ASSUME BaseInv, DamageInv, OrderInv, Erase(Rest)
  PROVE  OrderInv'
<1>1. PICK rank \in [Node -> Nat], top \in Nat : InOrder(rank) /\ \A n \in Node : rank[n] <= top
  BY DEF OrderInv
<1> USE Roles, Places, Points DEF Goes, Relinks, InOrder, Up, GoneSteps
<1>2. CASE EraseBegin(Rest)
  <2>1. InOrder(rank)' BY <1>1, <1>2, EraseDoes
  <2> QED BY <1>1, <2>1 DEF OrderInv
<1> DEFINE n == at[Rest]
<1>a. Erasing(Rest) => n \in Node /\ n # End /\ prev[n] \in Links
  BY Numbers DEF Changing
<1>b. \A a, b \in Links : n \in Node /\ n # End /\ Up(rank, a, n) /\ Up(rank, n, b) => Up(rank, a, b)
  <2>1. \A a \in Links : a # End => rank[a] \in Nat BY <1>1 DEF Links
  <2> QED BY <1>1, <2>1
<1>3. CASE EraseNext(Rest)
  <2>0. n \in Node /\ n # End /\ prev[n] \in Links /\ reg[Rest] \in Links
    BY <1>3, <1>a, EraseDoes
  <2>2. Up(rank, prev[n], reg[Rest])
    BY <1>1, <1>3, <1>b, <2>0, EraseDoes
  <2>1. InOrder(rank)' BY <1>1, <1>3, <2>0, <2>2, EraseDoes
  <2> QED BY <1>1, <2>1 DEF OrderInv
<1>4. CASE EraseReload(Rest)
  <2>1. InOrder(rank)' BY <1>1, <1>4, EraseDoes
  <2> QED BY <1>1, <2>1 DEF OrderInv
<1>5. CASE EraseBack(Rest)
  <2>0. n \in Node /\ n # End /\ prev[n] \in Links /\ reg[Rest] \in Links
    BY <1>5, <1>a, EraseDoes
  <2>2. Up(rank, prev[n], reg[Rest])
    BY <1>1, <1>5, <1>b, <2>0, EraseDoes
  <2>1. InOrder(rank)' BY <1>1, <1>5, <2>0, <2>2, EraseDoes
  <2> QED BY <1>1, <2>1 DEF OrderInv
<1>6. CASE EraseLoad(Rest) \/ EraseCount(Rest) \/ EraseFree(Rest)
  <2>1. InOrder(rank)' BY <1>1, <1>6, EraseDoes
  <2> QED BY <1>1, <2>1 DEF OrderInv
<1> QED BY <1>2, <1>3, <1>4, <1>5, <1>6 DEF Erase

(* A traversal goes up, so what it steps onto is new to it.                *)
LEMMA ScanOrder ==
  ASSUME BaseInv, DamageInv, OrderInv, NEW t \in Threads, Scan(t) \/ ScanLeave(t)
  PROVE  OrderInv' /\ (ScanNext(t) => at'[t] \notin seen[t])
<1>1. PICK rank \in [Node -> Nat], top \in Nat : InOrder(rank) /\ \A n \in Node : rank[n] <= top
  BY DEF OrderInv
<1>2. ASSUME ScanNext(t) PROVE InOrder(rank)' /\ at'[t] \notin seen[t]
  <2>1. /\ Goes(t, "scan", "scan", next[at[t]], reg[t])
        /\ seen'[t] = seen[t] \cup {next[at[t]]} /\ next[at[t]] # End
        /\ \A u \in Threads : u # t => seen'[u] = seen[u]
        /\ UNCHANGED <<next, prev, pushed, freed, fault, listed>>
    BY <1>2, ScanDoes
  <2>2. at[t] \in Links /\ next[at[t]] \in Links /\ seen[t] \subseteq Node BY Places
  <2>3. \A m \in seen[t] : rank[m] < rank[next[at[t]]]
    <3>1. ASSUME NEW m \in seen[t]
          PROVE  rank[m] <= rank[at[t]] /\ rank[at[t]] < rank[next[at[t]]]
      BY <1>1, <2>1, <2>2 DEF InOrder, Up
    <3>2. \A m \in seen[t] : at[t] # End BY <1>1 DEF InOrder
    <3> QED BY <1>1, <2>1, <2>2, <3>1, <3>2 DEF Links
  <2>4. InOrder(rank)'
    BY <1>1, <2>1, <2>2, <2>3, Roles, Places DEF InOrder, Up, Goes, Links
  <2> QED BY <1>1, <2>1, <2>2, <2>3, <2>4 DEF Goes, Links
<1>3. ASSUME ScanBegin(t) PROVE InOrder(rank)'
  <2>1. /\ Goes(t, "idle", "scan", at[t], reg[t])
        /\ UNCHANGED <<next, prev, pushed, freed, fault, listed, seen>>
    BY <1>3, ScanDoes
  <2> QED BY <1>1, <2>1, Roles DEF InOrder, Up, Goes
<1>4. ASSUME ScanEnd(t) \/ ScanLeave(t) PROVE InOrder(rank)'
  <2>1. /\ Goes(t, "scan", "idle", End, 0) /\ seen'[t] = {}
        /\ \A u \in Threads : u # t => seen'[u] = seen[u]
        /\ UNCHANGED <<next, prev, pushed, freed, fault, listed>>
    BY <1>4, ScanDoes
  <2> QED BY <1>1, <2>1, Roles DEF InOrder, Up, Goes
<1>5. ASSUME ScanHit(t) PROVE InOrder(rank)'
  BY <1>1, <1>5, ScanDoes DEF InOrder, Up
<1>6. ScanNext(t) => at'[t] \notin seen[t] BY <1>2
<1>7. InOrder(rank)' BY <1>2, <1>3, <1>4, <1>5 DEF Scan
<1> QED BY <1>1, <1>6, <1>7 DEF OrderInv
(* The empty list is in order. *)
LEMMA InitOrder == Init => OrderInv
<1> SUFFICES ASSUME Init PROVE OrderInv OBVIOUS
<1>1. /\ \A t \in Threads : pc[t] = "idle" /\ seen[t] = {}
      /\ \A x \in Links : next[x] = End /\ prev[x] = End
  BY DEF Init
<1>2. PICK rank \in [Node -> Nat] : \A n \in Node : rank[n] = 0
  <2>1. [n \in Node |-> 0] \in [Node -> Nat] /\ \A n \in Node : [m \in Node |-> 0][n] = 0 OBVIOUS
  <2> QED BY <2>1
<1>3. InOrder(rank) BY <1>1, Roles DEF InOrder, Up
<1> QED BY <1>2, <1>3 DEF OrderInv

(* Every link goes up, in the order in which the nodes were linked.        *)
THEOREM LinksGoUp == Spec => [](IInv /\ DamageInv /\ OrderInv)
<1>1. IInv /\ DamageInv /\ OrderInv /\ [Next]_vars => OrderInv'
  <2> SUFFICES ASSUME IInv, DamageInv, OrderInv, [Next]_vars PROVE OrderInv' OBVIOUS
  <2>1. BaseInv BY DEF IInv
  <2>2. CASE UNCHANGED vars
    BY <2>2 DEF OrderInv, InOrder, Up, vars, list, history
  <2> QED BY <2>1, <2>2, PushOrder, EraseOrder, ScanOrder, Roles DEF Next, Gateway, Callback
<1> QED BY <1>1, InitOrder, NodesAreFresh, PTL DEF Spec

(* NoEntryTwice: whatever the threads did to each other's links, a         *)
(* traversal meets no entry twice, so it ends (tictactoe.cpp:235, 375).    *)
THEOREM NoEntriesTwice == Spec => NoEntryTwice
<1> DEFINE New == \A t \in Threads : ScanNext(t) => at'[t] \notin seen[t]
<1>1. IInv /\ DamageInv /\ OrderInv => New
  <2> SUFFICES ASSUME IInv, DamageInv, OrderInv, NEW t \in Threads, ScanNext(t)
               PROVE  at'[t] \notin seen[t]
    OBVIOUS
  <2> QED BY ScanOrder DEF IInv, Scan
<1>2. IInv /\ DamageInv /\ OrderInv /\ [Next]_vars => [New]_vars BY <1>1
<1> QED BY <1>2, LinksGoUp, PTL DEF Spec, NoEntryTwice

-----------------------------------------------------------------------------
(* Freed nodes. *)

(* A node that is neither freed nor about to be. *)
Sound(x) == x \notin freed /\ ~(pc[Rest] \in GoneSteps /\ x = at[Rest])

(* Only p leads to n. *)
OnlyFrom(p, n) == \A x \in Links : Sound(x) /\ next[x] = n => x = p

(* The node back from n is the one that leads to it, or was erased. *)
BackTo(x, n) ==
  prev[n] = x \/ prev[n] \in freed \/ (pc[Rest] \in GoneSteps /\ prev[n] = at[Rest])

(* Nothing leads from a node that is not freed to one that is, or from a   *)
(* sound node to one about to be.                                          *)
ForwardSound ==
  /\ \A x \in Links : x \notin freed => next[x] \notin freed
  /\ pc[Rest] \in GoneSteps => \A x \in Links : Sound(x) => next[x] # at[Rest]
  /\ pc[Rest] \in {"unlink", "unback"} => reg[Rest] \notin freed

(* At most one sound node leads to a node, and the link back tells which.  *)
OneBefore ==
  \A x \in Links : Sound(x) /\ next[x] # End => OnlyFrom(x, next[x]) /\ BackTo(x, next[x])

(* What leads to the node after that of an erasure. *)
EraseSound ==
  LET p == at[Rest] IN
  /\ pc[Rest] = "unlink" /\ reg[Rest] # End => OnlyFrom(p, reg[Rest]) /\ BackTo(p, reg[Rest])
  /\ pc[Rest] = "reload" /\ next[p] # End => OnlyFrom(prev[p], next[p])
  /\ pc[Rest] = "unback" /\ reg[Rest] # End => OnlyFrom(prev[p], reg[Rest])

SoundInv == ForwardSound /\ OneBefore /\ EraseSound

Known == BaseInv /\ DamageInv /\ OrderInv /\ SoundInv

(* The nodes of pushes and of the erasure are different, and the erased    *)
(* node is not its own neighbour.                                          *)
LEMMA Apart ==
  ASSUME BaseInv, DamageInv, OrderInv
  PROVE  /\ \A s \in Shards : Pushing(s) =>
              /\ Unmet(at[s]) /\ at[s] # at[Rest] /\ at[s] \in Links /\ at[s] # End
              /\ \A t \in Shards : t # s => at[t] # at[s]
              /\ pc[s] \in {"back", "front"} => prev[at[s]] = reg[s]
         /\ Erasing(Rest) =>
              /\ at[Rest] # End /\ at[Rest] \in Links /\ at[Rest] \notin freed
              /\ next[at[Rest]] # at[Rest] /\ prev[at[Rest]] # at[Rest]
         /\ pc[Rest] \in {"unlink", "unback"} => reg[Rest] # at[Rest]
         /\ freed \subseteq 1..pushed /\ End \notin freed
<1>1. PICK rank \in [Node -> Nat], top \in Nat : InOrder(rank)
  BY DEF OrderInv
<1>2. \A t \in Threads : Changing(t) => at[t] \in Node /\ at[t] # End /\ at[t] \in Links
  BY Numbers, Places
<1>3. Erasing(Rest) => /\ next[at[Rest]] # at[Rest] /\ prev[at[Rest]] # at[Rest]
                       /\ pc[Rest] \in {"unlink", "unback"} => reg[Rest] # at[Rest]
  <2>1. \A n \in Node : ~(rank[n] < rank[n]) OBVIOUS
  <2> QED BY <1>1, <1>2, <2>1, Roles, Places DEF InOrder, Up, Changing
<1>4. ASSUME NEW s \in Shards, Pushing(s)
      PROVE  /\ Unmet(at[s]) /\ at[s] # at[Rest] /\ at[s] \in Links /\ at[s] # End
             /\ \A t \in Shards : t # s => at[t] # at[s]
             /\ pc[s] \in {"back", "front"} => prev[at[s]] = reg[s]
  <2>1. s \in Threads /\ Changing(s) BY <1>4, Roles DEF Changing
  <2> QED BY <1>2, <1>4, <2>1, Roles DEF DamageInv, FreshInv
<1>5. freed \subseteq 1..pushed /\ End \notin freed BY Places
<1>6. Erasing(Rest) => at[Rest] # End /\ at[Rest] \in Links /\ at[Rest] \notin freed
  BY <1>2, Roles DEF DamageInv, PlaceInv, Changing
<1>7. pc[Rest] \in {"unlink", "unback"} => Erasing(Rest) BY Roles, Points DEF GoneSteps
<1> QED BY <1>3, <1>4, <1>5, <1>6, <1>7
(* A push leads from the node it read, which is sound, to its own, to      *)
(* which nothing led.                                                      *)
LEMMA PushSound ==
  ASSUME Known, NEW s \in Shards, Push(s), ~fault'
  PROVE  SoundInv'
<1> USE Roles, Places, Points, Apart
    DEF Known, Goes, Relinks, Sound, OnlyFrom, BackTo, SoundInv, Unmet, GoneSteps
<1>1. CASE PushBegin(s) \/ PushCount(s)
  <2>1. ForwardSound' BY <1>1, PushDoes DEF ForwardSound
  <2>2. OneBefore' BY <1>1, PushDoes DEF OneBefore
  <2>3. EraseSound' BY <1>1, PushDoes DEF EraseSound
  <2> QED BY <2>1, <2>2, <2>3
<1>2. CASE PushLink(s)
  <2>1. ForwardSound' BY <1>2, PushDoes DEF ForwardSound
  <2>2. OneBefore' BY <1>2, PushDoes DEF OneBefore
  <2>3. EraseSound' BY <1>2, PushDoes DEF EraseSound
  <2> QED BY <2>1, <2>2, <2>3
<1>3. CASE PushBack(s)
  <2>1. ForwardSound' BY <1>3, PushDoes DEF ForwardSound
  <2>2. OneBefore' BY <1>3, PushDoes DEF OneBefore
  <2>3. EraseSound' BY <1>3, PushDoes DEF EraseSound
  <2> QED BY <2>1, <2>2, <2>3
<1>4. CASE PushFront(s)
  <2>1. ForwardSound' BY <1>4, PushDoes DEF ForwardSound
  <2>2. OneBefore' BY <1>4, PushDoes DEF OneBefore
  <2>3. EraseSound' BY <1>4, PushDoes DEF EraseSound
  <2> QED BY <2>1, <2>2, <2>3
<1> QED BY <1>1, <1>2, <1>3, <1>4 DEF Push

(* An erasure takes its node off the only node that leads to it.           *)
LEMMA EraseIsSound ==
  ASSUME Known, Erase(Rest), ~fault'
  PROVE  SoundInv'
<1> USE Roles, Places, Points, Apart
    DEF Known, Goes, Relinks, Sound, OnlyFrom, BackTo, SoundInv, GoneSteps
<1>1. CASE EraseBegin(Rest)
  <2>1. ForwardSound' BY <1>1, EraseDoes DEF ForwardSound, DamageInv, PlaceInv
  <2>2. OneBefore' BY <1>1, EraseDoes DEF OneBefore
  <2>3. EraseSound' BY <1>1, EraseDoes DEF EraseSound, OneBefore, DamageInv, PlaceInv
  <2> QED BY <2>1, <2>2, <2>3
<1>2. CASE EraseNext(Rest)
  <2>0. /\ pc[Rest] = "unlink" /\ Relinks(next, next', prev[at[Rest]], reg[Rest])
        /\ prev[at[Rest]] \notin freed /\ at'[Rest] = at[Rest] /\ freed' = freed
        /\ reg[Rest] # at[Rest] /\ at[Rest] # End
    BY <1>2, EraseDoes
  <2>a. ASSUME NEW x \in Links, Sound(x)', next'[x] = at[Rest] PROVE FALSE
    <3>1. x # prev[at[Rest]] /\ next[x] = at[Rest] /\ Sound(x) BY <2>0, <2>a
    <3> QED BY <2>0, <3>1 DEF OneBefore
  <2>1. ForwardSound' BY <1>2, <2>0, <2>a, EraseDoes DEF ForwardSound
  <2>2. OneBefore' BY <1>2, EraseDoes DEF OneBefore, EraseSound
  <2>3. EraseSound' BY <1>2, EraseDoes DEF EraseSound, OneBefore
  <2> QED BY <2>1, <2>2, <2>3
<1>3. CASE EraseReload(Rest)
  <2>1. ForwardSound' BY <1>3, EraseDoes DEF ForwardSound
  <2>2. OneBefore' BY <1>3, EraseDoes DEF OneBefore
  <2>3. EraseSound' BY <1>3, EraseDoes DEF EraseSound
  <2> QED BY <2>1, <2>2, <2>3
<1>4. CASE EraseBack(Rest)
  <2>1. ForwardSound' BY <1>4, EraseDoes DEF ForwardSound
  <2>2. OneBefore' BY <1>4, EraseDoes DEF OneBefore, EraseSound
  <2>3. EraseSound' BY <1>4, EraseDoes DEF EraseSound
  <2> QED BY <2>1, <2>2, <2>3
<1>5. CASE EraseLoad(Rest) \/ EraseCount(Rest)
  <2>1. ForwardSound' BY <1>5, EraseDoes DEF ForwardSound
  <2>2. OneBefore' BY <1>5, EraseDoes DEF OneBefore
  <2>3. EraseSound' BY <1>5, EraseDoes DEF EraseSound
  <2> QED BY <2>1, <2>2, <2>3
<1>6. CASE EraseFree(Rest)
  <2>1. ForwardSound' BY <1>6, EraseDoes DEF ForwardSound
  <2>2. OneBefore' BY <1>6, EraseDoes DEF OneBefore
  <2>3. EraseSound' BY <1>6, EraseDoes DEF EraseSound
  <2> QED BY <2>1, <2>2, <2>3
<1> QED BY <1>1, <1>2, <1>3, <1>4, <1>5, <1>6 DEF Erase
(* A traversal changes no link. *)
LEMMA ScanIsSound ==
  ASSUME Known, NEW t \in Threads, Scan(t) \/ ScanLeave(t)
  PROVE  SoundInv'
<1>1. /\ UNCHANGED <<next, prev, freed>>
      /\ \A u \in Threads : u # t => pc'[u] = pc[u] /\ at'[u] = at[u] /\ reg'[u] = reg[u]
      /\ pc[t] \in {"idle", "scan"} /\ pc'[t] \in {"idle", "scan"}
  <2>1. CASE ScanBegin(t) BY <2>1, ScanDoes DEF Known, Goes
  <2>2. CASE ScanNext(t) BY <2>2, ScanDoes DEF Known, Goes
  <2>3. CASE ScanEnd(t) \/ ScanLeave(t) BY <2>3, ScanDoes DEF Known, Goes
  <2>4. CASE ScanHit(t) BY <2>4, ScanDoes DEF Known, ScanHit
  <2> QED BY <2>1, <2>2, <2>3, <2>4 DEF Scan
<1> QED BY <1>1, Roles DEF Known, SoundInv, ForwardSound, OneBefore, EraseSound, Sound, OnlyFrom,
                           BackTo, GoneSteps

(* At the start every link leads to the sentinel. *)
LEMMA InitSound == Init => SoundInv
<1> SUFFICES ASSUME Init PROVE SoundInv OBVIOUS
<1>1. pc[Rest] = "idle" /\ freed = {} /\ \A x \in Links : next[x] = End BY Roles DEF Init
<1> QED BY <1>1 DEF SoundInv, ForwardSound, OneBefore, EraseSound, GoneSteps

(* As long as no freed node was touched, nothing that is not freed leads   *)
(* to a freed node, in a damaged list either.                              *)
THEOREM LinksAreSound == Spec => [](IInv /\ DamageInv /\ OrderInv /\ (fault \/ SoundInv))
<1> DEFINE J == fault \/ SoundInv
<1>1. IInv /\ DamageInv /\ OrderInv /\ J /\ [Next]_vars => J'
  <2> SUFFICES ASSUME IInv, DamageInv, OrderInv, J, [Next]_vars, ~fault' PROVE SoundInv'
    OBVIOUS
  <2>1. CASE UNCHANGED vars
    BY <2>1 DEF SoundInv, ForwardSound, OneBefore, EraseSound, Sound, OnlyFrom, BackTo, vars, list
  <2>2. CASE Next
    <3>1. Known BY <2>2 DEF Known, IInv, Next
    <3> QED BY <2>2, <3>1, PushSound, EraseIsSound, ScanIsSound, Roles DEF Next, Gateway, Callback
  <2> QED BY <2>1, <2>2
<1> QED BY <1>1, InitSound, LinksGoUp, PTL DEF Spec

(* NeverOntoFreed: a traversal never steps onto a freed node, even in a    *)
(* damaged list; it is hit only on the node it stands on                   *)
(* (tictactoe.cpp:235, 375, 534).                                          *)
THEOREM NeverOntoFreedNodes == Spec => NeverOntoFreed
<1> DEFINE Safe == \A t \in Threads : ScanNext(t) => at'[t] \notin freed
           J == fault \/ SoundInv
<1>1. ASSUME IInv, J, Next PROVE Safe
  <2> SUFFICES ASSUME NEW t \in Threads, ScanNext(t) PROVE at'[t] \notin freed OBVIOUS
  <2>1. BaseInv /\ ForwardSound BY <1>1 DEF IInv, Next, SoundInv
  <2>2. at[t] \in Links /\ at[t] \notin freed /\ at'[t] = next[at[t]]
    BY <2>1, ScanDoes, Places DEF Goes
  <2> QED BY <2>1, <2>2 DEF ForwardSound
<1>2. IInv /\ J /\ [Next]_vars => [Safe]_vars BY <1>1
<1> QED BY <1>2, LinksAreSound, PTL DEF Spec, NeverOntoFreed
=============================================================================
