----------------------------- MODULE ListProofs -----------------------------
(***************************************************************************)
(* For any number of shards and entries: as long as no two changes of the  *)
(* list overlap at its end, the list stays intact next to any other mix of *)
(* pushes, erasures and traversals, and a traversal misses nothing; as     *)
(* long as no two changes overlap at all, empty() is right.                *)
(*                                                                         *)
(* The argument: CalmInv says, for each point of a push and of an erasure, *)
(* which links are already changed.  A push works after the last entry,    *)
(* the erasure of another entry before it, so neither changes a link that  *)
(* the other has read.                                                     *)
(***************************************************************************)
EXTENDS TttList, TLAPS, FiniteSetTheorems

L == listed \cup {End}

(* What each thread does and where. *)
BaseInv ==
  /\ TypeOK
  /\ \A s \in Shards : ~Erasing(s)
  /\ ~Pushing(Rest)
  /\ \A t \in Threads : pc[t] = "idle" => at[t] = End
  /\ \A t \in Threads : Changing(t) => at[t] \in 1..pushed
  /\ \A t \in Threads : pc[t] \in {"back", "front", "unlink", "unback"} => reg[t] \in Links

GoneSteps == {"reload", "unback", "load", "uncount", "free"}

(* The changes that are under way do not meet. *)
ApartInv ==
  /\ \A s, t \in Shards : Pushing(s) /\ Pushing(t) => s = t
  /\ \A s \in Shards : Pushing(s) /\ Erasing(Rest) =>
       next[at[Rest]] # End /\ at[Rest] # at[s]

(* The node of a push comes after every entry of the list. *)
PushInv ==
  \A s \in Shards :
    /\ Pushing(s) => \A m \in listed : m < at[s]
    /\ pc[s] \in {"back", "front"} =>
         IsNext(reg[s], End) /\ next[at[s]] = End /\ prev[at[s]] = reg[s]
    /\ pc[s] = "front" => prev[End] = at[s]

(* The node of an erasure still leads to the entries after it. *)
EraseInv ==
  LET n == at[Rest] IN
  /\ pc[Rest] = "unlink" => n \in listed /\ reg[Rest] = next[n]
  /\ pc[Rest] \in {"reload", "unback"} => IsNext(prev[n], next[n]) /\ prev[next[n]] = n
  /\ pc[Rest] = "unback" => reg[Rest] = next[n]
  /\ pc[Rest] \in GoneSteps =>
       /\ n \notin listed /\ next[n] \in L
       /\ \A m \in listed : n < m => next[n] # End /\ next[n] <= m

(* The links back, save for one that a push or an erasure is about to set. *)
BackInv ==
  \A b \in L :
    \/ IsNext(prev[b], b)
    \/ b = End /\ \E s \in Shards : pc[s] = "front"
    \/ b = next[at[Rest]] /\ pc[Rest] \in {"reload", "unback"}

(* What a traversal has not met is still ahead of it. *)
ScanInv ==
  \A t \in Threads : pc[t] = "scan" =>
    /\ at[t] \in L \cup freed \/ (pc[Rest] \in GoneSteps /\ at[t] = at[Rest])
    /\ \A m \in stayed[t] : m \in listed /\ (m \in seen[t] \/ at[t] < m)

CalmInv ==
  ~clash => ApartInv /\ PushInv /\ EraseInv /\ Forward /\ BackInv /\ ScanInv

IInv == BaseInv /\ CalmInv

-----------------------------------------------------------------------------
(* IsNext for any list. *)
NextIn(S, a, b) ==
  /\ a \in S \cup {End} /\ b \in S \cup {End}
  /\ b # End => a < b
  /\ \A m \in S : a < m => b # End /\ b <= m

(* A new last entry comes after what was last, and changes no other link.  *)
LEMMA AddLast ==
  ASSUME NEW S, S \subseteq Nat \ {0}, NEW n \in Nat \ {0}, \A m \in S : m < n
  PROVE  /\ \A a, b : b # End /\ NextIn(S, a, b) => NextIn(S \cup {n}, a, b)
         /\ \A a : NextIn(S, a, End) => NextIn(S \cup {n}, a, n)
         /\ NextIn(S \cup {n}, n, End)
<1> USE DEF NextIn, End
<1>1. ASSUME NEW a, NEW b, b # End, NextIn(S, a, b) PROVE NextIn(S \cup {n}, a, b)
  <2>1. a \in Nat /\ b \in S /\ b < n BY <1>1
  <2> QED BY <1>1, <2>1
<1>2. ASSUME NEW a, NextIn(S, a, End) PROVE NextIn(S \cup {n}, a, n)
  <2>1. a \in S \cup {0} /\ a < n /\ \A m \in S : ~(a < m) BY <1>2
  <2> QED BY <2>1
<1>3. NextIn(S \cup {n}, n, End)
  <2>1. \A m \in S \cup {n} : ~(n < m) OBVIOUS
  <2> QED BY <2>1
<1> QED BY <1>1, <1>2, <1>3

(* Without an entry the one before is followed by the one after. *)
LEMMA DropOne ==
  ASSUME NEW S, S \subseteq Nat \ {0}, NEW n \in S
  PROVE  /\ \A a, b : a # n /\ b # n /\ NextIn(S, a, b) => NextIn(S \ {n}, a, b)
         /\ \A a, b : NextIn(S, a, n) /\ NextIn(S, n, b) => NextIn(S \ {n}, a, b)
<1> USE DEF NextIn, End
<1>1. ASSUME NEW a, NEW b, a # n, b # n, NextIn(S, a, b) PROVE NextIn(S \ {n}, a, b)
  BY <1>1
<1>2. ASSUME NEW a, NEW b, NextIn(S, a, n), NextIn(S, n, b) PROVE NextIn(S \ {n}, a, b)
  <2>1. a \in S \cup {0} /\ b \in S \cup {0} /\ a < n /\ a # n /\ b # n
    BY <1>2
  <2>2. b # 0 => n < b /\ a < b BY <2>1, <1>2
  <2>3. ASSUME NEW m \in S \ {n}, a < m PROVE b # 0 /\ b <= m
    <3>1. n <= m /\ n # m BY <1>2, <2>3
    <3>2. n < m BY <3>1
    <3> QED BY <3>2, <1>2, <2>3
  <2> QED BY <2>1, <2>2, <2>3
<1> QED BY <1>1, <1>2

(* An entry has one successor. *)
LEMMA OneNext ==
  ASSUME BaseInv, NEW a, NEW b, NEW c, IsNext(a, b), IsNext(a, c)
  PROVE  b = c
<1>1. listed \subseteq Nat /\ a \in Nat /\ b \in Nat /\ c \in Nat
  BY DEF BaseInv, TypeOK, IsNext, End
<1>2. b \in listed \cup {End} /\ c \in listed \cup {End} BY DEF IsNext
<1> QED BY <1>1, <1>2 DEF IsNext

(* An entry has one predecessor. *)
LEMMA OnePrev ==
  ASSUME BaseInv, NEW a, NEW b, NEW c, IsNext(a, c), IsNext(b, c)
  PROVE  a = b
<1>1. listed \subseteq Nat \ {0} /\ a \in Nat /\ b \in Nat /\ c \in Nat
  BY DEF BaseInv, TypeOK, IsNext, End
<1>2. a \in listed \cup {0} /\ b \in listed \cup {0} BY DEF IsNext, End
<1>3. ~(a < b)
  <2> SUFFICES ASSUME a < b PROVE FALSE OBVIOUS
  <2>1. b \in listed BY <1>1, <1>2
  <2> QED BY <2>1, <1>1 DEF IsNext
<1>4. ~(b < a)
  <2> SUFFICES ASSUME b < a PROVE FALSE OBVIOUS
  <2>1. a \in listed BY <1>1, <1>2
  <2> QED BY <2>1, <1>1 DEF IsNext
<1> QED BY <1>1, <1>3, <1>4

(* The entries and the nodes that are being pushed or erased are numbers.  *)
LEMMA Numbers ==
  ASSUME BaseInv
  PROVE  /\ listed \subseteq Node /\ End = 0 /\ Node \subseteq Nat \ {0}
         /\ \A t \in Threads : Changing(t) => at[t] \in Node /\ at[t] <= pushed
         /\ pushed \in Nat /\ 1..pushed \subseteq Node /\ L \subseteq Links
<1>1. pushed \in 0..MaxPush /\ MaxPush \in Nat BY ListAssumption DEF BaseInv, TypeOK
<1>2. listed \subseteq 1..pushed BY DEF BaseInv, TypeOK
<1>3. \A t \in Threads : Changing(t) => at[t] \in 1..pushed BY DEF BaseInv
<1> QED BY <1>1, <1>2, <1>3 DEF Node, End, L, Links

(* Shards and the REST thread are different threads. *)
LEMMA Roles ==
  /\ Rest \in Threads /\ Shards \subseteq Threads /\ \A s \in Shards : s # Rest
  /\ \A t \in Threads : t = Rest \/ t \in Shards
BY ListAssumption DEF Threads

-----------------------------------------------------------------------------
(* The initial states satisfy the invariant. *)
LEMMA InitIInv == Init => IInv
<1> SUFFICES ASSUME Init PROVE IInv OBVIOUS
<1>0. MaxPush \in Nat /\ 0 \in Links /\ 0 \in 0..MaxPush /\ Links \subseteq Int
  BY ListAssumption DEF Links, End, Node
<1>1. BaseInv
  <2>1. next \in [Links -> Links] /\ prev \in [Links -> Links] /\ at \in [Threads -> Links]
    BY <1>0 DEF Init, End
  <2>2. TypeOK BY <1>0, <2>1 DEF Init, TypeOK
  <2>3. \A t \in Threads : pc[t] = "idle" /\ at[t] = End BY DEF Init
  <2> QED BY <2>2, <2>3, Roles DEF BaseInv, Erasing, Pushing, Changing, PushSteps, EraseSteps
<1>2. CalmInv
  <2>1. \A t \in Threads : pc[t] = "idle" BY DEF Init
  <2>2. listed = {} /\ next[End] = End /\ prev[End] = End BY DEF Init, Links
  <2>3. IsNext(End, End) BY <2>2 DEF IsNext, End
  <2>4. Forward /\ BackInv BY <2>2, <2>3 DEF Forward, BackInv, L
  <2>5. ApartInv /\ PushInv BY <2>1, <2>2, Roles DEF ApartInv, PushInv, Pushing, PushSteps
  <2>6. EraseInv /\ ScanInv BY <2>1, Roles DEF EraseInv, ScanInv, GoneSteps
  <2> QED BY <2>4, <2>5, <2>6 DEF CalmInv
<1> QED BY <1>1, <1>2 DEF IInv

(* A step that leaves all variables alone keeps the invariant. *)
LEMMA StutterIInv == ASSUME IInv, UNCHANGED vars PROVE IInv'
<1> USE DEF vars, list, history
<1>1. BaseInv' BY DEF IInv, BaseInv, TypeOK, Erasing, Pushing, Changing
<1>2. CalmInv'
  <2>1. \A a, b : IsNext(a, b)' <=> IsNext(a, b) BY DEF IsNext
  <2>2. ApartInv => ApartInv' BY DEF ApartInv, Pushing, Erasing
  <2>3. PushInv => PushInv' BY <2>1 DEF PushInv, Pushing
  <2>4. EraseInv => EraseInv' BY <2>1 DEF EraseInv, L
  <2>5. Forward => Forward' BY <2>1 DEF Forward
  <2>6. BackInv => BackInv' BY <2>1 DEF BackInv, L
  <2>7. ScanInv => ScanInv' BY DEF ScanInv, L
  <2> QED BY <2>2, <2>3, <2>4, <2>5, <2>6, <2>7 DEF IInv, CalmInv
<1> QED BY <1>1, <1>2 DEF IInv

(* A change that does not clash with another as it begins. *)
LEMMA NoClash ==
  ASSUME NoteOverlap, ~clash', NEW t \in Threads, NEW u \in Threads, t # u, ChangesEnd(t)'
  PROVE  ~clash /\ ~ChangesEnd(u)'
BY DEF NoteOverlap, TwoChangesEnd
-----------------------------------------------------------------------------
(* One thread moves, the others keep their place. *)
Moves(t, p, a, r) ==
  /\ pc' = [pc EXCEPT ![t] = p] /\ at' = [at EXCEPT ![t] = a] /\ reg' = [reg EXCEPT ![t] = r]

(* Where the threads are after a step of one of them. *)
LEMMA Moved ==
  ASSUME TypeOK, NEW t \in Threads, NEW p, NEW a, NEW r, Moves(t, p, a, r)
  PROVE  /\ pc'[t] = p /\ at'[t] = a /\ reg'[t] = r
         /\ \A u \in Threads : u # t => pc'[u] = pc[u] /\ at'[u] = at[u] /\ reg'[u] = reg[u]
BY DEF TypeOK, Moves

(* A step that leaves a thread in a legal place keeps BaseInv. *)
LEMMA BaseStep ==
  ASSUME BaseInv, NEW t \in Threads, NEW p, NEW a, NEW r, Moves(t, p, a, r),
         p \in {"idle", "scan"} \cup PushSteps \cup EraseSteps,
         p \in EraseSteps => t = Rest, p \in PushSteps => t # Rest,
         a \in Links, r \in Int, p = "idle" => a = End,
         p \in PushSteps \cup EraseSteps => a \in 1..pushed',
         p \in {"back", "front", "unlink", "unback"} => r \in Links,
         next' \in [Links -> Links], prev' \in [Links -> Links], size' \in Int,
         pushed' \in 0..MaxPush, pushed <= pushed',
         freed' \subseteq 1..pushed', listed' \subseteq 1..pushed',
         fault' \in BOOLEAN, overlap' \in BOOLEAN, clash' \in BOOLEAN,
         seen' \in [Threads -> SUBSET Node], stayed' \in [Threads -> SUBSET Node]
  PROVE  BaseInv'
<1>1. /\ pc'[t] = p /\ at'[t] = a /\ reg'[t] = r
      /\ \A u \in Threads : u # t => pc'[u] = pc[u] /\ at'[u] = at[u] /\ reg'[u] = reg[u]
  BY Moved DEF BaseInv
<1>2. TypeOK'
  <2>1. pc' \in [Threads -> {"idle", "scan"} \cup PushSteps \cup EraseSteps]
    BY DEF Moves, BaseInv, TypeOK
  <2>2. at' \in [Threads -> Links] /\ reg' \in [Threads -> Int]
    BY DEF Moves, BaseInv, TypeOK
  <2> QED BY <2>1, <2>2 DEF TypeOK
<1>3. \A s \in Shards : ~Erasing(s)'
  BY <1>1, Roles DEF BaseInv, Erasing
<1>4. ~Pushing(Rest)' BY <1>1, Roles DEF BaseInv, Pushing
<1>5. \A u \in Threads : pc'[u] = "idle" => at'[u] = End BY <1>1 DEF BaseInv
<1>6. \A u \in Threads : Changing(u)' => at'[u] \in 1..pushed'
  <2>1. pushed \in Nat /\ pushed' \in Nat BY ListAssumption DEF BaseInv, TypeOK
  <2>2. ASSUME NEW u \in Threads, u # t, Changing(u)' PROVE at'[u] \in 1..pushed'
    <3>1. Changing(u) /\ at'[u] = at[u] BY <2>2, <1>1 DEF Changing, Pushing, Erasing
    <3> QED BY <3>1, <2>1 DEF BaseInv
  <2>3. Changing(t)' => at'[t] \in 1..pushed' BY <1>1 DEF Changing, Pushing, Erasing
  <2> QED BY <2>2, <2>3
<1>7. \A u \in Threads : pc'[u] \in {"back", "front", "unlink", "unback"} => reg'[u] \in Links
  BY <1>1 DEF BaseInv
<1> QED BY <1>2, <1>3, <1>4, <1>5, <1>6, <1>7 DEF BaseInv

(* A step that does not touch what a thread relies on: the links, the list *)
(* and the other threads stay, and this one gets nowhere new.              *)
LEMMA QuietStep ==
  ASSUME BaseInv, CalmInv, NEW t \in Threads,
         \A u \in Threads : u # t => pc'[u] = pc[u] /\ at'[u] = at[u] /\ reg'[u] = reg[u],
         UNCHANGED <<next, prev, listed, clash>>, freed \subseteq freed',
         PushInv => PushInv', EraseInv => EraseInv', ~clash /\ ScanInv => ScanInv',
         Pushing(t)' <=> Pushing(t), Erasing(t)' => Erasing(t),
         pc'[t] = "front" <=> pc[t] = "front",
         pc[t] \in {"reload", "unback"} => pc'[t] \in {"reload", "unback"},
         Changing(t)' => at'[t] = at[t]
  PROVE  CalmInv'
<1> SUFFICES ASSUME ~clash
             PROVE  ApartInv' /\ PushInv' /\ EraseInv' /\ Forward' /\ BackInv' /\ ScanInv'
  BY DEF CalmInv
<1>0. ApartInv /\ PushInv /\ EraseInv /\ Forward /\ BackInv /\ ScanInv BY DEF CalmInv
<1>1. \A a, b : IsNext(a, b)' <=> IsNext(a, b) BY DEF IsNext
<1>2. \A u \in Threads : (Pushing(u)' <=> Pushing(u)) /\ (Erasing(u)' => Erasing(u))
                         /\ (Changing(u)' => at'[u] = at[u])
  BY DEF Pushing, Erasing, Changing
<1>3. ApartInv' BY <1>0, <1>2, Roles DEF ApartInv, Changing
<1>4. Forward' BY <1>0, <1>1 DEF Forward
<1>5. BackInv'
  <2>1. \A s \in Shards : pc'[s] = "front" <=> pc[s] = "front" BY Roles
  <2>2. pc[Rest] \in {"reload", "unback"} => pc'[Rest] \in {"reload", "unback"} BY Roles
  <2>3. pc[Rest] \in {"reload", "unback"} => at'[Rest] = at[Rest]
    BY <2>2, <1>2, Roles DEF Changing, Erasing, EraseSteps
  <2> QED BY <1>0, <1>1, <2>1, <2>2, <2>3 DEF BackInv, L
<1> QED BY <1>0, <1>3, <1>4, <1>5

-----------------------------------------------------------------------------
(* push_onto_list *)

(* Nobody else changes the end of the list when the push begins. *)
LEMMA PushBeginIInv == ASSUME IInv, NEW s \in Shards, PushBegin(s) PROVE IInv'
<1> DEFINE new == pushed + 1
<1>a. /\ Moves(s, "count", new, size) /\ pc[s] = "idle" /\ pushed < MaxPush /\ pushed' = new
      /\ UNCHANGED <<next, prev, size, freed, fault, listed, seen, stayed>> /\ NoteOverlap
  BY DEF PushBegin, Goto, Moves
<1>b. s \in Threads /\ s # Rest BY Roles
<1>c. /\ pushed \in Nat /\ new \in 1..MaxPush /\ new \in 0..MaxPush /\ new \in Node /\ new \in Links
      /\ 1..pushed \subseteq 1..new /\ new \in 1..new
  BY <1>a, Numbers, ListAssumption DEF IInv, Node, Links
<1>d. listed \subseteq 1..pushed /\ freed \subseteq 1..pushed BY DEF IInv, BaseInv, TypeOK
<1> HIDE DEF new
<1>e. /\ pc'[s] = "count" /\ at'[s] = new
      /\ \A u \in Threads : u # s => pc'[u] = pc[u] /\ at'[u] = at[u] /\ reg'[u] = reg[u]
  BY <1>a, <1>b, Moved DEF IInv, BaseInv
<1>1. BaseInv'
  <2>1. overlap' \in BOOLEAN /\ clash' \in BOOLEAN
    BY <1>a DEF NoteOverlap, IInv, BaseInv, TypeOK
  <2>2. "count" \in PushSteps /\ "count" \notin EraseSteps BY DEF PushSteps, EraseSteps
  <2>3. pushed <= pushed' BY <1>a, <1>c DEF new
  <2>4. size \in Int BY DEF IInv, BaseInv, TypeOK
  <2>5. /\ next' \in [Links -> Links] /\ prev' \in [Links -> Links] /\ size' \in Int
        /\ fault' \in BOOLEAN /\ seen' \in [Threads -> SUBSET Node]
        /\ stayed' \in [Threads -> SUBSET Node] /\ freed' \subseteq 1..pushed'
        /\ listed' \subseteq 1..pushed'
    BY <1>a, <1>c, <1>d DEF IInv, BaseInv, TypeOK
  <2> QED BY <1>a, <1>b, <1>c, <2>1, <2>2, <2>3, <2>4, <2>5, BaseStep DEF IInv
<1>2. CalmInv'
  <2> SUFFICES ASSUME ~clash'
               PROVE  ApartInv' /\ PushInv' /\ EraseInv' /\ Forward' /\ BackInv' /\ ScanInv'
    BY DEF CalmInv
  <2>1. Pushing(s)' BY <1>e DEF Pushing, PushSteps
  <2>2. ~clash /\ \A u \in Threads : u # s => ~ChangesEnd(u)'
    <3>1. ChangesEnd(s)' BY <2>1 DEF ChangesEnd
    <3>2. ~clash BY <1>a DEF NoteOverlap
    <3>3. ASSUME NEW u \in Threads, u # s PROVE ~ChangesEnd(u)'
      BY <1>a, <1>b, <3>1, <3>3, NoClash
    <3> QED BY <3>2, <3>3
  <2>3. \A u \in Threads : u # s => ~Pushing(u)' BY <2>2 DEF ChangesEnd
  <2>4. ApartInv /\ PushInv /\ EraseInv /\ Forward /\ BackInv /\ ScanInv
    BY <2>2 DEF CalmInv, IInv
  <2>5. \A a, b : IsNext(a, b)' <=> IsNext(a, b) BY <1>a DEF IsNext
  <2>6. pc'[Rest] = pc[Rest] /\ at'[Rest] = at[Rest] /\ reg'[Rest] = reg[Rest]
    BY <1>b, <1>e, Roles
  <2>7. ApartInv'
    <3>1. \A t, u \in Shards : Pushing(t)' /\ Pushing(u)' => t = u BY <2>3, Roles
    <3>2. ASSUME Erasing(Rest)' PROVE next'[at'[Rest]] # End /\ at'[Rest] # at'[s]
      <4>1. next'[at'[Rest]] # End BY <3>2, <2>2, <1>b, Roles DEF ChangesEnd
      <4>2. at[Rest] <= pushed /\ at[Rest] \in Nat
        BY <3>2, <2>6, Numbers, Roles DEF Erasing, Changing, IInv
      <4> QED BY <4>1, <4>2, <2>6, <1>c, <1>e DEF new
    <3> QED BY <3>1, <3>2, <2>1, <2>3, Roles DEF ApartInv
  <2>8. PushInv'
    <3>1. \A m \in listed : m < new BY <1>c, <1>d DEF new
    <3>2. \A t \in Shards : t # s => ~Pushing(t)' BY <2>3, Roles
    <3> QED BY <3>1, <3>2, <1>a, <1>e DEF PushInv, Pushing, PushSteps
  <2>9. EraseInv' BY <2>4, <2>5, <2>6, <1>a DEF EraseInv, L
  <2>10. Forward' BY <2>4, <2>5, <1>a DEF Forward
  <2>11. BackInv'
    <3>1. \A t \in Shards : pc[t] = "front" => pc'[t] = "front" BY <1>a, <1>e, Roles
    <3> QED BY <3>1, <2>4, <2>5, <2>6, <1>a DEF BackInv, L
  <2>12. ScanInv'
    <3>1. \A t \in Threads : pc'[t] = "scan" => pc[t] = "scan" /\ at'[t] = at[t] BY <1>e
    <3> QED BY <3>1, <2>4, <2>6, <1>a DEF ScanInv, L
  <2> QED BY <2>7, <2>8, <2>9, <2>10, <2>11, <2>12
<1> QED BY <1>1, <1>2 DEF IInv

(* The size is of no concern to the links. *)
LEMMA PushCountIInv == ASSUME IInv, NEW s \in Shards, PushCount(s) PROVE IInv'
<1>a. /\ Moves(s, "link", at[s], reg[s]) /\ pc[s] = "count" /\ size' = reg[s] + 1
      /\ UNCHANGED <<next, prev, pushed, freed, fault, history>>
  BY DEF PushCount, Goto, Moves, IInv, BaseInv, TypeOK
<1>b. s \in Threads /\ s # Rest BY Roles
<1>c. at[s] \in Links /\ reg[s] \in Int /\ at[s] \in 1..pushed
  BY <1>a, <1>b DEF IInv, BaseInv, TypeOK, Changing, Pushing, PushSteps
<1>e. /\ pc'[s] = "link" /\ at'[s] = at[s] /\ reg'[s] = reg[s]
      /\ \A u \in Threads : u # s => pc'[u] = pc[u] /\ at'[u] = at[u] /\ reg'[u] = reg[u]
  BY <1>a, <1>b, Moved DEF IInv, BaseInv
<1>1. BaseInv'
  <2>1. "link" \in PushSteps /\ "link" \notin EraseSteps BY DEF PushSteps, EraseSteps
  <2>2. pushed <= pushed' /\ pushed' \in 0..MaxPush
    BY <1>a, ListAssumption DEF IInv, BaseInv, TypeOK
  <2>3. /\ next' \in [Links -> Links] /\ prev' \in [Links -> Links] /\ size' \in Int
        /\ fault' \in BOOLEAN /\ overlap' \in BOOLEAN /\ clash' \in BOOLEAN
        /\ seen' \in [Threads -> SUBSET Node] /\ stayed' \in [Threads -> SUBSET Node]
        /\ freed' \subseteq 1..pushed' /\ listed' \subseteq 1..pushed'
    BY <1>a, <1>c DEF history, IInv, BaseInv, TypeOK
  <2>4. at[s] \in 1..pushed' BY <1>a, <1>c
  <2> QED BY <1>a, <1>b, <1>c, <2>1, <2>2, <2>3, <2>4, BaseStep DEF IInv
<1>2. CalmInv'
  <2> USE <1>a DEF history
  <2>1. \A t \in Shards : (Pushing(t)' <=> Pushing(t)) /\ at'[t] = at[t] /\ reg'[t] = reg[t]
                          /\ (pc'[t] \in {"back", "front"} => pc'[t] = pc[t])
    BY <1>a, <1>b, <1>e, Roles DEF Pushing, PushSteps
  <2>2. \A a, b : IsNext(a, b)' <=> IsNext(a, b) BY DEF IsNext
  <2>3. pc'[Rest] = pc[Rest] /\ at'[Rest] = at[Rest] /\ reg'[Rest] = reg[Rest]
    BY <1>b, <1>e, Roles
  <2>4. PushInv => PushInv' BY <2>1, <2>2 DEF PushInv
  <2>5. EraseInv => EraseInv' BY <2>2, <2>3 DEF EraseInv, L
  <2>6. ScanInv => ScanInv'
    <3>1. \A t \in Threads : pc'[t] = "scan" => pc[t] = "scan" /\ at'[t] = at[t] BY <1>e
    <3> QED BY <3>1, <2>3 DEF ScanInv, L
  <2>7. /\ (Pushing(s)' <=> Pushing(s)) /\ (Erasing(s)' => Erasing(s))
        /\ (pc'[s] = "front" <=> pc[s] = "front") /\ pc[s] \notin {"reload", "unback"}
    BY <1>e, <2>1 DEF Erasing, EraseSteps
  <2> QED BY <1>b, <1>e, <2>4, <2>5, <2>6, <2>7, QuietStep DEF IInv
<1> QED BY <1>1, <1>2 DEF IInv

(* The last node is known when nobody else changes the end. *)
LEMMA PushLinkIInv == ASSUME IInv, NEW s \in Shards, PushLink(s) PROVE IInv'
<1> DEFINE new == at[s]
           last == prev[End]
<1>a. /\ Moves(s, "back", new, last) /\ pc[s] = "link"
      /\ next' = [next EXCEPT ![new] = End] /\ prev' = [prev EXCEPT ![new] = last]
      /\ UNCHANGED <<size, pushed, freed, fault, history>>
  BY DEF PushLink, Goto, Moves, IInv, BaseInv, TypeOK
<1>b. s \in Threads /\ s # Rest BY Roles
<1>c. new \in 1..pushed /\ new \in Links /\ last \in Links /\ End \in Links /\ new # End
      /\ last \in Int /\ L \subseteq Links
  <2>1. new \in 1..pushed
    BY <1>a, <1>b DEF IInv, BaseInv, Changing, Pushing, PushSteps
  <2>2. End \in Links BY DEF Links
  <2>3. last \in Links BY <2>2 DEF IInv, BaseInv, TypeOK
  <2>4. Links \subseteq Int BY DEF Links, Node, End
  <2> QED BY <2>1, <2>2, <2>3, <2>4, Numbers DEF IInv, Links
<1> HIDE DEF new, last
<1>e. /\ pc'[s] = "back" /\ at'[s] = new /\ reg'[s] = last
      /\ \A u \in Threads : u # s => pc'[u] = pc[u] /\ at'[u] = at[u] /\ reg'[u] = reg[u]
  BY <1>a, <1>b, Moved DEF IInv, BaseInv
<1>f. /\ next'[new] = End /\ prev'[new] = last
      /\ \A n \in Links : n # new => next'[n] = next[n] /\ prev'[n] = prev[n]
  BY <1>a, <1>c DEF IInv, BaseInv, TypeOK
<1>1. BaseInv'
  <2>1. "back" \in PushSteps /\ "back" \notin EraseSteps BY DEF PushSteps, EraseSteps
  <2>2. pushed <= pushed' /\ pushed' \in 0..MaxPush
    BY <1>a, ListAssumption DEF IInv, BaseInv, TypeOK
  <2>3. /\ next' \in [Links -> Links] /\ prev' \in [Links -> Links] /\ size' \in Int
        /\ fault' \in BOOLEAN /\ overlap' \in BOOLEAN /\ clash' \in BOOLEAN
        /\ seen' \in [Threads -> SUBSET Node] /\ stayed' \in [Threads -> SUBSET Node]
        /\ freed' \subseteq 1..pushed' /\ listed' \subseteq 1..pushed'
    BY <1>a, <1>c DEF history, IInv, BaseInv, TypeOK
  <2>4. new \in 1..pushed' BY <1>a, <1>c
  <2> QED BY <1>a, <1>b, <1>c, <2>1, <2>2, <2>3, <2>4, BaseStep DEF IInv
<1>2. CalmInv'
  <2> SUFFICES ASSUME ~clash
               PROVE  ApartInv' /\ PushInv' /\ EraseInv' /\ Forward' /\ BackInv' /\ ScanInv'
    BY <1>a DEF CalmInv, history
  <2>1. ApartInv /\ PushInv /\ EraseInv /\ Forward /\ BackInv /\ ScanInv
    BY DEF CalmInv, IInv
  <2>2. listed' = listed /\ L' = L /\ stayed' = stayed /\ seen' = seen /\ freed' = freed
        /\ \A a, b : IsNext(a, b)' <=> IsNext(a, b)
    BY <1>a DEF IsNext, history, L
  <2>3. pc'[Rest] = pc[Rest] /\ at'[Rest] = at[Rest] /\ reg'[Rest] = reg[Rest]
    BY <1>b, <1>e, Roles
  <2>4. Pushing(s) /\ Pushing(s)' BY <1>a, <1>e DEF Pushing, PushSteps
  <2>5. \A m \in listed : m < new BY <2>1, <2>4 DEF PushInv, new
  <2>6. \A n \in L : n # new /\ n \in Links BY <2>5, <1>c, Numbers DEF IInv, L
  <2>7. Erasing(Rest) => next[at[Rest]] # End /\ at[Rest] # new
    BY <2>1, <2>4 DEF ApartInv, new
  <2>8. \A t \in Shards : t # s => ~Pushing(t) /\ ~Pushing(t)'
    BY <2>1, <2>4, <1>e, Roles DEF ApartInv, Pushing
  <2>9. Erasing(Rest) => at[Rest] \in Links /\ next'[at[Rest]] = next[at[Rest]]
                         /\ prev'[at[Rest]] = prev[at[Rest]]
    BY <2>7, <1>f, Roles DEF IInv, BaseInv, TypeOK
  <2>10. \A n \in L : next'[n] = next[n] /\ prev'[n] = prev[n] BY <2>6, <1>f
  <2>11. ApartInv'
    <3>1. Erasing(Rest)' => Erasing(Rest) BY <2>3 DEF Erasing
    <3> QED BY <3>1, <2>3, <2>4, <2>7, <2>8, <2>9, <1>e DEF ApartInv
  <2>12. PushInv'
    <3>1. IsNext(last, End)
      <4>1. End \in L BY DEF L
      <4>2. ~(\E t \in Shards : pc[t] = "front")
        BY <2>8, <1>a DEF Pushing, PushSteps
      <4>3. ~(End = next[at[Rest]] /\ pc[Rest] \in {"reload", "unback"})
        BY <2>7 DEF Erasing, EraseSteps
      <4> QED BY <4>1, <4>2, <4>3, <2>1 DEF BackInv, last
    <3>2. ASSUME NEW t \in Shards, t # s PROVE ~Pushing(t)' /\ pc'[t] \notin {"back", "front"}
      BY <3>2, <2>8 DEF Pushing, PushSteps
    <3> QED BY <3>1, <3>2, <2>2, <2>5, <1>e, <1>f DEF PushInv
  <2>13. EraseInv'
    <3>1. pc[Rest] \in GoneSteps \cup {"unlink"} => Erasing(Rest)
      BY DEF GoneSteps, Erasing, EraseSteps
    <3>2. pc[Rest] \in {"reload", "unback"} => next[at[Rest]] \in L /\ pc[Rest] \in GoneSteps
      BY <2>1 DEF EraseInv, GoneSteps
    <3> QED BY <3>1, <3>2, <2>1, <2>2, <2>3, <2>9, <2>10 DEF EraseInv
  <2>14. Forward' BY <2>1, <2>2, <2>10 DEF Forward, L
  <2>15. BackInv'
    <3>1. \A t \in Shards : pc[t] # "front" BY <2>8, <1>a DEF Pushing, PushSteps
    <3>2. pc[Rest] \in {"reload", "unback"} => next'[at'[Rest]] = next[at[Rest]]
      BY <2>3, <2>9 DEF Erasing, EraseSteps
    <3> QED BY <3>1, <3>2, <2>1, <2>2, <2>3, <2>10 DEF BackInv
  <2>16. ScanInv'
    <3>1. \A t \in Threads : pc'[t] = "scan" => pc[t] = "scan" /\ at'[t] = at[t] BY <1>e
    <3> QED BY <3>1, <2>1, <2>2, <2>3 DEF ScanInv
  <2> QED BY <2>11, <2>12, <2>13, <2>14, <2>15, <2>16
<1> QED BY <1>1, <1>2 DEF IInv
(* From now on the sentinel leads back to a node that nothing leads to.    *)
LEMMA PushBackIInv == ASSUME IInv, NEW s \in Shards, PushBack(s) PROVE IInv'
<1> DEFINE new == at[s]
<1>a. /\ Moves(s, "front", new, reg[s]) /\ pc[s] = "back"
      /\ prev' = [prev EXCEPT ![End] = new]
      /\ UNCHANGED <<next, size, pushed, freed, fault, history>>
  BY DEF PushBack, Goto, Moves, IInv, BaseInv, TypeOK
<1>b. s \in Threads /\ s # Rest BY Roles
<1>c. new \in 1..pushed /\ new \in Links /\ End \in Links /\ new # End /\ reg[s] \in Links
      /\ reg[s] \in Int
  <2>1. new \in 1..pushed /\ reg[s] \in Links
    BY <1>a, <1>b DEF IInv, BaseInv, Changing, Pushing, PushSteps
  <2>2. Links \subseteq Int BY DEF Links, Node, End
  <2> QED BY <2>1, <2>2, Numbers DEF IInv, Links
<1> HIDE DEF new
<1>e. /\ pc'[s] = "front" /\ at'[s] = new /\ reg'[s] = reg[s]
      /\ \A u \in Threads : u # s => pc'[u] = pc[u] /\ at'[u] = at[u] /\ reg'[u] = reg[u]
  BY <1>a, <1>b, Moved DEF IInv, BaseInv
<1>f. prev'[End] = new /\ \A n \in Links : n # End => prev'[n] = prev[n]
  BY <1>a, <1>c DEF IInv, BaseInv, TypeOK
<1>1. BaseInv'
  <2>1. "front" \in PushSteps /\ "front" \notin EraseSteps BY DEF PushSteps, EraseSteps
  <2>2. pushed <= pushed' /\ pushed' \in 0..MaxPush
    BY <1>a, ListAssumption DEF IInv, BaseInv, TypeOK
  <2>3. /\ next' \in [Links -> Links] /\ prev' \in [Links -> Links] /\ size' \in Int
        /\ fault' \in BOOLEAN /\ overlap' \in BOOLEAN /\ clash' \in BOOLEAN
        /\ seen' \in [Threads -> SUBSET Node] /\ stayed' \in [Threads -> SUBSET Node]
        /\ freed' \subseteq 1..pushed' /\ listed' \subseteq 1..pushed'
    BY <1>a, <1>c DEF history, IInv, BaseInv, TypeOK
  <2>4. new \in 1..pushed' BY <1>a, <1>c
  <2> QED BY <1>a, <1>b, <1>c, <2>1, <2>2, <2>3, <2>4, BaseStep DEF IInv
<1>2. CalmInv'
  <2> SUFFICES ASSUME ~clash
               PROVE  ApartInv' /\ PushInv' /\ EraseInv' /\ Forward' /\ BackInv' /\ ScanInv'
    BY <1>a DEF CalmInv, history
  <2>1. ApartInv /\ PushInv /\ EraseInv /\ Forward /\ BackInv /\ ScanInv
    BY DEF CalmInv, IInv
  <2>2. listed' = listed /\ L' = L /\ stayed' = stayed /\ seen' = seen /\ freed' = freed
        /\ next' = next /\ \A a, b : IsNext(a, b)' <=> IsNext(a, b)
    BY <1>a DEF IsNext, history, L
  <2>3. pc'[Rest] = pc[Rest] /\ at'[Rest] = at[Rest] /\ reg'[Rest] = reg[Rest]
    BY <1>b, <1>e, Roles
  <2>4. Pushing(s) /\ Pushing(s)' BY <1>a, <1>e DEF Pushing, PushSteps
  <2>7. Erasing(Rest) => next[at[Rest]] # End /\ at[Rest] # new
    BY <2>1, <2>4 DEF ApartInv, new
  <2>8. \A t \in Shards : t # s => ~Pushing(t) /\ ~Pushing(t)'
    BY <2>1, <2>4, <1>e, Roles DEF ApartInv, Pushing
  <2>9. Erasing(Rest) => /\ at[Rest] \in Links /\ at[Rest] # End
                         /\ prev'[at[Rest]] = prev[at[Rest]]
                         /\ prev'[next[at[Rest]]] = prev[next[at[Rest]]]
    <3> SUFFICES ASSUME Erasing(Rest)
                 PROVE  /\ at[Rest] \in Links /\ at[Rest] # End
                        /\ prev'[at[Rest]] = prev[at[Rest]]
                        /\ prev'[next[at[Rest]]] = prev[next[at[Rest]]]
      OBVIOUS
    <3>1. at[Rest] \in Node BY Numbers, Roles DEF Changing, IInv
    <3>2. at[Rest] \in Links /\ at[Rest] # End BY <3>1, Numbers DEF Links, IInv
    <3>3. next[at[Rest]] \in Links BY <3>2 DEF IInv, BaseInv, TypeOK
    <3> QED BY <3>2, <3>3, <2>7, <1>f
  <2>11. ApartInv' BY <2>1, <2>2, <2>3, <2>4, <2>7, <2>8, <1>e DEF ApartInv, Erasing
  <2>12. PushInv'
    <3>1. ASSUME NEW t \in Shards, t # s PROVE ~Pushing(t)' /\ pc'[t] \notin {"back", "front"}
      BY <3>1, <2>8 DEF Pushing, PushSteps
    <3>2. /\ \A m \in listed : m < new
          /\ IsNext(reg[s], End) /\ next[new] = End /\ prev[new] = reg[s]
      BY <2>1, <2>4, <1>a DEF PushInv, new
    <3> QED BY <3>1, <3>2, <2>2, <1>c, <1>e, <1>f DEF PushInv
  <2>13. EraseInv'
    <3>1. pc[Rest] \in GoneSteps \cup {"unlink"} => Erasing(Rest)
      BY DEF GoneSteps, Erasing, EraseSteps
    <3> QED BY <3>1, <2>1, <2>2, <2>3, <2>9 DEF EraseInv, GoneSteps
  <2>14. Forward' BY <2>1, <2>2 DEF Forward
  <2>15. BackInv'
    <3>1. \A b \in L : b # End => prev'[b] = prev[b] BY <1>f, Numbers DEF IInv
    <3>2. \A t \in Shards : pc[t] # "front" BY <2>8, <1>a DEF Pushing, PushSteps
    <3> QED BY <3>1, <3>2, <2>1, <2>2, <2>3, <1>e DEF BackInv
  <2>16. ScanInv'
    <3>1. \A t \in Threads : pc'[t] = "scan" => pc[t] = "scan" /\ at'[t] = at[t] BY <1>e
    <3> QED BY <3>1, <2>1, <2>2, <2>3 DEF ScanInv
  <2> QED BY <2>11, <2>12, <2>13, <2>14, <2>15, <2>16
<1> QED BY <1>1, <1>2 DEF IInv

(* The push is complete: the node is the last of the list. *)
LEMMA PushFrontIInv == ASSUME IInv, NEW s \in Shards, PushFront(s) PROVE IInv'
<1> DEFINE new == at[s]
           last == reg[s]
<1>a. /\ Moves(s, "idle", End, 0) /\ pc[s] = "front"
      /\ next' = [next EXCEPT ![last] = new] /\ listed' = listed \cup {new}
      /\ fault' = (last \in freed)
      /\ UNCHANGED <<prev, size, pushed, freed, seen, stayed, overlap, clash>>
  BY DEF PushFront, Return, Moves
<1>b. s \in Threads /\ s # Rest BY Roles
<1>c. new \in 1..pushed /\ new \in Links /\ End \in Links /\ new # End /\ last \in Links
      /\ new \in Nat /\ 0 \in Int
  <2>1. new \in 1..pushed /\ last \in Links
    BY <1>a, <1>b DEF IInv, BaseInv, Changing, Pushing, PushSteps
  <2> QED BY <2>1, Numbers DEF IInv, Links
<1> HIDE DEF new, last
<1>e. /\ pc'[s] = "idle" /\ at'[s] = End
      /\ \A u \in Threads : u # s => pc'[u] = pc[u] /\ at'[u] = at[u] /\ reg'[u] = reg[u]
  BY <1>a, <1>b, Moved DEF IInv, BaseInv
<1>f. next'[last] = new /\ \A n \in Links : n # last => next'[n] = next[n]
  BY <1>a, <1>c DEF IInv, BaseInv, TypeOK
<1>1. BaseInv'
  <2>1. "idle" \notin PushSteps /\ "idle" \notin EraseSteps BY DEF PushSteps, EraseSteps
  <2>2. pushed <= pushed' /\ pushed' \in 0..MaxPush
    BY <1>a, ListAssumption DEF IInv, BaseInv, TypeOK
  <2>3. /\ next' \in [Links -> Links] /\ prev' \in [Links -> Links] /\ size' \in Int
        /\ fault' \in BOOLEAN /\ overlap' \in BOOLEAN /\ clash' \in BOOLEAN
        /\ seen' \in [Threads -> SUBSET Node] /\ stayed' \in [Threads -> SUBSET Node]
        /\ freed' \subseteq 1..pushed' /\ listed' \subseteq 1..pushed'
    BY <1>a, <1>c DEF IInv, BaseInv, TypeOK
  <2> QED BY <1>a, <1>b, <1>c, <2>1, <2>2, <2>3, BaseStep DEF IInv
<1>2. CalmInv'
  <2> SUFFICES ASSUME ~clash
               PROVE  ApartInv' /\ PushInv' /\ EraseInv' /\ Forward' /\ BackInv' /\ ScanInv'
    BY <1>a DEF CalmInv
  <2>1. ApartInv /\ PushInv /\ EraseInv /\ Forward /\ BackInv /\ ScanInv
    BY DEF CalmInv, IInv
  <2>2. L' = L \cup {new} BY <1>a DEF L
  <2>3. pc'[Rest] = pc[Rest] /\ at'[Rest] = at[Rest] /\ reg'[Rest] = reg[Rest]
    BY <1>b, <1>e, Roles
  <2>4. Pushing(s) /\ ~Pushing(s)' BY <1>a, <1>e DEF Pushing, PushSteps
  <2>5. (\A m \in listed : m < new) /\ IsNext(last, End) /\ next[new] = End
        /\ prev[new] = last /\ prev[End] = new
    BY <2>1, <2>4, <1>a DEF PushInv, new, last
  <2>6. listed \subseteq Nat \ {0} /\ End = 0 /\ L \subseteq Links /\ last \in Nat /\ last \in L
        /\ last # new /\ new \notin L
    BY <2>5, <1>c, Numbers DEF IInv, L, IsNext
  <2>7. Erasing(Rest) => next[at[Rest]] # End /\ at[Rest] # new
    BY <2>1, <2>4 DEF ApartInv, new
  <2>8. \A t \in Shards : ~Pushing(t)'
    BY <2>1, <2>4, <1>e, Roles DEF ApartInv, Pushing
  <2>9. \A m \in listed : m <= last BY <2>5, <2>6 DEF IsNext, End
  <2>10. /\ listed' = listed \cup {new}
         /\ \A a, b : IsNext(a, b) <=> NextIn(listed, a, b)
         /\ \A a, b : IsNext(a, b)' <=> NextIn(listed', a, b)
    BY <1>a DEF IsNext, NextIn
  <2>11. /\ \A a, b : b # End /\ NextIn(listed, a, b) => NextIn(listed \cup {new}, a, b)
         /\ \A a : NextIn(listed, a, End) => NextIn(listed \cup {new}, a, new)
         /\ NextIn(listed \cup {new}, new, End)
    <3>1. new \in Nat \ {0} BY <1>c, <2>6
    <3> QED BY <3>1, <2>5, <2>6, AddLast
  <2>12. /\ \A a, b : b # End /\ IsNext(a, b) => NextIn(listed', a, b)
         /\ NextIn(listed', last, new) /\ NextIn(listed', new, End)
    BY <2>5, <2>10, <2>11
  <2>13. Erasing(Rest) =>
           /\ at[Rest] \in Links /\ at[Rest] # End /\ next[at[Rest]] \in Links
           /\ at[Rest] # last /\ next'[at[Rest]] = next[at[Rest]]
    <3> SUFFICES ASSUME Erasing(Rest)
                 PROVE  /\ at[Rest] \in Links /\ at[Rest] # End /\ next[at[Rest]] \in Links
                        /\ at[Rest] # last /\ next'[at[Rest]] = next[at[Rest]]
      OBVIOUS
    <3>1. at[Rest] \in Node BY Numbers, Roles DEF Changing, IInv
    <3>2. at[Rest] \in Links /\ at[Rest] # End BY <3>1, Numbers DEF Links, IInv
    <3>3. next[at[Rest]] \in Links BY <3>2 DEF IInv, BaseInv, TypeOK
    <3>4. at[Rest] # last
      <4>1. CASE pc[Rest] = "unlink"
        <5>1. at[Rest] \in L BY <2>1, <4>1 DEF EraseInv, L
        <5>2. IsNext(at[Rest], next[at[Rest]]) BY <5>1, <2>1 DEF Forward, L
        <5> QED BY <5>2, <2>5, <2>7, OneNext DEF IInv
      <4>2. CASE pc[Rest] # "unlink"
        <5>1. pc[Rest] \in GoneSteps BY <4>2 DEF Erasing, EraseSteps, GoneSteps
        <5> QED BY <5>1, <3>2, <2>1, <2>6 DEF EraseInv, L
      <4> QED BY <4>1, <4>2
    <3> QED BY <3>2, <3>3, <3>4, <1>f
  <2>14. ApartInv' BY <2>8 DEF ApartInv
  <2>15. PushInv' BY <2>8 DEF PushInv, Pushing, PushSteps
  <2>16. EraseInv'
    <3>1. pc[Rest] \in GoneSteps \cup {"unlink"} => Erasing(Rest)
      BY DEF GoneSteps, Erasing, EraseSteps
    <3>2. pc'[Rest] = "unlink" => at'[Rest] \in listed' /\ reg'[Rest] = next'[at'[Rest]]
      BY <3>1, <2>1, <2>3, <2>13, <1>a DEF EraseInv
    <3>3. ASSUME pc[Rest] \in {"reload", "unback"}
          PROVE  /\ IsNext(prev[at[Rest]], next[at[Rest]])'
                 /\ prev'[next'[at'[Rest]]] = at'[Rest]
      <4>1. Erasing(Rest) BY <3>3 DEF Erasing, EraseSteps
      <4>2. IsNext(prev[at[Rest]], next[at[Rest]]) /\ prev[next[at[Rest]]] = at[Rest]
        BY <3>3, <2>1 DEF EraseInv
      <4>3. prev'[at'[Rest]] = prev[at[Rest]] /\ next'[at'[Rest]] = next[at[Rest]]
            /\ prev'[next'[at'[Rest]]] = prev[next[at[Rest]]]
        BY <4>1, <2>3, <2>13, <1>a
      <4>4. NextIn(listed', prev[at[Rest]], next[at[Rest]]) BY <4>1, <4>2, <2>7, <2>12
      <4>5. NextIn(listed', prev'[at'[Rest]], next'[at'[Rest]]) BY <4>3, <4>4
      <4> QED BY <4>2, <4>3, <4>5, <2>3 DEF IsNext, NextIn
    <3>4. pc[Rest] = "unback" => reg'[Rest] = next'[at'[Rest]]
      BY <3>1, <2>1, <2>3, <2>13 DEF EraseInv, GoneSteps
    <3>5. ASSUME pc[Rest] \in GoneSteps
          PROVE  /\ at'[Rest] \notin listed' /\ next'[at'[Rest]] \in L'
                 /\ \A m \in listed' : at'[Rest] < m => next'[at'[Rest]] # End /\ next'[at'[Rest]] <= m
      <4>1. Erasing(Rest) BY <3>1, <3>5
      <4>2. /\ at[Rest] \notin listed /\ next[at[Rest]] \in L
            /\ \A m \in listed : at[Rest] < m => next[at[Rest]] # End /\ next[at[Rest]] <= m
        BY <3>5, <2>1 DEF EraseInv
      <4>3. next[at[Rest]] \in listed BY <4>1, <4>2, <2>7 DEF L
      <4>4. next[at[Rest]] <= new
        <5>1. \A m \in listed : m \in Nat /\ m <= new BY <2>5, <2>6, <1>c
        <5> QED BY <4>3, <5>1
      <4> QED BY <4>1, <4>2, <4>4, <2>2, <2>3, <2>7, <2>13, <1>a
    <3> QED BY <3>2, <3>3, <3>4, <3>5, <2>3 DEF EraseInv
  <2>17. Forward'
    <3> SUFFICES ASSUME NEW a \in L' PROVE NextIn(listed', a, next'[a])
      BY DEF Forward, L, IsNext, NextIn
    <3>1. CASE a = new
      <4>1. next'[new] = End BY <2>5, <2>6, <1>c, <1>f
      <4> QED BY <3>1, <4>1, <2>12
    <3>2. CASE a = last BY <3>2, <2>12, <1>f
    <3>3. CASE a \in L /\ a # last
      <4>1. IsNext(a, next[a]) /\ a \in Links /\ next'[a] = next[a]
        BY <3>3, <2>1, <2>6, <1>f DEF Forward, L
      <4>2. next[a] # End
        <5>1. a \in Nat /\ a <= last BY <3>3, <2>6, <2>9 DEF L
        <5>2. a < last /\ last # End BY <5>1, <3>3, <2>6
        <5> QED BY <5>2, <4>1, <2>6 DEF IsNext, L
      <4> QED BY <4>1, <4>2, <2>12
    <3> QED BY <3>1, <3>2, <3>3, <2>2
  <2>18. BackInv'
    <3> DEFINE late(b) == b = next'[at'[Rest]] /\ pc'[Rest] \in {"reload", "unback"}
    <3> SUFFICES ASSUME NEW b \in L' PROVE NextIn(listed', prev'[b], b) \/ late(b)
      BY DEF BackInv, IsNext, NextIn
    <3>1. CASE b = new BY <3>1, <2>12, <2>5, <1>a
    <3>2. CASE b = End BY <3>2, <2>12, <2>5, <1>a
    <3>3. CASE b \in listed
      <4>0. b # End /\ b \in L BY <3>3, <2>6 DEF L
      <4>1. IsNext(prev[b], b) \/ (b = next[at[Rest]] /\ pc[Rest] \in {"reload", "unback"})
        BY <4>0, <2>1 DEF BackInv
      <4>2. CASE IsNext(prev[b], b) BY <4>0, <4>2, <2>12, <1>a
      <4>3. CASE b = next[at[Rest]] /\ pc[Rest] \in {"reload", "unback"}
        BY <4>3, <2>3, <2>13 DEF Erasing, EraseSteps
      <4> QED BY <4>1, <4>2, <4>3
    <3> QED BY <3>1, <3>2, <3>3, <2>2 DEF L
  <2>19. ScanInv'
    <3>1. \A t \in Threads : pc'[t] = "scan" => pc[t] = "scan" /\ at'[t] = at[t] BY <1>e
    <3> QED BY <3>1, <2>1, <2>2, <2>3, <1>a DEF ScanInv
  <2> QED BY <2>14, <2>15, <2>16, <2>17, <2>18, <2>19
<1> QED BY <1>1, <1>2 DEF IInv
-----------------------------------------------------------------------------
(* erase_one_from_list *)

(* Next to a push, only an entry that another follows is erased. *)
LEMMA EraseBeginIInv == ASSUME IInv, EraseBegin(Rest) PROVE IInv'
<1>a. PICK n \in listed : Moves(Rest, "unlink", n, next[n])
  BY DEF EraseBegin, Goto, Moves
<1>b. /\ pc[Rest] = "idle" /\ NoteOverlap
      /\ UNCHANGED <<next, prev, size, pushed, freed, fault, listed, seen, stayed>>
  BY DEF EraseBegin, Goto, list
<1>c. n \in 1..pushed /\ n \in Links /\ n # End /\ next[n] \in Links /\ next[n] \in Int
  <2>1. n \in 1..pushed /\ n \in Node BY Numbers DEF IInv, BaseInv, TypeOK
  <2>2. n \in Links /\ n # End BY <2>1, Numbers DEF IInv, Links
  <2>3. next[n] \in Links BY <2>2 DEF IInv, BaseInv, TypeOK
  <2>4. Links \subseteq Int BY DEF Links, Node, End
  <2> QED BY <2>1, <2>2, <2>3, <2>4
<1>e. /\ pc'[Rest] = "unlink" /\ at'[Rest] = n /\ reg'[Rest] = next[n]
      /\ \A u \in Threads : u # Rest => pc'[u] = pc[u] /\ at'[u] = at[u] /\ reg'[u] = reg[u]
  BY <1>a, Roles, Moved DEF IInv, BaseInv
<1>1. BaseInv'
  <2>1. "unlink" \in EraseSteps /\ "unlink" \notin PushSteps BY DEF PushSteps, EraseSteps
  <2>2. pushed <= pushed' /\ pushed' \in 0..MaxPush
    BY <1>b, ListAssumption DEF IInv, BaseInv, TypeOK
  <2>3. /\ next' \in [Links -> Links] /\ prev' \in [Links -> Links] /\ size' \in Int
        /\ fault' \in BOOLEAN
        /\ seen' \in [Threads -> SUBSET Node] /\ stayed' \in [Threads -> SUBSET Node]
        /\ freed' \subseteq 1..pushed' /\ listed' \subseteq 1..pushed'
    BY <1>b DEF IInv, BaseInv, TypeOK
  <2>4. overlap' \in BOOLEAN /\ clash' \in BOOLEAN
    BY <1>b DEF NoteOverlap, IInv, BaseInv, TypeOK
  <2>5. n \in 1..pushed' BY <1>b, <1>c
  <2> QED BY <1>a, <1>c, <2>1, <2>2, <2>3, <2>4, <2>5, Roles, BaseStep DEF IInv
<1>2. CalmInv'
  <2> SUFFICES ASSUME ~clash'
               PROVE  ApartInv' /\ PushInv' /\ EraseInv' /\ Forward' /\ BackInv' /\ ScanInv'
    BY DEF CalmInv
  <2>1. ~clash BY <1>b DEF NoteOverlap
  <2>2. ApartInv /\ PushInv /\ EraseInv /\ Forward /\ BackInv /\ ScanInv
    BY <2>1 DEF CalmInv, IInv
  <2>3. \A a, b : IsNext(a, b)' <=> IsNext(a, b) BY <1>b DEF IsNext
  <2>4. \A s \in Shards : /\ pc'[s] = pc[s] /\ at'[s] = at[s] /\ reg'[s] = reg[s]
                          /\ (Pushing(s)' <=> Pushing(s))
    BY <1>e, Roles DEF Pushing
  <2>5. ASSUME NEW s \in Shards, Pushing(s) PROVE next[n] # End /\ n # at[s]
    <3>1. ChangesEnd(s)' /\ s \in Threads /\ s # Rest BY <2>4, <2>5, Roles DEF ChangesEnd
    <3>2. ~ChangesEnd(Rest)' BY <3>1, <1>b, Roles, NoClash
    <3>3. next[n] # End BY <3>2, <1>b, <1>e DEF ChangesEnd, Erasing, EraseSteps
    <3>4. n < at[s] BY <2>2, <2>5 DEF PushInv
    <3>5. n \in Nat BY <1>c
    <3> QED BY <3>3, <3>4, <3>5
  <2>6. ApartInv' BY <2>2, <2>4, <2>5, <1>b, <1>e DEF ApartInv
  <2>7. PushInv' BY <2>2, <2>3, <2>4, <1>b DEF PushInv
  <2>8. EraseInv' BY <1>b, <1>e DEF EraseInv, GoneSteps
  <2>9. Forward' BY <2>2, <2>3, <1>b DEF Forward
  <2>10. BackInv' BY <2>2, <2>3, <2>4, <1>b DEF BackInv, L
  <2>11. ScanInv'
    <3>1. \A t \in Threads : pc'[t] = "scan" => pc[t] = "scan" /\ at'[t] = at[t] BY <1>e
    <3>2. pc[Rest] \notin GoneSteps BY <1>b DEF GoneSteps
    <3> QED BY <3>1, <3>2, <2>2, <1>b DEF ScanInv, L
  <2> QED BY <2>6, <2>7, <2>8, <2>9, <2>10, <2>11
<1> QED BY <1>1, <1>2 DEF IInv

(* The entry leaves the list; its neighbours now follow one another, but   *)
(* the one after still leads back to it.                                   *)
LEMMA EraseNextIInv == ASSUME IInv, EraseNext(Rest) PROVE IInv'
<1> DEFINE n == at[Rest]
           p == prev[n]
           m == reg[Rest]
<1>a. /\ Moves(Rest, "reload", n, m) /\ pc[Rest] = "unlink"
      /\ next' = [next EXCEPT ![p] = m] /\ listed' = listed \ {n}
      /\ stayed' = [u \in Threads |-> stayed[u] \ {n}] /\ fault' = (p \in freed)
      /\ UNCHANGED <<prev, size, pushed, freed, seen, overlap, clash>>
  BY DEF EraseNext, Goto, Moves, IInv, BaseInv, TypeOK
<1>b. Erasing(Rest) BY <1>a DEF Erasing, EraseSteps
<1>c. /\ n \in 1..pushed /\ n \in Links /\ n # End /\ p \in Links /\ m \in Links /\ m \in Int
      /\ n \in Nat
  <2>1. n \in 1..pushed /\ m \in Links
    BY <1>a, <1>b, Roles DEF IInv, BaseInv, Changing
  <2>2. n \in Links /\ n # End BY <2>1, Numbers DEF IInv, Links
  <2>3. p \in Links BY <2>2 DEF IInv, BaseInv, TypeOK
  <2>4. Links \subseteq Int BY DEF Links, Node, End
  <2>5. m \in Int BY <2>1, <2>4
  <2> HIDE DEF n, p, m
  <2>6. n \in Nat BY <2>1
  <2> QED BY <2>1, <2>2, <2>3, <2>5, <2>6
<1> HIDE DEF n, p, m
<1>e. /\ pc'[Rest] = "reload" /\ at'[Rest] = n /\ reg'[Rest] = m
      /\ \A u \in Threads : u # Rest => pc'[u] = pc[u] /\ at'[u] = at[u] /\ reg'[u] = reg[u]
  BY <1>a, Roles, Moved DEF IInv, BaseInv
<1>f. next'[p] = m /\ \A a \in Links : a # p => next'[a] = next[a]
  BY <1>a, <1>c DEF IInv, BaseInv, TypeOK
<1>1. BaseInv'
  <2>1. "reload" \in EraseSteps /\ "reload" \notin PushSteps BY DEF PushSteps, EraseSteps
  <2>2. pushed <= pushed' /\ pushed' \in 0..MaxPush
    BY <1>a, ListAssumption DEF IInv, BaseInv, TypeOK
  <2>3. /\ next' \in [Links -> Links] /\ prev' \in [Links -> Links] /\ size' \in Int
        /\ fault' \in BOOLEAN /\ overlap' \in BOOLEAN /\ clash' \in BOOLEAN
        /\ seen' \in [Threads -> SUBSET Node] /\ stayed' \in [Threads -> SUBSET Node]
        /\ freed' \subseteq 1..pushed' /\ listed' \subseteq 1..pushed'
    BY <1>a, <1>c DEF IInv, BaseInv, TypeOK
  <2>4. n \in 1..pushed' BY <1>a, <1>c
  <2> QED BY <1>a, <1>c, <2>1, <2>2, <2>3, <2>4, Roles, BaseStep DEF IInv
<1>2. CalmInv'
  <2> SUFFICES ASSUME ~clash
               PROVE  ApartInv' /\ PushInv' /\ EraseInv' /\ Forward' /\ BackInv' /\ ScanInv'
    BY <1>a DEF CalmInv
  <2>1. ApartInv /\ PushInv /\ EraseInv /\ Forward /\ BackInv /\ ScanInv
    BY DEF CalmInv, IInv
  <2>2. n \in listed /\ m = next[n] BY <2>1, <1>a DEF EraseInv, n, m
  <2>3. listed \subseteq Nat \ {0} /\ End = 0 /\ L \subseteq Links
    BY Numbers DEF IInv
  <2>4. /\ L' = L \ {n}
        /\ \A a, b : IsNext(a, b) <=> NextIn(listed, a, b)
        /\ \A a, b : IsNext(a, b)' <=> NextIn(listed', a, b)
    BY <1>a, <1>c DEF L, IsNext, NextIn
  <2>5. IsNext(n, m) BY <2>1, <2>2 DEF Forward
  <2>6. IsNext(p, n)
    <3>1. n \in L /\ ~(n = End) /\ pc[Rest] \notin {"reload", "unback"}
      BY <2>2, <1>a, <1>c DEF L
    <3> QED BY <3>1, <2>1 DEF BackInv, p
  <2>7. p # n /\ m # n /\ p \in L /\ m \in L
    BY <2>3, <2>5, <2>6, <1>c DEF IsNext, L
  <2>8. /\ \A a, b : a # n /\ b # n /\ NextIn(listed, a, b) => NextIn(listed', a, b)
        /\ NextIn(listed', p, m)
    <3>1. NextIn(listed, p, n) /\ NextIn(listed, n, m) BY <2>4, <2>5, <2>6
    <3> QED BY <3>1, <2>2, <2>3, <1>a, DropOne
  <2>9. next'[n] = m BY <1>c, <1>f, <2>2, <2>7
  <2>10. \A s \in Shards : /\ pc'[s] = pc[s] /\ at'[s] = at[s] /\ reg'[s] = reg[s]
                           /\ (Pushing(s)' <=> Pushing(s))
    BY <1>e, Roles DEF Pushing
  <2>11. \A s \in Shards : Pushing(s) => /\ m # End /\ n # at[s] /\ at[s] \in Links
                                         /\ at[s] # p /\ at[s] \notin L
    <3> SUFFICES ASSUME NEW s \in Shards, Pushing(s)
                 PROVE  /\ m # End /\ n # at[s] /\ at[s] \in Links
                        /\ at[s] # p /\ at[s] \notin L
      OBVIOUS
    <3>1. m # End /\ n # at[s] BY <1>b, <2>1, <2>2 DEF ApartInv, n
    <3>2. at[s] \in Node /\ at[s] \in Links /\ at[s] # End
      BY Roles, Numbers DEF IInv, Changing, Links
    <3>3. \A k \in listed : k < at[s] /\ k \in Nat BY <2>1, <2>3 DEF PushInv
    <3>4. at[s] \notin L BY <3>2, <3>3 DEF L
    <3> QED BY <3>1, <3>2, <3>4, <2>7
  <2>12. ApartInv' BY <2>1, <2>9, <2>10, <2>11, <1>e DEF ApartInv
  <2>13. PushInv'
    <3> SUFFICES ASSUME NEW s \in Shards
                 PROVE  /\ Pushing(s) => \A k \in listed' : k < at[s]
                        /\ pc[s] \in {"back", "front"} =>
                             NextIn(listed', reg[s], End) /\ next'[at[s]] = End
                             /\ prev[at[s]] = reg[s]
                        /\ pc[s] = "front" => prev[End] = at[s]
      BY <2>4, <2>10, <1>a DEF PushInv, IsNext, NextIn
    <3>1. Pushing(s) => \A k \in listed' : k < at[s] BY <2>1, <1>a DEF PushInv
    <3>2. pc[s] = "front" => prev[End] = at[s] BY <2>1 DEF PushInv
    <3>3. ASSUME pc[s] \in {"back", "front"}
          PROVE  NextIn(listed', reg[s], End) /\ next'[at[s]] = End /\ prev[at[s]] = reg[s]
      <4>1. Pushing(s) BY <3>3 DEF Pushing, PushSteps
      <4>2. IsNext(reg[s], End) /\ next[at[s]] = End /\ prev[at[s]] = reg[s]
        BY <3>3, <2>1 DEF PushInv
      <4>3. reg[s] # n BY <4>1, <4>2, <2>5, <2>11, OneNext DEF IInv
      <4> QED BY <4>1, <4>2, <4>3, <2>4, <2>8, <2>11, <1>c, <1>f
    <3> QED BY <3>1, <3>2, <3>3
  <2>14. EraseInv'
    <3>1. prev[m] = n
      <4>1. ~(m = End /\ \E s \in Shards : pc[s] = "front")
        BY <2>11 DEF Pushing, PushSteps
      <4>2. pc[Rest] \notin {"reload", "unback"} BY <1>a
      <4>3. IsNext(prev[m], m) BY <4>1, <4>2, <2>1, <2>7 DEF BackInv
      <4> QED BY <4>3, <2>5, OnePrev DEF IInv
    <3>2. prev[n] = p BY DEF p
    <3>3. NextIn(listed', prev'[at'[Rest]], next'[at'[Rest]]) /\ prev'[next'[at'[Rest]]] = at'[Rest]
      BY <3>1, <3>2, <2>8, <2>9, <1>a, <1>e
    <3>4. n \notin listed' /\ m \in L' BY <2>4, <2>7, <1>a
    <3>5. \A k \in listed' : n < k => m # End /\ m <= k BY <2>5, <1>a DEF IsNext
    <3> QED BY <3>3, <3>4, <3>5, <2>9, <1>e DEF EraseInv, IsNext, NextIn
  <2>15. Forward'
    <3> SUFFICES ASSUME NEW a \in L' PROVE NextIn(listed', a, next'[a])
      BY DEF Forward, L, IsNext, NextIn
    <3>1. CASE a = p BY <3>1, <2>8, <1>f
    <3>2. CASE a # p
      <4>1. a \in L /\ a # n /\ next'[a] = next[a] BY <3>2, <2>3, <2>4, <1>f
      <4>2. IsNext(a, next[a]) BY <4>1, <2>1 DEF Forward, L
      <4>3. next[a] # n BY <3>2, <4>2, <2>6, OnePrev DEF IInv
      <4> QED BY <4>1, <4>2, <4>3, <2>4, <2>8
    <3> QED BY <3>1, <3>2
  <2>16. BackInv'
    <3> SUFFICES ASSUME NEW b \in L'
                 PROVE  \/ NextIn(listed', prev[b], b)
                        \/ b = End /\ \E s \in Shards : pc'[s] = "front"
                        \/ b = next'[n]
      BY <1>a, <1>e DEF BackInv, IsNext, NextIn
    <3>1. b \in L /\ b # n BY <2>4
    <3>2. \/ IsNext(prev[b], b)
          \/ b = End /\ \E s \in Shards : pc'[s] = "front"
      BY <3>1, <2>1, <2>10, <1>a DEF BackInv
    <3>3. CASE IsNext(prev[b], b)
      <4>1. CASE prev[b] = n BY <3>3, <4>1, <2>5, <2>9, OneNext DEF IInv
      <4>2. CASE prev[b] # n BY <3>1, <3>3, <4>2, <2>4, <2>8
      <4> QED BY <4>1, <4>2
    <3> QED BY <3>2, <3>3
  <2>17. ScanInv'
    <3>1. \A t \in Threads : pc'[t] = "scan" => pc[t] = "scan" /\ at'[t] = at[t] BY <1>e
    <3>2. pc[Rest] \notin GoneSteps /\ pc'[Rest] \in GoneSteps BY <1>a, <1>e DEF GoneSteps
    <3>3. \A t \in Threads : stayed'[t] = stayed[t] \ {n} BY <1>a
    <3> QED BY <3>1, <3>2, <3>3, <2>1, <2>4, <1>a, <1>e DEF ScanInv
  <2> QED BY <2>12, <2>13, <2>14, <2>15, <2>16, <2>17
<1> QED BY <1>1, <1>2 DEF IInv
(* The link is read again: it has not changed. *)
LEMMA EraseReloadIInv == ASSUME IInv, EraseReload(Rest) PROVE IInv'
<1> DEFINE n == at[Rest]
<1>a. /\ Moves(Rest, "unback", n, next[n]) /\ pc[Rest] = "reload"
      /\ UNCHANGED <<next, prev, size, pushed, freed, fault, history>>
  BY DEF EraseReload, Goto, Moves, list, IInv, BaseInv, TypeOK
<1>b. Erasing(Rest) /\ Changing(Rest) BY <1>a DEF Erasing, Changing, EraseSteps
<1>c. n \in 1..pushed /\ n \in Links /\ next[n] \in Links /\ next[n] \in Int
  <2>1. n \in 1..pushed BY <1>b, Roles DEF IInv, BaseInv
  <2>2. n \in Links BY Roles DEF IInv, BaseInv, TypeOK
  <2>3. next[n] \in Links BY <2>2 DEF IInv, BaseInv, TypeOK
  <2>4. Links \subseteq Int BY DEF Links, Node, End
  <2> QED BY <2>1, <2>2, <2>3, <2>4
<1> HIDE DEF n
<1>e. /\ pc'[Rest] = "unback" /\ at'[Rest] = n /\ reg'[Rest] = next[n]
      /\ \A u \in Threads : u # Rest => pc'[u] = pc[u] /\ at'[u] = at[u] /\ reg'[u] = reg[u]
  BY <1>a, Roles, Moved DEF IInv, BaseInv
<1>1. BaseInv'
  <2>1. "unback" \in EraseSteps /\ "unback" \notin PushSteps BY DEF PushSteps, EraseSteps
  <2>2. pushed <= pushed' /\ pushed' \in 0..MaxPush
    BY <1>a, ListAssumption DEF IInv, BaseInv, TypeOK
  <2>3. /\ next' \in [Links -> Links] /\ prev' \in [Links -> Links] /\ size' \in Int
        /\ fault' \in BOOLEAN /\ overlap' \in BOOLEAN /\ clash' \in BOOLEAN
        /\ seen' \in [Threads -> SUBSET Node] /\ stayed' \in [Threads -> SUBSET Node]
        /\ freed' \subseteq 1..pushed' /\ listed' \subseteq 1..pushed'
    BY <1>a DEF history, IInv, BaseInv, TypeOK
  <2>4. n \in 1..pushed' BY <1>a, <1>c
  <2> QED BY <1>a, <1>c, <2>1, <2>2, <2>3, <2>4, Roles, BaseStep DEF IInv
<1>2. CalmInv'
  <2> USE <1>a DEF history
  <2>1. \A s \in Shards : /\ pc'[s] = pc[s] /\ at'[s] = at[s] /\ reg'[s] = reg[s]
                          /\ (Pushing(s)' <=> Pushing(s))
    BY <1>e, Roles DEF Pushing
  <2>2. \A a, b : IsNext(a, b)' <=> IsNext(a, b) BY DEF IsNext
  <2>3. PushInv => PushInv' BY <2>1, <2>2 DEF PushInv
  <2>4. EraseInv => EraseInv' BY <2>2, <1>e DEF EraseInv, L, GoneSteps, n
  <2>5. ScanInv => ScanInv'
    <3>1. \A t \in Threads : pc'[t] = "scan" => pc[t] = "scan" /\ at'[t] = at[t] BY <1>e
    <3> QED BY <3>1, <1>e DEF ScanInv, L, GoneSteps, n
  <2>6. ~Pushing(Rest) /\ ~Pushing(Rest)' BY <1>e DEF Pushing, PushSteps
  <2>7. UNCHANGED <<next, prev, listed, clash>> /\ freed \subseteq freed' BY <1>a
  <2> QED BY <1>b, <1>e, <2>3, <2>4, <2>5, <2>6, <2>7, Roles, QuietStep DEF IInv, n
<1> QED BY <1>1, <1>2 DEF IInv

(* The entry after leads back past the erased one. *)
LEMMA EraseBackIInv == ASSUME IInv, EraseBack(Rest) PROVE IInv'
<1> DEFINE n == at[Rest]
           m == reg[Rest]
<1>a. /\ Moves(Rest, "load", n, m) /\ pc[Rest] = "unback"
      /\ prev' = [prev EXCEPT ![m] = prev[n]] /\ fault' = (m \in freed)
      /\ UNCHANGED <<next, size, pushed, freed, history>>
  BY DEF EraseBack, Goto, Moves, IInv, BaseInv, TypeOK
<1>b. Erasing(Rest) /\ Changing(Rest) BY <1>a DEF Erasing, Changing, EraseSteps
<1>c. /\ n \in 1..pushed /\ n \in Links /\ m \in Links /\ m \in Int /\ prev[n] \in Links
  <2>1. n \in 1..pushed /\ m \in Links BY <1>a, <1>b, Roles DEF IInv, BaseInv
  <2>2. n \in Links BY Roles DEF IInv, BaseInv, TypeOK
  <2>3. prev[n] \in Links BY <2>2 DEF IInv, BaseInv, TypeOK
  <2>4. Links \subseteq Int BY DEF Links, Node, End
  <2> QED BY <2>1, <2>2, <2>3, <2>4
<1> HIDE DEF n, m
<1>e. /\ pc'[Rest] = "load" /\ at'[Rest] = n /\ reg'[Rest] = m
      /\ \A u \in Threads : u # Rest => pc'[u] = pc[u] /\ at'[u] = at[u] /\ reg'[u] = reg[u]
  BY <1>a, Roles, Moved DEF IInv, BaseInv
<1>f. prev'[m] = prev[n] /\ \A a \in Links : a # m => prev'[a] = prev[a]
  BY <1>a, <1>c DEF IInv, BaseInv, TypeOK
<1>1. BaseInv'
  <2>1. "load" \in EraseSteps /\ "load" \notin PushSteps BY DEF PushSteps, EraseSteps
  <2>2. pushed <= pushed' /\ pushed' \in 0..MaxPush
    BY <1>a, ListAssumption DEF IInv, BaseInv, TypeOK
  <2>3. /\ next' \in [Links -> Links] /\ prev' \in [Links -> Links] /\ size' \in Int
        /\ fault' \in BOOLEAN /\ overlap' \in BOOLEAN /\ clash' \in BOOLEAN
        /\ seen' \in [Threads -> SUBSET Node] /\ stayed' \in [Threads -> SUBSET Node]
        /\ freed' \subseteq 1..pushed' /\ listed' \subseteq 1..pushed'
    BY <1>a, <1>c DEF history, IInv, BaseInv, TypeOK
  <2>4. n \in 1..pushed' BY <1>a, <1>c
  <2> QED BY <1>a, <1>c, <2>1, <2>2, <2>3, <2>4, Roles, BaseStep DEF IInv
<1>2. CalmInv'
  <2> SUFFICES ASSUME ~clash
               PROVE  ApartInv' /\ PushInv' /\ EraseInv' /\ Forward' /\ BackInv' /\ ScanInv'
    BY <1>a DEF CalmInv, history
  <2>1. ApartInv /\ PushInv /\ EraseInv /\ Forward /\ BackInv /\ ScanInv
    BY DEF CalmInv, IInv
  <2>2. listed' = listed /\ L' = L /\ stayed' = stayed /\ seen' = seen /\ freed' = freed
        /\ next' = next /\ \A a, b : IsNext(a, b)' <=> IsNext(a, b)
    BY <1>a DEF IsNext, history, L
  <2>3. m = next[n] /\ IsNext(prev[n], m) BY <2>1, <1>a DEF EraseInv, n, m
  <2>4. m \in L BY <2>3 DEF IsNext, L
  <2>5. \A s \in Shards : /\ pc'[s] = pc[s] /\ at'[s] = at[s] /\ reg'[s] = reg[s]
                          /\ (Pushing(s)' <=> Pushing(s))
    BY <1>e, Roles DEF Pushing
  <2>6. ASSUME NEW s \in Shards, Pushing(s)
        PROVE  prev'[at[s]] = prev[at[s]] /\ prev'[End] = prev[End] /\ m # End
    <3>1. m # End BY <1>b, <2>1, <2>3, <2>6 DEF ApartInv, n
    <3>2. at[s] \in Node /\ at[s] \in Links /\ End \in Links
      BY <2>6, Roles, Numbers DEF IInv, Changing, Links
    <3>3. \A k \in listed : k < at[s] /\ k \in Nat
      BY <2>1, <2>6, Numbers DEF PushInv, IInv
    <3>4. at[s] # m BY <3>1, <3>2, <3>3, <2>4 DEF L
    <3> QED BY <3>1, <3>2, <3>4, <1>f
  <2>7. ApartInv' BY <2>1, <2>2, <2>5, <1>b, <1>e DEF ApartInv, n
  <2>8. PushInv'
    <3>1. \A s \in Shards : pc[s] \in {"back", "front"} => Pushing(s)
      BY DEF Pushing, PushSteps
    <3> QED BY <3>1, <2>1, <2>2, <2>5, <2>6 DEF PushInv
  <2>9. EraseInv' BY <2>1, <2>2, <1>a, <1>e DEF EraseInv, GoneSteps, n
  <2>10. Forward' BY <2>1, <2>2 DEF Forward
  <2>11. BackInv'
    <3> SUFFICES ASSUME NEW b \in L
                 PROVE  \/ IsNext(prev'[b], b)
                        \/ b = End /\ \E s \in Shards : pc'[s] = "front"
      BY <2>2 DEF BackInv, IsNext
    <3>1. CASE b = m BY <3>1, <2>3, <1>f
    <3>2. CASE b # m
      <4>1. b \in Links BY Numbers DEF IInv
      <4>2. prev'[b] = prev[b] /\ b # next[at[Rest]] BY <3>2, <4>1, <2>3, <1>f DEF n
      <4> QED BY <4>2, <2>1, <2>5 DEF BackInv
    <3> QED BY <3>1, <3>2
  <2>12. ScanInv'
    <3>1. \A t \in Threads : pc'[t] = "scan" => pc[t] = "scan" /\ at'[t] = at[t] BY <1>e
    <3> QED BY <3>1, <2>1, <2>2, <1>a, <1>e DEF ScanInv, GoneSteps, n
  <2> QED BY <2>7, <2>8, <2>9, <2>10, <2>11, <2>12
<1> QED BY <1>1, <1>2 DEF IInv

(* The rest of an erasure is about the size and the memory. *)
LEMMA EraseLoadIInv == ASSUME IInv, EraseLoad(Rest) PROVE IInv'
<1> DEFINE n == at[Rest]
<1>a. /\ Moves(Rest, "uncount", n, size) /\ pc[Rest] = "load"
      /\ UNCHANGED <<next, prev, size, pushed, freed, fault, history>>
  BY DEF EraseLoad, Goto, Moves, list, IInv, BaseInv, TypeOK
<1>b. Erasing(Rest) /\ Changing(Rest) BY <1>a DEF Erasing, Changing, EraseSteps
<1>c. n \in 1..pushed /\ n \in Links /\ size \in Int
  BY <1>b, Roles DEF IInv, BaseInv, TypeOK
<1> HIDE DEF n
<1>e. /\ pc'[Rest] = "uncount" /\ at'[Rest] = n /\ reg'[Rest] = size
      /\ \A u \in Threads : u # Rest => pc'[u] = pc[u] /\ at'[u] = at[u] /\ reg'[u] = reg[u]
  BY <1>a, Roles, Moved DEF IInv, BaseInv
<1>1. BaseInv'
  <2>1. "uncount" \in EraseSteps /\ "uncount" \notin PushSteps BY DEF PushSteps, EraseSteps
  <2>2. pushed <= pushed' /\ pushed' \in 0..MaxPush
    BY <1>a, ListAssumption DEF IInv, BaseInv, TypeOK
  <2>3. /\ next' \in [Links -> Links] /\ prev' \in [Links -> Links] /\ size' \in Int
        /\ fault' \in BOOLEAN /\ overlap' \in BOOLEAN /\ clash' \in BOOLEAN
        /\ seen' \in [Threads -> SUBSET Node] /\ stayed' \in [Threads -> SUBSET Node]
        /\ freed' \subseteq 1..pushed' /\ listed' \subseteq 1..pushed'
    BY <1>a DEF history, IInv, BaseInv, TypeOK
  <2>4. n \in 1..pushed' BY <1>a, <1>c
  <2> QED BY <1>a, <1>c, <2>1, <2>2, <2>3, <2>4, Roles, BaseStep DEF IInv
<1>2. CalmInv'
  <2> USE <1>a DEF history
  <2>1. \A s \in Shards : /\ pc'[s] = pc[s] /\ at'[s] = at[s] /\ reg'[s] = reg[s]
                          /\ (Pushing(s)' <=> Pushing(s))
    BY <1>e, Roles DEF Pushing
  <2>2. \A a, b : IsNext(a, b)' <=> IsNext(a, b) BY DEF IsNext
  <2>3. PushInv => PushInv' BY <2>1, <2>2 DEF PushInv
  <2>4. EraseInv => EraseInv' BY <2>2, <1>e DEF EraseInv, L, GoneSteps, n
  <2>5. ScanInv => ScanInv'
    <3>1. \A t \in Threads : pc'[t] = "scan" => pc[t] = "scan" /\ at'[t] = at[t] BY <1>e
    <3> QED BY <3>1, <1>e DEF ScanInv, L, GoneSteps, n
  <2>6. ~Pushing(Rest) /\ ~Pushing(Rest)' BY <1>e DEF Pushing, PushSteps
  <2>7. UNCHANGED <<next, prev, listed, clash>> /\ freed \subseteq freed' BY <1>a
  <2> QED BY <1>b, <1>e, <2>3, <2>4, <2>5, <2>6, <2>7, Roles, QuietStep DEF IInv, n
<1> QED BY <1>1, <1>2 DEF IInv

(* The size is stored. *)
LEMMA EraseCountIInv == ASSUME IInv, EraseCount(Rest) PROVE IInv'
<1> DEFINE n == at[Rest]
<1>a. /\ Moves(Rest, "free", n, reg[Rest]) /\ pc[Rest] = "uncount" /\ size' = reg[Rest] - 1
      /\ UNCHANGED <<next, prev, pushed, freed, fault, history>>
  BY DEF EraseCount, Goto, Moves, IInv, BaseInv, TypeOK
<1>b. Erasing(Rest) /\ Changing(Rest) BY <1>a DEF Erasing, Changing, EraseSteps
<1>c. n \in 1..pushed /\ n \in Links /\ reg[Rest] \in Int
  BY <1>b, Roles DEF IInv, BaseInv, TypeOK
<1> HIDE DEF n
<1>e. /\ pc'[Rest] = "free" /\ at'[Rest] = n
      /\ \A u \in Threads : u # Rest => pc'[u] = pc[u] /\ at'[u] = at[u] /\ reg'[u] = reg[u]
  BY <1>a, Roles, Moved DEF IInv, BaseInv
<1>1. BaseInv'
  <2>1. "free" \in EraseSteps /\ "free" \notin PushSteps BY DEF PushSteps, EraseSteps
  <2>2. pushed <= pushed' /\ pushed' \in 0..MaxPush
    BY <1>a, ListAssumption DEF IInv, BaseInv, TypeOK
  <2>3. /\ next' \in [Links -> Links] /\ prev' \in [Links -> Links] /\ size' \in Int
        /\ fault' \in BOOLEAN /\ overlap' \in BOOLEAN /\ clash' \in BOOLEAN
        /\ seen' \in [Threads -> SUBSET Node] /\ stayed' \in [Threads -> SUBSET Node]
        /\ freed' \subseteq 1..pushed' /\ listed' \subseteq 1..pushed'
    BY <1>a, <1>c DEF history, IInv, BaseInv, TypeOK
  <2>4. n \in 1..pushed' BY <1>a, <1>c
  <2> QED BY <1>a, <1>c, <2>1, <2>2, <2>3, <2>4, Roles, BaseStep DEF IInv
<1>2. CalmInv'
  <2> USE <1>a DEF history
  <2>1. \A s \in Shards : /\ pc'[s] = pc[s] /\ at'[s] = at[s] /\ reg'[s] = reg[s]
                          /\ (Pushing(s)' <=> Pushing(s))
    BY <1>e, Roles DEF Pushing
  <2>2. \A a, b : IsNext(a, b)' <=> IsNext(a, b) BY DEF IsNext
  <2>3. PushInv => PushInv' BY <2>1, <2>2 DEF PushInv
  <2>4. EraseInv => EraseInv' BY <2>2, <1>e DEF EraseInv, L, GoneSteps, n
  <2>5. ScanInv => ScanInv'
    <3>1. \A t \in Threads : pc'[t] = "scan" => pc[t] = "scan" /\ at'[t] = at[t] BY <1>e
    <3> QED BY <3>1, <1>e DEF ScanInv, L, GoneSteps, n
  <2>6. ~Pushing(Rest) /\ ~Pushing(Rest)' BY <1>e DEF Pushing, PushSteps
  <2>7. UNCHANGED <<next, prev, listed, clash>> /\ freed \subseteq freed' BY <1>a
  <2> QED BY <1>b, <1>e, <2>3, <2>4, <2>5, <2>6, <2>7, Roles, QuietStep DEF IInv, n
<1> QED BY <1>1, <1>2 DEF IInv

(* The node is freed; a traversal that stands on it is lost. *)
LEMMA EraseFreeIInv == ASSUME IInv, EraseFree(Rest) PROVE IInv'
<1> DEFINE n == at[Rest]
<1>a. /\ Moves(Rest, "idle", End, 0) /\ pc[Rest] = "free" /\ freed' = freed \cup {n}
      /\ UNCHANGED <<next, prev, size, pushed, fault, history>>
  BY DEF EraseFree, Return, Moves
<1>b. Erasing(Rest) /\ Changing(Rest) BY <1>a DEF Erasing, Changing, EraseSteps
<1>c. n \in 1..pushed /\ End \in Links /\ 0 \in Int
  BY <1>b, Roles DEF IInv, BaseInv, Links
<1> HIDE DEF n
<1>e. /\ pc'[Rest] = "idle" /\ at'[Rest] = End
      /\ \A u \in Threads : u # Rest => pc'[u] = pc[u] /\ at'[u] = at[u] /\ reg'[u] = reg[u]
  BY <1>a, Roles, Moved DEF IInv, BaseInv
<1>1. BaseInv'
  <2>1. "idle" \notin EraseSteps /\ "idle" \notin PushSteps BY DEF PushSteps, EraseSteps
  <2>2. pushed <= pushed' /\ pushed' \in 0..MaxPush
    BY <1>a, ListAssumption DEF IInv, BaseInv, TypeOK
  <2>3. /\ next' \in [Links -> Links] /\ prev' \in [Links -> Links] /\ size' \in Int
        /\ fault' \in BOOLEAN /\ overlap' \in BOOLEAN /\ clash' \in BOOLEAN
        /\ seen' \in [Threads -> SUBSET Node] /\ stayed' \in [Threads -> SUBSET Node]
        /\ freed' \subseteq 1..pushed' /\ listed' \subseteq 1..pushed'
    BY <1>a, <1>c DEF history, IInv, BaseInv, TypeOK
  <2> QED BY <1>a, <1>c, <2>1, <2>2, <2>3, Roles, BaseStep DEF IInv
<1>2. CalmInv'
  <2> USE <1>a DEF history
  <2>1. \A s \in Shards : /\ pc'[s] = pc[s] /\ at'[s] = at[s] /\ reg'[s] = reg[s]
                          /\ (Pushing(s)' <=> Pushing(s))
    BY <1>e, Roles DEF Pushing
  <2>2. \A a, b : IsNext(a, b)' <=> IsNext(a, b) BY DEF IsNext
  <2>3. PushInv => PushInv' BY <2>1, <2>2 DEF PushInv
  <2>4. EraseInv => EraseInv' BY <1>e DEF EraseInv, GoneSteps
  <2>5. ScanInv => ScanInv'
    <3>1. \A t \in Threads : pc'[t] = "scan" => pc[t] = "scan" /\ at'[t] = at[t] BY <1>e
    <3> QED BY <3>1, <1>a DEF ScanInv, L, n
  <2>6. ~Pushing(Rest) /\ ~Pushing(Rest)' BY <1>e DEF Pushing, PushSteps
  <2>7. ~Erasing(Rest)' BY <1>e DEF Erasing, EraseSteps
  <2>8. UNCHANGED <<next, prev, listed, clash>> /\ freed \subseteq freed' BY <1>a
  <2> QED BY <1>a, <1>e, <2>3, <2>4, <2>5, <2>6, <2>7, <2>8, Roles, QuietStep DEF IInv, Changing
<1> QED BY <1>1, <1>2 DEF IInv
-----------------------------------------------------------------------------
(* The traversals *)

(* A step of a traversal changes nothing that a change relies on. *)
LEMMA ScanStep ==
  ASSUME IInv, NEW t \in Threads, NEW a \in Links, NEW p \in {"idle", "scan"},
         Moves(t, p, a, IF p = "idle" THEN 0 ELSE reg[t]), pc[t] \in {"idle", "scan"},
         p = "idle" => a = End,
         UNCHANGED <<next, prev, size, pushed, freed, listed, overlap, clash>>,
         fault' \in BOOLEAN,
         seen' \in [Threads -> SUBSET Node], stayed' \in [Threads -> SUBSET Node],
         \A u \in Threads : u # t => seen'[u] = seen[u] /\ stayed'[u] = stayed[u],
         p = "scan" /\ ~clash /\ Forward /\ EraseInv /\ ScanInv =>
           /\ a \in L \cup freed \/ (pc[Rest] \in GoneSteps /\ a = at[Rest])
           /\ \A m \in stayed'[t] : m \in listed /\ (m \in seen'[t] \/ a < m)
  PROVE  IInv'
<1> DEFINE r == IF p = "idle" THEN 0 ELSE reg[t]
<1>a. r \in Int BY DEF IInv, BaseInv, TypeOK
<1>b. Moves(t, p, a, r) OBVIOUS
<1> HIDE DEF r
<1>e. /\ pc'[t] = p /\ at'[t] = a
      /\ \A u \in Threads : u # t => pc'[u] = pc[u] /\ at'[u] = at[u] /\ reg'[u] = reg[u]
  BY <1>b, Moved DEF IInv, BaseInv
<1>1. BaseInv'
  <2>1. p \notin EraseSteps /\ p \notin PushSteps
        /\ p \notin {"back", "front", "unlink", "unback"}
    BY DEF PushSteps, EraseSteps
  <2>2. pushed <= pushed' /\ pushed' \in 0..MaxPush
    BY ListAssumption DEF IInv, BaseInv, TypeOK
  <2>3. /\ next' \in [Links -> Links] /\ prev' \in [Links -> Links] /\ size' \in Int
        /\ overlap' \in BOOLEAN /\ clash' \in BOOLEAN
        /\ freed' \subseteq 1..pushed' /\ listed' \subseteq 1..pushed'
    BY DEF IInv, BaseInv, TypeOK
  <2> QED BY <1>a, <1>b, <2>1, <2>2, <2>3, BaseStep DEF IInv
<1>2. CalmInv'
  <2>1. ~Changing(t) /\ ~Changing(t)'
    BY <1>e DEF Changing, Pushing, Erasing, PushSteps, EraseSteps
  <2>2. \A s \in Shards : /\ Pushing(s) => s # t
                          /\ Pushing(s)' <=> Pushing(s)
                          /\ pc[s] \in {"back", "front"} <=> pc'[s] \in {"back", "front"}
                          /\ pc[s] = "front" <=> pc'[s] = "front"
                          /\ pc[s] \in {"back", "front"} => s # t
    BY <1>e, <2>1, Roles DEF Pushing, Changing, PushSteps
  <2>3. \A a1, b1 : IsNext(a1, b1)' <=> IsNext(a1, b1) BY DEF IsNext
  <2>4. PushInv => PushInv'
    <3>1. \A s \in Shards : Pushing(s) \/ pc[s] \in {"back", "front"} =>
                              at'[s] = at[s] /\ reg'[s] = reg[s]
      BY <1>e, <2>2, Roles
    <3> QED BY <3>1, <2>2, <2>3 DEF PushInv
  <2>5. /\ pc[Rest] \in EraseSteps <=> pc'[Rest] \in EraseSteps
        /\ pc[Rest] \in EraseSteps => pc'[Rest] = pc[Rest] /\ at'[Rest] = at[Rest]
                                      /\ reg'[Rest] = reg[Rest]
    BY <1>e, <2>1, Roles DEF Changing, Erasing
  <2>6. EraseInv => EraseInv' BY <2>3, <2>5 DEF EraseInv, L, GoneSteps, EraseSteps
  <2>7. ASSUME ~clash, ScanInv, Forward, EraseInv PROVE ScanInv'
    <3>1. pc[Rest] \in GoneSteps => pc'[Rest] \in GoneSteps /\ at'[Rest] = at[Rest]
      BY <2>5 DEF GoneSteps, EraseSteps
    <3> SUFFICES ASSUME NEW u \in Threads, pc'[u] = "scan"
                 PROVE  /\ at'[u] \in L' \cup freed' \/ (pc'[Rest] \in GoneSteps /\ at'[u] = at'[Rest])
                        /\ \A m \in stayed'[u] : m \in listed' /\ (m \in seen'[u] \/ at'[u] < m)
      BY DEF ScanInv
    <3>2. CASE u = t BY <3>1, <3>2, <2>7, <1>e DEF L
    <3>3. CASE u # t BY <3>1, <3>3, <2>7, <1>e DEF ScanInv, L
    <3> QED BY <3>2, <3>3
  <2> SUFFICES ASSUME ~clash
               PROVE  ApartInv' /\ PushInv' /\ EraseInv' /\ Forward' /\ BackInv' /\ ScanInv'
    BY DEF CalmInv
  <2>8. ApartInv /\ PushInv /\ EraseInv /\ Forward /\ BackInv /\ ScanInv
    BY DEF CalmInv, IInv
  <2>9. ApartInv'
    <3>1. Erasing(Rest)' => Erasing(Rest) /\ at'[Rest] = at[Rest] BY <2>5 DEF Erasing
    <3>2. \A s \in Shards : Pushing(s) => at'[s] = at[s] BY <1>e, <2>2, Roles
    <3> QED BY <3>1, <3>2, <2>2, <2>8 DEF ApartInv
  <2>10. Forward' BY <2>3, <2>8 DEF Forward
  <2>11. BackInv'
    <3>1. pc[Rest] \in {"reload", "unback"} =>
            pc'[Rest] \in {"reload", "unback"} /\ at'[Rest] = at[Rest]
      BY <2>5 DEF EraseSteps
    <3> QED BY <3>1, <2>2, <2>3, <2>8 DEF BackInv, L
  <2> QED BY <2>4, <2>6, <2>7, <2>8, <2>9, <2>10, <2>11
<1> QED BY <1>1, <1>2 DEF IInv

(* A traversal begins at the sentinel, before every entry. *)
LEMMA ScanBeginIInv == ASSUME IInv, NEW t \in Threads, ScanBegin(t) PROVE IInv'
<1>1. /\ pc[t] = "idle" /\ Moves(t, "scan", at[t], reg[t]) /\ at[t] = End /\ End \in Links
      /\ stayed' = [stayed EXCEPT ![t] = listed]
      /\ UNCHANGED <<next, prev, size, pushed, freed, fault, listed, seen, overlap, clash>>
  BY DEF ScanBegin, Goto, Moves, list, IInv, BaseInv, TypeOK, Links
<1>2. listed \subseteq Node /\ \A m \in listed : End < m BY Numbers DEF IInv
<1>3. /\ seen' \in [Threads -> SUBSET Node] /\ stayed' \in [Threads -> SUBSET Node]
      /\ fault' \in BOOLEAN /\ stayed'[t] = listed
      /\ \A u \in Threads : u # t => seen'[u] = seen[u] /\ stayed'[u] = stayed[u]
  BY <1>1, <1>2 DEF IInv, BaseInv, TypeOK
<1>4. \A m \in stayed'[t] : m \in listed /\ (m \in seen'[t] \/ End < m)
  BY <1>2, <1>3
<1>5. End \in L BY DEF L
<1>6. Moves(t, "scan", End, IF "scan" = "idle" THEN 0 ELSE reg[t]) BY <1>1
<1> QED BY <1>1, <1>3, <1>4, <1>5, <1>6, ScanStep

(* Nothing that is listed lies between the node a traversal stands on and  *)
(* the next, be the node listed or just erased.                            *)
LEMMA Between ==
  ASSUME IInv, ~clash, Forward, EraseInv, ScanInv, NEW t \in Threads, Standing(t)
  PROVE  /\ \A m \in listed : at[t] < m => next[at[t]] # End /\ next[at[t]] <= m
         /\ next[at[t]] \in L
<1>1. at[t] \in L \/ (pc[Rest] \in GoneSteps /\ at[t] = at[Rest])
  BY DEF Standing, ScanInv
<1>2. CASE at[t] \in L
  <2>1. IsNext(at[t], next[at[t]]) BY <1>2 DEF Forward, L
  <2> QED BY <2>1 DEF IsNext, L
<1>3. CASE pc[Rest] \in GoneSteps /\ at[t] = at[Rest] BY <1>3 DEF EraseInv
<1> QED BY <1>1, <1>2, <1>3

(* A traversal goes on. *)
LEMMA ScanNextIInv == ASSUME IInv, NEW t \in Threads, ScanNext(t) PROVE IInv'
<1> DEFINE m == next[at[t]]
<1>1. /\ pc[t] = "scan" /\ Moves(t, "scan", m, reg[t]) /\ Standing(t)
      /\ seen' = [seen EXCEPT ![t] = @ \cup {m}]
      /\ UNCHANGED <<next, prev, size, pushed, freed, fault, listed, stayed, overlap, clash>>
  BY DEF ScanNext, Standing, Moves, list, IInv, BaseInv, TypeOK
<1>2. m \in Links /\ m # End /\ m \in Node
  <2>1. at[t] \in Links BY DEF IInv, BaseInv, TypeOK
  <2>2. m \in Links /\ m # End BY <2>1 DEF ScanNext, IInv, BaseInv, TypeOK
  <2> QED BY <2>2 DEF Links
<1> HIDE DEF m
<1>3. /\ seen' \in [Threads -> SUBSET Node] /\ stayed' \in [Threads -> SUBSET Node]
      /\ fault' \in BOOLEAN /\ stayed'[t] = stayed[t] /\ seen'[t] = seen[t] \cup {m}
      /\ \A u \in Threads : u # t => seen'[u] = seen[u] /\ stayed'[u] = stayed[u]
  BY <1>1, <1>2 DEF IInv, BaseInv, TypeOK
<1>4. ASSUME ~clash, Forward, EraseInv, ScanInv
      PROVE  m \in L /\ \A k \in stayed'[t] : k \in listed /\ (k \in seen'[t] \/ m < k)
  <2>1. m \in L /\ \A k \in listed : at[t] < k => m <= k
    BY <1>1, <1>4, Between DEF m
  <2>2. \A k \in stayed[t] : k \in listed /\ (k \in seen[t] \/ at[t] < k)
    BY <1>1, <1>4 DEF ScanInv
  <2>3. m \in Nat /\ listed \subseteq Nat BY <1>2, Numbers DEF IInv
  <2>4. ASSUME NEW k \in stayed[t] PROVE k \in listed /\ (k \in seen[t] \cup {m} \/ m < k)
    <3>1. k \in listed /\ k \in Nat /\ (k \in seen[t] \/ m <= k) BY <2>1, <2>2, <2>3
    <3> QED BY <3>1, <2>3
  <2> QED BY <2>1, <2>4, <1>3
<1>5. Moves(t, "scan", m, IF "scan" = "idle" THEN 0 ELSE reg[t]) BY <1>1
<1> QED BY <1>1, <1>2, <1>3, <1>4, <1>5, ScanStep

(* A traversal ends or is left. *)
LEMMA ScanStopIInv == ASSUME IInv, NEW t \in Threads, ScanEnd(t) \/ ScanLeave(t) PROVE IInv'
<1>1. /\ pc[t] = "scan" /\ Moves(t, "idle", End, 0) /\ End \in Links
      /\ seen' = [seen EXCEPT ![t] = {}] /\ stayed' = [stayed EXCEPT ![t] = {}]
      /\ UNCHANGED <<next, prev, size, pushed, freed, fault, listed, overlap, clash>>
  BY DEF ScanEnd, ScanLeave, Standing, Return, Forget, Moves, list, Links
<1>2. /\ seen' \in [Threads -> SUBSET Node] /\ stayed' \in [Threads -> SUBSET Node]
      /\ fault' \in BOOLEAN
      /\ \A u \in Threads : u # t => seen'[u] = seen[u] /\ stayed'[u] = stayed[u]
  BY <1>1 DEF IInv, BaseInv, TypeOK
<1>3. Moves(t, "idle", End, IF "idle" = "idle" THEN 0 ELSE reg[t]) BY <1>1
<1> QED BY <1>1, <1>2, <1>3, ScanStep

(* A traversal that stood on an erased node. *)
LEMMA ScanHitIInv == ASSUME IInv, NEW t \in Threads, ScanHit(t) PROVE IInv'
<1>1. /\ pc[t] = "scan" /\ Moves(t, "scan", at[t], reg[t]) /\ at[t] \in Links
      /\ fault' = TRUE
      /\ UNCHANGED <<next, prev, size, pushed, freed, listed, seen, stayed, overlap, clash>>
  BY DEF ScanHit, Moves, list, history, IInv, BaseInv, TypeOK
<1>2. /\ seen' \in [Threads -> SUBSET Node] /\ stayed' \in [Threads -> SUBSET Node]
  BY <1>1 DEF IInv, BaseInv, TypeOK
<1>3. ScanInv => /\ at[t] \in L \cup freed \/ (pc[Rest] \in GoneSteps /\ at[t] = at[Rest])
                 /\ \A m \in stayed[t] : m \in listed /\ (m \in seen[t] \/ at[t] < m)
  BY <1>1 DEF ScanInv
<1>4. Moves(t, "scan", at[t], IF "scan" = "idle" THEN 0 ELSE reg[t]) BY <1>1
<1> QED BY <1>1, <1>2, <1>3, <1>4, ScanStep

-----------------------------------------------------------------------------
(* Every step keeps the invariant. *)
LEMMA NextIInv == IInv /\ [Next]_vars => IInv'
<1> SUFFICES ASSUME IInv, [Next]_vars PROVE IInv' OBVIOUS
<1>1. ASSUME NEW s \in Shards, Push(s) PROVE IInv'
  BY <1>1, PushBeginIInv, PushCountIInv, PushLinkIInv, PushBackIInv, PushFrontIInv DEF Push
<1>2. ASSUME NEW t \in Threads, Scan(t) \/ ScanLeave(t) PROVE IInv'
  BY <1>2, ScanBeginIInv, ScanNextIInv, ScanStopIInv, ScanHitIInv DEF Scan
<1>3. ASSUME Erase(Rest) PROVE IInv'
  BY <1>3, EraseBeginIInv, EraseNextIInv, EraseReloadIInv, EraseBackIInv, EraseLoadIInv,
     EraseCountIInv, EraseFreeIInv DEF Erase
<1> QED BY <1>1, <1>2, <1>3, StutterIInv, Roles DEF Next, Gateway, Callback

(* What holds of the list at every point of every interleaving. *)
THEOREM Invariant == Spec => []IInv
BY InitIInv, NextIInv, PTL DEF Spec

(* Every link leads to a node or to the sentinel, every thread works on a  *)
(* node that was pushed.                                                   *)
THEOREM TypeCorrect == Spec => []TypeOK
<1>1. IInv => TypeOK BY DEF IInv, BaseInv
<1> QED BY <1>1, Invariant, PTL

(* Without two changes at its end, the list of tictactoe.cpp:216 is intact *)
(* forwards at any time, and backwards whenever no change is under way.    *)
THEOREM IntactCorrect == Spec => []ListIsIntact
<1>1. IInv => ListIsIntact
  <2> SUFFICES ASSUME IInv, ~clash PROVE Forward /\ (Settled => Backward)
    BY DEF ListIsIntact
  <2>1. Forward BY DEF IInv, CalmInv
  <2>2. ASSUME Settled PROVE Backward
    <3>1. BackInv BY DEF IInv, CalmInv
    <3>2. pc[Rest] \notin {"reload", "unback"}
      BY <2>2, Roles DEF Settled, Changing, Erasing, EraseSteps
    <3>3. \A s \in Shards : pc[s] # "front"
      BY <2>2, Roles DEF Settled, Changing, Pushing, PushSteps
    <3> QED BY <3>1, <3>2, <3>3 DEF BackInv, Backward, L
  <2> QED BY <2>1, <2>2
<1> QED BY <1>1, Invariant, PTL

(* A traversal (tictactoe.cpp:235, 375, 534) that comes to the end has met *)
(* every entry that was listed all the time.                               *)
THEOREM ScansCorrect == Spec => ScanMissesNothing
<1>1. IInv /\ [Next]_vars =>
        [\A t \in Threads : ScanEnd(t) /\ ~clash => stayed[t] \subseteq seen[t]]_vars
  <2> SUFFICES ASSUME IInv, NEW t \in Threads, ScanEnd(t), ~clash
               PROVE  stayed[t] \subseteq seen[t]
    OBVIOUS
  <2>1. ScanInv /\ Forward /\ EraseInv BY DEF IInv, CalmInv
  <2>2. Standing(t) /\ next[at[t]] = End BY DEF ScanEnd
  <2>3. \A m \in listed : ~(at[t] < m) BY <2>1, <2>2, Between
  <2>4. \A m \in stayed[t] : m \in listed /\ (m \in seen[t] \/ at[t] < m)
    BY <2>1, <2>2 DEF ScanInv, Standing
  <2> QED BY <2>3, <2>4
<1> QED BY <1>1, Invariant, PTL DEF Spec, ScanMissesNothing
-----------------------------------------------------------------------------
(* The size.  Between the store of a size and the link it stands for, the  *)
(* size is one more than there are entries.                                *)

Half == {"link", "back", "front", "reload", "unback", "load", "uncount"}

Ahead(p) == IF p \in Half THEN 1 ELSE 0

Alone == \A t, u \in Threads : Changing(t) /\ Changing(u) => t = u

CountInv ==
  ~overlap =>
    /\ ~clash /\ Alone
    /\ \A t \in Threads : Changing(t) => size = Cardinality(listed) + Ahead(pc[t])
    /\ Settled => size = Cardinality(listed)
    /\ \A t \in Threads : pc[t] \in {"count", "uncount"} => reg[t] = size

(* There are finitely many entries. *)
LEMMA ListedIsFinite ==
  ASSUME NEW S, NEW n \in Nat, S \subseteq 1..n
  PROVE  IsFiniteSet(S) /\ Cardinality(S) \in Nat
<1>1. IsFiniteSet(1..n) BY FS_Interval
<1> QED BY <1>1, FS_Subset, FS_CardinalityType

(* The size of the list of entries is a number, before and after a step.   *)
LEMMA CountIsNat ==
  ASSUME IInv, [Next]_vars
  PROVE  /\ IsFiniteSet(listed) /\ Cardinality(listed) \in Nat
         /\ Cardinality(listed)' \in Nat /\ size \in Int /\ size' \in Int
<1>1. pushed \in Nat /\ listed \subseteq 1..pushed /\ size \in Int
  BY Numbers DEF IInv, BaseInv, TypeOK
<1>2. IInv' BY NextIInv
<1>3. pushed' \in Nat /\ listed' \subseteq 1..pushed' /\ size' \in Int
  BY <1>2, ListAssumption DEF IInv, BaseInv, TypeOK
<1> QED BY <1>1, <1>3, ListedIsFinite

(* The initial list is empty and its size is zero. *)
LEMMA InitCount == Init => CountInv
<1> SUFFICES ASSUME Init PROVE CountInv OBVIOUS
<1>1. \A t \in Threads : pc[t] = "idle" /\ ~Changing(t)
  BY DEF Init, Changing, Pushing, Erasing, PushSteps, EraseSteps
<1>2. size = 0 /\ Cardinality(listed) = 0 /\ ~clash BY FS_EmptySet DEF Init
<1> QED BY <1>1, <1>2 DEF CountInv, Alone

(* A step of a thread in the midst of a change keeps the balance.          *)
LEMMA CountStep ==
  ASSUME IInv, [Next]_vars, CountInv, NEW t \in Threads, NEW p,
         pc'[t] = p, \A u \in Threads : u # t => pc'[u] = pc[u] /\ reg'[u] = reg[u],
         Changing(t), p = "idle" \/ p \in PushSteps \cup EraseSteps,
         UNCHANGED <<overlap, clash>>,
         ~overlap => size' = Cardinality(listed)' + Ahead(p),
         p \in {"count", "uncount"} => reg'[t] = size'
  PROVE  CountInv'
<1> SUFFICES ASSUME ~overlap
             PROVE  /\ ~clash' /\ Alone'
                    /\ \A u \in Threads : Changing(u)' => size' = Cardinality(listed)' + Ahead(pc'[u])
                    /\ Settled' => size' = Cardinality(listed)'
                    /\ \A u \in Threads : pc'[u] \in {"count", "uncount"} => reg'[u] = size'
  BY DEF CountInv
<1>1. \A u \in Threads : u # t => ~Changing(u) /\ ~Changing(u)'
  BY DEF CountInv, Alone, Changing, Pushing, Erasing
<1>2. \A u \in Threads : u # t => pc'[u] \notin {"count", "uncount"}
  BY <1>1 DEF Changing, Pushing, Erasing, PushSteps, EraseSteps
<1>3. ~clash' /\ Alone' BY <1>1 DEF CountInv, Alone
<1>4. \A u \in Threads : Changing(u)' => size' = Cardinality(listed)' + Ahead(pc'[u])
  BY <1>1
<1>5. ASSUME Settled' PROVE size' = Cardinality(listed)'
  <2>1. ~Changing(t)' BY <1>5 DEF Settled
  <2>2. Ahead(p) = 0 BY <2>1 DEF Changing, Pushing, Erasing, PushSteps, EraseSteps, Ahead, Half
  <2> QED BY <2>2, CountIsNat
<1> QED BY <1>2, <1>3, <1>4, <1>5

(* A change that begins is alone, unless it overlaps another. *)
LEMMA CountBegin ==
  ASSUME IInv, [Next]_vars, CountInv, NEW t \in Threads, NEW p \in {"count", "unlink"},
         pc[t] = "idle", pc'[t] = p,
         \A u \in Threads : u # t => pc'[u] = pc[u] /\ reg'[u] = reg[u],
         NoteOverlap, UNCHANGED <<size, listed>>, p = "count" => reg'[t] = size
  PROVE  CountInv'
<1> SUFFICES ASSUME ~overlap'
             PROVE  /\ ~clash' /\ Alone'
                    /\ \A u \in Threads : Changing(u)' => size' = Cardinality(listed)' + Ahead(pc'[u])
                    /\ Settled' => size' = Cardinality(listed)'
                    /\ \A u \in Threads : pc'[u] \in {"count", "uncount"} => reg'[u] = size'
  BY DEF CountInv
<1>1. Changing(t)' /\ ~Changing(t)
  BY DEF Changing, Pushing, Erasing, PushSteps, EraseSteps
<1>2. ~overlap /\ ~TwoChanges' BY DEF NoteOverlap
<1>3. \A u \in Threads : u # t => ~Changing(u)' BY <1>1, <1>2 DEF TwoChanges
<1>4. \A u \in Threads : u # t => ~Changing(u) BY <1>3 DEF Changing, Pushing, Erasing
<1>5. Settled BY <1>1, <1>4 DEF Settled
<1>6. size = Cardinality(listed) /\ ~clash BY <1>2, <1>5 DEF CountInv
<1>7. Alone' BY <1>3 DEF Alone
<1>8. ~clash'
  <2>1. \A u \in Threads : ChangesEnd(u)' => Changing(u)' BY DEF ChangesEnd, Changing
  <2>2. ~TwoChangesEnd' BY <2>1, <1>3 DEF TwoChangesEnd
  <2> QED BY <2>2, <1>6 DEF NoteOverlap
<1>9. Ahead(p) = 0 BY DEF Ahead, Half
<1>10. \A u \in Threads : Changing(u)' => size' = Cardinality(listed)' + Ahead(pc'[u])
  <2>1. size = Cardinality(listed) + 0 BY <1>6, CountIsNat
  <2> QED BY <2>1, <1>3, <1>9
<1>11. ~Settled' BY <1>1 DEF Settled
<1>12. \A u \in Threads : u # t => pc'[u] \notin {"count", "uncount"}
  BY <1>3 DEF Changing, Pushing, Erasing, PushSteps, EraseSteps
<1> QED BY <1>7, <1>8, <1>10, <1>11, <1>12

(* A step that neither changes the list nor begins to. *)
LEMMA CountKeep ==
  ASSUME CountInv, UNCHANGED <<size, listed, overlap, clash>>,
         \A u \in Threads : \/ pc'[u] = pc[u] /\ reg'[u] = reg[u]
                            \/ pc[u] \in {"idle", "scan"} /\ pc'[u] \in {"idle", "scan"}
  PROVE  CountInv'
<1>1. \A u \in Threads : (Changing(u)' <=> Changing(u)) /\ (Changing(u) => pc'[u] = pc[u])
  BY DEF Changing, Pushing, Erasing, PushSteps, EraseSteps
<1>2. \A u \in Threads : pc'[u] \in {"count", "uncount"} => pc'[u] = pc[u] /\ reg'[u] = reg[u]
  OBVIOUS
<1> QED BY <1>1, <1>2 DEF CountInv, Alone, Settled

(* The steps of a push. *)
LEMMA PushCounts ==
  ASSUME IInv, [Next]_vars, CountInv, NEW s \in Shards, Push(s) PROVE CountInv'
<1>0. s \in Threads /\ TypeOK BY Roles DEF IInv, BaseInv
<1> USE CountIsNat DEF Push
<1>1. CASE PushBegin(s)
  <2>1. Moves(s, "count", pushed + 1, size) /\ pc[s] = "idle" BY <1>1 DEF PushBegin, Goto, Moves
  <2>2. NoteOverlap /\ UNCHANGED <<size, listed>> BY <1>1 DEF PushBegin
  <2> QED BY <1>0, <2>1, <2>2, Moved, CountBegin
<1>2. CASE PushCount(s)
  <2>1. Moves(s, "link", at[s], reg[s]) /\ pc[s] = "count" /\ size' = reg[s] + 1
        /\ UNCHANGED <<listed, overlap, clash>>
    BY <1>2 DEF PushCount, Goto, Moves, history, IInv, BaseInv, TypeOK
  <2>2. Changing(s) /\ "link" \in PushSteps BY <2>1 DEF Changing, Pushing, PushSteps
  <2>3. ~overlap => reg[s] = size /\ size = Cardinality(listed) + Ahead("count")
    BY <1>0, <2>1, <2>2 DEF CountInv
  <2>4. Ahead("count") = 0 /\ Ahead("link") = 1 BY DEF Ahead, Half
  <2>5. ~overlap => size' = Cardinality(listed)' + Ahead("link") BY <2>1, <2>3, <2>4
  <2> QED BY <1>0, <2>1, <2>2, <2>5, Moved, CountStep
<1>3. CASE PushLink(s)
  <2>1. Moves(s, "back", at[s], prev[End]) /\ pc[s] = "link"
        /\ UNCHANGED <<size, listed, overlap, clash>>
    BY <1>3 DEF PushLink, Goto, Moves, history, IInv, BaseInv, TypeOK
  <2>2. Changing(s) /\ "back" \in PushSteps BY <2>1 DEF Changing, Pushing, PushSteps
  <2>3. Ahead("link") = 1 /\ Ahead("back") = 1 BY DEF Ahead, Half
  <2>4. ~overlap => size' = Cardinality(listed)' + Ahead("back")
    BY <1>0, <2>1, <2>2, <2>3 DEF CountInv
  <2> QED BY <1>0, <2>1, <2>2, <2>4, Moved, CountStep
<1>4. CASE PushBack(s)
  <2>1. Moves(s, "front", at[s], reg[s]) /\ pc[s] = "back"
        /\ UNCHANGED <<size, listed, overlap, clash>>
    BY <1>4 DEF PushBack, Goto, Moves, history, IInv, BaseInv, TypeOK
  <2>2. Changing(s) /\ "front" \in PushSteps BY <2>1 DEF Changing, Pushing, PushSteps
  <2>3. Ahead("back") = 1 /\ Ahead("front") = 1 BY DEF Ahead, Half
  <2>4. ~overlap => size' = Cardinality(listed)' + Ahead("front")
    BY <1>0, <2>1, <2>2, <2>3 DEF CountInv
  <2> QED BY <1>0, <2>1, <2>2, <2>4, Moved, CountStep
<1>5. CASE PushFront(s)
  <2>1. Moves(s, "idle", End, 0) /\ pc[s] = "front" /\ listed' = listed \cup {at[s]}
        /\ UNCHANGED <<size, overlap, clash>>
    BY <1>5 DEF PushFront, Return, Moves
  <2>2. Changing(s) /\ Pushing(s) BY <2>1 DEF Changing, Pushing, PushSteps
  <2>3. Ahead("front") = 1 /\ Ahead("idle") = 0 BY DEF Ahead, Half
  <2>4. ASSUME ~overlap PROVE size' = Cardinality(listed)' + Ahead("idle")
    <3>1. PushInv BY <2>4 DEF CountInv, IInv, CalmInv
    <3>2. at[s] \in Nat /\ listed \subseteq Nat BY <1>0, <2>2, Numbers DEF IInv
    <3>3. at[s] \notin listed BY <3>1, <3>2, <2>2 DEF PushInv
    <3>4. Cardinality(listed)' = Cardinality(listed) + 1 BY <2>1, <3>3, FS_AddElement
    <3>5. size = Cardinality(listed) + 1 BY <1>0, <2>1, <2>2, <2>3, <2>4 DEF CountInv
    <3> QED BY <2>1, <2>3, <3>4, <3>5
  <2> QED BY <1>0, <2>1, <2>2, <2>4, Moved, CountStep
<1> QED BY <1>1, <1>2, <1>3, <1>4, <1>5

(* The steps of an erasure. *)
LEMMA EraseCounts ==
  ASSUME IInv, [Next]_vars, CountInv, Erase(Rest) PROVE CountInv'
<1>0. Rest \in Threads /\ TypeOK BY Roles DEF IInv, BaseInv
<1> USE CountIsNat DEF Erase
<1>1. CASE EraseBegin(Rest)
  <2>1. PICK n \in listed : Moves(Rest, "unlink", n, next[n])
    BY <1>1 DEF EraseBegin, Goto, Moves
  <2>2. pc[Rest] = "idle" /\ NoteOverlap /\ UNCHANGED <<size, listed>>
    BY <1>1 DEF EraseBegin, Goto, list
  <2> QED BY <1>0, <2>1, <2>2, Moved, CountBegin
<1>2. CASE EraseNext(Rest)
  <2>1. Moves(Rest, "reload", at[Rest], reg[Rest]) /\ pc[Rest] = "unlink"
        /\ listed' = listed \ {at[Rest]} /\ UNCHANGED <<size, overlap, clash>>
    BY <1>2 DEF EraseNext, Goto, Moves, IInv, BaseInv, TypeOK
  <2>2. Changing(Rest) /\ "reload" \in EraseSteps BY <2>1 DEF Changing, Erasing, EraseSteps
  <2>3. Ahead("unlink") = 0 /\ Ahead("reload") = 1 BY DEF Ahead, Half
  <2>4. ASSUME ~overlap PROVE size' = Cardinality(listed)' + Ahead("reload")
    <3>1. EraseInv BY <2>4 DEF CountInv, IInv, CalmInv
    <3>2. at[Rest] \in listed BY <3>1, <2>1 DEF EraseInv
    <3>3. Cardinality(listed)' = Cardinality(listed) - 1 BY <2>1, <3>2, FS_RemoveElement
    <3>4. size = Cardinality(listed) + 0 BY <1>0, <2>1, <2>2, <2>3, <2>4 DEF CountInv
    <3> QED BY <2>1, <2>3, <3>3, <3>4
  <2> QED BY <1>0, <2>1, <2>2, <2>4, Moved, CountStep
<1>3. CASE EraseReload(Rest)
  <2>1. Moves(Rest, "unback", at[Rest], next[at[Rest]]) /\ pc[Rest] = "reload"
        /\ UNCHANGED <<size, listed, overlap, clash>>
    BY <1>3 DEF EraseReload, Goto, Moves, list, history, IInv, BaseInv, TypeOK
  <2>2. Changing(Rest) /\ "unback" \in EraseSteps BY <2>1 DEF Changing, Erasing, EraseSteps
  <2>3. Ahead("reload") = 1 /\ Ahead("unback") = 1 BY DEF Ahead, Half
  <2>4. ~overlap => size' = Cardinality(listed)' + Ahead("unback")
    BY <1>0, <2>1, <2>2, <2>3 DEF CountInv
  <2> QED BY <1>0, <2>1, <2>2, <2>4, Moved, CountStep
<1>4. CASE EraseBack(Rest)
  <2>1. Moves(Rest, "load", at[Rest], reg[Rest]) /\ pc[Rest] = "unback"
        /\ UNCHANGED <<size, listed, overlap, clash>>
    BY <1>4 DEF EraseBack, Goto, Moves, history, IInv, BaseInv, TypeOK
  <2>2. Changing(Rest) /\ "load" \in EraseSteps BY <2>1 DEF Changing, Erasing, EraseSteps
  <2>3. Ahead("unback") = 1 /\ Ahead("load") = 1 BY DEF Ahead, Half
  <2>4. ~overlap => size' = Cardinality(listed)' + Ahead("load")
    BY <1>0, <2>1, <2>2, <2>3 DEF CountInv
  <2> QED BY <1>0, <2>1, <2>2, <2>4, Moved, CountStep
<1>5. CASE EraseLoad(Rest)
  <2>1. Moves(Rest, "uncount", at[Rest], size) /\ pc[Rest] = "load"
        /\ UNCHANGED <<size, listed, overlap, clash>>
    BY <1>5 DEF EraseLoad, Goto, Moves, list, history, IInv, BaseInv, TypeOK
  <2>2. Changing(Rest) /\ "uncount" \in EraseSteps BY <2>1 DEF Changing, Erasing, EraseSteps
  <2>3. Ahead("load") = 1 /\ Ahead("uncount") = 1 BY DEF Ahead, Half
  <2>4. ~overlap => size' = Cardinality(listed)' + Ahead("uncount")
    BY <1>0, <2>1, <2>2, <2>3 DEF CountInv
  <2> QED BY <1>0, <2>1, <2>2, <2>4, Moved, CountStep
<1>6. CASE EraseCount(Rest)
  <2>1. Moves(Rest, "free", at[Rest], reg[Rest]) /\ pc[Rest] = "uncount" /\ size' = reg[Rest] - 1
        /\ UNCHANGED <<listed, overlap, clash>>
    BY <1>6 DEF EraseCount, Goto, Moves, history, IInv, BaseInv, TypeOK
  <2>2. Changing(Rest) /\ "free" \in EraseSteps BY <2>1 DEF Changing, Erasing, EraseSteps
  <2>3. Ahead("uncount") = 1 /\ Ahead("free") = 0 BY DEF Ahead, Half
  <2>4. ~overlap => reg[Rest] = size /\ size = Cardinality(listed) + 1
    BY <1>0, <2>1, <2>2, <2>3 DEF CountInv
  <2>5. ~overlap => size' = Cardinality(listed)' + Ahead("free") BY <2>1, <2>3, <2>4
  <2> QED BY <1>0, <2>1, <2>2, <2>5, Moved, CountStep
<1>7. CASE EraseFree(Rest)
  <2>1. Moves(Rest, "idle", End, 0) /\ pc[Rest] = "free"
        /\ UNCHANGED <<size, listed, overlap, clash>>
    BY <1>7 DEF EraseFree, Return, Moves, history
  <2>2. Changing(Rest) BY <2>1 DEF Changing, Erasing, EraseSteps
  <2>3. Ahead("free") = 0 /\ Ahead("idle") = 0 BY DEF Ahead, Half
  <2>4. ~overlap => size' = Cardinality(listed)' + Ahead("idle")
    BY <1>0, <2>1, <2>2, <2>3 DEF CountInv
  <2> QED BY <1>0, <2>1, <2>2, <2>4, Moved, CountStep
<1> QED BY <1>1, <1>2, <1>3, <1>4, <1>5, <1>6, <1>7

(* A traversal changes nothing. *)
LEMMA ScanCounts ==
  ASSUME IInv, CountInv, NEW t \in Threads, Scan(t) \/ ScanLeave(t) PROVE CountInv'
<1>1. UNCHANGED <<size, listed, overlap, clash>>
  BY DEF Scan, ScanLeave, ScanBegin, ScanNext, ScanEnd, ScanHit, list, history
<1>2. /\ pc[t] \in {"idle", "scan"} /\ pc'[t] \in {"idle", "scan"}
      /\ \A u \in Threads : u # t => pc'[u] = pc[u] /\ reg'[u] = reg[u]
  BY DEF Scan, ScanLeave, ScanBegin, ScanNext, ScanEnd, ScanHit, Standing, Goto, Return,
         IInv, BaseInv, TypeOK
<1> QED BY <1>1, <1>2, CountKeep

(* Every step keeps the balance. *)
LEMMA NextCount == IInv /\ CountInv /\ [Next]_vars => CountInv'
<1> SUFFICES ASSUME IInv, CountInv, [Next]_vars PROVE CountInv' OBVIOUS
<1>1. ASSUME NEW s \in Shards, Push(s) PROVE CountInv' BY <1>1, PushCounts
<1>2. ASSUME NEW t \in Threads, Scan(t) \/ ScanLeave(t) PROVE CountInv' BY <1>2, ScanCounts
<1>3. ASSUME Erase(Rest) PROVE CountInv' BY <1>3, EraseCounts
<1>4. ASSUME UNCHANGED vars PROVE CountInv'
  BY <1>4, CountKeep DEF vars, list, history
<1> QED BY <1>1, <1>2, <1>3, <1>4, Roles DEF Next, Gateway, Callback

(* The size that empty() tests (tictactoe.cpp:233, 372, 531) is right      *)
(* unless two changes have overlapped.                                     *)
THEOREM EmptyCorrect == Spec => []EmptyIsRight
<1>1. IInv /\ CountInv => EmptyIsRight
  <2> SUFFICES ASSUME IInv, CountInv, ~overlap, size = 0 PROVE listed = {}
    BY DEF EmptyIsRight
  <2>1. pushed \in Nat /\ listed \subseteq 1..pushed BY Numbers DEF IInv, BaseInv, TypeOK
  <2>2. IsFiniteSet(listed) /\ Cardinality(listed) \in Nat BY <2>1, ListedIsFinite
  <2>3. \A p : Ahead(p) \in {0, 1} BY DEF Ahead
  <2>4. Cardinality(listed) = 0
    <3>1. CASE Settled BY <3>1, <2>2 DEF CountInv
    <3>2. CASE ~Settled
      <4>1. PICK t \in Threads : Changing(t) BY <3>2 DEF Settled
      <4>2. size = Cardinality(listed) + Ahead(pc[t]) BY <4>1 DEF CountInv
      <4> QED BY <4>2, <2>2, <2>3
    <3> QED BY <3>1, <3>2
  <2> QED BY <2>2, <2>4, FS_EmptySet
<1> QED BY <1>1, Invariant, InitCount, NextCount, PTL DEF Spec
=============================================================================
