---------------------------- MODULE ButtonsProofs ----------------------------
(***************************************************************************)
(* For any number of shards, players, commands and restarts: a press on an *)
(* old or a racing invitation is all that can count for a foreign entry,   *)
(* and set_origin is never wrong without a race.                           *)
(*                                                                         *)
(* The argument: while no two increments have overlapped, the counter is   *)
(* above every number this process has given out, in an entry or in the    *)
(* hands of a handler, so a new number differs from all of them.           *)
(***************************************************************************)
EXTENDS Buttons, TLAPS, FiniteSetTheorems

Storing(s) == pc[s] \in {"store", "storeCell"}

Current(n) == epoch[n] = restarts

(* What a handler holds while it takes its numbers. *)
ThreadInv ==
  /\ \A s \in Shards : pc[s] \in {"load", "store"} =>
       /\ left[s] \in 1..3
       /\ \A i \in 1..(3 - left[s]) : taken[s][Order[i]] # 0
  /\ \A s \in Shards : pc[s] = "push" => \A r \in Roles : taken[s][r] # 0
  /\ \A s \in Shards : pc[s] \in {"loadCell", "storeCell"} => left[s] >= 1

(* What belongs to the process that runs now. *)
EpochInv ==
  /\ \A n \in 1..pushed : epoch[n] <= restarts
  /\ \A n \in listed \cup asked \cup answered : Current(n)
  /\ \A n \in Cmd : origin[n] # 0 => n <= pushed
  /\ \A p \in heard : p[1] \in 1..pushed /\ p[2] \in 1..pushed

(* One thread at a time is between the load and the store of the counter.  *)
CounterInv ==
  /\ \A s, t \in Shards : Storing(s) /\ Storing(t) => s = t
  /\ \A s \in Shards : Storing(s) => reg[s] = nextID

(* The counter is above the numbers given out. *)
AboveInv ==
  /\ \A n \in 1..pushed, r \in Roles : Current(n) => ids[n][r] <= nextID
  /\ \A s \in Shards, r \in Roles : taken[s][r] <= nextID

(* The numbers given out differ. *)
FreshInv ==
  /\ \A k, n \in 1..pushed, r \in Roles :
       Current(k) /\ Current(n) /\ ids[k][r] = ids[n][r] => k = n
  /\ \A s \in Shards, n \in 1..pushed, r \in Roles :
       taken[s][r] # 0 /\ Current(n) => taken[s][r] # ids[n][r]
  /\ \A s, t \in Shards, r \in Roles :
       taken[s][r] # 0 /\ taken[s][r] = taken[t][r] => s = t

IdInv == ~mixed => CounterInv /\ AboveInv /\ FreshInv

IInv == TypeOK /\ ThreadInv /\ EpochInv /\ IdInv /\ ForeignPressHasCause /\ OriginIsOwn

-----------------------------------------------------------------------------
(* The three numbers of a command go to its three roles, in any order.     *)
LEMMA OrderOnto == \A r \in Roles : r = Order[1] \/ r = Order[2] \/ r = Order[3]
<1>1. Order[1] \in Roles /\ Order[2] \in Roles /\ Order[3] \in Roles
  BY ButtonsAssumption
<1>2. Order[1] # Order[2] /\ Order[2] # Order[3] /\ Order[1] # Order[3]
  BY ButtonsAssumption
<1> QED BY <1>1, <1>2 DEF Roles

(* Entries are numbered within the bound. *)
LEMMA PushedAreCmds == TypeOK => \A n \in 1..pushed : n \in Cmd
<1>1. TypeOK => pushed \in 0..MaxCmd BY DEF TypeOK
<1> QED BY <1>1, ButtonsAssumption DEF Cmd

(* A press starts finitely many games. *)
LEMMA StartingIsFinite ==
  ASSUME TypeOK, NEW u \in Players, NEW m \in Cmd, NEW b \in Choice
  PROVE  Cardinality(Starting(u, m, b)) \in Nat
<1>1. Starting(u, m, b) \subseteq 1..MaxCmd
  <2>1. Starting(u, m, b) \subseteq listed BY DEF Starting, Counting, Matching
  <2>2. listed \subseteq 1..pushed /\ pushed \in 0..MaxCmd BY DEF TypeOK
  <2>3. 1..pushed \subseteq 1..MaxCmd BY <2>2, ButtonsAssumption
  <2> QED BY <2>1, <2>2, <2>3
<1>2. IsFiniteSet(1..MaxCmd) BY FS_Interval, ButtonsAssumption
<1> QED BY <1>1, <1>2, FS_Subset, FS_CardinalityType

(* What a press counts for is listed. *)
LEMMA CountingIsListed ==
  \A u \in Players, m \in Cmd, b \in Choice :
    /\ Counting(u, m, b) \subseteq listed
    /\ Starting(u, m, b) \subseteq listed
    /\ \A n \in Counting(u, m, b) : ids[n][b] = ids[m][b]
BY DEF Counting, Starting, Matching

-----------------------------------------------------------------------------
(* The initial states satisfy the invariant. *)
LEMMA InitIInv == Init => IInv
<1> SUFFICES ASSUME Init PROVE IInv OBVIOUS
<1> USE ButtonsAssumption DEF Init
<1>1. TypeOK
  <2>1. 0 \in 0..MaxCmd /\ 0 \in 0..MaxRestart /\ 1..pushed = {} OBVIOUS
  <2>2. NoIds \in [Roles -> Nat] BY DEF NoIds
  <2>3. taken \in [Shards -> [Roles -> Nat]] /\ ids \in [Cmd -> [Roles -> Nat]] BY <2>2
  <2>4. /\ pc \in [Shards -> {"idle", "load", "store", "push", "loadCell", "storeCell"}]
        /\ reg \in [Shards -> Nat] /\ left \in [Shards -> Nat]
    OBVIOUS
  <2>5. /\ epoch \in [Cmd -> 0..MaxRestart] /\ pressed \in [Cmd -> SUBSET Players]
        /\ origin \in [Cmd -> 0..MaxCmd]
    BY <2>1
  <2> HIDE DEF NoIds
  <2> QED BY <2>1, <2>3, <2>4, <2>5 DEF TypeOK
<1>2. ThreadInv BY DEF ThreadInv
<1>3. EpochInv BY DEF EpochInv
<1>4. IdInv
  <2>1. CounterInv BY DEF CounterInv, Storing
  <2>2. AboveInv BY DEF AboveInv, NoIds
  <2>3. FreshInv BY DEF FreshInv, NoIds
  <2> QED BY <2>1, <2>2, <2>3 DEF IdInv
<1>5. ForeignPressHasCause /\ OriginIsOwn BY DEF ForeignPressHasCause, OriginIsOwn
<1> QED BY <1>1, <1>2, <1>3, <1>4, <1>5 DEF IInv

(* A step that leaves all variables alone keeps the invariant. *)
LEMMA StutterIInv == ASSUME IInv, UNCHANGED vars PROVE IInv'
<1> USE DEF vars, threads, entries, posts, counts
<1>1. TypeOK' BY DEF IInv, TypeOK
<1>2. ThreadInv' BY DEF IInv, ThreadInv
<1>3. EpochInv' BY DEF IInv, EpochInv, Current
<1>4. IdInv'
  BY DEF IInv, IdInv, CounterInv, AboveInv, FreshInv, Storing, Current
<1>5. ForeignPressHasCause' /\ OriginIsOwn'
  BY DEF IInv, ForeignPressHasCause, OriginIsOwn
<1> QED BY <1>1, <1>2, <1>3, <1>4, <1>5 DEF IInv

(* The steps of a shard that takes ids keep the entries and the posts.     *)
LEMMA KeepsEntries ==
  ASSUME IInv, UNCHANGED <<entries, posts, restarts, heard>>, mixed => mixed'
  PROVE  EpochInv' /\ ForeignPressHasCause' /\ OriginIsOwn'
<1> USE DEF entries, posts
<1>1. EpochInv' BY DEF IInv, EpochInv, Current
<1>2. ForeignPressHasCause' BY DEF IInv, ForeignPressHasCause
<1>3. OriginIsOwn' BY DEF IInv, OriginIsOwn
<1> QED BY <1>1, <1>2, <1>3

(* TttCommand *)
LEMMA TttCommandIInv == ASSUME IInv, NEW s \in Shards, TttCommand(s) PROVE IInv'
<1> USE DEF TttCommand
<1>1. TypeOK'
  <2>1. begun' \in 0..MaxCmd BY ButtonsAssumption DEF IInv, TypeOK
  <2>2. /\ pc' \in [Shards -> {"idle", "load", "store", "push", "loadCell", "storeCell"}]
        /\ left' \in [Shards -> Nat]
    BY DEF IInv, TypeOK
  <2> QED BY <2>1, <2>2 DEF IInv, TypeOK, entries, posts
<1>2. ThreadInv'
  <2>1. \A t \in Shards : t # s => pc'[t] = pc[t] /\ left'[t] = left[t]
    BY DEF IInv, TypeOK
  <2>2. pc'[s] = "load" /\ left'[s] = 3 /\ taken' = taken BY DEF IInv, TypeOK
  <2> QED BY <2>1, <2>2 DEF IInv, ThreadInv
<1>3. EpochInv' /\ ForeignPressHasCause' /\ OriginIsOwn' BY KeepsEntries
<1>4. IdInv'
  <2>1. \A t \in Shards : Storing(t)' => Storing(t) BY DEF Storing, IInv, TypeOK
  <2> QED BY <2>1 DEF IInv, IdInv, CounterInv, AboveInv, FreshInv, Current, entries
<1> QED BY <1>1, <1>2, <1>3, <1>4 DEF IInv

(* LoadID *)
LEMMA LoadIDIInv == ASSUME IInv, NEW s \in Shards, LoadID(s) PROVE IInv'
<1> USE DEF LoadID
<1>1. TypeOK' BY DEF IInv, TypeOK, entries, posts, counts
<1>2. ThreadInv'
  <2>1. \A t \in Shards : t # s => pc'[t] = pc[t] BY DEF IInv, TypeOK
  <2>2. pc'[s] = IF pc[s] = "load" THEN "store" ELSE "storeCell" BY DEF IInv, TypeOK
  <2> QED BY <2>1, <2>2 DEF IInv, ThreadInv
<1>3. EpochInv' /\ ForeignPressHasCause' /\ OriginIsOwn' BY KeepsEntries DEF counts
<1>4. IdInv'
  <2> SUFFICES ASSUME ~mixed' PROVE CounterInv' /\ AboveInv' /\ FreshInv' BY DEF IdInv
  <2>1. ~mixed /\ \A t \in Shards \ {s} : ~Storing(t) BY DEF Storing
  <2>2. \A t \in Shards : t # s => ~Storing(t)' BY <2>1 DEF Storing, IInv, TypeOK
  <2>3. reg'[s] = nextID /\ nextID' = nextID BY DEF IInv, TypeOK
  <2>4. CounterInv' BY <2>2, <2>3 DEF CounterInv
  <2>5. AboveInv' /\ FreshInv'
    BY <2>1 DEF IInv, IdInv, AboveInv, FreshInv, Current, entries, counts
  <2> QED BY <2>4, <2>5
<1> QED BY <1>1, <1>2, <1>3, <1>4 DEF IInv

(* StoreID *)
LEMMA StoreIDIInv == ASSUME IInv, NEW s \in Shards, StoreID(s) PROVE IInv'
<1> DEFINE role == Order[4 - left[s]]
<1>a. pc[s] = "store" => left[s] \in 1..3 /\ role \in Roles
  BY ButtonsAssumption DEF StoreID, IInv, ThreadInv, TypeOK
<1>b. reg[s] \in Nat /\ left[s] \in Nat /\ left[s] >= 1
  BY <1>a DEF StoreID, IInv, ThreadInv, TypeOK
<1>c. \A t \in Shards : t # s => /\ pc'[t] = pc[t] /\ left'[t] = left[t]
                                /\ taken'[t] = taken[t] /\ reg'[t] = reg[t]
  BY DEF StoreID, IInv, TypeOK
<1>d. CASE pc[s] = "store"
  <2> HIDE DEF role
  <2>0. nextID' = reg[s] + 1 /\ UNCHANGED <<entries, posts, counts, mixed, heard>>
    BY <1>d DEF StoreID
  <2>1. /\ taken' = [taken EXCEPT ![s][role] = reg[s] + 1]
        /\ pc' = [pc EXCEPT ![s] = IF left[s] > 1 THEN "load" ELSE "push"]
        /\ left' = [left EXCEPT ![s] = @ - 1] /\ reg' = [reg EXCEPT ![s] = 0]
    BY <1>d DEF StoreID, role
  <2>2. /\ taken'[s] = [taken[s] EXCEPT ![role] = reg[s] + 1]
        /\ pc'[s] = IF left[s] > 1 THEN "load" ELSE "push"
        /\ left'[s] = left[s] - 1
    BY <2>1 DEF IInv, TypeOK
  <2>3. taken'[s][role] = reg[s] + 1 /\ \A r \in Roles : r # role => taken'[s][r] = taken[s][r]
    BY <1>a, <1>d, <2>2 DEF IInv, TypeOK
  <2>4. TypeOK'
    <3>1. taken' \in [Shards -> [Roles -> Nat]]
      BY <2>1, <1>a, <1>b, <1>d DEF IInv, TypeOK
    <3>2. pc' \in [Shards -> {"idle", "load", "store", "push", "loadCell", "storeCell"}]
      BY <2>1 DEF IInv, TypeOK
    <3>3. left' \in [Shards -> Nat] /\ reg' \in [Shards -> Nat] /\ nextID' \in Nat
      BY <2>0, <2>1, <1>b DEF IInv, TypeOK
    <3> QED BY <2>0, <3>1, <3>2, <3>3 DEF IInv, TypeOK, entries, posts, counts
  <2>5. ThreadInv'
    <3>1. ASSUME left[s] > 1
          PROVE left'[s] \in 1..3 /\ \A i \in 1..(3 - left'[s]) : taken'[s][Order[i]] # 0
      <4>1. left'[s] \in 1..3 BY <3>1, <2>2, <1>a, <1>d
      <4>2. ASSUME NEW i \in 1..(3 - left'[s]) PROVE taken'[s][Order[i]] # 0
        <5>1. i \in 1..3 /\ (i = 4 - left[s] \/ i \in 1..(3 - left[s]))
          BY <4>1, <4>2, <2>2, <1>a, <1>d
        <5>2. Order[i] \in Roles BY <5>1, ButtonsAssumption
        <5>3. CASE Order[i] = role BY <5>3, <2>3, <1>b
        <5>4. CASE Order[i] # role
          BY <5>1, <5>2, <5>4, <2>3, <1>d DEF IInv, ThreadInv, role
        <5> QED BY <5>3, <5>4
      <4> QED BY <4>1, <4>2
    <3>2. ASSUME ~(left[s] > 1) PROVE \A r \in Roles : taken'[s][r] # 0
      <4>1. left[s] = 1 BY <3>2, <1>a, <1>d
      <4>2. \A i \in 1..2 : taken[s][Order[i]] # 0 BY <4>1, <1>d DEF IInv, ThreadInv
      <4>3. role = Order[3] BY <4>1 DEF role
      <4>4. ASSUME NEW r \in Roles PROVE taken'[s][r] # 0
        <5>1. CASE r = role BY <5>1, <2>3, <1>b
        <5>2. CASE r # role BY <5>2, <4>2, <4>3, <2>3, OrderOnto
        <5> QED BY <5>1, <5>2
      <4> QED BY <4>4
    <3>3. ASSUME NEW t \in Shards, pc'[t] \in {"load", "store"}
          PROVE  left'[t] \in 1..3 /\ \A i \in 1..(3 - left'[t]) : taken'[t][Order[i]] # 0
      <4>1. CASE t = s BY <4>1, <3>3, <3>1, <2>2
      <4>2. CASE t # s BY <4>2, <3>3, <1>c DEF IInv, ThreadInv
      <4> QED BY <4>1, <4>2
    <3>4. ASSUME NEW t \in Shards, pc'[t] = "push" PROVE \A r \in Roles : taken'[t][r] # 0
      <4>1. CASE t = s BY <4>1, <3>4, <3>2, <2>2
      <4>2. CASE t # s BY <4>2, <3>4, <1>c DEF IInv, ThreadInv
      <4> QED BY <4>1, <4>2
    <3>5. \A t \in Shards : pc'[t] \in {"loadCell", "storeCell"} => left'[t] >= 1
      BY <1>c, <2>2 DEF IInv, ThreadInv
    <3> QED BY <3>3, <3>4, <3>5 DEF ThreadInv
  <2>6. IdInv'
    <3> SUFFICES ASSUME ~mixed PROVE CounterInv' /\ AboveInv' /\ FreshInv' BY <2>0 DEF IdInv
    <3>1. Storing(s) /\ reg[s] = nextID BY <1>d DEF IInv, IdInv, CounterInv, Storing
    <3>2. nextID' = nextID + 1 /\ nextID \in Nat BY <3>1, <2>0 DEF IInv, TypeOK
    <3>3. \A t \in Shards : ~Storing(t)'
      <4>1. ~Storing(s)' BY <2>2 DEF Storing
      <4>2. ASSUME NEW t \in Shards, t # s PROVE ~Storing(t)'
        BY <4>2, <1>c, <3>1 DEF IInv, IdInv, CounterInv, Storing
      <4> QED BY <4>1, <4>2
    <3>4. CounterInv' BY <3>3 DEF CounterInv
    <3>5. \A t \in Shards, r \in Roles :
            \/ t = s /\ r = role /\ taken'[t][r] = nextID + 1
            \/ (t # s \/ r # role) /\ taken'[t][r] = taken[t][r]
      BY <1>c, <2>3, <3>1
    <3>6. /\ ids' = ids /\ pushed' = pushed /\ \A n \in 1..pushed : Current(n)' <=> Current(n)
      BY <2>0 DEF entries, counts, Current
    <3>7. /\ \A t \in Shards, r \in Roles : taken[t][r] \in Nat /\ taken[t][r] <= nextID
          /\ \A n \in 1..pushed, r \in Roles :
               ids[n][r] \in Nat /\ (Current(n) => ids[n][r] <= nextID)
      <4>1. \A n \in 1..pushed : n \in Cmd BY PushedAreCmds DEF IInv
      <4>2. AboveInv BY DEF IInv, IdInv
      <4> QED BY <4>1, <4>2 DEF IInv, TypeOK, AboveInv
    <3>8. AboveInv' BY <3>2, <3>5, <3>6, <3>7 DEF AboveInv
    <3>9. FreshInv'
      <4>0. FreshInv BY DEF IInv, IdInv
      <4>1. \A k, n \in 1..pushed, r \in Roles :
              Current(k)' /\ Current(n)' /\ ids[k][r] = ids[n][r] => k = n
        BY <4>0, <3>6 DEF FreshInv
      <4>2. \A t \in Shards, n \in 1..pushed, r \in Roles :
              taken'[t][r] # 0 /\ Current(n)' => taken'[t][r] # ids[n][r]
        BY <4>0, <3>2, <3>5, <3>6, <3>7 DEF FreshInv
      <4>3. \A t, u \in Shards, r \in Roles :
              taken'[t][r] # 0 /\ taken'[t][r] = taken'[u][r] => t = u
        BY <4>0, <3>2, <3>5, <3>7 DEF FreshInv
      <4> QED BY <4>1, <4>2, <4>3, <3>6 DEF FreshInv
    <3> QED BY <3>4, <3>8, <3>9
  <2>7. EpochInv' /\ ForeignPressHasCause' /\ OriginIsOwn' BY <2>0, KeepsEntries DEF counts
  <2> QED BY <2>4, <2>5, <2>6, <2>7 DEF IInv
<1>e. CASE pc[s] = "storeCell"
  <2>0. /\ nextID' = reg[s] + 1 /\ UNCHANGED <<taken, entries, posts, counts, mixed, heard>>
        /\ pc' = [pc EXCEPT ![s] = IF left[s] > 1 THEN "loadCell" ELSE "idle"]
        /\ left' = [left EXCEPT ![s] = @ - 1] /\ reg' = [reg EXCEPT ![s] = 0]
    BY <1>e DEF StoreID
  <2>1. pc'[s] = (IF left[s] > 1 THEN "loadCell" ELSE "idle") /\ left'[s] = left[s] - 1
    BY <2>0 DEF IInv, TypeOK
  <2>2. TypeOK' BY <2>0, <1>b DEF IInv, TypeOK, entries, posts, counts
  <2>3. ThreadInv' BY <2>0, <2>1, <1>b, <1>c DEF IInv, ThreadInv
  <2>4. IdInv'
    <3> SUFFICES ASSUME ~mixed PROVE CounterInv' /\ AboveInv' /\ FreshInv' BY <2>0 DEF IdInv
    <3>1. Storing(s) /\ reg[s] = nextID BY <1>e DEF IInv, IdInv, CounterInv, Storing
    <3>2. nextID' = nextID + 1 /\ nextID \in Nat BY <3>1, <2>0 DEF IInv, TypeOK
    <3>3. \A t \in Shards : ~Storing(t)'
      <4>1. ~Storing(s)' BY <2>1 DEF Storing
      <4>2. ASSUME NEW t \in Shards, t # s PROVE ~Storing(t)'
        BY <4>2, <1>c, <3>1 DEF IInv, IdInv, CounterInv, Storing
      <4> QED BY <4>1, <4>2
    <3>4. CounterInv' BY <3>3 DEF CounterInv
    <3>5. AboveInv'
      <4>1. \A n \in 1..pushed : n \in Cmd BY PushedAreCmds DEF IInv
      <4>2. AboveInv BY DEF IInv, IdInv
      <4>3. /\ \A t \in Shards, r \in Roles : taken[t][r] \in Nat
            /\ \A n \in 1..pushed, r \in Roles : ids[n][r] \in Nat
        BY <4>1 DEF IInv, TypeOK
      <4> QED BY <4>2, <4>3, <3>2, <2>0 DEF AboveInv, Current, entries, counts
    <3>6. FreshInv' BY <2>0 DEF IInv, IdInv, FreshInv, Current, entries, counts
    <3> QED BY <3>4, <3>5, <3>6
  <2>5. EpochInv' /\ ForeignPressHasCause' /\ OriginIsOwn' BY <2>0, KeepsEntries DEF counts
  <2> QED BY <2>2, <2>3, <2>4, <2>5 DEF IInv
<1> QED BY <1>d, <1>e DEF StoreID

(* Push *)
LEMMA PushIInv == ASSUME IInv, NEW s \in Shards, Push(s) PROVE IInv'
<1> DEFINE new == pushed + 1
<1>a. /\ new \in Cmd /\ pushed' = new /\ pushed \in Nat /\ 1..new = (1..pushed) \cup {new}
      /\ new \notin 1..pushed
  <2>1. pushed \in 0..MaxCmd /\ pushed < MaxCmd /\ pushed' = new BY DEF Push, IInv, TypeOK
  <2> QED BY <2>1, ButtonsAssumption DEF Cmd
<1> HIDE DEF new
<1>b. /\ ids' = [ids EXCEPT ![new] = taken[s]] /\ epoch' = [epoch EXCEPT ![new] = restarts]
      /\ pc' = [pc EXCEPT ![s] = "idle"] /\ taken' = [taken EXCEPT ![s] = NoIds]
      /\ listed' = listed \cup {new} /\ asked' = asked \cup {new} /\ pc[s] = "push"
  BY DEF Push, new
<1>c. UNCHANGED <<nextID, reg, left, pressed, started, origin, answered, shown, restarts, begun,
                  mixed, heard>>
  BY DEF Push, counts
<1>d. \A t \in Shards : t # s => pc'[t] = pc[t] /\ taken'[t] = taken[t]
  BY <1>b DEF IInv, TypeOK
<1>e. pc'[s] = "idle" /\ \A r \in Roles : taken'[s][r] = 0
  BY <1>b DEF IInv, TypeOK, NoIds
<1>f. /\ ids'[new] = taken[s] /\ epoch'[new] = restarts
      /\ \A n \in 1..pushed : ids'[n] = ids[n] /\ epoch'[n] = epoch[n]
  BY <1>a, <1>b, PushedAreCmds DEF IInv, TypeOK
<1>g. \A r \in Roles : taken[s][r] \in Nat /\ taken[s][r] # 0
  BY <1>b DEF IInv, TypeOK, ThreadInv
<1>h. listed \cup asked \cup answered \cup shown \subseteq 1..pushed BY DEF IInv, TypeOK
<1>1. TypeOK'
  <2>1. pushed' \in 0..MaxCmd /\ 1..pushed' = (1..pushed) \cup {new}
    BY <1>a, ButtonsAssumption DEF Cmd
  <2>2. NoIds \in [Roles -> Nat] BY DEF NoIds
  <2>3. taken' \in [Shards -> [Roles -> Nat]] BY <1>b, <2>2 DEF IInv, TypeOK
  <2>4. ids' \in [Cmd -> [Roles -> Nat]] BY <1>b DEF IInv, TypeOK
  <2>5. epoch' \in [Cmd -> 0..MaxRestart] BY <1>b DEF IInv, TypeOK
  <2>6. pc' \in [Shards -> {"idle", "load", "store", "push", "loadCell", "storeCell"}]
    BY <1>b DEF IInv, TypeOK
  <2>7. \A n \in 1..pushed', r \in Roles : ids'[n][r] # 0
    BY <2>1, <1>f, <1>g DEF IInv, TypeOK
  <2>8. listed' \cup asked' \cup answered' \cup shown' \subseteq 1..pushed'
    BY <1>b, <1>c, <1>h, <2>1
  <2> QED BY <1>c, <2>1, <2>3, <2>4, <2>5, <2>6, <2>7, <2>8 DEF IInv, TypeOK
<1>2. ThreadInv' BY <1>c, <1>d, <1>e DEF IInv, ThreadInv
<1>3. EpochInv'
  <2>0. restarts \in Nat BY ButtonsAssumption DEF IInv, TypeOK
  <2>1. \A n \in 1..pushed' : epoch'[n] <= restarts'
    BY <2>0, <1>a, <1>c, <1>f DEF IInv, EpochInv
  <2>2. \A n \in listed' \cup asked' \cup answered' : Current(n)'
    BY <1>b, <1>c, <1>f, <1>h DEF IInv, EpochInv, Current
  <2>3. \A n \in Cmd : origin'[n] # 0 => n <= pushed'
    BY <1>a, <1>c DEF IInv, EpochInv, Cmd
  <2>4. \A p \in heard' : p[1] \in 1..pushed' /\ p[2] \in 1..pushed'
    BY <1>a, <1>c DEF IInv, EpochInv
  <2> QED BY <2>1, <2>2, <2>3, <2>4 DEF EpochInv
<1>4. IdInv'
  <2> SUFFICES ASSUME ~mixed PROVE CounterInv' /\ AboveInv' /\ FreshInv' BY <1>c DEF IdInv
  <2>0. CounterInv /\ AboveInv /\ FreshInv BY DEF IInv, IdInv
  <2>1. \A t \in Shards : Storing(t)' => Storing(t) BY <1>d, <1>e DEF Storing
  <2>2. CounterInv' BY <2>0, <2>1, <1>c DEF CounterInv
  <2>3. \A n \in 1..pushed : Current(n)' <=> Current(n) BY <1>c, <1>f DEF Current
  <2>4. AboveInv'
    <3>0. nextID \in Nat BY DEF IInv, TypeOK
    <3>1. \A n \in 1..pushed', r \in Roles : Current(n)' => ids'[n][r] <= nextID'
      BY <2>0, <2>3, <1>a, <1>c, <1>f DEF AboveInv
    <3>2. \A t \in Shards, r \in Roles : taken'[t][r] <= nextID'
      BY <3>0, <2>0, <1>c, <1>d, <1>e DEF AboveInv
    <3> QED BY <3>1, <3>2 DEF AboveInv
  <2>5. FreshInv'
    <3>1. ASSUME NEW k \in 1..pushed', NEW n \in 1..pushed', NEW r \in Roles,
                 Current(k)', Current(n)', ids'[k][r] = ids'[n][r]
          PROVE  k = n
      <4>1. CASE k = new /\ n = new BY <4>1
      <4>2. CASE k \in 1..pushed /\ n \in 1..pushed
        BY <4>2, <3>1, <2>0, <2>3, <1>f DEF FreshInv
      <4>3. CASE k = new /\ n \in 1..pushed
        BY <4>3, <3>1, <2>0, <2>3, <1>f, <1>g DEF FreshInv
      <4>4. CASE n = new /\ k \in 1..pushed
        BY <4>4, <3>1, <2>0, <2>3, <1>f, <1>g DEF FreshInv
      <4> QED BY <4>1, <4>2, <4>3, <4>4, <1>a
    <3>2. ASSUME NEW t \in Shards, NEW n \in 1..pushed', NEW r \in Roles,
                 taken'[t][r] # 0, Current(n)'
          PROVE  taken'[t][r] # ids'[n][r]
      <4>1. t # s /\ taken'[t] = taken[t] BY <3>2, <1>d, <1>e
      <4>2. CASE n = new
        BY <4>1, <4>2, <3>2, <2>0, <1>f DEF FreshInv
      <4>3. CASE n \in 1..pushed
        BY <4>1, <4>3, <3>2, <2>0, <2>3, <1>f DEF FreshInv
      <4> QED BY <4>2, <4>3, <1>a
    <3>3. \A t, u \in Shards, r \in Roles :
            taken'[t][r] # 0 /\ taken'[t][r] = taken'[u][r] => t = u
      BY <2>0, <1>d, <1>e DEF FreshInv
    <3> QED BY <3>1, <3>2, <3>3 DEF FreshInv
  <2> QED BY <2>2, <2>4, <2>5
<1>5. ForeignPressHasCause'
  BY <1>c, <1>f DEF IInv, ForeignPressHasCause, EpochInv
<1>6. OriginIsOwn'
  <2>1. origin[new] = 0
    <3>1. ~(new <= pushed) BY <1>a DEF new
    <3> QED BY <3>1, <1>a DEF IInv, EpochInv
  <2> QED BY <2>1, <1>b, <1>c DEF IInv, OriginIsOwn
<1> QED BY <1>1, <1>2, <1>3, <1>4, <1>5, <1>6 DEF IInv

(* Steps that take no numbers keep what is known of them. *)
LEMMA KeepsIds ==
  ASSUME IInv, UNCHANGED <<nextID, reg, taken, pushed, ids, epoch, restarts, mixed>>,
         \A t \in Shards : Storing(t)' => Storing(t)
  PROVE  IdInv'
BY DEF IInv, IdInv, CounterInv, AboveInv, FreshInv, Current

(* Press *)
LEMMA PressIInv ==
  ASSUME IInv, NEW s \in Shards, NEW u \in Players, NEW m \in Cmd, NEW b \in Choice,
         Press(s, u, m, b)
  PROVE  IInv'
<1> DEFINE hit == Counting(u, m, b)
           begin == Starting(u, m, b)
<1>a. /\ pc[s] = "idle" /\ m \in shown
      /\ pressed' = [n \in Cmd |-> IF n \in hit THEN pressed[n] \cup {u} ELSE pressed[n]]
      /\ heard' = heard \cup {<<m, n>> : n \in hit}
      /\ started' = started \cup begin
      /\ left' = [left EXCEPT ![s] = CellIds * Cardinality(begin)]
      /\ pc' = [pc EXCEPT ![s] = IF left'[s] = 0 THEN "idle" ELSE "loadCell"]
  BY DEF Press
<1>b. UNCHANGED <<nextID, reg, taken, pushed, listed, origin, ids, epoch, asked, answered, shown,
                  restarts, begun, mixed>>
  BY DEF Press, posts, counts
<1>c. hit \subseteq listed /\ begin \subseteq listed /\ \A n \in hit : ids[n][b] = ids[m][b]
  BY CountingIsListed
<1>d. listed \subseteq 1..pushed /\ m \in 1..pushed /\ \A n \in 1..pushed : n \in Cmd
  BY <1>a, PushedAreCmds DEF IInv, TypeOK
<1>e. CellIds * Cardinality(begin) \in Nat
  <2>1. Cardinality(begin) \in Nat BY StartingIsFinite DEF IInv
  <2> HIDE DEF begin
  <2> QED BY <2>1, ButtonsAssumption
<1> HIDE DEF hit, begin
<1>f. \A t \in Shards : t # s => pc'[t] = pc[t] /\ left'[t] = left[t]
  BY <1>a DEF IInv, TypeOK
<1>g. left'[s] \in Nat /\ pc'[s] = (IF left'[s] = 0 THEN "idle" ELSE "loadCell")
  BY <1>a, <1>e DEF IInv, TypeOK
<1>1. TypeOK'
  <2>1. left' \in [Shards -> Nat] BY <1>a, <1>e DEF IInv, TypeOK
  <2>2. pc' \in [Shards -> {"idle", "load", "store", "push", "loadCell", "storeCell"}]
    BY <1>a DEF IInv, TypeOK
  <2>3. pressed' \in [Cmd -> SUBSET Players] BY <1>a DEF IInv, TypeOK
  <2>4. started' \subseteq Cmd BY <1>a, <1>c, <1>d DEF IInv, TypeOK
  <2>5. heard' \subseteq Cmd \X Cmd BY <1>a, <1>c, <1>d DEF IInv, TypeOK
  <2> QED BY <2>1, <2>2, <2>3, <2>4, <2>5, <1>b DEF IInv, TypeOK
<1>2. ThreadInv'
  <2>1. \A t \in Shards : pc'[t] \in {"load", "store", "push"} => t # s BY <1>g
  <2>2. \A t \in Shards : pc'[t] \in {"loadCell", "storeCell"} => left'[t] >= 1
    BY <1>f, <1>g DEF IInv, ThreadInv
  <2> QED BY <2>1, <2>2, <1>b, <1>f DEF IInv, ThreadInv
<1>3. EpochInv'
  <2>1. \A p \in heard' : p[1] \in 1..pushed' /\ p[2] \in 1..pushed'
    BY <1>a, <1>b, <1>c, <1>d DEF IInv, EpochInv
  <2> QED BY <2>1, <1>b DEF IInv, EpochInv, Current
<1>4. IdInv'
  <2>1. \A t \in Shards : Storing(t)' => Storing(t) BY <1>f, <1>g DEF Storing
  <2> QED BY <2>1, <1>b, KeepsIds
<1>5. ForeignPressHasCause'
  <2> SUFFICES ASSUME NEW n \in hit, m # n PROVE mixed \/ epoch[m] < epoch[n]
    BY <1>a, <1>b DEF IInv, ForeignPressHasCause
  <2>1. Current(n) /\ n \in 1..pushed BY <1>c, <1>d DEF IInv, EpochInv
  <2>2. epoch[m] <= restarts /\ epoch[m] \in Nat /\ restarts \in Nat
    BY <1>d, ButtonsAssumption DEF IInv, EpochInv, TypeOK
  <2>3. b \in Roles BY DEF Choice, Roles
  <2>4. CASE Current(m)
    BY <2>1, <2>3, <2>4, <1>c, <1>d DEF IInv, IdInv, FreshInv
  <2>5. CASE ~Current(m) BY <2>1, <2>2, <2>5 DEF Current
  <2> QED BY <2>4, <2>5
<1>6. OriginIsOwn' BY <1>b DEF IInv, OriginIsOwn
<1> QED BY <1>1, <1>2, <1>3, <1>4, <1>5, <1>6 DEF IInv

(* Answer *)
LEMMA AnswerIInv == ASSUME IInv, NEW n \in Cmd, Answer(n) PROVE IInv'
<1> USE DEF Answer, threads, entries, counts
<1>1. TypeOK' BY DEF IInv, TypeOK
<1>2. ThreadInv' BY DEF IInv, ThreadInv
<1>3. EpochInv' BY DEF IInv, EpochInv, Current
<1>4. IdInv' BY KeepsIds DEF Storing
<1>5. ForeignPressHasCause' /\ OriginIsOwn' BY DEF IInv, ForeignPressHasCause, OriginIsOwn
<1> QED BY <1>1, <1>2, <1>3, <1>4, <1>5 DEF IInv

(* SetOrigin *)
LEMMA SetOriginIInv == ASSUME IInv, NEW n \in Cmd, SetOrigin(n) PROVE IInv'
<1>a. UNCHANGED <<nextID, threads, pushed, listed, pressed, started, ids, epoch, asked, shown,
                  counts, mixed, heard>>
  BY DEF SetOrigin
<1>b. n \in answered /\ answered' = answered \ {n} /\ n \in 1..pushed
  BY DEF SetOrigin, IInv, TypeOK
<1>c. \A k \in Cmd :
        \/ origin'[k] = origin[k]
        \/ origin'[k] = n /\ k \in listed /\ ids[k]["uid"] = ids[n]["uid"]
  BY DEF SetOrigin
<1>d. listed \subseteq 1..pushed /\ \A k \in 1..pushed : k \in Cmd
  BY PushedAreCmds DEF IInv, TypeOK
<1> USE DEF threads, counts
<1>1. TypeOK'
  <2>1. n \in 0..MaxCmd BY DEF Cmd
  <2>2. origin' \in [Cmd -> 0..MaxCmd] BY <2>1 DEF SetOrigin, IInv, TypeOK
  <2> QED BY <2>2, <1>a, <1>b DEF IInv, TypeOK
<1>2. ThreadInv' BY <1>a DEF IInv, ThreadInv
<1>3. EpochInv'
  <2>0. \A k \in listed : k <= pushed BY <1>d
  <2>1. ASSUME NEW k \in Cmd, origin'[k] # 0 PROVE k <= pushed
    BY <2>0, <2>1, <1>c DEF IInv, EpochInv
  <2> QED BY <2>1, <1>a, <1>b DEF IInv, EpochInv, Current
<1>4. IdInv' BY <1>a, KeepsIds DEF Storing
<1>5. ForeignPressHasCause' BY <1>a DEF IInv, ForeignPressHasCause
<1>6. OriginIsOwn'
  <2> SUFFICES ASSUME ~mixed, NEW k \in listed PROVE origin'[k] \in {0, k}
    BY <1>a DEF OriginIsOwn
  <2>1. origin[k] \in {0, k} /\ k \in Cmd /\ k \in 1..pushed BY <1>d DEF IInv, OriginIsOwn
  <2>2. ASSUME ids[k]["uid"] = ids[n]["uid"] PROVE k = n
    <3>1. Current(k) /\ Current(n) BY <1>b DEF IInv, EpochInv
    <3> QED BY <3>1, <2>1, <2>2, <1>b DEF IInv, IdInv, FreshInv, Roles
  <2> QED BY <2>1, <2>2, <1>c
<1> QED BY <1>1, <1>2, <1>3, <1>4, <1>5, <1>6 DEF IInv

(* Erase *)
LEMMA EraseIInv == ASSUME IInv, NEW n \in Cmd, Erase(n) PROVE IInv'
<1> USE DEF Erase, threads, posts, counts
<1>1. TypeOK' BY DEF IInv, TypeOK
<1>2. ThreadInv' BY DEF IInv, ThreadInv
<1>3. EpochInv' BY DEF IInv, EpochInv, Current
<1>4. IdInv' BY KeepsIds DEF Storing
<1>5. ForeignPressHasCause' /\ OriginIsOwn' BY DEF IInv, ForeignPressHasCause, OriginIsOwn
<1> QED BY <1>1, <1>2, <1>3, <1>4, <1>5 DEF IInv

(* Restart: the new process has given out no number, and no entry is its.  *)
LEMMA RestartIInv == ASSUME IInv, Restart PROVE IInv'
<1>a. /\ restarts' = restarts + 1 /\ nextID' = 0 /\ listed' = {} /\ asked' = {} /\ answered' = {}
      /\ pc' = [s \in Shards |-> "idle"] /\ reg' = [s \in Shards |-> 0]
      /\ left' = [s \in Shards |-> 0] /\ taken' = [s \in Shards |-> NoIds]
      /\ shown' \subseteq shown \cup asked
      /\ UNCHANGED <<pushed, pressed, started, origin, ids, epoch, begun, mixed, heard>>
  BY DEF Restart
<1>b. restarts' \in 0..MaxRestart BY <1>a, ButtonsAssumption DEF Restart, IInv, TypeOK
<1>c. \A n \in 1..pushed : epoch[n] \in Nat /\ epoch[n] <= restarts /\ restarts \in Nat
  BY PushedAreCmds, ButtonsAssumption DEF IInv, TypeOK, EpochInv
<1>d. \A n \in 1..pushed : ~Current(n)' BY <1>a, <1>c DEF Current
<1>1. TypeOK'
  <2>1. NoIds \in [Roles -> Nat] BY DEF NoIds
  <2>2. taken' \in [Shards -> [Roles -> Nat]] BY <2>1, <1>a
  <2> QED BY <2>2, <1>a, <1>b DEF IInv, TypeOK
<1>2. ThreadInv' BY <1>a DEF ThreadInv
<1>3. EpochInv' BY <1>a, <1>c DEF IInv, EpochInv
<1>4. IdInv'
  <2>1. CounterInv' BY <1>a DEF CounterInv, Storing
  <2>2. \A s \in Shards, r \in Roles : taken'[s][r] = 0 BY <1>a DEF NoIds
  <2>3. AboveInv' /\ FreshInv' BY <1>a, <1>d, <2>2 DEF AboveInv, FreshInv
  <2> QED BY <2>1, <2>3 DEF IdInv
<1>5. ForeignPressHasCause' /\ OriginIsOwn'
  BY <1>a DEF IInv, ForeignPressHasCause, OriginIsOwn
<1> QED BY <1>1, <1>2, <1>3, <1>4, <1>5 DEF IInv

(* Every step keeps the invariant. *)
LEMMA NextIInv == IInv /\ [Next]_vars => IInv'
<1> SUFFICES ASSUME IInv, [Next]_vars PROVE IInv' OBVIOUS
<1>1. ASSUME NEW s \in Shards, Gateway(s) PROVE IInv'
  BY <1>1, TttCommandIInv, LoadIDIInv, StoreIDIInv, PushIInv, PressIInv DEF Gateway
<1>2. ASSUME Callback PROVE IInv'
  BY <1>2, AnswerIInv, SetOriginIInv, EraseIInv DEF Callback
<1> QED BY <1>1, <1>2, RestartIInv, StutterIInv DEF Next

(* The numbers of UniqueID and the entries they belong to, at any time.    *)
THEOREM Invariant == Spec => []IInv
BY InitIInv, NextIInv, PTL DEF Spec

(* Every entry that was pushed has its three ids, whichever way they were  *)
(* evaluated (tictactoe.cpp:148 to 205).                                   *)
THEOREM TypeCorrect == Spec => []TypeOK
<1>1. IInv => TypeOK BY DEF IInv
<1> QED BY <1>1, Invariant, PTL

(* A press counts for a foreign entry only after a restart or a race.      *)
THEOREM ForeignPresses == Spec => []ForeignPressHasCause
<1>1. IInv => ForeignPressHasCause BY DEF IInv
<1> QED BY <1>1, Invariant, PTL

(* Without a race set_origin finds the entry of its invitation only.       *)
THEOREM OriginsCorrect == Spec => []OriginIsOwn
<1>1. IInv => OriginIsOwn BY DEF IInv
<1> QED BY <1>1, Invariant, PTL
=============================================================================
