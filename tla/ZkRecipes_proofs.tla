---------------------------- MODULE ZkRecipes_proofs ----------------------------
(***************************************************************************)
(* Proofs about ZkRecipes, for any number of clients, nodes, losses and    *)
(* expiries: who was told it is the one owns the node until it is taken    *)
(* away, readers share and a writer is alone, and nobody passes a closed   *)
(* barrier.                                                                *)
(***************************************************************************)
EXTENDS ZkRecipes, FiniteSetTheorems, TLAPS

Electing == {"none", "create", "lost", "won"}

(* The types that TypeOK leaves out. *)
Types ==
    /\ TypeOK
    /\ recipe \in Recipes
    /\ up \in [Clients -> BOOLEAN]
    /\ watch \in [Clients -> [set : BOOLEAN, target : Int, fetch : Nat, rearm : BOOLEAN]]
    /\ cbs \in [Clients -> Seq(SUBSET Int)]
    /\ mode \in [Clients -> {"R", "W"}]
    /\ elect \in [Clients -> [Threads -> Electing]]
    /\ isMaster \in [Clients -> BOOLEAN]
    /\ robbed \in [Clients -> BOOLEAN]
    /\ counted \in Nat

(* A watcher that is set has room for one more list, and a sequence number that
   is yet to come is nobody's. *)
Room == \A c \in Clients : watch[c].set => watch[c].fetch <= MaxLists
Numbered == \A n \in nodes : n.seq < nextSeq

(* Only a MasterElection runs retry(). *)
NoElection ==
    recipe # "master" =>
        \A c \in Clients : ~isMaster[c] /\ \A t \in Threads : elect[c][t] = "none"

(* Whoever has been told, or is about to be told, that it is the one. *)
Told(c) ==
    \/ recipe = "lock" /\ pc[c] = "held"
    \/ isMaster[c]
    \/ \E t \in Threads : elect[c][t] = "won"
Owns(c) == \E n \in nodes : n.owner = c
ToldOwns == \A c \in Clients : Told(c) /\ ~robbed[c] => Owns(c)

(* A client of the shared lock has its node in the tree while it competes for
   the lock or holds it, and whoever holds it has decided when those before it
   were there. *)
Competes(c) == pc[c] \in {"list", "watch", "wait", "blocked", "held"} /\ ~robbed[c]
Queued == \A c \in Clients : Competes(c) => Node(c, mine[c]) \in nodes
InTurn ==
    \A c, d \in Clients :
        Competes(c) /\ Holds(d) /\ mine[c] < mine[d] => mode[c] = "R" /\ mode[d] = "R"
SharedInv == recipe = "shared" => Queued /\ InTurn

(* The children of a barrier were counted down, and those who passed it have
   seen enough of them. *)
BarrierInv ==
    /\ IsFiniteSet(nodes)
    /\ recipe = "barrier" => Cardinality(nodes) <= counted
    /\ BarrierHolds

(* A lock, and a mastership, is one child. *)
OneChild == recipe \in {"lock", "master"} => \A m, n \in nodes : m = n

IInv == /\ Types /\ Room /\ Numbered /\ NoElection /\ ToldOwns
        /\ SharedInv /\ BarrierInv /\ OneChild

-----------------------------------------------------------------------------
\* A set of natural numbers below a bound that is not empty has a greatest member,
\* and Max is one.
LEMMA MaxIn ==
  ASSUME NEW N \in Nat, NEW S, S \subseteq 0..N, S # {}
  PROVE  Max(S) \in S
<1> DEFINE T == {x..N : x \in S}
           R == StrictSubsetOrdering(0..N)
<1>1. T \subseteq FiniteSubsetsOf(0..N)
  BY FS_Interval DEF FiniteSubsetsOf
<1>2. PICK x \in S : \A y \in S : ~(<<y..N, x..N>> \in R)
  <2>1. IsWellFoundedOn(R, FiniteSubsetsOf(0..N))
    BY FS_StrictSubsetOrderingWellFounded
  <2>2. T # {}
    OBVIOUS
  <2>3. PICK u \in T : \A v \in T : ~(<<v, u>> \in R)
    <3> HIDE DEF R, T
    <3> QED
      BY <1>1, <2>1, <2>2, WFMin
  <2> QED
    BY <2>3
<1>3. \A y \in S : x >= y
  <2> SUFFICES ASSUME NEW y \in S, y > x PROVE FALSE
    OBVIOUS
  <2>1. y..N \subseteq x..N /\ x \in x..N /\ x \notin y..N
    OBVIOUS
  <2>2. (y..N) \in SUBSET (0..N) /\ (x..N) \in SUBSET (0..N)
    OBVIOUS
  <2>3. (y..N) # (x..N)
    BY <2>1
  <2> QED
    BY <1>2, <2>1, <2>2, <2>3 DEF StrictSubsetOrdering
<1> QED
  BY <1>3 DEF Max

\* A watcher that fires asks for one list more, and is not set any more.
LEMMA FiredType ==
  ASSUME NEW w \in [set : BOOLEAN, target : Int, fetch : Nat, rearm : BOOLEAN]
  PROVE  /\ Fired(w) \in [set : BOOLEAN, target : Int, fetch : Nat, rearm : BOOLEAN]
         /\ ~Fired(w).set /\ Fired(w).fetch = w.fetch + 1
  BY DEF Fired

\* What a change of the children does to the watchers: those it fires ask for one
\* list more.
LEMMA ChangeWatches ==
  ASSUME Types, Room, NEW new, NEW by, ChangeTo(new, by)
  PROVE  /\ watch' \in [Clients -> [set : BOOLEAN, target : Int, fetch : Nat, rearm : BOOLEAN]]
         /\ \A c \in Clients : watch'[c].fetch <= MaxLists + 1
         /\ \A c \in Clients : watch'[c].set => watch'[c].fetch <= MaxLists
<1> USE RecipesAssumption DEF Types, TypeOK, Room
<1> SUFFICES ASSUME NEW c \in Clients
             PROVE  /\ watch'[c] \in [set : BOOLEAN, target : Int, fetch : Nat, rearm : BOOLEAN]
                    /\ watch'[c].fetch <= MaxLists + 1
                    /\ watch'[c].set => watch'[c].fetch <= MaxLists
  BY DEF ChangeTo
<1>1. CASE Fires(watch[c], nodes, new)
  <2>1. watch[c].set
    BY <1>1 DEF Fires
  <2>2. watch'[c] = Fired(watch[c])
    BY <1>1 DEF ChangeTo
  <2> QED
    BY <2>1, <2>2, FiredType
<1>2. CASE ~Fires(watch[c], nodes, new)
  BY <1>2 DEF ChangeTo
<1> QED
  BY <1>1, <1>2

\* Whoever loses a node by the step of somebody else is robbed, and only a step of
\* its own that makes a node ends that.
LEMMA ChangeRobs ==
  ASSUME Types, NEW new, NEW by, ChangeTo(new, by)
  PROVE  /\ nodes' = new
         /\ robbed' \in [Clients -> BOOLEAN]
         /\ \A c \in Clients : ~robbed'[c] =>
              /\ robbed[c] => c = by /\ \E n \in new : n.owner = c
              /\ c # by => \A n \in nodes : n.owner = c => n \in new
<1> USE DEF Types
<1>1. nodes' = new
  BY DEF ChangeTo
<1>2. ASSUME NEW c \in Clients
      PROVE  /\ robbed'[c] \in BOOLEAN
             /\ robbed'[c] <=> IF by = c THEN robbed[c] /\ ~\E n \in new \ nodes : n.owner = c
                               ELSE robbed[c] \/ \E n \in nodes \ new : n.owner = c
  BY Zenon DEF ChangeTo
<1>3. robbed' \in [Clients -> BOOLEAN]
  BY <1>2, Zenon DEF ChangeTo
<1> QED
  BY <1>1, <1>2, <1>3

-----------------------------------------------------------------------------
(* What Types, Room and Numbered say of the servers. *)
ServerOK ==
    /\ nodes \subseteq [seq : 0..MaxNodes, owner : Clients, mode : {"R", "W"}]
    /\ \A m, n \in nodes : m.seq = n.seq => m = n
    /\ nextSeq \in 1..(MaxNodes + 1)
    /\ watch \in [Clients -> [set : BOOLEAN, target : Int, fetch : Nat, rearm : BOOLEAN]]
    /\ \A c \in Clients : watch[c].fetch \in 0..(MaxLists + 1)
    /\ robbed \in [Clients -> BOOLEAN]
    /\ Room /\ Numbered

\* Children that are added with a number of their own, and children that are deleted,
\* leave the servers' books in order.
LEMMA ServerKept ==
  ASSUME Types, Room, Numbered, NEW c \in Clients
  PROVE  /\ ~Taken(c) /\ CreateOne(c) => ServerOK'
         /\ CreateSeq(c) => ServerOK'
         /\ \A gone : Delete(c, gone) => ServerOK'
         /\ \A l \in Int : SetWatch(c, l) /\ UNCHANGED <<nodes, nextSeq, robbed>> => ServerOK'
         /\ UNCHANGED server => ServerOK'
<1>0. ServerOK /\ nextSeq \in Int
  BY RecipesAssumption DEF ServerOK, Types, TypeOK
<1>1. ASSUME NEW new, ChangeTo(new, c), nextSeq' \in 1..(MaxNodes + 1),
             new \subseteq [seq : 0..MaxNodes, owner : Clients, mode : {"R", "W"}],
             \A m, n \in new : m.seq = n.seq => m = n,
             \A n \in new : n.seq < nextSeq'
      PROVE  ServerOK'
  <2>1. /\ watch' \in [Clients -> [set : BOOLEAN, target : Int, fetch : Nat, rearm : BOOLEAN]]
        /\ \A d \in Clients : watch'[d].fetch <= MaxLists + 1
        /\ Room'
    BY <1>1, ChangeWatches DEF Room
  <2>2. nodes' = new /\ robbed' \in [Clients -> BOOLEAN]
    BY <1>1, ChangeRobs
  <2>3. \A d \in Clients : watch'[d].fetch \in 0..(MaxLists + 1)
    BY <2>1, RecipesAssumption
  <2> QED
    BY <1>1, <2>1, <2>2, <2>3 DEF ServerOK, Numbered
<1>2. ASSUME ~Taken(c), CreateOne(c) PROVE ServerOK'
  <2> DEFINE new == nodes \cup {Node(c, 0)}
  <2>1. new = {Node(c, 0)}
    BY <1>2 DEF Taken
  <2>2. Node(c, 0) \in [seq : 0..MaxNodes, owner : Clients, mode : {"R", "W"}] /\ Node(c, 0).seq = 0
    BY RecipesAssumption DEF Node, Types
  <2>3. nextSeq' = nextSeq /\ nextSeq \in 1..(MaxNodes + 1)
    BY <1>0, <1>2 DEF CreateOne, ServerOK
  <2> QED
    BY <1>1, <1>2, <2>1, <2>2, <2>3 DEF CreateOne
<1>3. ASSUME CreateSeq(c) PROVE ServerOK'
  <2> DEFINE new == nodes \cup {Node(c, nextSeq)}
  <2>0. nextSeq' = nextSeq + 1 /\ nextSeq' \in 1..(MaxNodes + 1)
    BY <1>0, <1>3, RecipesAssumption DEF CreateSeq, ServerOK
  <2>1. /\ Node(c, nextSeq) \in [seq : 0..MaxNodes, owner : Clients, mode : {"R", "W"}]
        /\ Node(c, nextSeq).seq = nextSeq
    BY <1>0, <1>3, RecipesAssumption DEF Node, CreateSeq, Types, ServerOK
  <2>2. \A n \in nodes : n.seq \in Int /\ n.seq < nextSeq
    BY <1>0, RecipesAssumption DEF Numbered, ServerOK
  <2>3. \A m, n \in new : m.seq = n.seq => m = n
    BY <1>0, <2>1, <2>2 DEF ServerOK
  <2>4. \A n \in new : n.seq < nextSeq'
    BY <1>0, <2>0, <2>1, <2>2
  <2>5. new \subseteq [seq : 0..MaxNodes, owner : Clients, mode : {"R", "W"}]
    BY <1>0, <2>1 DEF ServerOK
  <2> QED
    BY <1>1, <1>3, <2>0, <2>3, <2>4, <2>5 DEF CreateSeq
<1>4. ASSUME NEW gone, Delete(c, gone) PROVE ServerOK'
  <2>1. nextSeq' = nextSeq /\ nextSeq \in 1..(MaxNodes + 1)
    BY <1>0, <1>4 DEF Delete, ServerOK
  <2> QED
    BY <1>0, <1>1, <1>4, <2>1 DEF Delete, Numbered, ServerOK
<1>5. ASSUME NEW l \in Int, SetWatch(c, l), UNCHANGED <<nodes, nextSeq, robbed>> PROVE ServerOK'
  BY <1>0, <1>5, RecipesAssumption DEF SetWatch, Watcher, ServerOK, Room, Numbered
<1>6. ASSUME UNCHANGED server PROVE ServerOK'
  BY <1>0, <1>6 DEF server, ServerOK, Room, Numbered
<1> QED
  BY <1>2, <1>3, <1>4, <1>5, <1>6

\* Every step leaves the servers' books in order.
LEMMA ServerStep ==
  ASSUME Types, Room, Numbered, NEW c \in Clients,
         \/ ClientNext(c) \/ UserNext(c) \/ Answer(c) \/ Rearm(c) \/ Callback(c)
         \/ LoseConnection(c) \/ Expire(c) \/ Reconnect(c)
  PROVE  ServerOK'
<1>0. ServerOK
  BY RecipesAssumption DEF ServerOK, Types, TypeOK
<1>1. ASSUME Answer(c) PROVE ServerOK'
  <2>1. watch[c].fetch - 1 \in 0..(MaxLists + 1)
    BY <1>0, <1>1, RecipesAssumption DEF Answer, ServerOK
  <2>2. watch' = [watch EXCEPT ![c].fetch = watch[c].fetch - 1]
    BY <1>1 DEF Answer
  <2>3. watch[c].set => watch[c].fetch - 1 <= MaxLists
    BY <1>0, RecipesAssumption DEF ServerOK, Room
  <2>4. PICK f \in 0..(MaxLists + 1) : f = watch[c].fetch - 1
    BY <2>1
  <2> DEFINE w == [set |-> watch[c].set, target |-> watch[c].target, fetch |-> f,
                   rearm |-> watch[c].rearm]
  <2>5. w \in [set : BOOLEAN, target : Int, fetch : Nat, rearm : BOOLEAN]
    BY <1>0, <2>4, RecipesAssumption DEF ServerOK
  <2>6. watch' = [watch EXCEPT ![c] = w]
    <3>1. watch[c] \in [set : BOOLEAN, target : Int, fetch : Nat, rearm : BOOLEAN]
      BY <1>0 DEF ServerOK
    <3>2. [watch[c] EXCEPT !.fetch = f] = w
      BY <3>1
    <3> QED
      BY <2>2, <2>4, <3>2
  <2>7. w.fetch = f /\ w.set = watch[c].set
    OBVIOUS
  <2>8. UNCHANGED <<nodes, nextSeq, robbed>>
    BY <1>1 DEF Answer
  <2> HIDE DEF w
  <2> QED
    BY <1>0, <2>3, <2>4, <2>5, <2>6, <2>7, <2>8 DEF ServerOK, Room, Numbered
<1>6. ASSUME Rearm(c) PROVE ServerOK'
  BY ZenonT(40), <1>0, <1>6, RecipesAssumption
  DEF Rearm, link, ServerOK, Room, Numbered, Types
<1>2. ASSUME Expire(c) PROVE ServerOK'
  <2>1. ASSUME NEW d \in Clients
        PROVE  /\ watch'[d] \in [set : BOOLEAN, target : Int, fetch : Nat, rearm : BOOLEAN]
               /\ watch'[d].fetch \in 0..(MaxLists + 1)
               /\ watch'[d].set => watch'[d].fetch <= MaxLists
    <3>1. CASE d = c
      BY <1>2, <3>1, RecipesAssumption DEF Expire, NoWatch, Watcher
    <3>2. CASE d # c /\ Fires(watch[d], nodes, nodes')
      <4>1. watch[d].set /\ watch[d].fetch <= MaxLists /\ watch[d].fetch \in 0..(MaxLists + 1)
        BY <1>0, <3>2 DEF Fires, Room, ServerOK
      <4>2. watch'[d] = Fired(watch[d])
        BY <1>2, <3>2 DEF Expire
      <4> QED
        BY <1>0, <4>1, <4>2, FiredType, RecipesAssumption DEF ServerOK
    <3>3. CASE d # c /\ ~Fires(watch[d], nodes, nodes')
      <4>1. watch'[d] = watch[d]
        BY <1>2, <3>3 DEF Expire
      <4> QED
        BY <1>0, <4>1 DEF ServerOK, Room
    <3> QED
      BY <3>1, <3>2, <3>3
  <2>2. watch' = [d \in Clients |-> watch'[d]]
    BY <1>2 DEF Expire
  <2>3. robbed' \in [Clients -> BOOLEAN]
    <3>1. (robbed[c] \/ \E n \in nodes : n.owner = c) \in BOOLEAN
      BY Zenon
    <3> QED
      BY <1>0, <1>2, <3>1, Zenon DEF Expire, ServerOK
  <2>4. nodes' \subseteq nodes /\ nextSeq' = nextSeq
    BY <1>2 DEF Expire
  <2>5. /\ watch' \in [Clients -> [set : BOOLEAN, target : Int, fetch : Nat, rearm : BOOLEAN]]
        /\ \A d \in Clients : watch'[d].fetch \in 0..(MaxLists + 1)
        /\ Room'
    BY <2>1, <2>2 DEF Room
  <2> QED
    BY <1>0, <2>3, <2>4, <2>5 DEF ServerOK, Numbered
<1>3. ASSUME ClientNext(c) PROVE ServerOK'
  <2>1. ASSUME rwlock_list(c) PROVE ServerOK'
    <3>1. CASE watch' = watch
      BY <1>0, <2>1, <3>1 DEF rwlock_list, ServerOK, Room, Numbered
    <3>2. CASE up[c] /\ Ahead(c) # {}
      <4> DEFINE S == {n.seq : n \in Ahead(c)}
      <4>1. Ahead(c) \subseteq nodes
        BY DEF Ahead, rlock_ahead, wlock_ahead
      <4>2. S # {} /\ S \subseteq 0..MaxNodes
        BY <1>0, <3>2, <4>1 DEF ServerOK
      <4>3. Max(S) \in Int
        <5>1. Max(S) \in S
          BY <4>2, MaxIn, RecipesAssumption
        <5> QED
          BY <4>2, <5>1
      <4>4. watch' = [watch EXCEPT ![c] = Watcher(FALSE, Max(S))]
        BY <2>1, <3>2 DEF rwlock_list
      <4> HIDE DEF S
      <4> QED
        BY <1>0, <2>1, <4>3, <4>4, RecipesAssumption
        DEF rwlock_list, ServerOK, Room, Numbered, Watcher
    <3> QED
      BY <2>1, <3>1, <3>2 DEF rwlock_list
  <2>2. ASSUME rwlock_watch(c) PROVE ServerOK'
    <3>1. watch[c].target \in Int
      BY <1>0 DEF ServerOK
    <3> QED
      BY <2>2, <3>1, ServerKept DEF rwlock_watch, server
  <2>3. ASSUME \/ lock_createChild(c) \/ shared_createChild(c) \/ barrier_list(c) \/ Wait(c)
               \/ \E t \in Threads : retry(c, t) \/ retry_assign(c, t)
        PROVE  ServerOK'
    BY <2>3, ServerKept DEF lock_createChild, shared_createChild, barrier_list, Wait, retry,
                            retry_assign, server
  <2> QED
    BY <1>3, <2>1, <2>2, <2>3 DEF ClientNext
<1>4. ASSUME UserNext(c) PROVE ServerOK'
  <2>1. ASSUME NEW r, NEW target \in Int, InitWith(c, r, target) PROVE ServerOK'
    BY <2>1, ServerKept DEF InitWith, server
  <2>2. ASSUME NEW r, NEW gone, Destroy(c, r, gone) PROVE ServerOK'
    BY <2>2, ServerKept DEF Destroy
  <2>3. ASSUME lock(c) \/ rwlock(c) \/ barrier_wait(c) \/ start(c) \/ countdown(c)
               \/ DistriLock_unlock(c) \/ DistriSharedLock_unlock(c)
        PROVE  ServerOK'
    BY <2>3, ServerKept DEF lock, rwlock, barrier_wait, Call, start, countdown, Children,
                            DistriLock_unlock, DistriSharedLock_unlock, server
  <2> QED
    BY <1>4, <2>1, <2>2, <2>3
    DEF UserNext, DistriLock_init, DistriBarrier_init, DistriSharedLock_init,
        MasterElection_init, DistriLock_dtor, MasterElection_dtor, DistriSharedLock_dtor,
        DistriBarrier_dtor, Children
<1>5. ASSUME Callback(c) \/ LoseConnection(c) \/ Reconnect(c) PROVE ServerOK'
  BY <1>5, ServerKept DEF Callback, LoseConnection, Reconnect, server
<1> QED
  BY <1>1, <1>2, <1>3, <1>4, <1>5, <1>6
-----------------------------------------------------------------------------
Pcs == {"new", "idle", "create", "list", "watch", "wait", "blocked", "held", "passed",
        "started", "gone"}

(* What Types says of the clients. *)
ObjectOK ==
    /\ recipe \in Recipes
    /\ up \in [Clients -> BOOLEAN]
    /\ cbs \in [Clients -> Seq(SUBSET Int)] /\ \A c \in Clients : Len(cbs[c]) <= MaxLists
    /\ pc \in [Clients -> Pcs] /\ mine \in [Clients -> 0..MaxNodes]
    /\ mode \in [Clients -> {"R", "W"}]
    /\ elect \in [Clients -> [Threads -> Electing]]
    /\ isMaster \in [Clients -> BOOLEAN]
    /\ counted \in Nat

\* A write of what retry() is at on one thread of one client.
LEMMA ElectType ==
  ASSUME elect \in [Clients -> [Threads -> Electing]],
         NEW c \in Clients, NEW t \in Threads, NEW v \in Electing
  PROVE  [elect EXCEPT ![c][t] = v] \in [Clients -> [Threads -> Electing]]
  OBVIOUS

\* Every step leaves the fields of the clients and their program counters within
\* their types.
LEMMA ObjectStep ==
  ASSUME Types, NEW c \in Clients,
         \/ ClientNext(c) \/ UserNext(c) \/ Answer(c) \/ Rearm(c) \/ Callback(c)
         \/ LoseConnection(c) \/ Expire(c) \/ Reconnect(c)
  PROVE  ObjectOK'
<1>0. ObjectOK
  BY RecipesAssumption DEF ObjectOK, Types, TypeOK, Pcs
<1> USE <1>0, RecipesAssumption DEF ObjectOK
<1>1. ASSUME Answer(c) PROVE ObjectOK'
  <2> DEFINE S == {n.seq : n \in nodes}
  <2>1. S \in SUBSET Int
    BY DEF Types, TypeOK
  <2>2. cbs' = [cbs EXCEPT ![c] = Append(cbs[c], S)] /\ Len(cbs[c]) < MaxLists
    BY <1>1 DEF Answer
  <2> HIDE DEF S
  <2>3. /\ Append(cbs[c], S) \in Seq(SUBSET Int)
        /\ Len(Append(cbs[c], S)) = Len(cbs[c]) + 1
    BY <2>1
  <2>4. cbs' \in [Clients -> Seq(SUBSET Int)] /\ \A d \in Clients : Len(cbs'[d]) <= MaxLists
    BY <2>2, <2>3
  <2> QED
    BY <1>1, <2>4 DEF Answer, link, object
<1>2. ASSUME Rearm(c) \/ LoseConnection(c) \/ Expire(c) \/ Reconnect(c) PROVE ObjectOK'
  BY <1>2 DEF Rearm, LoseConnection, Expire, Reconnect, link, object
<1>3. ASSUME Callback(c) PROVE ObjectOK'
  <2>1. cbs' = [cbs EXCEPT ![c] = Tail(cbs[c])] /\ cbs[c] # <<>>
    BY <1>3 DEF Callback
  <2>2. Tail(cbs[c]) \in Seq(SUBSET Int) /\ Len(Tail(cbs[c])) <= Len(cbs[c])
    BY <2>1
  <2>3. cbs' \in [Clients -> Seq(SUBSET Int)] /\ \A d \in Clients : Len(cbs'[d]) <= MaxLists
    BY <2>1, <2>2
  <2>4. elect' \in [Clients -> [Threads -> Electing]]
    <3>1. elect' = elect \/ elect' = [elect EXCEPT ![c]["callback"] = "create"]
      BY <1>3 DEF Callback, MasterElection_cb
    <3>2. "callback" \in Threads /\ "create" \in Electing
      BY DEF Threads, Electing
    <3>3. elect \in [Clients -> [Threads -> Electing]]
      OBVIOUS
    <3>4. [elect EXCEPT ![c]["callback"] = "create"] \in [Clients -> [Threads -> Electing]]
      BY <3>2, <3>3, ElectType
    <3> QED
      BY <3>1, <3>3, <3>4
  <2>5. pc' \in [Clients -> Pcs]
    <3>1. \/ pc' = pc
          \/ pc' = [pc EXCEPT ![c] = "create"]
          \/ pc' = [pc EXCEPT ![c] = "list"]
      BY <1>3 DEF Callback, DistriLock_cb, regWatcherRLock_cb, DistriBarrier_cb, Notify
    <3>2. pc \in [Clients -> Pcs] /\ "create" \in Pcs /\ "list" \in Pcs
      BY DEF Pcs
    <3> QED
      BY <3>1, <3>2
  <2> QED
    BY <1>3, <2>3, <2>4, <2>5 DEF Callback, link
<1>4. ASSUME ClientNext(c) PROVE ObjectOK'
  <2>1. ASSUME lock_createChild(c) \/ rwlock_list(c) \/ rwlock_watch(c) \/ barrier_list(c)
               \/ Wait(c)
        PROVE  ObjectOK'
    <3>1. /\ recipe' = recipe
          /\ UNCHANGED <<link, cbs, mine, mode, elect, isMaster, counted>>
      BY <2>1 DEF lock_createChild, rwlock_list, rwlock_watch, barrier_list, Wait, At
    <3>2. pc' \in [Clients -> Pcs]
      BY <2>1 DEF lock_createChild, rwlock_list, rwlock_watch, barrier_list, Wait, Goto, Pcs
    <3> QED
      BY <3>1, <3>2 DEF link
  <2>2. ASSUME shared_createChild(c) PROVE ObjectOK'
    <3>1. nextSeq \in 1..(MaxNodes + 1)
      BY DEF Types, TypeOK
    <3>2. nextSeq <= MaxNodes \/ mine' = mine
      BY <2>2 DEF shared_createChild, CreateSeq
    <3>3. mine' \in [Clients -> 0..MaxNodes]
      BY <2>2, <3>1, <3>2 DEF shared_createChild
    <3>4. pc' \in [Clients -> Pcs]
      BY <2>2 DEF shared_createChild, Goto, Pcs
    <3> QED
      BY <2>2, <3>3, <3>4 DEF shared_createChild, At, link
  <2>3. ASSUME NEW t \in Threads, retry(c, t) \/ retry_assign(c, t) PROVE ObjectOK'
    <3>1. elect' \in [Clients -> [Threads -> Electing]]
      <4>1. PICK v \in Electing : elect' = [elect EXCEPT ![c][t] = v]
        BY <2>3 DEF retry, retry_assign, Electing
      <4> QED
        BY <4>1, ElectType
    <3>2. isMaster' \in [Clients -> BOOLEAN]
      <4>1. Won(elect[c][t]) \in BOOLEAN
        BY DEF Won
      <4> QED
        BY <2>3, <4>1, Zenon DEF retry, retry_assign
    <3> QED
      BY <2>3, <3>1, <3>2 DEF retry, retry_assign, link
  <2> QED
    BY <1>4, <2>1, <2>2, <2>3 DEF ClientNext
<1>5. ASSUME UserNext(c) PROVE ObjectOK'
  <2>1. ASSUME NEW r, NEW target, InitWith(c, r, target) PROVE ObjectOK'
    BY <2>1 DEF InitWith, At, Goto, Pcs, link
  <2>2. ASSUME NEW r, NEW gone, Destroy(c, r, gone) PROVE ObjectOK'
    BY <2>2 DEF Destroy, Goto, Pcs, link
  <2>3. ASSUME lock(c) \/ rwlock(c) \/ barrier_wait(c) PROVE ObjectOK'
    BY <2>3 DEF lock, rwlock, barrier_wait, Call, At, Goto, Pcs, link
  <2>4. ASSUME start(c) PROVE ObjectOK'
    BY <2>4 DEF start, At, Goto, Pcs, link, Threads, Electing
  <2>5. ASSUME countdown(c) PROVE ObjectOK'
    BY <2>5 DEF countdown, link
  <2>6. ASSUME DistriLock_unlock(c) \/ DistriSharedLock_unlock(c) PROVE ObjectOK'
    BY <2>6 DEF DistriLock_unlock, DistriSharedLock_unlock, At, Goto, Pcs, link
  <2> QED
    BY <1>5, <2>1, <2>2, <2>3, <2>4, <2>5, <2>6
    DEF UserNext, DistriLock_init, DistriBarrier_init, DistriSharedLock_init,
        MasterElection_init, DistriLock_dtor, MasterElection_dtor, DistriSharedLock_dtor,
        DistriBarrier_dtor
<1> QED
  BY <1>1, <1>2, <1>3, <1>4, <1>5

Books == Types /\ Room /\ Numbered

\* The types hold at the start and every step keeps them, with the room for one more
\* list and the numbers to come.
LEMMA BooksStep == Books /\ [Next]_vars => Books'
<1> SUFFICES ASSUME Books, [Next]_vars PROVE Books'
  OBVIOUS
<1>1. CASE UNCHANGED vars
  BY <1>1 DEF vars, server, link, object, Books, Types, TypeOK, Room, Numbered
<1>2. ASSUME NEW c \in Clients,
             \/ ClientNext(c) \/ UserNext(c) \/ Answer(c) \/ Rearm(c) \/ Callback(c)
             \/ LoseConnection(c) \/ Expire(c) \/ Reconnect(c)
      PROVE  Books'
  <2>1. ServerOK'
    BY <1>2, ServerStep DEF Books
  <2>2. ObjectOK'
    BY <1>2, ObjectStep DEF Books
  <2> QED
    BY <2>1, <2>2 DEF Books, ServerOK, ObjectOK, Types, TypeOK, Pcs
<1> QED
  BY <1>1, <1>2 DEF Next

LEMMA BooksInit == Init => Books
  BY RecipesAssumption
  DEF Init, Books, Types, TypeOK, Room, Numbered, NoWatch, Watcher, Threads, Electing

\* The variables of ZkRecipes have their types: the children have different numbers,
\* and no list is waiting beyond the bound.
THEOREM TypeCorrect == Spec => []TypeOK
<1>1. Books => TypeOK
  BY DEF Books, Types
<1> QED
  BY <1>1, BooksInit, BooksStep, PTL DEF Spec
-----------------------------------------------------------------------------
\* Only a MasterElection is ever at an election.
LEMMA NoElectionStep ==
  ASSUME Books, NoElection, NEW c \in Clients,
         \/ ClientNext(c) \/ UserNext(c) \/ Answer(c) \/ Rearm(c) \/ Callback(c)
         \/ LoseConnection(c) \/ Expire(c) \/ Reconnect(c)
  PROVE  recipe' = recipe /\ NoElection'
<1>0. ObjectOK
  BY RecipesAssumption DEF Books, ObjectOK, Types, TypeOK, Pcs
<1> USE DEF NoElection
<1>1. ASSUME recipe' = recipe, UNCHANGED <<elect, isMaster>> PROVE NoElection'
  BY <1>1
<1>2. ASSUME ClientNext(c) PROVE recipe' = recipe /\ NoElection'
  <2>1. ASSUME NEW t \in Threads, retry(c, t) \/ retry_assign(c, t)
        PROVE  recipe' = recipe /\ recipe = "master"
    BY <2>1 DEF retry, retry_assign
  <2> QED
    BY <1>1, <1>2, <2>1
    DEF ClientNext, lock_createChild, shared_createChild, rwlock_list, rwlock_watch,
        barrier_list, Wait, At
<1>3. ASSUME UserNext(c) PROVE recipe' = recipe /\ NoElection'
  <2>1. ASSUME NEW r, NEW target, InitWith(c, r, target)
        PROVE  recipe' = recipe /\ UNCHANGED <<elect, isMaster>>
    BY <2>1 DEF InitWith, At
  <2>2. ASSUME NEW r, NEW gone, Destroy(c, r, gone) PROVE recipe' = recipe /\ NoElection'
    BY <1>0, <2>2 DEF Destroy, ObjectOK
  <2>3. ASSUME start(c) PROVE recipe' = recipe /\ NoElection'
    BY <2>3 DEF start, At
  <2> QED
    BY <1>1, <1>3, <2>1, <2>2, <2>3
    DEF UserNext, DistriLock_init, DistriBarrier_init, DistriSharedLock_init,
        MasterElection_init, DistriLock_dtor, MasterElection_dtor, DistriSharedLock_dtor,
        DistriBarrier_dtor, lock, rwlock, barrier_wait, Call, At, countdown,
        DistriLock_unlock, DistriSharedLock_unlock
<1>4. ASSUME Callback(c) PROVE recipe' = recipe /\ NoElection'
  BY <1>4 DEF Callback
<1>5. ASSUME Answer(c) \/ Rearm(c) \/ LoseConnection(c) \/ Expire(c) \/ Reconnect(c)
      PROVE  recipe' = recipe /\ NoElection'
  BY <1>1, <1>5 DEF Answer, Rearm, LoseConnection, Expire, Reconnect, object
<1> QED
  BY <1>2, <1>3, <1>4, <1>5

\* Whoever has been told that it is the one owns a child, until it is robbed: it was
\* told by its own creation of one, and gives up what it was told when it deletes it.
LEMMA ToldOwnsStep ==
  ASSUME Books, NoElection, ToldOwns, NEW c \in Clients,
         \/ ClientNext(c) \/ UserNext(c) \/ Answer(c) \/ Rearm(c) \/ Callback(c)
         \/ LoseConnection(c) \/ Expire(c) \/ Reconnect(c)
  PROVE  ToldOwns'
<1>0. ObjectOK
  BY RecipesAssumption DEF Books, ObjectOK, Types, TypeOK, Pcs
<1>a. recipe' = recipe
  BY NoElectionStep
\* A step that tells nobody and does not touch the children.
<1>1. ASSUME UNCHANGED <<nodes, robbed>>, \A d \in Clients : Told(d)' => Told(d)
      PROVE  ToldOwns'
  BY <1>1 DEF ToldOwns, Owns
\* A step that changes the children, after which c either owns one or was told nothing.
<1>2. ASSUME NEW new, ChangeTo(new, c), \A d \in Clients \ {c} : Told(d)' => Told(d),
             ~Told(c)' \/ \E n \in new : n.owner = c
      PROVE  ToldOwns'
  <2>1. /\ nodes' = new
        /\ \A d \in Clients : ~robbed'[d] =>
              /\ robbed[d] => d = c /\ \E n \in new : n.owner = d
              /\ d # c => \A n \in nodes : n.owner = d => n \in new
    BY <1>2, ChangeRobs DEF Books
  <2> SUFFICES ASSUME NEW d \in Clients, Told(d)', ~robbed'[d] PROVE \E n \in new : n.owner = d
    BY <2>1 DEF ToldOwns, Owns
  <2>2. CASE d = c
    BY <1>2, <2>2
  <2>3. CASE d # c
    <3>1. Told(d) /\ ~robbed[d]
      BY <1>2, <2>1, <2>3
    <3>2. PICK n \in nodes : n.owner = d
      BY <3>1 DEF ToldOwns, Owns
    <3> QED
      BY <2>1, <2>3, <3>2
  <2> QED
    BY <2>2, <2>3
<1>3. ASSUME ClientNext(c) PROVE ToldOwns'
  <2>1. ASSUME lock_createChild(c) PROVE ToldOwns'
    <3>1. \A d \in Clients \ {c} : Told(d)' => Told(d)
      BY <1>0, <2>1, <1>a DEF lock_createChild, Goto, Told, ObjectOK
    <3>2. CASE up[c] /\ ~Taken(c)
      <4>1. CreateOne(c)
        BY <2>1, <3>2 DEF lock_createChild
      <4>2. Node(c, 0).owner = c
        BY DEF Node
      <4> QED
        BY <1>2, <3>1, <4>1, <4>2 DEF CreateOne
    <3>3. CASE ~(up[c] /\ ~Taken(c))
      <4>1. UNCHANGED <<nodes, robbed>> /\ (Told(c)' => Told(c))
        BY <1>0, <2>1, <3>3, <1>a DEF lock_createChild, Goto, Told, ObjectOK, server
      <4> QED
        BY <1>1, <3>1, <4>1
    <3> QED
      BY <3>2, <3>3
  <2>2. ASSUME shared_createChild(c) PROVE ToldOwns'
    <3>1. \A d \in Clients : ~Told(d)'
      BY <2>2, <1>a DEF shared_createChild, Told, NoElection
    <3>2. CASE UNCHANGED server
      BY <1>1, <3>1, <3>2 DEF server
    <3>3. CASE CreateSeq(c)
      BY <1>2, <3>1, <3>3 DEF CreateSeq
    <3> QED
      BY <2>2, <3>2, <3>3 DEF shared_createChild
  <2>3. ASSUME rwlock_list(c) \/ rwlock_watch(c) \/ barrier_list(c) \/ Wait(c) PROVE ToldOwns'
    <3>1. \A d \in Clients : Told(d)' => Told(d)
      BY <1>0, <2>3, <1>a
      DEF rwlock_list, rwlock_watch, barrier_list, Wait, At, Goto, Told, ObjectOK
    <3> QED
      BY <1>1, <2>3, <3>1 DEF rwlock_list, rwlock_watch, barrier_list, Wait, server
  <2>4. ASSUME NEW t \in Threads, retry(c, t) PROVE ToldOwns'
    <3>1. \A d \in Clients \ {c} : Told(d)' => Told(d)
      BY <1>0, <2>4, <1>a DEF retry, Told, ObjectOK
    <3>2. CASE up[c] /\ ~Taken(c)
      <4>1. CreateOne(c)
        BY <2>4, <3>2 DEF retry
      <4>2. Node(c, 0).owner = c
        BY DEF Node
      <4> QED
        BY <1>2, <3>1, <4>1, <4>2 DEF CreateOne
    <3>3. CASE ~(up[c] /\ ~Taken(c))
      <4>1. PICK v \in {"none", "lost"} : elect' = [elect EXCEPT ![c][t] = v]
        BY <2>4, <3>3 DEF retry
      <4>2. \A u \in Threads : elect'[c][u] = "won" => elect[c][u] = "won"
        BY <1>0, <4>1 DEF ObjectOK
      <4>3. UNCHANGED <<nodes, robbed, pc, isMaster>>
        BY <2>4, <3>3 DEF retry, server
      <4>4. Told(c)' => Told(c)
        BY <4>2, <4>3, <1>a DEF Told
      <4> QED
        BY <1>1, <3>1, <4>3, <4>4
    <3> QED
      BY <3>2, <3>3
  <2>5. ASSUME NEW t \in Threads, retry_assign(c, t) PROVE ToldOwns'
    <3>1. /\ elect[c][t] \in {"won", "lost"} /\ elect' = [elect EXCEPT ![c][t] = "none"]
          /\ isMaster' = [isMaster EXCEPT ![c] = Won(elect[c][t])]
          /\ UNCHANGED <<nodes, robbed, pc>>
      BY <2>5, Zenon DEF retry_assign, server
    <3>2. \A d \in Clients \ {c} : Told(d)' => Told(d)
      BY <1>0, <3>1, <1>a DEF Told, ObjectOK
    <3>3. \A u \in Threads : elect'[c][u] = "won" => elect[c][u] = "won"
      BY <1>0, <3>1 DEF ObjectOK
    <3>4. isMaster'[c] => elect[c][t] = "won"
      <4>1. isMaster'[c] = Won(elect[c][t])
        BY <1>0, <3>1, Zenon DEF ObjectOK
      <4> QED
        BY <4>1 DEF Won
    <3>5. Told(c)' => Told(c)
      BY <3>1, <3>3, <3>4, <1>a DEF Told
    <3> QED
      BY <1>1, <3>1, <3>2, <3>5
  <2> QED
    BY <1>3, <2>1, <2>2, <2>3, <2>4, <2>5 DEF ClientNext
<1>4. ASSUME UserNext(c) PROVE ToldOwns'
  <2>1. ASSUME NEW r, NEW target, InitWith(c, r, target) PROVE ToldOwns'
    <3>1. \A d \in Clients : Told(d)' => Told(d)
      BY <1>0, <2>1, <1>a DEF InitWith, Goto, Told, ObjectOK
    <3> QED
      BY <1>1, <2>1, <3>1 DEF InitWith
  <2>2. ASSUME NEW r, NEW gone, Destroy(c, r, gone) PROVE ToldOwns'
    <3>1. \A d \in Clients \ {c} : Told(d)' => Told(d)
      BY <1>0, <2>2, <1>a DEF Destroy, Goto, Told, ObjectOK
    <3>2. ~Told(c)'
      BY <1>0, <2>2, <1>a DEF Destroy, Goto, Told, ObjectOK
    <3>3. \E new : ChangeTo(new, c)
      BY <2>2 DEF Destroy, Delete
    <3> QED
      BY <1>2, <3>1, <3>2, <3>3
  <2>3. ASSUME lock(c) \/ rwlock(c) \/ barrier_wait(c) PROVE ToldOwns'
    <3>1. \A d \in Clients : Told(d)' => Told(d)
      BY <1>0, <2>3, <1>a DEF lock, rwlock, barrier_wait, Call, At, Goto, Told, ObjectOK
    <3> QED
      BY <1>1, <2>3, <3>1 DEF lock, rwlock, barrier_wait, Call, server
  <2>4. ASSUME start(c) PROVE ToldOwns'
    <3>1. \A d \in Clients : Told(d)' => Told(d)
      BY <1>0, <2>4, <1>a DEF start, At, Goto, Told, ObjectOK
    <3> QED
      BY <1>1, <2>4, <3>1 DEF start
  <2>5. ASSUME countdown(c) PROVE ToldOwns'
    <3>1. \A d \in Clients : ~Told(d)'
      BY <2>5, <1>a DEF countdown, Told, NoElection
    <3> QED
      BY <1>2, <2>5, <3>1 DEF countdown, CreateSeq
  <2>6. ASSUME DistriLock_unlock(c) PROVE ToldOwns'
    <3>1. \A d \in Clients \ {c} : Told(d)' => Told(d)
      BY <1>0, <2>6, <1>a DEF DistriLock_unlock, Goto, Told, ObjectOK
    <3>2. ~Told(c)'
      BY <1>0, <2>6, <1>a DEF DistriLock_unlock, Goto, Told, ObjectOK, NoElection
    <3> QED
      BY <1>2, <2>6, <3>1, <3>2 DEF DistriLock_unlock, Delete
  <2>7. ASSUME DistriSharedLock_unlock(c) PROVE ToldOwns'
    <3>1. \A d \in Clients : ~Told(d)'
      BY <2>7, <1>a DEF DistriSharedLock_unlock, Told, NoElection
    <3> QED
      BY <1>1, <1>2, <2>7, <3>1 DEF DistriSharedLock_unlock, Delete, server
  <2> QED
    BY <1>4, <2>1, <2>2, <2>3, <2>4, <2>5, <2>6, <2>7
    DEF UserNext, DistriLock_init, DistriBarrier_init, DistriSharedLock_init,
        MasterElection_init, DistriLock_dtor, MasterElection_dtor, DistriSharedLock_dtor,
        DistriBarrier_dtor
<1>5. ASSUME Expire(c) PROVE ToldOwns'
  <2>1. UNCHANGED object /\ nodes' = {n \in nodes : n.owner # c}
    BY <1>5 DEF Expire
  <2>2. DOMAIN robbed = Clients
    BY DEF Books, Types
  <2>3. /\ robbed'[c] <=> robbed[c] \/ \E n \in nodes : n.owner = c
        /\ \A d \in Clients \ {c} : robbed'[d] = robbed[d]
    BY <1>5, <2>2, Zenon DEF Expire
  <2>4. \A d \in Clients : Told(d)' => Told(d)
    BY <2>1, <1>a DEF Told, object
  <2> QED
    BY <2>1, <2>3, <2>4 DEF ToldOwns, Owns
<1>6. ASSUME Callback(c) PROVE ToldOwns'
  <2>1. \A d \in Clients : pc'[d] = "held" => pc[d] = "held"
    BY <1>0, <1>6
    DEF Callback, DistriLock_cb, regWatcherRLock_cb, DistriBarrier_cb, Notify, ObjectOK
  <2>2. elect' = elect \/ elect' = [elect EXCEPT ![c]["callback"] = "create"]
    BY <1>6 DEF Callback, MasterElection_cb
  <2>3. \A d \in Clients, t \in Threads : elect'[d][t] = "won" => elect[d][t] = "won"
    <3>1. elect \in [Clients -> [Threads -> Electing]]
      BY <1>0 DEF ObjectOK
    <3>2. CASE elect' = elect
      BY <3>2
    <3>3. CASE elect' = [elect EXCEPT ![c]["callback"] = "create"]
      BY <3>1, <3>3
    <3> QED
      BY <2>2, <3>2, <3>3
  <2>4. UNCHANGED <<isMaster, nodes, robbed>>
    BY <1>6 DEF Callback, server
  <2>5. \A d \in Clients : Told(d)' => Told(d)
    BY <2>1, <2>3, <2>4, <1>a DEF Told
  <2> QED
    BY <1>1, <2>4, <2>5
<1>7. ASSUME Answer(c) \/ Rearm(c) \/ LoseConnection(c) \/ Reconnect(c) PROVE ToldOwns'
  <2>1. UNCHANGED <<nodes, robbed, object>>
    BY <1>7 DEF Answer, Rearm, LoseConnection, Reconnect, server
  <2> QED
    BY <1>1, <2>1, <1>a DEF Told, object
<1> QED
  BY <1>3, <1>4, <1>5, <1>6, <1>7
-----------------------------------------------------------------------------
\* Whoever competes for the shared lock keeps its node, and nobody takes the lock while
\* somebody before it competes, unless both read.
LEMMA SharedStep ==
  ASSUME Books, NoElection, SharedInv, NEW c \in Clients,
         \/ ClientNext(c) \/ UserNext(c) \/ Answer(c) \/ Rearm(c) \/ Callback(c)
         \/ LoseConnection(c) \/ Expire(c) \/ Reconnect(c)
  PROVE  SharedInv'
<1>0. /\ pc \in [Clients -> Pcs] /\ mine \in [Clients -> 0..MaxNodes]
      /\ mode \in [Clients -> {"R", "W"}]
      /\ nextSeq \in Int /\ \A n \in nodes : n.seq \in Int /\ n.seq < nextSeq
      /\ \A d \in Clients : mine[d] \in Int
  BY RecipesAssumption DEF Books, Types, TypeOK, Pcs, Numbered
<1>a. recipe' = recipe
  BY NoElectionStep
<1> SUFFICES ASSUME recipe = "shared", Queued, InTurn PROVE Queued' /\ InTurn'
  BY <1>a DEF SharedInv
<1>b. \A d \in Clients : \A s :
        Node(d, s).seq = s /\ Node(d, s).owner = d /\ Node(d, s).mode = mode[d]
  BY DEF Node
\* A step after which nobody competes or holds who did not before.
<1>1. ASSUME \A d \in Clients : Competes(d)' =>
               /\ Competes(d) /\ mine'[d] = mine[d] /\ mode'[d] = mode[d]
               /\ Node(d, mine[d]) \in nodes',
             \A d \in Clients : Holds(d)' => Holds(d) /\ Competes(d)'
      PROVE  Queued' /\ InTurn'
  <2>1. Queued'
    BY <1>1 DEF Queued, Node
  <2>2. InTurn'
    BY <1>1 DEF InTurn
  <2> QED
    BY <2>1, <2>2
<1>2. \A d \in Clients : (Competes(d) => Node(d, mine[d]) \in nodes) /\ (Holds(d) => Competes(d))
  BY DEF Queued, Holds, Competes
<1>4. ASSUME UNCHANGED <<nodes, robbed, mine>>,
             \A d \in Clients : Competes(d)' => Competes(d) /\ mode'[d] = mode[d],
             \A d \in Clients : pc'[d] = "held" => pc[d] = "held"
      PROVE  Queued' /\ InTurn'
  BY <1>1, <1>2, <1>4 DEF Holds, Competes
\* A step of c that deletes children, and ends its own call.
<1>5. ASSUME NEW new, ChangeTo(new, c), pc'[c] \in {"idle", "gone"},
             \A d \in Clients \ {c} : pc'[d] = pc[d], UNCHANGED <<mine, mode>>
      PROVE  Queued' /\ InTurn'
  <2>1. /\ nodes' = new
        /\ \A d \in Clients : ~robbed'[d] =>
              /\ robbed[d] => d = c
              /\ d # c => \A n \in nodes : n.owner = d => n \in new
    BY <1>5, ChangeRobs DEF Books
  <2>2. \A d \in Clients : Competes(d)' => d # c /\ Competes(d) /\ Node(d, mine[d]) \in nodes'
    BY <1>2, <1>5, <1>b, <2>1 DEF Competes
  <2>3. \A d \in Clients : Holds(d)' => Holds(d) /\ Competes(d)'
    BY <1>5, <2>1 DEF Holds, Competes
  <2> QED
    BY <1>1, <1>5, <2>2, <2>3
<1>6. ASSUME shared_createChild(c) PROVE Queued' /\ InTurn'
  <2>1. CASE UNCHANGED server
    <3>1. ~up[c]
      BY <1>0, <1>6, <2>1 DEF shared_createChild, CreateSeq, server
    <3>2. pc' = [pc EXCEPT ![c] = "idle"] /\ UNCHANGED <<nodes, robbed, mine, mode>>
      BY <1>6, <3>1 DEF shared_createChild, Goto, server
    <3>3. \A d \in Clients : /\ Competes(d)' => Competes(d)
                             /\ pc'[d] = "held" => pc[d] = "held"
      BY <1>0, <3>2 DEF Competes
    <3> QED
      BY <1>4, <3>2, <3>3
  <2>2. CASE CreateSeq(c)
    <3>1. /\ pc' = [pc EXCEPT ![c] = "list"] /\ mine' = [mine EXCEPT ![c] = nextSeq]
          /\ mode' = mode
      BY <1>0, <1>6, <2>2 DEF shared_createChild, Goto, CreateSeq, server
    <3>2. /\ nodes' = nodes \cup {Node(c, nextSeq)}
          /\ \A d \in Clients : ~robbed'[d] => (robbed[d] => d = c)
      BY <2>2, ChangeRobs DEF CreateSeq, Books
    <3>3. \A d \in Clients \ {c} : Competes(d)' => Competes(d) /\ mine'[d] = mine[d]
      BY <1>0, <3>1, <3>2 DEF Competes
    <3>4. \A d \in Clients : Holds(d)' => d # c /\ Holds(d) /\ mine'[d] = mine[d]
      BY <1>0, <3>1, <3>2 DEF Holds
    <3>5. mine'[c] = nextSeq
      BY <1>0, <3>1
    <3>6. Queued'
      BY <1>2, <3>1, <3>2, <3>3, <3>5 DEF Queued, Node
    <3>7. \A d \in Clients : Holds(d) => mine[d] < nextSeq
      BY <1>0, <1>2, <1>b
    <3>8. InTurn'
      <4> SUFFICES ASSUME NEW d \in Clients, NEW e \in Clients,
                          Competes(d)', Holds(e)', mine'[d] < mine'[e]
                   PROVE  mode'[d] = "R" /\ mode'[e] = "R"
        BY DEF InTurn
      <4>1. d # c
        BY <1>0, <3>4, <3>5, <3>7
      <4> QED
        BY <3>1, <3>3, <3>4, <4>1 DEF InTurn
    <3> QED
      BY <3>6, <3>8
  <2> QED
    BY <1>6, <2>1, <2>2 DEF shared_createChild
<1>7. ASSUME rwlock_list(c) PROVE Queued' /\ InTurn'
  <2>1. /\ UNCHANGED <<nodes, robbed, mine, mode>> /\ pc[c] = "list"
        /\ \A d \in Clients \ {c} : pc'[d] = pc[d]
        /\ pc'[c] = "held" => Ahead(c) = {}
    BY <1>0, <1>7 DEF rwlock_list, At, Goto
  <2>2. \A d \in Clients : Competes(d)' => Competes(d)
    BY <2>1 DEF Competes
  <2>3. Queued'
    BY <1>2, <2>1, <2>2 DEF Queued, Node
  <2>4. InTurn'
    <3> SUFFICES ASSUME NEW d \in Clients, NEW e \in Clients,
                        Competes(d)', Holds(e)', mine[d] < mine[e]
                 PROVE  mode[d] = "R" /\ mode[e] = "R"
      BY <2>1 DEF InTurn
    <3>1. Competes(d) /\ Node(d, mine[d]) \in nodes
      BY <1>2, <2>2
    <3>2. CASE e # c
      BY <2>1, <3>1, <3>2 DEF InTurn, Holds
    <3>3. CASE e = c
      <4>1. Ahead(c) = {}
        BY <2>1, <3>3 DEF Holds
      <4>2. CASE mode[c] = "R"
        BY <1>0, <1>b, <3>1, <3>3, <4>1, <4>2 DEF Ahead, rlock_ahead
      <4>3. CASE mode[c] # "R"
        BY <1>b, <3>1, <3>3, <4>1, <4>3 DEF Ahead, wlock_ahead
      <4> QED
        BY <4>2, <4>3
    <3> QED
      BY <3>2, <3>3
  <2> QED
    BY <2>3, <2>4
<1>8. ASSUME ClientNext(c) PROVE Queued' /\ InTurn'
  <2>1. ASSUME rwlock_watch(c) \/ Wait(c) PROVE Queued' /\ InTurn'
    <3>1. UNCHANGED <<nodes, robbed, mine, mode>>
      BY <2>1 DEF rwlock_watch, Wait, server
    <3>2. \A d \in Clients : /\ Competes(d)' => Competes(d)
                             /\ pc'[d] = "held" => pc[d] = "held"
      BY <1>0, <2>1, <3>1 DEF rwlock_watch, Wait, At, Goto, Competes
    <3> QED
      BY <1>4, <3>1, <3>2
  <2>2. ASSUME lock_createChild(c) \/ barrier_list(c) PROVE FALSE
    BY <2>2 DEF lock_createChild, barrier_list
  <2>3. ASSUME NEW t \in Threads, retry(c, t) \/ retry_assign(c, t) PROVE FALSE
    BY <2>3 DEF retry, retry_assign, NoElection
  <2> QED
    BY <1>6, <1>7, <1>8, <2>1, <2>2, <2>3 DEF ClientNext
<1>9. ASSUME UserNext(c) PROVE Queued' /\ InTurn'
  <2>1. ASSUME NEW r, NEW target, InitWith(c, r, target) PROVE Queued' /\ InTurn'
    <3>1. UNCHANGED <<nodes, robbed, mine, mode>>
      BY <2>1 DEF InitWith
    <3>2. \A d \in Clients : /\ Competes(d)' => Competes(d)
                             /\ pc'[d] = "held" => pc[d] = "held"
      BY <1>0, <2>1, <3>1 DEF InitWith, Goto, Competes
    <3> QED
      BY <1>4, <3>1, <3>2
  <2>2. ASSUME NEW r, NEW gone, Destroy(c, r, gone) PROVE Queued' /\ InTurn'
    BY <1>0, <1>5, <2>2 DEF Destroy, Goto, Delete
  <2>3. ASSUME rwlock(c) PROVE Queued' /\ InTurn'
    <3>1. UNCHANGED <<nodes, robbed, mine>>
      BY <2>3 DEF rwlock, Call, server
    <3>2. \A d \in Clients : /\ Competes(d)' => Competes(d) /\ mode'[d] = mode[d]
                             /\ pc'[d] = "held" => pc[d] = "held"
      BY <1>0, <2>3, <3>1 DEF rwlock, Call, Goto, Competes
    <3> QED
      BY <1>4, <3>1, <3>2
  <2>4. ASSUME DistriSharedLock_unlock(c) PROVE Queued' /\ InTurn'
    <3>1. CASE UNCHANGED server
      <4>1. UNCHANGED <<nodes, robbed, mine, mode>>
        BY <2>4, <3>1 DEF DistriSharedLock_unlock, server
      <4>2. \A d \in Clients : /\ Competes(d)' => Competes(d)
                               /\ pc'[d] = "held" => pc[d] = "held"
        BY <1>0, <2>4, <4>1 DEF DistriSharedLock_unlock, Goto, Competes
      <4> QED
        BY <1>4, <4>1, <4>2
    <3>2. CASE Delete(c, {n \in nodes : n.seq = mine[c]})
      BY <1>0, <1>5, <2>4, <3>2 DEF DistriSharedLock_unlock, Goto, Delete
    <3> QED
      BY <2>4, <3>1, <3>2 DEF DistriSharedLock_unlock
  <2>5. ASSUME lock(c) \/ barrier_wait(c) \/ start(c) \/ countdown(c) \/ DistriLock_unlock(c)
        PROVE  FALSE
    BY <2>5 DEF lock, barrier_wait, Call, start, countdown, DistriLock_unlock
  <2> QED
    BY <1>9, <2>1, <2>2, <2>3, <2>4, <2>5
    DEF UserNext, DistriLock_init, DistriBarrier_init, DistriSharedLock_init,
        MasterElection_init, DistriLock_dtor, MasterElection_dtor, DistriSharedLock_dtor,
        DistriBarrier_dtor
<1>10. ASSUME Expire(c) PROVE Queued' /\ InTurn'
  <2>1. UNCHANGED <<pc, mine, mode>> /\ nodes' = {n \in nodes : n.owner # c}
    BY <1>10 DEF Expire, object
  <2>2. DOMAIN robbed = Clients
    BY DEF Books, Types
  <2>3. /\ robbed'[c] <=> robbed[c] \/ \E n \in nodes : n.owner = c
        /\ \A d \in Clients \ {c} : robbed'[d] = robbed[d]
    BY <1>10, <2>2, Zenon DEF Expire
  <2>4. \A d \in Clients : Competes(d)' => Competes(d)
    BY <2>1, <2>3 DEF Competes
  <2>5. \A d \in Clients : Competes(d)' => Node(d, mine[d]) \in nodes'
    <3> SUFFICES ASSUME NEW d \in Clients, Competes(d)' PROVE Node(d, mine[d]) \in nodes'
      OBVIOUS
    <3>1. Node(d, mine[d]) \in nodes /\ Node(d, mine[d]).owner = d
      BY <1>2, <1>b, <2>4
    <3>2. d # c
      BY <2>3, <3>1 DEF Competes
    <3> QED
      BY <2>1, <3>1, <3>2
  <2>6. \A d \in Clients : Holds(d)' => Holds(d) /\ Competes(d)'
    BY <2>1, <2>3 DEF Holds, Competes
  <2> QED
    BY <1>1, <2>1, <2>4, <2>5, <2>6
<1>11. ASSUME Callback(c) PROVE Queued' /\ InTurn'
  <2>1. UNCHANGED <<nodes, robbed, mine, mode>>
    BY <1>11 DEF Callback, server
  <2>2. pc' = pc \/ (pc[c] = "blocked" /\ pc' = [pc EXCEPT ![c] = "list"])
    BY <1>11 DEF Callback, regWatcherRLock_cb, Notify
  <2>3. \A d \in Clients : /\ Competes(d)' => Competes(d)
                           /\ pc'[d] = "held" => pc[d] = "held"
    BY <1>0, <2>1, <2>2 DEF Competes
  <2> QED
    BY <1>4, <2>1, <2>3
<1>12. ASSUME Answer(c) \/ Rearm(c) \/ LoseConnection(c) \/ Reconnect(c)
       PROVE  Queued' /\ InTurn'
  <2>1. UNCHANGED <<nodes, robbed, object>>
    BY <1>12 DEF Answer, Rearm, LoseConnection, Reconnect, server
  <2>2. \A d \in Clients : Competes(d)' => Competes(d)
    BY <2>1 DEF Competes, object
  <2> QED
    BY <1>4, <2>1, <2>2 DEF object
<1> QED
  BY <1>8, <1>9, <1>10, <1>11, <1>12
-----------------------------------------------------------------------------
\* Every step leaves finitely many children, those of a lock or of an election at most
\* one; those of a barrier are made by countdown() only, which counts them.
LEMMA ChildrenStep ==
  ASSUME Books, NoElection, IsFiniteSet(nodes), NEW c \in Clients,
         \/ ClientNext(c) \/ UserNext(c) \/ Answer(c) \/ Rearm(c) \/ Callback(c)
         \/ LoseConnection(c) \/ Expire(c) \/ Reconnect(c)
  PROVE  /\ IsFiniteSet(nodes')
         /\ recipe = "barrier" =>
              \/ nodes' \subseteq nodes /\ counted' = counted
              \/ \E n : nodes' = nodes \cup {n} /\ counted' = counted + 1
         /\ counted' \in {counted, counted + 1}
         /\ recipe \in {"lock", "master"} =>
              nodes' \subseteq nodes \/ \E n : nodes' = {n}
<1>1. \/ nodes' \subseteq nodes /\ counted' = counted
      \/ \E n : /\ nodes' = nodes \cup {n} /\ counted' \in {counted, counted + 1}
                /\ recipe = "barrier" => counted' = counted + 1
                /\ recipe \in {"lock", "master"} => nodes = {}
  <2>1. ASSUME NEW new, ChangeTo(new, c) PROVE nodes' = new
    BY <2>1 DEF ChangeTo
  <2>2. CASE ClientNext(c)
    <3>1. ASSUME lock_createChild(c) \/ \E t \in Threads : retry(c, t)
          PROVE  /\ nodes' = nodes \/ nodes' = nodes \cup {Node(c, 0)}
                 /\ recipe # "barrier" /\ counted' = counted
                 /\ nodes' = nodes \/ nodes = {}
      BY <2>1, <3>1 DEF lock_createChild, retry, CreateOne, server, NoElection, Taken
    <3>2. ASSUME shared_createChild(c)
          PROVE  /\ nodes' = nodes \/ nodes' = nodes \cup {Node(c, nextSeq)}
                 /\ recipe = "shared" /\ counted' = counted
      BY <2>1, <3>2 DEF shared_createChild, CreateSeq, server
    <3>3. ASSUME rwlock_list(c) \/ rwlock_watch(c) \/ barrier_list(c) \/ Wait(c)
                 \/ \E t \in Threads : retry_assign(c, t)
          PROVE  nodes' = nodes /\ counted' = counted
      BY <3>3 DEF rwlock_list, rwlock_watch, barrier_list, Wait, retry_assign, server
    <3> QED
      BY <2>2, <3>1, <3>2, <3>3 DEF ClientNext
  <2>3. CASE UserNext(c)
    <3>1. ASSUME NEW r, NEW target, InitWith(c, r, target)
          PROVE  nodes' = nodes /\ counted' = counted
      BY <3>1 DEF InitWith
    <3>2. ASSUME NEW r, NEW gone, Destroy(c, r, gone)
          PROVE  nodes' \subseteq nodes /\ counted' = counted
      BY <2>1, <3>2 DEF Destroy, Delete
    <3>3. ASSUME lock(c) \/ rwlock(c) \/ barrier_wait(c) \/ start(c)
          PROVE  nodes' = nodes /\ counted' = counted
      BY <3>3 DEF lock, rwlock, barrier_wait, Call, start, server
    <3>4. ASSUME DistriLock_unlock(c) \/ DistriSharedLock_unlock(c)
          PROVE  nodes' \subseteq nodes /\ counted' = counted
      BY <2>1, <3>4 DEF DistriLock_unlock, DistriSharedLock_unlock, Delete, server
    <3>5. ASSUME countdown(c)
          PROVE  /\ nodes' = nodes \cup {Node(c, nextSeq)} /\ counted' = counted + 1
                 /\ recipe = "barrier"
      BY <2>1, <3>5 DEF countdown, CreateSeq
    <3> QED
      BY <2>3, <3>1, <3>2, <3>3, <3>4, <3>5
      DEF UserNext, DistriLock_init, DistriBarrier_init, DistriSharedLock_init,
          MasterElection_init, DistriLock_dtor, MasterElection_dtor, DistriSharedLock_dtor,
          DistriBarrier_dtor
  <2>4. CASE Answer(c) \/ Rearm(c) \/ Callback(c) \/ LoseConnection(c) \/ Expire(c) \/ Reconnect(c)
    BY <2>4 DEF Answer, Rearm, Callback, LoseConnection, Expire, Reconnect, object, server
  <2> QED
    BY <2>2, <2>3, <2>4
<1>2. IsFiniteSet(nodes')
  <2>1. ASSUME nodes' \subseteq nodes PROVE IsFiniteSet(nodes')
    BY <2>1, FS_Subset
  <2>2. ASSUME NEW n, nodes' = nodes \cup {n} PROVE IsFiniteSet(nodes')
    BY <2>2, FS_AddElement
  <2> QED
    BY <1>1, <2>1, <2>2
<1> QED
  BY <1>1, <1>2

\* Nobody has passed the barrier who has not seen BarrNum children, and there were never
\* more of them than were counted down.
LEMMA BarrierStep ==
  ASSUME Books, NoElection, BarrierInv, NEW c \in Clients,
         \/ ClientNext(c) \/ UserNext(c) \/ Answer(c) \/ Rearm(c) \/ Callback(c)
         \/ LoseConnection(c) \/ Expire(c) \/ Reconnect(c)
  PROVE  BarrierInv'
<1>0. /\ pc \in [Clients -> Pcs] /\ counted \in Nat /\ recipe' = recipe
      /\ \A d \in Clients : pc[d] = "passed" => counted >= BarrNum
      /\ recipe = "barrier" => Cardinality(nodes) <= counted
  BY NoElectionStep DEF Books, Types, TypeOK, Pcs, BarrierInv, BarrierHolds
<1>1. /\ IsFiniteSet(nodes) /\ IsFiniteSet(nodes')
      /\ recipe = "barrier" =>
              \/ nodes' \subseteq nodes /\ counted' = counted
              \/ \E n : nodes' = nodes \cup {n} /\ counted' = counted + 1
  BY ChildrenStep DEF BarrierInv
<1>2. Cardinality(nodes) \in Nat /\ Cardinality(nodes') \in Nat
  BY <1>1, FS_CardinalityType
<1>3. recipe = "barrier" => Cardinality(nodes') <= counted'
  <2>1. CASE nodes' \subseteq nodes /\ counted' = counted
    BY <1>0, <1>1, <1>2, <2>1, FS_Subset
  <2>2. ASSUME NEW n, nodes' = nodes \cup {n}, counted' = counted + 1, recipe = "barrier"
        PROVE  Cardinality(nodes') <= counted'
    <3>1. Cardinality(nodes') <= Cardinality(nodes) + 1
      BY <1>1, <1>2, <2>2, FS_AddElement
    <3> QED
      BY <1>0, <1>2, <2>2, <3>1
  <2> QED
    BY <1>1, <2>1, <2>2
<1>4. counted' \in Nat /\ counted' >= counted
  BY <1>0, ChildrenStep DEF BarrierInv
<1>5. ASSUME NEW d \in Clients, pc'[d] = "passed" PROVE counted' >= BarrNum
  <2>1. CASE pc[d] = "passed"
    BY <1>0, <1>4, <2>1, RecipesAssumption
  <2>2. CASE pc[d] # "passed"
    <3>1. barrier_list(c) /\ up[c] /\ Open(nodes)
      BY <1>0, <1>5, <2>2
      DEF ClientNext, UserNext, lock_createChild, shared_createChild, rwlock_list,
          rwlock_watch, barrier_list, Wait, retry, retry_assign, InitWith, DistriLock_init,
          DistriBarrier_init, DistriSharedLock_init, MasterElection_init, Destroy,
          DistriLock_dtor, MasterElection_dtor, DistriSharedLock_dtor, DistriBarrier_dtor,
          lock, rwlock, barrier_wait, Call, At, Goto, start, countdown, DistriLock_unlock,
          DistriSharedLock_unlock, Answer, Rearm, Callback, DistriLock_cb,
          regWatcherRLock_cb, DistriBarrier_cb, Notify, LoseConnection, Expire, Reconnect,
          object
    <3>2. counted' = counted /\ recipe = "barrier"
      BY <3>1 DEF barrier_list
    <3> QED
      BY <1>0, <1>2, <3>1, <3>2, RecipesAssumption DEF Open
  <2> QED
    BY <2>1, <2>2
<1> QED
  BY <1>0, <1>1, <1>3, <1>5 DEF BarrierInv, BarrierHolds

-----------------------------------------------------------------------------
\* The inductive invariant holds of every behaviour.
THEOREM Inductive == Spec => []IInv
<1>1. Init => IInv
  <2> SUFFICES ASSUME Init PROVE IInv
    OBVIOUS
  <2>1. Books
    BY BooksInit
  <2>2. IsFiniteSet(nodes) /\ Cardinality(nodes) <= counted
    BY FS_EmptySet DEF Init
  <2> QED
    BY <2>1, <2>2
    DEF Init, IInv, Books, NoElection, ToldOwns, Told, SharedInv, Queued, InTurn, Competes,
        Holds, BarrierInv, BarrierHolds, OneChild
<1>2. IInv /\ [Next]_vars => IInv'
  <2> SUFFICES ASSUME IInv, [Next]_vars PROVE IInv'
    OBVIOUS
  <2>1. CASE UNCHANGED vars
    <3>1. Books'
      BY <2>1, BooksStep DEF IInv, Books
    <3> QED
      BY <2>1, <3>1
      DEF vars, server, link, object, IInv, Books, NoElection, ToldOwns, Told, Owns,
          SharedInv, Queued, InTurn, Competes, Holds, Node, BarrierInv, BarrierHolds, OneChild
  <2>2. ASSUME NEW c \in Clients,
               \/ ClientNext(c) \/ UserNext(c) \/ Answer(c) \/ Rearm(c) \/ Callback(c)
               \/ LoseConnection(c) \/ Expire(c) \/ Reconnect(c)
        PROVE  IInv'
    <3>1. Books'
      BY BooksStep DEF IInv, Books
    <3>2. Books /\ NoElection /\ ToldOwns /\ SharedInv /\ BarrierInv /\ OneChild
      BY DEF IInv, Books
    <3>3. OneChild'
      BY <2>2, <3>2, NoElectionStep, ChildrenStep DEF OneChild, BarrierInv
    <3> QED
      BY <2>2, <3>1, <3>2, <3>3, NoElectionStep, ToldOwnsStep, SharedStep, BarrierStep
      DEF IInv, Books
  <2> QED
    BY <2>1, <2>2 DEF Next
<1> QED
  BY <1>1, <1>2, PTL DEF Spec

\* A client that lock() or start() has told that it is the one owns a child, until its
\* session expires or somebody else deletes the child.
THEOREM OwnersKept == Spec => []OwnerKept
<1>1. IInv => OwnerKept
  BY DEF IInv, Types, ToldOwns, Told, Owns, OwnerKept, HolderOwns, Holds
<1> QED
  BY <1>1, Inductive, PTL

\* Two clients never hold the lock, nor are master, unless somebody has taken the node
\* away from one of them: the node is one and has one owner.
THEOREM MutualExclusion ==
  Spec => [](\A c, d \in Clients :
               /\ recipe = "lock" /\ Holds(c) /\ Holds(d) => c = d
               /\ isMaster[c] /\ ~robbed[c] /\ isMaster[d] /\ ~robbed[d] => c = d)
<1>1. IInv => \A c, d \in Clients :
                /\ recipe = "lock" /\ Holds(c) /\ Holds(d) => c = d
                /\ isMaster[c] /\ ~robbed[c] /\ isMaster[d] /\ ~robbed[d] => c = d
  BY DEF IInv, NoElection, ToldOwns, Told, Owns, OneChild, Holds
<1> QED
  BY <1>1, Inductive, PTL

\* Of two clients of the shared lock that hold it, while the servers keep their nodes,
\* both are readers, whatever they did between their look at the children and now.
THEOREM ReadersOrWriter == Spec => []ReadersWriters
<1>1. IInv => ReadersWriters
  <2> SUFFICES ASSUME IInv, recipe = "shared",
                      NEW c \in Clients, NEW d \in Clients, c # d, Holds(c), Holds(d)
               PROVE  mode[c] = "R" /\ mode[d] = "R"
    BY DEF ReadersWriters
  <2>1. /\ Competes(c) /\ Node(c, mine[c]) \in nodes
        /\ Competes(d) /\ Node(d, mine[d]) \in nodes
    BY DEF IInv, SharedInv, Queued, Competes, Holds
  <2>2. mine[c] \in Int /\ mine[d] \in Int /\ \A m, n \in nodes : m.seq = n.seq => m = n
    BY RecipesAssumption DEF IInv, Types, TypeOK
  <2>3. mine[c] # mine[d]
    BY <2>1, <2>2 DEF Node
  <2>4. mine[c] < mine[d] \/ mine[d] < mine[c]
    BY <2>2, <2>3
  <2> QED
    BY <2>1, <2>4 DEF IInv, SharedInv, InTurn
<1> QED
  BY <1>1, Inductive, PTL

\* Nobody passes the barrier before countdown() was called BarrNum times.
THEOREM BarrierKept == Spec => []BarrierHolds
<1>1. IInv => BarrierHolds
  BY DEF IInv, BarrierInv
<1> QED
  BY <1>1, Inductive, PTL
=================================================================================
