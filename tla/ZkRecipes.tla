------------------------------- MODULE ZkRecipes -------------------------------
(***************************************************************************)
(* The four recipes of example/: DistriLock (an exclusive lock),           *)
(* DistriSharedLock (readers and writers), DistriBarrier and               *)
(* MasterElection.  Each client has an object of the recipe, with a        *)
(* ZkClient of its own; recipe, which never changes, chooses the class.    *)
(* They share the servers' side: the children of one parent node, all      *)
(* temporary, the sessions that own them, and the permanent watcher of     *)
(* ZkWatch, of which they see three steps: it fires, the list of children  *)
(* (or the deletion) that was asked for is told to the callback, and, on   *)
(* another thread, the next watcher is set.                                *)
(***************************************************************************)
EXTENDS Integers, Sequences, FiniteSets, FiniteSetsExt

CONSTANTS Clients, Recipes,
          BarrNum,                          \* barrNum_ of the barrier
          MaxNodes, MaxLosses, MaxExpiries, \* bounds
          MaxLists                          \* bound: lists on their way to a client

ASSUME RecipesAssumption ==
    /\ Recipes \subseteq {"lock", "shared", "barrier", "master"}
    /\ BarrNum \in Nat /\ MaxNodes \in Nat /\ MaxLists \in Nat

VARIABLES
    recipe,
    nodes,      \* the children: [seq, owner, mode]; a lock or a mastership has seq 0
    nextSeq,    \* the sequence number of the next child
    up,         \* isConnected() of each client
    watch,      \* its watcher: [set, target, fetch, rearm]
    cbs,        \* what its callback will be told: the children, as their seqs
    pc,         \* its thread in the recipe's call
    mine,       \* the seq of the node that it has made last
    mode,       \* "R" or "W", of its call of rlock() or wlock()
    elect,      \* MasterElection: retry() on the user's and on the completion thread
    isMaster,   \* isMaster_
    robbed,     \* history: its node was deleted by somebody else, or by the servers
    counted,    \* history: children made by countdown()
    losses, expiries

server == <<nodes, nextSeq, watch, robbed>>
link == <<up, losses, expiries>>
object == <<pc, mine, mode, elect, isMaster, counted>>
vars == <<recipe, server, link, cbs, object>>

Watcher(set, target) == [set |-> set, target |-> target, fetch |-> 0, rearm |-> FALSE]
NoWatch == Watcher(FALSE, 0)
Children == -1   \* the target of a watcher of the list of children
Threads == {"user", "callback"}

Init ==
    /\ recipe \in Recipes
    /\ nodes = {} /\ nextSeq = 1 /\ losses = 0 /\ expiries = 0
    /\ up = [c \in Clients |-> TRUE]
    /\ watch = [c \in Clients |-> NoWatch] /\ cbs = [c \in Clients |-> <<>>]
    /\ pc = [c \in Clients |-> "new"] /\ mine = [c \in Clients |-> 0]
    /\ mode = [c \in Clients |-> "W"] /\ isMaster = [c \in Clients |-> FALSE]
    /\ elect = [c \in Clients |-> [t \in Threads |-> "none"]]
    /\ robbed = [c \in Clients |-> FALSE] /\ counted = 0

Goto(c, l) == pc' = [pc EXCEPT ![c] = l]
At(c, l) == pc[c] = l /\ recipe' = recipe

-------------------------------------------------------------------------------
(* The servers. *)

Fires(w, old, new) ==
    w.set /\ IF w.target = Children THEN old # new
             ELSE \E n \in old \ new : n.seq = w.target
Fired(w) == [set |-> FALSE, target |-> w.target, fetch |-> w.fetch + 1,
             rearm |-> w.target = Children]
(* The children become new, by a step of client by: watchers fire. *)
ChangeTo(new, by) ==
    /\ nodes' = new
    /\ watch' = [c \in Clients |->
           IF Fires(watch[c], nodes, new) THEN Fired(watch[c]) ELSE watch[c]]
    /\ robbed' = [c \in Clients |->
           IF by = c THEN robbed[c] /\ ~\E n \in new \ nodes : n.owner = c
           ELSE robbed[c] \/ \E n \in nodes \ new : n.owner = c]
Node(c, s) == [seq |-> s, owner |-> c, mode |-> mode[c]]

(* create() of the one node of a lock or a mastership, and of a child with a
   sequence number. *)
CreateOne(c) == ChangeTo(nodes \cup {Node(c, 0)}, c) /\ UNCHANGED nextSeq
CreateSeq(c) ==
    /\ nextSeq <= MaxNodes /\ nextSeq' = nextSeq + 1
    /\ ChangeTo(nodes \cup {Node(c, nextSeq)}, c)
Delete(c, gone) == ChangeTo(nodes \ gone, c) /\ UNCHANGED nextSeq
SetWatch(c, target) == watch' = [watch EXCEPT ![c] = Watcher(TRUE, target)]

LoseConnection(c) ==
    /\ up[c] /\ losses < MaxLosses /\ losses' = losses + 1
    /\ up' = [up EXCEPT ![c] = FALSE]
    /\ UNCHANGED <<recipe, server, cbs, object, expiries>>
(* The session expires: its nodes are deleted, its watcher is forgotten. *)
Expire(c) ==
    /\ ~up[c] /\ expiries < MaxExpiries /\ expiries' = expiries + 1
    /\ nodes' = {n \in nodes : n.owner # c}
    /\ watch' = [d \in Clients |->
           IF d = c THEN NoWatch
           ELSE IF Fires(watch[d], nodes, nodes') THEN Fired(watch[d]) ELSE watch[d]]
    /\ robbed' = [robbed EXCEPT ![c] = @ \/ \E n \in nodes : n.owner = c]
    /\ UNCHANGED <<recipe, nextSeq, up, losses, cbs, object>>
Reconnect(c) ==
    /\ ~up[c] /\ up' = [up EXCEPT ![c] = TRUE]
    /\ UNCHANGED <<recipe, server, cbs, object, losses, expiries>>

(* The watcher has fired: the servers answer with the children of then. *)
Answer(c) ==
    /\ watch[c].fetch > 0 /\ up[c] /\ Len(cbs[c]) < MaxLists
    /\ watch' = [watch EXCEPT ![c].fetch = @ - 1]
    /\ cbs' = [cbs EXCEPT ![c] = Append(@, {n.seq : n \in nodes})]
    /\ UNCHANGED <<recipe, nodes, nextSeq, robbed, link, object>>
(* autoRegChildWatcher, which gives up without a connection. *)
Rearm(c) ==
    /\ watch[c].rearm /\ watch[c].fetch <= MaxLists
    /\ watch' = [watch EXCEPT ![c].rearm = FALSE, ![c].set = up[c]]
    /\ UNCHANGED <<recipe, nodes, nextSeq, robbed, link, cbs, object>>

-------------------------------------------------------------------------------
(* init(): a session, the parent node, and for a lock or a barrier the watcher
   of its children. *)
InitWith(c, r, target) ==
    /\ recipe = r /\ At(c, "new") /\ up[c] /\ Goto(c, "idle")
    /\ IF target = 0 THEN UNCHANGED watch ELSE SetWatch(c, target)
    /\ UNCHANGED <<nodes, nextSeq, robbed, link, cbs, mine, mode, elect, isMaster, counted>>
DistriLock_init(c) == InitWith(c, "lock", Children)
DistriBarrier_init(c) == InitWith(c, "barrier", Children)
DistriSharedLock_init(c) == InitWith(c, "shared", 0)
MasterElection_init(c) == InitWith(c, "master", 0)

(* The calls that begin with a request of their own. *)
Call(c, r, l) ==
    /\ recipe = r /\ At(c, "idle") /\ Goto(c, l)
    /\ UNCHANGED <<server, link, cbs, mine, elect, isMaster, counted>>

(* condition_.wait(), which nothing but a notification after it ends. *)
Wait(c) ==
    /\ At(c, "wait") /\ Goto(c, "blocked")
    /\ UNCHANGED <<server, link, cbs, mine, mode, elect, isMaster, counted>>

(* ---- DistriLock ---- *)
lock(c) == Call(c, "lock", "create") /\ UNCHANGED mode

(* createChild(): with kZKExisted lock() goes on to wait, with an error it
   returns false. *)
Taken(c) == nodes # {}
lock_createChild(c) ==
    /\ recipe = "lock" /\ At(c, "create")
    /\ IF ~up[c] THEN Goto(c, "idle") /\ UNCHANGED server
       ELSE IF Taken(c) THEN Goto(c, "wait") /\ UNCHANGED server
       ELSE Goto(c, "held") /\ CreateOne(c)
    /\ UNCHANGED <<link, cbs, mine, mode, elect, isMaster, counted>>

(* unlock() deletes the node, whoever has made it. *)
DistriLock_unlock(c) ==
    /\ recipe = "lock" /\ At(c, "held") /\ up[c]
    /\ Delete(c, nodes) /\ Goto(c, "idle")
    /\ UNCHANGED <<link, cbs, mine, mode, elect, isMaster, counted>>

(* ---- DistriSharedLock ---- *)
rwlock(c) == \E m \in {"R", "W"} :
    Call(c, "shared", "create") /\ mode' = [mode EXCEPT ![c] = m]

shared_createChild(c) ==
    /\ recipe = "shared" /\ At(c, "create")
    /\ IF up[c] THEN /\ CreateSeq(c) /\ Goto(c, "list")
                     /\ mine' = [mine EXCEPT ![c] = nextSeq]
       ELSE Goto(c, "idle") /\ UNCHANGED <<server, mine>>
    /\ UNCHANGED <<link, cbs, mode, elect, isMaster, counted>>

(* The children that a lock waits for: the earlier writers, for a writer all
   the earlier ones. *)
rlock_ahead(c) == {n \in nodes : n.mode = "W" /\ n.seq < mine[c]}
wlock_ahead_Writers(c) == {n \in nodes : n.mode = "W" /\ n.seq < mine[c]}
wlock_ahead(c) == {n \in nodes : n.seq < mine[c]}
Ahead(c) == IF mode[c] = "R" THEN rlock_ahead(c) ELSE wlock_ahead(c)

(* getChildren and what follows it: the lock, or the node to wait for.  On an
   error the call returns false and its node stays. *)
rwlock_list(c) ==
    /\ recipe = "shared" /\ At(c, "list")
    /\ Goto(c, IF ~up[c] THEN "idle" ELSE IF Ahead(c) = {} THEN "held" ELSE "watch")
    /\ watch' = IF up[c] /\ Ahead(c) # {}
                THEN [watch EXCEPT ![c] = Watcher(FALSE, Max({n.seq : n \in Ahead(c)}))]
                ELSE watch
    /\ UNCHANGED <<nodes, nextSeq, robbed, link, cbs, mine, mode, elect, isMaster, counted>>
(* regNodeWatcher, which also succeeds for a node that is gone. *)
rwlock_watch(c) ==
    /\ recipe = "shared" /\ At(c, "watch")
    /\ IF up[c] THEN Goto(c, "wait") /\ SetWatch(c, watch[c].target)
       ELSE Goto(c, "idle") /\ UNCHANGED watch
    /\ UNCHANGED <<nodes, nextSeq, robbed, link, cbs, mine, mode, elect, isMaster, counted>>

(* unlock() forgets the path before it deletes the node, also when that fails. *)
DistriSharedLock_unlock(c) ==
    /\ recipe = "shared" /\ At(c, "held") /\ Goto(c, "idle")
    /\ IF up[c] THEN Delete(c, {n \in nodes : n.seq = mine[c]}) ELSE UNCHANGED server
    /\ UNCHANGED <<link, cbs, mine, mode, elect, isMaster, counted>>

(* ---- DistriBarrier ---- *)
barrier_wait(c) == Call(c, "barrier", "list") /\ UNCHANGED mode

Open_Early(children) == Cardinality(children) + 1 >= BarrNum
Open(children) == Cardinality(children) >= BarrNum
barrier_list(c) ==
    /\ recipe = "barrier" /\ At(c, "list")
    /\ Goto(c, IF ~up[c] THEN "idle" ELSE IF Open(nodes) THEN "passed" ELSE "wait")
    /\ UNCHANGED <<server, link, cbs, mine, mode, elect, isMaster, counted>>
countdown(c) ==
    /\ recipe = "barrier" /\ pc[c] \notin {"new", "gone"} /\ up[c]
    /\ CreateSeq(c) /\ counted' = counted + 1
    /\ UNCHANGED <<recipe, link, cbs, pc, mine, mode, elect, isMaster>>

(* ---- MasterElection ---- *)
(* start() registers the watcher and calls retry(). *)
start(c) ==
    /\ recipe = "master" /\ At(c, "idle") /\ up[c] /\ Goto(c, "started")
    /\ SetWatch(c, Children) /\ elect' = [elect EXCEPT ![c]["user"] = "create"]
    /\ UNCHANGED <<nodes, nextSeq, robbed, link, cbs, mine, mode, isMaster, counted>>

(* retry() on thread t: the request, and then the write of isMaster_. *)
retry(c, t) ==
    /\ elect[c][t] = "create"
    /\ elect' = [elect EXCEPT ![c][t] = IF ~up[c] THEN "none" ELSE IF Taken(c) THEN "lost" ELSE "won"]
    /\ IF up[c] /\ ~Taken(c) THEN CreateOne(c) ELSE UNCHANGED server
    /\ UNCHANGED <<recipe, link, cbs, pc, mine, mode, isMaster, counted>>
Won_Existed(l) == l \in {"won", "lost"}
Won(l) == l = "won"
retry_assign(c, t) ==
    /\ elect[c][t] \in {"won", "lost"}
    /\ isMaster' = [isMaster EXCEPT ![c] = Won(elect[c][t])]
    /\ elect' = [elect EXCEPT ![c][t] = "none"]
    /\ UNCHANGED <<recipe, server, link, cbs, pc, mine, mode, counted>>

-------------------------------------------------------------------------------
(* The callbacks, on the completion thread: they wake every thread that is
   waiting on the condition now. *)
Notify(c, l) ==
    pc' = IF pc[c] = "blocked" THEN [pc EXCEPT ![c] = l] ELSE pc
DistriLock_cb(c, children) ==
    IF children = {} THEN Notify(c, "create") ELSE UNCHANGED pc
regWatcherRLock_cb(c, children) ==
    IF watch[c].target \notin children THEN Notify(c, "list") ELSE UNCHANGED pc
DistriBarrier_cb(c, children) ==
    IF Open(children) THEN Notify(c, "list") ELSE UNCHANGED pc
MasterElection_cb(c, children) ==
    elect' = IF children = {} THEN [elect EXCEPT ![c]["callback"] = "create"] ELSE elect

Callback(c) ==
    /\ cbs[c] # <<>> /\ elect[c]["callback"] = "none"
    /\ cbs' = [cbs EXCEPT ![c] = Tail(@)]
    /\ LET children == Head(cbs[c]) IN
       \/ recipe = "lock" /\ DistriLock_cb(c, children) /\ UNCHANGED elect
       \/ recipe = "shared" /\ regWatcherRLock_cb(c, children) /\ UNCHANGED elect
       \/ recipe = "barrier" /\ DistriBarrier_cb(c, children) /\ UNCHANGED elect
       \/ recipe = "master" /\ MasterElection_cb(c, children) /\ UNCHANGED pc
    /\ UNCHANGED <<recipe, server, link, mine, mode, isMaster, counted>>

(* The destructors: that of a lock or a mastership deletes the node, whoever
   has made it; the session ends, and its own nodes with it. *)
Destroy(c, r, gone) ==
    /\ recipe = r /\ pc[c] \in {"idle", "held", "passed", "started"} /\ up[c]
    /\ \A t \in Threads : elect[c][t] = "none"
    /\ recipe' = recipe /\ Goto(c, "gone")
    /\ Delete(c, gone \cup {n \in nodes : n.owner = c})
    /\ cbs' = [cbs EXCEPT ![c] = <<>>]
    /\ isMaster' = [isMaster EXCEPT ![c] = FALSE]
    /\ UNCHANGED <<link, mine, mode, elect, counted>>
DistriLock_dtor(c) == Destroy(c, "lock", nodes)
MasterElection_dtor(c) == Destroy(c, "master", nodes)
DistriSharedLock_dtor(c) == Destroy(c, "shared", {})
DistriBarrier_dtor(c) == Destroy(c, "barrier", {})

ClientNext(c) ==
    \/ lock_createChild(c)
    \/ shared_createChild(c) \/ rwlock_list(c) \/ rwlock_watch(c)
    \/ barrier_list(c) \/ Wait(c)
    \/ \E t \in Threads : retry(c, t) \/ retry_assign(c, t)
UserNext(c) ==
    \/ DistriLock_init(c) \/ DistriBarrier_init(c)
    \/ DistriSharedLock_init(c) \/ MasterElection_init(c)
    \/ lock(c) \/ rwlock(c) \/ barrier_wait(c) \/ start(c) \/ countdown(c)
    \/ DistriLock_unlock(c) \/ DistriSharedLock_unlock(c)
    \/ DistriLock_dtor(c) \/ MasterElection_dtor(c)
    \/ DistriSharedLock_dtor(c) \/ DistriBarrier_dtor(c)
Next == \E c \in Clients :
    \/ ClientNext(c) \/ UserNext(c) \/ Answer(c) \/ Rearm(c) \/ Callback(c)
    \/ LoseConnection(c) \/ Expire(c) \/ Reconnect(c)

Spec == Init /\ [][Next]_vars
(* Every thread is scheduled, the servers answer; users owe nothing. *)
FairSpec == Spec /\ \A c \in Clients :
    WF_vars(ClientNext(c)) /\ WF_vars(Answer(c)) /\ WF_vars(Rearm(c)) /\ WF_vars(Callback(c))

-------------------------------------------------------------------------------
TypeOK ==
    /\ nodes \subseteq [seq : 0..MaxNodes, owner : Clients, mode : {"R", "W"}]
    /\ \A m, n \in nodes : m.seq = n.seq => m = n
    /\ pc \in [Clients -> {"new", "idle", "create", "list", "watch", "wait", "blocked",
                           "held", "passed", "started", "gone"}]
    /\ nextSeq \in 1..(MaxNodes + 1) /\ mine \in [Clients -> 0..MaxNodes]
    /\ \A c \in Clients : watch[c].fetch \in 0..(MaxLists + 1) /\ Len(cbs[c]) <= MaxLists

Holds(c) == pc[c] = "held" /\ ~robbed[c]

(* A client that lock() or start() has told it is the one is the owner of the
   node, until its session expires or somebody else deletes the node: two
   cannot hold the lock, nor be master. *)
HolderOwns ==
    \A c \in Clients :
        (recipe = "lock" /\ Holds(c)) \/ (isMaster[c] /\ ~robbed[c]) =>
            \E n \in nodes : n.owner = c

(* distribute_lock.cc:91-172, master_election.cc:78-151: a client that was told
   that it is the one owns the node, for as long as nobody took it away. *)
OwnerKept == TypeOK /\ HolderOwns

(* Readers share, a writer holds the lock alone, although each of them decides
   on a list of children that is old when it acts: a child made later has a
   higher number and waits. *)
ReadersWriters ==
    recipe = "shared" => \A c, d \in Clients :
        c # d /\ Holds(c) /\ Holds(d) => mode[c] = "R" /\ mode[d] = "R"

(* Nobody passes the barrier before BarrNum children have been counted down. *)
BarrierHolds == \A c \in Clients : pc[c] = "passed" => counted >= BarrNum

(* distribute_lock.cc:165: when the child node is not there the lock has been
   released, and those who wait compete for it again. *)
Recontends ==
    \A c \in Clients :
        (recipe = "lock" /\ pc[c] = "blocked" /\ nodes = {})
            ~> (pc[c] # "blocked" \/ nodes # {})
===============================================================================
