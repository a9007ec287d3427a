----------------------------- MODULE ZkOperations -----------------------------
(***************************************************************************)
(* The operations on nodes (ZkClient.cc 690-1629), asynchronous and        *)
(* synchronous, against a tree that other clients change and a connection  *)
(* that is lost.  A recursive call is not atomic: it is a sequence of      *)
(* blocking calls, made by the user's thread or, for an asynchronous call, *)
(* by the second thread of ZkClientManager.                                *)
(*                                                                         *)
(* External: the servers, which answer the requests of a connection in     *)
(* order, and the C library, which answers every request it has accepted.  *)
(* A node is its path and its version; the flags of create are left out.   *)
(***************************************************************************)
EXTENDS Integers, Sequences, FiniteSets

CONSTANTS Names,      \* the names of nodes
          Paths,      \* the paths of the tree
          Trees,      \* the trees there are at first: path -> version
          Requests,   \* the calls: [op, path, version, sync]
          MaxCalls, MaxOthers, MaxFaults, MaxVersion    \* bounds

AnyVersion == -1   \* the version that matches every version

Parent(p) == SubSeq(p, 1, Len(p) - 1)
Reads == {"get", "exist", "children"}
Creates == {"create", "mkpath"}
Deletes == {"delete", "rmr"}
Ops == Reads \cup Creates \cup Deletes \cup {"set"}

ASSUME OperationsAssumption ==
    /\ Paths \subseteq Seq(Names) /\ <<>> \notin Paths
    /\ \A p \in Paths : \A n \in 1..Len(p) : SubSeq(p, 1, n) \in Paths
    /\ \A t \in Trees : /\ DOMAIN t \subseteq Paths
                        /\ \A p \in DOMAIN t : t[p] \in 0..MaxVersion
    /\ Requests \subseteq [op : Ops, path : Paths, version : Int, sync : BOOLEAN]
    /\ MaxCalls \in Nat /\ MaxOthers \in Nat /\ MaxFaults \in Nat /\ MaxVersion \in Nat

VARIABLES
    tree, connected,
    call,       \* the calls made so far
    sent,       \* requests under way to the servers, in order
    answers,    \* completions to run: [call, rc]
    functors,   \* calls queued for the second thread
    job,        \* what the user's thread and the second thread are doing
    others, faults,
    told,       \* history: what each call was answered
    seen        \* history: what was true of its path since a call that is not answered

world == <<tree, connected, others, faults>>
vars == <<world, call, sent, answers, functors, job, told, seen>>

Workers == {"user", "second"}
Calls == 1..Len(call)
NoJob == [call |-> 0, stage |-> "idle", at |-> <<>>, stack |-> <<>>]
Below(p, q) == Len(p) < Len(q) /\ SubSeq(q, 1, Len(p)) = p
Children(t, p) == {q \in DOMAIN t : q # <<>> /\ Parent(q) = p}
Path(c) == call[c].path
(* The directory to create for a node (rfind and substr), and for a directory. *)
DirOf(p) == Parent(p)
Above_Same(p) == p
Above(p) == Parent(p)

-------------------------------------------------------------------------------
(* The servers. *)

Without(t, p) == [q \in DOMAIN t \ {p} |-> t[q]]
With(t, p, v) == [q \in DOMAIN t \cup {p} |-> IF q = p THEN v ELSE t[q]]

(* What the servers answer to a request, and the tree that they leave. *)
ServerRc(t, op, p, v) ==
    CASE op \in Creates ->
             IF p = <<>> THEN "ZBADARGUMENTS" ELSE IF p \in DOMAIN t THEN "ZNODEEXISTS"
             ELSE IF Len(p) > 1 /\ Parent(p) \notin DOMAIN t THEN "ZNONODE" ELSE "ZOK"
      [] OTHER ->
             IF p \notin DOMAIN t THEN "ZNONODE"
             ELSE IF op \notin Reads /\ v \notin {AnyVersion, t[p]} THEN "ZBADVERSION"
             ELSE IF op \in Deletes /\ Children(t, p) # {} THEN "ZNOTEMPTY" ELSE "ZOK"
ServerTree(t, op, p, v) ==
    IF ServerRc(t, op, p, v) # "ZOK" \/ op \in Reads THEN t
    ELSE IF op \in Creates THEN With(t, p, 0)
    ELSE IF op \in Deletes THEN Without(t, p)
    ELSE With(t, p, IF t[p] < MaxVersion THEN t[p] + 1 ELSE t[p])

(* A blocking call of the C library by this client: answered, or lost with the
   connection before or after the servers have executed it. *)
Outcomes(op, p, v) ==
    IF ~connected THEN {[rc |-> "lost", tree |-> tree, connected |-> FALSE, faults |-> faults]}
    ELSE {[rc |-> ServerRc(tree, op, p, v), tree |-> ServerTree(tree, op, p, v),
           connected |-> TRUE, faults |-> faults]}
         \cup (IF faults = MaxFaults THEN {}
               ELSE {[rc |-> "ZCONNECTIONLOSS", tree |-> t, connected |-> FALSE,
                      faults |-> faults + 1] : t \in {tree, ServerTree(tree, op, p, v)}})
Become(o) == tree' = o.tree /\ connected' = o.connected /\ faults' = o.faults
             /\ UNCHANGED others

-------------------------------------------------------------------------------
(* What the caller is told for a return code: by the completion of each
   asynchronous call and by each synchronous one ("lost" is isConnected()
   being false, which only a synchronous call tells). *)

Found(rc) == IF rc = "ZOK" THEN "Succeed" ELSE IF rc = "ZNONODE" THEN "NotExist" ELSE "Error"
Made(rc) == IF rc = "ZNODEEXISTS" THEN "Existed" ELSE Found(rc)
Gone(rc) == IF rc = "ZNOTEMPTY" THEN "NotEmpty" ELSE Found(rc)
OrLost(rc, ec) == IF rc = "lost" THEN "LostConnection" ELSE ec

getNodeDataCompletion(rc) == Found(rc)
getChildrenStringCompletion(rc) == Found(rc)
existCompletion(rc) == Found(rc)
setCompletion(rc) == Found(rc)
createCompletion(rc) == Made(rc)
deleteCompletion(rc) == Gone(rc)
SyncGetNode(rc) == OrLost(rc, Found(rc))
SyncGetChildren(rc) == OrLost(rc, Found(rc))
SyncIsExist(rc) == OrLost(rc, Found(rc))
SyncSet(rc) == OrLost(rc, Found(rc))
SyncCreate(rc) == OrLost(rc, Made(rc))
createPersistentDirNode(rc) == OrLost(rc, Made(rc))
SyncDeleteNode_EmptyOk(rc) == OrLost(rc, IF rc = "ZNOTEMPTY" THEN "Succeed" ELSE Found(rc))
SyncDeleteNode(rc) == OrLost(rc, Gone(rc))

SyncCode(op, rc) ==
    CASE op = "get" -> SyncGetNode(rc) [] op = "children" -> SyncGetChildren(rc)
      [] op = "exist" -> SyncIsExist(rc) [] op = "set" -> SyncSet(rc)
      [] op \in Creates -> SyncCreate(rc) [] OTHER -> SyncDeleteNode(rc)

AsyncCode(op, rc) ==
    CASE op = "get" -> getNodeDataCompletion(rc)
      [] op = "children" -> getChildrenStringCompletion(rc)
      [] op = "exist" -> existCompletion(rc) [] op = "set" -> setCompletion(rc)
      [] op = "create" -> createCompletion(rc) [] OTHER -> deleteCompletion(rc)

Tell(c, ecs) == told' = [told EXCEPT ![c] = @ \o ecs]
Finish(w, c, ecs) == Tell(c, ecs) /\ job' = [job EXCEPT ![w] = NoJob]
Work(w, j) == job' = [job EXCEPT ![w] = j] /\ UNCHANGED told

-------------------------------------------------------------------------------
(* Making a call.  An asynchronous one is refused without a connection;
   otherwise its context belongs to the C library. *)

Init ==
    /\ tree \in Trees /\ connected = TRUE /\ others = 0 /\ faults = 0
    /\ call = <<>> /\ sent = <<>> /\ answers = <<>> /\ functors = <<>>
    /\ job = [w \in Workers |-> NoJob] /\ told = <<>> /\ seen = <<>>

Submit(c, op) == sent' = Append(sent, [call |-> c, op |-> op])
NewCall(r) ==
    /\ call' = Append(call, r) /\ told' = Append(told, <<>>)
    /\ UNCHANGED <<world, answers, functors>>

Async(r, op) ==
    /\ r \in Requests /\ r.op = op /\ ~r.sync /\ connected
    /\ NewCall(r) /\ Submit(Len(call) + 1, op) /\ UNCHANGED job
getNode(r) == Async(r, "get")
getChildren(r) == Async(r, "children")
isExist(r) == Async(r, "exist")
createIfNeedCreateParents(r) == Async(r, "mkpath")
create(r) == Async(r, "create")
set(r) == Async(r, "set")
deleteRecursive(r) == Async(r, "rmr")
deleteNode(r) == Async(r, "delete")

Frame(p) == [path |-> p, listed |-> FALSE, todo |-> {}]
(* A synchronous call: one blocking call, or the start of a recursive one. *)
CallSync(r) ==
    /\ r \in Requests /\ r.sync /\ job["user"] = NoJob /\ NewCall(r)
    /\ job' = [job EXCEPT !["user"] =
                  [call |-> Len(call) + 1, at |-> r.path,
                   stage |-> IF r.op = "rmr" THEN "rmr" ELSE "once",
                   stack |-> IF r.op = "rmr" THEN <<Frame(r.path)>> ELSE <<>>]]
    /\ UNCHANGED sent

-------------------------------------------------------------------------------
(* The servers execute an asynchronous request; completions run in order on
   the completion thread. *)

Serve ==
    /\ sent # <<>> /\ connected
    /\ LET s == Head(sent) r == call[s.call] IN
       /\ tree' = ServerTree(tree, s.op, r.path, r.version)
       /\ answers' = Append(answers, [call |-> s.call, op |-> s.op,
                                      rc |-> ServerRc(tree, s.op, r.path, r.version)])
    /\ sent' = Tail(sent)
    /\ UNCHANGED <<connected, others, faults, call, functors, job, told>>

createIfNeedCreateParentsCompletion_NoElse(c, rc) ==
    /\ Tell(c, <<Made(rc)>>)
    /\ functors' = IF rc = "ZNONODE" THEN Append(functors, c) ELSE functors
createIfNeedCreateParentsCompletion(c, rc) ==
    IF rc = "ZNONODE"
    THEN functors' = Append(functors, c) /\ UNCHANGED told
    ELSE Tell(c, <<Made(rc)>>) /\ UNCHANGED functors
deleteRecursiveCompletion_Drops(c, rc) ==
    IF rc = "ZNOTEMPTY" THEN UNCHANGED <<functors, told>>
    ELSE Tell(c, <<Found(rc)>>) /\ UNCHANGED functors
deleteRecursiveCompletion(c, rc) ==
    IF rc = "ZNOTEMPTY"
    THEN functors' = Append(functors, c) /\ UNCHANGED told
    ELSE Tell(c, <<Found(rc)>>) /\ UNCHANGED functors

Complete ==
    /\ answers # <<>> /\ answers' = Tail(answers)
    /\ LET c == Head(answers).call op == Head(answers).op rc == Head(answers).rc IN
       \/ op = "mkpath" /\ createIfNeedCreateParentsCompletion(c, rc)
       \/ op = "rmr" /\ deleteRecursiveCompletion(c, rc)
       \/ op \notin {"mkpath", "rmr"} /\ Tell(c, <<AsyncCode(op, rc)>>) /\ UNCHANGED functors
    /\ UNCHANGED <<world, call, sent, job>>

(* The connection is lost: what was under way is answered with the loss, and
   the servers may have executed the first n requests of it. *)
Executed(n) ==
    LET t[k \in 0..n] ==
            IF k = 0 THEN tree
            ELSE LET r == call[sent[k].call] IN ServerTree(t[k - 1], sent[k].op, r.path, r.version)
    IN t[n]
LoseConnection ==
    /\ connected /\ faults < MaxFaults
    /\ connected' = FALSE /\ faults' = faults + 1
    /\ \E n \in 0..Len(sent) : tree' = Executed(n)
    /\ answers' = answers \o [k \in 1..Len(sent) |->
           [call |-> sent[k].call, op |-> sent[k].op, rc |-> "ZCONNECTIONLOSS"]]
    /\ sent' = <<>>
    /\ UNCHANGED <<others, call, functors, job, told>>
Reconnect ==
    /\ ~connected /\ connected' = TRUE
    /\ UNCHANGED <<tree, others, faults, call, sent, answers, functors, job, told>>

(* Another client creates or deletes a node, or sets its data. *)
OtherClient ==
    /\ others < MaxOthers /\ others' = others + 1
    /\ \E op \in {"create", "delete", "set"}, p \in Paths :
           /\ ServerRc(tree, op, p, AnyVersion) = "ZOK" /\ tree' = ServerTree(tree, op, p, AnyVersion)
    /\ UNCHANGED <<connected, faults, call, sent, answers, functors, job, told>>

-------------------------------------------------------------------------------
(* The blocking calls of the two threads. *)

(* createPersistentDir of the parent of the node of a call. *)
DirJob(c) == [call |-> c, stage |-> "dir", at |-> DirOf(Path(c)), stack |-> <<>>]

(* The second thread takes a functor: postCreateParentAndNode begins with
   createPersistentDir of the parent, postDeleteRecursive with getChildren. *)
StartPosted ==
    /\ functors # <<>> /\ job["second"] = NoJob /\ functors' = Tail(functors)
    /\ LET c == Head(functors) IN
       Work("second",
            IF call[c].op = "mkpath"
            THEN DirJob(c)
            ELSE [call |-> c, stage |-> "rmr", at |-> <<>>, stack |-> <<Frame(Path(c))>>])
    /\ UNCHANGED <<world, call, sent, answers>>

(* A synchronous call that is a single request, and the first and the last
   request of the synchronous createIfNeedCreateParents. *)
CallOnce ==
    /\ job["user"].stage \in {"once", "leaf"}
    /\ LET j == job["user"] c == j.call r == call[c] IN
       \E o \in Outcomes(r.op, r.path, r.version) :
           /\ Become(o)
           /\ IF r.op = "mkpath" /\ j.stage = "once" /\ o.rc = "ZNONODE"
              THEN Work("user", DirJob(c))
              ELSE Finish("user", c, <<SyncCode(r.op, o.rc)>>)
    /\ UNCHANGED <<call, sent, answers, functors>>

(* The end of createPersistentDir: the leaf is created, by the user's thread
   with a blocking call, by the second thread with an asynchronous one. *)
DirDone(w, done, alive) ==
    LET c == job[w].call IN
    IF ~done \/ (w = "second" /\ ~alive) THEN Finish(w, c, <<"Error">>) /\ UNCHANGED sent
    ELSE IF w = "user" THEN Work(w, [job[w] EXCEPT !.stage = "leaf"]) /\ UNCHANGED sent
    ELSE Submit(c, "create") /\ Work(w, NoJob)

(* One request of createPersistentDir: the frames of its recursion are the
   paths from at to the parent of the call's path.  When a node exists the
   one below it is next; when its parent is missing, the one above. *)
createPersistentDir(w) ==
    /\ job[w].stage = "dir"
    /\ LET at == job[w].at target == DirOf(Path(job[w].call)) IN
       \E o \in Outcomes("create", at, AnyVersion) :
           LET ec == createPersistentDirNode(o.rc) IN
           /\ Become(o)
           /\ IF ec = "NotExist"
              THEN Work(w, [job[w] EXCEPT !.at = Above(at)]) /\ UNCHANGED sent
              ELSE IF ec \in {"Succeed", "Existed"} /\ at # target
              THEN /\ Work(w, [job[w] EXCEPT !.at = SubSeq(target, 1, Len(at) + 1)])
                   /\ UNCHANGED sent
              ELSE DirDone(w, ec \in {"Succeed", "Existed"}, o.connected)
    /\ UNCHANGED <<call, answers, functors>>

(* The recursion of deleteRecursive, a stack of the nodes being deleted.
   Under postDeleteRecursive its first frame is the call's own node. *)
Top(s) == s[Len(s)]
Pop(s) == SubSeq(s, 1, Len(s) - 1)
Push(w, s) == Work(w, [job[w] EXCEPT !.stack = s])
(* Without success the whole recursion ends.  postDeleteRecursive tells the
   failure of a child to the handler, and tells it again at its end. *)
Failed(w, depth) ==
    Finish(w, job[w].call,
           IF w = "second" /\ depth > 1 THEN <<"Error", "Error">> ELSE <<"Error">>)
PopOk(w) ==
    LET s == job[w].stack IN
    IF Len(s) = 1 THEN Finish(w, job[w].call, <<"Succeed">>) ELSE Push(w, Pop(s))

Listed(p) == [path |-> p, listed |-> TRUE, todo |-> Children(tree, p)]
ListChildren(w) ==
    /\ job[w].stage = "rmr" /\ ~Top(job[w].stack).listed
    /\ LET s == job[w].stack p == Top(s).path IN
       \E o \in Outcomes("children", p, AnyVersion) :
           /\ Become(o)
           /\ IF o.rc = "ZOK" THEN Push(w, Append(Pop(s), Listed(p)))
              ELSE IF o.rc = "ZNONODE" THEN PopOk(w) ELSE Failed(w, Len(s))
    /\ UNCHANGED <<call, sent, answers, functors>>

childPath_Self(w, p, q) == IF w = "second" /\ Len(job[w].stack) = 1 THEN p ELSE q
childPath(w, p, q) == q
DeleteChild(w) ==
    /\ job[w].stage = "rmr"
    /\ LET s == job[w].stack IN
       \E q \in Top(s).todo :
           Push(w, Append(Append(Pop(s), [Top(s) EXCEPT !.todo = @ \ {q}]),
                          Frame(childPath(w, Top(s).path, q))))
    /\ UNCHANGED <<world, call, sent, answers, functors>>

(* The children are gone, as far as their list went: the node itself. *)
DeleteSelf(w) ==
    /\ job[w].stage = "rmr" /\ Top(job[w].stack).listed /\ Top(job[w].stack).todo = {}
    /\ LET s == job[w].stack c == job[w].call IN
       IF w = "second" /\ Len(s) = 1
       THEN /\ IF connected THEN Submit(c, "delete") /\ Work(w, NoJob)
               ELSE Failed(w, 1) /\ UNCHANGED sent
            /\ UNCHANGED world
       ELSE \E o \in Outcomes("delete", Top(s).path, IF Len(s) = 1 THEN call[c].version ELSE AnyVersion) :
            LET ec == SyncDeleteNode(o.rc) IN
            /\ Become(o) /\ UNCHANGED sent
            /\ IF Len(s) = 1 THEN Finish(w, c, <<ec>>)
               ELSE IF ec \in {"Succeed", "NotExist"} THEN PopOk(w) ELSE Failed(w, Len(s))
    /\ UNCHANGED <<call, answers, functors>>

WorkerNext(w) ==
    createPersistentDir(w) \/ ListChildren(w) \/ DeleteChild(w) \/ DeleteSelf(w)

CallNext == Len(call) < MaxCalls /\ \E r \in Requests :
    \/ getNode(r) \/ getChildren(r) \/ isExist(r) \/ createIfNeedCreateParents(r)
    \/ create(r) \/ set(r) \/ deleteRecursive(r) \/ deleteNode(r) \/ CallSync(r)

(* What is true of the path of a call while it is made. *)
Facts(t, p) ==
    {IF p \in DOMAIN t THEN "here" ELSE "gone"}
    \cup (IF Children(t, p) # {} THEN {"full"} ELSE {})
    \cup (IF Parent(p) \notin DOMAIN t THEN {"orphan"} ELSE {})
Observe ==
    seen' = [c \in 1..Len(call') |->
                IF told'[c] # <<>> THEN {}
                ELSE IF c \in Calls THEN seen[c] \cup Facts(tree', Path(c))
                ELSE Facts(tree', call'[c].path)]

Next ==
    /\ \/ CallNext \/ Serve \/ Complete \/ LoseConnection \/ Reconnect \/ OtherClient
       \/ StartPosted \/ CallOnce \/ \E w \in Workers : WorkerNext(w)
    /\ Observe

Spec == Init /\ [][Next]_vars
(* The two threads and the completion thread are scheduled; the servers and
   the connection are available now and then. *)
FairSpec ==
    /\ Spec
    /\ WF_vars(Serve /\ Observe) /\ WF_vars(Complete /\ Observe)
    /\ WF_vars(Reconnect /\ Observe)
    /\ WF_vars(CallOnce /\ Observe) /\ WF_vars(StartPosted /\ Observe)
    /\ \A w \in Workers : WF_vars(WorkerNext(w) /\ Observe)

-------------------------------------------------------------------------------
TypeOK ==
    /\ DOMAIN tree \subseteq Paths /\ \A p \in DOMAIN tree : tree[p] \in 0..MaxVersion
    /\ connected \in BOOLEAN /\ call \in Seq(Requests)
    /\ \A k \in 1..Len(sent) : sent[k].call \in Calls
    /\ \A k \in 1..Len(functors) : call[functors[k]].op \in {"mkpath", "rmr"}
    /\ \A w \in Workers :
           /\ job[w].stage \in {"idle", "once", "dir", "leaf", "rmr"}
           /\ job[w].stage = "dir" =>
                  job[w].at = <<>> \/ Below(job[w].at, Path(job[w].call))
           /\ job[w].stage = "rmr" => job[w].stack # <<>>

(* Where the context of a call is: with exactly one owner until the handler
   is called and it is deleted, with none afterwards.  So no call is forgotten
   and none is answered by two of the threads. *)
Owners(c) ==
    Cardinality({k \in 1..Len(sent) : sent[k].call = c})
    + Cardinality({k \in 1..Len(answers) : answers[k].call = c})
    + Cardinality({k \in 1..Len(functors) : functors[k] = c})
    + Cardinality({w \in Workers : job[w].call = c})
OneOwner == \A c \in Calls : Owners(c) = IF told[c] = <<>> THEN 1 ELSE 0

(* ZkClient.h:100-147: an answer tells what was true at some time during the
   call, however the other clients, the recursion and the losses of the
   connection interleave; the success of a creation or of a deletion tells a
   change, so that the node was there and was not.  One call denies its comment
   (ZkClient.cc:1586-1590) whatever the others do: the synchronous
   deleteRecursive tells kZKSucceed for a node that was never there (1598-1600).
   Of it, success tells only that the node is gone; RecursiveCodes has the rest. *)
Supports(ec, r) ==
    CASE ec = "Succeed" ->
             IF r.op = "rmr" /\ r.sync THEN {"gone"}
             ELSE IF r.op \in Creates \cup Deletes THEN {"here", "gone"} ELSE {"here"}
      [] ec = "Existed" -> {"here"}
      [] ec = "NotExist" -> IF r.op \in Creates THEN {"orphan"} ELSE {"gone"}
      [] OTHER -> {"here", "full"}
Now(c) == seen[c] \cup Facts(tree', Path(c))
Answers(c) == (Len(told[c]) + 1)..Len(told'[c])
AnswerIsTrue ==
    [][\A c \in Calls : \A k \in Answers(c) :
          \/ told'[c][k] \in {"Error", "LostConnection"}
          \/ Supports(told'[c][k], call[c]) \subseteq Now(c)]_vars

(* ZkClient.cc:1586-1590, above the synchronous deleteRecursive, which the code
   denies: it returns kZKSucceed for a deletion, kZKNotExist for a node that is
   not there any more, kZKError for anything else. *)
RecursiveCodes ==
    [][\A c \in Calls : call[c].op = "rmr" /\ call[c].sync => \A k \in Answers(c) :
          /\ told'[c][k] \in {"Succeed", "NotExist", "Error"}
          /\ told'[c][k] = "Succeed" => "here" \in Now(c)]_vars

(* The handler is called once; only the failure of a child in
   postDeleteRecursive tells the same error twice. *)
ToldOnce ==
    \A c \in Calls : Len(told[c]) > 1 =>
        /\ told[c] = <<"Error", "Error">> /\ call[c].op = "rmr" /\ ~call[c].sync

(* ZkClient.cc:690-1629: a call under way has one owner, a request, an answer, a
   thread or a functor that will answer it, and each is where its types say. *)
CallsKept == TypeOK /\ OneOwner

(* What the library does to the tree: a deletion deletes its node, with the
   version asked for, and when it is recursive what is below; a creation
   creates its node and, when it is asked to, the nodes above.  (With the
   connection, the servers may have executed several requests at once, and a
   node had the version that they left.) *)
Underway(c) == told[c] = <<>>
TouchesOnly ==
    [][others' = others =>
        /\ \A p \in DOMAIN tree \ DOMAIN tree' : \E c \in Calls :
               /\ Underway(c) /\ call[c].op \in Deletes
               /\ \/ /\ p = Path(c)
                     /\ call[c].version \in {AnyVersion, tree[p]} \/ connected' # connected
                  \/ call[c].op = "rmr" /\ Below(Path(c), p)
        /\ \A p \in DOMAIN tree' \ DOMAIN tree : \E c \in Calls :
               /\ Underway(c) /\ call[c].op \in Creates
               /\ p = Path(c) \/ (call[c].op = "mkpath" /\ Below(p, Path(c)))]_vars

(* Every call is answered, also while others undo what it does, as long as
   they stop in the end. *)
Answered == \A c \in 1..MaxCalls : c \in Calls ~> (c \in Calls /\ told[c] # <<>>)
===============================================================================
