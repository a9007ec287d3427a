------------------------------- MODULE ZkWatch -------------------------------
(***************************************************************************)
(* The permanent watcher of one path (src/src/ZkClient.cc:209-295 and      *)
(* 1631-2018): ZooKeeper fires a watcher once, and the client sets another *)
(* one from its second thread.  kind is "node" (regNodeWatcher,            *)
(* existWatcher, getNodeDataOnWatcher, autoRegNodeWatcher) or "child"      *)
(* (regChildWatcher, getChildrenWatcher, getChildDataOnWatcher,            *)
(* autoRegChildWatcher): the two families of functions differ only where   *)
(* kind is read below.                                                     *)
(*                                                                         *)
(* A watcher set in the C library is one ZkOperateAndWatchContext; they    *)
(* are alike, so they are counted.  A value is the version of the node,    *)
(* which counts its changes as the server's zxid does.  The C library, the *)
(* server and the session (ZkSession models it) are external.              *)
(***************************************************************************)
EXTENDS Integers, Sequences

CONSTANTS Kinds,        \* the kinds of watchers to look at
          MaxChanges,   \* bound on the changes of the node at the server
          MaxLosses,    \* bound on the losses of the connection
          MaxExpiries,  \* bound on the expiries of the session
          MaxRegs,      \* bound on the calls of regNodeWatcher by the user
          MaxCancels    \* bound on the calls of cancelRegNodeWatcher

ASSUME WatchAssumption ==
  /\ Kinds \subseteq {"node", "child"}
  /\ MaxChanges \in Nat /\ MaxLosses \in Nat /\ MaxExpiries \in Nat
  /\ MaxRegs \in Nat /\ MaxCancels \in Nat

VARIABLES
  \* the server and the connection (external)
  kind,              \* what of the node is watched (it never changes)
  exists, version,   \* the node
  link,              \* "up", "down" or "expired": the connection of zhandle_
  lossExists, lossVersion,  \* the node when the connection was last lost
  \* the C library (external)
  watching,          \* watchers of the path set in zhandle_ and not fired
  reqs,              \* requests on their way: "get", or the thread that registers
  cq,                \* callbacks that the completion thread has to make, in order
  \* ZkClient
  stat,              \* sessionState_
  entry,             \* the path is in nodeWatchDatas_ / childWatchDatas_
  functors,          \* autoReg functors queued for the second thread
  timers,            \* autoReg timers armed on the second thread
  \* program counters
  cpc,               \* the completion thread in existWatcher / getNodeDataOnWatcher
  upc,               \* the user's thread in regNodeWatcher
  lpc,               \* the second thread in autoRegNodeWatcher
  \* history that only properties read, and bounds
  seen,              \* the version that the handler was last told of
  copies,            \* functors queued by session events
  losses, expiries, regs, cancels

serverVars == <<kind, exists, version>>
linkVars   == <<link, lossExists, lossVersion>>
clientVars == <<stat, entry>>
queueVars  == <<functors, timers>>
boundVars  == <<losses, expiries, regs, cancels>>
vars == <<serverVars, linkVars, watching, reqs, cq, clientVars, queueVars,
          cpc, upc, lpc, seen, copies, boundVars>>

States  == {"CONNECTING", "CONNECTED", "EXPIRED"}
Threads == {"user", "loop"}
RegPcs  == {"idle", "reg", "sent", "store", "failed"}

\* A callback: n existWatchers of an event; the existWatchers and the
\* sessionWatcher (told: it has run) of a session event; one completion of a
\* zoo_aget.  version is what the server held when it sent it.
Callbacks == [kind : {"event", "session", "data"},
              what : {"changed", "deleted", "ok", "nonode", "failed"} \cup States,
              n : Nat, version : Nat, told : BOOLEAN]

Event(w, n, v)   == [kind |-> "event", what |-> w, n |-> n,
                     version |-> v, told |-> TRUE]
SessionEvent(s, n) == [kind |-> "session", what |-> s, n |-> n,
                       version |-> 0, told |-> FALSE]
Data(w, v)       == [kind |-> "data", what |-> w, n |-> 1,
                     version |-> v, told |-> TRUE]

Init ==
  /\ kind \in Kinds /\ exists \in BOOLEAN /\ version = 0
  /\ link = "up" /\ lossExists = FALSE /\ lossVersion = 0
  /\ watching = 0 /\ reqs = <<>> /\ cq = <<>>
  /\ stat = "CONNECTED" /\ entry = FALSE
  /\ functors = 0 /\ timers = 0
  /\ cpc = "idle" /\ upc = "idle" /\ lpc = "idle"
  /\ seen = 0 /\ copies = 0
  /\ losses = 0 /\ expiries = 0 /\ regs = 0 /\ cancels = 0

-----------------------------------------------------------------------------
(* The server and the C library.                                           *)

\* The watchers fire: each is called once and is set no more.
Fire(w, v) == /\ cq' = Append(cq, Event(w, watching, v))
              /\ watching' = 0

\* The node is set, or a child of it is created or deleted.
Alter == /\ exists
         /\ UNCHANGED exists
         /\ IF watching > 0 /\ link = "up" THEN Fire("changed", version + 1)
            ELSE UNCHANGED <<cq, watching>>

Delete == /\ exists
          /\ exists' = FALSE
          /\ IF watching > 0 /\ link = "up" THEN Fire("deleted", version + 1)
             ELSE UNCHANGED <<cq, watching>>

\* A watcher of children is never set while the node does not exist.
Create == /\ ~exists
          /\ exists' = TRUE
          /\ IF watching > 0 /\ link = "up" THEN Fire("changed", version + 1)
             ELSE UNCHANGED <<cq, watching>>

ServerChange ==
  /\ version < MaxChanges
  /\ version' = version + 1
  /\ Alter \/ Delete \/ Create
  /\ UNCHANGED <<kind, linkVars, reqs, clientVars, queueVars, cpc, upc, lpc, seen,
                 copies, boundVars>>

\* The server answers the oldest request.
AnswerGet ==
  /\ Head(reqs) = "get"
  /\ cq' = Append(cq, Data(IF exists THEN "ok" ELSE "nonode", version))
  /\ UNCHANGED <<watching, upc, lpc>>

\* zoo_wexists sets a watcher whether or not the node exists, zoo_wget_children
\* only if it does.
Registers == kind = "node" \/ exists

AnswerReg ==
  /\ Head(reqs) \in Threads
  /\ watching' = IF Registers THEN watching + 1 ELSE watching
  /\ LET pc == IF Registers THEN "store" ELSE "failed" IN
       IF Head(reqs) = "user" THEN upc' = pc /\ UNCHANGED lpc
                              ELSE lpc' = pc /\ UNCHANGED upc
  /\ UNCHANGED cq

ServerAnswer ==
  /\ link = "up"
  /\ reqs # <<>>
  /\ reqs' = Tail(reqs)
  /\ AnswerGet \/ AnswerReg
  /\ UNCHANGED <<serverVars, linkVars, clientVars, queueVars, cpc, seen,
                 copies, boundVars>>

\* A request fails with the connection.
RequestFails ==
  /\ link # "up"
  /\ reqs # <<>>
  /\ reqs' = Tail(reqs)
  /\ \/ /\ Head(reqs) = "get"
        /\ cq' = Append(cq, Data("failed", 0))
        /\ UNCHANGED <<upc, lpc>>
     \/ /\ Head(reqs) = "user" /\ upc' = "failed"
        /\ UNCHANGED <<cq, lpc>>
     \/ /\ Head(reqs) = "loop" /\ lpc' = "failed"
        /\ UNCHANGED <<cq, upc>>
  /\ UNCHANGED <<serverVars, linkVars, watching, clientVars, queueVars, cpc,
                 seen, copies, boundVars>>

ConnectionLoss ==
  /\ link = "up"
  /\ losses < MaxLosses
  /\ losses' = losses + 1
  /\ link' = "down"
  /\ lossExists' = exists /\ lossVersion' = version
  /\ cq' = Append(cq, SessionEvent("CONNECTING", watching))
  /\ UNCHANGED <<serverVars, watching, reqs, clientVars, queueVars, cpc, upc,
                 lpc, seen, copies, expiries, regs, cancels>>

\* The C library connects again and sets its watchers again; the server fires
\* those whose node has changed since.
Missed == lossVersion # version /\ (lossExists \/ exists)

ConnectionResumes ==
  /\ link = "down"
  /\ link' = "up"
  /\ LET told == Append(cq, SessionEvent("CONNECTED", watching)) IN
       IF watching > 0 /\ Missed
       THEN /\ cq' = Append(told, Event(IF exists THEN "changed" ELSE "deleted",
                                        watching, version))
            /\ watching' = 0
       ELSE cq' = told /\ UNCHANGED watching
  /\ UNCHANGED <<serverVars, lossExists, lossVersion, reqs, clientVars,
                 queueVars, cpc, upc, lpc, seen, copies, boundVars>>

\* The server has expired the session: its watchers are gone, and the zhandle_t
\* will not connect again.
SessionExpires ==
  /\ link = "down"
  /\ expiries < MaxExpiries
  /\ expiries' = expiries + 1
  /\ link' = "expired"
  /\ cq' = Append(cq, SessionEvent("EXPIRED", watching))
  /\ watching' = 0
  /\ UNCHANGED <<serverVars, lossExists, lossVersion, reqs, clientVars,
                 queueVars, cpc, upc, lpc, seen, copies, losses, regs, cancels>>

\* retry() on the second thread has replaced zhandle_ (ZkSession).  The callbacks
\* of the old one are over.
Reconnected ==
  /\ link = "expired" /\ stat = "EXPIRED"
  /\ lpc = "idle" /\ cq = <<>> /\ reqs = <<>>
  /\ link' = "up"
  /\ cq' = <<SessionEvent("CONNECTED", 0)>>
  /\ UNCHANGED <<serverVars, lossExists, lossVersion, watching, reqs,
                 clientVars, queueVars, cpc, upc, lpc, seen, copies, boundVars>>

-----------------------------------------------------------------------------
(* regNodeWatcher, on the thread of the user and on the second thread.     *)

RegNodeWatcher(t) ==
  IF stat # "CONNECTED" \/ link = "expired"
  THEN UNCHANGED reqs
  ELSE reqs' = Append(reqs, t)

AfterReg == IF stat # "CONNECTED" \/ link = "expired" THEN "failed" ELSE "sent"

UserReg ==
  /\ upc = "idle"
  /\ regs < MaxRegs
  /\ regs' = regs + 1
  /\ RegNodeWatcher("user")
  /\ upc' = AfterReg
  /\ UNCHANGED <<serverVars, linkVars, watching, cq, clientVars, queueVars, cpc,
                 lpc, seen, copies, losses, expiries, cancels>>

\* setNodeWatchData, once the blocking call has returned.
SetNodeWatchData == entry' = TRUE

UserRegReturns ==
  /\ \/ upc = "store" /\ SetNodeWatchData
     \/ upc = "failed" /\ UNCHANGED entry
  /\ upc' = "idle"
  /\ UNCHANGED <<serverVars, linkVars, watching, reqs, cq, stat, queueVars, cpc,
                 lpc, seen, copies, boundVars>>

\* cancelRegNodeWatcher: the watchers set in the C library stay.
CancelRegNodeWatcher ==
  /\ entry
  /\ cancels < MaxCancels
  /\ cancels' = cancels + 1
  /\ entry' = FALSE
  /\ UNCHANGED <<serverVars, linkVars, watching, reqs, cq, stat, queueVars, cpc,
                 upc, lpc, seen, copies, losses, expiries, regs>>

\* autoRegNodeWatcher starts: isConnected(), then getNodeWatchData().
AutoReg_NotSupported == "idle"
AutoReg == IF stat = "CONNECTED" /\ entry THEN "reg" ELSE "idle"

RunFunctor ==
  /\ lpc = "idle" /\ functors > 0
  /\ functors' = functors - 1
  /\ lpc' = AutoReg
  /\ UNCHANGED <<serverVars, linkVars, watching, reqs, cq, clientVars, timers,
                 cpc, upc, seen, copies, boundVars>>

TimerLeft_Every == UNCHANGED timers
TimerLeft == timers' = timers - 1

TimerFires ==
  /\ lpc = "idle" /\ timers > 0
  /\ TimerLeft
  /\ lpc' = AutoReg
  /\ UNCHANGED <<serverVars, linkVars, watching, reqs, cq, clientVars, functors,
                 cpc, upc, seen, copies, boundVars>>

LoopReg ==
  /\ lpc = "reg"
  /\ RegNodeWatcher("loop")
  /\ lpc' = AfterReg
  /\ UNCHANGED <<serverVars, linkVars, watching, cq, clientVars, queueVars, cpc,
                 upc, seen, copies, boundVars>>

\* A registration that failed is tried again after 5 minutes.
RegFailed_GivesUp == UNCHANGED timers
RegFailed == timers' = timers + 1

LoopRegReturns ==
  /\ \/ lpc = "store" /\ SetNodeWatchData /\ UNCHANGED timers
     \/ lpc = "failed" /\ RegFailed /\ UNCHANGED entry
  /\ lpc' = "idle"
  /\ UNCHANGED <<serverVars, linkVars, watching, reqs, cq, stat, functors, cpc,
                 upc, seen, copies, boundVars>>

-----------------------------------------------------------------------------
(* The completion thread: the callbacks of the C library, one at a time.   *)

\* One of the n callbacks of the item is over.
Returned(item) == item.n = 0 /\ item.told
Keep(item)     == IF Returned(item) THEN Tail(cq) ELSE [cq EXCEPT ![1] = item]
OneLess        == [Head(cq) EXCEPT !.n = @ - 1]

\* isShouldNotifyNodeWatch, and runInThread(autoRegNodeWatcher).
QueueAutoReg == functors' = IF entry THEN functors + 1 ELSE functors

\* existWatcher runs for a session event: it only registers again.
ExistWatcherSession ==
  /\ cpc = "idle" /\ cq # <<>>
  /\ Head(cq).kind = "session" /\ Head(cq).n > 0
  /\ QueueAutoReg
  /\ copies' = IF entry THEN copies + 1 ELSE copies
  /\ cq' = Keep(OneLess)
  /\ UNCHANGED <<serverVars, linkVars, watching, reqs, clientVars, timers, cpc,
                 upc, lpc, seen, boundVars>>

\* sessionWatcher runs for a session event (ZkSession models all of it).
SessionWatcher ==
  /\ cpc = "idle" /\ cq # <<>>
  /\ Head(cq).kind = "session" /\ ~Head(cq).told
  /\ stat' = Head(cq).what
  /\ cq' = Keep([Head(cq) EXCEPT !.told = TRUE])
  /\ UNCHANGED <<serverVars, linkVars, watching, reqs, entry, queueVars, cpc,
                 upc, lpc, seen, copies, boundVars>>

\* existWatcher runs for a change: first it asks for another registration.
ExistWatcher ==
  /\ cpc = "idle" /\ cq # <<>>
  /\ Head(cq).kind = "event"
  /\ QueueAutoReg
  /\ cpc' = "body"
  /\ UNCHANGED <<serverVars, linkVars, watching, reqs, cq, clientVars, timers,
                 upc, lpc, seen, copies, boundVars>>

\* isShouldNotifyNodeWatch: the handler is called next, or the callback is over.
CheckThenCall_Deleted ==
  cpc' = (IF entry THEN "call" ELSE "idle") /\ cq' = Keep(OneLess)
CheckThenCall ==
  IF entry THEN cpc' = "call" /\ UNCHANGED cq
           ELSE cpc' = "idle" /\ cq' = Keep(OneLess)

\* It reports a deletion (the watcher of children does not), or asks for the
\* value: the handler is told of it when the answer comes.
WatcherBody_NoGet ==
  IF Head(cq).what = "deleted" /\ kind = "node"
  THEN CheckThenCall /\ UNCHANGED reqs
  ELSE /\ cpc' = "idle" /\ cq' = Keep(OneLess) /\ UNCHANGED reqs
WatcherBody ==
  IF \/ Head(cq).what = "deleted" /\ kind = "node"
     \/ Head(cq).what = "changed" /\ link = "expired"
  THEN CheckThenCall /\ UNCHANGED reqs
  ELSE /\ cpc' = "idle"
       /\ cq' = Keep(OneLess)
       /\ reqs' = IF Head(cq).what = "changed" THEN Append(reqs, "get") ELSE reqs

ExistWatcherBody ==
  /\ cpc = "body"
  /\ WatcherBody
  /\ UNCHANGED <<serverVars, linkVars, watching, clientVars, queueVars, upc,
                 lpc, seen, copies, boundVars>>

\* The answer of zoo_aget has come.
GetNodeDataOnWatcher ==
  /\ cpc = "idle" /\ cq # <<>>
  /\ Head(cq).kind = "data"
  /\ CheckThenCall
  /\ UNCHANGED <<serverVars, linkVars, watching, reqs, clientVars, queueVars,
                 upc, lpc, seen, copies, boundVars>>

\* The handler of the user runs.
CallHandler ==
  /\ cpc = "call"
  /\ cpc' = "idle"
  /\ seen' = IF Head(cq).what \in {"ok", "nonode", "deleted"}
             THEN Head(cq).version ELSE seen
  /\ cq' = Keep(OneLess)
  /\ UNCHANGED <<serverVars, linkVars, watching, reqs, clientVars, queueVars,
                 upc, lpc, copies, boundVars>>

-----------------------------------------------------------------------------
Library == ServerAnswer \/ RequestFails \/ ConnectionResumes \/ Reconnected
User == UserRegReturns
SecondThread == RunFunctor \/ TimerFires \/ LoopReg \/ LoopRegReturns
CompletionThread ==
  \/ ExistWatcherSession \/ SessionWatcher \/ ExistWatcher \/ ExistWatcherBody
  \/ GetNodeDataOnWatcher \/ CallHandler

Next == \/ ServerChange \/ ConnectionLoss \/ SessionExpires
        \/ UserReg \/ CancelRegNodeWatcher
        \/ Library \/ User \/ SecondThread \/ CompletionThread

Spec == Init /\ [][Next]_vars

\* The threads go on, the second one takes its functors and its timers in turn,
\* and a lost connection is found again or has expired.
FairSpec == /\ Spec
            /\ WF_vars(ServerAnswer \/ RequestFails)
            /\ WF_vars(ConnectionResumes \/ Reconnected)
            /\ WF_vars(User) /\ WF_vars(SecondThread) /\ WF_vars(CompletionThread)
            /\ SF_vars(RunFunctor) /\ SF_vars(TimerFires)

-----------------------------------------------------------------------------
(* Properties.                                                             *)

\* Types, and what the program counters of the threads say of the queues: the
\* completion thread is inside the callback at the head of cq, a thread waiting for
\* the answer to its registration has a request on its way.
TypeOK ==
  /\ kind \in Kinds /\ exists \in BOOLEAN /\ version \in Nat
  /\ link \in {"up", "down", "expired"}
  /\ lossExists \in BOOLEAN /\ lossVersion \in Nat
  /\ watching \in Nat /\ reqs \in Seq(Threads \cup {"get"}) /\ cq \in Seq(Callbacks)
  /\ stat \in States /\ entry \in BOOLEAN
  /\ functors \in Nat /\ timers \in Nat
  /\ cpc \in {"idle", "body", "call"} /\ upc \in RegPcs /\ lpc \in RegPcs
  /\ seen \in Nat /\ copies \in Nat
  /\ losses \in Nat /\ expiries \in Nat /\ regs \in Nat /\ cancels \in Nat
  /\ cpc # "idle" => cq # <<>> /\ Head(cq).kind # "session" /\ Head(cq).n > 0

\* The existWatchers of changes that the callbacks of a queue stand for.
Weight(item) == IF item.kind = "event" THEN item.n ELSE 0
Coming(queue) ==
  LET sum[i \in 0..Len(queue)] == IF i = 0 THEN 0 ELSE sum[i - 1] + Weight(queue[i])
  IN  sum[Len(queue)]

\* What stands for a watcher: one set, one fired whose existWatcher has not started, a
\* functor or a timer that will set one, the second thread about to set one.
Started == IF cpc # "idle" /\ Head(cq).kind = "event" THEN 1 ELSE 0
Setting == IF lpc \in {"reg", "sent", "failed"} THEN 1 ELSE 0
Tokens  == watching + (Coming(cq) - Started) + functors + timers + Setting

\* Registering again after each event never multiplies the watchers of the path
\* (and with them the calls of the handler): there is one for each call of
\* regNodeWatcher and one for each existWatcher that a session event called, which
\* registers although its own watcher is still set (ZkClient.cc:1668-1680).
AtMostOneWatchEach == Tokens <= regs + copies

\* The path is watched, or will be: also by what a session event is about to queue.
Armed == \/ Tokens > 0
         \/ \E i \in DOMAIN cq : cq[i].kind = "session" /\ cq[i].n > 0

\* A path that is registered and watched is only ever left unwatched, in any order
\* of the callbacks, functors, timers and registrations, by a session that is not
\* connected or has expired.
WatchLostOnly ==
  [][entry /\ Armed /\ entry' => Armed' \/ stat # "CONNECTED" \/ link' = "expired"]_vars

\* A functor or a timer of the second thread, in the end, gives the path a watcher
\* again, unless it is cancelled, the session is not connected, or the watcher is
\* one of children and the node does not exist.
Rearms ==
  entry /\ functors + timers > 0
    ~> watching > 0 \/ ~entry \/ stat # "CONNECTED" \/ (kind = "child" /\ ~exists)

\* Without losses of the connection, every change that fires a watcher of a
\* registered path is told to the handler, with a version no older, unless the path
\* is cancelled.  A deletion is not told to a handler of children.
ChangeTold ==
  \A v \in 1..MaxChanges :
    entry /\ (\E i \in DOMAIN cq : /\ cq[i].kind = "event" /\ cq[i].version = v
                                   /\ (kind = "node" \/ cq[i].what = "changed"))
      ~> seen >= v \/ ~entry \/ losses > 0

\* "When a watcher callback comes, or a timer registers the watcher, and no data is
\* found in the map, the user's function is not called and the watcher is not
\* registered again" (comment at ZkClient.cc:2007): only the user's own call puts a
\* path that is not in the map into it.
CancelSticks == [][~entry /\ entry' => upc = "store"]_vars

\* "Once the Client has got the notification of a Watcher, it registers the Watcher
\* with Zookeeper again" (README.md:8): a registered path is watched, or is going
\* to be.  (Checked without losses of the connection.)
PermanentWatch == entry => Armed

\* "When the session is connected again, every nodeWatch and childWatcher is
\* registered again" (comment at test_reconnect.cc:376).
RewatchedAfterReconnect ==
  entry /\ link = "up" /\ stat = "CONNECTED" ~> watching > 0 \/ ~entry
=============================================================================
