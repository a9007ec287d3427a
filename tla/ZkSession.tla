------------------------------ MODULE ZkSession ------------------------------
(***************************************************************************)
(* The session of one ZkClient (src/src/ZkClient.cc), from createZkClient  *)
(* to ~ZkClient: the thread of the user inside init(), the first thread of *)
(* the manager running checkSessionState every 10 ms, its second thread    *)
(* running retry()/reconnect(), and the completion thread that the         *)
(* ZooKeeper C library gives to EVERY zhandle_t and that runs              *)
(* sessionWatcher.  reconnect() overwrites zhandle_ without closing the    *)
(* zhandle_t it held, so several of them may feed one ZkClient.            *)
(*                                                                         *)
(* Time is abstracted to "has the timeout passed since sessionDisconnectMs_"*)
(* (overdue).  The ZooKeeper C library and the servers are external.       *)
(***************************************************************************)
EXTENDS Naturals, Sequences

CONSTANTS Zhandles,      \* the zhandle_t's that zookeeper_init can allocate
          NULL,          \* zhandle_ == NULL
          InitDelay,     \* ZkUtil::kInitRetryDelay
          MaxDelay,      \* ZkUtil::kMaxRetryDelay
          HasHandler,    \* did the user give an expired_handler
          WithClientId,  \* did the user give a clientId to attach to
          MayDestroy,    \* does the user call destroyClient
          MaxFaults,     \* bound on connection losses and failed zookeeper_init
          MaxToggles     \* bound on the calls of setIsSupportReconnect

ASSUME SessionAssumption ==
  /\ NULL \notin Zhandles
  /\ InitDelay \in Nat \ {0}
  /\ MaxDelay \in Nat
  /\ InitDelay <= MaxDelay
  /\ HasHandler \in BOOLEAN
  /\ WithClientId \in BOOLEAN
  /\ MayDestroy \in BOOLEAN
  /\ MaxFaults \in Nat
  /\ MaxToggles \in Nat

VARIABLES
  \* fields of ZkClient
  stat,          \* sessionState_
  overdue,       \* now - sessionDisconnectMs_ > sessionTimeout_
  zhandle,       \* zhandle_
  isRetrying,    \* isRetrying_
  hasCall,       \* hasCallTimeoutFun_
  retryDelay,    \* retryDelay_
  support,       \* isSupportReconnect_
  isInit,        \* isInitialized_
  \* the manager's map, the last reference, and the timers of this client
  inMap,         \* the client is in totalZkClients_
  closed,        \* ~ZkClient has run
  checkTimers,   \* checkSessionState timers armed on the first thread
  retryTimers,   \* retry timers armed on the second thread
  \* program counters
  ipc,           \* the user's thread in init()
  cpc,           \* the first thread in checkSessionState()
  rpc,           \* the second thread in retry()
  wpc,           \* wpc[h]: the completion thread of h in sessionWatcher()
  \* the C library (external)
  zh,            \* zh[h]: what the C library knows of the session of h
  events,        \* events[h]: session events not yet handled by sessionWatcher
  ctxFreed,      \* the h whose ZkZooInitCbData sessionWatcher has deleted
  \* bounds, and history that only properties read
  faults, toggles,
  longOutage,    \* the timeout has passed since the state left CONNECTED
  calls,         \* calls of the handler since hasCall was last cleared
  told           \* the handler was called since a tick last found it connected

clientVars == <<stat, overdue, zhandle, isRetrying, hasCall, retryDelay,
                support, isInit>>
lifeVars   == <<inMap, closed, checkTimers, retryTimers>>
pcVars     == <<ipc, cpc, rpc, wpc>>
libVars    == <<zh, events, ctxFreed>>
ghostVars  == <<faults, toggles, longOutage, calls, told>>
vars       == <<clientVars, lifeVars, pcVars, libVars, ghostVars>>

\* ZOO_CONNECTING_STATE, ZOO_CONNECTED_STATE, ZOO_EXPIRED_SESSION_STATE.
States  == {"CONNECTING", "CONNECTED", "EXPIRED"}
Settled == {"CONNECTED", "EXPIRED"}

InitPcs  == {"start", "test", "waiting", "check", "done", "failed"}
CheckPcs == {"idle", "read1", "read2", "age", "expire", "handler",
             "inHandler", "arm", "rearm"}
RetryPcs == {"idle", "init", "test", "waiting", "check", "failed",
             "ok1", "ok2", "ok3"}
WatchPcs == {"idle", "lock", "finish"}

\* none: not allocated; fresh: no session yet; lost: it had one, and seeks a server.
ZhStates == {"none", "fresh", "connected", "lost", "expired", "closed"}

Doubled_NoCeiling(d) == d * 2
Doubled(d) == IF d * 2 <= MaxDelay THEN d * 2 ELSE MaxDelay

\* A retry is planned on the second thread.
ArmRetry_NoTimer == /\ UNCHANGED retryTimers
                    /\ retryDelay' = Doubled(retryDelay)
                    /\ isRetrying' = TRUE
ArmRetry == /\ retryTimers' = retryTimers + 1
            /\ retryDelay' = Doubled(retryDelay)
            /\ isRetrying' = TRUE

\* ZkClientManager::getZkClient or __getZkClient finds the client.
ClientFound_Always == TRUE
ClientFound == inMap

Init ==
  /\ stat = "CONNECTING" /\ overdue = TRUE /\ zhandle = NULL
  /\ isRetrying = FALSE /\ hasCall = FALSE /\ retryDelay = InitDelay
  /\ support = TRUE /\ isInit = FALSE
  /\ inMap = TRUE /\ closed = FALSE /\ checkTimers = 0 /\ retryTimers = 0
  /\ ipc = "start" /\ cpc = "idle" /\ rpc = "idle"
  /\ wpc = [h \in Zhandles |-> "idle"]
  /\ zh = [h \in Zhandles |-> "none"]
  /\ events = [h \in Zhandles |-> <<>>]
  /\ ctxFreed = {}
  /\ faults = 0 /\ toggles = 0
  /\ longOutage = FALSE /\ calls = 0 /\ told = FALSE

-----------------------------------------------------------------------------
(* The ZooKeeper C library and the servers.                                *)

\* A server accepts the connection: a new session, or the old one resumed.  A
\* clientId whose session a server has expired is never accepted again.
SidDead == WithClientId /\ \E g \in Zhandles : zh[g] = "expired"

ServerConnect(h) ==
  /\ zh[h] \in {"fresh", "lost"}
  /\ ~SidDead
  /\ zh' = [zh EXCEPT ![h] = "connected"]
  /\ events' = [events EXCEPT ![h] = Append(@, "CONNECTED")]
  /\ UNCHANGED <<clientVars, lifeVars, pcVars, ctxFreed, ghostVars>>

\* A server answers that the session has expired; a new session cannot have.
ServerExpire(h) ==
  /\ zh[h] = "lost" \/ (zh[h] = "fresh" /\ WithClientId)
  /\ zh' = [zh EXCEPT ![h] = "expired"]
  /\ events' = [events EXCEPT ![h] = Append(@, "EXPIRED")]
  /\ UNCHANGED <<clientVars, lifeVars, pcVars, ctxFreed, ghostVars>>

ConnectionLoss(h) ==
  /\ zh[h] = "connected"
  /\ faults < MaxFaults
  /\ faults' = faults + 1
  /\ zh' = [zh EXCEPT ![h] = "lost"]
  /\ events' = [events EXCEPT ![h] = Append(@, "CONNECTING")]
  /\ UNCHANGED <<clientVars, lifeVars, pcVars, ctxFreed,
                 toggles, longOutage, calls, told>>

\* sessionTimeout_ goes by.
TimePasses ==
  /\ overdue' = TRUE
  /\ longOutage' = (longOutage \/ stat # "CONNECTED")
  /\ UNCHANGED <<stat, zhandle, isRetrying, hasCall, retryDelay, support,
                 isInit, lifeVars, pcVars, libVars, faults, toggles, calls, told>>

\* zookeeper_init: a new zhandle_t that seeks a server, or NULL, when it fails
\* or when no more zhandle_t can be allocated.
ZookeeperInit ==
  \/ \E h \in Zhandles :
       /\ zh[h] = "none"
       /\ zh' = [zh EXCEPT ![h] = "fresh"]
       /\ zhandle' = h
       /\ UNCHANGED faults
  \/ /\ faults < MaxFaults \/ \A h \in Zhandles : zh[h] # "none"
     /\ faults' = IF faults < MaxFaults THEN faults + 1 ELSE faults
     /\ zhandle' = NULL
     /\ UNCHANGED zh

-----------------------------------------------------------------------------
(* sessionWatcher, on the completion thread of h.                          *)

\* stateMutex_ is held across steps by sessionWatcher only.
StateMutexFree == \A h \in Zhandles : wpc[h] # "finish"

\* The client is looked up before the mutex is taken.
WatchLookup(h) ==
  /\ wpc[h] = "idle" /\ events[h] # <<>>
  /\ \/ /\ ClientFound
        /\ wpc' = [wpc EXCEPT ![h] = "lock"]
        /\ UNCHANGED <<events, ctxFreed>>
     \/ /\ ~ClientFound
        /\ ctxFreed' = ctxFreed \union {h}
        /\ events' = [events EXCEPT ![h] = Tail(@)]
        /\ UNCHANGED wpc
  /\ UNCHANGED <<clientVars, lifeVars, ipc, cpc, rpc, zh, ghostVars>>

WatchSetStat(h) ==
  /\ wpc[h] = "lock" /\ StateMutexFree
  /\ wpc' = [wpc EXCEPT ![h] = "finish"]
  /\ stat' = Head(events[h])
  /\ longOutage' = (longOutage /\ stat' # "CONNECTED")
  /\ UNCHANGED <<overdue, zhandle, isRetrying, hasCall, retryDelay, support,
                 isInit, lifeVars, ipc, cpc, rpc, libVars,
                 faults, toggles, calls, told>>

Notified_Never(pc) == pc
Notified(pc) == IF pc = "waiting" THEN "test" ELSE pc

\* The rest of the critical section: notify, or the time of the disconnection.
WatchFinish(h) ==
  /\ wpc[h] = "finish"
  /\ wpc' = [wpc EXCEPT ![h] = "idle"]
  /\ events' = [events EXCEPT ![h] = Tail(@)]
  /\ \/ /\ Head(events[h]) \in Settled
        /\ ipc' = Notified(ipc)
        /\ rpc' = Notified(rpc)
        /\ UNCHANGED overdue
     \/ /\ Head(events[h]) \notin Settled
        /\ overdue' = FALSE
        /\ UNCHANGED <<ipc, rpc>>
  /\ UNCHANGED <<stat, zhandle, isRetrying, hasCall, retryDelay, support,
                 isInit, lifeVars, cpc, zh, ctxFreed, ghostVars>>

-----------------------------------------------------------------------------
(* init(), on the user's thread.                                           *)

InitZookeeper ==
  /\ ipc = "start"
  /\ ZookeeperInit
  /\ ipc' = IF zhandle' = NULL THEN "failed" ELSE "test"
  /\ UNCHANGED <<stat, overdue, isRetrying, hasCall, retryDelay, support, isInit,
                 lifeVars, cpc, rpc, wpc, events, ctxFreed,
                 toggles, longOutage, calls, told>>

\* The while loop around stateCondition_.wait().
InitTest ==
  /\ ipc = "test" /\ StateMutexFree
  /\ ipc' = IF stat \in Settled THEN "check" ELSE "waiting"
  /\ UNCHANGED <<clientVars, lifeVars, cpc, rpc, wpc, libVars, ghostVars>>

InitCheck ==
  /\ ipc = "check"
  /\ \/ /\ stat = "EXPIRED"
        /\ ipc' = "failed"
        /\ UNCHANGED <<isInit, isRetrying, hasCall, checkTimers>>
     \/ /\ stat # "EXPIRED"
        /\ ipc' = "done"
        /\ isInit' = TRUE
        /\ isRetrying' = FALSE
        /\ hasCall' = FALSE
        /\ checkTimers' = checkTimers + 1
  /\ UNCHANGED <<stat, overdue, zhandle, retryDelay, support, inMap, closed,
                 retryTimers, cpc, rpc, wpc, libVars, ghostVars>>

-----------------------------------------------------------------------------
(* checkSessionState(), on the first thread of the manager.                *)

CheckFire ==
  /\ cpc = "idle" /\ checkTimers > 0
  /\ checkTimers' = checkTimers - 1
  /\ cpc' = IF ClientFound THEN "read1" ELSE "idle"
  /\ UNCHANGED <<clientVars, inMap, closed, retryTimers, ipc, rpc, wpc,
                 libVars, ghostVars>>

\* The state is read twice, then the clock, each under a lock of its own.
CheckRead ==
  /\ \/ /\ cpc = "read1"
        /\ cpc' = IF stat = "EXPIRED" THEN "expire" ELSE "read2"
     \/ /\ cpc = "read2"
        /\ cpc' = IF stat # "CONNECTED" THEN "age" ELSE "rearm"
     \/ /\ cpc = "age"
        /\ cpc' = IF overdue THEN "expire" ELSE "rearm"
  /\ told' = (told /\ ~(cpc = "read2" /\ stat = "CONNECTED"))
  /\ UNCHANGED <<clientVars, lifeVars, ipc, rpc, wpc, libVars,
                 faults, toggles, longOutage, calls>>

CheckExpire ==
  /\ cpc = "expire"
  /\ cpc' = "handler"
  /\ stat' = "EXPIRED"
  /\ UNCHANGED <<overdue, zhandle, isRetrying, hasCall, retryDelay, support,
                 isInit, lifeVars, ipc, rpc, wpc, libVars, ghostVars>>

CheckCallHandler ==
  /\ cpc = "handler"
  /\ \/ /\ ~hasCall /\ HasHandler
        /\ cpc' = "inHandler"
        /\ calls' = calls + 1
        /\ told' = TRUE
     \/ /\ hasCall \/ ~HasHandler
        /\ cpc' = "arm"
        /\ UNCHANGED <<calls, told>>
  /\ UNCHANGED <<clientVars, lifeVars, ipc, rpc, wpc, libVars,
                 faults, toggles, longOutage>>

RecordCall_Missing == UNCHANGED hasCall
RecordCall == hasCall' = TRUE

\* The user's handler returns, and only then is the call recorded.
CheckHandlerReturns ==
  /\ cpc = "inHandler"
  /\ cpc' = "arm"
  /\ RecordCall
  /\ UNCHANGED <<stat, overdue, zhandle, isRetrying, retryDelay, support,
                 isInit, lifeVars, ipc, rpc, wpc, libVars, ghostVars>>

MayArm_Twice == support
MayArm == ~isRetrying /\ support

\* One step: the timer armed here cannot fire for InitDelay (5 s), and until it
\* has fired nobody else writes what this step writes.
CheckArmRetry ==
  /\ cpc = "arm"
  /\ cpc' = "rearm"
  /\ \/ /\ MayArm
        /\ ArmRetry
     \/ /\ ~MayArm
        /\ UNCHANGED <<retryTimers, retryDelay, isRetrying>>
  /\ UNCHANGED <<stat, overdue, zhandle, hasCall, support, isInit, inMap, closed,
                 checkTimers, ipc, rpc, wpc, libVars, ghostVars>>

CheckRearm ==
  /\ cpc = "rearm"
  /\ cpc' = "idle"
  /\ checkTimers' = checkTimers + 1
  /\ UNCHANGED <<clientVars, inMap, closed, retryTimers, ipc, rpc, wpc,
                 libVars, ghostVars>>

-----------------------------------------------------------------------------
(* retry() and reconnect(), on the second thread of the manager.           *)

RetryFire ==
  /\ rpc = "idle" /\ retryTimers > 0
  /\ retryTimers' = retryTimers - 1
  /\ rpc' = IF ClientFound THEN "init" ELSE "idle"
  /\ UNCHANGED <<clientVars, inMap, closed, checkTimers, ipc, cpc, wpc,
                 libVars, ghostVars>>

\* The zhandle_t that zhandle_ held is not closed.
RetryZookeeper ==
  /\ rpc = "init"
  /\ ZookeeperInit
  /\ rpc' = IF zhandle' = NULL THEN "failed" ELSE "test"
  /\ UNCHANGED <<stat, overdue, isRetrying, hasCall, retryDelay, support, isInit,
                 lifeVars, ipc, cpc, wpc, events, ctxFreed,
                 toggles, longOutage, calls, told>>

RetryTest ==
  /\ rpc = "test" /\ StateMutexFree
  /\ rpc' = IF stat \in Settled THEN "check" ELSE "waiting"
  /\ UNCHANGED <<clientVars, lifeVars, ipc, cpc, wpc, libVars, ghostVars>>

\* Read again, after stateMutex_ was released.
RetryCheck ==
  /\ rpc = "check"
  /\ rpc' = IF stat = "EXPIRED" THEN "failed" ELSE "ok1"
  /\ UNCHANGED <<clientVars, lifeVars, ipc, cpc, wpc, libVars, ghostVars>>

\* One step: isRetrying_ keeps the first thread away from all of it, and the
\* timer is one of this very thread.
RetryFailed ==
  /\ rpc = "failed"
  /\ rpc' = "idle"
  /\ \/ /\ support
        /\ ArmRetry
     \/ /\ ~support
        /\ UNCHANGED <<retryTimers, retryDelay, isRetrying>>
  /\ UNCHANGED <<stat, overdue, zhandle, hasCall, support, isInit, inMap, closed,
                 checkTimers, ipc, cpc, wpc, libVars, ghostVars>>

ResetDelay_Missing == UNCHANGED retryDelay
ResetDelay == retryDelay' = InitDelay

\* Three assignments that the first thread may come between.
RetryResetDelay ==
  /\ rpc = "ok1"
  /\ rpc' = "ok2"
  /\ ResetDelay
  /\ UNCHANGED <<stat, overdue, zhandle, isRetrying, hasCall, support, isInit,
                 lifeVars, ipc, cpc, wpc, libVars, ghostVars>>

RetryClearRetrying ==
  /\ rpc = "ok2"
  /\ rpc' = "ok3"
  /\ isRetrying' = FALSE
  /\ UNCHANGED <<stat, overdue, zhandle, hasCall, retryDelay, support, isInit,
                 lifeVars, ipc, cpc, wpc, libVars, ghostVars>>


RetryClearCall ==
  /\ rpc = "ok3"
  /\ rpc' = "idle"
  /\ hasCall' = FALSE
  /\ calls' = 0
  /\ UNCHANGED <<stat, overdue, zhandle, isRetrying, retryDelay, support, isInit,
                 lifeVars, ipc, cpc, wpc, libVars,
                 faults, toggles, longOutage, told>>

-----------------------------------------------------------------------------
(* The user, who knows the handle once createZkClient has returned it.     *)

SetIsSupportReconnect ==
  /\ isInit /\ ~closed /\ toggles < MaxToggles
  /\ toggles' = toggles + 1
  /\ support' = ~support
  /\ UNCHANGED <<stat, overdue, zhandle, isRetrying, hasCall, retryDelay, isInit,
                 lifeVars, pcVars, libVars, faults, longOutage, calls, told>>

DestroyClient ==
  /\ MayDestroy /\ isInit /\ inMap
  /\ inMap' = FALSE
  /\ UNCHANGED <<clientVars, closed, checkTimers, retryTimers, pcVars, libVars,
                 ghostVars>>

\* ~ZkClient, when the last reference goes: no thread is inside a function that
\* holds a ZkClientPtr, and the user has dropped his own.  Only the zhandle_t
\* that zhandle_ holds is closed.
Destructor ==
  /\ ~inMap /\ ~closed
  /\ cpc = "idle" /\ rpc = "idle" /\ \A h \in Zhandles : wpc[h] = "idle"
  /\ closed' = TRUE
  /\ support' = FALSE
  /\ zh' = [h \in Zhandles |-> IF h = zhandle THEN "closed" ELSE zh[h]]
  /\ events' = [h \in Zhandles |-> IF h = zhandle THEN <<>> ELSE events[h]]
  /\ UNCHANGED <<stat, overdue, zhandle, isRetrying, hasCall, retryDelay, isInit,
                 inMap, checkTimers, retryTimers, pcVars, ctxFreed, ghostVars>>

-----------------------------------------------------------------------------

Library == \/ TimePasses
           \/ \E h \in Zhandles : ServerConnect(h) \/ ServerExpire(h) \/ ConnectionLoss(h)

Watch(h) == WatchLookup(h) \/ WatchSetStat(h) \/ WatchFinish(h)

InitThread == InitZookeeper \/ InitTest \/ InitCheck

CheckThread == CheckFire \/ CheckRead \/ CheckExpire \/ CheckCallHandler
                 \/ CheckHandlerReturns \/ CheckArmRetry \/ CheckRearm

RetryThread == RetryFire \/ RetryZookeeper \/ RetryTest \/ RetryCheck \/ RetryFailed
                 \/ RetryResetDelay \/ RetryClearRetrying \/ RetryClearCall

User == SetIsSupportReconnect \/ DestroyClient \/ Destructor

Next == \/ Library
        \/ \E h \in Zhandles : Watch(h)
        \/ InitThread
        \/ CheckThread
        \/ RetryThread
        \/ User

Spec == Init /\ [][Next]_vars

\* Every thread that can run does run, the user's handler returns, and a server
\* sooner or later answers a zhandle_t that seeks one.
Fairness ==
  /\ WF_vars(InitThread) /\ WF_vars(CheckThread) /\ WF_vars(RetryThread)
  /\ \A h \in Zhandles : /\ WF_vars(Watch(h))
                         /\ WF_vars(ServerConnect(h) \/ ServerExpire(h))

FairSpec == Spec /\ Fairness

-----------------------------------------------------------------------------
(* Correctness.                                                            *)

TypeOK ==
  /\ stat \in States /\ overdue \in BOOLEAN /\ zhandle \in Zhandles \union {NULL}
  /\ isRetrying \in BOOLEAN /\ hasCall \in BOOLEAN
  /\ retryDelay \in InitDelay..MaxDelay
  /\ support \in BOOLEAN /\ isInit \in BOOLEAN
  /\ inMap \in BOOLEAN /\ closed \in BOOLEAN
  /\ checkTimers \in Nat /\ retryTimers \in Nat
  /\ ipc \in InitPcs /\ cpc \in CheckPcs /\ rpc \in RetryPcs
  /\ wpc \in [Zhandles -> WatchPcs]
  /\ zh \in [Zhandles -> ZhStates]
  /\ events \in [Zhandles -> Seq(States)]
  /\ ctxFreed \subseteq Zhandles
  /\ faults \in Nat /\ toggles \in Nat
  /\ longOutage \in BOOLEAN /\ calls \in Nat /\ told \in BOOLEAN

\* An attempt to reconnect is under way: retry has not yet cleared isRetrying_.
RetryBusy == IF rpc \in {"idle", "ok3"} THEN 0 ELSE 1

\* isRetrying_, written by two threads without a lock, does its work: however the
\* ticks of checkSessionState and the steps of retry interleave, no second retry
\* is planned while one is pending or running (ZkClient.cc:487-504, 550-559).
SingleRetry ==
  /\ retryTimers + RetryBusy <= 1
  /\ retryTimers + RetryBusy > 0 => isRetrying

\* The checking of a client is one chain of timers: never two ticks under way or
\* armed, and none before init() has succeeded (ZkClient.cc:402, 564).
SingleCheck ==
  /\ checkTimers + (IF cpc = "idle" THEN 0 ELSE 1) <= 1
  /\ (checkTimers > 0 \/ cpc # "idle") => isInit

\* ZkClient.cc:550-564: the two of them.
SingleTimers == SingleRetry /\ SingleCheck

\* The back-off starts over with every reconnection that succeeds: whenever no
\* retry is under way the next one is planned with kInitRetryDelay, because retry
\* resets the delay before it clears isRetrying_ (ZkClient.cc:501-502).
BackoffReset == ~isRetrying => retryDelay = InitDelay

\* The user's expired handler is called at most once between two reconnections
\* that succeed, also when one succeeds while the handler runs (ZkClient.cc:542-548).
HandlerOnce == calls <= 1

\* A thread that waits in init() for the state to settle is woken: the state is
\* never left settled with nobody about to notify (ZkClient.cc:376-382, 618-641).
InitWoken ==
  ipc = "waiting" /\ stat \in Settled => \E h \in Zhandles : wpc[h] = "finish"

\* Once ~ZkClient has run no thread is inside a function of the client, nor will be:
\* the timers and the zhandle_t's that outlive it hold its handle only, and the
\* handle finds nothing (ZkClient.cc:481-485, 514-518, 607-613, 650-673).
ClosedUnused ==
  closed => cpc = "idle" /\ rpc = "idle" /\ \A h \in Zhandles : wpc[h] = "idle"

\* init() returns: a server answers, sessionWatcher notifies.
InitReturns == <>(ipc \in {"done", "failed"})

\* A reconnect() that blocks the second thread, which every client shares, comes
\* to an end unless the client is destroyed meanwhile (ZkClient.cc:463-468).
ReconnectReturns == rpc = "test" ~> (rpc = "idle" \/ ~inMap)

\* sessionWatcher handles an event that has happened.
EventHeld == \A h \in Zhandles : wpc[h] # "idle" => events[h] # <<>>

\* Between its two writes sessionWatcher is alone, with the event it handles; the
\* state is that event until init() has returned and the first thread writes it too.
WatchConsistent ==
  /\ EventHeld
  /\ \A g, h \in Zhandles : wpc[g] = "finish" /\ wpc[h] = "finish" => g = h
  /\ \A h \in Zhandles :
       wpc[h] = "finish" /\ ipc # "done" => stat = Head(events[h])

\* What holds before init() has succeeded, and what retry and the handler's call
\* leave for the step after them.
PhaseConsistent ==
  /\ isInit <=> ipc = "done"
  /\ ~isInit => /\ retryTimers = 0 /\ rpc = "idle" /\ retryDelay = InitDelay
                /\ calls = 0 /\ ~isRetrying
  /\ rpc = "ok2" => retryDelay = InitDelay
  /\ calls = 1 => hasCall \/ cpc = "inHandler"

\* The inductive invariant of the proofs: what the timers and flags obey, what the
\* completion threads and init obey, and what the end of the client obeys.
TimerInv == SingleRetry /\ SingleCheck /\ BackoffReset /\ HandlerOnce /\ PhaseConsistent
WatchInv == InitWoken /\ WatchConsistent
LifeInv  == ClosedUnused /\ (closed => ~inMap)
IInv     == TimerInv /\ WatchInv /\ LifeInv

\* No zhandle_t can be allocated any more and none has anything left to report.
Exhausted == \A h \in Zhandles : zh[h] \in {"connected", "expired"} /\ events[h] = <<>>

\* After an expiry the client gets a session again, unless it is destroyed, the
\* user has forbidden it, or the zhandle_t's are exhausted (ZkClient.cc:479-566).
Reconnects ==
  (isInit /\ stat = "EXPIRED")
    ~> (stat = "CONNECTED" \/ ~inMap \/ toggles > 0 \/ Exhausted)

-----------------------------------------------------------------------------
(* What comments, the README and a test say of the code, and it does not do. *)

\* "2: in a state other than connected, judge whether the state has lasted longer
\* than the session timeout" (comment at ZkClient.cc:395): checkSessionState
\* declares the expiry of a connection that has been lost for that long.
ExpiresAfterTimeout ==
  [][cpc = "age" /\ cpc' = "expire" /\ stat = "CONNECTING" => longOutage]_vars

\* "1: in the session_expire state, call back the SessionExpiredHandler" (comment
\* at ZkClient.cc:394): a tick that finds the session expired calls the handler, or
\* it was called since a tick last found the client connected.
ExpiryReported ==
  [][cpc = "handler" /\ cpc' = "arm" /\ HasHandler => told]_vars

-----------------------------------------------------------------------------
\* ZkReconnectPolicy, with the phase read off the timers and program counters.
phaseBar ==
  IF rpc \in {"init", "test", "waiting", "check", "failed", "ok1"} THEN "trying"
  ELSE IF retryTimers > 0 THEN "armed"
  ELSE IF isRetrying /\ rpc # "ok2" THEN "abandoned"
  ELSE "idle"

Policy == INSTANCE ZkReconnectPolicy WITH phase <- phaseBar, delay <- retryDelay

\* The reconnection keeps the promise of ZkReconnectPolicy.
ImplementsPolicy == Policy!PolicySpec
=============================================================================
