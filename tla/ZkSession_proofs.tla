-------------------------- MODULE ZkSession_proofs --------------------------
(***************************************************************************)
(* Proofs about ZkSession, for any set of zhandle_t's, any delays and any  *)
(* number of faults.                                                       *)
(***************************************************************************)
EXTENDS ZkSession, SequenceTheorems, TLAPS

\* Appending to a sequence of session events and taking its tail give one again.
LEMMA EventSeq ==
  ASSUME NEW s \in Seq(States)
  PROVE  /\ \A e \in States : /\ Append(s, e) \in Seq(States)
                              /\ Append(s, e) # <<>>
                              /\ s # <<>> => Head(Append(s, e)) = Head(s)
         /\ s # <<>> => Head(s) \in States /\ Tail(s) \in Seq(States)
  BY AppendProperties, HeadTailAppend, HeadTailProperties

\* Doubling a delay keeps it between the first delay and the ceiling.
LEMMA DoubledType ==
  ASSUME NEW d \in InitDelay..MaxDelay
  PROVE  Doubled(d) \in InitDelay..MaxDelay
  BY SessionAssumption DEF Doubled

\* zookeeper_init keeps the types of what it assigns.
LEMMA ZookeeperInitType ==
  ASSUME TypeOK, ZookeeperInit
  PROVE  /\ zh' \in [Zhandles -> ZhStates]
         /\ zhandle' \in Zhandles \union {NULL}
         /\ faults' \in Nat
<1>1. CASE \E h \in Zhandles : /\ zh[h] = "none"
                               /\ zh' = [zh EXCEPT ![h] = "fresh"]
                               /\ zhandle' = h
                               /\ UNCHANGED faults
  BY <1>1 DEF TypeOK, ZhStates
<1>2. CASE /\ faults' = IF faults < MaxFaults THEN faults + 1 ELSE faults
           /\ zhandle' = NULL
           /\ UNCHANGED zh
  BY <1>2 DEF TypeOK
<1> QED
  BY <1>1, <1>2 DEF ZookeeperInit

\* Events are only appended, and only sessionWatcher, when it is done with one, and
\* ~ZkClient, when no sessionWatcher runs, remove any.
LEMMA EventHeldStep == TypeOK /\ EventHeld /\ [Next]_vars => EventHeld'
<1> SUFFICES ASSUME TypeOK, EventHeld, [Next]_vars PROVE EventHeld'
  OBVIOUS
<1> USE DEF TypeOK, EventHeld
<1>1. CASE UNCHANGED <<wpc, events>>
  BY <1>1
<1>2. ASSUME NEW h \in Zhandles, ServerConnect(h) \/ ServerExpire(h) \/ ConnectionLoss(h)
      PROVE  EventHeld'
  BY <1>2, EventSeq DEF ServerConnect, ServerExpire, ConnectionLoss, States, pcVars
<1>3. ASSUME NEW h \in Zhandles, Watch(h)
      PROVE  EventHeld'
  BY <1>3 DEF Watch, WatchLookup, WatchSetStat, WatchFinish, libVars
<1>4. CASE Destructor
  BY <1>4 DEF Destructor, pcVars
<1> QED
  BY <1>1, <1>2, <1>3, <1>4
  DEF Next, Library, TimePasses, InitThread, InitZookeeper, InitTest, InitCheck,
      CheckThread, CheckFire, CheckRead, CheckExpire, CheckCallHandler,
      CheckHandlerReturns, CheckArmRetry, CheckRearm, RetryThread, RetryFire,
      RetryZookeeper, RetryTest, RetryCheck, RetryFailed, RetryResetDelay,
      RetryClearRetrying, RetryClearCall, User, SetIsSupportReconnect, DestroyClient,
      vars, clientVars, lifeVars, pcVars, libVars, ghostVars

\* Every variable keeps its type; the retry delay stays between kInitRetryDelay
\* and kMaxRetryDelay however often retry fails (ZkClient.cc:494, 557).
THEOREM TypeCorrect == Spec => []TypeOK
<1>1. Init => TypeOK
  <2> SUFFICES ASSUME Init PROVE TypeOK
    OBVIOUS
  <2>1. /\ wpc \in [Zhandles -> WatchPcs] /\ zh \in [Zhandles -> ZhStates]
        /\ events \in [Zhandles -> Seq(States)]
    BY DEF Init, WatchPcs, ZhStates
  <2>2. retryDelay \in InitDelay..MaxDelay
    BY SessionAssumption DEF Init
  <2> QED
    BY <2>1, <2>2 DEF Init, TypeOK, States, InitPcs, CheckPcs, RetryPcs
<1>2. TypeOK /\ EventHeld /\ [Next]_vars => TypeOK'
  <2> SUFFICES ASSUME TypeOK, EventHeld, [Next]_vars PROVE TypeOK'
    OBVIOUS
  <2> USE DEF TypeOK, clientVars, lifeVars, pcVars, libVars, ghostVars
  <2>1. ASSUME NEW h \in Zhandles, ServerConnect(h) \/ ServerExpire(h) \/ ConnectionLoss(h)
        PROVE  TypeOK'
    <3>1. /\ zh' \in [Zhandles -> ZhStates]
          /\ events' \in [Zhandles -> Seq(States)]
      BY ZenonT(40), <2>1, EventSeq DEF States, ZhStates, ServerConnect, ServerExpire, ConnectionLoss
    <3>2. CASE ServerConnect(h) \/ ServerExpire(h)
      BY SMTT(30), <3>2, <3>1 DEF ServerConnect, ServerExpire
    <3>3. CASE ConnectionLoss(h)
      BY <3>3, <3>1 DEF ConnectionLoss
    <3> QED
      BY <2>1, <3>2, <3>3
  <2>2. ASSUME NEW h \in Zhandles, WatchLookup(h)
        PROVE  TypeOK'
    <3>1. events' \in [Zhandles -> Seq(States)]
      BY ZenonT(40), <2>2, EventSeq DEF WatchLookup
    <3> QED
      BY <2>2, <3>1 DEF WatchLookup, WatchPcs
  <2>3. ASSUME NEW h \in Zhandles, WatchSetStat(h)
        PROVE  TypeOK'
    <3>1. stat' \in States
      BY <2>3, EventSeq DEF WatchSetStat, EventHeld
    <3> QED
      BY <2>3, <3>1 DEF WatchSetStat, WatchPcs
  <2>4. ASSUME NEW h \in Zhandles, WatchFinish(h)
        PROVE  TypeOK'
    <3>1. events' \in [Zhandles -> Seq(States)]
      BY <2>4, EventSeq DEF WatchFinish, EventHeld
    <3>2. ipc' \in InitPcs /\ rpc' \in RetryPcs /\ overdue' \in BOOLEAN
      BY <2>4 DEF WatchFinish, Notified, InitPcs, RetryPcs
    <3> QED
      BY <2>4, <3>1, <3>2 DEF WatchFinish, WatchPcs
  <2>5. CASE TimePasses
    BY <2>5 DEF TimePasses
  <2>6. CASE InitZookeeper
    <3>1. ipc' \in InitPcs
      BY <2>6 DEF InitZookeeper, InitPcs
    <3>2. ZookeeperInit
      BY <2>6 DEF InitZookeeper
    <3> QED
      BY <2>6, <3>1, <3>2, ZookeeperInitType DEF InitZookeeper
  <2>7. CASE InitTest
    BY <2>7 DEF InitTest, InitPcs
  <2>8. CASE InitCheck
    <3>1. ipc' \in InitPcs
      BY <2>8 DEF InitCheck, InitPcs
    <3>2. isInit' \in BOOLEAN /\ isRetrying' \in BOOLEAN /\ hasCall' \in BOOLEAN
      BY <2>8 DEF InitCheck
    <3>3. checkTimers' \in Nat
      BY <2>8 DEF InitCheck
    <3> QED
      BY <2>8, <3>1, <3>2, <3>3 DEF InitCheck
  <2>9. CASE CheckFire
    BY <2>9 DEF CheckFire, CheckPcs
  <2>10. CASE CheckRead
    BY <2>10 DEF CheckRead, CheckPcs
  <2>11. CASE CheckExpire
    BY <2>11 DEF CheckExpire, CheckPcs, States
  <2>12. CASE CheckCallHandler
    <3>1. cpc' \in CheckPcs
      BY <2>12 DEF CheckCallHandler, CheckPcs
    <3>2. calls' \in Nat
      BY <2>12 DEF CheckCallHandler
    <3>3. told' \in BOOLEAN
      BY <2>12 DEF CheckCallHandler
    <3> QED
      BY <2>12, <3>1, <3>2, <3>3 DEF CheckCallHandler
  <2>13. CASE CheckHandlerReturns
    BY <2>13 DEF CheckHandlerReturns, RecordCall, CheckPcs
  <2>14. CASE CheckArmRetry
    <3>1. cpc' \in CheckPcs /\ retryTimers' \in Nat
      BY <2>14 DEF CheckArmRetry, ArmRetry, CheckPcs
    <3>2. retryDelay' \in InitDelay..MaxDelay
      BY <2>14, DoubledType DEF CheckArmRetry, ArmRetry
    <3>3. isRetrying' \in BOOLEAN
      BY <2>14 DEF CheckArmRetry, ArmRetry
    <3> QED
      BY <2>14, <3>1, <3>2, <3>3 DEF CheckArmRetry
  <2>15. CASE CheckRearm
    BY <2>15 DEF CheckRearm, CheckPcs
  <2>16. CASE RetryFire
    BY <2>16 DEF RetryFire, RetryPcs
  <2>17. CASE RetryZookeeper
    <3>1. rpc' \in RetryPcs
      BY <2>17 DEF RetryZookeeper, RetryPcs
    <3>2. ZookeeperInit
      BY <2>17 DEF RetryZookeeper
    <3> QED
      BY <2>17, <3>1, <3>2, ZookeeperInitType DEF RetryZookeeper
  <2>18. CASE RetryTest
    BY <2>18 DEF RetryTest, RetryPcs
  <2>19. CASE RetryCheck
    BY <2>19 DEF RetryCheck, RetryPcs
  <2>20. CASE RetryFailed
    <3>1. rpc' \in RetryPcs /\ retryTimers' \in Nat
      BY <2>20 DEF RetryFailed, ArmRetry, RetryPcs
    <3>2. retryDelay' \in InitDelay..MaxDelay
      BY <2>20, DoubledType DEF RetryFailed, ArmRetry
    <3>3. isRetrying' \in BOOLEAN
      BY <2>20 DEF RetryFailed, ArmRetry
    <3> QED
      BY <2>20, <3>1, <3>2, <3>3 DEF RetryFailed
  <2>21. CASE RetryResetDelay
    BY <2>21, SessionAssumption DEF RetryResetDelay, ResetDelay, RetryPcs
  <2>22. CASE RetryClearRetrying
    BY <2>22 DEF RetryClearRetrying, RetryPcs
  <2>23. CASE RetryClearCall
    BY <2>23 DEF RetryClearCall, RetryPcs
  <2>24. CASE SetIsSupportReconnect
    BY <2>24 DEF SetIsSupportReconnect
  <2>25. CASE DestroyClient
    BY <2>25 DEF DestroyClient
  <2>26. CASE Destructor
    <3>1. zh' \in [Zhandles -> ZhStates] /\ events' \in [Zhandles -> Seq(States)]
      BY <2>26 DEF Destructor, ZhStates
    <3> QED
      BY <2>26, <3>1 DEF Destructor
  <2>27. CASE UNCHANGED vars
    BY <2>27 DEF vars
  <2> QED
    BY <2>1, <2>2, <2>3, <2>4, <2>5, <2>6, <2>7, <2>8, <2>9, <2>10, <2>11, <2>12,
       <2>13, <2>14, <2>15, <2>16, <2>17, <2>18, <2>19, <2>20, <2>21, <2>22, <2>23, <2>24, <2>25, <2>26, <2>27
       DEF Next, Library, Watch, InitThread, CheckThread, RetryThread, User
<1>3. Init => EventHeld
  BY DEF Init, EventHeld
<1>4. TypeOK /\ EventHeld /\ [Next]_vars => EventHeld'
  BY EventHeldStep
<1> QED
  BY <1>1, <1>2, <1>3, <1>4, PTL DEF Spec

-----------------------------------------------------------------------------

\* The fields that the timers and the flags are made of, and nothing else.
timerVars == <<retryTimers, checkTimers, rpc, cpc, ipc, isRetrying, retryDelay,
               isInit, calls, hasCall>>

\* A step of any thread keeps the timers and flags consistent.
LEMMA TimerStep == TypeOK /\ TimerInv /\ [Next]_vars => TimerInv'
<1> SUFFICES ASSUME TypeOK, TimerInv, [Next]_vars PROVE TimerInv'
  OBVIOUS
<1> USE DEF TimerInv, SingleRetry, RetryBusy, SingleCheck, BackoffReset, HandlerOnce,
            PhaseConsistent
<1>0. /\ retryTimers \in Nat /\ checkTimers \in Nat /\ calls \in Nat
      /\ isRetrying \in BOOLEAN /\ hasCall \in BOOLEAN /\ isInit \in BOOLEAN
  BY DEF TypeOK
<1>1. CASE UNCHANGED timerVars
  BY <1>1 DEF timerVars
<1>2. ASSUME NEW h \in Zhandles, WatchFinish(h)
      PROVE  TimerInv'
  BY <1>2 DEF WatchFinish, Notified, clientVars, lifeVars, ghostVars
<1>3. CASE InitZookeeper
  BY <1>3, <1>0 DEF InitZookeeper, clientVars, lifeVars, ghostVars
<1>4. CASE InitTest
  BY <1>4, <1>0 DEF InitTest, clientVars, lifeVars, ghostVars
<1>5. CASE InitCheck
  BY <1>5, <1>0 DEF InitCheck, clientVars, lifeVars, ghostVars
<1>6. CASE CheckFire
  BY <1>6, <1>0 DEF CheckFire, clientVars, lifeVars, ghostVars
<1>7. CASE CheckRead
  BY <1>7, <1>0 DEF CheckRead, clientVars, lifeVars, ghostVars
<1>8. CASE CheckExpire
  BY <1>8, <1>0 DEF CheckExpire, clientVars, lifeVars, ghostVars
<1>9. CASE CheckCallHandler
  BY <1>9, <1>0 DEF CheckCallHandler, clientVars, lifeVars, ghostVars
<1>10. CASE CheckHandlerReturns
  BY <1>10, <1>0 DEF CheckHandlerReturns, RecordCall, clientVars, lifeVars, ghostVars
<1>11. CASE CheckArmRetry
  BY <1>11, <1>0 DEF CheckArmRetry, ArmRetry, MayArm, clientVars, lifeVars, ghostVars
<1>12. CASE CheckRearm
  BY <1>12, <1>0 DEF CheckRearm, clientVars, lifeVars, ghostVars
<1>13. CASE RetryFire
  BY <1>13, <1>0 DEF RetryFire, clientVars, lifeVars, ghostVars
<1>14. CASE RetryZookeeper
  BY <1>14, <1>0 DEF RetryZookeeper, clientVars, lifeVars, ghostVars
<1>15. CASE RetryTest
  BY <1>15, <1>0 DEF RetryTest, clientVars, lifeVars, ghostVars
<1>16. CASE RetryCheck
  BY <1>16, <1>0 DEF RetryCheck, clientVars, lifeVars, ghostVars
<1>17. CASE RetryFailed
  BY <1>17, <1>0 DEF RetryFailed, ArmRetry, clientVars, lifeVars, ghostVars
<1>18. CASE RetryResetDelay
  BY <1>18, <1>0 DEF RetryResetDelay, ResetDelay, clientVars, lifeVars, ghostVars
<1>19. CASE RetryClearRetrying
  BY <1>19, <1>0 DEF RetryClearRetrying, clientVars, lifeVars, ghostVars
<1>20. CASE RetryClearCall
  BY <1>20, <1>0 DEF RetryClearCall, clientVars, lifeVars, ghostVars
<1>21. CASE Library \/ (\E h \in Zhandles : WatchLookup(h) \/ WatchSetStat(h)) \/ User
  BY <1>21, <1>1 DEF timerVars, Library, TimePasses, ServerConnect, ServerExpire,
    ConnectionLoss, WatchLookup, WatchSetStat, User, SetIsSupportReconnect,
    DestroyClient, Destructor, clientVars, lifeVars, pcVars, ghostVars
<1>22. CASE UNCHANGED vars
  BY <1>22, <1>1 DEF timerVars, vars, clientVars, lifeVars, pcVars, ghostVars
<1> QED
  BY <1>1, <1>2, <1>3, <1>4, <1>5, <1>6, <1>7, <1>8, <1>9, <1>10, <1>11, <1>12, <1>13,
     <1>14, <1>15, <1>16, <1>17, <1>18, <1>19, <1>20, <1>21, <1>22
  DEF Next, Watch, InitThread, CheckThread, RetryThread

\* A step of any thread keeps sessionWatcher alone between its two writes, and keeps
\* init() from waiting for a state that has settled already.
LEMMA WatchStep == TypeOK /\ TimerInv /\ WatchInv /\ [Next]_vars => WatchInv'
<1> SUFFICES ASSUME TypeOK, TimerInv, WatchInv, [Next]_vars PROVE WatchInv'
  OBVIOUS
<1>0. EventHeld'
  BY EventHeldStep DEF WatchInv, WatchConsistent
<1>a. /\ wpc \in [Zhandles -> WatchPcs] /\ events \in [Zhandles -> Seq(States)]
      /\ cpc # "idle" => ipc = "done"
  BY DEF TypeOK, TimerInv, SingleCheck, PhaseConsistent
<1> USE DEF WatchInv, InitWoken, WatchConsistent
<1>1. CASE UNCHANGED <<wpc, events, stat, ipc>>
  BY <1>1, <1>0
<1>2. ASSUME NEW h \in Zhandles, ServerConnect(h) \/ ServerExpire(h) \/ ConnectionLoss(h)
      PROVE  WatchInv'
  <2>1. UNCHANGED <<wpc, stat, ipc>>
    BY <1>2 DEF ServerConnect, ServerExpire, ConnectionLoss, clientVars, pcVars
  <2>2. PICK e \in States : events' = [events EXCEPT ![h] = Append(events[h], e)]
    BY <1>2 DEF ServerConnect, ServerExpire, ConnectionLoss, States
  <2>3. events[h] # <<>> => Head(Append(events[h], e)) = Head(events[h])
    BY <1>a, EventSeq
  <2>4. \A g \in Zhandles : events[g] # <<>> => Head(events'[g]) = Head(events[g])
    BY <1>a, <2>2, <2>3
  <2> QED
    BY <1>0, <2>1, <2>4 DEF EventHeld
<1>3. ASSUME NEW h \in Zhandles, WatchLookup(h)
      PROVE  WatchInv'
  <2>1. \A g \in Zhandles : (wpc'[g] = "finish" <=> wpc[g] = "finish")
                             /\ (wpc[g] = "finish" => events'[g] = events[g])
    BY <1>3, <1>a DEF WatchLookup
  <2>2. UNCHANGED <<stat, ipc>>
    BY <1>3 DEF WatchLookup, clientVars
  <2> QED
    BY <1>0, <2>1, <2>2
<1>4. ASSUME NEW h \in Zhandles, WatchSetStat(h)
      PROVE  WatchInv'
  <2>1. \A g \in Zhandles : wpc'[g] = "finish" <=> g = h
    BY <1>4, <1>a DEF WatchSetStat, StateMutexFree
  <2>2. stat' = Head(events'[h]) /\ ipc' = ipc
    BY <1>4 DEF WatchSetStat, libVars
  <2> QED
    BY <1>0, <2>1, <2>2
<1>5. ASSUME NEW h \in Zhandles, WatchFinish(h)
      PROVE  WatchInv'
  <2>1. \A g \in Zhandles : wpc'[g] # "finish"
    BY <1>5, <1>a DEF WatchFinish
  <2>2. stat' = stat /\ (ipc' = "waiting" => ipc = "waiting")
    BY <1>5 DEF WatchFinish, Notified
  <2>3. ipc' = "waiting" => stat \notin Settled
    <3>1. CASE Head(events[h]) \in Settled
      BY <1>5, <3>1 DEF WatchFinish, Notified
    <3>2. CASE Head(events[h]) \notin Settled
      BY <1>5, <3>2, <2>2 DEF WatchFinish
    <3> QED
      BY <3>1, <3>2
  <2> QED
    BY <1>0, <2>1, <2>2, <2>3
<1>6. CASE InitThread
  <2>1. UNCHANGED <<wpc, events, stat>> /\ ipc # "done"
    BY <1>6 DEF InitThread, InitZookeeper, InitTest, InitCheck, libVars, clientVars
  <2>2. ipc' = "waiting" => stat \notin Settled
    BY <1>6 DEF InitThread, InitZookeeper, InitTest, InitCheck
  <2> QED
    BY <1>0, <2>1, <2>2
<1>7. CASE CheckExpire
  <2>1. UNCHANGED <<wpc, events, ipc>> /\ ipc = "done"
    BY <1>7, <1>a DEF CheckExpire, libVars
  <2> QED
    BY <1>0, <2>1
<1>8. CASE Destructor
  BY <1>8, <1>0 DEF Destructor, pcVars
<1> QED
  BY <1>1, <1>2, <1>3, <1>4, <1>5, <1>6, <1>7, <1>8
  DEF Next, Library, TimePasses, Watch, CheckThread, CheckFire, CheckRead,
      CheckCallHandler, CheckHandlerReturns, CheckArmRetry, CheckRearm, RetryThread,
      RetryFire, RetryZookeeper, RetryTest, RetryCheck, RetryFailed, RetryResetDelay,
      RetryClearRetrying, RetryClearCall, User, SetIsSupportReconnect, DestroyClient,
      vars, clientVars, lifeVars, pcVars, libVars, ghostVars

-----------------------------------------------------------------------------
\* Whoever enters a function of the client has found it in the map, and the map
\* never gets it back.
LEMMA LifeStep == TypeOK /\ LifeInv /\ [Next]_vars => LifeInv'
<1> SUFFICES ASSUME TypeOK, LifeInv, [Next]_vars PROVE LifeInv'
  OBVIOUS
<1> USE DEF LifeInv, ClosedUnused, ClientFound, lifeVars, pcVars
<1>1. CASE UNCHANGED <<inMap, closed, cpc, rpc, wpc>>
  BY <1>1
<1>2. CASE Library
  BY <1>2 DEF Library, TimePasses, ServerConnect, ServerExpire, ConnectionLoss
<1>3. ASSUME NEW h \in Zhandles, Watch(h) PROVE LifeInv'
  <2>1. wpc[h] # "idle" \/ inMap \/ UNCHANGED wpc
    BY <1>3 DEF Watch, WatchLookup, WatchSetStat, WatchFinish
  <2>2. UNCHANGED <<inMap, closed>>
    BY <1>3 DEF Watch, WatchLookup, WatchSetStat, WatchFinish
  <2>3. closed => UNCHANGED <<wpc, cpc, rpc>>
    BY <1>3, <2>1 DEF Watch, WatchLookup, WatchSetStat, WatchFinish, Notified
  <2> QED
    BY <2>2, <2>3
<1>4. CASE InitThread
  BY <1>4 DEF InitThread, InitZookeeper, InitTest, InitCheck
<1>5. CASE CheckThread
  BY <1>5 DEF CheckThread, CheckFire, CheckRead, CheckExpire, CheckCallHandler,
              CheckHandlerReturns, CheckArmRetry, CheckRearm
<1>6. CASE RetryThread
  BY <1>6 DEF RetryThread, RetryFire, RetryZookeeper, RetryTest, RetryCheck,
              RetryFailed, RetryResetDelay, RetryClearRetrying, RetryClearCall
<1>7. CASE User
  BY <1>7 DEF User, SetIsSupportReconnect, DestroyClient, Destructor
<1> QED
  BY <1>1, <1>2, <1>3, <1>4, <1>5, <1>6, <1>7 DEF Next, vars

\* The inductive invariant holds of every behaviour.
THEOREM Inductive == Spec => []IInv
<1>1. Init => IInv
  BY DEF Init, IInv, TimerInv, WatchInv, SingleRetry, RetryBusy, SingleCheck,
    BackoffReset, HandlerOnce, PhaseConsistent, InitWoken, WatchConsistent, EventHeld,
    LifeInv, ClosedUnused
<1>2. TypeOK /\ IInv /\ [Next]_vars => IInv'
  BY TimerStep, WatchStep, LifeStep DEF IInv
<1> QED
  BY <1>1, <1>2, TypeCorrect, PTL DEF Spec

\* At most one retry and one check are ever outstanding, the back-off starts over
\* with every success, the user's handler runs at most once between two successes,
\* the thread in init() never waits for a state that has settled, and no thread is
\* inside a client that has been destroyed.
THEOREM Safety ==
  Spec => []( /\ SingleRetry /\ SingleCheck /\ BackoffReset /\ HandlerOnce
              /\ InitWoken /\ ClosedUnused )
<1>1. IInv => /\ SingleRetry /\ SingleCheck /\ BackoffReset /\ HandlerOnce
              /\ InitWoken /\ ClosedUnused
  BY DEF IInv, TimerInv, WatchInv, LifeInv
<1> QED
  BY <1>1, Inductive, PTL

\* ZkClient.cc:550-564: however ticks, retries and reconnect() interleave, one retry at
\* most is pending or running and isRetrying_ says so, and the checking is one chain.
THEOREM OneOfEachTimer == Spec => []SingleTimers
<1>1. IInv => SingleTimers
  BY DEF IInv, TimerInv, SingleTimers
<1> QED
  BY <1>1, Inductive, PTL

\* ZkClient.cc:542-548: the expired handler is called at most once between two
\* reconnections that succeed.
THEOREM HandlerOncePerOutage == Spec => []HandlerOnce
<1>1. IInv => HandlerOnce
  BY DEF IInv, TimerInv
<1> QED
  BY <1>1, Inductive, PTL

-----------------------------------------------------------------------------

\* Every step of the threads is a step of ZkReconnectPolicy or leaves it as it is.
LEMMA PolicyStep ==
  ASSUME TypeOK, TimerInv, [Next]_vars
  PROVE  [Policy!PolicyNext]_(Policy!policyVars)
<1> USE DEF TimerInv, SingleRetry, RetryBusy, BackoffReset, PhaseConsistent, phaseBar,
            Policy!PolicyNext, Policy!policyVars
<1>0. /\ retryTimers \in Nat /\ isRetrying \in BOOLEAN /\ rpc \in RetryPcs
  BY DEF TypeOK
<1>1. CASE UNCHANGED <<retryTimers, rpc, isRetrying, retryDelay>>
  BY <1>1
<1>2. ASSUME NEW h \in Zhandles, WatchFinish(h)
      PROVE  UNCHANGED <<phaseBar, retryDelay>>
  BY <1>2 DEF WatchFinish, Notified, lifeVars
<1>3. CASE InitCheck
  BY <1>3, <1>0 DEF InitCheck
<1>4. CASE CheckArmRetry
  <2>1. CASE MayArm
    <3>1. Policy!Plan
      BY <1>4, <2>1, <1>0 DEF CheckArmRetry, ArmRetry, MayArm, Doubled, Policy!Plan, Policy!Doubled
    <3> QED
      BY <3>1
  <2>2. CASE ~MayArm
    BY <1>4, <2>2, <1>1 DEF CheckArmRetry
  <2> QED
    BY <2>1, <2>2
<1>5. CASE RetryFire
  BY <1>5, <1>0 DEF RetryFire, clientVars, Policy!Try, Policy!Abandon
<1>6. CASE RetryZookeeper \/ RetryTest \/ RetryCheck
  BY <1>6, <1>0 DEF RetryZookeeper, RetryTest, RetryCheck, clientVars, lifeVars
<1>7. CASE RetryFailed
  BY <1>7, <1>0 DEF RetryFailed, ArmRetry, Doubled, Policy!Plan, Policy!Abandon, Policy!Doubled
<1>8. CASE RetryResetDelay
  BY <1>8, <1>0 DEF RetryResetDelay, ResetDelay, lifeVars, Policy!Succeed
<1>9. CASE RetryClearRetrying \/ RetryClearCall
  BY <1>9, <1>0 DEF RetryClearRetrying, RetryClearCall, lifeVars
<1> QED
  BY <1>1, <1>2, <1>3, <1>4, <1>5, <1>6, <1>7, <1>8, <1>9
  DEF Next, Library, TimePasses, ServerConnect, ServerExpire, ConnectionLoss, Watch,
      WatchLookup, WatchSetStat, InitThread, InitZookeeper, InitTest, CheckThread,
      CheckFire, CheckRead, CheckExpire, CheckCallHandler, CheckHandlerReturns,
      CheckRearm, RetryThread, User, SetIsSupportReconnect, DestroyClient, Destructor,
      vars, clientVars, lifeVars, pcVars, libVars, ghostVars

\* ZkSession implements ZkReconnectPolicy: seen through its timers and flags, the
\* reconnection is one loop that plans, tries, backs off and starts over.
THEOREM Refinement == Spec => ImplementsPolicy
<1>1. Init => Policy!PolicyInit
  BY DEF Init, Policy!PolicyInit, phaseBar
<1>2. TypeOK /\ IInv /\ [Next]_vars => [Policy!PolicyNext]_(Policy!policyVars)
  BY PolicyStep DEF IInv
<1> QED
  BY <1>1, <1>2, TypeCorrect, Inductive, PTL DEF Spec, ImplementsPolicy, Policy!PolicySpec
-----------------------------------------------------------------------------
(* A connection that checkSessionState declares expired too early: the finding of
   ExpiresAfterTimeout, and that there is no other way to it. *)

\* While sessionWatcher stands between its two writes the state is the event that it
\* handles, unless the first thread has meanwhile written that the client is expired.
StateIsEvent == \A h \in Zhandles :
    wpc[h] = "finish" => stat = "EXPIRED" \/ stat = Head(events[h])

\* Once init() has seen the session settle, the timeout has passed since an old
\* disconnection only, and not since this one, just between the two writes.
OverdueSince ==
    ipc \in {"check", "done"} /\ stat = "CONNECTING" /\ overdue
        => longOutage \/ \E h \in Zhandles : wpc[h] = "finish"

OutageInv == StateIsEvent /\ OverdueSince

LEMMA OutageStep == TypeOK /\ WatchInv /\ OutageInv /\ [Next]_vars => OutageInv'
<1> SUFFICES ASSUME TypeOK, WatchInv, OutageInv, [Next]_vars PROVE OutageInv'
  OBVIOUS
<1>a. /\ wpc \in [Zhandles -> WatchPcs] /\ events \in [Zhandles -> Seq(States)]
      /\ overdue \in BOOLEAN /\ longOutage \in BOOLEAN
  BY DEF TypeOK
<1>b. EventHeld /\ \A g, h \in Zhandles : wpc[g] = "finish" /\ wpc[h] = "finish" => g = h
  BY DEF WatchInv, WatchConsistent
<1> USE DEF OutageInv, StateIsEvent, OverdueSince
<1>1. CASE /\ UNCHANGED <<wpc, events, stat, overdue, longOutage>>
           /\ ipc' \in {"check", "done"} => ipc \in {"check", "done"} \/ stat \in Settled
  BY <1>1 DEF Settled
<1>2. ASSUME NEW h \in Zhandles, ServerConnect(h) \/ ServerExpire(h) \/ ConnectionLoss(h)
      PROVE  OutageInv'
  <2>1. UNCHANGED <<wpc, stat, ipc, overdue, longOutage>>
    BY <1>2 DEF ServerConnect, ServerExpire, ConnectionLoss, clientVars, pcVars, ghostVars
  <2>2. PICK e \in States : events' = [events EXCEPT ![h] = Append(events[h], e)]
    BY <1>2 DEF ServerConnect, ServerExpire, ConnectionLoss, States
  <2>3. events[h] # <<>> => Head(Append(events[h], e)) = Head(events[h])
    BY <1>a, EventSeq
  <2>4. \A g \in Zhandles : events[g] # <<>> => Head(events'[g]) = Head(events[g])
    BY <1>a, <2>2, <2>3
  <2> QED
    BY <1>b, <2>1, <2>4 DEF EventHeld
<1>3. CASE TimePasses
  <2>1. UNCHANGED <<wpc, stat, ipc, events>> /\ (stat # "CONNECTED" => longOutage')
    BY <1>3 DEF TimePasses, pcVars, libVars
  <2> QED
    BY <2>1
<1>4. ASSUME NEW h \in Zhandles, WatchLookup(h)
      PROVE  OutageInv'
  <2>1. \A g \in Zhandles : (wpc'[g] = "finish" <=> wpc[g] = "finish")
                             /\ (wpc[g] = "finish" => events'[g] = events[g])
    BY <1>4, <1>a DEF WatchLookup
  <2>2. UNCHANGED <<stat, ipc, overdue, longOutage>>
    BY <1>4 DEF WatchLookup, clientVars, ghostVars
  <2> QED
    BY <2>1, <2>2
<1>5. ASSUME NEW h \in Zhandles, WatchSetStat(h)
      PROVE  OutageInv'
  <2>1. \A g \in Zhandles : wpc'[g] = "finish" <=> g = h
    BY <1>5, <1>a DEF WatchSetStat, StateMutexFree
  <2>2. stat' = Head(events'[h])
    BY <1>5 DEF WatchSetStat, libVars
  <2> QED
    BY <2>1, <2>2
<1>6. ASSUME NEW h \in Zhandles, WatchFinish(h)
      PROVE  OutageInv'
  <2>1. \A g \in Zhandles : wpc'[g] # "finish"
    BY <1>6, <1>a, <1>b DEF WatchFinish
  <2>2. stat' = stat /\ wpc[h] = "finish"
    BY <1>6 DEF WatchFinish
  <2>3. stat = "CONNECTING" => ~overdue'
    BY <1>6, <2>2 DEF WatchFinish, Settled
  <2> QED
    BY <2>1, <2>2, <2>3
<1>7. CASE CheckExpire
  <2>1. UNCHANGED <<wpc, events>> /\ stat' = "EXPIRED"
    BY <1>7 DEF CheckExpire, libVars
  <2> QED
    BY <2>1
<1>8. CASE Destructor
  BY <1>8 DEF Destructor, pcVars, ghostVars
<1> QED
  BY <1>1, <1>2, <1>3, <1>4, <1>5, <1>6, <1>7, <1>8
  DEF Next, Library, Watch, InitThread, InitZookeeper, InitTest, InitCheck,
      CheckThread, CheckFire, CheckRead,
      CheckCallHandler, CheckHandlerReturns, CheckArmRetry, CheckRearm, RetryThread,
      RetryFire, RetryZookeeper, RetryTest, RetryCheck, RetryFailed, RetryResetDelay,
      RetryClearRetrying, RetryClearCall, User, SetIsSupportReconnect, DestroyClient,
      vars, clientVars, lifeVars, pcVars, libVars, ghostVars

\* ZkClient.cc:527, 619, 635: a tick takes a connection for expired that has not been lost
\* for the session timeout only when sessionWatcher, at that moment, has written
\* sessionState_ and not yet sessionDisconnectMs_.
THEOREM EarlyOnlyInBetween ==
  Spec => [][cpc = "age" /\ cpc' = "expire" /\ stat = "CONNECTING"
               => longOutage \/ \E h \in Zhandles : wpc[h] = "finish"]_vars
<1> DEFINE NotEarly == cpc = "age" /\ cpc' = "expire" /\ stat = "CONNECTING"
                         => longOutage \/ \E h \in Zhandles : wpc[h] = "finish"
<1>1. Init => OutageInv
  BY DEF Init, OutageInv, StateIsEvent, OverdueSince
<1>2. TypeOK /\ IInv /\ OutageInv /\ [Next]_vars => OutageInv'
  BY OutageStep DEF IInv
<1>3. TypeOK /\ IInv /\ OutageInv /\ [Next]_vars => [NotEarly]_vars
  <2> SUFFICES ASSUME IInv, OutageInv, [Next]_vars, cpc = "age", cpc' = "expire",
                      stat = "CONNECTING"
               PROVE  longOutage \/ \E h \in Zhandles : wpc[h] = "finish"
    OBVIOUS
  <2>1. ipc = "done"
    BY DEF IInv, TimerInv, SingleCheck, PhaseConsistent
  <2>2. overdue
    BY DEF Next, Library, TimePasses, ServerConnect, ServerExpire, ConnectionLoss, Watch,
      WatchLookup, WatchSetStat, WatchFinish, InitThread, InitZookeeper, InitTest, InitCheck,
      CheckThread, CheckFire, CheckRead, CheckExpire,
      CheckCallHandler, CheckHandlerReturns, CheckArmRetry, CheckRearm, RetryThread,
      RetryFire, RetryZookeeper, RetryTest, RetryCheck, RetryFailed, RetryResetDelay,
      RetryClearRetrying, RetryClearCall, User, SetIsSupportReconnect, DestroyClient,
      Destructor, vars, clientVars, lifeVars, pcVars, libVars, ghostVars
  <2> QED
    BY <2>1, <2>2 DEF OutageInv, OverdueSince
<1> QED
  BY <1>1, <1>2, <1>3, TypeCorrect, Inductive, PTL DEF Spec
=============================================================================
