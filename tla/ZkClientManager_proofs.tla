------------------------ MODULE ZkClientManager_proofs ------------------------
(***************************************************************************)
(* Proofs about the two halves of ZkClientManager.cc.                      *)
(* ZkFunctors, runInThread and the loop of a thread, for any number of     *)
(* callers and functors: the types, that the loop never sleeps on queued   *)
(* functors, and that it implements ZkExecutor.                            *)
(* ZkClientManager, the registry: while the calls of createZkClient do not *)
(* overlap, a handle finds the client that it was made for, whatever the   *)
(* number of clients and however often the handles have wrapped around.    *)
(* That they do not overlap is needed: the run registry_race shows what    *)
(* happens when two threads create clients at once.                        *)
(***************************************************************************)
EXTENDS ZkFunctors, ZkClientManager, Integers, FiniteSetTheorems, SequenceTheorems, TLAPS

-----------------------------------------------------------------------------
(* ZkFunctors: its types, its wake-ups, and that it implements ZkExecutor. *)

\* Appending a functor to a queue of functors, and taking its head away, give queues
\* of functors.
LEMMA QueueOps ==
  ASSUME NEW S, NEW q \in Seq(S)
  PROVE  /\ \A f \in S : Append(q, f) \in Seq(S)
         /\ q # <<>> => Head(q) \in S /\ Tail(q) \in Seq(S)
  OBVIOUS

\* The functors of the batch come before those pending: a functor queued goes to the
\* end, and the head of the batch is the head of the whole.
LEMMA QueueBar ==
  ASSUME NEW S, NEW b \in Seq(S), NEW p \in Seq(S)
  PROVE  /\ \A f \in S : b \o Append(p, f) = Append(b \o p, f)
         /\ b # <<>> => /\ b \o p # <<>>
                        /\ Head(b) = Head(b \o p)
                        /\ Tail(b) \o p = Tail(b \o p)
         /\ p \o <<>> = p
         /\ <<>> \o p = p
<1>1. ASSUME NEW f \in S PROVE b \o Append(p, f) = Append(b \o p, f)
  OBVIOUS
<1>2. ASSUME b # <<>>
      PROVE  b \o p # <<>> /\ Head(b) = Head(b \o p) /\ Tail(b) \o p = Tail(b \o p)
  <2>1. Len(b) > 0 /\ Len(b \o p) = Len(b) + Len(p)
    BY <1>2
  <2>2. b \o p # <<>>
    BY <2>1
  <2>3. Head(b) = Head(b \o p)
    BY <2>1
  <2>4. Tail(b) \o p = Tail(b \o p)
    BY <2>1
  <2> QED BY <2>2, <2>3, <2>4
<1>3. p \o <<>> = p /\ <<>> \o p = p
  BY ConcatEmptySeq
<1> QED BY <1>1, <1>2, <1>3

-----------------------------------------------------------------------------
\* The types hold at the start and every step keeps them.
LEMMA TypesStep == Types /\ [Next]_vars => Types'
<1> SUFFICES ASSUME Types, [Next]_vars PROVE Types'
  OBVIOUS
<1> USE FunctorsAssumption DEF Types
<1>1. ASSUME NEW c \in Callers, RunInThread(c) PROVE Types'
  <2>1. made + 1 \in Functors /\ made' \in 0..MaxFunctors
    BY <1>1 DEF RunInThread, Functors
  <2>2. fn' \in [Callers -> Nat] /\ (\A d \in Callers : pc'[d] # "idle" => fn'[d] \in Functors)
    BY <1>1, <2>1 DEF RunInThread, Functors
  <2>3. known' \in [Callers -> BOOLEAN]
    <3>1. (lpc # "new") \in BOOLEAN
      OBVIOUS
    <3> QED BY <1>1, <3>1, Zenon DEF RunInThread
  <2>4. pc' \in [Callers -> CallerPcs]
    BY <1>1 DEF RunInThread, CallerPcs
  <2> QED BY <1>1, <2>1, <2>2, <2>3, <2>4 DEF RunInThread, loopVars
<1>2. ASSUME NEW c \in Callers, QueueInThreadFuns(c) PROVE Types'
  <2>1. pending' \in Seq(Functors) /\ orphans' \in Seq(Functors)
    <3>1. /\ pending \in Seq(Functors) /\ orphans \in Seq(Functors)
          /\ fn[c] \in Functors
      BY <1>2 DEF QueueInThreadFuns
    <3>2. Append(pending, fn[c]) \in Seq(Functors) /\ Append(orphans, fn[c]) \in Seq(Functors)
      BY <3>1, AppendProperties
    <3> QED
      BY <1>2, <3>1, <3>2 DEF QueueInThreadFuns
  <2>2. pc' \in [Callers -> CallerPcs]
    BY <1>2 DEF QueueInThreadFuns, CallerPcs
  <2>3. \A d \in Callers : pc'[d] # "idle" => fn'[d] \in Functors
    BY <1>2 DEF QueueInThreadFuns
  <2> QED BY <1>2, <2>1, <2>2, <2>3 DEF QueueInThreadFuns, loopVars
<1>3. ASSUME NEW c \in Callers, Wakeup(c) PROVE Types'
  <2>1. pc' \in [Callers -> CallerPcs]
    BY <1>3 DEF Wakeup, CallerPcs
  <2>2. missed' \in BOOLEAN
    <3>1. missed' = (missed \/ (known[c] /\ ~HasThreadData(c)))
      BY <1>3 DEF Wakeup
    <3> QED BY <3>1, Zenon
  <2>3. \A d \in Callers : pc'[d] # "idle" => fn'[d] \in Functors
    BY <1>3 DEF Wakeup
  <2> QED BY <1>3, <2>1, <2>2, <2>3 DEF Wakeup, loopVars
<1>4. ASSUME NEW c \in Callers, WriteEventfd(c) PROVE Types'
  <2>1. pc' \in [Callers -> CallerPcs]
    BY <1>4 DEF WriteEventfd, CallerPcs
  <2>2. \A d \in Callers : pc'[d] # "idle" => fn'[d] \in Functors
    BY <1>4 DEF WriteEventfd
  <2> QED BY <1>4, <2>1, <2>2 DEF WriteEventfd, loopVars
<1>5. CASE ThreadStarts
  BY <1>5 DEF ThreadStarts, callerVars, LoopPcs
<1>6. CASE InsertOrSetThreadData
  BY <1>6 DEF InsertOrSetThreadData, Again, callerVars, LoopPcs
<1>7. CASE EpollEventfd
  BY <1>7 DEF EpollEventfd, callerVars, LoopPcs
<1>8. CASE EpollOther
  BY <1>8 DEF EpollOther, callerVars, LoopPcs
<1>9. CASE HandleEventFdRead
  BY <1>9 DEF HandleEventFdRead, callerVars, LoopPcs
<1>10. CASE StartCalling
  BY <1>10 DEF StartCalling, callerVars, LoopPcs
<1>11. CASE SwapFunctors
  <2>1. pending' \in Seq(Functors) /\ batch' \in Seq(Functors)
    BY <1>11 DEF SwapFunctors, Swap
  <2> QED BY <1>11, <2>1 DEF SwapFunctors, callerVars, LoopPcs
<1>12. CASE CallFunctor
  <2>1. batch' \in Seq(Functors) /\ called' \in Seq(Functors)
    BY <1>12, QueueOps DEF CallFunctor
  <2> QED BY <1>12, <2>1 DEF CallFunctor, callerVars
<1>13. CASE StopCalling
  BY <1>13 DEF StopCalling, Again, callerVars, LoopPcs
<1>14. CASE RunInThreadItself
  <2>1. made + 1 \in Functors /\ made' \in 0..MaxFunctors
    BY <1>14 DEF RunInThreadItself, Functors
  <2>2. called' \in Seq(Functors)
    BY <1>14, <2>1, QueueOps DEF RunInThreadItself
  <2> QED BY <1>14, <2>1, <2>2 DEF RunInThreadItself, loopVars
<1>15. CASE Exit
  BY <1>15 DEF Exit, loopVars, callerVars
<1>16. CASE UNCHANGED vars
  BY <1>16 DEF vars, loopVars, callerVars
<1> QED
  BY <1>1, <1>2, <1>3, <1>4, <1>5, <1>6, <1>7, <1>8, <1>9, <1>10, <1>11, <1>12,
     <1>13, <1>14, <1>15, <1>16 DEF Next, Caller, Loop

\* The batch is used up when the loop swaps again, and the calling flag is set while
\* it calls.
LEMMA TypeOKStep == TypeOK /\ [Next]_vars => TypeOK'
<1> SUFFICES ASSUME TypeOK, [Next]_vars PROVE TypeOK'
  OBVIOUS
<1>1. Types'
  BY TypesStep DEF TypeOK
<1>2. (lpc # "run" => batch = <<>>)'
  <2>1. CASE \E c \in Callers : RunInThread(c) \/ Caller(c)
    BY <2>1 DEF TypeOK, Caller, RunInThread, QueueInThreadFuns, Wakeup,
                WriteEventfd, loopVars
  <2>2. CASE Loop \/ RunInThreadItself \/ Exit \/ UNCHANGED vars
    BY <2>2 DEF TypeOK, Loop, ThreadStarts, InsertOrSetThreadData, EpollEventfd,
                EpollOther, HandleEventFdRead, StartCalling, SwapFunctors,
                CallFunctor, StopCalling, AllCalled, RunInThreadItself, Exit, vars,
                loopVars, Again
  <2> QED BY <2>1, <2>2 DEF Next
<1>3. (calling <=> lpc \in {"swap", "run"})'
  <2>1. CASE \E c \in Callers : RunInThread(c) \/ Caller(c)
    BY <2>1 DEF TypeOK, Caller, RunInThread, QueueInThreadFuns, Wakeup,
                WriteEventfd, loopVars
  <2>2. CASE Loop \/ RunInThreadItself \/ Exit \/ UNCHANGED vars
    BY <2>2 DEF TypeOK, Loop, ThreadStarts, InsertOrSetThreadData, EpollEventfd,
                EpollOther, HandleEventFdRead, StartCalling, SwapFunctors,
                CallFunctor, StopCalling, RunInThreadItself, Exit, vars, loopVars,
                Again
  <2> QED BY <2>1, <2>2 DEF Next
<1> QED BY <1>1, <1>2, <1>3 DEF TypeOK

\* No step takes the last wake-up away from queued functors: the eventfd is read, and
\* the swap comes, after epoll_wait has returned and before the next one.
LEMMA WakeupStep == TypeOK /\ WakeupInv /\ [Next]_vars => WakeupInv'
<1> SUFFICES ASSUME TypeOK, WakeupInv, [Next]_vars PROVE WakeupInv'
  OBVIOUS
<1> USE DEF WakeupInv, Waking
<1>1. ASSUME NEW c \in Callers, RunInThread(c) PROVE WakeupInv'
  <2>1. \A d \in Callers : Waking(d) => Waking(d)'
    BY <1>1 DEF TypeOK, Types, RunInThread
  <2> QED BY <1>1, <2>1 DEF RunInThread, loopVars
<1>2. ASSUME NEW c \in Callers, QueueInThreadFuns(c) PROVE WakeupInv'
  <2>1. CASE known[c]
    <3>1. Waking(c)'
      BY <1>2, <2>1 DEF TypeOK, Types, QueueInThreadFuns
    <3> QED BY <3>1
  <2>2. CASE ~known[c]
    <3>1. \A d \in Callers : Waking(d) => Waking(d)'
      BY <1>2 DEF TypeOK, Types, QueueInThreadFuns
    <3> QED BY <1>2, <2>2, <3>1 DEF QueueInThreadFuns, loopVars
  <2> QED BY <2>1, <2>2
<1>3. ASSUME NEW c \in Callers, Wakeup(c) PROVE WakeupInv'
  <2>1. \A d \in Callers \ {c} : Waking(d) => Waking(d)'
    BY <1>3 DEF TypeOK, Types, Wakeup
  <2>2. Waking(c) => Waking(c)' \/ missed'
    BY <1>3 DEF TypeOK, Types, Wakeup, HasThreadData, NeedsWrite
  <2>3. missed => missed'
    BY <1>3 DEF Wakeup
  <2> QED BY <1>3, <2>1, <2>2, <2>3 DEF Wakeup, loopVars
<1>4. ASSUME NEW c \in Callers, WriteEventfd(c) PROVE WakeupInv'
  <2>1. eventfd' > 0
    BY <1>4 DEF TypeOK, Types, WriteEventfd
  <2> QED BY <2>1
<1>5. CASE HandleEventFdRead \/ StartCalling \/ SwapFunctors
  BY <1>5 DEF HandleEventFdRead, StartCalling, SwapFunctors, Swap
<1>6. CASE EpollEventfd \/ EpollOther \/ ThreadStarts \/ InsertOrSetThreadData
  BY <1>6 DEF EpollEventfd, EpollOther, ThreadStarts, InsertOrSetThreadData,
              callerVars
<1>7. CASE CallFunctor \/ StopCalling \/ RunInThreadItself \/ Exit \/ UNCHANGED vars
  BY <1>7 DEF CallFunctor, StopCalling, RunInThreadItself, Exit, vars, callerVars,
              loopVars
<1> QED BY <1>1, <1>2, <1>3, <1>4, <1>5, <1>6, <1>7 DEF Next, Caller, Loop

\* The types of the state, the use of the batch and of callingPendingFunctors_.
THEOREM TypeCorrect == Spec => []TypeOK
<1>1. Init => TypeOK
  <2> SUFFICES ASSUME Init PROVE TypeOK
    OBVIOUS
  <2> USE FunctorsAssumption DEF Init
  <2>1. pending \in Seq(Functors) /\ orphans \in Seq(Functors)
    OBVIOUS
  <2>2. batch \in Seq(Functors) /\ called \in Seq(Functors)
    OBVIOUS
  <2>3. pc \in [Callers -> CallerPcs] /\ lpc \in LoopPcs
    BY DEF CallerPcs, LoopPcs
  <2>4. known \in [Callers -> BOOLEAN] /\ fn \in [Callers -> Nat]
    OBVIOUS
  <2>5. made \in 0..MaxFunctors /\ eventfd \in Nat
    OBVIOUS
  <2>6. \A c \in Callers : pc[c] # "idle" => fn[c] \in Functors
    OBVIOUS
  <2> QED BY <2>1, <2>2, <2>3, <2>4, <2>5, <2>6 DEF TypeOK, Types
<1> QED BY <1>1, TypeOKStep, PTL DEF Spec

\* Whatever the interleaving of any number of callers with the loop, it never waits in
\* epoll_wait on queued functors without a wake-up, its very first wait apart.
THEOREM Wakes == Spec => []NoLostWakeup
<1>1. Init => WakeupInv
  BY DEF Init, WakeupInv
<1>2. WakeupInv => NoLostWakeup
  BY DEF WakeupInv, NoLostWakeup
<1> QED BY <1>1, <1>2, TypeCorrect, WakeupStep, PTL DEF Spec

\* Each step of the loop and of its callers is a step of ZkExecutor, or none of its.
LEMMA ExecutorStep == TypeOK /\ [Next]_vars =>
                        [Executor!ExecutorNext]_<<batch \o pending, called>>
<1> SUFFICES ASSUME TypeOK, [Next]_vars
             PROVE  [Executor!ExecutorNext]_<<batch \o pending, called>>
  OBVIOUS
<1> USE DEF TypeOK, Types
<1>1. ASSUME NEW c \in Callers, RunInThread(c) \/ Wakeup(c) \/ WriteEventfd(c)
      PROVE  UNCHANGED <<batch \o pending, called>>
  BY <1>1 DEF RunInThread, Wakeup, WriteEventfd, loopVars
<1>2. ASSUME NEW c \in Callers, QueueInThreadFuns(c)
      PROVE  \/ Executor!Submit(fn[c]) /\ fn[c] \in Functors
             \/ UNCHANGED <<batch \o pending, called>>
  <2>1. fn[c] \in Functors
    BY <1>2 DEF QueueInThreadFuns
  <2>2. CASE known[c]
    <3>1. batch' = batch /\ pending' = Append(pending, fn[c]) /\ called' = called
      BY <1>2, <2>2 DEF QueueInThreadFuns, loopVars
    <3>2. (batch \o pending)' = Append(batch \o pending, fn[c])
      BY SMTT(30), <2>1, <3>1, QueueBar
    <3> QED BY <2>1, <3>1, <3>2 DEF Executor!Submit
  <2>3. CASE ~known[c]
    BY <1>2, <2>3 DEF QueueInThreadFuns, loopVars
  <2> QED BY <2>2, <2>3
<1>3. CASE SwapFunctors
  <2>1. batch = <<>> /\ batch' = pending /\ pending' = <<>> /\ called' = called
    BY <1>3 DEF SwapFunctors, Swap
  <2>2. (batch \o pending)' = batch \o pending
    BY <2>1, QueueBar
  <2> QED BY <2>1, <2>2
<1>4. CASE CallFunctor
  <2>1. /\ batch # <<>> /\ called' = Append(called, Head(batch))
        /\ batch' = Tail(batch) /\ pending' = pending
    BY <1>4 DEF CallFunctor
  <2>t. batch \in Seq(Functors) /\ pending \in Seq(Functors)
    OBVIOUS
  <2>2. /\ batch \o pending # <<>> /\ Head(batch) = Head(batch \o pending)
        /\ Tail(batch) \o pending = Tail(batch \o pending)
    BY SMTT(30), <2>1, <2>t, QueueBar
  <2>3. Executor!CallNext
    BY <2>1, <2>2 DEF Executor!CallNext
  <2> QED BY <2>3 DEF Executor!ExecutorNext
<1>5. CASE RunInThreadItself
  <2>1. made + 1 \in Functors
    BY <1>5, FunctorsAssumption DEF RunInThreadItself, Functors
  <2>2. Executor!CallNow(made + 1)
    BY <1>5 DEF RunInThreadItself, loopVars, Executor!CallNow
  <2> QED BY <2>1, <2>2 DEF Executor!ExecutorNext
<1>6. CASE \/ ThreadStarts \/ InsertOrSetThreadData \/ EpollEventfd \/ EpollOther
           \/ HandleEventFdRead \/ StartCalling \/ StopCalling \/ Exit
           \/ UNCHANGED vars
  BY <1>6 DEF ThreadStarts, InsertOrSetThreadData, EpollEventfd, EpollOther,
              HandleEventFdRead, StartCalling, StopCalling, Exit, vars, loopVars
<1> QED
  BY <1>1, <1>2, <1>3, <1>4, <1>5, <1>6
     DEF Next, Caller, Loop, Executor!ExecutorNext

\* The functors accepted from any number of threads are called once each, in the
\* order of the queue.
THEOREM Refinement == Spec => ImplementsExecutor
<1>1. Init => Executor!ExecutorInit
  BY DEF Init, Executor!ExecutorInit
<1> QED
  BY <1>1, TypeCorrect, ExecutorStep, PTL
     DEF Spec, ImplementsExecutor, Executor!ExecutorSpec

-----------------------------------------------------------------------------
(* ZkClientManager: the registry of the clients. *)

\* One thread at a time is in createZkClient.
OneCreation ==
    \A t, u \in Creators : createPc[t] # "idle" /\ createPc[u] # "idle" => t = u

(* What the thread that creates a client knows.                            *)
Counting ==
    \A t \in Creators :
      /\ createPc[t] \in {"add", "test", "new"} => creations < MaxCreations
      /\ createPc[t] = "add" => loaded[t] = nextHandle
      /\ createPc[t] = "new" => nextHandle # 0

Holding ==
    \A t \in Creators : createPc[t] \in {"insert", "init", "return"} =>
      /\ client[t] = creations /\ creations > 0 /\ nextHandle # 0
      /\ handleOf[creations] = nextHandle
      /\ \A r \in returned : r[1] # creations
      /\ createPc[t] # "insert" =>
           totalZkClients[nextHandle] = creations \/ creations \in destroyed
      /\ createPc[t] = "return" => creations \in isInit

\* Clients are found under their own handle, and were made.
Keyed ==
    \A h \in Handles : totalZkClients[h] # NoClient =>
      totalZkClients[h] <= creations /\ handleOf[totalZkClients[h]] = h

\* A handle that was returned finds its client, or that is destroyed or replaced.
Newer(r) == \E c \in Clients : c > r[1] /\ c <= creations /\ handleOf[c] = r[2]
Found ==
    \A r \in returned :
      /\ r[1] <= creations /\ r[2] # 0 /\ handleOf[r[1]] = r[2] /\ r[1] \in isInit
      /\ totalZkClients[r[2]] = r[1] \/ r[1] \in destroyed \/ Newer(r)

RegistryInv == RegistryTypeOK /\ Counting /\ Holding /\ Keyed /\ Found

USE RegistryAssumption DEF RegistryAssumption
-----------------------------------------------------------------------------
LEMMA SuccessorIs == \A n \in Handles : Successor(n) \in Handles
BY DEF Successor, Handles

\* A creation that starts while no other runs is within the bound.
LEMMA StartIs ==
  ASSUME RegistryInv, NEW t \in Creators, CreateZkClient(t), OneCreation'
  PROVE  creations < MaxCreations
<1> DEFINE B == {u \in Creators : createPc[u] \in {"add", "test", "new"}}
<1>1. /\ createPc[t] = "idle" /\ creations + Cardinality(B) < MaxCreations
      /\ createPc' = [createPc EXCEPT ![t] = "add"] /\ createPc \in [Creators -> CreatePcs]
      /\ creations \in Nat
  BY DEF CreateZkClient, RegistryInv, RegistryTypeOK
<1>2. B = {}
  <2> SUFFICES ASSUME NEW u \in B PROVE FALSE
    OBVIOUS
  <2>1. u # t /\ createPc'[u] # "idle" /\ createPc'[t] # "idle"
    BY <1>1
  <2> QED
    BY <2>1 DEF OneCreation
<1>3. Cardinality(B) = 0
  BY <1>2, FS_EmptySet
<1> QED
  BY <1>1, <1>3

LEMMA StepKeeps ==
  ASSUME RegistryInv, OneCreation, OneCreation', [RegistryNext]_registryVars
  PROVE  RegistryInv'
<1>0. /\ RegistryTypeOK /\ Counting /\ Holding /\ Keyed /\ Found
  BY DEF RegistryInv
<1>t. /\ nextHandle \in Handles /\ totalZkClients \in [Handles -> Clients \cup {NoClient}]
      /\ creations \in 0..MaxCreations /\ handleOf \in [Clients -> Handles]
      /\ createPc \in [Creators -> CreatePcs] /\ loaded \in [Creators -> Handles]
      /\ client \in [Creators -> Clients \cup {NoClient}]
      /\ isInit \subseteq Clients /\ returned \subseteq Clients \X Handles
      /\ destroyed \subseteq Clients /\ destroys \in 0..MaxDestroys
      /\ \A t \in Creators : client[t] # NoClient <=> createPc[t] \in {"insert", "init", "return"}
  BY <1>0 DEF RegistryTypeOK
<1>o. ASSUME NEW t \in Creators, createPc[t] # "idle"
      PROVE  \A u \in Creators : u # t => createPc[u] = "idle"
  BY <1>o DEF OneCreation
\* A step of t that only moves it, or loads nextHandle_.
<1>1. ASSUME NEW t \in Creators, CreateZkClient(t)
      PROVE  RegistryInv'
  <2>1. creations < MaxCreations
    BY <1>1, StartIs
  <2>2. /\ createPc[t] = "idle" /\ createPc' = [createPc EXCEPT ![t] = "add"]
        /\ loaded' = [loaded EXCEPT ![t] = nextHandle]
        /\ UNCHANGED <<nextHandle, totalZkClients, creations, handleOf, client, isInit,
                       returned, destroyed, destroys>>
    BY <1>1 DEF CreateZkClient
  <2>3. RegistryTypeOK'
    BY <1>t, <2>2 DEF RegistryTypeOK, CreatePcs
  <2>4. Counting'
    BY <1>0, <1>t, <2>1, <2>2 DEF Counting
  <2>5. Holding'
    BY <1>0, <1>t, <2>2 DEF Holding
  <2>6. Keyed' /\ Found'
    BY <1>0, <2>2 DEF Keyed, Found, Newer
  <2> QED
    BY <2>3, <2>4, <2>5, <2>6 DEF RegistryInv
<1>2. ASSUME NEW t \in Creators, Incremented(t)
      PROVE  RegistryInv'
  <2>1. /\ createPc[t] = "add" /\ createPc' = [createPc EXCEPT ![t] = "test"]
        /\ nextHandle' = Successor(loaded[t])
        /\ UNCHANGED <<totalZkClients, creations, handleOf, loaded, client, isInit,
                       returned, destroyed, destroys>>
    BY <1>2 DEF Incremented
  <2>2. nextHandle' \in Handles
    BY <1>t, <2>1, SuccessorIs
  <2>3. \A u \in Creators : u # t => createPc'[u] = "idle"
    BY <1>o, <1>t, <2>1
  <2>4. RegistryTypeOK'
    BY <1>t, <2>1, <2>2 DEF RegistryTypeOK, CreatePcs
  <2>5. Counting' /\ Holding'
    BY <1>0, <1>t, <2>1, <2>3 DEF Counting, Holding
  <2>6. Keyed' /\ Found'
    BY <1>0, <2>1 DEF Keyed, Found, Newer
  <2> QED
    BY <2>4, <2>5, <2>6 DEF RegistryInv
<1>3. ASSUME NEW t \in Creators, TestZero(t)
      PROVE  RegistryInv'
  <2>1. /\ createPc[t] = "test"
        /\ createPc' = [createPc EXCEPT ![t] = IF nextHandle = 0 THEN "add" ELSE "new"]
        /\ loaded' = [loaded EXCEPT ![t] = IF nextHandle = 0 THEN 0 ELSE loaded[t]]
        /\ UNCHANGED <<nextHandle, totalZkClients, creations, handleOf, client, isInit,
                       returned, destroyed, destroys>>
    BY <1>3 DEF TestZero, AfterTest
  <2>2. \A u \in Creators : u # t => createPc'[u] = "idle"
    BY <1>o, <1>t, <2>1
  <2>3. RegistryTypeOK'
    BY <1>t, <2>1 DEF RegistryTypeOK, CreatePcs, Handles
  <2>4. Counting' /\ Holding'
    BY <1>0, <1>t, <2>1, <2>2 DEF Counting, Holding
  <2>5. Keyed' /\ Found'
    BY <1>0, <2>1 DEF Keyed, Found, Newer
  <2> QED
    BY <2>3, <2>4, <2>5 DEF RegistryInv
<1>4. ASSUME NEW t \in Creators, NewClient(t)
      PROVE  RegistryInv'
  <2>1. /\ createPc[t] = "new" /\ createPc' = [createPc EXCEPT ![t] = "insert"]
        /\ creations' = creations + 1
        /\ handleOf' = [handleOf EXCEPT ![creations + 1] = nextHandle]
        /\ client' = [client EXCEPT ![t] = creations + 1]
        /\ UNCHANGED <<nextHandle, totalZkClients, loaded, isInit, returned,
                       destroyed, destroys>>
    BY <1>4 DEF NewClient
  <2>2. \A u \in Creators : u # t => createPc'[u] = "idle"
    BY <1>o, <1>t, <2>1
  <2>3. /\ creations < MaxCreations /\ nextHandle # 0 /\ creations \in Nat
        /\ creations + 1 \in Clients /\ creations + 1 # NoClient
    BY <1>0, <1>t, <2>1 DEF Counting, Clients, NoClient
  <2>4. RegistryTypeOK'
    <3>1. /\ creations' \in 0..MaxCreations /\ handleOf' \in [Clients -> Handles]
          /\ client' \in [Creators -> Clients \cup {NoClient}]
          /\ createPc' \in [Creators -> CreatePcs]
      BY <1>t, <2>1, <2>3 DEF CreatePcs
    <3>2. \A u \in Creators : client'[u] # NoClient <=> createPc'[u] \in {"insert", "init", "return"}
      BY <1>t, <2>1, <2>3
    <3> QED
      BY <1>t, <2>1, <3>1, <3>2 DEF RegistryTypeOK
  <2>5. Counting'
    BY <1>0, <1>t, <2>1, <2>2 DEF Counting
  <2>6. \A c \in Clients : c <= creations => handleOf'[c] = handleOf[c]
    BY <1>t, <2>1, <2>3 DEF Clients
  <2>7. Holding'
    <3>1. \A r \in returned : r[1] # creations + 1
      BY <1>0, <1>t, <2>3 DEF Found, Clients
    <3>2. handleOf'[creations + 1] = nextHandle /\ creations + 1 > 0
      BY <1>t, <2>1, <2>3
    <3>3. client'[t] = creations + 1 /\ createPc'[t] = "insert"
      BY <1>t, <2>1
    <3> QED
      BY <2>1, <2>2, <2>3, <3>1, <3>2, <3>3 DEF Holding
  <2>8. Keyed'
    <3> SUFFICES ASSUME NEW h \in Handles, totalZkClients[h] # NoClient
                 PROVE  totalZkClients[h] <= creations + 1 /\ handleOf'[totalZkClients[h]] = h
      BY <2>1 DEF Keyed
    <3>1. /\ totalZkClients[h] <= creations /\ handleOf[totalZkClients[h]] = h
          /\ totalZkClients[h] \in Clients
      BY <1>0, <1>t DEF Keyed
    <3> QED
      BY <2>3, <2>6, <3>1 DEF Clients
  <2>9. Found'
    <3> SUFFICES ASSUME NEW r \in returned
                 PROVE  /\ r[1] <= creations' /\ r[2] # 0 /\ handleOf'[r[1]] = r[2]
                        /\ r[1] \in isInit
                        /\ totalZkClients[r[2]] = r[1] \/ r[1] \in destroyed \/ Newer(r)'
      BY <2>1 DEF Found
    <3>1. /\ r[1] <= creations /\ r[2] # 0 /\ handleOf[r[1]] = r[2] /\ r[1] \in isInit
          /\ totalZkClients[r[2]] = r[1] \/ r[1] \in destroyed \/ Newer(r)
          /\ r[1] \in Clients
      BY <1>0, <1>t DEF Found
    <3>2. Newer(r) => Newer(r)'
      BY <2>1, <2>3, <2>6 DEF Newer, Clients
    <3> QED
      BY <2>1, <2>3, <2>6, <3>1, <3>2 DEF Clients
  <2> QED
    BY <2>4, <2>5, <2>7, <2>8, <2>9 DEF RegistryInv
<1>5. ASSUME NEW t \in Creators, Insert(t)
      PROVE  RegistryInv'
  <2>1. /\ createPc[t] = "insert" /\ createPc' = [createPc EXCEPT ![t] = "init"]
        /\ totalZkClients' = [totalZkClients EXCEPT ![nextHandle] = client[t]]
        /\ UNCHANGED <<nextHandle, creations, handleOf, loaded, client, isInit,
                       returned, destroyed, destroys>>
    BY <1>5 DEF Insert, Inserted
  <2>2. \A u \in Creators : u # t => createPc'[u] = "idle"
    BY <1>o, <1>t, <2>1
  <2>3. /\ client[t] = creations /\ creations > 0 /\ nextHandle # 0
        /\ handleOf[creations] = nextHandle /\ creations \in Clients
        /\ \A r \in returned : r[1] # creations
    BY <1>0, <1>t, <2>1 DEF Holding, Clients
  <2>4. /\ totalZkClients' \in [Handles -> Clients \cup {NoClient}]
        /\ totalZkClients'[nextHandle] = creations
        /\ \A h \in Handles : h # nextHandle => totalZkClients'[h] = totalZkClients[h]
    BY <1>t, <2>1, <2>3
  <2>5. RegistryTypeOK'
    BY <1>t, <2>1, <2>4 DEF RegistryTypeOK, CreatePcs
  <2>6. Counting'
    BY <1>0, <1>t, <2>1, <2>2 DEF Counting
  <2>7. Holding'
    BY <1>0, <1>t, <2>1, <2>2, <2>3, <2>4 DEF Holding
  <2>8. Keyed'
    BY <1>0, <1>t, <2>1, <2>3, <2>4 DEF Keyed
  <2>9. Found'
    <3> SUFFICES ASSUME NEW r \in returned
                 PROVE  totalZkClients'[r[2]] = r[1] \/ r[1] \in destroyed \/ Newer(r)
      BY <1>0, <2>1 DEF Found, Newer
    <3>1. /\ r[1] <= creations /\ handleOf[r[1]] = r[2] /\ r[1] # creations
          /\ totalZkClients[r[2]] = r[1] \/ r[1] \in destroyed \/ Newer(r)
          /\ r[1] \in Clients /\ r[2] \in Handles
      BY <1>0, <1>t, <2>3 DEF Found
    <3>2. r[2] = nextHandle => Newer(r)
      BY <1>t, <2>3, <3>1 DEF Newer, Clients
    <3> QED
      BY <2>4, <3>1, <3>2
  <2> QED
    BY <2>5, <2>6, <2>7, <2>8, <2>9 DEF RegistryInv
<1>6. ASSUME NEW t \in Creators, InitFails(t)
      PROVE  RegistryInv'
  <2>1. /\ createPc[t] = "init" /\ createPc' = [createPc EXCEPT ![t] = "idle"]
        /\ client' = [client EXCEPT ![t] = NoClient]
        /\ UNCHANGED <<nextHandle, totalZkClients, creations, handleOf, loaded, isInit,
                       returned, destroyed, destroys>>
    BY <1>6 DEF InitFails
  <2>2. \A u \in Creators : createPc'[u] = "idle"
    BY <1>o, <1>t, <2>1
  <2>3. RegistryTypeOK'
    BY <1>t, <2>1 DEF RegistryTypeOK, CreatePcs
  <2>4. Counting' /\ Holding'
    BY <2>2 DEF Counting, Holding
  <2>5. Keyed' /\ Found'
    BY <1>0, <2>1 DEF Keyed, Found, Newer
  <2> QED
    BY <2>3, <2>4, <2>5 DEF RegistryInv
<1>7. ASSUME NEW t \in Creators, InitSucceeds(t)
      PROVE  RegistryInv'
  <2>1. /\ createPc[t] = "init" /\ createPc' = [createPc EXCEPT ![t] = "return"]
        /\ isInit' = isInit \cup {client[t]}
        /\ UNCHANGED <<nextHandle, totalZkClients, creations, handleOf, loaded, client,
                       returned, destroyed, destroys>>
    BY <1>7 DEF InitSucceeds
  <2>2. \A u \in Creators : u # t => createPc'[u] = "idle"
    BY <1>o, <1>t, <2>1
  <2>3. client[t] = creations /\ creations > 0 /\ creations \in Clients
    BY <1>0, <1>t, <2>1 DEF Holding, Clients
  <2>4. RegistryTypeOK'
    BY <1>t, <2>1, <2>3 DEF RegistryTypeOK, CreatePcs
  <2>5. Counting'
    BY <1>0, <1>t, <2>1, <2>2 DEF Counting
  <2>6. Holding'
    BY <1>0, <1>t, <2>1, <2>2, <2>3 DEF Holding
  <2>7. Keyed' /\ Found'
    BY <1>0, <2>1 DEF Keyed, Found, Newer
  <2> QED
    BY <2>4, <2>5, <2>6, <2>7 DEF RegistryInv
<1>8. ASSUME NEW t \in Creators, Return(t)
      PROVE  RegistryInv'
  <2>1. /\ createPc[t] = "return" /\ createPc' = [createPc EXCEPT ![t] = "idle"]
        /\ client' = [client EXCEPT ![t] = NoClient]
        /\ returned' = returned \cup {<<client[t], nextHandle>>}
        /\ UNCHANGED <<nextHandle, totalZkClients, creations, handleOf, loaded, isInit,
                       destroyed, destroys>>
    BY <1>8 DEF Return, ReturnValue
  <2>2. \A u \in Creators : createPc'[u] = "idle"
    BY <1>o, <1>t, <2>1
  <2>3. /\ client[t] = creations /\ creations > 0 /\ creations \in Clients
        /\ nextHandle # 0 /\ handleOf[creations] = nextHandle /\ creations \in isInit
        /\ totalZkClients[nextHandle] = creations \/ creations \in destroyed
    BY <1>0, <1>t, <2>1 DEF Holding, Clients
  <2>4. RegistryTypeOK'
    BY <1>t, <2>1, <2>3 DEF RegistryTypeOK, CreatePcs
  <2>5. Counting' /\ Holding'
    BY <2>2 DEF Counting, Holding
  <2>6. Keyed'
    BY <1>0, <2>1 DEF Keyed
  <2>7. Found'
    <3> SUFFICES ASSUME NEW r \in returned'
                 PROVE  /\ r[1] <= creations /\ r[2] # 0 /\ handleOf[r[1]] = r[2]
                        /\ r[1] \in isInit
                        /\ totalZkClients[r[2]] = r[1] \/ r[1] \in destroyed \/ Newer(r)
      BY <2>1 DEF Found, Newer
    <3>1. CASE r \in returned
      BY <1>0, <3>1 DEF Found
    <3>2. CASE r = <<creations, nextHandle>>
      BY <1>t, <2>3, <3>2
    <3> QED
      BY <2>1, <2>3, <3>1, <3>2
  <2> QED
    BY <2>4, <2>5, <2>6, <2>7 DEF RegistryInv
<1>9. ASSUME NEW g \in Handles, DestroyClient(g)
      PROVE  RegistryInv'
  <2>1. /\ destroys < MaxDestroys /\ destroys' = destroys + 1
        /\ destroyed' = destroyed \cup ({totalZkClients[g]} \ {NoClient})
        /\ totalZkClients' = [totalZkClients EXCEPT ![g] = NoClient]
        /\ UNCHANGED <<nextHandle, creations, handleOf, createPc, loaded, client, isInit, returned>>
    BY <1>9 DEF DestroyClient, Erased
  <2>2. /\ totalZkClients' \in [Handles -> Clients \cup {NoClient}]
        /\ totalZkClients'[g] = NoClient
        /\ \A h \in Handles : h # g => totalZkClients'[h] = totalZkClients[h]
    BY <1>t, <2>1
  <2>3. /\ destroyed' \subseteq Clients /\ destroyed \subseteq destroyed'
        /\ totalZkClients[g] # NoClient => totalZkClients[g] \in destroyed'
    BY <1>t, <2>1
  <2>4. RegistryTypeOK'
    BY <1>t, <2>1, <2>2, <2>3 DEF RegistryTypeOK
  <2>5. Counting'
    BY <1>0, <2>1 DEF Counting
  <2>6. Holding'
    <3>1. ASSUME creations > 0, totalZkClients[nextHandle] = creations \/ creations \in destroyed
          PROVE  totalZkClients'[nextHandle] = creations \/ creations \in destroyed'
      BY <1>t, <2>2, <2>3, <3>1 DEF NoClient
    <3> QED
      BY <1>0, <2>1, <3>1 DEF Holding
  <2>7. Keyed'
    BY <1>0, <2>1, <2>2 DEF Keyed
  <2>8. Found'
    <3> SUFFICES ASSUME NEW r \in returned
                 PROVE  totalZkClients'[r[2]] = r[1] \/ r[1] \in destroyed' \/ Newer(r)
      BY <1>0, <2>1 DEF Found, Newer
    <3>1. /\ totalZkClients[r[2]] = r[1] \/ r[1] \in destroyed \/ Newer(r)
          /\ r[1] \in Clients /\ r[2] \in Handles /\ r[1] # NoClient
      BY <1>0, <1>t DEF Found, Clients, NoClient
    <3> QED
      BY <2>2, <2>3, <3>1
  <2> QED
    BY <2>4, <2>5, <2>6, <2>7, <2>8 DEF RegistryInv
<1>10. CASE UNCHANGED registryVars
  BY <1>0, <1>10
  DEF registryVars, RegistryInv, RegistryTypeOK, Counting, Holding, Keyed, Found, Newer
<1> QED
  BY <1>1, <1>2, <1>3, <1>4, <1>5, <1>6, <1>7, <1>8, <1>9, <1>10 DEF RegistryNext

LEMMA InitIs == RegistryInit => RegistryInv
BY DEF RegistryInit, RegistryInv, RegistryTypeOK, Counting, Holding, Keyed, Found, Handles, Clients,
       CreatePcs, NoClient

THEOREM RegistryInductive == RegistrySpec /\ []OneCreation => []RegistryInv
<1>1. RegistryInv /\ OneCreation /\ OneCreation' /\ [RegistryNext]_registryVars => RegistryInv'
  BY StepKeeps
<1> QED
  BY <1>1, InitIs, PTL DEF RegistrySpec

(* No handle finds a client that was made with another one, and the types hold. *)
THEOREM NoOtherHandle == RegistrySpec /\ []OneCreation => []HandlesKept
<1>1. RegistryInv => HandlesKept
  BY DEF RegistryInv, HandlesKept, KeyIsHandle, AnyZkClient, Keyed
<1> QED
  BY <1>1, RegistryInductive, PTL

(* The handle that a creation returns finds the client it made, until that client is
   destroyed or the handle has come round again. *)
THEOREM HandleFinds == RegistrySpec /\ []OneCreation => []OwnHandle
<1>1. RegistryInv => OwnHandle
  BY DEF RegistryInv, OwnHandle, GetZkClient, AnyZkClient, Found, Newer
<1> QED
  BY <1>1, RegistryInductive, PTL

(* A program whose clients are all created by one thread needs no more. *)
COROLLARY OneCreator ==
  ASSUME NEW t, Creators = {t}
  PROVE  RegistrySpec => [](HandlesKept /\ OwnHandle)
<1>1. OneCreation
  BY DEF OneCreation
<1> QED
  BY <1>1, NoOtherHandle, HandleFinds, PTL
===============================================================================
