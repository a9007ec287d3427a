------------------------------ MODULE ZkExecutor ------------------------------
(***************************************************************************)
(* What runInThread promises, with no eventfd, lock or swap in sight: the  *)
(* functors that a thread has accepted from others are called once each,   *)
(* in the order in which it accepted them; a functor that the thread gives *)
(* to itself is called at once.  ZkFunctors implements it.                 *)
(***************************************************************************)
EXTENDS Sequences

CONSTANT Functors

VARIABLES queue,    \* accepted and not yet called
          called    \* called so far, in order

ExecutorInit == queue = <<>> /\ called = <<>>

Submit(f) == queue' = Append(queue, f) /\ UNCHANGED called

CallNext == /\ queue # <<>>
            /\ called' = Append(called, Head(queue))
            /\ queue' = Tail(queue)

CallNow(f) == called' = Append(called, f) /\ UNCHANGED queue

ExecutorNext == CallNext \/ \E f \in Functors : Submit(f) \/ CallNow(f)

ExecutorSpec == ExecutorInit /\ [][ExecutorNext]_<<queue, called>>
=============================================================================
