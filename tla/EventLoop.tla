------------------------------- MODULE EventLoop -------------------------------
(***************************************************************************)
(* An EventLoop in a thread of its own (src/muduo/net/EventLoop.cc:102-171 *)
(* and 266-308, EventLoopThread.cc): the owner starts the thread, waits    *)
(* until the loop exists and at the end quits it and joins the thread;     *)
(* threads give functors to runInLoop; handlers and functors give more to  *)
(* queueInLoop from inside the loop.                                       *)
(*                                                                         *)
(* poll() also returns after kPollTimeMs; whatever another channel does is *)
(* one handler that may queue a functor.  Functors that are queued when    *)
(* the loop has quit are never called.                                     *)
(***************************************************************************)
EXTENDS Naturals, SequencesExt

CONSTANTS Threads,       \* the threads that call runInLoop
          MaxFunctors    \* bound

Functors == 1..MaxFunctors

VARIABLES
  quit,        \* quit_
  eventfd,     \* the counter of wakeupFd_ is not 0
  pending,     \* pendingFunctors_
  batch,       \* the functors that doPendingFunctors has swapped out
  calling,     \* callingPendingFunctors_
  loopSet,     \* EventLoopThread::loop_ # NULL
  lpc, opc,    \* the loop's thread, the owner
  pc,          \* pc[t]: "idle", or "wakeup" after queueInLoop has unlocked
  made,        \* the functors made so far
  called,      \* history: the functors called, in order
  early        \* history: quit() has come before loop()

loopVars == <<batch, calling, lpc, called>>
eventLoopVars == <<quit, eventfd, pending, loopSet, opc, pc, made, early, loopVars>>

LoopInit ==
    /\ quit = FALSE /\ eventfd = FALSE /\ pending = <<>> /\ batch = <<>>
    /\ calling = FALSE /\ loopSet = FALSE /\ lpc = "none" /\ opc = "idle"
    /\ pc = [t \in Threads |-> "idle"] /\ made = 0 /\ called = <<>> /\ early = FALSE

Queue == made < MaxFunctors /\ made' = made + 1 /\ pending' = Append(pending, made + 1)

-----------------------------------------------------------------------------
(* The owner: startLoop() and ~EventLoopThread(). *)
startLoop ==
    /\ opc = "idle" /\ opc' = "waiting" /\ lpc' = "starting"
    /\ UNCHANGED <<quit, eventfd, pending, loopSet, pc, made, early, batch, calling, called>>

started ==
    /\ opc = "waiting" /\ loopSet /\ opc' = "started"
    /\ UNCHANGED <<quit, eventfd, pending, loopSet, pc, made, early, loopVars>>

(* quit(): quit_ first, then wakeup(). *)
Quit ==
    /\ opc = "started"
    /\ opc' = "wakeup" /\ quit' = TRUE /\ early' = (lpc = "published")
    /\ UNCHANGED <<eventfd, pending, loopSet, pc, made, loopVars>>

QuitWakesUp ==
    /\ opc = "wakeup" /\ opc' = "joining" /\ eventfd' = TRUE
    /\ UNCHANGED <<quit, pending, loopSet, pc, made, early, loopVars>>

join ==
    /\ opc = "joining" /\ lpc = "done" /\ opc' = "joined"
    /\ UNCHANGED <<quit, eventfd, pending, loopSet, pc, made, early, loopVars>>

-----------------------------------------------------------------------------
(* runInLoop() from another thread. *)
queueInLoop(t) ==
    /\ opc = "started" /\ pc[t] = "idle" /\ Queue
    /\ pc' = [pc EXCEPT ![t] = "wakeup"]
    /\ UNCHANGED <<quit, eventfd, loopSet, opc, early, loopVars>>

wakeup(t) ==
    /\ pc[t] = "wakeup" /\ pc' = [pc EXCEPT ![t] = "idle"]
    /\ eventfd' = TRUE
    /\ UNCHANGED <<quit, pending, loopSet, opc, made, early, loopVars>>

-----------------------------------------------------------------------------
(* The loop's thread. *)
threadFunc ==
    /\ lpc = "starting" /\ lpc' = "published" /\ loopSet' = TRUE
    /\ UNCHANGED <<quit, eventfd, pending, opc, pc, made, early, batch, calling, called>>

loop ==
    /\ lpc = "published" /\ lpc' = "test" /\ quit' = FALSE
    /\ UNCHANGED <<eventfd, pending, loopSet, opc, pc, made, early, batch, calling, called>>

TestQuit ==
    /\ lpc = "test" /\ lpc' = IF quit THEN "done" ELSE "poll"
    /\ loopSet' = ~quit
    /\ UNCHANGED <<quit, eventfd, pending, opc, pc, made, early, batch, calling, called>>

(* poll() returns: the eventfd or another channel has an event. *)
Poll ==
    /\ lpc = "poll" /\ eventfd /\ lpc' = "woken"
    /\ UNCHANGED <<quit, eventfd, pending, loopSet, opc, pc, made, early, batch, calling, called>>

OtherEvent ==
    /\ lpc = "poll" /\ lpc' = "handler"
    /\ UNCHANGED <<quit, eventfd, pending, loopSet, opc, pc, made, early, batch, calling, called>>

handleRead ==
    /\ lpc = "woken" /\ lpc' = "handler" /\ eventfd' = FALSE
    /\ UNCHANGED <<quit, pending, loopSet, opc, pc, made, early, batch, calling, called>>

StartCalling ==
    /\ lpc = "handler" /\ lpc' = "swap" /\ calling' = TRUE
    /\ UNCHANGED <<quit, eventfd, pending, loopSet, opc, pc, made, early, batch, called>>

Left == <<>>
SwapFunctors ==
    /\ lpc = "swap" /\ lpc' = "call"
    /\ batch' = pending /\ pending' = Left
    /\ UNCHANGED <<quit, eventfd, loopSet, opc, pc, made, early, calling, called>>

CallFunctor ==
    /\ lpc = "call" /\ batch # <<>> /\ lpc' = "functor"
    /\ called' = Append(called, Head(batch)) /\ batch' = Tail(batch)
    /\ UNCHANGED <<quit, eventfd, pending, loopSet, opc, pc, made, early, calling>>

FunctorReturns ==
    /\ lpc = "functor" /\ lpc' = "call"
    /\ UNCHANGED <<quit, eventfd, pending, loopSet, opc, pc, made, early, batch, calling, called>>

(* A handler or a functor gives a functor to the loop it runs in: queueInLoop()
   wakes the loop only if it is past the swap, runInLoop() calls it. *)
Inside == lpc \in {"woken", "handler", "functor"}
NeedsWakeup_Never == FALSE
NeedsWakeup == calling

QueueInside ==
    /\ Inside /\ Queue /\ eventfd' = (eventfd \/ NeedsWakeup)
    /\ UNCHANGED <<quit, loopSet, opc, pc, early, loopVars>>

runInLoop ==
    /\ Inside /\ made < MaxFunctors /\ made' = made + 1
    /\ called' = Append(called, made + 1)
    /\ UNCHANGED <<quit, eventfd, pending, loopSet, opc, pc, early, batch, calling, lpc>>

CallingDone ==
    /\ lpc = "call" /\ batch = <<>> /\ lpc' = "test" /\ calling' = FALSE
    /\ UNCHANGED <<quit, eventfd, pending, loopSet, opc, pc, made, early, batch, called>>

LoopThread == threadFunc \/ loop \/ TestQuit \/ Poll \/ handleRead \/ StartCalling
              \/ SwapFunctors \/ CallFunctor \/ FunctorReturns \/ CallingDone
Owner == startLoop \/ started \/ QuitWakesUp \/ join
LoopNext ==
    \/ LoopThread \/ OtherEvent \/ QueueInside \/ runInLoop \/ Owner \/ Quit
    \/ \E t \in Threads : queueInLoop(t) \/ wakeup(t)
LoopSpec == LoopInit /\ [][LoopNext]_eventLoopVars

(* OtherEvent is never forced: no property rests on kPollTimeMs. *)
LoopFairness ==
    /\ WF_eventLoopVars(LoopThread) /\ WF_eventLoopVars(Owner)
    /\ \A t \in Threads : WF_eventLoopVars(wakeup(t))

-----------------------------------------------------------------------------
LoopTypeOK ==
    /\ lpc \in {"none", "starting", "published", "test", "poll", "woken", "handler",
                "swap", "call", "functor", "done"}
    /\ opc \in {"idle", "waiting", "started", "wakeup", "joining", "joined"}
    /\ made \in 0..MaxFunctors /\ pending \in Seq(Functors) /\ batch \in Seq(Functors)

(* EventLoop.cc:165-170 and 136-145: the loop never sleeps in poll() with a functor
   queued, or asked to quit, unless the eventfd is written or about to be. *)
NoLostWakeup ==
    lpc = "poll" /\ (pending # <<>> \/ quit) =>
        eventfd \/ opc = "wakeup" \/ \E t \in Threads : pc[t] = "wakeup"

(* EventLoop.cc:293-308: each functor is called once, in the order of queueInLoop;
   one that the loop's thread runs is called at once. *)
Executor == INSTANCE ZkExecutor WITH queue <- batch \o pending
ImplementsExecutor == Executor!ExecutorSpec

(* EventLoop.cc:102: a queued functor is called, unless the loop is quit. *)
Served == \A f \in Functors : Contains(pending, f) ~> (Contains(called, f) \/ quit)

(* EventLoopThread.cc:31-41: quit() ends the loop and the join returns, but for the
   quit() that loop() overwrites ("what if someone calls quit() before loop() ?"). *)
JoinReturns == opc = "joining" ~> (opc = "joined" \/ early)
=============================================================================
