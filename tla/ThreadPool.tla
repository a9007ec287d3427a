------------------------------ MODULE ThreadPool -------------------------------
(***************************************************************************)
(* muduo's queues between threads: ThreadPool, BoundedBlockingQueue and    *)
(* BlockingQueue.  All three are a monitor with the conditions notEmpty_   *)
(* and notFull_; class, which never changes, is the one that is used.      *)
(* What is between a lock and the unlock or wait that follows is one step. *)
(***************************************************************************)
EXTENDS Integers, Sequences, SequencesExt, FiniteSets

CONSTANTS
    Producers, Consumers,
    Classes,         \* a subset of {"pool", "bounded", "unbounded"}
    Sizes,           \* maxQueueSize_ of a pool, the capacity of a bounded queue
    MaxTasks         \* bound

ASSUME PoolAssumption ==
    Sizes \subseteq Nat /\ IsFiniteSet(Producers) /\ IsFiniteSet(Consumers)

VARIABLES
    class, maxSize,
    queue,           \* queue_, of task numbers
    running,         \* running_
    pc,              \* where each thread is
    taken,           \* the tasks in the order in which take() returned them
    put,             \* how many tasks were put into the queue
    stopper          \* the thread that starts and stops the pool

poolVars == <<class, maxSize, queue, running, pc, taken, put, stopper>>
Threads == Producers \cup Consumers

(* start(): the threads of the pool are there before any run(). *)
PoolInit ==
    /\ class \in Classes /\ maxSize \in Sizes
    /\ class = "bounded" => maxSize > 0
    /\ class = "unbounded" => maxSize = 0
    /\ queue = <<>> /\ running = TRUE /\ stopper = "up"
    /\ pc = [t \in Threads |-> IF t \in Producers THEN "idle" ELSE "loop"]
    /\ taken = <<>> /\ put = 0

(* A queue without a bound has no notFull_; a pool with maxQueueSize_ 0 is one. *)
isFull == maxSize > 0 /\ Len(queue) >= maxSize
Sleepers(l) == {t \in Threads : pc[t] = l}

(* pthread_cond_signal: one of those asleep on the condition, if there is one. *)
Notify(p, l, woken) ==
    IF Sleepers(l) = {} THEN pc' = p
    ELSE \E t \in Sleepers(l) : pc' = [p EXCEPT ![t] = woken]

-------------------------------------------------------------------------------
(* run() and put(). *)
calls(t) == pc[t] = "idle" /\ pc' = [pc EXCEPT ![t] = "put"]
           /\ UNCHANGED <<class, maxSize, queue, running, taken, put, stopper>>
run(t) ==
    /\ pc[t] = "put"
    /\ IF isFull THEN pc' = [pc EXCEPT ![t] = "notFull"] /\ UNCHANGED <<queue, put>>
       ELSE /\ put < MaxTasks /\ put' = put + 1
            /\ queue' = Append(queue, put + 1)
            /\ Notify([pc EXCEPT ![t] = "idle"], "notEmpty", "take")
    /\ UNCHANGED <<class, maxSize, running, taken, stopper>>

(* runInThread(): the user of a blocking queue is a loop as well. *)
Loops == class # "pool" \/ running
runInThread(t) ==
    /\ pc[t] = "loop" /\ pc' = [pc EXCEPT ![t] = IF Loops THEN "take" ELSE "done"]
    /\ UNCHANGED <<class, maxSize, queue, running, taken, put, stopper>>

Sleeps == queue = <<>> /\ (class = "pool" => running)
Notifies_WhenFull == maxSize > 0 /\ isFull
Notifies == maxSize > 0
Rest == Tail(queue)
take(t) ==
    /\ pc[t] = "take"
    /\ \/ /\ Sleeps /\ pc' = [pc EXCEPT ![t] = "notEmpty"]
          /\ UNCHANGED <<queue, taken>>
       \/ /\ ~Sleeps /\ queue = <<>>          \* an empty Task
          /\ pc' = [pc EXCEPT ![t] = "loop"] /\ UNCHANGED <<queue, taken>>
       \/ /\ ~Sleeps /\ queue # <<>>
          /\ queue' = Rest /\ taken' = Append(taken, Head(queue))
          /\ IF Notifies THEN Notify([pc EXCEPT ![t] = "task"], "notFull", "put")
             ELSE pc' = [pc EXCEPT ![t] = "task"]
    /\ UNCHANGED <<class, maxSize, running, put, stopper>>
(* The task itself. *)
task(t) ==
    /\ pc[t] = "task" /\ pc' = [pc EXCEPT ![t] = "loop"]
    /\ UNCHANGED <<class, maxSize, queue, running, taken, put, stopper>>

(* A wait may end for no reason. *)
spurious(t) ==
    /\ pc[t] \in {"notEmpty", "notFull"}
    /\ pc' = [pc EXCEPT ![t] = IF @ = "notEmpty" THEN "take" ELSE "put"]
    /\ UNCHANGED <<class, maxSize, queue, running, taken, put, stopper>>

(* stop(): running_ under the mutex, every worker woken, and the join. *)
stop ==
    /\ class = "pool" /\ stopper = "up" /\ stopper' = "joining" /\ running' = FALSE
    /\ pc' = [t \in Threads |-> IF t \in Sleepers("notEmpty") THEN "take" ELSE pc[t]]
    /\ UNCHANGED <<class, maxSize, queue, taken, put>>
join ==
    /\ stopper = "joining" /\ \A t \in Consumers : pc[t] = "done"
    /\ stopper' = "stopped"
    /\ UNCHANGED <<class, maxSize, queue, running, pc, taken, put>>

Monitor(t) == (t \in Producers /\ run(t)) \/ runInThread(t) \/ take(t) \/ task(t)
PoolNext ==
    \/ \E t \in Producers : calls(t)
    \/ \E t \in Threads : Monitor(t) \/ spurious(t)
    \/ stop \/ join
(* A thread that can get the mutex gets it, and a task ends. *)
PoolFairness == \A t \in Threads : WF_poolVars(Monitor(t))
PoolSpec == PoolInit /\ [][PoolNext]_poolVars /\ PoolFairness

-------------------------------------------------------------------------------
PoolTypeOK ==
    /\ pc \in [Threads -> {"idle", "put", "notFull", "loop", "take", "notEmpty", "task", "done"}]
    /\ stopper \in {"up", "joining", "stopped"} /\ running = (stopper = "up")
    /\ maxSize > 0 => Len(queue) <= maxSize
    /\ \A t \in Consumers : pc[t] = "done" => ~running

(* The tasks leave the queue in the order in which they came, each once, with
   any number of threads at both ends. *)
Fifo == taken \o queue = [n \in 1..put |-> n]

(* No wake-up is lost, although each call notifies one thread only: a task in
   the queue has a consumer on its way to it, room has a producer. *)
NoLostWakeup ==
    /\ queue # <<>> /\ Sleepers("notEmpty") # {} =>
           \E t \in Consumers : pc[t] \in {"take", "task", "loop"}
    /\ Sleepers("notFull") # {} =>
           maxSize <= Len(queue) + Cardinality(Sleepers("put"))

(* A task of a pool that is not stopped, or of a queue, is taken at last; stop()
   has the threads of the pool to wait for only as long as their tasks last. *)
EveryTaskTaken ==
    \A n \in 1..MaxTasks : (n \in ToSet(queue)) ~> (n \in ToSet(taken) \/ ~running)
StopJoins == (stopper = "joining") ~> (\A t \in Consumers : pc[t] = "done")
===============================================================================
