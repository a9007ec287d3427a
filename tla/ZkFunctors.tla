------------------------------ MODULE ZkFunctors ------------------------------
(***************************************************************************)
(* runInThread and the loop of one thread of ZkClientManager               *)
(* (src/src/ZkClientManager.cc:79-92, 148-235 and 313-467): other threads  *)
(* queue functors under funsMutex_ and write its eventfd; the loop waits   *)
(* in epoll_wait for the eventfd, its timerfd or 10 s, then swaps the      *)
(* functors out and calls them.  The loop starts while the others already  *)
(* run: its thread id is 0 until it runs, and its eventfd is not known     *)
(* until it has stored its thread data.                                    *)
(*                                                                         *)
(* The timer callbacks that a loop iteration runs before the functors are  *)
(* in ZkSession and ZkWatch; what they do here is to call runInThread.     *)
(***************************************************************************)
EXTENDS Naturals, Sequences

CONSTANTS Callers,       \* the other threads
          MaxFunctors,   \* bound on the functors
          MayExit        \* does the process end

ASSUME FunctorsAssumption == MaxFunctors \in Nat /\ MayExit \in BOOLEAN

Functors == 1..MaxFunctors

VARIABLES
  isExit,      \* isExit_
  pending,     \* pendingFunctors_[tid]
  orphans,     \* pendingFunctors_[0]: queued before the thread had its id
  eventfd,     \* the counter of the eventfd
  calling,     \* callingPendingFunctors_
  batch,       \* the functors that doPendingFunctors has swapped out
  lpc,         \* the loop thread
  pc,          \* pc[c]: the thread c in runInThread
  known,       \* known[c]: the thread id that c passes is not 0
  fn,          \* fn[c]: the functor that c passes
  called,      \* history: the functors called, in order
  missed,      \* a wakeup() found no thread data, and nothing was swapped out since
  made         \* bound

loopVars   == <<batch, lpc, calling>>
callerVars == <<pc, known, fn, made>>
vars == <<isExit, pending, orphans, eventfd, loopVars, callerVars, called, missed>>

LoopPcs   == {"new", "tid", "poll", "read", "mark", "swap", "run", "exited"}
CallerPcs == {"idle", "queue", "wake", "write"}

Init == /\ isExit = FALSE
        /\ pending = <<>> /\ orphans = <<>> /\ eventfd = 0
        /\ calling = FALSE /\ batch = <<>> /\ lpc = "new"
        /\ pc = [c \in Callers |-> "idle"]
        /\ known = [c \in Callers |-> FALSE]
        /\ fn = [c \in Callers |-> 0]
        /\ called = <<>> /\ missed = FALSE /\ made = 0

-----------------------------------------------------------------------------
(* The other threads: runInThread, queueInThreadFuns, wakeup.              *)

\* getSecondThreadId() is 0 until the thread runs.
RunInThread(c) ==
  /\ pc[c] = "idle"
  /\ made < MaxFunctors
  /\ made' = made + 1
  /\ fn' = [fn EXCEPT ![c] = made + 1]
  /\ known' = [known EXCEPT ![c] = lpc # "new"]
  /\ pc' = [pc EXCEPT ![c] = "queue"]
  /\ UNCHANGED <<isExit, pending, orphans, eventfd, loopVars, called, missed>>

QueueInThreadFuns(c) ==
  /\ pc[c] = "queue"
  /\ IF known[c] THEN pending' = Append(pending, fn[c]) /\ UNCHANGED orphans
                 ELSE orphans' = Append(orphans, fn[c]) /\ UNCHANGED pending
  /\ pc' = [pc EXCEPT ![c] = "wake"]
  /\ UNCHANGED <<isExit, eventfd, loopVars, known, fn, made, called, missed>>

\* wakeup() looks for the thread data; it writes whatever callingPendingFunctors_
\* is, since it is not the loop thread.
HasThreadData(c) == known[c] /\ lpc \notin {"new", "tid"}
NeedsWrite_Calling == calling
NeedsWrite == TRUE

Wakeup(c) ==
  /\ pc[c] = "wake"
  /\ pc' = [pc EXCEPT ![c] = IF HasThreadData(c) /\ NeedsWrite THEN "write" ELSE "idle"]
  /\ missed' = (missed \/ (known[c] /\ ~HasThreadData(c)))
  /\ UNCHANGED <<isExit, pending, orphans, eventfd, loopVars, known, fn, made,
                 called>>

WriteEventfd(c) ==
  /\ pc[c] = "write"
  /\ eventfd' = eventfd + 1
  /\ pc' = [pc EXCEPT ![c] = "idle"]
  /\ UNCHANGED <<isExit, pending, orphans, loopVars, known, fn, made, called,
                 missed>>

-----------------------------------------------------------------------------
(* The loop thread: LoopFun, loop_once, doPendingFunctors.                 *)

ThreadStarts ==
  /\ lpc = "new" /\ lpc' = "tid"
  /\ UNCHANGED <<isExit, pending, orphans, eventfd, batch, calling, callerVars,
                 called, missed>>

\* while (isExit_ == false)
Again == IF isExit THEN "exited" ELSE "poll"

InsertOrSetThreadData ==
  /\ lpc = "tid" /\ lpc' = Again
  /\ calling' = FALSE
  /\ UNCHANGED <<isExit, pending, orphans, eventfd, batch, callerVars, called,
                 missed>>

\* epoll_wait returns: the eventfd is readable ...
EpollEventfd ==
  /\ lpc = "poll" /\ eventfd > 0 /\ lpc' = "read"
  /\ UNCHANGED <<isExit, pending, orphans, eventfd, batch, calling, callerVars,
                 called, missed>>

\* ... or it is not, and a timer was due or 10 s have gone by.
EpollOther ==
  /\ lpc = "poll" /\ eventfd = 0 /\ lpc' = "mark"
  /\ UNCHANGED <<isExit, pending, orphans, eventfd, batch, calling, callerVars,
                 called, missed>>

HandleEventFdRead ==
  /\ lpc = "read" /\ lpc' = "mark"
  /\ eventfd' = 0
  /\ UNCHANGED <<isExit, pending, orphans, batch, calling, callerVars, called,
                 missed>>

\* doPendingFunctors
StartCalling ==
  /\ lpc = "mark" /\ lpc' = "swap"
  /\ calling' = TRUE
  /\ UNCHANGED <<isExit, pending, orphans, eventfd, batch, callerVars, called,
                 missed>>

Swap_Copy  == batch' = pending /\ UNCHANGED pending
Swap_Clear == batch' = <<>> /\ pending' = <<>>
Swap == batch' = pending /\ pending' = <<>>

SwapFunctors ==
  /\ lpc = "swap" /\ lpc' = "run"
  /\ Swap
  /\ missed' = FALSE
  /\ UNCHANGED <<isExit, orphans, eventfd, calling, callerVars, called>>

CallFunctor ==
  /\ lpc = "run" /\ batch # <<>>
  /\ called' = Append(called, Head(batch))
  /\ batch' = Tail(batch)
  /\ UNCHANGED <<isExit, pending, orphans, eventfd, lpc, calling, callerVars,
                 missed>>

\* A callback on the loop thread calls runInThread for its own thread: cb().
RunInThreadItself ==
  /\ lpc \in {"mark", "run"}
  /\ made < MaxFunctors
  /\ made' = made + 1
  /\ called' = Append(called, made + 1)
  /\ UNCHANGED <<isExit, pending, orphans, eventfd, loopVars, pc, known, fn,
                 missed>>

AllCalled_ButOne == Len(batch) <= 1
AllCalled == batch = <<>>

StopCalling ==
  /\ lpc = "run" /\ AllCalled
  /\ calling' = FALSE
  /\ lpc' = Again
  /\ UNCHANGED <<isExit, pending, orphans, eventfd, batch, callerVars, called,
                 missed>>

\* ~ZkClientManager stops the loop, which may leave functors behind.
Exit ==
  /\ MayExit /\ ~isExit
  /\ isExit' = TRUE
  /\ UNCHANGED <<pending, orphans, eventfd, loopVars, callerVars, called, missed>>

-----------------------------------------------------------------------------
Caller(c) == QueueInThreadFuns(c) \/ Wakeup(c) \/ WriteEventfd(c)

Loop == \/ ThreadStarts \/ InsertOrSetThreadData \/ EpollEventfd \/ EpollOther
        \/ HandleEventFdRead \/ StartCalling \/ SwapFunctors \/ CallFunctor
        \/ StopCalling

Next == \/ \E c \in Callers : RunInThread(c) \/ Caller(c)
        \/ Loop \/ RunInThreadItself \/ Exit

Spec == Init /\ [][Next]_vars

\* Every thread is scheduled; the loop thread is, with the 10 s of epoll_wait.
FairSpec == Spec /\ WF_vars(Loop) /\ \A c \in Callers : WF_vars(Caller(c))

-----------------------------------------------------------------------------
(* Properties.                                                             *)

Types == /\ isExit \in BOOLEAN
         /\ pending \in Seq(Functors) /\ orphans \in Seq(Functors)
         /\ eventfd \in Nat
         /\ calling \in BOOLEAN /\ batch \in Seq(Functors) /\ lpc \in LoopPcs
         /\ pc \in [Callers -> CallerPcs]
         /\ known \in [Callers -> BOOLEAN]
         /\ fn \in [Callers -> Nat]
         /\ called \in Seq(Functors)
         /\ missed \in BOOLEAN
         /\ made \in 0..MaxFunctors
         /\ \A c \in Callers : pc[c] # "idle" => fn[c] \in Functors

\* Types, and the two facts on which doPendingFunctors rests: a swap finds the batch
\* used up, and callingPendingFunctors_ is set exactly while functors are called.
TypeOK == /\ Types
          /\ lpc # "run" => batch = <<>>
          /\ calling <=> lpc \in {"swap", "run"}

Waking(c) == pc[c] \in {"wake", "write"} /\ known[c]

\* The loop does not sleep on work: whatever the interleaving of queueing, wakeup,
\* reading the eventfd and swapping, if functors are queued when the loop waits in
\* epoll_wait then its eventfd is readable or a caller is about to write it, except
\* at its first wait for functors that found no thread data (they wait up to 10 s).
NoLostWakeup ==
  lpc = "poll" /\ pending # <<>> =>
    eventfd > 0 \/ missed \/ \E c \in Callers : Waking(c)

\* The inductive form: a swap is due, or the wake-up is on its way.
WakeupInv ==
  pending # <<>> => \/ eventfd > 0 \/ missed
                    \/ lpc \in {"mark", "swap"}
                    \/ \E c \in Callers : Waking(c)

IInv == TypeOK /\ WakeupInv

\* A functor queued for the thread is called, unless the process ends first.
Executed ==
  \A f \in Functors :
    (\E i \in DOMAIN pending : pending[i] = f)
      ~> isExit \/ \E i \in DOMAIN called : called[i] = f

\* Once each, in the order of the queue: the loop implements ZkExecutor.
Executor == INSTANCE ZkExecutor WITH queue <- batch \o pending

ImplementsExecutor == Executor!ExecutorSpec
=============================================================================
