----------------------------- MODULE ZkTimerQueue -----------------------------
(***************************************************************************)
(* The timers of one loop thread (ZkTimerQueue.cc, ZkClientManager.cc      *)
(* 470-542).  Any thread adds or cancels a timer by a functor for the loop *)
(* thread (runInThread, see ZkFunctors), except the loop thread itself,    *)
(* from a callback, where the functor runs at once.  Timers are kept by    *)
(* address, and an address is used again after a delete.                   *)
(*                                                                         *)
(* Time is relative: heap[a].when and fd are the ticks that are left, 0    *)
(* when the instant has come; a tick stands for the 100 microseconds of    *)
(* howMuchTimeFromNow, or more.                                            *)
(***************************************************************************)
EXTENDS Integers, Sequences, FiniteSets, FiniteSetsExt

CONSTANTS Addrs,      \* addresses of Timer objects
          Delays,     \* what runAt and runEvery are asked for, in ticks
          Intervals,  \* 0 for a timer that runs once
          MaxTimers,  \* bound: Timer objects made in a behaviour
          MaxIds      \* bound: TimerIds that callers keep at a time

ASSUME TimersAssumption ==
    /\ Delays \subseteq Nat /\ Intervals \subseteq Nat
    /\ IsFiniteSet(Delays) /\ IsFiniteSet(Intervals)
    /\ Delays # {} /\ Intervals # {}
    /\ MaxTimers \in Nat /\ MaxIds \in Nat

VARIABLES
    inserted,    \* ZkTimerManager has the queue of this thread
    heap,        \* the Timer at each address
    timers,      \* timers_, sorted by heap[a].when
    active,      \* activeTimers_
    canceling,   \* cancelingTimers_
    fd,          \* the timerfd: Disarmed, or the ticks until it is readable
    functors,    \* queued for the loop thread
    queuePc,     \* of the loop thread
    expired,     \* the batch of handleRead: not called yet
    calledNow,   \* the batch of handleRead: called
    elapsed,     \* ticks since handleRead took the batch
    unread,      \* timers handed over whose sequence() addTimer has not read
    ids,         \* TimerIds that callers hold (ZkTimerManager drops its own)
    intervals,   \* history: the interval of every timer, by sequence number
    ran,         \* history: the timers that were called
    cancelled    \* history: the timers that a cancel has found

queueVars == <<timers, active, canceling, fd, queuePc, expired, calledNow, elapsed>>
timerVars == <<inserted, heap, queueVars, functors, unread, ids, intervals, ran, cancelled>>

Disarmed == -1
Free == [seq |-> 0, when |-> 0, interval |-> 0]
Horizon == Max(Delays \cup Intervals)
Id(a) == <<a, heap[a].seq>>
Keep(id) ==
    \/ ids' = ids
    \/ Cardinality(ids) < MaxIds /\ ids' = ids \cup {id}
ForgetId_KeepsEntry(id) == active
ForgetId(id) == {e \in active : e # id}
Left(t) == IF t > 0 THEN t - 1 ELSE t

(* resetTimerfd through howMuchTimeFromNow: never less than a tick, since
   a timerfd set to 0 is disarmed. *)
FdAt_NoMinimum(when) == IF when = 0 THEN Disarmed ELSE when
FdAt(when) == IF when < 1 THEN 1 ELSE when
Earliest(as, h) == Min({h[a].when : a \in as})

TimersInit ==
    /\ inserted = FALSE /\ heap = [a \in Addrs |-> Free]
    /\ timers = {} /\ active = {} /\ canceling = {} /\ fd = Disarmed
    /\ functors = <<>> /\ queuePc = "poll"
    /\ expired = {} /\ calledNow = {} /\ elapsed = 0
    /\ unread = {} /\ ids = {} /\ intervals = <<>> /\ ran = {} /\ cancelled = {}

(* insertTimeQueue, by the loop thread. *)
InsertTimeQueue ==
    /\ ~inserted /\ inserted' = TRUE
    /\ UNCHANGED <<heap, queueVars, functors, unread, ids, intervals, ran, cancelled>>

(* new Timer(cb, when, interval) at address a. *)
NewTimer(a, when, interval) ==
    /\ inserted /\ Len(intervals) < MaxTimers /\ heap[a] = Free
    /\ heap' = [heap EXCEPT ![a] = [seq |-> Len(intervals) + 1, when |-> when,
                                    interval |-> interval]]
    /\ intervals' = Append(intervals, interval)

(* insert() and addTimerInLoop: the timerfd is set when the timer is first. *)
EarliestChanged_OnlyEmpty(a, h) == timers = {}
EarliestChanged(a, h) == timers = {} \/ h[a].when < Earliest(timers, h)
AddTimerInLoop(a, h) ==
    /\ timers' = timers \cup {a}
    /\ active' = active \cup {<<a, h[a].seq>>}
    /\ fd' = IF EarliestChanged(a, h) THEN FdAt(h[a].when) ELSE fd

(* cancelInLoop. *)
Found(id) == id \in active
CancelInLoop(id) ==
    IF Found(id)
    THEN /\ timers' = timers \ {id[1]} /\ active' = ForgetId(id)
         /\ heap' = [heap EXCEPT ![id[1]] = Free]
         /\ cancelled' = cancelled \cup {id[2]}
         /\ UNCHANGED canceling
    ELSE /\ canceling' = IF queuePc = "poll" THEN canceling ELSE canceling \cup {id}
         /\ cancelled' = IF id \in {Id(a) : a \in expired \cup calledNow}
                         THEN cancelled \cup {id[2]} ELSE cancelled
         /\ UNCHANGED <<timers, active, heap>>

(* runAt, runEvery by another thread; before InsertTimeQueue they drop the
   timer and nothing happens. *)
RunAt(a, when, interval) ==
    /\ NewTimer(a, when, interval)
    /\ functors' = Append(functors, [op |-> "add", id |-> <<a, Len(intervals) + 1>>])
    /\ unread' = unread \cup {a}
    /\ UNCHANGED <<inserted, queueVars, ids, ran, cancelled>>

(* The end of addTimer: it reads the sequence number from the Timer it has
   handed over, which may have run and been deleted: then any number. *)
AddTimerReturns(a) ==
    /\ a \in unread /\ unread' = unread \ {a}
    /\ \E s \in IF heap[a] = Free THEN 0..MaxTimers ELSE {heap[a].seq} :
           Keep(<<a, s>>)
    /\ UNCHANGED <<inserted, heap, queueVars, functors, intervals, ran, cancelled>>

(* cancel() by another thread. *)
Cancel(id) ==
    /\ id \in ids /\ ids' = ids \ {id}
    /\ functors' = Append(functors, [op |-> "cancel", id |-> id])
    /\ UNCHANGED <<inserted, heap, queueVars, unread, intervals, ran, cancelled>>

(* The loop thread runs a functor. *)
RunFunctor ==
    /\ queuePc = "poll" /\ functors # <<>> /\ functors' = Tail(functors)
    /\ IF Head(functors).op = "add"
       THEN AddTimerInLoop(Head(functors).id[1], heap)
            /\ UNCHANGED <<canceling, heap, cancelled>>
       ELSE CancelInLoop(Head(functors).id) /\ UNCHANGED fd
    /\ UNCHANGED <<inserted, queuePc, expired, calledNow, elapsed, unread, ids, intervals, ran>>

(* handleRead up to the callbacks: readTimerfd and getExpired. *)
HandleRead ==
    /\ queuePc = "poll" /\ fd = 0 /\ fd' = Disarmed
    /\ expired' = {a \in timers : heap[a].when = 0}
    /\ timers' = timers \ expired'
    /\ active' = active \ {Id(a) : a \in expired'}
    /\ canceling' = {} /\ calledNow' = {} /\ elapsed' = 0 /\ queuePc' = "calling"
    /\ UNCHANGED <<inserted, heap, functors, unread, ids, intervals, ran, cancelled>>

CallNext(a) ==
    /\ queuePc = "calling" /\ a \in expired
    /\ expired' = expired \ {a} /\ calledNow' = calledNow \cup {a}
    /\ ran' = ran \cup {heap[a].seq} /\ queuePc' = "incall"
    /\ UNCHANGED <<inserted, heap, timers, active, canceling, fd, elapsed,
                   functors, unread, ids, intervals, cancelled>>

(* What a callback may do with the queue: its runInThread runs at once. *)
CallbackAdds(a, when, interval) ==
    /\ queuePc = "incall" /\ NewTimer(a, when, interval)
    /\ AddTimerInLoop(a, heap') /\ Keep(<<a, heap'[a].seq>>)
    /\ UNCHANGED <<inserted, canceling, queuePc, expired, calledNow, elapsed, functors,
                   unread, ran, cancelled>>

CallbackCancels(id) ==
    /\ queuePc = "incall" /\ id \in ids /\ ids' = ids \ {id} /\ CancelInLoop(id)
    /\ UNCHANGED <<inserted, fd, queuePc, expired, calledNow, elapsed, functors, unread,
                   intervals, ran>>

CallbackReturns ==
    /\ queuePc = "incall" /\ queuePc' = "calling"
    /\ UNCHANGED <<inserted, heap, timers, active, canceling, fd, expired, calledNow,
                   elapsed, functors, unread, ids, intervals, ran, cancelled>>

(* reset(): repeated timers that were not cancelled start again, from the
   time that handleRead read; the others are deleted. *)
Repeats_IgnoresCanceling == {a \in calledNow : heap[a].interval > 0}
Repeats == {a \in calledNow : heap[a].interval > 0 /\ Id(a) \notin canceling}
Restarted(t) == [t EXCEPT !.when = IF @ + t.interval > elapsed
                                   THEN t.interval - elapsed ELSE 0]
Reset ==
    /\ queuePc = "calling" /\ expired = {} /\ queuePc' = "poll" /\ calledNow' = {}
    /\ heap' = [a \in Addrs |-> IF a \in Repeats THEN Restarted(heap[a])
                                ELSE IF a \in calledNow THEN Free ELSE heap[a]]
    /\ timers' = timers \cup Repeats
    /\ active' = active \cup {Id(a) : a \in Repeats}
    /\ fd' = IF timers' = {} THEN fd ELSE FdAt(Earliest(timers', heap'))
    /\ UNCHANGED <<inserted, canceling, expired, elapsed, functors, unread, ids,
                   intervals, ran, cancelled>>

(* Time passes. *)
Tick ==
    /\ heap' = [a \in Addrs |-> [heap[a] EXCEPT !.when = Left(@)]]
    /\ fd' = Left(fd)
    /\ elapsed' = IF queuePc # "poll" /\ elapsed < Horizon THEN elapsed + 1 ELSE elapsed
    /\ UNCHANGED <<inserted, timers, active, canceling, functors, queuePc, expired,
                   calledNow, unread, ids, intervals, ran, cancelled>>

LoopNext ==
    \/ RunFunctor \/ HandleRead \/ CallbackReturns \/ Reset
    \/ \E a \in Addrs : CallNext(a)
CallbackNext ==
    \/ \E a \in Addrs, w \in Delays, i \in Intervals : CallbackAdds(a, w, i)
    \/ \E id \in ids : CallbackCancels(id)
CallerNext ==
    \/ InsertTimeQueue
    \/ \E a \in Addrs : AddTimerReturns(a)
    \/ \E a \in Addrs, w \in Delays, i \in Intervals : RunAt(a, w, i)
    \/ \E id \in ids : Cancel(id)
TimersNext == LoopNext \/ CallbackNext \/ CallerNext \/ Tick

TimersSpec == TimersInit /\ [][TimersNext]_timerVars
(* The loop thread is scheduled and calls the functors in every iteration,
   between its timers; time goes on; callers owe nothing. *)
FairTimersSpec == TimersSpec /\ WF_timerVars(LoopNext) /\ SF_timerVars(RunFunctor) /\ WF_timerVars(Tick)

-------------------------------------------------------------------------------
Seqs == 0..MaxTimers
TimerIds == Addrs \X Seqs

TimersTypeOK ==
    /\ inserted \in BOOLEAN
    /\ heap \in [Addrs -> [seq : Seqs, when : 0..Horizon, interval : Intervals \cup {0}]]
    /\ timers \subseteq Addrs /\ active \subseteq TimerIds
    /\ canceling \subseteq TimerIds
    /\ fd \in Disarmed..(Horizon + 1)
    /\ functors \in Seq([op : {"add", "cancel"}, id : TimerIds])
    /\ queuePc \in {"poll", "calling", "incall"}
    /\ expired \subseteq Addrs /\ calledNow \subseteq Addrs /\ elapsed \in 0..Horizon
    /\ unread \subseteq Addrs /\ ids \subseteq TimerIds
    /\ intervals \in Seq(Intervals) /\ Len(intervals) <= MaxTimers
    /\ ran \subseteq Seqs /\ cancelled \subseteq Seqs

(* timers_ and activeTimers_ hold the same timers (the assertions of insert,
   getExpired and cancelInLoop), none of them deleted, none of them in the
   batch that handleRead will restart or delete. *)
SetsAgree ==
    /\ active = {Id(a) : a \in timers}
    /\ \A a \in timers \cup expired \cup calledNow : heap[a] # Free
    /\ timers \cap (expired \cup calledNow) = {}

(* When the loop thread goes to epoll_wait the timerfd is set, no later than
   the first timer or, when that is late already, a tick from then. *)
FdArmed ==
    queuePc = "poll" /\ timers # {} => fd \in 0..FdAt(Earliest(timers, heap))

(* A timer that was accepted runs, and again if it is repeated, unless it is
   cancelled: until then it is somewhere on its way, whatever was cancelled or
   deleted at the same address. *)
OnItsWay(s) ==
    \E a \in Addrs :
        /\ heap[a].seq = s
        /\ \/ <<a, s>> \in active
           \/ a \in expired \cup calledNow
           \/ \E k \in 1..Len(functors) :
                  functors[k] = [op |-> "add", id |-> <<a, s>>]
NoTimerLost ==
    \A s \in 1..Len(intervals) :
        \/ OnItsWay(s) \/ s \in cancelled \/ (s \in ran /\ intervals[s] = 0)

(* ZkTimerQueue.cc:126-237: timers_ and activeTimers_ agree, no timer of theirs
   has been deleted, and each accepted timer is on its way, called or cancelled. *)
TimersKept == TimersTypeOK /\ SetsAgree /\ NoTimerLost

(* A timer that a cancel has found never waits for its time again, not even
   when it is repeated and was cancelled from its own callback. *)
CancelHolds == \A s \in cancelled : \A a \in Addrs : <<a, s>> \notin active

(* Every timer that was accepted is called or cancelled. *)
Fires == \A s \in 1..MaxTimers : s <= Len(intervals) ~> s \in ran \cup cancelled
===============================================================================
