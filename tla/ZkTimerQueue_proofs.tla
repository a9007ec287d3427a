-------------------------- MODULE ZkTimerQueue_proofs --------------------------
(***************************************************************************)
(* Proofs about ZkTimerQueue, for any delays, intervals, addresses and     *)
(* number of timers: the two sets of timers agree, no timer is lost or     *)
(* used after its deletion, the timerfd is armed for the first of them,    *)
(* and a timer that was cancelled does not wait again.                     *)
(***************************************************************************)
EXTENDS ZkTimerQueue, FiniteSetTheorems, SequenceTheorems, TLAPS

(* The additions that wait for the loop thread, each of them once. *)
AddAt(k) == functors[k].op = "add"
Waiting == {functors[k].id : k \in {j \in 1..Len(functors) : AddAt(j)}}
Adding == {a \in Addrs : Id(a) \in Waiting}
Once == \A j, k \in 1..Len(functors) :
            AddAt(j) /\ AddAt(k) /\ functors[j].id = functors[k].id => j = k
Batch == expired \cup calledNow

(* Timers are numbered in the order of their making, and the free addresses have
   no timer. *)
Numbered ==
    /\ \A a \in Addrs :
         /\ heap[a].seq <= Len(intervals)
         /\ heap[a].seq = 0 => heap[a] = Free
         /\ heap[a].seq # 0 => heap[a].interval = intervals[heap[a].seq]
    /\ \A a, b \in Addrs : heap[a].seq = heap[b].seq /\ heap[a].seq # 0 => a = b

(* A timer is in one place: added by a functor that waits, by just one, in timers_,
   or in the batch of handleRead. *)
Placed ==
    /\ \A a \in Addrs : heap[a].seq # 0 <=> a \in timers \cup Batch \cup Adding
    /\ timers \cap Batch = {} /\ Adding \cap (timers \cup Batch) = {}
    /\ Waiting \subseteq {Id(a) : a \in Addrs} /\ Once
    /\ active = {Id(a) : a \in timers}

(* There is a batch only while handleRead runs, of timers whose time has come; what
   it has called has run. *)
Phases ==
    /\ queuePc = "poll" => Batch = {}
    /\ expired \cap calledNow = {}
    /\ \A a \in Batch : heap[a].when = 0
    /\ \A a \in calledNow : heap[a].seq \in ran

(* The timers that a cancel has found and that are not deleted yet are those of the
   batch that reset() will not start again. *)
Cancels ==
    /\ cancelled \subseteq 1..Len(intervals)
    /\ \A a \in Addrs : heap[a].seq # 0 =>
         (heap[a].seq \in cancelled <=> a \in Batch /\ Id(a) \in canceling)

(* A timer that has no address has run for the last time, or was cancelled. *)
Ended ==
    \A s \in 1..Len(intervals) :
        \/ \E a \in Addrs : heap[a].seq = s
        \/ s \in cancelled \/ (s \in ran /\ intervals[s] = 0)

(* While the loop thread is not in handleRead the timerfd will wake it for every
   timer. *)
Armed ==
    queuePc = "poll" => \A a \in timers : fd \in 0..FdAt(heap[a].when)

IInv == /\ TimersTypeOK /\ Numbered /\ Placed /\ Phases /\ Cancels /\ Ended /\ Armed
-----------------------------------------------------------------------------
\* A set of natural numbers that is not empty has a least member, and Min is one.
LEMMA MinIn ==
  ASSUME NEW S, S \subseteq Nat, S # {}
  PROVE  Min(S) \in S /\ \A y \in S : Min(S) <= y
<1> DEFINE T == {0..x : x \in S}
           R == StrictSubsetOrdering(Nat)
<1>1. T \subseteq FiniteSubsetsOf(Nat) /\ T # {}
  <2>1. ASSUME NEW x \in S PROVE (0..x) \in SUBSET Nat /\ IsFiniteSet(0..x)
    BY FS_Interval
  <2>2. T # {}
    OBVIOUS
  <2> QED
    BY <2>1, <2>2 DEF FiniteSubsetsOf
<1>2. IsWellFoundedOn(R, FiniteSubsetsOf(Nat))
  BY FS_StrictSubsetOrderingWellFounded
<1>3. PICK u \in T : \A v \in T : ~(<<v, u>> \in R)
  <2> HIDE DEF R, T
  <2> QED
    BY <1>1, <1>2, WFMin
<1>4. PICK x \in S : u = 0..x
  BY <1>3
<1>5. \A y \in S : x <= y
  <2> SUFFICES ASSUME NEW y \in S, y < x PROVE FALSE
    OBVIOUS
  <2>1. 0..y \subseteq 0..x /\ x \in 0..x /\ x \notin 0..y
    OBVIOUS
  <2>2. (0..y) \in SUBSET Nat /\ (0..x) \in SUBSET Nat /\ (0..y) # (0..x) /\ (0..y) \in T
    BY <2>1
  <2> QED
    BY <1>3, <1>4, <2>1, <2>2 DEF StrictSubsetOrdering
<1> QED
  BY <1>5 DEF Min

\* A finite set of natural numbers that is not empty has a greatest member, and Max is
\* one.
LEMMA MaxIn ==
  ASSUME NEW S, S \subseteq Nat, S # {}, IsFiniteSet(S)
  PROVE  Max(S) \in S /\ \A y \in S : Max(S) >= y
<1> DEFINE Above(x) == {y \in S : y >= x}
           T == {Above(x) : x \in S}
           R == StrictSubsetOrdering(S)
<1>1. T \subseteq FiniteSubsetsOf(S) /\ T # {}
  <2>1. ASSUME NEW x \in S PROVE Above(x) \in SUBSET S /\ IsFiniteSet(Above(x))
    BY FS_Subset
  <2>2. T # {}
    OBVIOUS
  <2> QED
    BY <2>1, <2>2 DEF FiniteSubsetsOf
<1>2. IsWellFoundedOn(R, FiniteSubsetsOf(S))
  BY FS_StrictSubsetOrderingWellFounded
<1>3. PICK u \in T : \A v \in T : ~(<<v, u>> \in R)
  <2> HIDE DEF R, T
  <2> QED
    BY <1>1, <1>2, WFMin
<1>4. PICK x \in S : u = Above(x)
  BY <1>3
<1>5. \A y \in S : x >= y
  <2> SUFFICES ASSUME NEW y \in S, y > x PROVE FALSE
    OBVIOUS
  <2>1. Above(y) \subseteq Above(x) /\ x \in Above(x) /\ x \notin Above(y)
    <3>1. x \in Nat /\ y \in Nat
      OBVIOUS
    <3>2. x \in Above(x) /\ x \notin Above(y)
      BY <3>1
    <3>3. ASSUME NEW z \in Above(y) PROVE z \in Above(x)
      <4>1. z \in S /\ z \in Nat /\ z >= y
        OBVIOUS
      <4>2. z >= x
        BY <3>1, <4>1
      <4> QED
        BY <4>1, <4>2
    <3> QED
      BY <3>2, <3>3
  <2>2. Above(y) \in SUBSET S /\ Above(x) \in SUBSET S /\ Above(y) # Above(x) /\ Above(y) \in T
    BY <2>1
  <2> QED
    BY <1>3, <1>4, <2>1, <2>2 DEF StrictSubsetOrdering
<1> QED
  BY <1>5 DEF Max

\* Every delay and every interval is within the horizon.
LEMMA HorizonIs == Horizon \in Nat /\ \A d \in Delays \cup Intervals : d \in 0..Horizon
<1> DEFINE S == Delays \cup Intervals
<1>1. S \subseteq Nat /\ S # {} /\ IsFiniteSet(S)
  BY TimersAssumption, FS_Union DEF TimersAssumption
<1>2. Max(S) \in S /\ \A y \in S : Max(S) >= y
  BY <1>1, MaxIn
<1>3. Horizon = Max(S)
  BY DEF Horizon
<1> HIDE DEF S
<1>4. Horizon \in Nat /\ \A d \in S : d \in Nat /\ Horizon >= d
  BY <1>1, <1>2, <1>3
<1> QED
  BY <1>4 DEF S

\* The time of the first timer of a set: that of one of them, and of none earlier.
LEMMA EarliestIs ==
  ASSUME NEW as, as # {}, NEW h, \A a \in as : h[a].when \in Nat
  PROVE  /\ \E a \in as : Earliest(as, h) = h[a].when
         /\ \A a \in as : Earliest(as, h) <= h[a].when
<1> DEFINE S == {h[a].when : a \in as}
<1>1. S \subseteq Nat /\ S # {}
  OBVIOUS
<1>2. Min(S) \in S /\ \A y \in S : Min(S) <= y
  BY <1>1, MinIn
<1> QED
  BY <1>2 DEF Earliest

\* A write of the time of a timer.
LEMMA WhenSet ==
  ASSUME NEW S, NEW T, NEW I, NEW t \in [seq : S, when : T, interval : I], NEW w \in T
  PROVE  /\ [t EXCEPT !.when = w] \in [seq : S, when : T, interval : I]
         /\ [t EXCEPT !.when = w] = [seq |-> t.seq, when |-> w, interval |-> t.interval]
  OBVIOUS

\* A functor queued goes to the end, and the head is taken away.
LEMMA QueueOps ==
  ASSUME NEW S, NEW q \in Seq(S)
  PROVE  /\ \A f \in S : /\ Append(q, f) \in Seq(S) /\ Len(Append(q, f)) = Len(q) + 1
                         /\ \A k \in 1..Len(q) : Append(q, f)[k] = q[k]
                         /\ Append(q, f)[Len(q) + 1] = f
         /\ q # <<>> => /\ Tail(q) \in Seq(S) /\ Len(Tail(q)) = Len(q) - 1 /\ Len(q) > 0
                        /\ Head(q) = q[1] /\ Head(q) \in S
                        /\ \A k \in 1..(Len(q) - 1) : Tail(q)[k] = q[k + 1]
  OBVIOUS
-----------------------------------------------------------------------------
Timer == [seq : Seqs, when : 0..Horizon, interval : Intervals \cup {0}]
Functor == [op : {"add", "cancel"}, id : TimerIds]

\* What a new timer, its addition and a cancellation do to the types.
LEMMA OperationTypes ==
  ASSUME TimersTypeOK
  PROVE  /\ \A a \in Addrs, w \in Delays, i \in Intervals : NewTimer(a, w, i) =>
              /\ heap' \in [Addrs -> Timer] /\ heap'[a].seq = Len(intervals) + 1
              /\ Len(intervals) + 1 \in Seqs
              /\ intervals' \in Seq(Intervals) /\ Len(intervals') <= MaxTimers
         /\ \A a \in Addrs, h \in [Addrs -> Timer] : AddTimerInLoop(a, h) =>
              /\ timers' \subseteq Addrs /\ active' \subseteq TimerIds
              /\ fd' \in Disarmed..(Horizon + 1)
         /\ \A id \in TimerIds : CancelInLoop(id) =>
              /\ timers' \subseteq Addrs /\ active' \subseteq TimerIds
              /\ canceling' \subseteq TimerIds /\ heap' \in [Addrs -> Timer]
              /\ cancelled' \subseteq Seqs
         /\ \A id \in TimerIds : Keep(id) => ids' \subseteq TimerIds
<1> USE DEF TimersTypeOK, Timer, TimerIds
<1>0. Horizon \in Nat /\ MaxTimers \in Nat /\ 0 \in Seqs
  BY HorizonIs, TimersAssumption DEF Seqs
<1>1. ASSUME NEW a \in Addrs, NEW w \in Delays, NEW i \in Intervals, NewTimer(a, w, i)
      PROVE  /\ heap' \in [Addrs -> Timer] /\ heap'[a].seq = Len(intervals) + 1
             /\ Len(intervals) + 1 \in Seqs
             /\ intervals' \in Seq(Intervals) /\ Len(intervals') <= MaxTimers
  <2>1. Len(intervals) + 1 \in Seqs
    BY <1>0, <1>1 DEF NewTimer, Seqs
  <2>2. w \in 0..Horizon
    BY HorizonIs
  <2>3. intervals' \in Seq(Intervals) /\ Len(intervals') = Len(intervals) + 1
    BY <1>1, QueueOps DEF NewTimer
  <2> QED
    BY <1>0, <1>1, <2>1, <2>2, <2>3 DEF NewTimer
<1>2. ASSUME NEW a \in Addrs, NEW h \in [Addrs -> Timer], AddTimerInLoop(a, h)
      PROVE  /\ timers' \subseteq Addrs /\ active' \subseteq TimerIds
             /\ fd' \in Disarmed..(Horizon + 1)
  <2>1. h[a].seq \in Seqs /\ h[a].when \in 0..Horizon
    OBVIOUS
  <2>2. fd' \in Disarmed..(Horizon + 1)
    BY <1>0, <1>2, <2>1 DEF AddTimerInLoop, FdAt, Disarmed
  <2> QED
    BY <1>2, <2>1, <2>2 DEF AddTimerInLoop
<1>3. ASSUME NEW id \in TimerIds, CancelInLoop(id)
      PROVE  /\ timers' \subseteq Addrs /\ active' \subseteq TimerIds
             /\ canceling' \subseteq TimerIds /\ heap' \in [Addrs -> Timer]
             /\ cancelled' \subseteq Seqs
  <2>1. Free \in Timer
    BY <1>0 DEF Free
  <2>2. id[1] \in Addrs /\ id[2] \in Seqs
    OBVIOUS
  <2>3. CASE Found(id)
    BY <1>3, <2>1, <2>2, <2>3 DEF CancelInLoop, ForgetId
  <2>4. CASE ~Found(id)
    BY <1>3, <2>2, <2>4 DEF CancelInLoop
  <2> QED
    BY <2>3, <2>4
<1>4. ASSUME NEW id \in TimerIds, Keep(id) PROVE ids' \subseteq TimerIds
  BY <1>4 DEF Keep
<1> QED
  BY <1>1, <1>2, <1>3, <1>4

\* What a tick, and reset(), do to the timers: they change the time that is left, and
\* reset() frees some.
LEMMA TickHeap ==
  ASSUME TimersTypeOK, Tick
  PROVE  /\ heap' \in [Addrs -> Timer]
         /\ \A a \in Addrs : heap'[a] = [seq |-> heap[a].seq, when |-> Left(heap[a].when),
                                         interval |-> heap[a].interval]
<1> USE DEF TimersTypeOK, Timer
<1>1. ASSUME NEW a \in Addrs
      PROVE  /\ heap'[a] = [heap[a] EXCEPT !.when = Left(heap[a].when)]
             /\ Left(heap[a].when) \in 0..Horizon
  BY HorizonIs DEF Tick, Left
<1>2. ASSUME NEW a \in Addrs
      PROVE  heap'[a] \in Timer /\ heap'[a] = [seq |-> heap[a].seq, when |-> Left(heap[a].when),
                                               interval |-> heap[a].interval]
  <2>1. heap[a] \in Timer
    OBVIOUS
  <2> QED
    BY <1>1, <2>1, WhenSet
<1> QED
  BY <1>2 DEF Tick

LEMMA ResetHeap ==
  ASSUME TimersTypeOK, Phases, Reset
  PROVE  /\ heap' \in [Addrs -> Timer]
         /\ \A a \in Repeats : /\ heap'[a].seq = heap[a].seq
                               /\ heap'[a].interval = heap[a].interval
         /\ \A a \in Addrs \ Repeats : heap'[a] = IF a \in calledNow THEN Free ELSE heap[a]
<1> USE DEF TimersTypeOK
<1>0. Horizon \in Nat /\ Free \in Timer
  BY HorizonIs, TimersAssumption DEF Free, Timer, Seqs
<1>1. ASSUME NEW a \in Repeats
      PROVE  /\ heap'[a] \in Timer /\ heap'[a].seq = heap[a].seq
             /\ heap'[a].interval = heap[a].interval
  <2>1. a \in Addrs /\ heap[a] \in Timer /\ heap[a].when = 0
    BY DEF Repeats, Phases, Batch, Timer
  <2> DEFINE w == IF heap[a].when + heap[a].interval > elapsed
                  THEN heap[a].interval - elapsed ELSE 0
  <2>2. heap'[a] = [heap[a] EXCEPT !.when = w]
    BY <2>1 DEF Reset, Restarted
  <2>3. w \in 0..Horizon
    <3>1. heap[a].interval \in 0..Horizon
      BY <1>0, <2>1, HorizonIs DEF Timer
    <3> QED
      BY <1>0, <2>1, <3>1
  <2> HIDE DEF w
  <2>4. heap'[a] \in Timer
    BY SMTT(30), <2>1, <2>2, <2>3, WhenSet DEF Timer
  <2>5. heap'[a] = [seq |-> heap[a].seq, when |-> w, interval |-> heap[a].interval]
    BY <2>1, <2>2, <2>3, WhenSet DEF Timer
  <2> QED
    BY <2>4, <2>5
<1>2. ASSUME NEW a \in Addrs \ Repeats
      PROVE  heap'[a] = IF a \in calledNow THEN Free ELSE heap[a]
  BY DEF Reset
<1>3. ASSUME NEW a \in Addrs PROVE heap'[a] \in Timer
  <2>1. CASE a \in Repeats
    BY <1>1, <2>1
  <2>2. CASE a \notin Repeats
    BY <1>0, <1>2, <2>2 DEF Timer
  <2> QED
    BY <2>1, <2>2
<1>4. heap' = [a \in Addrs |-> heap'[a]]
  BY DEF Reset
<1> QED
  BY <1>1, <1>2, <1>3, <1>4

\* Each variable keeps its type.
LEMMA TypesStep ==
  ASSUME TimersTypeOK, Phases, [TimersNext]_timerVars
  PROVE  TimersTypeOK'
<1> USE DEF TimersTypeOK, queueVars
<1>0. /\ Horizon \in Nat /\ MaxTimers \in Nat /\ 0 \in Seqs /\ Free \in Timer
      /\ heap \in [Addrs -> Timer] /\ functors \in Seq(Functor)
  BY HorizonIs, TimersAssumption DEF Seqs, Free, Timer, Functor
<1>t. \A a \in Addrs : heap[a].seq \in Seqs /\ Id(a) \in TimerIds
  BY <1>0 DEF Timer, TimerIds, Id
<1>1. CASE InsertTimeQueue
  BY <1>1 DEF InsertTimeQueue
<1>2. ASSUME NEW a \in Addrs, AddTimerReturns(a) PROVE TimersTypeOK'
  <2>1. PICK s \in IF heap[a] = Free THEN 0..MaxTimers ELSE {heap[a].seq} : Keep(<<a, s>>)
    BY <1>2 DEF AddTimerReturns
  <2>2. <<a, s>> \in TimerIds
    BY <1>t, <2>1 DEF TimerIds, Seqs
  <2>3. ids' \subseteq TimerIds
    BY <2>1, <2>2, OperationTypes
  <2> QED
    BY <1>2, <2>3 DEF AddTimerReturns
<1>3. ASSUME NEW a \in Addrs, NEW w \in Delays, NEW i \in Intervals, RunAt(a, w, i)
      PROVE  TimersTypeOK'
  <2>1. /\ heap' \in [Addrs -> Timer] /\ Len(intervals) + 1 \in Seqs
        /\ intervals' \in Seq(Intervals) /\ Len(intervals') <= MaxTimers
    BY <1>3, OperationTypes DEF RunAt
  <2>2. [op |-> "add", id |-> <<a, Len(intervals) + 1>>] \in Functor
    BY <2>1 DEF Functor, TimerIds
  <2>3. functors' \in Seq(Functor)
    BY <1>0, <1>3, <2>2, QueueOps DEF RunAt
  <2> QED
    BY <1>3, <2>1, <2>3 DEF RunAt, Timer, Functor
<1>4. ASSUME NEW id \in ids, Cancel(id) PROVE TimersTypeOK'
  <2>1. [op |-> "cancel", id |-> id] \in Functor
    BY DEF Functor
  <2>2. functors' \in Seq(Functor)
    BY <1>0, <1>4, <2>1, QueueOps DEF Cancel
  <2> QED
    BY <1>4, <2>2 DEF Cancel, Functor
<1>5. CASE RunFunctor
  <2>1. functors' \in Seq(Functor) /\ Head(functors) \in Functor
    BY <1>0, <1>5, QueueOps DEF RunFunctor
  <2>2. Head(functors).id \in TimerIds /\ Head(functors).id[1] \in Addrs
    BY <2>1 DEF Functor, TimerIds
  <2>3. CASE Head(functors).op = "add"
    <3>1. /\ AddTimerInLoop(Head(functors).id[1], heap)
          /\ UNCHANGED <<canceling, heap, cancelled>>
      BY <1>5, <2>3 DEF RunFunctor
    <3>2. /\ timers' \subseteq Addrs /\ active' \subseteq TimerIds
          /\ fd' \in Disarmed..(Horizon + 1)
      BY <1>0, <2>2, <3>1, OperationTypes
    <3> QED
      BY <1>5, <2>1, <3>1, <3>2 DEF RunFunctor, Functor
  <2>4. CASE Head(functors).op # "add"
    <3>1. CancelInLoop(Head(functors).id) /\ UNCHANGED fd
      BY <1>5, <2>4 DEF RunFunctor
    <3>2. /\ timers' \subseteq Addrs /\ active' \subseteq TimerIds
          /\ canceling' \subseteq TimerIds /\ heap' \in [Addrs -> Timer]
          /\ cancelled' \subseteq Seqs
      BY <2>2, <3>1, OperationTypes
    <3> QED
      BY <1>5, <2>1, <3>1, <3>2 DEF RunFunctor, Functor, Timer
  <2> QED
    BY <2>3, <2>4
<1>6. CASE HandleRead
  <2>1. elapsed' \in 0..Horizon /\ fd' \in Disarmed..(Horizon + 1)
    BY <1>0, <1>6 DEF HandleRead, Disarmed
  <2> QED
    BY <1>6, <2>1 DEF HandleRead
<1>7. ASSUME NEW a \in Addrs, CallNext(a) PROVE TimersTypeOK'
  BY <1>7, <1>t DEF CallNext
<1>8. ASSUME NEW a \in Addrs, NEW w \in Delays, NEW i \in Intervals, CallbackAdds(a, w, i)
      PROVE  TimersTypeOK'
  <2>1. /\ heap' \in [Addrs -> Timer] /\ Len(intervals) + 1 \in Seqs
        /\ heap'[a].seq = Len(intervals) + 1
        /\ intervals' \in Seq(Intervals) /\ Len(intervals') <= MaxTimers
    BY <1>8, OperationTypes DEF CallbackAdds
  <2>2. /\ timers' \subseteq Addrs /\ active' \subseteq TimerIds
        /\ fd' \in Disarmed..(Horizon + 1)
    BY <1>8, <2>1, OperationTypes DEF CallbackAdds
  <2>3. ids' \subseteq TimerIds
    BY <1>8, <2>1, OperationTypes DEF CallbackAdds, TimerIds
  <2> QED
    BY <1>8, <2>1, <2>2, <2>3 DEF CallbackAdds, Timer
<1>9. ASSUME NEW id \in ids, CallbackCancels(id) PROVE TimersTypeOK'
  <2>1. /\ timers' \subseteq Addrs /\ active' \subseteq TimerIds
        /\ canceling' \subseteq TimerIds /\ heap' \in [Addrs -> Timer]
        /\ cancelled' \subseteq Seqs
    BY <1>9, OperationTypes DEF CallbackCancels
  <2> QED
    BY <1>9, <2>1 DEF CallbackCancels, Timer
<1>10. CASE CallbackReturns
  BY <1>10 DEF CallbackReturns
<1>11. CASE Reset
  <2>1. heap' \in [Addrs -> Timer]
    BY <1>11, ResetHeap
  <2>2. timers' \subseteq Addrs /\ active' \subseteq TimerIds
    BY <1>11, <1>t DEF Reset, Repeats
  <2>3. fd' \in Disarmed..(Horizon + 1)
    <3>1. CASE timers' = {}
      BY <1>11, <3>1 DEF Reset
    <3>2. CASE timers' # {}
      <4>1. \A a \in timers' : heap'[a].when \in 0..Horizon
        BY <2>1, <2>2 DEF Timer
      <4>2. \E a \in timers' : Earliest(timers', heap') = heap'[a].when
        <5>1. \A a \in timers' : heap'[a].when \in Nat
          BY <1>0, <4>1
        <5> HIDE DEF TimersTypeOK
        <5> QED
          BY <3>2, <5>1, EarliestIs
      <4>3. fd' = FdAt(Earliest(timers', heap'))
        BY <1>11, <3>2 DEF Reset
      <4>4. Earliest(timers', heap') \in 0..Horizon
        BY <4>1, <4>2
      <4> HIDE DEF TimersTypeOK
      <4> QED
        BY <1>0, <4>3, <4>4 DEF FdAt, Disarmed
    <3> QED
      BY <3>1, <3>2
  <2> QED
    BY <1>11, <2>1, <2>2, <2>3 DEF Reset, Timer
<1>12. CASE Tick
  <2>1. heap' \in [Addrs -> Timer]
    BY <1>12, TickHeap
  <2>2. elapsed' \in 0..Horizon /\ fd' \in Disarmed..(Horizon + 1)
    BY <1>0, <1>12 DEF Tick, Left, Disarmed
  <2> QED
    BY <1>12, <2>1, <2>2 DEF Tick, Timer
<1>13. CASE UNCHANGED timerVars
  BY <1>13 DEF timerVars
<1> QED
  BY <1>1, <1>2, <1>3, <1>4, <1>5, <1>6, <1>7, <1>8, <1>9, <1>10, <1>11, <1>12, <1>13
     DEF TimersNext, LoopNext, CallbackNext, CallerNext
-----------------------------------------------------------------------------
\* The additions that wait, after a functor is queued or taken.
LEMMA QueueSteps ==
  ASSUME functors \in Seq(Functor), Once
  PROVE  /\ functors' = functors => Waiting' = Waiting /\ Once'
         /\ \A id \in TimerIds : functors' = Append(functors, [op |-> "cancel", id |-> id])
              => Waiting' = Waiting /\ Once'
         /\ \A id \in TimerIds \ Waiting :
              functors' = Append(functors, [op |-> "add", id |-> id])
              => Waiting' = Waiting \cup {id} /\ Once'
         /\ functors # <<>> /\ functors' = Tail(functors) =>
              /\ Once'
              /\ Head(functors).op # "add" => Waiting' = Waiting
              /\ Head(functors).op = "add" =>
                   /\ Head(functors).id \in Waiting
                   /\ Waiting' = Waiting \ {Head(functors).id}
<1>1. ASSUME functors' = functors PROVE Waiting' = Waiting /\ Once'
  BY <1>1 DEF Waiting, Once, AddAt
<1>2. ASSUME NEW f \in Functor, functors' = Append(functors, f)
      PROVE  /\ Len(functors) \in Nat /\ Len(functors') = Len(functors) + 1
             /\ \A k \in 1..Len(functors) : functors'[k] = functors[k]
             /\ functors'[Len(functors) + 1] = f
  BY <1>2, QueueOps
<1>3. ASSUME NEW id \in TimerIds, functors' = Append(functors, [op |-> "cancel", id |-> id])
      PROVE  Waiting' = Waiting /\ Once'
  <2>1. [op |-> "cancel", id |-> id] \in Functor
    BY DEF Functor
  <2>2. \A k \in 1..Len(functors') : AddAt(k)' <=> k \in 1..Len(functors) /\ AddAt(k)
    BY <1>2, <1>3, <2>1 DEF AddAt
  <2> QED
    BY <1>2, <1>3, <2>1, <2>2 DEF Waiting, Once
<1>4. ASSUME NEW id \in TimerIds, id \notin Waiting,
             functors' = Append(functors, [op |-> "add", id |-> id])
      PROVE  Waiting' = Waiting \cup {id} /\ Once'
  <2>1. [op |-> "add", id |-> id] \in Functor
    BY DEF Functor
  <2>2. \A k \in 1..Len(functors') :
          AddAt(k)' <=> k = Len(functors) + 1 \/ (k \in 1..Len(functors) /\ AddAt(k))
    BY <1>2, <1>4, <2>1 DEF AddAt
  <2>3. Waiting' = Waiting \cup {id}
    BY <1>2, <1>4, <2>1, <2>2 DEF Waiting
  <2>4. Once'
    BY <1>2, <1>4, <2>1, <2>2 DEF Waiting, Once
  <2> QED
    BY <2>3, <2>4
<1>5. ASSUME functors # <<>>, functors' = Tail(functors)
      PROVE  /\ Once'
             /\ Head(functors).op # "add" => Waiting' = Waiting
             /\ Head(functors).op = "add" =>
                  /\ Head(functors).id \in Waiting
                  /\ Waiting' = Waiting \ {Head(functors).id}
  <2>1. /\ Len(functors) \in Nat /\ Len(functors') = Len(functors) - 1 /\ Len(functors) > 0
        /\ Head(functors) = functors[1]
        /\ \A k \in 1..(Len(functors) - 1) : functors'[k] = functors[k + 1]
    BY <1>5, QueueOps
  <2>2. \A k \in 1..Len(functors') : k + 1 \in 1..Len(functors) /\ (AddAt(k)' <=> AddAt(k + 1))
    BY <2>1 DEF AddAt
  <2>3. Once'
    BY <2>1, <2>2 DEF Once
  <2>4. \A k \in 1..Len(functors) : k = 1 \/ k - 1 \in 1..Len(functors')
    BY <2>1
  <2>5. Waiting' \subseteq Waiting
    BY <2>1, <2>2 DEF Waiting
  <2>6. \A x \in Waiting : x \in Waiting' \/ (AddAt(1) /\ x = functors[1].id)
    <3> SUFFICES ASSUME NEW k \in 1..Len(functors), AddAt(k), k # 1
                 PROVE  functors[k].id \in Waiting'
      BY DEF Waiting
    <3>1. k - 1 \in 1..Len(functors') /\ functors'[k - 1] = functors[k] /\ AddAt(k - 1)'
      BY <2>1, <2>2, <2>4
    <3> QED
      BY <3>1 DEF Waiting
  <2>7. CASE Head(functors).op # "add"
    BY <2>1, <2>3, <2>5, <2>6, <2>7 DEF AddAt
  <2>8. CASE Head(functors).op = "add"
    <3>1. 1 \in 1..Len(functors) /\ AddAt(1)
      BY <2>1, <2>8 DEF AddAt
    <3>2. functors[1].id \in Waiting
      BY <3>1 DEF Waiting
    <3>3. functors[1].id \notin Waiting'
      <4> SUFFICES ASSUME NEW k \in 1..Len(functors'), AddAt(k)', functors'[k].id = functors[1].id
                   PROVE  FALSE
        BY DEF Waiting
      <4>1. k + 1 \in 1..Len(functors) /\ AddAt(k + 1) /\ functors[k + 1].id = functors[1].id
        BY <2>1, <2>2
      <4>2. k + 1 = 1
        BY <3>1, <4>1 DEF Once
      <4> QED
        BY <4>2
    <3> QED
      BY <2>1, <2>3, <2>5, <2>6, <2>8, <3>2, <3>3
  <2> QED
    BY <2>7, <2>8
<1> QED
  BY <1>1, <1>3, <1>4, <1>5
-----------------------------------------------------------------------------
(* What relates the timers, their addresses and the cancels. *)
Related == Numbered /\ Placed /\ Cancels /\ Ended

\* A step that leaves the timers where they are and changes at most the time that is
\* left to them.
LEMMA Frame ==
  ASSUME Related, TimersTypeOK,
         \A a \in Addrs : /\ heap'[a].seq = heap[a].seq /\ heap'[a].interval = heap[a].interval
                          /\ heap[a] = Free => heap'[a] = Free,
         UNCHANGED <<timers, active, canceling, cancelled, intervals>>,
         Batch' = Batch, ran \subseteq ran', Waiting' = Waiting, Once'
  PROVE  Related'
<1>1. \A a \in Addrs : Id(a)' = Id(a)
  BY DEF Id
<1>2. Adding' = Adding
  BY <1>1 DEF Adding
<1>3. Numbered'
  BY DEF Related, Numbered
<1>4. Placed'
  <2>1. timers \subseteq Addrs
    BY DEF TimersTypeOK
  <2> QED
    BY <1>1, <1>2, <2>1 DEF Related, Placed
<1>5. Cancels'
  BY <1>1 DEF Related, Cancels
<1>6. Ended'
  BY DEF Related, Ended
<1> QED
  BY <1>3, <1>4, <1>5, <1>6 DEF Related

\* A timer is made at an address that has none, with a number that no timer had.
LEMMA Made ==
  ASSUME Related, TimersTypeOK, NEW a \in Addrs, NEW w \in Delays, NEW i \in Intervals,
         NewTimer(a, w, i), cancelled' = cancelled, canceling' = canceling,
         Batch' = Batch, ran' = ran
  PROVE  /\ a \notin timers \cup Batch \cup Adding
         /\ \A b \in Addrs \ {a} : heap'[b] = heap[b] /\ Id(b)' = Id(b)
         /\ heap'[a] = [seq |-> Len(intervals) + 1, when |-> w, interval |-> i]
         /\ Id(a)' = <<a, Len(intervals) + 1>> /\ Id(a)' \in TimerIds \ Waiting
         /\ Numbered' /\ Cancels' /\ Ended'
<1>0. /\ heap \in [Addrs -> Timer] /\ intervals \in Seq(Intervals) /\ Len(intervals) \in Nat
      /\ Len(intervals) + 1 \in Seqs
  BY OperationTypes DEF TimersTypeOK, Timer
<1>1. heap[a].seq = 0 /\ a \notin timers \cup Batch \cup Adding
  BY DEF NewTimer, Free, Related, Placed
<1>2. \A b \in Addrs \ {a} : heap'[b] = heap[b] /\ Id(b)' = Id(b)
  BY <1>0 DEF NewTimer, Id
<1>3. /\ heap'[a] = [seq |-> Len(intervals) + 1, when |-> w, interval |-> i]
      /\ Id(a)' = <<a, Len(intervals) + 1>>
  BY <1>0 DEF NewTimer, Id
<1>4. /\ Len(intervals') = Len(intervals) + 1 /\ intervals'[Len(intervals) + 1] = i
      /\ \A s \in 1..Len(intervals) : intervals'[s] = intervals[s]
  BY <1>0, QueueOps DEF NewTimer
<1>5. \A b \in Addrs : heap[b].seq \in Nat /\ heap[b].seq <= Len(intervals)
  BY <1>0, TimersAssumption DEF Timer, Seqs, Related, Numbered
<1>6. Id(a)' \in TimerIds \ Waiting
  <2>1. \A b \in Addrs : Id(b) # Id(a)'
    BY <1>0, <1>3, <1>5 DEF Id
  <2> QED
    BY <1>0, <1>3, <2>1 DEF Related, Placed, TimerIds
<1>7. Numbered'
  <2>1. ASSUME NEW b \in Addrs
        PROVE  /\ heap'[b].seq <= Len(intervals')
               /\ heap'[b].seq = 0 => heap'[b] = Free
               /\ heap'[b].seq # 0 => heap'[b].interval = intervals'[heap'[b].seq]
    <3>1. CASE b = a
      BY <1>0, <1>3, <1>4, <3>1
    <3>2. CASE b # a
      <4>1. heap'[b] = heap[b] /\ (heap[b].seq # 0 => heap[b].seq \in 1..Len(intervals))
        BY <1>0, <1>2, <1>5, <3>2
      <4> QED
        BY <1>0, <1>4, <1>5, <4>1 DEF Related, Numbered
    <3> QED
      BY <3>1, <3>2
  <2>2. ASSUME NEW b \in Addrs, NEW c \in Addrs, heap'[b].seq = heap'[c].seq, heap'[b].seq # 0
        PROVE  b = c
    <3>1. \A d \in Addrs \ {a} : heap'[d].seq # heap'[a].seq
      BY <1>0, <1>2, <1>3, <1>5
    <3>2. CASE b # a /\ c # a
      BY <1>2, <2>2, <3>2 DEF Related, Numbered
    <3> QED
      BY <2>2, <3>1, <3>2
  <2> QED
    BY <2>1, <2>2 DEF Numbered
<1>8. Cancels'
  <2>1. Len(intervals) + 1 \notin cancelled /\ cancelled \subseteq 1..Len(intervals')
    BY <1>0, <1>4 DEF Related, Cancels
  <2>2. ASSUME NEW b \in Addrs, heap'[b].seq # 0
        PROVE  heap'[b].seq \in cancelled' <=> b \in Batch' /\ Id(b)' \in canceling'
    <3>1. CASE b = a
      BY <1>1, <1>3, <2>1, <3>1
    <3>2. CASE b # a
      BY <1>2, <2>2, <3>2 DEF Related, Cancels
    <3> QED
      BY <3>1, <3>2
  <2> QED
    BY <2>1, <2>2 DEF Cancels
<1>9. Ended'
  <2> SUFFICES ASSUME NEW s \in 1..Len(intervals')
               PROVE  \/ \E b \in Addrs : heap'[b].seq = s
                      \/ s \in cancelled' \/ (s \in ran' /\ intervals'[s] = 0)
    BY DEF Ended
  <2>1. CASE s = Len(intervals) + 1
    BY <1>3, <2>1
  <2>2. CASE s # Len(intervals) + 1
    <3>1. s \in 1..Len(intervals) /\ s # 0
      BY <1>0, <1>4, <2>2
    <3>2. \A b \in Addrs : heap[b].seq = s => heap'[b].seq = s
      BY <1>1, <1>2, <3>1
    <3> QED
      BY <1>4, <3>1, <3>2 DEF Related, Ended
  <2> QED
    BY <2>1, <2>2
<1> QED
  BY <1>1, <1>2, <1>3, <1>6, <1>7, <1>8, <1>9

\* runAt by another thread: the new timer waits for the loop thread.
LEMMA RunAtRelated ==
  ASSUME Related, TimersTypeOK, Phases, NEW a \in Addrs, NEW w \in Delays, NEW i \in Intervals,
         RunAt(a, w, i)
  PROVE  Related' /\ \A b \in timers : heap'[b] = heap[b]
<1>1. /\ NewTimer(a, w, i) /\ UNCHANGED <<inserted, queueVars, ids, ran, cancelled>>
      /\ functors' = Append(functors, [op |-> "add", id |-> <<a, Len(intervals) + 1>>])
      /\ functors \in Seq(Functor) /\ timers \subseteq Addrs
  BY DEF RunAt, TimersTypeOK, Functor
<1>2. Batch' = Batch
  BY <1>1 DEF queueVars, Batch
<1>3. /\ a \notin timers \cup Batch \cup Adding
      /\ \A b \in Addrs \ {a} : heap'[b] = heap[b] /\ Id(b)' = Id(b)
      /\ heap'[a] = [seq |-> Len(intervals) + 1, when |-> w, interval |-> i]
      /\ Id(a)' = <<a, Len(intervals) + 1>> /\ Id(a)' \in TimerIds \ Waiting
      /\ Numbered' /\ Cancels' /\ Ended'
  BY <1>1, <1>2, Made DEF queueVars
<1>4. Waiting' = Waiting \cup {Id(a)'} /\ Once'
  BY <1>1, <1>3, QueueSteps DEF Related, Placed
<1>5. \A b \in Addrs : Id(b)' = Id(a)' => b = a
  BY DEF Id
<1>6. Adding' = Adding \cup {a}
  BY <1>3, <1>4, <1>5 DEF Adding
<1>7. Placed'
  <2>1. \A b \in Addrs : heap'[b].seq # 0 <=> b \in timers \cup Batch \cup Adding'
    <3>1. Len(intervals) + 1 # 0
      BY DEF TimersTypeOK
    <3> QED
      BY <1>3, <1>6, <3>1 DEF Related, Placed
  <2>2. Waiting' \subseteq {Id(b)' : b \in Addrs}
    <3>1. \A x \in Waiting : \E b \in Addrs \ {a} : x = Id(b)
      BY <1>3 DEF Related, Placed, Adding
    <3>2. \A x \in Waiting' : \E b \in Addrs : x = Id(b)'
      BY <1>3, <1>4, <3>1
    <3> QED
      BY <3>2
  <2>3. active' = {Id(b)' : b \in timers'}
    BY <1>1, <1>3 DEF Related, Placed, queueVars
  <2> QED
    BY <1>1, <1>2, <1>3, <1>4, <1>6, <2>1, <2>2, <2>3 DEF Related, Placed, queueVars
<1> QED
  BY <1>1, <1>3, <1>7 DEF Related

\* runAt by a callback: the new timer waits for its time.
LEMMA CallbackAddsRelated ==
  ASSUME Related, TimersTypeOK, NEW a \in Addrs, NEW w \in Delays, NEW i \in Intervals,
         CallbackAdds(a, w, i)
  PROVE  Related'
<1>1. /\ NewTimer(a, w, i) /\ AddTimerInLoop(a, heap')
      /\ UNCHANGED <<canceling, expired, calledNow, functors, ran, cancelled>>
      /\ functors \in Seq(Functor) /\ timers \subseteq Addrs
  BY DEF CallbackAdds, TimersTypeOK, Functor
<1>2. Batch' = Batch
  BY <1>1 DEF Batch
<1>3. /\ a \notin timers \cup Batch \cup Adding
      /\ \A b \in Addrs \ {a} : heap'[b] = heap[b] /\ Id(b)' = Id(b)
      /\ heap'[a] = [seq |-> Len(intervals) + 1, when |-> w, interval |-> i]
      /\ Id(a)' = <<a, Len(intervals) + 1>> /\ Id(a)' \in TimerIds \ Waiting
      /\ Numbered' /\ Cancels' /\ Ended'
  BY <1>1, <1>2, Made
<1>4. Waiting' = Waiting /\ Once'
  BY <1>1, QueueSteps DEF Related, Placed
<1>5. timers' = timers \cup {a} /\ active' = active \cup {Id(a)'}
  BY <1>1 DEF AddTimerInLoop, Id
<1>6. Adding' = Adding
  BY <1>3, <1>4 DEF Adding
<1>7. Placed'
  <2>1. \A b \in Addrs : heap'[b].seq # 0 <=> b \in timers' \cup Batch \cup Adding
    <3>1. Len(intervals) + 1 # 0
      BY DEF TimersTypeOK
    <3> QED
      BY <1>3, <1>5, <3>1 DEF Related, Placed
  <2>2. Waiting' \subseteq {Id(b)' : b \in Addrs}
    <3>1. \A x \in Waiting : \E b \in Addrs \ {a} : x = Id(b)
      BY <1>3 DEF Related, Placed, Adding
    <3>2. \A x \in Waiting' : \E b \in Addrs : x = Id(b)'
      BY <1>3, <1>4, <3>1
    <3> QED
      BY <3>2
  <2>3. active' = {Id(b)' : b \in timers'}
    BY <1>1, <1>3, <1>5 DEF Related, Placed
  <2>4. timers' \cap Batch = {} /\ Adding \cap (timers' \cup Batch) = {}
    BY <1>3, <1>5 DEF Related, Placed
  <2> QED
    BY <1>2, <1>4, <1>6, <2>1, <2>2, <2>3, <2>4 DEF Placed
<1> QED
  BY <1>3, <1>7 DEF Related

\* The loop thread adds the timer that waited longest.
LEMMA AddRelated ==
  ASSUME Related, TimersTypeOK, RunFunctor, Head(functors).op = "add"
  PROVE  /\ Related' /\ Head(functors).id[1] \in Addrs
         /\ AddTimerInLoop(Head(functors).id[1], heap)
<1>1. /\ functors # <<>> /\ functors' = Tail(functors) /\ functors \in Seq(Functor)
      /\ AddTimerInLoop(Head(functors).id[1], heap)
      /\ UNCHANGED <<canceling, heap, cancelled, expired, calledNow, intervals, ran>>
  BY DEF RunFunctor, TimersTypeOK, Functor
<1>2. /\ Once' /\ Head(functors).id \in Waiting
      /\ Waiting' = Waiting \ {Head(functors).id}
  BY <1>1, QueueSteps DEF Related, Placed
<1>3. PICK a \in Addrs : Head(functors).id = Id(a)
  BY <1>2 DEF Related, Placed
<1>4. Head(functors).id[1] = a
  BY <1>3 DEF Id
<1>5. timers' = timers \cup {a} /\ active' = active \cup {Id(a)}
  BY <1>1, <1>4 DEF AddTimerInLoop, Id
<1>6. \A b \in Addrs : Id(b)' = Id(b) /\ (Id(b) = Id(a) => b = a)
  BY <1>1 DEF Id
<1>7. a \in Adding /\ Adding' = Adding \ {a}
  BY <1>2, <1>3, <1>6 DEF Adding
<1>8. Batch' = Batch /\ timers \subseteq Addrs
  BY <1>1 DEF Batch, TimersTypeOK
<1>9. Placed'
  <2>1. active' = {Id(b)' : b \in timers'}
    BY <1>5, <1>6, <1>8 DEF Related, Placed
  <2>2. Waiting' \subseteq {Id(b)' : b \in Addrs}
    BY <1>2, <1>6 DEF Related, Placed
  <2>3. \A b \in Addrs : heap[b].seq # 0 <=> b \in timers' \cup Batch \cup Adding'
    BY <1>5, <1>7 DEF Related, Placed
  <2>4. timers' \cap Batch = {} /\ Adding' \cap (timers' \cup Batch) = {}
    BY <1>5, <1>7 DEF Related, Placed
  <2> QED
    BY <1>1, <1>2, <1>8, <2>1, <2>2, <2>3, <2>4 DEF Placed
<1>10. Numbered' /\ Cancels' /\ Ended'
  BY <1>1, <1>6, <1>8 DEF Related, Numbered, Cancels, Ended
<1> QED
  BY <1>1, <1>4, <1>9, <1>10 DEF Related

\* A cancel: the timer it finds in activeTimers_ is deleted, one in the batch will be by
\* reset(), and no other timer is touched.
LEMMA CancelRelated ==
  ASSUME Related, TimersTypeOK, Phases, NEW id \in TimerIds, CancelInLoop(id),
         UNCHANGED <<expired, calledNow, intervals, ran>>, Waiting' = Waiting, Once'
  PROVE  /\ Related' /\ timers' \subseteq timers
         /\ \A b \in Addrs : heap'[b] = Free \/ heap'[b] = heap[b]
         /\ \A b \in timers' \cup Batch : heap'[b] = heap[b]
<1>0. Batch' = Batch /\ timers \subseteq Addrs /\ Batch \subseteq Addrs /\ heap \in [Addrs -> Timer]
  BY DEF Batch, TimersTypeOK, Timer
<1>1. CASE Found(id)
  <2>1. PICK a \in timers : id = Id(a)
    BY <1>1 DEF Found, Related, Placed
  <2>2. /\ a \in Addrs /\ id[1] = a /\ id[2] = heap[a].seq
        /\ timers' = timers \ {a} /\ active' = active \ {id}
        /\ heap' = [heap EXCEPT ![a] = Free] /\ canceling' = canceling
        /\ cancelled' = cancelled \cup {heap[a].seq}
    BY <1>0, <1>1, <2>1 DEF CancelInLoop, Id, ForgetId
  <2>3. /\ heap'[a] = Free /\ heap'[a].seq = 0
        /\ \A b \in Addrs \ {a} : heap'[b] = heap[b] /\ Id(b)' = Id(b)
        /\ \A b \in Addrs : Id(b) = Id(a) => b = a
    BY <1>0, <2>2 DEF Id, Free
  <2>4. a \notin Batch \cup Adding /\ heap[a].seq # 0 /\ Id(a) \notin Waiting
    BY <2>1, <2>2 DEF Related, Placed, Adding
  <2>5. Id(a)' = <<a, 0>>
    BY <2>3 DEF Id
  <2>6. Id(a)' \notin Waiting
    <3>1. \A b \in Addrs : Id(b) \in Waiting => heap[b].seq # 0
      BY DEF Related, Placed, Adding
    <3>2. \A b \in Addrs : Id(b) = <<a, 0>> => heap[b].seq = 0
      BY DEF Id
    <3> QED
      BY <2>5, <3>1, <3>2 DEF Related, Placed
  <2>7. Adding' = Adding
    BY <2>3, <2>4, <2>6 DEF Adding
  <2>8. Placed'
    <3>1. active' = {Id(b)' : b \in timers'}
      <4>1. active = {Id(b) : b \in timers}
        BY DEF Related, Placed
      <4> QED
        BY <1>0, <2>1, <2>2, <2>3, <4>1
    <3>2. Waiting' \subseteq {Id(b)' : b \in Addrs}
      <4>1. \A x \in Waiting : \E b \in Addrs \ {a} : x = Id(b)
        BY <2>4 DEF Related, Placed
      <4>2. \A x \in Waiting' : \E b \in Addrs : x = Id(b)'
        BY <2>3, <4>1
      <4> QED
        BY <4>2
    <3>3. \A b \in Addrs : heap'[b].seq # 0 <=> b \in timers' \cup Batch \cup Adding
      BY <2>2, <2>3, <2>4 DEF Related, Placed
    <3>4. timers' \cap Batch = {} /\ Adding \cap (timers' \cup Batch) = {}
      BY <2>2 DEF Related, Placed
    <3> QED
      BY <1>0, <2>7, <3>1, <3>2, <3>3, <3>4 DEF Placed
  <2>9. Numbered'
    BY <2>2, <2>3 DEF Related, Numbered
  <2>10. Cancels'
    <3>1. heap[a].seq \in 1..Len(intervals)
      BY <1>0, <2>2, <2>4 DEF Related, Numbered, Timer, Seqs
    <3>2. cancelled' \subseteq 1..Len(intervals')
      BY <2>2, <3>1 DEF Related, Cancels
    <3>3. ASSUME NEW b \in Addrs, heap'[b].seq # 0
          PROVE  heap'[b].seq \in cancelled' <=> b \in Batch' /\ Id(b)' \in canceling'
      <4>1. b # a /\ heap'[b] = heap[b] /\ Id(b)' = Id(b)
        BY <2>3, <3>3
      <4>2. heap[b].seq # heap[a].seq
        BY <2>2, <2>4, <4>1 DEF Related, Numbered
      <4> QED
        BY <1>0, <2>2, <3>3, <4>1, <4>2 DEF Related, Cancels
    <3> QED
      BY <3>2, <3>3 DEF Cancels
  <2>11. Ended'
    <3> SUFFICES ASSUME NEW s \in 1..Len(intervals)
                 PROVE  \/ \E b \in Addrs : heap'[b].seq = s
                        \/ s \in cancelled' \/ (s \in ran /\ intervals[s] = 0)
      BY DEF Ended
    <3>1. CASE heap[a].seq = s
      BY <2>2, <3>1
    <3>2. CASE heap[a].seq # s
      BY <2>2, <2>3, <3>2 DEF Related, Ended
    <3> QED
      BY <3>1, <3>2
  <2> QED
    BY <1>0, <2>2, <2>3, <2>4, <2>8, <2>9, <2>10, <2>11 DEF Related
<1>2. CASE ~Found(id)
  <2>1. /\ UNCHANGED <<timers, active, heap>>
        /\ canceling' = IF queuePc = "poll" THEN canceling ELSE canceling \cup {id}
        /\ cancelled' = IF id \in {Id(a) : a \in Batch} THEN cancelled \cup {id[2]} ELSE cancelled
    BY <1>2 DEF CancelInLoop, Batch
  <2>2. \A b \in Addrs : Id(b)' = Id(b)
    BY <2>1 DEF Id
  <2>3. Adding' = Adding
    BY <2>2 DEF Adding
  <2>4. Placed'
    BY <1>0, <2>1, <2>2, <2>3 DEF Related, Placed
  <2>5. Numbered' /\ Ended'
    BY <2>1 DEF Related, Numbered, Ended
  <2>6. Cancels'
    <3>1. CASE id \notin {Id(a) : a \in Batch}
      <4>1. \A b \in Addrs : b \in Batch => (Id(b) \in canceling' <=> Id(b) \in canceling)
        BY <2>1, <3>1
      <4> QED
        BY <1>0, <2>1, <2>2, <3>1, <4>1 DEF Related, Cancels
    <3>2. ASSUME NEW a \in Batch, id = Id(a) PROVE Cancels'
      <4>1. /\ a \in Addrs /\ id[2] = heap[a].seq /\ heap[a].seq # 0 /\ queuePc # "poll"
        BY <1>0, <3>2 DEF Id, Related, Placed, Phases
      <4>2. canceling' = canceling \cup {id} /\ cancelled' = cancelled \cup {heap[a].seq}
        BY <2>1, <3>2, <4>1
      <4>3. heap[a].seq \in 1..Len(intervals)
        BY <1>0, <4>1 DEF Related, Numbered, Timer, Seqs
      <4>4. ASSUME NEW b \in Addrs, heap[b].seq # 0
            PROVE  heap[b].seq \in cancelled' <=> b \in Batch /\ Id(b) \in canceling'
        <5>1. CASE b = a
          BY <3>2, <4>2, <5>1
        <5>2. CASE b # a
          <6>1. heap[b].seq # heap[a].seq /\ Id(b) # id
            BY <3>2, <4>1, <4>4, <5>2 DEF Related, Numbered, Id
          <6> QED
            BY <4>2, <4>4, <6>1 DEF Related, Cancels
        <5> QED
          BY <5>1, <5>2
      <4> QED
        BY <1>0, <2>1, <2>2, <4>2, <4>3, <4>4 DEF Related, Cancels
    <3> QED
      BY <3>1, <3>2
  <2> QED
    BY <1>0, <2>1, <2>4, <2>5, <2>6 DEF Related
<1> QED
  BY <1>1, <1>2

\* handleRead takes the batch of the timers whose time has come, to none of which a
\* cancel has come.
LEMMA HandleReadRelated ==
  ASSUME Related, TimersTypeOK, Phases, HandleRead
  PROVE  Related' /\ Phases'
<1>1. /\ UNCHANGED <<heap, functors, intervals, ran, cancelled>>
      /\ timers' = timers \ expired' /\ expired' \subseteq timers
      /\ active' = active \ {Id(a) : a \in expired'}
      /\ canceling' = {} /\ calledNow' = {} /\ queuePc' # "poll"
      /\ \A a \in expired' : heap[a].when = 0
      /\ timers \subseteq Addrs /\ functors \in Seq(Functor)
  BY DEF HandleRead, TimersTypeOK, Functor
<1>2. Batch = {} /\ Batch' = expired'
  BY <1>1 DEF Phases, HandleRead, Batch
<1>3. \A a, b \in Addrs : Id(a)' = Id(a) /\ (Id(a) = Id(b) => a = b)
  BY <1>1 DEF Id
<1>4. Waiting' = Waiting /\ Once'
  BY <1>1, QueueSteps DEF Related, Placed
<1>5. Adding' = Adding
  BY <1>3, <1>4 DEF Adding
<1>6. Placed'
  <2>1. active' = {Id(a)' : a \in timers'}
    <3>1. active = {Id(a) : a \in timers}
      BY DEF Related, Placed
    <3> QED
      BY <1>1, <1>3, <3>1
  <2>2. \A a \in Addrs : heap[a].seq # 0 <=> a \in timers' \cup Batch' \cup Adding
    BY <1>1, <1>2 DEF Related, Placed
  <2>3. timers' \cap Batch' = {} /\ Adding \cap (timers' \cup Batch') = {}
    BY <1>1, <1>2 DEF Related, Placed
  <2>4. Waiting' \subseteq {Id(a)' : a \in Addrs}
    BY <1>3, <1>4 DEF Related, Placed
  <2> QED
    BY <1>1, <1>4, <1>5, <2>1, <2>2, <2>3, <2>4 DEF Placed
<1>7. Cancels'
  BY <1>1, <1>2 DEF Related, Cancels
<1>8. Numbered' /\ Ended'
  BY <1>1 DEF Related, Numbered, Ended
<1>9. Phases'
  BY <1>1, <1>2 DEF Phases
<1> QED
  BY <1>6, <1>7, <1>8, <1>9 DEF Related

\* reset() puts every timer of the batch back in its place or deletes it.
LEMMA ResetRelated ==
  ASSUME Related, TimersTypeOK, Phases, Reset
  PROVE  Related' /\ Phases'
<1>1. /\ UNCHANGED <<functors, canceling, intervals, ran, cancelled>>
      /\ expired = {} /\ expired' = {} /\ calledNow' = {}
      /\ timers' = timers \cup Repeats /\ active' = active \cup {Id(a) : a \in Repeats}
      /\ timers \subseteq Addrs /\ calledNow \subseteq Addrs /\ functors \in Seq(Functor)
      /\ heap \in [Addrs -> Timer]
  BY DEF Reset, TimersTypeOK, Functor, Timer
<1>2. Batch = calledNow /\ Batch' = {} /\ Repeats \subseteq calledNow
  BY <1>1 DEF Batch, Repeats
<1>3. /\ \A a \in Repeats : heap'[a].seq = heap[a].seq /\ heap'[a].interval = heap[a].interval
      /\ \A a \in Addrs \ calledNow : heap'[a] = heap[a]
      /\ \A a \in calledNow \ Repeats : heap'[a] = Free /\ heap'[a].seq = 0
  BY <1>1, <1>2, ResetHeap DEF Free
<1>4. \A a \in Repeats \cup (Addrs \ calledNow) : Id(a)' = Id(a)
  BY <1>3 DEF Id
<1>5. Waiting' = Waiting /\ Once'
  BY <1>1, QueueSteps DEF Related, Placed
<1>6. Adding' = Adding
  <2>1. ASSUME NEW a \in calledNow \ Repeats PROVE Id(a)' \notin Waiting /\ Id(a) \notin Waiting
    <3>1. Id(a) \notin Waiting
      BY <1>1, <1>2 DEF Related, Placed, Adding
    <3>2. ASSUME NEW b \in Addrs, Id(b) = Id(a)' PROVE Id(b) \notin Waiting
      <4>1. heap[b].seq = 0
        BY <1>1, <1>3, <3>2 DEF Id
      <4> QED
        BY <4>1 DEF Related, Placed, Adding
    <3> QED
      BY <3>1, <3>2 DEF Related, Placed
  <2> QED
    BY <1>4, <1>5, <2>1 DEF Adding
<1>7. \A a \in Addrs : heap[a].seq # 0 => heap'[a].seq = heap[a].seq \/ a \in calledNow \ Repeats
  BY <1>3
<1>8. Numbered'
  <2>1. \A a \in Addrs : \/ heap'[a] = Free /\ heap'[a].seq = 0
                         \/ /\ heap'[a].seq = heap[a].seq
                            /\ heap'[a].interval = heap[a].interval
                            /\ heap[a].seq = 0 => heap'[a] = Free
    <3>1. \A a \in Repeats : heap[a].seq # 0
      BY <1>1, <1>2 DEF Related, Placed
    <3> QED
      BY <1>3, <3>1 DEF Related, Numbered
  <2>2. Len(intervals) \in Nat
    BY DEF TimersTypeOK
  <2> QED
    BY <1>1, <2>1, <2>2 DEF Related, Numbered
<1>9. Placed'
  <2>1. active' = {Id(a)' : a \in timers'}
    <3>1. active = {Id(a) : a \in timers} /\ timers \cap calledNow = {}
      BY <1>2 DEF Related, Placed
    <3>2. \A a \in timers \cup Repeats : Id(a)' = Id(a)
      BY <1>1, <1>4, <3>1
    <3> QED
      BY <1>1, <3>1, <3>2
  <2>2. \A a \in Addrs : heap'[a].seq # 0 <=> a \in timers' \cup Batch' \cup Adding
    <3>1. timers \cap calledNow = {} /\ Adding \cap calledNow = {}
      BY <1>2 DEF Related, Placed
    <3>2. \A a \in Addrs : heap[a].seq # 0 <=> a \in timers \cup calledNow \cup Adding
      BY <1>2 DEF Related, Placed
    <3> QED
      BY <1>1, <1>2, <1>3, <3>1, <3>2
  <2>3. timers' \cap Batch' = {} /\ Adding \cap (timers' \cup Batch') = {}
    BY <1>1, <1>2 DEF Related, Placed
  <2>4. Waiting \subseteq {Id(a)' : a \in Addrs}
    <3>1. \A x \in Waiting : \E a \in Addrs \ calledNow : x = Id(a)
      BY <1>2 DEF Related, Placed, Adding
    <3>2. \A x \in Waiting : \E a \in Addrs : x = Id(a)'
      BY <1>4, <3>1
    <3> QED
      BY <3>2
  <2> QED
    BY <1>5, <1>6, <2>1, <2>2, <2>3, <2>4 DEF Placed
<1>10. Cancels'
  <2> SUFFICES ASSUME NEW a \in Addrs, heap'[a].seq # 0 PROVE heap'[a].seq \notin cancelled
    BY <1>1, <1>2 DEF Related, Cancels
  <2>1. a \notin calledNow \ Repeats
    BY <1>3
  <2>2. CASE a \in Repeats
    <3>1. heap[a].seq # 0 /\ Id(a) \notin canceling /\ heap'[a].seq = heap[a].seq
      BY <1>3, <2>2 DEF Repeats
    <3> QED
      BY <3>1 DEF Related, Cancels
  <2>3. CASE a \notin calledNow
    BY <1>2, <1>3, <2>3 DEF Related, Cancels
  <2> QED
    BY <2>1, <2>2, <2>3
<1>11. Ended'
  <2> SUFFICES ASSUME NEW s \in 1..Len(intervals)
               PROVE  \/ \E a \in Addrs : heap'[a].seq = s
                      \/ s \in cancelled \/ (s \in ran /\ intervals[s] = 0)
    BY <1>1 DEF Ended
  <2>1. ASSUME NEW a \in calledNow \ Repeats, heap[a].seq = s
        PROVE  s \in cancelled \/ (s \in ran /\ intervals[s] = 0)
    <3>1. a \in Addrs /\ s # 0 /\ s \in ran /\ heap[a].interval = intervals[s]
      BY <1>1, <2>1 DEF Phases, Related, Numbered
    <3>2. CASE Id(a) \in canceling
      BY <1>2, <2>1, <3>1, <3>2 DEF Related, Cancels
    <3>3. CASE Id(a) \notin canceling
      <4>1. ~(heap[a].interval > 0)
        BY <2>1, <3>3 DEF Repeats
      <4>2. heap[a].interval \in Nat
        <5>1. heap[a].interval \in Intervals \cup {0}
          BY <1>1, <3>1 DEF Timer
        <5>2. \A i \in Intervals \cup {0} : i \in Nat
          BY TimersAssumption DEF TimersAssumption
        <5> QED
          BY <5>1, <5>2, Zenon
      <4> QED
        BY <3>1, <4>1, <4>2
    <3> QED
      BY <3>2, <3>3
  <2> QED
    BY <1>7, <2>1 DEF Related, Ended
<1>12. Phases'
  BY <1>1, <1>2 DEF Phases
<1> QED
  BY <1>8, <1>9, <1>10, <1>11, <1>12 DEF Related

\* The rest of the steps leave the timers where they are.
LEMMA RelatedStep ==
  ASSUME Related, TimersTypeOK, Phases, [TimersNext]_timerVars
  PROVE  Related'
<1>0. functors \in Seq(Functor) /\ ids \subseteq TimerIds /\ Once
  BY DEF TimersTypeOK, Functor, Related, Placed
<1>1. ASSUME UNCHANGED <<heap, timers, active, canceling, functors, cancelled, intervals, ran>>,
             Batch' = Batch
      PROVE  Related'
  <2>1. Waiting' = Waiting /\ Once'
    BY <1>0, <1>1, QueueSteps
  <2> QED
    BY <1>1, <2>1, Frame
<1>2. CASE InsertTimeQueue
  BY <1>1, <1>2 DEF InsertTimeQueue, queueVars, Batch
<1>3. ASSUME NEW a \in Addrs, AddTimerReturns(a) PROVE Related'
  BY <1>1, <1>3 DEF AddTimerReturns, queueVars, Batch
<1>4. ASSUME NEW a \in Addrs, NEW w \in Delays, NEW i \in Intervals, RunAt(a, w, i)
      PROVE  Related'
  BY <1>4, RunAtRelated
<1>5. ASSUME NEW id \in ids, Cancel(id) PROVE Related'
  <2>1. /\ UNCHANGED <<heap, timers, active, canceling, cancelled, intervals, ran>>
        /\ Batch' = Batch
    BY <1>5 DEF Cancel, queueVars, Batch
  <2>2. Waiting' = Waiting /\ Once'
    BY <1>0, <1>5, QueueSteps DEF Cancel
  <2> QED
    BY <2>1, <2>2, Frame
<1>6. CASE RunFunctor
  <2>1. CASE Head(functors).op = "add"
    BY <1>6, <2>1, AddRelated
  <2>2. CASE Head(functors).op # "add"
    <3>1. /\ CancelInLoop(Head(functors).id) /\ functors # <<>> /\ functors' = Tail(functors)
          /\ UNCHANGED <<expired, calledNow, intervals, ran>>
      BY <1>6, <2>2 DEF RunFunctor
    <3>2. Waiting' = Waiting /\ Once'
      BY <1>0, <2>2, <3>1, QueueSteps
    <3>3. Head(functors).id \in TimerIds
      <4>1. Head(functors) \in Functor
        BY <1>0, <3>1, QueueOps
      <4> QED
        BY <4>1 DEF Functor
    <3> QED
      BY <3>1, <3>2, <3>3, CancelRelated
  <2> QED
    BY <2>1, <2>2
<1>7. CASE HandleRead
  BY <1>7, HandleReadRelated
<1>8. ASSUME NEW a \in Addrs, CallNext(a) PROVE Related'
  <2>1. /\ UNCHANGED <<heap, timers, active, canceling, functors, cancelled, intervals>>
        /\ Batch' = Batch /\ ran \subseteq ran'
    BY <1>8 DEF CallNext, Batch
  <2>2. Waiting' = Waiting /\ Once'
    BY <1>0, <2>1, QueueSteps
  <2> QED
    BY <2>1, <2>2, Frame
<1>9. ASSUME NEW a \in Addrs, NEW w \in Delays, NEW i \in Intervals, CallbackAdds(a, w, i)
      PROVE  Related'
  BY <1>9, CallbackAddsRelated
<1>10. ASSUME NEW id \in ids, CallbackCancels(id) PROVE Related'
  <2>1. /\ CancelInLoop(id) /\ UNCHANGED <<expired, calledNow, intervals, ran, functors>>
        /\ id \in TimerIds
    BY <1>0, <1>10 DEF CallbackCancels
  <2>2. Waiting' = Waiting /\ Once'
    BY <1>0, <2>1, QueueSteps
  <2> QED
    BY <2>1, <2>2, CancelRelated
<1>11. CASE CallbackReturns
  BY <1>1, <1>11 DEF CallbackReturns, Batch
<1>12. CASE Reset
  BY <1>12, ResetRelated
<1>13. CASE Tick
  <2>1. /\ UNCHANGED <<timers, active, canceling, functors, cancelled, intervals, ran>>
        /\ Batch' = Batch
    BY <1>13 DEF Tick, Batch
  <2>2. Waiting' = Waiting /\ Once'
    BY <1>0, <2>1, QueueSteps
  <2>3. ASSUME NEW a \in Addrs
        PROVE  /\ heap'[a].seq = heap[a].seq /\ heap'[a].interval = heap[a].interval
               /\ heap[a] = Free => heap'[a] = Free
    <3>1. heap'[a] = [seq |-> heap[a].seq, when |-> Left(heap[a].when),
                      interval |-> heap[a].interval]
      BY <1>13, TickHeap
    <3> QED
      BY <3>1 DEF Free, Left
  <2> QED
    BY <2>1, <2>2, <2>3, Frame
<1>14. CASE UNCHANGED timerVars
  BY <1>1, <1>14 DEF timerVars, queueVars, Batch
<1> QED
  BY <1>2, <1>3, <1>4, <1>5, <1>6, <1>7, <1>8, <1>9, <1>10, <1>11, <1>12, <1>13, <1>14
     DEF TimersNext, LoopNext, CallbackNext, CallerNext

\* The phases of handleRead.
LEMMA PhasesStep ==
  ASSUME Related, TimersTypeOK, Phases, [TimersNext]_timerVars
  PROVE  Phases'
<1>0. /\ heap \in [Addrs -> Timer] /\ Batch \subseteq Addrs /\ ids \subseteq TimerIds
      /\ functors \in Seq(Functor)
  BY DEF TimersTypeOK, Timer, Batch, Functor
<1>1. ASSUME Batch' = Batch, queuePc' = "poll" => queuePc = "poll",
             expired' = expired, calledNow' = calledNow,
             \A a \in Batch : heap'[a].seq = heap[a].seq /\ heap'[a].when = 0, ran' = ran
      PROVE  Phases'
  BY <1>1 DEF Phases, Batch
<1>2. CASE InsertTimeQueue
  BY <1>1, <1>2 DEF InsertTimeQueue, queueVars, Batch, Phases
<1>3. ASSUME NEW a \in Addrs, AddTimerReturns(a) PROVE Phases'
  BY <1>1, <1>3 DEF AddTimerReturns, queueVars, Batch, Phases
<1>4. ASSUME NEW a \in Addrs, NEW w \in Delays, NEW i \in Intervals, RunAt(a, w, i)
      PROVE  Phases'
  <2>1. NewTimer(a, w, i) /\ UNCHANGED <<queueVars, ran, cancelled>>
    BY <1>4 DEF RunAt
  <2>2. Batch' = Batch /\ UNCHANGED <<queuePc, expired, calledNow, canceling>>
    BY <2>1 DEF queueVars, Batch
  <2>3. \A b \in Batch : heap'[b] = heap[b]
    BY <1>0, <2>1, <2>2, Made
  <2> QED
    BY <1>1, <2>1, <2>2, <2>3 DEF Phases
<1>5. ASSUME NEW id \in ids, Cancel(id) PROVE Phases'
  BY <1>1, <1>5 DEF Cancel, queueVars, Batch, Phases
<1>6. ASSUME NEW id \in TimerIds, CancelInLoop(id), Waiting' = Waiting, Once',
             UNCHANGED <<queuePc, expired, calledNow, intervals, ran>>
      PROVE  Phases'
  <2>1. \A b \in Batch : heap'[b] = heap[b]
    BY <1>6, CancelRelated
  <2> QED
    BY <1>1, <1>6, <2>1 DEF Phases, Batch
<1>7. CASE RunFunctor
  <2>1. CASE Head(functors).op = "add"
    BY <1>1, <1>7, <2>1 DEF RunFunctor, Phases, Batch
  <2>2. CASE Head(functors).op # "add"
    <3>1. /\ CancelInLoop(Head(functors).id) /\ functors # <<>> /\ functors' = Tail(functors)
          /\ UNCHANGED <<queuePc, expired, calledNow, intervals, ran>>
      BY <1>7, <2>2 DEF RunFunctor
    <3>2. Waiting' = Waiting /\ Once'
      BY <1>0, <2>2, <3>1, QueueSteps DEF Related, Placed
    <3>3. Head(functors).id \in TimerIds
      <4>1. Head(functors) \in Functor
        BY <1>0, <3>1, QueueOps
      <4> QED
        BY <4>1 DEF Functor
    <3> QED
      BY <1>6, <3>1, <3>2, <3>3
  <2> QED
    BY <2>1, <2>2
<1>8. CASE HandleRead
  BY <1>8, HandleReadRelated
<1>9. ASSUME NEW a \in Addrs, CallNext(a) PROVE Phases'
  <2>1. /\ Batch' = Batch /\ heap' = heap /\ queuePc' = "incall"
        /\ expired' = expired \ {a} /\ calledNow' = calledNow \cup {a}
        /\ ran' = ran \cup {heap[a].seq}
    BY <1>9 DEF CallNext, Batch
  <2> QED
    BY <2>1 DEF Phases
<1>10. ASSUME NEW a \in Addrs, NEW w \in Delays, NEW i \in Intervals, CallbackAdds(a, w, i)
      PROVE  Phases'
  <2>1. NewTimer(a, w, i) /\ UNCHANGED <<canceling, queuePc, expired, calledNow, ran, cancelled>>
    BY <1>10 DEF CallbackAdds
  <2>2. Batch' = Batch
    BY <2>1 DEF Batch
  <2>3. \A b \in Batch : heap'[b] = heap[b]
    BY <1>0, <2>1, <2>2, Made
  <2> QED
    BY <1>1, <2>1, <2>2, <2>3 DEF Phases
<1>11. ASSUME NEW id \in ids, CallbackCancels(id) PROVE Phases'
  <2>1. /\ CancelInLoop(id) /\ id \in TimerIds
        /\ UNCHANGED <<queuePc, expired, calledNow, intervals, ran, functors>>
    BY <1>0, <1>11 DEF CallbackCancels
  <2>2. Waiting' = Waiting /\ Once'
    BY <1>0, <2>1, QueueSteps DEF Related, Placed
  <2> QED
    BY <1>6, <2>1, <2>2
<1>12. CASE CallbackReturns
  BY <1>1, <1>12 DEF CallbackReturns, Batch, Phases
<1>13. CASE Reset
  BY <1>13, ResetRelated
<1>14. CASE Tick
  <2>1. Batch' = Batch /\ UNCHANGED <<queuePc, expired, calledNow, ran>>
    BY <1>14 DEF Tick, Batch
  <2>2. \A a \in Batch : heap'[a].seq = heap[a].seq /\ heap'[a].when = 0
    <3> SUFFICES ASSUME NEW a \in Batch
                 PROVE  heap'[a].seq = heap[a].seq /\ heap'[a].when = 0
      OBVIOUS
    <3>1. heap'[a] = [seq |-> heap[a].seq, when |-> Left(heap[a].when),
                      interval |-> heap[a].interval]
      BY <1>0, <1>14, TickHeap
    <3>2. heap[a].when = 0
      BY DEF Phases
    <3>3. Left(heap[a].when) = 0
      BY <3>2 DEF Left
    <3> QED
      BY <3>1, <3>3
  <2> QED
    BY <1>1, <2>1, <2>2
<1>15. CASE UNCHANGED timerVars
  BY <1>1, <1>15 DEF timerVars, queueVars, Batch, Phases
<1> QED
  BY <1>2, <1>3, <1>4, <1>5, <1>7, <1>8, <1>9, <1>10, <1>11, <1>12, <1>13, <1>14, <1>15
     DEF TimersNext, LoopNext, CallbackNext, CallerNext

\* A time that is not later is not armed for later, and a tick brings both nearer.
LEMMA FdAtIs ==
  /\ \A t, u \in Nat : t <= u => 0..FdAt(t) \subseteq 0..FdAt(u)
  /\ \A t \in Nat : FdAt(t) \in 0..FdAt(t)
  /\ \A t \in Nat, f \in Int : f \in 0..FdAt(t) => Left(f) \in 0..FdAt(Left(t))
  BY DEF FdAt, Left

\* The timerfd stays armed for every timer.
LEMMA ArmedStep ==
  ASSUME IInv, [TimersNext]_timerVars
  PROVE  Armed'
<1>0. /\ Related /\ TimersTypeOK /\ Phases /\ Armed
      /\ heap \in [Addrs -> Timer] /\ timers \subseteq Addrs /\ functors \in Seq(Functor)
      /\ \A a \in Addrs : heap[a].when \in Nat
      /\ ids \subseteq TimerIds /\ fd \in Int
  <2>1. Horizon \in Nat
    BY HorizonIs
  <2>2. \A a \in Addrs : heap[a].when \in Nat
    BY <2>1 DEF IInv, TimersTypeOK
  <2>3. fd \in Int
    BY <2>1 DEF IInv, TimersTypeOK, Disarmed
  <2> QED
    BY <2>2, <2>3 DEF IInv, Related, TimersTypeOK, Timer, Functor
<1>1. ASSUME queuePc' = "poll" => queuePc = "poll", timers' \subseteq timers, fd' = fd,
             \A a \in timers' : heap'[a] = heap[a]
      PROVE  Armed'
  BY <1>0, <1>1 DEF Armed
<1>2. CASE InsertTimeQueue
  BY <1>1, <1>2 DEF InsertTimeQueue, queueVars
<1>3. ASSUME NEW a \in Addrs, AddTimerReturns(a) PROVE Armed'
  BY <1>1, <1>3 DEF AddTimerReturns, queueVars
<1>4. ASSUME NEW a \in Addrs, NEW w \in Delays, NEW i \in Intervals, RunAt(a, w, i)
      PROVE  Armed'
  <2>1. \A b \in timers : heap'[b] = heap[b]
    BY <1>0, <1>4, RunAtRelated
  <2> QED
    BY <1>1, <1>4, <2>1 DEF RunAt, queueVars
<1>5. ASSUME NEW id \in ids, Cancel(id) PROVE Armed'
  BY <1>1, <1>5 DEF Cancel, queueVars
<1>6. CASE RunFunctor
  <2>1. CASE Head(functors).op = "add"
    <3> DEFINE a == Head(functors).id[1]
    <3>1. a \in Addrs /\ AddTimerInLoop(a, heap)
      BY <1>0, <1>6, <2>1, AddRelated
    <3>2. /\ timers' = timers \cup {a} /\ heap' = heap /\ queuePc = "poll"
          /\ fd' = IF EarliestChanged(a, heap) THEN FdAt(heap[a].when) ELSE fd
      BY <1>6, <2>1, <3>1 DEF RunFunctor, AddTimerInLoop
    <3>3. \A b \in timers : heap[b].when \in Nat
      BY <1>0
    <3> HIDE DEF a
    <3>4. ASSUME NEW b \in timers \cup {a} PROVE fd' \in 0..FdAt(heap[b].when)
      <4>1. heap[a].when \in Nat /\ heap[b].when \in Nat
        BY <1>0, <3>1, <3>4
      <4>2. CASE EarliestChanged(a, heap)
        <5>1. heap[a].when <= heap[b].when
          <6>1. CASE b \in timers
            <7>1. heap[a].when < Earliest(timers, heap)
              BY <4>2, <6>1 DEF EarliestChanged
            <7>2. /\ Earliest(timers, heap) <= heap[b].when
                  /\ \E c \in timers : Earliest(timers, heap) = heap[c].when
              BY <3>3, <6>1, EarliestIs
            <7>3. Earliest(timers, heap) \in Nat
              BY <3>3, <7>2
            <7> QED
              BY <4>1, <7>1, <7>2, <7>3
          <6>2. CASE b = a
            BY <4>1, <6>2
          <6> QED
            BY <3>4, <6>1, <6>2
        <5> QED
          BY <3>2, <4>1, <4>2, <5>1, FdAtIs
      <4>3. CASE ~EarliestChanged(a, heap)
        <5>1. CASE b \in timers
          BY <1>0, <3>2, <4>3, <5>1 DEF Armed
        <5>2. CASE b = a
          <6>1. timers # {} /\ ~(heap[a].when < Earliest(timers, heap))
            BY <4>3 DEF EarliestChanged
          <6>2. PICK c \in timers : Earliest(timers, heap) = heap[c].when
            BY <3>3, <6>1, EarliestIs
          <6>3. heap[c].when <= heap[a].when /\ heap[c].when \in Nat
            BY <3>3, <4>1, <6>1, <6>2
          <6>4. fd' \in 0..FdAt(heap[c].when)
            BY <1>0, <3>2, <4>3 DEF Armed
          <6> QED
            BY <4>1, <5>2, <6>3, <6>4, FdAtIs
        <5> QED
          BY <3>4, <5>1, <5>2
      <4> QED
        BY <4>2, <4>3
    <3> QED
      BY <3>2, <3>4 DEF Armed
  <2>2. CASE Head(functors).op # "add"
    <3>1. /\ CancelInLoop(Head(functors).id) /\ functors # <<>> /\ functors' = Tail(functors)
          /\ UNCHANGED <<expired, calledNow, intervals, ran, queuePc, fd>>
      BY <1>6, <2>2 DEF RunFunctor
    <3>2. Waiting' = Waiting /\ Once'
      BY <1>0, <2>2, <3>1, QueueSteps DEF Related, Placed
    <3>3. Head(functors).id \in TimerIds
      <4>1. Head(functors) \in Functor
        BY <1>0, <3>1, QueueOps
      <4> QED
        BY <4>1 DEF Functor
    <3>4. timers' \subseteq timers /\ \A b \in timers' : heap'[b] = heap[b]
      BY <1>0, <3>1, <3>2, <3>3, CancelRelated
    <3> QED
      BY <1>1, <3>1, <3>4
  <2> QED
    BY <2>1, <2>2
<1>7. CASE HandleRead
  BY <1>7 DEF HandleRead, Armed
<1>8. ASSUME NEW a \in Addrs, CallNext(a) PROVE Armed'
  BY <1>8 DEF CallNext, Armed
<1>9. ASSUME NEW a \in Addrs, NEW w \in Delays, NEW i \in Intervals, CallbackAdds(a, w, i)
      PROVE  Armed'
  BY <1>9 DEF CallbackAdds, Armed
<1>10. ASSUME NEW id \in ids, CallbackCancels(id) PROVE Armed'
  BY <1>10 DEF CallbackCancels, Armed
<1>11. CASE CallbackReturns
  BY <1>11 DEF CallbackReturns, Armed
<1>12. CASE Reset
  <2> SUFFICES ASSUME NEW a \in timers' PROVE fd' \in 0..FdAt(heap'[a].when)
    BY DEF Armed
  <2>1. \A b \in timers' : heap'[b].when \in Nat
    <3>1. heap' \in [Addrs -> Timer] /\ timers' \subseteq Addrs
      BY <1>0, <1>12, ResetHeap DEF Reset, Repeats, TimersTypeOK
    <3> QED
      BY <3>1, HorizonIs DEF Timer
  <2>2. fd' = FdAt(Earliest(timers', heap'))
    BY <1>12 DEF Reset
  <2>3. /\ Earliest(timers', heap') <= heap'[a].when
        /\ \E b \in timers' : Earliest(timers', heap') = heap'[b].when
    BY <2>1, EarliestIs
  <2>4. Earliest(timers', heap') \in Nat
    BY <2>1, <2>3
  <2> QED
    BY <2>1, <2>2, <2>3, <2>4, FdAtIs
<1>13. CASE Tick
  <2> SUFFICES ASSUME queuePc = "poll", NEW a \in timers PROVE fd' \in 0..FdAt(heap'[a].when)
    BY <1>13 DEF Armed, Tick
  <2>1. heap'[a].when = Left(heap[a].when)
    <3>1. heap'[a] = [seq |-> heap[a].seq, when |-> Left(heap[a].when),
                      interval |-> heap[a].interval]
      BY <1>0, <1>13, TickHeap
    <3> QED
      BY <3>1
  <2>2. fd \in 0..FdAt(heap[a].when) /\ fd' = Left(fd)
    BY <1>0, <1>13 DEF Armed, Tick
  <2>3. heap[a].when \in Nat
    BY <1>0
  <2> QED
    BY <1>0, <2>1, <2>2, <2>3, FdAtIs
<1>14. CASE UNCHANGED timerVars
  BY <1>1, <1>14 DEF timerVars, queueVars
<1> QED
  BY <1>2, <1>3, <1>4, <1>5, <1>6, <1>7, <1>8, <1>9, <1>10, <1>11, <1>12, <1>13, <1>14
     DEF TimersNext, LoopNext, CallbackNext, CallerNext
-----------------------------------------------------------------------------
LEMMA Initial == TimersInit => IInv
<1> SUFFICES ASSUME TimersInit PROVE IInv
  OBVIOUS
<1>1. TimersTypeOK
  <2>1. Horizon \in Nat /\ 0 \in Seqs /\ MaxTimers \in Nat
    BY HorizonIs, TimersAssumption DEF TimersAssumption, Seqs
  <2>2. Free \in Timer
    BY <2>1 DEF Free, Timer
  <2>3. heap \in [Addrs -> Timer]
    BY <2>2 DEF TimersInit
  <2>4. intervals \in Seq(Intervals) /\ Len(intervals) = 0
    BY DEF TimersInit
  <2>5. functors \in Seq(Functor)
    BY DEF TimersInit
  <2>6. fd \in Disarmed..(Horizon + 1) /\ elapsed \in 0..Horizon
    BY <2>1 DEF TimersInit, Disarmed
  <2>7. /\ inserted \in BOOLEAN /\ queuePc \in {"poll", "calling", "incall"}
        /\ timers = {} /\ active = {} /\ canceling = {} /\ expired = {} /\ calledNow = {}
        /\ unread = {} /\ ids = {} /\ ran = {} /\ cancelled = {}
    BY DEF TimersInit
  <2>8. Len(intervals) <= MaxTimers
    BY <2>1, <2>4
  <2> QED
    BY <2>3, <2>4, <2>5, <2>6, <2>7, <2>8 DEF TimersTypeOK, Timer, Functor
<1>2. Waiting = {} /\ Batch = {} /\ Adding = {}
  BY DEF TimersInit, Waiting, Batch, Adding
<1>3. \A a \in Addrs : heap[a] = Free /\ heap[a].seq = 0
  BY DEF TimersInit, Free
<1>4. Numbered
  BY <1>3 DEF TimersInit, Numbered
<1>5. Placed
  BY <1>2, <1>3 DEF TimersInit, Placed, Once
<1>6. Phases /\ Armed
  BY <1>2 DEF TimersInit, Phases, Armed
<1>7. Cancels /\ Ended
  BY <1>3 DEF TimersInit, Cancels, Ended
<1> QED
  BY <1>1, <1>4, <1>5, <1>6, <1>7 DEF IInv

\* The invariant the theorems below follow from: where each timer is, what the cancels
\* have found, and what the timerfd is armed for, in every reachable state.
THEOREM Inductive == TimersSpec => []IInv
<1>1. TimersInit => IInv
  BY Initial
<1>2. IInv /\ [TimersNext]_timerVars => IInv'
  <2> SUFFICES ASSUME IInv, [TimersNext]_timerVars PROVE IInv'
    OBVIOUS
  <2>1. Related /\ TimersTypeOK /\ Phases
    BY DEF IInv, Related
  <2>2. Related'
    BY <2>1, RelatedStep
  <2>3. TimersTypeOK'
    BY <2>1, TypesStep
  <2>4. Phases'
    BY <2>1, PhasesStep
  <2>5. Armed'
    BY ArmedStep
  <2> QED
    BY <2>2, <2>3, <2>4, <2>5 DEF IInv, Related
<1> QED
  BY <1>1, <1>2, PTL DEF TimersSpec

\* ZkTimerQueue.cc:126-237: timers_ and activeTimers_ hold the same timers, neither holds
\* a timer that was deleted, and no timer that runAt or runEvery accepted is lost before
\* it was called or cancelled, although addresses are used again.
THEOREM NoneLost == TimersSpec => []TimersKept
<1>1. IInv => TimersKept
  <2> SUFFICES ASSUME IInv PROVE TimersKept
    OBVIOUS
  <2>1. SetsAgree
    <3>1. \A a \in timers \cup expired \cup calledNow : heap[a] # Free
      <4>1. timers \subseteq Addrs /\ Batch \subseteq Addrs
        BY DEF IInv, TimersTypeOK, Batch
      <4>2. \A a \in timers \cup Batch : heap[a].seq # 0
        BY <4>1 DEF IInv, Placed
      <4> QED
        BY <4>2 DEF Free, Batch
    <3> QED
      BY <3>1 DEF IInv, Placed, SetsAgree, Batch
  <2>2. NoTimerLost
    <3> SUFFICES ASSUME NEW s \in 1..Len(intervals), NEW a \in Addrs, heap[a].seq = s
                 PROVE  OnItsWay(s)
      BY DEF IInv, Ended, NoTimerLost
    <3>1. Id(a) = <<a, s>> /\ a \in timers \cup Batch \cup Adding
      BY DEF Id, IInv, Placed
    <3>2. CASE a \in timers
      <4>1. <<a, s>> \in active
        BY <3>1, <3>2 DEF IInv, Placed
      <4> QED
        BY <4>1 DEF OnItsWay
    <3>3. CASE a \in Batch
      BY <3>3 DEF OnItsWay, Batch
    <3>4. CASE a \in Adding
      <4>1. PICK k \in 1..Len(functors) : AddAt(k) /\ functors[k].id = <<a, s>>
        BY <3>1, <3>4 DEF Adding, Waiting
      <4>2. functors[k] \in Functor
        <5>1. functors \in Seq(Functor)
          BY DEF IInv, TimersTypeOK, Functor
        <5> QED
          BY <5>1
      <4>3. functors[k] = [op |-> "add", id |-> <<a, s>>]
        <5>1. ASSUME NEW f \in Functor, NEW i, f.op = "add", f.id = i
              PROVE  f = [op |-> "add", id |-> i]
          BY <5>1 DEF Functor
        <5>2. functors[k].op = "add" /\ functors[k].id = <<a, s>>
          BY <4>1 DEF AddAt
        <5> QED
          BY <4>2, <5>1, <5>2
      <4> QED
        BY <4>3 DEF OnItsWay
    <3> QED
      BY <3>1, <3>2, <3>3, <3>4
  <2> QED
    BY <2>1, <2>2 DEF TimersKept, IInv
<1> QED
  BY <1>1, Inductive, PTL

\* ZkTimerQueue.cc:35-58, 126-147, 239-266: whenever the loop thread waits and there are
\* timers, the timerfd is set for no later than the first of them.
THEOREM ArmedForFirst == TimersSpec => []FdArmed
<1>1. IInv => FdArmed
  <2> SUFFICES ASSUME IInv, queuePc = "poll", timers # {}
               PROVE  fd \in 0..FdAt(Earliest(timers, heap))
    BY DEF FdArmed
  <2>1. \A a \in timers : heap[a].when \in Nat
    BY HorizonIs DEF IInv, TimersTypeOK
  <2>2. PICK a \in timers : Earliest(timers, heap) = heap[a].when
    BY <2>1, EarliestIs
  <2> QED
    BY <2>2 DEF IInv, Armed
<1> QED
  BY <1>1, Inductive, PTL

\* ZkTimerQueue.cc:149-170, 239-259: a timer that a cancel has found does not come back to
\* activeTimers_, not even when its own callback cancelled it and it is repeated.
THEOREM CancelledForGood == TimersSpec => []CancelHolds
<1>1. IInv => CancelHolds
  <2> SUFFICES ASSUME IInv, NEW s \in cancelled, NEW a \in Addrs, <<a, s>> \in active
               PROVE  FALSE
    BY DEF CancelHolds
  <2>1. timers \subseteq Addrs
    BY DEF IInv, TimersTypeOK
  <2>2. a \in timers /\ heap[a].seq = s
    BY DEF IInv, Placed, Id
  <2>3. heap[a].seq # 0 /\ a \notin Batch
    BY <2>2 DEF IInv, Placed
  <2> QED
    BY <2>2, <2>3 DEF IInv, Cancels
<1> QED
  BY <1>1, Inductive, PTL
===============================================================================
