---------------------------- MODULE MuduoBase_proofs ----------------------------
(***************************************************************************)
(* Proofs about the parts of muduo's base library and its buffer, each     *)
(* alone: LogFile, for any period, interval and lines; ThreadPool and the  *)
(* queues, for any number of threads; AsyncLogging; Calendar and TimeZone, *)
(* for any years and zones; Buffer, for arrays and calls of any size.      *)
(***************************************************************************)
EXTENDS Buffer, LogFile, ThreadPool, Times, SequenceTheorems, FiniteSetTheorems, TLAPS

-----------------------------------------------------------------------------
(* Induction over numbers, by the least counterexample. *)

\* A set of natural numbers that is not empty has a least member.
LEMMA LeastIs ==
  ASSUME NEW S, S \subseteq Nat, S # {}
  PROVE  \E x \in S : \A y \in S : x <= y
<1> DEFINE T == {0..x : x \in S}
           R == StrictSubsetOrdering(Nat)
<1>1. T \subseteq FiniteSubsetsOf(Nat) /\ T # {}
  <2>1. ASSUME NEW x \in S PROVE (0..x) \in SUBSET Nat /\ IsFiniteSet(0..x)
    BY FS_Interval
  <2>2. T # {}
    OBVIOUS
  <2> QED
    BY <2>1, <2>2 DEF FiniteSubsetsOf
<1>2. IsWellFoundedOn(R, FiniteSubsetsOf(Nat))
  BY FS_StrictSubsetOrderingWellFounded
<1>3. PICK u \in T : \A v \in T : ~(<<v, u>> \in R)
  <2> HIDE DEF R, T
  <2> QED
    BY <1>1, <1>2, WFMin
<1>4. PICK x \in S : u = 0..x
  BY <1>3
<1>5. \A y \in S : x <= y
  <2> SUFFICES ASSUME NEW y \in S, y < x PROVE FALSE
    OBVIOUS
  <2>1. 0..y \subseteq 0..x /\ x \in 0..x /\ x \notin 0..y
    OBVIOUS
  <2>2. (0..y) \in SUBSET Nat /\ (0..x) \in SUBSET Nat /\ (0..y) # (0..x) /\ (0..y) \in T
    BY <2>1
  <2> QED
    BY <1>3, <1>4, <2>1, <2>2 DEF StrictSubsetOrdering
<1> QED
  BY <1>5

-----------------------------------------------------------------------------
(* LogFile. *)

\* A later second is in the same period or in a later one.
LEMMA PeriodsRise ==
  ASSUME NEW t \in Nat, NEW u \in Nat, t <= u
  PROVE  PeriodOf(t) \in Nat /\ PeriodOf(t) <= PeriodOf(u)
<1> DEFINE R == RollPerSeconds
<1>1. R \in Nat \ {0}
  BY LogFileAssumption
<1> HIDE DEF R
<1>2. t \div R \in Nat /\ u \div R \in Nat /\ t \div R <= u \div R
  BY <1>1
<1>3. \A a, b \in Nat : a <= b => a * R \in Nat /\ a * R <= b * R
  BY <1>1
<1>4. (t \div R) * R \in Nat /\ (t \div R) * R <= (u \div R) * R
  BY <1>2, <1>3
<1> QED
  BY <1>4 DEF PeriodOf, R

(* The inductive invariant.  The types; *)
LogTyped ==
    /\ LogTypeOK /\ count \in Nat /\ now \in Nat
    /\ opened \in Seq(Nat) /\ opened # <<>> /\ lastRoll \in Nat /\ lastFlush \in Nat
(* the open file is the last that was opened; *)
Rising == NamesDiffer /\ \A i \in DOMAIN opened : opened[i] <= lastRoll
(* a late line is counted, and the file it is in belongs to a period that is over; *)
LateCounted ==
    /\ late \in Nat /\ late <= count
    /\ late > 0 => PeriodOf(now) # startOfPeriod
(* what is not flushed came after the last flush. *)
SinceFlush == unflushed = None \/ (unflushed \in Nat /\ lastFlush <= unflushed /\ unflushed <= now)
LogInv == LogTyped /\ Rising /\ LateCounted /\ SinceFlush

\* A period that is over may be rolled away.
LEMMA OverRolls ==
  ASSUME LogTyped, PeriodOf(now) # startOfPeriod
  PROVE  MayRoll
BY DEF LogTyped, LogTypeOK, MayRoll

\* A roll opens a file with a later name, and nothing is late or unflushed in it.
LEMMA RollKept ==
  ASSUME LogInv, rollFile, MayRoll, now' = now, count' \in 0..(CheckEveryN - 1)
  PROVE  LogInv' /\ unflushed' = None
<1>0. LogTyped /\ LogTypeOK /\ Rising /\ count' \in Nat
  BY LogFileAssumption DEF LogInv, LogTyped
<1>1. /\ lastRoll' = now /\ lastFlush' = now /\ startOfPeriod' = PeriodOf(now)
      /\ opened' = Append(opened, now) /\ late' = 0 /\ unflushed' = None
  BY DEF rollFile
<1>2. lastRoll < now /\ now \in Nat /\ opened \in Seq(Nat) /\ lastRoll \in Nat
  BY <1>0 DEF MayRoll, LogTyped
<1>3. /\ opened' \in Seq(Nat) /\ opened' # <<>> /\ Len(opened') = Len(opened) + 1
      /\ \A i \in 1..Len(opened) : opened'[i] = opened[i]
      /\ opened'[Len(opened) + 1] = now /\ DOMAIN opened' = 1..Len(opened')
      /\ DOMAIN opened = 1..Len(opened) /\ Len(opened) \in Nat
  BY <1>1, <1>2, AppendProperties
<1>4. LogTyped'
  BY <1>0, <1>1, <1>2, <1>3 DEF LogTyped, LogTypeOK
<1>5. \A i \in DOMAIN opened' : i \in DOMAIN opened \/ i = Len(opened) + 1
  BY <1>3
<1>6. \A i \in DOMAIN opened : opened[i] \in Nat /\ opened'[i] = opened[i] /\ opened[i] < now
  BY <1>0, <1>2, <1>3 DEF Rising
<1>7. Rising'
  <2>1. \A i \in DOMAIN opened' : opened'[i] <= lastRoll'
    BY <1>1, <1>2, <1>3, <1>5, <1>6
  <2>2. ASSUME NEW i \in DOMAIN opened', NEW j \in DOMAIN opened', i < j
        PROVE  opened'[i] < opened'[j]
    <3>1. i \in DOMAIN opened
      BY <1>3, <1>5, <2>2
    <3>2. CASE j \in DOMAIN opened
      BY <1>0, <1>6, <2>2, <3>1, <3>2 DEF Rising, NamesDiffer
    <3>3. CASE j = Len(opened) + 1
      BY <1>3, <1>6, <3>1, <3>3
    <3> QED
      BY <1>5, <3>2, <3>3
  <2> QED
    BY <2>1, <2>2 DEF Rising, NamesDiffer
<1>8. LateCounted' /\ SinceFlush'
  BY <1>0, <1>1 DEF LateCounted, SinceFlush
<1> QED
  BY <1>1, <1>4, <1>7, <1>8 DEF LogInv

LEMMA TickKept == LogInv /\ Tick => LogInv'
<1> SUFFICES ASSUME LogInv, Tick PROVE LogInv'
  OBVIOUS
<1>0. LogTyped /\ LogTypeOK /\ Rising /\ LateCounted /\ SinceFlush
  BY DEF LogInv, LogTyped
<1>1. /\ now < MaxNow /\ now' = now + 1 /\ now \in Nat /\ lastRoll \in Nat
      /\ UNCHANGED <<count, startOfPeriod, lastRoll, lastFlush, opened, late, unflushed>>
  BY <1>0 DEF Tick, LogTyped
<1>2. /\ startOfPeriod = PeriodOf(lastRoll) /\ lastRoll <= now /\ lastFlush <= now
      /\ lastFlush \in Nat
  BY <1>0 DEF LogTypeOK, LogTyped
<1>3. LogTyped'
  <2>1. now' \in 1..MaxNow
    BY <1>0, <1>1, LogFileAssumption DEF LogTypeOK
  <2> QED
    BY <1>0, <1>1, <1>2, <2>1 DEF LogTyped, LogTypeOK
<1>4. Rising'
  BY <1>0, <1>1 DEF Rising, NamesDiffer
<1>5. LateCounted'
  <2>1. PeriodOf(lastRoll) <= PeriodOf(now) /\ PeriodOf(now) <= PeriodOf(now')
    BY <1>1, <1>2, PeriodsRise
  <2>2. PeriodOf(lastRoll) \in Nat /\ PeriodOf(now) \in Nat /\ PeriodOf(now') \in Nat
    BY <1>1, PeriodsRise
  <2>3. PeriodOf(now) # startOfPeriod => PeriodOf(now') # startOfPeriod
    BY <1>2, <2>1, <2>2
  <2>4. PeriodOf(now)' = PeriodOf(now')
    BY DEF PeriodOf
  <2> QED
    BY <1>0, <1>1, <2>3, <2>4 DEF LateCounted
<1>6. SinceFlush'
  BY <1>0, <1>1 DEF SinceFlush, None
<1> QED
  BY <1>3, <1>4, <1>5, <1>6 DEF LogInv

\* A line that goes into the open file.
LEMMA AppendKept ==
  ASSUME LogInv, NEW len \in Lens, append_unlocked(len)
  PROVE  /\ LogInv'
         /\ count' = 0 /\ count # 0 => unflushed' = None \/ now' - unflushed' <= FlushInterval
<1>0. LogTyped /\ LogTypeOK /\ Rising /\ LateCounted /\ SinceFlush
  BY DEF LogInv, LogTyped
<1>t. /\ now \in Nat /\ count \in 0..(CheckEveryN - 1) /\ late \in Nat /\ late <= count
      /\ lastFlush \in Nat /\ lastFlush <= now /\ CheckEveryN \in Nat \ {0}
      /\ FlushInterval \in Nat
  BY <1>0, LogFileAssumption DEF LogTyped, LogTypeOK, LateCounted
<1>n. now' = now
  BY DEF append_unlocked
<1>1. CASE TooLong(len) /\ rollFile /\ MayRoll /\ UNCHANGED count
  BY <1>1, <1>t, <1>n, RollKept
<1>2. CASE /\ TooLong(len) /\ ~MayRoll /\ rollFile /\ UNCHANGED count /\ UNCHANGED late
           /\ unflushed' = IF unflushed = None THEN now ELSE unflushed
  <2>1. UNCHANGED <<lastRoll, lastFlush, startOfPeriod, opened>>
    BY <1>2 DEF rollFile
  <2>2. LogTyped' /\ Rising' /\ LateCounted'
    BY <1>0, <1>2, <1>n, <2>1
    DEF LogTyped, LogTypeOK, Rising, NamesDiffer, LateCounted, PeriodOf
  <2>3. SinceFlush'
    BY <1>0, <1>t, <1>2, <1>n, <2>1 DEF SinceFlush, None
  <2> QED
    BY <1>2, <2>2, <2>3 DEF LogInv
<1>3. CASE /\ ~TooLong(len) /\ ~Due /\ count' = count + 1 /\ Stays(len)
           /\ unflushed' = IF unflushed = None THEN now ELSE unflushed
           /\ UNCHANGED lastFlush
  <2>1. /\ UNCHANGED <<lastRoll, lastFlush, startOfPeriod, opened>>
        /\ late' = IF PeriodOf(now) # startOfPeriod THEN late + 1 ELSE late
    BY <1>3 DEF Stays
  <2>2. count' \in 0..(CheckEveryN - 1) /\ count' \in Nat /\ count' # 0
    BY <1>t, <1>3 DEF Due
  <2>3. LogTyped' /\ Rising'
    BY <1>0, <1>n, <2>1, <2>2 DEF LogTyped, LogTypeOK, Rising, NamesDiffer
  <2>4. PeriodOf(now)' = PeriodOf(now)
    BY <1>n DEF PeriodOf
  <2>5. LateCounted'
    BY <1>0, <1>t, <1>3, <2>1, <2>4 DEF LateCounted
  <2>6. SinceFlush'
    BY <1>0, <1>t, <1>3, <1>n DEF SinceFlush, None
  <2> QED
    BY <2>2, <2>3, <2>5, <2>6 DEF LogInv
<1>4. CASE ~TooLong(len) /\ Due /\ count' = 0 /\ PeriodOf(now) # startOfPeriod /\ rollFile
  <2>1. count' \in 0..(CheckEveryN - 1)
    BY <1>t, <1>4
  <2>2. MayRoll
    BY <1>0, <1>4, OverRolls
  <2> QED
    BY <1>4, <1>n, <2>1, <2>2, RollKept
<1>5. CASE /\ ~TooLong(len) /\ Due /\ count' = 0 /\ PeriodOf(now) = startOfPeriod /\ Stays(len)
           /\ IF Older(lastFlush) THEN lastFlush' = now /\ unflushed' = None
              ELSE /\ UNCHANGED lastFlush
                   /\ unflushed' = IF unflushed = None THEN now ELSE unflushed
  <2>1. /\ UNCHANGED <<lastRoll, startOfPeriod, opened>> /\ late' = late /\ late = 0
    BY <1>0, <1>5 DEF Stays, LateCounted
  <2>2. /\ lastFlush' \in Nat /\ lastFlush <= lastFlush' /\ lastFlush' <= now
    BY <1>t, <1>5
  <2>3. LogTyped'
    <3>1. lastRoll \in Nat /\ lastRoll <= lastFlush
      BY <1>0 DEF LogTyped, LogTypeOK
    <3>2. lastRoll' <= lastFlush'
      BY <1>t, <2>1, <2>2, <3>1
    <3>3. count' \in 0..(CheckEveryN - 1) /\ count' \in Nat
      BY <1>t, <1>5
    <3> QED
      BY <1>0, <1>n, <2>1, <2>2, <3>2, <3>3 DEF LogTyped, LogTypeOK
  <2>4. Rising' /\ LateCounted'
    BY <1>0, <1>5, <2>1 DEF Rising, NamesDiffer, LateCounted
  <2>5. CASE Older(lastFlush)
    <3>1. unflushed' = None
      BY <1>5, <2>5
    <3> QED
      BY <2>3, <2>4, <3>1 DEF LogInv, SinceFlush
  <2>6. CASE ~Older(lastFlush)
    <3>1. /\ lastFlush' = lastFlush
          /\ unflushed' = IF unflushed = None THEN now ELSE unflushed
      BY <1>5, <2>6
    <3>2. now - lastFlush <= FlushInterval
      BY <1>t, <2>6 DEF Older
    <3>3. unflushed' \in Nat /\ lastFlush <= unflushed' /\ unflushed' <= now
      BY <1>0, <1>t, <3>1 DEF SinceFlush
    <3>4. now - unflushed' <= FlushInterval
      <4>1. ASSUME NEW u \in Nat, lastFlush <= u PROVE now - u <= FlushInterval
        <5>1. now \in Nat /\ lastFlush \in Nat /\ FlushInterval \in Nat
          BY <1>t, LogFileAssumption
        <5> QED
          BY <3>2, <4>1, <5>1
      <4> QED
        BY <3>3, <4>1
    <3>5. SinceFlush'
      BY <1>n, <3>1, <3>3 DEF SinceFlush
    <3> QED
      BY <1>n, <2>3, <2>4, <3>4, <3>5 DEF LogInv
  <2> QED
    BY <2>5, <2>6
<1> QED
  BY <1>1, <1>2, <1>3, <1>4, <1>5 DEF append_unlocked

LEMMA FlushKept == LogInv /\ (flush \/ UNCHANGED logVars) => LogInv'
<1>1. LogInv /\ flush => LogInv'
  BY DEF flush, LogInv, LogTyped, LogTypeOK, Rising, NamesDiffer, LateCounted, SinceFlush, PeriodOf
<1>2. LogInv /\ UNCHANGED logVars => LogInv'
  BY DEF logVars, LogInv, LogTyped, LogTypeOK, Rising, NamesDiffer, LateCounted, SinceFlush,
     PeriodOf
<1> QED
  BY <1>1, <1>2

LEMMA LogStarts == LogInit => LogInv
<1> SUFFICES ASSUME LogInit PROVE LogInv
  OBVIOUS
<1>1. opened = <<1>> /\ opened \in Seq(Nat) /\ Len(opened) = 1 /\ opened[1] = 1 /\ opened # <<>>
      /\ DOMAIN opened = {1}
  BY DEF LogInit
<1>2. LogTyped
  BY <1>1, LogFileAssumption DEF LogInit, LogTyped, LogTypeOK
<1>3. Rising
  BY <1>1 DEF LogInit, Rising, NamesDiffer
<1>4. LateCounted /\ SinceFlush
  BY DEF LogInit, LateCounted, SinceFlush
<1> QED
  BY <1>2, <1>3, <1>4 DEF LogInv

\* LogFile.cc: whatever the clock and the lines do, no two files get one name, fewer than
\* checkEveryN lines of a later period follow in a file, and no line older than the
\* flush interval is left when the count starts again.
THEOREM LogKept == LogSpec => LogRolls
<1> DEFINE Flushes == count' = 0 /\ count # 0 =>
                         unflushed' = None \/ now' - unflushed' <= FlushInterval
<1>1. ASSUME LogInv, [LogNext]_logVars PROVE LogInv' /\ (Flushes \/ UNCHANGED logVars)
  <2>1. CASE Tick
    BY <1>1, <2>1, TickKept DEF Tick
  <2>2. CASE \E len \in Lens : append_unlocked(len)
    BY <1>1, <2>2, AppendKept
  <2>3. CASE flush
    BY <1>1, <2>3, FlushKept DEF flush
  <2>4. CASE UNCHANGED logVars
    BY <1>1, <2>4, FlushKept
  <2> QED
    BY <1>1, <2>1, <2>2, <2>3, <2>4 DEF LogNext
<1>2. LogInv => LogTypeOK /\ NamesDiffer /\ FewLateLines
  BY LogFileAssumption DEF LogInv, LogTyped, LogTypeOK, Rising, LateCounted, FewLateLines
<1>3. LogInv /\ [LogNext]_logVars => LogInv'
  BY <1>1
<1>4. LogInv /\ [LogNext]_logVars => [Flushes]_logVars
  BY <1>1
<1> QED
  BY <1>2, <1>3, <1>4, LogStarts, PTL DEF LogSpec, LogRolls, NoOldLine

-----------------------------------------------------------------------------
(* ThreadPool: the queues between threads. *)

Places == {"idle", "put", "notFull", "loop", "take", "notEmpty", "task", "done"}
Waking == {"take", "task", "loop"}

(* The inductive invariant.  The types; *)
PoolTyped ==
    /\ class \in Classes /\ maxSize \in Nat /\ put \in Nat /\ running \in BOOLEAN
    /\ queue \in Seq(Nat) /\ taken \in Seq(Nat)
    /\ PoolTypeOK
(* a producer is only where run() takes it, so whoever waits for a task is a consumer; *)
Roles == \A t \in Producers : pc[t] \in {"idle", "put", "notFull"}
(* once running_ is false only a pool is left, and nobody sleeps in its take(); *)
Awake == ~running => class = "pool" /\ Sleepers("notEmpty") = {}
(* the two halves of NoLostWakeup. *)
TaskSeen == queue # <<>> /\ Sleepers("notEmpty") # {} => \E t \in Consumers : pc[t] \in Waking
RoomSeen == Sleepers("notFull") # {} => maxSize <= Len(queue) + Cardinality(Sleepers("put"))
PoolInv == PoolTyped /\ Roles /\ Awake /\ TaskSeen /\ RoomSeen /\ Fifo

\* What moving one thread does to the sets of those who wait.
LEMMA MoveFacts ==
  ASSUME pc \in [Threads -> Places], NEW t \in Threads, NEW p \in Places,
         pc' = [pc EXCEPT ![t] = p]
  PROVE  /\ pc' \in [Threads -> Places] /\ pc'[t] = p
         /\ \A u \in Threads : u # t => pc'[u] = pc[u]
         /\ Sleepers(p)' = Sleepers(p) \cup {t}
         /\ \A l : l # p => Sleepers(l)' = Sleepers(l) \ {t}
<1>1. /\ pc' \in [Threads -> Places] /\ pc'[t] = p
      /\ \A u \in Threads : u # t => pc'[u] = pc[u]
  OBVIOUS
<1> QED
  BY <1>1 DEF Sleepers

\* The threads at a place are finitely many, so a counted signal means something.
LEMMA Counted ==
  /\ IsFiniteSet(Threads)
  /\ \A l : IsFiniteSet(Sleepers(l)) /\ Cardinality(Sleepers(l)) \in Nat
<1>1. IsFiniteSet(Threads)
  BY PoolAssumption, FS_Union DEF Threads
<1>2. ASSUME NEW l PROVE IsFiniteSet(Sleepers(l)) /\ Cardinality(Sleepers(l)) \in Nat
  <2>1. Sleepers(l) \in SUBSET Threads
    BY DEF Sleepers
  <2>2. IsFiniteSet(Sleepers(l))
    BY <1>1, <2>1, FS_Subset
  <2> QED
    BY <2>2, FS_CardinalityType
<1> QED
  BY <1>1, <1>2

\* Concatenation of sequences of task numbers is associative.
LEMMA TasksAssociate == \A r, s, t \in Seq(Nat) : (r \o s) \o t = r \o (s \o t)
BY ConcatAssociative, SMTT(30)

\* Putting the next number in keeps the numbers in order.
Numbers(m) == [n \in 1..m |-> n]
LEMMA PutInOrder ==
  ASSUME NEW s \in Seq(Nat), NEW q \in Seq(Nat), NEW m \in Nat, s \o q = Numbers(m)
  PROVE  s \o Append(q, m + 1) = Numbers(m + 1)
<1> USE DEF Numbers
<1> DEFINE a == s \o q
           b == s \o Append(q, m + 1)
           u == [n \in 1..m |-> n]
           v == [n \in 1..(m + 1) |-> n]
<1>1. /\ a \in Seq(Nat) /\ Len(a) \in Nat /\ Len(a) = Len(s) + Len(q)
      /\ Len(s) \in Nat /\ Len(q) \in Nat
  BY ConcatProperties, LenProperties
<1>2. DOMAIN a = 1..Len(a) /\ DOMAIN u = 1..m
  BY <1>1, LenProperties
<1>3. Len(a) = m
  BY <1>1, <1>2
<1>4. Append(q, m + 1) \in Seq(Nat) /\ Append(q, m + 1) = q \o <<m + 1>> /\ <<m + 1>> \in Seq(Nat)
  BY AppendProperties, AppendIsConcat
<1>5. b = a \o <<m + 1>>
  <2>1. (s \o q) \o <<m + 1>> = s \o (q \o <<m + 1>>)
    BY <1>4, TasksAssociate, Zenon
  <2> QED
    BY <1>4, <2>1, Zenon
<1>6. b = Append(a, m + 1)
  BY <1>1, <1>5, AppendIsConcat
<1>7. /\ b \in Seq(Nat) /\ Len(b) = m + 1 /\ b[m + 1] = m + 1
      /\ \A i \in 1..m : b[i] = a[i]
  <2> HIDE DEF a, b
  <2>1. a \in Seq(Nat) /\ m + 1 \in Nat
    BY <1>1
  <2>2. /\ Append(a, m + 1) \in Seq(Nat) /\ Len(Append(a, m + 1)) = Len(a) + 1
        /\ Append(a, m + 1)[Len(a) + 1] = m + 1
        /\ \A i \in 1..Len(a) : Append(a, m + 1)[i] = a[i]
    BY <2>1, AppendProperties
  <2> QED
    BY <1>3, <1>6, <2>2
<1>8. v \in Seq(Nat) /\ Len(v) = m + 1 /\ \A i \in 1..(m + 1) : v[i] = i
  <2>1. v \in [1..(m + 1) -> Nat]
    OBVIOUS
  <2> QED
    BY <2>1, SeqDef
<1>9. \A i \in 1..(m + 1) : b[i] = v[i]
  <2>1. \A i \in 1..m : a[i] = i
    OBVIOUS
  <2>2. \A i \in 1..(m + 1) : i \in 1..m \/ i = m + 1
    OBVIOUS
  <2> QED
    BY <1>7, <1>8, <2>1, <2>2
<1> HIDE DEF b, v
<1>10. b = v
  BY <1>7, <1>8, <1>9, SeqEqual
<1> QED
  BY <1>10 DEF b, v

\* What leaves one end arrives at the other.
LEMMA TakeInOrder ==
  ASSUME NEW s \in Seq(Nat), NEW q \in Seq(Nat), q # <<>>
  PROVE  /\ Append(s, Head(q)) \in Seq(Nat) /\ Tail(q) \in Seq(Nat)
         /\ Len(Tail(q)) = Len(q) - 1 /\ Len(q) \in Nat \ {0}
         /\ Append(s, Head(q)) \o Tail(q) = s \o q
<1>1. Head(q) \in Nat /\ Tail(q) \in Seq(Nat) /\ Len(Tail(q)) = Len(q) - 1
  BY HeadTailProperties
<1>2. Len(q) \in Nat \ {0}
  BY EmptySeq
<1>3. Append(s, Head(q)) \in Seq(Nat) /\ Append(s, Head(q)) = s \o <<Head(q)>>
      /\ <<Head(q)>> \in Seq(Nat)
  BY <1>1, AppendProperties, AppendIsConcat
<1>4. <<Head(q)>> \o Tail(q) = q
  <2>1. q = SubSeq(q, 1, Len(q)) /\ Tail(q) = SubSeq(q, 2, Len(q))
    BY SubSeqFull, TailIsSubSeq
  <2>2. SubSeq(q, 1, Len(q)) = <<q[1]>> \o SubSeq(q, 1 + 1, Len(q))
    BY <1>2, SubSeqRecursiveFirst
  <2>3. Head(q) = q[1]
    OBVIOUS
  <2> QED
    BY <2>1, <2>2, <2>3
<1>5. Append(s, Head(q)) \o Tail(q) = s \o (<<Head(q)>> \o Tail(q))
  <2>1. (s \o <<Head(q)>>) \o Tail(q) = s \o (<<Head(q)>> \o Tail(q))
    BY SMTT(30), <1>1, <1>3, ConcatAssociative
  <2> QED
    BY <1>3, <2>1
<1> QED
  BY <1>1, <1>2, <1>3, <1>4, <1>5

\* What a signal does: nothing if nobody waits, or one of those who wait goes on.
LEMMA NotifyFacts ==
  ASSUME pc \in [Threads -> Places], NEW t \in Threads, NEW p \in Places,
         NEW l \in Places, NEW woken \in Places, pc[t] # l, p # l, woken # l,
         Notify([pc EXCEPT ![t] = p], l, woken)
  PROVE  \/ Sleepers(l) = {} /\ pc' = [pc EXCEPT ![t] = p]
         \/ \E w \in Threads :
               /\ w # t /\ pc[w] = l /\ pc' \in [Threads -> Places]
               /\ pc'[t] = p /\ pc'[w] = woken
               /\ \A u \in Threads \ {t, w} : pc'[u] = pc[u]
<1>1. CASE Sleepers(l) = {}
  BY <1>1 DEF Notify
<1>2. CASE Sleepers(l) # {}
  <2>1. PICK w \in Sleepers(l) : pc' = [[pc EXCEPT ![t] = p] EXCEPT ![w] = woken]
    BY <1>2 DEF Notify
  <2>2. w \in Threads /\ pc[w] = l /\ w # t
    BY DEF Sleepers
  <2>3. /\ pc' \in [Threads -> Places] /\ pc'[t] = p /\ pc'[w] = woken
        /\ \A u \in Threads \ {t, w} : pc'[u] = pc[u]
    BY <2>1, <2>2
  <2> QED
    BY <2>2, <2>3
<1> QED
  BY <1>1, <1>2

LEMMA PoolStarts == PoolInit => PoolInv
<1> SUFFICES ASSUME PoolInit PROVE PoolInv
  OBVIOUS
<1>1. /\ class \in Classes /\ maxSize \in Nat /\ put = 0 /\ running = TRUE /\ stopper = "up"
      /\ queue = <<>> /\ taken = <<>>
      /\ pc = [t \in Threads |-> IF t \in Producers THEN "idle" ELSE "loop"]
  BY PoolAssumption DEF PoolInit
<1>2. queue \in Seq(Nat) /\ taken \in Seq(Nat) /\ Len(queue) = 0
  BY <1>1, EmptySeq
<1>3. \A t \in Threads : pc[t] \in {"idle", "loop"}
  BY <1>1
<1>4. Sleepers("notEmpty") = {} /\ Sleepers("notFull") = {}
  BY <1>3 DEF Sleepers
<1>5. pc \in [Threads -> {"idle", "put", "notFull", "loop", "take", "notEmpty", "task", "done"}]
  BY <1>1
<1>6. PoolTypeOK
  <2>1. maxSize > 0 => Len(queue) <= maxSize
    BY <1>1, <1>2
  <2>2. \A t \in Consumers : pc[t] # "done"
    BY <1>3 DEF Threads
  <2> QED
    BY <1>1, <1>5, <2>1, <2>2 DEF PoolTypeOK
<1>7. \A t \in Producers : pc[t] = "idle"
  BY <1>1 DEF Threads
<1>8. Fifo
  <2>1. taken \o queue = <<>>
    BY <1>1, <1>2, ConcatEmptySeq
  <2>2. [n \in 1..0 |-> n] = <<>>
    OBVIOUS
  <2> QED
    BY <1>1, <2>1, <2>2 DEF Fifo
<1> QED
  BY <1>1, <1>2, <1>4, <1>6, <1>7, <1>8
  DEF PoolInv, PoolTyped, Roles, Awake, TaskSeen, RoomSeen

\* One thread goes on and nothing else changes.
LEMMA MoveKept ==
  ASSUME PoolInv, NEW t \in Threads, NEW p \in Places, pc' = [pc EXCEPT ![t] = p],
         UNCHANGED <<class, maxSize, queue, running, taken, put, stopper>>,
         t \in Producers => p \in {"idle", "put", "notFull"},
         p = "done" => ~running,
         p = "notEmpty" => running /\ queue = <<>>,
         p = "notFull" => maxSize <= Len(queue),
         pc[t] = "put" => p = "notFull",
         pc[t] \in Waking => p \in Waking \/ queue = <<>> \/ Sleepers("notEmpty") = {}
  PROVE  PoolInv'
<1>0. PoolTyped /\ PoolTypeOK /\ Roles /\ Awake /\ TaskSeen /\ RoomSeen /\ Fifo
  BY DEF PoolInv, PoolTyped
<1>1. pc \in [Threads -> Places]
  BY <1>0 DEF PoolTypeOK, Places
<1>2. /\ pc' \in [Threads -> Places] /\ pc'[t] = p
      /\ \A u \in Threads : u # t => pc'[u] = pc[u]
      /\ Sleepers(p)' = Sleepers(p) \cup {t}
      /\ \A l : l # p => Sleepers(l)' = Sleepers(l) \ {t}
  BY <1>1, MoveFacts
<1>3. PoolTyped'
  <2>1. \A u \in Consumers : pc'[u] = "done" => ~running
    BY <1>0, <1>2 DEF PoolTypeOK, Threads
  <2>2. running' = (stopper' = "up")
    BY <1>0, Zenon DEF PoolTypeOK
  <2>3. /\ stopper' \in {"up", "joining", "stopped"}
        /\ maxSize' > 0 => Len(queue') <= maxSize'
    BY <1>0 DEF PoolTypeOK
  <2>4. pc' \in [Threads -> {"idle", "put", "notFull", "loop", "take", "notEmpty", "task", "done"}]
    BY <1>2 DEF Places
  <2>5. \A u \in Consumers : pc'[u] = "done" => ~running'
    BY <2>1, Zenon
  <2>6. PoolTypeOK'
    BY <2>2, <2>3, <2>4, <2>5, Zenon DEF PoolTypeOK
  <2> QED
    BY <1>0, <2>6 DEF PoolTyped
<1>4. Roles'
  BY <1>0, <1>2 DEF Roles, Threads
<1>5. Awake'
  <2>1. ~running => p # "notEmpty"
    OBVIOUS
  <2> QED
    BY <1>0, <1>2, <2>1 DEF Awake
<1>6. TaskSeen'
  <2> SUFFICES ASSUME queue # <<>>, Sleepers("notEmpty")' # {}
               PROVE  \E u \in Consumers : pc'[u] \in Waking
    BY DEF TaskSeen
  <2>1. p # "notEmpty" /\ Sleepers("notEmpty") # {}
    BY <1>2
  <2>2. PICK u \in Consumers : pc[u] \in Waking
    BY <1>0, <2>1 DEF TaskSeen
  <2>3. u \in Threads /\ t \in Threads
    BY DEF Threads
  <2>4. CASE u = t
    BY <1>2, <2>1, <2>2, <2>4
  <2>5. CASE u # t
    BY <1>2, <2>2, <2>3, <2>5
  <2> QED
    BY <2>4, <2>5
<1>7. RoomSeen'
  <2> DEFINE sleepers == Sleepers("put")
  <2>0. /\ IsFiniteSet(sleepers) /\ Cardinality(sleepers) \in Nat
        /\ IsFiniteSet(sleepers') /\ Cardinality(sleepers') \in Nat
    <3>1. sleepers' \in SUBSET Threads /\ IsFiniteSet(Threads)
      BY Counted DEF Sleepers, Threads
    <3>2. IsFiniteSet(sleepers')
      BY <3>1, FS_Subset
    <3> QED
      BY <3>2, Counted, FS_CardinalityType
  <2>1. maxSize \in Nat /\ Len(queue) \in Nat
    BY <1>0, LenProperties DEF PoolTyped
  <2>2. CASE p = "notFull"
    BY <2>0, <2>1, <2>2 DEF RoomSeen
  <2>3. CASE p # "notFull"
    <3>1. t \notin sleepers
      BY <2>3 DEF Sleepers
    <3>2. sleepers \in SUBSET sleepers'
      BY <1>2, <3>1
    <3> HIDE DEF sleepers
    <3>3. Cardinality(sleepers) <= Cardinality(sleepers')
      BY <2>0, <3>2, FS_Subset
    <3>4. Sleepers("notFull")' # {} => Sleepers("notFull") # {}
      BY <1>2, <2>3
    <3>5. Sleepers("notFull") # {} => maxSize <= Len(queue) + Cardinality(sleepers)
      BY <1>0 DEF RoomSeen, sleepers
    <3>6. Sleepers("notFull")' # {} => maxSize <= Len(queue) + Cardinality(sleepers')
      BY <2>0, <2>1, <3>3, <3>4, <3>5
    <3>7. maxSize' = maxSize /\ Len(queue)' = Len(queue)
      OBVIOUS
    <3> QED
      BY <3>6, <3>7 DEF RoomSeen, sleepers
  <2> QED
    BY <2>2, <2>3
<1>8. Fifo'
  BY <1>0 DEF Fifo
<1> QED
  BY <1>3, <1>4, <1>5, <1>6, <1>7, <1>8 DEF PoolInv

\* PoolTypeOK again, from its parts.
LEMMA TypesAgain ==
  ASSUME PoolTypeOK, UNCHANGED <<running, stopper, maxSize>>,
         pc' \in [Threads -> Places], maxSize > 0 => Len(queue') <= maxSize,
         \A u \in Consumers : pc'[u] = "done" => pc[u] = "done"
  PROVE  PoolTypeOK'
<1>1. \A u \in Consumers : pc'[u] = "done" => ~running'
  <2>1. \A u \in Consumers : pc'[u] = "done" => ~running
    BY DEF PoolTypeOK
  <2> QED
    BY <2>1, Zenon
<1>2. running' = (stopper' = "up")
  BY Zenon DEF PoolTypeOK
<1>3. stopper' \in {"up", "joining", "stopped"}
  BY DEF PoolTypeOK
<1>4. maxSize' > 0 => Len(queue') <= maxSize'
  OBVIOUS
<1>5. pc' \in [Threads -> {"idle", "put", "notFull", "loop", "take", "notEmpty", "task", "done"}]
  BY DEF Places
<1> QED
  BY <1>1, <1>2, <1>3, <1>4, <1>5, Zenon DEF PoolTypeOK

\* run() and put() with room: one producer less comes, one task more is there.
LEMMA PutKept ==
  ASSUME PoolInv, NEW t \in Producers, pc[t] = "put", ~isFull,
         put' = put + 1, queue' = Append(queue, put + 1),
         Notify([pc EXCEPT ![t] = "idle"], "notEmpty", "take"),
         UNCHANGED <<class, maxSize, running, taken, stopper>>
  PROVE  PoolInv'
<1>0. PoolTyped /\ PoolTypeOK /\ Roles /\ Awake /\ TaskSeen /\ RoomSeen /\ Fifo
  BY DEF PoolInv, PoolTyped
<1>1. pc \in [Threads -> Places] /\ t \in Threads
  BY <1>0 DEF PoolTypeOK, Places, Threads
<1>2. \/ Sleepers("notEmpty") = {} /\ pc' = [pc EXCEPT ![t] = "idle"]
      \/ \E w \in Threads :
            /\ w # t /\ pc[w] = "notEmpty" /\ pc' \in [Threads -> Places]
            /\ pc'[t] = "idle" /\ pc'[w] = "take"
            /\ \A u \in Threads \ {t, w} : pc'[u] = pc[u]
  <2>1. "idle" \in Places /\ "notEmpty" \in Places /\ "take" \in Places
    BY DEF Places
  <2> QED
    BY ZenonT(40), <1>1, <2>1, NotifyFacts
<1>3. /\ pc' \in [Threads -> Places]
      /\ pc'[t] = "idle"
      /\ \A u \in Threads : \/ pc'[u] = pc[u]
                            \/ u = t
                            \/ pc[u] = "notEmpty" /\ pc'[u] = "take"
  BY <1>1, <1>2 DEF Places
<1>4. /\ maxSize \in Nat /\ queue \in Seq(Nat) /\ taken \in Seq(Nat) /\ put \in Nat
      /\ Len(queue) \in Nat
  BY <1>0, LenProperties DEF PoolTyped
<1>5. queue' \in Seq(Nat) /\ Len(queue') = Len(queue) + 1
  BY <1>4, AppendProperties
<1>6. PoolTyped'
  <2>1. maxSize > 0 => Len(queue') <= maxSize
    BY <1>4, <1>5 DEF isFull
  <2>2. \A u \in Consumers : pc'[u] = "done" => pc[u] = "done"
    BY <1>3 DEF Threads
  <2>3. PoolTypeOK'
    BY <1>0, <1>3, <2>1, <2>2, TypesAgain
  <2>4. put' \in Nat /\ maxSize' \in Nat /\ taken' \in Seq(Nat) /\ class' \in Classes
    BY <1>0, <1>4 DEF PoolTyped
  <2>5. running' \in BOOLEAN
    BY <1>0, Zenon DEF PoolTyped
  <2> QED
    BY <1>5, <2>3, <2>4, <2>5, Zenon DEF PoolTyped
<1>7. Roles'
  BY <1>0, <1>3 DEF Roles, Threads
<1>8. Awake'
  <2>1. Sleepers("notEmpty")' \subseteq Sleepers("notEmpty")
    BY <1>3 DEF Sleepers
  <2> QED
    BY <1>0, <2>1 DEF Awake
<1>9. TaskSeen'
  <2>1. CASE Sleepers("notEmpty") = {} /\ pc' = [pc EXCEPT ![t] = "idle"]
    <3>1. Sleepers("notEmpty")' = {}
      BY <1>1, <2>1 DEF Sleepers
    <3> QED
      BY <3>1 DEF TaskSeen
  <2>2. ASSUME NEW w \in Threads, w # t, pc[w] = "notEmpty", pc'[w] = "take" PROVE TaskSeen'
    <3>1. w \in Consumers
      BY <1>0, <2>2 DEF Roles, Threads
    <3> QED
      BY <2>2, <3>1 DEF TaskSeen, Waking
  <2> QED
    BY <1>2, <2>1, <2>2
<1>10. RoomSeen'
  <2>1. Sleepers("put")' = Sleepers("put") \ {t} /\ t \in Sleepers("put")
    BY <1>1, <1>3 DEF Sleepers
  <2>2. Sleepers("notFull")' \subseteq Sleepers("notFull")
    BY <1>1, <1>3 DEF Sleepers
  <2>3. /\ IsFiniteSet(Sleepers("put")) /\ Cardinality(Sleepers("put")) \in Nat
        /\ Cardinality(Sleepers("put") \ {t}) = Cardinality(Sleepers("put")) - 1
    BY <2>1, Counted, FS_RemoveElement
  <2>4. Cardinality(Sleepers("put")') = Cardinality(Sleepers("put")) - 1
    BY <2>1, <2>3
  <2>5. Sleepers("notFull") # {} => maxSize <= Len(queue) + Cardinality(Sleepers("put"))
    BY <1>0 DEF RoomSeen
  <2>6. Sleepers("notFull")' # {} => maxSize <= Len(queue') + Cardinality(Sleepers("put")')
    BY <1>4, <1>5, <2>2, <2>3, <2>4, <2>5
  <2> QED
    BY <2>6 DEF RoomSeen
<1>11. Fifo'
  <2>1. taken \o queue = Numbers(put)
    BY <1>0 DEF Fifo, Numbers
  <2>2. taken \o Append(queue, put + 1) = Numbers(put + 1)
    BY <1>4, <2>1, PutInOrder
  <2>3. taken' = taken
    OBVIOUS
  <2> QED
    BY <2>2, <2>3, Zenon DEF Fifo, Numbers
<1> QED
  BY <1>6, <1>7, <1>8, <1>9, <1>10, <1>11 DEF PoolInv

\* take() with a task: a place is free, and a producer who waits for one is told.
LEMMA TakeKept ==
  ASSUME PoolInv, NEW t \in Threads, pc[t] = "take", queue # <<>>,
         queue' = Tail(queue), taken' = Append(taken, Head(queue)),
         \/ maxSize > 0 /\ Notify([pc EXCEPT ![t] = "task"], "notFull", "put")
         \/ ~(maxSize > 0) /\ pc' = [pc EXCEPT ![t] = "task"],
         UNCHANGED <<class, maxSize, running, put, stopper>>
  PROVE  PoolInv'
<1>0. PoolTyped /\ PoolTypeOK /\ Roles /\ Awake /\ TaskSeen /\ RoomSeen /\ Fifo
  BY DEF PoolInv, PoolTyped
<1>1. pc \in [Threads -> Places]
  BY <1>0 DEF PoolTypeOK, Places
<1>2. /\ maxSize \in Nat /\ queue \in Seq(Nat) /\ taken \in Seq(Nat) /\ put \in Nat
      /\ Len(queue) \in Nat
  BY <1>0, LenProperties DEF PoolTyped
<1>3. /\ queue' \in Seq(Nat) /\ taken' \in Seq(Nat) /\ Len(queue') = Len(queue) - 1
      /\ taken' \o queue' = taken \o queue
  BY <1>2, TakeInOrder
<1>4. \/ /\ maxSize = 0 \/ Sleepers("notFull") = {}
         /\ pc' = [pc EXCEPT ![t] = "task"]
      \/ \E w \in Threads :
            /\ w # t /\ pc[w] = "notFull" /\ pc' \in [Threads -> Places]
            /\ pc'[t] = "task" /\ pc'[w] = "put"
            /\ \A u \in Threads \ {t, w} : pc'[u] = pc[u]
  <2>1. "task" \in Places /\ "notFull" \in Places /\ "put" \in Places
    BY DEF Places
  <2>2. CASE maxSize > 0
    <3>1. Notify([pc EXCEPT ![t] = "task"], "notFull", "put")
      BY <2>2
    <3> QED
      BY ZenonT(40), <1>1, <2>1, <3>1, NotifyFacts
  <2>3. CASE ~(maxSize > 0)
    BY <1>2, <2>3
  <2> QED
    BY <2>2, <2>3
<1>5. /\ pc' \in [Threads -> Places]
      /\ pc'[t] = "task"
      /\ \A u \in Threads : \/ pc'[u] = pc[u]
                            \/ u = t
                            \/ pc[u] = "notFull" /\ pc'[u] = "put"
  BY <1>1, <1>4 DEF Places
<1>6. t \notin Producers /\ t \in Consumers
  BY <1>0 DEF Roles, Threads
<1>7. PoolTyped'
  <2>1. maxSize > 0 => Len(queue') <= maxSize
    <3>1. maxSize > 0 => Len(queue) <= maxSize
      BY <1>0 DEF PoolTypeOK
    <3> QED
      BY <1>2, <1>3, <3>1
  <2>2. \A u \in Consumers : pc'[u] = "done" => pc[u] = "done"
    BY <1>5 DEF Threads
  <2>3. PoolTypeOK'
    BY <1>0, <1>5, <2>1, <2>2, TypesAgain
  <2>4. put' \in Nat /\ maxSize' \in Nat /\ class' \in Classes
    BY <1>0, <1>2 DEF PoolTyped
  <2>5. running' \in BOOLEAN
    BY <1>0, Zenon DEF PoolTyped
  <2> QED
    BY <1>3, <2>3, <2>4, <2>5, Zenon DEF PoolTyped
<1>8. Roles'
  BY <1>0, <1>5, <1>6 DEF Roles, Threads
<1>9. Awake'
  <2>1. Sleepers("notEmpty")' \subseteq Sleepers("notEmpty")
    BY <1>5 DEF Sleepers
  <2> QED
    BY <1>0, <2>1 DEF Awake
<1>10. TaskSeen'
  BY <1>5, <1>6 DEF TaskSeen, Waking
<1>11. RoomSeen'
  <2>0. /\ IsFiniteSet(Sleepers("put")) /\ Cardinality(Sleepers("put")) \in Nat
        /\ IsFiniteSet(Sleepers("put")') /\ Cardinality(Sleepers("put")') \in Nat
    <3>1. Sleepers("put")' \in SUBSET Threads /\ IsFiniteSet(Threads)
      BY Counted DEF Sleepers, Threads
    <3>2. IsFiniteSet(Sleepers("put")')
      BY <3>1, FS_Subset
    <3> QED
      BY <3>2, Counted, FS_CardinalityType
  <2>1. CASE maxSize = 0
    <3>1. 0 <= Len(queue') + Cardinality(Sleepers("put")')
      BY <1>2, <1>3, <2>0, LenProperties
    <3>2. maxSize' = 0
      BY <2>1
    <3> QED
      BY <3>1, <3>2 DEF RoomSeen
  <2>2. CASE Sleepers("notFull") = {} /\ pc' = [pc EXCEPT ![t] = "task"]
    <3>1. Sleepers("notFull")' = {}
      BY <1>1, <2>2 DEF Sleepers
    <3> QED
      BY <3>1 DEF RoomSeen
  <2>3. ASSUME NEW w \in Threads, w # t, pc[w] = "notFull", pc'[w] = "put",
               \A u \in Threads \ {t, w} : pc'[u] = pc[u]
        PROVE  RoomSeen'
    <3>1. Sleepers("put")' = Sleepers("put") \cup {w} /\ w \notin Sleepers("put")
      BY <1>5, <2>3 DEF Sleepers
    <3>2. Cardinality(Sleepers("put")') = Cardinality(Sleepers("put")) + 1
      BY <2>0, <3>1, FS_AddElement
    <3>3. Sleepers("notFull") # {}
      BY <2>3 DEF Sleepers
    <3>4. maxSize <= Len(queue) + Cardinality(Sleepers("put"))
      BY <1>0, <3>3 DEF RoomSeen
    <3>5. maxSize' <= Len(queue') + Cardinality(Sleepers("put")')
      BY <1>2, <1>3, <2>0, <3>2, <3>4
    <3> QED
      BY <3>5 DEF RoomSeen
  <2> QED
    BY <1>4, <2>1, <2>2, <2>3
<1>12. Fifo'
  <2>1. taken \o queue = Numbers(put)
    BY <1>0 DEF Fifo, Numbers
  <2>2. taken' \o queue' = Numbers(put')
    BY <1>3, <2>1
  <2> QED
    BY <2>2, Zenon DEF Fifo, Numbers
<1> QED
  BY <1>7, <1>8, <1>9, <1>10, <1>11, <1>12 DEF PoolInv

\* stop(): every worker that waits is woken.
LEMMA StopKept == ASSUME PoolInv, stop PROVE PoolInv'
<1>0. PoolTyped /\ PoolTypeOK /\ Roles /\ Awake /\ TaskSeen /\ RoomSeen /\ Fifo
  BY DEF PoolInv, PoolTyped
<1>1. /\ class = "pool" /\ stopper' = "joining" /\ running' = FALSE
      /\ pc' = [t \in Threads |-> IF t \in Sleepers("notEmpty") THEN "take" ELSE pc[t]]
      /\ UNCHANGED <<class, maxSize, queue, taken, put>>
  BY Zenon DEF stop
<1>2. pc \in [Threads -> Places]
  BY <1>0 DEF PoolTypeOK, Places
<1>3. /\ pc' \in [Threads -> Places]
      /\ \A t \in Threads : \/ pc[t] # "notEmpty" /\ pc'[t] = pc[t]
                            \/ pc[t] = "notEmpty" /\ pc'[t] = "take"
  BY <1>1, <1>2 DEF Sleepers, Places
<1>4. Sleepers("notEmpty")' = {}
  BY <1>3 DEF Sleepers
<1>5. Sleepers("notFull")' = Sleepers("notFull") /\ Sleepers("put")' = Sleepers("put")
  BY <1>3 DEF Sleepers
<1>6. PoolTypeOK'
  <2>1. (\A t \in Consumers : pc[t] = "done" => ~running)'
    BY <1>1, Zenon
  <2>2. (running = (stopper = "up"))'
    <3>1. stopper' # "up"
      BY <1>1
    <3>2. ~running'
      BY <1>1, Zenon
    <3>3. (stopper' = "up") = FALSE
      BY <3>1
    <3> QED
      BY <1>1, <3>3, Zenon
  <2>3. /\ stopper' \in {"up", "joining", "stopped"}
        /\ maxSize' > 0 => Len(queue') <= maxSize'
    BY <1>0, <1>1 DEF PoolTypeOK
  <2>4. pc' \in [Threads -> {"idle", "put", "notFull", "loop", "take", "notEmpty", "task", "done"}]
    BY <1>3 DEF Places
  <2> QED
    BY <2>1, <2>2, <2>3, <2>4, Zenon DEF PoolTypeOK
<1>7. PoolTyped'
  <2>1. running' \in BOOLEAN
    BY <1>1, Zenon
  <2>2. /\ class' \in Classes /\ maxSize' \in Nat /\ put' \in Nat
        /\ queue' \in Seq(Nat) /\ taken' \in Seq(Nat)
    BY <1>0, <1>1 DEF PoolTyped
  <2> QED
    BY <1>6, <2>1, <2>2, Zenon DEF PoolTyped
<1>8. Roles'
  BY <1>0, <1>3 DEF Roles, Threads
<1>9. Awake' /\ TaskSeen'
  BY <1>1, <1>4 DEF Awake, TaskSeen
<1>10. RoomSeen'
  BY <1>0, <1>1, <1>5 DEF RoomSeen
<1>11. Fifo'
  BY <1>0, <1>1 DEF Fifo
<1> QED
  BY <1>7, <1>8, <1>9, <1>10, <1>11 DEF PoolInv

\* Each step keeps the invariant.
LEMMA PoolStep == PoolInv /\ [PoolNext]_poolVars => PoolInv'
<1> SUFFICES ASSUME PoolInv, [PoolNext]_poolVars PROVE PoolInv'
  OBVIOUS
<1>0. PoolTyped /\ PoolTypeOK /\ Roles /\ Awake /\ TaskSeen /\ RoomSeen /\ Fifo
  BY DEF PoolInv, PoolTyped
<1>r. \A t \in Threads : pc[t] \in {"loop", "take", "task", "notEmpty"} => t \notin Producers
  BY <1>0 DEF Roles
<1>1. ASSUME NEW t \in Producers, calls(t) PROVE PoolInv'
  <2>1. t \in Threads /\ "put" \in Places
    BY DEF Threads, Places
  <2> QED
    BY <1>1, <2>1, MoveKept DEF calls, Waking
<1>2. ASSUME NEW t \in Producers, run(t) PROVE PoolInv'
  <2>1. t \in Threads /\ "notFull" \in Places /\ pc[t] = "put"
    BY <1>2 DEF Threads, Places, run
  <2>2. maxSize \in Nat /\ Len(queue) \in Nat
    BY <1>0, LenProperties DEF PoolTyped
  <2>3. CASE isFull
    <3>1. maxSize <= Len(queue)
      BY <2>2, <2>3 DEF isFull
    <3>2. /\ pc' = [pc EXCEPT ![t] = "notFull"]
          /\ UNCHANGED <<class, maxSize, queue, running, taken, put, stopper>>
      BY <1>2, <2>3 DEF run
    <3> QED
      BY <2>1, <3>1, <3>2, MoveKept DEF Waking
  <2>4. CASE ~isFull
    <3>1. /\ put' = put + 1 /\ queue' = Append(queue, put + 1)
          /\ Notify([pc EXCEPT ![t] = "idle"], "notEmpty", "take")
          /\ UNCHANGED <<class, maxSize, running, taken, stopper>>
      BY <1>2, <2>4 DEF run
    <3> QED
      BY <2>1, <2>4, <3>1, PutKept
  <2> QED
    BY <2>3, <2>4
<1>3. ASSUME NEW t \in Threads, runInThread(t) PROVE PoolInv'
  <2>1. /\ pc[t] = "loop" /\ t \notin Producers /\ "take" \in Places /\ "done" \in Places
        /\ UNCHANGED <<class, maxSize, queue, running, taken, put, stopper>>
    BY <1>3, <1>r DEF runInThread, Places
  <2>2. CASE Loops
    <3>1. pc' = [pc EXCEPT ![t] = "take"]
      BY <1>3, <2>2 DEF runInThread
    <3> QED
      BY <2>1, <3>1, MoveKept DEF Waking
  <2>3. CASE ~Loops
    <3>1. pc' = [pc EXCEPT ![t] = "done"]
      BY <1>3, <2>3 DEF runInThread
    <3>2. ~running
      BY <2>3 DEF Loops
    <3>3. Sleepers("notEmpty") = {}
      BY <1>0, <3>2 DEF Awake
    <3> QED
      BY <2>1, <3>1, <3>2, <3>3, MoveKept
  <2> QED
    BY <2>2, <2>3
<1>4. ASSUME NEW t \in Threads, take(t) PROVE PoolInv'
  <2>1. /\ pc[t] = "take" /\ t \notin Producers /\ "notEmpty" \in Places /\ "loop" \in Places
        /\ UNCHANGED <<class, maxSize, running, put, stopper>>
    BY <1>4, <1>r DEF take, Places
  <2>2. CASE Sleeps /\ pc' = [pc EXCEPT ![t] = "notEmpty"] /\ UNCHANGED <<queue, taken>>
    <3>1. queue = <<>> /\ running
      BY <1>0, <2>2 DEF Sleeps, Awake
    <3> QED
      BY <2>1, <2>2, <3>1, MoveKept
  <2>3. CASE queue = <<>> /\ pc' = [pc EXCEPT ![t] = "loop"] /\ UNCHANGED <<queue, taken>>
    BY <2>1, <2>3, MoveKept
  <2>4. CASE /\ queue # <<>> /\ queue' = Rest /\ taken' = Append(taken, Head(queue))
             /\ IF Notifies THEN Notify([pc EXCEPT ![t] = "task"], "notFull", "put")
                ELSE pc' = [pc EXCEPT ![t] = "task"]
    <3>1. queue' = Tail(queue)
      BY <2>4 DEF Rest
    <3>2. \/ maxSize > 0 /\ Notify([pc EXCEPT ![t] = "task"], "notFull", "put")
          \/ ~(maxSize > 0) /\ pc' = [pc EXCEPT ![t] = "task"]
      BY <2>4, Zenon DEF Notifies
    <3> QED
      BY <2>1, <2>4, <3>1, <3>2, TakeKept
  <2> QED
    BY <1>4, <2>2, <2>3, <2>4 DEF take
<1>5. ASSUME NEW t \in Threads, task(t) PROVE PoolInv'
  <2>1. "loop" \in Places /\ pc[t] = "task" /\ t \notin Producers
    BY <1>5, <1>r DEF Places, task
  <2> QED
    BY <1>5, <2>1, MoveKept DEF task, Waking
<1>6. ASSUME NEW t \in Threads, spurious(t) PROVE PoolInv'
  <2>1. /\ pc[t] \in {"notEmpty", "notFull"} /\ "take" \in Places /\ "put" \in Places
        /\ pc[t] \notin Waking
        /\ UNCHANGED <<class, maxSize, queue, running, taken, put, stopper>>
    BY <1>6 DEF Places, spurious, Waking
  <2>2. CASE pc[t] = "notEmpty"
    <3>1. pc' = [pc EXCEPT ![t] = "take"] /\ t \notin Producers
      BY <1>6, <1>r, <2>2 DEF spurious
    <3> QED
      BY <2>1, <2>2, <3>1, MoveKept
  <2>3. CASE pc[t] = "notFull"
    <3>1. pc' = [pc EXCEPT ![t] = "put"]
      BY <1>6, <2>3 DEF spurious
    <3> QED
      BY <2>1, <2>3, <3>1, MoveKept
  <2> QED
    BY <2>1, <2>2, <2>3
<1>7. CASE join
  <2>1. PoolTypeOK'
    <3>1. (\A t \in Consumers : pc[t] = "done" => ~running)'
      BY <1>0, <1>7, Zenon DEF join, PoolTypeOK
    <3>2. stopper' = "stopped" /\ stopper' # "up" /\ stopper # "up" /\ UNCHANGED <<maxSize, queue, pc>>
      BY <1>7 DEF join
    <3>3. (running = (stopper = "up"))'
      <4>1. (stopper' = "up") = (stopper = "up")
        BY <3>2
      <4>2. running' = running
        BY <1>7, Zenon DEF join
      <4> QED
        BY <1>0, <4>1, <4>2, Zenon DEF PoolTypeOK
    <3>4. /\ stopper' \in {"up", "joining", "stopped"}
          /\ maxSize' > 0 => Len(queue') <= maxSize'
      BY <1>0, <3>2 DEF PoolTypeOK
    <3>5. (pc \in [Threads -> {"idle", "put", "notFull", "loop", "take", "notEmpty", "task", "done"}])'
      BY <1>0, <3>2 DEF PoolTypeOK
    <3> QED
      BY <3>1, <3>3, <3>4, <3>5, Zenon DEF PoolTypeOK
  <2>2. PoolTyped'
    BY <1>0, <1>7, <2>1, Zenon DEF join, PoolTyped
  <2> QED
    BY <1>0, <1>7, <2>2
    DEF join, PoolInv, Roles, Awake, TaskSeen, RoomSeen, Fifo, Sleepers
<1>8. CASE stop
  BY <1>8, StopKept
<1>9. CASE UNCHANGED poolVars
  <2>1. PoolTyped'
    BY <1>0, <1>9, Zenon DEF poolVars, PoolTyped, PoolTypeOK
  <2> QED
    BY <1>0, <1>9, <2>1
    DEF poolVars, PoolInv, Roles, Awake, TaskSeen, RoomSeen, Fifo, Sleepers
<1> QED
  BY <1>1, <1>2, <1>3, <1>4, <1>5, <1>6, <1>7, <1>8, <1>9 DEF PoolNext, Monitor

\* ThreadPool.cc, BlockingQueue.h, BoundedBlockingQueue.h: with any number of threads at
\* both ends and a queue of any size, tasks come out once and in order, and no signal of
\* one thread leaves a task, or a free place, unseen.
THEOREM TasksInOrder == PoolSpec => [](PoolTypeOK /\ Fifo /\ NoLostWakeup)
<1>1. PoolInit => PoolInv
  BY PoolStarts
<1>2. PoolInv /\ [PoolNext]_poolVars => PoolInv'
  BY PoolStep
<1>3. PoolInv => PoolTypeOK /\ Fifo /\ NoLostWakeup
  BY Zenon DEF PoolInv, PoolTyped, TaskSeen, RoomSeen, NoLostWakeup, Waking
<1> QED
  BY <1>1, <1>2, <1>3, PTL DEF PoolSpec

-----------------------------------------------------------------------------
(* AsyncLogging, as the instance Async: the back end's buffers. *)

VARIABLES logging, latch, current, next, buffers, spare1, spare2, toWrite, thread, user,
          file, appendedLines, dropped, refused
CONSTANTS BufferSize, LineLens, KeepLimit, MaxLines
Async == INSTANCE AsyncLogging WITH running <- logging, appended <- appendedLines

\* What the code's constants give: a buffer is not empty, a line has a length, and a
\* backlog of more buffers than are kept has the two that are written.
AsyncSizes ==
    BufferSize \in Nat \ {0} /\ LineLens \subseteq Nat /\ KeepLimit \in Nat \ {0}

LogBuffers == [lines : Seq(Nat), used : {n \in Nat : n < BufferSize}]

(* The inductive invariant.  No buffer is ever over-full; *)
BuffersFit ==
    /\ current \in LogBuffers /\ buffers \in Seq(LogBuffers) /\ toWrite \in Seq(LogBuffers)
    /\ appendedLines \in Nat
(* the thread and the user of start() and stop() go through their steps together; *)
InStep ==
    /\ thread \in {"none", "begin", "test", "lock", "wait", "write", "done"}
    /\ user \in {"new", "starting", "up", "joining", "stopped"}
    /\ thread = "none" <=> user = "new"
    /\ latch = IF thread \in {"none", "begin"} THEN 1 ELSE 0
    /\ user \in {"up", "joining", "stopped"} => latch = 0
    /\ user = "stopped" => thread = "done"
(* nextBuffer_ is gone only when a full buffer waits; *)
NextTaken == next \/ buffers # <<>>
(* and the spares that a round takes are among the buffers it writes. *)
Borrowed ==
    thread = "write" => toWrite # <<>> /\ ~spare1 /\ (spare2 \/ Len(toWrite) >= 2)
AsyncInv == BuffersFit /\ InStep /\ NextTaken /\ Borrowed /\ Async!SparesReady

\* FiniteSetsExt's least element, of the two numbers that std::vector::resize sees.
LEMMA LeastOfTwo ==
  ASSUME NEW n \in Nat
  PROVE  Async!Min({2, n}) = IF n < 2 THEN n ELSE 2
<1> DEFINE m == IF n < 2 THEN n ELSE 2
<1>1. m \in {2, n} /\ \A y \in {2, n} : m <= y
  OBVIOUS
<1>2. \A x \in {2, n} : (\A y \in {2, n} : x <= y) => x = m
  OBVIOUS
<1> QED
  BY <1>1, <1>2 DEF Async!Min

LEMMA AsyncStarts == AsyncSizes /\ Async!AsyncInit => AsyncInv
<1> SUFFICES ASSUME AsyncSizes, Async!AsyncInit PROVE AsyncInv
  OBVIOUS
<1>1. Async!Empty \in LogBuffers
  <2>1. <<>> \in Seq(Nat) /\ 0 \in {n \in Nat : n < BufferSize}
    BY EmptySeq DEF AsyncSizes
  <2> QED
    BY <2>1 DEF Async!Empty, LogBuffers
<1>2. BuffersFit
  <2>1. <<>> \in Seq(LogBuffers)
    BY EmptySeq
  <2> QED
    BY <1>1, <2>1 DEF Async!AsyncInit, BuffersFit
<1>3. InStep
  BY DEF Async!AsyncInit, InStep
<1>4. next /\ spare1 /\ spare2
  BY Zenon DEF Async!AsyncInit
<1>5. thread = "none"
  BY DEF Async!AsyncInit
<1> QED
  BY <1>2, <1>3, <1>4, <1>5, Zenon DEF AsyncInv, NextTaken, Borrowed, Async!SparesReady

\* A line goes into a buffer that has room for it, and leaves another alone.
LEMMA PutFits ==
  ASSUME AsyncSizes, NEW line \in Nat, NEW len \in Nat, NEW b \in LogBuffers
  PROVE  Async!Put(line, len, b) \in LogBuffers
<1>1. b.lines \in Seq(Nat) /\ b.used \in Nat /\ b.used < BufferSize /\ BufferSize \in Nat
  BY DEF LogBuffers, AsyncSizes
<1>2. CASE Async!FitsIn(len, b)
  <2>1. Append(b.lines, line) \in Seq(Nat)
    BY <1>1, AppendProperties
  <2>2. b.used + len \in {n \in Nat : n < BufferSize}
    BY <1>1, <1>2 DEF Async!FitsIn
  <2>3. Async!Put(line, len, b) = [lines |-> Append(b.lines, line), used |-> b.used + len]
    BY <1>2 DEF Async!Put
  <2> QED
    BY <2>1, <2>2, <2>3 DEF LogBuffers
<1>3. CASE ~Async!FitsIn(len, b)
  BY <1>3 DEF Async!Put
<1> QED
  BY <1>2, <1>3

\* append(): also while the thread is anywhere.
LEMMA AppendsKept ==
  ASSUME AsyncSizes, AsyncInv, NEW len \in LineLens, Async!append(len)
  PROVE  AsyncInv'
<1>0. BuffersFit /\ InStep /\ NextTaken /\ Borrowed /\ Async!SparesReady
  BY DEF AsyncInv
<1>1. /\ len \in Nat /\ appendedLines + 1 \in Nat /\ appendedLines' = appendedLines + 1
      /\ current \in LogBuffers /\ buffers \in Seq(LogBuffers) /\ toWrite \in Seq(LogBuffers)
  BY <1>0 DEF AsyncSizes, BuffersFit, Async!append
<1>2. UNCHANGED <<latch, spare1, spare2, toWrite, thread, user>>
  BY DEF Async!append, Async!own
<1>3. Async!Empty \in LogBuffers
  <2>1. <<>> \in Seq(Nat) /\ 0 \in {n \in Nat : n < BufferSize}
    BY EmptySeq DEF AsyncSizes
  <2> QED
    BY <2>1 DEF Async!Empty, LogBuffers
<1>4. CASE Async!FitsIn(len, current)
  <2>1. /\ current' = Async!Put(appendedLines + 1, len, current)
        /\ UNCHANGED <<next, buffers>>
    BY <1>4, Zenon DEF Async!append
  <2>2. current' \in LogBuffers
    BY <1>1, <2>1, PutFits
  <2>3. BuffersFit' /\ InStep'
    BY <1>0, <1>1, <1>2, <2>1, <2>2 DEF BuffersFit, InStep
  <2> QED
    BY <1>0, <1>2, <2>1, <2>3, Zenon DEF AsyncInv, NextTaken, Borrowed, Async!SparesReady
<1>5. CASE ~Async!FitsIn(len, current)
  <2>1. /\ buffers' = Append(buffers, current)
        /\ current' = Async!Put(appendedLines + 1, len, Async!Empty)
    BY <1>5, Zenon DEF Async!append
  <2>2. current' \in LogBuffers
    BY <1>1, <1>3, <2>1, PutFits
  <2>3. buffers' \in Seq(LogBuffers) /\ buffers' # <<>>
    BY <1>1, <2>1, AppendProperties
  <2>4. BuffersFit' /\ InStep'
    BY <1>0, <1>1, <1>2, <2>2, <2>3 DEF BuffersFit, InStep
  <2> QED
    BY <1>0, <1>2, <2>3, <2>4, Zenon DEF AsyncInv, NextTaken, Borrowed, Async!SparesReady
<1> QED
  BY <1>4, <1>5

\* start(), stop() and the tests and waits of the thread leave the buffers alone.
LEMMA UserAndWaitsKept ==
  ASSUME AsyncInv,
         \/ Async!start \/ Async!started \/ Async!stop \/ Async!joined
         \/ Async!Begin \/ Async!TestRunning \/ Async!WaitForSeconds
         \/ UNCHANGED Async!asyncVars
  PROVE  AsyncInv'
<1>0. BuffersFit /\ InStep /\ NextTaken /\ Borrowed /\ Async!SparesReady
  BY DEF AsyncInv
<1>1. /\ UNCHANGED <<current, buffers, toWrite, appendedLines>>
      /\ UNCHANGED <<next, spare1, spare2>>
  BY Zenon DEF Async!start, Async!started, Async!stop, Async!joined, Async!Begin,
     Async!TestRunning, Async!WaitForSeconds, Async!asyncVars, Async!shared, Async!own
<1>2. BuffersFit'
  BY <1>0, <1>1 DEF BuffersFit
<1>3. NextTaken'
  BY <1>0, <1>1, Zenon DEF NextTaken
<1>4. InStep'
  BY <1>0 DEF InStep, Async!start, Async!started, Async!stop, Async!joined, Async!Begin,
     Async!TestRunning, Async!WaitForSeconds, Async!asyncVars, Async!shared, Async!own
<1>5. /\ thread' = "write" => thread = "write"
      /\ thread' \in {"none", "begin", "test", "lock", "wait"} =>
            thread \in {"none", "begin", "test", "lock", "wait"}
  BY <1>0 DEF InStep, Async!start, Async!started, Async!stop, Async!joined, Async!Begin,
     Async!TestRunning, Async!WaitForSeconds, Async!asyncVars, Async!shared, Async!own
<1>6. Borrowed' /\ Async!SparesReady'
  BY <1>0, <1>1, <1>5, Zenon DEF Borrowed, Async!SparesReady
<1> QED
  BY <1>2, <1>3, <1>4, <1>6 DEF AsyncInv

\* The swap: the first spare becomes the current buffer, the second the next one where
\* append() has taken that; then a full buffer is written beside the current one.
LEMMA SwapKept == ASSUME AsyncSizes, AsyncInv, Async!Swap PROVE AsyncInv'
<1>0. BuffersFit /\ InStep /\ NextTaken /\ Borrowed /\ Async!SparesReady
  BY DEF AsyncInv
<1>1. /\ current \in LogBuffers /\ buffers \in Seq(LogBuffers) /\ appendedLines \in Nat
      /\ buffers' = <<>> /\ toWrite' = Append(buffers, current) /\ current' = Async!Empty
      /\ thread' = "write" /\ UNCHANGED <<latch, user, appendedLines>>
  BY <1>0 DEF BuffersFit, Async!Swap, Async!Batch
<1>2. /\ ~spare1' /\ next' /\ spare2' = (spare2 /\ ~~next)
  BY Zenon DEF Async!Swap, Async!TakesSpare
<1>3. thread \in {"lock", "wait"}
  BY DEF Async!Swap, Async!CanSwap
<1>4. spare2
  <2>1. thread \in {"none", "begin", "test", "lock", "wait"}
    BY <1>3
  <2> QED
    BY <1>0, <2>1, Zenon DEF Async!SparesReady
<1>5. /\ toWrite' \in Seq(LogBuffers) /\ toWrite' # <<>> /\ Len(toWrite') = Len(buffers) + 1
      /\ Len(buffers) \in Nat
  BY <1>1, AppendProperties, LenProperties
<1>6. spare2' \/ Len(toWrite') >= 2
  <2>1. CASE next
    BY <1>2, <1>4, <2>1, Zenon
  <2>2. CASE ~next
    <3>1. buffers # <<>>
      BY <1>0, <2>2, Zenon DEF NextTaken
    <3>2. Len(buffers) >= 1
      BY <1>1, <3>1, EmptySeq
    <3> QED
      BY <1>5, <3>2
  <2> QED
    BY <2>1, <2>2
<1>7. <<>> \in Seq(LogBuffers) /\ Async!Empty \in LogBuffers
  <2>1. <<>> \in Seq(Nat) /\ <<>> \in Seq(LogBuffers) /\ 0 \in {n \in Nat : n < BufferSize}
    BY EmptySeq DEF AsyncSizes
  <2> QED
    BY <2>1 DEF Async!Empty, LogBuffers
<1>8. BuffersFit'
  BY <1>1, <1>5, <1>7 DEF BuffersFit
<1>9. InStep'
  BY <1>0, <1>1, <1>3 DEF InStep
<1>10. thread' \notin {"none", "begin", "test", "lock", "wait"}
  BY <1>1
<1> QED
  BY <1>2, <1>5, <1>6, <1>8, <1>9, <1>10, Zenon
  DEF AsyncInv, NextTaken, Borrowed, Async!SparesReady

\* After the writing the spares are filled up from what was written.
LEMMA WriteOutKept == ASSUME AsyncInv, Async!WriteOut PROVE AsyncInv'
<1>0. BuffersFit /\ InStep /\ NextTaken /\ Borrowed /\ Async!SparesReady
  BY DEF AsyncInv
<1>1. /\ thread = "write" /\ thread' = "test" /\ toWrite' = <<>>
      /\ UNCHANGED <<latch, user, current, buffers, appendedLines>>
  BY DEF Async!WriteOut, Async!shared
<1>2. next' = next
  BY Zenon DEF Async!WriteOut, Async!shared
<1>3. /\ toWrite \in Seq(LogBuffers) /\ toWrite # <<>> /\ Len(toWrite) \in Nat
      /\ Len(toWrite) >= 1
  <2>1. toWrite \in Seq(LogBuffers) /\ toWrite # <<>>
    BY <1>0, <1>1 DEF BuffersFit, Borrowed
  <2> QED
    BY <2>1, EmptySeq
<1>4. ~spare1 /\ (spare2 \/ Len(toWrite) >= 2)
  BY <1>0, <1>1, Zenon DEF Borrowed
<1> DEFINE recyclable == Async!Min({2, Len(toWrite)})
           wanted == (IF spare1 THEN 0 ELSE 1) + (IF spare2 THEN 0 ELSE 1)
<1>5. recyclable = IF Len(toWrite) < 2 THEN Len(toWrite) ELSE 2
  BY <1>3, LeastOfTwo
<1>6. /\ spare1' = (spare1 \/ recyclable >= 1)
      /\ spare2' = (spare2 \/ recyclable >= wanted)
  BY Zenon DEF Async!WriteOut
<1>7. recyclable >= 1
  BY <1>3, <1>5
<1>8. spare2 \/ recyclable >= wanted
  <2>1. CASE ~spare2
    <3>1. recyclable = 2
      BY <1>3, <1>4, <1>5, <2>1
    <3>2. wanted = 2
      BY <1>4, <2>1
    <3> QED
      BY <3>1, <3>2
  <2> QED
    BY <2>1
<1> HIDE DEF recyclable, wanted
<1>9. spare1' /\ spare2'
  BY <1>6, <1>7, <1>8, Zenon
<1>10. BuffersFit'
  <2>1. <<>> \in Seq(LogBuffers)
    BY EmptySeq
  <2> QED
    BY <1>0, <1>1, <2>1 DEF BuffersFit
<1>11. InStep'
  BY <1>0, <1>1 DEF InStep
<1>12. thread' # "write"
  BY <1>1
<1>13. NextTaken'
  BY <1>0, <1>1, <1>2, Zenon DEF NextTaken
<1> QED
  BY <1>9, <1>10, <1>11, <1>12, <1>13, Zenon DEF AsyncInv, Borrowed, Async!SparesReady

LEMMA AsyncStep ==
  ASSUME AsyncSizes, AsyncInv, [Async!AsyncNext]_(Async!asyncVars)
  PROVE  AsyncInv'
<1>1. CASE \E len \in LineLens : Async!append(len)
  BY <1>1, AppendsKept
<1>2. CASE Async!Swap
  BY <1>2, SwapKept
<1>3. CASE Async!WriteOut
  BY <1>3, WriteOutKept
<1> QED
  BY <1>1, <1>2, <1>3, UserAndWaitsKept, Zenon DEF Async!AsyncNext, Async!threadFunc

\* AsyncLogging.cc:65, 66, 83, 111, 118: whatever the users append and when, no buffer is
\* over-full, every batch that is written has a buffer, and every round of the thread
\* finds two spare ones; start() returns to its user with the thread running, and stop()
\* when the thread has ended.
THEOREM SparesAreReady ==
  ASSUME AsyncSizes
  PROVE  Async!AsyncSpec =>
           [](/\ Async!SparesReady /\ BuffersFit /\ InStep
              /\ thread = "write" => toWrite # <<>>)
<1>1. Async!AsyncInit => AsyncInv
  BY AsyncStarts
<1>2. AsyncInv /\ [Async!AsyncNext]_(Async!asyncVars) => AsyncInv'
  BY AsyncStep
<1>3. AsyncInv => /\ Async!SparesReady /\ BuffersFit /\ InStep
                  /\ thread = "write" => toWrite # <<>>
  BY Zenon DEF AsyncInv, Borrowed
<1> QED
  BY <1>1, <1>2, <1>3, PTL DEF Async!AsyncSpec

(* The lines that the buffers hold. *)

\* The recursion of FlattenSeq, over the first n sequences of c.
Joined(f, c, n) ==
    /\ f \in [1..n -> Seq(Nat)] /\ f[1] = c[1]
    /\ \A i \in 2..n : f[i] = f[i - 1] \o c[i]

\* One more sequence is joined at the end.
LEMMA JoinOne ==
  ASSUME NEW n \in Nat \ {0}, NEW c, NEW d, NEW f, Joined(f, c, n),
         \A i \in 1..n : d[i] = c[i], d[n + 1] \in Seq(Nat)
  PROVE  Joined([i \in 1..(n + 1) |-> IF i = n + 1 THEN f[n] \o d[n + 1] ELSE f[i]], d, n + 1)
<1> DEFINE x == f[n] \o d[n + 1]
           g == [i \in 1..(n + 1) |-> IF i = n + 1 THEN x ELSE f[i]]
<1>1. /\ f \in [1..n -> Seq(Nat)] /\ f[1] = c[1]
      /\ \A i \in 2..n : f[i] = f[i - 1] \o c[i]
  BY DEF Joined
<1>2. x \in Seq(Nat)
  BY <1>1, ConcatProperties
<1> HIDE DEF x
<1>3. \A i \in 1..(n + 1) : i # n + 1 => i \in 1..n
  OBVIOUS
<1>4. g \in [1..(n + 1) -> Seq(Nat)]
  BY <1>1, <1>2, <1>3
<1>5. g[1] = d[1]
  BY <1>1
<1>6. ASSUME NEW i \in 2..(n + 1) PROVE g[i] = g[i - 1] \o d[i]
  <2>1. i - 1 \in 1..(n + 1) /\ i - 1 # n + 1 /\ i \in 1..(n + 1)
    BY <1>6
  <2>2. g[i - 1] = f[i - 1]
    BY <2>1
  <2>3. CASE i = n + 1
    <3>1. g[i] = x /\ i - 1 = n
      BY <2>1, <2>3
    <3> HIDE DEF g
    <3> QED
      BY <2>2, <2>3, <3>1 DEF x
  <2>4. CASE i # n + 1
    <3>1. g[i] = f[i] /\ i \in 2..n /\ i \in 1..n
      BY <2>1, <2>4
    <3> QED
      BY <1>1, <2>2, <3>1
  <2> QED
    BY <2>3, <2>4
<1> HIDE DEF g
<1>7. Joined(g, d, n + 1)
  BY <1>4, <1>5, <1>6 DEF Joined
<1> QED
  BY <1>7 DEF g, x

\* The recursion has a solution.
LEMMA JoinedExist ==
  ASSUME NEW c \in Seq(Seq(Nat)), NEW n \in 1..Len(c)
  PROVE  \E f : Joined(f, c, n)
<1> DEFINE S == {m \in 1..Len(c) : ~\E f : Joined(f, c, m)}
<1> SUFFICES ASSUME S # {} PROVE FALSE
  OBVIOUS
<1>1. PICK k \in S : \A m \in S : k <= m
  <2>1. S \subseteq Nat
    OBVIOUS
  <2> HIDE DEF S
  <2> QED
    BY <2>1, LeastIs
<1>2. k \in 1..Len(c) /\ \A i \in 1..Len(c) : c[i] \in Seq(Nat)
  OBVIOUS
<1>3. k # 1
  <2>1. c[1] \in Seq(Nat)
    BY <1>2
  <2>2. Joined([i \in 1..1 |-> c[1]], c, 1)
    BY <2>1 DEF Joined
  <2> QED
    BY <1>1, <2>2
<1>4. k - 1 \in Nat \ {0} /\ k - 1 \in 1..Len(c) /\ ~(k <= k - 1) /\ (k - 1) + 1 = k
  BY <1>2, <1>3
<1>5. PICK f : Joined(f, c, k - 1)
  <2>1. k - 1 \notin S
    <3> HIDE DEF S
    <3> QED
      BY <1>1, <1>4
  <2> QED
    BY <1>4, <2>1
<1> DEFINE m == k - 1
<1>6. m \in Nat \ {0} /\ c[m + 1] \in Seq(Nat) /\ Joined(f, c, m) /\ m + 1 = k
  BY <1>2, <1>4, <1>5
<1> HIDE DEF m
<1>7. \E g : Joined(g, c, m + 1)
  BY <1>6, JoinOne
<1> QED
  BY <1>1, <1>6, <1>7

\* FlattenSeq is its last value.
LEMMA FlatIs ==
  ASSUME NEW c \in Seq(Seq(Nat)), NEW N \in Nat \ {0}, N = Len(c), NEW f, Joined(f, c, N)
  PROVE  Async!FlattenSeq(c) = f[N]
<1> DEFINE F(h) == h = [i \in 1..Len(c) |-> IF i = 1 THEN c[i] ELSE h[i - 1] \o c[i]]
           h == CHOOSE h : F(h)
<1>1. Async!FlattenSeq(c) = h[Len(c)]
  BY DEF Async!FlattenSeq
<1>2. /\ f \in [1..N -> Seq(Nat)] /\ f[1] = c[1]
      /\ \A i \in 2..N : f[i] = f[i - 1] \o c[i]
  BY DEF Joined
<1>3. F(f)
  <2>1. \A i \in 1..N : i # 1 => i \in 2..N
    OBVIOUS
  <2>2. \A i \in 1..N : f[i] = IF i = 1 THEN c[i] ELSE f[i - 1] \o c[i]
    BY <1>2, <2>1
  <2> QED
    BY <1>2, <2>2
<1>4. F(h)
  BY <1>3
<1> HIDE DEF h
<1>5. \A i \in 1..N : h[i] = IF i = 1 THEN c[i] ELSE h[i - 1] \o c[i]
  BY <1>4
<1> DEFINE S == {i \in 1..N : f[i] # h[i]}
<1>6. S = {}
  <2> SUFFICES ASSUME S # {} PROVE FALSE
    OBVIOUS
  <2>1. PICK k \in S : \A m \in S : k <= m
    <3>1. S \subseteq Nat
      OBVIOUS
    <3> HIDE DEF S
    <3> QED
      BY <3>1, LeastIs
  <2>2. k \in 1..N /\ 1 \in 1..N
    OBVIOUS
  <2>3. k # 1
    BY <1>2, <1>5, <2>1, <2>2
  <2>4. k \in 2..N /\ k - 1 \in 1..N /\ ~(k <= k - 1)
    BY <2>2, <2>3
  <2>5. k - 1 \notin S
    <3> HIDE DEF S
    <3> QED
      BY <2>1, <2>4
  <2>6. f[k - 1] = h[k - 1]
    BY <2>4, <2>5
  <2>7. f[k] = f[k - 1] \o c[k]
    BY <1>2, <2>4
  <2>8. h[k] = h[k - 1] \o c[k]
    BY <1>5, <2>2, <2>3
  <2> QED
    BY <2>1, <2>6, <2>7, <2>8
<1>7. f[N] = h[N]
  <2>1. N \in 1..N
    OBVIOUS
  <2> QED
    BY <1>6, <2>1
<1> QED
  BY <1>1, <1>7

\* FlattenSeq, one sequence after the other.
LEMMA FlatAppend ==
  /\ Async!FlattenSeq(<<>>) = <<>>
  /\ \A c \in Seq(Seq(Nat)) :
       /\ Async!FlattenSeq(c) \in Seq(Nat)
       /\ \A x \in Seq(Nat) : Async!FlattenSeq(Append(c, x)) = Async!FlattenSeq(c) \o x
<1>1. Async!FlattenSeq(<<>>) = <<>>
  BY EmptySeq DEF Async!FlattenSeq
<1>2. ASSUME NEW c \in Seq(Seq(Nat)), NEW x \in Seq(Nat)
      PROVE  /\ Async!FlattenSeq(c) \in Seq(Nat)
             /\ Async!FlattenSeq(Append(c, x)) = Async!FlattenSeq(c) \o x
  <2> DEFINE n == Len(c)
             d == Append(c, x)
  <2>1. /\ d \in Seq(Seq(Nat)) /\ Len(d) = n + 1 /\ n \in Nat
        /\ \A i \in 1..n : d[i] = c[i]
        /\ d[n + 1] = x
    BY AppendProperties
  <2> HIDE DEF d
  <2>2. CASE n = 0
    <3>1. c = <<>>
      BY <2>2, EmptySeq
    <3>2. Joined([i \in 1..1 |-> x], d, 1) /\ 1 \in Nat \ {0} /\ Len(d) = 1
      <4>1. d[1] = x /\ Len(d) = 1
        BY <2>1, <2>2
      <4> QED
        BY <4>1 DEF Joined
    <3>3. Async!FlattenSeq(d) = [i \in 1..1 |-> x][1]
      BY <2>1, <3>2, FlatIs
    <3>4. <<>> \o x = x /\ <<>> \in Seq(Nat)
      BY ConcatEmptySeq, EmptySeq
    <3>5. [i \in 1..1 |-> x][1] = x
      OBVIOUS
    <3>6. Async!FlattenSeq(c) = <<>>
      BY <1>1, <3>1
    <3>7. Async!FlattenSeq(d) = x
      BY <3>3, <3>5
    <3> QED
      BY <3>4, <3>6, <3>7 DEF d
  <2>3. CASE n # 0
    <3>1. n \in Nat \ {0} /\ n \in 1..Len(c) /\ n + 1 \in Nat \ {0}
      BY <2>1, <2>3
    <3>2. PICK f : Joined(f, c, n)
      BY <3>1, JoinedExist
    <3>3. Async!FlattenSeq(c) = f[n]
      BY <3>1, <3>2, FlatIs
    <3>4. f[n] \in Seq(Nat)
      BY <3>1, <3>2 DEF Joined
    <3> DEFINE g == [i \in 1..(n + 1) |-> IF i = n + 1 THEN f[n] \o d[n + 1] ELSE f[i]]
    <3>5. Joined(g, d, n + 1)
      BY <2>1, <3>1, <3>2, JoinOne
    <3>6. g[n + 1] = f[n] \o x
      BY SMTT(30), <2>1, <3>1
    <3> HIDE DEF g, n
    <3>7. Async!FlattenSeq(d) = g[n + 1]
      BY <2>1, <3>1, <3>5, FlatIs
    <3> QED
      BY <3>3, <3>4, <3>6, <3>7 DEF d
  <2> QED
    BY <2>2, <2>3
<1> QED
  <2>1. <<>> \in Seq(Nat)
    BY EmptySeq
  <2> QED
    BY <1>1, <1>2, <2>1

\* LinesOf, one buffer after the other.
LEMMA LinesAppend ==
  /\ Async!LinesOf(<<>>) = <<>>
  /\ \A q \in Seq(LogBuffers) :
       /\ Async!LinesOf(q) \in Seq(Nat)
       /\ \A b \in LogBuffers : Async!LinesOf(Append(q, b)) = Async!LinesOf(q) \o b.lines
<1>1. Async!LinesOf(<<>>) = <<>>
  <2>1. [i \in DOMAIN <<>> |-> <<>>[i].lines] = <<>>
    OBVIOUS
  <2> QED
    BY <2>1, FlatAppend DEF Async!LinesOf
<1>2. ASSUME NEW q \in Seq(LogBuffers)
      PROVE  Async!LinesOf(q) \in Seq(Nat)
  <2>1. \A i \in DOMAIN q : q[i].lines \in Seq(Nat)
    <3>1. \A i \in DOMAIN q : q[i] \in LogBuffers
      OBVIOUS
    <3> QED
      BY <3>1 DEF LogBuffers
  <2>2. [i \in DOMAIN q |-> q[i].lines] \in Seq(Seq(Nat))
    <3>1. [i \in 1..Len(q) |-> q[i].lines] \in [1..Len(q) -> Seq(Nat)]
      BY <2>1
    <3> QED
      BY <3>1
  <2> QED
    BY <2>2, FlatAppend DEF Async!LinesOf
<1>3. ASSUME NEW q \in Seq(LogBuffers), NEW b \in LogBuffers
      PROVE  Async!LinesOf(Append(q, b)) = Async!LinesOf(q) \o b.lines
  <2> DEFINE n == Len(q)
             p == Append(q, b)
             c == [i \in DOMAIN q |-> q[i].lines]
             d == [i \in DOMAIN p |-> p[i].lines]
  <2>1. /\ p \in Seq(LogBuffers) /\ Len(p) = n + 1 /\ n \in Nat
        /\ \A i \in 1..n : p[i] = q[i]
        /\ p[n + 1] = b /\ DOMAIN p = 1..(n + 1) /\ DOMAIN q = 1..n
    BY AppendProperties
  <2>2. b.lines \in Seq(Nat) /\ \A i \in 1..n : q[i].lines \in Seq(Nat)
    <3>1. \A e \in LogBuffers : e.lines \in Seq(Nat)
      BY DEF LogBuffers
    <3>2. \A i \in 1..n : q[i] \in LogBuffers
      BY <2>1
    <3> QED
      BY <3>1, <3>2
  <2> HIDE DEF p
  <2>3. c \in Seq(Seq(Nat)) /\ Len(c) = n
    <3>1. c \in [1..n -> Seq(Nat)]
      BY <2>1, <2>2
    <3> QED
      BY <2>1, <3>1
  <2>4. d = Append(c, b.lines)
    <3>0. /\ \A i \in 1..(n + 1) : i \in 1..n \/ i = n + 1
          /\ n + 1 \in 1..(n + 1) /\ 1..n \subseteq 1..(n + 1)
      BY <2>1
    <3>a. /\ \A i \in 1..(n + 1) : d[i] = p[i].lines
          /\ \A i \in 1..n : c[i] = q[i].lines
          /\ d = [i \in 1..(n + 1) |-> d[i]]
      BY <2>1
    <3> HIDE DEF c, d, n
    <3>b. (\A i \in 1..n : d[i] = c[i]) /\ d[n + 1] = b.lines
      BY <2>1, <3>0, <3>a
    <3>1. d \in [1..(n + 1) -> Seq(Nat)] /\ \A i \in 1..n : d[i] = c[i]
      BY <2>2, <3>0, <3>a, <3>b
    <3>2. d \in Seq(Seq(Nat)) /\ Len(d) = n + 1 /\ d[n + 1] = b.lines
      BY <2>1, <3>1, <3>b
    <3> DEFINE e == Append(c, b.lines)
    <3>3. /\ e \in Seq(Seq(Nat)) /\ Len(e) = n + 1 /\ e[n + 1] = b.lines
          /\ \A i \in 1..n : e[i] = c[i]
      <4>1. b.lines \in Seq(Nat)
        BY <2>2
      <4> QED
        BY <2>3, <4>1, AppendProperties
    <3> HIDE DEF c, d, e
    <3>4. \A i \in 1..(n + 1) : d[i] = e[i]
      BY <3>0, <3>1, <3>2, <3>3
    <3>5. d = e
      BY <3>2, <3>3, <3>4, SeqEqual
    <3> QED
      BY <3>5 DEF e
  <2> HIDE DEF c, d
  <2>5. Async!LinesOf(q) = Async!FlattenSeq(c) /\ Async!LinesOf(p) = Async!FlattenSeq(d)
    BY DEF Async!LinesOf, c, d
  <2> QED
    BY <2>2, <2>3, <2>4, <2>5, FlatAppend DEF p
<1> QED
  BY <1>1, <1>2, <1>3

\* LinesOf of two batches, one after the other.
LEMMA LinesJoin ==
  ASSUME NEW p \in Seq(LogBuffers), NEW q \in Seq(LogBuffers)
  PROVE  Async!LinesOf(p \o q) = Async!LinesOf(p) \o Async!LinesOf(q)
<1> DEFINE Q(n) == SubSeq(q, 1, n)
           L(s) == Async!LinesOf(s)
           S == {n \in 0..Len(q) : L(p \o Q(n)) # L(p) \o L(Q(n))}
<1>0. Len(q) \in Nat /\ Q(Len(q)) = q
  BY SubSeqFull
<1>1. CASE S = {}
  <2>1. Len(q) \in 0..Len(q)
    BY <1>0
  <2>2. L(p \o Q(Len(q))) = L(p) \o L(Q(Len(q)))
    BY <1>1, <2>1
  <2> QED
    BY <1>0, <2>2
<1>2. CASE S # {}
  <2>1. PICK k \in S : \A m \in S : k <= m
    <3>1. S \subseteq Nat
      OBVIOUS
    <3> HIDE DEF S
    <3> QED
      BY <1>2, <3>1, LeastIs
  <2>2. k \in 0..Len(q) /\ L(p) \in Seq(Nat)
    BY <2>1, LinesAppend
  <2>3. k # 0
    <3>1. Q(0) = <<>>
      BY SubSeqEmpty
    <3>2. p \o <<>> = p /\ L(p) \o <<>> = L(p) /\ L(<<>>) = <<>>
      BY <2>2, ConcatEmptySeq, LinesAppend
    <3> QED
      BY <2>1, <3>1, <3>2
  <2> DEFINE j == k - 1
             r == Q(j)
             b == q[k]
  <2>4. j \in 0..Len(q) /\ k \in 1..Len(q) /\ ~(k <= j) /\ 1 \in 1..Len(q) /\ k \in 1..Len(q)
    BY <1>0, <2>2, <2>3
  <2>5. j \notin S
    <3> HIDE DEF S
    <3> QED
      BY <2>1, <2>4
  <2>6. L(p \o r) = L(p) \o L(r)
    BY <2>4, <2>5
  <2>7. r \in Seq(LogBuffers) /\ b \in LogBuffers
    <3>1. \A i \in 1..Len(q) : q[i] \in LogBuffers
      OBVIOUS
    <3>2. \A i \in 1..j : i \in 1..Len(q)
      BY <1>0, <2>4
    <3>3. r \in Seq(LogBuffers)
      BY <2>4, <3>1, <3>2, SubSeqProperties
    <3> QED
      BY <2>4, <3>1, <3>3
  <2>8. Q(k) = Append(r, b)
    <3>1. k \in 1..Len(q) /\ 1 \in 1..Len(q) /\ k \in 1..Len(q)
      BY <2>4
    <3>2. Q(k) = Q(k - 1) \o <<q[k]>>
      BY <3>1, SubSeqRecursiveSecond
    <3> HIDE DEF b, r
    <3>3. Append(r, b) = r \o <<b>>
      BY <2>7, AppendIsConcat
    <3> QED
      BY <3>2, <3>3 DEF b, r
  <2> HIDE DEF r, b
  <2>9. p \o Append(r, b) = Append(p \o r, b)
    <3>1. <<b>> \in Seq(LogBuffers) /\ p \o r \in Seq(LogBuffers)
      BY <2>7, ConcatProperties
    <3>2. p \o (r \o <<b>>) = (p \o r) \o <<b>>
      BY SMTT(30), <2>7, <3>1, ConcatAssociative
    <3>3. Append(r, b) = r \o <<b>> /\ Append(p \o r, b) = (p \o r) \o <<b>>
      BY <2>7, <3>1, AppendIsConcat
    <3> QED
      BY <3>2, <3>3
  <2>10. p \o r \in Seq(LogBuffers) /\ b.lines \in Seq(Nat) /\ L(r) \in Seq(Nat)
    BY <2>7, ConcatProperties, LinesAppend DEF LogBuffers
  <2>11. L(p \o Q(k)) = L(p \o r) \o b.lines /\ L(Q(k)) = L(r) \o b.lines
    BY <2>7, <2>8, <2>9, <2>10, LinesAppend
  <2>12. (L(p) \o L(r)) \o b.lines = L(p) \o (L(r) \o b.lines)
    <3> DEFINE u == L(p)
               v == L(r)
               w == b.lines
    <3> HIDE DEF u, v, w
    <3>1. u \in Seq(Nat) /\ v \in Seq(Nat) /\ w \in Seq(Nat)
      BY <2>2, <2>10 DEF u, v, w
    <3>2. (u \o v) \o w = u \o (v \o w)
      BY SMTT(30), <3>1, ConcatAssociative
    <3> QED
      BY <3>2 DEF u, v, w
  <2> QED
    BY <2>1, <2>6, <2>11, <2>12
<1> QED
  BY <1>1, <1>2

(* What InOrder says of a sequence. *)
Ascending(s) == \A i, j \in DOMAIN s : i < j => s[i] < s[j]

\* The members of two sequences in a row.
LEMMA MembersJoin ==
  ASSUME NEW s \in Seq(Nat), NEW t \in Seq(Nat)
  PROVE  Async!ToSet(s \o t) = Async!ToSet(s) \cup Async!ToSet(t)
<1> DEFINE m == Len(s)
           n == Len(t)
           u == s \o t
<1>1. /\ u \in Seq(Nat) /\ Len(u) = m + n /\ m \in Nat /\ n \in Nat
      /\ \A i \in 1..(m + n) : u[i] = IF i <= m THEN s[i] ELSE t[i - m]
  BY ConcatProperties
<1>2. DOMAIN s = 1..m /\ DOMAIN t = 1..n /\ DOMAIN u = 1..(m + n)
  BY <1>1
<1> HIDE DEF m, n, u
<1>3. ASSUME NEW i \in 1..(m + n)
      PROVE  (\E k \in 1..m : u[i] = s[k]) \/ (\E k \in 1..n : u[i] = t[k])
  <2>1. CASE i <= m
    <3>1. i \in 1..m /\ u[i] = s[i]
      BY <1>1, <2>1
    <3> QED
      BY <3>1
  <2>2. CASE ~(i <= m)
    <3>1. i - m \in 1..n /\ u[i] = t[i - m]
      BY <1>1, <2>2
    <3> QED
      BY <3>1
  <2> QED
    BY <2>1, <2>2
<1>4. ASSUME NEW k \in 1..m PROVE \E i \in 1..(m + n) : u[i] = s[k]
  <2>1. k \in 1..(m + n) /\ k <= m
    BY <1>1
  <2>2. u[k] = s[k]
    BY <1>1, <2>1
  <2> QED
    BY <2>1, <2>2
<1>5. ASSUME NEW k \in 1..n PROVE \E i \in 1..(m + n) : u[i] = t[k]
  <2>1. m + k \in 1..(m + n) /\ ~(m + k <= m) /\ (m + k) - m = k
    BY <1>1
  <2>2. u[m + k] = t[k]
    BY <1>1, <2>1
  <2> QED
    BY <2>1, <2>2
<1>6. /\ Async!ToSet(s) = {s[k] : k \in 1..m} /\ Async!ToSet(t) = {t[k] : k \in 1..n}
      /\ Async!ToSet(u) = {u[i] : i \in 1..(m + n)}
  BY <1>2 DEF Async!ToSet
<1>7. Async!ToSet(u) = Async!ToSet(s) \cup Async!ToSet(t)
  <2> HIDE <1>1
  <2>1. ASSUME NEW x \in Async!ToSet(u) PROVE x \in Async!ToSet(s) \cup Async!ToSet(t)
    BY <1>3, <1>6
  <2>2. ASSUME NEW x \in Async!ToSet(s) PROVE x \in Async!ToSet(u)
    BY <1>4, <1>6
  <2>3. ASSUME NEW x \in Async!ToSet(t) PROVE x \in Async!ToSet(u)
    BY <1>5, <1>6
  <2> QED
    BY <2>1, <2>2, <2>3
<1> QED
  BY <1>7 DEF u

\* A larger number goes behind an ascending sequence.
LEMMA AscendOne ==
  ASSUME NEW s \in Seq(Nat), NEW x \in Nat, Ascending(s), \A y \in Async!ToSet(s) : y < x
  PROVE  s \o <<x>> \in Seq(Nat) /\ Ascending(s \o <<x>>)
<1> DEFINE n == Len(s)
           u == Append(s, x)
<1>1. /\ u \in Seq(Nat) /\ Len(u) = n + 1 /\ n \in Nat
      /\ \A i \in 1..n : u[i] = s[i]
      /\ u[n + 1] = x
  BY AppendProperties
<1>2. u = s \o <<x>>
  BY AppendIsConcat
<1>3. DOMAIN s = 1..n /\ DOMAIN u = 1..(n + 1)
  BY <1>1
<1> HIDE DEF n, u
<1>4. \A i \in 1..n : s[i] < x
  BY <1>3 DEF Async!ToSet
<1>5. ASSUME NEW i \in 1..(n + 1), NEW j \in 1..(n + 1), i < j PROVE u[i] < u[j]
  <2>1. i \in 1..n
    BY <1>1, <1>5
  <2>2. CASE j = n + 1
    BY <1>1, <1>4, <2>1, <2>2
  <2>3. CASE j # n + 1
    <3>1. j \in 1..n
      BY <1>1, <2>3
    <3> QED
      BY <1>1, <1>3, <1>5, <2>1, <3>1 DEF Ascending
  <2> QED
    BY <2>2, <2>3
<1>6. Ascending(u)
  BY <1>3, <1>5 DEF Ascending
<1> QED
  BY <1>1, <1>2, <1>6

\* What is left of an ascending sequence is ascending.
LEMMA AscendLess ==
  ASSUME NEW a \in Seq(Nat), NEW b \in Seq(Nat), NEW c \in Seq(Nat),
         Ascending((a \o b) \o c)
  PROVE  Ascending(a \o c)
<1> DEFINE k == Len(a)
           m == Len(b)
           n == Len(c)
           ab == a \o b
           s == ab \o c
           t == a \o c
           h(i) == IF i <= k THEN i ELSE i + m
<1>1. /\ ab \in Seq(Nat) /\ Len(ab) = k + m /\ k \in Nat /\ m \in Nat /\ n \in Nat
      /\ \A i \in 1..(k + m) : ab[i] = IF i <= k THEN a[i] ELSE b[i - k]
  BY ConcatProperties
<1> HIDE DEF ab
<1>2. /\ s \in Seq(Nat) /\ Len(s) = Len(ab) + n
      /\ \A i \in 1..(Len(ab) + n) : s[i] = IF i <= Len(ab) THEN ab[i] ELSE c[i - Len(ab)]
  <2>1. ab \in Seq(Nat)
    BY <1>1
  <2> QED
    BY <2>1, ConcatProperties
<1>3. /\ t \in Seq(Nat) /\ Len(t) = k + n
      /\ \A i \in 1..(k + n) : t[i] = IF i <= k THEN a[i] ELSE c[i - k]
  BY ConcatProperties
<1>4. Ascending(s)
  BY DEF ab
<1> HIDE DEF k, m, n, s, t
<1>5. DOMAIN s = 1..((k + m) + n) /\ DOMAIN t = 1..(k + n)
  BY <1>1, <1>2, <1>3
<1>6. ASSUME NEW i \in 1..(k + n) PROVE h(i) \in 1..((k + m) + n) /\ t[i] = s[h(i)]
  <2>1. CASE i <= k
    <3>1. i \in 1..(k + m) /\ i \in 1..((k + m) + n) /\ i <= k + m
      BY SMTT(30), <1>1, <2>1
    <3> QED
      BY <1>1, <1>2, <1>3, <2>1, <3>1
  <2>2. CASE ~(i <= k)
    <3>1. i + m \in 1..((k + m) + n) /\ ~(i + m <= k + m) /\ (i + m) - (k + m) = i - k
      BY SMTT(30), <1>1, <2>2
    <3>2. s[i + m] = c[(i + m) - (k + m)]
      BY <1>1, <1>2, <3>1
    <3> QED
      BY <1>3, <2>2, <3>1, <3>2
  <2> QED
    BY <2>1, <2>2
<1>7. ASSUME NEW i \in 1..(k + n), NEW j \in 1..(k + n), i < j PROVE h(i) < h(j)
  BY SMTT(30), <1>1, <1>7
<1> HIDE DEF h
<1>8. ASSUME NEW i \in 1..(k + n), NEW j \in 1..(k + n), i < j PROVE t[i] < t[j]
  BY <1>4, <1>5, <1>6, <1>7, <1>8 DEF Ascending
<1>9. Ascending(t)
  BY <1>5, <1>8 DEF Ascending
<1> QED
  BY <1>9 DEF t

(* The invariant of the lines, in the file and on their way. *)
LinesInv ==
    /\ logging \in BOOLEAN /\ next \in BOOLEAN
    /\ file \in Seq(Nat) /\ Ascending(file \o Async!Held)
    /\ Async!NoLineLost
    /\ thread # "write" => toWrite = <<>>

\* Held, in three parts.
LEMMA HeldIs ==
  ASSUME NEW w \in Seq(LogBuffers), NEW q \in Seq(LogBuffers), NEW b \in LogBuffers
  PROVE  /\ Async!LinesOf(w \o Append(q, b))
              = Async!LinesOf(w) \o (Async!LinesOf(q) \o b.lines)
         /\ Async!LinesOf(w) \in Seq(Nat) /\ Async!LinesOf(q) \in Seq(Nat)
         /\ b.lines \in Seq(Nat)
<1>1. Append(q, b) \in Seq(LogBuffers)
  BY AppendProperties
<1>2. Async!LinesOf(w \o Append(q, b)) = Async!LinesOf(w) \o Async!LinesOf(Append(q, b))
  BY <1>1, LinesJoin
<1> QED
  BY <1>2, LinesAppend DEF LogBuffers

(* One sequence after the other, by a name that stands for itself in a proof. *)
Then(s, t) == s \o t

\* Lines can be put together in any order of steps.
LEMMA Together ==
  \A s, t, u \in Seq(Nat) : Then(Then(s, t), u) = Then(s, Then(t, u))
  BY SMTT(30), ConcatAssociative DEF Then
LEMMA Placed ==
  \A s, t \in Seq(Nat) :
    Then(s, t) \in Seq(Nat)
    /\ Async!ToSet(Then(s, t)) = Async!ToSet(s) \cup Async!ToSet(t)
  BY ConcatProperties, MembersJoin DEF Then

LEMMA LinesStart == AsyncSizes /\ Async!AsyncInit => LinesInv
<1> SUFFICES ASSUME AsyncSizes, Async!AsyncInit PROVE LinesInv
  OBVIOUS
<1>1. /\ file = <<>> /\ toWrite = <<>> /\ buffers = <<>> /\ current = Async!Empty
      /\ appendedLines = 0 /\ dropped = {} /\ refused = {}
  BY DEF Async!AsyncInit
<1>2. <<>> \in Seq(LogBuffers) /\ Async!Empty \in LogBuffers /\ Async!Empty.lines = <<>>
  <2>1. <<>> \in Seq(Nat) /\ <<>> \in Seq(LogBuffers) /\ 0 \in {n \in Nat : n < BufferSize}
    BY EmptySeq DEF AsyncSizes
  <2> QED
    BY <2>1 DEF Async!Empty, LogBuffers
<1>3. Async!Held = <<>>
  <2>1. Async!Held = Async!LinesOf(<<>>) \o (Async!LinesOf(<<>>) \o <<>>)
    BY <1>1, <1>2, HeldIs DEF Async!Held
  <2> QED
    BY <2>1, LinesAppend
<1>4. Ascending(file \o Async!Held) /\ file \in Seq(Nat)
  <2>1. file \o Async!Held = <<>>
    BY <1>1, <1>3
  <2>2. Ascending(<<>>)
    BY DEF Ascending
  <2> QED
    BY <1>1, <2>1, <2>2, EmptySeq
<1>5. Async!NoLineLost
  <2>1. Async!ToSet(<<>>) = {} /\ 1..0 = {}
    BY DEF Async!ToSet
  <2> QED
    BY <1>1, <1>3, <2>1 DEF Async!NoLineLost, Async!OnTheirWay
<1>6. logging \in BOOLEAN /\ next \in BOOLEAN
  BY Zenon DEF Async!AsyncInit
<1> QED
  BY <1>1, <1>4, <1>5, <1>6, Zenon DEF LinesInv

\* append(): the new line goes behind all others, or is refused.
LEMMA LineAppended ==
  ASSUME AsyncSizes, BuffersFit, LinesInv, NEW len \in LineLens, Async!append(len)
  PROVE  LinesInv'
<1> DEFINE line == appendedLines + 1
           W == Async!LinesOf(toWrite)
           B == Async!LinesOf(buffers)
           L == current.lines
           held == Async!Held
           new == IF Async!FitsIn(len, Async!Empty) THEN <<line>> ELSE <<>>
<1>1. /\ current \in LogBuffers /\ buffers \in Seq(LogBuffers) /\ toWrite \in Seq(LogBuffers)
      /\ appendedLines \in Nat /\ line \in Nat /\ len \in Nat /\ appendedLines' = line
      /\ current.lines \in Seq(Nat) /\ current.used \in Nat
  <2>1. current.lines \in Seq(Nat) /\ current.used \in Nat
    BY DEF BuffersFit, LogBuffers
  <2>2. appendedLines \in Nat /\ len \in Nat /\ appendedLines' = line
    BY DEF BuffersFit, AsyncSizes, Async!append
  <2> QED
    BY <2>1, <2>2 DEF BuffersFit
<1>2. Async!Empty \in LogBuffers /\ Async!Empty.lines = <<>> /\ Async!Empty.used = 0
  <2>1. <<>> \in Seq(Nat) /\ 0 \in {n \in Nat : n < BufferSize}
    BY EmptySeq DEF AsyncSizes
  <2> QED
    BY <2>1 DEF Async!Empty, LogBuffers
<1>3. /\ held = W \o (B \o L) /\ W \in Seq(Nat) /\ B \in Seq(Nat) /\ L \in Seq(Nat)
  BY <1>1, HeldIs DEF Async!Held
<1>4. /\ UNCHANGED <<logging, toWrite, thread, file, dropped>>
      /\ refused' = IF Async!FitsIn(len, Async!Empty) THEN refused ELSE refused \cup {line}
      /\ next' \in BOOLEAN /\ logging \in BOOLEAN
  BY Zenon DEF Async!append, Async!own, LinesInv
<1>5. new \in Seq(Nat) /\ <<line>> \in Seq(Nat) /\ <<>> \in Seq(Nat)
  BY <1>1, EmptySeq
<1> HIDE DEF W, B, L, held, new, line
<1>6. Async!Held' = held \o new
  <2>1. CASE Async!FitsIn(len, current)
    <3>1. current' = Async!Put(line, len, current) /\ buffers' = buffers
      BY <2>1, Zenon DEF Async!append, line
    <3>2. current'.lines = Append(L, line)
      BY <2>1, <3>1 DEF Async!Put, L
    <3>3. current' \in LogBuffers
      BY <1>1, <3>1, PutFits
    <3>4. Append(L, line) = L \o <<line>>
      BY <1>1, <1>3, AppendIsConcat
    <3>5. Async!Held' = W \o (B \o (L \o <<line>>))
      <4>1. Async!Held' = Async!LinesOf(toWrite \o Append(buffers, current'))
        BY <1>4, <3>1 DEF Async!Held
      <4> QED
        BY <1>1, <3>2, <3>3, <3>4, <4>1, HeldIs DEF W, B
    <3>6. new = <<line>>
      <4>1. Async!FitsIn(len, Async!Empty)
        BY <1>1, <1>2, <2>1 DEF Async!FitsIn, AsyncSizes
      <4> QED
        BY <4>1 DEF new
    <3>7. W \o (B \o (L \o <<line>>)) = (W \o (B \o L)) \o <<line>>
      <4> DEFINE one == <<line>>
      <4> HIDE DEF one
      <4>1. one \in Seq(Nat)
        BY <1>5 DEF one
      <4>2. Then(W, Then(B, Then(L, one))) = Then(Then(W, Then(B, L)), one)
        BY <1>3, <4>1, Together, Placed
      <4> QED
        BY <4>2 DEF Then, one
    <3> QED
      BY <1>3, <3>5, <3>6, <3>7
  <2>2. CASE ~Async!FitsIn(len, current)
    <3>1. /\ buffers' = Append(buffers, current)
          /\ current' = Async!Put(line, len, Async!Empty)
      BY <2>2, Zenon DEF Async!append, line
    <3>2. current'.lines = new
      <4>1. Append(<<>>, line) = <<line>>
        OBVIOUS
      <4> QED
        BY <1>2, <3>1, <4>1 DEF Async!Put, new
    <3>3. current' \in LogBuffers /\ buffers' \in Seq(LogBuffers)
      BY <1>1, <1>2, <3>1, PutFits, AppendProperties
    <3>4. Async!LinesOf(buffers') = B \o L
      BY <1>1, <3>1, LinesAppend DEF B, L
    <3>5. Async!Held' = W \o ((B \o L) \o new)
      <4>1. Async!Held' = Async!LinesOf(toWrite \o Append(buffers', current'))
        BY <1>4 DEF Async!Held
      <4> QED
        BY ZenonT(40), <1>1, <3>2, <3>3, <3>4, <4>1, HeldIs DEF W
    <3>6. W \o ((B \o L) \o new) = (W \o (B \o L)) \o new
      <4>1. Then(W, Then(Then(B, L), new)) = Then(Then(W, Then(B, L)), new)
        BY <1>3, <1>5, Together, Placed
      <4> QED
        BY <4>1 DEF Then
    <3> QED
      BY <1>3, <3>5, <3>6
  <2> QED
    BY <2>1, <2>2
<1>7. held \in Seq(Nat) /\ file \in Seq(Nat) /\ file \o held \in Seq(Nat)
  <2>1. held \in Seq(Nat)
    <3>1. B \o L \in Seq(Nat)
      BY <1>3, ConcatProperties
    <3> QED
      BY <1>3, <3>1, ConcatProperties
  <2>2. file \in Seq(Nat)
    BY DEF LinesInv
  <2> QED
    BY <2>1, <2>2, ConcatProperties
<1>8. /\ Ascending(file \o held)
      /\ 1..appendedLines = Async!ToSet(file) \cup Async!ToSet(held) \cup dropped \cup refused
  BY DEF LinesInv, Async!NoLineLost, Async!OnTheirWay, held
<1>9. (file \o held) \o new = file \o (held \o new)
  <2>1. Then(Then(file, held), new) = Then(file, Then(held, new))
    BY <1>5, <1>7, Together
  <2> QED
    BY <2>1 DEF Then
<1>10. 1..line = 1..appendedLines \cup {line}
  BY <1>1 DEF line
<1>11. /\ Ascending(file \o Async!Held')
       /\ 1..line = Async!ToSet(file) \cup Async!ToSet(Async!Held') \cup dropped \cup refused'
  <2>1. CASE Async!FitsIn(len, Async!Empty)
    <3>1. new = <<line>> /\ refused' = refused
      BY <1>4, <2>1 DEF new
    <3>2. \A y \in Async!ToSet(file \o held) : y < line
      <4>1. Async!ToSet(file \o held) \subseteq 1..appendedLines
        BY <1>7, <1>8, MembersJoin
      <4>2. \A y \in 1..appendedLines : y < line
        BY <1>1 DEF line
      <4> QED
        BY <4>1, <4>2
    <3>3. Ascending((file \o held) \o <<line>>)
      BY <1>1, <1>7, <1>8, <3>2, AscendOne
    <3>4. Async!ToSet(held \o <<line>>) = Async!ToSet(held) \cup {line}
      <4>1. Async!ToSet(<<line>>) = {line}
        BY DEF Async!ToSet
      <4> QED
        BY ZenonT(40), <1>5, <1>7, <4>1, MembersJoin
    <3> QED
      BY <1>6, <1>8, <1>9, <1>10, <3>1, <3>3, <3>4
  <2>2. CASE ~Async!FitsIn(len, Async!Empty)
    <3>1. new = <<>> /\ refused' = refused \cup {line}
      BY <1>4, <2>2 DEF new
    <3>2. Async!Held' = held
      BY <1>6, <1>7, <3>1, ConcatEmptySeq
    <3> QED
      BY <1>8, <1>10, <3>1, <3>2
  <2> QED
    BY <2>1, <2>2
<1>12. Async!NoLineLost'
  BY <1>1, <1>4, <1>11 DEF Async!NoLineLost, Async!OnTheirWay
<1>13. Ascending(file \o Async!Held)'
  BY <1>4, <1>11
<1>14. (thread # "write" => toWrite = <<>>)'
  BY <1>4 DEF LinesInv
<1>15. (logging \in BOOLEAN)' /\ (next \in BOOLEAN)' /\ (file \in Seq(Nat))'
  BY <1>4, <1>7, Zenon
<1> QED
  BY <1>12, <1>13, <1>14, <1>15, Zenon DEF LinesInv

\* The swap: the lines that wait become the lines to write.
LEMMA LinesSwapped ==
  ASSUME AsyncSizes, BuffersFit, LinesInv, Async!Swap
  PROVE  LinesInv'
<1>1. /\ current \in LogBuffers /\ buffers \in Seq(LogBuffers) /\ thread # "write"
      /\ toWrite = <<>>
  <2>1. thread # "write"
    BY DEF Async!Swap, Async!CanSwap
  <2> QED
    BY <2>1 DEF BuffersFit, LinesInv
<1>2. /\ thread' = "write" /\ toWrite' = Append(buffers, current) /\ buffers' = <<>>
      /\ current' = Async!Empty
      /\ UNCHANGED <<logging, file, dropped, refused, appendedLines>>
  BY Zenon DEF Async!Swap, Async!Batch
<1>3. next' \in BOOLEAN /\ logging \in BOOLEAN
  BY Zenon DEF Async!Swap, LinesInv
<1>4. /\ Async!Empty \in LogBuffers /\ Async!Empty.lines = <<>> /\ <<>> \in Seq(LogBuffers)
      /\ <<>> \in Seq(Nat)
  <2>1. <<>> \in Seq(Nat) /\ <<>> \in Seq(LogBuffers) /\ 0 \in {n \in Nat : n < BufferSize}
    BY EmptySeq DEF AsyncSizes
  <2> QED
    BY <2>1 DEF Async!Empty, LogBuffers
<1> DEFINE b == Append(buffers, current)
<1>5. b \in Seq(LogBuffers) /\ <<>> \o b = b
  <2>1. b \in Seq(LogBuffers)
    BY <1>1, AppendProperties
  <2> HIDE DEF b
  <2> QED
    BY <2>1, ConcatEmptySeq
<1>6. Async!Held' = Async!Held
  <2>1. Async!Held = Async!LinesOf(b)
    BY <1>1, <1>5 DEF Async!Held
  <2> HIDE DEF b
  <2>2. Async!Held' = Async!LinesOf(b \o Append(<<>>, Async!Empty))
    BY <1>2 DEF Async!Held, b
  <2>3. Async!Held' = Async!LinesOf(b) \o (<<>> \o <<>>) /\ Async!LinesOf(b) \in Seq(Nat)
    BY <1>4, <1>5, <2>2, HeldIs, LinesAppend
  <2> QED
    BY <1>4, <2>1, <2>3, ConcatEmptySeq
<1>7. Ascending(file \o Async!Held)' /\ Async!NoLineLost' /\ file \in Seq(Nat)
  BY <1>2, <1>6 DEF LinesInv, Async!NoLineLost, Async!OnTheirWay
<1>8. (thread # "write" => toWrite = <<>>)'
  BY <1>2
<1>9. (logging \in BOOLEAN)' /\ (next \in BOOLEAN)' /\ (file \in Seq(Nat))'
  BY <1>2, <1>3, <1>7, Zenon
<1> QED
  BY <1>7, <1>8, <1>9, Zenon DEF LinesInv

\* What is written of a batch, and the rest, which is dropped, are the batch.
LEMMA WrittenIs ==
  ASSUME AsyncSizes, NEW q \in Seq(LogBuffers)
  PROVE  \E d \in Seq(Nat) :
           /\ Async!LinesOf(q) = Async!LinesOf(Async!Written(q)) \o d
           /\ Async!LinesOf(Async!Written(q)) \in Seq(Nat)
           /\ Async!LinesOf(q) \in Seq(Nat)
           /\ ~(Len(q) > KeepLimit) => d = <<>>
<1>0. Async!LinesOf(q) \in Seq(Nat) /\ <<>> \in Seq(Nat)
  BY LinesAppend, EmptySeq
<1>1. CASE ~(Len(q) > KeepLimit)
  <2>1. Async!Written(q) = q
    BY <1>1 DEF Async!Written
  <2>2. Async!LinesOf(q) \o <<>> = Async!LinesOf(q)
    BY <1>0, ConcatEmptySeq
  <2> QED
    BY <1>0, <2>1, <2>2
<1>2. CASE Len(q) > KeepLimit
  <2> DEFINE u == SubSeq(q, 1, 2)
             v == SubSeq(q, 3, Len(q))
  <2>1. Async!Written(q) = u
    BY <1>2 DEF Async!Written
  <2>2. Len(q) \in Nat /\ Len(q) >= 2 /\ \A i \in 1..Len(q) : q[i] \in LogBuffers
    BY <1>2 DEF AsyncSizes
  <2>3. u \in Seq(LogBuffers)
    BY <2>2, SubSeqProperties
  <2>4. v \in Seq(LogBuffers)
    BY <2>2, SubSeqProperties
  <2>5. u \o v = q
    <3>1. 1 \in 1..(Len(q) + 1) /\ 2 \in (1 - 1)..Len(q) /\ Len(q) \in 2..Len(q)
      BY <2>2
    <3>2. SubSeq(q, 1, 2) \o SubSeq(q, 2 + 1, Len(q)) = SubSeq(q, 1, Len(q))
      BY <3>1, ConcatAdjacentSubSeq
    <3> QED
      BY SMTT(30), <3>2, SubSeqFull
  <2> HIDE DEF u, v
  <2>6. Async!LinesOf(u) \in Seq(Nat) /\ Async!LinesOf(v) \in Seq(Nat)
    BY <2>3, <2>4, LinesAppend
  <2>7. Async!LinesOf(q) = Async!LinesOf(u) \o Async!LinesOf(v)
    BY <2>3, <2>4, <2>5, LinesJoin
  <2> QED
    BY <1>0, <1>2, <2>1, <2>6, <2>7
<1> QED
  BY <1>1, <1>2

\* The writing: what is written goes behind the file, what is dropped goes with a notice.
LEMMA LinesWrittenOut ==
  ASSUME AsyncSizes, BuffersFit, LinesInv, Async!WriteOut
  PROVE  LinesInv'
<1> DEFINE W == Async!LinesOf(toWrite)
           w == Async!LinesOf(Async!Written(toWrite))
           R == Async!LinesOf(buffers) \o current.lines
<1>1. /\ current \in LogBuffers /\ buffers \in Seq(LogBuffers) /\ toWrite \in Seq(LogBuffers)
  BY DEF BuffersFit
<1>2. /\ toWrite' = <<>> /\ file' = file \o w /\ thread' = "test"
      /\ dropped' = IF Len(toWrite) > KeepLimit
                    THEN dropped \cup (Async!ToSet(W) \ Async!ToSet(w)) ELSE dropped
      /\ UNCHANGED <<logging, current, next, buffers, appendedLines, refused>>
  BY Zenon DEF Async!WriteOut, Async!shared
<1>3. /\ Async!Held = W \o R /\ W \in Seq(Nat) /\ R \in Seq(Nat)
  <2>1. /\ Async!Held = W \o R /\ W \in Seq(Nat)
        /\ Async!LinesOf(buffers) \in Seq(Nat) /\ current.lines \in Seq(Nat)
    BY <1>1, HeldIs DEF Async!Held
  <2> QED
    BY <2>1, Placed DEF Then
<1>4. Async!Held' = R
  <2>1. Async!Held' = Async!LinesOf(<<>> \o Append(buffers, current))
    BY <1>2 DEF Async!Held
  <2>2. <<>> \in Seq(LogBuffers)
    BY EmptySeq
  <2>3. Async!Held' = <<>> \o R
    BY ZenonT(40), <1>1, <2>1, <2>2, HeldIs, LinesAppend
  <2> QED
    BY <1>3, <2>3, ConcatEmptySeq
<1>5. PICK d \in Seq(Nat) :
        /\ W = w \o d /\ w \in Seq(Nat)
        /\ ~(Len(toWrite) > KeepLimit) => d = <<>>
  BY <1>1, WrittenIs
<1> HIDE DEF W, w, R
<1>6. /\ file \in Seq(Nat) /\ Ascending(file \o (W \o R))
      /\ 1..appendedLines = Async!ToSet(file) \cup Async!ToSet(W \o R) \cup dropped \cup refused
  BY <1>3 DEF LinesInv, Async!NoLineLost, Async!OnTheirWay
<1>s. file \in Seq(Nat) /\ w \in Seq(Nat) /\ d \in Seq(Nat) /\ R \in Seq(Nat) /\ W \in Seq(Nat)
  BY <1>3, <1>5, <1>6
<1>w. W = w \o d
  BY <1>5
<1>7. file \o w \in Seq(Nat) /\ d \in Seq(Nat) /\ (file \o w) \o R \in Seq(Nat)
  <2>1. Then(file, w) \in Seq(Nat) /\ Then(Then(file, w), R) \in Seq(Nat)
    BY <1>s, Placed
  <2> QED
    BY <1>s, <2>1 DEF Then
<1>8. file \o (W \o R) = ((file \o w) \o d) \o R
  <2>1. Then(file, Then(Then(w, d), R)) = Then(Then(Then(file, w), d), R)
    BY <1>s, Together, Placed
  <2> QED
    BY <1>w, <2>1, Zenon DEF Then
<1>9. Ascending((file \o w) \o R)
  BY <1>3, <1>6, <1>7, <1>8, AscendLess
<1>10. Ascending(file \o Async!Held)' /\ (file \in Seq(Nat))'
  BY <1>2, <1>4, <1>7, <1>9
<1>11. /\ Async!ToSet(W \o R) = Async!ToSet(W) \cup Async!ToSet(R)
       /\ Async!ToSet(W) = Async!ToSet(w) \cup Async!ToSet(d)
       /\ Async!ToSet(file \o w) = Async!ToSet(file) \cup Async!ToSet(w)
       /\ Async!ToSet(<<>>) = {}
  <2>1. Async!ToSet(<<>>) = {}
    BY DEF Async!ToSet
  <2>2. /\ Async!ToSet(Then(W, R)) = Async!ToSet(W) \cup Async!ToSet(R)
        /\ Async!ToSet(Then(w, d)) = Async!ToSet(w) \cup Async!ToSet(d)
        /\ Async!ToSet(Then(file, w)) = Async!ToSet(file) \cup Async!ToSet(w)
    BY <1>s, Placed
  <2> QED
    BY <1>w, <2>1, <2>2, Zenon DEF Then
<1>12. Async!NoLineLost'
  <2>1. 1..appendedLines = Async!ToSet(file \o w) \cup Async!ToSet(R) \cup dropped' \cup refused
    <3> DEFINE F == Async!ToSet(file)
               TW == Async!ToSet(W)
               Tw == Async!ToSet(w)
               TR == Async!ToSet(R)
               Td == Async!ToSet(d)
               N == 1..appendedLines
    <3>1. N = F \cup (TW \cup TR) \cup dropped \cup refused /\ TW = Tw \cup Td
      BY <1>6, <1>11
    <3>2. CASE Len(toWrite) > KeepLimit
      <4>1. dropped' = dropped \cup (TW \ Tw)
        BY <1>2, <3>2
      <4> HIDE DEF F, TW, Tw, TR, Td, N
      <4>2. N = (F \cup Tw) \cup TR \cup dropped' \cup refused
        BY <3>1, <4>1
      <4>3. F \cup Tw = Async!ToSet(file \o w)
        BY <1>11 DEF F, Tw
      <4> QED
        BY <4>2, <4>3, Zenon DEF TR, N
    <3>3. CASE ~(Len(toWrite) > KeepLimit)
      <4>1. dropped' = dropped /\ Td = {}
        BY <1>2, <1>5, <1>11, <3>3
      <4> HIDE DEF F, TW, Tw, TR, Td, N
      <4>2. N = (F \cup Tw) \cup TR \cup dropped' \cup refused
        BY <3>1, <4>1
      <4>3. F \cup Tw = Async!ToSet(file \o w)
        BY <1>11 DEF F, Tw
      <4> QED
        BY <4>2, <4>3, Zenon DEF TR, N
    <3> QED
      BY <3>2, <3>3
  <2> QED
    BY <1>2, <1>4, <2>1 DEF Async!NoLineLost, Async!OnTheirWay
<1>13. (thread # "write" => toWrite = <<>>)'
  BY <1>2
<1>14. (logging \in BOOLEAN)' /\ (next \in BOOLEAN)'
  BY <1>2, Zenon DEF LinesInv
<1> QED
  BY <1>10, <1>12, <1>13, <1>14, Zenon DEF LinesInv

\* The other steps leave the lines where they are.
LEMMA LinesStay ==
  ASSUME LinesInv, InStep,
         \/ Async!start \/ Async!started \/ Async!stop \/ Async!joined
         \/ Async!Begin \/ Async!TestRunning \/ Async!WaitForSeconds
         \/ UNCHANGED Async!asyncVars
  PROVE  LinesInv'
<1>1. UNCHANGED <<current, buffers, toWrite, file, appendedLines, dropped, refused, next>>
  BY Zenon DEF Async!start, Async!started, Async!stop, Async!joined, Async!Begin,
     Async!TestRunning, Async!WaitForSeconds, Async!asyncVars, Async!shared, Async!own
<1>2. logging' = logging \/ logging' = TRUE \/ logging' = FALSE
  BY Zenon DEF Async!start, Async!started, Async!stop, Async!joined, Async!Begin,
     Async!TestRunning, Async!WaitForSeconds, Async!asyncVars, Async!shared, Async!own
<1>3. thread' # "write" => thread # "write"
  BY DEF InStep, Async!start, Async!started, Async!stop, Async!joined, Async!Begin,
     Async!TestRunning, Async!WaitForSeconds, Async!asyncVars, Async!shared, Async!own
<1>4. Async!Held' = Async!Held
  BY <1>1 DEF Async!Held
<1>5. Ascending(file \o Async!Held)' /\ Async!NoLineLost' /\ (file \in Seq(Nat))'
  BY <1>1, <1>4 DEF LinesInv, Async!NoLineLost, Async!OnTheirWay
<1>6. (logging \in BOOLEAN)' /\ (next \in BOOLEAN)'
  BY <1>1, <1>2, Zenon DEF LinesInv
<1>7. (thread # "write" => toWrite = <<>>)'
  BY <1>1, <1>3 DEF LinesInv
<1> QED
  BY <1>5, <1>6, <1>7, Zenon DEF LinesInv

\* AsyncLogging.cc: whatever the users append, whenever the thread swaps, writes or drops,
\* and for any size of the buffers, the lines and the backlog: the file and the buffers
\* after it hold the lines in the order of append(), none of them twice, and a line is
\* lost only with a notice, or because no buffer could ever hold it.
THEOREM LinesKept ==
  ASSUME AsyncSizes
  PROVE  Async!AsyncSpec => [](Async!AsyncTypeOK /\ Async!InOrder /\ Async!NoLineLost)
<1>1. Async!AsyncInit => AsyncInv /\ LinesInv
  BY AsyncStarts, LinesStart
<1>2. AsyncInv /\ LinesInv /\ [Async!AsyncNext]_(Async!asyncVars) => AsyncInv' /\ LinesInv'
  <2> SUFFICES ASSUME AsyncInv, LinesInv, [Async!AsyncNext]_(Async!asyncVars)
               PROVE  AsyncInv' /\ LinesInv'
    OBVIOUS
  <2>0. BuffersFit /\ InStep
    BY DEF AsyncInv
  <2>1. AsyncInv'
    BY AsyncStep
  <2>2. CASE \E len \in LineLens : Async!append(len)
    BY <2>0, <2>1, <2>2, LineAppended
  <2>3. CASE Async!Swap
    BY <2>0, <2>1, <2>3, LinesSwapped
  <2>4. CASE Async!WriteOut
    BY <2>0, <2>1, <2>4, LinesWrittenOut
  <2> QED
    BY <2>0, <2>1, <2>2, <2>3, <2>4, LinesStay, Zenon DEF Async!AsyncNext, Async!threadFunc
<1>3. AsyncInv /\ LinesInv => Async!AsyncTypeOK /\ Async!InOrder /\ Async!NoLineLost
  <2> SUFFICES ASSUME AsyncInv, LinesInv
               PROVE  Async!AsyncTypeOK /\ Async!InOrder /\ Async!NoLineLost
    OBVIOUS
  <2>1. Async!InOrder
    BY DEF LinesInv, Ascending, Async!InOrder
  <2>2. Async!NoLineLost
    BY DEF LinesInv
  <2>3. dropped \cup refused \cup Async!ToSet(file) \subseteq 1..appendedLines
    BY <2>2 DEF Async!NoLineLost
  <2>4. \A b \in {current} \cup Async!ToSet(buffers) \cup Async!ToSet(toWrite) :
           b.used < BufferSize
    <3>1. \A b \in LogBuffers : b.used < BufferSize
      BY DEF LogBuffers
    <3>2. current \in LogBuffers /\ buffers \in Seq(LogBuffers) /\ toWrite \in Seq(LogBuffers)
      BY DEF AsyncInv, BuffersFit
    <3>3. Async!ToSet(buffers) \subseteq LogBuffers /\ Async!ToSet(toWrite) \subseteq LogBuffers
      BY <3>2 DEF Async!ToSet
    <3> QED
      BY <3>1, <3>2, <3>3
  <2>5. /\ latch \in {0, 1}
        /\ thread \in {"none", "begin", "test", "lock", "wait", "write", "done"}
        /\ user \in {"new", "starting", "up", "joining", "stopped"}
    BY DEF AsyncInv, InStep
  <2>6. logging \in BOOLEAN /\ next \in BOOLEAN
    BY Zenon DEF LinesInv
  <2> QED
    BY <2>1, <2>2, <2>3, <2>4, <2>5, <2>6, Zenon DEF Async!AsyncTypeOK
<1> QED
  BY <1>1, <1>2, <1>3, PTL DEF Async!AsyncSpec

-----------------------------------------------------------------------------
(* Calendar, as the instance Dates: the days of Date.cc, in every year. *)

Day(c) == Dates!getJulianDayNumber(c.year, c.month, c.day)
OnCalendar(c) ==
    /\ c \in [year : Nat, month : 1..12, day : 1..31]
    /\ c.year >= 1900 /\ c.day <= Dates!MonthLength(c.year, c.month)

\* The days before a year that begins in March, and before a month of it.
LeapDays(z) == z \div 4 - z \div 100 + z \div 400
YearNumber(z) == z * 365 + LeapDays(z) - 32045
MonthNumber(k) == (153 * k + 2) \div 5

LEMMA YearsTyped ==
  ASSUME NEW y \in Nat
  PROVE  /\ YearNumber(y + 4799) \in Int /\ YearNumber(y + 4800) \in Int
         /\ LeapDays(y + 4799) \in Int /\ LeapDays(y + 4800) \in Int
BY DEF LeapDays, YearNumber

\* The months from March on have the lengths of the calendar.
LEMMA MonthStep ==
  /\ \A k \in 0..11 : MonthNumber(k) \in Nat
  /\ \A k \in {0, 2, 4, 5, 7, 9, 10} : MonthNumber(k + 1) - MonthNumber(k) = 31
  /\ \A k \in {1, 3, 6, 8} : MonthNumber(k + 1) - MonthNumber(k) = 30
  /\ MonthNumber(0) = 0 /\ MonthNumber(11) = 337
BY DEF MonthNumber

\* A leap year counts one day more.
LEMMA LeapStep ==
  ASSUME NEW y \in Nat
  PROVE  LeapDays(y + 4800) - LeapDays(y + 4799) = IF Dates!Leap(y) THEN 1 ELSE 0
<1> DEFINE z == y + 4800
<1>1. ASSUME NEW k \in {4, 100, 400}
      PROVE  z \div k - (z - 1) \div k = IF y % k = 0 THEN 1 ELSE 0
  <2>1. CASE k = 4
    BY <2>1
  <2>2. CASE k = 100
    BY <2>2
  <2>3. CASE k = 400
    BY <2>3
  <2> QED
    BY <1>1, <2>1, <2>2, <2>3
<1>2. /\ y % 100 = 0 => y % 4 = 0
      /\ y % 400 = 0 => y % 100 = 0
  OBVIOUS
<1>3. /\ z \div 4 \in Int /\ z \div 100 \in Int /\ z \div 400 \in Int
      /\ (z - 1) \div 4 \in Int /\ (z - 1) \div 100 \in Int /\ (z - 1) \div 400 \in Int
      /\ z - 1 = y + 4799
  OBVIOUS
<1>4. /\ z \div 4 - (z - 1) \div 4 = IF y % 4 = 0 THEN 1 ELSE 0
      /\ z \div 100 - (z - 1) \div 100 = IF y % 100 = 0 THEN 1 ELSE 0
      /\ z \div 400 - (z - 1) \div 400 = IF y % 400 = 0 THEN 1 ELSE 0
  BY <1>1
<1>5. CASE y % 4 = 0 /\ y % 100 = 0 /\ y % 400 = 0
  BY <1>3, <1>4, <1>5 DEF LeapDays, Dates!Leap
<1>6. CASE y % 4 = 0 /\ y % 100 = 0 /\ y % 400 # 0
  BY <1>3, <1>4, <1>6 DEF LeapDays, Dates!Leap
<1>7. CASE y % 4 = 0 /\ y % 100 # 0 /\ y % 400 # 0
  BY <1>3, <1>4, <1>7 DEF LeapDays, Dates!Leap
<1>8. CASE y % 4 # 0 /\ y % 100 # 0 /\ y % 400 # 0
  BY <1>3, <1>4, <1>8 DEF LeapDays, Dates!Leap
<1> QED
  BY <1>2, <1>5, <1>6, <1>7, <1>8

\* The year of Date.cc begins in March, so the last of its days is the leap day.
LEMMA DayNumber ==
  ASSUME NEW y \in Nat, NEW m \in 1..12, NEW d \in Int
  PROVE  LET n == Day([year |-> y, month |-> m, day |-> d]) IN
         /\ n \in Int
         /\ m \in {1, 2} => n = d + MonthNumber(m + 9) + YearNumber(y + 4799)
         /\ m \in 3..12 => n = d + MonthNumber(m - 3) + YearNumber(y + 4800)
<1> DEFINE n == Dates!getJulianDayNumber(y, m, d)
<1>1. Day([year |-> y, month |-> m, day |-> d]) = n
  BY DEF Day
<1>2. CASE m \in {1, 2}
  <2>1. Dates!Cycle(m) = 1 /\ y + 4800 - 1 = y + 4799 /\ m + 12 * 1 - 3 = m + 9
    BY <1>2 DEF Dates!Cycle
  <2> QED
    BY <1>1, <1>2, <2>1 DEF Dates!getJulianDayNumber, LeapDays, YearNumber, MonthNumber
<1>3. CASE m \in 3..12
  <2>1. Dates!Cycle(m) = 0 /\ y + 4800 - 0 = y + 4800 /\ m + 12 * 0 - 3 = m - 3
    BY <1>3 DEF Dates!Cycle
  <2> QED
    BY <1>1, <1>3, <2>1 DEF Dates!getJulianDayNumber, LeapDays, YearNumber, MonthNumber
<1> QED
  BY <1>2, <1>3

\* The leaf after a day is a day.
LEMMA NextIsDay ==
  ASSUME NEW c, OnCalendar(c)
  PROVE  LET y == c.year  m == c.month  d == c.day IN
         /\ OnCalendar(Dates!NextDay(c))
         /\ d < Dates!MonthLength(y, m) =>
               Dates!NextDay(c) = [year |-> y, month |-> m, day |-> d + 1]
         /\ d = Dates!MonthLength(y, m) /\ m < 12 =>
               Dates!NextDay(c) = [year |-> y, month |-> m + 1, day |-> 1]
         /\ d = Dates!MonthLength(y, m) /\ m = 12 =>
               Dates!NextDay(c) = [year |-> y + 1, month |-> 1, day |-> 1]
<1> DEFINE y == c.year
           m == c.month
           d == c.day
<1>1. /\ y \in Nat /\ y >= 1900 /\ m \in 1..12 /\ d \in 1..31
      /\ d <= Dates!MonthLength(y, m)
      /\ [c EXCEPT !.day = @ + 1] = [year |-> y, month |-> m, day |-> d + 1]
  BY DEF OnCalendar
<1>2. \A z \in Nat, k \in 1..12 : Dates!MonthLength(z, k) \in 28..31
  BY DEF Dates!MonthLength
<1>3. CASE d < Dates!MonthLength(y, m)
  <2>1. Dates!NextDay(c) = [year |-> y, month |-> m, day |-> d + 1]
    BY <1>1, <1>3 DEF Dates!NextDay
  <2>2. d + 1 \in 1..31 /\ d + 1 <= Dates!MonthLength(y, m)
    BY <1>1, <1>2, <1>3
  <2> QED
    BY <1>1, <1>2, <1>3, <2>1, <2>2 DEF OnCalendar
<1>4. CASE d = Dates!MonthLength(y, m) /\ m < 12
  <2>1. Dates!NextDay(c) = [year |-> y, month |-> m + 1, day |-> 1]
    BY <1>1, <1>4 DEF Dates!NextDay
  <2>2. m + 1 \in 1..12 /\ 1 <= Dates!MonthLength(y, m + 1)
    BY <1>1, <1>2, <1>4
  <2> QED
    BY <1>1, <1>2, <1>4, <2>1, <2>2 DEF OnCalendar
<1>5. CASE d = Dates!MonthLength(y, m) /\ m = 12
  <2>1. Dates!NextDay(c) = [year |-> y + 1, month |-> 1, day |-> 1]
    BY <1>1, <1>5 DEF Dates!NextDay
  <2>2. y + 1 \in Nat /\ y + 1 >= 1900 /\ 1 <= Dates!MonthLength(y + 1, 1)
    BY <1>1, <1>2
  <2> QED
    BY <1>1, <1>2, <1>5, <2>1, <2>2 DEF OnCalendar
<1> QED
  BY <1>1, <1>2, <1>3, <1>4, <1>5

\* A leaf of the calendar adds one to the number, over the end of each month too.
LEMMA NextNumber ==
  ASSUME NEW c, OnCalendar(c)
  PROVE  OnCalendar(Dates!NextDay(c)) /\ Day(Dates!NextDay(c)) = Day(c) + 1
<1> DEFINE y == c.year
           m == c.month
           d == c.day
<1>0. /\ y \in Nat /\ y >= 1900 /\ m \in 1..12 /\ d \in 1..31
      /\ d <= Dates!MonthLength(y, m)
      /\ c = [year |-> y, month |-> m, day |-> d]
  BY DEF OnCalendar
<1>1. /\ OnCalendar(Dates!NextDay(c))
      /\ d < Dates!MonthLength(y, m) =>
            Dates!NextDay(c) = [year |-> y, month |-> m, day |-> d + 1]
      /\ d = Dates!MonthLength(y, m) /\ m < 12 =>
            Dates!NextDay(c) = [year |-> y, month |-> m + 1, day |-> 1]
      /\ d = Dates!MonthLength(y, m) /\ m = 12 =>
            Dates!NextDay(c) = [year |-> y + 1, month |-> 1, day |-> 1]
  BY NextIsDay
<1> HIDE DEF y, m, d
<1>2. /\ YearNumber(y + 4799) \in Int /\ YearNumber(y + 4800) \in Int
      /\ YearNumber((y + 1) + 4799) = YearNumber(y + 4800)
      /\ LeapDays(y + 4799) \in Int /\ LeapDays(y + 4800) \in Int
  <2>1. (y + 1) + 4799 = y + 4800
    BY <1>0
  <2> QED
    BY <1>0, <2>1, YearsTyped
<1>3. /\ Day(c) \in Int
      /\ m \in {1, 2} => Day(c) = d + MonthNumber(m + 9) + YearNumber(y + 4799)
      /\ m \in 3..12 => Day(c) = d + MonthNumber(m - 3) + YearNumber(y + 4800)
  BY <1>0, DayNumber
<1>4. CASE d < Dates!MonthLength(y, m)
  <2> DEFINE n == [year |-> y, month |-> m, day |-> d + 1]
  <2>1. d + 1 \in Int /\ (m \in {1, 2} \/ m \in 3..12)
    BY <1>0
  <2>2. /\ m \in {1, 2} => Day(n) = (d + 1) + MonthNumber(m + 9) + YearNumber(y + 4799)
        /\ m \in 3..12 => Day(n) = (d + 1) + MonthNumber(m - 3) + YearNumber(y + 4800)
    BY <1>0, <2>1, DayNumber
  <2>3. /\ m \in {1, 2} => MonthNumber(m + 9) \in Nat
        /\ m \in 3..12 => MonthNumber(m - 3) \in Nat
    <3>1. /\ m \in {1, 2} => m + 9 \in 0..11
          /\ m \in 3..12 => m - 3 \in 0..11
      OBVIOUS
    <3> QED
      BY <3>1, MonthStep
  <2>4. Dates!NextDay(c) = n
    BY <1>1, <1>4
  <2> HIDE DEF n
  <2>5. Day(n) = Day(c) + 1
    BY <1>0, <1>2, <1>3, <2>1, <2>2, <2>3
  <2> QED
    BY <1>1, <2>4, <2>5
<1>5. CASE d = Dates!MonthLength(y, m) /\ m < 12
  <2> DEFINE n == [year |-> y, month |-> m + 1, day |-> 1]
  <2>1. m + 1 \in 1..12 /\ 1 \in Int
    BY <1>0, <1>5
  <2>2. /\ m + 1 \in {1, 2} => Day(n) = 1 + MonthNumber((m + 1) + 9) + YearNumber(y + 4799)
        /\ m + 1 \in 3..12 => Day(n) = 1 + MonthNumber((m + 1) - 3) + YearNumber(y + 4800)
    BY <1>0, <2>1, DayNumber
  <2>3. Dates!NextDay(c) = n
    BY <1>1, <1>5
  <2> HIDE DEF n
  <2>4. CASE m = 1
    <3>1. d = 31
      BY <1>5, <2>4 DEF Dates!MonthLength
    <3>2. Day(n) = 1 + MonthNumber(11) + YearNumber(y + 4799)
      BY <2>2, <2>4
    <3>3. Day(c) = d + MonthNumber(10) + YearNumber(y + 4799)
      BY <1>3, <2>4
    <3>4. MonthNumber(11) - MonthNumber(10) = 31 /\ MonthNumber(10) \in Nat /\ MonthNumber(11) \in Nat
      BY MonthStep
    <3> QED
      BY <1>1, <1>2, <2>3, <3>1, <3>2, <3>3, <3>4
  <2>5. CASE m = 2
    <3>1. d = IF Dates!Leap(y) THEN 29 ELSE 28
      BY <1>5, <2>5 DEF Dates!MonthLength
    <3>2. Day(n) = 1 + MonthNumber(0) + YearNumber(y + 4800)
      BY <2>2, <2>5
    <3>3. Day(c) = d + MonthNumber(11) + YearNumber(y + 4799)
      BY <1>3, <2>5
    <3>4. MonthNumber(0) = 0 /\ MonthNumber(11) = 337
      BY MonthStep
    <3>5. LeapDays(y + 4800) - LeapDays(y + 4799) = d - 28
      BY <1>0, <3>1, LeapStep
    <3>6. YearNumber(y + 4800) - YearNumber(y + 4799) = 365 + (d - 28)
      BY <1>0, <1>2, <3>5 DEF YearNumber
    <3> QED
      BY <1>0, <1>1, <1>2, <2>3, <3>2, <3>3, <3>4, <3>6
  <2>6. CASE m \in 3..11
    <3>1. d = IF m \in {4, 6, 9, 11} THEN 30 ELSE 31
      BY <1>5, <2>6 DEF Dates!MonthLength
    <3>2. MonthNumber((m - 3) + 1) - MonthNumber(m - 3) = d
      <4>1. \/ d = 31 /\ m - 3 \in {0, 2, 4, 5, 7, 9, 10}
            \/ d = 30 /\ m - 3 \in {1, 3, 6, 8}
        BY <2>6, <3>1
      <4> QED
        BY <4>1, MonthStep
    <3>3. /\ m \in 3..12 /\ m + 1 \in 3..12 /\ (m + 1) - 3 = (m - 3) + 1
          /\ m - 3 \in 0..11 /\ (m - 3) + 1 \in 0..11
      BY <2>6
    <3>4. /\ Day(n) = 1 + MonthNumber((m - 3) + 1) + YearNumber(y + 4800)
          /\ Day(c) = d + MonthNumber(m - 3) + YearNumber(y + 4800)
      BY <1>3, <2>2, <3>3
    <3>5. MonthNumber((m - 3) + 1) \in Nat /\ MonthNumber(m - 3) \in Nat
      BY <3>3, MonthStep
    <3> HIDE DEF n
    <3>6. Day(n) = Day(c) + 1
      BY <1>0, <1>2, <3>2, <3>4, <3>5
    <3> QED
      BY <1>1, <2>3, <3>6
  <2> QED
    BY <1>0, <1>5, <2>4, <2>5, <2>6
<1>6. CASE d = Dates!MonthLength(y, m) /\ m = 12
  <2> DEFINE n == [year |-> y + 1, month |-> 1, day |-> 1]
  <2>1. d = 31
    BY <1>6 DEF Dates!MonthLength
  <2>2. y + 1 \in Nat /\ y + 1 >= 1900
    BY <1>0
  <2>3. Day(n) = 1 + MonthNumber(10) + YearNumber((y + 1) + 4799)
    BY <2>2, DayNumber
  <2>4. Day(c) = d + MonthNumber(9) + YearNumber(y + 4800)
    BY <1>3, <1>6
  <2>5. MonthNumber(10) - MonthNumber(9) = 31 /\ MonthNumber(9) \in Nat /\ MonthNumber(10) \in Nat
    BY MonthStep
  <2>6. Dates!NextDay(c) = n
    BY <1>1, <1>6
  <2> HIDE DEF n
  <2> QED
    BY <1>1, <1>2, <2>1, <2>3, <2>4, <2>5, <2>6
<1>7. Dates!MonthLength(y, m) \in 28..31
  BY <1>0 DEF Dates!MonthLength
<1> QED
  BY <1>0, <1>4, <1>5, <1>6, <1>7

\* A year in its century, a century in its four hundred years, a year in its four.
CenturyOf(z) == z \div 100
InCentury(z) == z % 100
Era(z) == CenturyOf(z) \div 4
InEra(z) == CenturyOf(z) % 4
Fours(z) == InCentury(z) \div 4
InFour(z) == InCentury(z) % 4

LEMMA YearParts ==
  ASSUME NEW z \in Nat
  PROVE  /\ CenturyOf(z) \in Nat /\ InCentury(z) \in 0..99 /\ Era(z) \in Nat
         /\ InEra(z) \in 0..3 /\ Fours(z) \in 0..24 /\ InFour(z) \in 0..3
         /\ z = 100 * CenturyOf(z) + InCentury(z)
         /\ CenturyOf(z) = 4 * Era(z) + InEra(z)
         /\ InCentury(z) = 4 * Fours(z) + InFour(z)
<1>1. CenturyOf(z) \in Nat /\ InCentury(z) \in 0..99 /\ z = 100 * CenturyOf(z) + InCentury(z)
  BY DEF CenturyOf, InCentury
<1>2. \A x \in Nat : x \div 4 \in Nat /\ x % 4 \in 0..3 /\ x = 4 * (x \div 4) + (x % 4)
  OBVIOUS
<1>3. Era(z) \in Nat /\ InEra(z) \in 0..3 /\ CenturyOf(z) = 4 * Era(z) + InEra(z)
  BY <1>1, <1>2 DEF Era, InEra
<1>4. Fours(z) \in Nat /\ InFour(z) \in 0..3 /\ InCentury(z) = 4 * Fours(z) + InFour(z)
  BY <1>1, <1>2 DEF Fours, InFour
<1>5. Fours(z) \in 0..24
  BY <1>1, <1>4
<1> QED
  BY <1>1, <1>3, <1>4, <1>5

\* The days before a year, and before the century it is in.
LEMMA YearDays ==
  ASSUME NEW z \in Nat
  PROVE  /\ LeapDays(z) = 24 * CenturyOf(z) + Fours(z) + Era(z)
         /\ (CenturyOf(z) * 146097) \div 4 = 36524 * CenturyOf(z) + Era(z)
         /\ (1461 * InCentury(z)) \div 4 = 365 * InCentury(z) + Fours(z)
<1> DEFINE c == CenturyOf(z)
           r == InCentury(z)
           q == Era(z)
           s == InEra(z)
           f == Fours(z)
           g == InFour(z)
<1>1. /\ c \in Nat /\ r \in 0..99 /\ q \in Nat /\ s \in 0..3 /\ f \in 0..24 /\ g \in 0..3
      /\ z = 100 * c + r /\ c = 4 * q + s /\ r = 4 * f + g
  BY YearParts
<1> HIDE DEF c, r, q, s, f, g
<1>2. z \div 100 = c
  BY <1>1
<1>3. z \div 4 = 25 * c + f
  BY <1>1
<1>4. z \div 400 = q
  BY <1>1
<1>5. LeapDays(z) = 24 * c + f + q
  BY <1>1, <1>2, <1>3, <1>4 DEF LeapDays
<1>6. (c * 146097) \div 4 = 36524 * c + q
  <2>1. c * 146097 = 4 * (36524 * c + q) + s
    BY <1>1
  <2> QED
    BY <1>1, <2>1
<1>7. (1461 * r) \div 4 = 365 * r + f
  <2>1. 1461 * r = 4 * (365 * r + f) + g
    BY <1>1
  <2> QED
    BY <1>1, <2>1
<1> QED
  BY <1>5, <1>6, <1>7 DEF c, r, q, f

\* The steps of getYearMonthDay: what is found, and what is left then.
CenturyIn(a) == (4 * a + 3) \div 146097
AfterCentury(a, b) == a - (b * 146097) \div 4
YearIn(t) == (4 * t + 3) \div 1461
AfterYear(t, r) == t - (1461 * r) \div 4
MonthIn(n) == (5 * n + 2) \div 153

\* The n-th day of a year that begins in March, counted from all years and in its century.
DaysTo(z, n) == 365 * z + LeapDays(z) + n
DaysInCentury(z, n) == 365 * InCentury(z) + Fours(z) + n
DaysInYear(d, k) == d - 1 + MonthNumber(k)
\* The year that begins in March ends with a leap day.
LeapAfter(z) == (z + 1) % 4 = 0 /\ ((z + 1) % 100 = 0 => (z + 1) % 400 = 0)

\* Date.cc:31-39: the century and the year of it are found from the number of the day.
LEMMA YearFound ==
  ASSUME NEW z \in Nat, NEW n \in 0..365,
         n = 365 => LeapAfter(z)
  PROVE  /\ CenturyIn(DaysTo(z, n)) = CenturyOf(z)
         /\ AfterCentury(DaysTo(z, n), CenturyOf(z)) = DaysInCentury(z, n)
         /\ YearIn(DaysInCentury(z, n)) = InCentury(z)
         /\ AfterYear(DaysInCentury(z, n), InCentury(z)) = n
         /\ DaysTo(z, n) \in Nat
<1> DEFINE c == CenturyOf(z)
           r == InCentury(z)
           q == Era(z)
           s == InEra(z)
           f == Fours(z)
           g == InFour(z)
           a == DaysTo(z, n)
           t == DaysInCentury(z, n)
<1>0. a = 365 * z + LeapDays(z) + n /\ t = 365 * r + f + n
  BY DEF DaysTo, DaysInCentury
<1>1. /\ c \in Nat /\ r \in 0..99 /\ q \in Nat /\ s \in 0..3 /\ f \in 0..24 /\ g \in 0..3
      /\ z = 100 * c + r /\ c = 4 * q + s /\ r = 4 * f + g
  BY YearParts
<1>2. /\ LeapDays(z) = 24 * c + f + q
      /\ (c * 146097) \div 4 = 36524 * c + q
      /\ (1461 * r) \div 4 = 365 * r + f
  BY YearDays
<1> HIDE DEF c, r, q, s, f, g, a, t
<1>3. a = 36524 * c + q + t
  BY <1>0, <1>1, <1>2
<1>4. n = 365 => g = 3
  <2>1. z + 1 = 4 * (25 * c + f) + (g + 1)
    BY <1>1
  <2>2. (z + 1) % 4 = 0 => g = 3
    BY <1>1, <2>1
  <2> QED
    BY <2>2 DEF LeapAfter
<1>5. n = 365 /\ r = 99 => s = 3
  <2>1. r = 99 => z + 1 = 400 * q + 100 * (s + 1)
    BY <1>1
  <2>2. r = 99 => (z + 1) % 100 = 0
    BY <1>1, <2>1
  <2>3. r = 99 /\ (z + 1) % 400 = 0 => s = 3
    BY <1>1, <2>1
  <2> QED
    BY <2>2, <2>3 DEF LeapAfter
<1>6. (4 * a + 3) \div 146097 = c
  <2>1. 4 * a + 3 = 146097 * c + (4 * t + 3 - s)
    BY <1>0, <1>1, <1>3
  <2>2. 4 * t + 3 - s >= 0 /\ 4 * t + 3 - s < 146097 /\ t \in Nat
    BY <1>0, <1>1, <1>4, <1>5
  <2>3. ASSUME NEW x \in Int, x >= 0, x < 146097 PROVE (146097 * c + x) \div 146097 = c
    BY <1>1, <2>3
  <2>4. 4 * t + 3 - s \in Int
    BY <1>1, <2>2
  <2> QED
    BY <2>1, <2>2, <2>3, <2>4
<1>7. a - (c * 146097) \div 4 = t
  BY <1>0, <1>1, <1>2, <1>3
<1>8. (4 * t + 3) \div 1461 = r
  <2>1. 4 * t + 3 = 1461 * r + (4 * n + 3 - g)
    BY <1>0, <1>1
  <2>2. 4 * n + 3 - g >= 0 /\ 4 * n + 3 - g < 1461
    BY <1>1, <1>4
  <2>3. ASSUME NEW x \in Int, x >= 0, x < 1461 PROVE (1461 * r + x) \div 1461 = r
    BY <1>1, <2>3
  <2>4. 4 * n + 3 - g \in Int
    BY <1>1
  <2> QED
    BY <2>1, <2>2, <2>3, <2>4
<1>9. t - (1461 * r) \div 4 = n /\ t \in Nat /\ a \in Nat
  BY <1>0, <1>1, <1>2, <1>3
<1> QED
  BY <1>6, <1>7, <1>8, <1>9
  DEF a, t, c, r, CenturyIn, AfterCentury, YearIn, AfterYear

\* Date.cc:35: the month is found from the day of the year that begins in March.
InMonth(d, k) == (k \in {1, 3, 6, 8} => d <= 30) /\ (k = 11 => d <= 29)
LEMMA MonthFound ==
  ASSUME NEW i \in 0..11, NEW e \in 1..31, InMonth(e, i)
  PROVE  /\ DaysInYear(e, i) \in 0..365
         /\ MonthIn(DaysInYear(e, i)) = i
<1> DEFINE n == DaysInYear(e, i)
<1>1. i \in {0, 1, 2, 3, 4, 5, 6, 7, 8, 9, 10, 11}
  OBVIOUS
<1>2. /\ n \in 0..365
      /\ 153 * i <= 5 * n + 2 /\ 5 * n + 2 < 153 * (i + 1)
  BY <1>1 DEF MonthNumber, DaysInYear, InMonth
<1> HIDE DEF n
<1>3. (5 * n + 2) \div 153 = i
  BY <1>2
<1> QED
  BY <1>2, <1>3 DEF n, MonthIn

\* getYearMonthDay, by those steps.
Found(j) ==
    LET a == j + 32044
        b == CenturyIn(a)
        c == AfterCentury(a, b)
        d == YearIn(c)
        e == AfterYear(c, d)
        m == MonthIn(e)
    IN [day |-> e - MonthNumber(m) + 1, month |-> m + 3 - 12 * (m \div 10),
        year |-> b * 100 + d - 4800 + m \div 10]
LEMMA StepByStep == \A j : Dates!getYearMonthDay(j) = Found(j)
BY DEF Found, Dates!getYearMonthDay, Dates!Century, CenturyIn, AfterCentury, YearIn,
   AfterYear, MonthIn, MonthNumber

\* The day of a number is found again, in whatever month.
IsFound(z, k, d) ==
    Dates!getYearMonthDay(d + MonthNumber(k) + YearNumber(z)) =
            [day |-> d, month |-> IF k < 10 THEN k + 3 ELSE k - 9,
             year |-> IF k < 10 THEN z - 4800 ELSE z - 4799]
LEMMA DayFound ==
  ASSUME NEW z \in Nat, NEW k \in 0..11, NEW d \in 1..31, InMonth(d, k),
         k = 11 /\ d = 29 => LeapAfter(z)
  PROVE  IsFound(z, k, d)
<1> DEFINE c == CenturyOf(z)
           r == InCentury(z)
           n == DaysInYear(d, k)
           a == DaysTo(z, n)
           t == DaysInCentury(z, n)
           j == d + MonthNumber(k) + YearNumber(z)
<1>1. n \in 0..365 /\ (n = 365 => k = 11 /\ d = 29) /\ MonthIn(n) = k
  <2>1. n \in 0..365
    BY MonthFound
  <2>2. n = 365 => k = 11 /\ d = 29
    <3>1. k \in {0, 1, 2, 3, 4, 5, 6, 7, 8, 9, 10, 11}
      OBVIOUS
    <3> QED
      BY <3>1 DEF DaysInYear, MonthNumber, InMonth
  <2>3. MonthIn(n) = k
    BY MonthFound
  <2> QED
    BY SMTT(30), <2>1, <2>2, <2>3
<1>2. n = 365 => LeapAfter(z)
  BY <1>1
<1> HIDE DEF n
<1>3. /\ CenturyIn(a) = c /\ AfterCentury(a, c) = t
      /\ YearIn(t) = r /\ AfterYear(t, r) = n /\ a \in Nat
  BY <1>1, <1>2, YearFound
<1>4. MonthNumber(k) \in Nat
  BY MonthStep
<1>5. j + 32044 = a
  <2>1. LeapDays(z) \in Int
    BY DEF LeapDays
  <2> QED
    BY <1>4, <2>1 DEF n, YearNumber, DaysInYear, DaysTo
<1>6. n - MonthNumber(k) + 1 = d
  BY <1>4 DEF n, DaysInYear
<1>7. c * 100 + r = z /\ c \in Nat /\ r \in Nat
  <2>1. c \in Nat /\ r \in 0..99 /\ z = 100 * c + r
    BY YearParts
  <2> HIDE DEF c, r
  <2> QED
    BY <2>1
<1>8. /\ k + 3 - 12 * (k \div 10) = IF k < 10 THEN k + 3 ELSE k - 9
      /\ k \div 10 = IF k < 10 THEN 0 ELSE 1
  OBVIOUS
<1>9. c * 100 + r - 4800 + k \div 10 = IF k < 10 THEN z - 4800 ELSE z - 4799
  BY <1>7, <1>8
<1> HIDE DEF a, c, r, t, j
<1>10. Dates!getYearMonthDay(j) =
         [day |-> n - MonthNumber(k) + 1, month |-> k + 3 - 12 * (k \div 10),
          year |-> c * 100 + r - 4800 + k \div 10]
  BY <1>1, <1>3, <1>5, StepByStep DEF Found
<1>11. Dates!getYearMonthDay(j) =
            [day |-> d, month |-> IF k < 10 THEN k + 3 ELSE k - 9,
             year |-> IF k < 10 THEN z - 4800 ELSE z - 4799]
  BY <1>6, <1>8, <1>9, <1>10
<1> QED
  BY <1>11 DEF j, IsFound

\* The leap day ends the March year before.
LEMMA LeapDayLast ==
  ASSUME NEW y \in Nat, Dates!Leap(y)
  PROVE  LeapAfter(y + 4799)
<1>1. /\ (y + 4800) % 4 = y % 4
      /\ (y + 4800) % 100 = y % 100
      /\ (y + 4800) % 400 = y % 400
  OBVIOUS
<1>2. (y + 4799) + 1 = y + 4800
  OBVIOUS
<1> QED
  BY <1>1, <1>2 DEF LeapAfter, Dates!Leap

\* getYearMonthDay undoes getJulianDayNumber.
LEMMA FoundAgain ==
  ASSUME NEW c, OnCalendar(c)
  PROVE  Dates!getYearMonthDay(Day(c)) = c
<1> DEFINE y == c.year
           m == c.month
           d == c.day
<1>0. /\ y \in Nat /\ y >= 1900 /\ m \in 1..12 /\ d \in 1..31
      /\ d <= Dates!MonthLength(y, m)
      /\ c = [year |-> y, month |-> m, day |-> d]
  BY DEF OnCalendar
<1> HIDE DEF y, m, d
<1>1. CASE m \in {1, 2}
  <2>1. Day(c) = d + MonthNumber(m + 9) + YearNumber(y + 4799)
    BY <1>0, <1>1, DayNumber
  <2>2. InMonth(d, m + 9)
    BY <1>0, <1>1 DEF Dates!MonthLength, InMonth
  <2>3. ASSUME m + 9 = 11, d = 29 PROVE LeapAfter(y + 4799)
    <3>1. m = 2
      BY <2>3, <1>1
    <3>2. Dates!Leap(y)
      BY <2>3, <3>1, <1>0 DEF Dates!MonthLength
    <3> QED
      BY <3>2, <1>0, LeapDayLast
  <2>4. m + 9 \in 0..11 /\ y + 4799 \in Nat /\ m + 9 >= 10
    BY <1>0, <1>1
  <2>5. Dates!getYearMonthDay(d + MonthNumber(m + 9) + YearNumber(y + 4799)) =
            [day |-> d, month |-> IF m + 9 < 10 THEN (m + 9) + 3 ELSE (m + 9) - 9,
             year |-> IF m + 9 < 10 THEN (y + 4799) - 4800 ELSE (y + 4799) - 4799]
    <3> DEFINE k == m + 9
               z == y + 4799
    <3>1. z \in Nat /\ k \in 0..11 /\ d \in 1..31 /\ InMonth(d, k)
      BY <1>0, <2>2, <2>4
    <3>2. k = 11 /\ d = 29 => LeapAfter(z)
      BY <2>3
    <3> HIDE DEF k, z
    <3>3. IsFound(z, k, d)
      BY <3>1, <3>2, DayFound
    <3> QED
      BY <3>3 DEF k, z, IsFound
  <2>6. (m + 9) - 9 = m /\ (y + 4799) - 4799 = y /\ ~(m + 9 < 10)
    BY <1>0, <1>1
  <2> QED
    BY <1>0, <2>1, <2>5, <2>6
<1>2. CASE m \in 3..12
  <2>1. Day(c) = d + MonthNumber(m - 3) + YearNumber(y + 4800)
    BY <1>0, <1>2, DayNumber
  <2>2. InMonth(d, m - 3)
    BY <1>0, <1>2 DEF Dates!MonthLength, InMonth
  <2>3. m - 3 \in 0..11 /\ y + 4800 \in Nat /\ m - 3 < 10
    BY <1>0, <1>2
  <2>4. Dates!getYearMonthDay(d + MonthNumber(m - 3) + YearNumber(y + 4800)) =
            [day |-> d, month |-> IF m - 3 < 10 THEN (m - 3) + 3 ELSE (m - 3) - 9,
             year |-> IF m - 3 < 10 THEN (y + 4800) - 4800 ELSE (y + 4800) - 4799]
    <3> DEFINE k == m - 3
               z == y + 4800
    <3>1. z \in Nat /\ k \in 0..11 /\ d \in 1..31 /\ InMonth(d, k)
      BY <1>0, <2>2, <2>3
    <3>2. k # 11
      BY <1>2
    <3> HIDE DEF k, z
    <3>3. IsFound(z, k, d)
      BY <3>1, <3>2, DayFound
    <3> QED
      BY <3>3 DEF k, z, IsFound
  <2>5. (m - 3) + 3 = m /\ (y + 4800) - 4800 = y
    BY <1>0, <1>2
  <2> QED
    BY <1>0, <2>1, <2>3, <2>4, <2>5
<1> QED
  BY <1>0, <1>1, <1>2

\* The leaf on the calendar, its number and its day of the week.
CalendarInv ==
    /\ OnCalendar(civil)
    /\ julian \in Int /\ julian = Day(civil)
    /\ weekday \in 0..6 /\ weekday = Dates!weekDay(julian)

LEMMA CalendarStarts == Dates!CalendarInit => CalendarInv
<1> SUFFICES ASSUME Dates!CalendarInit PROVE CalendarInv
  OBVIOUS
<1>1. civil = [year |-> 1900, month |-> 1, day |-> 1] /\ julian = 2415021 /\ weekday = 1
  BY DatesAssumption, SMT DEF Dates!CalendarInit
<1>2. OnCalendar(civil)
  BY <1>1 DEF OnCalendar, Dates!MonthLength
<1>3. Day(civil) = 2415021
  <2>1. Dates!getJulianDayNumber(1900, 1, 1) = 2415021
    BY DEF Dates!getJulianDayNumber, Dates!Cycle
  <2> QED
    BY <1>1, <2>1 DEF Day
<1>4. Dates!weekDay(2415021) = 1
  BY DEF Dates!weekDay, Dates!kDaysPerWeek
<1> QED
  BY <1>1, <1>2, <1>3, <1>4 DEF CalendarInv

LEMMA TurnKept == CalendarInv /\ [Dates!Turn]_(Dates!calendarVars) => CalendarInv'
<1> SUFFICES ASSUME CalendarInv, [Dates!Turn]_(Dates!calendarVars) PROVE CalendarInv'
  OBVIOUS
<1>1. CASE Dates!Turn
  <2>1. /\ civil' = Dates!NextDay(civil) /\ julian' = julian + 1
        /\ weekday' = IF weekday = 6 THEN 0 ELSE weekday + 1
    BY <1>1 DEF Dates!Turn
  <2>2. OnCalendar(civil') /\ Day(civil') = Day(civil) + 1
    BY <2>1, NextNumber DEF CalendarInv
  <2>3. /\ weekday = (julian + 1) % 7 /\ julian \in Int /\ weekday \in 0..6
        /\ Dates!weekDay(julian') = (julian' + 1) % 7
    BY DEF CalendarInv, Dates!weekDay, Dates!kDaysPerWeek
  <2>4. weekday' = (julian' + 1) % 7 /\ weekday' \in 0..6
    BY <2>1, <2>3
  <2> QED
    BY <2>1, <2>2, <2>3, <2>4 DEF CalendarInv
<1>2. CASE UNCHANGED Dates!calendarVars
  BY <1>2 DEF Dates!calendarVars, CalendarInv, OnCalendar, Day, Dates!weekDay
<1> QED
  BY <1>1, <1>2

(* Of every day from 1900 on, however many years: the number Date.cc gives the
   date, the date it finds from the number and the day of the week are those of
   a calendar turned leaf by leaf from the first of January 1900. *)
THEOREM EveryDay == Dates!CalendarSpec => []Dates!DatesAgree
<1>1. Dates!CalendarInit => CalendarInv
  BY CalendarStarts
<1>2. CalendarInv /\ [Dates!Turn]_(Dates!calendarVars) => CalendarInv'
  BY TurnKept
<1>3. CalendarInv => Dates!DatesAgree
  BY FoundAgain DEF CalendarInv, Day, Dates!DatesAgree
<1> QED
  BY <1>1, <1>2, <1>3, PTL DEF Dates!CalendarSpec

(* toUtcTime and back, for every moment of every day. *)

\* A number of days and of seconds is taken apart again, before 1970 as after.
LEMMA SecondsTaken ==
  ASSUME NEW q \in Int, NEW s \in Nat, s < 86400
  PROVE  Dates!DayAndSeconds(q * 86400 + s) = [days |-> q, seconds |-> s]
<1> DEFINE t == q * 86400 + s
<1>1. t \in Int /\ Dates!kSecondsPerDay = 86400
  BY SMT DEF Dates!kSecondsPerDay
<1>2. CASE q >= 0
  <2>1. t >= 0 /\ t \div 86400 = q /\ t - 86400 * q = s /\ ~(s < 0)
    BY SMT, <1>2
  <2>2. Dates!Quot(t, 86400) = q
    BY SMT, <2>1 DEF Dates!Quot
  <2> QED
    BY SMT, <1>1, <2>1, <2>2 DEF Dates!DayAndSeconds, Dates!Remainder
<1>3. CASE q < 0 /\ s = 0
  <2>1. t < 0 /\ (-t) \div 86400 = -q /\ t - 86400 * q = 0 /\ -(-q) = q /\ ~(0 < 0)
    BY SMT, <1>3
  <2>2. Dates!Quot(t, 86400) = q
    BY SMT, <2>1 DEF Dates!Quot
  <2> QED
    BY SMT, <1>1, <1>3, <2>1, <2>2 DEF Dates!DayAndSeconds, Dates!Remainder
<1>4. CASE q < 0 /\ s > 0
  <2>1. /\ t < 0 /\ (-t) \div 86400 = -q - 1 /\ -(-q - 1) = q + 1
        /\ t - 86400 * (q + 1) = s - 86400 /\ s - 86400 < 0 /\ (s - 86400) + 86400 = s
        /\ (q + 1) - 1 = q
    BY SMT, <1>4
  <2>2. Dates!Quot(t, 86400) = q + 1
    BY SMT, <1>1, <2>1 DEF Dates!Quot
  <2> QED
    BY SMT, <1>1, <2>1, <2>2 DEF Dates!DayAndSeconds, Dates!Remainder
<1> QED
  BY SMT, <1>2, <1>3, <1>4

\* The members of an interval from zero.
LEMMA BelowIs ==
  ASSUME NEW k \in Int, NEW s \in 0..(k - 1)
  PROVE  s \in Nat /\ s < k
OBVIOUS

\* A moment of a day is found again.
LEMMA SecondsFound ==
  ASSUME NEW q \in Int, NEW s \in Moments
  PROVE  Dates!DayAndSeconds(q * Dates!kSecondsPerDay + s) = [days |-> q, seconds |-> s]
<1>1. Dates!kSecondsPerDay = 86400
  BY SMT DEF Dates!kSecondsPerDay
<1>2. Dates!kSecondsPerDay \in Int
  BY SMT, <1>1
<1>3. s \in Nat /\ s < Dates!kSecondsPerDay
  BY SMT, <1>2, BelowIs DEF Moments
<1> QED
  BY SMT, <1>1, <1>3, SecondsTaken

\* The hour, the minute and the second make up the seconds again.
LEMMA ClockFound ==
  ASSUME NEW s \in Nat
  PROVE  LET hms == Dates!fillHMS(s)
         IN hms.hour * 3600 + (hms.min * 60 + hms.sec) = s
            /\ hms.hour \in Nat /\ hms.min \in Nat /\ hms.sec \in Nat
<1> DEFINE m == s \div 60
           h == m \div 60
           mm == m % 60
           ss == s % 60
<1>1. m \in Nat /\ ss \in Nat /\ s = 60 * m + ss
  OBVIOUS
<1> HIDE DEF ss
<1>2. /\ Dates!fillHMS(s).hour = h /\ Dates!fillHMS(s).min = mm
      /\ Dates!fillHMS(s).sec = ss
  BY DEF Dates!fillHMS, ss
<1> HIDE DEF m
<1>3. h \in Nat /\ mm \in Nat /\ m = 60 * h + mm
  BY <1>1
<1> HIDE DEF h, mm
<1> QED
  BY <1>1, <1>2, <1>3

\* The day of the year counts from zero.
LEMMA YearDay ==
  ASSUME NEW c, OnCalendar(c)
  PROVE  LET yday == Day(c) - Dates!getJulianDayNumber(c.year, 1, 1)
         IN yday \in 0..365 /\ (yday = 0) = (c.month = 1 /\ c.day = 1)
<1> DEFINE y == c.year
           m == c.month
           d == c.day
           l == IF Dates!Leap(y) THEN 1 ELSE 0
           first == Day([year |-> y, month |-> 1, day |-> 1])
<1>1. /\ y \in Nat /\ m \in 1..12 /\ d \in 1..31 /\ c = [year |-> y, month |-> m, day |-> d]
      /\ d <= Dates!MonthLength(y, m)
  BY DEF OnCalendar
<1>2. first = Dates!getJulianDayNumber(y, 1, 1)
  BY DEF Day
<1> HIDE DEF y, m, d, first
<1>3. first = 307 + YearNumber(y + 4799)
  <2>1. MonthNumber(10) = 306 /\ 1 + 9 = 10
    BY DEF MonthNumber
  <2>2. first = 1 + MonthNumber(10) + YearNumber(y + 4799)
    BY <1>1, <2>1, DayNumber DEF first
  <2> QED
    BY <1>1, <2>1, <2>2, YearsTyped
<1>4. CASE m = 1
  <2>1. MonthNumber(10) = 306 /\ 1 + 9 = 10
    BY DEF MonthNumber
  <2>2. Day(c) = d + 306 + YearNumber(y + 4799)
    BY <1>1, <1>4, <2>1, DayNumber
  <2>3. Day(c) - first = d - 1
    BY <1>1, <1>3, <2>2, YearsTyped
  <2> QED
    BY <1>1, <1>2, <1>4, <2>3 DEF y, m, d
<1>5. CASE m = 2
  <2>1. MonthNumber(11) = 337 /\ 2 + 9 = 11 /\ d <= 29
    BY <1>1, <1>5 DEF MonthNumber, Dates!MonthLength
  <2>2. Day(c) = d + 337 + YearNumber(y + 4799)
    BY <1>1, <1>5, <2>1, DayNumber
  <2>3. Day(c) - first = d + 30
    BY <1>1, <1>3, <2>2, YearsTyped
  <2> QED
    BY <1>1, <1>2, <1>5, <2>1, <2>3 DEF y, m, d
<1>6. CASE m \in 3..12
  <2>1. /\ MonthNumber(m - 3) \in Nat /\ d + MonthNumber(m - 3) <= 306
        /\ d + MonthNumber(m - 3) > 0
    <3>1. MonthNumber(m - 3) <= 275 /\ MonthNumber(m - 3) \in Nat
      BY <1>6 DEF MonthNumber
    <3> QED
      BY <1>1, <3>1
  <2>2. Day(c) = d + MonthNumber(m - 3) + YearNumber(y + 4800)
    BY <1>1, <1>6, DayNumber
  <2>3. YearNumber(y + 4800) = YearNumber(y + 4799) + 365 + l
    <3>1. /\ YearNumber(y + 4800) = (y + 4800) * 365 + LeapDays(y + 4800) - 32045
          /\ YearNumber(y + 4799) = (y + 4799) * 365 + LeapDays(y + 4799) - 32045
      BY DEF YearNumber
    <3>2. LeapDays(y + 4800) - LeapDays(y + 4799) = l
      BY <1>1, LeapStep
    <3> QED
      BY <1>1, <3>1, <3>2, YearsTyped
  <2>4. Day(c) - first = d + MonthNumber(m - 3) + 58 + l /\ l \in {0, 1}
    BY <1>1, <1>3, <2>1, <2>2, <2>3, YearsTyped
  <2>5. Day(c) - first \in 1..365
    BY SMTT(30), <1>1, <2>1, <2>4
  <2> QED
    BY <1>1, <1>2, <1>6, <2>5 DEF y, m, d
<1> QED
  BY <1>1, <1>4, <1>5, <1>6

LEMMA Epoch ==
  /\ Dates!kJulianDayOf1970_01_01 = Dates!EpochDay /\ Dates!EpochDay \in Int
  /\ Dates!kSecondsPerDay \in Int
<1>1. Dates!getJulianDayNumber(1970, 1, 1) = 2440588
  BY SMT DEF Dates!getJulianDayNumber, Dates!Cycle
<1>2. Dates!EpochDay \in Int
  BY SMT DEF Dates!EpochDay
<1>3. Dates!kSecondsPerDay \in Int
  BY SMT DEF Dates!kSecondsPerDay
<1> QED
  BY SMT, <1>1, <1>2, <1>3 DEF Dates!EpochDay, Dates!kJulianDayOf1970_01_01

\* A moment has the date of its day, and is found from it again.
LEMMA TimeFound ==
  ASSUME TimesOfDay \subseteq Moments, CalendarInv, Dates!DatesAgree
  PROVE  Dates!UtcRoundTrip
<1> DEFINE q == julian - Dates!EpochDay
           Time(s) == q * Dates!kSecondsPerDay + s
           utc(s) == Dates!toUtcTime(Time(s))
<1> SUFFICES ASSUME NEW s \in TimesOfDay
             PROVE  /\ utc(s).ymd = civil /\ utc(s).wday = weekday
                    /\ Dates!fromUtcTime(civil.year, civil.month, civil.day,
                          utc(s).hms.hour, utc(s).hms.min, utc(s).hms.sec) = Time(s)
                    /\ utc(s).yday \in 0..365
                    /\ (utc(s).yday = 0) = (civil.month = 1 /\ civil.day = 1)
  BY Zenon DEF Dates!UtcRoundTrip
<1> DEFINE t == Time(s)
           u == utc(s)
           E == Dates!EpochDay
           D == Dates!kSecondsPerDay
<1>1. s \in Moments /\ s \in Nat
  BY Epoch DEF Moments
<1>2. julian \in Int
  BY DEF CalendarInv
<1>3. E \in Int /\ D \in Int /\ Dates!kJulianDayOf1970_01_01 = E /\ q \in Int /\ q + E = julian
  BY SMT, <1>2, Epoch
<1>4. Dates!DayAndSeconds(t) = [days |-> q, seconds |-> s]
  BY <1>1, <1>3, SecondsFound
<1>5. /\ Dates!getYearMonthDay(julian) = civil /\ Dates!weekDay(julian) = weekday
      /\ Dates!getJulianDayNumber(civil.year, civil.month, civil.day) = julian
  BY DEF Dates!DatesAgree
<1>6. u = [ymd |-> civil, hms |-> Dates!fillHMS(s), wday |-> weekday,
           yday |-> julian - Dates!getJulianDayNumber(civil.year, 1, 1)]
  <2>1. Dates!DayAndSeconds(t).days = q /\ Dates!DayAndSeconds(t).seconds = s
    BY <1>4
  <2> HIDE DEF t
  <2>2. Dates!toUtcTime(t)
          = [ymd |-> civil, hms |-> Dates!fillHMS(s), wday |-> weekday,
             yday |-> julian - Dates!getJulianDayNumber(civil.year, 1, 1)]
    BY <1>3, <1>5, <2>1, Zenon DEF Dates!toUtcTime
  <2> QED
    BY <2>2 DEF t
<1> HIDE DEF u
<1>7. /\ u.ymd = civil /\ u.hms = Dates!fillHMS(s) /\ u.wday = weekday
      /\ u.yday = julian - Dates!getJulianDayNumber(civil.year, 1, 1)
  BY <1>6
<1>8. u.yday \in 0..365 /\ (u.yday = 0) = (civil.month = 1 /\ civil.day = 1)
  <2>1. OnCalendar(civil) /\ julian = Day(civil)
    BY DEF CalendarInv
  <2> QED
    BY <1>7, <2>1, YearDay
<1>9. Dates!fromUtcTime(civil.year, civil.month, civil.day,
                        u.hms.hour, u.hms.min, u.hms.sec) = t
  <2> DEFINE h == Dates!fillHMS(s)
  <2>1. /\ h.hour * 3600 + (h.min * 60 + h.sec) = s
        /\ h.hour \in Nat /\ h.min \in Nat /\ h.sec \in Nat
    BY <1>1, ClockFound
  <2>2. Dates!fromUtcTime(civil.year, civil.month, civil.day, h.hour, h.min, h.sec)
          = (julian - E) * D + h.hour * 3600 + h.min * 60 + h.sec
    <3> DEFINE J == Dates!getJulianDayNumber(civil.year, civil.month, civil.day)
               K == Dates!kJulianDayOf1970_01_01
    <3>1. Dates!fromUtcTime(civil.year, civil.month, civil.day, h.hour, h.min, h.sec)
            = (J - K) * D + h.hour * 3600 + h.min * 60 + h.sec
      BY DEF Dates!fromUtcTime
    <3>2. J = julian /\ K = E
      BY <1>3, <1>5
    <3> HIDE DEF J, K, h
    <3> QED
      BY <3>1, <3>2
  <2> HIDE DEF h
  <2>3. (julian - E) * D + h.hour * 3600 + h.min * 60 + h.sec = t
    <3> DEFINE x == q * D
    <3>1. x \in Int /\ t = x + s
      BY SMT, <1>3
    <3> HIDE DEF x
    <3>2. x + h.hour * 3600 + h.min * 60 + h.sec = x + s
      BY SMTT(30), <1>1, <2>1, <3>1
    <3> QED
      BY <3>1, <3>2 DEF x
  <2> QED
    BY <1>7, <2>2, <2>3 DEF h
<1> QED
  BY <1>7, <1>8, <1>9 DEF u

-----------------------------------------------------------------------------
(* TimeZone, as the instance Zone: a clock that is turned at each transition. *)

LEMMA Multiples ==
  ASSUME NEW s \in Nat, s > 0, NEW a \in Int, NEW b \in Int, a % s = 0, b % s = 0, a < b
  PROVE  a + s <= b
<1> DEFINE p == a \div s
           q == b \div s
<1>1. p \in Int /\ q \in Int /\ a = s * p /\ b = s * q
  OBVIOUS
<1> HIDE DEF p, q
<1>2. p < q
  BY <1>1
<1>3. s * q >= s * (p + 1)
  BY <1>1, <1>2
<1>4. s * (p + 1) = s * p + s
  BY <1>1
<1> QED
  BY <1>1, <1>3, <1>4
LEMMA NextMultiple ==
  ASSUME NEW s \in Nat, s > 0, NEW a \in Int, a % s = 0
  PROVE  (a + s) % s = 0
<1> DEFINE p == a \div s
<1>1. p \in Int /\ a = s * p
  OBVIOUS
<1> HIDE DEF p
<1>2. a + s = s * (p + 1) /\ p + 1 \in Int
  BY <1>1
<1>3. \A k \in Int : (s * k) % s = 0
  OBVIOUS
<1> QED
  BY <1>2, <1>3

OnStep(t) == t % Step = 0
LEMMA StepsApart ==
  ASSUME NEW a \in Int, NEW b \in Int, OnStep(a), OnStep(b), a < b
  PROVE  a + Step <= b
<1>1. Step \in Nat /\ Step > 0
  BY ZonesAssumption
<1>2. a % Step = 0 /\ b % Step = 0
  BY DEF OnStep
<1> QED
  BY <1>1, <1>2, Multiples
LEMMA StepOn ==
  ASSUME NEW a \in Int, OnStep(a)
  PROVE  OnStep(a + Step)
<1>1. Step \in Nat /\ Step > 0
  BY ZonesAssumption
<1>2. a % Step = 0
  BY DEF OnStep
<1> QED
  BY <1>1, <1>2, NextMultiple DEF OnStep
Turned(z, i, t) == \A j \in 1..Len(z.transitions) : At(z, j) <= t <=> j <= i

\* What the file of a zone says, number by number.
LEMMA ZoneIs ==
  ASSUME NEW z, Regular(z)
  PROVE  LET n == Len(z.transitions) IN
         /\ n \in Nat /\ DOMAIN z.transitions = 1..n
         /\ \A i \in 1..n : At(z, i) \in Int /\ At(z, i) > 0 /\ OnStep(At(z, i))
         /\ \A i \in 0..n : /\ Local(z, i) \in [gmtOffset : Int, isDst : BOOLEAN]
                            /\ Local(z, i).gmtOffset <= Widest
                            /\ -Local(z, i).gmtOffset <= Widest
         /\ \A i, j \in 1..n : j < i => At(z, i) - At(z, j) > 2 * Widest
         /\ \A i \in 1..n : ComesBack(Local(z, i - 1), Local(z, i))
<1> DEFINE T == z.transitions
           L == z.localtimes
           n == Len(T)
           R == [gmtOffset : Int, isDst : BOOLEAN]
<1>1. L \in Seq(R) /\ L # <<>> /\ T \in Seq(Int \X DOMAIN L)
  BY Zenon DEF Regular
<1> HIDE DEF R
<1>2. n \in Nat /\ DOMAIN T = 1..n /\ 1 \in DOMAIN L
  <2>1. n \in Nat /\ DOMAIN T = 1..n
    BY <1>1
  <2>2. Len(L) \in Nat /\ DOMAIN L = 1..Len(L) /\ Len(L) # 0
    BY <1>1, EmptySeq
  <2> QED
    BY <2>1, <2>2
<1>3. \A i \in DOMAIN L : L[i] \in R
  BY <1>1
<1>4. \A i \in 1..n : T[i] \in Int \X DOMAIN L
  BY <1>1
<1>5. \A i \in 1..n : T[i][1] \in Int /\ T[i][2] \in DOMAIN L
  BY <1>4
<1>6. \A i \in DOMAIN L : L[i].gmtOffset <= Widest /\ -L[i].gmtOffset <= Widest
  BY DEF Regular
<1>7. \A i \in DOMAIN T :
         /\ At(z, i) > 0 /\ At(z, i) % Step = 0
         /\ \A j \in 1..(i - 1) : At(z, i) - At(z, j) > 2 * Widest
         /\ ComesBack(Local(z, i - 1), Local(z, i))
  BY Zenon DEF Regular
<1> HIDE DEF T, L, n
<1>8. \A i \in 0..n : \E k \in DOMAIN L : Local(z, i) = L[k]
  <2> SUFFICES ASSUME NEW i \in 0..n PROVE \E k \in DOMAIN L : Local(z, i) = L[k]
    OBVIOUS
  <2>1. CASE i = 0
    BY <1>2, <2>1 DEF Local, L
  <2>2. CASE i # 0
    <3>1. i \in 1..n
      BY <1>2, <2>2
    <3> QED
      BY <1>5, <2>2, <3>1 DEF Local, L, T
  <2> QED
    BY <2>1, <2>2
<1>9. \A i \in 1..n : At(z, i) \in Int
  BY <1>5 DEF At, T
<1>10. \A i, j \in 1..n : j < i => j \in 1..(i - 1)
  BY <1>2
<1> QED
  BY <1>2, <1>3, <1>6, <1>7, <1>8, <1>9, <1>10 DEF T, n, R, OnStep

\* The search among the transitions finds the last of those that have passed.
LEMMA LastIs ==
  ASSUME Regular(zone), NEW t \in Int, NEW gmt \in BOOLEAN,
         NEW k \in 0..Len(zone.transitions),
         \A i \in 1..Len(zone.transitions) : Zone!KeyOf(Zone!Table[i], gmt) <= t <=> i <= k
  PROVE  Zone!findLocaltime(t, gmt) = Local(zone, k)
<1> DEFINE n == Len(zone.transitions)
<1>1. n \in Nat /\ DOMAIN zone.transitions = 1..n
  BY ZoneIs
<1>2. DOMAIN Zone!Table = 1..n
  BY <1>1 DEF Zone!Table, Zone!Transitions
<1>3. Zone!Past(t, gmt) = 1..k
  <2>1. Zone!Past(t, gmt) = {i \in 1..n : Zone!KeyOf(Zone!Table[i], gmt) <= t}
    BY <1>2, Zenon DEF Zone!Past
  <2>2. \A i : i \in 1..k <=> i \in 1..n /\ i <= k
    BY <1>1
  <2> QED
    BY <2>1, <2>2, Zenon
<1>4. CASE k = 0
  <2>1. 1..k = {}
    BY <1>4
  <2> QED
    BY <1>3, <1>4, <2>1 DEF Zone!findLocaltime, Zone!Localtimes, Local
<1>5. CASE k # 0
  <2>1. k \in 1..k /\ 1..k # {} /\ k \in 1..n /\ \A i \in 1..k : k >= i
    <3>1. k \in 1..k /\ k \in 1..n /\ \A i \in 1..k : k >= i
      BY <1>1, <1>5
    <3> QED
      BY <3>1, Zenon
  <2>2. \A i \in 1..k : (\A j \in 1..k : i >= j) => i = k
    BY <2>1
  <2>3. Zone!Max(1..k) = k
    BY <2>1, <2>2, Zenon DEF Zone!Max
  <2>4. Zone!Table[k].idx = zone.transitions[k][2]
    BY <1>1, <2>1 DEF Zone!Table, Zone!Transitions
  <2> QED
    BY <1>3, <1>5, <2>1, <2>3, <2>4 DEF Zone!findLocaltime, Zone!Localtimes, Local
<1> QED
  BY <1>4, <1>5

\* The local time of a moment is that of the transitions that have passed.
LEMMA LocalIs ==
  ASSUME Regular(zone), NEW t \in Int, NEW k \in 0..Len(zone.transitions), Turned(zone, k, t)
  PROVE  Zone!toLocalTime(t) = [at |-> t + Local(zone, k).gmtOffset,
                                isDst |-> Local(zone, k).isDst]
<1>1. \A i \in 1..Len(zone.transitions) : Zone!KeyOf(Zone!Table[i], TRUE) = At(zone, i)
  BY ZoneIs DEF Zone!KeyOf, Zone!Table, Zone!Transitions, At
<1>2. Zone!findLocaltime(t, TRUE) = Local(zone, k)
  BY <1>1, LastIs DEF Turned
<1> QED
  BY <1>2, Zenon DEF Zone!toLocalTime

LEMMA Width == Zone!Hour \in Nat /\ Widest \in Int /\ 2 * Widest > Zone!Hour
BY SMT DEF Widest, Zone!Hour

\* The clock on the wall shows the time after the transitions that have passed.
ZoneInv ==
    /\ Regular(zone)
    /\ clock \in Nat /\ OnStep(clock)
    /\ \E k \in 0..Len(zone.transitions) :
          /\ Turned(zone, k, clock)
          /\ hand = clock + Local(zone, k).gmtOffset /\ dst = Local(zone, k).isDst

LEMMA ZoneStarts == Zone!ZoneInit => ZoneInv
<1> SUFFICES ASSUME Zone!ZoneInit PROVE ZoneInv
  OBVIOUS
<1>1. /\ Regular(zone) /\ clock = 0
      /\ hand = zone.localtimes[1].gmtOffset /\ dst = zone.localtimes[1].isDst
  BY ZonesAssumption DEF Zone!ZoneInit, Zone!Localtimes
<1>2. 0 \in 0..Len(zone.transitions) /\ Turned(zone, 0, 0)
  BY <1>1, ZoneIs DEF Turned
<1>3. Local(zone, 0) = zone.localtimes[1]
  BY DEF Local
<1>4. Local(zone, 0).gmtOffset \in Int
  BY <1>1, <1>2, ZoneIs
<1>5. hand = 0 + Local(zone, 0).gmtOffset
  BY <1>1, <1>3, <1>4
<1>6. 0 \in Nat /\ OnStep(0)
  BY ZonesAssumption DEF OnStep
<1> QED
  BY <1>1, <1>2, <1>3, <1>5, <1>6, Zenon DEF ZoneInv

LEMMA WalkKept == ZoneInv /\ [Zone!Walk]_(Zone!zoneVars) => ZoneInv'
<1> SUFFICES ASSUME ZoneInv, [Zone!Walk]_(Zone!zoneVars) PROVE ZoneInv'
  OBVIOUS
<1>1. CASE UNCHANGED Zone!zoneVars
  BY <1>1, Zenon DEF Zone!zoneVars, ZoneInv
<1>2. CASE Zone!Walk
  <2> DEFINE n == Len(zone.transitions)
             later == clock + Step
             set == {i \in 1..n : At(zone, i) = later}
  <2>1. /\ Regular(zone) /\ clock \in Nat /\ OnStep(clock) /\ Step \in Nat /\ Step > 0
        /\ n \in Nat /\ DOMAIN zone.transitions = 1..n
    BY ZoneIs, ZonesAssumption DEF ZoneInv
  <2>2. PICK k \in 0..n :
           /\ Turned(zone, k, clock)
           /\ hand = clock + Local(zone, k).gmtOffset /\ dst = Local(zone, k).isDst
    BY Zenon DEF ZoneInv
  <2>3. /\ clock' = later /\ zone' = zone
        /\ set = {} => hand' = hand + Step /\ dst' = dst
        /\ set # {} => LET to == zone.localtimes[zone.transitions[CHOOSE i \in set : TRUE][2]]
                       IN hand' = later + to.gmtOffset /\ dst' = to.isDst
    BY <1>2, <2>1, Zenon DEF Zone!Walk, Zone!Transitions, Zone!Localtimes, At
  <2>4. later \in Nat /\ OnStep(later) /\ clock < later
    <3>1. OnStep(later)
      BY <2>1, StepOn
    <3> QED
      BY <2>1, <3>1
  <2>5. \A i \in 1..n : At(zone, i) \in Int /\ OnStep(At(zone, i))
    BY <2>1, ZoneIs
  <2>6. \A i, j \in 1..n : j < i => At(zone, j) < At(zone, i)
    <3>1. \A i, j \in 1..n : j < i => At(zone, i) - At(zone, j) > 2 * Widest
      BY <2>1, ZoneIs, Zenon
    <3>2. \A a, b \in Int : a - b > 2 * Widest => b < a
      BY Width
    <3> QED
      BY <2>5, <3>1, <3>2, Zenon
  <2>7. \E m \in 0..n : /\ Turned(zone, m, later)
                        /\ hand' = later + Local(zone, m).gmtOffset /\ dst' = Local(zone, m).isDst
    <3>1. CASE set = {}
      <4>1. ASSUME NEW i \in 1..n
            PROVE  At(zone, i) <= later <=> i <= k
        <5>1. At(zone, i) # later /\ (At(zone, i) <= clock <=> i <= k)
          BY <2>2, <3>1 DEF Turned
        <5>2. At(zone, i) > clock => At(zone, i) >= later
          BY <2>1, <2>5, StepsApart
        <5> HIDE DEF later
        <5> QED
          BY <2>1, <2>4, <2>5, <5>1, <5>2
      <4>2. Local(zone, k).gmtOffset \in Int
        BY <2>1, ZoneIs
      <4>3. hand' = later + Local(zone, k).gmtOffset
        BY <2>1, <2>2, <2>3, <3>1, <4>2
      <4> QED
        BY <2>2, <2>3, <3>1, <4>1, <4>3 DEF Turned
    <3>2. CASE set # {}
      <4> DEFINE i == CHOOSE i \in set : TRUE
      <4>1. i \in 1..n /\ At(zone, i) = later
        BY <3>2, Zenon
      <4> HIDE DEF i
      <4>2. Turned(zone, i, later)
        <5> HIDE DEF later
        <5> QED
          BY <2>1, <2>4, <2>5, <2>6, <4>1 DEF Turned
      <4>3. Local(zone, i) = zone.localtimes[zone.transitions[i][2]] /\ i \in 0..n
        BY <2>1, <4>1 DEF Local
      <4> QED
        BY <2>3, <3>2, <4>2, <4>3, Zenon DEF i
    <3> QED
      BY <3>1, <3>2
  <2> QED
    BY <2>1, <2>3, <2>4, <2>7, Zenon DEF ZoneInv
<1> QED
  BY <1>1, <1>2

LEMMA WayBack ==
  \A tm, o, try :
    Zone!findLocaltime(tm.at, FALSE).gmtOffset = o /\ Zone!toLocalTime(tm.at - o) = try =>
       Zone!fromLocalTime(tm) = (tm.at - o) - (IF Zone!IsAmbiguous(tm, try) THEN Zone!Hour ELSE 0)
BY Zenon DEF Zone!fromLocalTime

LEMMA MinuteOfItself == \A t : Zone!SameMinute(t, t)
BY SMT DEF Zone!SameMinute
LEMMA IsTrue == \A x \in BOOLEAN : (x => x = TRUE) /\ (~x => x = FALSE)
BY Zenon

\* The hand of the clock, and the moment from it, in the hour too that it shows twice.
LEMMA MomentFound ==
  ASSUME ZoneInv
  PROVE  Zone!LocalTimeIsTheClock /\ Zone!ZoneRoundTrip
<1> DEFINE n == Len(zone.transitions)
           O(i) == Local(zone, i).gmtOffset
           D(i) == Local(zone, i).isDst
           key(i) == Zone!KeyOf(Zone!Table[i], FALSE)
<1>1. /\ Regular(zone) /\ clock \in Int /\ n \in Nat /\ DOMAIN zone.transitions = 1..n
  BY ZoneIs DEF ZoneInv
<1>2. PICK k \in 0..n : /\ Turned(zone, k, clock)
                        /\ hand = clock + O(k) /\ dst = D(k)
  BY Zenon DEF ZoneInv
<1>3. Zone!toLocalTime(clock) = [at |-> hand, isDst |-> dst]
  BY <1>1, <1>2, LocalIs
<1>4. \A i \in 0..n : O(i) \in Int /\ O(i) <= Widest /\ -O(i) <= Widest
  <2>1. \A i \in 0..n : Local(zone, i) \in [gmtOffset : Int, isDst : BOOLEAN]
                        /\ O(i) <= Widest /\ -O(i) <= Widest
    BY <1>1, ZoneIs, Zenon
  <2> QED
    BY <2>1
<1>5. \A i \in 1..n : At(zone, i) \in Int /\ key(i) = At(zone, i) + O(i)
  <2>1. \A i \in 1..n : i \in 0..n /\ i # 0
    BY <1>1
  <2>2. \A i \in 1..n : /\ Zone!Table[i].localtime
                              = zone.transitions[i][1] + zone.localtimes[zone.transitions[i][2]].gmtOffset
                        /\ Local(zone, i) = zone.localtimes[zone.transitions[i][2]]
    BY <1>1, <2>1 DEF Zone!Table, Zone!Transitions, Zone!Localtimes, Local
  <2>3. \A i \in 1..n : At(zone, i) \in Int
    BY <1>1, ZoneIs
  <2> QED
    BY <2>2, <2>3, Zenon DEF Zone!KeyOf, At
<1>6. \A i, j \in 1..n : j < i => At(zone, i) - At(zone, j) > 2 * Widest
  BY <1>1, ZoneIs
<1>7. \A i \in 1..n : /\ i - 1 \in 0..n
                      /\ O(i - 1) > O(i) => O(i - 1) - O(i) = Zone!Hour /\ D(i - 1) /\ ~D(i)
  <2>1. \A i \in 1..n : i - 1 \in 0..n
    BY <1>1
  <2> QED
    BY <1>1, <2>1, ZoneIs, Zenon DEF ComesBack
<1>8. \A i \in 1..n : key(i) \in Int
  <2>1. \A i \in 1..n : i \in 0..n
    BY <1>1
  <2> HIDE DEF key, O
  <2> QED
    BY <1>4, <1>5, <2>1
<1>9. /\ \A i \in 1..n : At(zone, i) <= clock <=> i <= k
      /\ hand \in Int /\ hand - O(k) = clock /\ O(k) \in Int
  BY <1>1, <1>2, <1>4 DEF Turned
<1>10. \A i, j \in 1..n : j < i => key(i) > At(zone, j) + Widest
  <2>1. \A a, b, o \in Int : a - b > 2 * Widest /\ -o <= Widest => a + o > b + Widest
    BY Width
  <2>2. \A i \in 1..n : i \in 0..n
    BY <1>1
  <2> QED
    BY <1>4, <1>5, <1>6, <2>1, <2>2, Zenon
<1> HIDE DEF O, D, key, n
<1>11. \A i \in 1..n : i <= k => key(i) <= hand
  <2> SUFFICES ASSUME NEW i \in 1..n, i <= k PROVE key(i) <= hand
    OBVIOUS
  <2>1. CASE i = k
    BY <1>2, <1>5, <1>9, <2>1
  <2>2. CASE i < k
    <3>1. k \in 1..n /\ i \in 0..n
      BY <1>1, <2>2
    <3>2. At(zone, k) - At(zone, i) > 2 * Widest /\ At(zone, k) <= clock
      BY <1>6, <1>9, <2>2, <3>1
    <3>3. /\ O(i) <= Widest /\ -O(k) <= Widest /\ O(i) \in Int
          /\ key(i) = At(zone, i) + O(i) /\ At(zone, i) \in Int /\ At(zone, k) \in Int
      BY <1>4, <1>5, <3>1
    <3> QED
      BY SMTT(30), <1>1, <1>2, <1>9, <3>2, <3>3, Width
  <2> QED
    BY <1>1, <2>1, <2>2
<1>12. \A i \in 1..n : i > k + 1 => key(i) > hand
  <2> SUFFICES ASSUME NEW i \in 1..n, i > k + 1 PROVE key(i) > hand
    OBVIOUS
  <2>1. k + 1 \in 1..n /\ k + 1 < i
    BY <1>1
  <2>2. key(i) > At(zone, k + 1) + Widest /\ key(i) \in Int
    <3>1. i \in 0..n
      BY <1>1
    <3> QED
      BY <1>4, <1>5, <1>10, <2>1, <3>1
  <2>3. At(zone, k + 1) > clock /\ At(zone, k + 1) \in Int
    BY <1>1, <1>5, <1>9, <2>1
  <2>4. clock \in Int /\ O(k) <= Widest /\ hand - O(k) = clock /\ hand \in Int /\ O(k) \in Int
    BY <1>1, <1>4, <1>9
  <2> QED
    BY <2>2, <2>3, <2>4, Width
<1> DEFINE tm == [at |-> hand, isDst |-> dst]
<1>13. CASE \A i \in 1..n : key(i) <= hand <=> i <= k
  <2>1. Zone!findLocaltime(hand, FALSE) = Local(zone, k)
    BY <1>1, <1>2, <1>9, <1>13, LastIs DEF n, key
  <2>2. Zone!toLocalTime(hand - O(k)) = tm
    BY <1>3, <1>9
  <2>3. tm.at = hand /\ ~Zone!IsAmbiguous(tm, tm)
    BY Zenon DEF Zone!IsAmbiguous
  <2> HIDE DEF tm
  <2>4. Zone!fromLocalTime(tm) = (hand - O(k)) - 0
    <3>1. Zone!findLocaltime(tm.at, FALSE).gmtOffset = O(k)
      BY <2>1, <2>3, Zenon DEF O
    <3>2. Zone!toLocalTime(tm.at - O(k)) = tm
      BY <2>2, <2>3, Zenon
    <3>3. Zone!fromLocalTime(tm) = (tm.at - O(k)) - 0
      <4>1. Zone!fromLocalTime(tm)
              = (tm.at - O(k)) - (IF Zone!IsAmbiguous(tm, tm) THEN Zone!Hour ELSE 0)
        BY <3>1, <3>2, WayBack, Zenon
      <4> QED
        BY <2>3, <4>1, Zenon
    <3> QED
      BY <2>3, <3>3, Zenon
  <2> QED
    BY <1>1, <1>3, <1>9, <2>4 DEF Zone!ZoneRoundTrip, Zone!LocalTimeIsTheClock, tm
<1>14. CASE k + 1 \in 1..n /\ key(k + 1) <= hand
  <2> DEFINE l == k + 1
             moment == hand - O(l)
             try == [at |-> hand, isDst |-> D(l)]
  <2>1. /\ l \in 1..n /\ l \in 0..n /\ l - 1 = k /\ O(l) \in Int /\ O(k) \in Int
        /\ At(zone, l) \in Int /\ At(zone, l) > clock /\ At(zone, l) + O(l) <= hand
    <3>1. l \in 1..n /\ l \in 0..n /\ l - 1 = k /\ ~(l <= k)
      BY <1>1, <1>14
    <3>2. key(l) <= hand
      BY <1>14
    <3> HIDE DEF l
    <3>3. /\ O(l) \in Int /\ O(k) \in Int /\ At(zone, l) \in Int
          /\ key(l) = At(zone, l) + O(l)
      BY <1>4, <1>5, <3>1
    <3> QED
      BY <1>1, <1>9, <3>1, <3>2, <3>3
  <2>2. O(k) - O(l) = Zone!Hour /\ D(k) /\ ~D(l)
    <3>1. O(k) > O(l)
      BY <1>1, <1>2, <1>9, <2>1
    <3> HIDE DEF l
    <3> QED
      BY <1>7, <2>1, <3>1
  <2>3. Zone!findLocaltime(hand, FALSE) = Local(zone, l)
    <3>1. \A i \in 1..n : key(i) <= hand <=> i <= l
      <4> SUFFICES ASSUME NEW i \in 1..n PROVE key(i) <= hand <=> i <= l
        OBVIOUS
      <4>1. CASE i <= k
        BY <1>1, <1>11, <4>1
      <4>2. CASE i = k + 1
        BY <1>1, <1>14, <4>2
      <4>3. CASE i > k + 1
        BY <1>9, <1>12, <1>8, <4>3
      <4> QED
        BY <1>1, <4>1, <4>2, <4>3
    <3> QED
      BY <1>1, <1>9, <2>1, <3>1, LastIs DEF n, key
  <2> HIDE DEF l
  <2>4. moment \in Int /\ moment = clock + Zone!Hour /\ moment + O(l) = hand /\ At(zone, l) <= moment
    BY SMTT(30), <1>1, <1>9, <2>1, <2>2, Width
  <2>5. Turned(zone, l, moment)
    <3> HIDE DEF moment
    <3> SUFFICES ASSUME NEW i \in 1..n PROVE At(zone, i) <= moment <=> i <= l
      BY DEF Turned, n
    <3>1. CASE i < l
      BY SMTT(30), <1>1, <1>2, <1>5, <1>9, <2>1, <2>4, <3>1
    <3>2. CASE i = l
      BY <2>4, <2>1, <3>2
    <3>3. CASE i > l
      <4>1. At(zone, i) - At(zone, l) > 2 * Widest /\ At(zone, i) \in Int
        BY <1>5, <1>6, <2>1, <3>3
      <4> QED
        BY <1>1, <2>1, <2>4, <3>3, <4>1, Width
    <3> QED
      BY <1>1, <2>1, <3>1, <3>2, <3>3
  <2>6. Zone!toLocalTime(moment) = try
    BY <1>1, <2>1, <2>4, <2>5, LocalIs DEF n, O, D
  <2>7. tm.at = hand /\ tm.isDst = dst /\ Zone!IsAmbiguous(tm, try)
    <3>1. tm.at = hand /\ tm.isDst = dst /\ try.at = hand /\ try.isDst = D(l)
      BY Zenon
    <3>2. D(k) = TRUE /\ D(l) = FALSE
      <4>1. /\ Local(zone, k) \in [gmtOffset : Int, isDst : BOOLEAN]
            /\ Local(zone, l) \in [gmtOffset : Int, isDst : BOOLEAN]
        BY <1>1, <1>2, <2>1, ZoneIs, Zenon DEF n
      <4>2. D(k) \in BOOLEAN /\ D(l) \in BOOLEAN
        BY <4>1, Zenon DEF D
      <4> QED
        BY <2>2, <4>2, IsTrue, Zenon
    <3> HIDE DEF tm, try
    <3>3. dst = TRUE
      BY <1>2, <3>2
    <3>4. Zone!SameMinute(try.at, tm.at)
      BY <3>1, MinuteOfItself, Zenon
    <3> QED
      BY <3>1, <3>2, <3>3, <3>4, Zenon DEF Zone!IsAmbiguous
  <2> HIDE DEF tm, try
  <2>8. Zone!fromLocalTime(tm) = moment - Zone!Hour
    <3>1. Zone!findLocaltime(tm.at, FALSE).gmtOffset = O(l)
      BY <2>3, <2>7, Zenon DEF O
    <3>2. Zone!toLocalTime(tm.at - O(l)) = try
      BY <2>6, <2>7, Zenon
    <3> HIDE DEF moment
    <3>3. Zone!fromLocalTime(tm) = (tm.at - O(l)) - Zone!Hour
      <4>1. Zone!fromLocalTime(tm)
              = (tm.at - O(l)) - (IF Zone!IsAmbiguous(tm, try) THEN Zone!Hour ELSE 0)
        BY <3>1, <3>2, WayBack, Zenon
      <4> QED
        BY <2>7, <4>1, Zenon
    <3> QED
      BY <2>7, <3>3 DEF moment
  <2> HIDE DEF moment
  <2>9. Zone!fromLocalTime(tm) = clock
    BY <1>1, <2>4, <2>8, Width
  <2> QED
    BY <1>3, <2>9, Zenon DEF Zone!ZoneRoundTrip, Zone!LocalTimeIsTheClock, tm
<1>15. CASE ~(k + 1 \in 1..n /\ key(k + 1) <= hand)
  <2>1. \A i \in 1..n : key(i) <= hand <=> i <= k
    <3> SUFFICES ASSUME NEW i \in 1..n PROVE key(i) <= hand <=> i <= k
      OBVIOUS
    <3>1. CASE i <= k
      BY <1>11, <3>1
    <3>2. CASE i = k + 1
      BY <1>1, <1>15, <3>2
    <3>3. CASE i > k + 1
      BY <1>9, <1>12, <1>8, <3>3
    <3> QED
      BY <1>1, <3>1, <3>2, <3>3
  <2> QED
    BY <1>13, <2>1
<1> QED
  BY <1>14, <1>15

(* From 1900 on and in every zone that ZonesAssumption describes: the dates and
   the numbers of days, every moment of a day in UTC and back (Date.cc,
   toUtcTime, fromUtcTime), the local time and the way back (toLocalTime,
   fromLocalTime), in the hour too that the clock shows twice. *)
THEOREM TimesKept == Dates!CalendarSpec /\ Zone!ZoneSpec => []TimesAgree
<1>1. Dates!CalendarInit => CalendarInv
  BY CalendarStarts
<1>2. CalendarInv /\ [Dates!Turn]_(Dates!calendarVars) => CalendarInv'
  BY TurnKept
<1>3. CalendarInv => Dates!DatesAgree /\ Dates!UtcRoundTrip
  <2>1. CalendarInv => Dates!DatesAgree
    BY FoundAgain DEF CalendarInv, Day, Dates!DatesAgree
  <2> QED
    BY <2>1, TimeFound, DatesAssumption
<1>4. Zone!ZoneInit => ZoneInv
  BY ZoneStarts
<1>5. ZoneInv /\ [Zone!Walk]_(Zone!zoneVars) => ZoneInv'
  BY WalkKept
<1>6. CalendarInv /\ ZoneInv => TimesAgree
  BY <1>3, MomentFound DEF TimesAgree
<1> QED
  BY <1>1, <1>2, <1>4, <1>5, <1>6, PTL DEF Dates!CalendarSpec, Zone!ZoneSpec
-----------------------------------------------------------------------------
(* Buffer: the integers. *)

\* A number that is a multiple and a rest is taken apart again.
LEMMA QuotientIs ==
  \A q \in Int, m \in Nat, r \in Int :
    m > 0 /\ 0 <= r /\ r < m => (q * m + r) \div m = q /\ (m * q + r) % m = r
OBVIOUS

\* The recursion of a number that is read digit by digit, in base b from a on.
Reads(f, N, a, b, c) == f[0] = a /\ \A i \in 1..N : f[i] = b * f[i - 1] + c[i]
Digits(f, N, a, b, c) == f \in [0..N -> Nat] /\ Reads(f, N, a, b, c)

\* It has a solution,
LEMMA DigitsExist ==
  ASSUME NEW N \in Nat, NEW a \in Nat, NEW b \in Nat, NEW c,
         \A i \in 1..N : c[i] \in Nat
  PROVE  \E f : Digits(f, N, a, b, c)
<1> DEFINE S == {n \in 0..N : ~\E f : Digits(f, n, a, b, c)}
<1>1. CASE S = {}
  BY <1>1
<1>2. CASE S # {}
  <2>1. PICK n \in S : \A m \in S : n <= m
    <3>1. S \subseteq Nat
      OBVIOUS
    <3> HIDE DEF S
    <3> QED
      BY <1>2, <3>1, LeastIs
  <2>2. CASE n = 0
    <3>1. Digits([i \in 0..0 |-> a], 0, a, b, c)
      BY DEF Digits, Reads
    <3> QED
      BY <2>1, <2>2, <3>1
  <2>3. CASE n # 0
    <3>1. n - 1 \in 0..N /\ n \in 1..N /\ ~(n <= n - 1) /\ n \in Nat /\ n - 1 \in Nat
      BY <2>1, <2>3
    <3>2. PICK f : Digits(f, n - 1, a, b, c)
      <4>1. n - 1 \notin S
        <5> HIDE DEF S
        <5> QED
          BY <2>1, <3>1
      <4> QED
        BY <3>1, <4>1
    <3>3. /\ f \in [0..(n - 1) -> Nat] /\ f[0] = a
          /\ \A i \in 1..(n - 1) : f[i] = b * f[i - 1] + c[i]
      BY <3>2 DEF Digits, Reads
    <3> DEFINE g == [i \in 0..n |-> IF i = n THEN b * f[n - 1] + c[n] ELSE f[i]]
    <3>4. b * f[n - 1] + c[n] \in Nat
      <4>1. f[n - 1] \in Nat /\ c[n] \in Nat
        BY <3>1, <3>3
      <4> QED
        BY <4>1
    <3>5. g \in [0..n -> Nat] /\ g[0] = a
      <4>1. \A i \in 0..n : i # n => f[i] \in Nat
        BY <3>1, <3>3
      <4> QED
        BY <2>3, <3>1, <3>3, <3>4, <4>1
    <3>6. ASSUME NEW i \in 1..n PROVE g[i] = b * g[i - 1] + c[i]
      <4>1. CASE i = n
        BY <3>1, <4>1
      <4>2. CASE i # n
        <5>1. i \in 1..(n - 1) /\ i - 1 \in 0..n /\ i - 1 # n /\ i \in 0..n
          BY <3>1, <4>2
        <5>2. g[i] = f[i] /\ g[i - 1] = f[i - 1]
          BY <4>2, <5>1
        <5> QED
          BY <3>3, <5>1, <5>2
      <4> QED
        BY <4>1, <4>2
    <3>7. Digits(g, n, a, b, c)
      BY <3>5, <3>6 DEF Digits, Reads
    <3> QED
      BY <2>1, <3>7
  <2> QED
    BY <2>2, <2>3
<1> QED
  BY <1>1, <1>2

\* and no second one.
LEMMA DigitsUnique ==
  ASSUME NEW N \in Nat, NEW a \in Nat, NEW b \in Nat, NEW c,
         NEW f, NEW g, Reads(f, N, a, b, c), Reads(g, N, a, b, c)
  PROVE  \A i \in 0..N : f[i] = g[i]
<1> DEFINE S == {i \in 0..N : f[i] # g[i]}
<1> SUFFICES ASSUME S # {} PROVE FALSE
  OBVIOUS
<1>1. PICK k \in S : \A m \in S : k <= m
  <2>1. S \subseteq Nat
    OBVIOUS
  <2> HIDE DEF S
  <2> QED
    BY <2>1, LeastIs
<1>2. k # 0 /\ k \in 1..N /\ k - 1 \in 0..N /\ k - 1 \notin S
  BY <1>1 DEF Digits, Reads
<1>3. f[k - 1] = g[k - 1]
  BY <1>2
<1>5. f[k] = g[k]
  BY <1>2, <1>3 DEF Digits, Reads
<1> QED
  BY <1>1, <1>5

\* A function that is defined so is the solution.
LEMMA DigitsChosen ==
  ASSUME NEW N \in Nat, NEW a \in Nat, NEW b \in Nat, NEW c,
         \A i \in 1..N : c[i] \in Nat
  PROVE  LET F(f) == f = [i \in 0..N |-> IF i = 0 THEN a ELSE b * f[i - 1] + c[i]]
         IN Digits(CHOOSE f : F(f), N, a, b, c)
<1> DEFINE F(f) == f = [i \in 0..N |-> IF i = 0 THEN a ELSE b * f[i - 1] + c[i]]
           h == CHOOSE f : F(f)
<1>1. PICK f : Digits(f, N, a, b, c)
  BY DigitsExist
<1>2. F(f)
  <2>1. \A i \in 0..N : f[i] = IF i = 0 THEN a ELSE b * f[i - 1] + c[i]
    BY <1>1 DEF Digits, Reads
  <2> QED
    BY <1>1, <2>1 DEF Digits, Reads
<1>3. F(h)
  BY <1>2
<1> HIDE DEF h
<1>4. /\ h = [i \in 0..N |-> h[i]] /\ h[0] = a
      /\ \A i \in 1..N : h[i] = b * h[i - 1] + c[i]
  <2>1. h = [i \in 0..N |-> IF i = 0 THEN a ELSE b * h[i - 1] + c[i]]
    BY <1>3
  <2>2. \A i \in 0..N : h[i] = IF i = 0 THEN a ELSE b * h[i - 1] + c[i]
    BY <2>1
  <2>3. h = [i \in 0..N |-> h[i]]
    BY <2>1
  <2>4. \A i \in 1..N : i \in 0..N /\ i # 0
    OBVIOUS
  <2>5. 0 \in 0..N
    OBVIOUS
  <2> QED
    BY <2>2, <2>3, <2>4, <2>5
<1>5. \A i \in 0..N : f[i] = h[i]
  <2>1. Reads(f, N, a, b, c) /\ Reads(h, N, a, b, c)
    BY <1>1, <1>4 DEF Digits, Reads
  <2> QED
    BY <2>1, DigitsUnique
<1>6. \A i \in 0..N : f[i] \in Nat
  BY <1>1 DEF Digits, Reads
<1>7. h \in [0..N -> Nat]
  BY <1>4, <1>5, <1>6
<1>8. Digits(h, N, a, b, c)
  BY <1>4, <1>7 DEF Digits, Reads
<1> QED
  BY <1>8 DEF h

\* The values of a byte are the digits, and a power of their number is what it should be.
Base == Cardinality(Bytes)
LEMMA BaseIs == Base \in Nat /\ Base > 0 /\ Bytes = 0..(Base - 1)
<1>1. Base \in Nat
  BY BufferAssumption, FS_CardinalityType DEF Base
<1>2. Bytes = 0..(Base - 1) /\ Bytes # {}
  BY BufferAssumption DEF Base
<1> QED
  BY <1>1, <1>2

Zeros == [i \in Nat |-> 0]
LEMMA PowerRead ==
  ASSUME NEW n \in Nat
  PROVE  \E f : Digits(f, n, 1, Base, Zeros) /\ Power(n) = f[n]
<1> DEFINE F(f) == f = [i \in 0..n |-> IF i = 0 THEN 1 ELSE Base * f[i - 1]]
           h == CHOOSE f : F(f)
<1>1. Base \in Nat
  BY BaseIs
<1>2. PICK f : Digits(f, n, 1, Base, Zeros)
  <2>1. \A i \in 1..n : Zeros[i] \in Nat
    BY DEF Zeros
  <2> QED
    BY <1>1, <2>1, DigitsExist
<1>3. \A g : g \in [0..n -> Nat] => \A i \in 1..n : Base * g[i - 1] + Zeros[i] = Base * g[i - 1]
  <2> SUFFICES ASSUME NEW g \in [0..n -> Nat], NEW i \in 1..n
               PROVE  Base * g[i - 1] + Zeros[i] = Base * g[i - 1]
    OBVIOUS
  <2>1. Zeros[i] = 0 /\ g[i - 1] \in Nat
    BY DEF Zeros
  <2>2. Base * g[i - 1] \in Nat
    BY <1>1, <2>1
  <2> QED
    BY <2>1, <2>2
<1>4. F(f)
  <2>1. /\ f \in [0..n -> Nat] /\ f[0] = 1
        /\ \A i \in 1..n : f[i] = Base * f[i - 1]
    BY <1>2, <1>3 DEF Digits, Reads
  <2>2. \A i \in 0..n : i = 0 \/ i \in 1..n
    OBVIOUS
  <2>3. \A i \in 0..n : f[i] = IF i = 0 THEN 1 ELSE Base * f[i - 1]
    BY <2>1, <2>2
  <2> QED
    BY <2>1, <2>3
<1>5. F(h)
  BY <1>4
<1>6. Power(n) = h[n]
  BY DEF Power, Base
<1> HIDE DEF h
<1>7. /\ h[0] = 1 /\ \A i \in 1..n : h[i] = Base * h[i - 1]
  <2>1. h = [i \in 0..n |-> IF i = 0 THEN 1 ELSE Base * h[i - 1]]
    BY <1>5
  <2>2. \A i \in 0..n : h[i] = IF i = 0 THEN 1 ELSE Base * h[i - 1]
    BY <2>1
  <2>3. \A i \in 1..n : i \in 0..n /\ i # 0
    OBVIOUS
  <2>4. 0 \in 0..n
    OBVIOUS
  <2> QED
    BY <2>2, <2>3, <2>4
<1>8. h[n] = f[n]
  <2> DEFINE S == {i \in 0..n : h[i] # f[i]}
  <2>1. S = {}
    <3> SUFFICES ASSUME S # {} PROVE FALSE
      OBVIOUS
    <3>1. PICK k \in S : \A m \in S : k <= m
      <4>1. S \subseteq Nat
        OBVIOUS
      <4> HIDE DEF S
      <4> QED
        BY <4>1, LeastIs
    <3>2. k # 0 /\ k \in 1..n /\ k - 1 \in 0..n /\ k - 1 \notin S
      BY <1>2, <1>7, <3>1 DEF Digits, Reads
    <3>3. h[k] = Base * h[k - 1] /\ f[k] = Base * f[k - 1]
      BY <1>2, <1>3, <1>7, <3>2 DEF Digits, Reads
    <3> QED
      BY <3>1, <3>2, <3>3
  <2> QED
    BY <2>1
<1> QED
  BY <1>2, <1>6, <1>8

LEMMA PowerIs ==
  ASSUME NEW n \in Nat
  PROVE  /\ Power(n) \in Nat /\ Power(n) > 0 /\ Power(0) = 1 /\ Power(1) = Base
         /\ Power(n + 1) = Base * Power(n)
<1>0. Base \in Nat /\ Base > 0
  BY BaseIs
<1> DEFINE z == Zeros
<1>1. ASSUME NEW m \in Nat PROVE Power(m) \in Nat /\ Power(0) = 1
  <2>1. PICK f : Digits(f, m, 1, Base, Zeros) /\ Power(m) = f[m]
    BY PowerRead
  <2>2. PICK g : Digits(g, 0, 1, Base, Zeros) /\ Power(0) = g[0]
    BY PowerRead
  <2> QED
    BY <2>1, <2>2 DEF Digits, Reads
<1>2. ASSUME NEW m \in Nat PROVE Power(m + 1) = Base * Power(m)
  <2>1. PICK f : Digits(f, m, 1, Base, Zeros) /\ Power(m) = f[m]
    BY PowerRead
  <2>2. PICK g : Digits(g, m + 1, 1, Base, Zeros) /\ Power(m + 1) = g[m + 1]
    BY PowerRead
  <2>3. Reads(g, m, 1, Base, Zeros) /\ Reads(f, m, 1, Base, Zeros)
    BY <2>1, <2>2 DEF Digits, Reads
  <2>4. \A i \in 0..m : f[i] = g[i]
    <3>1. 1 \in Nat
      OBVIOUS
    <3> QED
      BY <1>0, <2>3, <3>1, DigitsUnique
  <2>5. g[m + 1] = Base * g[m] + Zeros[m + 1]
    <3>1. m + 1 \in 1..(m + 1) /\ (m + 1) - 1 = m
      OBVIOUS
    <3> QED
      BY <2>2, <3>1 DEF Digits, Reads
  <2>6. Zeros[m + 1] = 0 /\ g[m] = f[m] /\ f[m] \in Nat
    BY <2>1, <2>4 DEF Zeros, Digits
  <2>7. Base * f[m] \in Nat
    BY <1>0, <2>6
  <2> QED
    BY <2>1, <2>2, <2>5, <2>6, <2>7
<1>3. Power(n) > 0
  <2> DEFINE S == {i \in Nat : Power(i) = 0}
  <2>1. S = {}
    <3> SUFFICES ASSUME S # {} PROVE FALSE
      OBVIOUS
    <3>1. PICK k \in S : \A m \in S : k <= m
      <4>1. S \subseteq Nat
        OBVIOUS
      <4> HIDE DEF S
      <4> QED
        BY <4>1, LeastIs
    <3>2. k # 0 /\ k - 1 \in Nat /\ k - 1 \notin S /\ (k - 1) + 1 = k
      BY <1>1, <3>1
    <3>3. Power(k) = Base * Power(k - 1) /\ Power(k - 1) \in Nat /\ Power(k - 1) # 0
      BY <1>1, <1>2, <3>2
    <3>4. \A x, y \in Nat : x # 0 /\ y # 0 => x * y # 0
      OBVIOUS
    <3> QED
      BY <1>0, <3>1, <3>3, <3>4
  <2> QED
    BY <1>1, <2>1
<1>4. Power(1) = Base
  <2>1. Power(0 + 1) = Base * Power(0)
    BY <1>2
  <2> QED
    BY <1>0, <1>1, <2>1
<1> QED
  BY <1>1, <1>2, <1>3, <1>4

\* networkToHost reads the bytes as digits, and gives the number or the negative one
\* that stands for it.
LEMMA ValueRead ==
  ASSUME NEW s \in Seq(Bytes)
  PROVE  \E u : /\ Digits(u, Len(s), 0, Base, s)
                /\ networkToHost(s) \in {u[Len(s)], u[Len(s)] - Power(Len(s))}
<1> DEFINE n == Len(s)
           F(f) == f = [i \in 0..n |-> IF i = 0 THEN 0 ELSE Power(1) * f[i - 1] + s[i]]
           h == CHOOSE f : F(f)
<1>1. n \in Nat /\ Base \in Nat /\ Power(1) = Base /\ 0 \in Nat
  <2>1. n \in Nat /\ 0 \in Nat
    OBVIOUS
  <2> QED
    BY <2>1, BaseIs, PowerIs
<1>2. \A i \in 1..n : s[i] \in Nat
  BY BaseIs
<1>3. networkToHost(s) = IF h[n] \in Ints(n) THEN h[n] ELSE h[n] - Power(n)
  BY DEF networkToHost
<1>4. Digits(h, n, 0, Power(1), s)
  <2> DEFINE b == Power(1)
             G(f) == f = [i \in 0..n |-> IF i = 0 THEN 0 ELSE b * f[i - 1] + s[i]]
  <2>1. b \in Nat
    BY <1>1
  <2> HIDE DEF b
  <2>2. Digits(CHOOSE f : G(f), n, 0, b, s)
    <3> HIDE DEF n
    <3> QED
      BY <1>1, <1>2, <2>1, DigitsChosen
  <2> QED
    BY <2>2 DEF b
<1> HIDE DEF h
<1> QED
  BY <1>1, <1>3, <1>4

\* The first digits, and the rest.
Split(u, k, j) ==
    /\ Power(j) = Power(k) * Power(j - k)
    /\ \E r \in Nat : r < Power(j - k) /\ u[j] = u[k] * Power(j - k) + r
LEMMA OneMoreDigit ==
  ASSUME NEW p \in Nat, NEW q \in Nat, NEW b \in Nat, b > 0, NEW v \in Nat,
         NEW r \in Nat, r < p, NEW d \in Nat, d < b
  PROVE  /\ b * (q * p) = q * (b * p)
         /\ b * (v * p + r) + d = v * (b * p) + (b * r + d)
         /\ b * r + d \in Nat /\ b * r + d < b * p
<1>1. b * (q * p) = q * (b * p)
  OBVIOUS
<1>2. b * (v * p + r) = v * (b * p) + b * r
  OBVIOUS
<1>3. b * r \in Nat /\ b * p \in Nat /\ v * (b * p) \in Nat
  OBVIOUS
<1>4. b * r + b <= b * p
  <2>1. r + 1 <= p
    OBVIOUS
  <2>2. b * (r + 1) <= b * p
    BY <2>1
  <2>3. b * (r + 1) = b * r + b
    OBVIOUS
  <2> QED
    BY <2>2, <2>3
<1>5. b * r + d < b * p
  BY <1>3, <1>4
<1>6. b * (v * p + r) + d = v * (b * p) + (b * r + d)
  BY <1>2, <1>3
<1> QED
  BY <1>1, <1>3, <1>5, <1>6

LEMMA DigitsSplit ==
  ASSUME NEW n \in Nat, NEW c, \A i \in 1..n : c[i] \in Bytes,
         NEW u, Digits(u, n, 0, Base, c), NEW k \in 0..n
  PROVE  \A j \in k..n : Split(u, k, j)
<1> DEFINE S == {j \in k..n : ~Split(u, k, j)}
<1>0. Base \in Nat /\ Base > 0 /\ Bytes = 0..(Base - 1) /\ k \in Nat
  BY BaseIs
<1>u. /\ \A i \in 0..n : u[i] \in Nat
      /\ \A i \in 1..n : u[i] = Base * u[i - 1] + c[i] /\ c[i] \in Nat /\ c[i] < Base
  BY <1>0 DEF Digits, Reads
<1> SUFFICES ASSUME S # {} PROVE FALSE
  OBVIOUS
<1>1. PICK j \in S : \A m \in S : j <= m
  <2>1. S \subseteq Nat
    OBVIOUS
  <2> HIDE DEF S
  <2> QED
    BY <2>1, LeastIs
<1>2. CASE j = k
  <2>1. Power(0) = 1 /\ Power(k) \in Nat /\ u[k] \in Nat /\ k - k = 0
    BY <1>0, <1>u, PowerIs
  <2>2. Power(k) = Power(k) * 1 /\ u[k] = u[k] * 1 + 0 /\ 0 < 1 /\ 0 \in Nat
    BY <2>1
  <2>3. Split(u, k, k)
    BY <2>1, <2>2 DEF Split
  <2> QED
    BY <1>1, <1>2, <2>3
<1>3. CASE j # k
  <2>1. /\ j - 1 \in k..n /\ j \in 1..n /\ j - 1 \in 0..n /\ j - 1 \in Nat /\ j \in k..n
        /\ (j - 1) + 1 = j /\ (j - 1) - k \in Nat /\ ((j - 1) - k) + 1 = j - k
        /\ ~(j <= j - 1)
    BY <1>0, <1>1, <1>3
  <2>2. Split(u, k, j - 1)
    <3>1. j - 1 \notin S
      <4> HIDE DEF S
      <4> QED
        BY <1>1, <2>1
    <3> QED
      BY <2>1, <3>1
  <2> DEFINE p == Power((j - 1) - k)
             q == Power(k)
             v == u[k]
             d == c[j]
  <2>3. PICK r \in Nat : r < p /\ u[j - 1] = v * p + r
    BY <2>2 DEF Split
  <2>4. Power(j - 1) = q * p
    BY <2>2 DEF Split
  <2>5. Power(j) = Base * Power(j - 1) /\ Power(j - k) = Base * p
    BY <2>1, PowerIs
  <2>6. p \in Nat /\ q \in Nat /\ v \in Nat /\ d \in Nat /\ d < Base
    BY <1>0, <1>u, <2>1, PowerIs
  <2>7. u[j] = Base * u[j - 1] + d
    BY <1>u, <2>1
  <2> HIDE DEF p, q, v, d
  <2>8. /\ Base * (q * p) = q * (Base * p)
        /\ Base * (v * p + r) + d = v * (Base * p) + (Base * r + d)
        /\ Base * r + d \in Nat /\ Base * r + d < Base * p
    BY <1>0, <2>3, <2>6, OneMoreDigit
  <2>9. Power(j) = Power(k) * Power(j - k)
    BY <2>4, <2>5, <2>8 DEF q
  <2>10. u[j] = u[k] * Power(j - k) + (Base * r + d) /\ Base * r + d < Power(j - k)
    BY <2>3, <2>5, <2>7, <2>8 DEF v
  <2>11. Split(u, k, j)
    BY <2>8, <2>9, <2>10 DEF Split
  <2> QED
    BY <1>1, <2>11
<1> QED
  BY <1>2, <1>3

\* A digit that is written is the digit that was read.
LEMMA DigitReturns ==
  ASSUME NEW s \in Seq(Bytes), NEW k \in 1..Len(s)
  PROVE  (networkToHost(s) \div Power(Len(s) - k)) % Power(1) = s[k]
<1> DEFINE n == Len(s)
           x == networkToHost(s)
           p == Power(n - k)
           q == Power(k - 1)
           d == s[k]
<1>0. /\ n \in Nat /\ k \in 1..n /\ k \in 0..n /\ n \in k..n /\ k \in Nat /\ k - 1 \in Nat
      /\ n - k \in Nat /\ (k - 1) + 1 = k /\ \A i \in 1..n : s[i] \in Bytes
  OBVIOUS
<1>1. /\ Base \in Nat /\ Base > 0 /\ Power(1) = Base /\ p \in Nat /\ p > 0 /\ q \in Nat
      /\ Power(k) = Base * q /\ d \in Nat /\ d < Base
  <2>1. d \in Bytes /\ Bytes = 0..(Base - 1) /\ Base \in Nat
    BY <1>0, BaseIs
  <2>2. d \in Nat /\ d < Base
    BY <2>1
  <2> QED
    BY <1>0, <2>2, BaseIs, PowerIs
<1>2. PICK u : Digits(u, n, 0, Base, s) /\ x \in {u[n], u[n] - Power(n)}
  BY ValueRead
<1>3. Split(u, k, n)
  <2> HIDE DEF n
  <2> QED
    BY <1>0, <1>2, DigitsSplit
<1>4. PICK r \in Nat : r < p /\ u[n] = u[k] * p + r
  BY <1>3 DEF Split
<1>5. Power(n) = Power(k) * p
  BY <1>3 DEF Split
<1>6. u[k] = Base * u[k - 1] + d /\ u[k - 1] \in Nat
  BY <1>0, <1>2 DEF Digits, Reads
<1> DEFINE v == u[k - 1]
           w == u[k]
<1> HIDE DEF n, x, p, q, d, v, w
<1>7. CASE x = u[n]
  <2>1. w = Base * v + d /\ w \in Int /\ v \in Int
    BY <1>1, <1>6 DEF v, w
  <2>2. x \div p = w
    BY <1>1, <1>4, <1>7, <2>1, QuotientIs DEF w
  <2>3. w % Base = d
    BY <1>1, <2>1, QuotientIs
  <2> QED
    BY <1>1, <2>2, <2>3 DEF n, x, p, d
<1>8. CASE x = u[n] - Power(n)
  <2>1. w = Base * v + d /\ w \in Int /\ v \in Int
    BY <1>1, <1>6 DEF v, w
  <2> DEFINE y == w - Base * q
  <2>2. Base * (v - q) = Base * v - Base * q /\ Base * q \in Int /\ Base * v \in Int
    BY <1>1, <2>1
  <2>3. y = Base * (v - q) + d /\ y \in Int /\ v - q \in Int
    BY <1>1, <2>1, <2>2
  <2>4. (w - Base * q) * p = w * p - (Base * q) * p
    <3>1. \A a, b, m \in Int : (a - b) * m = a * m - b * m
      OBVIOUS
    <3> QED
      BY <1>1, <2>1, <2>2, <3>1
  <2>5. x = y * p + r
    <3>1. w * p \in Int /\ (Base * q) * p \in Int
      BY <1>1, <2>1, <2>2
    <3>2. x = (w * p + r) - (Base * q) * p
      BY <1>1, <1>4, <1>5, <1>8 DEF w
    <3> QED
      BY <2>4, <3>1, <3>2
  <2> HIDE DEF y
  <2>6. x \div p = y
    <3>1. p \in Nat /\ p > 0 /\ r \in Nat /\ 0 <= r /\ r < p /\ y \in Int
      BY <1>1, <1>4, <2>3
    <3>2. (y * p + r) \div p = y
      BY <3>1, QuotientIs
    <3> QED
      BY <2>5, <3>2
  <2>7. y % Base = d
    <3> DEFINE z == v - q
    <3>1. y = Base * z + d /\ z \in Int
      BY <2>3
    <3> HIDE DEF z
    <3>2. Base \in Nat /\ Base > 0 /\ d \in Nat /\ 0 <= d /\ d < Base
      BY <1>1
    <3>3. (Base * z + d) % Base = d
      BY <3>1, <3>2, QuotientIs
    <3> QED
      BY <3>1, <3>3
  <2> QED
    BY <1>1, <2>6, <2>7 DEF n, x, p, d
<1> QED
  BY <1>2, <1>7, <1>8

\* Endian.h: the bytes of an integer that was read from them are those bytes, and
\* every integer is written as bytes.
LEMMA IntegersReturn ==
  /\ \A s \in Seq(Bytes) : hostToNetwork(networkToHost(s), Len(s)) = s
  /\ \A x \in Int, n \in Nat : hostToNetwork(x, n) \in Seq(Bytes) /\ Len(hostToNetwork(x, n)) = n
<1>1. ASSUME NEW s \in Seq(Bytes) PROVE hostToNetwork(networkToHost(s), Len(s)) = s
  <2> DEFINE x == networkToHost(s)
  <2>1. \A k \in 1..Len(s) : (x \div Power(Len(s) - k)) % Power(1) = s[k]
    BY DigitReturns
  <2> HIDE DEF x
  <2>2. hostToNetwork(x, Len(s)) = [k \in 1..Len(s) |-> s[k]]
    BY <2>1 DEF hostToNetwork
  <2>3. s = [k \in 1..Len(s) |-> s[k]]
    OBVIOUS
  <2> QED
    BY <2>2, <2>3 DEF x
<1>2. ASSUME NEW x \in Int, NEW n \in Nat
      PROVE  hostToNetwork(x, n) \in Seq(Bytes) /\ Len(hostToNetwork(x, n)) = n
  <2>1. \A y \in Int : y % Power(1) \in Bytes
    <3>1. \A y \in Int : y % Base \in 0..(Base - 1)
      BY BaseIs
    <3>2. Power(1) = Base
      BY PowerIs
    <3> QED
      BY <3>1, <3>2, BaseIs
  <2>2. ASSUME NEW i \in 1..n PROVE (x \div Power(n - i)) % Power(1) \in Bytes
    <3>1. n - i \in Nat
      OBVIOUS
    <3>2. Power(n - i) \in Nat /\ Power(n - i) > 0
      BY <3>1, PowerIs
    <3> DEFINE m == Power(n - i)
    <3> HIDE DEF m
    <3>3. x \div m \in Int
      BY <3>2 DEF m
    <3> QED
      BY <2>1, <3>3 DEF m
  <2>3. hostToNetwork(x, n) \in [1..n -> Bytes]
    BY <2>2 DEF hostToNetwork
  <2> QED
    BY <2>3
<1> QED
  BY <1>1, <1>2

-----------------------------------------------------------------------------
(* Buffer: the array. *)

(* A buffer whose indices are in order and within the array. *)
Fit(b) ==
    /\ b \in [array : Seq(Bytes), r : Nat, w : Nat]
    /\ b.r <= b.w /\ b.w <= Len(b.array)
    /\ Len(b.array) >= kCheapPrepend + kInitialSize

\* The readable bytes, one by one.
LEMMA ReadableIs ==
  ASSUME NEW b, Fit(b)
  PROVE  /\ toStringPiece(b) \in Seq(Bytes) /\ Len(toStringPiece(b)) = b.w - b.r
         /\ \A i \in 1..(b.w - b.r) : toStringPiece(b)[i] = b.array[b.r + i]
         /\ \A s \in Seq(Bytes) :
              /\ Len(s) = b.w - b.r
              /\ \A i \in 1..(b.w - b.r) : s[i] = b.array[b.r + i]
              => toStringPiece(b) = s
<1> DEFINE a == b.array
           r == b.r
           w == b.w
           p == SubSeq(a, r + 1, w)
<1>1. a \in Seq(Bytes) /\ r \in Nat /\ w \in Nat /\ r <= w /\ w <= Len(a) /\ Len(a) \in Nat
  BY DEF Fit
<1>2. toStringPiece(b) = p
  BY DEF toStringPiece
<1> HIDE DEF a, r, w
<1>3. /\ p \in Seq(Bytes) /\ Len(p) = w - r
      /\ \A i \in 1..(w - r) : p[i] = a[r + i]
  <2>1. CASE r < w
    <3>1. r + 1 \in 1..Len(a) /\ w \in 1..Len(a) /\ w - (r + 1) + 1 = w - r
      BY <1>1, <2>1
    <3>2. /\ p \in Seq(Bytes) /\ Len(p) = w - (r + 1) + 1
          /\ \A i \in 1..(w - (r + 1) + 1) : p[i] = a[(r + 1) + i - 1]
      BY <1>1, <2>1, <3>1, SubSeqProperties
    <3>3. \A i \in 1..(w - r) : (r + 1) + i - 1 = r + i
      BY <1>1
    <3> QED
      BY <3>1, <3>2, <3>3
  <2>2. CASE r = w
    BY <1>1, <2>2
  <2> QED
    BY <1>1, <2>1, <2>2
<1>4. ASSUME NEW s \in Seq(Bytes), Len(s) = w - r, \A i \in 1..(w - r) : s[i] = a[r + i]
      PROVE  p = s
  <2> HIDE DEF p
  <2>1. \A i \in 1..Len(s) : p[i] = s[i]
    BY <1>1, <1>3, <1>4
  <2> QED
    BY <1>3, <1>4, <2>1, SeqEqual
<1> HIDE DEF p
<1> QED
  BY <1>2, <1>3, <1>4 DEF a, r, w

\* std::copy and memcpy.
LEMMA CopiedIs ==
  ASSUME NEW a \in Seq(Bytes), NEW at \in Nat, NEW s \in Seq(Bytes)
  PROVE  /\ Copied(a, at, s) \in Seq(Bytes) /\ Len(Copied(a, at, s)) = Len(a)
         /\ \A i \in 1..Len(a) :
              Copied(a, at, s)[i] = IF i - at \in 1..Len(s) THEN s[i - at] ELSE a[i]
<1>1. DOMAIN a = 1..Len(a) /\ DOMAIN s = 1..Len(s) /\ Len(a) \in Nat
  OBVIOUS
<1>2. \A i \in 1..Len(a) : (IF i - at \in 1..Len(s) THEN s[i - at] ELSE a[i]) \in Bytes
  OBVIOUS
<1>3. Copied(a, at, s) = [i \in 1..Len(a) |-> IF i - at \in 1..Len(s) THEN s[i - at] ELSE a[i]]
  BY <1>1 DEF Copied
<1> DEFINE g == [i \in 1..Len(a) |-> IF i - at \in 1..Len(s) THEN s[i - at] ELSE a[i]]
<1>4. g \in [1..Len(a) -> Bytes]
  BY <1>2
<1>5. g \in Seq(Bytes) /\ Len(g) = Len(a)
  BY <1>1, <1>4
<1> QED
  BY <1>3, <1>5

\* Bytes that fit behind the readable ones are appended to them.
LEMMA FilledIs ==
  ASSUME NEW b, Fit(b), NEW s \in Seq(Bytes), Len(s) <= writableBytes(b)
  PROVE  Fit(Filled(b, s)) /\ toStringPiece(Filled(b, s)) = toStringPiece(b) \o s
<1> DEFINE a == b.array
           r == b.r
           w == b.w
           n == Len(s)
           c == Copied(a, w, s)
           f == Filled(b, s)
           p == toStringPiece(b)
<1>1. /\ a \in Seq(Bytes) /\ r \in Nat /\ w \in Nat /\ r <= w /\ w + n <= Len(a)
      /\ Len(a) \in Nat /\ n \in Nat /\ Len(a) >= kCheapPrepend + kInitialSize
  BY DEF Fit, writableBytes
<1>2. f = [array |-> c, r |-> r, w |-> w + n]
  BY DEF Filled
<1>3. /\ c \in Seq(Bytes) /\ Len(c) = Len(a)
      /\ \A i \in 1..Len(a) : c[i] = IF i - w \in 1..n THEN s[i - w] ELSE a[i]
  BY <1>1, CopiedIs
<1>4. p \in Seq(Bytes) /\ Len(p) = w - r /\ \A i \in 1..(w - r) : p[i] = a[r + i]
  BY ReadableIs
<1> HIDE DEF a, r, w, n, c, f, p
<1>5. Fit(f) /\ f.array = c /\ f.r = r /\ f.w = w + n
  <2>1. f.array = c /\ f.r = r /\ f.w = w + n
    BY <1>2
  <2>2. w + n \in Nat /\ r <= w + n /\ w + n <= Len(c)
    BY <1>1, <1>3
  <2>3. f \in [array : Seq(Bytes), r : Nat, w : Nat]
    BY <1>1, <1>2, <1>3, <2>2
  <2>4. Len(c) >= kCheapPrepend + kInitialSize
    BY <1>1, <1>3
  <2> QED
    BY <2>1, <2>2, <2>3, <2>4 DEF Fit
<1>6. p \o s \in Seq(Bytes) /\ Len(p \o s) = (w + n) - r
  <2>1. p \o s \in Seq(Bytes) /\ Len(p \o s) = Len(p) + n
    BY <1>4, ConcatProperties DEF n
  <2>2. (w - r) + n = (w + n) - r
    BY <1>1
  <2> QED
    BY <1>4, <2>1, <2>2
<1>7. ASSUME NEW i \in 1..((w + n) - r) PROVE (p \o s)[i] = c[r + i]
  <2>1. CASE i <= w - r
    <3>1. r + i \in 1..Len(a) /\ ~((r + i) - w \in 1..n) /\ i \in 1..Len(p) /\ i \in 1..(w - r)
      BY <1>1, <1>4, <2>1
    <3>2. (p \o s)[i] = p[i]
      BY <1>4, <3>1, ConcatProperties
    <3>3. c[r + i] = a[r + i]
      BY <1>3, <3>1
    <3> QED
      BY <1>4, <3>1, <3>2, <3>3
  <2>2. CASE i > w - r
    <3>1. /\ r + i \in 1..Len(a) /\ (r + i) - w \in 1..n /\ (r + i) - w = i - Len(p)
          /\ i \in 1..(Len(p) + n) /\ i > Len(p)
      BY <1>1, <1>4, <2>2
    <3>2. (p \o s)[i] = s[i - Len(p)]
      BY <1>4, <3>1, ConcatProperties DEF n
    <3>3. c[r + i] = s[(r + i) - w]
      BY <1>3, <3>1
    <3> QED
      BY <3>1, <3>2, <3>3
  <2>3. i <= w - r \/ i > w - r
    BY <1>1
  <2> QED
    BY <2>1, <2>2, <2>3
<1>8. toStringPiece(f) = p \o s
  BY <1>5, <1>6, <1>7, ReadableIs
<1> QED
  BY <1>5, <1>8 DEF f, p

\* makeSpace: room for len bytes, the readable ones as they were.
LEMMA SpaceMade ==
  ASSUME NEW b, Fit(b), NEW len \in Nat, writableBytes(b) < len
  PROVE  /\ Fit(makeSpace(b, len)) /\ len <= writableBytes(makeSpace(b, len))
         /\ toStringPiece(makeSpace(b, len)) = toStringPiece(b)
         /\ ~Grows(b, len) => kCheapPrepend < b.r
<1> DEFINE a == b.array
           r == b.r
           w == b.w
           p == toStringPiece(b)
           m == makeSpace(b, len)
           new == w + (len - Len(a))
           k == kCheapPrepend
<1>1. /\ a \in Seq(Bytes) /\ r \in Nat /\ w \in Nat /\ r <= w /\ w <= Len(a)
      /\ Len(a) \in Nat /\ Len(a) >= k + kInitialSize /\ Len(a) - w < len /\ k \in Nat
  BY BufferAssumption DEF Fit, writableBytes
<1>2. p \in Seq(Bytes) /\ Len(p) = w - r /\ \A i \in 1..(w - r) : p[i] = a[r + i]
  BY ReadableIs
<1>3. Grows(b, len) <=> (Len(a) - w) + r < len + k
  BY DEF Grows, writableBytes, prependableBytes
<1>4. b = [array |-> a, r |-> r, w |-> w]
  BY DEF Fit
<1>5. CASE Grows(b, len)
  <2>1. m = [array |-> a \o Fresh(new), r |-> r, w |-> w]
    BY <1>5 DEF makeSpace
  <2>2. new \in Nat /\ Len(a) + new = w + len
    BY SMTT(30), <1>1
  <2> HIDE DEF new
  <2>3. Fresh(new) \in Seq(Bytes) /\ Len(Fresh(new)) = new
    <3>1. 0 \in Bytes
      BY BaseIs
    <3>2. Fresh(new) \in [1..new -> Bytes]
      BY <3>1 DEF Fresh
    <3> QED
      BY <2>2, <3>2
  <2> DEFINE c == a \o Fresh(new)
  <2>4. /\ c \in Seq(Bytes) /\ Len(c) = w + len
        /\ \A i \in 1..(w + len) : c[i] = IF i <= Len(a) THEN a[i] ELSE Fresh(new)[i - Len(a)]
    <3>1. c \in Seq(Bytes) /\ Len(c) = Len(a) + new
      BY <1>1, <2>3, ConcatProperties
    <3>2. \A i \in 1..(Len(a) + new) :
             c[i] = IF i <= Len(a) THEN a[i] ELSE Fresh(new)[i - Len(a)]
      BY <1>1, <2>3, ConcatProperties
    <3> QED
      BY <2>2, <3>1, <3>2
  <2> HIDE DEF a, r, w, c, m, p, k
  <2>5. m.array = c /\ m.r = r /\ m.w = w
    BY <2>1 DEF c
  <2>6. Fit(m)
    <3>1. m \in [array : Seq(Bytes), r : Nat, w : Nat]
      BY <1>1, <2>1, <2>4 DEF c
    <3>2. w <= Len(c) /\ Len(c) >= k + kInitialSize
      BY <1>1, <2>2, <2>4, BufferAssumption
    <3> QED
      BY <1>1, <2>5, <3>1, <3>2 DEF Fit, k
  <2>7. len <= writableBytes(m)
    BY <1>1, <2>4, <2>5 DEF writableBytes
  <2>8. \A i \in 1..(w - r) : p[i] = c[r + i]
    <3>1. \A i \in 1..(w - r) : r + i \in 1..(w + len) /\ r + i <= Len(a)
      BY <1>1
    <3> QED
      BY <1>2, <2>4, <3>1
  <2>9. toStringPiece(m) = p
    BY <1>2, <2>5, <2>6, <2>8, ReadableIs
  <2> QED
    BY <1>5, <2>6, <2>7, <2>9 DEF m, p
<1>6. CASE ~Grows(b, len)
  <2> DEFINE c == Copied(a, k, p)
  <2>1. m = [array |-> c, r |-> k, w |-> k + (w - r)]
    BY <1>6 DEF makeSpace, readableBytes
  <2>2. /\ c \in Seq(Bytes) /\ Len(c) = Len(a)
        /\ \A i \in 1..Len(a) : c[i] = IF i - k \in 1..Len(p) THEN p[i - k] ELSE a[i]
    BY ZenonT(40), <1>1, <1>2, CopiedIs
  <2>3. k < r
    BY <1>1, <1>3, <1>6
  <2> HIDE DEF a, r, w, c, m, p, k
  <2>4. m.array = c /\ m.r = k /\ m.w = k + (w - r)
    BY <2>1
  <2>5. k + (w - r) \in Nat /\ k <= k + (w - r) /\ k + (w - r) <= Len(c)
    BY <1>1, <2>2, <2>3
  <2>6. Fit(m)
    <3>1. m \in [array : Seq(Bytes), r : Nat, w : Nat]
      BY <1>1, <2>1, <2>2, <2>5
    <3> QED
      BY <1>1, <2>2, <2>4, <2>5, <3>1 DEF Fit, k
  <2>7. len <= writableBytes(m)
    BY <1>1, <1>3, <1>6, <2>2, <2>4 DEF writableBytes
  <2>8. \A i \in 1..(w - r) : p[i] = c[k + i]
    <3>1. \A i \in 1..(w - r) :
            k + i \in 1..Len(a) /\ (k + i) - k = i /\ i \in 1..Len(p)
      BY <1>1, <1>2, <2>3
    <3> QED
      BY <2>2, <3>1
  <2>9. toStringPiece(m) = p
    <3>1. Len(p) = m.w - m.r
      BY <1>1, <1>2, <2>4
    <3>2. (k + (w - r)) - k = w - r
      BY <1>1
    <3> QED
      BY <1>2, <2>4, <2>6, <2>8, <3>1, <3>2, ReadableIs
  <2> QED
    BY <2>3, <2>6, <2>7, <2>9 DEF m, p, k, r
<1> QED
  BY <1>5, <1>6

\* ensureWritableBytes.
LEMMA RoomEnsured ==
  ASSUME NEW b, Fit(b), NEW len \in Nat
  PROVE  /\ Fit(ensureWritableBytes(b, len))
         /\ len <= writableBytes(ensureWritableBytes(b, len))
         /\ toStringPiece(ensureWritableBytes(b, len)) = toStringPiece(b)
         /\ ensureWritableBytes(b, len) # b /\ ~Grows(b, len) => kCheapPrepend < b.r
<1>1. CASE writableBytes(b) < len
  BY <1>1, SpaceMade DEF ensureWritableBytes
<1>2. CASE ~(writableBytes(b) < len)
  <2>1. writableBytes(b) \in Int
    BY DEF Fit, writableBytes
  <2> QED
    BY <1>2, <2>1 DEF ensureWritableBytes
<1> QED
  BY <1>1, <1>2

\* append.
LEMMA AppendedIs ==
  ASSUME NEW b, Fit(b), NEW s \in Seq(Bytes)
  PROVE  Fit(afterAppend(b, s)) /\ toStringPiece(afterAppend(b, s)) = toStringPiece(b) \o s
<1> DEFINE e == ensureWritableBytes(b, Len(s))
<1>1. Fit(e) /\ Len(s) <= writableBytes(e) /\ toStringPiece(e) = toStringPiece(b)
  BY RoomEnsured
<1> HIDE DEF e
<1>2. Fit(Filled(e, s)) /\ toStringPiece(Filled(e, s)) = toStringPiece(e) \o s
  BY <1>1, FilledIs
<1> QED
  BY <1>1, <1>2 DEF afterAppend, e

\* The first bytes of a sequence and those after them.
LEMMA Cut ==
  ASSUME NEW p \in Seq(Bytes), NEW n \in 0..Len(p)
  PROVE  /\ SubSeq(p, 1, n) \in Seq(Bytes) /\ Len(SubSeq(p, 1, n)) = n
         /\ SubSeq(p, n + 1, Len(p)) \in Seq(Bytes)
         /\ Len(SubSeq(p, n + 1, Len(p))) = Len(p) - n
         /\ \A i \in 1..(Len(p) - n) : SubSeq(p, n + 1, Len(p))[i] = p[n + i]
         /\ p = SubSeq(p, 1, n) \o SubSeq(p, n + 1, Len(p))
<1> DEFINE len == Len(p)
           t == SubSeq(p, n + 1, len)
<1>1. len \in Nat /\ n \in 0..len
  OBVIOUS
<1>2. \A i \in 1..len : p[i] \in Bytes
  OBVIOUS
<1>3. SubSeq(p, 1, n) \in Seq(Bytes) /\ Len(SubSeq(p, 1, n)) = n
  <2>1. \A i \in 1..n : p[i] \in Bytes
    BY <1>1, <1>2
  <2>2. SubSeq(p, 1, n) \in Seq(Bytes) /\ Len(SubSeq(p, 1, n)) = IF 1 <= n THEN n - 1 + 1 ELSE 0
    BY <1>1, <2>1, SubSeqProperties
  <2> QED
    BY <1>1, <2>2
<1>4. /\ t \in Seq(Bytes) /\ Len(t) = len - n /\ \A i \in 1..(len - n) : t[i] = p[n + i]
  <2>1. \A i \in (n + 1)..len : p[i] \in Bytes
    BY <1>1, <1>2
  <2>2. /\ t \in Seq(Bytes) /\ Len(t) = (IF n + 1 <= len THEN len - (n + 1) + 1 ELSE 0)
        /\ \A i \in 1..(len - (n + 1) + 1) : t[i] = p[(n + 1) + i - 1]
    BY <1>1, <2>1, SubSeqProperties
  <2> HIDE DEF t, len
  <2>3. len - (n + 1) + 1 = len - n /\ (n + 1 <= len \/ len - n = 0)
        /\ \A i \in 1..(len - n) : (n + 1) + i - 1 = n + i
    BY <1>1
  <2> QED
    BY <1>1, <2>2, <2>3
<1>5. SubSeq(p, 1, n) \o SubSeq(p, n + 1, len) = SubSeq(p, 1, len)
  <2>1. 1 \in 1..(len + 1) /\ n \in (1 - 1)..len /\ len \in n..len
    BY <1>1
  <2> QED
    BY <2>1, ConcatAdjacentSubSeq
<1>6. SubSeq(p, 1, len) = p
  BY SubSeqFull
<1> QED
  BY <1>3, <1>4, <1>5, <1>6

\* retrieve gives back the first bytes and keeps the others.
LEMMA DrainedIs ==
  ASSUME NEW b, Fit(b), NEW n \in 0..readableBytes(b)
  PROVE  /\ Fit(Drained(b, n))
         /\ toStringPiece(b) = SubSeq(toStringPiece(b), 1, n) \o toStringPiece(Drained(b, n))
<1> DEFINE a == b.array
           r == b.r
           w == b.w
           p == toStringPiece(b)
           d == Drained(b, n)
           k == kCheapPrepend
           t == SubSeq(p, n + 1, Len(p))
<1>1. /\ a \in Seq(Bytes) /\ r \in Nat /\ w \in Nat /\ r <= w /\ w <= Len(a)
      /\ Len(a) \in Nat /\ Len(a) >= k + kInitialSize /\ k \in Nat /\ kInitialSize \in Nat
      /\ n \in Nat /\ n <= w - r
  BY BufferAssumption DEF Fit, readableBytes
<1>2. p \in Seq(Bytes) /\ Len(p) = w - r /\ \A i \in 1..(w - r) : p[i] = a[r + i]
  BY ReadableIs
<1>3. b = [array |-> a, r |-> r, w |-> w] /\ b \in [array : Seq(Bytes), r : Nat, w : Nat]
  BY DEF Fit
<1>4. n < readableBytes(b) <=> n < w - r
  BY DEF readableBytes
<1> HIDE DEF p
<1>5. n \in 0..Len(p)
  BY <1>1, <1>2
<1>6. /\ t \in Seq(Bytes) /\ Len(t) = Len(p) - n
      /\ \A i \in 1..(Len(p) - n) : t[i] = p[n + i]
      /\ p = SubSeq(p, 1, n) \o t
  BY <1>2, <1>5, Cut
<1> HIDE DEF t
<1>7. Fit(d) /\ toStringPiece(d) = t
  <2>1. CASE n < w - r
    <3>1. d = [array |-> a, r |-> r + n, w |-> w]
      BY <1>3, <1>4, <2>1 DEF Drained
    <3> HIDE DEF a, r, w, d, k
    <3>2. d.array = a /\ d.r = r + n /\ d.w = w
      BY <3>1
    <3>3. Fit(d)
      <4>1. d \in [array : Seq(Bytes), r : Nat, w : Nat]
        BY <1>1, <3>1
      <4> QED
        BY <1>1, <3>2, <4>1 DEF Fit, k
    <3>4. Len(t) = w - (r + n)
      BY <1>1, <1>2, <1>6
    <3>5. \A i \in 1..(w - (r + n)) : t[i] = a[(r + n) + i]
      <4>1. \A i \in 1..(w - (r + n)) :
              i \in 1..(Len(p) - n) /\ n + i \in 1..(w - r) /\ r + (n + i) = (r + n) + i
        BY <1>1, <1>2
      <4> QED
        BY SMTT(30), <1>2, <1>6, <4>1
    <3> QED
      BY <1>6, <3>2, <3>3, <3>4, <3>5, ReadableIs
  <2>2. CASE ~(n < w - r)
    <3>1. d = [array |-> a, r |-> k, w |-> k]
      BY <1>4, <2>2 DEF Drained
    <3> HIDE DEF a, r, w, d, k
    <3>2. d.array = a /\ d.r = k /\ d.w = k
      BY <3>1
    <3>3. Fit(d)
      <4>1. d \in [array : Seq(Bytes), r : Nat, w : Nat]
        BY <1>1, <3>1
      <4> QED
        BY <1>1, <3>2, <4>1 DEF Fit, k
    <3>4. Len(t) = k - k /\ 1..(k - k) = {}
      <4>1. n = w - r /\ (w - r) - (w - r) = 0 /\ k - k = 0 /\ 1..0 = {}
        BY <1>1, <2>2
      <4>2. Len(t) = Len(p) - n /\ Len(p) = w - r
        BY <1>2, <1>6
      <4> QED
        BY <4>1, <4>2
    <3> QED
      BY SMTT(30), <1>6, <3>2, <3>3, <3>4, ReadableIs
  <2> QED
    BY <2>1, <2>2
<1> QED
  BY <1>6, <1>7 DEF p

\* unwrite gives back the last bytes and keeps the others.
LEMMA UnwrittenIs ==
  ASSUME NEW b, Fit(b), NEW n \in 0..readableBytes(b)
  PROVE  /\ Fit([array |-> b.array, r |-> b.r, w |-> b.w - n])
         /\ toStringPiece(b) = toStringPiece([array |-> b.array, r |-> b.r, w |-> b.w - n])
                                 \o SubSeq(b.array, b.w - n + 1, b.w)
<1> DEFINE a == b.array
           r == b.r
           w == b.w
           u == [array |-> a, r |-> r, w |-> w - n]
<1>1. /\ a \in Seq(Bytes) /\ r \in Nat /\ w \in Nat /\ r <= w /\ w <= Len(a)
      /\ Len(a) \in Nat /\ Len(a) >= kCheapPrepend + kInitialSize
      /\ n \in Nat /\ n <= w - r
  BY DEF Fit, readableBytes
<1>2. toStringPiece(b) = SubSeq(a, r + 1, w) /\ toStringPiece(u) = SubSeq(a, r + 1, w - n)
  BY DEF toStringPiece
<1> HIDE DEF a, r, w
<1>3. Fit(u)
  <2>1. w - n \in Nat /\ r <= w - n /\ w - n <= Len(a)
    BY <1>1
  <2>2. u \in [array : Seq(Bytes), r : Nat, w : Nat]
    BY <1>1, <2>1
  <2> QED
    BY <1>1, <2>1, <2>2 DEF Fit
<1>4. SubSeq(a, r + 1, w - n) \o SubSeq(a, w - n + 1, w) = SubSeq(a, r + 1, w)
  <2>1. r + 1 \in 1..(Len(a) + 1) /\ w - n \in ((r + 1) - 1)..Len(a) /\ w \in (w - n)..Len(a)
    BY <1>1
  <2> QED
    BY <1>1, <2>1, ConcatAdjacentSubSeq
<1> QED
  BY <1>2, <1>3, <1>4 DEF a, r, w

\* prepend.
LEMMA PrependedIs ==
  ASSUME NEW b, Fit(b), NEW s \in Seq(Bytes), Len(s) <= prependableBytes(b)
  PROVE  /\ Fit(afterPrepend(b, s))
         /\ toStringPiece(afterPrepend(b, s)) = s \o toStringPiece(b)
<1> DEFINE a == b.array
           r == b.r
           w == b.w
           n == Len(s)
           f == r - n
           c == Copied(a, f, s)
           p == toStringPiece(b)
           d == afterPrepend(b, s)
<1>1. /\ a \in Seq(Bytes) /\ r \in Nat /\ w \in Nat /\ r <= w /\ w <= Len(a)
      /\ Len(a) \in Nat /\ Len(a) >= kCheapPrepend + kInitialSize /\ n \in Nat /\ n <= r
  BY DEF Fit, prependableBytes
<1>2. p \in Seq(Bytes) /\ Len(p) = w - r /\ \A i \in 1..(w - r) : p[i] = a[r + i]
  BY ReadableIs
<1>3. d = [array |-> c, r |-> f, w |-> w]
  BY DEF afterPrepend
<1> HIDE DEF a, r, w, c, p, d
<1>4. f \in Nat /\ f + n = r
  BY <1>1
<1> HIDE DEF f
<1>5. /\ c \in Seq(Bytes) /\ Len(c) = Len(a)
      /\ \A i \in 1..Len(a) : c[i] = IF i - f \in 1..n THEN s[i - f] ELSE a[i]
  BY <1>1, <1>4, CopiedIs DEF c
<1> DEFINE q == s \o p
<1>6. /\ q \in Seq(Bytes) /\ Len(q) = n + Len(p)
      /\ \A i \in 1..(n + Len(p)) : q[i] = IF i <= n THEN s[i] ELSE p[i - n]
  BY <1>2, ConcatProperties
<1> HIDE DEF n, q
<1>7. d.array = c /\ d.r = f /\ d.w = w
  BY <1>3
<1>8. Fit(d)
  <2>1. d \in [array : Seq(Bytes), r : Nat, w : Nat]
    BY <1>1, <1>3, <1>4, <1>5
  <2>2. f <= w /\ w <= Len(c) /\ Len(c) >= kCheapPrepend + kInitialSize
    BY <1>1, <1>4, <1>5
  <2> QED
    BY <1>7, <2>1, <2>2 DEF Fit
<1>9. Len(q) = w - f
  BY SMTT(30), <1>1, <1>2, <1>4, <1>6
<1>10. ASSUME NEW i \in 1..(w - f) PROVE q[i] = c[f + i]
  <2>1. f + i \in 1..Len(a) /\ (f + i) - f = i /\ i \in 1..(n + Len(p))
    BY <1>1, <1>2, <1>4
  <2>2. CASE i <= n
    <3>1. (f + i) - f \in 1..n
      BY <1>1, <2>1, <2>2
    <3>2. c[f + i] = s[(f + i) - f]
      BY <1>5, <2>1, <3>1
    <3> QED
      BY <1>6, <2>1, <2>2, <3>2
  <2>3. CASE i > n
    <3>1. ~((f + i) - f \in 1..n) /\ i - n \in 1..(w - r) /\ r + (i - n) = f + i /\ ~(i <= n)
      BY <1>1, <1>4, <2>1, <2>3
    <3>2. c[f + i] = a[f + i]
      BY <1>5, <2>1, <3>1
    <3>3. q[i] = p[i - n]
      BY <1>6, <2>1, <3>1
    <3> QED
      BY <1>2, <3>1, <3>2, <3>3
  <2>4. i <= n \/ i > n
    BY <1>1
  <2> QED
    BY <2>2, <2>3, <2>4
<1>11. toStringPiece(d) = q
  BY <1>6, <1>7, <1>8, <1>9, <1>10, ReadableIs
<1> QED
  BY <1>8, <1>11 DEF d, q, p

\* A new buffer holds nothing.
LEMMA FreshIsEmpty ==
  LET b == [array |-> Fresh(kCheapPrepend + kInitialSize),
            r |-> kCheapPrepend, w |-> kCheapPrepend]
  IN  Fit(b) /\ toStringPiece(b) = <<>>
<1> DEFINE k == kCheapPrepend
           size == k + kInitialSize
           b == [array |-> Fresh(size), r |-> k, w |-> k]
<1>1. k \in Nat /\ size \in Nat /\ k <= size
  BY BufferAssumption
<1>2. 0 \in Bytes
  BY BaseIs
<1> HIDE DEF size
<1>3. Fresh(size) \in Seq(Bytes) /\ Len(Fresh(size)) = size
  BY <1>1, <1>2 DEF Fresh
<1>4. Fit(b)
  BY <1>1, <1>3 DEF Fit, size
<1>5. <<>> \in Seq(Bytes) /\ Len(<<>>) = b.w - b.r /\ 1..(b.w - b.r) = {}
  BY <1>1
<1>6. toStringPiece(b) = <<>>
  BY <1>4, <1>5, ReadableIs
<1> QED
  BY <1>4, <1>6 DEF size

\* The strings of the calls are sequences of bytes.
LEMMA StringsAreBytes == \A s \in Strings : s \in Seq(Bytes)
  BY BufferAssumption DEF Strings

\* What a buffer that the members become reads.
LEMMA BecomeIs ==
  ASSUME NEW b, Fit(b), Become(b)
  PROVE  This' = b
  BY DEF Fit, Become, This

(* A step of the queue on the readable bytes. *)
QueueStep ==
    \/ Queue!PushBack \/ Queue!PushFront \/ Queue!PopFront \/ Queue!PopBack \/ Queue!Tidy

\* Every call keeps the indices in order and is one call of the queue.
LEMMA BufferStep ==
  ASSUME Fit(This), BufferNext
  PROVE  Fit(This)' /\ QueueStep
<1> DEFINE p == toStringPiece(This)
<1>0. p \in Seq(Bytes)
  BY ReadableIs
<1>1. ASSUME NEW b, Fit(b), Become(b), NEW s, Call("pushBack", s), toStringPiece(b) = p \o s
      PROVE  Fit(This)' /\ QueueStep
  <2>1. This' = b
    BY <1>1, BecomeIs
  <2> QED
    BY <1>1, <2>1 DEF QueueStep, Queue!PushBack, Call
<1>2. ASSUME NEW b, Fit(b), Become(b), NEW s, Call("pushFront", s), toStringPiece(b) = s \o p
      PROVE  Fit(This)' /\ QueueStep
  <2>1. This' = b
    BY <1>2, BecomeIs
  <2> QED
    BY <1>2, <2>1 DEF QueueStep, Queue!PushFront, Call
<1>3. ASSUME NEW b, Fit(b), Become(b), NEW s, Call("popFront", s), p = s \o toStringPiece(b)
      PROVE  Fit(This)' /\ QueueStep
  <2>1. This' = b
    BY <1>3, BecomeIs
  <2> QED
    BY <1>3, <2>1 DEF QueueStep, Queue!PopFront, Call
<1>4. CASE append
  <2>1. PICK s \in Strings : Become(afterAppend(This, s)) /\ Call("pushBack", s)
    BY <1>4 DEF append
  <2>2. Fit(afterAppend(This, s)) /\ toStringPiece(afterAppend(This, s)) = p \o s
    BY StringsAreBytes, AppendedIs
  <2> QED
    BY <1>1, <2>1, <2>2
<1>5. CASE retrieve
  <2>1. PICK n \in 0..readableBytes(This) :
          Become(Drained(This, n)) /\ Call("popFront", SubSeq(p, 1, n))
    BY <1>5 DEF retrieve
  <2>2. Fit(Drained(This, n)) /\ p = SubSeq(p, 1, n) \o toStringPiece(Drained(This, n))
    BY DrainedIs
  <2> QED
    BY <1>3, <2>1, <2>2
<1>6. CASE unwrite
  <2>1. PICK n \in 0..readableBytes(This) :
          /\ Become([This EXCEPT !.w = @ - n])
          /\ Call("popBack", SubSeq(buffer, writerIndex - n + 1, writerIndex))
    BY <1>6 DEF unwrite
  <2> DEFINE u == [array |-> This.array, r |-> This.r, w |-> This.w - n]
             s == SubSeq(This.array, This.w - n + 1, This.w)
  <2>2. This.array = buffer /\ This.r = readerIndex /\ This.w = writerIndex
    BY DEF This
  <2>3. [This EXCEPT !.w = @ - n] = u
    BY DEF This
  <2>4. Fit(u) /\ p = toStringPiece(u) \o s
    BY UnwrittenIs
  <2>5. Become(u) /\ Call("popBack", s)
    BY <2>1, <2>2, <2>3
  <2> HIDE DEF u, s
  <2>6. This' = u
    BY <2>4, <2>5, BecomeIs
  <2> QED
    BY <2>4, <2>5, <2>6 DEF QueueStep, Queue!PopBack, Call
<1>7. CASE prepend
  <2>1. PICK s \in Strings :
          /\ Len(s) <= prependableBytes(This)
          /\ Become(afterPrepend(This, s)) /\ Call("pushFront", s)
    BY <1>7 DEF prepend
  <2>2. Fit(afterPrepend(This, s)) /\ toStringPiece(afterPrepend(This, s)) = s \o p
    BY <2>1, StringsAreBytes, PrependedIs
  <2> QED
    BY <1>2, <2>1, <2>2
<1>8. CASE shrink
  <2> DEFINE other == [array |-> Fresh(kCheapPrepend + kInitialSize),
                       r |-> kCheapPrepend, w |-> kCheapPrepend]
  <2>1. PICK reserve \in 0..MaxLen :
          /\ Become(afterAppend(ensureWritableBytes(other, readableBytes(This) + reserve), p))
          /\ Call("tidy", <<>>)
    BY <1>8 DEF shrink
  <2> DEFINE e == ensureWritableBytes(other, readableBytes(This) + reserve)
             b == afterAppend(e, p)
  <2>2. Fit(other) /\ toStringPiece(other) = <<>>
    BY FreshIsEmpty
  <2>3. readableBytes(This) + reserve \in Nat
    <3>1. readableBytes(This) \in Nat
      BY DEF Fit, readableBytes
    <3> QED
      BY <3>1, BufferAssumption
  <2> HIDE DEF other
  <2>4. Fit(e) /\ toStringPiece(e) = <<>>
    BY <2>2, <2>3, RoomEnsured
  <2> HIDE DEF e
  <2>5. Fit(b) /\ toStringPiece(b) = <<>> \o p
    BY <1>0, <2>4, AppendedIs
  <2>6. <<>> \o p = p
    BY <1>0, ConcatEmptySeq
  <2>7. Become(b) /\ Call("tidy", <<>>)
    BY <2>1 DEF e
  <2> HIDE DEF b
  <2>8. This' = b
    BY <2>5, <2>7, BecomeIs
  <2> QED
    BY <2>5, <2>6, <2>7, <2>8 DEF QueueStep, Queue!Tidy, Call
<1>9. CASE readFd
  <2>1. PICK s \in Strings \ {<<>>} :
          /\ Len(s) <= Room /\ Call("pushBack", s)
          /\ IF Len(s) <= writableBytes(This)
             THEN Become(Filled(This, s))
             ELSE Become(afterAppend(Filled(This, Direct(s)),
                                     SubSeq(s, Len(Direct(s)) + 1, Len(s))))
    BY <1>9 DEF readFd
  <2>2. s \in Seq(Bytes)
    BY StringsAreBytes
  <2>3. CASE Len(s) <= writableBytes(This)
    <3>1. Fit(Filled(This, s)) /\ toStringPiece(Filled(This, s)) = p \o s
      BY <2>2, <2>3, FilledIs
    <3> QED
      BY <1>1, <2>1, <2>3, <3>1
  <2>4. CASE ~(Len(s) <= writableBytes(This))
    <3> DEFINE n == writableBytes(This)
               x == SubSeq(s, 1, n)
               y == SubSeq(s, n + 1, Len(s))
               full == Filled(This, x)
               b == afterAppend(full, y)
    <3>1. n \in 0..Len(s)
      <4>1. n \in Nat
        BY DEF Fit, writableBytes
      <4> QED
        BY <2>2, <2>4, <4>1
    <3>2. /\ x \in Seq(Bytes) /\ Len(x) = n /\ y \in Seq(Bytes) /\ s = x \o y
      BY <2>2, <3>1, Cut
    <3>3. Direct(s) = x
      BY DEF Direct
    <3>4. Become(b)
      BY <2>1, <2>4, <3>2, <3>3
    <3>5. Len(x) <= writableBytes(This)
      BY <3>1, <3>2
    <3> HIDE DEF x, y
    <3>6. Fit(full) /\ toStringPiece(full) = p \o x
      BY <3>2, <3>5, FilledIs
    <3> HIDE DEF full
    <3>7. Fit(b) /\ toStringPiece(b) = (p \o x) \o y
      BY <3>2, <3>6, AppendedIs
    <3> HIDE DEF b, p
    <3>8. (p \o x) \o y = p \o s
      BY <1>0, <3>2, ConcatAssociative
    <3> QED
      BY <1>1, <2>1, <3>4, <3>7, <3>8
  <2> QED
    BY <2>3, <2>4
<1>10. CASE appendInt
  <2>0. PICK n \in IntSizes : \E x \in Ints(n) :
           /\ Become(afterAppend(This, hostToNetwork(x, n)))
           /\ Call("pushBack", hostToNetwork(x, n))
    BY <1>10 DEF appendInt
  <2>1. PICK x \in Ints(n) :
           /\ Become(afterAppend(This, hostToNetwork(x, n)))
           /\ Call("pushBack", hostToNetwork(x, n))
    BY <2>0
  <2> DEFINE s == hostToNetwork(x, n)
  <2>2. s \in Seq(Bytes)
    BY BufferAssumption, IntegersReturn DEF Ints
  <2> HIDE DEF s
  <2>3. Fit(afterAppend(This, s)) /\ toStringPiece(afterAppend(This, s)) = p \o s
    BY <2>2, AppendedIs
  <2> QED
    BY <1>1, <2>1, <2>3 DEF s
<1>11. CASE readInt
  <2>1. PICK n \in IntSizes :
          /\ n <= readableBytes(This)
          /\ Become(Drained(This, n))
          /\ Call("popFront", hostToNetwork(peekInt(This, n), n))
    BY <1>11 DEF readInt
  <2>2. n \in 0..readableBytes(This) /\ n \in 0..Len(p)
    <3>1. Len(p) = readableBytes(This) /\ readableBytes(This) \in Nat
      BY ReadableIs DEF readableBytes, Fit
    <3> QED
      BY <2>1, <3>1, BufferAssumption
  <2>3. Fit(Drained(This, n)) /\ p = SubSeq(p, 1, n) \o toStringPiece(Drained(This, n))
    BY <2>2, DrainedIs
  <2>4. SubSeq(p, 1, n) \in Seq(Bytes) /\ Len(SubSeq(p, 1, n)) = n
    BY <1>0, <2>2, Cut
  <2>5. hostToNetwork(peekInt(This, n), n) = SubSeq(p, 1, n)
    BY <2>4, IntegersReturn DEF peekInt
  <2> QED
    BY <1>3, <2>1, <2>3, <2>5
<1>12. CASE prependInt
  <2>0. PICK n \in IntSizes : \E x \in Ints(n) :
           /\ n <= prependableBytes(This)
           /\ Become(afterPrepend(This, hostToNetwork(x, n)))
           /\ Call("pushFront", hostToNetwork(x, n))
    BY <1>12 DEF prependInt
  <2>1. PICK x \in Ints(n) :
           /\ n <= prependableBytes(This)
           /\ Become(afterPrepend(This, hostToNetwork(x, n)))
           /\ Call("pushFront", hostToNetwork(x, n))
    BY <2>0
  <2> DEFINE s == hostToNetwork(x, n)
  <2>2. s \in Seq(Bytes) /\ Len(s) = n
    BY BufferAssumption, IntegersReturn DEF Ints
  <2> HIDE DEF s
  <2>3. Fit(afterPrepend(This, s)) /\ toStringPiece(afterPrepend(This, s)) = s \o p
    BY <2>1, <2>2, PrependedIs
  <2> QED
    BY <1>2, <2>1, <2>3 DEF s
<1> QED
  BY <1>4, <1>5, <1>6, <1>7, <1>8, <1>9, <1>10, <1>11, <1>12 DEF BufferNext

\* Buffer: the readable bytes are a queue of bytes, for every size of the array, of the
\* calls and of the integers: whatever makeSpace moves or grows, shrink copies and readFd
\* reads in two pieces, each call adds its bytes at one end or gives back those of one end,
\* an integer that is read goes out again as the bytes that came in; the indices stay in
\* order within the array and makeSpace moves only when its assertion holds.
THEOREM BufferIsQueue == BufferSpec => BufferKept
<1> DEFINE Inv == Fit(This)
<1>1. BufferInit => Inv /\ Queue!QueueInit
  BY FreshIsEmpty DEF BufferInit, This, Queue!QueueInit
<1>2. Inv /\ [BufferNext /\ Bounded]_bufferVars => Inv' /\ [QueueStep]_(Queue!queueVars)
  <2>1. CASE BufferNext
    BY <2>1, BufferStep
  <2>2. CASE UNCHANGED bufferVars
    <3>1. This' = This /\ call' = call
      BY <2>2 DEF bufferVars, This
    <3> QED
      BY <3>1 DEF Queue!queueVars
  <2> QED
    BY <2>1, <2>2
<1>3. Inv => BufferTypeOK /\ SpaceAssertion
  <2> SUFFICES ASSUME Inv PROVE BufferTypeOK /\ SpaceAssertion
    OBVIOUS
  <2>1. BufferTypeOK
    BY DEF BufferTypeOK, Fit, This
  <2>2. \A len \in 0..MaxLen : len \in Nat
    BY BufferAssumption
  <2>3. ASSUME NEW len \in Nat
        PROVE  LET b == ensureWritableBytes(This, len) IN
               /\ writableBytes(b) >= len
               /\ b # This /\ ~Grows(This, len) => kCheapPrepend < readerIndex
    <3> DEFINE b == ensureWritableBytes(This, len)
    <3>1. /\ Fit(b) /\ len <= writableBytes(b)
          /\ b # This /\ ~Grows(This, len) => kCheapPrepend < This.r
      BY RoomEnsured
    <3>2. writableBytes(b) \in Int
      BY <3>1 DEF Fit, writableBytes
    <3> HIDE DEF b
    <3>3. writableBytes(b) >= len
      BY <3>1, <3>2
    <3>4. This.r = readerIndex
      BY DEF This
    <3> QED
      BY <3>1, <3>3, <3>4 DEF b
  <2> QED
    BY <2>1, <2>2, <2>3 DEF SpaceAssertion
<1> QED
  BY <1>1, <1>2, <1>3, PTL
  DEF BufferSpec, BufferKept, IsByteQueue, Queue!QueueSpec, QueueStep
===============================================================================
