----------------------------- MODULE ZkWatch_proofs -----------------------------
(***************************************************************************)
(* Proofs about ZkWatch, for both kinds of watcher and any number of       *)
(* changes, losses, expiries, registrations and cancellations: a watcher   *)
(* is not multiplied, and a path loses its last one only with its session. *)
(***************************************************************************)
EXTENDS ZkWatch, FiniteSetTheorems, SequenceTheorems, TLAPS

\* A set of natural numbers that is not empty has a least member.
LEMMA LeastIs ==
  ASSUME NEW S, S \subseteq Nat, S # {}
  PROVE  \E x \in S : \A y \in S : x <= y
<1> DEFINE T == {0..x : x \in S}
           R == StrictSubsetOrdering(Nat)
<1>1. T \subseteq FiniteSubsetsOf(Nat) /\ T # {}
  <2>1. ASSUME NEW x \in S PROVE (0..x) \in SUBSET Nat /\ IsFiniteSet(0..x)
    BY FS_Interval
  <2>2. T # {}
    OBVIOUS
  <2> QED
    BY <2>1, <2>2 DEF FiniteSubsetsOf
<1>2. IsWellFoundedOn(R, FiniteSubsetsOf(Nat))
  BY FS_StrictSubsetOrderingWellFounded
<1>3. PICK u \in T : \A v \in T : ~(<<v, u>> \in R)
  <2> HIDE DEF R, T
  <2> QED
    BY <1>1, <1>2, WFMin
<1>4. PICK x \in S : u = 0..x
  BY <1>3
<1>5. \A y \in S : x <= y
  <2> SUFFICES ASSUME NEW y \in S, y < x PROVE FALSE
    OBVIOUS
  <2>1. 0..y \subseteq 0..x /\ x \in 0..x /\ x \notin 0..y
    OBVIOUS
  <2>2. (0..y) \in SUBSET Nat /\ (0..x) \in SUBSET Nat /\ (0..y) # (0..x) /\ (0..y) \in T
    BY <2>1
  <2> QED
    BY <1>3, <1>4, <2>1, <2>2 DEF StrictSubsetOrdering
<1> QED
  BY <1>5
-----------------------------------------------------------------------------
(* What Coming adds up, from the first callback to the last. *)
Sums(f, q) ==
    /\ f \in [0..Len(q) -> Nat] /\ f[0] = 0
    /\ \A i \in 1..Len(q) : f[i] = f[i - 1] + Weight(q[i])

\* A callback counts for no less than nothing.
LEMMA WeightIs ==
  \A q \in Seq(Callbacks) : \A i \in 1..Len(q) : q[i] \in Callbacks /\ Weight(q[i]) \in Nat
<1> SUFFICES ASSUME NEW q \in Seq(Callbacks), NEW i \in 1..Len(q)
             PROVE  q[i] \in Callbacks /\ Weight(q[i]) \in Nat
  OBVIOUS
<1>1. q[i] \in Callbacks
  OBVIOUS
<1>2. q[i].n \in Nat
  BY <1>1 DEF Callbacks
<1> QED
  BY <1>1, <1>2 DEF Weight

\* The sums exist: those of the callbacks up to one are followed by the next.
LEMMA SumsExist ==
  ASSUME NEW q \in Seq(Callbacks)
  PROVE  \E f : Sums(f, q)
<1> DEFINE Upto(f, n) == /\ f \in [0..n -> Nat] /\ f[0] = 0
                         /\ \A i \in 1..n : f[i] = f[i - 1] + Weight(q[i])
           S == {n \in 0..Len(q) : ~\E f : Upto(f, n)}
<1>0. Len(q) \in Nat
  OBVIOUS
<1>1. CASE S = {}
  BY <1>0, <1>1 DEF Sums
<1>2. CASE S # {}
  <2>1. PICK n \in S : \A m \in S : n <= m
    <3>1. S \subseteq Nat
      OBVIOUS
    <3> HIDE DEF S
    <3> QED
      BY <1>2, <3>1, LeastIs
  <2>2. CASE n = 0
    <3>1. Upto([i \in 0..0 |-> 0], 0)
      OBVIOUS
    <3> QED
      BY <2>1, <2>2, <3>1
  <2>3. CASE n # 0
    <3>1. n - 1 \in 0..Len(q) /\ n \in 1..Len(q) /\ ~(n <= n - 1)
      BY <1>0, <2>1, <2>3
    <3>2. PICK f : Upto(f, n - 1)
      <4>1. n - 1 \notin S
        <5> HIDE DEF S
        <5> QED
          BY <2>1, <3>1
      <4> QED
        BY <3>1, <4>1
    <3> DEFINE g == [i \in 0..n |-> IF i = n THEN f[n - 1] + Weight(q[n]) ELSE f[i]]
    <3>3. Weight(q[n]) \in Nat /\ f[n - 1] \in Nat /\ n \in Nat
      BY <3>1, <3>2, WeightIs
    <3>4. g \in [0..n -> Nat] /\ g[0] = 0
      <4>1. \A i \in 0..n : i # n => f[i] \in Nat
        BY <3>1, <3>2
      <4> QED
        BY <2>3, <3>1, <3>2, <3>3, <4>1
    <3>5. ASSUME NEW i \in 1..n PROVE g[i] = g[i - 1] + Weight(q[i])
      <4>1. CASE i = n
        BY <3>1, <4>1
      <4>2. CASE i # n
        <5>1. i \in 1..(n - 1) /\ i - 1 \in 0..n /\ i - 1 # n /\ i \in 0..n
          BY <3>1, <4>2
        <5>2. g[i] = f[i] /\ g[i - 1] = f[i - 1]
          BY <4>2, <5>1
        <5> QED
          BY <3>2, <5>1, <5>2
      <4> QED
        BY <4>1, <4>2
    <3>6. Upto(g, n)
      BY <3>4, <3>5
    <3> QED
      BY <2>1, <3>6
  <2> QED
    BY <2>2, <2>3
<1> QED
  BY <1>1, <1>2

(* Two sequences of sums begin d apart and grow alike. *)
Alike(f, g, n, d) ==
    /\ \A i \in 0..n : f[i] \in Int /\ g[i] \in Int
    /\ f[0] = g[0] + d
    /\ \A i \in 1..n : f[i] - f[i - 1] = g[i] - g[i - 1]

\* They stay as far apart as they were.
LEMMA SumsAgree ==
  ASSUME NEW f, NEW g, NEW n \in Nat, NEW d \in Int, Alike(f, g, n, d)
  PROVE  \A i \in 0..n : f[i] = g[i] + d
<1> USE DEF Alike
<1> DEFINE S == {i \in 0..n : f[i] # g[i] + d}
<1> SUFFICES ASSUME S # {} PROVE FALSE
  OBVIOUS
<1>1. PICK k \in S : \A m \in S : k <= m
  <2>1. S \subseteq Nat
    OBVIOUS
  <2> HIDE DEF S
  <2> QED
    BY <2>1, LeastIs
<1>2. k # 0 /\ k \in 1..n /\ k - 1 \in 0..n /\ k - 1 \notin S
  BY <1>1
<1>3. f[k - 1] = g[k - 1] + d
  BY <1>2
<1>4. f[k] - f[k - 1] = g[k] - g[k - 1] /\ f[k] \in Int /\ g[k] \in Int /\ f[k - 1] \in Int
      /\ g[k - 1] \in Int
  BY <1>2
<1>5. f[k] = g[k] + d
  BY <1>3, <1>4
<1> QED
  BY <1>1, <1>5

\* Coming is the last of the sums.
LEMMA ComingIs ==
  ASSUME NEW q \in Seq(Callbacks)
  PROVE  \E f : Sums(f, q) /\ Coming(q) = f[Len(q)]
<1> DEFINE Def(f) == f = [i \in 0..Len(q) |-> IF i = 0 THEN 0 ELSE f[i - 1] + Weight(q[i])]
           s == CHOOSE f : Def(f)
<1>0. Len(q) \in Nat
  OBVIOUS
<1>1. PICK f : Sums(f, q)
  BY SumsExist
<1>2. Def(f)
  <2>1. f \in [0..Len(q) -> Nat]
    BY <1>1 DEF Sums
  <2>2. \A i \in 0..Len(q) : f[i] = IF i = 0 THEN 0 ELSE f[i - 1] + Weight(q[i])
    BY <1>1 DEF Sums
  <2> QED
    BY <2>1, <2>2
<1>3. Def(s)
  BY <1>2
<1>4. Coming(q) = s[Len(q)]
  BY DEF Coming
<1> HIDE DEF s
<1>5. Sums(s, q)
  <2>1. /\ \A i \in 0..Len(q) : s[i] = IF i = 0 THEN 0 ELSE s[i - 1] + Weight(q[i])
        /\ s = [i \in 0..Len(q) |-> s[i]]
    BY <1>3
  <2>2. \A i \in 1..Len(q) : s[i] = s[i - 1] + Weight(q[i])
    BY <1>0, <2>1
  <2>3. s[0] = 0
    BY <1>0, <2>1
  <2> DEFINE S == {i \in 0..Len(q) : s[i] \notin Nat}
  <2>4. S = {}
    <3> SUFFICES ASSUME S # {} PROVE FALSE
      OBVIOUS
    <3>1. PICK k \in S : \A m \in S : k <= m
      <4>1. S \subseteq Nat
        OBVIOUS
      <4> HIDE DEF S
      <4> QED
        BY <4>1, LeastIs
    <3>2. k \in 1..Len(q) /\ k - 1 \in 0..Len(q) /\ k - 1 \notin S
      BY <1>0, <2>3, <3>1
    <3>3. s[k] = s[k - 1] + Weight(q[k]) /\ s[k - 1] \in Nat /\ Weight(q[k]) \in Nat
      BY <2>2, <3>2, WeightIs
    <3> QED
      BY <3>1, <3>3
  <2>5. s \in [0..Len(q) -> Nat]
    <3>1. \A i \in 0..Len(q) : s[i] \in Nat
      BY <2>4
    <3> QED
      BY <2>1, <3>1
  <2> QED
    BY <2>2, <2>3, <2>5 DEF Sums
<1> QED
  BY <1>4, <1>5

\* A callback queued is added, the first one that is taken away is taken off.
LEMMA ComingOps ==
  ASSUME NEW q \in Seq(Callbacks)
  PROVE  /\ Coming(q) \in Nat
         /\ q = <<>> => Coming(q) = 0
         /\ \A e \in Callbacks : Coming(Append(q, e)) = Coming(q) + Weight(e)
         /\ q # <<>> => Coming(q) = Weight(Head(q)) + Coming(Tail(q))
<1>0. Len(q) \in Nat
  OBVIOUS
<1>1. PICK f : Sums(f, q) /\ Coming(q) = f[Len(q)]
  BY ComingIs
<1>2. Coming(q) \in Nat /\ \A i \in 0..Len(q) : f[i] \in Nat
  BY <1>0, <1>1 DEF Sums
<1>3. q = <<>> => Coming(q) = 0
  BY <1>1 DEF Sums
<1>4. ASSUME NEW e \in Callbacks PROVE Coming(Append(q, e)) = Coming(q) + Weight(e)
  <2> DEFINE p == Append(q, e)
  <2>1. /\ p \in Seq(Callbacks) /\ Len(p) = Len(q) + 1 /\ p[Len(q) + 1] = e
        /\ \A i \in 1..Len(q) : p[i] = q[i]
    OBVIOUS
  <2> HIDE DEF p
  <2>2. PICK g : Sums(g, p) /\ Coming(p) = g[Len(p)]
    BY <2>1, ComingIs
  <2>3. \A i \in 0..Len(p) : g[i] \in Nat
    BY <2>2 DEF Sums
  <2>4. \A i \in 0..Len(q) : g[i] \in Int /\ f[i] \in Int
    BY <1>0, <1>2, <2>1, <2>3
  <2>5. \A i \in 1..Len(q) : g[i] - g[i - 1] = f[i] - f[i - 1]
    <3> SUFFICES ASSUME NEW i \in 1..Len(q) PROVE g[i] - g[i - 1] = f[i] - f[i - 1]
      OBVIOUS
    <3>1. i \in 1..Len(p) /\ i - 1 \in 0..Len(q) /\ i \in 0..Len(q)
      BY <1>0, <2>1
    <3>2. g[i] = g[i - 1] + Weight(q[i]) /\ f[i] = f[i - 1] + Weight(q[i])
      BY <1>1, <2>1, <2>2, <3>1 DEF Sums
    <3>3. Weight(q[i]) \in Nat
      BY WeightIs
    <3> QED
      BY <2>4, <3>1, <3>2, <3>3
  <2>6. g[0] = f[0] + 0
    BY <1>1, <2>2 DEF Sums
  <2>7. \A i \in 0..Len(q) : g[i] = f[i] + 0
    <3>1. Alike(g, f, Len(q), 0)
      BY <2>4, <2>5, <2>6 DEF Alike
    <3> QED
      BY <1>0, <3>1, SumsAgree
  <2>8. g[Len(q)] = f[Len(q)]
    <3>1. Len(q) \in 0..Len(q)
      BY <1>0
    <3>2. g[Len(q)] = f[Len(q)] + 0 /\ f[Len(q)] \in Int
      BY <2>4, <2>7, <3>1
    <3> QED
      BY <3>2
  <2>9. g[Len(q) + 1] = g[Len(q)] + Weight(e)
    <3>1. Len(q) + 1 \in 1..Len(p) /\ (Len(q) + 1) - 1 = Len(q)
      BY <1>0, <2>1
    <3> QED
      BY <2>1, <2>2, <3>1 DEF Sums
  <2> QED
    BY <1>1, <2>1, <2>2, <2>8, <2>9 DEF p
<1>5. ASSUME q # <<>> PROVE Coming(q) = Weight(Head(q)) + Coming(Tail(q))
  <2> DEFINE p == Tail(q)
  <2>1. /\ p \in Seq(Callbacks) /\ Len(p) = Len(q) - 1 /\ Len(p) \in Nat /\ Head(q) = q[1]
        /\ \A i \in 1..Len(p) : p[i] = q[i + 1]
    BY <1>5
  <2> HIDE DEF p
  <2>2. PICK g : Sums(g, p) /\ Coming(p) = g[Len(p)]
    BY <2>1, ComingIs
  <2> DEFINE h == [i \in 0..Len(p) |-> f[i + 1]]
             w == Weight(q[1])
  <2>3. 1 \in 1..Len(q) /\ w \in Nat /\ f[1] = w
    <3>1. 1 \in 1..Len(q)
      BY <1>0, <2>1
    <3>2. w \in Nat
      BY <3>1, WeightIs
    <3>3. f[1] = f[1 - 1] + w /\ f[0] = 0
      BY <1>1, <3>1 DEF Sums
    <3> QED
      BY <3>1, <3>2, <3>3
  <2> HIDE DEF w
  <2>4. \A i \in 0..Len(p) : h[i] = f[i + 1] /\ h[i] \in Int /\ g[i] \in Int
    <3> SUFFICES ASSUME NEW i \in 0..Len(p) PROVE h[i] = f[i + 1] /\ h[i] \in Int /\ g[i] \in Int
      OBVIOUS
    <3>1. i + 1 \in 0..Len(q)
      BY <1>0, <2>1
    <3>2. f[i + 1] \in Nat
      BY <1>2, <3>1
    <3>3. g[i] \in Nat
      BY <2>2 DEF Sums
    <3> QED
      BY <3>2, <3>3
  <2> HIDE DEF h
  <2>5. \A i \in 1..Len(p) : h[i] - h[i - 1] = g[i] - g[i - 1]
    <3> SUFFICES ASSUME NEW i \in 1..Len(p) PROVE h[i] - h[i - 1] = g[i] - g[i - 1]
      OBVIOUS
    <3>1. /\ i + 1 \in 1..Len(q) /\ i \in 0..Len(p) /\ i - 1 \in 0..Len(p)
          /\ (i - 1) + 1 = i /\ (i + 1) - 1 = i
      BY <1>0, <2>1
    <3>2. g[i] = g[i - 1] + Weight(p[i])
      BY <2>2 DEF Sums
    <3>3. f[i + 1] = f[i] + Weight(q[i + 1])
      BY <1>1, <3>1 DEF Sums
    <3>4. p[i] = q[i + 1] /\ Weight(q[i + 1]) \in Nat
      BY <2>1, <3>1, WeightIs
    <3>5. h[i] = f[i + 1] /\ h[i - 1] = f[i]
      BY <2>4, <3>1
    <3>6. h[i] = h[i - 1] + Weight(q[i + 1]) /\ g[i] = g[i - 1] + Weight(q[i + 1])
      BY <3>2, <3>3, <3>4, <3>5
    <3>7. h[i - 1] \in Int /\ g[i - 1] \in Int
      BY <2>4, <3>1
    <3> QED
      BY <3>4, <3>6, <3>7
  <2>6. h[0] = g[0] + w
    <3>1. h[0] = f[1] /\ g[0] = 0
      BY <2>1, <2>2, <2>4 DEF Sums
    <3> QED
      BY <2>3, <3>1
  <2>7. \A i \in 0..Len(p) : h[i] = g[i] + w
    <3>1. Alike(h, g, Len(p), w)
      BY <2>4, <2>5, <2>6 DEF Alike
    <3> QED
      BY <2>1, <2>3, <3>1, SumsAgree
  <2>8. h[Len(p)] = f[Len(q)]
    <3>1. Len(p) \in 0..Len(p) /\ Len(p) + 1 = Len(q)
      BY <1>0, <2>1
    <3> QED
      BY <2>4, <3>1
  <2>9. Coming(q) = Coming(p) + w /\ Coming(p) \in Int
    <3>1. Len(p) \in 0..Len(p)
      BY <2>1
    <3> QED
      BY <1>1, <2>2, <2>4, <2>7, <2>8, <3>1
  <2>10. w = Weight(Head(q)) /\ Coming(p) = Coming(Tail(q))
    BY <2>1 DEF p, w
  <2>11. Coming(q) = w + Coming(p)
    BY <2>3, <2>9
  <2> QED
    BY <2>10, <2>11
<1> QED
  BY <1>2, <1>3, <1>4, <1>5
-----------------------------------------------------------------------------
(* A callback that waits: the sessionWatcher of a state, or watchers and answers
   of which some are not called yet. *)
Kept(item) ==
    IF item.kind = "session" THEN item.what \in States ELSE item.n > 0 /\ item.told

CallbacksKept ==
    /\ \A i \in 1..Len(cq) : Kept(cq[i])
    /\ cpc # "idle" => cq # <<>> /\ Head(cq).kind # "session" /\ Head(cq).n > 0
    /\ cpc = "body" => Head(cq).kind = "event"

(* A registration on its way is that of a thread that waits for it. *)
Requests ==
    /\ \A i \in 1..Len(reqs) :
         (reqs[i] = "user" => upc = "sent") /\ (reqs[i] = "loop" => lpc = "sent")
    /\ \A i, j \in 1..Len(reqs) : reqs[i] = reqs[j] /\ reqs[i] # "get" => i = j

(* A session event whose existWatchers have not all run. *)
Told == \E i \in 1..Len(cq) : cq[i].kind = "session" /\ cq[i].n > 0

\* What a callback that is queued changes.
LEMMA Queued ==
  ASSUME cq \in Seq(Callbacks), CallbacksKept, NEW e \in Callbacks, Kept(e),
         cq' = Append(cq, e), cpc' = cpc
  PROVE  /\ cq' \in Seq(Callbacks) /\ CallbacksKept' /\ (Told => Told')
         /\ Coming(cq') = Coming(cq) + Weight(e) /\ Started' = Started
<1>1. /\ cq' \in Seq(Callbacks) /\ Len(cq') = Len(cq) + 1 /\ Len(cq) \in Nat
      /\ cq'[Len(cq) + 1] = e /\ \A i \in 1..Len(cq) : cq'[i] = cq[i]
  OBVIOUS
<1>2. cq # <<>> => cq' # <<>> /\ Head(cq') = Head(cq)
  OBVIOUS
<1>3. \A i \in 1..Len(cq') : Kept(cq'[i])
  <2> SUFFICES ASSUME NEW i \in 1..Len(cq') PROVE Kept(cq'[i])
    OBVIOUS
  <2>1. i = Len(cq) + 1 \/ i \in 1..Len(cq)
    BY <1>1
  <2> QED
    BY <1>1, <2>1 DEF CallbacksKept
<1>4. CallbacksKept' /\ Started' = Started
  BY <1>2, <1>3 DEF CallbacksKept, Started
<1>5. Told => Told'
  BY <1>1 DEF Told
<1>6. Coming(cq') = Coming(cq) + Weight(e)
  BY ComingOps
<1> QED
  BY <1>1, <1>4, <1>5, <1>6

\* What a call that is over changes.
LEMMA Called ==
  ASSUME cq \in Seq(Callbacks), CallbacksKept, cq # <<>>, NEW item \in Callbacks,
         item.kind = Head(cq).kind, item.what = Head(cq).what,
         item.kind # "session" => item.told, cq' = Keep(item), cpc' = "idle"
  PROVE  /\ cq' \in Seq(Callbacks) /\ CallbacksKept'
         /\ item.kind # "session" \/ item.n = Head(cq).n => (Told => Told')
         /\ Coming(cq') = Coming(cq) - Weight(Head(cq)) + Weight(item) /\ Started' = 0
<1>0. /\ Len(cq) \in Nat /\ Len(cq) > 0 /\ Head(cq) = cq[1] /\ 1 \in 1..Len(cq)
      /\ Head(cq) \in Callbacks /\ Tail(cq) \in Seq(Callbacks) /\ Len(Tail(cq)) = Len(cq) - 1
      /\ \A i \in 1..Len(Tail(cq)) : Tail(cq)[i] = cq[i + 1] /\ i + 1 \in 1..Len(cq)
  OBVIOUS
<1>1. Coming(cq) = Weight(Head(cq)) + Coming(Tail(cq)) /\ Coming(Tail(cq)) \in Nat
  BY <1>0, ComingOps
<1>2. Weight(Head(cq)) \in Nat /\ Weight(item) \in Nat
  BY <1>0 DEF Weight, Callbacks
<1>3. Started' = 0
  BY DEF Started
<1>4. CASE Returned(item)
  <2>1. cq' = Tail(cq) /\ item.n = 0
    BY <1>4 DEF Keep, Returned
  <2>2. Weight(item) = 0
    BY <2>1 DEF Weight
  <2>3. Coming(cq') = Coming(cq) - Weight(Head(cq)) + Weight(item)
    BY <1>1, <1>2, <2>1, <2>2
  <2>4. CallbacksKept'
    BY <1>0, <2>1 DEF CallbacksKept
  <2>5. ASSUME item.kind # "session" \/ item.n = Head(cq).n, Told PROVE Told'
    <3>1. PICK i \in 1..Len(cq) : cq[i].kind = "session" /\ cq[i].n > 0
      BY <2>5 DEF Told
    <3>2. i # 1
      BY <1>0, <2>1, <2>5, <3>1
    <3>3. i - 1 \in 1..Len(Tail(cq)) /\ Tail(cq)[i - 1] = cq[i]
      BY <1>0, <3>2
    <3> QED
      BY <2>1, <3>1, <3>3 DEF Told
  <2> QED
    BY <1>0, <1>3, <2>1, <2>3, <2>4, <2>5
<1>5. CASE ~Returned(item)
  <2>1. cq' = [cq EXCEPT ![1] = item] /\ (item.n # 0 \/ ~item.told)
    BY <1>5 DEF Keep, Returned
  <2>2. /\ cq' \in Seq(Callbacks) /\ Len(cq') = Len(cq) /\ cq'[1] = item /\ cq' # <<>>
        /\ \A i \in 1..Len(cq) : i # 1 => cq'[i] = cq[i]
    BY <1>0, <2>1, ExceptSeq
  <2>3. Head(cq') = item /\ Tail(cq') = Tail(cq)
    <3>1. /\ Head(cq') = cq'[1] /\ Tail(cq') \in Seq(Callbacks) /\ Len(Tail(cq')) = Len(cq) - 1
          /\ \A i \in 1..Len(Tail(cq')) : Tail(cq')[i] = cq'[i + 1]
      BY <2>2
    <3>2. \A i \in 1..Len(Tail(cq)) : Tail(cq')[i] = Tail(cq)[i]
      BY <1>0, <2>2, <3>1
    <3> QED
      BY <1>0, <2>2, <3>1, <3>2, SeqEqual
  <2>4. Coming(cq') = Weight(item) + Coming(Tail(cq))
    BY <2>2, <2>3, ComingOps
  <2>5. Coming(cq') = Coming(cq) - Weight(Head(cq)) + Weight(item)
    BY <1>1, <1>2, <2>4
  <2>6. Kept(item)
    <3>1. Kept(Head(cq)) /\ item.n \in Nat
      BY <1>0 DEF CallbacksKept, Callbacks
    <3>2. CASE item.kind = "session"
      BY <3>1, <3>2 DEF Kept
    <3>3. CASE item.kind # "session"
      BY <2>1, <3>1, <3>3 DEF Kept
    <3> QED
      BY <3>2, <3>3
  <2>7. CallbacksKept'
    BY <2>2, <2>6 DEF CallbacksKept
  <2>8. ASSUME item.kind # "session" \/ item.n = Head(cq).n, Told PROVE Told'
    <3>1. PICK i \in 1..Len(cq) : cq[i].kind = "session" /\ cq[i].n > 0
      BY <2>8 DEF Told
    <3>2. CASE i = 1
      BY <1>0, <2>2, <2>8, <3>1, <3>2 DEF Told
    <3>3. CASE i # 1
      BY <2>2, <3>1, <3>3 DEF Told
    <3> QED
      BY <3>2, <3>3
  <2> QED
    BY <1>3, <2>2, <2>5, <2>7, <2>8
<1> QED
  BY <1>4, <1>5

\* One call less of the first callback.
LEMMA OneLessIs ==
  ASSUME cq \in Seq(Callbacks), cq # <<>>, Head(cq).n > 0
  PROVE  /\ OneLess \in Callbacks /\ OneLess.kind = Head(cq).kind
         /\ OneLess.what = Head(cq).what /\ OneLess.told = Head(cq).told
         /\ OneLess.n = Head(cq).n - 1 /\ OneLess.n \in Nat
         /\ Weight(OneLess) = IF Head(cq).kind = "event" THEN Weight(Head(cq)) - 1 ELSE 0
<1>1. Head(cq) \in Callbacks
  OBVIOUS
<1>2. ASSUME NEW e \in Callbacks, e.n > 0
      PROVE  LET f == [e EXCEPT !.n = e.n - 1] IN
               /\ f \in Callbacks /\ f.kind = e.kind /\ f.what = e.what /\ f.told = e.told
               /\ f.n = e.n - 1 /\ f.n \in Nat
  BY SMTT(30), <1>2 DEF Callbacks
<1>3. /\ OneLess \in Callbacks /\ OneLess.kind = Head(cq).kind
      /\ OneLess.what = Head(cq).what /\ OneLess.told = Head(cq).told
      /\ OneLess.n = Head(cq).n - 1 /\ OneLess.n \in Nat
  BY <1>1, <1>2 DEF OneLess
<1> QED
  BY <1>3 DEF Weight

\* Requests, as they are sent and answered.
LEMMA RequestSteps ==
  ASSUME reqs \in Seq(Threads \cup {"get"}), Requests
  PROVE  /\ /\ reqs' = reqs \/ reqs' = Append(reqs, "get")
            /\ upc = "sent" => upc' = "sent"
            /\ lpc = "sent" => lpc' = "sent"
            => Requests'
         /\ reqs' = Append(reqs, "user") /\ upc # "sent" /\ upc' = "sent" /\ lpc' = lpc
            => Requests'
         /\ reqs' = Append(reqs, "loop") /\ lpc # "sent" /\ lpc' = "sent" /\ upc' = upc
            => Requests'
         /\ reqs # <<>> /\ reqs' = Tail(reqs) =>
              /\ Head(reqs) \in Threads \cup {"get"}
              /\ Head(reqs) = "get" /\ upc' = upc /\ lpc' = lpc => Requests'
              /\ Head(reqs) = "user" => upc = "sent" /\ (lpc' = lpc => Requests')
              /\ Head(reqs) = "loop" => lpc = "sent" /\ (upc' = upc => Requests')
<1>0. Len(reqs) \in Nat
  OBVIOUS
<1>1. ASSUME NEW t \in Threads \cup {"get"}, reqs' = Append(reqs, t)
      PROVE  /\ Len(reqs') = Len(reqs) + 1 /\ reqs'[Len(reqs) + 1] = t
             /\ \A i \in 1..Len(reqs) : reqs'[i] = reqs[i]
             /\ \A i \in 1..Len(reqs') : i = Len(reqs) + 1 \/ i \in 1..Len(reqs)
  BY <1>0, <1>1
<1>2. ASSUME reqs' = reqs, upc = "sent" => upc' = "sent", lpc = "sent" => lpc' = "sent"
      PROVE  Requests'
  BY <1>2 DEF Requests
<1>3. ASSUME reqs' = Append(reqs, "get"), upc = "sent" => upc' = "sent",
             lpc = "sent" => lpc' = "sent"
      PROVE  Requests'
  <2>1. /\ Len(reqs') = Len(reqs) + 1 /\ reqs'[Len(reqs) + 1] = "get"
        /\ \A i \in 1..Len(reqs) : reqs'[i] = reqs[i]
        /\ \A i \in 1..Len(reqs') : i = Len(reqs) + 1 \/ i \in 1..Len(reqs)
    BY <1>1, <1>3
  <2> QED
    BY <1>3, <2>1 DEF Requests
<1>4. ASSUME reqs' = Append(reqs, "user"), upc # "sent", upc' = "sent", lpc' = lpc
      PROVE  Requests'
  <2>1. /\ Len(reqs') = Len(reqs) + 1 /\ reqs'[Len(reqs) + 1] = "user"
        /\ \A i \in 1..Len(reqs) : reqs'[i] = reqs[i]
        /\ \A i \in 1..Len(reqs') : i = Len(reqs) + 1 \/ i \in 1..Len(reqs)
    BY <1>1, <1>4 DEF Threads
  <2>2. \A i \in 1..Len(reqs) : reqs[i] # "user"
    BY <1>4 DEF Requests
  <2> QED
    BY <1>4, <2>1, <2>2 DEF Requests
<1>5. ASSUME reqs' = Append(reqs, "loop"), lpc # "sent", lpc' = "sent", upc' = upc
      PROVE  Requests'
  <2>1. /\ Len(reqs') = Len(reqs) + 1 /\ reqs'[Len(reqs) + 1] = "loop"
        /\ \A i \in 1..Len(reqs) : reqs'[i] = reqs[i]
        /\ \A i \in 1..Len(reqs') : i = Len(reqs) + 1 \/ i \in 1..Len(reqs)
    BY <1>1, <1>5 DEF Threads
  <2>2. \A i \in 1..Len(reqs) : reqs[i] # "loop"
    BY <1>5 DEF Requests
  <2> QED
    BY <1>5, <2>1, <2>2 DEF Requests
<1>6. ASSUME reqs # <<>>, reqs' = Tail(reqs)
      PROVE  /\ Head(reqs) \in Threads \cup {"get"}
             /\ Head(reqs) = "get" /\ upc' = upc /\ lpc' = lpc => Requests'
             /\ Head(reqs) = "user" => upc = "sent" /\ (lpc' = lpc => Requests')
             /\ Head(reqs) = "loop" => lpc = "sent" /\ (upc' = upc => Requests')
  <2>1. /\ Head(reqs) = reqs[1] /\ 1 \in 1..Len(reqs) /\ Len(reqs') = Len(reqs) - 1
        /\ Head(reqs) \in Threads \cup {"get"}
        /\ \A i \in 1..Len(reqs') : reqs'[i] = reqs[i + 1] /\ i + 1 \in 1..Len(reqs)
    BY <1>0, <1>6
  <2>2. \A i, j \in 1..Len(reqs') : reqs'[i] = reqs'[j] /\ reqs'[i] # "get" => i = j
    <3> SUFFICES ASSUME NEW i \in 1..Len(reqs'), NEW j \in 1..Len(reqs'),
                        reqs'[i] = reqs'[j], reqs'[i] # "get"
                 PROVE  i = j
      OBVIOUS
    <3>1. i + 1 = j + 1
      BY <2>1 DEF Requests
    <3> QED
      BY <3>1
  <2>3. \A i \in 1..Len(reqs') : /\ reqs'[i] = "user" => upc = "sent"
                                 /\ reqs'[i] = "loop" => lpc = "sent"
    BY <2>1 DEF Requests
  <2>4. Head(reqs) # "get" => \A i \in 1..Len(reqs') : reqs'[i] # Head(reqs)
    <3> SUFFICES ASSUME Head(reqs) # "get", NEW i \in 1..Len(reqs'), reqs'[i] = Head(reqs)
                 PROVE  FALSE
      OBVIOUS
    <3>1. i + 1 = 1
      BY <2>1 DEF Requests
    <3> QED
      BY <3>1
  <2>5. (Head(reqs) = "user" => upc = "sent") /\ (Head(reqs) = "loop" => lpc = "sent")
    BY <2>1 DEF Requests
  <2>6. ASSUME \A i \in 1..Len(reqs') : /\ reqs'[i] = "user" => upc' = "sent"
                                        /\ reqs'[i] = "loop" => lpc' = "sent"
        PROVE  Requests'
    BY <2>2, <2>6 DEF Requests
  <2> QED
    BY <2>1, <2>3, <2>4, <2>5, <2>6
<1> QED
  BY <1>2, <1>3, <1>4, <1>5, <1>6
-----------------------------------------------------------------------------
Types == TypeOK /\ CallbacksKept /\ Requests

(* The user's registration that the server has not answered will be a watcher. *)
Asking == IF upc = "sent" THEN 1 ELSE 0

(* What a step may do to what stands for a watcher. *)
Balance == Tokens' + Asking' - (regs' + copies') <= Tokens + Asking - (regs + copies)
Lasting ==
    entry /\ entry' /\ stat = "CONNECTED" /\ link' # "expired"
      => Tokens' > 0 \/ (Tokens' = Tokens /\ (Told => Told'))

\* What the counts are.
LEMMA CountsAre ==
  ASSUME Types
  PROVE  /\ cq \in Seq(Callbacks) /\ reqs \in Seq(Threads \cup {"get"})
         /\ Coming(cq) \in Nat /\ Started \in {0, 1} /\ Started <= Coming(cq)
         /\ cpc = "idle" => Started = 0
         /\ watching \in Nat /\ functors \in Nat /\ timers \in Nat
         /\ regs \in Nat /\ copies \in Nat
         /\ Setting \in {0, 1} /\ Asking \in {0, 1}
<1>1. cq \in Seq(Callbacks) /\ Coming(cq) \in Nat
  BY ComingOps DEF Types, TypeOK
<1>2. Started \in {0, 1} /\ (cpc = "idle" => Started = 0)
  BY DEF Started
<1>3. Started <= Coming(cq)
  <2>1. CASE Started = 0
    BY <1>1, <2>1
  <2>2. CASE Started # 0
    <3>1. Started = 1 /\ cq # <<>> /\ Head(cq).n > 0 /\ Head(cq).kind = "event"
      BY <2>2 DEF Started, Types, CallbacksKept
    <3>2. Coming(cq) = Weight(Head(cq)) + Coming(Tail(cq)) /\ Coming(Tail(cq)) \in Nat
      <4>1. Tail(cq) \in Seq(Callbacks)
        BY <1>1, <3>1
      <4> QED
        BY <1>1, <3>1, <4>1, ComingOps
    <3>3. Weight(Head(cq)) = Head(cq).n /\ Head(cq).n \in Nat
      <4>1. Head(cq) \in Callbacks
        BY <1>1, <3>1
      <4> QED
        BY <3>1, <4>1 DEF Weight, Callbacks
    <3> QED
      BY <3>1, <3>2, <3>3
  <2> QED
    BY <2>1, <2>2
<1> QED
  BY <1>1, <1>2, <1>3 DEF Types, TypeOK, Setting, Asking

\* The server and the C library.
LEMMA LibraryStep ==
  ASSUME Types,
         \/ ServerChange \/ ConnectionLoss \/ SessionExpires \/ Library
  PROVE  Types' /\ Balance /\ Lasting
<1> USE DEF serverVars, linkVars, clientVars, queueVars, boundVars
<1>0. /\ cq \in Seq(Callbacks) /\ reqs \in Seq(Threads \cup {"get"})
      /\ Coming(cq) \in Nat /\ Started \in {0, 1} /\ Started <= Coming(cq)
      /\ cpc = "idle" => Started = 0
      /\ watching \in Nat /\ functors \in Nat /\ timers \in Nat
      /\ regs \in Nat /\ copies \in Nat
      /\ Setting \in {0, 1} /\ Asking \in {0, 1}
      /\ TypeOK /\ CallbacksKept /\ Requests
  BY CountsAre DEF Types
<1>n. /\ Coming(cq) \in Nat /\ Started \in {0, 1} /\ Started <= Coming(cq)
      /\ watching \in Nat /\ functors \in Nat /\ timers \in Nat
      /\ regs \in Nat /\ copies \in Nat
      /\ Setting \in {0, 1} /\ Asking \in {0, 1}
  BY <1>0
<1>e. /\ \A w \in {"changed", "deleted"}, n, v \in Nat :
           /\ Event(w, n, v) \in Callbacks /\ Weight(Event(w, n, v)) = n
           /\ n > 0 => Kept(Event(w, n, v))
      /\ \A s \in States, n \in Nat :
           /\ SessionEvent(s, n) \in Callbacks /\ Weight(SessionEvent(s, n)) = 0
           /\ Kept(SessionEvent(s, n))
      /\ \A w \in {"ok", "nonode", "failed"}, v \in Nat :
           /\ Data(w, v) \in Callbacks /\ Weight(Data(w, v)) = 0 /\ Kept(Data(w, v))
  BY DEF Event, SessionEvent, Data, Callbacks, Weight, Kept
<1>1. CASE ServerChange
  <2>0. /\ UNCHANGED <<kind, linkVars, reqs, clientVars, queueVars, cpc, upc, lpc, seen,
                       copies, boundVars>>
        /\ version' = version + 1 /\ version' \in Nat /\ exists' \in BOOLEAN
    <3>1. /\ UNCHANGED <<kind, linkVars, reqs, clientVars, queueVars, cpc, upc, lpc, seen,
                         copies, boundVars>>
          /\ version' = version + 1
      BY <1>1 DEF ServerChange
    <3>2. exists' \in BOOLEAN
      BY <1>0, <1>1 DEF ServerChange, Alter, Delete, Create, TypeOK
    <3> QED
      BY <1>0, <3>1, <3>2 DEF TypeOK
  <2>1. Requests' /\ Setting' = Setting /\ Asking' = Asking
    BY <1>0, <2>0 DEF Requests, Setting, Asking
  <2>2. CASE UNCHANGED <<cq, watching>>
    <3>1. CallbacksKept' /\ Coming(cq') = Coming(cq) /\ Started' = Started /\ (Told => Told')
      BY <1>0, <2>0, <2>2 DEF CallbacksKept, Started, Told
    <3>2. TypeOK'
      BY <1>0, <2>0, <2>2 DEF TypeOK
    <3> QED
      BY SMTT(30), <1>0, <2>0, <2>1, <2>2, <3>1, <3>2 DEF Types, Balance, Lasting, Tokens
  <2>3. ASSUME NEW w \in {"changed", "deleted"}, Fire(w, version + 1), watching > 0
        PROVE  Types' /\ Balance /\ Lasting
    <3>1. cq' = Append(cq, Event(w, watching, version + 1)) /\ watching' = 0
      BY <2>3 DEF Fire
    <3>2. /\ Event(w, watching, version + 1) \in Callbacks
          /\ Weight(Event(w, watching, version + 1)) = watching
          /\ Kept(Event(w, watching, version + 1))
      BY <1>0, <1>e, <2>0, <2>3
    <3>3. /\ cq' \in Seq(Callbacks) /\ CallbacksKept' /\ (Told => Told')
          /\ Coming(cq') = Coming(cq) + watching /\ Started' = Started
      BY <1>0, <2>0, <3>1, <3>2, Queued
    <3>4. TypeOK'
      BY <1>0, <2>0, <3>1, <3>3 DEF TypeOK, CallbacksKept
    <3>5. Tokens \in Int /\ Tokens' = Tokens
      BY SMTT(30), <1>0, <2>0, <2>1, <3>1, <3>3 DEF Tokens
    <3>6. Balance /\ Lasting
      BY <1>0, <2>0, <2>1, <3>3, <3>5 DEF Balance, Lasting
    <3> QED
      BY <2>1, <3>3, <3>4, <3>6 DEF Types
  <2> QED
    BY <1>1, <2>2, <2>3 DEF ServerChange, Alter, Delete, Create
<1>2. ASSUME NEW e \in Callbacks, Kept(e), Weight(e) = 0, cq' = Append(cq, e),
             UNCHANGED <<serverVars, clientVars, queueVars, cpc, upc, lpc, seen, copies, regs,
                         cancels>>,
             losses' \in Nat, expiries' \in Nat, link' \in {"up", "down", "expired"},
             lossExists' \in BOOLEAN, lossVersion' \in Nat,
             watching' = watching \/ (watching' = 0 /\ link' = "expired"),
             reqs' \in Seq(Threads \cup {"get"}), Requests'
      PROVE  Types' /\ Balance /\ Lasting
  <2>1. /\ cq' \in Seq(Callbacks) /\ CallbacksKept' /\ (Told => Told')
        /\ Coming(cq') = Coming(cq) /\ Started' = Started
    BY <1>0, <1>2, Queued
  <2>2. TypeOK'
    BY <1>0, <1>2, <2>1 DEF TypeOK, CallbacksKept
  <2>3. Setting' = Setting /\ Asking' = Asking
    BY <1>2 DEF Setting, Asking
  <2>4. /\ functors' = functors /\ timers' = timers /\ regs' = regs /\ copies' = copies
        /\ watching' = watching \/ (watching' = 0 /\ link' = "expired")
    BY <1>2
  <2>c. Coming(cq') = Coming(cq) /\ Started' = Started /\ (Told => Told')
    BY <2>1
  <2>5. /\ Tokens \in Int /\ Tokens' \in Int /\ Tokens' <= Tokens
        /\ Tokens' = Tokens \/ link' = "expired"
    BY <1>n, <2>c, <2>3, <2>4 DEF Tokens
  <2>6. Balance
    <3>1. /\ Tokens \in Int /\ Tokens' \in Int /\ Tokens' <= Tokens
          /\ Asking' = Asking /\ regs' = regs /\ copies' = copies
          /\ Asking \in Int /\ Asking' \in Int
          /\ regs \in Int /\ copies \in Int /\ regs' \in Int /\ copies' \in Int
      BY <1>n, <2>3, <2>4, <2>5
    <3> DEFINE t == Tokens
               u == Tokens'
               a == Asking
               b == Asking'
    <3>2. t \in Int /\ u \in Int /\ a \in Int /\ u <= t /\ b = a
      BY <3>1
    <3> SUFFICES u + b - (regs' + copies') <= t + a - (regs + copies)
      BY DEF Balance
    <3> HIDE DEF t, u, a, b
    <3> QED
      BY <3>1, <3>2
  <2>7. Lasting
    BY <2>c, <2>5 DEF Lasting
  <2> QED
    BY <1>2, <2>1, <2>2, <2>6, <2>7 DEF Types
<1>3. ASSUME cq' = cq, reqs # <<>>, reqs' = Tail(reqs), Head(reqs) \in Threads,
             UNCHANGED <<serverVars, linkVars, clientVars, queueVars, cpc, seen, copies,
                         boundVars>>,
             upc' \in RegPcs, lpc' \in RegPcs, watching' \in Nat,
             Head(reqs) = "user" => lpc' = lpc /\ upc' # "sent",
             Head(reqs) = "loop" => upc' = upc,
             \/ watching' = watching + 1 /\ (Head(reqs) = "loop" => lpc' = "store")
             \/ watching' = watching /\ (Head(reqs) = "loop" => lpc' = "failed")
      PROVE  Types' /\ Balance /\ Lasting
  <2>1. Requests' /\ (Head(reqs) = "user" => upc = "sent") /\ (Head(reqs) = "loop" => lpc = "sent")
    BY <1>0, <1>3, RequestSteps DEF Threads
  <2>2. CallbacksKept' /\ Coming(cq') = Coming(cq) /\ Started' = Started /\ (Told => Told')
    BY <1>0, <1>3 DEF CallbacksKept, Started, Told
  <2>3. TypeOK'
    <3>1. reqs' \in Seq(Threads \cup {"get"})
      BY <1>0, <1>3
    <3> QED
      BY <1>0, <1>3, <2>2, <3>1 DEF TypeOK, CallbacksKept
  <2>n. functors' = functors /\ timers' = timers /\ regs' = regs /\ copies' = copies
    BY <1>3
  <2>4. CASE Head(reqs) = "user"
    <3>0. watching' = watching \/ watching' = watching + 1
      BY <1>3
    <3>1. Setting' = Setting /\ Asking = 1 /\ Asking' = 0
      BY <1>3, <2>1, <2>4 DEF Setting, Asking
    <3>2. Tokens \in Int /\ (Tokens' = Tokens \/ Tokens' = Tokens + 1)
      BY <1>n, <2>n, <2>2, <3>0, <3>1 DEF Tokens
    <3>3. Balance /\ Lasting
      <4>1. Tokens >= 0
        BY <1>n DEF Tokens
      <4> QED
        BY <1>n, <2>n, <2>2, <3>1, <3>2, <4>1 DEF Balance, Lasting
    <3> QED
      BY <2>1, <2>2, <2>3, <3>3 DEF Types
  <2>5. CASE Head(reqs) = "loop"
    <3>1. Setting = 1 /\ Asking' = Asking
      BY <1>3, <2>1, <2>5 DEF Setting, Asking
    <3>2. CASE watching' = watching + 1 /\ lpc' = "store"
      <4>1. Setting' = 0
        BY <3>2 DEF Setting
      <4>2. Tokens' = Tokens
        BY <1>n, <2>n, <2>2, <3>1, <3>2, <4>1 DEF Tokens
      <4>3. Tokens \in Int /\ Balance /\ Lasting
        BY <1>n, <2>n, <2>2, <3>1, <4>2 DEF Tokens, Balance, Lasting
      <4> QED
        BY <2>1, <2>2, <2>3, <4>3 DEF Types
    <3>3. CASE watching' = watching /\ lpc' = "failed"
      <4>1. Setting' = 1
        BY <3>3 DEF Setting
      <4> QED
        BY <1>0, <1>3, <2>1, <2>2, <2>3, <3>1, <3>3, <4>1 DEF Types, Balance, Lasting, Tokens
    <3> QED
      BY <1>3, <2>5, <3>2, <3>3
  <2> QED
    BY <1>3, <2>4, <2>5 DEF Threads
<1>4. CASE ServerAnswer
  <2>0. /\ reqs # <<>> /\ reqs' = Tail(reqs) /\ link = "up"
        /\ UNCHANGED <<serverVars, linkVars, clientVars, queueVars, cpc, seen, copies,
                       boundVars>>
        /\ reqs' \in Seq(Threads \cup {"get"})
    BY <1>0, <1>4 DEF ServerAnswer
  <2>1. CASE AnswerGet
    <3>1. PICK w \in {"ok", "nonode", "failed"} : cq' = Append(cq, Data(w, version))
      BY <2>1 DEF AnswerGet
    <3>2. Data(w, version) \in Callbacks /\ Weight(Data(w, version)) = 0 /\ Kept(Data(w, version))
      BY <1>0, <1>e DEF TypeOK
    <3>3. Head(reqs) = "get" /\ UNCHANGED <<watching, upc, lpc>>
      BY <2>1 DEF AnswerGet
    <3>4. Requests'
      BY <1>0, <2>0, <3>3, RequestSteps
    <3> QED
      BY <1>0, <1>2, <2>0, <3>1, <3>2, <3>3, <3>4 DEF TypeOK
  <2>2. CASE AnswerReg
    <3>1. /\ cq' = cq /\ Head(reqs) \in Threads
          /\ watching' = IF Registers THEN watching + 1 ELSE watching
          /\ Head(reqs) = "user" => /\ lpc' = lpc
                                    /\ upc' = IF Registers THEN "store" ELSE "failed"
          /\ Head(reqs) = "loop" => /\ upc' = upc
                                    /\ lpc' = IF Registers THEN "store" ELSE "failed"
      BY <2>2 DEF AnswerReg
    <3>2. upc' \in RegPcs /\ lpc' \in RegPcs
      BY <1>0, <3>1 DEF TypeOK, RegPcs, Threads
    <3> QED
      BY <1>0, <1>3, <2>0, <3>1, <3>2
  <2> QED
    BY <1>4, <2>1, <2>2 DEF ServerAnswer
<1>5. CASE RequestFails
  <2>0. /\ reqs # <<>> /\ reqs' = Tail(reqs)
        /\ UNCHANGED <<serverVars, linkVars, watching, clientVars, queueVars, cpc, seen, copies,
                       boundVars>>
        /\ reqs' \in Seq(Threads \cup {"get"})
    BY <1>0, <1>5 DEF RequestFails
  <2>1. CASE Head(reqs) = "get"
    <3>1. cq' = Append(cq, Data("failed", 0)) /\ UNCHANGED <<upc, lpc>>
      BY <1>5, <2>1 DEF RequestFails
    <3>2. /\ Data("failed", 0) \in Callbacks /\ Weight(Data("failed", 0)) = 0
          /\ Kept(Data("failed", 0))
      BY <1>e
    <3>3. Requests'
      BY <1>0, <2>0, <2>1, <3>1, RequestSteps
    <3> QED
      BY <1>0, <1>2, <2>0, <3>1, <3>2, <3>3 DEF TypeOK
  <2>2. CASE Head(reqs) # "get"
    <3>1. /\ Head(reqs) \in Threads /\ cq' = cq
          /\ Head(reqs) = "user" => lpc' = lpc /\ upc' = "failed"
          /\ Head(reqs) = "loop" => upc' = upc /\ lpc' = "failed"
      BY <1>5, <2>2 DEF RequestFails, Threads
    <3>2. upc' \in RegPcs /\ lpc' \in RegPcs
      BY <1>0, <3>1 DEF TypeOK, RegPcs, Threads
    <3> QED
      BY <1>0, <1>3, <2>0, <3>1, <3>2
  <2> QED
    BY <2>1, <2>2
<1>6. CASE ConnectionLoss
  <2>1. /\ SessionEvent("CONNECTING", watching) \in Callbacks
        /\ Weight(SessionEvent("CONNECTING", watching)) = 0
        /\ Kept(SessionEvent("CONNECTING", watching))
    BY <1>0, <1>e DEF States
  <2>2. Requests' /\ reqs' = reqs
    BY <1>0, <1>6, RequestSteps DEF ConnectionLoss
  <2> QED
    BY <1>0, <1>2, <1>6, <2>1, <2>2 DEF ConnectionLoss, TypeOK
<1>7. CASE SessionExpires
  <2>1. /\ SessionEvent("EXPIRED", watching) \in Callbacks
        /\ Weight(SessionEvent("EXPIRED", watching)) = 0
        /\ Kept(SessionEvent("EXPIRED", watching))
    BY <1>0, <1>e DEF States
  <2>2. Requests' /\ reqs' = reqs
    BY <1>0, <1>7, RequestSteps DEF SessionExpires
  <2> QED
    BY <1>0, <1>2, <1>7, <2>1, <2>2 DEF SessionExpires, TypeOK
<1>8. CASE Reconnected
  <2>1. /\ SessionEvent("CONNECTED", 0) \in Callbacks
        /\ Weight(SessionEvent("CONNECTED", 0)) = 0
        /\ Kept(SessionEvent("CONNECTED", 0))
    BY <1>e DEF States
  <2>2. Requests' /\ reqs' = reqs
    BY <1>0, <1>8, RequestSteps DEF Reconnected
  <2>3. cq' = Append(cq, SessionEvent("CONNECTED", 0))
    BY <1>8 DEF Reconnected
  <2> QED
    BY <1>0, <1>2, <1>8, <2>1, <2>2, <2>3 DEF Reconnected, TypeOK
<1>9. CASE ConnectionResumes
  <2> DEFINE s == SessionEvent("CONNECTED", watching)
             told == Append(cq, s)
             e == Event(IF exists THEN "changed" ELSE "deleted", watching, version)
  <2>0. /\ UNCHANGED <<serverVars, lossExists, lossVersion, reqs, clientVars, queueVars, cpc,
                       upc, lpc, seen, copies, boundVars>>
        /\ link' = "up" /\ Requests'
    BY <1>0, <1>9, RequestSteps DEF ConnectionResumes
  <2>1. s \in Callbacks /\ Weight(s) = 0 /\ Kept(s)
    BY <1>0, <1>e DEF States
  <2>2. CASE watching > 0 /\ Missed
    <3>1. cq' = Append(told, e) /\ watching' = 0
      BY <1>9, <2>2 DEF ConnectionResumes
    <3>2. e \in Callbacks /\ Weight(e) = watching /\ Kept(e)
      BY <1>0, <1>e, <2>2 DEF TypeOK
    <3> HIDE DEF s, e
    <3>3. /\ told \in Seq(Callbacks) /\ Len(told) = Len(cq) + 1 /\ Len(cq) \in Nat
          /\ told[Len(cq) + 1] = s /\ \A i \in 1..Len(cq) : told[i] = cq[i]
          /\ cq # <<>> => Head(told) = Head(cq)
      BY <1>0, <2>1
    <3>4. /\ cq' \in Seq(Callbacks) /\ Len(cq') = Len(told) + 1 /\ cq'[Len(told) + 1] = e
          /\ \A i \in 1..Len(told) : cq'[i] = told[i]
          /\ cq' # <<>> /\ Head(cq') = Head(told)
      BY <3>1, <3>2, <3>3
    <3>5. Coming(cq') = Coming(cq) + watching
      <4>1. Coming(told) = Coming(cq) + Weight(s)
        BY <1>0, <2>1, ComingOps
      <4>2. Coming(cq') = Coming(told) + Weight(e)
        BY <3>1, <3>2, <3>3, ComingOps
      <4> QED
        BY <1>0, <2>1, <3>2, <4>1, <4>2
    <3>6. \A i \in 1..Len(cq') : Kept(cq'[i])
      <4> SUFFICES ASSUME NEW i \in 1..Len(cq') PROVE Kept(cq'[i])
        OBVIOUS
      <4>1. i = Len(told) + 1 \/ i = Len(cq) + 1 \/ i \in 1..Len(cq)
        BY <3>3, <3>4
      <4>2. CASE i = Len(told) + 1
        BY <3>2, <3>4, <4>2
      <4>3. CASE i = Len(cq) + 1
        <5>1. i \in 1..Len(told)
          BY <3>3, <4>3
        <5> QED
          BY <2>1, <3>3, <3>4, <4>3, <5>1
      <4>4. CASE i \in 1..Len(cq)
        <5>1. i \in 1..Len(told)
          BY <3>3, <4>4
        <5> QED
          BY <1>0, <3>3, <3>4, <4>4, <5>1 DEF CallbacksKept
      <4> QED
        BY <4>1, <4>2, <4>3, <4>4
    <3>7. CallbacksKept' /\ Started' = Started
      BY <1>0, <2>0, <3>3, <3>4, <3>6 DEF CallbacksKept, Started
    <3>8. Told => Told'
      BY <3>3, <3>4 DEF Told
    <3>9. TypeOK'
      BY <1>0, <2>0, <3>1, <3>4, <3>7 DEF TypeOK, CallbacksKept
    <3>10. Setting' = Setting /\ Asking' = Asking
      BY <2>0 DEF Setting, Asking
    <3> QED
      BY SMTT(30), <1>0, <2>0, <3>1, <3>5, <3>7, <3>8, <3>9, <3>10
      DEF Types, Balance, Lasting, Tokens
  <2>3. CASE ~(watching > 0 /\ Missed)
    <3>1. cq' = told /\ watching' = watching
      BY <1>9, <2>3 DEF ConnectionResumes
    <3> QED
      BY <1>0, <1>2, <2>0, <2>1, <3>1 DEF TypeOK
  <2> QED
    BY <2>2, <2>3
<1> QED
  BY <1>1, <1>4, <1>5, <1>6, <1>7, <1>8, <1>9 DEF Library

\* What is set or has fired, and what is left to the second thread.
Here  == watching + (Coming(cq) - Started)
Later == functors + timers + Setting

LEMMA Apart ==
  ASSUME Coming(cq) \in Int, Started \in Int, watching \in Int, functors \in Int,
         timers \in Int, Setting \in Int
  PROVE  Tokens = Here + Later /\ Here \in Int /\ Later \in Int /\ Tokens \in Int
BY DEF Tokens, Here, Later

LEMMA Sums2 ==
  \A p, q, r, s \in Int : p <= r /\ q <= s => p + q <= r + s
OBVIOUS

LEMMA Differences ==
  \A u, t, b, a, n, m, d, c \in Int :
    u - d <= t - c /\ b - n <= a - m => u + b - (n + d) <= t + a - (m + c)
OBVIOUS

\* A watcher more is one that a registration or a session event pays for.
LEMMA Balanced ==
  ASSUME Tokens \in Int, Tokens' \in Int, Asking \in Int, Asking' \in Int,
         regs \in Int, regs' \in Int, copies \in Int, copies' \in Int,
         Tokens' - copies' <= Tokens - copies, Asking' - regs' <= Asking - regs
  PROVE  Balance
BY Differences, Zenon DEF Balance

\* The user's thread and the second thread.
LEMMA ThreadStep ==
  ASSUME Types,
         \/ UserReg \/ CancelRegNodeWatcher \/ User \/ SecondThread
  PROVE  Types' /\ Balance /\ Lasting
<1>0. /\ cq \in Seq(Callbacks) /\ reqs \in Seq(Threads \cup {"get"})
      /\ TypeOK /\ CallbacksKept /\ Requests
  BY CountsAre DEF Types
<1>n. /\ Coming(cq) \in Nat /\ Started \in {0, 1} /\ Started <= Coming(cq)
      /\ watching \in Nat /\ functors \in Nat /\ timers \in Nat
      /\ regs \in Nat /\ copies \in Nat
      /\ Setting \in {0, 1} /\ Asking \in {0, 1}
  BY CountsAre
<1>1. /\ kind' = kind /\ exists' = exists /\ version' = version
      /\ link' = link /\ lossExists' = lossExists /\ lossVersion' = lossVersion
      /\ watching' = watching /\ cq' = cq /\ stat' = stat /\ cpc' = cpc /\ seen' = seen
      /\ copies' = copies /\ losses' = losses /\ expiries' = expiries
  BY DEF UserReg, CancelRegNodeWatcher, User, UserRegReturns, SecondThread, RunFunctor,
         TimerFires, LoopReg, LoopRegReturns, serverVars, linkVars, boundVars, clientVars
<1>2. /\ Coming(cq') = Coming(cq) /\ Started' = Started /\ (Told => Told')
      /\ CallbacksKept'
  BY <1>0, <1>1 DEF Started, Told, CallbacksKept
<1>c. /\ watching' = watching /\ copies' = copies /\ watching' \in Nat /\ copies' \in Nat
      /\ Coming(cq') = Coming(cq) /\ Started' = Started
      /\ Coming(cq') \in Nat /\ Started' \in Nat
  BY <1>n, <1>1, <1>2
<1>3. ASSUME reqs' \in Seq(Threads \cup {"get"}), Requests', upc' \in RegPcs, lpc' \in RegPcs,
             functors' \in Nat, timers' \in Nat, entry' \in BOOLEAN, regs' \in Nat,
             cancels' \in Nat
      PROVE  Types'
  <2>1. TypeOK'
    BY <1>0, <1>1, <1>3 DEF TypeOK, CallbacksKept
  <2> QED
    BY <1>2, <1>3, <2>1 DEF Types
<1>4. /\ upc \in RegPcs /\ lpc \in RegPcs /\ entry \in BOOLEAN /\ cancels \in Nat
      /\ Requests' \/ reqs' # reqs \/ upc = "sent" \/ lpc = "sent"
  BY <1>0, RequestSteps DEF TypeOK
<1>h. Here' = Here /\ Here \in Int
  BY <1>n, <1>c DEF Here
<1>5. ASSUME functors' \in Nat, timers' \in Nat, Setting' \in {0, 1}
      PROVE  /\ Tokens = Here + Later /\ Tokens' = Here + Later'
             /\ Later \in Int /\ Later' \in Int /\ Tokens \in Int /\ Tokens' \in Int
  <2>1. Tokens = Here + Later /\ Later \in Int /\ Tokens \in Int
    BY <1>n, Apart
  <2>2. Tokens' = watching' + (Coming(cq') - Started') + functors' + timers' + Setting'
    BY DEF Tokens
  <2>3. Here' = watching' + (Coming(cq') - Started') /\ Later' = functors' + timers' + Setting'
    BY DEF Here, Later
  <2>4. Tokens' = Here' + Later' /\ Later' \in Int
    BY <1>c, <1>5, <2>2, <2>3
  <2> QED
    BY <1>h, <2>1, <2>4
<1>6. ASSUME Tokens \in Int, Tokens' \in Int, Tokens' <= Tokens, Asking' \in {0, 1},
             regs' \in Nat, Asking' - regs' <= Asking - regs
      PROVE  Balance
  <2>1. /\ Asking \in Int /\ Asking' \in Int /\ regs \in Int /\ regs' \in Int
        /\ copies \in Int /\ copies' \in Int
    BY <1>n, <1>c, <1>6
  <2>2. Tokens' - copies' <= Tokens - copies
    <3>1. -copies \in Int /\ copies' = copies
      BY <1>n, <1>c
    <3>2. Tokens' + (-copies) <= Tokens + (-copies)
      BY <1>6, <3>1, Sums2
    <3> QED
      BY <1>6, <2>1, <3>1, <3>2
  <2> QED
    BY <1>6, <2>1, <2>2, Balanced, Zenon
<1>7. CASE UserReg
  <2>1. /\ upc = "idle" /\ regs' = regs + 1 /\ upc' = AfterReg /\ RegNodeWatcher("user")
        /\ entry' = entry /\ functors' = functors /\ timers' = timers /\ lpc' = lpc
        /\ cancels' = cancels
    BY <1>7 DEF UserReg, serverVars, clientVars, queueVars
  <2>2. /\ \/ reqs' = reqs /\ upc' = "failed"
           \/ reqs' = Append(reqs, "user") /\ upc' = "sent"
    BY <2>1 DEF RegNodeWatcher, AfterReg
  <2>3. Requests' /\ reqs' \in Seq(Threads \cup {"get"})
    <3>1. CASE reqs' = reqs /\ upc' = "failed"
      BY <1>0, <2>1, <3>1, RequestSteps
    <3>2. CASE reqs' = Append(reqs, "user") /\ upc' = "sent"
      BY <1>0, <2>1, <3>2, RequestSteps DEF Threads
    <3> QED
      BY <2>2, <3>1, <3>2
  <2>4. Types'
    BY <1>n, <1>3, <1>4, <2>1, <2>2, <2>3 DEF RegPcs
  <2>5. Setting' = Setting /\ Asking = 0 /\ Asking' \in {0, 1} /\ regs' \in Nat
    BY <1>n, <2>1 DEF Setting, Asking
  <2>6. Tokens' = Tokens /\ Tokens \in Int /\ Lasting
    <3>1. Later' = Later
      BY <2>1, <2>5 DEF Later
    <3>2. functors' \in Nat /\ timers' \in Nat /\ Setting' \in {0, 1}
      BY <1>n, <2>1, <2>5
    <3>3. Tokens' = Tokens /\ Tokens \in Int
      BY <1>5, <3>1, <3>2
    <3> QED
      BY <1>2, <3>3 DEF Lasting
  <2>7. Balance
    <3>1. Asking' - regs' <= Asking - regs
      <4>1. regs \in Int /\ regs' = regs + 1 /\ Asking = 0
        BY <1>n, <2>1, <2>5
      <4>2. CASE Asking' = 0
        BY <4>1, <4>2
      <4>3. CASE Asking' = 1
        BY <4>1, <4>3
      <4> QED
        BY <2>5, <4>2, <4>3
    <3>2. Tokens' \in Int /\ Tokens' <= Tokens
      BY <2>6
    <3> QED
      BY <1>6, <2>5, <2>6, <3>1, <3>2
  <2> QED
    BY <2>4, <2>6, <2>7
<1>8. CASE UserRegReturns \/ CancelRegNodeWatcher
  <2>1. /\ \/ upc \in {"store", "failed"} /\ upc' = "idle"
           \/ upc' = upc
        /\ regs' = regs /\ reqs' = reqs /\ lpc' = lpc
        /\ functors' = functors /\ timers' = timers
        /\ entry' \in BOOLEAN /\ cancels' \in Nat
    <3>1. CASE UserRegReturns
      BY <1>4, <3>1 DEF UserRegReturns, SetNodeWatchData, queueVars, boundVars
    <3>2. CASE CancelRegNodeWatcher
      <4>1. cancels' = cancels + 1 /\ entry' = FALSE
        BY <3>2 DEF CancelRegNodeWatcher
      <4>2. /\ upc' = upc /\ regs' = regs /\ reqs' = reqs /\ lpc' = lpc
            /\ functors' = functors /\ timers' = timers
        BY <3>2 DEF CancelRegNodeWatcher, queueVars
      <4>3. entry' \in BOOLEAN
        BY <4>1, Zenon
      <4>4. cancels' \in Nat
        BY <1>4, <4>1
      <4> QED
        BY <4>2, <4>3, <4>4
    <3> QED
      BY <1>8, <3>1, <3>2
  <2>2. Requests'
    BY <1>0, <2>1, RequestSteps
  <2>3. Types'
    BY <1>n, <1>0, <1>3, <1>4, <2>1, <2>2 DEF RegPcs
  <2>4. Setting' = Setting /\ Asking' = Asking
    BY <2>1 DEF Setting, Asking
  <2>5. Tokens' = Tokens /\ Tokens \in Int /\ Lasting
    <3>1. Later' = Later
      BY <2>1, <2>4 DEF Later
    <3>2. functors' \in Nat /\ timers' \in Nat /\ Setting' \in {0, 1}
      BY <1>n, <2>1, <2>4
    <3>3. Tokens' = Tokens /\ Tokens \in Int
      BY <1>5, <3>1, <3>2
    <3> QED
      BY <1>2, <3>3 DEF Lasting
  <2>6. Balance
    <3>1. /\ Asking' - regs' <= Asking - regs /\ Asking' \in {0, 1} /\ regs' \in Nat
          /\ Tokens' \in Int /\ Tokens' <= Tokens
      BY <1>n, <2>1, <2>4, <2>5
    <3> QED
      BY <1>6, <2>5, <3>1
  <2> QED
    BY <2>3, <2>5, <2>6
<1>9. ASSUME regs' = regs, upc' = upc, entry' \in BOOLEAN, cancels' = cancels,
             reqs' \in Seq(Threads \cup {"get"}), Requests', lpc' \in RegPcs,
             functors' \in Nat, timers' \in Nat, Setting' \in {0, 1},
             Later' = Later \/ (Later' = Later - 1 /\ ~(entry /\ stat = "CONNECTED"))
      PROVE  Types' /\ Balance /\ Lasting
  <2>1. Types'
    BY <1>n, <1>3, <1>4, <1>9
  <2>2. Asking' = Asking
    BY <1>9 DEF Asking
  <2>3. /\ Tokens = Here + Later /\ Tokens' = Here + Later'
        /\ Later \in Int /\ Later' \in Int /\ Tokens \in Int /\ Tokens' \in Int
    BY <1>5, <1>9
  <2>4. Tokens' = Tokens \/ (Tokens' = Tokens - 1 /\ ~(entry /\ stat = "CONNECTED"))
    <3>1. CASE Later' = Later
      BY <2>3, <3>1
    <3>2. CASE Later' = Later - 1 /\ ~(entry /\ stat = "CONNECTED")
      BY <1>h, <2>3, <3>2
    <3> QED
      BY <1>9, <3>1, <3>2
  <2>5. Balance
    <3>1. Tokens' <= Tokens
      BY <2>3, <2>4
    <3>2. Asking' - regs' <= Asking - regs /\ Asking' \in {0, 1} /\ regs' \in Nat
      BY <1>n, <1>9, <2>2
    <3> QED
      BY <1>6, <2>3, <3>1, <3>2
  <2>6. Lasting
    BY <1>2, <2>4 DEF Lasting
  <2> QED
    BY <2>1, <2>5, <2>6
<1>10. CASE RunFunctor \/ TimerFires
  <2>1. /\ lpc = "idle" /\ lpc' = AutoReg
        /\ regs' = regs /\ upc' = upc /\ entry' = entry /\ cancels' = cancels /\ reqs' = reqs
        /\ \/ functors > 0 /\ functors' = functors - 1 /\ timers' = timers
           \/ timers > 0 /\ timers' = timers - 1 /\ functors' = functors
    BY <1>10 DEF RunFunctor, TimerFires, TimerLeft, clientVars, boundVars
  <2>2. Setting = 0 /\ Setting' = IF stat = "CONNECTED" /\ entry THEN 1 ELSE 0
    BY <2>1 DEF Setting, AutoReg
  <2>3. Requests' /\ lpc' \in RegPcs
    BY <1>0, <2>1, RequestSteps DEF AutoReg, RegPcs
  <2>4. functors' \in Nat /\ timers' \in Nat /\ Setting' \in {0, 1}
    BY <1>n, <2>1, <2>2
  <2>5. Later' = Later \/ (Later' = Later - 1 /\ ~(entry /\ stat = "CONNECTED"))
    <3>1. functors \in Int /\ timers \in Int
      BY <1>n
    <3>2. /\ \/ functors' = functors - 1 /\ timers' = timers
             \/ timers' = timers - 1 /\ functors' = functors
      BY <2>1
    <3>3. CASE stat = "CONNECTED" /\ entry
      <4>1. Setting = 0 /\ Setting' = 1
        BY <2>2, <3>3
      <4> QED
        BY <3>1, <3>2, <4>1 DEF Later
    <3>4. CASE ~(entry /\ stat = "CONNECTED")
      <4>1. Setting = 0 /\ Setting' = 0
        BY <2>2, <3>4
      <4>2. Later' = Later - 1
        BY <3>1, <3>2, <4>1 DEF Later
      <4> QED
        BY <3>4, <4>2
    <3> QED
      BY <3>3, <3>4
  <2>6. reqs' \in Seq(Threads \cup {"get"}) /\ entry' \in BOOLEAN
    BY <1>0, <1>4, <2>1
  <2> QED
    BY <1>9, <2>1, <2>3, <2>4, <2>5, <2>6
<1>11. CASE LoopReg
  <2>1. /\ lpc = "reg" /\ lpc' = AfterReg /\ RegNodeWatcher("loop")
        /\ regs' = regs /\ upc' = upc /\ entry' = entry /\ cancels' = cancels
        /\ functors' = functors /\ timers' = timers
    BY <1>11 DEF LoopReg, clientVars, queueVars, boundVars
  <2>2. \/ reqs' = reqs /\ lpc' = "failed"
        \/ reqs' = Append(reqs, "loop") /\ lpc' = "sent"
    BY <2>1 DEF RegNodeWatcher, AfterReg
  <2>3. Requests' /\ reqs' \in Seq(Threads \cup {"get"})
    <3>1. CASE reqs' = reqs /\ lpc' = "failed"
      BY <1>0, <2>1, <3>1, RequestSteps
    <3>2. CASE reqs' = Append(reqs, "loop") /\ lpc' = "sent"
      BY <1>0, <2>1, <3>2, RequestSteps DEF Threads
    <3> QED
      BY <2>2, <3>1, <3>2
  <2>4. Setting = 1 /\ Setting' = 1 /\ lpc' \in RegPcs
    BY <2>1, <2>2 DEF Setting, RegPcs
  <2>5. Later' = Later
    BY <2>1, <2>4 DEF Later
  <2>6. /\ functors' \in Nat /\ timers' \in Nat /\ Setting' \in {0, 1}
        /\ entry' \in BOOLEAN
    BY <1>n, <1>4, <2>1, <2>4
  <2> QED
    BY <1>9, <2>1, <2>3, <2>4, <2>5, <2>6
<1>12. CASE LoopRegReturns
  <2>1. /\ lpc' = "idle" /\ regs' = regs /\ upc' = upc /\ cancels' = cancels /\ reqs' = reqs
        /\ functors' = functors
        /\ \/ lpc = "store" /\ entry' = TRUE /\ timers' = timers
           \/ lpc = "failed" /\ timers' = timers + 1 /\ entry' = entry
    BY <1>12 DEF LoopRegReturns, RegFailed, SetNodeWatchData, boundVars
  <2>2. /\ Setting' = 0
        /\ lpc = "store" => Setting = 0
        /\ lpc = "failed" => Setting = 1
    BY <2>1 DEF Setting
  <2>3. Requests'
    BY <1>0, <2>1, RequestSteps
  <2>4. functors' \in Nat /\ timers' \in Nat /\ Setting' \in {0, 1} /\ lpc' \in RegPcs
    BY <1>n, <2>1, <2>2 DEF RegPcs
  <2>5. Later' = Later
    <3>1. functors \in Int /\ timers \in Int
      BY <1>n
    <3>2. /\ functors' = functors /\ Setting' = 0
          /\ \/ timers' = timers /\ Setting = 0
             \/ timers' = timers + 1 /\ Setting = 1
      BY <2>1, <2>2
    <3> QED
      BY <3>1, <3>2 DEF Later
  <2>6. reqs' \in Seq(Threads \cup {"get"}) /\ entry' \in BOOLEAN
    BY <1>0, <1>4, <2>1
  <2> QED
    BY <1>9, <2>1, <2>3, <2>4, <2>5, <2>6
<1> QED
  BY <1>7, <1>8, <1>10, <1>11, <1>12 DEF User, SecondThread

\* The sessionWatcher of the first callback has run.
LEMMA ToldIs ==
  ASSUME NEW e \in Callbacks
  PROVE  LET f == [e EXCEPT !.told = TRUE] IN
           /\ f \in Callbacks /\ f.kind = e.kind /\ f.what = e.what /\ f.n = e.n
BY DEF Callbacks

\* A call of an existWatcher or of a completion that is over.
LEMMA CallOver ==
  ASSUME Types, cq # <<>>, Head(cq).kind # "session", Head(cq).n > 0,
         cpc # "idle" \/ Head(cq).kind # "event", cq' = Keep(OneLess), cpc' = "idle"
  PROVE  /\ cq' \in Seq(Callbacks) /\ CallbacksKept' /\ (Told => Told')
         /\ Coming(cq') \in Int /\ Started' \in Int
         /\ Coming(cq') - Started' = Coming(cq) - Started
<1>1. /\ cq \in Seq(Callbacks) /\ CallbacksKept /\ Coming(cq) \in Nat /\ Started \in {0, 1}
  BY CountsAre DEF Types
<1>2. /\ OneLess \in Callbacks /\ OneLess.kind = Head(cq).kind
      /\ OneLess.what = Head(cq).what /\ OneLess.told = Head(cq).told
      /\ Weight(OneLess) = IF Head(cq).kind = "event" THEN Weight(Head(cq)) - 1 ELSE 0
  BY <1>1, OneLessIs
<1>3. OneLess.told
  <2>1. 1 \in 1..Len(cq) /\ Head(cq) = cq[1]
    BY <1>1
  <2>2. Head(cq).told
    BY <1>1, <2>1 DEF CallbacksKept, Kept
  <2> QED
    BY <1>2, <2>2, Zenon
<1>4. /\ cq' \in Seq(Callbacks) /\ CallbacksKept' /\ (Told => Told')
      /\ Coming(cq') = Coming(cq) - Weight(Head(cq)) + Weight(OneLess) /\ Started' = 0
  BY <1>1, <1>2, <1>3, Called
<1>5. Weight(Head(cq)) \in Nat
  <2>1. Head(cq) \in Callbacks
    BY <1>1
  <2> QED
    BY <2>1 DEF Weight, Callbacks
<1>6. CASE Head(cq).kind = "event"
  <2>1. Started = 1 /\ Weight(OneLess) = Weight(Head(cq)) - 1
    BY <1>2, <1>6 DEF Started
  <2> QED
    BY <1>1, <1>4, <1>5, <2>1
<1>7. CASE Head(cq).kind # "event"
  <2>1. Started = 0 /\ Weight(OneLess) = 0 /\ Weight(Head(cq)) = 0
    BY <1>2, <1>7 DEF Started, Weight
  <2> QED
    BY <1>1, <1>4, <2>1
<1> QED
  BY <1>6, <1>7

\* The completion thread.
LEMMA CompletionStep ==
  ASSUME Types, CompletionThread
  PROVE  Types' /\ Balance /\ Lasting
<1>0. /\ cq \in Seq(Callbacks) /\ reqs \in Seq(Threads \cup {"get"})
      /\ TypeOK /\ CallbacksKept /\ Requests
  BY CountsAre DEF Types
<1>n. /\ Coming(cq) \in Nat /\ Started \in {0, 1} /\ Started <= Coming(cq)
      /\ watching \in Nat /\ functors \in Nat /\ timers \in Nat
      /\ regs \in Nat /\ copies \in Nat
      /\ Setting \in {0, 1} /\ Asking \in {0, 1}
  BY CountsAre
<1>1. /\ kind' = kind /\ exists' = exists /\ version' = version
      /\ link' = link /\ lossExists' = lossExists /\ lossVersion' = lossVersion
      /\ watching' = watching /\ upc' = upc /\ lpc' = lpc /\ timers' = timers
      /\ entry' = entry
      /\ losses' = losses /\ expiries' = expiries /\ regs' = regs /\ cancels' = cancels
  BY DEF CompletionThread, ExistWatcherSession, SessionWatcher, ExistWatcher,
         ExistWatcherBody, GetNodeDataOnWatcher, CallHandler, serverVars, linkVars, boundVars,
         clientVars, queueVars
<1>2. /\ Setting' = Setting /\ Asking' = Asking
  BY <1>1 DEF Setting, Asking
<1>3. ASSUME cq' \in Seq(Callbacks), CallbacksKept', stat' \in States, seen' \in Nat,
             cpc' \in {"idle", "body", "call"}, functors' \in Nat, copies' \in Nat,
             reqs' = reqs \/ reqs' = Append(reqs, "get")
      PROVE  Types'
  <2>1. Requests'
    BY <1>0, <1>1, <1>3, RequestSteps
  <2>2. reqs' \in Seq(Threads \cup {"get"})
    <3>1. CASE reqs' = reqs
      BY <1>0, <3>1
    <3>2. CASE reqs' = Append(reqs, "get")
      <4>1. "get" \in Threads \cup {"get"}
        OBVIOUS
      <4> QED
        BY <1>0, <3>2, <4>1
    <3> QED
      BY <1>3, <3>1, <3>2
  <2>3. TypeOK'
    BY <1>0, <1>1, <1>3, <2>2 DEF TypeOK, CallbacksKept
  <2> QED
    BY <1>3, <2>1, <2>3 DEF Types
<1>4. /\ stat \in States /\ seen \in Nat /\ cpc \in {"idle", "body", "call"}
  BY <1>0 DEF TypeOK
\* Such a step takes from what has fired, and gives to what is left to do.
<1>5. ASSUME Coming(cq') \in Int, Started' \in Int, functors' \in Nat, copies' \in Nat,
             \/ functors' = functors /\ copies' = copies
                /\ Coming(cq') - Started' = Coming(cq) - Started /\ (Told => Told')
             \/ functors' = functors + 1 /\ copies' = copies + 1
                /\ Coming(cq') - Started' = Coming(cq) - Started
             \/ functors' = functors /\ copies' = copies /\ ~entry
                /\ Coming(cq') - Started' = Coming(cq) - Started
             \/ functors' = functors + 1 /\ copies' = copies /\ (Told => Told')
                /\ Coming(cq') - Started' = Coming(cq) - Started - 1
             \/ functors' = functors /\ copies' = copies /\ ~entry
                /\ Coming(cq') - Started' = Coming(cq) - Started - 1
      PROVE  Balance /\ Lasting
  <2>1. /\ Tokens = Here + Later /\ Here \in Int /\ Later \in Int /\ Tokens \in Int
        /\ Tokens >= 0
    <3>1. Tokens = Here + Later /\ Here \in Int /\ Later \in Int /\ Tokens \in Int
      BY <1>n, Apart
    <3>2. Tokens >= 0
      BY <1>n DEF Tokens
    <3> QED
      BY <3>1, <3>2
  <2>2. Tokens' = Here' + Later'
    <3>1. /\ Here' = watching + (Coming(cq') - Started') /\ Later' = functors' + timers + Setting
          /\ Tokens' = watching + (Coming(cq') - Started') + functors' + timers + Setting
      BY <1>1, <1>2 DEF Here, Later, Tokens
    <3> QED
      BY <1>n, <1>5, <3>1
  <2>3. /\ Coming(cq') - Started' = Coming(cq) - Started => Here' = Here
        /\ Coming(cq') - Started' = Coming(cq) - Started - 1 => Here' = Here - 1
        /\ functors' = functors => Later' = Later
        /\ functors' = functors + 1 => Later' = Later + 1
    <3>1. /\ Here' = watching + (Coming(cq') - Started') /\ Later' = functors' + timers + Setting
      BY <1>1, <1>2 DEF Here, Later
    <3>2. Here = watching + (Coming(cq) - Started) /\ Later = functors + timers + Setting
      BY DEF Here, Later
    <3>3. Coming(cq) - Started \in Int /\ functors \in Int /\ timers \in Int /\ Setting \in Int
          /\ watching \in Int
      BY <1>n
    <3> QED
      BY <3>1, <3>2, <3>3
  <2>4. /\ \/ Tokens' = Tokens /\ copies' = copies /\ (~entry \/ (Told => Told'))
           \/ Tokens' = Tokens + 1 /\ copies' = copies + 1
           \/ Tokens' = Tokens - 1 /\ copies' = copies /\ ~entry
    BY <1>5, <2>1, <2>2, <2>3
  <2>5. Tokens' \in Int /\ Tokens' - copies' <= Tokens - copies
    <3>1. copies \in Int /\ Tokens \in Int
      BY <1>n, <2>1
    <3> QED
      BY <2>4, <3>1
  <2>6. Balance
    <3>1. /\ Asking \in Int /\ Asking' \in Int /\ regs \in Int /\ regs' \in Int
          /\ copies \in Int /\ copies' \in Int
      BY <1>n, <1>1, <1>2, <1>5
    <3>2. Asking' - regs' <= Asking - regs
      BY <1>n, <1>1, <1>2
    <3> QED
      BY <2>1, <2>5, <3>1, <3>2, Balanced, Zenon
  <2>7. Lasting
    BY <1>1, <2>1, <2>4 DEF Lasting
  <2> QED
    BY <2>6, <2>7
\* A call of the first callback is over.
<1>6. ASSUME cq # <<>>, Head(cq).kind # "session", Head(cq).n > 0,
             cpc # "idle" \/ Head(cq).kind # "event", cq' = Keep(OneLess), cpc' = "idle",
             functors' = functors, copies' = copies, stat' = stat, seen' \in Nat,
             reqs' = reqs \/ reqs' = Append(reqs, "get")
      PROVE  Types' /\ Balance /\ Lasting
  <2>1. /\ cq' \in Seq(Callbacks) /\ CallbacksKept' /\ (Told => Told')
        /\ Coming(cq') \in Int /\ Started' \in Int
        /\ Coming(cq') - Started' = Coming(cq) - Started
    BY <1>6, CallOver
  <2>2. functors' \in Nat /\ copies' \in Nat
    BY <1>n, <1>6
  <2>3. Balance /\ Lasting
    BY <1>5, <1>6, <2>1, <2>2
  <2>4. Types'
    BY <1>3, <1>4, <1>6, <2>1, <2>2
  <2> QED
    BY <2>3, <2>4
<1>7. ASSUME cq # <<>> PROVE Head(cq) \in Callbacks /\ Kept(Head(cq))
  <2>1. 1 \in 1..Len(cq) /\ Head(cq) = cq[1] /\ Head(cq) \in Callbacks
    BY <1>0, <1>7
  <2> QED
    BY <1>0, <2>1 DEF CallbacksKept
<1>8. CASE ExistWatcherSession
  <2>1. /\ cpc = "idle" /\ cq # <<>> /\ Head(cq).kind = "session" /\ Head(cq).n > 0
        /\ functors' = IF entry THEN functors + 1 ELSE functors
        /\ copies' = IF entry THEN copies + 1 ELSE copies
        /\ cq' = Keep(OneLess) /\ reqs' = reqs /\ stat' = stat /\ cpc' = cpc /\ seen' = seen
    BY <1>8 DEF ExistWatcherSession, QueueAutoReg, clientVars
  <2>2. /\ OneLess \in Callbacks /\ OneLess.kind = Head(cq).kind
        /\ OneLess.what = Head(cq).what /\ Weight(OneLess) = 0 /\ Weight(Head(cq)) = 0
    BY <1>0, <2>1, OneLessIs DEF Weight
  <2>3. /\ cq' \in Seq(Callbacks) /\ CallbacksKept'
        /\ Coming(cq') = Coming(cq) - Weight(Head(cq)) + Weight(OneLess) /\ Started' = 0
    BY <1>0, <2>1, <2>2, Called
  <2>4. /\ Coming(cq') - Started' = Coming(cq) - Started /\ Coming(cq') \in Int
        /\ Started' \in Int
    <3>1. Started = 0
      BY <2>1 DEF Started
    <3> QED
      BY <1>n, <2>2, <2>3, <3>1
  <2>5. functors' \in Nat /\ copies' \in Nat
    BY <1>n, <2>1
  <2>6. Types'
    BY <1>3, <1>4, <2>1, <2>3, <2>5
  <2>7. \/ functors' = functors + 1 /\ copies' = copies + 1
        \/ functors' = functors /\ copies' = copies /\ ~entry
    BY <2>1
  <2> QED
    BY <1>5, <2>4, <2>5, <2>6, <2>7
<1>9. CASE SessionWatcher
  <2> DEFINE item == [Head(cq) EXCEPT !.told = TRUE]
  <2>1. /\ cpc = "idle" /\ cq # <<>> /\ Head(cq).kind = "session"
        /\ stat' = Head(cq).what /\ cq' = Keep(item)
        /\ functors' = functors /\ copies' = copies
        /\ reqs' = reqs /\ cpc' = cpc /\ seen' = seen
    BY <1>9 DEF SessionWatcher, queueVars
  <2>2. /\ item \in Callbacks /\ item.kind = Head(cq).kind /\ item.what = Head(cq).what
        /\ item.n = Head(cq).n
    BY <1>7, <2>1, ToldIs
  <2> HIDE DEF item
  <2>3. Weight(item) = 0 /\ Weight(Head(cq)) = 0 /\ stat' \in States
    BY <1>7, <2>1, <2>2 DEF Weight, Kept
  <2>4. /\ cq' \in Seq(Callbacks) /\ CallbacksKept' /\ (Told => Told')
        /\ Coming(cq') = Coming(cq) - Weight(Head(cq)) + Weight(item) /\ Started' = 0
    BY <1>0, <2>1, <2>2, Called
  <2>5. /\ Coming(cq') - Started' = Coming(cq) - Started /\ Coming(cq') \in Int
        /\ Started' \in Int
    <3>1. Started = 0
      BY <2>1 DEF Started
    <3> QED
      BY <1>n, <2>3, <2>4, <3>1
  <2>6. functors' \in Nat /\ copies' \in Nat
    BY <1>n, <2>1
  <2>7. Types'
    BY <1>3, <1>4, <2>1, <2>3, <2>4, <2>6
  <2> QED
    BY <1>5, <2>1, <2>4, <2>5, <2>6, <2>7
<1>10. CASE ExistWatcher
  <2>1. /\ cpc = "idle" /\ cq # <<>> /\ Head(cq).kind = "event"
        /\ functors' = IF entry THEN functors + 1 ELSE functors
        /\ cpc' = "body" /\ cq' = cq /\ reqs' = reqs /\ stat' = stat /\ seen' = seen
        /\ copies' = copies
    BY <1>10 DEF ExistWatcher, QueueAutoReg, clientVars
  <2>2. Head(cq).n > 0
    BY <1>7, <2>1 DEF Kept
  <2>3. CallbacksKept' /\ (Told => Told') /\ Started' = 1 /\ Started = 0
    BY <1>0, <2>1, <2>2 DEF CallbacksKept, Told, Started
  <2>4. /\ Coming(cq') - Started' = Coming(cq) - Started - 1 /\ Coming(cq') \in Int
        /\ Started' \in Int
    BY <1>n, <2>1, <2>3
  <2>5. functors' \in Nat /\ copies' \in Nat
    BY <1>n, <2>1
  <2>6. Types'
    BY <1>0, <1>3, <1>4, <2>1, <2>3, <2>5
  <2>7. \/ functors' = functors + 1 /\ copies' = copies
        \/ functors' = functors /\ copies' = copies /\ ~entry
    BY <2>1
  <2> QED
    BY <1>5, <2>3, <2>4, <2>5, <2>6, <2>7
\* The handler is called next.
<1>11. ASSUME cq # <<>>, Head(cq).kind # "session", Head(cq).n > 0,
              cpc # "idle" \/ Head(cq).kind # "event", cq' = cq, cpc' = "call",
              functors' = functors, copies' = copies, stat' = stat, seen' = seen,
              reqs' = reqs
       PROVE  Types' /\ Balance /\ Lasting
  <2>1. CallbacksKept' /\ (Told => Told') /\ Started' = Started
    BY <1>0, <1>11 DEF CallbacksKept, Told, Started
  <2>2. /\ Coming(cq') - Started' = Coming(cq) - Started /\ Coming(cq') \in Int
        /\ Started' \in Int /\ functors' \in Nat /\ copies' \in Nat
    BY <1>n, <1>11, <2>1
  <2>3. Types'
    BY <1>0, <1>3, <1>4, <1>11, <2>1, <2>2
  <2> QED
    BY <1>5, <1>11, <2>1, <2>2, <2>3
<1>12. CASE ExistWatcherBody
  <2>1. /\ cpc = "body" /\ WatcherBody
        /\ functors' = functors /\ copies' = copies /\ stat' = stat /\ seen' = seen
    BY <1>12 DEF ExistWatcherBody, clientVars, queueVars
  <2>2. cq # <<>> /\ Head(cq).kind # "session" /\ Head(cq).n > 0
    BY <1>0, <2>1 DEF CallbacksKept
  <2>3. \/ cpc' = "call" /\ cq' = cq /\ reqs' = reqs
        \/ /\ cpc' = "idle" /\ cq' = Keep(OneLess)
           /\ reqs' = reqs \/ reqs' = Append(reqs, "get")
    BY <2>1 DEF WatcherBody, CheckThenCall
  <2>4. seen' \in Nat /\ cpc # "idle"
    BY <1>4, <2>1
  <2>5. CASE cpc' = "call" /\ cq' = cq /\ reqs' = reqs
    BY <1>11, <2>1, <2>2, <2>4, <2>5
  <2>6. CASE /\ cpc' = "idle" /\ cq' = Keep(OneLess)
             /\ reqs' = reqs \/ reqs' = Append(reqs, "get")
    BY <1>6, <2>1, <2>2, <2>4, <2>6
  <2> QED
    BY <2>3, <2>5, <2>6
<1>13. CASE GetNodeDataOnWatcher
  <2>1. /\ cpc = "idle" /\ cq # <<>> /\ Head(cq).kind = "data" /\ CheckThenCall
        /\ functors' = functors /\ copies' = copies /\ stat' = stat /\ seen' = seen
        /\ reqs' = reqs
    BY <1>13 DEF GetNodeDataOnWatcher, clientVars, queueVars
  <2>2. Head(cq).n > 0 /\ seen' \in Nat
    BY <1>4, <1>7, <2>1 DEF Kept
  <2>3. \/ cpc' = "call" /\ cq' = cq
        \/ cpc' = "idle" /\ cq' = Keep(OneLess)
    BY <2>1 DEF CheckThenCall
  <2>4. CASE cpc' = "call" /\ cq' = cq
    BY <1>11, <2>1, <2>2, <2>4
  <2>5. CASE cpc' = "idle" /\ cq' = Keep(OneLess)
    BY <1>6, <2>1, <2>2, <2>5
  <2> QED
    BY <2>3, <2>4, <2>5
<1>14. CASE CallHandler
  <2>1. /\ cpc = "call" /\ cpc' = "idle" /\ cq' = Keep(OneLess)
        /\ functors' = functors /\ copies' = copies /\ stat' = stat /\ reqs' = reqs
        /\ seen' = Head(cq).version \/ seen' = seen
    BY <1>14 DEF CallHandler, clientVars, queueVars
  <2>2. cq # <<>> /\ Head(cq).kind # "session" /\ Head(cq).n > 0
    BY <1>0, <2>1 DEF CallbacksKept
  <2>3. seen' \in Nat
    BY <1>4, <1>7, <2>1, <2>2 DEF Callbacks
  <2> QED
    BY <1>6, <2>1, <2>2, <2>3
<1> QED
  BY <1>8, <1>9, <1>10, <1>12, <1>13, <1>14 DEF CompletionThread
-----------------------------------------------------------------------------
IInv == Types /\ Tokens + Asking <= regs + copies

LEMMA Differs ==
  \A x, u, b, s, d \in Int : u + b - (s + d) <= x /\ x <= 0 => u + b <= s + d
OBVIOUS

LEMMA StepKeeps ==
  ASSUME IInv, [Next]_vars
  PROVE  IInv' /\ Lasting
<1>1. /\ Types /\ Tokens + Asking <= regs + copies
      /\ Tokens \in Int /\ Asking \in Int /\ regs \in Int /\ copies \in Int
  <2>1. /\ Coming(cq) \in Int /\ Started \in Int /\ watching \in Int /\ functors \in Int
        /\ timers \in Int /\ Setting \in Int /\ Asking \in Int /\ regs \in Int
        /\ copies \in Int
    BY CountsAre DEF IInv
  <2>2. Tokens \in Int
    BY <2>1, Apart
  <2> QED
    BY <2>1, <2>2 DEF IInv
<1>2. CASE UNCHANGED vars
  <2>1. /\ Types' /\ Tokens' = Tokens /\ Asking' = Asking /\ regs' = regs /\ copies' = copies
        /\ Told' = Told
    BY <1>1, <1>2
    DEF vars, serverVars, linkVars, clientVars, queueVars, boundVars, Types, TypeOK,
        CallbacksKept, Requests, Tokens, Started, Setting, Asking, Told
  <2> QED
    BY <1>1, <2>1 DEF IInv, Lasting
<1>3. ASSUME Next PROVE IInv' /\ Lasting
  <2>1. Types' /\ Balance /\ Lasting
    BY <1>1, <1>3, LibraryStep, ThreadStep, CompletionStep DEF Next
  <2>2. /\ Tokens' \in Int /\ Asking' \in Int /\ regs' \in Int /\ copies' \in Int
    <3>1. TypeOK' /\ CallbacksKept'
      BY <2>1 DEF Types
    <3>2. Coming(cq)' \in Int
      <4>1. cq' \in Seq(Callbacks)
        BY <3>1 DEF TypeOK
      <4> QED
        BY <4>1, ComingOps
    <3>3. /\ watching' \in Int /\ functors' \in Int /\ timers' \in Int
          /\ regs' \in Int /\ copies' \in Int
      BY <3>1 DEF TypeOK
    <3>4. Started' \in Int /\ Setting' \in Int /\ Asking' \in Int
      BY DEF Started, Setting, Asking
    <3>5. /\ Coming(cq') \in Int
          /\ Tokens' = watching' + (Coming(cq') - Started') + functors' + timers' + Setting'
      BY <3>2 DEF Tokens
    <3> QED
      BY <3>3, <3>4, <3>5
  <2>3. Tokens' + Asking' <= regs' + copies'
    <3>1. Tokens' + Asking' - (regs' + copies') <= Tokens + Asking - (regs + copies)
      BY <2>1 DEF Balance
    <3> QED
      <4>1. PICK x \in Int : x = Tokens + Asking - (regs + copies)
        BY <1>1
      <4>2. x <= 0
        BY <1>1, <4>1
      <4>3. Tokens' + Asking' - (regs' + copies') <= x
        BY <3>1, <4>1, Zenon
      <4> QED
        BY <2>2, <4>2, <4>3, Differs, Zenon
  <2> QED
    BY <2>1, <2>3 DEF IInv
<1> QED
  BY <1>2, <1>3

LEMMA InitIs == Init => IInv
<1> SUFFICES ASSUME Init PROVE IInv
  OBVIOUS
<1>1. Coming(cq) = 0
  <2>1. cq = <<>>
    BY DEF Init
  <2>2. \A q \in Seq(Callbacks) : q = <<>> => Coming(q) = 0
    BY ComingOps
  <2>3. cq \in Seq(Callbacks)
    BY <2>1
  <2> QED
    BY <2>1, <2>2, <2>3
<1>2. Types
  <2>1. /\ exists \in BOOLEAN /\ lossExists \in BOOLEAN /\ entry \in BOOLEAN
    BY Zenon DEF Init
  <2>2. /\ cq = <<>> /\ reqs = <<>> /\ cq \in Seq(Callbacks)
        /\ reqs \in Seq(Threads \cup {"get"}) /\ Len(cq) = 0 /\ Len(reqs) = 0
    BY DEF Init
  <2>3. /\ kind \in Kinds /\ version = 0 /\ link = "up" /\ lossVersion = 0 /\ watching = 0
        /\ stat = "CONNECTED" /\ functors = 0 /\ timers = 0
        /\ cpc = "idle" /\ upc = "idle" /\ lpc = "idle" /\ seen = 0 /\ copies = 0
        /\ losses = 0 /\ expiries = 0 /\ regs = 0 /\ cancels = 0
    BY DEF Init
  <2>4. TypeOK
    BY <2>1, <2>2, <2>3 DEF TypeOK, States, RegPcs
  <2>5. CallbacksKept /\ Requests
    BY <2>2, <2>3 DEF CallbacksKept, Requests
  <2> QED
    BY <2>4, <2>5 DEF Types
<1>3. Tokens = 0 /\ Asking = 0 /\ regs = 0 /\ copies = 0
  <2>1. watching = 0 /\ functors = 0 /\ timers = 0 /\ Started = 0 /\ Setting = 0
    BY DEF Init, Started, Setting
  <2> QED
    BY <1>1, <2>1 DEF Init, Tokens, Asking
<1> QED
  BY <1>2, <1>3 DEF IInv

THEOREM Inductive == Spec => []IInv
<1>1. IInv /\ [Next]_vars => IInv'
  BY StepKeeps
<1> QED
  BY <1>1, InitIs, PTL DEF Spec

(* The types, and what the program counters say of the queues: whatever the number
   of changes, losses, expiries, registrations and cancellations. *)
THEOREM TypeCorrect == Spec => []TypeOK
<1>1. IInv => TypeOK
  BY DEF IInv, Types
<1> QED
  BY <1>1, Inductive, PTL

(* Registering again never multiplies the watchers of the path, in any order of the
   callbacks, functors, timers and answers. *)
THEOREM NotMultiplied == Spec => []AtMostOneWatchEach
<1>1. IInv => AtMostOneWatchEach
  <2> SUFFICES ASSUME IInv PROVE Tokens <= regs + copies
    BY DEF AtMostOneWatchEach
  <2>1. /\ Tokens + Asking <= regs + copies
        /\ Tokens \in Int /\ Asking \in {0, 1} /\ regs \in Int /\ copies \in Int
    BY CountsAre DEF IInv, Tokens
  <2> QED
    BY <2>1
<1> QED
  BY <1>1, Inductive, PTL

(* A step leaves a registered and watched path unwatched only when the session is not
   connected or has expired. *)
THEOREM LostOnlyWithSession == Spec => WatchLostOnly
<1>1. TypeOK => (Armed <=> Tokens > 0 \/ Told)
  <2> SUFFICES ASSUME TypeOK PROVE DOMAIN cq = 1..Len(cq)
    BY DEF Armed, Told
  <2> QED
    BY DEF TypeOK
<1>2. ASSUME IInv, [Next]_vars
      PROVE  [entry /\ Armed /\ entry' => Armed' \/ stat # "CONNECTED" \/ link' = "expired"]_vars
  <2>1. TypeOK /\ TypeOK' /\ Lasting
    BY <1>2, StepKeeps DEF IInv, Types
  <2>2. (Armed <=> Tokens > 0 \/ Told) /\ (Armed <=> Tokens > 0 \/ Told)'
    BY <1>1, <2>1, PTL
  <2> QED
    BY <2>1, <2>2 DEF Lasting
<1> QED
  BY <1>2, Inductive, PTL DEF Spec, WatchLostOnly
===============================================================================
