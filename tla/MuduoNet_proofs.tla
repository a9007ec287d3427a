---------------------------- MODULE MuduoNet_proofs ----------------------------
(***************************************************************************)
(* Proofs about the parts of muduo's network library, each alone.          *)
(* TcpConnection, for any users, messages and bounds: the stream is what   *)
(* was accepted, and a connection ends once.  Pollers, for any             *)
(* descriptors: the kernel watches what the channels want.  Connector, for *)
(* any callers and delays: no descriptor leaks and no retry is forgotten.  *)
(* EventLoop, for any threads: it loses no wake-up and is an executor.     *)
(***************************************************************************)
EXTENDS TcpConnection, Pollers, FiniteSetTheorems, SequenceTheorems, TLAPS

-----------------------------------------------------------------------------
(* The functors of a connection, those swapped out before the others. *)
FunctorNames == {"connectEstablished", "sendInLoop", "shutdownInLoop", "forceCloseInLoop",
                 "connectDestroyed"}
LoopFunctors == [f : FunctorNames, bytes : Seq(Nat)]
queue == batch \o pending

Named(q, n) == \E k \in 1..Len(q) : q[k].f = n
DestroysOnce(q) ==
    \A i, j \in 1..Len(q) : q[i].f = "connectDestroyed" /\ q[j].f = "connectDestroyed" => i = j
EstablishesFirst(q) ==
    /\ q # <<>> /\ q[1].f = "connectEstablished"
    /\ \A k \in 1..Len(q) : q[k].f = "connectEstablished" => k = 1

\* A functor that is queued is the last.
LEMMA FunctorQueued ==
  ASSUME NEW q \in Seq(LoopFunctors), NEW g \in LoopFunctors
  PROVE  /\ Append(q, g) \in Seq(LoopFunctors)
         /\ \A n : Named(Append(q, g), n) <=> Named(q, n) \/ g.f = n
         /\ DestroysOnce(q) /\ (g.f = "connectDestroyed" => ~Named(q, "connectDestroyed"))
               => DestroysOnce(Append(q, g))
         /\ EstablishesFirst(q) /\ g.f # "connectEstablished" => EstablishesFirst(Append(q, g))
<1> DEFINE p == Append(q, g)
<1>1. /\ p \in Seq(LoopFunctors) /\ Len(p) = Len(q) + 1 /\ Len(q) \in Nat
      /\ \A k \in 1..Len(q) : p[k] = q[k]
      /\ p[Len(q) + 1] = g
  BY AppendProperties
<1> HIDE DEF p
<1>2. ASSUME NEW n PROVE Named(p, n) <=> Named(q, n) \/ g.f = n
  <2>1. ASSUME Named(q, n) PROVE Named(p, n)
    <3>1. PICK k \in 1..Len(q) : q[k].f = n
      BY <2>1 DEF Named
    <3>2. k \in 1..Len(p) /\ p[k].f = n
      BY <1>1, <3>1
    <3> QED
      BY <3>2 DEF Named
  <2>2. ASSUME g.f = n PROVE Named(p, n)
    <3>1. Len(q) + 1 \in 1..Len(p) /\ p[Len(q) + 1].f = n
      BY <1>1, <2>2
    <3> QED
      BY <3>1 DEF Named
  <2>3. ASSUME Named(p, n), g.f # n PROVE Named(q, n)
    <3>1. PICK k \in 1..Len(p) : p[k].f = n
      BY <2>3 DEF Named
    <3>2. k # Len(q) + 1
      BY <1>1, <2>3, <3>1
    <3>3. k \in 1..Len(q)
      BY <1>1, <3>2
    <3> QED
      BY <1>1, <3>1, <3>3 DEF Named
  <2> QED
    BY <2>1, <2>2, <2>3
<1>3. ASSUME DestroysOnce(q), g.f = "connectDestroyed" => ~Named(q, "connectDestroyed")
      PROVE  DestroysOnce(p)
  <2> SUFFICES ASSUME NEW i \in 1..Len(p), NEW j \in 1..Len(p),
                      p[i].f = "connectDestroyed", p[j].f = "connectDestroyed"
               PROVE  i = j
    BY DEF DestroysOnce
  <2>1. \A k \in 1..Len(p) : k \in 1..Len(q) \/ k = Len(q) + 1
    BY <1>1
  <2>2. CASE i \in 1..Len(q) /\ j \in 1..Len(q)
    BY <1>1, <1>3, <2>2 DEF DestroysOnce
  <2>3. CASE i = Len(q) + 1 /\ j = Len(q) + 1
    BY <2>3
  <2>4. CASE i \in 1..Len(q) /\ j = Len(q) + 1
    BY <1>1, <1>3, <2>4 DEF Named
  <2>5. CASE i = Len(q) + 1 /\ j \in 1..Len(q)
    BY <1>1, <1>3, <2>5 DEF Named
  <2> QED
    BY <2>1, <2>2, <2>3, <2>4, <2>5
<1>4. ASSUME EstablishesFirst(q), g.f # "connectEstablished" PROVE EstablishesFirst(p)
  <2>1. q # <<>> /\ q[1].f = "connectEstablished" /\ 1 \in 1..Len(q)
    BY <1>1, <1>4, EmptySeq DEF EstablishesFirst
  <2>2. p # <<>> /\ p[1].f = "connectEstablished"
    BY <1>1, <2>1, EmptySeq
  <2>3. ASSUME NEW k \in 1..Len(p), p[k].f = "connectEstablished" PROVE k = 1
    <3>1. k # Len(q) + 1
      BY <1>1, <1>4, <2>3
    <3>2. k \in 1..Len(q) /\ q[k].f = "connectEstablished"
      BY <1>1, <2>3, <3>1
    <3> QED
      BY <1>4, <3>2 DEF EstablishesFirst
  <2> QED
    BY <2>2, <2>3 DEF EstablishesFirst
<1> QED
  BY <1>1, <1>2, <1>3, <1>4 DEF p

\* The functor that is called was the first.
LEMMA FunctorTaken ==
  ASSUME NEW q \in Seq(LoopFunctors), q # <<>>
  PROVE  /\ Head(q) \in LoopFunctors /\ Tail(q) \in Seq(LoopFunctors)
         /\ Named(q, Head(q).f)
         /\ \A n : Named(Tail(q), n) => Named(q, n)
         /\ \A n : Named(q, n) => n = Head(q).f \/ Named(Tail(q), n)
         /\ DestroysOnce(q) => DestroysOnce(Tail(q))
         /\ DestroysOnce(q) /\ Head(q).f = "connectDestroyed"
               => ~Named(Tail(q), "connectDestroyed")
         /\ EstablishesFirst(q) => /\ Head(q).f = "connectEstablished"
                                   /\ ~Named(Tail(q), "connectEstablished")
<1> DEFINE p == Tail(q)
<1>1. /\ p \in Seq(LoopFunctors) /\ Len(p) = Len(q) - 1 /\ Len(q) \in Nat \ {0}
      /\ \A k \in 1..Len(p) : p[k] = q[k + 1]
      /\ Head(q) = q[1] /\ Head(q) \in LoopFunctors
  BY HeadTailProperties, EmptySeq
<1>2. /\ 1 \in 1..Len(q)
      /\ \A k \in 1..Len(p) : k + 1 \in 1..Len(q) /\ k + 1 # 1
      /\ \A k \in 1..Len(q) : k = 1 \/ (k - 1 \in 1..Len(p) /\ k = (k - 1) + 1)
  BY <1>1
<1> HIDE DEF p
<1>3. Named(q, Head(q).f)
  BY <1>1, <1>2 DEF Named
<1>4. ASSUME NEW n, Named(p, n) PROVE Named(q, n)
  BY <1>1, <1>2, <1>4 DEF Named
<1>5. ASSUME NEW n, Named(q, n) PROVE n = Head(q).f \/ Named(p, n)
  <2>1. PICK k \in 1..Len(q) : q[k].f = n
    BY <1>5 DEF Named
  <2>2. CASE k = 1
    BY <1>1, <2>1, <2>2
  <2>3. CASE k - 1 \in 1..Len(p) /\ k = (k - 1) + 1
    BY <1>1, <2>1, <2>3 DEF Named
  <2> QED
    BY <1>2, <2>2, <2>3
<1>6. ASSUME DestroysOnce(q) PROVE DestroysOnce(p)
  <2> SUFFICES ASSUME NEW i \in 1..Len(p), NEW j \in 1..Len(p),
                      p[i].f = "connectDestroyed", p[j].f = "connectDestroyed"
               PROVE  i = j
    BY DEF DestroysOnce
  <2>1. /\ i + 1 \in 1..Len(q) /\ q[i + 1].f = "connectDestroyed"
        /\ j + 1 \in 1..Len(q) /\ q[j + 1].f = "connectDestroyed"
    BY <1>1, <1>2
  <2>2. i + 1 = j + 1
    BY <1>6, <2>1 DEF DestroysOnce
  <2> QED
    BY <2>2
<1>7. ASSUME DestroysOnce(q), Head(q).f = "connectDestroyed"
      PROVE  ~Named(p, "connectDestroyed")
  <2> SUFFICES ASSUME NEW k \in 1..Len(p), p[k].f = "connectDestroyed" PROVE FALSE
    BY DEF Named
  <2>1. k + 1 = 1
    BY <1>1, <1>2, <1>7 DEF DestroysOnce
  <2> QED
    BY <1>2, <2>1
<1>8. ASSUME EstablishesFirst(q)
      PROVE  Head(q).f = "connectEstablished" /\ ~Named(p, "connectEstablished")
  <2>1. Head(q).f = "connectEstablished"
    BY <1>1, <1>8 DEF EstablishesFirst
  <2>2. ASSUME NEW k \in 1..Len(p), p[k].f = "connectEstablished" PROVE FALSE
    BY <1>1, <1>2, <1>8, <2>2 DEF EstablishesFirst
  <2> QED
    BY <2>1, <2>2 DEF Named
<1> QED
  BY <1>1, <1>3, <1>4, <1>5, <1>6, <1>7, <1>8 DEF p

\* Queueing, swapping and calling are steps of one queue.
LEMMA OneQueue ==
  ASSUME NEW b \in Seq(LoopFunctors), NEW p \in Seq(LoopFunctors)
  PROVE  /\ b \o p \in Seq(LoopFunctors)
         /\ \A g \in LoopFunctors : b \o Append(p, g) = Append(b \o p, g)
         /\ b = <<>> => b \o p = p
         /\ p \o <<>> = p
         /\ b # <<>> => /\ b \o p # <<>> /\ Head(b \o p) = Head(b)
                        /\ Tail(b) \o p = Tail(b \o p)
<1>1. b \o p \in Seq(LoopFunctors)
  BY ConcatProperties
<1>2. ASSUME NEW g \in LoopFunctors PROVE b \o Append(p, g) = Append(b \o p, g)
  <2>1. <<g>> \in Seq(LoopFunctors)
    OBVIOUS
  <2>2. Append(p, g) = p \o <<g>> /\ Append(b \o p, g) = (b \o p) \o <<g>>
    BY <1>1, AppendIsConcat
  <2> QED
    BY <2>1, <2>2, ConcatAssociative
<1>3. <<>> \o p = p /\ p \o <<>> = p
  BY ConcatEmptySeq
<1>4. ASSUME b # <<>>
      PROVE  /\ b \o p # <<>> /\ Head(b \o p) = Head(b)
             /\ Tail(b) \o p = Tail(b \o p)
  BY <1>1, <1>4
<1> QED
  BY <1>1, <1>2, <1>3, <1>4
-----------------------------------------------------------------------------
(* The inductive invariant of a connection.  StreamKept and OneEnd speak of what
   is seen; what they rest on: *)
ConnectionTyped ==
    /\ ConnectionTypeOK
    /\ wire \in Seq(Nat) /\ output \in Seq(Nat) /\ accepted \in Seq(Nat)
    /\ batch \in Seq(LoopFunctors) /\ pending \in Seq(LoopFunctors)
    /\ sends \in Nat
    /\ pc \in [Users -> {"idle", "send", "shutdown", "forceClose"}]

(* nothing is swapped out, or still to be handled, in another phase of the loop,
   which quits for the end of the server alone; *)
Phased ==
    /\ phase # "functors" => batch = <<>>
    /\ phase # "events" => revents = {}
    /\ phase = "ended" => ioQuit
    /\ ioQuit => server # "up"

(* connectEstablished comes first and never again; *)
Establishing ==
    /\ state = "kConnecting" =>
         /\ EstablishesFirst(queue) /\ ~raced
         /\ \A u \in Users : pc[u] = "idle"
    /\ state # "kConnecting" => ~Named(queue, "connectEstablished")

(* what is watched are the events of an open connection; *)
Watching ==
    /\ reading <=> IsOpen
    /\ ~IsOpen => ~writing
    /\ "IN" \in revents => IsOpen

(* and while the server is there, an end goes from the close to the server's loop, to
   the connection's loop, to the destruction, and is at one of them.  The server's
   own end takes the place of the way by its loop. *)
EndGoesOn ==
    /\ downs = IF state = "kDisconnected" THEN 1 ELSE 0
    /\ destroyed \in {0, 1} /\ DestroysOnce(queue)
    /\ failed => server # "up" /\ state = "kDisconnecting" /\ destroyed = 1
    /\ dangling => server # "up"
    /\ destroyed = 1 => (state = "kDisconnected" \/ failed) /\ ~Named(queue, "connectDestroyed")
    /\ inMap => server = "up" /\ destroyed = 0 /\ ~Named(queue, "connectDestroyed")
    /\ server = "up" =>
         /\ state # "kDisconnected" => inMap
         /\ erasing = IF state = "kDisconnected" /\ inMap THEN 1 ELSE 0

Unraced == Watching /\ EndGoesOn
ConnectionInv ==
    /\ ConnectionTyped /\ Phased /\ Establishing /\ StreamKept
    /\ ~raced => Unraced

\* The invariant is as strong as what the run checks.
LEMMA ConnectionInvKept == ConnectionInv => ConnectionKept
<1> SUFFICES ASSUME ConnectionInv PROVE ConnectionKept
  OBVIOUS
<1>1. ~raced => OneEnd
  BY DEF ConnectionInv, OneEnd, Unraced, Watching, EndGoesOn, IsOpen
<1>2. raced => OneEnd
  BY DEF OneEnd
<1> QED
  BY <1>1, <1>2 DEF ConnectionInv, ConnectionTyped, ConnectionKept

\* A new connection.
LEMMA ConnectionStarts == ConnectionInit => ConnectionInv
<1> SUFFICES ASSUME ConnectionInit PROVE ConnectionInv
  OBVIOUS
<1> USE DEF ConnectionInit
<1>1. /\ Functor("connectEstablished", <<>>) \in LoopFunctors
      /\ Functor("connectEstablished", <<>>).f = "connectEstablished"
  BY DEF LoopFunctors, FunctorNames, Functor
<1>2. pending = <<Functor("connectEstablished", <<>>)>> /\ batch = <<>>
  OBVIOUS
<1> HIDE DEF ConnectionInit
<1>3. pending \in Seq(LoopFunctors) /\ batch \in Seq(LoopFunctors)
  BY <1>1, <1>2
<1>4. queue = <<Functor("connectEstablished", <<>>)>>
  BY <1>2, <1>3, OneQueue DEF queue
<1>5. /\ ~Named(queue, "connectDestroyed") /\ DestroysOnce(queue)
      /\ EstablishesFirst(queue)
  <2>1. Len(queue) = 1 /\ queue[1].f = "connectEstablished"
    BY <1>1, <1>4
  <2>2. \A k \in 1..Len(queue) : queue[k].f # "connectDestroyed"
    BY <2>1
  <2>3. ~Named(queue, "connectDestroyed")
    BY <2>2 DEF Named
  <2>4. DestroysOnce(queue)
    BY <2>2 DEF DestroysOnce
  <2>5. EstablishesFirst(queue)
    <3>1. queue # <<>>
      BY <1>4
    <3> QED
      BY <2>1, <3>1 DEF EstablishesFirst
  <2> QED
    BY <2>3, <2>4, <2>5
<1>6. ConnectionTyped
  <2>1. reading \in BOOLEAN /\ writing \in BOOLEAN /\ fin \in BOOLEAN
    BY Zenon DEF ConnectionInit
  <2>2. pc \in [Users -> {"idle", "send", "shutdown", "forceClose"}]
    BY DEF ConnectionInit
  <2>3. /\ state = "kConnecting" /\ channel = "new" /\ phase = "poll" /\ peer = "open" /\ server = "up"
        /\ revents = {} /\ wire = <<>> /\ output = <<>> /\ accepted = <<>> /\ sends = 0
    BY DEF ConnectionInit
  <2> QED
    BY <1>3, <2>1, <2>2, <2>3, EmptySeq DEF ConnectionTyped, ConnectionTypeOK
<1>7. Phased /\ Establishing /\ StreamKept
  BY <1>5 DEF ConnectionInit, Phased, Establishing, StreamKept
<1>8. Unraced
  BY <1>5 DEF ConnectionInit, Unraced, Watching, EndGoesOn, IsOpen
<1> QED
  BY <1>6, <1>7, <1>8 DEF ConnectionInv
-----------------------------------------------------------------------------
(* The bytes of a message. *)

\* The first bytes and the others are all.
LEMMA Halves ==
  ASSUME NEW s \in Seq(Nat), NEW k \in 0..Len(s)
  PROVE  /\ SubSeq(s, 1, k) \in Seq(Nat) /\ SubSeq(s, k + 1, Len(s)) \in Seq(Nat)
         /\ SubSeq(s, 1, k) \o SubSeq(s, k + 1, Len(s)) = s
         /\ SubSeq(s, k + 1, Len(s)) = <<>> <=> k = Len(s)
<1>1. Len(s) \in Nat /\ k \in Nat /\ k <= Len(s)
  OBVIOUS
<1>2. SubSeq(s, 1, k) \in Seq(Nat) /\ SubSeq(s, k + 1, Len(s)) \in Seq(Nat)
  <2>1. /\ 1 \in Int /\ k \in Int /\ k + 1 \in Int /\ Len(s) \in Int
        /\ \A i \in 1..k : s[i] \in Nat
        /\ \A i \in (k + 1)..Len(s) : s[i] \in Nat
    BY <1>1
  <2> QED
    BY <2>1, SubSeqProperties
<1>3. SubSeq(s, 1, k) \o SubSeq(s, k + 1, Len(s)) = s
  <2>1. 1 \in 1..(Len(s) + 1) /\ k \in (1 - 1)..Len(s) /\ Len(s) \in k..Len(s)
    BY <1>1
  <2>2. SubSeq(s, 1, k) \o SubSeq(s, k + 1, Len(s)) = SubSeq(s, 1, Len(s))
    BY <2>1, ConcatAdjacentSubSeq
  <2> QED
    BY <2>2, SubSeqFull
<1>4. Len(SubSeq(s, k + 1, Len(s))) = Len(s) - k
  BY <1>1
<1>5. SubSeq(s, k + 1, Len(s)) = <<>> <=> Len(SubSeq(s, k + 1, Len(s))) = 0
  BY <1>2, EmptySeq
<1>6. Len(s) - k = 0 <=> k = Len(s)
  BY <1>1
<1> QED
  BY <1>2, <1>3, <1>4, <1>5, <1>6

\* Bytes can be put together in any order of steps.
LEMMA Regrouped ==
  \A r, s, t \in Seq(Nat) : (r \o s) \o t = r \o (s \o t)
BY SMTT(30), ConcatAssociative

\* sendInLoop: nothing is lost, and the kernel is asked for room for what is left.
LEMMA Sent ==
  ASSUME wire \in Seq(Nat), output \in Seq(Nat), accepted \in Seq(Nat), writing \in BOOLEAN,
         wire \o output = accepted, NEW bytes \in Seq(Nat), sendInLoop(bytes)
  PROVE  /\ wire' \in Seq(Nat) /\ output' \in Seq(Nat) /\ accepted' \in Seq(Nat)
         /\ writing' \in BOOLEAN
         /\ wire' \o output' = accepted'
         /\ state = "kDisconnected" => UNCHANGED streamVars
         /\ (writing <=> output # <<>>) => (writing' <=> output' # <<>>)
         /\ (writing <=> output # <<>>) /\ fin /\ output = <<>> => output' = <<>>
<1>1. CASE UNCHANGED streamVars
  BY <1>1 DEF streamVars
<1>2. CASE state # "kDisconnected" /\ IsIdle /\ ~Broken /\ WriteDirectly(bytes)
           /\ accepted' = accepted \o bytes
  <2>1. PICK k \in 0..Len(bytes) :
              /\ wire' = wire \o SubSeq(bytes, 1, k)
              /\ output' = SubSeq(bytes, k + 1, Len(bytes))
              /\ writing' = (k < Len(bytes))
    BY <1>2 DEF WriteDirectly
  <2>2. PICK a \in Seq(Nat), b \in Seq(Nat) :
              /\ a = SubSeq(bytes, 1, k) /\ b = SubSeq(bytes, k + 1, Len(bytes))
              /\ a \o b = bytes /\ (b = <<>> <=> k = Len(bytes))
    BY Halves
  <2>3. wire = accepted
    BY <1>2, ConcatEmptySeq DEF IsIdle
  <2>4. wire' = wire \o a /\ output' = b
    BY <2>1, <2>2
  <2>5. wire \o a \in Seq(Nat) /\ accepted \o bytes \in Seq(Nat)
    BY <2>2, ConcatProperties
  <2>9. (wire \o a) \o b = wire \o (a \o b)
    <3>1. \A r, s \in Seq(Nat) : (wire \o r) \o s = wire \o (r \o s)
      BY Regrouped
    <3>2. a \in Seq(Nat) /\ b \in Seq(Nat)
      BY <2>2
    <3> QED
      BY <3>1, <3>2
  <2>6. wire' \in Seq(Nat) /\ accepted' \in Seq(Nat) /\ wire' \o output' = accepted'
    BY <1>2, <2>2, <2>3, <2>4, <2>5, <2>9
  <2>7. writing' <=> output' # <<>>
    <3>1. writing' <=> k < Len(bytes)
      BY <2>1, Zenon
    <3>2. k < Len(bytes) <=> k # Len(bytes)
      OBVIOUS
    <3> QED
      BY <2>2, <2>4, <3>1, <3>2
  <2>8. writing' \in BOOLEAN
    BY <2>1
  <2> QED
    BY <1>2, <2>2, <2>4, <2>6, <2>7, <2>8 DEF Broken
<1>3. CASE state # "kDisconnected" /\ ~IsIdle /\ Enqueue(bytes) /\ accepted' = accepted \o bytes
  <2>1. output' = output \o bytes /\ wire' = wire /\ writing' = TRUE
    BY <1>3 DEF Enqueue
  <2>2. output \o bytes \in Seq(Nat) /\ accepted \o bytes \in Seq(Nat)
    BY ConcatProperties
  <2>6. (wire \o output) \o bytes = wire \o (output \o bytes)
    BY ZenonT(40), Regrouped
  <2>3. wire' \o output' = accepted'
    BY <1>3, <2>1, <2>6
  <2>4. output # <<>> => output' # <<>>
    BY <2>1, ConcatEqualIffEmpty, ConcatProperties, EmptySeq
  <2>5. writing' \in BOOLEAN
    BY <2>1
  <2> QED
    BY <1>3, <2>1, <2>2, <2>3, <2>4, <2>5 DEF IsIdle
<1> QED
  BY <1>1, <1>2, <1>3 DEF sendInLoop
-----------------------------------------------------------------------------
(* The steps that leave the connection and its functors alone. *)

\* What the kernel reports is watched for.
LEMMA PollKept == ConnectionInv /\ Poll => ConnectionInv'
<1> SUFFICES ASSUME ConnectionInv, Poll PROVE ConnectionInv'
  OBVIOUS
<1> USE DEF ConnectionInv
<1>1. /\ UNCHANGED <<state, reading, raced, pending, batch, output, wire, accepted, writing>>
      /\ UNCHANGED <<fin, peer, soError, incoming, reads, inMap, erasing, server, ioQuit>>
      /\ UNCHANGED <<channel, failed, dangling, downs, destroyed, pc, sends, calls>>
      /\ phase = "poll" /\ phase' = "events" /\ revents' = Ready
  BY DEF Poll, streamVars, kernelVars, serverVars, endVars, userVars
<1>2. queue' = queue
  BY <1>1 DEF queue
<1>3. Ready \subseteq {"ERR", "IN", "OUT"} /\ ("IN" \in Ready => reading)
  BY DEF Ready
<1>4. ConnectionTyped'
  BY <1>1, <1>3 DEF ConnectionTyped, ConnectionTypeOK
<1>5. Phased' /\ Establishing' /\ StreamKept'
  BY <1>1, <1>2 DEF Phased, Establishing, StreamKept
<1>6. ~raced' => Unraced'
  BY <1>1, <1>2, <1>3 DEF Unraced, Watching, EndGoesOn, IsOpen
<1> QED
  BY <1>4, <1>5, <1>6

\* An error is told, or the functors are all called.
LEMMA QuietStepKept ==
  ConnectionInv /\ (handleError \/ ReadError \/ FunctorsDone) => ConnectionInv'
<1> SUFFICES ASSUME ConnectionInv, handleError \/ ReadError \/ FunctorsDone PROVE ConnectionInv'
  OBVIOUS
<1> USE DEF ConnectionInv
<1>1. /\ UNCHANGED <<state, reading, raced, pending, batch, output, wire, accepted, writing>>
      /\ UNCHANGED <<fin, peer, incoming, reads, inMap, erasing, server, ioQuit>>
      /\ UNCHANGED <<channel, failed, dangling, downs, destroyed, pc, sends, calls>>
  BY DEF handleError, ReadError, FunctorsDone, streamVars, kernelVars, serverVars, endVars, userVars
<1>2. /\ revents' \subseteq revents
      /\ \/ phase' = phase
         \/ /\ phase = "functors" /\ phase' = IF ioQuit THEN "ended" ELSE "poll"
            /\ batch = <<>> /\ revents' = revents
  BY DEF handleError, ReadError, FunctorsDone
<1>3. queue' = queue
  BY <1>1 DEF queue
<1>4. ConnectionTyped'
  BY <1>1, <1>2 DEF ConnectionTyped, ConnectionTypeOK
<1>5. Phased' /\ Establishing' /\ StreamKept'
  BY <1>1, <1>2, <1>3 DEF Phased, Establishing, StreamKept
<1>6. ~raced' => Unraced'
  BY <1>1, <1>2, <1>3 DEF Unraced, Watching, EndGoesOn, IsOpen
<1> QED
  BY <1>4, <1>5, <1>6

\* What the peer does changes nothing of the connection.
LEMMA PeerKept == ConnectionInv /\ Peer => ConnectionInv'
<1> SUFFICES ASSUME ConnectionInv, Peer PROVE ConnectionInv'
  OBVIOUS
<1> USE DEF ConnectionInv
<1>1. /\ UNCHANGED <<state, reading, raced, pending, batch, output, wire, accepted, writing>>
      /\ UNCHANGED <<fin, revents, phase, inMap, erasing, server, ioQuit>>
      /\ UNCHANGED <<channel, failed, dangling, downs, destroyed, pc, sends, calls>>
  BY DEF Peer, streamVars, loopVars, serverVars, endVars, userVars
<1>2. peer' \in {"open", "closed", "reset"}
  BY DEF Peer
<1>3. queue' = queue
  BY <1>1 DEF queue
<1>4. ConnectionTyped'
  BY <1>1, <1>2 DEF ConnectionTyped, ConnectionTypeOK
<1>5. Phased' /\ Establishing' /\ StreamKept'
  BY <1>1, <1>3 DEF Phased, Establishing, StreamKept
<1>6. ~raced' => Unraced'
  BY <1>1, <1>3 DEF Unraced, Watching, EndGoesOn, IsOpen
<1> QED
  BY <1>4, <1>5, <1>6

\* The loop swaps the functors out: they stay the same queue.
LEMMA SwapKept == ConnectionInv /\ SwapFunctors => ConnectionInv'
<1> SUFFICES ASSUME ConnectionInv, SwapFunctors PROVE ConnectionInv'
  OBVIOUS
<1> USE DEF ConnectionInv
<1>1. /\ UNCHANGED <<state, reading, raced, output, wire, accepted, writing>>
      /\ UNCHANGED <<fin, peer, soError, incoming, reads, revents, inMap, erasing, server, ioQuit>>
      /\ UNCHANGED <<channel, failed, dangling, downs, destroyed, pc, sends, calls>>
      /\ phase = "events" /\ phase' = "functors" /\ revents = {}
      /\ batch' = pending /\ pending' = <<>>
  BY DEF SwapFunctors, streamVars, kernelVars, serverVars, endVars, userVars
<1>2. batch \in Seq(LoopFunctors) /\ pending \in Seq(LoopFunctors) /\ batch = <<>>
  BY <1>1 DEF ConnectionTyped, Phased
<1>3. queue' = queue
  BY <1>1, <1>2, OneQueue DEF queue
<1>4. ConnectionTyped'
  BY <1>1, <1>2, EmptySeq DEF ConnectionTyped, ConnectionTypeOK
<1>5. Phased' /\ Establishing' /\ StreamKept'
  BY <1>1, <1>3 DEF Phased, Establishing, StreamKept
<1>6. ~raced' => Unraced'
  BY <1>1, <1>3 DEF Unraced, Watching, EndGoesOn, IsOpen
<1> QED
  BY <1>4, <1>5, <1>6
-----------------------------------------------------------------------------
(* What the users and the server give to the loop. *)

\* One more functor in the queue.
LEMMA OneMore ==
  ASSUME ConnectionTyped, NEW g \in LoopFunctors, pending' = Append(pending, g), batch' = batch
  PROVE  /\ pending' \in Seq(LoopFunctors)
         /\ \A n : Named(queue', n) <=> Named(queue, n) \/ g.f = n
         /\ DestroysOnce(queue) /\ (g.f = "connectDestroyed" => ~Named(queue, "connectDestroyed"))
               => DestroysOnce(queue')
         /\ EstablishesFirst(queue) /\ g.f # "connectEstablished" => EstablishesFirst(queue')
<1>1. batch \in Seq(LoopFunctors) /\ pending \in Seq(LoopFunctors)
  BY DEF ConnectionTyped
<1>2. queue \in Seq(LoopFunctors) /\ queue' = Append(queue, g)
  BY <1>1, OneQueue DEF queue
<1> HIDE DEF queue
<1>3. pending' \in Seq(LoopFunctors)
  BY <1>1, AppendProperties
<1> QED
  BY <1>2, <1>3, FunctorQueued

\* A functor is one of its kinds.
LEMMA FunctorIs ==
  ASSUME NEW n \in FunctorNames, NEW bytes \in Seq(Nat)
  PROVE  Functor(n, bytes) \in LoopFunctors /\ Functor(n, bytes).f = n
BY DEF Functor, LoopFunctors

\* A user reads state_.
LEMMA TestKept == \A u \in Users : ConnectionInv /\ Test(u) => ConnectionInv'
<1> SUFFICES ASSUME NEW u \in Users, ConnectionInv, Test(u) PROVE ConnectionInv'
  OBVIOUS
<1> USE DEF ConnectionInv
<1>1. /\ UNCHANGED <<state, reading, raced, pending, batch, output, wire, accepted, writing>>
      /\ UNCHANGED <<fin, peer, soError, incoming, reads, revents, phase>>
      /\ UNCHANGED <<inMap, erasing, server, ioQuit, channel, failed, dangling, downs, destroyed>>
  BY DEF Test, streamVars, kernelVars, loopVars, serverVars, endVars
<1>2. PICK what \in {"send", "shutdown", "forceClose"} :
            /\ state = "kConnected" \/ (what = "forceClose" /\ IsOpen)
            /\ pc' = [pc EXCEPT ![u] = what]
            /\ sends' = sends \/ sends' = sends + 1
  BY DEF Test
<1>3. state # "kConnecting"
  BY <1>2 DEF Test, IsOpen
<1>4. queue' = queue
  BY <1>1 DEF queue
<1>5. pc' \in [Users -> {"idle", "send", "shutdown", "forceClose"}] /\ sends' \in Nat
  BY <1>2 DEF ConnectionTyped
<1>6. ConnectionTyped'
  BY <1>1, <1>5 DEF ConnectionTyped, ConnectionTypeOK
<1>7. Phased' /\ Establishing' /\ StreamKept'
  BY <1>1, <1>3, <1>4 DEF Phased, Establishing, StreamKept
<1>8. ~raced' => Unraced'
  BY <1>1, <1>3, <1>4 DEF Unraced, Watching, EndGoesOn, IsOpen
<1> QED
  BY <1>6, <1>7, <1>8

\* A call that finds the loop gone only says so.
LEMMA DanglingKept ==
  ASSUME ConnectionInv, phase = "ended" \/ server # "up",
         UNCHANGED <<reading, output, wire, accepted, writing, fin, peer, revents, phase>>,
         UNCHANGED <<pending, batch, inMap, server, ioQuit, channel, failed, downs, destroyed>>,
         UNCHANGED sends,
         pc' \in [Users -> {"idle", "send", "shutdown", "forceClose"}],
         dangling' = TRUE, \/ UNCHANGED <<state, raced>>
                          \/ /\ state' = "kDisconnecting" /\ state # "kConnecting"
                             /\ raced' <=> raced \/ state = "kDisconnected",
         state = "kConnecting" => pc' = pc,
         erasing' = erasing \/ server # "up", ~failed
  PROVE  ConnectionInv'
<1> USE DEF ConnectionInv
<1>1. server # "up"
  BY DEF Phased
<1>2. queue' = queue
  BY DEF queue
<1>3. ConnectionTyped'
  BY DEF ConnectionTyped, ConnectionTypeOK
<1>4. Phased' /\ StreamKept'
  BY DEF Phased, StreamKept
<1>5. Establishing'
  BY <1>2 DEF Establishing
<1>6. ~raced' => Unraced'
  BY <1>1, <1>2 DEF Unraced, Watching, EndGoesOn, IsOpen, ConnectionTyped, ConnectionTypeOK
<1> QED
  BY <1>3, <1>4, <1>5, <1>6

\* A user's message is queued.
LEMMA SendKept == \A u \in Users : ConnectionInv /\ send(u) /\ ~failed => ConnectionInv'
<1> SUFFICES ASSUME NEW u \in Users, ConnectionInv, send(u), ~failed PROVE ConnectionInv'
  OBVIOUS
<1>1. /\ UNCHANGED <<state, reading, raced, output, wire, accepted, writing>>
      /\ UNCHANGED <<fin, peer, soError, incoming, reads>>
      /\ UNCHANGED <<inMap, erasing, server, ioQuit, channel, failed, downs, destroyed, sends>>
      /\ pc[u] = "send" /\ pc' = [pc EXCEPT ![u] = "idle"]
  BY DEF send, streamVars, kernelVars, serverVars
<1>2. PICK len \in MessageLens : runInLoop(Functor("sendInLoop", Message(sends, len)))
  BY DEF send
<1>3. Message(sends, len) \in Seq(Nat)
  BY ConnectionAssumption DEF Message, ConnectionTyped, ConnectionInv
<1> DEFINE g == Functor("sendInLoop", Message(sends, len))
<1>4. g \in LoopFunctors /\ g.f = "sendInLoop"
  BY <1>3, FunctorIs DEF FunctorNames
<1>5. runInLoop(g)
  BY <1>2
<1> HIDE DEF g
<1>6. state # "kConnecting"
  BY <1>1 DEF Establishing, ConnectionInv
<1>7. pc' \in [Users -> {"idle", "send", "shutdown", "forceClose"}]
  BY <1>1 DEF ConnectionInv, ConnectionTyped
<1>8. CASE pending' = Append(pending, g) /\ UNCHANGED <<batch, revents, phase, dangling>>
  <2> USE DEF ConnectionInv
  <2>1. /\ pending' \in Seq(LoopFunctors)
        /\ \A n : Named(queue', n) <=> Named(queue, n) \/ g.f = n
        /\ DestroysOnce(queue) => DestroysOnce(queue')
    BY <1>4, <1>8, OneMore
  <2>2. ConnectionTyped'
    BY <1>1, <1>7, <1>8, <2>1 DEF ConnectionTyped, ConnectionTypeOK
  <2>3. Phased' /\ StreamKept'
    BY <1>1, <1>8 DEF Phased, StreamKept
  <2>4. Establishing'
    BY <1>1, <1>4, <1>6, <2>1 DEF Establishing
  <2>5. ~raced' => Unraced'
    BY <1>1, <1>4, <1>8, <2>1 DEF Unraced, Watching, EndGoesOn, IsOpen
  <2> QED
    BY <2>2, <2>3, <2>4, <2>5
<1>9. CASE phase = "ended" /\ dangling' = TRUE /\ UNCHANGED <<pending, batch, revents, phase>>
  BY <1>1, <1>6, <1>7, <1>9, DanglingKept
<1> QED
  BY <1>5, <1>8, <1>9 DEF runInLoop, QueueInLoop, loopVars

\* setState(kDisconnecting) is a race only if it comes after the end.
LEMMA DisconnectingKept ==
  \A u \in Users : ConnectionInv /\ Disconnecting(u) /\ ~failed => ConnectionInv'
<1> SUFFICES ASSUME NEW u \in Users, ConnectionInv, Disconnecting(u), ~failed
             PROVE  ConnectionInv'
  OBVIOUS
<1>1. /\ UNCHANGED <<reading, output, wire, accepted, writing>>
      /\ UNCHANGED <<fin, peer, soError, incoming, reads>>
      /\ UNCHANGED <<inMap, erasing, server, ioQuit, channel, failed, downs, destroyed, sends>>
      /\ pc[u] \in {"shutdown", "forceClose"} /\ pc' = [pc EXCEPT ![u] = "idle"]
      /\ state' = "kDisconnecting"
  BY DEF Disconnecting, streamVars, kernelVars, serverVars
<1>2. raced' <=> raced \/ state = "kDisconnected"
  BY Zenon DEF Disconnecting
<1>3. PICK n \in {"shutdownInLoop", "forceCloseInLoop"} : runInLoop(Functor(n, <<>>))
  BY DEF Disconnecting
<1> DEFINE g == Functor(n, <<>>)
<1>4. g \in LoopFunctors /\ g.f = n
  BY FunctorIs, EmptySeq DEF FunctorNames
<1>5. runInLoop(g)
  BY <1>3
<1> HIDE DEF g
<1>6. state # "kConnecting"
  BY <1>1 DEF Establishing, ConnectionInv
<1>7. pc' \in [Users -> {"idle", "send", "shutdown", "forceClose"}]
  BY <1>1 DEF ConnectionInv, ConnectionTyped
<1>8. CASE pending' = Append(pending, g) /\ UNCHANGED <<batch, revents, phase, dangling>>
  <2> USE DEF ConnectionInv
  <2>1. /\ pending' \in Seq(LoopFunctors)
        /\ \A m : Named(queue', m) <=> Named(queue, m) \/ g.f = m
        /\ DestroysOnce(queue) => DestroysOnce(queue')
    BY <1>4, <1>8, OneMore
  <2>2. ConnectionTyped'
    BY <1>1, <1>7, <1>8, <2>1 DEF ConnectionTyped, ConnectionTypeOK
  <2>3. Phased' /\ StreamKept'
    BY <1>1, <1>2, <1>8 DEF Phased, StreamKept
  <2>4. Establishing'
    BY <1>1, <1>4, <1>6, <2>1 DEF Establishing
  <2>5. ~raced' => Unraced'
    BY <1>1, <1>2, <1>4, <1>6, <1>8, <2>1
       DEF Unraced, Watching, EndGoesOn, IsOpen, ConnectionTyped, ConnectionTypeOK
  <2> QED
    BY <2>2, <2>3, <2>4, <2>5
<1>9. CASE phase = "ended" /\ dangling' = TRUE /\ UNCHANGED <<pending, batch, revents, phase>>
  BY <1>1, <1>2, <1>6, <1>7, <1>9, DanglingKept
<1> QED
  BY <1>5, <1>8, <1>9 DEF runInLoop, QueueInLoop, loopVars

\* connectDestroyed is queued when the server forgets the connection, once.
LEMMA ForgottenKept ==
  ASSUME ConnectionInv, ~failed, server = "up", inMap' = FALSE, inMap \/ raced,
         pending' = Append(pending, Functor("connectDestroyed", <<>>)),
         UNCHANGED <<state, reading, raced, batch, output, wire, accepted, writing>>,
         UNCHANGED <<fin, peer, revents, phase, ioQuit, channel, dangling>>,
         UNCHANGED <<downs, destroyed, pc, sends>>,
         failed' => raced,
         \/ server' = "up" /\ erasing' = erasing - 1 /\ erasing > 0
         \/ server' = "going"
  PROVE  ConnectionInv'
<1> USE DEF ConnectionInv
<1> DEFINE g == Functor("connectDestroyed", <<>>)
<1>1. g \in LoopFunctors /\ g.f = "connectDestroyed"
  BY FunctorIs, EmptySeq DEF FunctorNames
<1>2. pending' = Append(pending, g)
  OBVIOUS
<1> HIDE DEF g
<1>3. /\ pending' \in Seq(LoopFunctors)
      /\ \A n : Named(queue', n) <=> Named(queue, n) \/ n = "connectDestroyed"
      /\ DestroysOnce(queue) /\ ~Named(queue, "connectDestroyed") => DestroysOnce(queue')
      /\ EstablishesFirst(queue) => EstablishesFirst(queue')
  BY <1>1, <1>2, OneMore
<1>4. ConnectionTyped'
  BY <1>3 DEF ConnectionTyped, ConnectionTypeOK
<1>5. Phased' /\ StreamKept'
  BY DEF Phased, StreamKept
<1>6. Establishing'
  BY <1>3 DEF Establishing
<1>7. ASSUME ~raced PROVE Unraced'
  <2>1. /\ inMap /\ destroyed = 0 /\ ~Named(queue, "connectDestroyed") /\ DestroysOnce(queue)
        /\ downs = IF state = "kDisconnected" THEN 1 ELSE 0
        /\ dangling => server # "up"
        /\ erasing = IF state = "kDisconnected" THEN 1 ELSE 0
    BY <1>7 DEF Unraced, EndGoesOn
  <2>2. EndGoesOn'
    BY <1>3, <1>7, <2>1 DEF EndGoesOn
  <2>3. Watching'
    BY <1>7 DEF Unraced, Watching, IsOpen
  <2> QED
    BY <2>2, <2>3 DEF Unraced
<1> QED
  BY <1>4, <1>5, <1>6, <1>7

\* The server's loop forgets a connection that has ended, or finds no server.
LEMMA RemoveKept == ConnectionInv /\ removeConnectionInLoop /\ ~failed => ConnectionInv'
<1> SUFFICES ASSUME ConnectionInv, removeConnectionInLoop, ~failed PROVE ConnectionInv'
  OBVIOUS
<1>1. /\ UNCHANGED <<state, reading, raced, output, wire, accepted, writing>>
      /\ UNCHANGED <<fin, peer, soError, incoming, reads>>
      /\ UNCHANGED <<server, ioQuit, channel, downs, destroyed, pc, sends, calls>>
      /\ erasing > 0 /\ erasing' = erasing - 1
  BY DEF removeConnectionInLoop, streamVars, kernelVars, userVars
<1>2. CASE /\ server = "up" /\ inMap' = FALSE /\ failed' = ~inMap
           /\ QueueInLoop(Functor("connectDestroyed", <<>>)) /\ UNCHANGED dangling
  <2>1. failed' <=> ~inMap
    BY <1>2, Zenon
  <2>2. inMap \/ raced
    BY <1>1, <1>2 DEF ConnectionInv, Unraced, EndGoesOn
  <2>3. server' = "up" /\ inMap' = FALSE /\ UNCHANGED <<batch, revents, phase, dangling>>
        /\ pending' = Append(pending, Functor("connectDestroyed", <<>>))
    BY <1>1, <1>2 DEF QueueInLoop
  <2> QED
    BY <1>1, <1>2, <2>1, <2>2, <2>3, ForgottenKept
<1>3. CASE server = "gone" /\ dangling' = TRUE /\ UNCHANGED <<inMap, failed, loopVars>>
  <2>1. pc' \in [Users -> {"idle", "send", "shutdown", "forceClose"}]
    BY <1>1 DEF ConnectionInv, ConnectionTyped
  <2> QED
    BY <1>1, <1>3, <2>1, DanglingKept DEF loopVars
<1> QED
  BY <1>2, <1>3 DEF removeConnectionInLoop

\* The server's destructor forgets every connection, whatever its state.
LEMMA DestroyKept == ConnectionInv /\ DestroyServer /\ ~failed => ConnectionInv'
<1> SUFFICES ASSUME ConnectionInv, DestroyServer, ~failed PROVE ConnectionInv'
  OBVIOUS
<1>1. /\ UNCHANGED <<state, reading, raced, output, wire, accepted, writing>>
      /\ UNCHANGED <<fin, peer, soError, incoming, reads, erasing, ioQuit>>
      /\ UNCHANGED <<channel, failed, dangling, downs, destroyed, pc, sends, calls>>
      /\ server = "up" /\ server' = "going" /\ inMap' = FALSE
  BY DEF DestroyServer, streamVars, kernelVars, endVars, userVars
<1>2. CASE inMap /\ QueueInLoop(Functor("connectDestroyed", <<>>))
  <2>1. /\ UNCHANGED <<batch, revents, phase>>
        /\ pending' = Append(pending, Functor("connectDestroyed", <<>>))
    BY <1>2 DEF QueueInLoop
  <2> QED
    BY <1>1, <1>2, <2>1, ForgottenKept
<1>3. CASE ~inMap /\ UNCHANGED loopVars
  <2> USE DEF ConnectionInv
  <2>1. UNCHANGED <<pending, batch, revents, phase>> /\ queue' = queue
    BY <1>3 DEF loopVars, queue
  <2>2. ConnectionTyped'
    BY <1>1, <2>1 DEF ConnectionTyped, ConnectionTypeOK
  <2>3. Phased' /\ Establishing' /\ StreamKept'
    BY <1>1, <2>1 DEF Phased, Establishing, StreamKept
  <2>4. ~raced' => Unraced'
    BY <1>1, <1>3, <2>1 DEF Unraced, Watching, EndGoesOn, IsOpen
  <2> QED
    BY <2>2, <2>3, <2>4
<1> QED
  BY <1>2, <1>3 DEF DestroyServer

\* The pool's loop is told to quit, and the destructor returns.
LEMMA PoolKept == ConnectionInv /\ (QuitLoop \/ ServerDestroyed) => ConnectionInv'
<1> SUFFICES ASSUME ConnectionInv, QuitLoop \/ ServerDestroyed PROVE ConnectionInv'
  OBVIOUS
<1> USE DEF ConnectionInv
<1>1. /\ UNCHANGED <<state, reading, raced, pending, batch, output, wire, accepted, writing>>
      /\ UNCHANGED <<fin, peer, soError, incoming, reads, revents, phase, inMap, erasing>>
      /\ UNCHANGED <<channel, failed, dangling, downs, destroyed, pc, sends, calls>>
      /\ server # "up" /\ server' \in {server, "gone"} /\ (ioQuit => ioQuit')
  BY DEF QuitLoop, ServerDestroyed, streamVars, kernelVars, loopVars, endVars, userVars
<1>2. queue' = queue
  BY <1>1 DEF queue
<1>3. ConnectionTyped'
  BY <1>1 DEF ConnectionTyped, ConnectionTypeOK
<1>4. Phased' /\ Establishing' /\ StreamKept'
  BY <1>1, <1>2 DEF Phased, Establishing, StreamKept
<1>5. ~raced' => Unraced'
  BY <1>1, <1>2 DEF Unraced, Watching, EndGoesOn, IsOpen
<1> QED
  BY <1>3, <1>4, <1>5
-----------------------------------------------------------------------------
(* The handlers and the functors. *)

\* The bytes of a message are bytes.
LEMMA MessageIs == ConnectionTyped => \A len \in MessageLens : Message(sends + 1, len) \in Seq(Nat)
BY ConnectionAssumption DEF Message, ConnectionTyped

\* The callback of a message may send, shut down and close.
LEMMA ReadMessageKept == ConnectionInv /\ ReadMessage /\ ~failed => ConnectionInv'
<1> SUFFICES ASSUME ConnectionInv, ReadMessage, ~failed PROVE ConnectionInv'
  OBVIOUS
<1> USE DEF ConnectionInv
<1>1. /\ UNCHANGED <<reading, raced, batch, phase, peer, soError, reads, calls, pc>>
      /\ UNCHANGED <<inMap, erasing, server, ioQuit, channel, failed, dangling, downs, destroyed>>
      /\ phase = "events" /\ "IN" \in revents /\ incoming > 0
      /\ revents' = revents \ {"IN"}
  BY DEF ReadMessage, InFirst, serverVars, endVars
<1>2. ~raced => IsOpen
  BY <1>1 DEF Unraced, Watching
<1>3. Phased'
  BY <1>1 DEF Phased
<1>4. ~("IN" \in revents')
  BY <1>1
<1>5. CASE UNCHANGED <<state, streamVars, fin, pending, sends>>
  <2>1. UNCHANGED <<state, output, wire, accepted, writing, fin, pending, sends>>
    BY <1>5 DEF streamVars
  <2>2. queue' = queue
    BY <1>1, <2>1 DEF queue
  <2>3. ConnectionTyped' /\ Establishing' /\ StreamKept'
    BY <1>1, <2>1, <2>2 DEF ConnectionTyped, ConnectionTypeOK, Establishing, StreamKept
  <2>4. ~raced' => Unraced'
    BY <1>1, <1>2, <1>4, <2>1, <2>2 DEF Unraced, Watching, EndGoesOn, IsOpen
  <2> QED
    BY <1>3, <2>3, <2>4
<1>6. CASE /\ state = "kConnected"
           /\ \E len \in MessageLens : sendInLoop(Message(sends + 1, len))
           /\ sends' = sends + 1
           /\ UNCHANGED <<state, fin, pending>>
  <2>1. PICK bytes \in Seq(Nat) : sendInLoop(bytes)
    BY <1>6, MessageIs
  <2>2. /\ wire' \in Seq(Nat) /\ output' \in Seq(Nat) /\ accepted' \in Seq(Nat)
        /\ writing' \in BOOLEAN
        /\ wire' \o output' = accepted'
        /\ (writing <=> output # <<>>) => (writing' <=> output' # <<>>)
        /\ (writing <=> output # <<>>) /\ fin /\ output = <<>> => output' = <<>>
    BY <2>1, Sent DEF ConnectionTyped, ConnectionTypeOK, StreamKept
  <2>3. queue' = queue
    BY <1>1, <1>6 DEF queue
  <2>4. ConnectionTyped'
    BY <1>1, <1>6, <2>2 DEF ConnectionTyped, ConnectionTypeOK
  <2>5. Establishing'
    BY <1>1, <1>6, <2>3 DEF Establishing
  <2>6. StreamKept'
    BY <1>1, <1>6, <2>2 DEF StreamKept
  <2>7. ~raced' => Unraced'
    BY <1>1, <1>2, <1>4, <1>6, <2>3
       DEF Unraced, Watching, EndGoesOn, IsOpen
  <2> QED
    BY <1>3, <2>4, <2>5, <2>6, <2>7
<1>7. CASE /\ state = "kConnected" /\ state' = "kDisconnecting" /\ shutdownInLoop
           /\ UNCHANGED <<streamVars, pending, sends>>
  <2>1. UNCHANGED <<output, wire, accepted, writing, pending, sends>>
    BY <1>7 DEF streamVars
  <2>2. fin' \in BOOLEAN
    BY <1>7, Zenon DEF shutdownInLoop
  <2>3. fin' => fin \/ ~writing
    BY <1>7, Zenon DEF shutdownInLoop, MayShut
  <2>4. queue' = queue
    BY <1>1, <2>1 DEF queue
  <2>5. ConnectionTyped'
    BY <1>1, <1>7, <2>1, <2>2 DEF ConnectionTyped, ConnectionTypeOK
  <2>6. Establishing'
    BY <1>1, <1>7, <2>4 DEF Establishing
  <2>7. StreamKept'
    BY <1>1, <1>7, <2>1, <2>3 DEF StreamKept
  <2>8. ~raced' => Unraced'
    BY <1>1, <1>2, <1>4, <1>7, <2>1, <2>4
       DEF Unraced, Watching, EndGoesOn, IsOpen
  <2> QED
    BY <1>3, <2>5, <2>6, <2>7, <2>8
<1>8. CASE /\ IsOpen /\ state' = "kDisconnecting"
           /\ pending' = Append(pending, Functor("forceCloseInLoop", <<>>))
           /\ UNCHANGED <<streamVars, fin, sends>>
  <2>1. UNCHANGED <<output, wire, accepted, writing, fin, sends>>
    BY <1>8 DEF streamVars
  <2> DEFINE g == Functor("forceCloseInLoop", <<>>)
  <2>2. g \in LoopFunctors /\ g.f = "forceCloseInLoop"
    BY FunctorIs, EmptySeq DEF FunctorNames
  <2>3. pending' = Append(pending, g)
    BY <1>8
  <2> HIDE DEF g
  <2>4. /\ pending' \in Seq(LoopFunctors)
        /\ \A n : Named(queue', n) <=> Named(queue, n) \/ g.f = n
        /\ DestroysOnce(queue) => DestroysOnce(queue')
    BY <1>1, <2>2, <2>3, OneMore
  <2>5. ConnectionTyped'
    BY <1>1, <1>8, <2>1, <2>4 DEF ConnectionTyped, ConnectionTypeOK
  <2>6. Establishing'
    BY <1>1, <1>8, <2>2, <2>4 DEF Establishing, IsOpen
  <2>7. StreamKept'
    BY <1>1, <1>8, <2>1 DEF StreamKept, IsOpen
  <2>8. ~raced' => Unraced'
    BY <1>1, <1>2, <1>4, <1>8, <2>1, <2>2, <2>4
       DEF Unraced, Watching, EndGoesOn, IsOpen
  <2> QED
    BY <1>3, <2>5, <2>6, <2>7, <2>8
<1> QED
  BY <1>5, <1>6, <1>7, <1>8 DEF ReadMessage

\* The end of the stream closes the connection, which is open.
LEMMA ReadEndKept == ConnectionInv /\ ReadEnd /\ ~failed => ConnectionInv'
<1> SUFFICES ASSUME ConnectionInv, ReadEnd, ~failed PROVE ConnectionInv'
  OBVIOUS
<1> USE DEF ConnectionInv
<1>1. /\ UNCHANGED <<pending, batch, phase, fin, peer, soError, incoming, reads, pc, sends, calls>>
      /\ UNCHANGED <<inMap, server, ioQuit>>
      /\ phase = "events" /\ "IN" \in revents
      /\ revents' = revents \ {"IN"}
  BY DEF ReadEnd, InFirst, handleClose, kernelVars, userVars, serverVars
<1>2. ~raced => IsOpen
  BY <1>1 DEF Unraced, Watching
<1>3. queue' = queue
  BY <1>1 DEF queue
<1>4. Phased' /\ ~("IN" \in revents')
  BY <1>1 DEF Phased
<1>5. CASE IsOpen
  <2>1. /\ UNCHANGED <<output, wire, accepted, channel, failed, destroyed, raced>>
        /\ state' = "kDisconnected" /\ reading' = FALSE /\ writing' = FALSE
        /\ downs' = downs + 1
        /\ \/ server # "gone" /\ erasing' = erasing + 1 /\ dangling' = dangling
           \/ server = "gone" /\ erasing' = erasing
    BY <1>5 DEF ReadEnd, handleClose, Closed
  <2>2. reading' \in BOOLEAN /\ writing' \in BOOLEAN
    BY <2>1, Zenon
  <2>3. ConnectionTyped'
    BY <1>1, <2>1, <2>2 DEF ConnectionTyped, ConnectionTypeOK
  <2>4. Establishing'
    BY <1>3, <1>5, <2>1 DEF Establishing, IsOpen
  <2>5. StreamKept'
    BY <2>1 DEF StreamKept
  <2>6. ~raced' => Unraced'
    BY <1>1, <1>3, <1>4, <1>5, <2>1 DEF Unraced, Watching, EndGoesOn, IsOpen
  <2> QED
    BY <1>4, <2>3, <2>4, <2>5, <2>6
<1>6. CASE ~IsOpen
  <2>1. UNCHANGED <<state, reading, raced, output, wire, accepted, writing, channel>>
    BY <1>6 DEF ReadEnd, streamVars
  <2>3. raced'
    <3>1. raced
      BY <1>2, <1>6
    <3>2. raced' = raced
      BY <2>1
    <3> QED
      BY <3>1, <3>2, Zenon
  <2>2. ConnectionTyped'
    BY <1>1, <2>1 DEF ConnectionTyped, ConnectionTypeOK
  <2>4. Establishing' /\ StreamKept'
    BY <1>1, <1>3, <2>1 DEF Establishing, StreamKept
  <2> QED
    BY <1>4, <2>2, <2>3, <2>4
<1> QED
  BY <1>5, <1>6

\* Some of the bytes that wait are written.
LEMMA WriteKept == ConnectionInv /\ handleWrite => ConnectionInv'
<1> SUFFICES ASSUME ConnectionInv, handleWrite PROVE ConnectionInv'
  OBVIOUS
<1> USE DEF ConnectionInv
<1>1. /\ UNCHANGED <<state, reading, raced, pending, batch, phase, accepted, peer, soError>>
      /\ UNCHANGED <<incoming, reads, inMap, erasing, server, ioQuit>>
      /\ UNCHANGED <<channel, failed, dangling, downs, destroyed, pc, sends, calls>>
      /\ phase = "events" /\ revents' = {}
  BY DEF handleWrite, serverVars, endVars, userVars
<1>2. queue' = queue
  BY <1>1 DEF queue
<1>3. Phased' /\ Establishing'
  BY <1>1, <1>2 DEF Phased, Establishing
<1>4. CASE UNCHANGED <<wire, output, writing, fin>>
  <2>1. ConnectionTyped' /\ StreamKept'
    BY <1>1, <1>4 DEF ConnectionTyped, ConnectionTypeOK, StreamKept
  <2>2. ~raced' => Unraced'
    BY <1>1, <1>2, <1>4 DEF Unraced, Watching, EndGoesOn, IsOpen
  <2> QED
    BY <1>3, <2>1, <2>2
<1>5. CASE writing /\ ~Broken
  <2>1. PICK k \in 1..Len(output) :
              /\ wire' = wire \o SubSeq(output, 1, k)
              /\ output' = Written(k)
              /\ writing' = ~Drained(output')
              /\ fin' = (fin \/ Finishes(output'))
    BY <1>5 DEF handleWrite
  <2>2. output \in Seq(Nat) /\ wire \in Seq(Nat) /\ k \in 0..Len(output)
    BY DEF ConnectionTyped
  <2>3. PICK a \in Seq(Nat), b \in Seq(Nat) :
              /\ a = SubSeq(output, 1, k) /\ b = SubSeq(output, k + 1, Len(output))
              /\ a \o b = output
    BY <2>2, Halves
  <2>4. wire' = wire \o a /\ output' = b
    BY <2>1, <2>3 DEF Written
  <2>5. wire' \in Seq(Nat) /\ output' \in Seq(Nat)
    <3>1. wire \o a \in Seq(Nat)
      BY <2>2, ConcatProperties
    <3> QED
      BY <2>4, <3>1
  <2>6. wire' \o output' = accepted'
    <3>1. \A r, s \in Seq(Nat) : (wire \o r) \o s = wire \o (r \o s)
      BY <2>2, Regrouped
    <3>2. (wire \o a) \o b = wire \o output
      BY ZenonT(40), <2>3, <3>1
    <3> QED
      BY <1>1, <2>4, <3>2 DEF StreamKept
  <2>7. writing' \in BOOLEAN /\ fin' \in BOOLEAN
    BY <2>1, Zenon
  <2>8. /\ writing' <=> output' # <<>>
        /\ fin' => fin \/ output' = <<>>
    BY <2>1, Zenon DEF Drained, Finishes
  <2>9. ConnectionTyped'
    BY <1>1, <2>5, <2>7 DEF ConnectionTyped, ConnectionTypeOK
  <2>10. StreamKept'
    BY <1>1, <1>5, <2>6, <2>8 DEF StreamKept, Broken
  <2>11. ~raced' => Unraced'
    BY <1>1, <1>2, <1>5 DEF Unraced, Watching, EndGoesOn, IsOpen
  <2> QED
    BY <1>3, <2>9, <2>10, <2>11
<1> QED
  BY <1>4, <1>5 DEF handleWrite
\* A functor leaves the queue; what it was decides what it does.
LEMMA RunFunctorKept == ConnectionInv /\ RunFunctor /\ ~failed => ConnectionInv'
<1> SUFFICES ASSUME ConnectionInv, RunFunctor, ~failed PROVE ConnectionInv'
  OBVIOUS
<1> USE DEF ConnectionInv
<1> DEFINE g == Head(batch)
<1>1. /\ UNCHANGED <<pending, revents, phase, raced, peer, soError, incoming, reads>>
      /\ UNCHANGED <<pc, sends, calls>>
      /\ phase = "functors" /\ batch # <<>> /\ batch' = Tail(batch) /\ Run(g)
  BY DEF RunFunctor, userVars
<1> HIDE DEF g
<1>2. /\ g \in LoopFunctors /\ batch' \in Seq(LoopFunctors)
      /\ Named(queue, g.f)
      /\ \A n : Named(queue', n) => Named(queue, n)
      /\ DestroysOnce(queue) => DestroysOnce(queue')
      /\ DestroysOnce(queue) /\ g.f = "connectDestroyed" => ~Named(queue', "connectDestroyed")
      /\ EstablishesFirst(queue) => /\ g.f = "connectEstablished"
                                    /\ ~Named(queue', "connectEstablished")
  <2>1. batch \in Seq(LoopFunctors) /\ pending \in Seq(LoopFunctors)
    BY DEF ConnectionTyped
  <2>2. /\ queue \in Seq(LoopFunctors) /\ queue # <<>> /\ Head(queue) = g /\ queue' = Tail(queue)
    BY <1>1, <2>1, OneQueue DEF queue, g
  <2>3. batch' \in Seq(LoopFunctors)
    BY <1>1, <2>1, HeadTailProperties
  <2> HIDE DEF queue
  <2> QED
    BY <2>2, <2>3, FunctorTaken
<1>3. Phased' /\ revents' = {}
  <2>1. UNCHANGED <<server, ioQuit>>
    BY <1>1 DEF Run, serverVars, handleClose, connectDestroyed
  <2> QED
    BY <1>1, <2>1 DEF Phased
<1>4. CASE g.f = "connectEstablished"
  <2>1. /\ state' = "kConnected" /\ reading' = TRUE /\ channel' = "added"
        /\ UNCHANGED <<output, wire, accepted, writing, fin>>
        /\ UNCHANGED <<inMap, erasing, server, ioQuit, failed, dangling, downs, destroyed>>
    BY <1>1, <1>4 DEF Run, streamVars, serverVars
  <2>2. state = "kConnecting" /\ ~raced /\ EstablishesFirst(queue)
    BY <1>2, <1>4 DEF Establishing
  <2>4. ~Named(queue', "connectEstablished")
    BY <1>2, <2>2
  <2>5. reading' \in BOOLEAN
    BY <2>1, Zenon
  <2>6. ConnectionTyped'
    BY <1>1, <1>2, <2>1, <2>5 DEF ConnectionTyped, ConnectionTypeOK
  <2>7. Establishing' /\ StreamKept'
    BY <1>1, <2>1, <2>2, <2>4 DEF Establishing, StreamKept
  <2>8. ~raced' => Unraced'
    BY <1>1, <1>2, <1>3, <2>1, <2>2, <2>4
       DEF Unraced, Watching, EndGoesOn, IsOpen
  <2> QED
    BY <1>3, <2>6, <2>7, <2>8
<1>5. g.f # "connectEstablished" => state # "kConnecting"
  BY <1>2 DEF Establishing
<1>6. CASE g.f = "sendInLoop"
  <2>1. /\ sendInLoop(g.bytes)
        /\ UNCHANGED <<state, reading, fin>>
        /\ UNCHANGED <<inMap, erasing, server, ioQuit, channel, failed, dangling, downs, destroyed>>
    BY <1>1, <1>6 DEF Run, serverVars, endVars
  <2>2. g.bytes \in Seq(Nat)
    BY <1>2 DEF LoopFunctors
  <2>3. /\ wire' \in Seq(Nat) /\ output' \in Seq(Nat) /\ accepted' \in Seq(Nat)
        /\ writing' \in BOOLEAN
        /\ wire' \o output' = accepted'
        /\ state = "kDisconnected" => UNCHANGED streamVars
        /\ (writing <=> output # <<>>) => (writing' <=> output' # <<>>)
        /\ (writing <=> output # <<>>) /\ fin /\ output = <<>> => output' = <<>>
    BY <2>1, <2>2, Sent DEF ConnectionTyped, ConnectionTypeOK, StreamKept
  <2>4. state = "kDisconnected" => writing' = writing
    BY <2>3 DEF streamVars
  <2>5. ConnectionTyped'
    BY <1>1, <1>2, <2>1, <2>3 DEF ConnectionTyped, ConnectionTypeOK
  <2>6. Establishing'
    BY <1>2, <1>5, <1>6, <2>1 DEF Establishing
  <2>7. StreamKept'
    BY <1>1, <2>1, <2>3 DEF StreamKept
  <2>8. ~raced' => Unraced'
    <3> SUFFICES ASSUME ~raced' PROVE Unraced'
      OBVIOUS
    <3>1. Unraced
      BY <1>1
    <3>2. Watching'
      BY <1>3, <1>5, <1>6, <2>1, <2>4, <3>1 DEF Unraced, Watching, IsOpen, ConnectionTyped, ConnectionTypeOK
    <3>3. EndGoesOn'
      BY <1>2, <2>1, <3>1 DEF Unraced, EndGoesOn
    <3> QED
      BY <3>2, <3>3 DEF Unraced
  <2> QED
    BY <1>3, <2>5, <2>6, <2>7, <2>8
<1>7. CASE g.f = "shutdownInLoop"
  <2>1. /\ shutdownInLoop
        /\ UNCHANGED <<state, reading, output, wire, accepted, writing>>
        /\ UNCHANGED <<inMap, erasing, server, ioQuit, channel, failed, dangling, downs, destroyed>>
    BY <1>1, <1>7 DEF Run, streamVars, serverVars, endVars
  <2>2. fin' \in BOOLEAN
    BY <2>1, Zenon DEF shutdownInLoop
  <2>3. fin' => fin \/ ~writing
    BY <2>1, Zenon DEF shutdownInLoop, MayShut
  <2>4. ConnectionTyped'
    BY <1>1, <1>2, <2>1, <2>2 DEF ConnectionTyped, ConnectionTypeOK
  <2>5. Establishing'
    BY <1>2, <1>5, <1>7, <2>1 DEF Establishing
  <2>6. StreamKept'
    BY <1>1, <2>1, <2>3 DEF StreamKept
  <2>7. ~raced' => Unraced'
    BY <1>1, <1>2, <1>3, <2>1 DEF Unraced, Watching, EndGoesOn, IsOpen
  <2> QED
    BY <1>3, <2>4, <2>5, <2>6, <2>7
<1>8. CASE g.f = "forceCloseInLoop"
  <2>1. CASE IsOpen
    <3>1. /\ UNCHANGED <<output, wire, accepted, channel, failed, destroyed, inMap, server, ioQuit, fin>>
          /\ state' = "kDisconnected" /\ reading' = FALSE /\ writing' = FALSE
          /\ downs' = downs + 1
          /\ \/ server # "gone" /\ erasing' = erasing + 1 /\ dangling' = dangling
             \/ server = "gone" /\ erasing' = erasing
      BY <1>1, <1>8, <2>1 DEF Run, handleClose, Closed
    <3>2. reading' \in BOOLEAN /\ writing' \in BOOLEAN
      BY <3>1, Zenon
    <3>3. ConnectionTyped'
      BY <1>1, <1>2, <3>1, <3>2 DEF ConnectionTyped, ConnectionTypeOK
    <3>4. Establishing'
      BY <1>2, <1>5, <1>8, <3>1 DEF Establishing
    <3>5. StreamKept'
      BY <3>1 DEF StreamKept
    <3>6. ~raced' => Unraced'
      BY <1>1, <1>2, <1>3, <2>1, <3>1 DEF Unraced, Watching, EndGoesOn, IsOpen
    <3> QED
      BY <1>3, <3>3, <3>4, <3>5, <3>6
  <2>2. CASE ~IsOpen
    <3>1. /\ UNCHANGED <<state, reading, output, wire, accepted, writing, fin>>
          /\ UNCHANGED <<inMap, erasing, server, ioQuit, channel, failed, dangling, downs, destroyed>>
      BY <1>1, <1>8, <2>2 DEF Run, streamVars, serverVars, endVars
    <3>2. ConnectionTyped'
      BY <1>1, <1>2, <3>1 DEF ConnectionTyped, ConnectionTypeOK
    <3>3. Establishing'
      BY <1>2, <1>5, <1>8, <3>1 DEF Establishing
    <3>4. StreamKept'
      BY <1>1, <3>1 DEF StreamKept
    <3>5. ~raced' => Unraced'
      BY <1>1, <1>2, <1>3, <3>1 DEF Unraced, Watching, EndGoesOn, IsOpen
    <3> QED
      BY <1>3, <3>2, <3>3, <3>4, <3>5
  <2> QED
    BY <2>1, <2>2
<1>9. CASE g.f = "connectDestroyed"
  <2>1. /\ destroyed' = destroyed + 1 /\ channel' = "removed"
        /\ UNCHANGED <<output, wire, accepted, inMap, erasing, server, ioQuit, fin>>
        /\ dangling' = dangling
    BY <1>1, <1>9 DEF Run, connectDestroyed, serverVars
  <2>2. \/ /\ state = "kConnected" /\ state' = "kDisconnected" /\ reading' = FALSE
           /\ writing' = FALSE /\ downs' = downs + 1 /\ failed' = failed
        \/ /\ state # "kConnected" /\ UNCHANGED <<state, reading, writing, downs>>
           /\ failed' = (reading \/ writing)
    BY <1>1, <1>9 DEF Run, connectDestroyed, Closed
  <2>3. ~raced => /\ destroyed = 0 /\ ~inMap /\ DestroysOnce(queue)
                  /\ state = "kDisconnected" \/ server # "up"
    BY <1>2, <1>9 DEF Unraced, EndGoesOn
  <2>4. reading' \in BOOLEAN /\ writing' \in BOOLEAN
    <3>1. reading \in BOOLEAN /\ writing \in BOOLEAN
      BY DEF ConnectionTyped, ConnectionTypeOK
    <3> QED
      BY <2>2, <3>1, Zenon
  <2>5. ConnectionTyped'
    <3>1. state' \in {"kDisconnected", "kConnecting", "kConnected", "kDisconnecting"}
      BY <2>2 DEF ConnectionTyped, ConnectionTypeOK
    <3> QED
      BY <1>1, <1>2, <2>1, <2>4, <3>1 DEF ConnectionTyped, ConnectionTypeOK
  <2>6. Establishing'
    BY <1>2, <1>5, <1>9, <2>2 DEF Establishing
  <2>7. StreamKept'
    BY <1>1, <2>1, <2>2 DEF StreamKept
  <2>8. ~raced' => Unraced'
    <3> SUFFICES ASSUME ~raced' PROVE Unraced'
      OBVIOUS
    <3>1. ~raced /\ Unraced
      BY <1>1
    <3>2. ~("IN" \in revents') /\ state \in {"kDisconnected", "kConnected", "kDisconnecting"}
      BY <1>3, <1>5, <1>9 DEF ConnectionTyped, ConnectionTypeOK
    <3>3. CASE state = "kConnected"
      <4>1. /\ state' = "kDisconnected" /\ ~reading' /\ ~writing' /\ downs' = downs + 1
            /\ failed' = failed
        BY <2>2, <3>3
      <4>2. Watching'
        BY <3>2, <4>1 DEF Watching, IsOpen
      <4>3. EndGoesOn'
        BY <1>2, <1>9, <2>1, <2>3, <3>1, <3>3, <4>1 DEF Unraced, EndGoesOn
      <4> QED
        BY <4>2, <4>3 DEF Unraced
    <3>4. CASE state \in {"kDisconnected", "kDisconnecting"}
      <4>1. UNCHANGED <<state, reading, writing, downs>>
        BY <2>2, <3>4
      <4>2. failed' <=> reading \/ writing
        BY <2>2, <3>4, Zenon
      <4>3. Watching'
        BY <3>1, <3>2, <4>1 DEF Unraced, Watching, IsOpen
      <4>4. failed' <=> state = "kDisconnecting"
        BY <3>1, <3>4, <4>2 DEF Unraced, Watching, IsOpen
      <4>5. EndGoesOn'
        BY <1>2, <1>9, <2>1, <2>3, <3>1, <3>4, <4>1, <4>4 DEF Unraced, EndGoesOn
      <4> QED
        BY <4>3, <4>5 DEF Unraced
    <3> QED
      BY <3>2, <3>3, <3>4
  <2> QED
    BY <1>3, <2>5, <2>6, <2>7, <2>8
<1> QED
  BY <1>2, <1>4, <1>6, <1>7, <1>8, <1>9 DEF LoopFunctors, FunctorNames
-----------------------------------------------------------------------------
\* TcpConnection.cc and TcpServer.cc: every handler, functor and call keeps the
\* invariant of a connection.
THEOREM ConnectionInductive == ConnectionSpec => []ConnectionInv
<1>1. ASSUME ConnectionInv, [ConnectionNext]_connVars PROVE ConnectionInv'
  <2>1. CASE ConnectionNext
    <3>1. ~failed
      BY <2>1 DEF ConnectionNext
    <3>2. CASE Loop
      BY <1>1, <3>1, <3>2, PollKept, QuietStepKept, ReadMessageKept, ReadEndKept, WriteKept,
         SwapKept, RunFunctorKept DEF Loop
    <3>3. CASE removeConnectionInLoop \/ Destruction \/ Peer
      BY <1>1, <3>1, <3>3, RemoveKept, DestroyKept, PoolKept, PeerKept DEF Destruction
    <3>4. CASE \E u \in Users : Test(u) \/ send(u) \/ Disconnecting(u)
      BY <1>1, <3>1, <3>4, TestKept, SendKept, DisconnectingKept
    <3> QED
      BY <2>1, <3>2, <3>3, <3>4 DEF ConnectionNext
  <2>2. CASE UNCHANGED connVars
    <3>1. /\ UNCHANGED <<state, reading, raced, output, wire, accepted, writing, pending, batch>>
          /\ UNCHANGED <<fin, peer, soError, incoming, reads, revents, phase>>
          /\ UNCHANGED <<inMap, erasing, server, ioQuit, channel, failed, dangling, downs, destroyed>>
          /\ UNCHANGED <<pc, sends, calls>>
      BY <2>2 DEF connVars, streamVars, kernelVars, loopVars, serverVars, endVars, userVars
    <3>2. queue' = queue
      BY <3>1 DEF queue
    <3>3. ConnectionTyped'
      BY <1>1, <3>1 DEF ConnectionInv, ConnectionTyped, ConnectionTypeOK
    <3>5. Phased' /\ Establishing' /\ StreamKept'
      BY <1>1, <3>1, <3>2 DEF ConnectionInv, Phased, Establishing, StreamKept
    <3>4. ~raced' => Unraced'
      BY <1>1, <3>1, <3>2 DEF ConnectionInv, Unraced, Watching, EndGoesOn, IsOpen
    <3> QED
      BY <3>3, <3>4, <3>5 DEF ConnectionInv
  <2> QED
    BY <1>1, <2>1, <2>2
<1>2. ConnectionInv /\ [ConnectionNext]_connVars => ConnectionInv'
  BY <1>1
<1> QED
  BY <1>2, ConnectionStarts, PTL DEF ConnectionSpec

\* TcpConnection.cc: the kernel and the output buffer hold the accepted bytes in
\* order, and without a race for state_ the end is told once and the connection is
\* destroyed once, whenever ~TcpServer runs and whatever state_ it finds.  The one
\* assert that then fails is Channel::remove()'s, for a connection destroyed while it
\* was closing, and nothing that is gone is used before the server's end.
THEOREM StreamAndEnd == ConnectionSpec => []ConnectionKept
BY ConnectionInductive, ConnectionInvKept, PTL
-----------------------------------------------------------------------------
(* The inductive invariant of the pollers.  A channel that the poller does not
   have wants nothing, and only channels that it has wait to be handled. *)
Pollfd == [fd : Int, events : SUBSET Interests]
Booked ==
    /\ kind \in {"epoll", "poll"} /\ channels \subseteq Fds /\ muted \subseteq channels
    /\ events \in [Fds -> SUBSET Interests] /\ index \in [Fds -> Int]
    /\ \A c \in Fds : c \in channels => index[c] # kNew
    /\ \A c \in Fds : c \notin channels => events[c] = {}
    /\ ~fatal
Handed == active \in Seq(channels)

(* epoll: index_ says what the kernel has. *)
EPollBooks ==
    /\ muted = {} /\ Known \subseteq Fds
    /\ \A c \in Fds :
         /\ index[c] \in {kNew, kAdded, kDeleted}
         /\ c \notin channels => index[c] = kNew
         /\ c \in Known <=> index[c] = kAdded
         /\ c \in Known => kernel[c] = events[c]
         /\ index[c] = kDeleted => events[c] = {}

(* poll: index_ is the place of the channel's pollfd, and each place is of one. *)
FdFor(c) == IF c \in muted THEN Negated(c) ELSE c
PollBooks ==
    /\ pollfds \in Seq(Pollfd)
    /\ \A c \in channels :
         /\ index[c] \in Nat /\ index[c] < Len(pollfds)
         /\ pollfds[index[c] + 1].fd = FdFor(c)
         /\ pollfds[index[c] + 1].events = events[c]
    /\ \A k \in 1..Len(pollfds) : \E c \in channels : index[c] + 1 = k
    /\ Len(pollfds) = Cardinality(channels)

PollersInv ==
    /\ Booked /\ Handed
    /\ kind = "epoll" => EPollBooks
    /\ kind = "poll" => PollBooks

\* A descriptor and its negation are told apart, and each names its channel.
LEMMA FdIs ==
  ASSUME NEW c \in Fds
  PROVE  /\ c \in Nat /\ c > 0 /\ Negated(c) \in Int /\ Negated(c) < 0
         /\ FdFor(c) \in Int /\ FdOf(FdFor(c)) = c
         /\ FdFor(c) = c <=> c \notin muted
         /\ \A d \in Fds : FdFor(c) = d => c = d
<1>1. \A d \in Fds : d \in Nat /\ d > 0
  BY PollersAssumption
<1> QED
  BY <1>1 DEF Negated, FdFor, FdOf

\* The channels are finitely many.
LEMMA FiniteChannels == Booked => IsFiniteSet(channels) /\ Cardinality(channels) \in Nat
BY PollersAssumption, FS_Subset, FS_CardinalityType DEF Booked

\* The pollfd of one channel that has not been muted, and none of another.
LEMMA WatchedByPoll ==
  ASSUME Booked, PollBooks, kind = "poll", NEW c \in Fds
  PROVE  Watched(c) = IF c \in channels \ muted THEN events[c] ELSE {}
<1>1. Watched(c) = UNION {p.events : p \in PollfdsOf(c)}
  BY DEF Watched
<1>2. \A p : p \in PollfdsOf(c) <=> \E k \in 1..Len(pollfds) : p = pollfds[k] /\ pollfds[k].fd = c
  <2>1. DOMAIN pollfds = 1..Len(pollfds)
    BY DEF PollBooks
  <2> QED
    BY <2>1 DEF PollfdsOf, ToSet
<1>3. ASSUME NEW k \in 1..Len(pollfds), pollfds[k].fd = c
      PROVE  c \in channels \ muted /\ k = index[c] + 1
  <2>1. PICK d \in channels : index[d] + 1 = k
    BY DEF PollBooks
  <2>2. pollfds[k].fd = FdFor(d) /\ d \in Fds
    BY <2>1 DEF PollBooks, Booked
  <2>3. d = c /\ c \notin muted
    BY <1>3, <2>2, FdIs
  <2> QED
    BY <2>1, <2>3
<1>4. CASE c \in channels \ muted
  <2>1. /\ index[c] + 1 \in 1..Len(pollfds)
        /\ pollfds[index[c] + 1].fd = c /\ pollfds[index[c] + 1].events = events[c]
    BY <1>4, FdIs DEF PollBooks, FdFor
  <2>2. PollfdsOf(c) = {pollfds[index[c] + 1]}
    BY <1>2, <1>3, <2>1
  <2>3. {p.events : p \in PollfdsOf(c)} = {events[c]}
    BY <2>1, <2>2
  <2>4. UNION {events[c]} = events[c]
    OBVIOUS
  <2> QED
    BY <1>1, <1>4, <2>3, <2>4
<1>5. CASE c \notin channels \ muted
  <2>1. PollfdsOf(c) = {}
    BY <1>2, <1>3, <1>5
  <2> QED
    BY <1>1, <1>5, <2>1
<1> QED
  BY <1>4, <1>5

\* What the kernel has of a channel is what the channel wants.
LEMMA WatchedByEPoll ==
  ASSUME Booked, EPollBooks, kind = "epoll", NEW c \in Fds
  PROVE  Watched(c) = IF c \in channels \ muted THEN events[c] ELSE {}
<1>1. Watched(c) = IF c \in Known THEN kernel[c] ELSE {}
  BY DEF Watched
<1>2. c \in Known => c \in channels
  BY DEF EPollBooks, kAdded, kNew
<1>3. c \in channels /\ c \notin Known => events[c] = {}
  BY DEF EPollBooks, Booked
<1> QED
  BY <1>1, <1>2, <1>3 DEF EPollBooks

\* The invariant is as strong as what the run checks.
LEMMA PollersInvPolled == PollersInv => Polled
<1> SUFFICES ASSUME PollersInv PROVE Polled
  OBVIOUS
<1>1. \A c \in Fds : Watched(c) = IF c \in channels \ muted THEN events[c] ELSE {}
  BY WatchedByPoll, WatchedByEPoll DEF PollersInv, Booked
<1>2. ASSUME kind = "poll"
      PROVE  /\ Len(pollfds) = Cardinality(channels)
             /\ \A c \in channels : FdOf(pollfds[index[c] + 1].fd) = c
  BY <1>2, FdIs DEF PollersInv, PollBooks, Booked
<1>3. ToSet(active) \subseteq channels
  <2>1. DOMAIN active = 1..Len(active) /\ \A k \in 1..Len(active) : active[k] \in channels
    BY DEF PollersInv, Handed
  <2> QED
    BY <2>1 DEF ToSet
<1> QED
  BY <1>1, <1>2, <1>3 DEF Polled, PollersInv, Booked

\* No channel yet.
LEMMA PollersStart == PollersInit => PollersInv
<1> SUFFICES ASSUME PollersInit PROVE PollersInv
  OBVIOUS
<1>1. Booked /\ Handed
  BY PollersAssumption, EmptySeq DEF PollersInit, Booked, Handed, kNew
<1>2. EPollBooks
  BY DEF PollersInit, EPollBooks, Known, kNew, kAdded, kDeleted
<1>3. PollBooks
  <2>1. Len(<<>>) = 0 /\ <<>> \in Seq(Pollfd) /\ Cardinality({}) = 0
    BY EmptySeq, FS_EmptySet
  <2> QED
    BY <2>1 DEF PollersInit, PollBooks
<1> QED
  BY <1>1, <1>2, <1>3 DEF PollersInv
-----------------------------------------------------------------------------
(* The loop hands events out. *)

\* Only channels that the poller has are watched, so only they become active.
LEMMA PollActive == PollersInv /\ poll => PollersInv'
<1> SUFFICES ASSUME PollersInv, poll PROVE PollersInv'
  OBVIOUS
<1>1. UNCHANGED <<kind, events, index, channels, kernel, pollfds, current, muted, fatal>>
  BY DEF poll
<1>2. PICK ready \in SUBSET {c \in Fds : Watched(c) # {}} : active' \in SetToSeqs(ready)
  BY DEF poll
<1>3. ready \subseteq channels
  BY PollersInvPolled DEF Polled
<1>4. Cardinality(ready) \in Nat
  BY <1>3, FiniteChannels, FS_Subset, FS_CardinalityType DEF PollersInv
<1>5. active' \in [1..Cardinality(ready) -> ready]
  BY <1>2 DEF SetToSeqs
<1>6. active' \in Seq(channels)
  BY <1>3, <1>4, <1>5
<1>7. Booked' /\ Handed'
  BY <1>1, <1>6 DEF PollersInv, Booked, Handed
<1>8. (kind = "epoll" => EPollBooks)' /\ (kind = "poll" => PollBooks)'
  BY <1>1 DEF PollersInv, EPollBooks, Known, PollBooks, FdFor
<1> QED
  BY <1>7, <1>8 DEF PollersInv

\* A handler begins or ends.
LEMMA HandlingKept == PollersInv /\ (handleEvent \/ handled) => PollersInv'
<1> SUFFICES ASSUME PollersInv, handleEvent \/ handled PROVE PollersInv'
  OBVIOUS
<1>1. UNCHANGED <<kind, events, index, channels, kernel, pollfds, muted, fatal>>
  BY DEF handleEvent, handled
<1>2. active' \in Seq(channels)
  <2>1. CASE handleEvent
    BY <2>1, HeadTailProperties DEF handleEvent, PollersInv, Handed
  <2>2. CASE handled
    BY <2>2 DEF handled, PollersInv, Handed
  <2> QED
    BY <2>1, <2>2
<1>3. Booked' /\ Handed'
  BY <1>1, <1>2 DEF PollersInv, Booked, Handed
<1>4. (kind = "epoll" => EPollBooks)' /\ (kind = "poll" => PollBooks)'
  BY <1>1 DEF PollersInv, EPollBooks, Known, PollBooks, FdFor
<1> QED
  BY <1>3, <1>4 DEF PollersInv

\* A descriptor is used again.
LEMMA RenewKept == \A c \in Fds : PollersInv /\ Renew(c) => PollersInv'
<1> SUFFICES ASSUME NEW c \in Fds, PollersInv, Renew(c) PROVE PollersInv'
  OBVIOUS
<1>1. /\ UNCHANGED <<kind, events, channels, kernel, pollfds, active, current, muted, fatal>>
      /\ c \notin channels /\ index[c] # kNew /\ index' = [index EXCEPT ![c] = kNew]
  BY DEF Renew
<1>2. /\ index' \in [Fds -> Int] /\ index'[c] = kNew
      /\ \A d \in Fds : d # c => index'[d] = index[d]
  BY <1>1 DEF PollersInv, Booked, kNew
<1>3. Booked' /\ Handed'
  BY <1>1, <1>2 DEF PollersInv, Booked, Handed
<1>4. kind # "epoll"
  BY <1>1 DEF PollersInv, EPollBooks
<1>5. \A d \in channels : index'[d] = index[d]
  BY <1>1, <1>2 DEF PollersInv, Booked
<1>6. ASSUME kind = "poll" PROVE PollBooks'
  BY <1>1, <1>5, <1>6 DEF PollersInv, PollBooks, FdFor
<1> QED
  BY <1>1, <1>3, <1>4, <1>6 DEF PollersInv
-----------------------------------------------------------------------------
(* A channel changes, or goes. *)

\* What waits to be handled stays with the channels, but for one that goes.
LEMMA HandedKept ==
  ASSUME Handed, active' = active, NEW c,
         channels' = channels \cup {c} \/ (channels' = channels \ {c} /\ ~Contains(active, c))
  PROVE  Handed'
<1>1. /\ Len(active) \in Nat /\ DOMAIN active = 1..Len(active)
      /\ \A k \in 1..Len(active) : active[k] \in channels'
  BY DEF Handed, Contains
<1>2. active \in Seq(channels')
  BY <1>1 DEF Handed
<1> QED
  BY <1>2 DEF Handed

\* epoll_ctl is told of each change, as index_ says.
LEMMA EPollUpdateKept ==
  ASSUME PollersInv, kind = "epoll", NEW c \in Fds, NEW ev \in SUBSET Interests,
         EPollUpdate(c, ev), events' = [events EXCEPT ![c] = ev], UNCHANGED handing
  PROVE  PollersInv'
<1>1. /\ channels' = channels \cup {c} /\ UNCHANGED <<pollfds, muted, kind, active>>
      /\ events' \in [Fds -> SUBSET Interests] /\ events'[c] = ev
      /\ \A d \in Fds : d # c => events'[d] = events[d]
  BY DEF EPollUpdate, handing, PollersInv, Booked
<1>2. /\ Booked /\ EPollBooks /\ index[c] \in {kNew, kAdded, kDeleted}
      /\ c \in Known <=> index[c] = kAdded
  BY DEF PollersInv, EPollBooks
<1>3. kNew = -1 /\ kAdded = 1 /\ kDeleted = 2
  BY DEF kNew, kAdded, kDeleted
<1>4. Handed'
  BY <1>1, HandedKept DEF PollersInv
<1>5. CASE IsNew(c)
  <2>1. /\ kernel' = [d \in Known \cup {c} |-> IF d = c THEN ev ELSE kernel[d]]
        /\ index' = [index EXCEPT ![c] = kAdded]
    BY <1>5 DEF EPollUpdate, Add, Told
  <2>2. ~fatal'
    <3>1. c \notin Known
      BY <1>2, <1>3, <1>5 DEF IsNew
    <3> QED
      BY <1>5, <3>1, Zenon DEF EPollUpdate, Add
  <2>3. /\ Known' = Known \cup {c} /\ kernel'[c] = ev
        /\ \A d \in Known : d # c => kernel'[d] = kernel[d]
    BY <2>1 DEF Known
  <2>4. /\ index' \in [Fds -> Int] /\ index'[c] = kAdded
        /\ \A d \in Fds : d # c => index'[d] = index[d]
    BY <1>2, <1>3, <2>1 DEF Booked
  <2>5. Booked'
    BY <1>1, <1>2, <1>3, <2>2, <2>4 DEF Booked
  <2>6. EPollBooks'
    BY <1>1, <1>2, <1>3, <2>3, <2>4 DEF EPollBooks
  <2> QED
    BY <1>1, <1>4, <2>5, <2>6 DEF PollersInv
<1>6. CASE ~IsNew(c) /\ ev = {}
  <2>1. /\ kernel' = [d \in Known \ {c} |-> kernel[d]] /\ fatal' = fatal
        /\ index' = [index EXCEPT ![c] = kDeleted]
    BY <1>6 DEF EPollUpdate, Del
  <2>2. /\ Known' = Known \ {c}
        /\ \A d \in Known : d # c => kernel'[d] = kernel[d]
    BY <2>1 DEF Known
  <2>3. /\ index' \in [Fds -> Int] /\ index'[c] = kDeleted
        /\ \A d \in Fds : d # c => index'[d] = index[d]
    BY <1>2, <1>3, <2>1 DEF Booked
  <2>4. Booked'
    BY <1>1, <1>2, <1>3, <2>1, <2>3 DEF Booked
  <2>5. EPollBooks'
    BY <1>1, <1>2, <1>3, <1>6, <2>2, <2>3 DEF EPollBooks
  <2> QED
    BY <1>1, <1>4, <2>4, <2>5 DEF PollersInv
<1>7. CASE ~IsNew(c) /\ ev # {}
  <2>1. kernel' = [d \in Known \cup {c} |-> IF d = c THEN ev ELSE kernel[d]] /\ index' = index
    BY <1>7 DEF EPollUpdate, Mod, Told
  <2>2. index[c] = kAdded /\ c \in Known
    BY <1>2, <1>7 DEF IsNew
  <2>3. ~fatal'
    BY <1>7, <2>2, Zenon DEF EPollUpdate, Mod
  <2>4. /\ Known' = Known /\ kernel'[c] = ev
        /\ \A d \in Known : d # c => kernel'[d] = kernel[d]
    BY <2>1, <2>2 DEF Known
  <2>5. Booked'
    BY <1>1, <1>2, <1>3, <2>1, <2>2, <2>3 DEF Booked
  <2>6. EPollBooks'
    BY <1>1, <1>2, <1>3, <2>1, <2>2, <2>4 DEF EPollBooks
  <2> QED
    BY <1>1, <1>4, <2>5, <2>6 DEF PollersInv
<1> QED
  BY <1>5, <1>6, <1>7

\* A channel that wants nothing leaves the books, the kernel's too.
LEMMA EPollRemoveKept ==
  ASSUME PollersInv, kind = "epoll", NEW c \in channels, events[c] = {}, ~Contains(active, c),
         EPollRemove(c), UNCHANGED <<events, handing>>
  PROVE  PollersInv'
<1>1. /\ channels' = channels \ {c} /\ UNCHANGED <<pollfds, muted, kind, active, events>>
      /\ index' = [index EXCEPT ![c] = kNew]
  BY DEF EPollRemove, handing
<1>2. /\ Booked /\ EPollBooks /\ c \in Fds
      /\ c \in Known <=> index[c] = kAdded
  BY DEF PollersInv, EPollBooks, Booked
<1>3. kNew = -1 /\ kAdded = 1 /\ kDeleted = 2
  BY DEF kNew, kAdded, kDeleted
<1>4. Handed'
  BY <1>1, HandedKept DEF PollersInv
<1>5. fatal' = fatal /\ Known' = Known \ {c} /\ \A d \in Known : d # c => kernel'[d] = kernel[d]
  <2>1. CASE index[c] = kAdded
    BY <2>1 DEF EPollRemove, Del, Known
  <2>2. CASE index[c] # kAdded
    BY <1>2, <2>2 DEF EPollRemove, Known
  <2> QED
    BY <2>1, <2>2
<1>6. /\ index' \in [Fds -> Int] /\ index'[c] = kNew
      /\ \A d \in Fds : d # c => index'[d] = index[d]
  BY <1>1, <1>2, <1>3 DEF Booked
<1>7. Booked'
  <2>1. muted = {}
    BY <1>2 DEF EPollBooks
  <2> QED
    BY <1>1, <1>2, <1>3, <1>5, <1>6, <2>1 DEF Booked
<1>8. EPollBooks'
  BY <1>1, <1>2, <1>3, <1>5, <1>6 DEF EPollBooks
<1> QED
  BY <1>1, <1>4, <1>7, <1>8 DEF PollersInv
\* A channel that poll(2) does not know yet gets the place after the others.
LEMMA PollAppendKept ==
  ASSUME PollersInv, kind = "poll", NEW c \in Fds, NEW ev \in SUBSET Interests, index[c] < 0,
         PollUpdate(c, ev), events' = [events EXCEPT ![c] = ev], UNCHANGED handing
  PROVE  PollersInv'
<1> DEFINE n == Len(pollfds)
<1>1. /\ channels' = channels \cup {c} /\ UNCHANGED <<kind, active, kernel, fatal, muted>>
      /\ pollfds' = Append(pollfds, [fd |-> c, events |-> ev])
      /\ index' = [index EXCEPT ![c] = n]
  BY DEF PollUpdate, handing
<1>2. Booked /\ PollBooks /\ n \in Nat
  BY DEF PollersInv, PollBooks
<1>3. c \notin channels /\ c \notin muted
  BY <1>2 DEF PollBooks, Booked
<1>4. /\ events' \in [Fds -> SUBSET Interests] /\ events'[c] = ev
      /\ \A d \in Fds : d # c => events'[d] = events[d]
  BY <1>2 DEF Booked
<1>5. /\ index' \in [Fds -> Int] /\ index'[c] = n
      /\ \A d \in Fds : d # c => index'[d] = index[d]
  BY <1>1, <1>2 DEF Booked
<1>6. Handed'
  BY <1>1, HandedKept DEF PollersInv
<1>7. Booked'
  BY <1>1, <1>2, <1>4, <1>5 DEF Booked, kNew
<1>8. [fd |-> c, events |-> ev] \in Pollfd
  BY FdIs DEF Pollfd
<1>9. /\ pollfds' \in Seq(Pollfd) /\ Len(pollfds') = n + 1
      /\ \A k \in 1..n : pollfds'[k] = pollfds[k]
      /\ pollfds'[n + 1].fd = c /\ pollfds'[n + 1].events = ev
  <2>1. pollfds \in Seq(Pollfd)
    BY <1>2 DEF PollBooks
  <2>2. /\ pollfds' \in Seq(Pollfd) /\ Len(pollfds') = n + 1
        /\ \A k \in 1..n : pollfds'[k] = pollfds[k]
        /\ pollfds'[n + 1] = [fd |-> c, events |-> ev]
    BY <1>1, <1>8, <2>1, AppendProperties
  <2> QED
    BY <2>2
<1> HIDE DEF n
<1>10. ASSUME NEW d \in channels'
       PROVE  /\ index'[d] \in Nat /\ index'[d] < Len(pollfds')
              /\ pollfds'[index'[d] + 1].fd = FdFor(d)
              /\ pollfds'[index'[d] + 1].events = events'[d]
  <2>1. CASE d = c
    BY <1>2, <1>3, <1>4, <1>5, <1>9, <2>1 DEF FdFor
  <2>2. CASE d # c
    <3>1. d \in channels /\ d \in Fds
      BY <1>1, <1>2, <2>2 DEF Booked
    <3>2. /\ index[d] \in Nat /\ index[d] < n
          /\ pollfds[index[d] + 1].fd = FdFor(d)
          /\ pollfds[index[d] + 1].events = events[d]
      BY <1>2, <3>1 DEF PollBooks, n
    <3>3. index'[d] = index[d] /\ events'[d] = events[d]
      BY <1>4, <1>5, <2>2, <3>1
    <3>4. index[d] + 1 \in 1..n
      BY <1>2, <3>2
    <3> QED
      BY <1>2, <1>9, <3>2, <3>3, <3>4
  <2> QED
    BY <2>1, <2>2
<1>11. ASSUME NEW k \in 1..Len(pollfds') PROVE \E d \in channels' : index'[d] + 1 = k
  <2>1. CASE k = n + 1
    BY <1>1, <1>5, <2>1
  <2>2. CASE k # n + 1
    <3>1. k \in 1..n
      BY <1>2, <1>9, <2>2
    <3>2. PICK d \in channels : index[d] + 1 = k
      BY <1>2, <3>1 DEF PollBooks, n
    <3>3. d \in Fds /\ d # c /\ d \in channels'
      BY <1>1, <1>2, <1>3 DEF Booked
    <3> QED
      BY <1>5, <3>2, <3>3
  <2> QED
    BY <2>1, <2>2
<1>12. Len(pollfds') = Cardinality(channels')
  <2>1. IsFiniteSet(channels) /\ n = Cardinality(channels)
    BY <1>2, FiniteChannels DEF PollBooks, n
  <2> QED
    BY <1>1, <1>3, <1>9, <2>1, FS_AddElement
<1>13. PollBooks'
  BY <1>1, <1>9, <1>10, <1>11, <1>12 DEF PollBooks, FdFor
<1> QED
  BY <1>1, <1>2, <1>6, <1>7, <1>13 DEF PollersInv

\* The pollfd of a channel that wants nothing more is negated for good.
LEMMA PollChangeKept ==
  ASSUME PollersInv, kind = "poll", NEW c \in Fds, NEW ev \in SUBSET Interests, ~(index[c] < 0),
         c \in channels,
         PollUpdate(c, ev), events' = [events EXCEPT ![c] = ev], UNCHANGED handing
  PROVE  PollersInv'
<1> DEFINE i == index[c] + 1
           entry == [fd |-> IF ev = {} THEN Negated(c) ELSE pollfds[i].fd, events |-> ev]
<1>1. /\ channels' = channels /\ UNCHANGED <<kind, active, kernel, fatal, index>>
      /\ muted' = IF ev = {} THEN muted \cup {c} ELSE muted
  BY DEF PollUpdate, handing
<1>2. Booked /\ PollBooks
  BY DEF PollersInv
<1>3. i \in 1..Len(pollfds) /\ pollfds \in Seq(Pollfd) /\ pollfds[i].fd = FdFor(c)
  BY <1>2 DEF PollBooks
<1>4. pollfds' = [pollfds EXCEPT ![i] = entry]
  BY <1>3 DEF PollUpdate
<1>5. entry \in Pollfd /\ entry.events = ev
      /\ entry.fd = IF ev = {} THEN Negated(c) ELSE FdFor(c)
  BY <1>3, FdIs DEF Pollfd
<1> HIDE DEF entry, i
<1>6. /\ pollfds' \in Seq(Pollfd) /\ Len(pollfds') = Len(pollfds)
      /\ pollfds'[i] = entry
      /\ \A k \in 1..Len(pollfds) : k # i => pollfds'[k] = pollfds[k]
  BY <1>3, <1>4, <1>5
<1>7. /\ events' \in [Fds -> SUBSET Interests] /\ events'[c] = ev
      /\ \A d \in Fds : d # c => events'[d] = events[d]
  BY <1>2 DEF Booked
<1>8. Booked' /\ Handed'
  BY <1>1, <1>2, <1>7 DEF Booked, Handed, PollersInv
<1>9. ASSUME NEW d \in channels
      PROVE  /\ pollfds'[index[d] + 1].fd = FdFor(d)'
             /\ pollfds'[index[d] + 1].events = events'[d]
  <2>1. CASE d = c
    <3>1. entry.fd = FdFor(d)'
      BY <1>1, <1>5, <2>1 DEF FdFor
    <3> QED
      BY <1>5, <1>6, <1>7, <2>1, <3>1 DEF i
  <2>2. CASE d # c
    <3>1. /\ index[d] \in Nat /\ index[d] + 1 \in 1..Len(pollfds) /\ d \in Fds
          /\ pollfds[index[d] + 1].fd = FdFor(d) /\ pollfds[index[d] + 1].events = events[d]
      BY <1>2 DEF PollBooks, Booked
    <3>2. index[d] + 1 # i
      <4>1. FdFor(d) # FdFor(c)
        BY <2>2, <3>1, FdIs
      <4> QED
        BY <1>3, <3>1, <4>1
    <3>3. FdFor(d)' = FdFor(d)
      BY <1>1, <2>2 DEF FdFor
    <3> QED
      BY <1>6, <1>7, <2>2, <3>1, <3>2, <3>3
  <2> QED
    BY <2>1, <2>2
<1>10. PollBooks'
  BY <1>1, <1>2, <1>6, <1>9 DEF PollBooks
<1> QED
  BY <1>1, <1>2, <1>8, <1>10 DEF PollersInv
\* The pollfd at the end takes the place of the one that goes, and its channel
\* is told.
LEMMA PollRemoveKept ==
  ASSUME PollersInv, kind = "poll", NEW c \in channels, events[c] = {}, ~Contains(active, c),
         PollRemove(c), UNCHANGED <<events, handing>>
  PROVE  PollersInv'
<1> DEFINE n == Len(pollfds)
           place == index[c] + 1
           last == pollfds[n]
<1>1. /\ channels' = channels \ {c} /\ muted' = muted \ {c}
      /\ UNCHANGED <<kind, active, kernel, fatal, events>>
      /\ pollfds' = Front([pollfds EXCEPT ![place] = last])
      /\ index' = IF place = n THEN index ELSE [index EXCEPT ![FdOf(last.fd)] = index[c]]
  BY DEF PollRemove, handing
<1>2. Booked /\ PollBooks
  BY DEF PollersInv
<1>3. /\ pollfds \in Seq(Pollfd) /\ n \in Nat /\ place \in 1..n /\ index[c] = place - 1
      /\ index[c] \in Nat
  BY <1>2 DEF PollBooks
<1>4. \A d \in channels :
         /\ d \in Fds /\ index[d] \in Nat /\ index[d] + 1 \in 1..n
         /\ pollfds[index[d] + 1].fd = FdFor(d)
         /\ pollfds[index[d] + 1].events = events[d]
  BY <1>2 DEF PollBooks, Booked
<1>5. ASSUME NEW d \in channels, NEW e \in channels, index[d] = index[e] PROVE d = e
  <2>1. FdFor(d) = FdFor(e) /\ d \in Fds /\ e \in Fds
    BY <1>4, <1>5
  <2> QED
    BY <2>1, FdIs
<1>6. n \in 1..n /\ last \in Pollfd
  BY <1>3
<1>7. PICK z \in channels : index[z] + 1 = n
  BY <1>2, <1>6 DEF PollBooks
<1>8. FdOf(last.fd) = z /\ z \in Fds
  BY <1>4, <1>7, FdIs
<1> HIDE DEF n, place, last
<1>9. /\ pollfds' \in Seq(Pollfd) /\ Len(pollfds') = n - 1
      /\ \A k \in 1..(n - 1) : pollfds'[k] = IF k = place THEN last ELSE pollfds[k]
  <2> DEFINE s == [pollfds EXCEPT ![place] = last]
  <2>1. /\ s \in Seq(Pollfd) /\ Len(s) = n
        /\ \A k \in 1..n : s[k] = IF k = place THEN last ELSE pollfds[k]
    BY <1>3, <1>6 DEF n
  <2>2. pollfds' = SubSeq(s, 1, n - 1)
    BY <1>1, <2>1 DEF Front
  <2> HIDE DEF s
  <2>3. /\ 1 \in Int /\ n - 1 \in Int /\ \A k \in 1..(n - 1) : k \in 1..n /\ s[k] \in Pollfd
    BY <1>3, <2>1
  <2>4. /\ pollfds' \in Seq(Pollfd)
        /\ Len(pollfds') = IF 1 <= n - 1 THEN n - 1 - 1 + 1 ELSE 0
        /\ \A k \in 1..(n - 1 - 1 + 1) : pollfds'[k] = s[1 + k - 1]
    BY <2>2, <2>3, SubSeqProperties
  <2>5. Len(pollfds') = n - 1
    BY <1>3, <2>4
  <2>6. ASSUME NEW k \in 1..(n - 1) PROVE pollfds'[k] = s[k]
    <3>1. k \in 1..(n - 1 - 1 + 1) /\ 1 + k - 1 = k
      BY <1>3
    <3> QED
      BY <2>4, <3>1
  <2> QED
    BY <2>1, <2>3, <2>4, <2>5, <2>6
<1>10. \A d \in channels : FdFor(d)' = FdFor(d) \/ d = c
  BY <1>1 DEF FdFor
<1>11. /\ index' \in [Fds -> Int]
       /\ \A d \in channels : d # z => index'[d] = index[d]
       /\ z # c => index'[z] = index[c]
       /\ z = c <=> place = n
  <2>1. z = c <=> place = n
    <3>1. z = c => place = n
      BY <1>7 DEF place
    <3>2. place = n => index[z] = index[c]
      BY <1>3, <1>4, <1>7
    <3> QED
      BY <1>5, <3>1, <3>2
  <2>2. index \in [Fds -> Int] /\ channels \subseteq Fds
    BY <1>2 DEF Booked
  <2>3. CASE place = n
    BY <1>1, <2>1, <2>2, <2>3
  <2>4. CASE place # n
    BY <1>1, <1>3, <1>8, <2>1, <2>2, <2>4
  <2> QED
    BY <2>3, <2>4
<1>12. ASSUME NEW d \in channels'
       PROVE  /\ index'[d] \in Nat /\ index'[d] < Len(pollfds')
              /\ pollfds'[index'[d] + 1].fd = FdFor(d)'
              /\ pollfds'[index'[d] + 1].events = events'[d]
  <2>1. d \in channels /\ d # c /\ FdFor(d)' = FdFor(d) /\ index[d] # index[c]
    BY <1>1, <1>5, <1>10
  <2>2. CASE d = z
    <3>1. index'[d] = place - 1 /\ place # n /\ place \in 1..(n - 1)
      BY <1>3, <1>11, <2>1, <2>2
    <3>2. index'[d] + 1 = place
      BY <1>3, <3>1
    <3>3. pollfds'[place] = last /\ last.fd = FdFor(d) /\ last.events = events[d]
      BY <1>4, <1>7, <1>9, <2>2, <3>1 DEF last
    <3> QED
      BY <1>1, <1>3, <1>9, <2>1, <3>1, <3>2, <3>3
  <2>3. CASE d # z
    <3>1. index'[d] = index[d]
      BY <1>11, <2>1, <2>3
    <3>2. index[d] + 1 \in 1..n /\ index[d] \in Nat
      BY <1>4, <2>1 DEF n
    <3>3. index[d] + 1 # n
      <4>1. index[d] # index[z]
        BY <1>5, <2>1, <2>3
      <4>2. index[z] \in Nat
        BY <1>4
      <4> QED
        BY <1>7, <3>2, <4>1, <4>2
    <3>4. index[d] + 1 # place
      BY <1>3, <2>1, <3>2
    <3>5. index[d] + 1 \in 1..(n - 1) /\ index[d] < n - 1
      BY <1>3, <3>2, <3>3
    <3>6. pollfds'[index[d] + 1] = pollfds[index[d] + 1]
      BY <1>9, <3>4, <3>5
    <3> QED
      BY <1>1, <1>4, <1>9, <2>1, <3>1, <3>2, <3>5, <3>6
  <2> QED
    BY <2>2, <2>3
<1>13. ASSUME NEW k \in 1..Len(pollfds') PROVE \E d \in channels' : index'[d] + 1 = k
  <2>1. k \in 1..(n - 1) /\ k \in 1..n /\ k # n
    BY <1>3, <1>9
  <2>2. CASE k = place
    <3>1. z # c /\ z \in channels'
      BY <1>1, <1>11, <2>1, <2>2
    <3>2. index'[z] + 1 = k
      BY <1>3, <1>11, <2>2, <3>1
    <3> QED
      BY <3>1, <3>2
  <2>3. CASE k # place
    <3>1. PICK d \in channels : index[d] + 1 = k
      BY <1>2, <2>1 DEF PollBooks, n
    <3>2. d # z /\ d # c
      BY <1>3, <1>7, <2>1, <2>3, <3>1 DEF place
    <3> QED
      BY <1>1, <1>11, <3>1, <3>2
  <2> QED
    BY <2>2, <2>3
<1>14. Len(pollfds') = Cardinality(channels')
  <2>1. IsFiniteSet(channels) /\ n = Cardinality(channels)
    BY <1>2, FiniteChannels DEF PollBooks, n
  <2> QED
    BY <1>1, <1>9, <2>1, FS_RemoveElement
<1>15. Handed'
  BY <1>1, HandedKept DEF PollersInv
<1>16. Booked'
  <2>1. \A d \in Fds : d \in channels' => index'[d] # kNew
    BY <1>12 DEF kNew
  <2> QED
    BY <1>1, <1>2, <1>11, <2>1 DEF Booked
<1>17. PollBooks'
  BY <1>9, <1>12, <1>13, <1>14 DEF PollBooks
<1> QED
  BY <1>1, <1>15, <1>16, <1>17 DEF PollersInv
-----------------------------------------------------------------------------
\* EPollPoller.cc and PollPoller.cc: every change of a channel and every step of
\* the loop keeps the invariant of the pollers.
THEOREM PollersInductive == PollersSpec => []PollersInv
<1>1. ASSUME PollersInv, PollersNext PROVE PollersInv'
  <2>1. kind \in {"epoll", "poll"}
    BY <1>1 DEF PollersInv, Booked
  <2>2. ASSUME NEW c \in Fds, NEW ev \in SUBSET Interests, Update(c, ev) PROVE PollersInv'
    <3>1. /\ events' = [events EXCEPT ![c] = ev] /\ UNCHANGED handing
          /\ c \in channels \/ index[c] = kNew
      BY <2>2 DEF Update, Alive
    <3>2. CASE kind = "epoll"
      BY <1>1, <2>2, <3>1, <3>2, EPollUpdateKept DEF Update
    <3>3. CASE kind = "poll"
      <4>1. PollUpdate(c, ev)
        BY <2>2, <3>3 DEF Update
      <4>2. CASE index[c] < 0
        BY <1>1, <3>1, <3>3, <4>1, <4>2, PollAppendKept
      <4>3. CASE ~(index[c] < 0)
        <5>1. c \in channels
          BY <3>1, <4>3 DEF kNew
        <5> QED
          BY <1>1, <3>1, <3>3, <4>1, <4>3, <5>1, PollChangeKept
      <4> QED
        BY <4>2, <4>3
    <3> QED
      BY <2>1, <3>2, <3>3
  <2>3. ASSUME NEW c \in Fds, enable(c) \/ disable(c) \/ disableAll(c) PROVE PollersInv'
    <3>1. events[c] \in SUBSET Interests
      BY <1>1 DEF PollersInv, Booked
    <3>2. PICK ev \in SUBSET Interests : Update(c, ev)
      BY <2>3, <3>1 DEF enable, disable, disableAll
    <3> QED
      BY <2>2, <3>2
  <2>4. ASSUME NEW c \in Fds, remove(c) PROVE PollersInv'
    <3>1. c \in channels /\ events[c] = {} /\ ~Contains(active, c) /\ UNCHANGED <<events, handing>>
      BY <2>4 DEF remove
    <3>2. CASE kind = "epoll"
      BY <1>1, <2>4, <3>1, <3>2, EPollRemoveKept DEF remove
    <3>3. CASE kind = "poll"
      BY <1>1, <2>4, <3>1, <3>3, PollRemoveKept DEF remove
    <3> QED
      BY <2>1, <3>2, <3>3
  <2>5. CASE poll \/ handleEvent \/ handled
    BY <1>1, <2>5, PollActive, HandlingKept
  <2> QED
    BY <1>1, <2>3, <2>4, <2>5, RenewKept DEF PollersNext
<1>2. ASSUME PollersInv, UNCHANGED pollerVars PROVE PollersInv'
  <2>1. UNCHANGED <<kind, events, index, channels, kernel, pollfds, active, muted, fatal>>
    BY <1>2 DEF pollerVars
  <2> QED
    BY <1>2, <2>1 DEF PollersInv, Booked, Handed, EPollBooks, Known, PollBooks, FdFor
<1>3. PollersInv /\ [PollersNext]_pollerVars => PollersInv'
  BY <1>1, <1>2
<1> QED
  BY <1>3, PollersStart, PTL DEF PollersSpec

\* EPollPoller.cc:109-155 and PollPoller.cc:78-141: the kernel watches just what the
\* channels want, every channel has its own place in the poller's books, events
\* are handed only to channels that the poller has, and epoll_ctl never fails.
THEOREM KernelWatches == PollersSpec => []Polled
BY PollersInductive, PollersInvPolled, PTL

-----------------------------------------------------------------------------
(* Connector and TcpClient, for any callers, calls and delays. *)
CONSTANTS Callers, MaxClientCalls, kInitRetryDelayMs, kMaxRetryDelayMs, Retry
VARIABLES clientConnect, connection, dying, connect, connectorState, connectorChannel, polled,
          delay, timers, connectorPending, connectorBatch, connectorActive, connectorPhase,
          closing, open, todo, clientCalls, gaveUp, connectorFailed
Client == INSTANCE Connector WITH
    MaxCalls <- MaxClientCalls, state <- connectorState, channel <- connectorChannel,
    pending <- connectorPending, batch <- connectorBatch, active <- connectorActive,
    phase <- connectorPhase, calls <- clientCalls, failed <- connectorFailed

\* Connector.cc: the delays are a number of milliseconds, the first not above the last.
Delays == /\ kInitRetryDelayMs \in Nat /\ kMaxRetryDelayMs \in Nat
          /\ kInitRetryDelayMs <= kMaxRetryDelayMs

ClientFunctors == {"startInLoop", "stopInLoop", "resetChannel", "connectDestroyed"}
Rests == {<<>>, <<"want", "wantAttempts", "startInLoop">>, <<"wantAttempts", "startInLoop">>,
          <<"startInLoop">>, <<"unwant">>, <<"unwant", "unwantAttempts", "stopInLoop">>,
          <<"unwantAttempts", "stopInLoop">>, <<"stopInLoop">>}

Has(q, f) == \E k \in 1..Len(q) : q[k] = f
Once(q, f) == \A i, j \in 1..Len(q) : q[i] = f /\ q[j] = f => i = j
Waiting(f) == Has(connectorPending, f) \/ Has(connectorBatch, f)
WaitsOnce(f) ==
    /\ Once(connectorPending, f) /\ Once(connectorBatch, f)
    /\ ~(Has(connectorPending, f) /\ Has(connectorBatch, f))

(* The inductive invariant of a client.  The types; *)
ClientTyped ==
    /\ Client!TypeOK
    /\ connectorPending \in Seq(ClientFunctors) /\ connectorBatch \in Seq(ClientFunctors)
    /\ connectorActive \subseteq {"channel", "connection", "timer"}
    /\ connectorPhase \in {"poll", "events", "functors"}
    /\ todo \in [Callers -> Rests] /\ dying \subseteq Client!Sockets
    /\ polled \in BOOLEAN /\ closing \in BOOLEAN
(* what the loop has in hand, and in which phase; *)
InHand ==
    /\ connectorPhase # "functors" => connectorBatch = <<>>
    /\ connectorPhase # "events" => connectorActive = {} /\ ~closing
    /\ "timer" \in connectorActive => timers > 0
    /\ "connection" \in connectorActive => connection # 0
    /\ closing => connectorState = "kConnected" /\ connection = 0
(* a connection that is about to go is alone, and its functor runs before the loop polls
   again, so that no descriptor is short; *)
Departing ==
    /\ dying = {} \/ \E s \in Client!Sockets : dying = {s}
    /\ dying # {} <=> Waiting("connectDestroyed")
    /\ WaitsOnce("connectDestroyed")
    /\ connectorPhase = "poll" \/ "connection" \in connectorActive => dying = {}
    /\ connectorPhase = "functors" => ~Has(connectorPending, "connectDestroyed")
(* attempt, connection and departing connection have descriptors of their own; *)
Descriptors ==
    /\ open = {s \in Client!Sockets : \/ s = connectorChannel /\ polled
                                      \/ s = connection
                                      \/ s \in dying}
    /\ polled => connectorChannel # 0
    /\ ~connectorFailed =>
          /\ polled => connectorChannel \notin dying
          /\ connection \notin dying
          /\ polled <=> connectorState = "kConnecting"
          /\ connection # 0 => connectorState = "kConnected"
(* a channel object that is no longer polled is reset once. *)
Resetting ==
    ~connectorFailed =>
        /\ connectorChannel # 0 /\ ~polled <=> Waiting("resetChannel")
        /\ WaitsOnce("resetChannel")
(* A retry that is wanted is waited for, queued or about to be. *)
Retrying ==
    Client!Waits =>
        \/ timers > 0 \/ Waiting("startInLoop")
        \/ \E c \in Callers : Has(todo[c], "startInLoop")
ClientInv == ClientTyped /\ InHand /\ Departing /\ Descriptors /\ Resetting /\ Retrying

\* A functor that is queued is the last.
LEMMA HasQueued ==
  ASSUME NEW S, NEW q \in Seq(S), NEW g \in S
  PROVE  /\ Append(q, g) \in Seq(S)
         /\ \A f : Has(Append(q, g), f) <=> Has(q, f) \/ g = f
         /\ \A f : Once(q, f) /\ (g = f => ~Has(q, f)) => Once(Append(q, g), f)
<1> DEFINE p == Append(q, g)
<1>1. /\ p \in Seq(S) /\ Len(p) = Len(q) + 1 /\ Len(q) \in Nat
      /\ \A k \in 1..Len(q) : p[k] = q[k]
      /\ p[Len(q) + 1] = g
  BY AppendProperties
<1> HIDE DEF p
<1>2. \A k \in 1..Len(p) : k \in 1..Len(q) \/ k = Len(q) + 1
  BY <1>1
<1>3. ASSUME NEW f PROVE Has(p, f) <=> Has(q, f) \/ g = f
  <2>1. ASSUME Has(q, f) PROVE Has(p, f)
    <3>1. PICK k \in 1..Len(q) : q[k] = f
      BY <2>1 DEF Has
    <3>2. k \in 1..Len(p) /\ p[k] = f
      BY <1>1, <3>1
    <3> QED
      BY <3>2 DEF Has
  <2>2. ASSUME g = f PROVE Has(p, f)
    <3>1. Len(q) + 1 \in 1..Len(p) /\ p[Len(q) + 1] = f
      BY <1>1, <2>2
    <3> QED
      BY <3>1 DEF Has
  <2>3. ASSUME Has(p, f), g # f PROVE Has(q, f)
    BY <1>1, <1>2, <2>3 DEF Has
  <2> QED
    BY <2>1, <2>2, <2>3
<1>4. ASSUME NEW f, Once(q, f), g = f => ~Has(q, f) PROVE Once(p, f)
  <2> SUFFICES ASSUME NEW i \in 1..Len(p), NEW j \in 1..Len(p), p[i] = f, p[j] = f
               PROVE  i = j
    BY DEF Once
  <2>1. CASE i \in 1..Len(q) /\ j \in 1..Len(q)
    BY <1>1, <1>4, <2>1 DEF Once
  <2>2. CASE i = Len(q) + 1 \/ j = Len(q) + 1
    BY <1>1, <1>2, <1>4, <2>2 DEF Has
  <2> QED
    BY <1>2, <2>1, <2>2
<1> QED
  BY <1>1, <1>3, <1>4 DEF p

\* The functor that is called was the first.
LEMMA HasTaken ==
  ASSUME NEW S, NEW q \in Seq(S), q # <<>>
  PROVE  /\ Head(q) \in S /\ Tail(q) \in Seq(S)
         /\ \A f : Has(q, f) <=> Has(Tail(q), f) \/ Head(q) = f
         /\ \A f : Once(q, f) => Once(Tail(q), f) /\ (Head(q) = f => ~Has(Tail(q), f))
<1> DEFINE p == Tail(q)
<1>1. /\ p \in Seq(S) /\ Len(p) = Len(q) - 1 /\ Len(q) \in Nat \ {0}
      /\ \A k \in 1..Len(p) : p[k] = q[k + 1]
      /\ Head(q) = q[1] /\ Head(q) \in S
  BY HeadTailProperties, EmptySeq
<1>2. /\ 1 \in 1..Len(q)
      /\ \A k \in 1..Len(p) : k + 1 \in 1..Len(q) /\ k + 1 # 1
      /\ \A k \in 1..Len(q) : k = 1 \/ (k - 1 \in 1..Len(p) /\ k = (k - 1) + 1)
  BY <1>1
<1> HIDE DEF p
<1>3. ASSUME NEW f PROVE Has(q, f) <=> Has(p, f) \/ Head(q) = f
  <2>1. ASSUME Has(p, f) \/ Head(q) = f PROVE Has(q, f)
    BY <1>1, <1>2, <2>1 DEF Has
  <2>2. ASSUME Has(q, f) PROVE Has(p, f) \/ Head(q) = f
    <3>1. PICK k \in 1..Len(q) : q[k] = f
      BY <2>2 DEF Has
    <3>2. CASE k = 1
      BY <1>1, <3>1, <3>2
    <3>3. CASE k - 1 \in 1..Len(p) /\ k = (k - 1) + 1
      BY <1>1, <3>1, <3>3 DEF Has
    <3> QED
      BY <1>2, <3>2, <3>3
  <2> QED
    BY <2>1, <2>2
<1>4. ASSUME NEW f, Once(q, f) PROVE Once(p, f) /\ (Head(q) = f => ~Has(p, f))
  <2>1. ASSUME NEW i \in 1..Len(p), NEW j \in 1..Len(p), p[i] = f, p[j] = f PROVE i = j
    <3>1. i + 1 \in 1..Len(q) /\ q[i + 1] = f /\ j + 1 \in 1..Len(q) /\ q[j + 1] = f
      BY <1>1, <1>2, <2>1
    <3>2. i + 1 = j + 1
      BY <1>4, <3>1 DEF Once
    <3> QED
      BY <3>2
  <2>2. ASSUME Head(q) = f, NEW k \in 1..Len(p), p[k] = f PROVE FALSE
    <3>1. k + 1 = 1
      BY <1>1, <1>2, <1>4, <2>2 DEF Once
    <3> QED
      BY <1>2, <3>1
  <2> QED
    BY <2>1, <2>2 DEF Once, Has
<1> QED
  BY <1>1, <1>3, <1>4 DEF p

LEMMA HasNothing == \A f : ~Has(<<>>, f) /\ Once(<<>>, f)
BY DEF Has, Once

\* The functors of Connector are those that wait in one of the two queues.
LEMMA WaitingIs ==
  ASSUME connectorPending \in Seq(ClientFunctors), connectorBatch \in Seq(ClientFunctors)
  PROVE  \A f : Client!Queued(f) <=> Waiting(f)
<1> DEFINE p == connectorPending
           b == connectorBatch
           q == p \o b
<1>1. /\ Len(q) = Len(p) + Len(b) /\ Len(p) \in Nat /\ Len(b) \in Nat
      /\ \A k \in 1..Len(q) : q[k] = IF k <= Len(p) THEN p[k] ELSE b[k - Len(p)]
  BY ConcatProperties
<1> HIDE DEF q
<1>2. ASSUME NEW f, NEW k \in 1..Len(q), q[k] = f PROVE Waiting(f)
  <2>1. CASE k <= Len(p)
    <3>1. k \in 1..Len(p) /\ p[k] = f
      BY <1>1, <1>2, <2>1
    <3> QED
      BY <3>1 DEF Waiting, Has
  <2>2. CASE k > Len(p)
    <3>1. k - Len(p) \in 1..Len(b) /\ b[k - Len(p)] = f
      BY <1>1, <1>2, <2>2
    <3> QED
      BY <3>1 DEF Waiting, Has
  <2> QED
    BY <1>1, <2>1, <2>2
<1>3. ASSUME NEW f, Has(p, f) PROVE \E k \in 1..Len(q) : q[k] = f
  <2>1. PICK k \in 1..Len(p) : p[k] = f
    BY <1>3 DEF Has
  <2>2. k \in 1..Len(q) /\ q[k] = f
    BY <1>1, <2>1
  <2> QED
    BY <2>2
<1>4. ASSUME NEW f, Has(b, f) PROVE \E k \in 1..Len(q) : q[k] = f
  <2>1. PICK k \in 1..Len(b) : b[k] = f
    BY <1>4 DEF Has
  <2>2. k + Len(p) \in 1..Len(q) /\ q[k + Len(p)] = f
    <3>1. k + Len(p) \in 1..Len(q) /\ ~(k + Len(p) <= Len(p)) /\ k + Len(p) - Len(p) = k
      BY <1>1
    <3> QED
      BY <1>1, <2>1, <3>1
  <2> QED
    BY <2>2
<1> QED
  BY <1>2, <1>3, <1>4 DEF Client!Queued, Waiting, q

\* The rest of a call.
LEMMA RestIs ==
  ASSUME NEW r \in Rests, r # <<>>
  PROVE  /\ Tail(r) \in Rests
         /\ Head(r) = "wantAttempts" => Has(Tail(r), "startInLoop")
         /\ Has(r, "startInLoop") => Head(r) = "startInLoop" \/ Has(Tail(r), "startInLoop")
<1> DEFINE Words == {"want", "wantAttempts", "startInLoop", "unwant", "unwantAttempts", "stopInLoop"}
<1>1. r \in Seq(Words)
  <2>1. <<>> \in Seq(Words)
    OBVIOUS
  <2>2. <<"want", "wantAttempts", "startInLoop">> \in Seq(Words)
    OBVIOUS
  <2>3. <<"wantAttempts", "startInLoop">> \in Seq(Words)
    OBVIOUS
  <2>4. <<"startInLoop">> \in Seq(Words)
    OBVIOUS
  <2>5. <<"unwant">> \in Seq(Words)
    OBVIOUS
  <2>6. <<"unwant", "unwantAttempts", "stopInLoop">> \in Seq(Words)
    OBVIOUS
  <2>7. <<"unwantAttempts", "stopInLoop">> \in Seq(Words)
    OBVIOUS
  <2>8. <<"stopInLoop">> \in Seq(Words)
    OBVIOUS
  <2> HIDE DEF Words
  <2> QED
    BY <2>1, <2>2, <2>3, <2>4, <2>5, <2>6, <2>7, <2>8 DEF Rests
<1>2. Has(r, "startInLoop") => Head(r) = "startInLoop" \/ Has(Tail(r), "startInLoop")
  BY <1>1, HasTaken
<1>3. CASE r = <<"want", "wantAttempts", "startInLoop">>
  BY <1>2, <1>3 DEF Rests
<1>4. CASE r = <<"wantAttempts", "startInLoop">>
  <2>1. Tail(r) = <<"startInLoop">>
    BY <1>4
  <2>2. 1 \in 1..Len(<<"startInLoop">>) /\ <<"startInLoop">>[1] = "startInLoop"
    OBVIOUS
  <2>3. Has(<<"startInLoop">>, "startInLoop")
    BY <2>2, Zenon DEF Has
  <2> QED
    BY <1>2, <2>1, <2>3 DEF Rests
<1>5. CASE r = <<"startInLoop">>
  <2>1. Tail(r) = <<>> /\ Head(r) = "startInLoop"
    BY <1>5
  <2> QED
    BY <2>1 DEF Rests
<1>6. CASE r = <<"unwant">> \/ r = <<"stopInLoop">>
  <2>1. CASE r = <<"unwant">>
    BY <1>2, <2>1 DEF Rests
  <2>2. CASE r = <<"stopInLoop">>
    BY <1>2, <2>2 DEF Rests
  <2> QED
    BY <1>6, <2>1, <2>2
<1>7. CASE r = <<"unwant", "unwantAttempts", "stopInLoop">>
  BY <1>2, <1>7 DEF Rests
<1>8. CASE r = <<"unwantAttempts", "stopInLoop">>
  BY <1>2, <1>8 DEF Rests
<1> QED
  BY <1>3, <1>4, <1>5, <1>6, <1>7, <1>8 DEF Rests

LEMMA CallIs == \A call \in Client!Calls : Client!StepsOf(call) \in Rests
BY DEF Client!Calls, Client!StepsOf, Rests

-----------------------------------------------------------------------------
(* What the attempts, their ends and the functors do. *)

\* With no attempt and no connection a descriptor is free.
LEMMA SocketFree ==
  ASSUME dying = {} \/ \E s \in Client!Sockets : dying = {s}, Descriptors,
         ~polled, connection = 0
  PROVE  Client!NewSocket \in Client!Sockets /\ Client!NewSocket \notin open
<1>1. \E s \in Client!Sockets : s \notin open
  BY DEF Descriptors, Client!Sockets
<1> QED
  BY <1>1 DEF Client!NewSocket

\* startInLoop() makes an attempt with a descriptor of its own, or counts a timer.
LEMMA Attempts ==
  ASSUME ClientTyped, Departing, Descriptors, Delays, ~connectorFailed,
         NEW st, NEW wanted, NEW d \in kInitRetryDelayMs..kMaxRetryDelayMs, NEW t \in Nat,
         Client!startInLoop(st, wanted, d, t),
         \/ st = connectorState
         \/ st = "kDisconnected" /\ connectorState = "kConnected" /\ connection = 0,
         UNCHANGED <<connection, dying>>
  PROVE  /\ Client!TypeOK' /\ Descriptors' /\ polled' \in BOOLEAN /\ timers' >= t
         /\ ~connectorFailed' => (connectorChannel' # 0 /\ ~polled'
                                     <=> connectorChannel # 0 /\ ~polled)
         /\ wanted /\ Client!Waits' => timers' > 0
<1>t. /\ connectorState \in {"kDisconnected", "kConnecting", "kConnected"}
      /\ connectorChannel \in 0..3 /\ connection \in 0..3 /\ polled \in BOOLEAN
      /\ kInitRetryDelayMs \in Nat /\ kMaxRetryDelayMs \in Nat
      /\ kInitRetryDelayMs <= kMaxRetryDelayMs /\ dying \subseteq Client!Sockets
  BY DEF ClientTyped, Client!TypeOK, Delays
<1>o. open \subseteq Client!Sockets
  BY DEF Descriptors
<1>1. CASE st = "kDisconnected" /\ wanted
  <2>0. ~polled /\ connection = 0
    BY <1>1 DEF Descriptors
  <2>1. Client!InProgress(d, t) \/ Client!FailsNow(d, t) \/ Client!FailsForGood(d, t)
    BY <1>1 DEF Client!startInLoop
  <2>2. CASE Client!InProgress(d, t)
    <3>1. PICK s : s = Client!NewSocket
      OBVIOUS
    <3>2. s \in Client!Sockets /\ s \notin open
      BY <2>0, <3>1, SocketFree DEF Departing
    <3>3. /\ connectorChannel' = s /\ polled' = TRUE /\ open' = open \cup {s}
          /\ connectorState' = "kConnecting" /\ delay' = d /\ timers' = t
      BY <2>2, <3>1 DEF Client!InProgress
    <3>f. ~connectorFailed' => connectorChannel = 0
      BY <2>2 DEF Client!InProgress
    <3>4. s \in 1..3
      BY <3>2 DEF Client!Sockets
    <3>5. s \notin dying
      BY <3>2 DEF Descriptors
    <3>6. Client!TypeOK'
      BY <1>t, <1>o, <3>2, <3>3, <3>4 DEF Client!TypeOK
    <3>7. open' = {r \in Client!Sockets : \/ r = connectorChannel' /\ polled'
                                          \/ r = connection' \/ r \in dying'}
      BY <2>0, <3>2, <3>3 DEF Descriptors
    <3>8. Descriptors'
      BY <1>t, <2>0, <3>3, <3>4, <3>5, <3>7 DEF Descriptors, Client!Sockets
    <3>9. ~Client!Waits'
      BY <3>3 DEF Client!Waits
    <3> QED
      BY <2>0, <3>3, <3>4, <3>f, <3>6, <3>8, <3>9
  <2>3. CASE Client!FailsNow(d, t)
    <3>1. /\ connectorState' = "kDisconnected" /\ delay' = Client!Doubled(d) /\ timers' = t + 1
          /\ UNCHANGED <<connectorChannel, polled, open, connectorFailed>>
      BY <2>3 DEF Client!FailsNow
    <3>2. Client!Doubled(d) \in kInitRetryDelayMs..kMaxRetryDelayMs
      BY <1>t DEF Client!Doubled
    <3>3. Client!TypeOK'
      BY <1>t, <1>o, <3>1, <3>2 DEF Client!TypeOK
    <3>4. Descriptors'
      BY <2>0, <3>1 DEF Descriptors
    <3> QED
      BY <1>t, <3>1, <3>3, <3>4
  <2>4. CASE Client!FailsForGood(d, t)
    <3>1. /\ connectorState' = "kDisconnected" /\ delay' = d /\ timers' = t /\ gaveUp' = TRUE
          /\ UNCHANGED <<connectorChannel, polled, open, connectorFailed>>
      BY <2>4 DEF Client!FailsForGood
    <3>3. Client!TypeOK'
      BY <1>t, <1>o, <3>1 DEF Client!TypeOK
    <3>4. Descriptors'
      BY <2>0, <3>1 DEF Descriptors
    <3>5. ~Client!Waits'
      BY <3>1 DEF Client!Waits
    <3> QED
      BY <1>t, <3>1, <3>3, <3>4, <3>5
  <2> QED
    BY <2>1, <2>2, <2>3, <2>4
<1>2. CASE ~(st = "kDisconnected" /\ wanted)
  <2>1. /\ connectorState' = st /\ delay' = d /\ timers' = t
        /\ UNCHANGED <<connectorChannel, polled, open, gaveUp>>
    BY <1>2 DEF Client!startInLoop
  <2>f. ~connectorFailed' => st = "kDisconnected"
    BY <1>2 DEF Client!startInLoop
  <2>2. Client!TypeOK'
    BY <1>t, <1>o, <2>1 DEF Client!TypeOK
  <2>3. open' = {r \in Client!Sockets : \/ r = connectorChannel' /\ polled'
                                        \/ r = connection' \/ r \in dying'}
    BY <2>1 DEF Descriptors
  <2>4. polled' => connectorChannel' # 0
    BY <2>1 DEF Descriptors
  <2>5. ~connectorFailed' => ~polled /\ connection = 0
    BY <2>f DEF Descriptors
  <2>6. Descriptors'
    BY <1>t, <2>1, <2>3, <2>4, <2>f, <2>5 DEF Descriptors, Client!Sockets
  <2>7. wanted => ~Client!Waits'
    BY <1>2, <2>f DEF Client!Waits
  <2> QED
    BY <1>t, <2>1, <2>2, <2>6, <2>7
<1> QED
  BY <1>1, <1>2

\* An attempt that ends gives its descriptor back, and its channel waits to be reset.
LEMMA AttemptEnds ==
  ASSUME ClientTyped, Departing, Descriptors, Delays, ~connectorFailed,
         connectorState = "kConnecting",
         Client!retry(connectorChannel), polled' = FALSE,
         UNCHANGED <<connectorChannel, connection, dying, connect, gaveUp, connectorFailed>>
  PROVE  /\ Client!TypeOK' /\ Descriptors' /\ timers' >= timers
         /\ Client!Waits' => timers' > 0
<1>t. /\ connectorState \in {"kDisconnected", "kConnecting", "kConnected"}
      /\ connectorChannel \in 0..3 /\ connection \in 0..3 /\ polled \in BOOLEAN
      /\ kInitRetryDelayMs \in Nat /\ kMaxRetryDelayMs \in Nat
      /\ kInitRetryDelayMs <= kMaxRetryDelayMs /\ dying \subseteq Client!Sockets
      /\ delay \in kInitRetryDelayMs..kMaxRetryDelayMs /\ timers \in Nat
  BY DEF ClientTyped, Client!TypeOK, Delays
<1>0. polled /\ connectorChannel # 0 /\ connection = 0 /\ connectorChannel \notin dying
  BY DEF Descriptors
<1>1. /\ open' = open \ {connectorChannel} /\ connectorState' = "kDisconnected"
      /\ timers' = IF connect THEN timers + 1 ELSE timers
      /\ delay' = IF connect THEN Client!Doubled(delay) ELSE delay
  BY DEF Client!retry, Client!Retries
<1>2. delay' \in kInitRetryDelayMs..kMaxRetryDelayMs /\ timers' \in Nat /\ timers' >= timers
  BY <1>t, <1>1 DEF Client!Doubled
<1>3. open' = {r \in Client!Sockets : \/ r = connectorChannel' /\ polled'
                                      \/ r = connection' \/ r \in dying'}
  BY <1>0, <1>1 DEF Descriptors, Client!Sockets
<1>4. Client!TypeOK'
  BY <1>t, <1>1, <1>2, <1>3 DEF Client!TypeOK
<1>5. Descriptors'
  BY <1>0, <1>1, <1>3, <1>t DEF Descriptors, Client!Sockets
<1>6. Client!Waits' => timers' > 0
  BY <1>t, <1>1 DEF Client!Waits
<1> QED
  BY <1>2, <1>4, <1>5, <1>6

\* A functor given to the loop.
LEMMA QueueMore ==
  ASSUME connectorPending \in Seq(ClientFunctors), NEW g \in ClientFunctors,
         connectorPending' = Append(connectorPending, g), connectorBatch' = connectorBatch
  PROVE  /\ connectorPending' \in Seq(ClientFunctors)
         /\ \A f : Has(connectorPending, f)' <=> Has(connectorPending, f) \/ g = f
         /\ \A f : Waiting(f)' <=> Waiting(f) \/ g = f
         /\ \A f : WaitsOnce(f) /\ (g = f => ~Waiting(f)) => WaitsOnce(f)'
<1>1. /\ connectorPending' \in Seq(ClientFunctors)
      /\ \A f : Has(connectorPending, f)' <=> Has(connectorPending, f) \/ g = f
      /\ \A f : Once(connectorPending, f) /\ (g = f => ~Has(connectorPending, f))
                   => Once(connectorPending, f)'
  BY HasQueued
<1>2. \A f : Has(connectorBatch, f)' <=> Has(connectorBatch, f)
  OBVIOUS
<1>3. \A f : Once(connectorBatch, f)' <=> Once(connectorBatch, f)
  OBVIOUS
<1>4. \A f : Waiting(f)' <=> Waiting(f) \/ g = f
  BY <1>1, <1>2 DEF Waiting
<1>5. \A f : WaitsOnce(f) /\ (g = f => ~Waiting(f)) => WaitsOnce(f)'
  BY <1>1, <1>2, <1>3 DEF Waiting, WaitsOnce
<1> QED
  BY <1>1, <1>4, <1>5

\* The queues stand still.
LEMMA QueueStands ==
  ASSUME UNCHANGED <<connectorPending, connectorBatch>>
  PROVE  /\ \A f : Has(connectorPending, f)' <=> Has(connectorPending, f)
         /\ \A f : Waiting(f)' <=> Waiting(f)
         /\ \A f : WaitsOnce(f)' <=> WaitsOnce(f)
BY DEF Waiting, WaitsOnce

\* A functor that runs leaves the batch for good.
LEMMA QueueLess ==
  ASSUME connectorBatch \in Seq(ClientFunctors), connectorBatch # <<>>,
         connectorBatch' = Tail(connectorBatch), connectorPending' = connectorPending
  PROVE  /\ connectorBatch' \in Seq(ClientFunctors)
         /\ \A f : Has(connectorPending, f)' <=> Has(connectorPending, f)
         /\ \A f : Waiting(f) <=> Waiting(f)' \/ Head(connectorBatch) = f
         /\ \A f : WaitsOnce(f) => WaitsOnce(f)' /\ (Head(connectorBatch) = f => ~Waiting(f)')
<1>1. /\ connectorBatch' \in Seq(ClientFunctors)
      /\ \A f : Has(connectorBatch, f) <=> Has(connectorBatch, f)' \/ Head(connectorBatch) = f
      /\ \A f : Once(connectorBatch, f)
                   => /\ Once(connectorBatch, f)'
                      /\ Head(connectorBatch) = f => ~Has(connectorBatch, f)'
  BY HasTaken
<1>2. \A f : Has(connectorPending, f)' <=> Has(connectorPending, f)
  OBVIOUS
<1>3. \A f : Once(connectorPending, f)' <=> Once(connectorPending, f)
  OBVIOUS
<1>4. \A f : Waiting(f) <=> Waiting(f)' \/ Head(connectorBatch) = f
  BY <1>1, <1>2 DEF Waiting
<1>5. \A f : WaitsOnce(f) => WaitsOnce(f)' /\ (Head(connectorBatch) = f => ~Waiting(f)')
  BY <1>1, <1>2, <1>3 DEF Waiting, WaitsOnce
<1> QED
  BY <1>1, <1>2, <1>4, <1>5

\* The loop turns: it polls, swaps its functors out, and is done with them.
LEMMA TurnKept ==
  ASSUME ClientInv, Client!Poll \/ Client!SwapFunctors \/ Client!FunctorsDone
  PROVE  ClientInv'
<1>0. ClientTyped /\ InHand /\ Departing /\ Descriptors /\ Resetting /\ Retrying
  BY DEF ClientInv
<1>u. /\ UNCHANGED <<connect, connectorState, connectorChannel, polled, delay, timers, open,
                    gaveUp, connectorFailed, clientConnect, connection, dying, closing,
                    todo, clientCalls>>
  BY DEF Client!Poll, Client!SwapFunctors, Client!FunctorsDone, Client!connectorVars,
     Client!clientVars, Client!callVars
<1>1. Descriptors'
  BY <1>0, <1>u DEF Descriptors
<1>2. Client!TypeOK'
  BY <1>0, <1>u DEF ClientTyped, Client!TypeOK
<1>3. (\A f : Waiting(f)' <=> Waiting(f)) /\ (\A f : WaitsOnce(f) => WaitsOnce(f)')
      => Resetting' /\ Retrying'
  BY <1>0, <1>u DEF Resetting, Retrying, Client!Waits
<1>4. CASE Client!Poll
  <2>1. /\ connectorPhase = "poll" /\ connectorPhase' = "events"
        /\ connectorActive' \subseteq Client!Ready
        /\ UNCHANGED <<connectorPending, connectorBatch>>
    BY <1>4 DEF Client!Poll
  <2>2. /\ connectorActive' \subseteq {"channel", "connection", "timer"}
        /\ "timer" \in connectorActive' => timers > 0
        /\ "connection" \in connectorActive' => connection # 0
    BY <2>1 DEF Client!Ready
  <2>3. ClientTyped'
    BY <1>0, <1>u, <1>2, <2>1, <2>2 DEF ClientTyped
  <2>4. InHand'
    BY <1>0, <1>u, <2>1, <2>2 DEF InHand
  <2>5. Departing'
    BY <1>0, <1>u, <2>1, QueueStands DEF Departing
  <2> QED
    BY <1>1, <1>3, <2>1, <2>3, <2>4, <2>5, QueueStands DEF ClientInv
<1>5. CASE Client!SwapFunctors
  <2>1. /\ connectorPhase = "events" /\ connectorPhase' = "functors"
        /\ connectorActive = {} /\ connectorActive' = {} /\ ~closing
        /\ connectorBatch' = connectorPending /\ connectorPending' = <<>>
        /\ connectorBatch = <<>>
    BY <1>0, <1>5 DEF Client!SwapFunctors, InHand
  <2>2. \A f : Waiting(f)' <=> Waiting(f)
    BY <2>1, HasNothing DEF Waiting
  <2>3. \A f : WaitsOnce(f) => WaitsOnce(f)'
    BY <2>1, HasNothing DEF WaitsOnce
  <2>4. ~Has(connectorPending, "connectDestroyed")'
    BY <2>1, HasNothing
  <2>5. ClientTyped'
    BY <1>0, <1>u, <1>2, <2>1 DEF ClientTyped
  <2>6. InHand'
    BY <1>0, <1>u, <2>1 DEF InHand
  <2>7. Departing'
    BY <1>0, <1>u, <2>1, <2>2, <2>3, <2>4 DEF Departing
  <2> QED
    BY <1>1, <1>3, <2>2, <2>3, <2>5, <2>6, <2>7 DEF ClientInv
<1>6. CASE Client!FunctorsDone
  <2>1. /\ connectorPhase = "functors" /\ connectorPhase' = "poll"
        /\ connectorBatch = <<>>
        /\ UNCHANGED <<connectorPending, connectorBatch, connectorActive>>
    BY <1>6 DEF Client!FunctorsDone
  <2>2. dying = {}
    BY <1>0, <2>1, HasNothing DEF Departing, Waiting
  <2>3. ClientTyped'
    BY <1>0, <1>u, <1>2, <2>1 DEF ClientTyped
  <2>4. InHand'
    BY <1>0, <1>u, <2>1 DEF InHand
  <2>5. Departing'
    BY <1>0, <1>u, <2>1, <2>2, QueueStands DEF Departing
  <2> QED
    BY <1>1, <1>3, <2>1, <2>3, <2>4, <2>5, QueueStands DEF ClientInv
<1> QED
  BY <1>4, <1>5, <1>6

\* The calls of other threads: connect() queues startInLoop after it has set connect_.
LEMMA CallsStep ==
  ASSUME ClientInv, NEW c \in Callers, Client!Call(c) \/ Client!Step(c)
  PROVE  ClientInv'
<1>0. ClientTyped /\ InHand /\ Departing /\ Descriptors /\ Resetting /\ Retrying
  BY DEF ClientInv
<1>u. UNCHANGED <<connectorState, connectorChannel, polled, delay, timers, open, gaveUp,
                  connectorFailed, connection, dying, closing, connectorBatch, connectorActive,
                  connectorPhase>>
  BY DEF Client!Call, Client!Step, Client!connectorVars, Client!queueVars, Client!clientVars
<1>1. Descriptors' /\ Client!TypeOK' /\ InHand'
  BY <1>0, <1>u DEF Descriptors, ClientTyped, Client!TypeOK, InHand
<1>t. /\ connectorPending \in Seq(ClientFunctors) /\ connectorBatch \in Seq(ClientFunctors)
      /\ todo \in [Callers -> Rests]
  BY <1>0 DEF ClientTyped
<1>2. CASE Client!Call(c)
  <2>1. /\ todo[c] = <<>> /\ UNCHANGED <<connectorPending, connect>>
        /\ \E call \in Client!Calls : todo' = [todo EXCEPT ![c] = Client!StepsOf(call)]
    BY <1>2 DEF Client!Call, Client!connectorVars, Client!queueVars
  <2>2. todo' \in [Callers -> Rests] /\ \A d \in Callers \ {c} : todo'[d] = todo[d]
    BY <1>t, <2>1, CallIs
  <2>3. ClientTyped'
    BY <1>0, <1>u, <1>1, <2>1, <2>2 DEF ClientTyped
  <2>4. Departing' /\ Resetting'
    BY <1>0, <1>u, <2>1, QueueStands DEF Departing, Resetting
  <2>5. ~Has(todo[c], "startInLoop")
    BY <2>1, HasNothing
  <2>6. Retrying'
    BY <1>0, <1>u, <2>1, <2>2, <2>5, QueueStands DEF Retrying, Client!Waits
  <2> QED
    BY <1>1, <2>3, <2>4, <2>6 DEF ClientInv
<1>3. CASE Client!Step(c)
  <2>0. PICK r, s : r = todo[c] /\ s = Head(todo[c])
    OBVIOUS
  <2>1. /\ r \in Rests /\ r # <<>> /\ s = Head(r) /\ todo' = [todo EXCEPT ![c] = Tail(r)]
        /\ connect' = IF s \in {"wantAttempts", "unwantAttempts"} THEN s = "wantAttempts"
                      ELSE connect
        /\ connectorPending' = IF s \in {"startInLoop", "stopInLoop"}
                               THEN Append(connectorPending, s) ELSE connectorPending
    BY <1>t, <1>3, <2>0 DEF Client!Step
  <2>2. /\ Tail(r) \in Rests
        /\ s = "wantAttempts" => Has(Tail(r), "startInLoop")
        /\ Has(r, "startInLoop") => s = "startInLoop" \/ Has(Tail(r), "startInLoop")
    BY <2>1, RestIs
  <2>3. /\ todo' \in [Callers -> Rests] /\ todo'[c] = Tail(r)
        /\ \A d \in Callers \ {c} : todo'[d] = todo[d]
    BY <1>t, <2>1, <2>2
  <2>4. /\ connectorPending' \in Seq(ClientFunctors)
        /\ \A f : Waiting(f) => Waiting(f)'
        /\ s = "startInLoop" => Waiting("startInLoop")'
        /\ \A f \in {"resetChannel", "connectDestroyed"} :
             /\ Has(connectorPending, f)' <=> Has(connectorPending, f)
             /\ Waiting(f)' <=> Waiting(f)
             /\ WaitsOnce(f) => WaitsOnce(f)'
    <3>1. CASE s \in {"startInLoop", "stopInLoop"}
      <4>1. s \in ClientFunctors /\ connectorPending' = Append(connectorPending, s)
        BY <2>1, <3>1 DEF ClientFunctors
      <4>2. connectorBatch' = connectorBatch
        BY <1>u
      <4> QED
        BY <1>t, <3>1, <4>1, <4>2, QueueMore
    <3>2. CASE s \notin {"startInLoop", "stopInLoop"}
      BY <1>t, <1>u, <2>1, <3>2, QueueStands
    <3> QED
      BY <3>1, <3>2
  <2>5. ClientTyped'
    BY <1>0, <1>u, <1>1, <2>3, <2>4 DEF ClientTyped
  <2>6. Departing'
    BY <1>0, <1>u, <2>4 DEF Departing
  <2>7. Resetting'
    BY <1>0, <1>u, <2>4 DEF Resetting
  <2>8. Retrying'
    <3>1. SUFFICES ASSUME Client!Waits', ~(timers' > 0), ~Waiting("startInLoop")'
                   PROVE  \E d \in Callers : Has(todo'[d], "startInLoop")
      BY DEF Retrying
    <3>2. s # "startInLoop" /\ ~Waiting("startInLoop") /\ ~(timers > 0)
      BY <1>u, <2>4, <3>1
    <3>3. CASE s = "wantAttempts"
      BY <2>2, <2>3, <3>3
    <3>4. CASE s # "wantAttempts"
      <4>1. connect
        BY <2>1, <3>1, <3>4 DEF Client!Waits
      <4>2. Client!Waits
        BY <1>u, <3>1, <4>1 DEF Client!Waits
      <4>3. PICK d \in Callers : Has(todo[d], "startInLoop")
        BY <1>0, <3>2, <4>2 DEF Retrying
      <4>4. Has(todo'[d], "startInLoop")
        BY <2>0, <2>2, <2>3, <3>2, <4>3
      <4> QED
        BY <4>4
    <3> QED
      BY <3>3, <3>4
  <2> QED
    BY <1>1, <2>5, <2>6, <2>7, <2>8 DEF ClientInv
<1> QED
  BY <1>2, <1>3

-----------------------------------------------------------------------------
(* The handlers and the functors. *)

\* A retry whose time has come.
LEMMA TimerKept ==
  ASSUME Delays, ClientInv, ~connectorFailed, Client!TimerFires
  PROVE  ClientInv'
<1>0. ClientTyped /\ InHand /\ Departing /\ Descriptors /\ Resetting /\ Retrying
  BY DEF ClientInv
<1>1. /\ connectorPhase = "events" /\ "timer" \in connectorActive /\ ~closing
      /\ connectorActive' = connectorActive \ {"timer"}
      /\ UNCHANGED <<connectorBatch, connectorPhase, todo, connectorPending, connection, dying,
                     closing, connect>>
      /\ Client!startInLoop(connectorState, connect, delay, timers - 1)
  BY DEF Client!TimerFires, Client!Handles, Client!callVars
<1>2. timers - 1 \in Nat /\ delay \in kInitRetryDelayMs..kMaxRetryDelayMs
  BY <1>0, <1>1 DEF InHand, ClientTyped, Client!TypeOK
<1>3. /\ Client!TypeOK' /\ Descriptors' /\ polled' \in BOOLEAN
      /\ ~connectorFailed' => (connectorChannel' # 0 /\ ~polled'
                                  <=> connectorChannel # 0 /\ ~polled)
      /\ connect /\ Client!Waits' => timers' > 0
  BY <1>0, <1>1, <1>2, Attempts
<1>4. ClientTyped'
  BY <1>0, <1>1, <1>3 DEF ClientTyped
<1>5. InHand'
  BY <1>0, <1>1 DEF InHand
<1>6. Departing'
  BY <1>0, <1>1, QueueStands DEF Departing
<1>7. Resetting'
  BY <1>0, <1>1, <1>3, QueueStands DEF Resetting
<1>8. Retrying'
  BY <1>1, <1>3 DEF Retrying, Client!Waits
<1> QED
  BY <1>3, <1>4, <1>5, <1>6, <1>7, <1>8 DEF ClientInv

\* removeConnection() has found the connection wanted, and connects again.
LEMMA RestartKept ==
  ASSUME Delays, ClientInv, ~connectorFailed, Client!restart
  PROVE  ClientInv'
<1>0. ClientTyped /\ InHand /\ Departing /\ Descriptors /\ Resetting /\ Retrying
  BY DEF ClientInv
<1>1. /\ closing /\ closing' = FALSE /\ connect' = TRUE
      /\ UNCHANGED <<connectorBatch, connectorPhase, todo, connectorPending, connectorActive,
                     connection, dying>>
      /\ Client!startInLoop("kDisconnected", TRUE, kInitRetryDelayMs, timers)
  BY DEF Client!restart, Client!queueVars, Client!callVars
<1>2. /\ timers \in Nat /\ kInitRetryDelayMs \in kInitRetryDelayMs..kMaxRetryDelayMs
      /\ connectorState = "kConnected" /\ connection = 0
  BY <1>0, <1>1 DEF InHand, ClientTyped, Client!TypeOK, Delays
<1>3. /\ Client!TypeOK' /\ Descriptors' /\ polled' \in BOOLEAN /\ timers' >= timers
      /\ ~connectorFailed' => (connectorChannel' # 0 /\ ~polled'
                                  <=> connectorChannel # 0 /\ ~polled)
      /\ Client!Waits' => timers' > 0
  BY <1>0, <1>1, <1>2, Attempts
<1>4. ClientTyped'
  BY <1>0, <1>1, <1>3 DEF ClientTyped
<1>5. InHand'
  <2>1. timers > 0 => timers' > 0
    BY <1>2, <1>3 DEF Client!TypeOK
  <2> QED
    BY <1>0, <1>1, <2>1 DEF InHand
<1>6. Departing'
  BY <1>0, <1>1, QueueStands DEF Departing
<1>7. Resetting'
  BY <1>0, <1>1, <1>3, QueueStands DEF Resetting
<1>8. Retrying'
  BY <1>3 DEF Retrying
<1> QED
  BY <1>3, <1>4, <1>5, <1>6, <1>7, <1>8 DEF ClientInv

\* The channel of an attempt that is over is not polled, and its reset is queued.
LEMMA ResetQueued ==
  ASSUME Resetting, connectorPending \in Seq(ClientFunctors), ~connectorFailed, polled,
         connectorChannel # 0, Client!removeAndResetChannel, connectorBatch' = connectorBatch
  PROVE  /\ Resetting' /\ connectorPending' \in Seq(ClientFunctors)
         /\ \A f \in {"startInLoop", "connectDestroyed"} :
              /\ Has(connectorPending, f)' <=> Has(connectorPending, f)
              /\ Waiting(f)' <=> Waiting(f)
              /\ WaitsOnce(f) => WaitsOnce(f)'
<1>1. /\ polled' = FALSE /\ connectorChannel' = connectorChannel
      /\ connectorPending' = Append(connectorPending, "resetChannel")
  BY DEF Client!removeAndResetChannel
<1>2. "resetChannel" \in ClientFunctors
  BY DEF ClientFunctors
<1>3. ~Waiting("resetChannel")
  BY DEF Resetting
<1>4. Waiting("resetChannel")' /\ WaitsOnce("resetChannel")'
  BY <1>1, <1>2, <1>3, QueueMore DEF Resetting
<1> QED
  BY <1>1, <1>2, <1>4, QueueMore DEF Resetting

\* The channel of the attempt has an event: an error, or it has become writable.
LEMMA ChannelKept ==
  ASSUME Delays, ClientInv, ~connectorFailed, Client!AttemptFails \/ Client!handleWrite
  PROVE  ClientInv'
<1>0. ClientTyped /\ InHand /\ Departing /\ Descriptors /\ Resetting /\ Retrying
  BY DEF ClientInv
<1>1. /\ connectorPhase = "events" /\ ~closing /\ connectorState = "kConnecting"
      /\ connectorActive' = connectorActive \ {"channel"}
      /\ Client!removeAndResetChannel
      /\ UNCHANGED <<connectorBatch, connectorPhase, todo, dying, closing, connect, gaveUp,
                     connectorFailed>>
  BY DEF Client!AttemptFails, Client!handleWrite, Client!Handles, Client!callVars
<1>2. /\ polled /\ connectorChannel # 0 /\ connection = 0 /\ connectorChannel \notin dying
      /\ connectorPending \in Seq(ClientFunctors) /\ connectorChannel \in 0..3
      /\ "connection" \notin connectorActive /\ dying \subseteq Client!Sockets
  BY <1>0, <1>1 DEF Descriptors, ClientTyped, Client!TypeOK, InHand
<1>3. /\ Resetting' /\ connectorPending' \in Seq(ClientFunctors)
      /\ \A f \in {"startInLoop", "connectDestroyed"} :
              /\ Has(connectorPending, f)' <=> Has(connectorPending, f)
              /\ Waiting(f)' <=> Waiting(f)
              /\ WaitsOnce(f) => WaitsOnce(f)'
  BY <1>0, <1>1, <1>2, ResetQueued
<1>p. polled' = FALSE /\ connectorChannel' = connectorChannel
  BY <1>1 DEF Client!removeAndResetChannel
<1>4. Departing'
  BY <1>0, <1>1, <1>2, <1>3 DEF Departing
<1>5. CASE Client!AttemptFails
  <2>1. Client!retry(connectorChannel) /\ connection' = connection
    BY <1>5 DEF Client!AttemptFails
  <2>2. /\ Client!TypeOK' /\ Descriptors' /\ timers' >= timers
        /\ Client!Waits' => timers' > 0
    BY <1>0, <1>1, <1>p, <2>1, AttemptEnds
  <2>3. ClientTyped'
    BY <1>0, <1>1, <1>3, <1>p, <2>2 DEF ClientTyped
  <2>4. InHand'
    <3>1. timers > 0 => timers' > 0
      BY <1>0, <2>2 DEF ClientTyped, Client!TypeOK
    <3> QED
      BY <1>0, <1>1, <2>1, <3>1 DEF InHand
  <2>5. Retrying'
    BY <2>2 DEF Retrying
  <2> QED
    BY <1>3, <1>4, <2>2, <2>3, <2>4, <2>5 DEF ClientInv
<1>6. CASE Client!handleWrite
  <2>1. /\ connectorState' = "kConnected" /\ UNCHANGED <<delay, timers>>
        /\ \/ connection' = connectorChannel /\ open' = open
           \/ connection' = connection /\ open' = open \ {connectorChannel}
    BY <1>6 DEF Client!handleWrite
  <2>2. Client!TypeOK'
    BY <1>0, <1>2, <1>p, <2>1 DEF ClientTyped, Client!TypeOK
  <2>3. ClientTyped'
    BY <1>0, <1>1, <1>3, <1>p, <2>2 DEF ClientTyped
  <2>4. open' = {r \in Client!Sockets : \/ r = connectorChannel' /\ polled'
                                        \/ r = connection' \/ r \in dying'}
    BY <1>0, <1>1, <1>2, <1>p, <2>1 DEF Descriptors, Client!Sockets
  <2>5. connection' \notin dying'
    BY <1>0, <1>1, <1>2, <2>1 DEF Client!Sockets
  <2>6. Descriptors'
    BY <1>p, <2>1, <2>4, <2>5 DEF Descriptors
  <2>7. InHand'
    BY <1>0, <1>1, <1>2, <2>1 DEF InHand
  <2>8. Retrying'
    BY <2>1 DEF Retrying, Client!Waits
  <2> QED
    BY <1>3, <1>4, <2>3, <2>6, <2>7, <2>8 DEF ClientInv
<1> QED
  BY <1>5, <1>6

\* The connection has ended: it is destroyed by a functor.
LEMMA RemovalKept ==
  ASSUME ClientInv, ~connectorFailed, Client!removeConnection
  PROVE  ClientInv'
<1>0. ClientTyped /\ InHand /\ Departing /\ Descriptors /\ Resetting /\ Retrying
  BY DEF ClientInv
<1>1. /\ connectorPhase = "events" /\ "connection" \in connectorActive /\ ~closing
      /\ connectorActive' = connectorActive \ {"connection"}
      /\ connection' = 0 /\ dying' = dying \cup {connection}
      /\ connectorPending' = Append(connectorPending, "connectDestroyed")
      /\ closing' = (Retry /\ clientConnect)
      /\ UNCHANGED <<connectorBatch, connectorPhase, todo, connectorState, connectorChannel,
                     polled, delay, timers, open, gaveUp, connect, connectorFailed>>
  BY DEF Client!removeConnection, Client!Handles, Client!callVars, Client!connectorVars,
     Client!Reconnects
<1>2. /\ connection # 0 /\ connection \in 0..3 /\ dying = {} /\ connectorState = "kConnected"
      /\ connectorPending \in Seq(ClientFunctors) /\ ~polled
      /\ "connectDestroyed" \in ClientFunctors
  BY <1>0, <1>1 DEF InHand, Departing, Descriptors, ClientTyped, Client!TypeOK, ClientFunctors
<1>3. dying' = {connection} /\ connection \in Client!Sockets
  BY <1>1, <1>2 DEF Client!Sockets
<1>4. /\ connectorPending' \in Seq(ClientFunctors)
      /\ Waiting("connectDestroyed")' /\ WaitsOnce("connectDestroyed")'
      /\ \A f \in {"startInLoop", "resetChannel"} :
              /\ Waiting(f)' <=> Waiting(f)
              /\ WaitsOnce(f) => WaitsOnce(f)'
  BY <1>0, <1>1, <1>2, QueueMore DEF Departing
<1>5. Client!TypeOK'
  BY <1>0, <1>1 DEF ClientTyped, Client!TypeOK
<1>6. closing' \in BOOLEAN
  BY <1>1, Zenon
<1>7. ClientTyped'
  BY <1>0, <1>1, <1>3, <1>4, <1>5, <1>6 DEF ClientTyped
<1>8. InHand'
  BY <1>0, <1>1, <1>2 DEF InHand
<1>9. Departing'
  BY <1>1, <1>3, <1>4 DEF Departing
<1>10. Descriptors'
  <2>1. open' = {r \in Client!Sockets : \/ r = connectorChannel' /\ polled'
                                        \/ r = connection' \/ r \in dying'}
    BY <1>0, <1>1, <1>2 DEF Descriptors, Client!Sockets
  <2>2. connection' \notin dying'
    BY <1>1, <1>2, <1>3
  <2> QED
    BY <1>1, <1>2, <1>0, <2>1, <2>2 DEF Descriptors
<1>11. Resetting'
  BY <1>0, <1>1, <1>4 DEF Resetting
<1>12. Retrying'
  BY <1>1, <1>2 DEF Retrying, Client!Waits
<1> QED
  BY <1>7, <1>8, <1>9, <1>10, <1>11, <1>12 DEF ClientInv

\* startInLoop and stopInLoop.
LEMMA StartStopKept ==
  ASSUME Delays, ClientInv, ~connectorFailed, Client!RunFunctor,
         Head(connectorBatch) \in {"startInLoop", "stopInLoop"}
  PROVE  ClientInv'
<1> DEFINE g == Head(connectorBatch)
<1>0. ClientTyped /\ InHand /\ Departing /\ Descriptors /\ Resetting /\ Retrying
  BY DEF ClientInv
<1>1. /\ connectorPhase = "functors" /\ connectorBatch # <<>> /\ Client!Run(g)
      /\ connectorBatch' = Tail(connectorBatch)
      /\ UNCHANGED <<connectorActive, connectorPhase, connection, closing, todo>>
  BY DEF Client!RunFunctor, Client!callVars
<1>t. /\ connectorPending \in Seq(ClientFunctors) /\ connectorBatch \in Seq(ClientFunctors)
      /\ timers \in Nat /\ delay \in kInitRetryDelayMs..kMaxRetryDelayMs
  BY <1>0 DEF ClientTyped, Client!TypeOK
<1>2. InHand'
  BY <1>0, <1>1 DEF InHand
<1>3. CASE g = "startInLoop"
  <2>1. /\ Client!startInLoop(connectorState, connect, delay, timers)
        /\ UNCHANGED <<connect, connectorPending, dying>>
    BY <1>1, <1>3 DEF Client!Run
  <2>2. /\ connectorBatch' \in Seq(ClientFunctors)
        /\ \A f \in {"resetChannel", "connectDestroyed"} :
             /\ Has(connectorPending, f)' <=> Has(connectorPending, f)
             /\ Waiting(f)' <=> Waiting(f)
             /\ WaitsOnce(f) => WaitsOnce(f)'
    BY <1>t, <1>1, <1>3, <2>1, QueueLess
  <2>3. /\ Client!TypeOK' /\ Descriptors' /\ polled' \in BOOLEAN
        /\ ~connectorFailed' => (connectorChannel' # 0 /\ ~polled'
                                    <=> connectorChannel # 0 /\ ~polled)
        /\ connect /\ Client!Waits' => timers' > 0
    BY <1>0, <1>1, <1>t, <2>1, Attempts
  <2>4. ClientTyped'
    BY <1>0, <1>1, <2>1, <2>2, <2>3 DEF ClientTyped
  <2>5. Departing'
    BY <1>0, <1>1, <2>1, <2>2 DEF Departing
  <2>6. Resetting'
    BY <1>0, <2>2, <2>3 DEF Resetting
  <2>7. Retrying'
    BY <2>1, <2>3 DEF Retrying, Client!Waits
  <2> QED
    BY <1>2, <2>3, <2>4, <2>5, <2>6, <2>7 DEF ClientInv
<1>4. CASE g = "stopInLoop"
  <2>1. Client!stopInLoop /\ UNCHANGED <<connectorFailed, dying>>
    BY <1>1, <1>4 DEF Client!Run
  <2>2. /\ connectorBatch' \in Seq(ClientFunctors)
        /\ \A f : Has(connectorBatch, f)' => Has(connectorBatch, f)
        /\ \A f \in {"startInLoop", "resetChannel", "connectDestroyed"} :
             /\ Has(connectorBatch, f)' <=> Has(connectorBatch, f)
             /\ Once(connectorBatch, f) => Once(connectorBatch, f)'
    BY <1>t, <1>1, <1>4, HasTaken
  <2>3. CASE connectorState = "kConnecting"
    <3>1. /\ connectorPending' = Append(connectorPending, "resetChannel")
          /\ polled' = FALSE /\ Client!retry(connectorChannel)
          /\ UNCHANGED <<connectorChannel, connect, gaveUp>>
      BY <2>1, <2>3 DEF Client!stopInLoop, Client!StopsOne, Client!removeAndResetChannel
    <3>2. /\ Client!TypeOK' /\ Descriptors' /\ timers' >= timers
          /\ Client!Waits' => timers' > 0
      BY <1>0, <1>1, <2>1, <2>3, <3>1, AttemptEnds
    <3>3. polled /\ connectorChannel # 0
      BY <1>0, <2>3 DEF Descriptors
    <3>4. ~Waiting("resetChannel")
      BY <1>0, <3>3 DEF Resetting
    <3>5. /\ connectorPending' \in Seq(ClientFunctors)
          /\ \A f : Has(connectorPending, f)' <=> Has(connectorPending, f) \/ f = "resetChannel"
          /\ \A f : Once(connectorPending, f) /\ (f = "resetChannel" => ~Has(connectorPending, f))
                       => Once(connectorPending, f)'
      <4>1. "resetChannel" \in ClientFunctors
        BY DEF ClientFunctors
      <4> QED
        BY <1>t, <3>1, <4>1, HasQueued
    <3>6. Waiting("resetChannel")' /\ WaitsOnce("resetChannel")'
      BY <1>0, <2>2, <3>4, <3>5 DEF Waiting, WaitsOnce, Resetting
    <3>7. /\ Waiting("connectDestroyed")' <=> Waiting("connectDestroyed")
          /\ Has(connectorPending, "connectDestroyed")' <=> Has(connectorPending, "connectDestroyed")
          /\ WaitsOnce("connectDestroyed")'
      BY <1>0, <2>2, <3>5 DEF Waiting, WaitsOnce, Departing
    <3>8. ClientTyped'
      BY <1>0, <1>1, <2>1, <2>2, <3>1, <3>2, <3>5 DEF ClientTyped
    <3>9. Departing'
      BY <1>0, <1>1, <2>1, <3>7 DEF Departing
    <3>10. Resetting'
      BY <3>1, <3>3, <3>6 DEF Resetting
    <3>11. Retrying'
      BY <3>2 DEF Retrying
    <3> QED
      BY <1>2, <3>2, <3>8, <3>9, <3>10, <3>11 DEF ClientInv
  <2>4. CASE connectorState # "kConnecting"
    <3>1. UNCHANGED <<connect, connectorState, connectorChannel, polled, delay, timers, open,
                      gaveUp, connectorPending>>
      BY <2>1, <2>4 DEF Client!stopInLoop, Client!StopsOne, Client!connectorVars
    <3>2. \A f \in {"startInLoop", "resetChannel", "connectDestroyed"} :
             /\ Has(connectorPending, f)' <=> Has(connectorPending, f)
             /\ Waiting(f)' <=> Waiting(f)
             /\ WaitsOnce(f) => WaitsOnce(f)'
      BY <1>t, <1>1, <1>4, <3>1, QueueLess
    <3>3. Client!TypeOK' /\ Descriptors'
      BY <1>0, <1>1, <2>1, <3>1 DEF ClientTyped, Client!TypeOK, Descriptors
    <3>4. ClientTyped'
      BY <1>0, <1>1, <2>1, <2>2, <3>1, <3>3 DEF ClientTyped
    <3>5. Departing'
      BY <1>0, <1>1, <2>1, <3>2 DEF Departing
    <3>6. Resetting'
      BY <1>0, <2>1, <3>1, <3>2 DEF Resetting
    <3>7. Retrying'
      BY <1>0, <1>1, <2>1, <3>1, <3>2 DEF Retrying, Client!Waits
    <3> QED
      BY <1>2, <3>3, <3>4, <3>5, <3>6, <3>7 DEF ClientInv
  <2> QED
    BY <2>3, <2>4
<1> QED
  BY <1>3, <1>4

\* The channel is reset, or the connection destroyed.
LEMMA EndingsKept ==
  ASSUME ClientInv, ~connectorFailed, Client!RunFunctor,
         Head(connectorBatch) \in {"resetChannel", "connectDestroyed"}
  PROVE  ClientInv'
<1> DEFINE g == Head(connectorBatch)
<1>0. ClientTyped /\ InHand /\ Departing /\ Descriptors /\ Resetting /\ Retrying
  BY DEF ClientInv
<1>1. /\ connectorPhase = "functors" /\ connectorBatch # <<>> /\ Client!Run(g)
      /\ connectorBatch' = Tail(connectorBatch)
      /\ UNCHANGED <<connectorActive, connectorPhase, connection, closing, todo>>
  BY DEF Client!RunFunctor, Client!callVars
<1>2. UNCHANGED <<connect, connectorState, polled, delay, timers, gaveUp, connectorFailed,
                  connectorPending>>
  BY <1>1 DEF Client!Run
<1>t. /\ connectorPending \in Seq(ClientFunctors) /\ connectorBatch \in Seq(ClientFunctors)
  BY <1>0 DEF ClientTyped
<1>3. /\ connectorBatch' \in Seq(ClientFunctors)
      /\ \A f : Has(connectorPending, f)' <=> Has(connectorPending, f)
      /\ \A f : Waiting(f) <=> Waiting(f)' \/ g = f
      /\ \A f : WaitsOnce(f) => WaitsOnce(f)' /\ (g = f => ~Waiting(f)')
  BY <1>t, <1>1, <1>2, QueueLess
<1> HIDE DEF g
<1>4. InHand'
  BY <1>0, <1>1, <1>2 DEF InHand
<1>5. g \in {"resetChannel", "connectDestroyed"} => Retrying'
  BY <1>0, <1>1, <1>2, <1>3 DEF Retrying, Client!Waits
<1>6. CASE g = "resetChannel"
  <2>1. connectorChannel' = 0 /\ UNCHANGED <<open, dying>>
    BY <1>1, <1>6 DEF Client!Run
  <2>2. Waiting("resetChannel")
    BY <1>3, <1>6
  <2>3. ~polled /\ ~Waiting("resetChannel")' /\ WaitsOnce("resetChannel")'
    BY <1>0, <1>3, <1>6, <2>2 DEF Resetting
  <2>4. Client!TypeOK' /\ Descriptors'
    BY <1>0, <1>1, <1>2, <2>1, <2>3 DEF ClientTyped, Client!TypeOK, Descriptors
  <2>5. ClientTyped'
    BY <1>0, <1>1, <1>2, <1>3, <2>1, <2>4 DEF ClientTyped
  <2>6. Departing'
    BY <1>0, <1>1, <1>2, <1>3, <1>6, <2>1 DEF Departing
  <2>7. Resetting'
    BY <2>1, <2>3 DEF Resetting
  <2> QED
    BY <1>4, <1>5, <1>6, <2>4, <2>5, <2>6, <2>7 DEF ClientInv
<1>7. CASE g = "connectDestroyed"
  <2>1. /\ connectorChannel' = connectorChannel
        /\ \E s \in dying : dying' = dying \ {s} /\ open' = open \ {s}
    BY <1>1, <1>7 DEF Client!Run
  <2>2. PICK s \in dying : dying' = dying \ {s} /\ open' = open \ {s}
    BY <2>1
  <2>3. dying = {s} /\ dying' = {} /\ s \in Client!Sockets
    BY <1>0, <2>2 DEF Departing
  <2>4. ~Waiting("connectDestroyed")' /\ WaitsOnce("connectDestroyed")'
    BY <1>0, <1>3, <1>7 DEF Departing
  <2>5. open' = {r \in Client!Sockets : \/ r = connectorChannel' /\ polled'
                                        \/ r = connection' \/ r \in dying'}
    BY <1>0, <1>1, <1>2, <2>1, <2>2, <2>3 DEF Descriptors
  <2>6. Descriptors'
    BY <1>0, <1>1, <1>2, <2>1, <2>3, <2>5 DEF Descriptors
  <2>7. Client!TypeOK'
    BY <1>0, <1>1, <1>2, <2>1, <2>5 DEF ClientTyped, Client!TypeOK
  <2>8. ClientTyped'
    BY <1>0, <1>1, <1>2, <1>3, <2>3, <2>7 DEF ClientTyped
  <2>9. Departing'
    BY <1>0, <1>1, <1>2, <1>3, <2>3, <2>4 DEF Departing
  <2>10. Resetting'
    BY <1>0, <1>2, <1>3, <1>7, <2>1 DEF Resetting
  <2> QED
    BY <1>4, <1>5, <1>7, <2>6, <2>8, <2>9, <2>10 DEF ClientInv
<1> QED
  BY <1>6, <1>7 DEF g

LEMMA ClientStarts == Delays /\ Client!Init => ClientInv
<1> SUFFICES ASSUME Delays, Client!Init PROVE ClientInv
  OBVIOUS
<1> USE DEF Client!Init
<1>1. ClientTyped
  <2>1. Client!TypeOK
    BY DEF Client!TypeOK, Delays
  <2>2. todo \in [Callers -> Rests]
    <3>1. <<>> \in Rests
      BY DEF Rests
    <3> QED
      BY <3>1
  <2>3. connectorPending \in Seq(ClientFunctors) /\ connectorBatch \in Seq(ClientFunctors)
    OBVIOUS
  <2>4. polled \in BOOLEAN /\ closing \in BOOLEAN
    OBVIOUS
  <2>5. connectorActive \subseteq {"channel", "connection", "timer"} /\ dying \subseteq Client!Sockets
    OBVIOUS
  <2>6. connectorPhase \in {"poll", "events", "functors"}
    OBVIOUS
  <2> QED
    BY <2>1, <2>2, <2>3, <2>4, <2>5, <2>6 DEF ClientTyped
<1>2. InHand
  BY DEF InHand
<1>3. \A f : ~Waiting(f) /\ WaitsOnce(f) /\ ~Has(connectorPending, f)
  BY HasNothing DEF Waiting, WaitsOnce
<1>4. Departing
  BY <1>3 DEF Departing
<1>5. Descriptors
  <2>1. 0 \notin Client!Sockets
    BY DEF Client!Sockets
  <2> QED
    BY <2>1 DEF Descriptors
<1>6. Resetting
  BY <1>3 DEF Resetting
<1>7. Retrying
  BY DEF Retrying, Client!Waits
<1> QED
  BY <1>1, <1>2, <1>4, <1>5, <1>6, <1>7 DEF ClientInv

\* Connector.cc and TcpClient.cc: every handler, functor and call keeps the invariant
\* of a client.
THEOREM ClientInductive ==
  ASSUME Delays
  PROVE  Client!ConnectorSpec => []ClientInv
<1>1. ASSUME ClientInv, [Client!ConnectorNext]_Client!vars PROVE ClientInv'
  <2>1. CASE Client!ConnectorNext
    <3>1. ~connectorFailed
      BY <2>1 DEF Client!ConnectorNext
    <3>2. CASE Client!RunFunctor
      <4>1. Head(connectorBatch) \in {"startInLoop", "stopInLoop", "resetChannel", "connectDestroyed"}
        BY <3>2 DEF Client!RunFunctor, Client!Run
      <4> QED
        BY <1>1, <3>1, <3>2, <4>1, StartStopKept, EndingsKept
    <3>3. CASE Client!Poll \/ Client!SwapFunctors \/ Client!FunctorsDone
      BY <1>1, <3>3, TurnKept
    <3>4. CASE \/ Client!TimerFires \/ Client!restart \/ Client!removeConnection
               \/ Client!AttemptFails \/ Client!handleWrite
      BY <1>1, <3>1, <3>4, TimerKept, RestartKept, RemovalKept, ChannelKept
    <3>5. CASE \E c \in Callers : Client!Call(c) \/ Client!Step(c)
      BY <1>1, <3>5, CallsStep
    <3> QED
      BY <2>1, <3>2, <3>3, <3>4, <3>5 DEF Client!ConnectorNext, Client!Loop
  <2>2. CASE UNCHANGED Client!vars
    <3>1. UNCHANGED <<connection, dying, connect, connectorState, connectorChannel, polled, delay,
                      timers, connectorPending, connectorBatch, connectorActive, connectorPhase,
                      closing, open, todo, gaveUp, connectorFailed>>
      BY <2>2 DEF Client!vars, Client!connectorVars, Client!queueVars, Client!clientVars,
         Client!callVars
    <3>2. ClientTyped' /\ InHand' /\ Descriptors'
      BY <1>1, <3>1 DEF ClientInv, ClientTyped, Client!TypeOK, InHand, Descriptors
    <3>3. Departing' /\ Resetting' /\ Retrying'
      BY <1>1, <3>1, QueueStands DEF ClientInv, Departing, Resetting, Retrying, Client!Waits
    <3> QED
      BY <3>2, <3>3 DEF ClientInv
  <2> QED
    BY <1>1, <2>1, <2>2
<1>2. ClientInv /\ [Client!ConnectorNext]_Client!vars => ClientInv'
  BY <1>1
<1> QED
  BY <1>2, ClientStarts, PTL DEF Client!ConnectorSpec

\* Connector.cc: whatever threads call connect(), disconnect() and stop(), every open
\* descriptor is of the one attempt, the connection or one about to go, and as long as
\* attempts are wanted one is made, waits for its time or is queued.
THEOREM ClientKeepsTrying ==
  ASSUME Delays
  PROVE  Client!ConnectorSpec => [](Client!TypeOK /\ Client!OneSocket /\ Client!RetryPending)
<1>1. ASSUME ClientInv PROVE Client!TypeOK /\ Client!OneSocket /\ Client!RetryPending
  <2>0. /\ ClientTyped /\ Descriptors /\ Resetting /\ Retrying
        /\ \A f : Client!Queued(f) <=> Waiting(f)
    BY <1>1, WaitingIs DEF ClientInv, ClientTyped
  <2>1. Client!OneSocket
    BY <2>0 DEF Client!OneSocket, Descriptors, Resetting
  <2>2. Client!RetryPending
    BY <2>0 DEF Client!RetryPending, Retrying, Has, Client!Contains
  <2> QED
    BY <2>0, <2>1, <2>2 DEF ClientTyped
<1>2. ClientInv => Client!TypeOK /\ Client!OneSocket /\ Client!RetryPending
  BY <1>1
<1> QED
  BY <1>2, ClientInductive, PTL

-----------------------------------------------------------------------------
(* EventLoop and the thread it runs in. *)
CONSTANTS Threads, MaxFunctors
VARIABLES quit, eventfd, loopPending, loopBatch, calling, loopSet, lpc, opc, threadPc, made,
          called, early
Thread == INSTANCE EventLoop WITH pending <- loopPending, batch <- loopBatch, pc <- threadPc

(* The inductive invariant of the loop.  The types; only a loop that calls functors
   has a batch, and its flag says so; *)
LoopCalls ==
    /\ threadPc \in [Threads -> {"idle", "wakeup"}] /\ eventfd \in BOOLEAN
    /\ calling <=> lpc \in {"swap", "call", "functor"}
    /\ loopBatch # <<>> => lpc \in {"call", "functor"}
    /\ opc = "idle" => lpc = "none"
(* what NoLostWakeup says of a loop in poll() holds of it everywhere: a functor that is
   queued meets a swap, a readable eventfd or a thread about to write it, and so
   does quit_, which is tested before the loop polls again. *)
WakesUp ==
    /\ loopPending # <<>> =>
          \/ eventfd \/ lpc \in {"woken", "handler", "swap"}
          \/ \E t \in Threads : threadPc[t] = "wakeup"
    /\ quit /\ lpc = "poll" => eventfd \/ opc = "wakeup"
LoopInv == Thread!LoopTypeOK /\ LoopCalls /\ WakesUp

\* The next functor is within the bound.
LEMMA NextFunctor ==
  ASSUME MaxFunctors \in Nat, Thread!LoopTypeOK, made < MaxFunctors
  PROVE  made + 1 \in Thread!Functors /\ made + 1 \in 0..MaxFunctors
BY DEF Thread!LoopTypeOK, Thread!Functors

\* Each step of the loop, of its owner and of the threads keeps the types.
LEMMA LoopTyped ==
  ASSUME MaxFunctors \in Nat, LoopInv, Thread!LoopNext
  PROVE  Thread!LoopTypeOK' /\ LoopCalls'
<1> USE DEF LoopInv, Thread!LoopTypeOK, LoopCalls
<1>1. ASSUME NEW t \in Threads, Thread!queueInLoop(t) PROVE Thread!LoopTypeOK' /\ LoopCalls'
  <2>1. made + 1 \in Thread!Functors /\ made' \in 0..MaxFunctors
        /\ loopPending' = Append(loopPending, made + 1)
    BY <1>1, NextFunctor DEF Thread!queueInLoop, Thread!Queue
  <2>2. loopPending' \in Seq(Thread!Functors)
    BY <2>1, AppendProperties
  <2> QED
    BY <1>1, <2>1, <2>2 DEF Thread!queueInLoop, Thread!loopVars
<1>2. ASSUME NEW t \in Threads, Thread!wakeup(t) PROVE Thread!LoopTypeOK' /\ LoopCalls'
  <2>1. /\ eventfd' = TRUE /\ threadPc' \in [Threads -> {"idle", "wakeup"}]
        /\ UNCHANGED <<lpc, opc, made, loopPending, loopBatch, calling>>
    BY <1>2 DEF Thread!wakeup, Thread!loopVars
  <2> QED
    BY <2>1
<1>3. CASE Thread!startLoop \/ Thread!started \/ Thread!join
  <2>1. CASE Thread!startLoop
    BY <2>1 DEF Thread!startLoop
  <2>2. CASE Thread!started \/ Thread!join
    BY <2>2 DEF Thread!started, Thread!join, Thread!loopVars
  <2> QED
    BY <1>3, <2>1, <2>2
<1>4. CASE Thread!Quit \/ Thread!QuitWakesUp
  <2>1. CASE Thread!Quit
    BY <2>1 DEF Thread!Quit, Thread!loopVars
  <2>2. CASE Thread!QuitWakesUp
    BY <2>2 DEF Thread!QuitWakesUp, Thread!loopVars
  <2> QED
    BY <1>4, <2>1, <2>2
<1>5. CASE Thread!threadFunc \/ Thread!loop \/ Thread!TestQuit
  <2>1. CASE Thread!threadFunc
    BY <2>1 DEF Thread!threadFunc
  <2>2. CASE Thread!loop
    BY <2>2 DEF Thread!loop
  <2>3. CASE Thread!TestQuit
    <3>1. /\ lpc = "test" /\ lpc' \in {"done", "poll"}
          /\ UNCHANGED <<eventfd, opc, made, loopPending, loopBatch, calling, threadPc>>
      BY <2>3 DEF Thread!TestQuit
    <3> QED
      BY <3>1
  <2> QED
    BY <1>5, <2>1, <2>2, <2>3
<1>6. CASE Thread!Poll \/ Thread!OtherEvent \/ Thread!handleRead \/ Thread!StartCalling
  <2>1. CASE Thread!Poll \/ Thread!OtherEvent
    BY <2>1 DEF Thread!Poll, Thread!OtherEvent
  <2>2. CASE Thread!handleRead
    BY <2>2 DEF Thread!handleRead
  <2>3. CASE Thread!StartCalling
    BY <2>3 DEF Thread!StartCalling
  <2> QED
    BY <1>6, <2>1, <2>2, <2>3
<1>7. CASE Thread!SwapFunctors
  BY <1>7 DEF Thread!SwapFunctors, Thread!Left
<1>8. CASE Thread!CallFunctor
  <2>1. loopBatch' \in Seq(Thread!Functors)
    BY <1>8, HeadTailProperties DEF Thread!CallFunctor
  <2> QED
    BY <1>8, <2>1 DEF Thread!CallFunctor
<1>9. CASE Thread!FunctorReturns \/ Thread!CallingDone
  BY <1>9 DEF Thread!FunctorReturns, Thread!CallingDone
<1>10. CASE Thread!QueueInside
  <2>1. made + 1 \in Thread!Functors /\ made' \in 0..MaxFunctors
        /\ loopPending' = Append(loopPending, made + 1)
    BY <1>10, NextFunctor DEF Thread!QueueInside, Thread!Queue
  <2>2. loopPending' \in Seq(Thread!Functors)
    BY <2>1, AppendProperties
  <2>3. eventfd' \in BOOLEAN
    BY <1>10, Zenon DEF Thread!QueueInside
  <2> QED
    BY <1>10, <2>1, <2>2, <2>3 DEF Thread!QueueInside, Thread!loopVars
<1>11. CASE Thread!runInLoop
  <2>1. made' \in 0..MaxFunctors
    BY <1>11, NextFunctor DEF Thread!runInLoop
  <2> QED
    BY <1>11, <2>1 DEF Thread!runInLoop
<1> QED
  BY <1>1, <1>2, <1>3, <1>4, <1>5, <1>6, <1>7, <1>8, <1>9, <1>10, <1>11
  DEF Thread!LoopNext, Thread!LoopThread, Thread!Owner

\* No step takes the last wake-up away: the eventfd is read, and the functors are
\* swapped out, between one poll and the next.
LEMMA LoopWakes ==
  ASSUME LoopInv, Thread!LoopNext
  PROVE  WakesUp'
<1> USE DEF LoopInv, LoopCalls, WakesUp
<1>1. ASSUME NEW t \in Threads, Thread!queueInLoop(t) PROVE WakesUp'
  <2>1. threadPc'[t] = "wakeup"
    BY <1>1 DEF Thread!queueInLoop
  <2> QED
    BY <1>1, <2>1 DEF Thread!queueInLoop, Thread!loopVars
<1>2. ASSUME NEW t \in Threads, Thread!wakeup(t) PROVE WakesUp'
  BY <1>2 DEF Thread!wakeup
<1>3. CASE Thread!startLoop \/ Thread!started \/ Thread!join
  <2>1. CASE Thread!startLoop
    BY <2>1 DEF Thread!startLoop
  <2>2. CASE Thread!started \/ Thread!join
    BY <2>2 DEF Thread!started, Thread!join, Thread!loopVars
  <2> QED
    BY <1>3, <2>1, <2>2
<1>4. CASE Thread!Quit \/ Thread!QuitWakesUp
  BY <1>4 DEF Thread!Quit, Thread!QuitWakesUp, Thread!loopVars
<1>5. CASE Thread!threadFunc \/ Thread!loop \/ Thread!TestQuit
  BY <1>5 DEF Thread!threadFunc, Thread!loop, Thread!TestQuit
<1>6. CASE Thread!Poll \/ Thread!OtherEvent \/ Thread!handleRead \/ Thread!StartCalling
  BY <1>6 DEF Thread!Poll, Thread!OtherEvent, Thread!handleRead, Thread!StartCalling
<1>7. CASE Thread!SwapFunctors
  BY <1>7 DEF Thread!SwapFunctors, Thread!Left
<1>8. CASE Thread!CallFunctor \/ Thread!FunctorReturns \/ Thread!CallingDone
  BY <1>8 DEF Thread!CallFunctor, Thread!FunctorReturns, Thread!CallingDone
<1>9. CASE Thread!QueueInside
  <2>1. lpc = "functor" => eventfd'
    BY <1>9 DEF Thread!QueueInside, Thread!NeedsWakeup
  <2>2. eventfd => eventfd'
    BY <1>9 DEF Thread!QueueInside
  <2> QED
    BY <1>9, <2>1, <2>2 DEF Thread!QueueInside, Thread!Inside, Thread!loopVars
<1>10. CASE Thread!runInLoop
  BY <1>10 DEF Thread!runInLoop
<1> QED
  BY <1>1, <1>2, <1>3, <1>4, <1>5, <1>6, <1>7, <1>8, <1>9, <1>10
  DEF Thread!LoopNext, Thread!LoopThread, Thread!Owner

LEMMA LoopStarts == MaxFunctors \in Nat /\ Thread!LoopInit => LoopInv
<1> SUFFICES ASSUME MaxFunctors \in Nat, Thread!LoopInit PROVE LoopInv
  OBVIOUS
<1>1. Thread!LoopTypeOK
  BY DEF Thread!LoopInit, Thread!LoopTypeOK
<1>2. LoopCalls
  BY DEF Thread!LoopInit, LoopCalls
<1>3. WakesUp
  BY DEF Thread!LoopInit, WakesUp
<1> QED
  BY <1>1, <1>2, <1>3 DEF LoopInv

LEMMA LoopStands == LoopInv /\ UNCHANGED Thread!eventLoopVars => LoopInv'
BY DEF Thread!eventLoopVars, Thread!loopVars, LoopInv, Thread!LoopTypeOK, LoopCalls, WakesUp

\* EventLoop.cc: whatever the interleaving of any number of threads with the loop, the
\* types hold and the loop never sleeps in poll() on a functor or on quit_.
THEOREM LoopWakesUp ==
  ASSUME MaxFunctors \in Nat
  PROVE  Thread!LoopSpec => [](Thread!LoopTypeOK /\ Thread!NoLostWakeup)
<1>1. LoopInv /\ [Thread!LoopNext]_Thread!eventLoopVars => LoopInv'
  BY LoopTyped, LoopWakes, LoopStands DEF LoopInv
<1>2. LoopInv => Thread!LoopTypeOK /\ Thread!NoLostWakeup
  BY DEF LoopInv, WakesUp, Thread!NoLostWakeup
<1> QED
  BY <1>1, <1>2, LoopStarts, PTL DEF Thread!LoopSpec

\* A functor queued goes to the end of the executor's queue, and the head of the batch
\* is the head of the whole.
LEMMA BatchFirst ==
  ASSUME NEW S, NEW b \in Seq(S), NEW p \in Seq(S)
  PROVE  /\ \A f \in S : b \o Append(p, f) = Append(b \o p, f)
         /\ b # <<>> => /\ b \o p # <<>> /\ Head(b) = Head(b \o p)
                        /\ Tail(b) \o p = Tail(b \o p)
         /\ p \o <<>> = p /\ <<>> \o p = p
<1>1. ASSUME NEW f \in S PROVE b \o Append(p, f) = Append(b \o p, f)
  OBVIOUS
<1>2. ASSUME b # <<>>
      PROVE  b \o p # <<>> /\ Head(b) = Head(b \o p) /\ Tail(b) \o p = Tail(b \o p)
  <2>1. Len(b) > 0 /\ Len(b \o p) = Len(b) + Len(p)
    BY <1>2
  <2>2. b \o p # <<>>
    BY <2>1
  <2>3. Head(b) = Head(b \o p)
    BY <2>1
  <2>4. Tail(b) \o p = Tail(b \o p)
    BY <2>1
  <2> QED BY <2>2, <2>3, <2>4
<1>3. p \o <<>> = p /\ <<>> \o p = p
  BY ConcatEmptySeq
<1> QED BY <1>1, <1>2, <1>3

\* Each step is a step of ZkExecutor, or none of its.
LEMMA LoopExecutes ==
  ASSUME MaxFunctors \in Nat, LoopInv, Thread!LoopNext
  PROVE  [Thread!Executor!ExecutorNext]_<<loopBatch \o loopPending, called>>
<1>t. loopBatch \in Seq(Thread!Functors) /\ loopPending \in Seq(Thread!Functors)
  BY DEF LoopInv, Thread!LoopTypeOK
<1>1. CASE (\E t \in Threads : Thread!queueInLoop(t)) \/ Thread!QueueInside
  <2>1. /\ made < MaxFunctors /\ loopPending' = Append(loopPending, made + 1)
        /\ loopBatch' = loopBatch /\ called' = called
    BY <1>1 DEF Thread!queueInLoop, Thread!QueueInside, Thread!Queue, Thread!loopVars
  <2>2. made + 1 \in Thread!Functors
    BY <2>1, NextFunctor DEF LoopInv
  <2>3. (loopBatch \o loopPending)' = Append(loopBatch \o loopPending, made + 1)
    BY <1>t, <2>1, <2>2, BatchFirst
  <2>4. Thread!Executor!Submit(made + 1)
    BY <2>1, <2>3 DEF Thread!Executor!Submit
  <2> QED
    BY <2>2, <2>4 DEF Thread!Executor!ExecutorNext
<1>2. CASE Thread!SwapFunctors
  <2>1. loopBatch = <<>> /\ loopBatch' = loopPending /\ loopPending' = <<>> /\ called' = called
    BY <1>2 DEF Thread!SwapFunctors, Thread!Left, LoopInv, LoopCalls
  <2>2. (loopBatch \o loopPending)' = loopBatch \o loopPending
    BY <1>t, <2>1, BatchFirst
  <2> QED
    BY <2>1, <2>2
<1>3. CASE Thread!CallFunctor
  <2>1. /\ loopBatch # <<>> /\ called' = Append(called, Head(loopBatch))
        /\ loopBatch' = Tail(loopBatch) /\ loopPending' = loopPending
    BY <1>3 DEF Thread!CallFunctor
  <2>2. /\ loopBatch \o loopPending # <<>> /\ Head(loopBatch) = Head(loopBatch \o loopPending)
        /\ (loopBatch \o loopPending)' = Tail(loopBatch \o loopPending)
    BY <1>t, <2>1, BatchFirst
  <2>3. Thread!Executor!CallNext
    BY <2>1, <2>2 DEF Thread!Executor!CallNext
  <2> QED
    BY <2>3 DEF Thread!Executor!ExecutorNext
<1>4. CASE Thread!runInLoop
  <2>1. made + 1 \in Thread!Functors
    BY <1>4, NextFunctor DEF Thread!runInLoop, LoopInv
  <2>2. Thread!Executor!CallNow(made + 1)
    BY <1>4 DEF Thread!runInLoop, Thread!Executor!CallNow
  <2> QED
    BY <2>1, <2>2 DEF Thread!Executor!ExecutorNext
<1>5. CASE UNCHANGED <<loopBatch, loopPending, called>>
  BY <1>5
<1>6. CASE \E t \in Threads : Thread!wakeup(t)
  BY <1>5, <1>6 DEF Thread!wakeup, Thread!loopVars
<1>7. CASE Thread!Owner \/ Thread!Quit
  BY <1>5, <1>7 DEF Thread!Owner, Thread!startLoop, Thread!started, Thread!QuitWakesUp,
     Thread!join, Thread!Quit, Thread!loopVars
<1>8. CASE \/ Thread!threadFunc \/ Thread!loop \/ Thread!TestQuit \/ Thread!Poll
           \/ Thread!handleRead \/ Thread!StartCalling \/ Thread!FunctorReturns
           \/ Thread!CallingDone \/ Thread!OtherEvent
  BY <1>5, <1>8 DEF Thread!threadFunc, Thread!loop, Thread!TestQuit, Thread!Poll,
     Thread!handleRead, Thread!StartCalling, Thread!FunctorReturns, Thread!CallingDone,
     Thread!OtherEvent
<1> QED
  BY <1>1, <1>2, <1>3, <1>4, <1>6, <1>7, <1>8 DEF Thread!LoopNext, Thread!LoopThread

\* EventLoop.cc implements ZkExecutor: the functors accepted from any number of
\* threads are called once each, in the order of the queue.
THEOREM LoopRefines ==
  ASSUME MaxFunctors \in Nat
  PROVE  Thread!LoopSpec => Thread!ImplementsExecutor
<1>1. Thread!LoopInit => Thread!Executor!ExecutorInit
  BY DEF Thread!LoopInit, Thread!Executor!ExecutorInit
<1>2. LoopInv /\ [Thread!LoopNext]_Thread!eventLoopVars => LoopInv'
  BY LoopTyped, LoopWakes, LoopStands DEF LoopInv
<1>3. LoopInv /\ [Thread!LoopNext]_Thread!eventLoopVars
         => [Thread!Executor!ExecutorNext]_<<loopBatch \o loopPending, called>>
  BY LoopExecutes DEF Thread!eventLoopVars, Thread!loopVars
<1> QED
  BY <1>1, <1>2, <1>3, LoopStarts, PTL
  DEF Thread!LoopSpec, Thread!ImplementsExecutor, Thread!Executor!ExecutorSpec
===============================================================================
