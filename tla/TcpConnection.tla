----------------------------- MODULE TcpConnection -----------------------------
(***************************************************************************)
(* One connection of a TcpServer (src/muduo/net/TcpConnection.cc and       *)
(* TcpServer.cc:36-122): it lives in an I/O loop, which runs its handlers  *)
(* and its functors; the server, in a loop of its own, keeps it in its     *)
(* map; other threads call send(), shutdown() and forceClose(), each of    *)
(* which reads state_ with no lock ("FIXME: use atomic variable") and acts *)
(* later.  Callbacks of the application run in the I/O loop and call the   *)
(* same functions there.  A byte is the number of its message.             *)
(*                                                                         *)
(* ~TcpServer may run at any time: it queues connectDestroyed whatever     *)
(* state_ is, and then the I/O loops quit with the pool that owns them.    *)
(* What is told to the server or queued in the loop when that one is gone  *)
(* is undefined: dangling, after which nothing more is said.  The users    *)
(* and the server's loop hold the connection by a TcpConnectionPtr.        *)
(*                                                                         *)
(* Not here: writeCompleteCallback_ and highWaterMarkCallback_ (not set),  *)
(* forceCloseWithDelay().  For a connected socket the kernel reports HUP   *)
(* with IN only, so that handleEvent never closes for HUP alone.           *)
(***************************************************************************)
EXTENDS Naturals, SequencesExt

CONSTANTS Users,         \* the threads, other than the two loops
          MessageLens,   \* the lengths of messages
          MaxMessages,   \* bound: messages sent
          MaxCalls,      \* bound: shutdown() and forceClose() of the users
          MaxReads       \* bound: messages received

ASSUME ConnectionAssumption == MessageLens \subseteq Nat /\ MaxReads \in Nat

VARIABLES
  state,         \* state_
  reading,       \* the channel's events_: kReadEvent
  writing,       \*                        kWriteEvent, channel_->isWriting()
  channel,       \* "new", "added" to the loop or "removed"
  output,        \* outputBuffer_
  pending,       \* pendingFunctors_ of the I/O loop, those of this connection
  batch,         \* the functors that the loop is running
  revents,       \* the events of handleEvent that are still to be handled
  phase,         \* where the I/O loop is: "poll", "events", "functors", "ended"
  inMap,         \* connections_ of the server holds the connection
  erasing,       \* the functors removeConnectionInLoop of the server's loop
  server,        \* "up", "going" while ~TcpServer runs, "gone"
  ioQuit,        \* quit_ of the I/O loop
  pc,            \* what each user has found state_ good for
  wire, fin,     \* what the kernel has taken: the bytes, then shutdownWrite()
  peer, soError, \* the peer: "open", "closed", "reset"; SO_ERROR is set
  incoming,      \* messages of the peer not yet read
  failed,        \* an assert has failed
  dangling,      \* a server or a loop that is gone has been used
  accepted,      \* history: the bytes that sendInLoop did not refuse
  downs, destroyed, raced,  \* history: callbacks, connectDestroyed, see Disconnecting
  sends, calls, reads       \* bounds

streamVars == <<output, wire, accepted, writing>>
kernelVars == <<fin, peer, soError, incoming, reads>>
loopVars == <<pending, batch, revents, phase>>
serverVars == <<inMap, erasing, server, ioQuit>>
endVars == <<channel, failed, dangling, downs, destroyed>>
userVars == <<pc, sends, calls>>
connVars == <<state, reading, raced, streamVars, kernelVars, loopVars, serverVars,
              endVars, userVars>>

Functor(f, bytes) == [f |-> f, bytes |-> bytes]
Message(n, len) == [i \in 1..len |-> n]

ConnectionInit ==
    /\ state = "kConnecting" /\ reading = FALSE /\ writing = FALSE /\ channel = "new"
    /\ output = <<>> /\ wire = <<>> /\ accepted = <<>>
    /\ pending = <<Functor("connectEstablished", <<>>)>> /\ batch = <<>>
    /\ revents = {} /\ phase = "poll"
    /\ inMap = TRUE /\ erasing = 0 /\ server = "up" /\ ioQuit = FALSE
    /\ fin = FALSE /\ peer = "open" /\ soError = FALSE /\ incoming = 0
    /\ pc = [u \in Users |-> "idle"] /\ sends = 0 /\ calls = 0 /\ reads = 0
    /\ failed = FALSE /\ dangling = FALSE /\ downs = 0 /\ destroyed = 0 /\ raced = FALSE

-----------------------------------------------------------------------------
(* Sending.  The kernel takes some first bytes, none when it has no room; it
   refuses all (EPIPE) after shutdownWrite() or a reset. *)
Broken == fin \/ peer = "reset"

WriteDirectly(bytes) == \E k \in 0..Len(bytes) :
    /\ wire' = wire \o SubSeq(bytes, 1, k)
    /\ output' = SubSeq(bytes, k + 1, Len(bytes))
    /\ writing' = (k < Len(bytes))

Enqueue(bytes) == output' = output \o bytes /\ writing' = TRUE /\ UNCHANGED wire

IsIdle == ~writing /\ output = <<>>

sendInLoop(bytes) ==
    \/ /\ state = "kDisconnected" \/ (IsIdle /\ Broken)
       /\ UNCHANGED streamVars
    \/ /\ state # "kDisconnected" /\ IsIdle /\ ~Broken
       /\ WriteDirectly(bytes)
       /\ accepted' = accepted \o bytes
    \/ /\ state # "kDisconnected" /\ ~IsIdle
       /\ Enqueue(bytes)
       /\ accepted' = accepted \o bytes

MayShut == ~writing
shutdownInLoop == fin' = (fin \/ MayShut)

-----------------------------------------------------------------------------
(* Closing.  The close callback is bound to the raw server ("FIXME: unsafe"), which
   it tells to forget the connection, in the server's loop. *)
Closed ==
    /\ state' = "kDisconnected" /\ reading' = FALSE /\ writing' = FALSE
    /\ downs' = downs + 1

handleClose ==
    /\ Closed
    /\ \/ server # "gone" /\ erasing' = erasing + 1 /\ UNCHANGED dangling
       \/ server = "gone" /\ dangling' = TRUE /\ UNCHANGED erasing
    /\ UNCHANGED <<output, wire, accepted, channel, failed, destroyed, inMap, server, ioQuit>>

IsOpen_Always == TRUE
IsOpen == state \in {"kConnected", "kDisconnecting"}

(* The assert of Channel::remove(): there is no event left. *)
connectDestroyed ==
    /\ destroyed' = destroyed + 1 /\ channel' = "removed"
    /\ IF state = "kConnected" THEN Closed /\ UNCHANGED failed
       ELSE /\ failed' = (reading \/ writing)
            /\ UNCHANGED <<state, reading, writing, downs>>
    /\ UNCHANGED <<output, wire, accepted, dangling, serverVars>>

-----------------------------------------------------------------------------
(* The functors of the I/O loop. *)
Run(g) ==
    \/ /\ g.f = "connectEstablished"
       /\ state' = "kConnected" /\ reading' = TRUE /\ channel' = "added"
       /\ UNCHANGED <<streamVars, fin, serverVars, failed, dangling, downs, destroyed>>
    \/ /\ g.f = "sendInLoop" /\ sendInLoop(g.bytes)
       /\ UNCHANGED <<state, reading, fin, serverVars, endVars>>
    \/ /\ g.f = "shutdownInLoop" /\ shutdownInLoop
       /\ UNCHANGED <<state, reading, streamVars, serverVars, endVars>>
    \/ /\ g.f = "forceCloseInLoop" /\ IsOpen /\ handleClose
       /\ UNCHANGED fin
    \/ /\ g.f = "forceCloseInLoop" /\ ~IsOpen
       /\ UNCHANGED <<state, reading, streamVars, fin, serverVars, endVars>>
    \/ /\ g.f = "connectDestroyed" /\ connectDestroyed
       /\ UNCHANGED fin

RunFunctor ==
    /\ phase = "functors" /\ batch # <<>>
    /\ Run(Head(batch))
    /\ batch' = Tail(batch)
    /\ UNCHANGED <<pending, revents, phase, raced, peer, soError, incoming, reads, userVars>>

(* doPendingFunctors swaps the queue out once the events are handled. *)
SwapFunctors ==
    /\ phase = "events" /\ revents = {}
    /\ phase' = "functors" /\ batch' = pending /\ pending' = <<>>
    /\ UNCHANGED <<state, reading, raced, revents, streamVars, kernelVars, serverVars,
                   endVars, userVars>>

(* ... and the loop ends if it has been asked to: what was queued since is lost. *)
FunctorsDone ==
    /\ phase = "functors" /\ batch = <<>>
    /\ phase' = IF ioQuit THEN "ended" ELSE "poll"
    /\ UNCHANGED <<state, reading, raced, pending, batch, revents, streamVars, kernelVars,
                   serverVars, endVars, userVars>>

(* What the kernel reports of a channel whose events it watches. *)
Ready == {e \in {"ERR", "IN", "OUT"} :
            \/ e = "ERR" /\ soError /\ (reading \/ writing)
            \/ e = "IN" /\ reading /\ (incoming > 0 \/ peer # "open")
            \/ e = "OUT" /\ writing}

Poll ==
    /\ phase = "poll" /\ (Ready # {} \/ pending # <<>> \/ ioQuit)
    /\ phase' = "events" /\ revents' = Ready
    /\ UNCHANGED <<state, reading, raced, pending, batch, streamVars, kernelVars,
                   serverVars, endVars, userVars>>

-----------------------------------------------------------------------------
(* The handlers, in the order of handleEventWithGuard. *)
handleError ==
    /\ phase = "events" /\ "ERR" \in revents
    /\ soError' = FALSE
    /\ revents' = revents \ {"ERR"}
    /\ UNCHANGED <<state, reading, raced, pending, batch, phase, fin, peer, incoming, reads,
                   streamVars, serverVars, endVars, userVars>>

InFirst == phase = "events" /\ "IN" \in revents /\ "ERR" \notin revents

(* handleRead, a message: what its callback does with the connection. *)
ReadMessage ==
    /\ InFirst /\ incoming > 0
    /\ incoming' = incoming - 1 /\ revents' = revents \ {"IN"}
    /\ \/ /\ UNCHANGED <<state, streamVars, fin, pending, sends>>
       \/ /\ sends < MaxMessages /\ state = "kConnected"
          /\ \E len \in MessageLens : sendInLoop(Message(sends + 1, len))
          /\ sends' = sends + 1
          /\ UNCHANGED <<state, fin, pending>>
       \/ /\ state = "kConnected" /\ state' = "kDisconnecting" /\ shutdownInLoop
          /\ UNCHANGED <<streamVars, pending, sends>>
       \/ /\ IsOpen /\ state' = "kDisconnecting"
          /\ pending' = Append(pending, Functor("forceCloseInLoop", <<>>))
          /\ UNCHANGED <<streamVars, fin, sends>>
    /\ UNCHANGED <<reading, raced, batch, phase, peer, soError, reads, serverVars, endVars,
                   pc, calls>>

(* handleRead, 0: the peer has closed, or its reset was told before. *)
ReadEnd ==
    /\ InFirst /\ ~soError
    /\ peer = "reset" \/ (peer = "closed" /\ incoming = 0)
    /\ revents' = revents \ {"IN"}
    /\ IF IsOpen THEN handleClose /\ UNCHANGED raced
       ELSE /\ failed' = TRUE
            /\ UNCHANGED <<state, reading, raced, streamVars, channel, dangling, downs,
                           destroyed, serverVars>>
    /\ UNCHANGED <<pending, batch, phase, kernelVars, userVars>>

(* handleRead, -1: ECONNRESET. *)
ReadError ==
    /\ InFirst /\ peer = "reset" /\ soError
    /\ soError' = FALSE /\ revents' = revents \ {"IN"}
    /\ UNCHANGED <<state, reading, raced, pending, batch, phase, fin, peer, incoming, reads,
                   streamVars, serverVars, endVars, userVars>>

(* handleWrite.  POLLOUT promises room for a byte; a broken pipe takes none. *)
Written(k) == SubSeq(output, k + 1, Len(output))
Drained(rest) == rest = <<>>
Finishes_Never(rest) == FALSE
Finishes(rest) == Drained(rest) /\ state = "kDisconnecting"

handleWrite ==
    /\ phase = "events" /\ "OUT" \in revents /\ revents \subseteq {"OUT"}
    /\ revents' = {}
    /\ IF writing /\ ~Broken
       THEN \E k \in 1..Len(output) :
              /\ wire' = wire \o SubSeq(output, 1, k)
              /\ output' = Written(k)
              /\ writing' = ~Drained(output')
              /\ fin' = (fin \/ Finishes(output'))
       ELSE UNCHANGED <<wire, output, writing, fin>>
    /\ UNCHANGED <<state, reading, raced, pending, batch, phase, accepted, peer, soError,
                   incoming, reads, serverVars, endVars, userVars>>

-----------------------------------------------------------------------------
(* The users: each tests state_, then acts on what it saw. *)
Test(u) ==
    /\ pc[u] = "idle"
    /\ \E what \in {"send", "shutdown", "forceClose"} :
         /\ state = "kConnected" \/ (what = "forceClose" /\ IsOpen)
         /\ pc' = [pc EXCEPT ![u] = what]
         /\ \/ what = "send" /\ sends < MaxMessages /\ sends' = sends + 1 /\ UNCHANGED calls
            \/ what # "send" /\ calls < MaxCalls /\ calls' = calls + 1 /\ UNCHANGED sends
    /\ UNCHANGED <<state, reading, raced, streamVars, kernelVars, loopVars, serverVars, endVars>>

QueueInLoop(g) == pending' = Append(pending, g) /\ UNCHANGED <<batch, revents, phase>>
runInLoop(g) ==
    \/ phase # "ended" /\ QueueInLoop(g) /\ UNCHANGED dangling
    \/ phase = "ended" /\ dangling' = TRUE /\ UNCHANGED loopVars

send(u) ==
    /\ pc[u] = "send" /\ pc' = [pc EXCEPT ![u] = "idle"]
    /\ \E len \in MessageLens : runInLoop(Functor("sendInLoop", Message(sends, len)))
    /\ UNCHANGED <<state, reading, raced, streamVars, kernelVars, serverVars, channel, failed,
                   downs, destroyed, sends, calls>>

(* setState(kDisconnecting), which may now undo a kDisconnected: raced. *)
Disconnecting(u) ==
    /\ pc[u] \in {"shutdown", "forceClose"} /\ pc' = [pc EXCEPT ![u] = "idle"]
    /\ state' = "kDisconnecting" /\ raced' = (raced \/ state = "kDisconnected")
    /\ runInLoop(Functor(IF pc[u] = "shutdown" THEN "shutdownInLoop"
                         ELSE "forceCloseInLoop", <<>>))
    /\ UNCHANGED <<reading, streamVars, kernelVars, serverVars, channel, failed, downs,
                   destroyed, sends, calls>>

-----------------------------------------------------------------------------
(* The server, in its loop, and the functors bound to it there, which wait while
   its destructor runs and find it gone afterwards. *)
removeConnectionInLoop ==
    /\ erasing > 0 /\ erasing' = erasing - 1
    /\ \/ /\ server = "up" /\ inMap' = FALSE /\ failed' = ~inMap
          /\ QueueInLoop(Functor("connectDestroyed", <<>>))
          /\ UNCHANGED dangling
       \/ server = "gone" /\ dangling' = TRUE /\ UNCHANGED <<inMap, failed, loopVars>>
    /\ UNCHANGED <<state, reading, raced, streamVars, kernelVars, server, ioQuit, channel,
                   downs, destroyed, userVars>>

DestroyServer ==
    /\ server = "up" /\ server' = "going" /\ inMap' = FALSE
    /\ \/ inMap /\ QueueInLoop(Functor("connectDestroyed", <<>>))
       \/ ~inMap /\ UNCHANGED loopVars
    /\ UNCHANGED <<state, reading, raced, streamVars, kernelVars, erasing, ioQuit, endVars,
                   userVars>>

(* The pool goes with the server, or later if threadPool() has given it to someone:
   each loop is asked to quit, and the pool's owner waits for its thread. *)
QuitLoop ==
    /\ server # "up" /\ ~ioQuit /\ ioQuit' = TRUE
    /\ UNCHANGED <<state, reading, raced, streamVars, kernelVars, loopVars, inMap, erasing,
                   server, endVars, userVars>>
ServerDestroyed ==
    /\ server = "going" /\ (ioQuit => phase = "ended") /\ server' = "gone"
    /\ UNCHANGED <<state, reading, raced, streamVars, kernelVars, loopVars, inMap, erasing,
                   ioQuit, endVars, userVars>>
Destruction == DestroyServer \/ QuitLoop \/ ServerDestroyed

(* The peer sends, and ends: it closes, or resets, and what is not read is lost. *)
Peer ==
    /\ peer = "open" /\ channel = "added"
    /\ \/ /\ reads < MaxReads /\ reads' = reads + 1 /\ incoming' = incoming + 1
          /\ UNCHANGED <<peer, soError>>
       \/ peer' = "closed" /\ reads' = MaxReads /\ UNCHANGED <<soError, incoming>>
       \/ peer' = "reset" /\ reads' = MaxReads /\ soError' = TRUE /\ incoming' = 0
    /\ UNCHANGED <<state, reading, raced, fin, streamVars, loopVars, serverVars, endVars,
                   userVars>>

Loop == Poll \/ handleError \/ ReadMessage \/ ReadEnd \/ ReadError \/ handleWrite
        \/ SwapFunctors \/ RunFunctor \/ FunctorsDone

ConnectionNext ==
    /\ ~failed /\ ~dangling
    /\ \/ Loop \/ removeConnectionInLoop \/ Destruction \/ Peer
       \/ \E u \in Users : Test(u) \/ send(u) \/ Disconnecting(u)

ConnectionSpec == ConnectionInit /\ [][ConnectionNext]_connVars

-----------------------------------------------------------------------------
ConnectionTypeOK ==
    /\ state \in {"kDisconnected", "kConnecting", "kConnected", "kDisconnecting"}
    /\ channel \in {"new", "added", "removed"} /\ server \in {"up", "going", "gone"}
    /\ phase \in {"poll", "events", "functors", "ended"}
    /\ reading \in BOOLEAN /\ writing \in BOOLEAN /\ fin \in BOOLEAN
    /\ peer \in {"open", "closed", "reset"} /\ revents \subseteq {"ERR", "IN", "OUT"}

(* TcpConnection.cc:138-191 and 337-375: the bytes the kernel has and those in
   the buffer are the messages accepted, whole and in order; the kernel is asked
   for room exactly while bytes wait, and the end of the stream comes after them. *)
StreamKept ==
    /\ wire \o output = accepted
    /\ (state # "kDisconnected" /\ ~raced) => (writing <=> output # <<>>)
    /\ fin /\ ~raced => output = <<>> \/ state = "kDisconnected"

(* TcpConnection.cc:303 and 377, TcpServer.cc:41 and 110: unless a thread has put
   kDisconnecting over a kDisconnected, the application hears of one end and the
   connection is destroyed once, in the state that its destructor asserts.  The one
   assert that fails is that of Channel::remove(), and only because ~TcpServer has
   destroyed a connection that was closing: connectDestroyed tests for kConnected
   alone.  Nothing that is gone is used as long as the server is there. *)
OneEnd ==
    ~raced => /\ downs <= 1 /\ destroyed <= 1
              /\ failed => server # "up" /\ state = "kDisconnecting" /\ destroyed = 1
              /\ dangling => server # "up"
              /\ destroyed = 1 /\ ~failed => state = "kDisconnected" /\ ~reading /\ ~writing

(* TcpConnection.cc: the stream has the accepted bytes in order, and a connection
   ends once unless two threads race for its state, or the server for its end. *)
ConnectionKept == ConnectionTypeOK /\ StreamKept /\ OneEnd

(* TcpServer.cc:117, TcpConnection.cc:381, Channel.cc:61: the asserts hold,
   whichever thread calls shutdown() or forceClose() and whenever the server goes,
   of which no comment warns. *)
AssertsHold == ~failed

(* TcpConnection.cc: bytes that wait are sent, a shutdown() reaches the peer and
   a closed connection is destroyed, unless the connection ends first, or is cut
   off by the server's destructor: at the assert of which OneEnd speaks, by a use
   of what is gone, or because its loop has quit with functors in the queue. *)
CutOff == failed \/ dangling \/ phase = "ended"
BytesGetOut == output # <<>> ~> (output = <<>> \/ state = "kDisconnected" \/ raced \/ CutOff)
ShutdownReaches == state = "kDisconnecting" ~> (fin \/ state = "kDisconnected" \/ raced \/ CutOff)
CloseCompletes == state = "kDisconnected" ~> (destroyed > 0 \/ raced \/ CutOff)
ConnectionEnds == BytesGetOut /\ ShutdownReaches /\ CloseCompletes
=============================================================================
