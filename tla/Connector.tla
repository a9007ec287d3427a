------------------------------- MODULE Connector -------------------------------
(***************************************************************************)
(* A Connector and the TcpClient that owns it (src/muduo/net/Connector.cc  *)
(* and TcpClient.cc:106-182), with their loop: attempts to connect, their  *)
(* failures and retries, the connection and its loss, and the calls        *)
(* connect(), disconnect() and stop() of other threads, which set two      *)
(* flags with no lock and queue a functor.  The connection itself, from    *)
(* connectEstablished() to its close callback, is in TcpConnection.        *)
(***************************************************************************)
EXTENDS Naturals, FiniteSets, SequencesExt

CONSTANTS Callers,           \* the threads that use the client
          MaxCalls,          \* bound: their calls
          kInitRetryDelayMs, kMaxRetryDelayMs,
          Retry              \* retry_

Sockets == 1..3              \* bound: the descriptors open at a time
Calls == {"connect", "disconnect", "stop"}

VARIABLES
  clientConnect, \* TcpClient::connect_
  connection,    \* the socket of TcpClient::connection_, 0 when there is none
  dying,         \* the sockets of the connections that wait for connectDestroyed
  connect,       \* Connector::connect_
  state,         \* state_
  channel,       \* the socket of channel_, 0 when there is none
  polled,        \* the loop has the channel
  delay,         \* retryDelayMs_
  timers,        \* startInLoop's that wait for their time
  pending, batch, active, phase,   \* the loop
  closing,       \* removeConnection is between its test and restart()
  open,          \* the descriptors that are open
  todo,          \* todo[c]: the rest of the call of c
  calls,         \* bound
  gaveUp,        \* history: the last connect(2) has failed for good
  failed         \* an assert has failed

connectorVars == <<connect, state, channel, polled, delay, timers, open, gaveUp>>
queueVars == <<pending, batch, active, phase>>
clientVars == <<clientConnect, connection, dying, closing>>
callVars == <<todo, calls>>
vars == <<connectorVars, queueVars, clientVars, callVars, failed>>

Init ==
    /\ clientConnect = TRUE /\ connection = 0 /\ dying = {} /\ closing = FALSE
    /\ connect = FALSE /\ state = "kDisconnected" /\ channel = 0 /\ polled = FALSE
    /\ delay = kInitRetryDelayMs /\ timers = 0 /\ open = {} /\ gaveUp = FALSE
    /\ pending = <<>> /\ batch = <<>> /\ active = {} /\ phase = "poll"
    /\ todo = [c \in Callers |-> <<>>] /\ calls = 0 /\ failed = FALSE

-----------------------------------------------------------------------------
Doubled(d) == IF 2 * d < kMaxRetryDelayMs THEN 2 * d ELSE kMaxRetryDelayMs

(* connect(2) in startInLoop(): it goes on, fails for now or fails for good.  d is
   the delay and t the timers that wait before the call. *)
NewSocket == CHOOSE s \in Sockets : s \notin open
InProgress(d, t) ==
    /\ failed' = (channel # 0)
    /\ channel' = NewSocket /\ polled' = TRUE /\ open' = open \cup {NewSocket}
    /\ state' = "kConnecting" /\ delay' = d /\ timers' = t /\ gaveUp' = FALSE
FailsNow(d, t) ==
    /\ state' = "kDisconnected" /\ delay' = Doubled(d) /\ timers' = t + 1
    /\ gaveUp' = FALSE /\ UNCHANGED <<channel, polled, open, failed>>
FailsForGood(d, t) ==
    /\ gaveUp' = TRUE /\ state' = "kDisconnected" /\ delay' = d /\ timers' = t
    /\ UNCHANGED <<channel, polled, open, failed>>

startInLoop(st, wanted, d, t) ==
    IF st = "kDisconnected" /\ wanted
    THEN InProgress(d, t) \/ FailsNow(d, t) \/ FailsForGood(d, t)
    ELSE /\ failed' = (st # "kDisconnected") /\ state' = st /\ delay' = d /\ timers' = t
         /\ UNCHANGED <<channel, polled, open, gaveUp>>

(* retry(): a timer only if a connection is still wanted. *)
Retries_Never == FALSE
Retries == connect
retry(s) ==
    /\ open' = open \ {s} /\ state' = "kDisconnected"
    /\ timers' = IF Retries THEN timers + 1 ELSE timers
    /\ delay' = IF Retries THEN Doubled(delay) ELSE delay

removeAndResetChannel ==
    /\ polled' = FALSE
    /\ pending' = Append(pending, "resetChannel")
    /\ UNCHANGED channel

-----------------------------------------------------------------------------
(* The functors. *)
StopsOne == state = "kConnecting"
stopInLoop ==
    IF StopsOne
    THEN removeAndResetChannel /\ retry(channel) /\ UNCHANGED <<connect, gaveUp>>
    ELSE UNCHANGED <<connectorVars, pending>>

Run(f) ==
    \/ /\ f = "startInLoop" /\ startInLoop(state, connect, delay, timers)
       /\ UNCHANGED <<connect, pending, dying>>
    \/ /\ f = "stopInLoop" /\ stopInLoop /\ UNCHANGED <<failed, dying>>
    \/ /\ f = "resetChannel" /\ channel' = 0
       /\ UNCHANGED <<connect, state, polled, delay, timers, open, gaveUp, failed, pending,
                      dying>>
    \/ /\ f = "connectDestroyed"
       /\ \E s \in dying : dying' = dying \ {s} /\ open' = open \ {s}
       /\ UNCHANGED <<connect, state, channel, polled, delay, timers, gaveUp, failed, pending>>

RunFunctor ==
    /\ phase = "functors" /\ batch # <<>>
    /\ Run(Head(batch)) /\ batch' = Tail(batch)
    /\ UNCHANGED <<active, phase, clientConnect, connection, closing, callVars>>

Ready == {e \in {"channel", "connection", "timer"} :
            \/ e = "channel" /\ polled
            \/ e = "connection" /\ connection # 0
            \/ e = "timer" /\ timers > 0}
Poll ==
    /\ phase = "poll"
    /\ \E now \in SUBSET Ready : active' = now /\ (now # {} \/ pending # <<>>)
    /\ phase' = "events"
    /\ UNCHANGED <<connectorVars, pending, batch, clientVars, callVars, failed>>

SwapFunctors ==
    /\ phase = "events" /\ active = {} /\ ~closing
    /\ phase' = "functors" /\ batch' = pending /\ pending' = <<>>
    /\ UNCHANGED <<connectorVars, active, clientVars, callVars, failed>>

FunctorsDone ==
    /\ phase = "functors" /\ batch = <<>> /\ phase' = "poll"
    /\ UNCHANGED <<connectorVars, pending, batch, active, clientVars, callVars, failed>>

-----------------------------------------------------------------------------
(* The handlers; the loop has those of one poll in any order. *)
Handles(e) ==
    /\ phase = "events" /\ e \in active /\ ~closing /\ active' = active \ {e}
    /\ UNCHANGED <<batch, phase, callVars, clientConnect>>

TimerFires ==
    /\ Handles("timer")
    /\ startInLoop(state, connect, delay, timers - 1)
    /\ UNCHANGED <<connect, pending, connection, dying, closing>>

(* The attempt has failed: handleError, or the error that handleWrite finds. *)
AttemptFails ==
    /\ Handles("channel") /\ state = "kConnecting"
    /\ removeAndResetChannel /\ retry(channel)
    /\ UNCHANGED <<connect, gaveUp, failed, connection, dying, closing>>

(* handleWrite, connected. *)
handleWrite ==
    /\ Handles("channel") /\ state = "kConnecting"
    /\ removeAndResetChannel /\ state' = "kConnected"
    /\ IF connect THEN connection' = channel /\ UNCHANGED open
       ELSE open' = open \ {channel} /\ UNCHANGED connection
    /\ UNCHANGED <<connect, delay, timers, gaveUp, failed, dying, closing>>

(* removeConnection, up to the test of retry_ and connect_. *)
Reconnects == Retry /\ clientConnect
removeConnection ==
    /\ Handles("connection")
    /\ connection' = 0 /\ dying' = dying \cup {connection}
    /\ pending' = Append(pending, "connectDestroyed")
    /\ closing' = Reconnects
    /\ UNCHANGED <<connectorVars, failed>>

restart ==
    /\ closing /\ closing' = FALSE
    /\ connect' = TRUE
    /\ startInLoop("kDisconnected", TRUE, kInitRetryDelayMs, timers)
    /\ UNCHANGED <<queueVars, clientConnect, connection, dying, callVars>>

-----------------------------------------------------------------------------
(* The calls, step by step. *)
StepsOf(call) == CASE call = "connect" -> <<"want", "wantAttempts", "startInLoop">>
                   [] call = "disconnect" -> <<"unwant">>
                   [] call = "stop" -> <<"unwant", "unwantAttempts", "stopInLoop">>

Call(c) ==
    /\ todo[c] = <<>> /\ calls < MaxCalls /\ calls' = calls + 1
    /\ \E call \in Calls : todo' = [todo EXCEPT ![c] = StepsOf(call)]
    /\ UNCHANGED <<connectorVars, queueVars, clientVars, failed>>

Step(c) ==
    /\ todo[c] # <<>> /\ todo' = [todo EXCEPT ![c] = Tail(@)]
    /\ LET step == Head(todo[c]) IN
       /\ clientConnect' = IF step \in {"want", "unwant"} THEN step = "want" ELSE clientConnect
       /\ connect' = IF step \in {"wantAttempts", "unwantAttempts"}
                     THEN step = "wantAttempts" ELSE connect
       /\ pending' = IF step \in {"startInLoop", "stopInLoop"}
                     THEN Append(pending, step) ELSE pending
    /\ UNCHANGED <<state, channel, polled, delay, timers, open, gaveUp, batch, active, phase,
                   connection, dying, closing, calls, failed>>

Loop == Poll \/ SwapFunctors \/ RunFunctor \/ FunctorsDone
        \/ TimerFires \/ AttemptFails \/ handleWrite \/ removeConnection \/ restart

ConnectorNext == ~failed /\ (Loop \/ \E c \in Callers : Call(c) \/ Step(c))
ConnectorSpec == Init /\ [][ConnectorNext]_vars

-----------------------------------------------------------------------------
Waits == connect /\ state = "kDisconnected" /\ ~gaveUp /\ ~failed
Queued(f) == \E i \in 1..Len(pending \o batch) : (pending \o batch)[i] = f

TypeOK ==
    /\ state \in {"kDisconnected", "kConnecting", "kConnected"}
    /\ channel \in 0..3 /\ connection \in 0..3 /\ open \subseteq Sockets
    /\ delay \in kInitRetryDelayMs..kMaxRetryDelayMs /\ timers \in Nat

(* Connector.cc:119-227, TcpClient.cc:134-182: every open descriptor is the one
   being connected, the connection's or that of a connection about to go; there is
   no attempt beside a connection, and an old channel object has its reset queued. *)
OneSocket ==
    /\ open = {s \in Sockets : \/ s = channel /\ polled
                              \/ s = connection
                              \/ s \in dying}
    /\ ~failed => /\ polled <=> state = "kConnecting"
                  /\ polled => connection = 0
                  /\ (channel # 0 /\ ~polled) <=> Queued("resetChannel")

(* Connector.cc:211: no retry is forgotten: while attempts are wanted and none is
   under way, one waits for its time or its turn. *)
RetryPending ==
    Waits =>
        \/ timers > 0 \/ Queued("startInLoop")
        \/ \E c \in Callers : Contains(todo[c], "startInLoop")

(* Connector.cc: a client that stays wanting and without a connection tries
   again and again, and an attempt that is made ends. *)
KeepsTrying ==
    /\ <>[]Waits => []<><<TimerFires>>_vars
    /\ state = "kConnecting" ~> (state # "kConnecting" \/ failed)

(* Connector.cc:54: assert(state_ == kDisconnected), and the other asserts. *)
AssertsHold == ~failed
=============================================================================
