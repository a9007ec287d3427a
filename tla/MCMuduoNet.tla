------------------------------- MODULE MCMuduoNet -------------------------------
(* The parts of muduo's network library, for TLC: part, which never changes, is
   the one that a behaviour is about, and the others stay as they begin. *)
EXTENDS TcpConnection, Pollers

CONSTANTS Callers, MaxClientCalls, kInitRetryDelayMs, kMaxRetryDelayMs, Retry,
          Threads, MaxFunctors
VARIABLES part,
          clientConnect, connection, dying, connect, connectorState, connectorChannel, polled,
          delay, timers, connectorPending, connectorBatch, connectorActive, connectorPhase,
          closing, open, todo, clientCalls, gaveUp, connectorFailed,
          quit, eventfd, loopPending, loopBatch, calling, loopSet, lpc, opc, threadPc, made,
          called, early

Client == INSTANCE Connector WITH
    MaxCalls <- MaxClientCalls, state <- connectorState, channel <- connectorChannel,
    pending <- connectorPending, batch <- connectorBatch, active <- connectorActive,
    phase <- connectorPhase, calls <- clientCalls, failed <- connectorFailed
Thread == INSTANCE EventLoop WITH pending <- loopPending, batch <- loopBatch, pc <- threadPc

clientVars == <<clientConnect, connection, dying, connect, connectorState, connectorChannel,
                polled, delay, timers, connectorPending, connectorBatch, connectorActive,
                connectorPhase, closing, open, todo, clientCalls, gaveUp, connectorFailed>>
threadVars == <<quit, eventfd, loopPending, loopBatch, calling, loopSet, lpc, opc, threadPc,
                made, called, early>>
vars == <<part, connVars, pollerVars, clientVars, threadVars>>

Init == /\ part \in {"connection", "pollers", "client", "loop"}
        /\ ConnectionInit /\ Client!Init /\ Thread!LoopInit
        /\ PollersInit /\ (part # "pollers" => kind = "epoll")

Next ==
    /\ part' = part
    /\ \/ /\ part = "connection" /\ ConnectionNext
          /\ UNCHANGED <<pollerVars, clientVars, threadVars>>
       \/ /\ part = "pollers" /\ PollersNext
          /\ UNCHANGED <<connVars, clientVars, threadVars>>
       \/ /\ part = "client" /\ Client!ConnectorNext
          /\ UNCHANGED <<connVars, pollerVars, threadVars>>
       \/ /\ part = "loop" /\ Thread!LoopNext
          /\ UNCHANGED <<connVars, pollerVars, clientVars>>

ClientRuns == part = "client" /\ ~connectorFailed
Spec ==
    /\ Init /\ [][Next]_vars
    /\ WF_connVars(part = "connection" /\ ~failed /\ Loop)
    /\ WF_connVars(part = "connection" /\ ~failed /\ removeConnectionInLoop)
    /\ WF_clientVars(ClientRuns /\ Client!Loop)
    /\ \A e \in {"timer", "channel"} :
         SF_clientVars(ClientRuns /\ Client!Poll /\ e \in connectorActive')
    /\ \A c \in Callers : WF_clientVars(ClientRuns /\ Client!Step(c))
    /\ WF_threadVars(part = "loop" /\ Thread!LoopThread)
    /\ WF_threadVars(part = "loop" /\ Thread!Owner)
    /\ \A t \in Threads : WF_threadVars(part = "loop" /\ Thread!wakeup(t))

(* Connector.cc: no descriptor leaks, no second attempt and no forgotten retry,
   and an attempt follows a failure for as long as one is wanted. *)
ClientTries ==
    [](Client!TypeOK /\ Client!OneSocket /\ Client!RetryPending) /\ Client!KeepsTrying
(* EventLoop.cc: functors are called once, in order, without a lost wake-up, and
   quit() ends the loop. *)
LoopServes ==
    /\ [](Thread!LoopTypeOK /\ Thread!NoLostWakeup)
    /\ Thread!ImplementsExecutor
    /\ Thread!Served /\ Thread!JoinReturns
(* Connector.cc:54 and 124: the asserts hold. *)
ClientAsserts == Client!AssertsHold
===============================================================================
