------------------------------ MODULE MCMuduoBase ------------------------------
(* The parts of muduo that stand alone, for TLC: part, which never changes, is
   the one that a behaviour is about, and the others stay as they begin. *)
EXTENDS Buffer, LogFile, ThreadPool, Times

CONSTANTS BufferSize, LineLens, KeepLimit, MaxLines
VARIABLES part,
          logging, latch, current, next, buffers, spare1, spare2, toWrite, thread, user,
          file, appendedLines, dropped, refused

Async == INSTANCE AsyncLogging WITH running <- logging, appended <- appendedLines

(* Europe and America have their hour forward twice; UTC has no transition. *)
Summers == <<<<180000, 2>>, <<360000, 1>>, <<540000, 2>>, <<720000, 1>>>>
Clocks(offset) == <<[gmtOffset |-> offset, isDst |-> FALSE],
                    [gmtOffset |-> offset + 3600, isDst |-> TRUE]>>
MCZones == {[transitions |-> Summers, localtimes |-> Clocks(7200)],
            [transitions |-> Summers, localtimes |-> Clocks(-18000)],
            [transitions |-> <<>>, localtimes |-> Clocks(0)]}
MCYears == (1902..1905) \cup (1968..1972) \cup (1999..2001) \cup {2037}

asyncVars == <<logging, latch, current, next, buffers, spare1, spare2, toWrite, thread,
               user, file, appendedLines, dropped, refused>>
dateVars == <<civil, weekday, julian>>
zoneVars == <<zone, clock, hand, dst>>
vars == <<part, bufferVars, logVars, poolVars, asyncVars, dateVars, zoneVars>>

Init ==
    /\ part \in {"buffer", "logfile", "pool", "async", "dates", "zone"}
    /\ BufferInit /\ LogInit /\ Async!AsyncInit /\ Dates!CalendarInit
    /\ PoolInit /\ (part # "pool" => class = "pool" /\ maxSize = 0)
    /\ Zone!ZoneInit /\ (part # "zone" => zone.transitions = <<>>)
Next ==
    /\ part' = part
    /\ \/ /\ part = "buffer" /\ BufferNext /\ Bounded
          /\ UNCHANGED <<logVars, poolVars, asyncVars, dateVars, zoneVars>>
       \/ /\ part = "logfile" /\ LogNext
          /\ UNCHANGED <<bufferVars, poolVars, asyncVars, dateVars, zoneVars>>
       \/ /\ part = "pool" /\ PoolNext
          /\ UNCHANGED <<bufferVars, logVars, asyncVars, dateVars, zoneVars>>
       \/ /\ part = "async" /\ Async!AsyncNext
          /\ UNCHANGED <<bufferVars, logVars, poolVars, dateVars, zoneVars>>
       \/ /\ part = "dates" /\ Dates!Turn
          /\ UNCHANGED <<bufferVars, logVars, poolVars, asyncVars, zoneVars>>
       \/ /\ part = "zone" /\ Zone!Walk
          /\ UNCHANGED <<bufferVars, logVars, poolVars, asyncVars, dateVars>>
Spec ==
    /\ Init /\ [][Next]_vars
    /\ \A t \in Threads : WF_poolVars(part = "pool" /\ Monitor(t))
    /\ WF_asyncVars(part = "async" /\ Async!threadFunc)

(* AsyncLogging.cc: the lines come out whole, in the order of append() and with a
   notice of those thrown away; two spare buffers at every round; what was
   appended before gets out, and stop() returns. *)
LinesWritten ==
    /\ [](Async!AsyncTypeOK /\ Async!InOrder /\ Async!NoLineLost /\ Async!SparesReady)
    /\ Async!GetsOut /\ Async!StopReturns
(* ThreadPool.cc, BlockingQueue.h, BoundedBlockingQueue.h: tasks are taken once,
   in order, no wake-up is lost, every task is taken while the pool runs, and
   stop() joins. *)
TasksTaken == [](PoolTypeOK /\ Fifo /\ NoLostWakeup) /\ EveryTaskTaken /\ StopJoins
===============================================================================
