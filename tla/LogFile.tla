-------------------------------- MODULE LogFile --------------------------------
(***************************************************************************)
(* muduo::LogFile and the AppendFile below it: when a log file is flushed  *)
(* and when the next one is opened.  A file is named after the second it   *)
(* is opened in, now is that second; a period is a day of the code.        *)
(***************************************************************************)
EXTENDS Integers, Sequences

CONSTANTS
    RollSize,        \* rollSize_
    FlushInterval,   \* flushInterval_
    CheckEveryN,     \* checkEveryN_
    RollPerSeconds,  \* kRollPerSeconds_
    Lens,            \* the lengths of lines
    MaxNow, MaxBytes \* bounds

ASSUME LogFileAssumption ==
    /\ RollPerSeconds \in Nat \ {0} /\ CheckEveryN \in Nat \ {0} /\ FlushInterval \in Nat
    /\ Lens \subseteq Nat /\ MaxNow \in Nat \ {0}

VARIABLES
    now,                              \* time(NULL)
    count,                            \* count_
    startOfPeriod, lastRoll, lastFlush,
    opened,                           \* the names of the files that were opened
    writtenBytes,                     \* of the open file
    late,                             \* history: its lines from a later period
    unflushed                         \* history: when its oldest unflushed line came

logVars == <<now, count, startOfPeriod, lastRoll, lastFlush, opened, writtenBytes, late,
             unflushed>>
None == -1
PeriodOf(t) == (t \div RollPerSeconds) * RollPerSeconds

(* rollFile(): the second file of a second would have the name of the first. *)
MayRoll == now > lastRoll
rollFile ==
    IF MayRoll
    THEN /\ lastRoll' = now /\ lastFlush' = now /\ startOfPeriod' = PeriodOf(now)
         /\ opened' = Append(opened, now) /\ writtenBytes' = 0
         /\ late' = 0 /\ unflushed' = None     \* the old file is closed
    ELSE UNCHANGED <<lastRoll, lastFlush, startOfPeriod, opened>>

LogInit ==
    /\ now = 1 /\ count = 0 /\ late = 0 /\ unflushed = None
    /\ lastRoll = 1 /\ lastFlush = 1 /\ startOfPeriod = PeriodOf(1)
    /\ opened = <<1>> /\ writtenBytes = 0

Tick == now < MaxNow /\ now' = now + 1
        /\ UNCHANGED <<count, startOfPeriod, lastRoll, lastFlush, opened, writtenBytes,
                       late, unflushed>>

(* append_unlocked: the size first, the clock at every CheckEveryN-th line. *)
TooLong(len) == writtenBytes + len > RollSize
Due_OneLater == count + 1 > CheckEveryN
Due == count + 1 >= CheckEveryN
Stays(len) ==
    /\ writtenBytes' = writtenBytes + len
    /\ late' = IF PeriodOf(now) # startOfPeriod THEN late + 1 ELSE late
    /\ UNCHANGED <<startOfPeriod, lastRoll, opened>>
Older(t) == now - t > FlushInterval
append_unlocked(len) ==
    /\ writtenBytes + len <= MaxBytes /\ UNCHANGED now
    /\ \/ /\ TooLong(len) /\ rollFile /\ UNCHANGED count
          /\ ~MayRoll => /\ writtenBytes' = writtenBytes + len /\ UNCHANGED late
                         /\ unflushed' = IF unflushed = None THEN now ELSE unflushed
       \/ /\ ~TooLong(len) /\ ~Due /\ count' = count + 1 /\ Stays(len)
          /\ unflushed' = IF unflushed = None THEN now ELSE unflushed
          /\ UNCHANGED lastFlush
       \/ /\ ~TooLong(len) /\ Due /\ count' = 0
          /\ IF PeriodOf(now) # startOfPeriod THEN rollFile
             ELSE /\ Stays(len)
                  /\ IF Older(lastFlush)
                     THEN lastFlush' = now /\ unflushed' = None
                     ELSE /\ UNCHANGED lastFlush
                          /\ unflushed' = IF unflushed = None THEN now ELSE unflushed

flush ==
    /\ unflushed' = None
    /\ UNCHANGED <<now, count, startOfPeriod, lastRoll, lastFlush, opened, writtenBytes, late>>

LogNext == Tick \/ (\E len \in Lens : append_unlocked(len)) \/ flush
LogSpec == LogInit /\ [][LogNext]_logVars

-------------------------------------------------------------------------------
LogTypeOK ==
    /\ now \in 1..MaxNow /\ count \in 0..(CheckEveryN - 1)
    /\ startOfPeriod = PeriodOf(lastRoll) /\ lastRoll <= lastFlush /\ lastFlush <= now
    /\ opened[Len(opened)] = lastRoll

(* No two files get the same name: a roll never appends to a file that was
   rolled away, although every long line asks for a roll. *)
NamesDiffer == \A i, j \in DOMAIN opened : i < j => opened[i] < opened[j]

(* The clock is looked at only at some lines, and those that fill a file are
   not counted: still fewer than CheckEveryN lines of a later period follow in
   the file of an earlier one before the next is opened. *)
FewLateLines == late < CheckEveryN

(* flushInterval_ holds at the lines where the clock is looked at: when the count
   starts again nothing that is still in the buffer is older. *)
NoOldLine ==
    [][count' = 0 /\ count # 0 =>
          unflushed' = None \/ now' - unflushed' <= FlushInterval]_logVars

(* LogFile.cc:61-105: no two files have one name, a file takes few lines past its
   period, and what is looked at is not too old. *)
LogRolls == [](LogTypeOK /\ NamesDiffer /\ FewLateLines) /\ NoOldLine
===============================================================================
