----------------------------- MODULE AsyncLogging ------------------------------
(***************************************************************************)
(* muduo::AsyncLogging, the back end of the library's log: any thread      *)
(* appends lines to buffers under a mutex, one thread swaps the buffers    *)
(* out and writes them.  A line is its number; what a line and a buffer    *)
(* weigh matters, what they say does not.                                  *)
(***************************************************************************)
EXTENDS Integers, Sequences, SequencesExt, FiniteSetsExt

CONSTANTS
    BufferSize,   \* kLargeBuffer
    LineLens,     \* the lengths of lines
    KeepLimit,    \* 25: more buffers than this at a time are dropped but two
    MaxLines      \* bound

VARIABLES
    running,          \* running_
    latch,            \* count_ of latch_
    current,          \* currentBuffer_: [lines, used]
    next,             \* nextBuffer_ is there
    buffers,          \* buffers_
    spare1, spare2,   \* newBuffer1 and newBuffer2 are there
    toWrite,          \* buffersToWrite
    thread,           \* where threadFunc is
    user,             \* where the user of start() and stop() is
    file,             \* the lines in the file, in order
    appended,         \* how many lines append() has been given
    dropped,          \* history: lines of dropped buffers
    refused           \* history: lines longer than a whole buffer

shared == <<running, latch, current, next, buffers>>
own == <<spare1, spare2, toWrite, thread, file, dropped>>
asyncVars == <<shared, own, user, appended, refused>>

Empty == [lines |-> <<>>, used |-> 0]

AsyncInit ==
    /\ running = FALSE /\ latch = 1
    /\ current = Empty /\ next = TRUE /\ buffers = <<>>
    /\ spare1 = TRUE /\ spare2 = TRUE /\ toWrite = <<>>
    /\ thread = "none" /\ user = "new"
    /\ file = <<>> /\ appended = 0 /\ dropped = {} /\ refused = {}

(* FixedBuffer::append: a line that does not fit leaves the buffer alone. *)
FitsIn(len, b) == BufferSize - b.used > len
Put(line, len, b) ==
    IF FitsIn(len, b) THEN [lines |-> Append(b.lines, line), used |-> b.used + len] ELSE b

append(len) ==
    /\ appended < MaxLines /\ appended' = appended + 1
    /\ LET line == appended + 1 IN
       /\ IF FitsIn(len, current)
          THEN current' = Put(line, len, current) /\ UNCHANGED <<next, buffers>>
          ELSE /\ buffers' = Append(buffers, current)
               /\ next' = FALSE                     \* moved, or already gone
               /\ current' = Put(line, len, Empty)
       /\ refused' = IF FitsIn(len, Empty) THEN refused ELSE refused \cup {line}
    /\ UNCHANGED <<running, latch, own, user>>

-------------------------------------------------------------------------------
(* start(): it returns when the thread has counted the latch down. *)
start ==
    /\ user = "new" /\ user' = "starting"
    /\ running' = TRUE /\ thread' = "begin"
    /\ UNCHANGED <<latch, current, next, buffers, spare1, spare2, toWrite, file,
                   dropped, appended, refused>>
started ==
    /\ user = "starting" /\ latch = 0 /\ user' = "up"
    /\ UNCHANGED <<shared, own, appended, refused>>

(* stop(): the notification hastens the thread, which wakes by itself as well. *)
stop ==
    /\ user = "up" /\ user' = "joining" /\ running' = FALSE
    /\ UNCHANGED <<latch, current, next, buffers, own, appended, refused>>
joined ==
    /\ user = "joining" /\ thread = "done" /\ user' = "stopped"
    /\ UNCHANGED <<shared, own, appended, refused>>

(* threadFunc *)
Begin ==
    /\ thread = "begin" /\ thread' = "test" /\ latch' = latch - 1
    /\ UNCHANGED <<running, current, next, buffers, spare1, spare2, toWrite, file,
                   dropped, user, appended, refused>>
TestRunning ==
    /\ thread = "test" /\ thread' = IF running THEN "lock" ELSE "done"
    /\ UNCHANGED <<shared, spare1, spare2, toWrite, file, dropped, user, appended, refused>>

(* The critical section; waitForSeconds ends by a notification, by its
   timeout, or for no reason, and the buffers may still be empty then. *)
WaitForSeconds ==
    /\ thread = "lock" /\ buffers = <<>> /\ thread' = "wait"
    /\ UNCHANGED <<shared, spare1, spare2, toWrite, file, dropped, user, appended, refused>>
TakesSpare == ~next
CanSwap == thread = "wait" \/ (thread = "lock" /\ buffers # <<>>)
Batch_CurrentFirst == <<current>> \o buffers
Batch == Append(buffers, current)
Swap ==
    /\ CanSwap
    /\ thread' = "write"
    /\ toWrite' = Batch /\ buffers' = <<>>
    /\ current' = Empty /\ spare1' = FALSE
    /\ next' = TRUE /\ spare2' = (spare2 /\ ~TakesSpare)
    /\ UNCHANGED <<running, latch, file, dropped, user, appended, refused>>

(* What is written of a batch of buffers: all, or the first two. *)
Written(batch) == IF Len(batch) > KeepLimit THEN SubSeq(batch, 1, 2) ELSE batch
LinesOf(batch) == FlattenSeq([i \in DOMAIN batch |-> batch[i].lines])

(* The buffers just written become the spares. *)
WriteOut ==
    /\ thread = "write" /\ thread' = "test"
    /\ file' = file \o LinesOf(Written(toWrite))
    /\ dropped' = IF Len(toWrite) > KeepLimit
                  THEN dropped \cup (ToSet(LinesOf(toWrite)) \ ToSet(LinesOf(Written(toWrite))))
                  ELSE dropped
    /\ LET recyclable == Min({2, Len(toWrite)})
           wanted == (IF spare1 THEN 0 ELSE 1) + (IF spare2 THEN 0 ELSE 1)
       IN /\ spare1' = (spare1 \/ recyclable >= 1)
          /\ spare2' = (spare2 \/ recyclable >= wanted)
    /\ toWrite' = <<>>
    /\ UNCHANGED <<shared, user, appended, refused>>

threadFunc == Begin \/ TestRunning \/ WaitForSeconds \/ Swap \/ WriteOut
AsyncNext ==
    \/ \E len \in LineLens : append(len)
    \/ start \/ started \/ stop \/ joined
    \/ threadFunc
(* The thread runs, and a timed wait ends. *)
AsyncFairness == WF_asyncVars(threadFunc)
AsyncSpec == AsyncInit /\ [][AsyncNext]_asyncVars /\ AsyncFairness

-------------------------------------------------------------------------------
Held == LinesOf(toWrite \o Append(buffers, current))
OnTheirWay == ToSet(Held)

AsyncTypeOK ==
    /\ running \in BOOLEAN /\ next \in BOOLEAN /\ latch \in {0, 1}
    /\ thread \in {"none", "begin", "test", "lock", "wait", "write", "done"}
    /\ user \in {"new", "starting", "up", "joining", "stopped"}
    /\ \A b \in {current} \cup ToSet(buffers) \cup ToSet(toWrite) : b.used < BufferSize
    /\ dropped \cup refused \cup ToSet(file) \subseteq 1..appended

(* The file and the buffers after it hold the lines in the order of append(),
   none of them twice, whatever was dropped. *)
InOrder ==
    LET all == file \o Held IN \A i, j \in DOMAIN all : i < j => all[i] < all[j]

(* A line is lost only with a notice (AsyncLogging.cc:86, too many buffers at
   once) or because no buffer could ever hold it. *)
NoLineLost == 1..appended = ToSet(file) \cup OnTheirWay \cup dropped \cup refused

(* The assertions at AsyncLogging.cc:65, 66, 111 and 118: every round finds two
   spare buffers, although the users take buffers at any time of it. *)
SparesReady == thread \in {"none", "begin", "test", "lock", "wait"} => spare1 /\ spare2

(* While the thread runs what was appended gets out, and the thread that
   stop() joins ends. *)
GetsOut ==
    \A line \in 1..MaxLines :
        (line \in OnTheirWay /\ user = "up")
            ~> (line \in ToSet(file) \cup dropped \/ user # "up")
StopReturns == (user = "joining") ~> (thread = "done")
===============================================================================
