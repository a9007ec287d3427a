# Verification of ZkCppClient

ZkCppClient is a C++ wrapper of the multi-threaded ZooKeeper C library
(`zookeeper_mt`): it keeps a session alive, registers watchers permanently and
creates and deletes nodes recursively. The repository carries the network library
it is built on, muduo, and four recipes built on it. This directory holds the formal
model: TLA+ modules of the components, the TLC runs that check them on small
instances and the TLAPS proofs of what holds for every instance.

## 1. The system

### Threads

| thread | what runs there |
|---|---|
| user threads | `createZkClient`/`init`, the synchronous operations, `regNodeWatcher`, `cancelRegNodeWatcher`, `setIsSupportReconnect`, `destroyClient`, the recipes of `example/` |
| first thread of `ZkClientManager` | `LoopFun`: epoll, timers; `checkSessionState` of every client every 10 ms |
| second thread of `ZkClientManager` | `LoopFun`: `retry`/`reconnect` of every client, `autoRegNodeWatcher`, `autoRegChildWatcher`, `postCreateParentAndNode`, `postDeleteRecursive` |
| one completion thread per `zhandle_t` (C library) | `sessionWatcher`, the watchers (`existWatcher`, `getChildrenWatcher`), the completions of asynchronous operations |

### Components

| component | state | operations | correctness |
|---|---|---|---|
| Session (`ZkClient.cc:303-673`) | `sessionState_`, `sessionDisconnectMs_`, `zhandle_`, `isRetrying_`, `hasCallTimeoutFun_`, `retryDelay_`, `isSupportReconnect_`, the timers of the client | `init`, `sessionWatcher`, `checkSessionState`, `retry`, `reconnect`, `setIsSupportReconnect`, `~ZkClient` | one retry outstanding; back-off resets with success; the expired handler once per outage; `init` is woken; an expired client reconnects |
| Watchers (`ZkClient.cc:209-295, 1631-2018`) | `nodeWatchDatas_`, `childWatchDatas_`, the watchers set in the C library | `regNodeWatcher`, `existWatcher`, `getNodeDataOnWatcher`, `autoRegNodeWatcher`, `cancelRegNodeWatcher`, and those of children | a registered path keeps a watcher; a cancelled path is not notified and not registered again |
| Client registry (`ZkClientManager.cc:238-310`) | `totalZkClients_`, `nextHandle_` | `createZkClient`, `destroyClient`, `getZkClient`, `__getZkClient` | each creator gets the handle of its own client |
| Loop threads and runInThread (`ZkClientManager.cc:148-235, 313-467`) | pending functors, eventfd, `callingPendingFunctors_` | `runInThread`, `queueInThreadFuns`, `wakeup`, `doPendingFunctors` | every functor runs once, in order, without waiting for the epoll timeout |
| Timer queues (`ZkTimerQueue.cc`, `ZkClientManager.cc:470-560`) | `timers_`, `activeTimers_`, `cancelingTimers_`, the timerfd | `runAt`, `addTimer`, `cancel`, `handleRead`, `reset` | the timerfd is armed while a timer waits; no `Timer` is used after its deletion; a cancelled timer does not run again |
| Operations (`ZkClient.cc:690-1629`) | the ZooKeeper tree | get, set, exist, children, create, delete, recursive create and delete, synchronous and asynchronous | the handler is called once; an answer was true at some time during the call; nothing outside of the path is touched |
| Recipes (`example/`) | the node a client made, `isMaster_`, a condition | `DistriLock`, `DistriSharedLock`, `DistriBarrier`, `MasterElection` | mutual exclusion, readers or one writer, no early passage, one master |
| muduo, base (`muduo/base/`) | buffers of lines, queues of tasks, files | `AsyncLogging`, `LogFile`, `ThreadPool`, `BlockingQueue`, `Date`, `TimeZone` | lines and tasks once and in order, no lost wake-up, times that agree |
| muduo, net (`muduo/net/`) | one loop per thread, its channels, its functors; a connection's state and output | `EventLoop`, `EPollPoller`, `PollPoller`, `Channel`, `TcpConnection`, `Connector`, `TcpClient`, `Buffer` | what is enabled is polled; the bytes accepted are sent in order; a connection ends once; a wanted client keeps trying |

### How the components interact

- The user's threads and the completion threads hand work to the second thread
  with `runInThread` (functors) and to both threads with `runAfter` (a timer,
  itself added by a functor).
- A timer or functor holds a **handle**, never a client: it looks the client up
  in `totalZkClients_` and gives up when it is not there. `sessionWatcher` does
  the same with the handle in its context.
- `reconnect()` blocks the second thread, which all clients share, until the
  completion thread of the new `zhandle_t` notifies it.
- A watcher fires once. `existWatcher`/`getChildrenWatcher` run on the completion
  thread, ask for the new value with `zoo_aget` and queue `autoReg...Watcher` on
  the second thread, which sets the next watcher with a blocking call.
- An asynchronous recursive operation goes through four owners: the C library, the
  completion thread, a functor of the second thread, and that thread, which
  walks the tree with blocking calls and sends the last request asynchronously.
- A recipe is a user's thread that waits on a condition, and a callback of a
  permanent watcher, on the completion thread, that notifies it.
- In muduo every object belongs to one loop. Other threads queue functors, but some
  of its calls (`shutdown`, `forceClose`, `disconnect`, `stop`, `quit`) first write
  a flag or a state from the caller's thread.

### What is hard

The threads share the fields of `ZkClient` with few locks (only `stateMutex_`
around `sessionWatcher`, and locks around single reads and writes). So a decision is often taken on a value read earlier (the tick of
`checkSessionState`, the entry that `autoRegNodeWatcher` copies, the children
that `postDeleteRecursive` reads); the order of a blocking call's answer and of
the event of the watcher that the call has set is free; a `zhandle_t` outlives
the pointer to it; the connection, the session or the client goes away between
any two steps. `PROJECT.json` lists the hazards one by one, with the line where
each one bites and the properties that watch it.

## 2. Modules

| module | models | state of the code it holds |
|---|---|---|
| `ZkSession` | `ZkClient.cc:303-673` | the session of one client: fields of `ZkClient`, program counters of the user in `init`, of the first thread in `checkSessionState`, of the second in `retry`/`reconnect`, of every completion thread in `sessionWatcher`; external: the `zhandle_t`s |
| `ZkReconnectPolicy` | abstract | what a reconnection promises: one attempt at a time, the back-off |
| `ZkWatch` | `ZkClient.cc:209-295, 1631-2018` | the permanent watcher of one path, of either kind; external: server, connection, C library |
| `ZkClientManager` | `ZkClientManager.cc:238-310` | the registry: `nextHandle_` and `totalZkClients_`, with each read and write of `nextHandle_` a step of its own |
| `ZkFunctors` | `ZkClientManager.cc:79-92, 148-235, 313-467` | `runInThread`, `wakeup` and the loop of one thread |
| `ZkExecutor` | abstract | what `runInThread`, and muduo's `queueInLoop`, promise: once each, in order |
| `ZkTimerQueue` | `ZkTimerQueue.cc:40-262`, `ZkClientManager.cc:470-542`, `Timer.cc` | the timers of one loop thread, their addresses, and the timerfd |
| `ZkOperations` | `ZkClient.cc:690-1629` | the operations, recursive ones included, and where the context of each call is; external: the servers' tree, the C library's queues |
| `ZkRecipes` | `example/*.cc` but the tests, `ZkClient.cc:1917-2002` | one object of one recipe per client; external: the children of the parent node, sessions, watchers |
| `Buffer`, `ByteQueue` | `Buffer.h`, `Buffer.cc`, `Endian.h` | the array and its two indices; abstract: a sequence of bytes with two ends |
| `AsyncLogging` | `AsyncLogging.h/.cc`, `CountDownLatch.cc` | the front-end's and back-end's buffers, the latch and the thread |
| `LogFile` | `LogFile.cc` | when a file is flushed and when the next is opened |
| `ThreadPool` | `ThreadPool.cc`, `BlockingQueue.h`, `BoundedBlockingQueue.h`, `Condition.h` | one monitor, whose `class`, which never changes, is the pool or one of the two queues |
| `Calendar`, `TimeZone` | `Date.cc`, `TimeZone.cc` | pure functions, beside a calendar and a clock that are turned step by step |
| `Times` | | both side by side, the years and zones that are assumed, and their property `TimesAgree` |
| `TcpConnection` | `TcpConnection.cc`, `TcpServer.cc:36-122`, `Channel.cc:66-114` | one connection in its loop, the server's map, threads that send and close, the server's destructor and the end of the loop; external: the kernel's socket and the peer |
| `Connector` | `Connector.cc`, `TcpClient.cc:106-182` | a client, its attempts, retries and connection, and the calls of other threads step by step |
| `Pollers` | `poller/EPollPoller.cc`, `poller/PollPoller.cc`, `Channel.h/.cc` | what each channel wants, the poller's books, and what the kernel was told |
| `EventLoop` | `EventLoop.cc:63-308`, `EventLoopThread.cc` | the loop, its functors and eventfd, and the thread that starts and ends it |
| `ZkSession_proofs`, `ZkWatch_proofs`, `ZkOperations_proofs`, `ZkRecipes_proofs`, `ZkTimerQueue_proofs` | | theorems about the module of that name |
| `ZkClientManager_proofs` | | theorems about `ZkFunctors` and `ZkClientManager` |
| `MuduoNet_proofs` | | theorems about `TcpConnection`, `Pollers`, `Connector` and `EventLoop` |
| `MuduoBase_proofs` | | theorems about `LogFile`, `ThreadPool`, `AsyncLogging`, `Calendar`, `TimeZone`, `Times` and `Buffer` |
| `MC...` | | instances for TLC, with their symmetry |

**Composed instances.** `MCZkManager`, `MCMuduoBase` and `MCMuduoNet`
hold several components side by side. Their variable `part` is chosen at the start
and never changes: a behaviour is one of that component, and the others stay as
they begin. The properties of such a run are those of the components, and one run
asks them all; it shows nothing about components interfering with each other, which
share no state in the code either (what they hand to each other is in the external
actions of each module).

Operators that end in `_Something` beside one without it (`Doubled_NoCeiling`,
`ArmRetry_NoTimer`, ...) are plausible mistakes: replacing the operator by its
variant must make TLC find the property of a run violated. `PROJECT.json`
(`mutants`) pairs them; no module uses them otherwise.

### Correspondence with the code

**ZkSession.** One action per section of code that no other thread can look
into: `WatchLookup`, `WatchSetStat` and `WatchFinish` are `sessionWatcher` before
the lock, its write of `sessionState_`, and its write of `sessionDisconnectMs_`
or its notification; they are apart because `checkSessionState` reads both fields
without `stateMutex_`. `CheckRead` is the three reads of a tick, one each;
`CheckExpire`, `CheckCallHandler`, `CheckHandlerReturns`, `CheckArmRetry` and
`CheckRearm` are the rest of it. `Retry...` are `retry` with `reconnect` inlined.
The clock is one Boolean, `overdue`: has `sessionTimeout_` gone by since
`sessionDisconnectMs_`; it is initially true because that field is initially 0.
A timer that was armed may fire at any time; one that would have to fire within
the few instructions that follow its arming (with a delay of 5 s) cannot, which
is why arming the retry and setting `isRetrying_` is one step. The C library
gives every `zhandle_t` a completion thread and a queue of session events in
order. `zookeeper_init` may fail; a server may refuse a clientId whose session
has expired.

**ZkWatch.** Contexts of watchers of one path differ in nothing, so they are
counted (`watching`, `functors`, `timers`). The completion thread takes the
callbacks of `cq` in order. A value is the version at which the server answered.
`kind`, which never changes, chooses between the functions for nodes and those for children,
which differ in whether a watcher can be set on a node that does not exist and
in what the events say.

**ZkClientManager.** A client is the number of its creation. `HandleModulus`
is 2^32 in the code; its small values make `nextHandle_` wrap around.

**ZkFunctors.** The thread whose id is still 0 files functors under 0
(`orphans`), where no loop looks for them; a thread with its id and without its
data (`insertOrSetThreadData`) cannot be woken (`missed`).

**ZkTimerQueue.** A `Timer` is an address with a sequence number, and an address is
used again after `delete`, so a `TimerId` may name another timer (`Found` looks for
both). Times are distances: each `Tick` brings every timer, and the timerfd, one tick
nearer. `HandleRead` reads the fd and takes the expired timers, `CallNext` calls one
of them, `CallbackAdds` and `CallbackCancels` are what it may do, where the functor
runs at once, and `Reset` is `reset()`. `unread` holds the timers that `addTimer`
has handed to the loop and whose `sequence()` it reads afterwards.

**ZkOperations.** A path is the sequence of its names and a node is its version.
Each blocking call of the C library is one step, which answers or loses the connection before
or after the servers have executed it (`Outcomes`). `job` is what the user's thread
and the second thread are at; the recursion of `createPersistentDir` is the path it
has come to, and that of `deleteRecursive` a stack of frames. `seen` records what was
true of a path since its call began.

**ZkRecipes.** The permanent watcher shrinks to three steps: it fires, the list that was asked for
is told to the callback (`Answer`, then `Callback`), and the second thread sets the next
(`Rearm`); `Wait` is `condition_.wait()`, which begins after the decision to wait and
is ended only by a notification after it. `robbed` says that a client's node
was deleted by somebody else or by an expiry; a client is not expected to know.

**AsyncLogging, LogFile, ThreadPool.** What stands between a lock and the next
unlock or wait is one step. Lines and tasks are numbers, with a length where it matters.

**Calendar, TimeZone.** `Turn` turns the calendar by a day and `Walk` moves the clock by
half an hour; the functions of the code are compared with them at each step.

**TcpConnection.** A call of another thread is two steps: the test of `state_`, and the
write or the queueing that relies on it (`Test`, then `send` or `Disconnecting`).
`handleEvent` is a set of events still to be handled, in the order of the code
(`InFirst`). `~TcpServer` may begin in any state (`DestroyServer`) and queues
`connectDestroyed` for a connection that is in the map, whatever `state_` is; the I/O
loop is asked to quit (`QuitLoop`) and the server is gone (`ServerDestroyed`) in the
order of the members' destruction, while the loop, the users and the peer go on.
`FunctorsDone` is the test of `quit_`: a functor queued after the last swap is not
called. `failed` is an `assert` that did not hold. `dangling` is a use of what is
gone: the close callback's raw `TcpServer*` (`handleClose`), the functor bound to it
(`removeConnectionInLoop`), the `EventLoop` that has ended (`runInLoop`). What happens
after either is undefined, and the model stops there. The users hold the connection
by a `TcpConnectionPtr`, as its callbacks receive it.

**Connector.** `Call` and `Step` are the steps of `connect()`, `disconnect()` and `stop()`:
each flag and each functor by itself. `removeConnection` and `restart` are apart,
because `stop()` may come between them.

**Pollers.** `enable`, `disable`, `disableAll`, `remove` and `Renew` are what handlers do
to channels; `kernel` is the result of every `epoll_ctl`, and `pollfds` the array that is
passed to `poll`.

## 3. Runs

States are distinct states found. A run is named as in `PROJECT.json`.

| run | bounds | states | shows |
|---|---|---|---|
| `session_safety` | 3 `zhandle_t`, delays 2, 4, 6, one fault, two toggles, destruction | 1.40M | types; one retry and one chain of ticks; the handler is called once per outage; a destroyed client is not used; `ImplementsPolicy` |
| `session_liveness` | 2 `zhandle_t`, one fault, one toggle, destruction | 235k | `init` and `reconnect` return unless the client is destroyed, an expired client is connected again |
| `watch_live` | both kinds, 2 changes, one loss, one expiry, one registration, one cancellation | 287k | types; a watcher is not multiplied beyond the copies that session events make; a path loses its last watcher only to a session that is not connected; a queued or timed registration does set a watcher; a change that fires a watcher leads to a call of the handler |
| `manager` | 2 callers, 4 functors, exit; 2 addresses, 2 timers that repeat or not, 2 `TimerId`s; one creating thread, 4 handles, 5 creations, 2 destructions | 295k | no lost wake-up; `ImplementsExecutor`; a queued functor is called; the sets of a timer queue agree and the timerfd is armed; a cancelled timer does not run again; an accepted timer fires; every creation returns the handle of its own client, through the wrap-around |
| `operations` | 4 paths, the tree empty or full at first, 2 calls, one step of another client, one loss | 214k | a call has one owner until it is answered, and is answered once (a child's failure in `postDeleteRecursive` apart); answers tell what was seen during the call, and success of a creation or a deletion a change (the synchronous `deleteRecursive` apart, section 4); nothing outside of a path is touched; every call is answered |
| `recipes` | 2 clients, 3 for the shared lock, 3 nodes, one loss, one expiry | 1.04M | the one who was told it is the one owns the node until it is taken from him; readers or one writer; nobody passes a closed barrier |
| `muduo_base` | an array of up to 6 bytes with bytes of one bit; 6 lines in buffers of 3; 3 producers, 2 consumers, 3 tasks, sizes 0 to 2; the years 1900 to 2100; three zones over five transitions' time | 144k | `Buffer` implements `ByteQueue`, its integers included; lines in order, none lost unannounced; files roll; tasks once and in order, no lost wake-up; dates and local times agree with a calendar and a clock |
| `muduo_net` | 1 user and the callbacks, 2 messages, 1 call, 1 message read; 2 descriptors, both pollers; 2 callers, 3 calls; 2 threads, 3 functors | 219k | the stream is what was accepted; a connection ends, once, unless two threads race for its state or the server ends first; a wanted client keeps trying, with one socket; what is enabled is polled; the loop serves and ends |

### Bounds, and why they are enough

- Three `zhandle_t` are the least for an abandoned one, a later abandoned one and
  the current one; a fourth would repeat the second. Delays 2, 4, 6 reach the
  ceiling from a value (4) whose double is above it.
- One loss of the connection, or failed `zookeeper_init`, per behaviour is
  enough for each race of section 4: the first attempt after an expiry fails by itself
  (section 4), so that a failure needs no fault. Without losses nothing in the model is
  bounded except through `Zhandles`: when none is left, `zookeeper_init` fails,
  and `Reconnects` says so (`Exhausted`).
- One registration, with the copies that session events make of it; that more
  registrations multiply nothing is proved (`NotMultiplied`). Two changes, made at any
  time, meet each of the places where the completion thread or the second thread can
  stand, and the second may overtake the answer to the first. An expiry after a loss
  gives a new session.
- Two callers and four functors: two in the batch, one queued, one about to be.
- Two timers with two addresses: one that runs, repeats or is cancelled while
  the other is added, and one that takes the address of a deleted one.
- Four paths: a chain of three, the depth at which a missing parent has a missing
  parent, and a second child, so that a child can fail after another has gone. Two
  calls and one step of another client: the second call is itself another client.
- Readers and writers need three clients (two ahead of one, of either kind); the
  other recipes repeat themselves with the third (`TwoOrThree`).
- `Buffer`: an initial size of 2, prepended room of 1 and calls of up to 3 bytes take
  every branch of `makeSpace` and of `readFd`; an integer of 1 and of 2
  bytes takes every sign and every byte order.
- A connection: one thread besides the callbacks that run in the loop, which call the
  same functions, and the server, which may end at any time. Two messages of
  a byte: one may wait in `outputBuffer_` while the other is sent, so that a write takes
  a part of what waits. That more threads or longer messages change
  nothing for the stream and the end is proved (`StreamAndEnd`).
- No run checks for deadlock: the bounded environment may come to rest, and a
  destroyed client or an exited loop is a normal end. What must go on is a
  liveness property instead.

### Fairness

Weak fairness of each thread of the library (the operating system schedules it,
no step of it needs luck), of the loop with the 10 s time-out of `epoll_wait`,
and of the server's answers to a `zhandle_t` that seeks one. Strong fairness where
one thread takes several kinds of work in turns, and weak fairness of the thread as
a whole would let one starve another: of `RunFunctor` and `TimerFires` in
`ZkWatch`, of `RunFunctor` in `ZkTimerQueue`, and of a poll that returns the timer or the channel
in `Connector` (an event that stays ready is returned by some `poll`). In `ZkTimerQueue`
time goes on. In `ZkOperations` the servers, the completion thread, the two threads and
the reconnection are weakly fair. In `ThreadPool` a thread that can take
the mutex takes it. In `TcpConnection` the I/O loop and `removeConnectionInLoop` are weakly
fair; the destruction of the server is not. The user's own calls, the losses and the expiries have none;
a handler of the user is assumed to return. `setIsSupportReconnect` is never fair:
`Reconnects` says nothing once it was called. `ZkRecipes!FairSpec` serves only the
configuration of section 4; the run of the recipes has safety properties only.

## 4. Where the code and its own statements disagree, and other facts

Each of these runs checks one statement of a comment, of the repository's README
or of a test, quoted in `PROJECT.json` (`findings`); TLC finds the behaviour that
contradicts it.

| run | property | what the code does |
|---|---|---|
| `session_premature` | `ExpiresAfterTimeout` | a tick between the two writes of `sessionWatcher` declares a connection expired that has just been lost |
| `watch_cancel` | `CancelSticks` | a cancellation during the re-registration is undone |
| `watch_permanent` | `PermanentWatch` | an event that overtakes the return of the registration ends the permanent watch |
| `registry_race` | `OwnHandle` | two concurrent `createZkClient` return one handle |

Five more configurations lie beside the runs, for a reader who wants the
counterexample; TLC reports a violation of each:

| configuration | property | what the code does |
|---|---|---|
| `MCZkSession_report.cfg` | `ExpiryReported` | an expiry after a failed reconnection is not reported to the handler |
| `MCZkWatch_rewatch.cfg` | `RewatchedAfterReconnect` | nothing is registered with a new session: `regAllWatcher` is commented out at `ZkClient.cc:508` |
| `MCZkOperations_codes.cfg` | `RecursiveCodes` | the synchronous `deleteRecursive` returns other codes than its comment lists: success for a node that was never there |
| `MCMuduoNet_asserts.cfg` | `AssertsHold` | `~TcpServer` meets a connection in `kDisconnecting`: `connectDestroyed` removes a channel with its events on |
| `MCZkRecipes_wakeup.cfg` | `Recontends` | `lock()` decides to wait on an answer of the servers and then waits; the notification may come in between |

The models hold more of what the code does and a maintainer should know of. But for
`deleteRecursive`, whose comment is denied by `MCZkOperations_codes.cfg`, no statement of
the repository denies it clearly.

*Session and registry*

- `reconnect()` tests `sessionState_` right after `zookeeper_init`, which connects
  asynchronously: the state is still `EXPIRED`, so the attempt fails without
  waiting, unless the connection was made within these few instructions. The
  `zhandle_t` of that attempt connects later and stays open beside those of the
  attempts after it (`ZkClient.cc:453-475`): two sessions for one client.
- Nobody closes these `zhandle_t`s. Their events after `destroyClient` make
  `sessionWatcher` delete its context at the first (610) and use it at the next.
- `destroyClient` while the second thread waits in `reconnect()` leaves it
  waiting: `sessionWatcher` no longer finds the client to notify. This is the
  `~inMap` in `ReconnectReturns`.
- `setIsSupportReconnect(false)`, a failed retry and `setIsSupportReconnect(true)`
  leave `isRetrying_` set with no retry planned (490): the phase `abandoned` of
  `ZkReconnectPolicy`.
- With reconnection off, the C library's own reconnection still sets the state of
  a client whose expiry was declared back to connected (619).
- A client that attaches to a `clientId` whose session has expired never
  connects again: every attempt uses the same `clientId` (`SidDead`).

*Watchers, timers, operations*

- A change that the server makes after it answered the `zoo_aget` of `existWatcher`
  and before it sets the next watcher is not told to the handler (1714), until
  the change after it.
- `runAt` before the loop thread has inserted its timer queue drops the timer
  silently (`ZkClientManager.cc:519`). `addTimer` reads the sequence number of a timer that
  it has already handed to the loop, which may have deleted it (`ZkTimerQueue.cc:117-124`). A cancellation
  on the loop thread may overtake the functor that adds the timer. Nothing in the
  library calls `cancel`.
- The synchronous `deleteRecursive` (`ZkClient.cc:1592`). Its comment (1586-1590) lists
  `kZKSucceed` for a deletion, `kZKNotExist` for a node that does not exist any more and `kZKError`
  for anything else. The code returns `kZKSucceed` when `getChildren` finds no node (1598-1600),
  so a path that never existed is "deleted", and passes on what `deleteNode` returns (1627):
  `kZKNotEmpty`, when another client has added a child meanwhile, and
  `kZKLostConnection`. `kZKNotExist` is returned only for a node that goes between the two.
  `RecursiveCodes` states the comment and is violated in three states; `AnswerIsTrue`
  asks of a success of this call only that the node was gone at some time during it.
- `postDeleteRecursive` runs because the servers found the node with children. When the node is gone by then, it tells
  `kZKSucceed` (1200-1204), although another client has deleted it.
- `postDeleteRecursive` tells the failure of a child to the handler twice (1235, 1249).
- When the connection is lost during a call, `LostConnection` leaves open whether
  the servers executed it; a `countdown()` of the barrier that is answered so returns true.

*Recipes*

- All three waits (`lock()`, `rlock()`/`wlock()`, `wait()` of the barrier) test, and then wait without
  testing again under the mutex: a notification in between is lost.
- `rlock()` and `wlock()` that fail after `createChild` leave their node behind;
  everybody after it waits for it until the session ends. `unlock()` of the shared
  lock forgets the path before it deletes the node.
- `DistriLock::unlock`, and the destructors of the lock and of `MasterElection`, delete
  the node whoever owns it: a candidate that is destroyed ends the mastership of the master.
- `start()` of `MasterElection` and its callback run `retry()` on two threads: the loser of
  the two may write `isMaster_ = false` after the winner, and the owner of the node does not
  know that it is the master. `isMaster_` also outlives the session: the
  properties speak of clients that were not `robbed`.

*muduo*

- `AsyncLogging`: lines appended after the last swap are not written by `stop()`; a line that is not
  shorter than a whole buffer is refused silently.
- `LogFile`: when two rolls by size fall into one second the file goes on growing.
- `ThreadPool`: `stop()` notifies `notEmpty_` only, so a thread in `run()` that waits for room stays;
  the tasks still queued are dropped.
- `TimeZone`: a zone whose summer time differs by less than an hour does not
  survive the way to local time and back (`fromLocalTime` looks one hour around).
- `TcpConnection`, among threads: `shutdown()` of another thread sets `kDisconnecting` at once, so
  `handleWrite` may send the FIN before a `sendInLoop` queued earlier runs. `shutdown()` or
  `forceClose()` that tests `state_` before `handleClose` and writes it afterwards gives a second
  `handleClose`, and `assert(n == 1)` of `TcpServer.cc:117` fails. `raced` is where `OneEnd`
  excuses this. `sendInLoop` is bound to a raw `this`.
- `TcpConnection`, at the end of the server: `~TcpServer` (41-55) queues `connectDestroyed` for
  every connection in its map, and `connectDestroyed` disables the channel only in `kConnected` (303-313).
  A connection that is closing (`kDisconnecting`: `shutdown()` with bytes waiting, or with the
  peer not yet closed) keeps its events, and the assert in `Channel::remove`
  (`Channel.cc:61`) fails, with one thread and no race; without asserts the bytes that
  wait and the FIN behind them are never sent. `AssertsHold` is violated so
  (`MCMuduoNet_asserts.cfg`), and `OneEnd` says that, without a race, this is the only failure
  of an assert.
- `TcpConnection`, after the server: `closeCallback_` and the functor `removeConnectionInLoop` are bound to the raw
  server (`TcpServer.cc:99-107`, "FIXME: unsafe"). A connection that closes by itself while
  `~TcpServer` runs, or whose loop outlives the server, calls a server that is gone (`dangling`). The I/O loop
  quits after one more round at most: `connectDestroyed` that is queued after the last swap is not
  called, and `~TcpConnection` finds `state_` other than `kDisconnected` (`CutOff` in
  `ConnectionEnds`).
- `Connector`: `connect()` twice, or `connect()` after `stop()` with a timer outstanding, fails
  `assert(state_ == kDisconnected)` (`AssertsHold`); a `stop()` that runs between the test of `removeConnection`
  and `restart()` is undone by it; errors like `EACCES` end the attempts for good.
- `PollPoller` negates the fd of a disabled channel and never restores it (97-109): enabling it
  again is not polled (`Changes` is violated). Runs are with `EPollPoller` unless `MUDUO_USE_POLL` is set.
- `EventLoop`: a `quit()` before `loop()` is lost, because `loop()` sets `quit_` to false, and `join` waits forever
  (`early`); functors still queued when the loop quits are not called.

## 5. Proofs

`tlapm` checks every step with SMT (Z3), Zenon and LS4. The theorems hold for every
value of the constants (any threads, clients, `zhandle_t`s, paths, sizes, delays and
bounds) under the assumptions that the modules name (`SessionAssumption`,
`WatchAssumption`, `FunctorsAssumption`, `RegistryAssumption`, `TimersAssumption`,
`OperationsAssumption`, `RecipesAssumption`, `ConnectionAssumption`,
`PollersAssumption`, `LogFileAssumption`, `PoolAssumption`, `BufferAssumption`,
`DatesAssumption`, `ZonesAssumption`), which say that
bounds are natural numbers and sets what they are meant to be; TLC evaluates each of
them in a run. Modules that a run reaches by INSTANCE have their assumption as a
hypothesis of the theorem: `Delays`, `AsyncSizes` (which asks that the backlog at which
`threadFunc` begins to drop lines, 25 in the code, is at least one buffer),
`MaxFunctors \in Nat`. `ZonesAssumption` is the one
that is more than a type: every offset is within 16 hours, a clock is turned at most once in 32 hours, back
only by one hour and at the end of summer time, and always on a step of the walk (which may be of a
second), which begins in 1970. In other zones
`fromLocalTime` need not find the way back (section 4), and nothing is claimed of them.

Each proof has the same shape: an inductive invariant (`IInv`, or a name with `Inv`),
lemmas that each action keeps it, and the theorem that follows by PTL.

### The library

- `ZkSession_proofs`: `TypeCorrect`; `OneOfEachTimer` (`SingleTimers`);
  `HandlerOncePerOutage` (`HandlerOnce`); `Safety`, which adds `BackoffReset`,
  `InitWoken` and `ClosedUnused`. The run `session_safety` checks all of these but
  `BackoffReset` and `InitWoken`, which follow from the proof only (and, in part, from
  `ImplementsPolicy` and `CallsReturn`).
  None of them but `ClosedUnused` is inductive alone. `PhaseConsistent` adds what holds before
  `init` has succeeded (no retry, no delay but the first: the check for an
  expiry is armed by `InitCheck` only), that the delay is reset before `isRetrying_` is
  cleared (`rpc = "ok2"`), and that one call of the handler is either recorded
  or still going on. `WatchConsistent` adds that a completion thread in
  `sessionWatcher` has an event, that two are never in the critical section,
  and that until `init` has returned only `sessionWatcher` writes the state; from
  it follows that a state that settles while `init` waits is about to be
  notified. `LifeInv` adds to `ClosedUnused` that a closed client is out of the map, which
  is where every thread looks it up.
  `EarlyOnlyInBetween`: `ExpiresAfterTimeout`, which the run `session_premature` refutes, holds but for a
  tick that reads `sessionDisconnectMs_` while `sessionWatcher` is between its two writes (`OutageInv`), so
  that this race is the only cause.
  `Refinement`: `Spec => ImplementsPolicy`. The phase of the
  abstract attempt is read off `rpc`, `retryTimers` and `isRetrying` (`phaseBar`);
  `BackoffReset` and `SingleRetry` are what makes each step a step of the policy
  or a stutter.
- `ZkWatch_proofs`: `TypeCorrect`, `NotMultiplied` (`AtMostOneWatchEach`) and
  `LostOnlyWithSession` (the action property `WatchLostOnly`). A registration is a token that is
  in one place at a time: a watcher, a callback, a functor, a timer, or a blocking call
  (`Tokens`). The invariant counts a call of `regNodeWatcher` that has been sent as well
  (`Asking`). The steps need the sum over the callbacks
  that wait (`Coming`, a fold), and `ComingIs` and `ComingOps` say what
  it is and what appending, removing and shortening a callback do to it.
- `ZkOperations_proofs`: `OneOwnerEach` (`CallsKept`), `AnsweredOnce` (`ToldOnce`), and
  two action properties, `AnswersAreTrue` and `OnlyItsNodes`. `IInv` names the five places
  where a call can be and says that each unanswered call is at one of them, once
  (`Owned`); that requests, functors and the stack of `deleteRecursive` stay at or below the
  path of their call (`Requested`), which makes `OnlyItsNodes` hold; and that
  what an answer under way says has been seen to be true (`Witnessed`), which makes `AnswersAreTrue`
  hold when it is told later: an answer (`Known`), a node whose children are already being
  deleted and that was therefore there (`Seen`), and a frame of the recursion (`Here`). `WitnessKept`
  shows that it is never forgotten, whatever other clients do to the tree.
- `ZkRecipes_proofs`: `TypeCorrect`, `OwnersKept` (`OwnerKept`), `ReadersOrWriter`
  (`ReadersWriters`), `BarrierKept` (`BarrierHolds`), and `MutualExclusion`, which follows
  because a lock or a mastership is one child (`OneChild`). Sequence numbers yet to come
  belong to nobody (`Numbered`), and of two who compete for the shared lock the one behind, when it holds the
  lock, has seen a reader ahead (`InTurn`).
- `ZkTimerQueue_proofs`: `NoneLost` (`TimersKept`), `ArmedForFirst` (`FdArmed`) and
  `CancelledForGood` (`CancelHolds`). The invariant says that a timer is in exactly one of three places
  (`Placed`), that one without an address has run for the last time or was cancelled (`Ended`),
  and that the timers of an address, one after the other, have different sequence numbers (`Numbered`).
- `ZkClientManager_proofs`, of a loop thread: `TypeCorrect`; `Wakes` (`NoLostWakeup`), which speaks of the
  loop in `epoll_wait` only and which `WakeupInv` extends to the
  other places: whenever functors are queued, a swap is due, the
  eventfd is readable, or a caller is between its queueing and its write;
  `Refinement` (`ImplementsExecutor`), with the queue of
  the executor read as the batch followed by the functors not yet swapped.
  Of the registry: `RegistryInductive`, `NoOtherHandle` (`HandlesKept`) and `HandleFinds` (`OwnHandle`), for any
  number of threads of which one at a time is in `createZkClient` (`OneCreation`).
  Without that hypothesis `OwnHandle` is false, which is what the run `registry_race` shows.

### muduo

- `MuduoNet_proofs`, of a connection: `StreamAndEnd` (`ConnectionKept`), with the server destroyed in any state. That a connection ends once
  rests on `EndGoesOn`: while the server is there, an end is at the server's loop, in the queue of the connection's loop,
  or over, and the server's own end takes the place of the way by its loop; it holds as long as no thread
  has lost the race for `state_` (`raced`).
  From it follows that of the asserts only the one in `Channel::remove` can fail without a race, and only
  after the server's destructor has met `kDisconnecting`; nothing that is gone is used before that destructor. The
  invariant adds that `connectEstablished` is the first functor of the connection (`EstablishesFirst`), and in which
  phases of the loop functors and events are left (`Phased`).
  The bytes are in order in any case (`StreamKept`).
  Of the pollers: `KernelWatches` (`Polled`). `index_` is the state of a channel with `epoll` (`EPollBooks`) and its
  place in the array with `poll` (`PollBooks`), where a removal swaps the last place into the free one.
  Of the client: `ClientKeepsTrying`, with `Delays` (types, `OneSocket`, `RetryPending`).
  Of the loop: `LoopWakesUp` (`NoLostWakeup` of `EventLoop`) and `LoopRefines`: it implements `ZkExecutor`, as the library's
  own loop does.
- `MuduoBase_proofs`: `LogKept` (`LogRolls`, with the action property `NoOldLine`). `TasksInOrder`: types, `Fifo` and
  `NoLostWakeup` of the pool and of both queues; the invariant
  extends the lost wake-up to both conditions, `notEmpty_` (`TaskSeen`) and `notFull_` (`RoomSeen`), and says which thread can
  wait on which. `SparesAreReady`: the two spare buffers of `AsyncLogging`, because a round that borrowed
  both has at least two to give back (`Borrowed`). `LinesKept`: `InOrder` and `NoLineLost` of
  `AsyncLogging`. The invariant (`LinesInv`) says where the lines are: in the file, the batch to be written,
  the full buffers and the current one, which put one after the other are in the order of `append()`; whatever is
  in none of them was dropped or refused.
  What `FlattenSeq`, a fold, yields for a list of buffers with one more at its end is proved from
  the least length at which it would not hold. `EveryDay`: `DatesAgree` for
  every day from 1900 on. `NextNumber` says that the next day of the calendar has the next number, by cases on the end of a month,
  of February and of a year; `FoundAgain` that `getYearMonthDay` undoes
  `getJulianDayNumber`, century, year and month one after the other.
  `TimesKept`: `TimesAgree`. `toUtcTime` and `fromUtcTime` undo each other also before 1970, where C++ divides towards
  zero. Of a zone, `ZoneInv` says that the hand of the clock is the
  moment and the offset of the last transition. For the way back, the transitions
  are also in order of local time, so that the search by local time errs only in the hour shown twice, where it
  finds the later of the two moments, and `IsAmbiguous` tells when the earlier was meant.
  `BufferIsQueue`: `BufferKept`. `Fit` (the indices in order within the array) is inductive and `SpaceMade` is what
  `makeSpace` preserves; `IntegersReturn`, that an integer read and written again is the same bytes,
  holds for integers of any size.

### Only model-checked

- All liveness (`CallsReturn`, `Reconnects`, `Rearms`, `ChangeTold`,
  `Executed`, `Fires`, `Answered`, `ConnectionEnds`, `ClientTries`, `LoopServes`, and in `LinesWritten` and
  `TasksTaken` that what was appended or queued gets out and that `stop` returns): out of the prover's reach.

Every invariant and every action property of the passing runs is a theorem.

## 6. Plan

In order:

1. *Done*: `ZkSession` with `ZkReconnectPolicy`; `ZkWatch`; `ZkClientManager`;
   `ZkFunctors` with `ZkExecutor`.
2. *Done*: `ZkTimerQueue`, `ZkOperations`, `ZkRecipes`, and the parts of muduo that keep
   a state worth checking. No module declares a RECURSIVE operator, so theorems
   can be stated about each of them.
3. *Done*: the proofs of section 5.
4. A composition of session and watchers: `isConnected()` of `ZkWatch` bound to the
   state of `ZkSession`, several paths, the shared second thread blocked by `reconnect`.

## 7. Not modelled

- *ZooKeeper C library and servers*: external; the models have what `ZkClient.cc`
  relies on (events of a `zhandle_t` in order, one completion thread each, sessions that
  resume or expire, watchers that fire once, requests of a connection in order).
- *Logging, event channels, host and log configuration* of ZkCppClient: no state that a property tells apart.
- *Test programs* (`example/test*.cc`, `muduo/*/tests`): they are quoted, not modelled.
- *muduo's `TimerQueue`*: the code of `ZkTimerQueue` over one loop instead of an id of a thread;
  `ZkTimerQueue` stands for both.
- *The rest of muduo*: `Acceptor`, `Socket`, `InetAddress` and `SocketsOps` (wrappers of system calls);
  `LogStream`, `Logging`, `Timestamp` and `ZlibStream` (formatting); `Mutex`, `Condition`, `Thread`,
  `Atomic` (taken to be what they claim); `EventLoopThreadPool` (a round robin), `ConnectorOri` (an
  older `Connector`), `UdpClient` and `HeartStat`, which nothing here uses.
- *Left out of modelled parts*: `findCRLF` and `findEOL` of `Buffer`; `writeCompleteCallback_`,
  `highWaterMarkCallback_`, `forceCloseWithDelay` and `setTcpNoDelay` of `TcpConnection`; several I/O loops of a
  `TcpServer`, and none (its connections in the server's own loop); `run()` of a `ThreadPool` without threads; `~TcpClient`; reading a zone file; the
  errors of writing a log file; `printClientInfo`; the flags and ACLs of `create`.
