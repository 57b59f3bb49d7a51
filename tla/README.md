# The File Replication Service of the Platform SDK samples, in TLA+

The repository holds the samples of the Windows Server 2003 SP1 Platform SDK:
some ten thousand files of mostly independent programs. Most of them call one
API and end. Two have a concurrent protocol of their own that many others rest on or imitate,
and are the subjects of this project.

The first is the **File Replication Service**, `src/NetDS/RPC/FileRep`, four generations of one program;
the last, `FileRepAsyncPipe`, is modelled: a service that
copies files between machines with asynchronous RPC, RPC pipes, overlapped
file I/O, I/O completion ports, a self-sizing pool of threads, priority groups and
per-user quotas. Of its predecessor `filerepmultiuser` the client service is modelled, too,
because it alone lets threads serve each other's requests and users take turns.

The second is the **output queue** of the DirectShow base classes, `COutputQueue`, by which a filter
hands its media samples to the next one, on a thread of the queue or on the caller's, while the application
flushes, resets and destroys it.

Sources are named without the prefix `src/NetDS/RPC/FileRep/FileRepAsyncPipe/`, those of
the predecessor with `filerepmultiuser/`; `outputq.cpp` and `outputq.h` are in
`src/Multimedia/DirectShow/BaseClasses/`.

## 1. Inventory

A user calls `RequestFile` at the *client service* of his machine, which calls
`RemoteReadAsyncPipe` at the *server service* of another machine. Both sides
count and queue the request, serve it as soon as the bounds allow, and move the
file: disk -> `ReadFile` -> push -> RPC pipe -> pull -> `WriteFile` -> disk. Every
completion (of a read, a push, a pull, a write) is a packet at a completion port,
and any worker thread at that port may take it. Nothing else connects the two
sides; within a side the threads share the queues, the counters, and the request.

| component | state | operations | interacts through |
|---|---|---|---|
| **Server scheduling** (`FileRepServerProc.cpp` 82-315, 799-1003) | a queue and two counters per priority group, a counter per SID and group; `State`, `Pri`, `pSID` of each request | `s_RemoteReadAsyncPipe`, `FindSReq`, `FindAndActivateSReq`, `ServerShutdownRequest` | queues and counters, shared by all RPC threads and workers; a packet for each activation |
| **Server transfer** (`FileRepServerProc.cpp` 102-140, 250-430, 437-793) | the `SReq`: buffer flag, `bReadOutstanding`, `bPushOutstanding`, `bReadsDone`, `bLastDataPushIssued`, `bNullPush`, `Status`, `fCallInvalidated`, offset | `HandleSReq`, the Read/Push/Wait actions of `SServiceRequests` | completion packets; the critical section of the request |
| **Server worker pool** (`FileRepServerProc.cpp` 568-635, 937-964) | `nThreadsAtServerCompletionPort`; which threads exist | creation by RPC threads and by the last worker to leave the port; end by timeout | the completion port |
| **Queues, counters, hashes** (`Resources.cpp`) | linked lists, interlocked counters, a hash of SIDs | `QueueAdd`, `QueueRemove`, `QueueHash*Counter`, `CounterIncrement`, `CountersCheckForNonzero` | a critical section each; interlocked operations |
| **Client scheduling** (`FileRepClientProc.cpp` 82-307, 415-498, 1286-1593) | queues and counters of its own, as on the server | `RequestFile`, `FindCReq`, `FindAndActivateCReq`, `ClientShutdownRequest` | the same; also its threads are sized like the server's |
| **Client transfer** (`FileRepClientProc.cpp` 307-415, 504-1223) | the `Req`: the outstanding pull, how many writes and bytes are outstanding, the extended size, five failure and completion flags | `HandleReq`, the Pull/Wait actions of `ServiceRequests`, `ClientShutdownRequest` | packets of pulls, writes, the call itself |
| **Start and stop** (`Service.cpp` 738-1155, `FileRepService.cpp`) | "created" flags, the service status | `StartFileRepServer`, `ServerStop`, the control handler | the counters and queues that the calls under way use |
| **Priorities, SIDs, tracing, command line** | none of the protocol | | |
| **`filerepmultiuser` client** (`filerepclientproc.cpp`, `resources.cpp`) | queues and counters per group; per group a list of subqueues, one per user | `RequestFile`, `ServiceRequests`, `HandleReq`, `HandleActiveReq`, `QueueMoveToBack` | RPC threads that serve whatever request they find, a chunk at a time |
| **Output queue** (`outputq.cpp`, `outputq.h`) | `m_List`, the batch `m_ppSamples`, `m_hr`, three flags, `m_lWaiting` with a semaphore, one event for flush and Reset | `ReceiveMultiple`, `EOS`, `NewSegment`, `SendAnyway`; `BeginFlush`, `EndFlush`, `Reset`, destructor; `ThreadProc` | the object's lock; calls of the pin downstream, made without it (with a thread) or with it (without) |
| `filerepmultiuser` server, `filerepsecure`, `filerepsimple` | earlier generations, synchronous | | |

What is hard here:

* *No common lock.* A request passes three counters and a queue, each atomic by
  itself; between two of these steps every other thread runs. `CounterIncrement`
  increments first and tests afterwards.
* *A request changes hands.* Once `QueueAdd` returns, any other thread may
  activate, serve and free the request, while the RPC thread that queued it still
  searches the queues (perhaps finding its own request, perhaps another).
* *A read and a push are outstanding together*, their completions arrive in any order,
  and whichever worker takes one must decide alone what comes next.
  A worker chooses its action under the request's lock, leaves the lock, and takes
  it again to act.
* *The pool sizes itself* by one counter that is read without a lock by RPC threads,
  and whose decrement decides whether a thread may end.
* *Several completions end a request*: at the client the last write, the pull that finds
  the end of the pipe, and the notice that the call is complete come in any order, and a
  failure of the call is known to the next pull and to the notice.
* *The service stops under its calls*: it looks at the counters one after the other,
  while calls move from one to the next.
* *A lock that does not cover everything*: the output queue reads `m_hr` outside the lock, decides to sleep under it and
  sleeps outside it, and `EndFlush` sets the flags without it ("be daring"); without a thread it is the other way
  round, the lock is held in a call downstream that only a flush can end.
* *One call of several fails*: `ReadFile` at once or later, a push, the allocation
  of a queue node, a step of `HandleSReq`.

What makes each component correct: for scheduling, that counters do not drift, a
request is never in two places or used after it is freed, bounds hold, nobody is left
behind; for a transfer, that the pipe gets the file's bytes in order and one end, the
client's disk gets each of them once, the request is freed by its last user, and it always ends; for the pool, that work never
finds it empty, packets are taken, and idle threads end; for the stop, that nothing is
deleted that a counted call uses, and that it ends; for the output queue, that samples keep their order, that
a flush leaves nothing behind and discards nothing else, that the thread never sleeps over work, and that calls end. `PROJECT.json` lists the
hazards with their lines and the properties that are aimed at them.

## 2. The modules

| module | what it is | instances and proofs |
|---|---|---|
| `Admission` | abstract: a bounded waiting room per group, bounded service per group and user | refined by `ServerScheduling`; `ServerSchedulingProofs` |
| `ServerScheduling` | the server's scheduling, one step per interlocked operation or lock | `MCServerScheduling`; `ServerSchedulingProofs` |
| `Transfer` | abstract: bytes in order, one end, then completion, or an abort | refined by `ServerPipe`, composed with the client in `ClientPipe` |
| `ServerPipe` | one request's transfer by several workers | `MCServerPipe`; `ServerPipeProofs` |
| `WorkerPool` | the threads at the server's port | `MCWorkerPool`; `WorkerPoolProofs` |
| `ClientPipe` | how several workers pull one file and write it | `MCClientPipe`; `ClientPipeProofs` |
| `ServiceStop` | start and stop against the calls under way | `MCServiceStop`; `ServiceStopProofs` |
| `OutputQueue` | `COutputQueue` with a thread | `MCOutputQueue`; `OutputQueueProofs` |
| `OutputDirect` | `COutputQueue` without one | `MCOutputDirect`; `OutputDirectProofs` |
| `MultiUser` | the client of `filerepmultiuser`: shared service, users in turns | `MCMultiUser`; `MultiUserProofs` |

Operators whose comment begins with "Mutated:" are not part of the model. Each is a
plausible bug of the operator that follows it; put in its place, it breaks the
property that `PROJECT.json` names with it ("mutants"). They show that the properties can fail.

### ServerScheduling

Two threads exist per request block `r`: `Rpc(r)`, the RPC thread in
`s_RemoteReadAsyncPipe`, and `Worker(r)`, the worker that happens to serve the
request. Both run `FindSReq`, whose locals are `held` (`pReq`) and `scan` (`pri`).

| action | code |
|---|---|
| `Arrive` | allocation, impersonation, group and SID; a failure leads to `ServerShutdownRequest` |
| `Count`, `Uncount` | the two interlocked operations of `CounterIncrement` on the group's request counter |
| `Enqueue` | state `Queued`, then `QueueAdd` |
| `SkipEmpty`, `Take` | `QueueRemove` in the loop of `FindSReq` |
| `IncActive`, `DecOver` | `CounterIncrement` on the active counter |
| `IncUser`, `DecActive` | `QueueHashIncrementCounter`; the group's counter is given back on refusal |
| `PutBack`, `DecReq`, `Activate` | the end of `FindSReq`: back to the tail, or on to a packet at the port |
| `Handle`, `Finish` | `HandleSReq` and the transfer (`ServerPipe`), as far as they lead to `ServerShutdownRequest` |
| `Release`, `DecUser`, `FreeReq` | `ServerShutdownRequest` after its search for a successor |

Abstractions: SIDs are model values; the linked lists are sequences; a block is not
allocated anew while its old RPC thread is still in `FindSReq` (in the code it can
be, but that thread no longer refers to it, so this only limits how many calls
are concurrent).  `Release` merges the group's decrement with the test of `State`
before it; nobody else writes either. The loss of the global port when
`CreateIoCompletionPort` fails in `HandleSReq` is not modelled; the lost request is
(step "lost").

### ServerPipe

One activated request; `req` holds its flags, and `reading`, `pushing`, `port` are the
environment: an outstanding `ReadFile`, an outstanding push, queued packets. A
critical section is one step, so between the choice of an action and the action all
other workers run. `HeapAlloc` does not clear the block, so the flags start
with any value. A read at or beyond the end of the file completes with 0 bytes (the
code looks only at the number of bytes; where Windows reports the end of the file as a
failed read, that is the fault `readNow` or `readLater`). The RPC runtime has taken a push's bytes when the
push is accepted: the code has one buffer per request and reads into it
again while the push is outstanding, where `ReadMe.txt`:26 speaks of two buffers.
A worker that comes to use a freed request may do anything; the model stops that
worker, and `AliveWhenUsed` reports the state. What may fail in a behaviour is a variable,
`faults`, that is chosen at the start and never changes, so one run covers several sets of
faults, and a property that some fault breaks names it (`MayForget`, `Excused`).

### WorkerPool

`pc` says where each thread is, `nThreads` is the counter. Waiting,
returning from `GetQueuedCompletionStatus` (with a packet, a timeout, or a failure),
the decrement and what follows it are separate steps. Requests, I/O
and packets are numbers: the pool does not look at them. `Serve` starts up to
two I/Os or activates a queued request, as the three actions of the transfer do.

### ClientPipe

The other end of the pipe: one activated request of `RequestFile`, served by the workers
at `ClientCompletionPort`. The server is an instance of `Transfer`, the promise that
`ServerPipe` is shown to keep, so the two transfers are composed through it. `rpc`, `taken`,
`pulling` and `event` are the call as the RPC runtime keeps it, `writes` the outstanding
`WriteFile`s, `file`, `length` and `pointer` the local file. A byte is its position in the remote file.

| action | code |
|---|---|
| `HandleReq` | the file is created and extended by `FILE_SIZE_EXTENSION`, the call is made; the three ways to fail |
| `PullStopped`, `PullFails`, `PullData`, `PullEnd`, `PullPending` | the Pull action by what the pull returns; `PullData` includes the extension and the start of the write |
| `CarryOut`, `WriteEnds` | the file system: a write is carried out, and its packet is posted |
| `FileIo`, `CallIo`, `ReceiveIo` | the three kinds of packets |
| `Shutdown` | `ClientShutdownRequest`: cancel and wait, wait for the pull or the writes, or complete, cut the file and free |

A request has one buffer (`buf`, the code's `pbBuf`) and one `OVERLAPPED` (`req.Offset` is its place), and the code
pulls on while a write is outstanding. So a write takes no bytes with it: `CarryOut` happens at any time after the call
and writes what the buffer holds by then, at the place of the call or, if the `OVERLAPPED` is read
again, at that of the latest call. `spoiled` is history: the positions to which a write belonged, or which it wrote,
when it found the buffer overwritten. `FileWritePos` and `CurrentExtendedSize` are signed 32-bit numbers that wrap (`Wrap`,
`PosLimit` is their 2^31), a place is one of 32 bits without a high half (`Unsigned`), and `SetFileSize` hands its
`DWORD` to `SetFilePointer` as a signed number with no high half, which refuses a negative one and leaves the pointer where it is.
`LastError` is what `GetLastError` may give for the `Status` of a failure: with the fault "zero" also 0, because another
call came in between (557-560, 878) or the error was not set (591).

`ClientShutdownRequest` may return with the request alive (`Keep`) any number of times; the
operators `Cancels`, `WaitsForPull` and `CompleteCall` are its branches. As in `ServerPipe` the
flags start with any value and `faults` is rigid. A write that is carried out before `WriteFile` returns is a `CarryOut`
that follows at once; the difference, a file extended after the write and not before, matters only for positions that
overflow. `RevertToSelf`, whose failure falls
through in `HandleReq` (734-742), succeeds; the search for a successor belongs to the scheduling.

### ServiceStop

`step` and `at` are where `ServiceStart` or `ServerStop` is: in the list `Checks` of the
counters it looks at, or in the list `Deletes`. A call is reduced to its `phase`, from which it
follows in which counters it is counted (`CountedIn`); `ServerScheduling`'s `CountersExact`, proved
below, is why a counter is zero exactly when no call is in such a phase. `hasty` and
`late` remember the two ways in which the code may look too early: a sleep ended
before the counter was zero; a call was counted after its counter had been looked at.

### MultiUser

Each call of `RequestFile` has a thread, which after queueing its request runs
`ServiceRequests`: it takes a waiting request (`Take` to `DecReq`, as in the later generation) and
handles its first chunk, then an active one (`TakeActive`) and its next chunk, whosever they
are. `HandOver` is the thread that replaces an RPC thread that has served for too long. The
list of subqueues is kept with the code's nodes and pointers (`hash`, `node`), because what
`QueueMoveToBack` does with them is the question; plain queues are sequences. `Chain(g)` is the sequence
of nodes that a walk along the pointers meets (`IsWalk`). `passed` counts
for `TakeTurns` how often others were served while a user waited.

### OutputQueue and OutputDirect

`bAuto` and `bQueue` decide in the constructor whether the class has a thread; the two modes share their state and
hardly any control, hence two modules.  Three threads meet in `OutputQueue`: `stream` is the filter's streaming thread, `caller`
the application's, `worker` the queue's own.

| action | code |
|---|---|
| `Receive`, `EOS`, `SendAnyway` | the call, under the lock from its first access to its last: one step |
| `NewSegment`, `QueueSegment` | the test of `m_hr`, without the lock; then the packet and its parameters |
| `BeginFlush`, `BeginDown` | the part under the lock; `m_pPin->BeginFlush()` |
| `EndFlush`, `EndWait`, `EndFlags`, `EndDown`, `EndHr` | the part under the lock; the wait for the event, the flags, the pin, `m_hr` |
| `Reset`, `ResetWait` | the `RESET_PACKET`, and the wait for the event with the lock held |
| `Destroy`, `Join` | the destructor |
| `Enter` to `NothingToDo` | the inner loop of `ThreadProc`, one turn per step, with the lock (`owner`) |
| `Wait` | the wait for the semaphore |
| `Send`, `Deliver`, `Record`, `TakePacket` | the test of `m_hr`, the call of the pin, the error, the packet that ended the batch |

In `OutputDirect`, `Call` to `Notify` are the streaming thread in `ReceiveMultiple`, `EOS`, `SendAnyway` and `NewSegment`, and
`BeginFlush` to `EndFlush` the application's. `EOS` holds the lock while it enters `ReceiveMultiple`, which takes it again.

Callers keep to what the comments ask of them: no calls between `BeginFlush` and the end of `EndFlush`, nobody
calls the destructor under a call, and without a thread `Reset` comes between two streams. The pin downstream is
external: it takes a batch, refuses it, or, between its own `BeginFlush` and `EndFlush`, returns S_FALSE; without a thread it may
keep a call until it is flushed. `serial`, `last`, `refused` and `skipped` are history: they
number what was queued and remember what became of it. `SetPopEvent`, which tells a derived class that something was popped, is left out.

## 3. The runs

| run | instance | shows |
|---|---|---|
| `scheduling_groups` | 3 requests, 2 users, 2 groups, active bounds 2 and 3, waiting bound 2, user bound 1; node allocation and `HandleSReq` may fail; symmetric in requests and users | `CountersExact`, `OnePlace`, `ActiveWithinBounds`, and that the scheduling implements `Admission` |
| `scheduling_live` | 2 requests, 2 groups, bounds that are not exceeded, fair | `NoStranded`, `TopGroupServed` |
| `pipe_threads` | 3 workers, buffer of 2, files of 0 to 5 bytes; opening, handling, reading or pushing may fail; fair | `AssertsHold`, `FlagsTruthful`, `AliveWhenUsed`, `InOrder`, `Ends`, and that the transfer implements `Transfer` |
| `pipe_nullpush` | a file of exactly one buffer | **violation** of `NothingLeftAtEnd` |
| `pool_threads` | 3 threads, 1 caller, work up to 2, `CreateThread` may fail, timeouts at any time, fair | `CounterExact`, `NeverAbandoned`, `SomeWaiter`, `PacketTaken`, `OneLeft` |
| `client_pipe` | 2 workers, buffer of 2, extension of 2, files of 0 to 3 bytes, positions below 5; opening, the call, a pull or a write may fail, also with a `GetLastError` of 0; fair | `AssertsHold`, `AliveWhenUsed`, `EachByteOnce`, `Copied`, `CompletedAfterNotice`, `Ends` |
| `multiuser` | 3 requests of 2 users in one group, two chunks each, active bound 2, user bound 1, waiting bound 2, one slow thread, fair | `NeverTwice`, `CountersExact`, `TakeTurns`, `ThreadsReturn` |
| `multiuser_lost` | the same with bounds that are not exceeded | **violation** of `NoneLost` |
| `service_stop` | 2 calls of one interface and 1 of the other, fair | `CountedIsThere`, `NothingLeft`, `StopEnds` |
| `output_queue` | batches of two, exact or not, with and without the flushing optimization, up to 3 samples or ends of stream, list of 3; fair | `TypeOK`, `InOrder`, `NoLostWakeup`, `NothingAfterRefusal`, `CallsEnd` for any application; `FlushedAll`, `NothingLost`, `Drains` for one that does not call Reset |
| `output_hang` | the same, 2 samples | **violation** of `ResetReturns` |
| `output_direct` | batches of two, exact or not, 4 samples between two flushes, fair | `InOrder`, `FlushEnds` |

Every module states its types as `TypeOK`. Where it is proved (section 5) no run repeats it; `output_queue` does,
because it says that `m_ppSamples` is not overrun. `MultiUser` has it as documentation of its variables: what
its proofs need of the types is stated there (`TypeThreads`, `TypeCounters`, `TypeLists`).

**Why the bounds are enough.** Scheduling: a race needs one request that holds a
bound, one that is examined, and one that arrives or ends: three. Two groups are needed for
the order of the search, two users for the quota to differ from the group's bound.
Bounds of 1 and 2 are reached and exceeded. Transfer: at most one read and one push
are outstanding, so two workers are busy and one more is there to be late; two and a half
buffers give the first, a middle and the last read, and all cases of the last one
(short, empty, first one already empty). Pool: one thread that stays, one that
ends, one that was just created. `MaxWork` bounds requests, I/O and packets each; an
`Enqueue` at the bound stands for a refusal by `CounterIncrement`, which the code has, too.
When all `Threads` exist, `Create` fails, as `CreateThread` does at the limit.
Client: a file of one and a half buffers gives the first and the last pull, a write that
extends the file while others are outstanding, and all orders of the last write, the null pull and the
notice; up to three writes are outstanding with the one buffer. The files fit below `PosLimit`, as the properties demand
(`Fits`); with a `PosLimit` of 3 and a file of 3 bytes TLC refutes `EachByteOnce` and `Copied` without that premise. `Extension` is as small as the
code allows, one buffer, so that the second chunk extends the file. Stop: the checks look at four counters, a call is in at most two of
them, and calls do not touch each other: one call of each interface and a second of one. Predecessor:
two subqueues and two requests in one of them are what it takes to rotate or lose a subqueue; a third request
finds the bound taken. Two users take turns as more would, the list is rotated one node at a time.
Output queue: three samples are a full batch and one that waits, or a batch and the end of stream; a list of three
holds a NewSegment with its parameters behind a packet. `MaxSerial` and `MaxList` bound what is queued (a call
beyond them does not happen), not what the code checks; flushes, Resets and packets are not bounded. The configuration (`exact`, `opt`, `resets`)
is chosen at the start and never changes, so one run covers all of them.

**Fairness.** Threads of the operating system that can run do run (weak fairness of
each thread's steps); I/O that was started ends; a packet at the port is given to some
waiter, not to a particular one; a wait without a packet ends by its timeout of 20 s.
`Finish` is fair because `Ends` is checked of the transfer (unless a read fails later). No
fairness is assumed of arriving calls. At the client `ServerGoesOn` is fair because
`ServerPipe`'s `Ends` is checked; the runtime reports a cancelled call (the code cancels with "abort"),
but a call that merely may fail need not. A `WriteFile` is carried out and ends (`CarryOut`, `WriteEnds`). In `ServiceStop` only the thread of `ServerStop` is fair:
nothing is assumed of the calls. The queue's thread and the pin it calls go on (`Queueing`); a call of the
application or of `NewSegment` that has begun goes on; calls need not begin. In `OutputDirect` `Deliver` is fair only
while the pin is flushed, which is the point of `FlushEnds`, and `BeginLock` is strongly fair: the streaming thread takes and
leaves the lock again and again, and the critical section serves a waiting thread some time. `OneLeft` alone has a premise, `LongTimeout`: a wait times out only
when no thread is between two waits, for 20 s are longer than that takes; without it two idle threads can time
out alternately, each seeing the other counted or not, and no bound on the surplus threads would follow.

**Deadlock.** The scheduling runs with bounds or failures end where every block is lost or
stranded in a queue, a transfer ends with its one request, a stopped service with its last call, and the
threads of `MultiUser` all return, a destroyed output queue does nothing; those configurations say `CHECK_DEADLOCK FALSE`. The others check for deadlock.

## 4. What the runs found

* `pipe_nullpush`: a file whose length is a multiple of the buffer ends with a read of
  0 bytes, which marks the buffer full; the assertion at line 542 is then false. If
  that read completes before the last data push, the end is pushed twice: once as
  data of length 0 (line 747), once as the null push. `ImplementsTransfer` excuses that step (`Excused`).
* `multiuser_lost`: `QueueMoveToBack` unlinks the node first and returns if it was the last one; its
  subqueue, and what is appended behind it, is never found again.
* `output_hang`: `Reset` waits for the event in the scope of its lock (703), which the thread needs to take the
  `RESET_PACKET` off the list; in `EndFlush` the same wait is made without it, "in fact we'd deadlock if we did" (530-531).
  `Reset` returns only if a flush has left the event set.

Properties stated in the modules as reasons for an exception, which TLC refutes at once when they are added to a run:

* `NoStranded` of `ServerScheduling` with an active bound that is reached: `ServerShutdownRequest` looks for a successor
  before it gives back its own counters (line 271 against 306-314). If the request that ends is the one
  that holds the bound, the search refuses the waiting request, puts it back, and nobody
  looks again until another call arrives. `scheduling_live` therefore has bounds that two requests do not exceed.
* `FreedWhenUnused` of `ClientPipe`, fault `call`: a failed call is known twice, to the next pull and through the notice in the port.
  A worker whose pull fails frees the request whose notice is still to be taken; or the worker that takes
  the notice frees it under the worker that is about to pull. The comment (322-323) says that after a failed
  pull there is nothing to do. `AliveWhenUsed` is the same with this exception.
* `BufferIntact` of `ClientPipe`: the code pulls on while a write is outstanding, into the same buffer and with the same
  `OVERLAPPED`; the comment (1024-1025) says that there is at most one write. A write then puts the bytes of a later pull
  into the file, perhaps at the later place, and its own bytes are lost, while the request ends well. `EachByteOnce` and `Copied` are refuted
  without the exception of `spoiled`; with it they say that nothing else is damaged: every position that such a
  write neither had nor wrote is right.
* `SegmentsFlushed` of `OutputQueue`: `NewSegment` tests `m_hr` before it takes the lock (405); if a flush begins in between, the
  packet is queued during the flush and goes downstream after it, although `BeginFlush` is to "discard all
  queued data" (471).
* `IdleIsEmpty` of `OutputQueue`: with exact batches the thread is not woken until a batch is full (686-689), so the list
  holds samples while nobody is at work, which `IsIdle` asserts not to be possible (781-784).
* `NoneKept` of `OutputDirect`: with a batch size above 1 and `bBatchExact` FALSE, samples that do not fill the batch stay
  in it when the call returns (645), against the assertion at line 630, and `EOS`, which sends the batch only if
  `bBatchExact` (439), overtakes them.
* `FlushedAll` and `NothingLost` of `OutputQueue` without the premise `~resets`: flush and `Reset` share an event. The thread can set it
  in a flush that `EndFlush` leaves early (`bFlushingOpt`); a `Reset` takes it for its own and returns with the packet
  still queued; the thread sets it again when it takes the packet, during the next flush, and `EndFlush` goes on while
  samples from before it are queued.

The faults that properties name as exceptions are behaviours of the code, too:

* `AliveWhenUsed` of `ServerPipe`, `readNow`: a `ReadFile` that fails at once frees the request, then leaves
  its critical section (a second time).
* `Ends`, `FlagsTruthful` of `ServerPipe`, `MayForget`: a failed completion (`readLater`), or a `HandleSReq` that fails after
  the open, is logged; the request is never shut down.
* `ImplementsTransfer`, `push`: a call whose push failed is completed, although the comment says cancelled.
* `Ends` of `ClientPipe`, `writeNow`: a `WriteFile` that fails at once cancels a call whose end was already
  posted; the call ends well, nobody pulls the rest, and the request stays (the comment at 1175-1177
  expects a call-complete that cleans up).
* `Copied`, `CompletedAfterNotice`, `AliveWhenUsed` of `ClientPipe`, `zero`: the `Status` of a failure is what `GetLastError` says
  after another call (`RpcStringFree` before 557-560, `AddToMessageLogProcFailure` before 878), or of an error that was returned
  and not set (591). If it says 0, a request that has opened nothing ends well without a copy, and the call of a failed `WriteFile` is
  completed, and the request freed, instead of cancelled. For a write that fails later the code guards against it (1081-1083).
* `Copied`, `CompletedAfterNotice`, `AliveWhenUsed` of `ClientPipe`, `writeLater`: the second write that fails completes
  the call while it is being cancelled, and a call that ends well overwrites the `Status` of the write (1116).
* `Copied` also excepts the empty file, which keeps the length of its extension: it is extended in `HandleReq`
  (664) without `CurrentExtendedSize`, by which it would be cut (435).
* `CountedIsThere` of `ServiceStop`, `hasty` and `late`: each counter is looked at once, a `Sleep(1000)`
  replaces a second look although the comment (1077-1083) speaks of waiting until it is zero, and calls dispatched
  but not yet counted, or past their last decrement, are not seen at all.

More follows from the modelled code without a run. With `OffsetLimit` less than the file, `InOrder` fails:
the 32-bit offset wraps without a carry (line 691). At the client the positions are signed (116-117) and have no high half either (635, 851):
from 2 GB on the comparisons at 435 and 889 see negative numbers, `SetFileSize` (176-182) does nothing, and from 4 GB on
the file is written from its front again; `EachByteOnce` and `Copied` need `Fits`. A call can be refused as too busy because of a refused
increment that is not yet taken back (`Resources.cpp`:70), although fewer requests wait than the bound allows.
`RpcAsyncCompleteCall` is called twice when the notice precedes the last write. In `filerepmultiuser` a put-back (606, 625) can come when
the thread that held the bound has already found nothing and returned, so that the request waits for the next
call.

## 5. What is proved

TLAPS checks these for every value of the constants that the `ASSUME`s of the modules allow
(finitely many blocks, threads or users; bounds that are natural numbers; of the files at the client one is the
longest). Every invariant that a passing run checks is stated by a theorem; `NoStranded` is under a premise.

* `TypeCorrect` (`ServerSchedulingProofs`): `Spec => [](TypeOK /\ Locals)`.
  `TypeOK` alone is not inductive: `FindSReq` indexes its arrays with `held` and
  `scan`, and `Locals` says that they have a value where they are used.
* `OnePlaceAlways` (`ServerSchedulingProofs`): `Spec => []OnePlace`. The inductive
  invariant `PlaceInv` adds to `TypeOK`, `Locals` and `OnePlace` the conjunct `Roles`, which says which
  thread can be at which step, and that an RPC thread that is counting,
  queueing or shutting down still owns an `Arrived` request. That is the fact that makes
  `Enqueue` safe (the request is in no queue yet) and that tells the two callers of
  `FindAndActivateSReq` apart. The proof has one lemma per action or group of actions.
* `CountersAlwaysExact` (`ServerSchedulingProofs`): `Spec => []CountersExact`. The set of
  requests that are charged to a counter is written as the union of those charged by
  their place and those charged by a step of their thread. The proof shows that each step
  changes the charge of at most one request per counter, and the counter likewise.
* `AlwaysWithinBounds` (`ServerSchedulingProofs`): `Spec => []ActiveWithinBounds`. A group's
  counter may exceed its bound between an increment and its test, so the bound is proved
  for `Accepted`, the requests that passed the test: a thread that reads at most the bound
  after its own increment is itself counted, and with `CountersExact` all others
  accepted are, too. The user's counter is tested and incremented under one lock and is itself
  bounded.
* `AdmissionImplemented` (`ServerSchedulingProofs`): `Spec => ImplementsAdmission`, the refinement under the mapping `Phase`,
  from the two theorems before. Only the increment of the waiting counter within its bound,
  that of the user's counter within its bound and the decrement of the group's
  active counter move a phase; the first and last step of a call identify the request. `Submit`'s bound and
  the user's part of `Start`'s follow from `CountersExact`: all that waits, or is served for a user, is
  charged to the counter that was read. The group's part follows from `Bounded`: the
  request being started is `Accepted` already, so the others served are fewer than the bound.
* `NoneStranded` (`ServerSchedulingProofs`): as long as no search has put a request back, `[]NoStranded`. A request
  that is queued need not be found by the search that was started for it, because searches overtake each other
  between the queues. The inductive invariant is a count: for each group `q`, the queued requests of `q` and the
  groups after it are at most as many as the searches that have not passed `q` (`Covered`). When no thread searches, nothing
  is queued. The premise is the exception of section 4, and `NoneStrandedWithRoom` discharges it: with bounds
  of at least the number of requests, `CountersExact` shows that no increment exceeds one, so no search
  puts anything back.
* `PoolCounted`, `PoolNeverAbandoned`, `PoolSomeWaiter` (`WorkerPoolProofs`).
  `CounterExact` is nearly inductive with the types: each step moves at most one thread
  into or out of `Counted`, and changes the counter likewise (the lemmas about the cardinality
  of a set with one member more or less). From it follows what the last decrement
  means: a result of 0 says that no other thread is counted. `NeverAbandoned` needs
  besides that a thread that ends leaves another counted one behind; `SomeWaiter` counts
  a thread that could not create another one (step "alone") as the waiter it becomes.
* `ServiceTypeCorrect`, `ServiceCountedIsThere`, `ServiceNothingLeft` (`ServiceStopProofs`): the invariants of
  the stop, for any number of calls. `CountedIsThere` alone is not inductive. `SInv` adds that everything is
  there until the deletions begin (`AllThere`), that the flags say what is there (`FlagsTrue`), what is left
  at each deletion (`YetToDelete`), and the heart of it, `PassedIsZero`: a call that is not excused is
  in no counter that was passed. The step that matters is `IncActive`: the call enters a second counter, which
  may have been passed; but the first one comes before it in `Checks` (`ActiveLater`), so it would have been passed, too.
* `PipeTypeCorrect`, `WorkersAgree`, `FlagsAgree`, `NeverUsedAfterFree` (`ServerPipeProofs`): the invariants of
  a transfer, for any number of workers and any set of failing calls. None is inductive alone: what a worker may
  rely on after it left the lock depends on who else is about to act. `PipeInv` says that a read that was started is in
  one place only, outstanding, reported in the port or taken by a worker (`OneRead`), and so is a push (`OnePush`); that
  one worker at most carries the request on (`OneActor`); and what holds while it does (`ActorsKnow`) or while
  I/O is under way (`TokensKnow`). The shutdown is reached only with neither, hence the request is freed
  by its last user (`Over`). The proof has one lemma per action, each with one step per conjunct.
* `BytesInOrder`, `TransferImplemented` (`ServerPipeProofs`): with `NoWrap`, every file shorter than `OffsetLimit`, the
  pushes are a prefix of the file, and each step is one of `Transfer`, leaves its variables alone, or is
  `Excused`. `Order` relates the offset, the buffer and the stream: the buffer holds the bytes that follow the
  stream, which consists of whole blocks until the last read. `NoWrap` is needed: the code does not carry into
  `OffsetHigh`.
* `ClientTypeCorrect`, `AssertsNeverFail`, `FreedOnlyWhenUnused`, `BytesAccountedFor`, `CopyComplete`,
  `CompletedOnlyAfterNotice` (`ClientPipeProofs`): the invariants of the copy, for any number of workers, any buffer,
  extension and any set of failing calls. `BytesAccountedFor` and `CopyComplete` are about files that fit (`Fits`, the
  numbers being signed 32-bit ones), positions that are not `spoiled`, and, the second, failures whose `Status` is not 0; these
  premises are the code's limits of section 4. `ClientInv` counts the packets of each kind and the workers at
  each step together (`Count`), because a packet that a worker takes is still the same obligation. The four ways in which
  a pull can be about to happen add up to at most one (`OnePuller`); `nWrites` is the number of outstanding and
  reported writes, and `nBytes` what they owe (`Counted`). `WritesKnown` says of which bytes each outstanding write was
  started, that two do not overlap, and which of them the buffer still holds; `Placed`, under `Fits`, that no
  position has wrapped, so each write is where its bytes belong; with both, a position outside `spoiled` is covered by
  one write or written, once and with its own byte (`FileKnown`), and the length is that of the latest extension or
  of the last write (`LengthKnown`). `Outcome`, `Quiet` and `Gone` say how the request can end, each without the faults that
  break it, which are those that the properties except. `Transfer` is used as an instance, by what
  `TransferImplemented` shows the server to keep.
* `QueueTyped`, `WakeupsKept`, `RefusalSticks` (`OutputQueueProofs`): for any batch size, with flushes and Resets,
  `Spec => []TypeOK`, `[]NoLostWakeup` and `NothingAfterRefusal`. `QInv` adds to the types, which are split by what
  changes together, that a thread that is not asleep has taken its token and is not marked as waiting (`Awake`),
  that what is queued behind a marked thread cannot fill an exact batch (`Unnoticed`), that a NewSegment is followed by its
  parameters in the list (`SegPaired`; otherwise taking both would not keep the list a list), and where an error of the
  pin is between the pin's answer and `m_hr` (`Recorded`). That `m_ppSamples` is never overrun is a type (`Len(batch) < BatchSize`):
  it holds because the batch is handed over as soon as it is full, in the step that filled it.
* `OrderKept` (`OutputQueueProofs`): `Spec => []InOrder`. Samples are numbered as they are queued, and the numbers in
  what is being sent, the packet taken, the batch and the list follow each other without a gap: there are three
  boundaries, and each of the four holds the numbers between two of them (`Parted`). Every step of the thread moves a
  boundary or moves a stretch across one.
* `FlushesComplete`, `LossesExplained` (`OutputQueueProofs`): `FlushedAll` and `NothingLost`. The event that
  `EndFlush` waits for is set only when the thread holds nothing and the list is empty (`DriedUp`), and stays true because
  `m_hr` refuses what comes during the flush (`Flushes`); what was skipped was so for a flush, a refusal or the
  end (`Errors`). `NoReset` carries the properties' premise that the application does not call `Reset`.
* `DirectTyped`, `DirectOrder` (`OutputDirectProofs`): `InOrder` and the types without a thread. The batch holds exactly
  the numbers after the last one sent (`Batched`), which are counted but for those that the call in the loop still
  owes (`Owed`), and it has room when a sample is copied into it (`Room`).
* `PlacesKept`, `NeverInTwoPlaces` (`MultiUserProofs`): `NeverTwice`, for any number of calls, users and groups. Most of the
  proof is about pointers. `Lists` says that each group's chain exists, that no node is in two places (`Apart`), that no
  two nodes of a chain are of one user (`Keyed`), and that `pLast` is the end of its own chain or an
  unlinked node (`Ended`), which is what `QueueMoveToBack` leaves behind when it drops the last node. `Chain`
  is defined by `CHOOSE`; it is the walk one expects because two walks from the same head agree as far as
  both go (`ChainIs`). The lemmas about appending a node and moving one to the back build the new walk and cite
  that. `Placed` then says that queue, subqueue and hands exclude each other.
* `CountersAreExact` (`MultiUserProofs`): each counter is the number of requests in a state, corrected by the threads
  between the two (`Counted`); a step moves at most one request and one thread, so each term changes by at most one.
* `TurnsAreTaken` (`MultiUserProofs`): no user is passed over more often than there are others. For a user whose
  subqueue is not empty, how often he was passed plus his place in the chain is at most the number of users
  (`Turns`): serving the first one brings the others a place forward, and a chain is no longer than that, because its
  keys differ.

Only model-checked: all liveness (`TopGroupServed`, `Ends`, `PacketTaken`, `OneLeft`, `ThreadsReturn`,
`StopEnds`, `CallsEnd`, `Drains`, `FlushEnds`), which is beyond the prover's reach. `NoStranded` is not
proved for bounds that are exceeded, where TLC refutes it (section 4). `MultiUser`'s `TypeOK` is not proved as a
whole: that `used` stays within `Nodes` needs a count of the nodes ever allocated.

## 6. Plan

The order was: scheduling first (most shared state), then the transfer (most
interleavings per request), the pool, the client's transfer, the stop of the service,
the predecessor's shared service, and the output queue as the first of the DirectShow base classes. Next:

1. `MultiUser`: the put-back that comes too late, as a property of its own; its `TypeOK`, with an invariant that
   bounds the nodes by the chunks that were served.
2. The pull pin and the asynchronous reader of DirectShow (`pullpin.cpp`, `asyncio.cpp`): another thread that is flushed
   and stopped while it waits.
3. The client's worker pool and scheduling as instances of their own, if they are to be told from the server's.

## 7. Not modelled, and why

* The client's scheduling and worker pool: `FindCReq`, `FindAndActivateCReq` and the creation of threads in
  `RequestFile` and `ServiceRequests` take the server's steps on the client's own queues and counters.
  `ServerScheduling` and `WorkerPool` are that algorithm, but no instance is mapped to the client's lines.
* Start that fails half-way: `CountersCreate` and `QueuesCreate` always return TRUE (`Resources.cpp`:115), and what
  follows uses null pointers. The completion ports are compared with `INVALID_HANDLE_VALUE`, which
  `CreateIoCompletionPort` does not return, and are never closed.
* Failures of the client that outlive their request: `CreateIoCompletionPort` sets the global `ClientCompletionPort` to NULL
  when it fails (667), so that the next file makes a new port and nobody waits at the old one; `RevertToSelf` (734-742). The counters `nWrites` and `nBytes` are taken not
  to overflow, and a pending write reads the buffer at one moment, not byte by byte while a pull fills it.
* Allocations that fail in the user counters (`Resources.cpp`:446-464, 618-621): the increment is lost although the call goes
  on, and the decrement at its end then creates a counter of -1 (652-661), so the user gets one place more than
  the bound. `IncUser` of `ServerScheduling` and `MultiUser`'s counters are those whose node exists or can be allocated.
* `CreateThread` that fails in `filerepmultiuser` shuts down a request the thread no longer holds
  (`filerepclientproc.cpp`:551).
* The server of `filerepmultiuser`, `filerepsecure` and `filerepsimple`: each call runs to its end in its own thread.
* Tokens, impersonation, SIDs' contents, RPC bindings, tracing, command line: calls of Windows
  that succeed or fail; where a failure changes the control flow, it is a choice.
* The DEBUG1 profiling counters: no effect on the protocol.
* In the output queue: `AddTail` that fails drops a sample, a packet, or only the parameters of a NewSegment, whose null
  pointer is then used (559); the destructor releases `m_pInputPin` before its thread has ended (152), where
  the connection's own reference is what keeps the pin. Calls of the pin by two streaming threads are excluded by DirectShow's streaming lock.
* All other samples under `src/`: independent programs of other subjects, listed in `PROJECT.json`. They are
  nearly all of the repository's lines, so the modelled share of the whole stays small.
