# kanon in TLA+

Specifications of the kanon network library (`kanon/`): a C++11 reactor library
in which every thread that does I/O owns one `EventLoop`, sockets are wrapped in
`Channel`s that a poller watches, and TCP servers and clients are built out of
connections that live on one loop each. The modules are translated from the
sources; TLC checks them on small instances and TLAPS proves the central
invariants for every value of the constants.

## The system

| Part | Sources | What is hard |
| --- | --- | --- |
| EventLoop | `net/event_loop.*` | pushes and quits of other threads race with the swap of the functors and with `Poll()`, which blocks for ever (`POLLTIME` is -1) |
| TimerQueue | `linux/net/timer/*`, `net/timer/*` | cancels in every phase, from the timer itself, from its batch, from other threads; raw `Timer*` |
| Channel, Poller, Epoller | `linux/net/channel.*`, `poller.*`, `epoller.*`, `net/poll/*` | the index of a channel in `pollfds_` changes when another one is removed; the index of an epoll channel must say what the kernel has |
| Connections | `net/connection/*` | partial writes, half-close, closes from both ends and from several threads, level and edge triggers |
| Acceptor, TcpServer, EventLoopThread, EventLoopPool | `net/acceptor.*`, `net/tcp_server.*`, `net/event_loop_*` | the handshake of thread start, shutdown while connections are open, callbacks on two loops |
| Connector, TcpClient | `net/connector.*`, `linux/net/connector.cc`, `net/tcp_client.*` | a timer racing a restart, an interval that doubles without a cap |
| Locks and threads | `thread/*` | lost notifications, several kinds of waiters on few conditions, `holder_` beside the mutex |
| Asynchronous log | `log/*` | a bounded queue, a writer that swaps buffers while threads append, a remover of old files |
| Buffers, containers, memory pools | `buffer/*`, `net/*buffer*`, `algo/*`, `mem/*`, `util/*any*` | index arithmetic at the edges, links and cached tails, who owns a block |
| Text and addresses | `string/*`, `net/inet_addr.*`, `net/sock_api.*` | positions at both ends of a text, formats, a port through three conversions |
| Protobuf codecs, RPC, file transfer | `protobuf/*`, `rpc/*`, `example/file_transfer/*` | frames cut anywhere, an answer racing the deadline of its call, a protocol driven by write-complete callbacks |

Interactions: other threads reach a loop only through `QueueToLoop()`,
`RunInLoop()` and `Quit()`; timers, connections, servers and clients run on the
loop and hand work to it; a server's acceptor loop creates connections on the
loops of a pool and the connections report their close back to it; codecs and RPC
channels are message callbacks of connections; connections keep input in a
`Buffer` and output in a `ChunkList`.

What is right about the system, in one place: a functor handed to a loop runs
once, in order, and never waits in a queue nobody looks at; a timer fires or is
cancelled and its memory has one owner; a connection delivers the bytes it took
in order, calls its callbacks once and is freed after its channel left the
poller; the server's map holds the open connections and nothing else; a client
keeps trying until it is stopped and not afterwards; locks exclude and lose no
notification; a log keeps order and loses only what it says it discards; codecs
deliver what was sent, once and in order; buffers are byte queues and lists are
sequences; and the destructors and `Quit()`s that other threads wait for return.

`PROJECT.json` lists every component with its status, every hazard with its
line, and the source lines of every definition.

## Modules

The reactor:

| Module | Models | State | Actions |
| --- | --- | --- | --- |
| `SerialExecutor` | what an `EventLoop` promises to `QueueToLoop()` | handed over, executed, open | `Submit`, `Execute`, `Close` |
| `EventLoop` | one loop, its owner thread, any number of calling threads | the members of the class; `batch` is the local vector of `CallFunctors()`; `phase` and `call` are program counters | one per step of `StartLoop()`; the API of another thread is split where the unlock and the write of the eventfd let others in |
| `TimerQueue` | the timers of one loop, the timerfd and the clock | the members, the locals of `ProcessAllExpiredTimers()`, who has deleted what | add and cancel by the loop, by callbacks and by other threads; poll, call one timer, reset; exception; destructor |
| `Demultiplexer` | what a poller promises to channels | what each channel wants, what the kernel watches on each fd, what is reported | update, remove, report, handle |
| `Poller` | the `poll(2)` demultiplexer | `pollfds_`, `channels_map_`, indices | update, remove, poll, report |
| `Epoller` | the `epoll(7)` demultiplexer | the kernel's table, each channel's index and events, the size of `events_` | update (ADD, MOD), remove, wait, report |
| `Connection` | one level-triggered connection, its channel, its place in server and poller | `state_`, `output_buffer_` (with `ChunkOps`), the events of the channel, the socket, the loop | the handlers in the order of `Channel::HandleEvents()`, the functors, the three `Send()`s, `ShutdownWrite()`, `ForceClose()`, reads of `state_` in other threads as steps of their own |
| `EdgeTriggered` | the same connection under edge-triggered epoll | `Connection`'s, the edge, the parity of the write loop | `HandleEtRead()` and `HandleEtWrite()` one iteration at a time |
| `EventLoopPool` | `EventLoopThread` and `EventLoopPool` | `loop_` of each thread, `quit_` and the eventfd of each loop | start handshake, round robin, `Quit()` and `Wakeup()` of the destructor as separate steps, join |
| `TcpServer` | server and acceptor, with the loops of a pool | `connections_`, `start_once_`, `dummyfd_`, the state and owner of each connection | start, accept, refuse at the descriptor limit, establish, close, erase, `ApplyAllPeers()`, destructor |
| `TcpClient` | client and connector | `state_`, `connect_`, `retry_interval_`, the timer, the channel, the sockets | connect, complete, retry, time out, stop, hand over, close, destroy |

Threads and the log:

| Module | Models | State | Actions |
| --- | --- | --- | --- |
| `RWLock` | the readers-writer lock | both counters, where each thread is | one per critical section between two waits, and spurious wakeups |
| `Mutex` | `MutexLock`, its guards and `Condition` | the pthread mutex, `holder_`, where each thread is | the write of `holder_` apart from taking and giving back the mutex; wait, notify, timed wait |
| `CountDownLatch` | the latch | `count_`, sleepers | every member function |
| `ThreadPool` | the bounded queue, the workers and `Thread::StartRun()` | `tasks_`, each worker, each pusher | push, pop, run, resize, stop and join |
| `AsyncLog` | front threads, back thread | the current, next and full buffers, the back thread's spare ones | append, the timed wait, take, write, recycle, stop |
| `LogFile` | rolling files and the remover thread | the open file, the list of files, the copy handed to the remover | append, roll by size and period, flush, remove one file, destructor |
| `LogStream` | one log statement | the fixed buffer, the thread's cached time | begin, stream a value, end, abort of a fatal record |

Data and protocols:

| Module | Models | State | Actions |
| --- | --- | --- | --- |
| `ChunkOps`, `ChunkList` | the output buffer: its algorithms as operators, and a list under any sequence of calls | chunks, free chunks, the byte sequence it stands for | append, prepend, read, shrink, reserve |
| `Buffer` | the input buffer | the array and the two indices, in wrapping `size_t` | append, prepend, the reads, shrink, `readv()` through the second buffer |
| `ReservedArray` | the array under a `Buffer` | three arrays over a heap whose allocations may fail | construction, copies, moves, growth, shrinking |
| `ForwardList` | the list under a `ChunkList` | nodes, links, cached tail and count of two lists | every operation that links or unlinks nodes |
| `MemoryPool`, `LinearPool` | the fixed-chunk and the linear memory pool | blocks, free list; the array, its free positions and `malloc()` | malloc, free, shrink, reserve |
| `AnyHolder` | `Any`, `UniqueAny`, `RawAny` | the held objects and who points to them | construction, assignment, copy, move, clear, casts |
| `StringView` | searches, comparisons, `split()`, `Logger`'s `SourceFile`, `StrAppend()` | the input | (operators against reference definitions) |
| `FmtStream` | the format stream over a `FixedBuffer` | the buffer, what the calls describe | `Serialize()` with any format and arguments, `Reset()` |
| `InetAddr` | addresses from and to text, number parsing, `IsSelfConnect()` | the text | (operators against reference definitions) |
| `PbCodec` | the fixed-size and the varint protobuf codec | the stream, the input buffer, what was delivered | send good and damaged frames, receive any number of bytes |
| `RpcChannel` | client and server channel over one connection | `id_`, `outstanding_calls_`, timers, requests and replies on their way | the steps of `CallMethod()`, send, handle a request, answer, expire, disconnect |
| `FileTransfer` | `example/file_transfer` over the length codec | the client's position, its queue, the wire, the session and its disk | send a chunk, write complete, receive any piece, disk faults |

`EventLoopProofs`, `TimerQueueProofs` and `RWLockProofs` hold the proofs.

Modules named `MC...` give constants for TLC. `MCRuntime`, `MCData`, `MCLoop` and
`MCTimers` run several modules that share no state: an initial state picks the part
that runs and the others keep one initial state, so the state spaces add up and
do not multiply. `MCRuntime` has the parts that run in several threads or
processes, `MCData` the ones whose difficulty is their data, `MCLoop` the loop and
a client, `MCTimers` the timers and a connection. Each property of theirs names the
property of the module that states it (`LoopsShared == Pool!LoopsShared`), and the
fairness of a part is asked of the part that runs.

Definitions introduced by "A slip a programmer might make" are wrong variants of
the definition that follows them; putting one in its place makes a property of
the run fail, and `PROJECT.json` records which ("mutants").

How they compose. `EventLoop` is shown to implement `SerialExecutor`; the modules
above it use a loop in that shape: a FIFO of functors that is swapped out as a
batch between two passes over the channels. `Poller` and `Epoller` implement
`Demultiplexer` in the same way: a call for a channel changes what the kernel is
asked for on the fd of that channel, to what the channel wants, and nowhere else. `Connection` runs on `ChunkOps`, the operators that `ChunkList`
compares with a byte queue, and `EdgeTriggered` runs on `Connection`. `TcpServer`
keeps of a connection only the state, the owner and who holds a pointer, since
`Connection` has the rest; `PbCodec`, `RpcChannel` and `FileTransfer` use a
connection as the FIFO byte stream that `StreamIntact` shows it to be.

Conventions. An action is a whole handler or the part of it between two points
where another thread can come in. A failed assertion, or a use of freed memory,
sets a variable (`crash`, `failed`, `asserted`, ...) and ends the program; what may
lead to it is then an ordinary invariant. Most modules take a `use` in their first
state: which calls the user makes, from which thread and in which phase. One run
covers all the uses, and a property says for which of them it holds.

## Runs

Every run is `tlc -config <cfg> <module>`; the passing ones take two to four
minutes each.

| Run | Instance | What it shows |
| --- | --- | --- |
| `loop_and_client` (`MCLoop`) | a loop: 2 threads, 3 functors, 1 readiness event; a client: 3 sockets, five uses, 3 calls, 6 attempts, a 3-bit interval | `NoLostWakeup`: the owner never sleeps in `Poll()` on queued work; `ExecutorSpec`: the loop is a serial executor, exceptions included; `LoopProgress`: what is queued is called, and `Quit()` of any thread ends `StartLoop()`; `ClientSound`: assertions, owners of sockets, nothing dangling; `KeepsTrying`; `StopIsFinal`; `ClientProgress` |
| `timers_and_connection` (`MCTimers`) | a periodic and a once timer, delays 0 and 2, 4 instants; a connection: 2 messages of 2 or 3 bytes, a socket buffer of 1, one other thread, four uses | `TimerArmed`: no active timer without a timerfd that wakes the loop for it; `OwnedOnce`: one owner per raw `Timer*`; `ErasedForGood`: a timer erased while active neither runs nor returns; `TimersFire`; `StreamIntact`: bytes in order, each once, FIN last; `CloseOnce`: callbacks and clean-up exactly once; `HighWaterRisingEdge`; `AssertionsHold`: which uses can fail an assertion; `ConnectionProgress` |
| `runtime` (`MCRuntime`) | the nine concurrent parts, see below | `LockSound`, `LockProgress` (`RWLock`); `LoopsShared`, `CallsReturn` (`EventLoopPool`); `TasksHandedOver` (`ThreadPool`); `WaitersSound` (`CountDownLatch`, `Mutex`); `LogSound`, `LogProgress` (`AsyncLog`); `RpcAnswers`, `RpcProgress` (`RpcChannel`); `FileIntact`, `TransferCompletes` (`FileTransfer`); `ConnectionsTracked`: the map holds the open connections, each freed only after it left the poller, `ServerAssertionsHold`, `ServerProgress`: clients are served at the descriptor limit, closes and calls complete (`TcpServer`, nine uses) |
| `data` (`MCData`) | the fifteen data parts, see below | `BuffersAreByteQueues` (`ChunkList`, `Buffer`); `MemoryOwned` (`ReservedArray`, both pools, `AnyHolder`); `ListsAreSequences` (`ForwardList`); `TextExact` (`StringView`, `FmtStream`, `InetAddr`); `CodecDelivers` (`PbCodec`); `RecordSound` (`LogStream`); `OpenFileKept` (`LogFile`); `DemultiplexersSound` (`Poller`, `Epoller`); `DemuxSpec` (`Poller` and `Epoller` implement `Demultiplexer`) |
| `timer_cancel_same_batch`, `conn_half_close`, `server_start_twice`, `codec2_header`, `et_write`, `string_view_last_of`, `list_assign`, `pool_shrink` | | violations, see Findings |

Bounds, and why they are enough.

- Loop: two threads besides the owner are enough for every pair of racing calls,
  and three functors for a batch in execution, a push during it and one after it;
  functors are interchangeable, and the progress of one stands for all.
- Timers: one periodic and one once timer meet in one batch, cancel each other and
  themselves, and the clock saturates: after `MaxTime` instants are no longer told
  apart.
- Lock: four threads and a limit of three readers give a writer that waits for
  readers, a second writer behind it, and a reader at the limit.
- Loop pool, thread pool, latch and mutex: two threads of each kind, so that a
  notification can reach the wrong one; queue sizes 1 and 2 and two tasks per
  pusher fill and drain the queue; three threads contend for the mutex.
- Log: buffers of three messages, a bound of three buffers and ten messages
  reach the bound, and the exchange of both spare buffers. Files roll at two
  bytes or three seconds and three of them start the remover.
- RPC: two calls, of each kind, ids modulo 4 so that a counter left at its last
  value wraps. Transfer: files of up to five bytes in chunks of two, hence a
  short last chunk, an exact one and an empty file, in any pieces.
- Buffers: messages longer than the socket buffer and than what is left of a chunk
  force partial writes and chunk boundaries; `Buffer` grows, moves and wraps
  within eight bytes. List: four nodes over two lists. Arrays and holders: one
  address more than there are variables to hold one.
- Views: all strings of up to four characters and patterns of up to two. Formats:
  all of up to four characters with up to two arguments, two calls into a buffer of
  nine bytes, which some of them fill. Addresses: every address of the reduced
  widths printed and read back, and some 19000 texts with ports that are missing,
  negative, no number, too large for 16 bits, for 32 bits and for the buffer.
- Demultiplexers: three descriptors are the fewest for which a removal moves an
  entry that is neither the removed one nor a neighbour of it.
- Server: two clients make two loops that close at once; ids wrap at 3, so that
  names of the two never collide. Client: six attempts pass the point where a
  3-bit `retry_interval_` has been doubled to zero, as 32 bits are after 30
  failures.

Fairness. Weak fairness of the threads' own steps only: a thread that has begun a
call finishes it, callbacks return, a loop goes on. It is what a scheduler gives
and what the code relies on; no thread is obliged to call, no client to connect,
no spurious wakeup to happen. From outside are taken: in `TimerQueue` the clock
advances and the timerfd fires, and the loop comes back to `Poll()` between two
batches of functors (`CallFunctors()` runs only the batch it has swapped out); in
`Connection` and `EdgeTriggered` the peer keeps reading; in `TcpClient` the
network answers an attempt; in `RpcChannel` messages on a connection that stays
up arrive and the service answers; in `FileTransfer` what was sent arrives; in
`AsyncLog` the back thread's timed wait ends. `RWLock` assumes that a thread with
the lock releases it.

Deadlock checking is off in every run of a system that may come to rest: a loop
that has quit, a program that has ended or aborted, a server that waits for
clients. In `MCRuntime` and `MCData` it is off because parts that end are explored
beside parts that do not; that the lock is always released to a waiter is
`LockProgress`.

## Proofs

TLAPS checks the three proof modules from nothing, with SMT, Zenon and LS4, for
every value of the constants.

- `EventLoopProofs`, for any sets of threads and functors.
  `TypeCorrect` carries, with the types, the agreement of `phase` with
  `looping_`, `calling_functors_`, the batch and the active channels; everything
  else rests on it. `Conserved`: what was pushed is what was called, followed by
  the batch and the queue; its lemmas are about concatenation (`AppendConcat`,
  `MoveHead`). `WakeupNeverLost`: `NoLostWakeup` is not inductive, since it
  only speaks of `phase = "poll"`; `WakeInv` says the same from the moment the
  queue is swapped to `Poll()`. It is false in phase 2, where `EvRead()` consumes
  the signal, and need not hold there, since the swap follows. The functors the
  owner queued before `StartLoop()` (`early`) are the one exception, and it lasts
  only as long as nothing else is queued.
  `QuitNeverMissed` is the same for `quit_`. `LoopImplementsExecutor`: each step
  of the loop is a step of `SerialExecutor` or leaves `batch \o functors_`, the
  executed functors and the end of the loop alone; an exception maps to `Close`,
  which drops the front of the queue.
- `TimerQueueProofs`, for any timers, intervals, delays, clock bound and seconds
  (the named assumptions of `TimerQueue`). `TypeCorrect`. `TimersAlwaysArmed` is
  inductive with the types: the case that matters is `EmplaceAndArm`, which arms
  only for a new earliest timer (`EmplaceCovers`). `TimersOwnedOnce` and
  `ErasedStaysErased` follow from one invariant (`OwnInv`): the two support each
  other, because a timer is erased out of the active set, so no queued add owns
  it, so nothing puts it back.
- `RWLockProofs`, for any finite set of threads and any limit of readers.
  `MutualExclusion`, `CountsAlwaysExact`, `NotificationsSuffice` and their
  conjunction `LockIsSound` (the invariant `LockSound` of the run) follow from
  `LockInv`: the counter is the number of readers, the flag is the claim of
  exactly one writer, no writer sleeps on `cond_w_` while the flag is down, no
  claiming writer sleeps on `cond_r_` without readers, and a writer that writes
  has seen the counter at zero. What a notification can do to
  the other threads is a lemma (`Moved...`), so each operation only argues about
  the thread that takes it.

Only model-checked: all liveness, and everything about the other modules.
Liveness under fairness, and what a fold or a recursive definition computes for
inputs of any length, are out of the prover's reach and stay with TLC.

## Findings

Eight runs are expected to fail: the property states what the repository says,
and the counterexample is what the code does.

- `timer_cancel_same_batch`: `CancelTimer()` promises that "the callback of timer
  will not be called". A callback that cancels a later timer of its own batch only
  puts it in `canceling_timers_`, which the calling loop does not consult; the
  cancelled callback runs.
- `conn_half_close`: `HandleLtWrite()` means to "delay the shutdown() to here",
  but calls `ShutdownWrite()`, which does nothing unless `state_` is still
  `kConnected`. A half-close made while output is pending never happens.
- `server_start_twice`: `StartRun()` is documented as harmless when called many
  times and thread-safe. `start_once_` is tested by the callers and set later by
  a functor; two early calls both queue it and the second fails an assertion.
- `codec2_header`: `ProtobufCodec2` asserts that more than the size header is
  readable once the header can be decoded; its text says "must be >=". A read that
  delivers exactly the header fails it.
- `et_write`: the loop of `HandleEtWrite()` ends only when a write reported
  `EAGAIN` and nothing is left, which cannot be; the code behind the loop, "To
  write entire message, we need" to register the write event, expects to leave it
  with bytes left.
- `string_view_last_of`: `find_last_of(v, pos)` is to return "the index of the last
  occurrence of any character of the sequence, if not found, return npos". Its loop
  never lowers `i`: it does not end when the character it starts at is not in `v`,
  and it never looks at position 0. A test of the repository makes such a call.
- `list_assign`: `assign(count, value)` is to erase the rest of a longer list, under
  the comment "count < size()"; the branch asks whether a `size_t` is below 0.
- `pool_shrink`: the memory pool "also can support shrink", but `Shrink()` leaves the
  chunks of the blocks it frees in the free list, and the next `Malloc()` hands out
  freed memory.

## Observations

Most conditions in the properties come from behaviours that TLC found for the
property without them. These are the places where the code asks something of its
users, or where a reader of the code should look.

Loop, timers, connections:

- A functor queued by the owner before `StartLoop()` is not announced (the `early`
  of `NoLostWakeup`): the first `Poll()` sleeps on it.
- A cancel executed on the loop can overtake the queued add of a timer by another
  thread, and is lost. `canceling_timers_` hashes with the current second, so an
  entry may not be found after a second has passed. A `TimerId` kept after its
  once timer has run is dereferenced by the comparator.
- An init callback that quits its loop can leave `EventLoopThread::StartRun()`
  waiting (`CallsReturn`); `Quit()` sets the flag before it uses the loop for
  `Wakeup()`, and the IO thread may have destroyed it in between;
  `GetNextLoop()` returns null after a callback has quit that loop.
- `AssertionsHold` of `Connection` names the uses that can fail: closes by other
  threads race with the handlers over `state_` and over the raw `this` in the
  lambda of `ShutdownWrite()`; a paused channel without events is still reported
  by epoll on errors; a chunk list spliced behind pending output goes through a
  null node. A first write that meets `EAGAIN` drops the message; `StreamIntact`
  counts as accepted what `SendInLoop()` kept. With `write_complete_callback_` the
  write event may be disarmed with bytes left, and the callback may be cleared
  while a call of it is queued. A short first write of a chunk list does not
  enable the write event (`FileTransfer`, use "short"), nor does a failed one of an
  `OutputBuffer` of several chunks, whose bytes stay behind (`Unarmed`,
  `LongBuffers` in `Connection`).
  When another thread closes in between, the connection callback may be called a
  second time for the end of one connection (`CloseOnce` names the use).
- With `poll(2)` a channel that has given up all events cannot be updated again
  (`UpdateWorks`); `Epoller` changes such a channel to no events, where its
  comment says it is removed.
- `ApplyAllPeers()` calls user code under `lock_conn_`; closing a connection of the
  calling loop there locks the thread out (`SelfLocks`), and from another thread
  `ForceClose()` writes `kDisconnecting` over whatever the loop of the connection
  has made of `state_` since it was tested (`ClosesFromAfar`). The destructor of a
  server with a pool may drop the functors that would destroy its connections.
  Another thread may take the descriptor that `dummyfd_` frees. Connection names
  contain a 32-bit counter.
- `Connect()` called again before the first attempt is done with, and a close in
  the connection callback of a client that retries, fail assertions of the
  connector; a client dropped while it connects can lose its socket or leave a
  functor with a freed `Connector`. `Disconnect()` and `~TcpClient()` test `state_`
  and write it later, so a connection that was closed in between is made
  `kDisconnecting` again, and the functor of `ShutdownWrite()` keeps a raw pointer to
  a connection that may be gone (`overtaken`). `retry_interval_` is doubled without its cap
  and is zero after 30 failures (`KeepsTrying`).

Threads and the log:

- At `MAX_READER_NUM` readers one `Notify()` wakes one sleeper, and several may be
  asleep (`LockProgress` is stated below the limit).
- `holder_` of `MutexLock` is written before the lock is taken, so a contender
  overwrites the id of the real holder, and a failing `TryLock()` clears it:
  `HolderHonest` says only that nobody outside takes itself for the holder. It is
  uninitialised until the first lock.
- `CountDownLatch::Wait()` tests with an `if`, and `Minus()`, `Reset()` and others
  notify nobody (`NoSleeperAtZero` excludes a count lowered by them).
- Lowering `SetMaxQueueSize()` below the current size defeats the `==` test of
  `Push()`.
- `AsyncLog::Stop()` may end the back thread before it has taken the last buffers.
  The destructor of `LogFile` notifies its remover without the mutex, so the
  notification can be missed.
- `appendPtr()` asks for 10 bytes and writes up to 18 (`tight` in `LogStream`);
  the constructor of `Logger` for system errors prints a buffer nobody wrote when
  `errno` is 0.

Data and protocols:

- `Buffer::Shrink()` keeps the indices of the larger array in some layouts, and an
  append after a prepend that used up the prefix computes with a wrapped size
  (`risky` in `Buffer`).
- The splice of a range of a `ForwardList` takes it in reverse. Copy-assignment of a
  `ReservedArray` from an empty one goes through `realloc()` to size 0, which frees
  the block and returns NULL: the exception leaves `data_` pointing to it
  (`emptied`). Its copy constructor copies into whatever `malloc()`
  returned.
- Every `Shrink()` of a `FixedChunkMemoryPool` that frees a block leaves dangling
  chunks in the free list, and one that frees them all goes on to read the block
  chain, which is null (`PoolSound` says that nothing else breaks a pool). The pool
  has no lock, though `TcpServer::EnablePool()` allocates and frees from different
  threads: the use "shared" of `MemoryPool` has these steps and is left out of the
  run, where `PoolSound` would be lost within a few of them.
  `LinearFixedMemoryPool::Reserve()` may move the array away from live objects
  (`moved`), and overwrites `pool_` with NULL when `reallocarray()` fails.
- `find_last_of(c)` and `find_last_not_of(c)` of `StringView` return other positions
  than their names say, and some downward loops skip position 0; `SearchesFind`
  states what the others promise. `compare(c)` compares signed characters and
  `compare(v)` goes by `memcmp()`: the two order characters above 127 differently.
- `FmtStream` takes a C string for a pointer, prints its address, and leaves out what
  does not fit; `appendPtr()` asks for less room than the digits need.
- The converting constructor of `optional` reads `value()` of one without a value:
  `StringViewToU16()` of a text without digits stops at an assertion, and
  `InetAddr(address)` never gets to its `InetAddrException` for such a port. A port
  above 65535 is reduced modulo 2^16, and the character between `]` and the port is
  not looked at (`AddressesRead` states what holds of texts outside the documented
  forms). `InetAddr(ip, port)` looks for a dot first: an IPv6 address with a dotted
  tail is read as IPv4 and ends the program.
- An integer that straddles two chunks fails the assertion of
  `ChunkList::GetReadBegin()`.
- `RpcChannel` leaves `id_` uninitialised and takes an id by a load and a later
  increment: two calling threads may use one id (`RpcAnswers` is about one). A
  service that answers after a disconnect uses a deleted channel.
- The handler of an answer asserts that its id is not greater than `id_`, which fails
  for a call made before `id_` wrapped (`Wrapped` in `RpcChannel`).
- Both codecs measure what has arrived, not the frame, against their maximum ("A
  single message too large", "The maximum size message can hold"): several good
  frames that arrive together are thrown away (`flooded`). A frame that is refused
  stays in the buffer, in `ProtobufCodec2` without its size header; `GenericPbCodec`
  also refuses what does not parse (`kParseError`).
- `LengthHeaderCodec::Send()` evaluates `buffer.Read32()` inside an `assert`: in a
  debug build the header is taken out of the message again and the receiver finds no
  frame. The use "debug" of `FileTransfer` is that build; `FileIntact` says of it
  that the session writes nothing and never ends.
- A session of the file server that rejects a frame leaves it unread.

## Not modelled

- `RingBuffer`: unfinished in the repository (members without a definition, used
  by a benchmark only).
- Sockets, name lookup, time stamps, process information and `lexical_cast`:
  wrappers of system calls and of the C library. The outcomes of system calls are
  nondeterministic choices (marked external).
- The parts of partly modelled components that are named in `PROJECT.json`:
  iterators and unchecked element access of the containers, `Clone()` and the
  endian conversions of `ChunkList`, colours of the log, sends from
  other threads in the edge-triggered loop.
- The Windows port: the same components over other system calls.
- The memcache example, which is written against an interface the library no
  longer has and is not built; the chat, echo, daytime and discard examples, which
  add no protocol of their own to the server and the length codec.
- Memory-model effects below the granularity of a read or a write of a variable:
  an unsynchronised access (of `state_`, `loop_`, `start_once_`, `holder_`, the free
  list of a pool) is a step of its own that sees the latest value. An iteration of
  `LogFile`'s remover torn by the writer's swap in the middle of a vector access is
  likewise left out.
