# TLA+ specifications of chaonet

chaonet is a C++17 network library built on the reactor pattern: one event loop
per thread, non-blocking sockets, and callbacks. This directory specifies the
library, from the event loop to client and server, and the example programs
that keep a protocol state of their own; it checks them with TLC on small
instances, and proves the central invariants with TLAPS for every instance.
`PROJECT.json` lists the runs, the theorems, the source lines behind each
definition, and the hazards the properties are aimed at. Asserts are part of
the program: the build does not define `NDEBUG`, so a failing assert ends the
process.

## The system

| Part | State | Operations | Works with |
| --- | --- | --- | --- |
| `EventLoop` | `looping_`, `quit_`, `callingPendingFunctors_`, `pendingFunctors_` under `mutex_`, the eventfd `wakeupFd_`, `activeChannels_` | `loop`, `quit`, `runInLoop`, `queueInLoop`, `wakeup`, `handleRead`, `doPendingFunctors` | everything: other threads reach an object only through functors of its loop |
| `EPoller` | `events_` (grows), `channels_`, each channel's index (`kNew`, `kAdded`, `kDeleted`) | `poll`, `updateChannel`, `removeChannel` | called by `EventLoop` and, through `update()`, by `Channel` |
| `Channel` | `events_`, `revents_`, four callbacks | `enableReading` ... `disableAll`, `handleEvent` | owned by every object with a descriptor |
| `TimerQueue`, `Timer`, `TimerId` | `timers_` by expiration, `activeTimers_` by address, `cancelingTimers_`, the timerfd | `addTimer`, `cancel`, `handleRead`, `getExpired`, `reset`, `insert` | one channel of the loop; calls of other threads are functors |
| `EventLoopThread`, `Thread` | `loop_` under a mutex and a condition variable, the thread | `startLoop`, `threadFunc`, the destructor | constructs, publishes, quits and joins an `EventLoop` |
| `TcpConnection` | `state_`, `reading_`, `outputBuffer_`, `inputBuffer_`, `highWaterMark_`, its channel and socket | `send`, `shutdown`, `startRead`, `stopRead`, `connectionEstablished`, `connectionDestroyed`, `handleRead`, `handleWrite`, `handleClose`, `handleError` | its I/O loop, the server's base loop, user code on any thread |
| `TcpServer` | `connections_`, `started_`, `nextConnId_` | `start`, `newConnection`, `removeConnection` | acceptor, thread pool, connections |
| `EventLoopThreadPool` | `loops_`, `next_` | `start`, `getNextLoop` | server |
| `Acceptor` | `listening_`, the listening channel | `listen`, `handleRead` | server |
| `Connector` | `state_`, `connect_`, `retryDelayMs_`, `timerId_`, `channel_` | `start`, `restart`, `stop`, `connect`, `retry`, `handleWrite`, `handleError` | loop, timers, client |
| `TcpClient` | `connection_` under a mutex, `retry_`, `connect_` | `connect`, `disconnect`, `stop`, `newConnection`, `removeConnection`, the destructor | connector, connection |
| `Buffer` | a vector and two indices | `append`, `retrieve`, `prepend`, `shrink`, `makeSpace`, `readFd` | connection, examples |
| `Poller` | an array of pollfds | as `EPoller` | unused by `EventLoop` |
| `Socket`, `SocketsOps`, `InetAddress` | descriptors, addresses | system calls | all |
| HTTP example | `HttpContext` per connection: `state_`, `request_` | `parseRequest`, `onMessage`, `onRequest`, `sendPageFile` | one server connection |
| SOCKS and relay example | `Tunnel`: `serverConn_`, `clientConn_`, the global `g_tunnels` | `onServerMessage`, `setup`, `teardown`, the high-water and write-complete callbacks | a server connection and a `TcpClient` |
| Protobuf codec example | none beside the buffer | `fillEmptyBuffer`, `onMessage`, `parse` | `Buffer`, connection |
| Pingpong client | `sessions_`, `numConnected_`, counters of each session | `onConnect`, `onDisconnect`, `handleTimeout` | a thread pool and one `TcpClient` per session |
| other examples | file transfer, discard, pingpong server, Sudoku, finger, timers | callbacks | the library's public interface |

### Where it is hard

* Threads meet in `queueInLoop()` and `quit()`: each changes the loop's state
  and then writes the eventfd, and the loop may be anywhere in between.
* `send()` and `shutdown()` read or write `state_` on the caller's thread, and
  the rest of the call happens later, in the loop, on a connection that may
  have closed meanwhile.
* User callbacks run in the middle of the loop's own work and call back into
  the objects: timers cancelled by the batch they belong to, channels disabled
  between `poll()` and their handler.
* One closing crosses two loops: `handleClose()` on the I/O loop,
  `removeConnectionInLoop()` on the base loop, `connectionDestroyed()` on the
  I/O loop again, with events and functors in between.
* A client's connection attempt outlives calls: a retry timer, a channel that a
  functor resets one iteration later, and `stop()` or a destructor on another
  thread meet an attempt that succeeds, fails, or connects to itself.
* Connections are owned by pointers in maps, functors and user code while a
  poller holds raw pointers to their channels.
* A stream has no messages: parsers and codecs see requests cut anywhere, or
  several at once, and their state lasts from one read to the next.
* A relay has to stop one side while the other does not read, start it again,
  and pass on an end after the data, with callbacks that are queued.
* Kernel objects have edges: an event list that is full, a timerfd that is
  armed again after it was reported, a socket that takes part of a write, a
  descriptor whose hang-up is reported unasked.

### What makes each part correct

* A loop runs every functor once, in the order of the calls, without waiting
  for the poll timeout, and stops when told to.
* The two timer sets agree, the timerfd is armed for the earliest timer, a
  cancelled timer stays cancelled, every other timer expires.
* `startLoop()` returns a loop that exists; the destructor ends the thread.
* A connection delivers what was sent, whole and in order; it asks for write
  events exactly while output waits; it reports up once and down at most once;
  `shutdown()` closes the write side after the data; a close reaches the server
  and removes the channel; no assert fails.
* A server deals connections out in turn, owns each while it is in a poller,
  and gives it and its descriptor up after its peer has closed.
* A client has one socket at a time, gets its connection however many attempts
  fail, connects no more once stopped, and is not called when it is dead.
* A buffer loses no byte when it grows, moves, or reads more than it has room
  for; a codec delivers the messages that were sent, once and in order.
* An HTTP connection answers requests in order, each by itself, and is closed
  exactly when it said so.
* A tunnel keeps both streams, bounds what it buffers, never stops a side for
  good, and ends one side when the other has ended.
* The pingpong client's last session reports complete totals, and the program
  ends after its timeout.

## Modules

    Mailbox <---- EventLoop <---- EventLoopThread     TimerQueue
                      ^                    ^             ^
               EventLoopProofs <---- ThreadTimerProofs --+

    Channel <---- TcpConnection <---- TcpConnectionProofs

    Connector <---- TcpClient <---- TcpClientProofs

    TcpServer <---- TcpServerProofs

    Buffer <---- ProtobufCodecLite <---- ProtobufCodecLiteProofs

    Tunnel <---- TunnelProofs

    HttpServer, PingpongClient <---- ExampleProofs

`Mailbox` is the abstract specification of a loop as its users see it, and
`EventLoop` implements it under `queue <- functors \o pendingFunctors_`.
`EventLoopThread` instantiates `EventLoop` with the owner as the only other
thread. The specifications of `EventLoopThread` and `HttpServer` are called
`ThreadSpec` and `HttpSpec`, those of the other modules `Spec`: these two share
a module of proofs with another one. All other modules rely on `Mailbox` only: their functors wait in a
first-in first-out sequence, which the loop takes in batches where that matters
(`TcpConnection`, `TcpClient`, `Tunnel`).

A definition named like a member of the source models that member; names in
lower case without an underscore at the end are history or environment. In each
module a few definitions are commented as plausible mistakes: they are variants
of the definition that follows them or of one named alike, used to see that
each property fails when the code is wrong. No specification uses them.

**EventLoop.** `pc` says where the loop's thread is: outside `loop()`, at the
test of `quit_`, in `epoll_wait`, dispatching channels, running functors. The
critical sections of `mutex_` are one vector operation each and are one step.
A call from another thread is two steps, `QueueInLoop` or `Quit`, and then
`Wakeup`. User code on the loop's thread (`InUserCode`) may queue and quit too.
`PollEvents` returns any part of the ready channels that fills `events_`, or
all of them, and doubles a full list. `PollTimeout` is the return without
events. `early` keeps the functors that the loop's thread queued outside
`loop()`, for which the code writes no wakeup.

**TimerQueue.** A timer is a natural number, its address, because
`activeTimers_` is ordered by address and one assert depends on that order. The
clock counts ticks of 100 microseconds, the least delay `resetTimerfd()` asks
for. `HandleRead` is the handler up to the first callback, `Run` one callback,
`Reset` the end; between them user code adds and cancels timers, and the clock
may move at any step. `cancelled` holds the timers cancelled after their add.
Each `Timer` object is used once: a `TimerId` that outlives its object while
another timer is constructed at the same address is not modelled (the sequence
number is there to tell these apart).

**EventLoopThread.** The owner's steps are `startLoop()`, the wait on the
condition variable (with spurious wakeups), calls on the loop, and the
destructor; the thread's are those of `threadFunc()` around the loop's own.
`fault` records a use of the loop after its thread has destroyed it, or of the
null `loop_` of an object never started.

**Channel.** Operators on a record with the channel's events, EPoller's index
and map, and the kernel's epoll set. `UpdateChannel` is
`EPoller::updateChannel()`: a channel that asks for nothing leaves the epoll
set, and one that is `kNew` or `kDeleted` is added whatever it asks for.

**TcpConnection.** One connection from `newConnection()` on. The member
functions are action fragments (`SendInLoop`, `HandleWrite`, `HandleClose`,
...) used by the events, by the functors and by user code on the loop's thread;
calls of other threads are cut after the test of `state_`, after the assignment
of `shutdown()`, and at `queueInLoop()`. The server is `connections_` and the
`removeConnectionInLoop()` functors in the base loop; with `SharedLoop` both
loops are one, as in a server without I/O threads, and the removal happens
inside `handleClose()`. The kernel's side is a bounded send buffer, input as
one bit, and a peer that reads, sends, shuts down or resets. A message is
`MsgLen` units, `<<m, i>>`, so that loss, order and cuts are visible, and
`warnings` counts the high-water callbacks queued since the buffer was last
below the mark, so that one too many is visible too. `Buffer`
is its abstract value, a sequence. An assert that fails sets `aborted`, and
nothing happens afterwards.

**Connector, TcpClient.** `Connector` is operators on a record of the
connector's members with its timers, queued functors and open sockets;
`TcpClient` composes it with the client, its connection, the kernel's side of
each attempt, and a loop that polls, handles events and runs functors. An
attempt is named after its socket. `User` is the client's interface, called in
the loop's thread and from another; `removeConnection()` is cut between its
test of `connect_` and `restart()`, because a `stop()` can come between. A
retry comes at some time after its timer was set (`Elapse`). `CancelTimer` is
`cancelInLoop()` with its last assert: with a timer that is set it may fail,
because whether another timer has a greater address is not known here; it runs
at once on the loop's thread and as a functor of another one.

`owners` is who keeps the connector: the client, and, after a destructor that
found no connection, the timer of one second, or until that is set the functor
that sets it. `~Connector()` runs with the last of them (`LetGo`). The
destructor of the client is one step on the loop's thread (`UserDestroy`),
where its functors run at once. On another thread it is cut (`leaving`) where
the loop can come between: after the test of `connection_`, before
`runAfter()`, and before the members go. A connection that is up is kept by
`connection_`, by the destructor's own pointer (`found`) and by the queued
`setCloseCallback`; once none of them is left, `FreeConnection` may free it at
any time, when the last pointer that user code has is dropped, and `fault` says
so, because the poller still has its channel.

**TcpServer.** The server with its acceptor and pool. Loop 0 is the base loop;
each loop has its functors and the connections it is about to handle the close
of. `Owned` is what shared pointers there are: the map, a bound functor, user
code. A connection is freed with the last of them, its descriptor too, and
`fault` records an assert or the use of something freed.

**Buffer, ProtobufCodecLite.** `Buffer` is operators on the vector and the two
indices, with the asserts in a flag `ok`; bytes that were never written are
`Junk`. The codec's sender fills a buffer and the kernel takes it in pieces;
the receiver's `readFd()` takes what has arrived, through `extrabuf` where it
does not fit, and `onMessage()` is one action per turn of its loop. A byte is
its message's number and its place in the frame, so `IsFrames` can say without
recursion that a sequence is whole frames one after the other. `parse()` has no return
statement, so its result is any `ErrorCode`.

**HttpServer.** One connection. A line is its words and whether it has a colon,
and is followed by the unit `CRLF`; a request may be cut before or after each.
The loop of `parseRequest()` is one action per turn. `out` is the sequence of
answers, each as the pieces `send()` was given for one request. `Wanted` reads
the answer off a request by itself and is the reference for what the server
sends.

**Tunnel.** Both programs of `examples/socks4a`. The handlers of the two
connections call each other inside one event, so they are operators on one
record, `relay`; the loop around them is poll, events in any order of the two
descriptors, and functors. It uses the library's connection in short: state,
reading, buffers and the two flow-control callbacks.

**PingpongClient.** The base thread constructs sessions and runs the timeout;
each loop of the pool is at most in one callback, which is cut where it reads
or writes what other threads do: the state of the connection, the shared
`numConnected_`, and `sessions_`. `missed` and `mistaken` keep the sessions
that meet two races described below.

## Runs

| Run | Checks | Distinct states |
| --- | --- | --- |
| `loop` | `NoLostWakeup`, `MailboxSpec`, `LoopServes` | 79 000 |
| `timers` | `TimerSetsAgree`, `TimerfdArmed`, `CancelIsFinal`, `TimersExpire` | 191 000 |
| `thread` | `LoopExistsWhenStarted`, `StartLoopReturns`, `QuitEndsThread` | 1 300 |
| `conn_threads` | `ChannelRegistered`, `ByteStream`, `ChannelFollows`, `HighWaterTold`, `UpThenDown`, `GracefulShutdown`; one more thread, read control, the server on another loop | 1 813 000 |
| `conn_live` | `OutputCompletes`, `PeerCloseNoticed`, `CloseCompletes`; the server on the same loop | 36 000 |
| `client` | `SocketsOwned`, `FaultCauses`, `StopIsFinal`, `Connects` | 719 000 |
| `server` | `Balanced`, `RegisteredIsOwned`, `FaultOnlyAfterDtor`, `BacklogServed`, `ClosedIsFreed` | 22 000 |
| `codec` | `AssertsHold`, `StreamKept`, `Decodes` | 119 000 |
| `http` | `AnswersInOrder`, `AssertOnlyAfterBad`, `Answers` | 145 000 |
| `relay` | `StreamsKept`, `FlowControl`, `FaultCauses`, `Forwards` | 128 000 |
| `pingpong` | `ReportRight`, `TimeoutEnds` | 539 000 |
| `timers_cancel_assert` | `CancelAssertHolds`, which the code violates: see Findings | |

Where the code does not keep a promise in general, the property says under
which condition it does, and the comment before it names the case left out;
the section Findings lists these cases.

Some properties are conjunctions of named parts: `LoopServes` of
`FunctorsServed`, `EarlyFunctorsServed`, `QuitStopsLoop` and
`WakeupDispatched`; the client's `FaultCauses` of `OneConnectNoAssert`,
`NotCalledWhenDead`, `IdleDtorAssert`, `CancelAssert` and `FreedByDtor`; `ReportRight` of `LastOneReports` and
`TotalsExact`. `TypeOK` (`ThreadTypeOK`, `HttpTypeOK`) states the range of each
variable. It is a theorem for every specification, and no run is spent on it.

### Bounds

* `loop`: two other threads let two writes meet in the eventfd and let one
  thread queue while another quits; three functors give a batch, a functor
  queued during it and one queued after the swap; an initial event list of one
  with a second channel is the case in which `wakeupChannel_` can be left out
  and the list must grow. `EventfdMax = 2` makes the counter reach its limit.
* `timers`: two timers give every order of expiration and address; with four
  ticks and intervals of up to one tick a repeating timer expires, is restarted
  and expires again; two functors let an add and a cancel of another thread
  overtake the loop's own calls. The proofs remove these bounds.
* `thread`: the loop with one owner and two functors; functors only matter as
  a reason to wake the loop.
* `conn_threads`, `conn_live`: messages of two units and a send buffer of one
  unit make every write partial; two messages are enough for one to be written
  and one to be buffered behind it. `conn_threads` has three and a mark of
  three units: the first stays below it, the second reaches it, and the third
  is appended above it or, after the buffer has drained, reaches it again. One
  call of `startRead()` or `stopRead()` separates the read control from its
  absence; `MaxCalls` lets it take the place of the third message. `conn_live` has the server on the connection's loop only; a removal
  that crosses two loops is checked to its end in `server` (`ClosedIsFreed`).
* `client`: three attempts give a failure, a retry and a reconnection; delays
  of 1 up to 3 double and reach their maximum; two calls of `connect()` are one
  more than the code allows for. One destructor, on either thread, meets every
  stage of an attempt, of a retry and of a connection.
* `server`: two I/O loops, or none, and four clients make `next_` wrap twice;
  two descriptors make `accept()` fail for want of one.
* `codec`: a buffer of three bytes grows and moves for frames of five and six;
  payloads of one byte fit the greatest length and those of two are one too
  long; a kernel that holds three bytes cuts every frame; three messages leave
  one behind the one that is decoded.
* `http`: three requests, out of nine kinds, let the state of one reach the
  next and the next but one.
* `relay`: a mark of two units and two units of data each way, so that one side
  reaches the mark and the other does not; five requests cover both versions of
  the protocol, a name that does not resolve, a wrong command and one that is
  too long.
* `pingpong`: three sessions on one loop, or on two, so that two sessions share
  a loop and two do not.

`CHECK_DEADLOCK FALSE` is set where an assert, the end of the modelled time or
of the work that is bounded may stop the system.

### Fairness

Every specification assumes that the thread of a running loop is scheduled and
that a thread inside a library call finishes it. Nothing makes users call
anything, peers send or close, other channels become ready, or condition
variables wake up by themselves.

* The poll timeout is not assumed: `FunctorsServed`, `QuitStopsLoop` and
  `QuitEndsThread` must hold by the wakeup alone. `EarlyFunctorsServed` has the
  timeout as a hypothesis, because only the timeout serves those functors.
* `TimerQueue` assumes that time passes and that the loop polls again after the
  functors of one batch (`WF(Poll)`): functors queued meanwhile wait for the
  next iteration, which `EventLoop` models in detail.
* `TcpConnection` assumes that the base loop runs and that the peer takes the
  data it was sent until it resets the connection. A peer that never reads
  holds back the output of any TCP connection.
* `TcpClient` assumes that the kernel settles an attempt one way or the other
  and that time passes whenever the loop waits (`SF(Elapse)`: the loop is
  waiting again and again, not always). Nothing says that an attempt succeeds:
  in the modelled bound the last one does.
* `TcpServer` assumes that each loop goes on and that user code drops the
  pointers it keeps; without that a connection is never freed.
* `HttpServer`, `Tunnel` and `ProtobufCodecLite` assume that the loop runs and
  that data written is taken; peers need not send, close or accept.
* `PingpongClient` assumes that each thread runs and that the timer expires.

## Findings

`timers_cancel_assert` states an assert of the code that fails:
`cancelInLoop()` asserts that the iterator `erase()` returns is not `end()`,
which it is when the timer has the greatest address, always so for the only
timer.

The other cases below were met while modelling. The models contain them, and
the properties named allow for exactly them.

Library:

* `getExpired()` asserts that the first timer left expires after now; one that
  expires exactly now is left and fails it (`aborted`, `TimersExpire`).
* `loop()` clears `quit_`; an `EventLoopThread` whose destructor runs before
  the new thread has entered `loop()` joins a thread that never ends
  (`QuitEndsThread` asks for a loop that runs).
* Once `quit_` is set the loop may be gone before the same call's `wakeup()`,
  or before the destructor's own `loop_->quit()` (`fault` of
  `EventLoopThread`).
* A `sendInLoop()` queued by another thread runs after `handleClose()`,
  buffers, enables writing again, and the assert of `removeChannel()` fails. By
  the same late functor and a `shutdown()` that overwrites `kDisconnected`,
  `handleClose()` can also run a second time, and `removeConnectionInLoop()`
  then fails its assert. A `stopRead()` made by another channel's callback
  between `poll()` and this channel's handler leads to a second `handleClose()`
  too: the channel is `kDeleted`, so `disableAll()` adds it to the epoll set
  again (`UpThenDown`: only the loop's thread sends, and reading is left alone).
* `send()` and then `shutdown()` on another thread can close the write side
  before the message is written (`GracefulShutdown`: the loop's thread sends).
* `connect()` of a client whose connection has gone, without retry, fails the
  assert of `startInLoop()`, since the connector stays `kConnected`
  (`OneConnectNoAssert` asks for one `connect()`). An error that `connect()` itself returns, refusal
  among them, is never retried (`Connects`).
* A `stop()` of another thread is lost between the test of `connect_` in
  `removeConnection()` and `restart()` (`StopIsFinal`), and a client destroyed
  by another thread can be called afterwards (`NotCalledWhenDead`).
* `stop()` and `~TcpClient()` cancel the connector's timer. While a retry is
  set and no other timer of the loop has a greater address, this is the assert
  of `cancelInLoop()` above, and the process ends (`CancelAssert`: it fails in
  this case only).
* `~TcpClient()` with a connection leaves it without an owner: `connection_`
  and the local `conn` go, and nothing else in the library keeps it until
  `handleClose()`. The connection is freed with its channel in `channels_`, and
  the next socket with the same descriptor fails the assert of
  `updateChannel()`, unless user code holds a pointer (`FreedByDtor`: nothing
  but a destructor frees one early). On another thread this can happen to a
  connection made after the destructor has looked.
* `~Connector()` fails its assert if an attempt takes longer than the second
  for which a timer keeps the connector, or if the client is destroyed in its
  own connection callback (`IdleDtorAssert`).
* `~TcpServer()` with open connections frees them under their loops, and those
  that user code keeps call the dead server when they close
  (`FaultOnlyAfterDtor`). Without descriptors a client stays in the backlog and
  the loop spins (`BacklogServed`).
* `Buffer::shrink()` copies the readable bytes to the front of a new vector and
  leaves the indices, so the bytes are lost unless `readerIndex_` is
  `kCheapPrepend` (`StreamKept`).

Examples:

* The codec waits for `kMaxMessageLen + kHeaderLen` bytes before it looks at a
  length, so a shorter stream is never decoded (`Decodes`); `parse()` ends
  without a return statement; the constructor ignores its `rawCb`.
* The HTTP parser does not leave its loop while headers are expected and no end
  of line has come; a second request of one read waits for the next read
  (`Answers`). A refused request line stays in the buffer and fails the assert
  of `setMethod()` when more arrives (`AssertOnlyAfterBad`). A page ends with
  two terminating chunks.
* The tunnel's `onClientConnection()` makes the accepted connection read
  without a look at its state, and `disconnect()` does not stop the connector:
  if the proxy's client leaves before the backend accepts, an assert of
  `removeChannel()` or `handleClose()` fails. Callbacks that were queued use
  `clientConn_` after `teardown()` reset it (`FaultCauses`).
* The pingpong client takes a session for one that went down if the timeout
  shuts it down between `kConnected` and the callback's test; it does not stop
  sessions that are still connecting, so the program may not end
  (`TimeoutEnds`); subtracting from `numConnected_` and reading it are two
  steps, so two sessions may report; and a session dropped early reads
  `sessions_` while the constructor changes it (`TotalsExact`).

`doc/connectMessageClose.puml` draws the second connection callback after
`connectDestroyed()`; in the code it comes from `handleClose()`, while the
server still has the connection.

## Proofs

All hold for every value of the constants that the named assumptions allow:
any sets of threads, functors and channels, any initial event list and eventfd
limit, any set of timers and any bounds, any message length, send buffer and
high-water mark, any sizes of a `Buffer`, of headers and of payloads, any number of attempts and
calls of `connect()` and any retry delays, any pool, number of clients and
descriptors, any number of sessions, any amount of data and limit of a request
through a tunnel, any number of HTTP requests and length of a page.
`TimersAssumption` says that addresses are ordered numbers, `WakeupAssumption`
and `ThreadsAssumption` that the loop's own channel and thread are not among
the others, `DelayAssumption` that the first retry delay is positive and not
above the last, `CodecAssumption` that the header fits into the
`kCheapPrepend` bytes in front of a buffer, `TunnelAssumption` that an answer
stays below the mark; the remaining ones say that sizes and bounds are numbers,
and positive where the code needs them to be.

Every invariant and every action property that a run checks is a theorem too;
`CancelAssertHolds`, which the code violates, is the one exception.

* **EventLoopProofs.** `TypeCorrect`, `WakeupNeverLost`, `LoopIsMailbox`.
  `NoLostWakeup` speaks of a loop in `epoll_wait` and is not inductive.
  `WakeupInv` extends it to every place but the dispatch of channels, where
  callbacks queue without a wakeup; it is re-established because
  `DoPendingFunctors` takes the whole queue, and because only the dispatch of
  `wakeupChannel_` empties the eventfd. It also ties `callingPendingFunctors_`
  to the place, which is what makes a functor that queues another write a
  wakeup. `LoopIsMailbox` is a step simulation: queueing is `Submit`,
  `RunFunctor` is `Execute`, the swap and everything else stutter.
* **ThreadTimerProofs**, of `EventLoopThread`: `ThreadTypeCorrect`,
  `StartedLoopExists`, `LoopIsEventLoop`, `ThreadWakeupNeverLost`. `LoopMade` orders the
  constructor, the assignment of `loop_` and the return of `startLoop()`, and
  gives `StartedLoopExists`. `LoopIsEventLoop` shows that what owner and thread
  do with the loop is what `EventLoop` allows, until one of them touches a loop
  that is gone. The step lemmas of `EventLoopProofs`, instantiated with the
  owner as the only other thread, then carry `WakeupInv` over; `LoopUse` adds
  that the loop is outside `loop()` unless its thread is in it, and excuses
  only the owner's last `wakeup()`, which may find no loop.
* **ThreadTimerProofs**, of `TimerQueue`: `TypeCorrect`, `SetsAgree`, `TimerfdAlwaysArmed`,
  `CancelAlwaysFinal`, from `TimerInv`. Its parts beyond the properties are
  `QueueInv` (no functor of a timer precedes its add, and there is one add) and
  `BatchInv` (the timers of an open batch are in neither set, and one of them
  that is cancelled is in `cancelingTimers_`). Without the first an add could
  follow its cancel; without the second `reset()` could insert a timer that is
  in the sets already, or a cancelled one. `FirstIsLeast` justifies the `CHOOSE`
  of the earliest entry.
* **TcpConnectionProofs.** `TypeCorrect`, `RegistrationKept`, `StreamKept`,
  `HighWaterAlwaysTold`, `ChannelAlwaysFollows`, `ShutdownAlwaysGraceful`,
  `UpThenDownAlways`.
  The type includes the bound on the kernel's send buffer. `RegistrationKept`
  rests on the lemma that every operation of `Channel` keeps `Registration`,
  and on the fact that every step applies one of them or none. `StreamKept`
  shows that `write()` and the buffer only move a boundary inside the
  concatenation of wire and buffer (`MoveFront`), and that a direct write
  happens only when the buffer is empty.
  `ChannelAlwaysFollows` needs `Begins`: until `connectionEstablished()` has
  run, its functor is all that waits and nobody has the connection, and it
  never runs again. `ShutdownAlwaysGraceful` adds `Held`: what the loop's thread
  sent is in the stream, and nobody is about to close the write side before a
  `shutdown()` has set `state_`. With it the empty buffer that `shutdownInLoop()`
  and `handleWrite()` look for means that everything promised is on the wire.
  `HighWaterAlwaysTold` is inductive with the type: an append counts only from
  below the mark, where `warnings` is 0, and only a write that ends below the
  mark clears it.
  `UpThenDownAlways` goes through `Stages`: a connection that other threads only
  shut down is fresh, up (in the map, its channel open, no removal begun) or
  down (its channel closed, and exactly one of the removal in the base loop and
  `connectionDestroyed()` still to come or done).
* **TcpClientProofs.** `TypeCorrect`, `SocketsAlwaysOwned`, `FaultsHaveCauses`,
  `StopAlwaysFinal`, from two invariants. `ClientInv` has ten parts for as long
  as nothing has failed. `Attempt` ties the connector's state to its channel and
  the socket of the last attempt, `Sockets` gives each open socket its owner.
  `Reported` says that what `poll()` reported still holds when it is handled:
  the attempt goes on, the connection is up. `Resets` says that a channel that
  was removed waits for exactly one `resetChannel()`, which runs before the next
  poll; so no retry timer and no close of a connection finds a channel.
  `OneReason` is why one `connect()` fails no assert: the queued start, a retry
  timer (set, expired or about to run) and the end of a connection exclude each
  other. `Connection`, `Dead`, `Callbacks` and `Stopped` follow the client: a
  connection that is up is the client's, one of a client destroyed on the
  loop's thread has the other close callback, and after `stop()` on that thread
  `connect_` of client and connector are clear and no `restart()` is under way.
  `CauseInv` rests on it and says why no other `cancel()` fails and no other
  connection is freed. `Cancelled` is the point: `timerId_`, and every timer
  whose `cancel()` is queued, belongs to an attempt that is over (`Old`), so a
  functor that runs later finds it set only if it was set at the call.
  `Owners` says that a destructor that left a timer had found no connection,
  and what one on the loop's thread leaves.
* **TcpServerProofs.** `TypeCorrect`, `AlwaysBalanced`, `RegisteredAlwaysOwned`,
  `FaultsOnlyAfterDtor`. `Balanced` compares cardinalities and is not inductive:
  `Turns` says how many connections each loop of the pool has got, one more for
  those before `next_`. The other two come from `Ownership`. While the server
  lives everything is `Orderly`: each connection has at most one functor in all
  queues, and it is the one its state calls for, in the loop that is to run it;
  a connection is in the map until its pointer has gone on to
  `connectionDestroyed()`; only a connection that is up is about to be handled.
  After a destructor that found no connection everything is `Calm`.
* **ExampleProofs**, of `PingpongClient`: `TypeCorrect`, `ReportAlwaysRight`. As long as no
  callback was mistaken, `Exact` relates the place of each loop's thread to the
  state of the session it is about, and says that `numConnected_` is the number
  of sessions counted up and not yet down (`Counted`). A zero then means that
  all are down, and the session that has seen it is on its way to the report.
* **ProtobufCodecLiteProofs.** `TypeCorrect`, `AssertsAlwaysHold`,
  `StreamAlwaysKept`. The first part is about the operators of `Buffer`, for any
  buffer whose indices are in order: `MakeSpaceProps` and `EnsureProps` (the
  room asked for is there, the bytes are the same, the assert holds because a
  buffer that need not grow has room in front), `AppendProps`, `PrependProps`,
  `RetrieveProps`, `ReadFdProps` and `ShrinkProps` say what is read afterwards.
  `FillProps` follows: the result is a whole frame, because every append leaves
  `readerIndex_` where the length still fits in front. The second part is about
  sequences of frames: one more behind them (`AddFrame`), the first one taken
  (`TakeFrame`). `CodecInv` adds to the two properties that no more was
  delivered than sent, which keeps the lengths of delivered messages what they
  were when `send()` appends. A write or a read moves a boundary inside
  `Undecoded`; a turn of `onMessage()` finds the next message's header in front,
  so what it takes is that frame.

* **TunnelProofs.** `TypeCorrect`, `TunnelInvariant`, `BackPressure`,
  `FaultsExplained`, `StreamsWhole`. The first part says what each operator does
  to the record `relay` (`SendInLoopEffect`, `ServerCloseEffect`, ...), so that
  the steps need not expand them. Then there are two invariants. `TunnelInv` is
  about control. `FlowControl` alone is not inductive: `Pairing` adds that a side
  whose `writeCompleteCallback_` is set has stopped the other one, and that
  `onHighWaterMark()` and `onWriteComplete()` of one side are never queued
  together, so no batch can stop a side and start it again in the wrong order. `Life` and `Registered` tie `clientConn_`, `connection_`, the context
  and `g_tunnels` to the state of the two connections; `Reported` says that an
  event of `poll()` which waits behind another one still holds when it is
  handled; `RelayDown` is why the accepted connection of tcprelay fails no
  assert without a reset: once it is down no queued callback makes it read.
  `StreamInv` is about data and uses the first: `StreamUp` and `StreamDown` say
  for each direction that what was written, what waits in the two buffers and
  what has arrived are together what was sent, without the request and behind the
  answer. Every write, read and move between buffers only shifts a boundary in
  that concatenation. The request has to be cut off where it ends: the lemma
  `RequestIsScript` shows that the search for the NUL of each request ends with
  the request's own last unit, whatever of the data has arrived behind it.
  `Endings` is the order of data and end: `shutdown()` comes after the other
  side's `inputBuffer_` was forwarded, and takes effect when nothing waits.
* **ExampleProofs**, of `HttpServer`: `HttpTypeCorrect`, `HttpInvariant`,
  `AnswersKeepOrder`, `AssertAfterBadOnly`. `HttpInv` says that there is a place
  in the stream of requests, `d` of them and `c` units of the next, where the
  server is. `At` is that what waits (buffer, socket, client) is the rest of the
  requests from there, by a function that gives the beginning of each request;
  a read changes nothing of it, and a consumed line moves all beginnings. `Parsing`
  is that state and request of the `HttpContext` are those of `c` units of this
  request, or else the request line was refused before and the connection is
  shut down. `Answered` is that the answers are those to the first requests, one
  each while the connection is open. `AtFront` and `LineFound` then say that the
  line `findCRLF()` finds is the next one of this request, however it was cut.
  `RequestsJudged` goes through the nine kinds of requests: what `onRequest()`
  sends for the parsed request is what `Wanted` reads off the request, and the
  two agree on what is refused and on what closes.

Model-checked only: all liveness properties, because fairness and `ENABLED` are
outside TLAPS. They are `LoopServes`, `TimersExpire`, `StartLoopReturns`,
`QuitEndsThread`, `OutputCompletes`, `PeerCloseNoticed`, `CloseCompletes`,
`Connects`, `BacklogServed`, `ClosedIsFreed`, `Decodes`, `Answers`, `Forwards` and
`TimeoutEnds`.

## Not modelled

* The lifetime of a connection under calls of other threads: `sendInLoop` and
  the other functors bind the raw `this`, and `TcpConnection` keeps the
  connection for as long as a functor needs it. `TcpServer` and `TcpClient` have
  the ownership, without such calls. A pointer that user code keeps past
  `connectionDestroyed()` only keeps the socket open.
* Calls of `TcpClient::connect()` and `stop()` by another thread are one step
  each; the loop coming between the writes of the client's `connect_` and of
  the connector's is left out.
* The destructor of `Channel`, whose assert reads `eventHandling`, a member that
  no constructor sets.
* `Poller`, which no loop uses: the member of `EventLoop` is commented out.
* The file transfer example: the name of the file is a global pointer into a
  string that is gone when it is used, so its behaviour is that of freed memory.
* Sudoku's solver, a sequential search over 81 cells, far outside TLC's reach,
  and the examples that only echo or count; generated protobuf code.
* `Socket`, `SocketsOps` and `InetAddress` beyond `accept()`, `connect()`,
  `SO_ERROR`, self-connection and closing: one system call or conversion each.
* Contents of input, addresses, names, logging, socket options.
* Data races are modelled where the code can meet them: the unlocked tests of
  `state_`, `quit_` and `connect_` are separate steps. Each access to one such
  word is taken to be indivisible, as it is on the platforms with epoll.

## Plan

All modules of the plan are written and their safety properties proved. What
remains is the lifetime of a connection under calls of other threads (see Not
modelled), which would compose `TcpConnection` with the ownership of
`TcpServer`.
