# macos-muduo in TLA+

A specification of `muduo/net`, the reactor network library of this repository:
TLA+ modules translated from the C++ sources, TLC models that check them on
small instances, and TLAPS proofs that hold for every instance. Paths below
are relative to the repository root.

## 1. The system

A `TcpServer` accepts connections in one event loop and hands each
`TcpConnection` to an event loop of a thread pool. A loop waits in a poller,
dispatches the events of its channels to their callbacks and then runs the
functors other threads (or its own callbacks) have queued. Every object belongs
to one loop; other threads reach it only by queueing a functor, and an object
stays alive as long as a `shared_ptr` to it does, often one captured by a queued
functor. User code runs inside the library's callbacks and may call back into
the library.

| component | state | operations | what makes it correct |
|---|---|---|---|
| `EventLoop` (`eventloop.cc`) | pending functors and their lock, `calling_pending_functors_`, `quit_`, active channels, the wakeup pipe | `loop`, `quit`, `runInLoop`, `queueInLoop`, `wakeup`, `handleRead`, `doPendingFunctors` | no functor is lost, repeated or overtaken; no wakeup is lost; the loop never blocks except in the poller; `quit` ends it |
| `Buffer` (`buffer.cc`) | a vector and two indices | `append`, `retrieve*`, `prepend`, `ensureWritableBytes`, `makeSpace`, `shrink`, `swap`, `readFd` | indices ordered and in bounds; the readable bytes are a queue |
| `TcpConnection` (`tcp_conncetion.cc`) | `state_`, the channel's interest set, the output buffer, who refers to it | `connectEstablished`, `send`, `shutdown`, `forceClose`, `handleRead/Write/Close`, `connectDestroyed` | one ordered byte stream; up once, down once; buffered bytes leave before a half close; nothing used after it is freed; no assertion fails |
| `TcpServer` (`tcp_server.cc`) | `connections_`, `started_`, `next_conn_id_` | `start`, `newConnection`, `removeConnection`, destructor | each connection is erased once, destroyed in its own loop, closed when it is freed; the destructor ends |
| `Channel` (`channel.cc`, `channel.h`) | `events_`, `revents_`, `index_` | enable/disable, `handleEvent`, `remove` | removed only when disabled; callbacks in order |
| pollers (`poller/*.cc`) | `channels_`, the pollfd array or the table of registered filters | `poll`, `updateChannel`, `removeChannel` | the kernel's registrations agree with every channel's interest set |
| `EventLoopThread`, `EventLoopThreadPool` | the thread, the promise, `loops_`, `next_` | `startLoop`, `threadFun`, destructor, `getNextLoop` | a loop is published before it is used and not used after it ends; the join returns; fair rotation |
| `Acceptor`, `Socket` | the listening channel | `listen`, `handleRead`, `accept` | every client that waits is accepted and handed over once |
| `InetAddress`, callback types, `base/` logger and utilities, `base/spdlog` (vendored), `test/main.cc` | none that a property is about | | |

How they interact: calls down (connection to channel to loop to poller), callbacks
up (poller to channel to connection to user code and to the server), functors
across threads (`runInLoop`, `queueInLoop`), and references that decide lifetimes.

The hard parts are listed with their source lines under `hazards` in
`PROJECT.json`. The main ones: the unlocked test after the critical section of
`queueInLoop`; functors that run in a later state than the one their caller
tested; callbacks that change the object whose function is still running; the
list of active events going stale while it is dispatched; lifetimes that end
between two functors; and the teardown of a server whose connections live in
other threads.

## 2. Modules

| module | models | role |
|---|---|---|
| `FunctorQueue` | what `runInLoop`/`queueInLoop` promise | abstract |
| `EventLoop` | one loop, its thread and other threads | detailed, implements `FunctorQueue` |
| `EventLoopProofs` | theorems about `EventLoop` | TLAPS |
| `ByteQueue` | what a buffer is meant to be | abstract |
| `BufferFunctions` | the functions of the class as operators on a buffer's value | used by `Buffer` and `TcpConnection` |
| `Buffer` | buffer objects under any sequence of calls | detailed |
| `BufferFunctionsProofs` | lemmas: what each function does to the indices and the readable bytes | TLAPS |
| `BufferProofs` | theorems about `Buffer` | TLAPS |
| `ByteStream` | what a connection promises its user | abstract |
| `TcpConnection` | one connection, its loop, its server, other threads and the peer | detailed, implements `ByteStream` but where its output buffer moves; uses the loop as `FunctorQueue`, the dispatch of `KqueuePoller` and a buffer of `BufferFunctions` |
| `TcpConnectionProofs` | theorems about `TcpConnection`: types, callbacks, interest in events | TLAPS |
| `TcpConnectionLifeProofs` | theorems about its lifetime and its assertions | TLAPS |
| `TcpConnectionStreamProofs` | theorems about the bytes it sends, and the refinement | TLAPS |
| `Channel` | the channels of a loop, from registration to the reuse of the descriptor | used by the pollers |
| `PollPoller` | the pollfd array and the channels' indices | detailed |
| `KqueuePoller` | the record of filters, and the kernel's filters | detailed |
| `Pollers` | both pollers under the same calls | composes the three |
| `PollersProofs` | theorems about `Pollers` | TLAPS |
| `EventLoopThreadPool` | the loops of a server, their threads and the pool | detailed; uses each loop as `EventLoop` is proved to be |
| `TcpServer` | the server, its acceptor and its connections over those loops | composes the pool with connections reduced to their lifetime |
| `TcpServerProofs` | theorems about `TcpServer` | TLAPS |
| `MCEventLoop`, `MCBuffer`, `MCTcpConnection`, `MCPollers`, `MCTcpServer` | instances for TLC | |

### EventLoop

A step is what happens between two points where threads can interleave: a
critical section, a store to an atomic, a read or write of the pipe, a poll.
`pc` holds each thread's place. `looping_` is `pc[LoopThread] # "idle"`,
`isInLoopThread()` is `self = LoopThread`. `queueInLoop` is the critical section
together with the test that follows it (`eventloop.cc:130-148`); the two are
one step because the test reads `calling_pending_functors_` only in the loop
thread, which is the only writer. The write to the pipe is a step of its own
(`WakeupWrite`) and waits while the pipe is full: `createWakeupFd` does not make
it non-blocking. The loop thread's steps follow `loop()` and
`doPendingFunctors()` statement by statement. Poll may return any non-empty set
of ready channels, or nothing (timeout or an interrupted call). User code in a
handler or a functor makes any number of calls and returns.

`fresh`, `ran` and `early` are history: functors not handed over yet, the order
of execution, and the functors the loop thread queued outside `loop()`, for
which no wakeup is written (`eventloop.cc:145`) and which wait for the first
poll to return.

### Buffer

A buffer is a record of the vector and the two indices. Each function is an
operator of `BufferFunctions` from record to record with the code's arithmetic:
`makeSpace` computes `write_idx_` from `readableBytes()` after `read_idx_` has changed
(`buffer.cc:27-28`), as the code does. The actions of `Buffer` apply the operators under
the preconditions the code asserts. `Zero` is what `vector::resize` fills with.

### TcpConnection

The IO thread's calls nest, so its call stack is part of the state: a `user` frame
is user code in a callback, and `append`, `close` and `remove` are the rests of
`sendInLoop`, `handleClose` and `connectDestroyed` that run after the callback
returns. Between two frames the IO thread does not yield to the loop, but other
threads do run: `send` and `shutdown` of another thread are the test of `state_`
(for `shutdown` a compare-exchange) and, later, the queueing of the functor;
`forceClose` is three steps (`tcp_conncetion.cc:120`, `:121`, `:127`).

`pending`, `quota` and `roundRef` are the loop as `FunctorQueue` sees it. A round's
list, with the references its functors hold, is destroyed when the round ends;
`Alive` says who keeps the connection: the server's map, a functor of the server's
or the connection's loop that captures a `shared_ptr`, the round under way, a
running function, a user thread. The write complete functor captures a bare
`this` and keeps nothing alive.

`output_buffer_` is a buffer of `BufferFunctions`: `append`, `retrieve`, `peek` and
`readableBytes` are the functions of the class, and what `makeSpace` makes of the bytes
is what `handleWrite` writes.

`Poll` is the `KqueuePoller`'s, the only one `newDefaultPoller` builds
(`default_poller.cc:11`): each ready filter overwrites `revents_` and lists the channel
once more (`kqueue_poller.cc:36-37`), so a channel that is readable and writable is
dispatched twice with the event that was reported last. `HandleOther` is another channel's
handler in the same iteration whose user code uses this connection; `handlers` counts
the handlers of the iteration that use the connection. Every iteration ends with a round
of functors.

`server` is the loop of the `TcpServer`. If it is the connection's own, the destructor
runs `connectDestroyed` at once, between two handlers or functors with no event of the
connection waiting (`ServerDestroyInLoop`); a half-closed connection then fails the
assertion of `Channel::remove`. If it is another, `ServerDestroy` queues the functor and
stops the connection's loop: between two iterations that loop may end (`LoopEnds`), with
every functor it has not run, while the server's thread waits to join it. After that a
thread's call uses a freed `EventLoop`.

`write` takes nothing when the peer has reset the connection, the stream is shut
down or the kernel has no room; otherwise it takes between one byte and all.
`read` delivers data, a logged error, or the end. `failed` names the assertion
that has aborted the program, or the object that was used after it was freed;
nothing happens afterwards. Which calls user code makes in which callback is the
constant `Calls`.

### Pollers

A channel stands for its descriptor too: after `remove()` the object is destroyed,
the descriptor closed (which deletes its filters in the kernel), and the number given
to a new channel (`Recreate`). Every change of `events_` is one step with the call of
the poller that follows it (`channel.h:84-110`, `channel.cc:34-37`). `PollPoller`
keeps `index_` as the code does, left alone in the removed channel; its array has the
descriptor, whether its sign is turned, and the events. `KqueuePoller` keeps the
record `kq_events_` beside the kernel's filters: `EV_DISABLE` and `EV_DELETE` of a
filter that was never added fail with `ENOENT`, which `update_one` only logs (`:165`;
`refused` keeps the call) and `update` answers by ending the program
(`kqueue_poller.cc:148-151`). The first registration records the
read filter whichever was added (`:88`). `aborted` and `exited` say that an assertion
has failed or the program has ended.

### EventLoopThreadPool and TcpServer

Loop 0 is the base loop, in the thread that owns the server; loops 1 to
`NumThreads` are the pool's. `pc` says where each loop's thread is: not yet created,
created, published (the promise is set, `loop()` not entered:
`eventloop_thread.cc:28`), in one of the four places of `loop()`, or ended. A loop is
reduced to what `EventLoop` is proved to be: functors run in rounds in the order of
queueing, and a poll that does not sleep while a functor is queued or the wakeup of
`quit()` has been written (`Woken`). When the loop of an IO thread returns, its
`EventLoop`, a local of `threadFun`, goes with the functors that are still
pending (`CheckQuit`).

`call` is where the base thread is in `start()` or the destructor, and the base loop
does not go on before it is `"none"`: `spawn` and `future` are a round of
`EventLoopThreadPool::start` up to and including the wait for the promise; `connections`
is the `for` loop of `~TcpServer`; `threads`, `wake` and `join` are the destruction
of the pool, thread by thread: `quit()` stores the flag (`QuitThread`), then
writes to the pipe (`WakeThread`), then the thread is joined (`Join`). Between
the store and the write the thread may end and its loop be destroyed; the write then
uses a freed object, which may go unnoticed or end the program (`"EventLoop freed"`).
`start()` and the destructor are called in the base thread, outside `loop()` or in a
functor, as the assertions demand.

A connection is its lifetime: `state_`, whether its channel is in the poller of its
loop, and who refers to it, which is `connections_` or a functor that captures it,
pending or in the round under way (`Alive`). The functors are
`connectEstablished` (`"established"`), `connectDestroyed` (`"destroyed"`) and
`removeConnectionInLoop` (`"remove"`); in the loop's own thread `runInLoop` runs them
at once, so `newConnection`, `handleClose` and the destructor contain the call for a
connection of the base loop. `AcceptFails` is the failing `accept` that ends the
program (`socket.cc:51`). `HalfClose` is a `shutdown()` by user code in the connection's
loop: a connection that is half closed when the destructor takes it down fails the
assertion of `Channel::remove` (`channel.cc:62`). What a connection does besides living
is `TcpConnection`, whose `server` is this module seen from one connection.

## 3. Runs

| run | configuration | result |
|---|---|---|
| `eventloop` | 2 callers, 3 functors, 1 busy channel, pipe of 5 bytes | all properties hold |
| `buffer` | 2 buffers (symmetric), chunks of 0-2 bytes, vectors up to 4 bytes, stack buffer of 1 | all hold |
| `buffer_stale` | 1 buffer, chunks of 0-3 bytes, vectors up to 6 bytes | stale bytes become readable |
| `tcp_connection` | messages of 3 bytes and 1 byte, output buffer of 2 bytes, high water mark 2; sends from callbacks and one thread, `forceClose` from callbacks and another channel's handler, peer sends twice, closes or resets; 544,278 states | all hold |
| `tcp_shutdown` | the same messages; `send` and `shutdown` from callbacks and from one thread, `send` from another channel's handler; 542,547 states | all hold |
| `tcp_force_close` | `forceClose` from one thread, server destroyed, in the same or in another loop; 36,518 states | both hold |
| `tcp_force_close_race` | `forceClose` from one thread, peer closes | closed twice |
| `tcp_kqueue_twice` | one message buffered, peer closes | `handleClose` asserts |
| `tcp_server` | 2 IO loops, 2 connections, server destroyed at any time, connections half closed at will; 347,208 states | all hold |
| `tcp_server_stops` | 1 IO loop, 1 connection | a connection is freed while it is up |
| `tcp_server_join` | 1 IO loop, no connection | the destructor never returns |
| `pollers` | 4 channels (symmetric), first registered for reading | all hold |

**`eventloop`.** `NoLostWakeup`: the loop thread never sits in poll with a functor
pending unless the pipe holds a byte or a thread is about to write one.
`WakeupReadNeverBlocks`: when the wakeup channel is dispatched there is a byte to
read. `QueuedFunctorRuns`, `QuitStopsLoop`: every functor queued while the loop
runs is executed, and `quit` ends the loop, without the help of the timeout or of
IO. `ImplementsFunctorQueue`: the refinement; the abstract queue is the rest of the
round followed by the pending list. Three functors allow one in the round, one
queued during it by the functor itself and one from outside; each call
writes at most one byte, so five bytes never fill up here. The pipe is blocking and
the loop thread its only reader, so functors that queue more functors in one round
than the pipe holds bytes (16 KB or more) block the loop in its own `wakeup`
(`eventloop.cc:116`); a `PipeCapacity` of 1 shows that state.

**`buffer`.** `IndicesInOrder` and `RoomAfterEnsure` are the class's own assertions
and bounds; `InOrder` says that after `append` and `readFd` the old bytes come first
and the new ones after them, the last ones last. `readFd` may take its bytes in two
parts, one straight into the vector and one by way of the stack buffer and `append`:
if `append` moves data down in between, stale bytes stand between the two parts, so
that the new bytes are not contiguous at the end (with a vector of 7 bytes and a
read of 3). `QueueUnlessMoved` says that every call that does not move data down is a
step of the byte queue. The last one is what remains of `ImplementsByteQueue`, which
`buffer_stale` refutes. With vectors up to 4 and chunks up to 2 bytes every case of
`makeSpace` (move, grow, both, neither), of `readFd` (fits, exactly full,
overflows) and of `retrieve` (part, all) occurs with both indices at
several positions.

**`tcp_connection` and `tcp_shutdown`.** Both run the dispatch and the buffer that the
program has, so some properties name what these bring about, and say that it is all:

- `WritingIffBuffered`: interest in writing and the output buffer agree while the
  connection is up.
- `DownOnce`, `QuietAfterDown`: the callbacks up and down come once and in order, and a
  closed connection stays out of work, whatever functors still run on it.
- `CallbacksWhileUp`, `AssertionsHold`: message and high water callbacks come between the
  two, and no assertion fails, but in an iteration in which several handlers use the
  connection: there an earlier one may have closed it, and the read event that still
  waits finds data (a message callback too late) or the end (`handleClose`'s assertion,
  which `tcp_kqueue_twice` shows). The handlers are the second dispatch of the
  channel (`kqueue_poller.cc:36`) and those of other channels (`eventloop.cc:71`).
- `LifetimeSafe`: when the last reference goes, the connection is closed, its channel
  removed, no event or functor left.
- `StreamUnlessMoved`: the refinement of `ByteStream`; what a `send` still holds during
  the high water callback counts as accepted. An `append` for which `makeSpace` moves the
  output down (a partial flush before it, no room behind it) is not a step of the
  stream: stale bytes get among those that wait, and are sent
  (`buffer.cc:21-28`, `tcp_conncetion.cc:223`, `:237`). The property says that nothing
  accepted is lost or reordered even then.
- `OwnSendsBeforeFin`: the bytes a thread sent before its `shutdown` took effect leave
  before the stream ends, with both in functors that race with the IO thread. What
  `handleWrite` overlooks when it ends the stream, the messages in functors that still
  wait (`:256`), is `late` and excepted; `shutdownInLoop`, which runs behind them,
  overlooks nothing.
- `EofCloses`, `ShutdownEnds`: the end of the peer's stream closes the connection, and a
  half close is completed - unless writes fail for good while output waits (`WritesFail`):
  the write filter is then always ready, and if the kernel reports it last each time, the
  read filter is never dispatched (`kqueue_poller.cc:35`).
- `ClosedIsReleased`: a closed connection is removed and released, if no assertion
  aborts the program first.

A three byte message in a two byte buffer at a mark of two bytes gives complete, partial
and failing writes, buffers that fill up, grow and move down, and the mark reached with
and without bytes in the buffer. No user code is in the high water callback here: see
findings.

**`tcp_force_close`.** What holds in a situation in which not everything does: a
`forceClose` that found the connection open closes it (`ForceCloseCloses`), unless the
loop was stopped by `~TcpServer` before it ran the functor; a connection whose server is
destroyed in its own loop is closed and released (`OrphanIsReleased`), unless it was half
closed, about to tell the server, or opened again by the late store of `forceClose`.

**`tcp_server`.** `FairRotation`: consecutive connections, as many as there are IO
loops, go to different loops. `LoopsExist`: nothing is queued in a loop that is not
published yet or has ended, whichever of the three threads is ahead. `CallbacksOnce`:
`handleClose` in the connection's loop, `removeConnectionInLoop` in the server's and
`~TcpServer` race for the same connection, and the user still hears of it once up and
at most once, later, down. `AssertionsHold`: in all of it no assertion of the library
fails but that of `Channel::remove`, for a half-closed connection the destructor
takes down; that `erase` finds the connection (`tcp_server.cc:97`) and the poller its
channel are the interesting ones. What else ends the program are a failing `accept` and two
uses of freed objects, the server by a `removeConnectionInLoop` that runs after
the destructor (`tcp_server.cc:88`) and a loop by `quit()` (`eventloop.cc:86`); the
property names them. `ClosedUnlessLoopQuit`, `NoDanglingChannel`: a connection that
nothing refers to any more is closed and out of its poller, except in a loop that was
told to quit; `tcp_server_stops` shows the exception. `QuitEndsThread`: the join
returns if the thread was anywhere in `loop()` when it was told to quit and no assertion
ends the program;
`tcp_server_join` shows what happens if it had not got there. `ServerDrains`: when
all clients have come and gone, every one has been accepted, taken from the map and the
poller, and freed. Two IO loops make the rotation wrap at a loop that is not the
only one, let the pool stop one loop while the other still runs, and two connections can
be in the same round of the base loop. The invariants were also checked without IO
loops and with one loop for three connections, and with three loops for two.

**`pollers`.** `EachAtItsIndex`: the removal swap keeps array, indices and
`channels_` in step. `RecordMatchesKernel`: the filters recorded are those enabled in
the kernel, so `update` never names an absent one, although removal deletes nothing
(`disableAll` has cleared the record) and disabled filters outlive it.
`WatchesWhatIsEnabled`: both pollers wait for the same events, those the channels have
enabled, and for none of a removed channel. `NeverFails`: no assertion of either
fails, `update` does not end the program, and of all changes the kernel refuses only one,
to disable a write filter that was never added (a `disableWriting` before any
`enableWriting`), after which the other properties still hold. Four channels allow a removal at the front, in the middle and at the end of
the array, and a removal of the entry that has just moved. Every channel of the library
enables reading first (`FirstOpts`); with `"kEnWriteOpt"` in `FirstOpts`,
`RecordMatchesKernel` and `NeverFails` are violated by `kqueue_poller.cc:88`.

### Fairness

`EventLoop`: weak fairness of each thread's write to the pipe (it proceeds once
there is room), of the loop thread's code between polls (user code returns), and of
poll while the pipe holds a byte. Nothing is assumed of the timeout, of other IO, of
callers, or of the start of the loop.

`TcpConnection`: weak fairness of the IO thread's steps (callbacks return, poll
returns when an event is ready, a round follows), of a thread in the middle of a call, of
the server's loop running its functors, and of the kernel making room while the peer has
not reset the connection. Which of two ready filters the kernel reports last is left
open. The liveness properties about the peer's end assume that it has
ended. Nothing is assumed of users or of the peer, nor that the server is destroyed or a
stopped loop ends. Deadlock is not checked in the connection's models, which really end:
the connection is gone, or the program has been aborted. The loop's, the buffer's and the
pollers' models are checked for deadlock.

`TcpServer`: weak fairness of the base thread inside `start()` and the destructor, and of
each loop's thread (user code returns; poll returns when a wakeup has been written or
an event is ready). Nothing is assumed of the owner, who may never enter the base loop
or destroy the server, of clients, or of the timeout. Deadlock is not checked,
because the server's models end too.

### Bounds

Every functor and message is used once (`Functors`, `Msgs`); another thread calls
`quit` at most once; a thread drops its connection after `forceClose`; `MaxCalls`
bounds `shutdown` and `forceClose` from callbacks, `MaxHandlers` the handlers of one
iteration that use the connection, `MaxIncoming`
the peer's data, `MaxSize` a buffer's vector. `Pollers` has no bound but its number of
channels. `MaxConns` bounds the clients of `TcpServer`, and with them everything
that is queued.

### Findings

The runs that end in a violation, with the line that disagrees, are under `findings`
in `PROJECT.json`: stale bytes after `makeSpace` (`buffer.cc:28`), the store in
`forceClose` (`tcp_conncetion.cc:121`), the double dispatch of the kqueue poller
(`kqueue_poller.cc:36`), the functors of `~TcpServer` that the pool's loops never run
(`tcp_server.cc:31`), so that `~TcpConnection` finds a connection that is up, and the
`quit()` that comes before `loop()` resets `quit_` (`eventloop.cc:63`), so that
`~EventLoopThread` waits for ever.

The models reach more. These outcomes are named as exceptions in the properties of passing
runs: an append after a partial flush puts stale bytes in the stream (`StreamUnlessMoved`;
`tcp_conncetion.cc:223`); a thread's `send` that still waits when `handleWrite` ends the
stream (`OwnSendsBeforeFin`; `:256`); a second handler of an iteration that meets a closed
connection (`AssertionsHold`, `CallbacksWhileUp`; `eventloop.cc:71`); the read filter that
is never dispatched (`EofCloses`, `ShutdownEnds`; `kqueue_poller.cc:35`);
`connectDestroyed` of a half-closed connection, whose channel is still enabled
(`OrphanIsReleased`, and `AssertionsHold` of `TcpServer`; `tcp_conncetion.cc:104`);
`removeConnection`'s functor after the server is gone (`tcp_server.cc:88`). Three appear
only with other values of the constants, of which no run is kept: `send` in the high water
callback overtakes the bytes being kept and calls the callback again
(`tcp_conncetion.cc:219`); `forceClose` there is followed by `enableWriting` on the closed
connection (`:227`); the write complete functor runs after `~TcpServer` has destroyed the
connection (`:196`).

## 4. Proofs

`EventLoopProofs` proves, for any sets of threads, functors and channels and any
pipe capacity, from `LoopAssumption` alone:

- `TypeCorrect`, `WakeupNeverLost`, `WakeupReadSafe`: `[]TypeOK`, `[]NoLostWakeup`,
  `[]WakeupReadNeverBlocks`;
- `Refinement`: `Spec => ImplementsFunctorQueue`.

The argument is one inductive invariant, `LoopInv`. `NoLostWakeup` is not inductive: it
says something of the poll only, while the danger arises earlier, when a functor
arrives after the swap. `WakeupInv` extends it to every place from which the loop can
reach the poll without another swap, that is, to `run`, `functor`, `check` and `idle`
too; for the step in which a functor of the loop thread itself queues, it needs that
`calling_pending_functors_` is set there (`PendingRoundInv`), and for the step that
consumes the byte, that the dispatch is always followed by a swap. `DispatchInv`
(active channels only during dispatch, and a byte in the pipe while the wakeup channel
is among them) gives `WakeupReadSafe`. The refinement's step simulation uses that
`tmp` is empty outside the round.

`BufferProofs` proves from `BufferAssumption`, for any byte values, chunks and
sizes:

- `IndicesCorrect`, `TypeCorrect`: `[](TypeOK /\ IndicesInOrder)` and its first part, by a lemma for each function of
  the class that says what it does to the indices and the vector's length;
- `EnsureMakesRoom`: `[]RoomAfterEnsure`;
- `BytesInOrder`, `QueueButForMoves`: the action properties `InOrder` and
  `QueueUnlessMoved`, the second with the initial condition of the byte queue.

All follow from one invariant, that every buffer is well formed (`AllWellFormed`),
and a lemma of `BufferFunctionsProofs` for each function that says what it does to the
readable bytes. They are
shown byte by byte (`ReadableIs`): copying at `write_idx_` extends them
(`FillReadable`), growing leaves them alone (`GrowKeepsReadable`), moving down keeps
them in front and lets stale ones follow (`MoveDownKeepsFront`), and `append`,
`readFd` and `shrink` put these together. The theorems about `TcpConnection` use the
same lemmas.

`PollersProofs` proves for any set of channels, from `ReadFirst` (channels are first
registered for reading):

- `TypeCorrect`, `IndicesCorrect`, `RecordCorrect`, `CallsSucceed`, `PollersAgree`: type
  correctness and the four safety properties of the run `pollers`.

`EachAtItsIndex` alone is not inductive: that the assertions hold needs that a new
object has no index and that each entry holds its channel's events and is ignored
exactly when there are none (`PollInv`). For the kqueue poller the record must be the
channels' events, and the kernel must have the read filter of every channel, which is why
it never refuses to disable reading (`KqueueInv`): then it is empty at a removal and agrees with the kernel
at `disableAll`. The removal swap is a lemma about sequences (`SwapAndPopped`).

`TcpServerProofs` proves for any number of loops and of connections, from
`PoolAssumption` and `ServerAssumption`:

- `ServerTypes`, `RotationIsFair`, `QueuesAreLoops`, `UpThenDownOnce`,
  `NoAssertionAborts`, `FreedAreClosed`, `FreedAreForgotten`: the seven invariants of the
  run `tcp_server`.

One inductive invariant, `ServerInv`, carries all seven. Its core is `LifeInv`, which
says of every accepted connection who still refers to it and what is still to be done:
if it is in the map it is registered or its `connectEstablished` is to come; if a
`connectDestroyed` is to come it is out of the map; if it is neither closed nor in the
map its destruction is queued, or its loop has ended. It speaks of functors that are
left to run, in the pending list or in the rest of the round (`Left`), because a functor
that has run is still in the round's list. That is not inductive without the order of the
queue: `OrderInv` says that no functor of a connection is queued twice and that its
`connectDestroyed` never stands before its `connectEstablished`, and `QueueInv` that it
stands in the right loop, so that running the first functor leaves no other of its kind
(`RunFirst`). `FairRotation` compares connections any distance below `NumThreads`
apart; `RotationInv` gives the loop of each of the last `NumThreads` from `next_`.
`LoopsExist` needs the course of `start()` (`StartInv`, `BornInv`: nothing is accepted
before the last promise is kept) and of the destructor (`EndInv`: a loop is told to
quit only when the map is empty and stays so). The lemmas follow the actions, one
for each, after four about queues (`QueueLast`, `RunFirst`, `RoundsKeepLeft`,
`QueueStep`) and three about what a step leaves alone (`QuietStep`, `SameQueues`,
`LivesOn`).

The theorems about `TcpConnection` hold for any messages and sizes, threads, high water
mark, buffer sizes and bounds, under the kqueue dispatch, and for any calls of user code
but those that a theorem excludes. The exclusions are conditions on the constants `Calls`
and `ServerDies`; each leaves out calls or settings under which TLC finds a property that
is proved from it violated:

| hypothesis | leaves out | without it |
|---|---|---|
| `CloseInLoop` | `forceClose` in another thread | the store of `tcp_conncetion.cc:121` reopens a closed connection (run `tcp_force_close_race`) |
| `HighWaterKeepsOpen` | `forceClose` in the high water callback | `enableWriting` on a closed connection (`:227`) |
| `~ServerDies` | `~TcpServer` while the connection is up | a write complete functor without an object (`:196`), a half closed connection removed while enabled (`:104`) |
| `HighWaterSilent` | all calls in the high water callback | what it sends overtakes the kept bytes (`:219`) |
| `HighWaterKeepsWriting` | `shutdown` in the high water callback | the stream ends before the kept bytes (`:219`) |

`tcp_connection` and `tcp_shutdown` are instances that satisfy all of them.
`TcpConnectionProofs` proves

- `TypeCorrect`: `[]TypeOK`, without any hypothesis;
- `DownOnceHolds`, `WritingAgrees`: `[]DownOnce`, `[]WritingIffBuffered`, from
  `CloseInLoop`;
- `QuietWhenDown`: `[]QuietAfterDown`, from `HighWaterKeepsOpen` as well;
- `CallbacksInOrder`: `CallbacksWhileUp`, from the same two.

`TcpConnectionLifeProofs` proves, from `CloseInLoop`, `HighWaterKeepsOpen` and
`~ServerDies`, `LifetimeIsSafe` and `NoAssertionAborts`: `[]LifetimeSafe`,
`[]AssertionsHold`. `TcpConnectionStreamProofs` proves `RefinesByteStream`:
`Spec => StreamUnlessMoved`, from `CloseInLoop` and `HighWaterSilent`; and
`OwnSendsLeave`: `[]OwnSendsBeforeFin`, from `CloseInLoop` and `HighWaterKeepsWriting`,
with a server that may be destroyed at any time.

The specification has some thirty actions, but few things happen to the connection
and the stack of its callbacks: it opens, half closes, closes, a callback is pushed or
returns, bytes are added now or after the high water callback, bytes leave. `ConnSteps`
shows that every step is one of these kinds (`ConnStep`), `FunctorSteps` the same for the
queue, and the invariants are proved over the kinds. They come in layers:

- `OnceInv`. `DownOnce` is not inductive: it needs to be said that `ups` and `downs` are
  what `state_` says (`HeardInv`), that before `connectEstablished` nothing has happened
  and that no second one is queued (`ConnectingInv`), and that no thread is between
  `forceClose`'s test of `state_` and its store (`ThreadsInv`). `WritingIffBuffered` needs
  the sends that wait for the high water callback: each holds something (`HeldInv`), and
  while the connection is up there is nothing above it on the stack but others and
  their callbacks (`AboveInv`), so that no close can pass unnoticed.
- `QuietInv`: a closed connection has no interest in events, and no send still waits to
  enable writing.
- `DispatchInv`: every event that waits counts among the iteration's handlers, and as long
  as it is the only one, it meets the connection as poll did: a read event finds it up.
- `LifeInv`, which says who keeps the connection and in which order what is left to be
  done is done: open, it is in the map; closing, it is in the map and either the
  `"close"` frame or the server's functor will remove it; taken from the map, its
  `connectDestroyed` is queued once, behind every write complete functor, which hold
  only its address (`Held`), and no event is left; then its channel goes. The calls of
  other threads that still arrive are queued behind it (`Dwindles`).
- The refinement maps what a send holds during the high water callback to accepted bytes;
  at most one holds some (`OneHeld`). The step simulation goes by kinds again, and for an
  append by what the lemmas about the buffer say: it extends what can be read, or moved it
  down, and then the new bytes stand behind the old ones with stale ones in between.
- `OwedInv` follows each message from the call of `send` to the kernel, whichever thread
  makes it. Once sent, it waits in a functor, or every byte of it has reached the kernel,
  the buffer or a held send (`FlowInv`); functors hold only what threads have sent, and
  behind a `shutdown` only what was sent after it (`QueueInv`); before `shutdown` has
  changed `state_` no end of stream is sent (`FinInv`). So when `shutdownInLoop` ends the
  stream, no functor and no buffer holds a message that is owed, and when `handleWrite`
  does, those that a functor holds are late (`FinishedInv`).

Only model-checked: liveness (`QueuedFunctorRuns`, `QuitStopsLoop`, `EofCloses`,
`ClosedIsReleased`, `ShutdownEnds`, `ForceCloseCloses`, `OrphanIsReleased`,
`QuitEndsThread`, `ServerDrains`), which is out of this prover's reach, as is `ENABLED`.
Every invariant and every action property that a run checks and finds true is also
a theorem. The readable bytes are not the result of a recursion, so no induction over
data is needed.

## 5. Not modelled, and what is left

Nine tenths of the repository's lines, some 25,500 of 28,000, are the vendored spdlog and
the fmt library inside it, which no part of `muduo/net` depends on for anything but log
lines: no module models them, and the share of all lines that the modules stand for is
small for that reason. Of `muduo/net` the modules leave out:

- the formatting of addresses (`inet_address.cc`), the options of sockets, logging and time
  stamps; the example program;
- the destructor of `EventLoop` and its check of one loop per thread; system calls that
  fail outside normal operation and abort the program, but for `accept`;
- the hang-up branch of `Channel::handleEvent` (`channel.cc:42`), which needs a hang-up
  without readable data and is never taken by a channel enabled for reading, as all of
  the library's are, and its error branch (`:46`), which only logs;
- `start()` from another thread than the base loop's, which the comment allows
  (`tcp_server.h:69`) and the pool's assertion always aborts (`eventloop_thread_pool.cc:19`);
- a `~TcpServer` in the connection's own loop while an event of the connection still waits in
  the iteration, which leaves the loop a pointer to the removed channel; in `TcpServer`, a
  half close by another thread than the loop's (`TcpConnection` has it);
- the acceptor's channel after the acceptor: it is never removed from the poller
  (`acceptor.cc:24`), which matters to a base loop that goes on after its server.

Left: a model that joins the pollers with the acceptor's life; theorems about
`TcpConnection` with a server that dies first, for what still holds of its lifetime there.
