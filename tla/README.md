# A TLA+ verification of woody

woody is a small HTTP and WebSocket server framework in C++ on top of the reactor
library muduo, which the repository holds in `src/lib/muduo`. This directory holds TLA+ models
of the parts that carry its logic, TLC configurations that check them on small instances, and
proofs checked by TLAPS. Paths below are relative to the repository; `net/` and `base/` stand for
`src/lib/muduo/net/` and `src/lib/muduo/base/`, `http/` and `websocket/` for directories of `src/woody/`.

The build is a plain CMake build with `-O3 -Wall -g` and without `NDEBUG`: asserts are live, so a failed
assert ends the process and is modelled as that (`loopPc = "abort"`, `pc = "abort"`, `failed`, `wrong`).

## 1. Inventory

### Components, their state and operations

| Component | State | Operations |
|---|---|---|
| `EventLoop` (net/EventLoop.cc) | `quit_`, `callingPendingFunctors_`, `pendingFunctors_` under a mutex, `activeChannels_`, the eventfd | `loop`, `quit`, `runInLoop`, `queueInLoop`, `wakeup`, `handleRead`, `doPendingFunctors` |
| `Channel`, `Poller` (net/Channel.cc, net/poller) | events waited for, events returned, the channel's index, the pollers' map, the kernel's interest list, the pollfd vector | `update`, `remove`, `handleEvent`, `poll`, `updateChannel`, `removeChannel` |
| `TimerQueue`, `Timer` (net/TimerQueue.cc) | the sets by expiration and by address, the cancelled timers, the timerfd | `addTimer`, `cancel`, `handleRead`, `getExpired`, `reset` |
| `EventLoopThread`, `EventLoopThreadPool` | `loop_` under a mutex and a condition, the thread; the loops and the next one | `startLoop`, `threadFunc`, the destructor; `getNextLoop` |
| `TcpConnection` (net/TcpConnection.cc) | `state_`, the input and output buffers, its channel | `connectEstablished`, `send`, `sendInLoop`, `shutdown`, `shutdownInLoop`, `forceClose`, `forceCloseInLoop`, `handleRead`/`Write`/`Close`/`Error`, `connectDestroyed` |
| `TcpServer`, `Acceptor` | `connections_`, the pool, `listenning_`, the spare descriptor | `start`, `newConnection`, `removeConnection`, `removeConnectionInLoop`, `listen`, `handleRead` |
| `TcpClient`, `Connector` | `connect_`, `state_`, `retryDelayMs_`, `channel_`, `connection_` | `connect`, `disconnect`, `stop`, `start`, `restart`, `handleWrite`, `handleError`, `retry`, `newConnection`, `removeConnection` |
| `Buffer` (net/Buffer.h) | a vector with a read and a write index | `append`, `prepend`, `retrieve*`, `readFd`, `shrink`, the integers |
| `ProtobufCodecLite` (net/protobuf) | the input buffer | `onMessage`, `parse`, `fillEmptyBuffer`, `validateChecksum` |
| `RpcChannel`, `RpcServer` (net/protorpc) | `id_`, `outstandings_` under a mutex | `CallMethod`, `onRpcMessage`, `doneCallback` |
| muduo's `HttpServer` (net/http) | `HttpContext`: its state and request | `onMessage`, `parseRequest`, `processRequestLine`, `onRequest` |
| `HTTPServer` (http/http_server.cc) | `apps_`, `handler_map_` | `Handle`, `Start`, `OnConnection`, `OnRequest`, `OnHandlerClose` |
| `HTTPHandler` (http/http_handler.cc) | its connection and codec | `OnData`, `OnClose`, `HandleError`, `Send`, `ForceClose` |
| `HTTPCodec` (http/http_codec.cc) | `parser_`, `parseState_`, `cur_header_name_`, `cur_header_value_`, `request_` | `OnData` and the eight callbacks of http_parser |
| `HTTPRequest` (http/http_request.cc) | URL, headers, parameters, body, upgrade flag | `AddHeader`, `SetUrl`, `ParseUrl`, `CleanUp`, ... |
| `http_parser` (src/woody/lib) | the parser's state, flags, counters and errno | `http_parser_execute`, `http_parser_parse_url`, `http_parser_pause` |
| `WebsocketHandler` (websocket/websocket_handler.cc) | its codec | `HandleUpgrade`, `SetCallback`, `OnData`, `HandleError` |
| `WebsocketParser` | `state_`, the fields of the current frame, `body_` | `Parse`, `OnParsingComplete`, `CleanUp` |
| `WebsocketCodec`, `WebsocketMessage`, `WebsocketFrame` | `cur_message_type_`, `text_message_`, `binary_message_` | `OnData`, one handler per opcode, the encoder, masking |
| `BlockingQueue`, `BoundedBlockingQueue`, `ThreadPool`, `CountDownLatch` (base/) | a deque under a mutex, threads waiting on conditions | `put`, `take`, `start`, `run`, `stop`, `wait`, `countDown` |
| `AsyncLogging`, `LogFile`, `AppendFile` | two front buffers, the full ones, the writer's spares; the file, its size and its times | `append`, `threadFunc`, `stop`; `append`, `flush`, `rollFile` |
| `Date`, `TimeZone` | a zone's transitions and local times | day numbers, UTC and local time in both directions, reading a zone file |

### Interactions

One thread, the *loop thread*, runs everything in a woody server. `EventLoop::loop()`
polls, lets each active channel call back, and then runs the functors queued by `queueInLoop()`.
A readable connection calls `TcpConnection::handleRead()`, which fills the input buffer and
calls the message callback: `HTTPHandler::OnData()`, or after an upgrade
`WebsocketHandler::OnData()`. These take everything out of the buffer, feed a parser, put back
what it left, and answer with `send()` or `forceClose()`. A connection is owned by
`TcpServer::connections_`, by its handler in `HTTPServer::handler_map_` and by functors that hold a
`shared_ptr`; `sendInLoop` and `shutdownInLoop` are queued with a raw `this`. Other threads share
with the loop the pending functors and the eventfd, and `state_` of a connection, which
they read and write without a lock.

In muduo's own use a `TcpServer` has a base loop that accepts and a pool of loops, each in an
`EventLoopThread`, that serve connections; a connection's end goes from its loop to the base loop and back, as functors. Timers,
connectors and acceptors are channels or functors of a loop. The codecs, the RPC channel and
muduo's HTTP server are message callbacks on a connection's input buffer.

### Hard behaviours and what correctness means there

- **Waking the loop**: `queueInLoop()` decides after the unlock whether to write to the eventfd.
  Correct: no queued functor is slept on, functors run once and in order, `quit()` from another
  thread works.
- **Timers**: the set of timers changes while expired ones are being called. Correct: a timer is
  called when it is due and not after its cancellation, nothing is freed twice, the timerfd is armed for the earliest.
- **Writing**: direct writes, a buffered rest, partial writes, shutdown while data waits. Correct:
  the peer gets the messages whole and in order, and shutdown comes after the data.
- **Closing**: peer close, reset, error and forced closes from two sides, then removal and
  destruction in later rounds, in two loops. Correct: every assert holds, the application hears once that
  the connection is down, nothing is used after it is destroyed, and it *is* destroyed.
- **Connecting**: failures, timeouts and retries that cannot be taken back. Correct: one attempt
  at a time, no socket lost, `stop()` stays, and a client gets through when it is let in.
- **Parsing a stream in segments**: TCP cuts the stream anywhere. Correct: what the
  application gets depends on the stream, not on the cuts; an error closes the connection
  and nothing behind it gets through; `OnData()` returns.
- **State kept between requests**: what one request leaves in the codec must be what
  the next one is allowed to see.
- **Monitors**: `notify()` wakes one thread, wakeups are spurious. Correct: nobody sleeps on what he could take, and
  stopping wakes everybody it must.

`PROJECT.json` lists the hazards at their lines, each with the properties that would catch it.

## 2. Modules

| Module | Models |
|---|---|
| `TaskQueue` | Abstract: a FIFO of tasks, each submitted once and executed once, in order. |
| `EventLoop` | The reactor: `loop()`, `queueInLoop()`, `quit()`, the eventfd, `doPendingFunctors()`. Refines `TaskQueue`. |
| `EventLoopProofs` | Theorems about `EventLoop`. |
| `TcpConnection` | A connection from accept to destruction, composed with `connections_`, `handler_map_`, the rounds of the loop, the kernel and the calls of other threads. |
| `TcpConnectionProofs` | Theorems about `TcpConnection`. |
| `TimerQueue` | Timers of a loop, with callbacks and threads that add and cancel. |
| `TimerQueueProofs` | Theorems about `TimerQueue`. |
| `Poller` | `Channel`, `EPollPoller` and `PollPoller`: the books of both. |
| `EventLoopThread` | A loop in a thread: start, publication, quit, join. |
| `TcpServer` | `TcpServer` over several loops, with `Acceptor` and `EventLoopThreadPool`. |
| `Connector`, `TcpClient` | The connector as functions of its state; the client that drives it. |
| `NetProofs` | Theorems about `TcpServer`, `Poller` and `TcpClient`, as parts of `MCNet`. |
| `ByteQueue`, `Buffer`, `BufferUse` | Abstract: a queue of bytes. The buffer's operations on the vector and its indexes. The two side by side, with every call. |
| `ProtobufCodec` | `ProtobufCodecLite` on a connection; uses `Buffer`. |
| `RpcChannel` | Both ends of an RPC connection. |
| `MuduoHttp` | muduo's `HttpServer` and `HttpContext` on a connection. |
| `StreamsProofs` | Theorems about `BufferUse`, `RpcChannel` and `ProtobufCodec`, as parts of `MCStreams`. |
| `HttpUrl`, `HttpParser` | Character classes and URL parser; the parser's big switch, state by state. |
| `HttpParserProofs` | Theorem about `HttpParser`. |
| `HttpRequest` | `HTTPRequest`, with `ParseUrl()` on characters. |
| `HttpHandler` | `HTTPHandler`, `HTTPCodec` and `HTTPServer`'s routing on a connection, with one action per http_parser callback. |
| `HttpProofs` | Theorem about `HttpHandler`. |
| `WebsocketFrame` | Frames, masking, byte order, the encoder. On bytes. |
| `WebsocketParser` | `Parse()`, with every early return, as an operator on the parser's members. |
| `WebsocketCodec` | The handler of each opcode and the reassembly of messages. |
| `WebsocketHandler` | Composes the three on a connection: segments arrive, `OnData()` loops, errors close. |
| `WebsocketRoundTrip` | Encoder against parser and codec, at the boundaries of the length encoding. |
| `Condition` | Condition variables: who waits for what, `notify()`, `notifyAll()`, spurious wakeups. |
| `BlockingQueue`, `ThreadPool` | The queues and the pool, on `Condition`. |
| `LogFile`, `AsyncLogging` | Files as functions of their state; the logger and its writer. |
| `BaseProofs` | Theorems about `BlockingQueue`, `ThreadPool` and `AsyncLogging`, as parts of `MCBase`. |
| `TimeZone` | `Date` and `TimeZone`, against a calendar that counts days. |
| `MC*` | Instances for TLC (`EventLoop` and, for `tcp_leak`, `TcpConnection` need none: their `.cfg` is enough). `MCNet`, `MCBase`, `MCStreams`, `MCTcpAll` and `MCWebsocketAll` hold several parts that do not interact: a behaviour chooses one, `part`, and moves only it. |

### How state and actions correspond to the code

Variables have the names of the members they stand for. Variables without a trailing
underscore are, as a rule, the model's own: program counters (`loopPc`, `call`, `pc`), local vectors
(`functors`), the environment (`wakeupFd_`, `peerGot`, `script`, `read`) and history
(`executed`, `accepted`, `delivered`, `handed`).

**EventLoop.** A functor is the number of its `queueInLoop()`. The push, under the mutex,
is one step (`Push`); the test and the write to the eventfd that follow the unlock are another
(`WakeupAfterPush`), as are the two halves of `quit()`. The loop thread takes these steps from
user code only: from a channel's callback, from a functor, or outside `loop()`. `PollReturns` chooses
the channels that are ready, the eventfd among them exactly if it is readable. The eventfd's counter is
reduced to whether it is not 0.

**TcpConnection.** A message is two pieces, so that a write can be partial, and the kernel takes any
number of them. `React` is what the message callback may do in the loop thread; a parse error
in `HTTPHandler` makes it call `ForceClose()` twice, which is one of the reactions. A call of
another thread is up to three steps: the test of `state_`, the write of `state_`, the push. `watching`
says whether the channel waits for anything: `handleClose()` and `connectDestroyed()`
disable it, and `Channel::remove()` asserts that it is disabled. `broken` is a connection that the peer
reset: writes fail with EPIPE or ECONNRESET, which `sendInLoop()` and `handleWrite()` only log.
In one round the channel's event is handled (read part, then write part, as in
`Channel::handleEventWithGuard()`) and then the functors queued so far are run.

**TimerQueue.** The queue is a record (heap, the sets, the cancelled ones, the timerfd) and
each member function an operator on it. A `Timer*` is an address that is handed out again when its timer is deleted, so that
a stale `TimerId` can meet another timer. A callback adds and cancels timers, its own and those expired with it. Timers due at the same moment are called in any order, since the set sorts them by address. `addTimer()`
of another thread is two steps, because it reads `timer->sequence()` after it has queued the timer: if that has been
deleted by then, the number read is arbitrary. `start` is the `now` of `handleRead()`, read before the callbacks; `reset()` counts the next interval of a
repeating timer from it, while the clock may have gone on, so that after slow callbacks a timer may be due again at once. `rounds` remembers, for the properties, when the last round that called a timer began.

**Poller.** `update()` and `remove()` of channels in any order the asserts of `Channel` allow, for both pollers. The
kernel's interest list and the pollfd vector are state; the swap on removal, the negated fds of ignored channels and the
index each channel keeps are as in the code.

**EventLoopThread, TcpServer, TcpClient.** One step per section between locks or per functor. `TcpServer` has a limit on
descriptors, and `Acceptor::handleRead()` is split where it gives its spare descriptor up, accepts to refuse, and takes it back.
`Connector`'s functions act on a record that also holds what it has pending in the loop, so that `TcpClient` can choose what comes next.

**Buffer.** An operator for each member function on the vector and its two indexes; bytes that were not written keep what was there.
`readFd()` fills the room behind the write index and then the second area on the stack.

**ProtobufCodec, MuduoHttp, RpcChannel.** One round of `onMessage()`'s or `parseRequest()`'s loop is a step. Frames are bytes, with
`adler32` computed; lines of HTTP are words and separators. `CallMethod()` is three steps: the atomic increment of the id, the registration under the
mutex, and the send.

**http_parser.** A step is one case of the switch for one character, with the inner loops over header fields and values as steps
of their own (`from` is their `start`). `parser` holds the fields of `struct http_parser`; marks are positions. A callback answers
at will: it succeeds, fails or pauses.

**HttpHandler.** Here http_parser is only the callbacks it makes. The
stream is made of what it tells apart: characters of URLs, header names, header values and bodies,
and marks for what is between them. A segment that ends in a string makes it report the string in
parts; one that ends exactly at the end of a string makes it report an empty part later. A
malformed request is a mark at which it stops with an error.

**WebSocket.** The stream is bytes, made by the encoder from a sequence of frames. `Parse()`
works on the members as the code does, its early returns included, and an uninitialised
`masking_key_` is an arbitrary member of `InitialKeys`. One round of the while loop of `OnData()` is
one step.

**base.** A critical section is a step; a thread that waits is asleep until it is notified or wakes for no reason. `AsyncLogging`'s
writer is split at its unlock, at every buffer it writes and at the end of a round; a write may fail. `TimeZone` is pure functions,
evaluated month by month.

## 3. Runs

| Run | Checks | Distinct states |
|---|---|---|
| `event_loop` | `NoLostWakeup`, `RunsInOrder` (refinement of `TaskQueue`), `FunctorsRun`, `QuitStops` | 42 000 |
| `tcp_connection` | `AssertsHold`, `StreamInOrder`, `NoDanglingFunctor`, `ShutdownFlushes`, `DisconnectingEnds` with other threads only sending; `AnyCallsSafe` with all three calls in other threads | 600 000 |
| `websocket` | `StreamUnderstood` (`InSync`, `DeliversMessages`) for clients that follow the protocol; `ErrorCloses`, `OnDataEnds` for any frames and segments; `RoundTrip` | 42 000 |
| `http` | `RequestsReassembled` (`HeadersReassembled`, `WholeStringsKept`), `ParsesUrl`, `NothingAfterError`, `ReadIsHanded`, `ErrorCloses` | 26 000 |
| `http_parser` | `ReadsMessages` (`TellsMessages`, `RefusesOnlyBad`, `LeavesUpgradeData`, `HeadersBounded`), `StaysInBounds` (`AssertsHold`, `ReadsInSegment`), `ExecuteReturns` | 410 000 |
| `net` | timers: `TimersKept`, `CalledAsDue`; client: `ClientConsistent`, `ConnectsAsAsked`; loop thread: `ThreadEnds`; server: `ServerConsistent`, `ServerDrains`; pollers: `PollersAgree` | 268 000 |
| `base` | queues and pool: `WakeupsSuffice`, `AllServed`; logging: `LogKept`, `LogLives`; calendar: `TimesAgree` | 250 000 |
| `streams` | `BufferServes`, `CodecDelivers`, `CallsKept`, `RequestsServed`, `StreamsServed` | 175 000 |
| `tcp_leak`, `websocket_split`, `websocket_prepend`, `http_cut` | one property each, violated: section 4 | |

Properties that belong together are conjunctions of named parts; a counterexample is read by evaluating the parts in
its last state. What the runs show:

- `event_loop`: the test `!isInLoopThread() || callingPendingFunctors_` in
  `queueInLoop()` covers every case in which the loop could sleep on a functor. It does not matter
  that the loop thread skips the wakeup in a channel's callback: `doPendingFunctors()` is still
  to come in that round. The one exception is a functor queued by the loop thread outside
  `loop()`, which waits for poll's timeout; the properties name it (`unsignalled`).
- `tcp_connection`: a direct write never overtakes buffered data, `shutdownInLoop()` and
  `handleWrite()` between them shut down only after the last piece, and a functor with a raw `this`
  finds its connection alive. The last holds because `handler_map_` never lets a connection go;
  the mutant that erases the handler on close breaks it. Repairing the leak of section 4 therefore
  needs the two functors to hold a `shared_ptr`. Closing twice from a parse error is harmless, because
  `forceCloseInLoop()` tests `state_`.
- `websocket`: what the application gets is a function of how far the stream has been parsed,
  whichever way bodies are cut and several frames share a segment.
- `http`: names and values are put together across segments, and parameters are decoded. The properties
  state exactly what is *not* reset between requests: `cur_header_name_`
  and `cur_header_value_` go in front of, or stand in for, the next request's first header, and `body_` stays
  until another request has a body.
- `http_parser`: for messages with every kind of framing (lengths, chunks, trailers, end of stream, upgrade, CONNECT, folded and
  repeated headers) the callbacks, joined, are those of the uncut stream wherever it is cut; a message is refused only with an error it
  deserves; a parser that stopped at an upgrade has not touched what comes behind it. No assert fails, no character is read outside the segment,
  and no mark lies behind the position.
- `net`: timers survive cancellation at every moment, also through an id whose address was used again, and the timerfd is always
  armed for the earliest. No timer is called in a round that began before it was due, and rounds that call a repeating one begin at least its interval apart;
  two calls may be closer, when the callbacks before the first of them were slow. The client has one way to a connection at a time, although retry timers cannot be cancelled. The spare
  descriptor is there whenever the acceptor is not using it, so that a full process refuses clients instead of spinning. Connections
  end up destroyed in their own loop. After any sequence of updates both pollers hold what the channels asked for.
- `base`: one `notify()` per `put()` and per `take()` is enough in both queues, under spurious wakeups. `ThreadPool::stop()` always returns. No
  log line is lost or reordered between `append()` and the file except those of a failing write and those the writer drops
  on purpose, and a line reaches the file without another one behind it. Dates agree with a
  day count from 1900 to 2500; the conversion from local time and back returns where local time is not ambiguous.
- `streams`: the buffer is a queue of bytes through every move and growth. Frames, calls and requests come out whole and in order.

Deadlock checking is off where a client may stop sending or a bound is used up; in `event_loop` it is on.

Every property of a passing run has a mutant in `PROJECT.json`: a change of one definition as a
plausible mistake in the code would make it (`Mut...` next to the definition), with which TLC finds
the property violated.

## 4. Where code and comments or asserts disagree

- **`tcp_leak`**: `HTTPServer::OnConnection()` relies on `HTTPHandler::OnClose()`, which calls nothing,
  because nobody sets its callback. `handler_map_` keeps handler, connection and fd for ever.
- **`websocket_split`**: the bytes of a segment that ends inside a frame header are dropped, and
  the parser takes the rest of the frame for a header.
- **`websocket_prepend`**: `OnData()` puts the rest of a segment back with `Buffer::prepend()`, which has room for 8
  bytes; with more than that behind the first frame its assert fails. `HTTPHandler::OnData()` does the same.
- **`http_cut`**: `OnUrl()` and `OnBody()` replace what earlier parts of the string brought, though
  http_parser reports a string in any number of parts.

Observations that the code knows itself (a FIXME or a comment) or that no line contradicts, kept in the models as the
code has them:

- *TcpConnection*: `forceClose()` in another thread tests and sets `state_` without synchronisation (FIXME at
  TcpConnection.cc:241). If the loop thread closes the connection in between, `state_` goes back to kDisconnecting and the
  connection is removed twice, which fails `assert(n == 1)` in `removeConnectionInLoop()`. `AssertsHold` is therefore stated for threads that only send.
- *EventLoop and its threads*: `quit()` before `loop()` is forgotten (FIXME at EventLoop.cc:107), and the destructor of the
  `EventLoopThread` then waits for ever; `startLoop()` waits for ever if the loop has already ended. `~TcpServer` hands
  connections to loops that may be quitting.
- *TimerQueue*: `addTimer()` reads `timer->sequence()` after it has queued the timer (TimerQueue.cc:125), though TimerQueue.h:47 calls it thread safe; `cancel()` in the loop thread overtakes
  an `addTimerInLoop()` queued by another thread.
- *Pollers*: `PollPoller` does not restore `pfd.fd` of a channel that was disabled and is enabled again
  (PollPoller.cc:103-109); removing a channel that was disabled before it was ever added fails an assert of `PollPoller` only.
- *Client*: `restart()` sets `connect_` again over a `stop()` of another thread; a second `connect()` fails `startInLoop()`'s
  assert; `disconnect()` while connecting does not prevent the connection.
- *base*: `ThreadPool::stop()` does not notify `notFull_`, so a blocked `run()` stays blocked; tasks still queued are not run. Log lines
  appended between the writer's last swap and `stop()` are lost, and lines too long for a buffer are dropped without a word. A failing `fwrite()` writes nothing in the model, where `AppendFile::append()` (FileUtil.cc:37) goes on after a partial write and may leave the first part of a buffer in the file. A zone file that
  ends early is reported as read; before the first transition the first local time counts even if it is a summer time (FIXME).
- *http_parser*: the second letter of some methods is let through unchecked ("GXT"); a tab behind a comma in `Connection` ends the matching of
  its tokens; one byte is counted twice for each cut inside a header and none when `on_header_value` pauses;
  leading line ends before a response call `on_message_begin` each; an `execute()` with length 0 may complete a message twice.
- *RPC*: the client does not look at the error field; a service that answers after the connection went down uses a deleted channel (FIXME at RpcServer.cc:59).
- *muduo http*: one request is taken per segment, so a pipelined one waits for the next segment; a line without a colon ends the headers;
  bodies are not parsed; a refused request line stays in the buffer, and another segment can then fail an assert of `setMethod()`.
- *WebSocket*: the header test of `HandleUpgrade()` (websocket_handler.cc:26-32) can refuse nothing; a codec error in a frame handler does not end the loop of `OnData()`, so frames behind it in
  the segment are still handled; the length limit of control frames is tested on `opcode_ > 127`
  (websocket_parser.cc:53) and never applies; a masking key of 0 counts as none, and an unmasked frame
  is unmasked with the key of the frame before; a message of three or more fragments fails, and leaves its
  text in `text_message_`.
- *HTTP*: a query key without `=` swallows the next key; a request that no prefix
  matches gets no response. `HTTPServer::Stop()` and some `Send*` methods are declared and not defined.

## 5. Bounds

- `event_loop`: two threads besides the loop thread, four functors. Two threads can be in
  `queueInLoop()` or `quit()` at once while the loop thread calls it too; four functors fill both vectors and leave one
  to be queued in each kind of place.
- `tcp_connection`: three messages of two pieces and two segments (two and one with all calls in other threads), up to two closing calls, two
  threads: enough for a message to be partly written while another is sent and a third thread
  closes, and for two closes to race. The bounds are `MaxMessages`, `MaxReads`, `MaxCloseCalls`, `AnyMessages`, `AnyReads`.
- `websocket`: all sequences of three frames out of eight that follow the protocol: a message in two fragments with a
  control frame between them, or three messages; bodies of up to two bytes; and all pairs
  out of nine frames that need not. Round trip: lengths 0, 1, 5 and both sides of 125/126 and 255/256, and 300, for every type, with and
  without mask; a body that comes with its header, after it, or in two parts.
- `http`: all pairs of four requests (several headers, repeated names, empty values, with and without a
  body), six sequences with malformed and upgrade requests, and URLs with up to two parameters
  from sixteen; segments end anywhere but in URLs and bodies, which `http_cut` cuts.
- `http_parser`: segments of 1, 2, 7 and 200 characters in any order, so that every position is cut in some behaviour and
  inner loops also run long; a header limit of 150 (`HTTP_MAX_HEADER_SIZE`) and an 8-bit `ULLONG_MAX`, so that both limits are met by short messages.
- `net`: two addresses and two timers at a time (an address is used again), repeating never, every tick, so that a timer can be due again when its round ends, or every two, so that the next round comes too early for it; a clock from 1 to 4, one thread besides the loop; seven failures, enough for the
  retry delay to reach its limit and stay there; four clients, three descriptors and two loops, so that descriptors run out and the
  round robin wraps; four channels on three descriptors, one of them used again.
- `base`: three producers and three consumers on a queue of two; two workers and two clients on a queue of one; lines
  that fill a buffer or leave room, four of them, enough to fill both front buffers and one more; one failing write; a clock that starts at 1 and stops at `MaxClock = 2`, where the period of two seconds after which files roll is over.
  Calendar: every month from 1900 to 2500, which has centuries that are leap years and ones that are not; two zones, one of them with times before 1970, and their files cut short behind any of their local times.
- `streams`: a buffer with 4 bytes in front, room for the length of a frame, and 1 behind at first, reads that spill over into the second area; two frames, with lengths on both sides of the limits;
  three callers; two requests cut anywhere.

## 6. Fairness

- `EventLoop`: the loop thread does not stop between two statements (WF), a thread in `queueInLoop()` or
  `quit()` finishes it (WF), `poll()` returns when the eventfd is readable (WF), and user code
  called by the loop returns (SF of `DispatchIo` and `RunFunctor`, since it may call into the loop repeatedly
  first). Poll's timeout of 10 s is not assumed: the properties hold by the eventfd alone.
- `TcpConnection`: the loop goes round (WF), which `EventLoop` shows it does, and a socket that keeps being polled for writing
  and is not broken takes some bytes now and then (SF of `HandleWrite`). The peer need not send or
  close anything, and threads need not make calls.
- `WebsocketHandler`, `HttpHandler`, `HttpParser`: the loop thread does not stop in a callback (WF); clients may
  stop sending.
- `MCNet`: loop threads go on, the clock goes on, a thread in `addTimer()` gets out of it, a connecting socket becomes ready with some result (the kernel's connect timeout), and the
  owner of an `EventLoopThread` finishes a call it has begun. The application need not call anything.
- `MCBase`: threads that are awake go on, tasks end, consumers keep calling `take()`, and `waitForSeconds()` times out. No spurious wakeup is assumed, and nobody need call `append()`, `run()` or `stop()`.
- `MCStreams`: loop threads handle what has arrived, a caller goes through `CallMethod()`, and services run the closures they keep.

## 7. Proofs

The theorems hold for every value of the constants, under the assumptions named in the modules. Most say no more than that
bounds are natural numbers and sets of actors finite: `Loop \notin Threads` and `ThreadCalls` a subset of the three calls (`EventLoop`, `TcpConnection`);
`TimerBounds`; `ServerAssumption` (finitely many clients and loops, at least one descriptor, which `idleFd_` takes), `ClientAssumption` and
`ChannelsAssumption` (`MCNet`); `ThreadsAssumption` and `SizesAssumption` (`MCBase`: finitely many threads, each with one job; a queue of size 0 is one without a bound),
`LogAssumption` (a log period and `checkEveryN` are positive, and the writer gives lines up only above two full buffers; the code has 24 hours, 1024 and 25);
`ParserAssumption` (`HttpParser`: inputs are characters, a segment has at least one, a length holds two hexadecimal digits);
`CallsAssumption` (`MCStreams`);
`CodecAssumption` (`MCStreams`: room in front of a buffer for a length of 4 bytes, `kMaxMessageLen` below 2^31 - 1, a tag that is not empty, messages of bytes within the limit, some of which `rawCb_` does not refuse; the code has 8 and 64 * 1024 * 1024);
 `ScriptsAssumption` (`HttpHandler`: clients send requests); `BufferAssumption` and `ReadableAssumption`. TLC evaluates them all on the runs' instances.
Where a module holds several parts (`MCNet`, `MCBase`, `MCStreams`), a theorem is about the whole specification: the part it speaks of moves or stands still.

**EventLoopProofs** proves `TypeCorrect`, `NoWakeupIsLost` and `ImplementsTaskQueue`.
`NoLostWakeup` speaks of a loop in `poll()` and is not inductive. `WakeupInv` is: it says at
every place of the loop what covers a queued functor (the eventfd, a caller about to write to
it, or a `doPendingFunctors()` still to come); that the flag `queueInLoop()` tests is set exactly while
`doPendingFunctors()` runs, without which a functor queued by a functor would be lost; and that the loop
thread is inside a call only in user code. The refinement maps the abstract queue to `functors \o pendingFunctors_`: the swap moves elements
between the two and is a stutter, because `functors` is empty at that point (part of `WakeupInv`).

**TcpConnectionProofs** rests on five invariants.
`Queues` gives the functors and counters their types. `StreamInv` replaces the prefix of `StreamInOrder` by a
witness, and gives the sequences types, so that associativity of concatenation applies (lemmas `MoveFirst`,
`PiecesAssociate`). With it, `StreamStaysInOrder` holds for any calls of any threads, also those that break
the asserts. `FlushInv` says that an open channel that is not writing has an empty buffer, and that nothing is queued
before the connection is established; it gives `ShutdownFlushesBuffer`, an action property, and with `KeptInv`
(the handler is in `handler_map_` once connected) `FunctorsNeverDangle`. `CloseInv` ties `state_`,
`connections_`, the channel and the number of down callbacks together and says that `connectDestroyed` is queued only for a
connection that is down. It is inductive only if no other thread writes `state_`: `AssertsNeverFail`
and `TypeCorrect` assume `ThreadCalls \subseteq {"send"}`; section 4 says what happens otherwise.

**BaseProofs** proves `WakeupsSafe`, for any threads and queue sizes. `WakeupsSuffice` counts: while a consumer sleeps there are as many awake as there are items, while a
producer sleeps as many as there are free places, and while a worker sleeps the pool has not been stopped. The invariant adds who can sleep on which condition, so that a `notify()` does not
go to the wrong thread, and that the items in a queue are different ones that nobody has taken. The lemmas are about the number of threads awake when one of them moves.
`LogSafe` is about the logger. `LogInv` says where buffers can be: a `next` that is missing has been filled, so that `buffers` is not empty, and while the writer is without a spare
buffer it holds one, or two, to make new ones from. `FilesKept` says what `LogFile` keeps between rounds: a name not used before in any period that has begun, and a count of appends that bounds how long a
roll can be overdue. The lines on their way are the files' lines, the rest of the buffers to write, the full buffers and the current one, end to end; a step moves a boundary in this
sequence, or takes lines out of it. `Kept` says that the sequence is the appended lines without those given up; `FlattenSeq` of a sequence that grows, shrinks or has its last element replaced is
shown by induction on its length.

**TimerQueueProofs** proves `TimersSafe`, `TimersRunWhenDue` and `CancelledTimersQuiet`. The invariant says that `timers_` and `activeTimers_` hold the same
addresses, that every timer that lives is in them, among the expired ones or in a queued `addTimerInLoop`, in one of these and once, that no two timers have the same sequence number,
that a `TimerId` names its own timer or none, and that a timer that was cancelled and is still there is expired and in `cancelingTimers_`, where `reset()` finds it.
`CancelledStaysQuiet` needs the last three: it is the sequence number, not the address, that keeps a stale `TimerId` from another timer.
`TimersRunWhenDue` needs `RoundsInv` as well: what is due when a round begins is called in it, and a repeating timer outside the round is due again no sooner than its interval after the round that last called it began.

**NetProofs**, the server: `ServerSafe`. `OneWay` says that a connection has at most one functor in all queues together, and that this functor finds the
connection in the state, in the loop and in `connections_` as its asserts need it; `TurnInv` that the loops before `next_` have had one connection more than the rest;
`SpareInv` counts descriptors. The pollers: `PollersSafe`. `EpollInv` and `PollInv` say what a channel's index means (kNew, kAdded, kDeleted; a position in `pollfds_`), and
that each entry of the vector has one owner, which the swap in `removeChannel()` could break. The client: `ClientSafe` and `ClientOwnsItsSockets`.
`Ways <= 1` is the heart of it: queued `startInLoop`s, retry timers, the attempt, the established connection and a pending restart are at most one together, although timers cannot be cancelled.
Both theorems are for one call of `connect()`, because a second one fails an assert (section 4), and `ClientSafe` is for `stop()` in the loop thread: a `stop()` of another
thread can have its `stopInLoop()` run after a `restart()`, which then doubles the delay without a failure, so that `Backoff` is false. `ClientOwnsItsSockets` has the rest of `ClientConsistent` for any `stop()`.

**StreamsProofs**: `RpcSafe` follows a call's id through thread, `outstandings_`, request, service and answer: an id is in one place at a time, and registered from before its
request is sent until its answer is taken. `BufferSafe` relates the vector and its indexes to the queue (`Content(buf) = held`), with the layout `0 <= readerIndex_ <= writerIndex_ <= size`;
`makeSpace()`, `shrink()` and `readFd()` each have a lemma on content and room. `IntsRoundTrip` states for all integers what `IntsReadBack` evaluates at the edges.
`CodecSafe` is about the protobuf codec. A frame that the peer sends has a `Shape`: it is refused for its length, or it has the length it tells and `parse()` makes of it what it should. This needs that
`fillEmptyBuffer()`, through `Buffer`'s operations, writes the length and then tag, message and checksum (`FilledFacts`), that the length is read back (`IntsRoundTrip`), and that damage in one byte changes
the checksum (`ChecksumDiffers`, by induction over adler32's running sums). `Layout` finds where the frames end in the stream. `CodecInv` says that the buffer holds the bytes of the stream behind the first n frames
and before what the peer has still to send (`Window`), that the messages of these n have been given and none of them was refused (`HasGot`), that the application has been told of the next one if that was refused
(`Told`), and that outside `onMessage()` no complete frame waits unless it was refused (`Settled`).

**HttpParserProofs** proves `ParserSafe`, for every text, every cut into segments and every answer of the callbacks. `StaysInBounds` is far from inductive: whether an assert holds is decided many states earlier.
`ParserInv` says what each state of the switch promises. While a header's name is read, `header_state` is one of those that names can have, and likewise for values, so that the `default:` of the inner
switches, which is an assert, is not reached. Inside a chunked body `F_CHUNKED` is set, the size being read stays below `ULLONG_MAX`, which the overflow test before each digit guarantees, a body has at least one byte to
go, and where a chunk begins `nread` is 0 between two characters and 1 during one, which is what `assert(nread == 1)` needs. A mark is set only in the states of its own string, and not behind the position. The
switch is reached with a character in the segment. A parser that was paused keeps all of this, one that failed keeps nothing and is not run again. There is a lemma for each family of cases of the switch
and for each way out of one (`Moving`, `Going`, `Noting`, `Calling`, `Telling`, `Erring`).

**HttpProofs** proves `NothingAfterBadRequest`. The stream is `FlattenSeq` of the bytes of the requests; `StreamLayout` finds the positions where they end, with the one byte that
completes a request, or shows it malformed, there and no such byte between. `ParserInv` then says that the bytes still in the buffer are those of the stream behind the parser's position, that this position
lies in the request behind those handed over, that these were all good ones, and that after an error nothing is parsed. `RequestsReassembled`, about what a request contains, is left to TLC.
This is induction over data, as in `BaseProofs`. The library's induction theorems take a predicate as a parameter; here the predicate is a set of numbers (`Induction`),
whose complement would have a least element (`MinIsLeast`, from the well-foundedness of `<`).

Only model-checked: everything about liveness (`FunctorsRun`, `QuitStops`, `DisconnectingEnds`, `ErrorCloses`,
`OnDataEnds`, `ReadIsHanded`, `ExecuteReturns`, `CalledAsDue`'s last part, `ConnectsAsAsked`, `ThreadEnds`, `ServerDrains`, `AllServed`, `LogLives`, `StreamsServed`), which is
out of the prover's reach; and what the parsers, the codecs and the calendar compute: `StreamUnderstood`, `RoundTrip`, `RequestsReassembled`,
`ParsesUrl`, `ReadsMessages`, `RequestsServed`, `TimesAgree`. These compare the code's state with a value that a recursive definition
computes from the whole input. What such a definition computes for every input needs induction over data; `HttpProofs` and `StreamsProofs` show the way for sequences put end to end, the other definitions are deeper.

## 8. Not modelled, and the plan

Not modelled: formatting of responses and log lines, `/proc` readers and the pages of `inspect`, wrappers of system calls and of
zlib, protobuf's own serialization, and the destructors that race their loops by the code's own admission (`~TcpServer`, `~TcpClient`, `~EventLoop`): a server's `Start()`
does not return. `HandleUpgrade()` and `SetCallback()` are not composed with a running `HTTPHandler::OnData()`: a client sends its first frame after the
101 answer, and the callbacks are replaced in the one thread that runs them. `PROJECT.json` gives the reason for each component.

What is left is proofs, the first of them `RequestsServed` of `MuduoHttp`, by positions in the stream as in `CodecSafe`; then the
invariants of section 7 that are only model-checked.
