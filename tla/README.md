# Verification of netxy

netxy is a C++ network library: event loops on worker threads, connections
(DataSocket) that live on one loop each, a service that gives them ids other
threads can use (TcpService), and HTTP, WebSocket and RPC on top. This directory
holds TLA+ models of these parts and of the queues, pools and codecs they are
built from, the TLC runs that check them, and TLAPS proofs. The models follow
the Linux build; the `PLATFORM_WINDOWS` branches are left out, except in
`Coroutine`, where both builds are short.

## The system

| component | state | operations | hard part |
|---|---|---|---|
| EventLoop (`net/EventLoop.cpp`) | two atomic flags, two pairs of proc vectors, epoll instance, eventfd | pushAsyncProc, pushAfterLoopProc, wakeup, loop, getTimerMgr | posters race with the loop going to sleep |
| Timer (`timer/`) | heap of shared_ptr | addTimer, schedule, cancel | who holds a timer while it fires |
| DataSocket (`net/DataSocket.cpp`) | fd, send list, receive buffer, flags, weak_ptr to a timer | send, shutdown, disconnect, setCheckTime, epoll events | edge-triggered epoll, deletion while procs, events and timers refer to it |
| TcpService (`net/TCPService.cpp`, `utils/Typeids.h`) | loops, slot tables, id counters, cached packets | addDataSocket, operations by id, start/stop/close | stale ids, reused slots |
| ListenThread (`net/TCPService.cpp`) | a flag, a thread | startListen, closeListenThread | waking a thread blocked in accept |
| WrapTCPService, NetSession | session objects with an id | forward to TcpService | life of the session object |
| Connector, fdset, MsgQueue | queued requests, connecting fds, poll set | asyncConnect, the rounds of the thread, destroy | timeout against success, reused fd numbers, unlocked looks at the queue |
| buffer | bytes, read and write position | write, move to the head, growth in `DataSocket::recv` | positions that meet the end |
| HTTP, WebSocket | parser, receive buffer, cached frames | handleHttp, frame build and extraction | messages cut anywhere, state left from the message before |
| RPC | request ids, callbacks, argument objects | call, reply, handleRpc | answers in any order, objects used again |
| thread pool, msgnet | message stack, workers | start, pushmsg, stop | signals after the unlock |
| rwlist | three stacks | push, flush, force_flush, read, pop | tests before the lock |
| coroutine | table, runnable list, one stack | new, yield, block, resume, schedule | slots and the stack are reused |
| timeaction, typepool, multipool | nodes, heap, free lists | add, del, schedule; claim, reclaim | ids and elements are reused under callbacks |
| packet | buffer, position | write, grow, read | growth inside a field, byte order |

How they interact: a worker thread calls `loop()` over and over. One `loop()` is
epoll_wait, the dispatch of its events to `canRecv`/`canSend`/`onClose` of the
channels, the procs other threads posted, the after-loop procs, and the timers.
A DataSocket pushes its flush, shutdown and disconnect work as after-loop procs.
TcpService reaches a DataSocket from other threads only with a proc that looks
its id up when it runs. ListenThread and Connector bring new file descriptors.

What makes the components correct: the loop loses and reorders nothing and
sleeps only when there is nothing to do; a DataSocket sends its bytes in order,
never forgets data or events, and is deleted once, when nothing refers to it any
more; an id reaches the session it was issued for or nobody; closing returns.

## Modules

| module | models |
|---|---|
| `TaskQueue` | abstract specification: two FIFO lanes of procs |
| `EventLoop`, `MCEventLoop` | EventLoop, refines `TaskQueue` |
| `EventLoopProofs` | theorems about `EventLoop` |
| `DataSocket`, `MCDataSocket` | one DataSocket on its loop, with its timers and the kernel's side of the socket |
| `TcpService`, `MCTcpService` | TcpService and TypeIDS over loops that are lanes of `TaskQueue` |
| `ListenThread` | the accept thread and its owner |
| `ListenThreadProofs` | theorems about `ListenThread` |
| `DataSocketProofs`, `TcpServiceProofs` | theorems about `DataSocket` and `TcpService` |
| `ConnectorProofs` | theorems about `MsgQueue` and `Connector` |
| `ThreadsProofs` | theorems about `RWList` and `ThreadPool` |
| `LibraryProofs` | theorems about `Buffer`, `Pools`, `Timeaction`, `Coroutine`, `Rpc` and `Packet` |
| `SequenceFacts` | lemmas about sequences and induction |
| `MsgQueue` | the queue of `MsgQueue.h` between its writer and its reader |
| `Connector` | Connector and fdset over `MsgQueue`, and the kernel's sockets |
| `Fifo` | abstract specification: a FIFO queue |
| `RWList` | rwlist, refines `Fifo` |
| `ThreadPool` | threadpool and its condition variable |
| `Coroutine`, `Timeaction`, `Pools`, `Buffer`, `Packet` | the files of those names under `utils/` (`Pools`: multipool over typepool) |
| `MCPacket` | `Packet` with byte strings of which one is empty |
| `Http`, `MCHttp` | HttpParser and the HTTP half of HttpServer |
| `WebSocket` | WebSocketFormat and the WebSocket half of HttpServer |
| `Rpc` | two RpcService objects over either protocol |
| `MCThreads`, `MCLibrary` | instances of components that share nothing, one of which runs (`part`) |

The composition goes through `TaskQueue`: `EventLoop` is proved to implement two
FIFO lanes, and `TcpService` uses nothing else of its loops (`async`, `after`).
`DataSocket` keeps the phases of `loop()` and the swap of the after-loop vector,
because its deletion depends on what runs in this loop and what in the next.

### EventLoop

One step per atomic access, critical section, system call or callback. The
poster's `pc` walks through `wakeup()` (load `mIsInBlock`, exchange
`mIsAlreadyPostWakeup`, write), the loop's `loopPc` through `loop()`. Procs are
pairs of a thread and a number. The eventfd and the ready list of the
edge-triggered epoll instance are modelled (`eventfd`, `edges`, `Reportable`);
epoll_wait returns as many ready channels as fit into the array (`epollReturn`)
or times out. A callback is the calls it makes back into the loop (`UserCode`).
The destructor and `linkChannel`'s failure for the eventfd are not modelled.

### DataSocket

`ds` has the members of the class; each member function that others call is an
operator from `ds` to `ds`. Steps are: one call of user code, one iteration of
`recv`, one write of `flush`, one after-loop proc, one timer. User code may call
send, shutdown, disconnect and setCheckTime wherever the loop thread runs user
code while the id of the socket resolves; between `canRecv` and `canSend` of one
event this is a little more than the code allows. A complete callback may do
anything but send on its own socket. `NoStalledSend` exempts, over TLS, lists of which
`normalFlush` gathers no byte (see Findings). The kernel side (`net`) has unread bytes,
the peer's state, room in the send buffer, the EPOLLOUT bit and whether the
socket is on the ready list; an event reports what polls as ready when
epoll_wait looks. Packets are numbers with a size, the receive buffer is its
size and the number of unread bytes. `errno` after a write that returns 0 is
stale and taken to be either EWOULDBLOCK or something else.

### TcpService

Each DataSocket is its life and its id; loops are two lanes. A request carries
the session the caller means, which the code does not have; the properties
compare it with the session it reaches. `shutdown` and `setPingCheckTime` are one
kind of request (`control`): they differ only inside the DataSocket. `closeWorkerThread` drops the lanes and
leaks the sockets, as the code does. Calls on a closed service are excluded: the
code would use a null pointer.

### ListenThread

The owner's `closeListenThread` is three steps (flag, connect, join), the thread
five (listen, test, accept, second test, close). The kernel's backlog is a number.

### Connector and MsgQueue

The thread's round (`connPc`) is: poll and sort the sockets, answer the ones that
are done one by one, swap the queue, take its requests newest first, answer the
timeouts one by one. The caller is in the middle of `asyncConnect` between push
and lock. Requests are numbers. Poll entries are records with events and revents;
a new one has any revents. The kernel decides when a connect ends, other threads
take and free fd numbers, and a timeout may pass at any time. `MsgQueue` is also
checked alone, with `popFront` and `trySyncWrite`, which Connector does not use.

### RWList and ThreadPool

The writer of rwlist is past its test and before the mutex (`rwWriter`), so is the
reader; the stacks (of a library that is not here) are sequences. In
`ThreadPool` the lock is held between the test and the wait; the test of `is_run`,
the push under the lock (which may fail) and the signal after it are the three
steps of `pushmsg`; and a worker reads the message through a pointer
into the stack after it has unlocked, so what it reads may have been overwritten.
The hazards say what follows; no property claims otherwise.

### Coroutine, Timeaction, Pools

A coroutine's frame is its number and the switches it made; `coStack` is the one
stack of the ucontext build, which `save_stack` copies and `coroutine_goto` copies
back, `coFrames` what each should find there. `coroutine_schedule` is called by the
main program: the ucontext build asserts it (`coroutine.c:128`), the fiber build does
not test it. In
`Timeaction` callbacks are the actions add and delete, enabled while the
scheduler runs. In `Pools` growing may fail, and the number of pools and the
index an element carries are chars (`char`).

### Buffer, Packet, WebSocket, Http, Rpc

These are operators over bytes (`Buffer`, `Packet`, `WebSocket`) or characters
(`Http`: one for each CR, LF, digit, byte of data and longer text), and actions
that use them the way the code does: a pass of `recv`, a packet written field by
field and read, frames and requests that arrive cut in any way. Large WebSocket
payloads are never put together: a byte of the stream is computed from its
position. In `Rpc` msgpack is a sequence of tokens with lengths in front and JSON
an object with string keys; the argument is a map of vectors, the type for which
the code keeps the most state between calls. In `Packet` both sides have the
same byte order; the reader reads length and opcode, then the fields. A protobuf
message is a byte string, which may be empty, and is read with the `readBinary` that
takes a length of 0 for no data. Peers keep to what the code
understands: see the module comments and the hazards without a property.

## Runs

| run | bounds | shows |
|---|---|---|
| `eventloop` | 2 posters with 2 posts each, one of which may call getTimerMgr first, 1 channel, an event array of 1 that can be full | the safety properties and the refinement of `TaskQueue` |
| `eventloop_timermgr` | 1 post per thread, one poster may call getTimerMgr | finding: see below |
| `socket` | plain and TLS; 2 packets of 0 or 3 bytes, 1 packet per writev, merge buffer of 2, receive buffer of 1 growing to 2, 1 timer | the safety properties of a connection |
| `socket_live` | 2 packets of 2 bytes | gone connections are deleted, sends finish |
| `socket_heartbeat`, `socket_handshake` | 1 packet | findings |
| `tcpservice` | 2 loops, 1 other thread, 2 sockets, 2 operations, tables growing by 1 | ids, tables, order, disConnect ends the session |
| `tcpservice_restart` | 1 loop, 2 sockets, 2 starts | finding |
| `threads` | event loop: 1 post per thread, an event array of 1 that stays so; listen: 3 clients, backlog 2, 2 starts; Connector: 2 requests, 2 fd numbers, a poll array of 1; rwlist: 4 elements; pool: 2 workers, 3 messages | the protocols between threads, safety and liveness (every posted proc runs, close returns, every request is answered), and the refinement of `Fifo` |
| `library` | queue of 4 messages; 4 coroutines with 2 switches each in a table of 2; 3 timers on 1 node; 2 pools of 2 nodes of 2 elements; 7 bytes through a buffer of 2 growing to 4; packets of 3 fields, one-byte to four-byte integers and short or empty strings and messages, in 9 bytes; 3 frames of 0, 126 or 65536 bytes; 3 requests; 3 calls | the single-caller parts over every short sequence of calls |
| `http_body` | 2 requests | finding |
| `packet_message` | 2 fields in 9 bytes | finding |

Why the bounds are enough to be interesting: two posters are what it takes for
one to skip the write because of the other; two posts let the second one meet
the loop in any phase of handling the first; an array of one event is filled by
the socket while the wakeup is pending. In `threads` the array stays at one event, so
that the socket can take the place of the wakeup in every epoll_wait; that it grows is
part of `eventloop`. Two packets with one per writev give the
`goto SEND_PROC` loop, cuts inside a packet and an empty packet on either side.
Two bytes of input fill the largest receive buffer, and a packet of 3 does not
fit into one TLS write. Two sockets and tables of one slot reuse a slot while an
operation for its former owner is in a lane. Two requests and two fd numbers let
one socket be answered while the other's number is closed, reused or timed out,
and the second makes the poll array grow. Four queued messages give
`forceSyncWrite` a shared list longer and shorter than the write list. The
WebSocket lengths have all three forms and every cut in and around a head is
tried; the requests hold chunks whose data looks like the end of a message. A
table, heap, pool or buffer starts so small that it grows at least once.

Fairness. The loop thread is weakly fair (`startWorkerThread` calls `loop()` in a
`while`), a thread inside a call finishes it, and a peer that stays connected
makes room in a full send buffer (`drain`; a peer that never reads would stop any
sender). New posts, events, timeouts, clients and user calls are never assumed.
For `threads` the connect thread and the caller's second half of `asyncConnect`
are weakly fair and a running timeout passes; that a connect ever ends is not
assumed. Deadlock is not checked for `tcpservice`, `threads` and `library`: there
threads are stopped, or the bounded input is used up, and the system ends.

## Findings

* `eventloop_timermgr`: `EventLoop.h:66` says getTimerMgr returns nullptr off the
  network thread; the first caller becomes the network thread instead. The worker
  that comes second gets nullptr from its own getTimerMgr and dereferences it
  (`TCPService.cpp:453`) before it reaches `loop()`; the model goes on from a
  `loop()` that returns at once.
* `socket_heartbeat`: the heartbeat check of `DataSocket.h:68` runs once:
  `startPingCheckTimer` sees the timer that is just firing and arms no other.
  (The same test keeps a check time set after a cancel from arming a timer while
  the cancelled one is in the heap.)
* `socket_handshake`: the comment at `DataSocket.cpp:900` wants enter before
  close; EPOLLRDHUP during a handshake blocked on writing closes without enter,
  and the socket is leaked.
* `tcpservice_restart`: `TCPService.h:140` says ids are validated; ids repeat
  after the worker threads are closed and started again.
* `http_body`: the comment at `HttpServer.cpp:289` says the data of a message is
  cleared for the next one; `clearParse` leaves `mBody`, and the next request
  without a body shows it. (Of a chunked body only the last chunk is kept.)
* `packet_message`: `serializePBMsgToPacket` writes a message with nothing set as a
  length of 0 and reports success; `readBinary` returns data only if the length is
  above 0 (`packet.h:588`), so `assert(data != nullptr)` of
  `deserializePBMsgToPacket` (659) fails. What follows the message is read at the
  right place. `FieldsReadBack` excepts this one value (`EmptyMessage`).

Not a run of its own: a connection that cannot be added is deleted with its fd
open (`deletedOpen` in `TcpService`), which the assertion of `~DataSocket`
(`DataSocket.cpp:46-47`) excludes.

What else was met while modelling, with nothing in the repository that says
otherwise. The models step around these cases or leave them visible; no property
claims anything about them. Some of them are also hazards in `PROJECT.json`.

* Over TLS, data that arrives with the end of the handshake is not read until
  more arrives (`DataSocket.cpp:166`).
* The thread pool's worker reads its message through a pointer into the stack
  after the unlock (`threadpool.c:122`), and `thread_pool_stop` signals without
  the lock (152).
* `tryParse` takes everything that has arrived for one message
  (`HttpParser.cpp:193`), so requests must not be pipelined.
* A second RPC answer finds no callback and erases `end()` (`RpcCommon.h:181`).
* Over TLS, an empty packet in front of one larger than the merge buffer stalls
  the send list (`DataSocket.cpp:363`); `NoStalledSend` excepts the case.
* A complete callback must not send on its own socket (`DataSocket.cpp:499`).
* Ids have 16 bits for the slot and 32 for the counter (`TCPService.cpp:513`); the
  widths are in `MakeID`, the runs stay below.
* A closed service keeps `mLoopNum` (`TCPService.cpp:354`); accept is retried on
  any error (138) and a client accepted while closing is dropped open (146).
* `ThreadConnector::destroy` leaves `mThread` set and answers nothing that is
  pending (`Connector.cpp:264`); `asyncConnect` is for one thread (279).
* `thread_pool_isbusy` does not see a worker between unlock and `thread_state`
  (`threadpool.c:167`); `ox_timer_mgr_del` with an old id hits the node's new
  owner (`timeaction.c:278`).
* A field written after `getLen` is not counted (`packet.h:405`). The length is
  written in network order (407) and `readPacketLen` reads it in the order of the
  fields, so in a packet with `useBigEndian = false` it returns the swapped value
  (`FieldsReadBack` claims it for big-endian packets only). `AutoMallocPacket` passes
  its `true` as `useBigEndian` (623), so a `BigPacket` does not grow.
* A receive buffer that is full at its largest size, with a data callback that takes
  nothing, ends the reading (`DataSocket.cpp:223`); `NoStalledRecv` excepts the case.
* With 128 pools or more the chars of `multipool.c` (10, 92) overflow: no length finds
  a pool, and a high index comes back negative.
* The fiber build's `coroutine_goto` (`coroutine.c:340`) does not test that the main
  program called it.
* A WebSocket text frame without FIN meets `assert(false)` (`HttpServer.cpp:248`);
  without Keep-Alive more bytes repeat the callback (287).
* `clear` does nothing for maps with keys other than int and string
  (`RpcCommon.h:36`).

## Proofs

`EventLoopProofs` proves, for any sets of posters and channels and any bounds,
the type invariant, `NoLostWakeup`, `SleepsOnlyWhenDone`, `RunInPostOrder` and
the refinement of `TaskQueue`, from `EventLoopAssumption` (the threads and
channels are distinct, the sizes are naturals).

* `NoLostWakeup` is not inductive. `WakeupInv` says for every place of the loop
  why the queued procs are safe: outside the block either the flags are such
  that a later poster writes, or a write is pending or in flight.
* `SleepsOnlyWhenDone` needs conservation of procs (`Conserved`, `AfterInv`):
  every proc that was posted is in one of the four vectors or has run.
* Order and refinement need that the vectors and the history together are
  sorted per thread and name each proc once (`OrderInv`, `BoundInv`).

`ListenThreadProofs` proves the type invariant, `OnlyClientsHandedOver` and
`ClosedMeansStopped` for any number of clients, starts and any backlog. The
inductive invariant counts connections: while the flag is set, everything in the
backlog or just accepted is a client's.

`DataSocketProofs` proves the type invariant, `StreamIntact`, `NoUseAfterDelete`,
`NoStalledSend` and `NoStalledRecv`, for any sizes of packets and buffers and any
numbers of packets, timers and packets per writev, from `DataSocketAssumption`.
There are three inductive invariants, each of which uses the ones before it. TLC
has checked all of them on the bounds of `socket`.

* `DataInv` is about bytes. The send list is what is left of the packets after
  the completed ones (`Queued`), and what was written is the stream up to the
  first byte left (`Written`). The sums and streams are recursive functions;
  that they unfold is proved by induction on the number of packets.
* `LifeInv` is about deletion. The disconnect proc is posted once, is the last
  one in the after-loop vectors, and is posted only when the socket is closed;
  before the enter proc has run nothing but it refers to the socket; at most one
  timer is alive, the one `mTimer` can lock.
* `WaitInv` is about waiting, in every place of the loop and not only in
  epoll_wait: a list with bytes has a flush posted, a write in progress, or
  waits for EPOLLOUT with the event on the ready list or its call made; unread
  bytes and the peer's close have an event, its call, or a full buffer.

`TcpServiceProofs` proves the type invariant, `TablesSound`, `SendOrder` and
`OpsReachTheirSession`, for any loops, threads, sockets, numbers of operations
and increments of the tables, from `TcpServiceAssumption`.

* `TablesSound` holds as long as the slots of a loop fit into the index of an id
  (`IndexesFit`: at most 65536 in the code, which does not test it). `TypeInv`
  says which sessions wait in which lane, `TablesInv` that a session is in the
  slot its id names and that the free list names the other slots once each.
* `OpsReachTheirSession` holds in one start of the service and as long as the
  counter of a loop fits into the id (`IidsFit`). Both hypotheses are needed: ids
  repeat after a second start (`tcpservice_restart`) and after 2^32 sessions of
  one loop. `IdsInv` says that issued ids have iids below the counter.
* `SendOrder` needs no such hypothesis. `FlowInv` follows each operation from the
  cached packets through the lane to the session and says that, of one thread,
  what is ahead was called earlier.

`ConnectorProofs` proves `QueueIntact`, `RequestInOnePlace`,
`ConnectingTablesAgree` and the action property `HandsOverConnected`, for any
numbers of requests and fds and any size and growth of the poll array. `MqInv`
says that the read list, the shared list and the write list together are the
pushed messages without the popped ones, in order; `TablesInv` what the three
tables say of each other in each place of the round; `Placed` where each request
is, of the ones whose answer is in the making too.

`ThreadsProofs` proves that rwlist implements `Fifo` (`RwInv`: the three lists in
a row are the numbers after the popped ones, and what the places of writer and
reader say of the lists) and `NoStrandedMessage` of the thread pool (`PoolInv`:
who holds the lock, who is on the way to the signal, who sleeps).

`LibraryProofs` proves the invariants of the parts of `utils/` and of `Rpc`, each
from the assumptions on its module's constants.

* `ReceivedBytesIntact`: `BufferInv` says that the unread part of the buffer is
  the bytes behind the ones the callback took, and that a buffer without room is
  full and at its largest size.
* `PoolsSound` holds with fewer than 128 pools (`PoolsFit`), as the index an element
  carries and the bound of the search are chars. `PoolsInv` says for each node that its free stack has, once each,
  the elements that are not in use; an element that is held belongs to a node
  the pool has.
* `TimersSound`: `TimerInv` adds that the callbacks on the heap and the timers
  that are set name each other, with the same due time. The delays are the ones
  `TimeactionNext` enumerates; the lemma about adding (`AddKeeps`) holds for
  every due time.
* `ActiveListSound` and `RunsOnItsOwnStack`: `CoInv` says what each slot of the
  table holds (a coroutine that waits has the frame it left, as it was saved from the
  shared stack; the one that runs has its frame on that stack), that the active
  list has exactly the ones that wait for their turn, and that the free ids are
  empty slots. That the search of `coroutine_new` ends needs that `nco` counts
  the slots in use.
* `AnswersFindTheirCall` (`CallbacksMatched`) for any number of calls, from
  `RpcNames`: different ids have different names. The history of calls does not keep
  their ids, so `RpcInv` says that there is an id for each call: ids of one side
  differ (`IdsInv`), the table of a side has exactly the ids of its open calls
  (`TableInv`), and a message on the wire (`WireInv`) or a request in the user's
  hands (`HeldInv`) is a call nobody has answered, or the one answer to an open call.
* `ArgumentsArrive` (`ArgumentsKept`): `ArgInv` adds that a message carries the
  argument of its call in the form the receiver reads into a cleared object. That
  reading what was written gives the map back is a lemma for JSON (`JsonIs`) and for
  msgpack (`ReadsWritten`). The msgpack writer and reader are recursive functions over
  the elements of the map: by induction, the tokens of the first i elements are the
  first tokens (`TokensBegin`), and after i elements the reader stands behind them and
  has the first i keys with their vectors (`ReaderAt`). Assumed are `RpcNames`,
  `RpcMaps` (the arguments map integers of one digit to sequences of integers) and
  `RpcKeys` (`SetToSortSeq` of the community modules lists the keys of a map); TLC
  evaluates them on the ids and arguments of `library`.
* `FieldsReadBack` (`FieldsArrive`) for integers of each of the four widths, over
  their whole range, and byte strings and messages of any length, but the empty
  message. It holds as long as the length of the packet fits
  into the four bytes in front (`PacketFits`); the code does not test it. `Layout`
  says that there are positions at which the written fields lie one behind the other;
  a write leaves the bytes in front alone, also when the buffer grows
  (`Wrote`), and the head that `getLen` fills in lies before all of them. An integer
  of up to eight bytes is the sum of its digits to the base 256 (`QuotientsAre`,
  `HostValueIs`), and changing the byte order twice changes nothing.

`SequenceFacts` has the lemmas the others share: induction over the naturals in
the form of a set that contains 0 and is closed under successor, and what
taking, cutting and appending do to a sequence.

Only model-checked:

* Liveness, and everything else with fairness or ENABLED: outside TLAPS's reach.
* `WsMessagesIntact`: `WebSocket` uses bitwise operators, which cannot be used from
  a module with theorems.
* `RequestsIntact`: `Http` is a search over characters, checked over every short
  input and every way to cut it.
* The properties of the runs that expect a violation, which do not hold.

## Not modelled, and the plan

* WrapTCPService and NetSession keep an id and forward to TcpService; a call on a
  session object is an operation on its id, which `OpsReachTheirSession` covers.
* `msgnet.c` is an unlocked table of thread pools.
* Of HTTP: the texts HttpFormat.h puts together, the client's side, the WebSocket
  handshake digest. Of RPC: MemberRpcService and the other argument types. Of the
  thread pool: `wait` and `isbusy`, which change nothing, and `delete`. Of Timer:
  end times and `nearEndMs`.
* http_parser is third-party: `Http` models the callbacks HttpParser gets from it.
* Digests and base64, wrappers around system calls (SocketLibFunction, systemlib,
  ox_file, app_status), the etcd client, `array.c` and the Windows branches:
  arithmetic or I/O without a protocol.

What is left to prove is `RequestsIntact`, which needs an invariant for each place of
the parser.
