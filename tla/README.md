# A TLA+ development of mnvkd

mnvkd is a virtual kernel for servers in C: stackless coroutines, grouped into
*micro-processes* that own their memory, scheduled by one event loop over a table
of file descriptors. Coroutines of a process talk through sockets joined by
*virtual pipes*; sockets at the edge are joined to descriptors. All of it is one
thread; what makes it hard is that every wake-up is a flag or a queue entry
somebody must remember to make, and that memory, slots and descriptor numbers are
used again.

The modules here are translated from the C sources, function by function.
`PROJECT.json` maps each definition to the lines it stands for.

## The system

| part | state | operations | with whom |
|---|---|---|---|
| vector-ring (`vk_vectoring.c`) | buffer, cursor, length, two pairs of I/O vectors, EOF, error, blocked and effect flags | recv, send, read, write, accept, splice, hup, readhup, forwardhup, close, line search | filled and drained by sockets and coroutines |
| sockets, pipes (`vk_socket.c`, `vk_pipe.c`) | two rings, two pipes, the blocked operation, I/O futures | one handler per operation; enqueue of both ends; registration for the poller | called by the executor for a coroutine that waits |
| coroutines (`vk_thread*.h`, `vk_thread.c`) | status, continuation, socket, futures | begin, end, wait, call, raise, finally; read, readline, pollread, write, flush, forward, hup, readhup, close | run by the executor |
| micro-process (`vk_proc_local.c`) | run queue, blocked queue, running coroutine | execute, enqueue, dequeue, drop, retry a socket | its two flags tell the kernel how to queue it |
| process (`vk_proc.c`) | heap, allocated descriptors, kernel list flags | allocate, free, prepoll, postpoll, execute | between kernel, table and micro-process |
| descriptor table (`vk_fd_table.c`, `vk_fd.c`) | per descriptor: process, interest, flags; dirty and fresh lists | register, zombie, clean, process, one driver per poller | written by prepoll, read by postpoll |
| kernel (`vk_kern.c`) | run and blocked process lists, process pool, shutdown flag | loop: prepoll, poll, postpoll, dispatch | owns all of the above |
| signals (`vk_signal.c`) | handlers, one pending number, jump buffer | send, recv, setjmp, jumper | asynchronous to the loop |
| service, server (`vk_service.c`, `vk_server.c`) | listening socket, heap pool | initialisation, accept loop | starts a process per connection |
| memory (`vk_stack.c`, `vk_heap.c`, `vk_pool.c`, `vk_huge.c`, `vk_wrapguard.c`) | LIFO stack in a protected mapping; free lists | push, pop, enter, exit, alloc, free; guarded sums and products | every process |
| isolation (`vk_isolate.c`) | scheduler and actor contexts, the gate | enter, yield, trap | kernel |
| futures (`vk_future.c`, `vk_thread_ft.h`) | message queue per coroutine | request, listen, respond, send | between coroutines |
| protocols (`vk_http11.c`, `vk_rfc.c`, `vk_redis.c`) | parser positions, chunk lengths, the store | request and response coroutines | built on sockets |
| I/O batching (`vk_io_*.c`) | queues of deferred operations | not used by the loop yet | - |

What is hard, and what correctness means, part by part:

* **ring**: the wrap, exactly full and exactly empty, partial transfers. Bytes leave
  in order, none lost or doubled; vectors and cursor agree; every change a peer may
  wait for raises the effect flag.
* **sockets and micro-process**: orders of blocking. No coroutine sleeps on what is
  there; both ends of a pipe never wait for each other; message boundaries hold; a
  coroutine that ended is in no queue; one that waits for a descriptor is polled for.
* **kernel, table, drivers**: descriptor numbers and process slots are reused. No live
  process is on no list, no freed one on any; whatever a process waits for is watched
  and its events come back to that process; no edge is lost.
* **memory**: one owner of every heap and slot, nothing lost, protection as recorded;
  foreign memory masked while a process runs, own memory open after a fault.
* **services**: pipelined requests answered whole and in order, nothing left in a ring
  when the process sleeps or closes, both coroutines of one mind about framing.

The full list, with lines, is under `hazards` in `PROJECT.json`.

## Modules

* `ByteFifo` - what a ring promises: a bounded queue of bytes and an EOF mark.
* `Vectoring` - the vector-ring. `ring[r]` is `struct vk_vectoring`; `Read`, `Write`,
  `Send`, `Recv`, `SpliceRx`/`SpliceTx`, ... are the functions of `vk_vectoring.c` on
  one ring, and each `Do...` action is one call of the interface. Copies really go
  through the stored vectors (`Gather`, `Scatter`), so a vector out of step with the
  cursor would corrupt bytes. A system call may move any number of bytes, or fail with
  EAGAIN or another error.
* `ProcLocal` - one micro-process. `p` holds `struct vk_proc_local`, and per coroutine
  its `vk_thread`, socket and block; rings are byte queues, as `Vectoring` shows them
  to be. `running` is the coroutine inside its function. `Begin` starts an operation;
  `Read`, `Write`, `Forward`, ... are one turn of the corresponding macro, which ends by
  finishing or by `Wait`: the status is set and the handler (`Handler`, the whole of
  `vk_socket_handler` for that operation) is applied at once, as `vk_unblock` does.
  `Dispatch`, `Leave`, `Poll`, `RetrySocket` are the executor and `vk_proc_postpoll`.
  `msg` is a history variable that numbers messages modulo 2. A program is a set of
  operations per coroutine, in any order.
* `Responder` - what the services share: a request coroutine that starts a responder,
  runs ahead of it through the pipe, and waits for it in `vk_call`. `pc` is where each
  function goes on; every operation is one of `ProcLocal`, so requests and replies
  really cross its rings, handlers and queues. A unit in the pipe carries the number of
  its request.
* `Redis`, `Http11` - the two services as programs of `Responder`: one action per
  stretch of a function between two operations, with the function's branches, raises
  and ways out. `Redis` has a store with one key, a file that was there before and that
  other connections write (`Opened`, `OthersStore`); a value is where it came from, this
  connection's SET or a store by another. A SET fails with an error and, SQLite undoing a
  statement that fails, stores nothing; a
  GET fails with an error only if its statement cannot be prepared, and is answered nil,
  as for an absent key, if its step returns no row for whatever reason
  (`vk_redis.c:141`). PING and unknown commands are one command with a fixed answer.
  `Http11` has clients whose requests both coroutines frame alike (`Framed`); what the service answers to others (a GET
  with an entity, a chunked HTTP/1.0) is not claimed.
* `Kern` - the event loop, descriptor table and process life cycle with the poll()
  driver. `k` holds the process lists and slots, `table` the descriptors with the dirty
  and fresh lists, `open` what the operating system has open. What a process does while
  it executes is reduced to connections accepted, descriptors closed, a shutdown
  requested, and the blocked queue it leaves. `phase` follows `vk_kern_loop`: postpoll,
  execute, register (prepoll of the process), prepoll, wait. A listener asks for a
  shutdown before every accept; with no process slot left it raises ENOMEM and ends
  (`AcceptFails`).
* `Epoll` - the same loop over epoll instead of poll(), with edges or one-shot. It
  extends `Kern` with the readiness of descriptors and with epoll's own lists (what is
  registered, what waits to be reported); `Register` and `WaitReturns` replace `Kern`'s
  poll. What becomes ready together is listed in any order, and `epoll_wait` looks at its
  list from the oldest on until it has VK_EV_MAX to report. A hang-up is a descriptor
  that is readable and writable. The listener closes none of its own descriptors, as
  `vk_service_listener` does not. Signals and shutdowns stay with `Kern`.
* `Stack` - sizes of a fixed width, the overflow guards, rounding to pages, and the
  stack with its link words.
* `Memory` - a server's memory. `m` has the free lists of slots and pool heaps, the
  protection each region really has, and per process slot what is recorded of it and
  its stack. `Dispatch` is `vk_proc_execute_mainline` up to the code of the process,
  `Return` the rest; `Accept` is one turn of the listener with every failure on the
  way; `EchoCalloc`, `EchoLine` allocate and free as `vk_echo.c`; `Fault` is a signal in
  a process and the jumper, `Trap` the SIGSYS handler.
* `MCVectoring`, `MCProcLocal`, `MCKern`, `MCEpoll`, `MCRedis`, `MCHttp11`, `MCMemory` -
  the instances for TLC.
* `VectoringProofs`, `ProcLocalProofs`, `ResponderProofs` (what any service on one
  connection may rely on), `RedisProofs`, `Http11Proofs`, `KernProofs`, `EpollProofs`,
  `MemoryProofs` - the theorems.

Definitions commented *seeded fault* are not part of the models: each is a plausible
bug, listed under `mutants`, that shows its property can fail.

How they compose: `Redis` and `Http11` run in the state space of `ProcLocal`, `Epoll` in
that of `Kern`, `Memory` on `Stack`. `ProcLocal` uses `Vectoring` through its
abstraction (`ByteFifo`'s view of a ring), and `Kern` uses `ProcLocal` through the
queues it leaves (`BlockedQueues`).

## What the runs check

| run | bound | shows |
|---|---|---|
| VectoringPipe | two rings of 2 bytes, 2 letters | `TypeOK`, `NeverOverflows`, `VectorsPartition`, `LineFound` at every cursor and length, and that the rings implement `ByteFifo` (102,400 states) |
| VectoringFaults | two rings of 1 byte, errors and closes | `EffectRaised` |
| ProcHup | pipe of 2-byte rings, messages by hup and close | `TypeOK`, `QueuesAgree`, `EndedIsGone`, `HupBoundary` |
| ProcIo | descriptors at both ends of the pipeline; a response that copies or forwards | `DataWakesPeer`, `FdWaiterPolled`, `ForwardNeverHoards` (239,100 states) |
| ProcFlow | writes longer than a ring | `WriterGoesOn`, under fairness |
| Redis | rings of 3, queries of 2, three commands | `QueriesWhole`, `RepliesFollowCommands`, `AnsweredWhenIdle`, `FreedIsClosed`, and `ReturnsToPoll` (1.6 million states) |
| Http11 | rings of 2, entities and chunks of up to 2, two requests | `FramingAgrees`, `AnsweredWhenIdle`, `ResponderNeverRaises`, `ClosingIsClosed` (3.3 million states) |
| KernLoop | 3 process slots, 4 descriptors, 2 accepted again and again | `TypeOK`, `LiveProcListed`, `FreedNeverDispatched`, `InterestWatched`, `EventsReachWaiter` (1.2 million states) |
| KernNews | 2 slots, 2 accepted descriptors, signals, shutdown, processes that close and go on | `ListsAreSound`, `NewsIsDispatched`, under fairness (95,520 states) |
| Epoll | 2 slots, 2 accepted descriptors, one event per epoll_wait, both methods | `FreedNeverDispatched`, `EdgeKept`, `EdgeNeverRefused`, `ReadyIsServed` under fairness (590,363 states) |
| Memory | 4 slots, one pool heap, 3 mappings, five heap sizes, sizes of one byte | `OneOwner`, `NothingLost`, `RecordsTrue`, `Confined`, `Reachable`, `StackSound` (847,547 states) |

Why the bounds are enough. A ring of two bytes already has every cursor, the wrap, the
exact fill and splices across two wraps; the partition of longer buffers is proved. The
alphabet has two letters, one the newline, so that order and overwriting show. In
`ProcLocal` operations are up to one byte longer than a ring where a partial transfer
has to happen. In `Redis` a ring is no multiple of a query, so a query is split between
reads and two are in the pipe at once; three commands allow SET, GET and one that
closes. Another connection's store is taken when a GET is about to be answered: an
earlier one shows no sooner. In `Http11` a chunk fills a ring, and the second request
follows the first while the first is answered. `KernLoop` has as many connections as process slots beside
the listener, so slots and descriptors are reused in all orders; `KernNews` and `Epoll`
have one connection more than slots, so the pool is exhausted. `Epoll` reports one of
three descriptors at a time. `Memory` has heaps too small for the coroutine, for its
argument, for its state, for its buffers, and large enough; a heap of two pages is left
out, because `vk_init` writes through the socket it could not allocate and the listener
would fault while it sets the process up. Its buffers leave room for
the link word; those of `vk_echo.c` fill their pages, so that the longest lines would
overwrite it, which is not among the run's inputs.
Deadlock is not checked where a system may stop: a process whose coroutines have all
ended, a loop that is done.

One run refutes something the repository says of the code (`findings`):

| run | what the code does |
|---|---|
| HttpCall | `EndsInOrder` fails: the request waits in `vk_call` for the responder, but its socket is still in the blocked queue from an earlier read; the next postpoll retries it and plays the request, which frees a responder that still waits for a slow client |

What the models have as the code has it, and what therefore bounds the other claims:

* A reader asleep on a pipe is not woken by a hup alone (`vk_socket.c:449`); both
  services flush before they hup, and do not meet it.
* `readv` into a ring without room returns 0 and marks EOF (`vk_vectoring.c:511`).
* A forward from a descriptor wakes the reader of its pipe only if that reader's ring is
  still blocked after the splice (`vk_socket.c:358`): `ForwardNeverHoards` is checked
  where the request does not forward, and in `Http11` nothing is claimed of a request with
  a fixed entity by itself, only through a later one that has none (`Due`).
* A GET whose SELECT fails is answered like one of an absent key (`vk_redis.c:141`), and
  `vk_redis.db` is shared by all connections (`vk_redis.c:26`): `RepliesFollowCommands`
  says which value a GET may return, never one older than the last SET acknowledged to
  this connection, not that it returns one.
* A socket that reads and writes one descriptor is registered for reading only
  (`vk_fd_table.c:174`): `InterestWatched` and `EdgeKept` except it.
* A process that closes a descriptor and goes on keeps its number in the table
  (`vk_fd_table.c:203`): `EventsReachWaiter` and `Epoll` are checked where it ends
  (`Lingers = FALSE`). Two sockets of one process on one descriptor overwrite each
  other's interest (`vk_fd_table.c:212`); the runs have one.
* On shutdown a blocked process is flagged runnable and joins no list
  (`vk_kern.c:521`): `LiveProcListed` is checked without shutdowns. That `vk_kern_prepoll`
  then reads the heap of an isolated process, which is masked, is not modelled.
* A signal replaces one not yet received (`vk_signal.c:599`), and neither driver looks
  for a shutdown while idle (`vk_fd_table.c:860`, `:605`): no property says that a
  shutdown ends an idle loop.
* With one-shot registrations epoll_ctl fails on a zombie that its process closed, and
  the loop ends (`vk_fd_table.c:597`): `EdgeNeverRefused` is for edges.
* The SIGSYS handler opens the gate and the process runs on with it open
  (`vk_isolate.c:110`): `Confined` is about the heaps, which stay masked.
* A request that raised, or whose end is not waited for, may leave the descriptor open
  (`vk_fd_table.c:309`): `FreedIsClosed` and `ClosingIsClosed` except it.

## Fairness

`ProcLocal!FairSpec`: weak fairness of the executor and of each coroutine's own steps.
The executor is a plain loop and a coroutine's function runs on until it waits, so
neither can stop while enabled. Nothing is assumed of descriptors or peers.
`Responder!RunsOn` says the same of a whole process: inside `vk_proc_execute` some step
is taken again and again. That some step is possible is checked as freedom from
deadlock; `ReturnsToPoll` is then that these steps do not go on for ever, for a client
that sends a bounded number of commands (`MaxCommands`); one that can always be read from is
not covered.
`Kern!FairSpec`: weak fairness of the loop's own steps, the return of a coroutine
included; `PollReturns`, which depends on peers, is not fair. `Epoll!EpollSpec`: weak
fairness of the loop's own steps, the return of `epoll_wait` included, which is enabled
only when something is ready; that something becomes ready is not assumed.

## What is proved

Each result holds for every value of the constants that the named assumptions admit;
TLC evaluates the assumptions on every run. A condition that a theorem needs beyond them
is written in front of it (`RoomForLink => ...`) and explained here.

**Rings** (`VectoringProofs`; `BufLenAssumption`, `AcceptedAssumption`, `ByteAssumption`,
`FaultAssumption`, `RingAssumption`): any buffer length, alphabet and set of rings.

* `RingTypes`, `RingNeverOverflows`, `RingPartition`. None of the three is inductive: a
  copy is bounded by the stored vectors, so the invariant behind them (`RingInvariant`)
  adds that the stored vectors are those `IovecSync` computes from cursor and length,
  which every marking re-establishes. From it follow the lengths a request can be given,
  hence that neither ENOBUFS branch is reachable, and the partition by cases on which of
  the two ranges wraps.
* `RingsImplementFifo`: the rings implement `ByteFifo`. Each function is first shown, on
  one ring and byte by byte, to take the oldest bytes (`Pops`) or to append (`Pushes`):
  the i-th byte is in cell `(cursor + i - 1) % BufLen`, which a copy through the vectors
  reaches because they are in sync. A splice is two `Pops` after each other and one
  `Pushes`. Each action is then a step of the queues or leaves them alone (`NextMapped`).
* `EffectAlwaysRaised` falls out of the same two descriptions, which carry the effect flag.
* `RingLineFound`: the positions of the newlines are those of the first vector, then
  those of the second shifted by the first's length; that a set of numbers has a least
  element comes from the well-foundedness of the naturals.

**Micro-process** (`ProcLocalProofs`; `PipeAssumption`, `ProgramAssumption`): any number of
coroutines, any pipes between them, any programs.

* `QueueInvHolds`, the inductive invariant: each field has its type, neither queue holds a
  coroutine twice, queue membership agrees with marks and flags. `QueuesAgreeHolds` and
  `EndedIsGoneHolds` follow. `TypeOKHolds` is an invariant of its own beside it
  (`MessageProcess`): `TypeOK` puts the state in a set of records of functions, so each
  helper of the handler is shown to return such a record, one field at a time; that a
  ring never holds more than its buffer comes from the room each copy leaves.
* `DataWakesPeerHolds`, `FdWaiterPolledHolds`: when nothing is left to run, no writer and
  reader of a pipe wait for each other, and who waits for a descriptor will be polled for.
  Both rest on what each sleeping coroutine's handler last saw of its rings.
* `ForwardNeverHoardsHolds`, under `CopiesIntoPipes`: a coroutine that receives from a
  descriptor and sends into a pipe copies. The HTTP request coroutine forwards there
  (`vk_http11.c:327`, `:343`) and does not meet the condition; Redis does.
* `HupBoundaryHolds`, under `ClosesCleanly`: a coroutine that closes its pipe does not
  also forward or read next to a reader that clears the end. Both services meet it.

**Redis** (`ResponderProofs`, `RedisProofs`; `PipeAssumption`, `ResponderAssumption`,
`RedisAssumption`): rings, queries, arguments and pipelines of any size. The two
coroutines run on the micro-process above, so its invariant (`QueueInv`, and what each
sleeper last saw) is part of this one.

* `ResponderProofs` is about any service: what an attempt at a read, write, flush or close
  takes from a ring or appends to it, that the bytes between a writer and its reader
  (`Flow`) change by nothing else, and that all who are roused are queued (`Bears`).
* `RedisInvariant`. Its control part says at which `pc` each coroutine may be inside of
  which operation (`PlaceInv`) and that whoever is ready runs or is queued (`RunInv`).
  Its data part counts (`PendInv`): what the response has taken of a query, what is in the
  pipe, and what the request has still to write are exactly the `QueryLen` units of each
  command asked and not answered, in order (`Whole`); and EOF is marked only behind the
  last command (`EofInv`). None of these holds without the others: that a read ends with a
  whole query, and not early on an EOF, needs the count; the count needs that an operation
  is continued where it was begun.
* `RedisQueriesWhole` is that count at the end of a read. `RedisRepliesFollow` adds that
  the database holds the value of the last SET acknowledged, or what another connection
  stored after it (`DbInv`). `RedisAnsweredWhenIdle`: who is
  asleep on the pipe has emptied it, so the count leaves no command; a reply stays in the
  ring only while the response is inside a write or a flush. `RedisFreedIsClosed`: every
  way out of the response's loop ends in the close (`EndInv`).

**HTTP/1.1** (`ResponderProofs`, `Http11Proofs`; `PipeAssumption`, `ResponderAssumption`,
`HttpAssumption`): rings, entities, chunks and pipelines of any size, any fragmentation.

* `HttpInvariant` has the control part of `RedisInvariant`, with the places of these two
  coroutines. Its data part reads the pipe from the front (`Ordered`): first what the
  response has still to read of the entity it is at (`Rest`), then struct after struct,
  each before its entity, up to what the request has still to write of the last one
  (`Owed`; anything, if it raised in the middle). A chunked entity has no length: it
  reaches to the end of the pipe, so it must be the last thing in it (`ChunkInv`). The
  request marks the end with a hup and stays inside until the response has cleared it;
  the response is at the entity until then, and nothing follows it in the pipe.
* `HttpFramingAgrees` is that order at the front. `HttpResponderNeverRaises`: the end of
  the pipe comes with a chunked entity alone, and the response reads such an entity only
  in chunks of what its ring holds, which it can forward without meeting the end. So a
  read of a struct never does, and neither does a forward of a fixed entity, because a
  request that raises in the middle of one marks no end.
* `HttpAnsweredWhenIdle` needs what a response asleep on the pipe leaves behind
  (`NapInv`): its own ring is empty, and a request it has not begun has an entity or is
  not yet flushed; a chunked one is excluded by `ChunkInv`. It sleeps in a forward, too,
  where the wake-up may be lost; that is why `Due` excepts a fixed entity.
* `HttpClosingIsClosed`: the response goes on after a request only if that one did not
  ask for the close (`EndInv`), and only the last request asks (`AskInv`). A response
  left asleep would have emptied the pipe and so have come to the last request.
* The proof found that two guards of `RequestEntity` overlapped; they now follow the
  order of the code (`vk_http11.c:323`). `HttpAssumption` states that an operation may be
  as long as a ring.

**Event loop** (`KernProofs`; `KernAssumption`, `ListenerAssumption`): any
set of processes and descriptors.

* `KernTypes`, `KernListsSound`, `KernFreedNeverDispatched`. The invariant
  (`KernInvariant`) is `TypeOK`, `QueueInv`, `TableInv` and `PhaseInv`. Freed slots are
  not dispatched because a wake-up takes the process number of a fresh descriptor; so
  `TableInv` says that an allocated descriptor's process is alive, that fresh descriptors
  are allocated, and that a dirty one is allocated or a zombie, which `CleanFds` takes off
  both lists before poll(); `PhaseInv` says that nothing is fresh while a process
  executes and can be freed, that what is polled is allocated while in poll(), and that
  the executing process is alive and off the run list. Shutdown sets `run_qed` of a
  process that is not listed, so list membership implies the flag and not the converse.
* `KernLiveProcListed`, where no shutdown is requested (`Requests \subseteq {"USR1"}`;
  under a shutdown it is false, see above).
* `KernInterestWatched`, `KernEventsReachWaiter`, under `~ Lingers` (a process that closes
  its descriptor ends) and `SocketsApart` (the listener's sockets are on different
  descriptors), both for the reasons given above. The invariant (`KernWaitInvariant`) adds
  to the former who owns each descriptor, that the sockets of live processes share none,
  and that what a sleeper blocks on is registered for it from the end of its dispatch on.

**Event loop over epoll** (`EpollProofs`; `EpollAssumption` beside those of the loop): any
set of processes and finite set of descriptors, any VK_EV_MAX, both methods. It stands on
the invariants above: the steps that `Epoll` shares with `Kern` keep them as they are.
For that, `WaitInv(W)` takes what the poller watches by itself: nothing for poll(),
`Watches` for epoll.

* `EpollInvariant`: `Kern`'s invariant, and that epoll has registered only open
  descriptors that belong or belonged to a process, and lists registered ones once each.
  `EpollFreedNeverDispatched` follows: epoll may report a descriptor of a process that is
  gone, but that one is a zombie, and cleaned instead of becoming fresh.
* `EpollEdgeKept`, under `~ Lingers` and `SocketsApart`. Its invariant
  (`EpollEdgeInvariant`) says that what a sleeper waits for is dirty or watched, also on a
  descriptor that was added long ago and for the write side that is never registered
  (`EdgeInv`), and that what is watched and ready is listed or has roused the process
  (`QuietInv`). It holds at the return of a coroutine because it blocks only on what was
  not ready, at an arrival and at epoll_ctl because what is ready is listed, and at the
  return of `epoll_wait` because what leaves the list is told.
* `EpollEdgeNeverRefused`, under the same two conditions: what the loop registers with
  edges is open and not registered. The table learns of no close, so this needs the
  history: an allocated descriptor that was not added is not registered (`Unadded`),
  because its number was not registered when it was allocated (`Forgotten`); a process
  that ends has been dispatched again since its descriptor was first dirty, so that it was
  added (`Settled`); only the listener can end with a descriptor that never was, and that
  one is open (`Gone`).

**Memory** (`MemoryProofs`; `StackAssumption`, `MemoryAssumption`): any width of a size,
page, word, any number of slots and mappings.

* The two guards refuse exactly what overflows (`MultGuardExact`, `AddGuardExact`); a
  length rounded to pages holds the request and less than a page more, or fails
  (`AlignedLenCovers`); a push stays in its mapping and a pop undoes it (`PushInBounds`,
  `PopUndoesPush`). The argument is the law of the quotient (`DivLaw`, `DivBelow`); that
  the short way of the product guard is exact needs that `MUL_NO_OVERFLOW` is the root of
  SIZE_MAX + 1, which `StackAssumption` states.
* `OneOwnerHolds`, `NothingLostHolds`, `RecordsTrueHolds`, `ConfinedHolds`,
  `ReachableHolds`. The invariant gives, for each point of the loop and of the listener's
  turn, who owns each slot and heap and with which protection; a fault or trap may come at
  any of the points where a process runs.
* `StackSoundHolds`, under `RoomForLink`: a line never fills its buffer up to the link
  word. The buffers of `vk_echo.c` fill their pages and do not meet it for the longest
  lines, which the run leaves out as well.

Only model-checked: liveness (`WriterGoesOn`, `NewsIsDispatched`, `ReturnsToPoll`,
`ReadyIsServed`), which is out of the prover's reach, and the order of the two ends that
the run HttpCall refutes. Every safety property of the passing runs is a theorem, some
under the conditions given with them.

## Not modelled

Within modelled parts: hard I/O errors of sockets (the handler's -1), shutting down one
side of a descriptor, READABLE and WRITABLE waits, where readline cuts a line, a fault
inside a handler of the library, addresses near the end of the address space, the
syntax of headers and of RESP. Futures beyond the one message that starts a responder;
the kqueue and aio drivers; the Redis client, which only a test starts, and the fetch
client, which no program starts; `vk_client.c`, `vk_connection.c` and the socket options of `vk_server.c`, which
are straight-line set-up; I/O batching, which the loop does not call. Debug output and
dumps everywhere.

## Plan

1. Done: `Vectoring`/`ByteFifo`, `ProcLocal`, `Kern`; ring and loop invariants proved.
2. Done: `Stack`/`Memory` with faults and isolation, the services `Redis` and `Http11`
   over `ProcLocal`, the epoll driver; the sizes and the stack proved.
3. Done, proofs: the rings implement `ByteFifo`; the safety properties of `Vectoring`,
   `ProcLocal`, `Kern`, `Epoll`, `Memory`, `Redis` and `Http11`.
4. Next: futures; hard errors of sockets; the kqueue driver; I/O batching.
