# A verification of libael

libael is an asynchronous event loop library in C++14: an event loop per
thread, an `epoll` demultiplexer under it, functions and timers that run on the
loop, TCP listeners, and stream buffers with filters.  These modules model its
core in TLA+, check it with TLC on small instances, and prove the central
invariants with TLAPS for all instances.

Paths below are relative to the repository: `lib/...`, `include/...`.

## 1. Inventory

| Component | State | Operations | Used by, uses |
|---|---|---|---|
| `EPoll` (lib/epoll.cc) | `events_` (descriptor to Event), three pending vectors under `lock_`, an eventfd, epoll's ready list | Add, Remove, Ready, Wakeup from any thread; Process and Modify on the loop thread | EventLoop calls it; it calls `HandleEvents` |
| `EventLoop` (lib/event_loop.cc) | `events_` (id to Event), `internal_event_handlers_`, `stop_`, its thread | Attach, AttachInternal, Ready, Modify, Remove, RemoveInternal, Run, Stop | Event and handlers call it |
| `Event`, `EventHandler` (lib/event.cc) | `event_`, weak pointers back, `close_flag_`, the descriptor | CreateEvent/assign, Close (`call_once`), Ready, Modify, two destructors | everything |
| `ExecuteHandler` | a function, a weak instance | HandleEvents | loop |
| `TimerHandler` | a function, `canceled_`, `run_once_`, a timerfd | HandleEvents, Cancel | loop, any thread |
| table of loops | `table` under `table_lock` | Create, DestroyAll | the program |
| `StreamBuffer` (lib/stream_buffer.cc) | `pending_writes_` under a lock, `should_close_`, `eof_called_`, the filters | Write and Close from any thread; HandleEvents = connect, read, write, close, finalize | user handlers |
| `StreamBufferFilter` | `connected_`, `read_closed_`, `write_closed_`, `pending_out_`, `order_`, links | Write, Read, Close | StreamBuffer |
| TCP filter (lib/tcp_stream_buffer_filter.cc) | the socket, `pending_connect_` | In, Out, Connect, Accept, Shutdown | the filter base |
| `StreamListener` (lib/stream_listener.cc) | a listening socket | HandleEvents: accept, at most 50 times | loop |
| `Handle` (lib/handle.cc) | a descriptor | CreateStreamHandle, CreateTimerHandle, CreateStreamListenerHandle, Close | all |
| `DataView` (lib/data_view.cc) | a pointer, a length, who owns the bytes | Slice, Save | streams |
| Config, log | constants, a sink | none that matters to behaviour | all |

How they interact.  A user thread attaches a handler: the loop makes an Event,
files it in its table, and posts it to the `add` vector of the demultiplexer.
The loop thread, blocked in `epoll_wait`, is woken through the eventfd, swaps
the three vectors out one after the other, and finalizes their elements: added
Events are registered, removed ones are unregistered, notified ones have their
`HandleEvents` called.  Handlers call the library back from `HandleEvents`,
and other threads call it at any time.  Nothing but the vectors, `lock_`, two
atomics, `call_once` and the reference counts synchronises them.

What is hard, and what should be true:

* *EPoll*: the eventfd is written only for the first element of a vector and is
  emptied before the swaps.  No element may be left behind with nothing to
  announce it; a callback may run only for the owner of the descriptor.
* *EventLoop, Event*: four parties close an Event (callback, Cancel,
  destructor, shutdown); numbers of descriptors are reused while reports for
  them are pending; adds and removes are finalized by vector and not in the
  order of the calls.  No exception may leave the loop thread, nothing that was
  posted may be lost, a dropped handler must give its descriptor back, functions
  run once and in order, and Stop must end the thread.
* *StreamBuffer*: Write and Close race with every step of HandleEvents and with
  the socket.  Bytes are sent in order, once, and before HandleEOF; the handler
  hears HandleConnected, data, HandleEOF in this order; a close completes.
* *Filters*: one is added in each HandleConnected and connected after it; they
  shut down one after the other, each over the ones below it, in as many passes
  as the peer makes necessary.  Nothing may go past a filter, or be left in one.
* *Timers*: Cancel races with HandleEvents, and expirations stack up while other
  handlers have the thread.  Cancel must mean something, no expiration may be
  left unread, and a timer that runs once must go away.
* *Listener*: it stops early on an edge-triggered descriptor, so that timers
  get their turn, and must come back.
* *Table of loops*: DestroyAll races with Create and with itself, on loop
  threads too.  A loop must outlive its thread, and threads must not wait for
  each other in a circle.

`PROJECT.json` lists each of these hazards at its line, also those that no
property would notice, with the reason.

## 2. Modules

| Module | What it is |
|---|---|
| `EPoll` | the demultiplexer, and its most general client (`EPollSpec`) |
| `MCEPoll` | its instance for TLC |
| `EPollProofs` | its type invariant and its wakeup and ownership invariants |
| `EventLife` | what a loop promises to a handler, abstractly |
| `EventLoop` | the loop, Events, handlers, threads; EXTENDS `EPoll`, implements `EPollSpec` and `EventLife` |
| `MCEventLoop` | its instances |
| `EventLoopProofs` | its type invariant, the refinement of `EPollSpec`, and what follows from it |
| `RegistrationProofs` | where an Event may be at each stage of its life; which exception can leave the loop; that no report reaches a wrong handler |
| `EventLifeProofs` | the order of functions, and the refinement of `EventLife` |
| `StreamBuffer` | one stream with its TCP filter, its socket and its user threads |
| `MCStreamBuffer` | its instances |
| `StreamBufferProofs` | its types, the order of what it sends, and the refinement of `StreamPromise` |
| `StreamPromise` | what a stream promises its user, abstractly; `StreamBuffer` and `FilterChain` implement it |
| `FilterChain` | one stream with several filters and its peer |
| `MCFilterChain` | its instance |
| `FilterChainProofs` | its invariants and the refinement of `StreamPromise`, for any number of filters |
| `EventMask` | class Events and its conversions to and from epoll's masks |
| `TimerHandler` | a timer: its timerfd, HandleEvents and Cancel |
| `StreamListener` | a listener: its accept queue and HandleEvents |
| `LoopThread` | a timer and a listener on one loop thread; EXTENDS both |
| `MCLoopThread` | its instance |
| `LoopThreadProofs` | its invariants |
| `LoopTable` | the table of loops: Create, DestroyAll, Stop |
| `MCLoopTable` | its instance |
| `LoopTableProofs` | its invariants, no circular wait among them |

### EPoll

`pending` holds the three vectors, `efd` whether the eventfd's counter is
positive, `ready` the edges epoll has not reported, `events` the map
`EPoll::events_` together with epoll's interest list.  `stage`, `batch`,
`turn`, `work`, `pos` and `cur` are the program counter of `Process()`: which
entries of the array are left, which vector is being handled, the swapped-out
vector, the next element, and whose `HandleEvents` is running.  One action is
one critical section or one system call: `AddElement` (with the Wakeup inside
the lock), `EpollWait`, `Drain`, `Swap`, the three finalizers, `TakeFd`.  A
`throw` of the code sets `fault`, after which nothing happens any more: no
caller catches, so `std::terminate` follows.  A system call fails only where
the state of the model makes it fail (adding twice, modifying what is not
registered); resource exhaustion is left out.  `alive` is the outcome of
locking the weak pointer to the handler.

The entries of `batch` are taken in any order; the array's order is the
kernel's and the code does not depend on it.  A batch entry carries, as a
history, the Event that owned the descriptor when it was reported.
An Event and its handler have one id (lib/event.cc:19), hence one element of
`Handlers`.

### EventLoop

`obj` is the life of the handler object, `evt` that of `event_`, `once` the
`once_flag`, `table` and `internal` the two containers, `frame` the library
call in which each thread is.  A call is cut at each release of `lock_`:
Attach is `Attach`, `CreateEvent`, `AssignEvent`, `Add`; Close is `CloseOnce`
and `PostRemove`, with later closers waiting for `call_once`.  Reference counts
are not counted but derived: `EventHeld` lists the places that keep an Event
(table, the copy in Run, vectors, the swapped vector, `events_`, a frame, a
live handler), and `Open` says whether its descriptor is open.  `FdFree`
is the kernel's rule that a number is given out again only after its close.
Streams have any behaviour the library's API allows; an ExecuteHandler has its
own code (`TaskClose`, `EndTask`).  The global table is reduced to one Stop.

Two assumptions on the program that uses the library are built in: it calls
Attach once per handler, and one thread at a time (the check at
lib/event_loop.cc:144 is not synchronised); and it does not destroy an object
while its own call on that object runs (`InUse`).  That a timer is not cancelled
before `Add` has posted it is no assumption: the Cancellable is handed out by the
return of ExecuteOnceIn and its like (include/event_loop.h:47-65), so that
`Cancel` waits for `~Attaching`.  Several threads may cancel it at once.

### StreamBuffer

Data is counted in numbered chunks; a DataView is a sequence of chunks; the
send buffer has room for `SndRoom` of them, so that a `send()` may take all of
a DataView, a part, or nothing.  `HandleEvents` is cut at every system call,
lock and callback (`pc`), and every user thread may take a step of Write or
Close in between, a callback of the handler among them.  Of the loop only what
`EventLoop` shows is kept: registration comes some time after Attach, `edge` is
what epoll has to report, `notes` are queued ReadyEvents, and a notification for
an unregistered Event is dropped.  The socket moves by itself: established,
refused, reset, data, end of data, room.  `"unreachable"` is a `connect()` that
failed at once, which `CreateStreamHandle` only logs (lib/handle.cc:167).
Logging is off (with a trace sink, lib/tcp_stream_buffer_filter.cc:112 would
dereference a null pointer at every partial write).

### EventLife

A handler is new, attached, closing, closed; HandleEvents runs for one handler
at a time, only between Attach and the end of Close, and once for a function.
`EventLoop!lifeOf` maps the loop to it.

### StreamPromise

The handler hears HandleConnected at most once per filter and before any data,
data only when connected, and HandleEOF once, after everything; HandleEOF comes
only when the end was asked for (`shouldClose`, by Close or by the peer) and
what was queued until then has been sent, unless the connection failed.  The
refinement mappings are the identity, but for the number of filters,
`shouldClose`, and, in `StreamBuffer`, the length of `sent`.

### FilterChain

`chain` is `stream_filters_`, each filter with its flags and the number of
chunks in its `pending_out_`.  `goal` is how many filters the handler wants: it
adds the next one in HandleConnected.  The repository has no filter above TCP,
so those are external: they follow the dummy filter of tests/tcp_test.cc, with
a greeting of the peer that Connect (or Accept) waits for, which makes the
`Pending` and `Failed` results of include/stream_buffer.h happen.  Two things
differ from the dummy on purpose.  Where it throws "unclean shutdown" the model
takes the `ShutdownResult(true)` that follows; and Shutdown takes all that In()
has, not one portion.  With one portion a close may never complete: the chunk
and the end of the stream may have come with the edge that is already consumed.
So a filter must read until it gets nothing, a rule that include/stream_buffer.h
does not state.

Here a whole `Write`, one In() and one pass of a filter's Close are a step each:
the finer interleavings with user threads, the socket's connect and the loss of
the handler are `StreamBuffer`'s subject.  `PeerBye` lets the peer's filters,
which run the same code, close from the top down, and reply.

### TimerHandler, StreamListener, LoopThread

`ticks` is the counter of the timerfd, `timerAt` the place in `HandleEvents`,
`frame` where each canceller stands between `canceled_ = true` and
`CloseEvent()`.  Steps end at each system call, each look at shared state and
each call of the function, so that Cancel may come in anywhere.  `interval` and
`execute_in` are numbers of nanoseconds, of which only `ToTimeSpec` and the test
for zero matter.

`queue` is the accept queue; one connection is `watched`, with `ahead` in front
of it, which is enough to ask whether every connection is served, since the
watched one is any.  `accept4()` may give a connection, fail for this one only,
say EAGAIN, or throw (EMFILE and the like, with the descriptors held by
anybody).

`LoopThread` is one loop thread with these two handlers.  Of the demultiplexer
it keeps edges, the batch and the posted elements (`EPollProofs` shows that what
is posted is announced and that HandleEvents runs only while registered), and it
carries masks: a report is what `EventMask` lets through of EPOLLIN.

### LoopTable

Create, DestroyAll and Stop are cut where they take `table_lock`, start a
thread, assign `thread_` or wait.  Any thread may call them, a loop thread in a
callback.  `taken` is a thread's `table_swap`, `left` what it has not iterated
over.  `run` is reduced to: in Process, in a callback, ended.  `fault` is what
`join()` does to the process: undefined through a null `thread_`, an exception
for the thread itself or a joined one.

## 3. Runs

| Run | Instance | What it shows |
|---|---|---|
| `epoll` | 2 Events on one descriptor, 1 without, at most 2 elements posted, MAX_EVENTS 1 | `TypeOK`, `WakeupInv`, `NoLostWakeup`, `CalledWhileRegistered` under any client |
| `loop_streams` | 2 streams on one number, 2 threads and Stop | `OnlyAttachRaceThrows`, `NoStaleDelivery`, refinement of `EPollSpec` |
| `loop_tasks` | 2 functions, 1 timer, 1 thread and the loop thread | `TasksInOrder`, `OnlyAttachRaceThrows`, refinement of `EventLife` |
| `loop_live` | 1 stream, 1 function, 1 thread, MAX_EVENTS 1, fair | `AttachCompletes`, `NotificationArrives`, `DescriptorsReturned`, `StopEnds` |
| `loop_race` | 1 timer, 1 function, 1 thread | **violated**: `RemoveFindsEvent` |
| `stream_safety` | 2 threads, 2 writes of 2 chunks, room for 1, 1 chunk to read, all outcomes of connect | `SentInOrder`, refinement of `StreamPromise` |
| `stream_live` | the same with 1 thread, fair | `CloseCompletes` |
| `stream_stuck` | 1 write of 2 chunks, connected, fair | **violated**: `WritesArrive` |
| `stream_connect` | 1 write, connecting or unreachable | **violated**: `ConnectedIsEstablished` |
| `filters` | 1 to 3 filters, 3 chunks written, room for 2, 2 chunks to read, fair | `NothingBypasses`, `ClosedFromTheTop`, refinement of `StreamPromise`, `ChainConnects`, `ChainCloses` |
| `handlers` | 1 canceller, once and interval, limit of 2 calls, 3 stacked expirations, 2 accepts per run, accept queue of 3, fair | `OverrunBounded`, `OnceCloses`, `QueueAnnounced`, `TicksAnnounced`, `ConnectionsAccepted`, `TimerServed` |
| `loops` | 2 loops, 2 other threads, 2 DestroyAlls, fair | `LoopOutlivesRun`, `NoCircularJoin`, `FaultsExplained`, `DestroyAllReturns` |

Bounds and why they are enough.  Two Events on one number are the least that
shows reuse; a third on the same number would go through the same states as the
first.  Two elements in the vectors allow every pair of posts (add and remove
of one Event, remove of the old and add of the new owner, ready and remove) in
every position relative to the drain and the swaps.  MAX_EVENTS of 1 makes the
cap bite at once; with 2 it never does on these instances.  In the stream two
writes of two chunks with room for one produce EAGAIN, partial sends, a rest in
front of a new DataView, and a write that arrives while an earlier one is being
sent.  Three filters are the least with one in the middle, which both sends and passes
on; a third expiration exceeds the limit of two; an accept queue of three, with
two accepts per run, needs a second run without a new edge; two loops and two
DestroyAlls are the least in which loop threads can wait for each other.
`MaxReady`, `MaxWrites`, `MaxRcv`, `MaxPending`, `MaxFilters`, `MaxTicks`,
`MaxNotes`, `Backlog` and `MaxDestroys` are the only counters' bounds, each in a
guard; `MaxNotes` makes arrivals pause while that many ReadyEvents of the
listener are queued (the code has no such bound, and each edge during a long
burst adds one).  The theorems hold for all values of the bounds.  Symmetry is used in `stream_safety` alone, for the two user threads,
which run the same code and occur in no temporal formula there.

Deadlock is not checked: after Stop, or when an exception has ended the
process, and when a stream is closed, nothing is left to do.

### Fairness

`LoopFairness`: threads are scheduled (weak fairness of the loop thread's steps
and of each thread's call in progress; no thread is obliged to start a call);
callbacks return (`EndCallback`, `TaskClose`: strong, because a callback may
make any number of library calls before it returns); and the eventfd is
reported although at most MAX_EVENTS entries are returned (`ReportPending`:
strong, because epoll takes its ready list from the front and appends at the
end).  Waiting for `call_once` and for `lock_` is within these.
`FairStreamSpec`: the loop thread makes progress with what it has, user threads
finish the Write or Close they are in, a connection attempt is decided (TCP's
own timeout), and the peer reads what was sent.  The peer is not obliged to
send, to finish or to reset, and nobody is obliged to call anything.
`FairChainSpec` adds that the peer's filters greet, and answer a farewell: a
peer that does neither and keeps the connection holds a stream open for good.
`FairThreadSpec`: the loop thread makes progress, the timerfd expires, and a
Cancel goes on; the thread as a whole is fair, not each of its handlers, so that
`TimerServed` and `ConnectionsAccepted` rest on the limit and the ReadyEvent of
the listener and on nothing else.
`FairTableSpec`: threads are scheduled, callbacks return, and a loop looks at
`stop_` although callbacks keep coming (strong fairness: `Run` tests it after
every batch).

### What the violated runs say

1. `RemoveFindsEvent`: `Process()` takes `lock_` for each vector on its own.  A
   timer that is created and cancelled (or a handler that is attached and
   dropped) between the first and the second swap is removed in this pass and
   added in the next: `throw "event not found"` (lib/epoll.cc:260) ends the
   process.  In the trace a function runs between the two swaps: its close keeps
   the loop thread there while the user thread starts the timer and cancels it.
   `OnlyAttachRaceThrows` shows that this, with its shutdown variant
   (Run closing an Event whose Attach has not posted yet), is the only exception
   that can leave the loop.
2. `WritesArrive`: `DoWrite` calls the filter only when something new was
   written, so the rest of a partial `send()` waits for the next Write or Close
   although epoll reported EPOLLOUT.
3. `ConnectedIsEstablished`: SO_ERROR is 0 while connecting, and after a
   `connect()` that failed at once; HandleConnected is called either way.

## 4. Proofs

`EPollProofs` proves, from `EPollAssumption` alone (which says what kind of
thing each constant is), `[]TypeOK`, `[]WakeupInv` and so `[]NoLostWakeup`, and
`[]CalledWhileRegistered`.

*NoLostWakeup* is not inductive: it says nothing until the thread is about to
block.  `WakeupInv` is.  `Covered`: a vector that is not empty has a positive
counter, or its swap is still to come in this pass.  `Announced`: a positive
counter has an edge that is still to be reported, or reported and not looked at,
or is about to be drained.  `BatchShape`: outside the handling of a batch there
is none, and the eventfd is in a batch at most once.  At `stage = "wait"` the
second halves of the disjunctions are impossible, which leaves the goal.
*CalledWhileRegistered* needs `FiledByHandle`: an Event is filed under its own
descriptor.

`EventLoopProofs` proves `[]LoopTypeOK`, and that every step of the loop is a
step of `EPollNext` or leaves the demultiplexer unchanged
(`CallsImplementEPoll`, `RunImplementsEPoll`), hence `LoopSpec => EPollSpec`.
The theorems of `EPollProofs` therefore hold of the whole loop
(`LoopNoLostWakeup`, `LoopCalledWhileRegistered`) without being proved again.

`RegistrationProofs` proves `[]RegInv`, `[]OnlyAttachRaceThrows` and
`[]NoStaleDelivery`, for any numbers of handlers, descriptors and threads.
*OnlyAttachRaceThrows* says which of the throws of the code are out of reach, and
each needs to know where else an Event may be.  `RegInv` says that, in six
parts: `FrameInv`, what the place of a call says about its handler, and that one
thread attaches it and one is past `call_once`; `PlaceInv`, that callbacks and
their calls are inside Process(); `TableInv`, that the table holds what is made
and not closed; `PostInv`, that an Event is at most once in each of the first
two vectors (what is left of the swapped one included), and from its creation to
its removal either registered or ahead of it; `OwnerInv`, that an open
descriptor has one owner; `TaskInv`, that the loop keeps a function until it has
run.  None is inductive alone: that no descriptor is added twice (`OwnerInv`) rests
on `EventHeld`, hence on the vectors (`PostInv`); these on who can post
(`FrameInv`) and who can close (`TableInv`).  `adds` and `removes` join the rest
of a swapped vector and the new one, so that `Swap` changes neither
(`QuietEffect`), a post appends (`PostEffect`) and a finalizer takes the first
(`ElementEffect`); all later proofs speak of these two alone.
*NoStaleDelivery* needs `BatchInv`: a report that is still to be looked at is of
the registered Event, or its Event was removed in this pass, and then the adds of
the pass are over (`PastAdds`) and no new owner comes before the batch is done.

`EventLifeProofs` first says what each kind of step does to a handler
(`SameStep`, `AttachStep`, `MakeStep`, `AddStep`, `CloseStep`, `RemoveStep`,
`CallbackStep`, `ReturnStep`, `TakeOutStep`); the rest works from these.
*TasksInOrder* needs `OrderInv`: what was posted and has not run is in `adds`, in
the order of the posts, and posted once.  The *refinement of EventLife* needs
this (a function is served once), `RegInv`, and `LeaveInv`, about how a function
ends: its Event is closed after it left the first vector or by Run(), and once
the close was carried out it is not running and nothing will start it.  Without
the second half, the end of a callback could be the step that completes a close,
which would be two steps of `EventLife` in one.  `LifeStep` then maps `CreateEvent` to
Attach, a callback's start to Serve, the first `CloseOnce` to Close, the last
removal to Forget, a callback's end to Return, and shows that everything else is
a stutter.

`StreamBufferProofs` proves `[]StreamTypeOK`, `[]SentInOrder` and the refinement of
`StreamPromise`, for any number of threads and views and any room.  *SentInOrder*
looks at what has left the program, and so is not inductive; `StreamInv` is.  `CountInv`: the chunks that
were sent, those in `pendingOut` and those in `pendingWrites`, one after the
other, count 1, 2, 3, ... up to what was queued (a `send()` that failed leaves a
hole, and closes the stream for writing).  `RoomInv`: the send buffer is not
overrun.  `FlagInv`: the flags agree with the place in HandleEvents and with the
calls the handler has had.  `CloseInv`: from the moment DoClose has moved the
queue into the filter, all that was promised is in it, and the filter is closed
for writing only when it has been sent; this is what keeps HandleEOF back.

`FilterChainProofs` proves `[]ChainTypeOK`, `[]NothingBypasses`,
`[]ClosedFromTheTop` and the refinement of `StreamPromise`, for any number of
filters, chunks and any room.  `ChainInv` adds to the first three: `ConnectInv`, how far the filters are
connected at each place, and that there is no data before they all are or the end
was asked for; `OpenInv`, that a filter is only added to filters nobody has
closed (*ClosedFromTheTop* would be violated by a fresh filter on top of a
closed one); `CloseInv`, that DoClose at filter `at` has closed all above it; and
`CountInv`, that every chunk is sent, in the last filter or in the list, unless
the connection was lost.

`LoopTableProofs` proves `[]TableTypeOK`, `[]LoopOutlivesRun`,
`[]FaultsExplained` and `[]NoCircularJoin` for any number of threads and loops.
*NoCircularJoin* says nothing about the order in which
DestroyAll calls take loops, which is what keeps two loops from joining each
other: a DestroyAll in a callback takes only loops that are still in the table,
its own loop is one of them unless another call took it before, and that call
took everything it ever waits for by then.  The invariant records this:
`OnePlace` (a loop is in the table or in the hands of one call), `CreateShape`,
`CallsInCallbacks`, `TakenInOrder` and `JoinedInTurn`.  Given a set of loops that
all wait for one another, the one whose call took its loops last waits for none
of the others (`LastTakes`).

`LoopThreadProofs` proves five of the invariants of run `handlers` for any
number of cancelling threads, any durations and any limits.  *OverrunBounded*
needs `OverrunInv`: a HandleEvents that runs after Cancel has looked at
`canceled_` before, so there is at most one, and it is within
`interval_occurrences_limit_`.  *OnceCloses* needs `OnceInv`: the Event of a
timer that runs once is closed before any later report of it is looked at.
*QueueAnnounced* and *TicksAnnounced* are inductive with the types.

Every theorem rests on the named assumptions of the modules' constants and on
nothing else.  Every invariant, and every refinement, that a passing run checks
is also a theorem.  Only model-checked is liveness: `AttachCompletes`,
`NotificationArrives`, `DescriptorsReturned`, `StopEnds`, `CloseCompletes`,
`ChainConnects`, `ChainCloses`, `ConnectionsAccepted`, `TimerServed` and
`DestroyAllReturns` rest on fairness, which is defined with ENABLED, and that is
out of the prover's reach.  The three properties that the code violates have no
proof, of course.

## 5. Not modelled

- *Addresses and socket options*: conversions and calls without state of their
  own.  Failures of `socket`, `bind`, `listen` and `timerfd_settime` are plain
  error paths that throw to the caller, at worst after a descriptor was created
  that nobody closes (lib/handle.cc:57, 125-131).
- *Memory exhaustion and signals*: `new` does not fail, and no signal is
  delivered; a signal would make `epoll_wait` return EINTR, which throws
  (lib/epoll.cc:138).
- *DataView*: the bytes.  A view is a message number and how much of it is left;
  ownership and copies are `shared_ptr`s with no decision in them.
- *The application*: what `NewConnectionHandler` does with a connection.  An
  accepted descriptor whose handler is gone by then is not closed
  (lib/stream_listener.cc:86).
- *Growth of `internal_event_handlers_`*: a TimerHandler stays in it for as long
  as its loop lives (lib/event_loop.cc:159).  This is memory, not behaviour: the
  Event is closed and nothing is called.
- *A stream that reads forever*: `DoRead` reads until EAGAIN
  (lib/stream_buffer.cc:331); include/stream_buffer.h:173 names it as a TODO.
- *Config, log, tests, samples*.

## 6. Plan

Done: everything above.  What is left is liveness by hand: the safety halves of
the arguments (for `AttachCompletes` that the position of an Event in its vector
only decreases, for `DestroyAllReturns` the order in which joins end) could be
stated as action properties and proved; and the parts of section 5 that are more
than input and output, `DataView`'s ownership first.
