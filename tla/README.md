# A TLA+ model of outpost-core

outpost-core is a C++ library for the flight software of satellites: an
operating system abstraction, buffers and queues that work without dynamic
memory, a software bus, the RMAP protocol over SpaceWire, parameters, time,
compression and utilities. This directory holds TLA+ models of its concurrent
core and services, the TLC configurations that check them on small instances,
and TLAPS proofs of the most important properties for every instance.
`PROJECT.json` relates every definition to the lines it models and every hazard
of the code to the properties that cover it.

## 1. Inventory

Paths are below `src/modules`.

| component | state | operations | what is hard | what makes it correct |
|---|---|---|---|---|
| `utils` SharedBuffer, its pointers, SharedBufferPool | one reference counter per buffer, the pointers, `mLastIndex` | copy, assign, destroy, `getChild()`, `allocate()` | each counter step is a critical section of its own; `allocate()` tests and takes in two steps; a child counts twice | counters are exact; a buffer has one allocator; nothing leaks; allocation fails only when it must |
| `utils` ReferenceQueue | slots, marks, counter, queue of indices | `send()`, `receive()` | `receive()` takes the index before the lock; unsigned arithmetic in the search | bounded FIFO; a free slot is found |
| `utils` Deque | ring buffer, head, tail, size | append, prepend, append of a slice, remove, clear | wrap around, split slices, full buffer | bounded sequence; the ends lie in the buffer |
| `swb` BusChannel | Deque, semaphore, counters | `sendMessage()`, `receiveMessage()` | semaphore before mutex, several receivers, timeouts | permits match messages; fetched cells keep no buffer |
| `swb` SoftwareBus, BusDistributor, BusHandlerThread | bus queue, list of channels, default channel, counters | `sendMessage()` with and without copy, `registerChannel()`, `setDefaultChannel()`, the handler loop | publishers, handler and receivers interleave; channels are added while the list is read; full channels, full queue, empty pool | calls are accounted for; order per channel; no message for both a channel and the default; buffers return |
| `comm` RMAP initiator | transaction objects, last transaction id, send buffer, error counters | `read()`, `write()`, the reply thread | timeout against reply, late and lost replies, id reuse, an unprotected send buffer | ids are unique; transactions are neither shared nor lost; a reply answers its own call, unless callers have mixed their packets; every call returns |
| `hal` ProtocolDispatcher | listeners, counters | `addQueue()`, `handlePackage()` | partial insertion into several queues, pool and queue limits | every package is delivered or counted |
| `hal` SpaceWireMultiProtocolHandler, TimeCodeDispatcher | SpaceWire buffers, listeners | `send()`, `receive()`, `dispatchTimeCode()` | error paths that keep a transmit buffer; a list read in an interrupt | buffers return to the driver |
| `rtos` ports (POSIX, FreeRTOS, RTEMS, none) | queue, semaphores, timers, periodic tasks | `send()`, `receive()`, `acquire()`, `release()`, `nextPeriod()` | condition variables, timeouts, tick conversion | FIFO, no lost wakeup, timeouts as requested |
| `rtos` Checkpoint | state, binary semaphore | `suspend()`, `resume()`, `pass()` | waits outside of the mutex, waits inside of it | a suspended thread does nothing; commands return; a resumed thread runs |
| `smpc` topics and subscriptions | linked lists | `publish()`, connect, release | lists change while they are walked | no subscriber is called twice for a publication; the lists are complete after a rebuild |
| `support` heartbeat | time of the last heartbeat | `send()` | rate limit against a changing timeout | the watchdog is fed in time |
| `sip` coordinator, worker, transports | response queue, packet buffer | `sendRequest()`, receiver thread | late responses, workers that answer independently, a buffer shared by two threads | the responses of a worker are taken in order and once; a success is a response of the worker addressed; every request returns |
| `parameter` parameters and store | two elements and a flag per parameter; sorted array of parameters | `getValue()`, `setValue()`; `initialize()`, `getParameter()` | lock-free reads against writes; failing half way | a read returns what one write stored; lookup finds exactly the registered ids |
| `compression` | aggregated blocks, queues | `push()`, processing thread, sender | retries, full queues, reconfiguration | no block is lost uncounted |
| `utils` HDLC coding | none; the caller keeps what is left of its input | `encode()`, `decode()` | frames arrive in pieces, after noise and aborts; one boundary ends a frame and starts the next; decoding in place | packets arrive whole, in order and once |
| `time`, `base`, other coding and storage of `utils` | none | arithmetic, encoding | limits of the number ranges | conversions are inverse |
| `l3test` | none | Lua test tool | - | - |

The components interact as follows. A publisher copies its data into a buffer of
a SharedBufferPool and puts a message with a pointer to it into the
ReferenceQueue of the bus. The handler thread takes it from there and offers it
to each BusChannel; a channel that accepts it holds one more pointer in its
Deque. A receiver copies the message out, and the cell is cleared. The buffer is
free again when the last pointer is gone. The RMAP initiator sends its commands
over SpaceWire and gets the replies through a channel of such a bus.

Further: packages and SpaceWire packets are copied into buffers of a pool and
handed to listeners by the dispatchers of `hal`; the SpaceWire handler is a bus
whose messages are packets. The compression pipeline is an aggregator, a
ReferenceQueue, a processing thread that a Checkpoint starts and stops, and
another ReferenceQueue, over one pool. The heartbeat limiter stands between a
thread and the watchdog topic.

## 2. Modules

| module | models | remarks |
|---|---|---|
| `SharedBufferPool` | `utils/container/shared_buffer.*`, `shared_object_pool.h` | a pointer operation is the script of its counter steps; every step interleaves with other threads |
| `SharedBufferSearch` | - | the pool with the history of its searches: which buffers have been free since `allocate()` took the lock |
| `ReferenceQueue` | `container/reference_queue.h` | one step for `send()` (it holds the mutex), two for `receive()` |
| `ReferenceQueueOrder` | - | the queue with a history: whether its receivers have emptied the slots in the order in which they were filled |
| `BoundedFifo` | abstract | what a ReferenceQueue and the POSIX queue promise |
| `Deque` | `container/deque*.h` | size and append strategy are chosen in the initial state |
| `SequenceDeque` | abstract | what a Deque promises; its `call` records the last operation and its argument, so the refinement compares what was asked as well as the contents |
| `BusChannel` | `swb/bus_channel*.h` | the channel actions are used again by `SoftwareBus` |
| `SoftwareBus` | `swb/software_bus*`, `bus_distributor*`, `bus_handler_thread*` | extends `BusChannel`; the queue is the FIFO that `ReferenceQueue` implements, a buffer is free when nothing refers to it, as `SharedBufferPool` shows |
| `RmapInitiator` | `comm/rmap/rmap_initiator.*`, `rmap_transaction.*`, parts of `rmap_packet.cpp` | link and targets are the environment: they lose, delay and reorder packets; what callers make of each other's bytes in the send buffer is part of the model |
| `SipLink` | `sip` coordinator, its receiver thread, serial transport, packet reader, worker answers | a packet on the line is four symbols: boundary, two halves, boundary; two halves of different packets fail the CRC; the workers answer independently of each other, also with symbols of several workers inside of one frame |
| `PosixQueue` | `rtos/arch/posix` `queue_impl.h` | waits on the condition variable as states; implements `BoundedFifo` |
| `BinarySemaphore` | `rtos/arch/posix/semaphore.cpp` | used by itself and, extended, by `Checkpoint` |
| `PeriodicTaskManager` | the POSIX and the FreeRTOS `periodic_task_manager.cpp`, `internal/time.*` | the port is chosen in the initial state; seconds and nanoseconds with carry, ticks modulo `TickRange`; FreeRTOS cuts a period to whole milliseconds and ticks (`nextPeriodTicks`) |
| `Checkpoint` | `rtos/checkpoint.*` | extends `BinarySemaphore`: `suspend()` and `pass()` really wait on it |
| `DataAggregator` | `compression/data_aggregator.*`, `data_block.cpp` | samples are counted, not stored |
| `DataProcessorThread` | `compression/data_processor_thread.*` | extends `DataAggregator` and `Checkpoint`: the whole pipeline over one pool |
| `ProtocolDispatcher` | `hal/protocol_dispatcher*` | `handlePackage()` holds the mutex and is one step per listener, because the readers of the queues go on meanwhile and may make room for the next listener |
| `SpaceWireHandler` | `hal/space_wire_multi_protocol_handler*` | `send()` in three steps, as it waits for the driver and reads the clock in between |
| `TimeCodeDispatcher` | `hal/timecode_dispatcher.h` | single stores, an interrupt between any two |
| `HeartbeatLimiter` | `support/heartbeat_limiter.*` | with the watchdog it is meant for |
| `Topics` | `smpc/topic.*`, `subscription.*`, `utils/container/implicit_list.h` | the rebuilding of the lists as single stores |
| `Parameter` | `parameter/parameter_impl.h` | single reads and writes of data, time and flag; the compiler may merge the two reads of the plain flag (`SecondRead`) |
| `ParameterStore` | `parameter/parameter_store.cpp`, search and sort of `parameter.cpp` | the binary search is a recursive function over its two ends |
| `HdlcStuffing` | `utils/coding/hdlc.*` | the loops of `encode()` and `decode()` byte by byte, over a line whose bytes arrive at any time; the output of `decode()` may be its input |
| `MC*` | - | instances; `part` selects in the initial state which of the components of a run a behaviour is about, as they share no state |
| `SharedBufferPool_proofs`, `BusChannel_proofs`, `SoftwareBus_proofs` | - | theorems about the module of that name, the first about `SharedBufferSearch` as well |
| `Queues_proofs` | - | theorems about `ReferenceQueue`, `ReferenceQueueOrder`, `Deque` and `HdlcStuffing` |
| `Comm_proofs` | - | theorems about `RmapInitiator` and `SipLink` |
| `Services_proofs` | - | theorems about `PosixQueue`, `HeartbeatLimiter`, `Parameter`, `PeriodicTaskManager`, `Topics` and `ParameterStore` |
| `Pipeline_proofs` | - | theorems about `BinarySemaphore`, `Checkpoint`, `DataAggregator` and `DataProcessorThread` |
| `Hal_proofs` | - | theorems about `SpaceWireHandler`, `TimeCodeDispatcher` and `ProtocolDispatcher` |

Definitions with a suffix such as `Vacate_KeepsMark` are deliberately wrong
variants of the definition that follows them. No specification uses them; they
serve to show that each property is able to fail.

How the code becomes actions:

* A function that runs under one mutex from its first to its last access of the
  shared state is one action (`ReferenceQueue!Send`, `BusChannel!Accept`,
  `RmapInitiator!Teardown`). Where it also uses what others change without that
  mutex it is a sequence of actions during which the mutex is taken
  (`ProtocolDispatcher`: `handlePackage`, `dispatch`, `packageEnd`). Where the code
  reads or waits outside of the lock there is one action on each side
  (`ReceiveIndex` and `ReceiveData`, `Acquire` and `Fetch`, `Construct` and
  `Send`, `passCheck` and `passAcquire`). Code without a lock is split into its
  single stores (`Parameter`, `TimeCodeDispatcher`, `Topics`).
* `SharedBufferPool`: pointers are not protected by locks; `MayUse` states the
  rule of the library's users that a pointer is changed by one thread and not
  read meanwhile. Children are two handles, `mPtr` and `mParent`.
* `SoftwareBus`: `position` is the iterator of the handler thread, 0 its end. It
  reads the list of channels without the mutex, as the code does; a channel that
  is registered meanwhile is reached unless the iterator has left the last node.
  A message gets its number when the queue accepts it.
* `RmapInitiator`: packets carry the number of their call, which stands for
  address and data, their instruction and their transaction id. All callers
  write into `mSendBuffer` without a lock. The model keeps for each caller inside
  of `sendPacket()` the commands whose bytes its packet may hold by now, its own and
  those of callers that were there at the same time. What it sends is one of these
  commands or a mixture of them: instruction, address and data, and each of the two
  bytes of the id (`Joined`) may come from another command. The CRCs do not
  exclude mixtures: that of the header is calculated over the shared buffer
  (`rmap_packet.cpp:362-365`), that of the data apart (`:135`, `:156-157`). A
  mixture may as well be rejected by its target. A `write()` whose packet does not
  fit has put its header into the buffer before it fails. Increments of the error
  counters are taken as atomic although the code does not lock them.
* `SipLink`: `serialBuffer` is the one buffer that `transmit()` and `receive()`
  share; the two threads store into it as they come. Each worker has requests
  (`atWorker`) and symbols on the line (`line`) of its own and answers at its own
  pace, as `Worker` does; the receiver takes the next symbol of any of them.
* `PeriodicTaskManager`: the POSIX port converts a `Duration` exactly, from
  microseconds to nanoseconds. The FreeRTOS port divides by the microseconds of a
  millisecond and then by those of a tick, and takes whole seconds only for long
  periods: 15 ms are 10 ms at 100 Hz. Periods of less than a tick are left out, as
  `vTaskDelayUntil()` asserts that there is one.
* `SpaceWireHandler`: `receive()` is one step, as only the handler's thread works on
  the two buffers. The copy is never longer than the buffer of the pool; were it
  to fail, both buffers would be given back, as they are when no message comes
  out of the packet.
* Condition variables: a waiting thread is `"waiting"` until it is signalled or
  wakes without a signal, and `"woken"` until it has the mutex again. The clock
  stands still while a woken thread could run, so that waits are measured
  without the delay of the scheduler.
* `removeFront()` and the other removals have the documented precondition that
  the container is not empty. The branch of `receiveMessage()` that returns
  `invalidState` has no action, because `NoInvalidState` shows it unreachable.
* `HdlcStuffing`: the caller of `decode()` cuts off as many bytes as it returns, as
  the tests do, and has the result in place only when a frame is complete: what
  `decode()` overwrites of an incomplete one would be missing in the next call.
  What may precede the first frame is the rest of a lost frame, and a frame that
  ends in an escape or in two; a frame that is damaged otherwise is for the CRC of
  the layers above.
* `Topics`: topics and subscriptions live as long as somebody publishes to them;
  a subscription is not destroyed while a publisher is inside of it, which the
  code cannot prevent (see the remarks).
* `DataProcessorThread`: `Blocksize::disabled` is not used with `enable()`.

## 3. What TLC checks

Each run of `PROJECT.json` finishes within about two minutes on two cores. Where
several invariants describe one structure, a run checks their conjunction, and
the parts keep their names and comments in the module: `ReferencesExact` (the
types, `CountExact`, `NoTemporaryLeft`), `SlotsAccounted` (the types,
`SlotHasOneOwner`, `FreeSlotIsEmpty`, `ItemsCounted`, `RtosQueueHasRoom`),
`ChannelSound` (`PermitsMatch`, `NoInvalidState`, `CellsCleared`,
`CountersAgree`), `TransactionsSound`, `ResponsesSound`, `QueueSound`,
`SemaphoreSound`, `PeriodsKept`, `WatchdogExact`, `TopicsSound`,
`ParameterSound`, `PipelineAccounted`, `CheckpointSound`, `ThreadsGetOn` and
`DispatchAccounted`.

| run | instance | shows |
|---|---|---|
| `containers` | pool: 2 threads, 2 pointers, 2 buffers; queue: 3 slots, 2 receivers; Deque: 2 to 4 cells, slices up to 3; framing: 2 packets of up to 2 bytes, noise and 2 kinds of broken frames before them, outputs that are too short | `ReferencesExact`, `TakesFreeBuffer`; `NoSpuriousFailure`: a buffer that is free during the whole search is found; every pointer operation ends. `FifoSpec`, `SlotsAccounted`; a free slot is found while no receiver overtakes another one, hence always with one receiver. `SequenceSpec`. `FramesWhole`: packets arrive whole, in order and once, also in place |
| `bus` | 2 publishers, 2 channels and the default channel, 1 receiver, 1 buffer, 3 calls; 1 channel of 2 cells, 3 receivers, 5 messages | accounting, order, exclusion of the default channel; permits and messages agree, cells are cleared |
| `bus_live` | 1 publisher, 1 channel and the default channel, 2 receivers, 2 calls | messages are handled, buffers return |
| `comm` | 2 callers, 2 transactions, ids 0..3 of one byte, start at the last id but one, 2 calls of 3 kinds | ids unique, transactions owned, no stale wake-up, every call returns; a reply answers its own call and a confirmed command was executed, unless a mixed packet carried the id of the call |
| `services` | queue: 2 cells, 2 receivers; semaphore: 3 threads; periods of 5 and 16 units, 2 units a millisecond, 2 ticks in 3 milliseconds, carry at 6, 16 ticks; heartbeats up to time 24; 3 subscriptions, 2 topics; 2 writers, 1 reader, 4 writes; store of 3 of 4 ids; sip: 2 workers, 3 requests, 2 frames of a worker on the line, 5 cells | see below |
| `pipeline` | 3 buffers, queues of 1 block, 5 samples; Checkpoint: 2 workers, 2 controllers | blocks and buffers accounted for, the heartbeat covers a block; the semaphore is never released twice, a thread that was reported suspended does nothing, commands return |
| `hal` | 2 listeners of 2 protocols, packages shorter, equal and longer than the buffers; 2 channels, 2 driver buffers; 3 registrars for 2 places | packages delivered or counted, per dispatcher and per listener; buffers return; strict receivers see complete packages only; the interrupt finds no empty listener |

`services` in detail: while a receiver waits without having been woken, every
item in the buffer has a woken receiver on its way (`NoLostWakeup`), and the
queue is a FIFO (`PosixFifoSpec`). Its timeout is restarted by each wake-up for
nothing; `WaitBounded` is the bound that the code guarantees, where the
semaphore keeps to its deadline (`TimedWaitExact`). Releases of a periodic task
stay on the grid of the first release and the periods, in both ports and across
the wrap-around of the ticks, and `nextPeriod()` reports a miss exactly when one
happened. The periods are those asked for in POSIX, and those cut to
milliseconds and ticks in FreeRTOS, where the period of 5 units becomes 1 tick
instead of 1.67. The heartbeat limiter neither lets a watchdog expire while the
task keeps its promises nor hides a hanging task for longer than the interval. A
subscriber is called at most once per publication, also by one that overlaps a
rebuild, and after each rebuild the lists hold every subscription, so that a
publication between rebuilds reaches all of them. Constructing a subscription
does not rebuild the lists. The element that is current is never written, with
several writers because of the flag, and a value that `getValue()` returns was
current during the call or the read overlapped with two writes. A store that was
initialised finds exactly its ids, also when an earlier `initialize()` has
failed. The responses of a sip worker are taken in the order of their requests,
none twice and none before its request, in whatever order the workers answer;
what is reported as success was sent by the worker addressed; every request
returns.

Bounds. Two threads and two buffers produce every pair of overlapping counter
steps; children and temporaries give two pointers up to eight handles. Two
receivers suffice to empty slots out of order, and three slots to make the
search wrap with a rest of zero and of one. Three receivers on a channel exhaust
the permits in every way. The bus has fewer buffers, cells and slots than
messages, so that each limit is met; the same holds for the pools and queues of
`pipeline` and `hal`. The noise, the packets and the sizes of `HdlcStuffing`
reach every branch of the two loops: escaped and plain bytes, both places where
the output of `encode()` may be too short, an abort, two escapes, and an output
of `decode()` that one of the packets does not fit into. Ids start at the last
but one, so that the wrap-around happens between the two calls. In `comm` an id
is one byte, in `rmap_post` two, so that ids too are mixed; the proofs are for
both. `TickRange` is wider
than twice a period plus the delay `MaxLate`, as the tick type of FreeRTOS is
for any period it can express. Three requests are enough for a response to be
one and two requests late, and for a late one of one worker to come behind a
later one of the other. `MaxCalls`, `BusCalls`, `MaxRequests`, `MaxFrames`,
`MaxSamples`, `MaxPackages`, `MaxWrites` and `MaxWakeups` bound what the
environment does; the numbers in the histories and the counters would grow
without them. `MaxTime` and `MaxHeartbeatTime` bound the clocks. `SizeMax`
stands for the largest `size_t`; only its remainder modulo the number of slots
matters, and 65535 leaves the same remainder as 2^32 - 1 and 2^64 - 1 for 1 to 4
slots (0, 1, 0, 3). `bus_live` registers all channels before the first message,
as an application does during its start-up. Runs with a bounded number of calls
come to rest and do not check for deadlock; `containers` does.

Fairness. A thread inside an operation is scheduled again (weak fairness); no
thread has to start one. The handler thread and the processing thread loop for
ever (`run()`). A wait with a timeout ends (`TimedOut`, `responseError`);
receivers of the bus call `receiveMessage()` again and again, and a call that
finds the semaphore available takes it, for which the semaphores of the
operating systems stand: strong fairness of `Acquire`. For the Checkpoint weak
fairness of the threads inside `suspend()` and `pass()` suffices. Workers of
sip, targets of RMAP and whoever reads the output of the pipeline owe nothing.

Where code and documentation disagree (runs with an expected violation):

* `queue_multi`: with two receivers `send()` may fail although a slot is free: the
  loop never tests the slot in front of `mLastIndex`.
* `rmap_post`: two unanswered `write()` calls share the send buffer, and one of
  them reports success for a command that was never sent. `RepliesMatch` is the
  other side: a call with a reply is confirmed without having been executed only
  if its id went out in a mixed packet.
* `checkpoint`: a suspended thread that is resumed and suspended again before it
  runs stays blocked in `pass()` while `getState()` says `suspending` for ever.
  `SuspendedMeansQuiet` shows that the state is safe, it is only never reported.
* `parameter`: two writes during one try of `getValue()` restore the flag, and the
  data of one write is returned with the time of another one.
* `spw_send`: `send()` of a packet that is too long does not give the transmit
  buffer back.

Remarks on the code without a run of their own:

* A Deque with one cell has its front behind the buffer (`deque_impl.h:86` sets the
  tail to 1); the models assume two cells or more.
* A message for a full channel goes to the default channel
  (`bus_handler_thread_impl.h:71`), which `bus_distributor.h:92-93` documents for
  messages "not matched by any other channel".
* `append(slice)` of a full Deque returns the requested length, not the "Number of
  appended values" (`deque.h:137`).
* A `write()` that the target rejects increments `mPackageCrcError`, where `read()`
  increments `mOperationFailed` (`rmap_initiator.cpp:298` and `:457`; `CountReply`
  keeps this). When transaction ids are reused while an old reply is still on its
  way, the reply matches the new transaction; with 16 bit ids that takes 65535
  calls.
* `sendPacket()` sends whatever the shared `mSendBuffer` holds
  (`rmap_initiator.cpp:563`): two concurrent calls may produce a valid packet
  with the id of one and the address or data of the other, and the reply to it
  confirms a call that was never executed. `RepliesMatch` excludes exactly the
  ids of such packets.
* The coordinator of sip does not compare the counter of a response: after one
  late response every further request gets the response to its predecessor, or,
  as another error, the response of a worker addressed earlier
  (`ResponsesInOrder` allows both; it orders the responses of one worker only).
  As `transmit()` and `receive()` share a buffer, a request can come back as a
  received packet; the check of the type keeps it from being a success. After a
  timeout the receiver may take the end of a frame for the start of the next
  one.
* Destroying a `Subscription` while a publisher is at it is not prevented by any
  lock.
* `PacketCoderHdlc::decode()` says `true` for everything but a return value of
  0: also for an aborted frame, and for an incomplete one behind noise
  (`packet_coder_hdlc.cpp:53`).
* `ParameterStore::initialize()` sets `mCount` before it finds a duplicate
  (`parameter_store.cpp:65`), although `:123` relies on "mCount is 0 if
  ParameterStore is not initialized": `getCount()` and `end()` of such a store give
  the number it has counted so far. `StoreFinds` speaks of lookups and of the next
  attempt and does not exclude this.
* FreeRTOS: timeouts below one second become 0 ticks, as the division comes before
  the multiplication (`queue_impl.h:60-62`, `timer.cpp:34-37`).
* `SharedBufferPointer::getChild()` adds offsets and length without a check for an
  overflow (`shared_buffer.cpp:53`).
* `DataAggregator::resetCounters()` leaves the counters of losses alone.
* After a miss "the period will be initiated with a length of *period*"
  (`arch/posix/outpost/rtos/periodic_task_manager.h:69-72`). Both ports go on
  from the release that was missed instead, so that the next period is shorter
  by the delay; the model and `PeriodsKept`, which states the grid that follows,
  are of the code.
* FreeRTOS cuts periods to ticks without saying so: 15 ms at 100 Hz run every
  10 ms (`periodic_task_manager.cpp:41-45`).
* Both `PeriodicTaskManager`s sleep with their mutex held: `status()` and
  `cancel()` of another thread wait for the end of the period.
* `CircularSinglyLinkedList::insert()` never compares with the first node, so a
  smaller one is put behind it, and `removeAll()` with a postcondition hands over
  the wrong node when the last one is removed
  (`circular_singly_linked_list_impl.h:220` and `:380-431`). Only its test uses
  the list.

## 4. What is proved

TLAPS proves the following for every value of the constants that satisfies the
`ASSUME` of the module. The assumptions say that sets are finite and sizes are
natural numbers, and what is named below. In each case an inductive invariant is
proved first (`...Inductive`), action by action; the properties that TLC checks
follow from it.

* **SharedBufferPool** (at least one buffer). `CountingIsExact`,
  `AllocationIsExclusive`, `TemporariesAreReleased`, `TypeCorrect`, and
  `ReferencesAreExact` that joins them. `CountExact` is not inductive: a step
  decrements a counter only if it is positive, and `Take` overwrites the handle of
  a temporary. The inductive invariant adds which steps the script of a thread can
  still hold, that the handles a script touches belong to the pointers reserved by
  the thread, that no two threads reserve the same pointer, that a temporary holds
  nothing outside of a running operation, and that a thread between test and take
  owns the pool mutex and looks at an unreferenced buffer: new references arise
  only from existing ones or from the owner of the mutex. `FailureIsGenuine` is the
  action property `NoSpuriousFailure`: counted from `mLastIndex`, a buffer that has
  been free since the search began is never behind the loop (`FreeIsAhead`), and
  `mLastIndex` cannot change while another thread has the mutex.
* **ReferenceQueue** (at least one slot). The inductive invariant says that the
  indices in the rtos queue are distinct and disjoint from those in the hands of
  receivers, that these are exactly the used slots, and that used slots hold
  objects. From it follow `SlotsHaveOneOwner`, `FreeSlotsHoldNothing`,
  `RtosQueueSuffices` (a pigeonhole argument), and `ItemsAreCounted`, together
  `SlotsAreAccounted`. `Refinement` proves that the queue implements `BoundedFifo`:
  the items are the objects in the slots named by the rtos queue, in order.
  `InOrderSendFinds` is about the search of `send()`, which does not test all
  slots: while nobody was overtaken, the slots in use are those filled last, and
  the indices lie in the rtos queue by decreasing age (`Ordered`), so that the slot
  the search starts from is free unless all are in use. `OneReceiverSendFinds`
  draws the conclusion for queues with one receiver; the run `queue_multi` shows
  that two are too many.
* **Deque.** `DequeRefinesSequence`: it implements `SequenceDeque`, for every
  size of buffer, both append strategies and slices of every length. The
  invariant relates head, tail and size also when the Deque is empty
  (`EndsAgree`), because the next `append()` or `prepend()` starts from there.
  `EndsAreInBuffer` needs two cells or more, as the code does.
* **BusChannel** (capacity of two or more). The inductive invariant joins the types,
  `PermitsMatch`, the position of the head relative to tail and size, `CellsCleared`
  and `CountersAgree`. `InvalidStateUnreachable` follows from `PermitsMatch`: a
  receiver with a permit counts for a message in the Deque. `ChannelIsSound` joins
  the four results.
* **SoftwareBus** (`BusAssumption`). `BusChannelsAreSound`: the invariant of the
  channel holds inside the bus as well. `DeliveryInOrder` needs that messages carry
  consecutive numbers from the mutex of the bus to the handler (`Numbered`), that a
  channel the iterator has yet to reach has not seen the message in hand
  (`Forwarding`), also if it is registered meanwhile (`Unregistered`), and that the
  ring of a channel holds the end of its history (`Contents`). `CallsAreAccounted`,
  `DefaultIsExclusive`, `BusTypeCorrect`.
* **RmapInitiator** (more ids than transaction objects). `TransactionsAreSound`
  and `WakeupsMeanReplies`. Objects in use and callers inside a call correspond
  one to one (`Owners`), and the search for the next id ends at an unused one
  (`NextIdUnused`, a pigeonhole argument), so that `removeTransaction()`, which
  searches by id, removes the caller's own object. `RepliesMatchCalls` holds as
  long as there were no more calls than ids: each call then has an id of its own
  (`FreshIds`), and whatever carries an id that was never in a mixed packet, in
  the send buffer, on the link or in a transaction, is of the call that was
  given the id (`Carried`, `Answered`). That `mixed` only grows carries the
  exemption from step to step. After that many calls the code does not promise
  it, see the remarks above.
* **SipLink.** `ResponsesAreSound`: the numbers of the responses of one worker grow
  along their whole way, from the worker over its line and the shared buffer to the
  queue; nothing is said, or needed, about the responses of different workers. The
  hard part is the buffer that `transmit()` and `receive()` share: the second half
  of a packet is never followed there by a symbol of the same or of an older one
  (`StoredOrdered`), so no frame brings a packet back.
* **PosixQueue.** `QueueIsSound`, `WaitsAreBounded`, and
  `PosixQueueRefinesFifo`. Head and tail agree with the number of items
  (`Position`), the cells in between hold items (`Occupied`), while a receiver
  waits without having been woken every item in the buffer has a woken receiver
  on its way (`NoLostWakeup`), and what a wait has used and has left adds up to
  at most one timeout per wake-up (`WaitBudget`).
* **PeriodicTaskManager.** `PeriodsAreKept` for both ports: the time of the last
  release is known in the representation of the port, as seconds and nanoseconds
  or as ticks modulo `TickRange` (`ReleaseKnown`), and a sleeping task has not
  missed its period (`SleepsInTime`). Of the conversion to ticks the proof uses
  that it gives at least one tick and less than half of the range with the delay
  (`PeriodAssumption`); the grid is that of the converted periods. The lemmas
  are about division with remainder: carry and wrap-around.
* **HeartbeatLimiter.** `WatchdogIsExact`. The invariant adds that the limiter
  and the watchdog agree on the expiry and that the last announcement, whether
  it became a heartbeat or not, fits in: the two bounds in `Due()` are what a
  report that is held back needs.
* **Topics.** `TopicsAreSound`. At every moment, a rebuild included, the links
  of the subscriptions that exist lead to newer ones of the same topic (`Newer`,
  `ListsLead`); hence the walk of a publisher goes one way only, whatever stores
  happen below it, and calls nobody twice. That the list of a topic is complete
  is shown by a minimal counterexample: a first subscription that no chain of
  links reaches would have a predecessor, or be the head.
* **BinarySemaphore and Checkpoint** (controllers are not workers).
  `SemaphoreIsSound`: `ReleaseWakes` is inductive with the types, `TimedWaitExact`
  once a thread outside of `acquire()` is known to have no clock.
  `TokenIsConserved` needs that the thread in `suspend()` is the holder of `mMutex`
  and that a running checkpoint has no holder.
* **DataAggregator and DataProcessorThread.** `PipelineIsAccounted`: every
  sample is in a block, a queue, with the processor, delivered or counted, and
  every buffer in one of these places or free. `CheckpointIsSound`: the token
  again, and a thread reported suspended is in `pass()`.
  `HeartbeatIsLongEnough`: the time that `processSingleBlock()` has used at each
  of its stages stays within what it announced, for all timeouts and numbers of
  retries.
* **Parameter.** `ParameterIsSound`: there is one writer at a time, it works on the
  element that is not current, and while fewer than two writes overlap a try the
  element that is copied does not change, since the one write goes to the other
  element. The finding of the run `parameter` shows that the bound of two is exact.
* **ParameterStore.** `StoreFindsAll`: after `initialize()` the array is sorted
  and free of duplicates, and `getParameter()` finds exactly the ids in it. The
  library's induction theorems cannot be used here (see below), so both
  inductions are minimal counterexamples: among the windows of which
  `findInternal` is not what its defining equation says, or misses an id that
  lies inside, a smallest one exists, and the two halves below it refute it
  (`SearchDef`, `SearchFinds`). That a list can be sorted at all, which the
  definition of `sort` by `CHOOSE` needs, is shown by inserting the last element
  (`SortExists`).
* **HdlcStuffing.** `HdlcFramesWhole`. The invariant is an account of the line
  that neither side keeps: a marking that says of every place of the stream
  whether it is noise, in a broken frame, in a gap, or so many bytes into such a
  packet (`Marking`). `encode()` extends a marking of its own output with each
  byte, which is spliced to that of the line when the frame is complete.
  `decode()`, wherever it is, agrees with the marking: its flags, its output,
  its last boundary and the number of packets delivered (`DecoderHolds`). For
  decoding in place the output stays behind the byte that is read, and the end
  of the frame lies ahead (`EndAhead`), so that no call is given up after it has
  overwritten something.
* **SpaceWireHandler.** `ReceiveBuffersAreReturned` and
  `StrictChannelsAreServed`: the buffer that is being distributed is in use
  (`MessageHeld`), and a buffer goes back to the pool only when no channel
  refers to it.
* **TimeCodeDispatcher.** `ListenersAreNotified`: the registrar between its
  stores has the mutex and its entry is in the first place behind the count; an
  awaited listener was notified or has an entry ahead of the handler.
* **ProtocolDispatcher.** `PackagesAreAccounted` and `StrictListenersAreServed`.
  In the middle of `handlePackage()` the accounts are open: `found` and
  `dropped` say what happened to the listeners the loop has passed
  (`LoopState`), and exactly the addressed listeners ahead are still owed a copy
  or a count (`Owed`). The default listener is owed one until the loop has ended
  without a match.

Only model-checked, and why:

* liveness (`EveryMessageHandled`, `BuffersReturn`, `CallsReturn`, `RequestsReturn`,
  `OperationsReturn`, `ThreadsGetOn`): it rests on fairness, which needs `ENABLED`.

Every invariant and every safety action property of the passing runs is a theorem.

## 5. Not modelled

* Data contents, offsets and lengths of child buffers, CRCs, packet layouts, log
  output, thread priorities, resetting of diagnostic counters where it is not
  named above, and functions that the code declares to be for unit tests only
  (`unregisterChannel()`). The counters are unbounded numbers where the code has
  `uint32_t`.
* The device interfaces of `hal`, `base`, and the FreeRTOS, RTEMS and bare-metal
  wrappers have no logic beyond the calls they hand over; the POSIX mutex, counting
  semaphore, thread and timer neither.
* `time`, the other codecs of `utils` (COBS, CRC, bit streams, variable width
  integers), the fixed point types, and the wavelet and encoder of `compression` are
  numeric code over wide ranges without state over time; small instances would say
  little about them.
* Lists and ring buffers of `utils` other than Deque and ReferenceQueue are
  sequential and, apart from `List` in the bus, used by their tests only.
* `l3test` is a test tool. Most of the lines of the repository are vendored test
  frameworks (googletest, catch, icecream), drivers, tests and tools; the share of
  mapped lines has to be seen against the library's own sources under
  `modules/*/src` and `modules/rtos/arch`.

## 6. Plan

1. Done: the core (`SharedBufferPool`, `ReferenceQueue`, `Deque`, `BusChannel`,
   `SoftwareBus`, `RmapInitiator`); `hal`; the POSIX services, Checkpoint and the
   periodic task managers; `smpc`, `sip`, `parameter`, `support`, the `compression`
   threads; the proofs above.
2. Done: the store of parameters and HDLC framing, checked and proved.
3. Next: COBS framing in the same way, the bounds of `getChild()`, and the state
of a topic list between two rebuilds.
