-------------------------- MODULE ProtocolDispatcher --------------------------
(***************************************************************************)
(* outpost::hal::ProtocolDispatcher and ProtocolDispatcherThread (hal,     *)
(* protocol_dispatcher.h, protocol_dispatcher_impl.h,                      *)
(* protocol_dispatcher_thread.cpp): packages of a receiver are copied to   *)
(* the queues that listen for their protocol, or to the default queue.     *)
(*                                                                         *)
(* Every operation holds mMutex.  handlePackage() is one step per listener *)
(* because the readers of the queues need no mutex and go on meanwhile;    *)
(* the others are one step.  A sink is a queue with its pool: several      *)
(* listeners may share one.  An item of a queue names the listener it was  *)
(* copied for and the number of bytes it lacks.  The default listener has  *)
(* the index 0.                                                            *)
(***************************************************************************)
EXTENDS Integers, Sequences

CONSTANTS
    Protocol,           \* protocol identifiers
    Sink,               \* queues, each with its pool
    NoSink,             \* nullptr
    numberOfQueues,
    HeaderLength,       \* mOffset + sizeof(protocolType)
    PackageLength,      \* length of the buffer the receiver writes to
    BufferLength,       \* length of the buffers of the pools
    ReadBytes,          \* lengths the receiver reports; a length above
                        \* PackageLength means that bytes were lost before
    PoolSize, QueueSize,
    MaxPackages         \* bound: packages since resetErrorCounters()

ASSUME DispatcherAssumption ==
    /\ NoSink \notin Sink
    /\ ReadBytes \subseteq Nat
    /\ {numberOfQueues, HeaderLength, PackageLength, BufferLength} \subseteq Nat
    /\ {PoolSize, QueueSize, MaxPackages} \subseteq Nat

VARIABLES
    mListeners,     \* the registered listeners
    mDefaultListener,
    stat,           \* counters of the listeners
    mNumberOfDroppedPackages, mNumberOfUnmatchedPackages,
    mNumberOfPartialPackages, mNumberOfOverflowedBytes,
    sinkQueue,      \* what waits in each queue
    sinkFree,       \* free buffers of each pool
    sinkHeld,       \* buffers in the hands of the readers
    package,        \* the package that handlePackage() is at: protocol, length,
                    \* next listener, `found' and `dropped' of the code, and
                    \* whether a queue has got it
    seen            \* since the last reset: packages handled, packages that a
                    \* queue took, and per listener the packages that were
                    \* addressed to it and the copies it got

dispatcherVars == <<mListeners, mDefaultListener, stat, mNumberOfDroppedPackages,
                    mNumberOfUnmatchedPackages, mNumberOfPartialPackages,
                    mNumberOfOverflowedBytes, sinkQueue, sinkFree, sinkHeld, package, seen>>

Listener == 0 .. numberOfQueues
NoStat == [l \in Listener |-> [dropped |-> 0, partial |-> 0, overflow |-> 0]]
NothingSeen == [handled |-> 0, taken |-> 0,
                addressed |-> [l \in Listener |-> 0], copies |-> [l \in Listener |-> 0]]

(* Nobody has the mutex; a package that was just received. *)
NoPackage == [at |-> 0]
Unlocked == package.at = 0
Received(id, read, at) ==
    [id |-> id, read |-> read, at |-> at, found |-> FALSE, dropped |-> TRUE, taken |-> FALSE]

DispatcherInit ==
    /\ mListeners = << >>
    /\ mDefaultListener = [sink |-> NoSink, dropPartial |-> FALSE]
    /\ stat = NoStat
    /\ mNumberOfDroppedPackages = 0
    /\ mNumberOfUnmatchedPackages = 0
    /\ mNumberOfPartialPackages = 0
    /\ mNumberOfOverflowedBytes = 0
    /\ sinkQueue = [s \in Sink |-> << >>]
    /\ sinkFree = [s \in Sink |-> PoolSize]
    /\ sinkHeld = [s \in Sink |-> 0]
    /\ package = NoPackage
    /\ seen = NothingSeen

(* Only one default queue is allowed. *)
setDefaultQueue(s, dropPartial) ==
    /\ Unlocked
    /\ mDefaultListener.sink = NoSink
    /\ mDefaultListener' = [sink |-> s, dropPartial |-> dropPartial]
    /\ stat' = [stat EXCEPT ![0] = NoStat[0]]
    /\ UNCHANGED <<mListeners, mNumberOfDroppedPackages, mNumberOfUnmatchedPackages,
                   mNumberOfPartialPackages, mNumberOfOverflowedBytes, sinkQueue,
                   sinkFree, sinkHeld, package, seen>>

addQueue(id, s, dropPartial) ==
    /\ Unlocked
    /\ Len(mListeners) < numberOfQueues
    /\ mListeners' = Append(mListeners, [id |-> id, sink |-> s, dropPartial |-> dropPartial])
    /\ UNCHANGED <<mDefaultListener, stat, mNumberOfDroppedPackages,
                   mNumberOfUnmatchedPackages, mNumberOfPartialPackages,
                   mNumberOfOverflowedBytes, sinkQueue, sinkFree, sinkHeld, package,
                   seen>>

min(a, b) == IF a <= b THEN a ELSE b

(* The bytes of a package that its copy for a listener lacks. *)
Missing(read) ==
    LET effectiveSize == min(min(read, BufferLength), PackageLength) IN read - effectiveSize

(* insertIntoQueue() for listener l.  A buffer that is not sent goes back  *)
(* to the pool.                                                            *)
Acceptable_OfPackage(to, read) == ~ to.dropPartial \/ read <= PackageLength
Acceptable(to, read) == ~ to.dropPartial \/ Missing(read) = 0
Inserted(to, read) ==
    /\ sinkFree[to.sink] > 0
    /\ Acceptable(to, read)
    /\ Len(sinkQueue[to.sink]) < QueueSize

Sent(l, to, read) ==
    /\ sinkQueue' = [sinkQueue EXCEPT ![to.sink] = Append(@, [to |-> l, lacks |-> Missing(read)])]
    /\ sinkFree' = [sinkFree EXCEPT ![to.sink] = @ - 1]
    /\ stat' = IF Missing(read) = 0 THEN stat
               ELSE [stat EXCEPT ![l].partial = @ + 1, ![l].overflow = @ + Missing(read)]
    /\ seen' = [seen EXCEPT !.copies[l] = @ + 1,
                            !.taken = @ + IF package.taken THEN 0 ELSE 1]
NotSent(l) ==
    /\ stat' = [stat EXCEPT ![l].dropped = @ + 1]
    /\ UNCHANGED <<sinkQueue, sinkFree, seen>>

insertIntoQueue(l, to, read) ==
    \/ Inserted(to, read) /\ Sent(l, to, read)
    \/ ~ Inserted(to, read) /\ NotSent(l)

(* handlePackage(): every listener of the protocol gets a copy, whether or *)
(* not the others could take theirs; the package is dropped if nobody      *)
(* could.                                                                  *)
Dropped_LastDecides(inserted) == ~ inserted
Dropped(inserted) == package.dropped /\ ~ inserted

HasId(read) == min(PackageLength, read) >= HeaderLength
Addressed(id, read) ==
    LET found == {k \in 1 .. Len(mListeners) : HasId(read) /\ mListeners[k].id = id} IN
    IF found = {} /\ mDefaultListener.sink # NoSink THEN {0} ELSE found

handlePackage(id, read) ==
    LET cut == IF read > PackageLength THEN read - PackageLength ELSE 0 IN
    /\ Unlocked
    /\ read > 0
    /\ seen.handled < MaxPackages
    /\ mNumberOfPartialPackages' = mNumberOfPartialPackages + IF cut > 0 THEN 1 ELSE 0
    /\ mNumberOfOverflowedBytes' = mNumberOfOverflowedBytes + cut
    /\ package' = Received(id, read, IF HasId(read) THEN 1 ELSE Len(mListeners) + 1)
    /\ seen' = [seen EXCEPT !.handled = @ + 1,
                            !.addressed = [l \in Listener |->
                                @[l] + IF l \in Addressed(id, read) THEN 1 ELSE 0]]
    /\ UNCHANGED <<mListeners, mDefaultListener, stat, mNumberOfDroppedPackages,
                   mNumberOfUnmatchedPackages, sinkQueue, sinkFree, sinkHeld>>

(* The loop over the listeners. *)
dispatch ==
    LET l == package.at IN
    /\ l \in 1 .. Len(mListeners)
    /\ IF mListeners[l].id = package.id
       THEN LET inserted == Inserted(mListeners[l], package.read) IN
            /\ insertIntoQueue(l, mListeners[l], package.read)
            /\ package' = [package EXCEPT !.at = l + 1, !.found = TRUE,
                                          !.dropped = Dropped(inserted),
                                          !.taken = @ \/ inserted]
       ELSE package' = [package EXCEPT !.at = l + 1]
            /\ UNCHANGED <<stat, sinkQueue, sinkFree, seen>>
    /\ UNCHANGED <<mListeners, mDefaultListener, mNumberOfDroppedPackages,
                   mNumberOfUnmatchedPackages, mNumberOfPartialPackages,
                   mNumberOfOverflowedBytes, sinkHeld>>

(* The end: the default listener gets what none was found for, and the     *)
(* counters of the dispatcher are updated.                                 *)
packageEnd ==
    LET default == ~ package.found /\ mDefaultListener.sink # NoSink
        unmatched == ~ package.found /\ mDefaultListener.sink = NoSink
        dropped == IF default THEN Dropped(Inserted(mDefaultListener, package.read))
                   ELSE package.dropped
    IN
    /\ package.at = Len(mListeners) + 1
    /\ \/ default /\ insertIntoQueue(0, mDefaultListener, package.read)
       \/ ~ default /\ UNCHANGED <<stat, sinkQueue, sinkFree, seen>>
    /\ mNumberOfUnmatchedPackages' = mNumberOfUnmatchedPackages + IF unmatched THEN 1 ELSE 0
    /\ mNumberOfDroppedPackages' = mNumberOfDroppedPackages + IF dropped THEN 1 ELSE 0
    /\ package' = NoPackage
    /\ UNCHANGED <<mListeners, mDefaultListener, mNumberOfPartialPackages,
                   mNumberOfOverflowedBytes, sinkHeld>>

resetErrorCounters ==
    /\ Unlocked
    /\ mNumberOfDroppedPackages' = 0
    /\ mNumberOfUnmatchedPackages' = 0
    /\ mNumberOfPartialPackages' = 0
    /\ mNumberOfOverflowedBytes' = 0
    /\ stat' = NoStat
    /\ seen' = NothingSeen
    /\ UNCHANGED <<mListeners, mDefaultListener, sinkQueue, sinkFree, sinkHeld, package>>

(* A reader takes an item, and lets go of its buffer later. *)
sinkTake(s) ==
    /\ sinkQueue[s] # << >>
    /\ sinkQueue' = [sinkQueue EXCEPT ![s] = Tail(@)]
    /\ sinkHeld' = [sinkHeld EXCEPT ![s] = @ + 1]
    /\ UNCHANGED <<mListeners, mDefaultListener, stat, mNumberOfDroppedPackages,
                   mNumberOfUnmatchedPackages, mNumberOfPartialPackages,
                   mNumberOfOverflowedBytes, sinkFree, package, seen>>
sinkRelease(s) ==
    /\ sinkHeld[s] > 0
    /\ sinkHeld' = [sinkHeld EXCEPT ![s] = @ - 1]
    /\ sinkFree' = [sinkFree EXCEPT ![s] = @ + 1]
    /\ UNCHANGED <<mListeners, mDefaultListener, stat, mNumberOfDroppedPackages,
                   mNumberOfUnmatchedPackages, mNumberOfPartialPackages,
                   mNumberOfOverflowedBytes, sinkQueue, package, seen>>

DispatcherNext ==
    \/ \E s \in Sink, dropPartial \in BOOLEAN :
         \/ setDefaultQueue(s, dropPartial)
         \/ \E id \in Protocol : addQueue(id, s, dropPartial)
    \/ \E id \in Protocol, read \in ReadBytes : handlePackage(id, read)
    \/ dispatch
    \/ packageEnd
    \/ \E s \in Sink : sinkTake(s) \/ sinkRelease(s)
    \/ resetErrorCounters

DispatcherSpec == DispatcherInit /\ [][DispatcherNext]_dispatcherVars
-----------------------------------------------------------------------------
(* Whenever the mutex can be had, so that the counters can be read: a      *)
(* package that was handled is in at least one queue or counted as         *)
(* dropped, and one without any listener is counted as unmatched as well.  *)
PackagesAccounted ==
    Unlocked =>
    /\ seen.handled = seen.taken + mNumberOfDroppedPackages
    /\ mNumberOfUnmatchedPackages <= mNumberOfDroppedPackages

(* At the same times: every listener of a protocol got its own copy of a   *)
(* package or counted the loss, also behind a listener whose pool or queue *)
(* is exhausted, and the default listener exactly those that no other      *)
(* listener was found for.                                                 *)
ListenersAccounted ==
    Unlocked =>
    \A l \in Listener : seen.addressed[l] = seen.copies[l] + stat[l].dropped

(* The listener with an index. *)
To(l) == IF l = 0 THEN mDefaultListener ELSE mListeners[l]

(* The queue of listeners that want complete packages only never holds a   *)
(* package that was cut, by the receiver or by the copy.                   *)
NoPartialForStrict ==
    \A s \in Sink : \A k \in 1 .. Len(sinkQueue[s]) :
        sinkQueue[s][k].lacks > 0 => ~ To(sinkQueue[s][k].to).dropPartial

(* A copy that cannot be sent gives its buffer back. *)
SinkBuffersReturn ==
    \A s \in Sink : sinkFree[s] + Len(sinkQueue[s]) + sinkHeld[s] = PoolSize

(* Packages, copies and buffers add up, for the dispatcher as a whole and  *)
(* for each listener, whichever pools and queues are exhausted.            *)
DispatchAccounted == PackagesAccounted /\ ListenersAccounted /\ SinkBuffersReturn
=============================================================================
