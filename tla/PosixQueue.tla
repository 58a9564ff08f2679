----------------------------- MODULE PosixQueue -----------------------------
(***************************************************************************)
(* outpost::rtos::Queue of the POSIX port (rtos, arch/posix, queue.h,      *)
(* queue_impl.h): a ring buffer behind a mutex, and a condition variable   *)
(* on which the receivers wait for an item.                                *)
(*                                                                         *)
(* send(), and receive() between two waits, run under mMutex: each is one  *)
(* step.  A waiting receiver is woken by pthread_cond_signal(), by its     *)
(* timeout or for no reason at all, and competes for the mutex again.      *)
(* Time counts the ticks the waiting receivers let pass; it stands still   *)
(* while a thread can run, so that a wait has an exact length.             *)
(***************************************************************************)
EXTENDS Integers, Sequences, FiniteSets

CONSTANTS
    Receiver,       \* threads that call receive()
    Value,          \* items
    mEmpty,         \* no item
    mMaximumSize,   \* numberOfItems
    Timeout,        \* finite timeouts handed to receive(), in ticks
    Forever,        \* a timeout of Duration::myriad() or more
    MaxWakeups      \* bound: wake-ups for nothing during one receive()

ASSUME PosixQueueAssumption ==
    /\ mMaximumSize \in Nat \ {0}
    /\ Timeout \subseteq Nat
    /\ Forever \notin Nat
    /\ mEmpty \notin Value
    /\ MaxWakeups \in Nat
    /\ IsFiniteSet(Receiver)

VARIABLES
    mBuffer, mItemsInBuffer, mHead, mTail,
    rx,         \* where each receiver is in receive()
    wait,       \* ... and its wait: the timeout, the ticks left of it, the ticks
                \* waited and the wake-ups for nothing since the call
    data        \* what each receiver obtained last

queueVars == <<mBuffer, mItemsInBuffer, mHead, mTail, rx, wait, data>>

Ring == 0 .. mMaximumSize - 1
In(pc) == {r \in Receiver : rx[r] = pc}
NoWait == [timeout |-> Forever, left |-> Forever, waited |-> 0, wakeups |-> 0]

QueueInit ==
    /\ mBuffer = [i \in Ring |-> mEmpty]
    /\ mItemsInBuffer = 0
    /\ mHead = 0
    /\ mTail = 0
    /\ rx = [r \in Receiver |-> "idle"]
    /\ wait = [r \in Receiver |-> NoWait]
    /\ data = [r \in Receiver |-> mEmpty]

increment_TooFar(i) == IF i > mMaximumSize - 1 THEN 0 ELSE i + 1
increment(i) == IF i >= mMaximumSize - 1 THEN 0 ELSE i + 1

(* pthread_cond_signal(): one of the waiting threads, if there is any. *)
Signal_WhenEmpty ==
    IF In("waiting") = {} \/ mItemsInBuffer > 0 THEN UNCHANGED rx
    ELSE \E r \in In("waiting") : rx' = [rx EXCEPT ![r] = "woken"]
Signal ==
    IF In("waiting") = {} THEN UNCHANGED rx
    ELSE \E r \in In("waiting") : rx' = [rx EXCEPT ![r] = "woken"]

(* send(); it returns false and changes nothing when the queue is full. *)
QueueSend(v) ==
    /\ mItemsInBuffer < mMaximumSize
    /\ mHead' = increment(mHead)
    /\ mBuffer' = [mBuffer EXCEPT ![mHead'] = v]
    /\ mItemsInBuffer' = mItemsInBuffer + 1
    /\ Signal
    /\ UNCHANGED <<mTail, wait, data>>

(* receive() with an item in the buffer takes it and returns true. *)
TakeItem(r) ==
    /\ mItemsInBuffer > 0
    /\ mTail' = increment(mTail)
    /\ data' = [data EXCEPT ![r] = mBuffer[mTail']]
    /\ mItemsInBuffer' = mItemsInBuffer - 1
    /\ rx' = [rx EXCEPT ![r] = "idle"]
    /\ wait' = [wait EXCEPT ![r] = NoWait]
    /\ UNCHANGED <<mBuffer, mHead>>

(* receive() with an empty buffer waits.  The absolute end of the wait is  *)
(* computed from the whole timeout in every round of the loop.             *)
EndOfWait_Rounded(limit) == IF limit = Forever THEN Forever ELSE limit + 1
EndOfWait(limit) == limit

AwaitItem(r, limit, waited, wakeups) ==
    /\ mItemsInBuffer = 0
    /\ rx' = [rx EXCEPT ![r] = "waiting"]
    /\ wait' = [wait EXCEPT ![r] = [timeout |-> limit, left |-> EndOfWait(limit),
                                    waited |-> waited, wakeups |-> wakeups]]
    /\ UNCHANGED <<mBuffer, mItemsInBuffer, mHead, mTail, data>>

(* The call of receive(). *)
QueueReceive(r, limit) ==
    /\ rx[r] = "idle"
    /\ TakeItem(r) \/ AwaitItem(r, limit, 0, 0)

(* The wait ended without an error and the thread has the mutex again. *)
QueueResume(r) ==
    /\ rx[r] = "woken"
    /\ \/ TakeItem(r)
       \/ /\ wait[r].wakeups < MaxWakeups
          /\ AwaitItem(r, wait[r].timeout, wait[r].waited, wait[r].wakeups + 1)

(* pthread_cond_timedwait() returns an error ... *)
QueueExpire(r) ==
    /\ rx[r] = "waiting"
    /\ wait[r].left = 0
    /\ rx' = [rx EXCEPT ![r] = "expired"]
    /\ UNCHANGED <<mBuffer, mItemsInBuffer, mHead, mTail, wait, data>>

(* ... and receive() returns false as soon as it has the mutex, even if an *)
(* item has come in meanwhile.                                             *)
QueueTimeout(r) ==
    /\ rx[r] = "expired"
    /\ rx' = [rx EXCEPT ![r] = "idle"]
    /\ wait' = [wait EXCEPT ![r] = NoWait]
    /\ UNCHANGED <<mBuffer, mItemsInBuffer, mHead, mTail, data>>

(* POSIX allows a wait to end without a signal. *)
SpuriousWakeup(r) ==
    /\ rx[r] = "waiting"
    /\ rx' = [rx EXCEPT ![r] = "woken"]
    /\ UNCHANGED <<mBuffer, mItemsInBuffer, mHead, mTail, wait, data>>

(* CLOCK_REALTIME, seen by the receivers that wait with a timeout. *)
Timed == {r \in In("waiting") : wait[r].left # Forever}
QueueTick ==
    /\ Timed # {}
    /\ \A r \in Timed : wait[r].left > 0
    /\ In("woken") \cup In("expired") = {}
    /\ wait' = [r \in Receiver |->
                  IF r \in Timed
                  THEN [wait[r] EXCEPT !.left = @ - 1, !.waited = @ + 1]
                  ELSE wait[r]]
    /\ UNCHANGED <<mBuffer, mItemsInBuffer, mHead, mTail, rx, data>>

QueueNext ==
    \/ \E v \in Value : QueueSend(v)
    \/ \E r \in Receiver, limit \in Timeout \cup {Forever} : QueueReceive(r, limit)
    \/ \E r \in Receiver : \/ QueueResume(r) \/ QueueExpire(r) \/ QueueTimeout(r)
                           \/ SpuriousWakeup(r)
    \/ QueueTick

QueueSpec == QueueInit /\ [][QueueNext]_queueVars
-----------------------------------------------------------------------------
QueueTypeOK ==
    /\ mBuffer \in [Ring -> Value \cup {mEmpty}]
    /\ mItemsInBuffer \in 0 .. mMaximumSize
    /\ mHead \in Ring
    /\ mTail \in Ring
    /\ rx \in [Receiver -> {"idle", "waiting", "woken", "expired"}]
    /\ wait \in [Receiver -> [timeout : Timeout \cup {Forever},
                              left : Nat \cup {Forever},
                              waited : Nat,
                              wakeups : 0 .. MaxWakeups]]
    /\ data \in [Receiver -> Value \cup {mEmpty}]

(* send() signals once per item and does not ask whether the queue was     *)
(* empty: while a receiver waits without having been woken, every item in  *)
(* the buffer has a receiver that is on its way to it.                     *)
NoLostWakeup ==
    In("waiting") # {} => mItemsInBuffer <= Cardinality(In("woken"))

(* The ring buffer and its waiting receivers are consistent after every    *)
(* step.                                                                   *)
QueueSound == QueueTypeOK /\ NoLostWakeup

(* receive() does not wait longer than its timeout for each time it was    *)
(* woken and found the buffer empty again: exactly the timeout when no     *)
(* other receiver interferes, but more than that when one is faster.       *)
WaitBounded ==
    \A r \in Receiver : wait[r].timeout # Forever =>
        wait[r].waited <= wait[r].timeout * (1 + wait[r].wakeups)

(* The ring buffer is a bounded FIFO queue that hands every accepted item  *)
(* to exactly one receiver, in the order of the sends.                     *)
PosixFifo == INSTANCE BoundedFifo WITH
    N <- mMaximumSize,
    items <- [k \in 1 .. mItemsInBuffer |-> mBuffer[(mTail + k) % mMaximumSize]],
    taken <- [r \in Receiver |-> mEmpty]
PosixFifoSpec == PosixFifo!Spec
=============================================================================
