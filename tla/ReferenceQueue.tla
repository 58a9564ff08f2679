--------------------------- MODULE ReferenceQueue ---------------------------
(***************************************************************************)
(* outpost::utils::ReferenceQueue (utils, container/reference_queue.h): a  *)
(* queue for objects that must not be copied byte by byte, above all the   *)
(* reference counted buffer pointers.  The objects rest in the slots       *)
(* mPointers; only the index of the slot goes through an rtos::Queue.      *)
(*                                                                         *)
(* send() runs completely under mMutex, so one step models it.  receive()  *)
(* takes an index from the rtos queue before it locks: any number of       *)
(* receivers can hold an index whose slot they have not emptied yet.       *)
(* A send() that finds no slot, or does not get the mutex in time, and a   *)
(* receive() that runs into its timeout return false and change nothing.   *)
(***************************************************************************)
EXTENDS Integers, Sequences, FiniteSets

CONSTANTS
    Receiver,   \* threads that call receive()
    Value,      \* objects that are sent
    mEmpty,     \* the default constructed object
    NumberOfSlots,  \* template parameter N
    NoSlot,     \* the receiver holds no index
    SizeMax     \* largest size_t: the value of 0 - 1

ASSUME QueueAssumption ==
    /\ NumberOfSlots \in Nat \ {0}
    /\ SizeMax \in Nat
    /\ mEmpty \notin Value
    /\ NoSlot \notin 0 .. NumberOfSlots - 1

VARIABLES
    mPointers,      \* the objects in the slots
    mIsUsed,        \* which slots are occupied
    mItemsInQueue,  \* number of occupied slots
    mLastSlot,      \* mLastIndex: slot that send() looks at first
    mQueue,         \* the rtos::Queue of slot indices
    index,          \* index a receiver took from mQueue
    data            \* object each receiver obtained last

refVars == <<mPointers, mIsUsed, mItemsInQueue, mLastSlot, mQueue, index, data>>

Slot == 0 .. NumberOfSlots - 1

RefInit ==
    /\ mPointers = [i \in Slot |-> mEmpty]
    /\ mIsUsed = [i \in Slot |-> FALSE]
    /\ mItemsInQueue = 0
    /\ mLastSlot = 0
    /\ mQueue = << >>
    /\ index = [r \in Receiver |-> NoSlot]
    /\ data = [r \in Receiver |-> mEmpty]

(* The unsigned subtraction (mLastIndex - 1) % N of the code. *)
endSearch == (IF mLastSlot = 0 THEN SizeMax ELSE mLastSlot - 1) % NumberOfSlots

(* The do-while loop tests mLastSlot, then the following slots, and ends   *)
(* in front of endSearch.                                                  *)
NumTried == LET d == (endSearch - mLastSlot) % NumberOfSlots IN IF d = 0 THEN NumberOfSlots ELSE d
Tried_Behind(k) == (mLastSlot + k + 1) % NumberOfSlots
Tried(k) == (mLastSlot + k) % NumberOfSlots

(* The slot that the loop finds: the first free one. *)
Finds_Unchecked(i) == i = mLastSlot
Finds(i) ==
    \E k \in 0 .. NumTried - 1 :
        /\ i = Tried(k)
        /\ ~ mIsUsed[i]
        /\ \A j \in 0 .. k - 1 : mIsUsed[Tried(j)]

(* The slot is filled if the rtos queue has accepted its index (ok), and   *)
(* taken back otherwise.                                                   *)
Fill(i, v, ok) ==
    /\ mPointers' = [mPointers EXCEPT ![i] = IF ok THEN v ELSE mEmpty]
    /\ mIsUsed' = [mIsUsed EXCEPT ![i] = ok]
    /\ mItemsInQueue' = IF ok THEN mItemsInQueue + 1 ELSE mItemsInQueue

(* The slot is given free. *)
Vacate_KeepsMark(i) ==
    /\ mPointers' = [mPointers EXCEPT ![i] = mEmpty]
    /\ mItemsInQueue' = mItemsInQueue - 1
    /\ UNCHANGED mIsUsed
Vacate(i) ==
    /\ mPointers' = [mPointers EXCEPT ![i] = mEmpty]
    /\ mIsUsed' = [mIsUsed EXCEPT ![i] = FALSE]
    /\ mItemsInQueue' = mItemsInQueue - 1

Following(i) == (i + 1) % NumberOfSlots

(* send(): should the rtos queue not accept the index, the slot is given   *)
(* back, but mLastSlot has moved on.                                       *)
Send(v) ==
    \E i \in Slot :
        /\ Finds(i)
        /\ mLastSlot' = Following(i)
        /\ LET ok == Len(mQueue) < NumberOfSlots IN
             /\ mQueue' = IF ok THEN Append(mQueue, i) ELSE mQueue
             /\ Fill(i, v, ok)
        /\ UNCHANGED <<index, data>>

(* receive(), first half: mQueue.receive(index, timeout). *)
ReceiveIndex(r) ==
    /\ index[r] = NoSlot
    /\ mQueue # << >>
    /\ index' = [index EXCEPT ![r] = Head(mQueue)]
    /\ mQueue' = Tail(mQueue)
    /\ UNCHANGED <<mPointers, mIsUsed, mItemsInQueue, mLastSlot, data>>

(* receive(), second half: the slot is emptied under the mutex. *)
ReceiveData(r) ==
    /\ index[r] # NoSlot
    /\ data' = [data EXCEPT ![r] = mPointers[index[r]]]
    /\ Vacate(index[r])
    /\ index' = [index EXCEPT ![r] = NoSlot]
    /\ UNCHANGED <<mLastSlot, mQueue>>

RefNext ==
    \/ \E v \in Value : Send(v)
    \/ \E r \in Receiver : ReceiveIndex(r) \/ ReceiveData(r)

RefSpec == RefInit /\ [][RefNext]_refVars
-----------------------------------------------------------------------------
RefTypeOK ==
    /\ mPointers \in [Slot -> Value \cup {mEmpty}]
    /\ mIsUsed \in [Slot -> BOOLEAN]
    /\ mItemsInQueue \in Int
    /\ mLastSlot \in Slot
    /\ mQueue \in Seq(Slot)
    /\ index \in [Receiver -> Slot \cup {NoSlot}]
    /\ data \in [Receiver -> Value \cup {mEmpty}]

(* Who is responsible for an occupied slot: a position of the rtos queue,  *)
(* or a receiver that has taken the index.                                 *)
Queued(i) == {k \in 1 .. Len(mQueue) : mQueue[k] = i}
InHand(i) == {r \in Receiver : index[r] = i}

(* Every occupied slot is known exactly once, in the rtos queue or by one  *)
(* receiver, and a free slot by nobody: no object is delivered twice, none *)
(* is forgotten in a slot.                                                 *)
SlotHasOneOwner ==
    \A i \in Slot :
        Cardinality(Queued(i)) + Cardinality(InHand(i)) = IF mIsUsed[i] THEN 1 ELSE 0

(* A free slot holds no object.  A reference left there would keep its     *)
(* buffer out of the pool until the slot is used again.                    *)
FreeSlotIsEmpty == \A i \in Slot : mIsUsed[i] <=> mPointers[i] # mEmpty

(* mItemsInQueue, which getNumberOfItems() and isFull() report, is the     *)
(* number of occupied slots that isEmpty() looks at.                       *)
ItemsCounted == mItemsInQueue = Cardinality({i \in Slot : mIsUsed[i]})

(* While a slot is free, the rtos queue accepts its index: the branch of   *)
(* send() that takes a found slot back is never reached.                   *)
RtosQueueHasRoom == (\E i \in Slot : ~ mIsUsed[i]) => Len(mQueue) < NumberOfSlots

(* Slots, the queue of indices and the counter agree at every step of      *)
(* send() and receive(), with any number of receivers between taking an    *)
(* index and emptying the slot.                                            *)
SlotsAccounted ==
    RefTypeOK /\ SlotHasOneOwner /\ FreeSlotIsEmpty /\ ItemsCounted /\ RtosQueueHasRoom

(* "Checks whether there is a free slot in the queue": unless isFull(),    *)
(* the search of send() comes across a free slot.                          *)
SendFindsSlotUnlessFull ==
    mItemsInQueue = NumberOfSlots \/ \E i \in Slot : Finds(i)

(* The queue is a bounded FIFO queue: the slots named by the rtos queue    *)
(* hold the waiting objects in order, and taking the index is the moment   *)
(* at which a receiver takes the oldest object.                            *)
Fifo == INSTANCE BoundedFifo WITH
    N <- NumberOfSlots,
    items <- [k \in 1 .. Len(mQueue) |-> mPointers[mQueue[k]]],
    taken <- [r \in Receiver |-> IF index[r] = NoSlot THEN mEmpty
                                 ELSE mPointers[index[r]]]
FifoSpec == Fifo!Spec
=============================================================================
