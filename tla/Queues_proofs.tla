--------------------------- MODULE Queues_proofs ----------------------------
(***************************************************************************)
(* ReferenceQueue implements BoundedFifo for any number of slots, values   *)
(* and receivers, its slots are neither lost nor handed out twice, and its *)
(* search finds a free slot as long as they are emptied in order;          *)
(* Deque implements SequenceDeque for every size of its buffer; and HDLC   *)
(* frames deliver the packets whole, whenever their bytes arrive.          *)
(*                                                                         *)
(* The inductive invariant of ReferenceQueue says that the indices in      *)
(* circulation are all different: without it a receiver that empties its   *)
(* slot could empty the slot of an object that still waits in the rtos     *)
(* queue.  That of Deque relates the two ends also when it is empty: the   *)
(* next append() or prepend() starts from there.  That of the HDLC coding  *)
(* says what each byte on the line belongs to.                             *)
(***************************************************************************)
EXTENDS ReferenceQueueOrder, Deque, HdlcStuffing, FiniteSetTheorems, FunctionTheorems, TLAPS

(* The queue of references *)

(* No index twice in the rtos queue, with two receivers, or in both. *)
IndicesDiffer ==
    /\ \A k, l \in 1 .. Len(mQueue) : mQueue[k] = mQueue[l] => k = l
    /\ \A r, s \in Receiver : index[r] # NoSlot /\ index[r] = index[s] => r = s
    /\ \A r \in Receiver : \A k \in 1 .. Len(mQueue) : mQueue[k] # index[r]

(* A slot is occupied just when its index is in circulation. *)
OccupiedIsKnown ==
    \A i \in Slot :
        mIsUsed[i] <=> \/ \E k \in 1 .. Len(mQueue) : mQueue[k] = i
                       \/ \E r \in Receiver : index[r] = i

RefInv == RefTypeOK /\ IndicesDiffer /\ OccupiedIsKnown /\ FreeSlotIsEmpty
-----------------------------------------------------------------------------
LEMMA InitRefInv == RefInit => RefInv
  BY QueueAssumption DEF RefInit, RefInv, RefTypeOK, IndicesDiffer, OccupiedIsKnown,
     FreeSlotIsEmpty, Slot

(* A slot that send() finds is free and its index is unknown. *)
LEMMA FoundIsFree ==
    ASSUME RefInv, NEW i \in Slot, Finds(i)
    PROVE  /\ ~ mIsUsed[i]
           /\ \A k \in 1 .. Len(mQueue) : mQueue[k] # i
           /\ \A r \in Receiver : index[r] # i
  BY DEF Finds, RefInv, OccupiedIsKnown

LEMMA SendRefInv ==
    ASSUME RefInv, NEW v \in Value, Send(v)
    PROVE  RefInv'
  <1> USE DEF RefInv
  <1>1. PICK i \in Slot :
            /\ Finds(i)
            /\ mLastSlot' = (i + 1) % NumberOfSlots
            /\ LET ok == Len(mQueue) < NumberOfSlots IN
                 /\ mQueue' = IF ok THEN Append(mQueue, i) ELSE mQueue
                 /\ mPointers' = [mPointers EXCEPT ![i] = IF ok THEN v ELSE mEmpty]
                 /\ mIsUsed' = [mIsUsed EXCEPT ![i] = ok]
                 /\ mItemsInQueue' = IF ok THEN mItemsInQueue + 1 ELSE mItemsInQueue
            /\ UNCHANGED <<index, data>>
    BY DEF Send, Fill, Following
  <1>2. /\ ~ mIsUsed[i]
        /\ \A k \in 1 .. Len(mQueue) : mQueue[k] # i
        /\ \A r \in Receiver : index[r] # i
    BY <1>1, FoundIsFree
  <1>3. mQueue \in Seq(Slot) /\ mLastSlot' \in Slot
    <2>1. (i + 1) % NumberOfSlots \in 0 .. NumberOfSlots - 1
      BY QueueAssumption DEF Slot
    <2>2. QED BY <1>1, <2>1 DEF RefTypeOK, Slot
  <1>4. CASE Len(mQueue) < NumberOfSlots
    <2>1. /\ mQueue' = Append(mQueue, i)
          /\ mPointers' = [mPointers EXCEPT ![i] = v]
          /\ mIsUsed' = [mIsUsed EXCEPT ![i] = TRUE]
          /\ mItemsInQueue' = mItemsInQueue + 1
          /\ UNCHANGED <<index, data>>
      BY <1>1, <1>4
    <2>2. /\ mQueue' \in Seq(Slot) /\ Len(mQueue') = Len(mQueue) + 1
          /\ mQueue'[Len(mQueue) + 1] = i /\ Len(mQueue) \in Nat
          /\ \A k \in 1 .. Len(mQueue) : mQueue'[k] = mQueue[k]
      BY <1>3, <2>1
    <2>3. RefTypeOK'
      BY <1>3, <2>1, <2>2 DEF RefTypeOK
    <2>4. IndicesDiffer'
      BY <1>2, <2>1, <2>2, SMTT(30) DEF IndicesDiffer
    <2>5. OccupiedIsKnown'
      BY <1>2, <2>1, <2>2 DEF OccupiedIsKnown, RefTypeOK
    <2>6. FreeSlotIsEmpty'
      BY <2>1, QueueAssumption DEF FreeSlotIsEmpty, RefTypeOK
    <2>7. QED BY <2>3, <2>4, <2>5, <2>6
  <1>5. CASE ~ (Len(mQueue) < NumberOfSlots)
    <2>1. mIsUsed' = mIsUsed /\ mPointers' = mPointers
      BY <1>1, <1>2, <1>5 DEF RefTypeOK, FreeSlotIsEmpty
    <2>2. QED
      BY <1>1, <1>3, <1>5, <2>1
      DEF RefTypeOK, IndicesDiffer, OccupiedIsKnown, FreeSlotIsEmpty
  <1>6. QED BY <1>4, <1>5

LEMMA ReceiveIndexRefInv ==
    ASSUME RefInv, NEW r \in Receiver, ReceiveIndex(r)
    PROVE  RefInv'
  <1> USE DEF RefInv
  <1> DEFINE n == Len(mQueue)
  <1>1. /\ mQueue \in Seq(Slot) /\ mQueue # << >> /\ n \in Nat \ {0}
        /\ Head(mQueue) = mQueue[1] /\ Head(mQueue) \in Slot
        /\ mQueue' \in Seq(Slot) /\ Len(mQueue') = n - 1
        /\ \A k \in 1 .. n - 1 : mQueue'[k] = mQueue[k + 1]
    BY DEF ReceiveIndex, RefTypeOK
  <1>2. /\ index' = [index EXCEPT ![r] = mQueue[1]] /\ index[r] = NoSlot
        /\ UNCHANGED <<mPointers, mIsUsed, mItemsInQueue, mLastSlot, data>>
    BY <1>1 DEF ReceiveIndex
  <1>3. RefTypeOK'
    BY <1>1, <1>2 DEF RefTypeOK
  <1>4. IndicesDiffer'
    <2>0. \A k \in 1 .. n : mQueue[k] \in Slot /\ mQueue[k] # NoSlot
      BY <1>1, QueueAssumption DEF Slot
    <2>1. \A k, l \in 1 .. Len(mQueue') : mQueue'[k] = mQueue'[l] => k = l
      <3> SUFFICES ASSUME NEW k \in 1 .. n - 1, NEW l \in 1 .. n - 1,
                          mQueue[k + 1] = mQueue[l + 1]
                   PROVE  k = l
        BY <1>1
      <3>1. k + 1 \in 1 .. n /\ l + 1 \in 1 .. n
        BY <1>1
      <3>2. k + 1 = l + 1
        BY <3>1 DEF IndicesDiffer
      <3>3. QED BY <3>2
    <2>2. \A s \in Receiver : s # r => index'[s] = index[s]
      BY <1>2 DEF RefTypeOK
    <2>3. index'[r] = mQueue[1] /\ 1 \in 1 .. n
      BY <1>1, <1>2 DEF RefTypeOK
    <2>4. \A s, u \in Receiver : index'[s] # NoSlot /\ index'[s] = index'[u] => s = u
      BY <2>2, <2>3 DEF IndicesDiffer
    <2>5. \A s \in Receiver : \A k \in 1 .. Len(mQueue') : mQueue'[k] # index'[s]
      <3> SUFFICES ASSUME NEW s \in Receiver, NEW k \in 1 .. n - 1
                   PROVE  mQueue[k + 1] # index'[s]
        BY <1>1
      <3>1. k + 1 \in 1 .. n /\ k + 1 # 1
        BY <1>1
      <3>2. QED BY <2>2, <2>3, <3>1 DEF IndicesDiffer
    <2>6. QED BY <2>1, <2>4, <2>5 DEF IndicesDiffer
  <1>5. OccupiedIsKnown'
    <2> SUFFICES ASSUME NEW i \in Slot
                 PROVE  mIsUsed'[i] <=> \/ \E k \in 1 .. Len(mQueue') : mQueue'[k] = i
                                        \/ \E s \in Receiver : index'[s] = i
      BY DEF OccupiedIsKnown
    <2>0. (\E k \in 1 .. Len(mQueue') : mQueue'[k] = i) <=>
              \E k \in 1 .. n - 1 : mQueue[k + 1] = i
      BY <1>1
    <2>1. (\E s \in Receiver : index'[s] = i) <=>
              mQueue[1] = i \/ \E s \in Receiver : index[s] = i
      BY <1>1, <1>2, QueueAssumption DEF RefTypeOK, Slot
    <2>2. (\E k \in 1 .. n : mQueue[k] = i) <=>
              mQueue[1] = i \/ \E k \in 1 .. n - 1 : mQueue[k + 1] = i
      <3>1. ASSUME NEW k \in 1 .. n, mQueue[k] = i, k # 1
            PROVE  k - 1 \in 1 .. n - 1 /\ mQueue[(k - 1) + 1] = i
        BY <1>1, <3>1
      <3>2. ASSUME NEW k \in 1 .. n - 1 PROVE k + 1 \in 1 .. n
        BY <1>1
      <3>3. 1 \in 1 .. n
        BY <1>1
      <3>4. QED BY <3>1, <3>2, <3>3
    <2>3. mIsUsed[i] <=> \/ \E k \in 1 .. n : mQueue[k] = i
                         \/ \E s \in Receiver : index[s] = i
      BY DEF OccupiedIsKnown
    <2>4. QED BY <1>2, <2>0, <2>1, <2>2, <2>3
  <1>6. FreeSlotIsEmpty'
    BY <1>2 DEF FreeSlotIsEmpty
  <1>7. QED BY <1>3, <1>4, <1>5, <1>6

LEMMA ReceiveDataRefInv ==
    ASSUME RefInv, NEW r \in Receiver, ReceiveData(r)
    PROVE  RefInv'
  <1> USE DEF RefInv
  <1> DEFINE i == index[r]
  <1>1. i \in Slot /\ i # NoSlot
    BY DEF ReceiveData, Vacate, RefTypeOK
  <1>2. RefTypeOK'
    BY <1>1 DEF ReceiveData, Vacate, RefTypeOK
  <1>3. \A s \in Receiver : s # r => index[s] # i /\ index'[s] = index[s]
    BY <1>1 DEF ReceiveData, Vacate, IndicesDiffer, RefTypeOK
  <1>4. index'[r] = NoSlot /\ mQueue' = mQueue
    BY DEF ReceiveData, Vacate, RefTypeOK
  <1>10. \A k \in 1 .. Len(mQueue) : mQueue[k] \in Slot /\ mQueue[k] # NoSlot
    BY QueueAssumption DEF RefTypeOK, Slot
  <1>5. IndicesDiffer'
    BY <1>3, <1>4, <1>10 DEF IndicesDiffer
  <1>6. OccupiedIsKnown'
    <2>1. \A j \in Slot : mIsUsed'[j] = IF j = i THEN FALSE ELSE mIsUsed[j]
      BY <1>1 DEF ReceiveData, Vacate, RefTypeOK
    <2>2. ~ \E k \in 1 .. Len(mQueue) : mQueue[k] = i
      BY DEF IndicesDiffer
    <2>3. \A j \in Slot : (\E s \in Receiver : index'[s] = j) <=>
                j # i /\ \E s \in Receiver : index[s] = j
      BY <1>3, <1>4, QueueAssumption DEF Slot
    <2>4. QED BY <1>4, <2>1, <2>2, <2>3 DEF OccupiedIsKnown
  <1>7. FreeSlotIsEmpty'
    BY <1>1 DEF ReceiveData, Vacate, FreeSlotIsEmpty, RefTypeOK
  <1>8. QED BY <1>2, <1>5, <1>6, <1>7

LEMMA NextRefInv == RefInv /\ [RefNext]_refVars => RefInv'
  <1> SUFFICES ASSUME RefInv, [RefNext]_refVars PROVE RefInv'
    OBVIOUS
  <1>1. CASE UNCHANGED refVars
    BY <1>1 DEF refVars, RefInv, RefTypeOK, IndicesDiffer, OccupiedIsKnown, FreeSlotIsEmpty
  <1>2. QED BY <1>1, SendRefInv, ReceiveIndexRefInv, ReceiveDataRefInv DEF RefNext

(* The indices of the occupied slots are in circulation exactly once. *)
THEOREM RefInductive == RefSpec => []RefInv
  BY InitRefInv, NextRefInv, PTL DEF RefSpec
-----------------------------------------------------------------------------
(* The state of BoundedFifo that a state of the queue stands for. *)
items == [k \in 1 .. Len(mQueue) |-> mPointers[mQueue[k]]]
taken == [r \in Receiver |-> IF index[r] = NoSlot THEN mEmpty ELSE mPointers[index[r]]]

LEMMA ItemsType ==
    ASSUME RefInv
    PROVE  /\ items \in Seq(Value) /\ Len(items) = Len(mQueue) /\ Len(mQueue) \in Nat
           /\ \A k \in 1 .. Len(mQueue) : items[k] = mPointers[mQueue[k]]
           /\ \A r \in Receiver : index[r] # NoSlot => mPointers[index[r]] \in Value
  <1>1. \A k \in 1 .. Len(mQueue) : mQueue[k] \in Slot /\ mIsUsed[mQueue[k]]
    BY DEF RefInv, RefTypeOK, OccupiedIsKnown
  <1>2. \A k \in 1 .. Len(mQueue) : mPointers[mQueue[k]] \in Value
    BY <1>1 DEF RefInv, RefTypeOK, FreeSlotIsEmpty
  <1>3. \A r \in Receiver : index[r] # NoSlot => mPointers[index[r]] \in Value
    BY DEF RefInv, RefTypeOK, FreeSlotIsEmpty, OccupiedIsKnown
  <1>4. Len(mQueue) \in Nat
    BY DEF RefInv, RefTypeOK
  <1>5. QED BY <1>2, <1>3, <1>4 DEF items

LEMMA SendIsPut ==
    ASSUME RefInv, RefInv', NEW v \in Value, Send(v)
    PROVE  \/ Len(items) < NumberOfSlots /\ items' = Append(items, v) /\ taken' = taken /\ data' = data
           \/ items' = items /\ taken' = taken /\ data' = data
  <1>1. PICK i \in Slot :
            /\ Finds(i)
            /\ mLastSlot' = (i + 1) % NumberOfSlots
            /\ LET ok == Len(mQueue) < NumberOfSlots IN
                 /\ mQueue' = IF ok THEN Append(mQueue, i) ELSE mQueue
                 /\ mPointers' = [mPointers EXCEPT ![i] = IF ok THEN v ELSE mEmpty]
                 /\ mIsUsed' = [mIsUsed EXCEPT ![i] = ok]
                 /\ mItemsInQueue' = IF ok THEN mItemsInQueue + 1 ELSE mItemsInQueue
            /\ UNCHANGED <<index, data>>
    BY DEF Send, Fill, Following
  <1>2. /\ ~ mIsUsed[i]
        /\ \A k \in 1 .. Len(mQueue) : mQueue[k] # i
        /\ \A r \in Receiver : index[r] # i
    BY <1>1, FoundIsFree
  <1>3. mQueue \in Seq(Slot) /\ mPointers \in [Slot -> Value \cup {mEmpty}]
    BY DEF RefInv, RefTypeOK
  <1>4. \A r \in Receiver : index[r] # NoSlot => mPointers'[index[r]] = mPointers[index[r]]
    BY <1>1, <1>2, <1>3 DEF RefInv, RefTypeOK
  <1>5. taken' = taken
    BY <1>1, <1>4 DEF taken
  <1>6. CASE Len(mQueue) < NumberOfSlots
    <2>1. mQueue' = Append(mQueue, i) /\ mPointers' = [mPointers EXCEPT ![i] = v]
      BY <1>1, <1>6
    <2>2. /\ Len(mQueue') = Len(mQueue) + 1 /\ mQueue'[Len(mQueue) + 1] = i
          /\ Len(mQueue) \in Nat
          /\ \A k \in 1 .. Len(mQueue) : mQueue'[k] = mQueue[k] /\ mQueue[k] \in Slot
      BY <1>3, <2>1
    <2>3. /\ \A k \in 1 .. Len(mQueue) : items'[k] = items[k]
          /\ items'[Len(mQueue) + 1] = v
      BY <1>2, <1>3, <2>1, <2>2 DEF items
    <2>4. items' = Append(items, v)
      <3>2. items \in Seq(Value) /\ Len(items) = Len(mQueue)
        BY ItemsType
      <3>5. items' = [k \in 1 .. Len(mQueue) + 1 |-> mPointers'[mQueue'[k]]]
        BY <2>2 DEF items
      <3>6. \A k \in 1 .. Len(mQueue) + 1 : items'[k] \in Value
        BY <2>2, <2>3, <3>2
      <3>1. items' \in Seq(Value) /\ Len(items') = Len(mQueue) + 1
        BY <2>2, <3>5, <3>6
      <3>3. /\ Append(items, v) \in Seq(Value) /\ Len(Append(items, v)) = Len(mQueue) + 1
            /\ Append(items, v)[Len(mQueue) + 1] = v
            /\ \A k \in 1 .. Len(mQueue) : Append(items, v)[k] = items[k]
        BY <3>2
      <3>4. QED BY <2>2, <2>3, <3>1, <3>3
    <2>5. QED BY <1>1, <1>5, <1>6, <2>4, ItemsType
  <1>7. CASE ~ (Len(mQueue) < NumberOfSlots)
    <2>1. mQueue' = mQueue /\ mPointers' = mPointers
      BY <1>1, <1>2, <1>7 DEF RefInv, RefTypeOK, FreeSlotIsEmpty
    <2>2. QED BY <1>1, <1>5, <2>1 DEF items
  <1>8. QED BY <1>6, <1>7

LEMMA ReceiveIndexIsTake ==
    ASSUME RefInv, RefInv', NEW r \in Receiver, ReceiveIndex(r)
    PROVE  /\ taken[r] = mEmpty /\ items # << >>
           /\ taken' = [taken EXCEPT ![r] = Head(items)]
           /\ items' = Tail(items) /\ data' = data
  <1> DEFINE n == Len(mQueue)
  <1>1. /\ mQueue \in Seq(Slot) /\ mQueue # << >> /\ n \in Nat \ {0}
        /\ Head(mQueue) = mQueue[1] /\ Len(mQueue') = n - 1
        /\ \A k \in 1 .. n - 1 : mQueue'[k] = mQueue[k + 1]
    BY DEF ReceiveIndex, RefInv, RefTypeOK
  <1>2. items \in Seq(Value) /\ Len(items) = n
    BY ItemsType
  <1>3. items # << >> /\ Head(items) = mPointers[mQueue[1]]
    BY <1>1, <1>2, ItemsType
  <1>4. mQueue[1] # NoSlot
    BY <1>1, QueueAssumption DEF Slot
  <1>5. taken[r] = mEmpty
    BY DEF ReceiveIndex, taken
  <1>6. taken' = [taken EXCEPT ![r] = Head(items)]
    BY <1>1, <1>3, <1>4 DEF ReceiveIndex, taken, RefInv, RefTypeOK
  <1>7. items' = Tail(items)
    <2>2. \A k \in 1 .. n - 1 : items'[k] = items[k + 1]
      BY <1>1 DEF items, ReceiveIndex
    <2>6. items' = [k \in 1 .. n - 1 |-> mPointers'[mQueue'[k]]]
      BY <1>1 DEF items
    <2>7. \A k \in 1 .. n - 1 : items'[k] \in Value
      BY <1>1, <1>2, <2>2
    <2>1. items' \in Seq(Value) /\ Len(items') = n - 1
      BY <1>1, <2>6, <2>7
    <2>3. Tail(items) \in Seq(Value) /\ Len(Tail(items)) = n - 1
      BY <1>2, <1>3
    <2>4. \A k \in 1 .. n - 1 : Tail(items)[k] = items[k + 1]
      BY <1>2, <1>3
    <2>5. QED BY <2>1, <2>2, <2>3, <2>4
  <1>8. QED BY <1>3, <1>5, <1>6, <1>7 DEF ReceiveIndex

LEMMA ReceiveDataIsObtain ==
    ASSUME RefInv, RefInv', NEW r \in Receiver, ReceiveData(r)
    PROVE  /\ taken[r] # mEmpty
           /\ data' = [data EXCEPT ![r] = taken[r]]
           /\ taken' = [taken EXCEPT ![r] = mEmpty] /\ items' = items
  <1> DEFINE i == index[r]
  <1>1. i \in Slot /\ i # NoSlot /\ taken[r] = mPointers[i] /\ mPointers[i] \in Value
    BY ItemsType DEF ReceiveData, Vacate, RefInv, RefTypeOK, taken
  <1>2. \A j \in Slot : j # i => mPointers'[j] = mPointers[j]
    BY DEF ReceiveData, Vacate, RefInv, RefTypeOK
  <1>3. \A s \in Receiver : s # r => index[s] # i /\ index'[s] = index[s]
    BY <1>1 DEF ReceiveData, Vacate, RefInv, IndicesDiffer, RefTypeOK
  <1>4. \A s \in Receiver : s # r /\ index[s] # NoSlot =>
            mPointers'[index[s]] = mPointers[index[s]]
    BY <1>2, <1>3 DEF RefInv, RefTypeOK
  <1>5. taken' = [taken EXCEPT ![r] = mEmpty]
    <2>1. index'[r] = NoSlot
      BY DEF ReceiveData, Vacate, RefInv, RefTypeOK
    <2>2. QED BY <1>3, <1>4, <2>1 DEF taken
  <1>6. items' = items
    <2>1. mQueue' = mQueue /\ \A k \in 1 .. Len(mQueue) : mQueue[k] \in Slot /\ mQueue[k] # i
      BY DEF ReceiveData, Vacate, RefInv, IndicesDiffer, RefTypeOK
    <2>2. QED BY <1>2, <2>1 DEF items
  <1>7. QED BY <1>1, <1>5, <1>6, QueueAssumption DEF ReceiveData, Vacate

(* ReferenceQueue keeps the order of the values, delivers each of them to  *)
(* one receiver and loses none, for any number of slots and receivers:     *)
(* every step of send() and receive() is a step of BoundedFifo.            *)
THEOREM Refinement == RefSpec => FifoSpec
  <1>1. RefInit => Fifo!Init
    BY DEF RefInit, Fifo!Init
  <1>2. RefInv /\ RefInv' /\ [RefNext]_refVars => [Fifo!Next]_(Fifo!vars)
    <2> SUFFICES ASSUME RefInv, RefInv', [RefNext]_refVars PROVE [Fifo!Next]_(Fifo!vars)
      OBVIOUS
    <2>1. ASSUME NEW v \in Value, Send(v) PROVE [Fifo!Next]_(Fifo!vars)
      BY <2>1, SendIsPut DEF Fifo!Next, Fifo!Put, Fifo!vars, items, taken
    <2>2. ASSUME NEW r \in Receiver, ReceiveIndex(r) PROVE [Fifo!Next]_(Fifo!vars)
      BY <2>2, ReceiveIndexIsTake DEF Fifo!Next, Fifo!TakeOldest, items, taken
    <2>3. ASSUME NEW r \in Receiver, ReceiveData(r) PROVE [Fifo!Next]_(Fifo!vars)
      BY <2>3, ReceiveDataIsObtain DEF Fifo!Next, Fifo!Obtain, items, taken
    <2>4. CASE UNCHANGED refVars
      BY <2>4 DEF refVars, Fifo!vars
    <2>5. QED BY <2>1, <2>2, <2>3, <2>4 DEF RefNext
  <1>3. QED BY <1>1, <1>2, RefInductive, PTL DEF RefSpec, FifoSpec, Fifo!Spec

(* The state of the queue keeps its types. *)
THEOREM TypeCorrect == RefSpec => []RefTypeOK
  BY RefInductive, PTL DEF RefInv

(* A free slot never keeps a reference to a buffer alive. *)
THEOREM FreeSlotsHoldNothing == RefSpec => []FreeSlotIsEmpty
  BY RefInductive, PTL DEF RefInv
-----------------------------------------------------------------------------
(* An occupied slot is known to one place only, a free slot to none. *)
THEOREM SlotsHaveOneOwner == RefSpec => []SlotHasOneOwner
  <1>1. ASSUME RefInv PROVE SlotHasOneOwner
    <2> SUFFICES ASSUME NEW i \in Slot
                 PROVE  Cardinality(Queued(i)) + Cardinality(InHand(i))
                            = IF mIsUsed[i] THEN 1 ELSE 0
      BY DEF SlotHasOneOwner
    <2>1. i # NoSlot
      BY QueueAssumption DEF Slot
    <2>2. ~ mIsUsed[i] => Queued(i) = {} /\ InHand(i) = {}
      BY <1>1 DEF RefInv, OccupiedIsKnown, Queued, InHand
    <2>3. ASSUME NEW k \in 1 .. Len(mQueue), mQueue[k] = i
          PROVE  Queued(i) = {k} /\ InHand(i) = {} /\ mIsUsed[i]
      BY <1>1, <2>3 DEF RefInv, OccupiedIsKnown, IndicesDiffer, Queued, InHand
    <2>4. ASSUME NEW r \in Receiver, index[r] = i
          PROVE  InHand(i) = {r} /\ Queued(i) = {} /\ mIsUsed[i]
      BY <1>1, <2>1, <2>4 DEF RefInv, OccupiedIsKnown, IndicesDiffer, Queued, InHand
    <2>5. Cardinality({}) = 0 /\ \A x : Cardinality({x}) = 1
      BY FS_EmptySet, FS_Singleton
    <2>6. CASE ~ mIsUsed[i]
      BY <2>2, <2>5, <2>6
    <2>7. CASE \E k \in 1 .. Len(mQueue) : mQueue[k] = i
      <3>1. PICK k \in 1 .. Len(mQueue) : mQueue[k] = i
        BY <2>7
      <3>2. Queued(i) = {k} /\ InHand(i) = {} /\ mIsUsed[i]
        BY <2>3, <3>1
      <3>3. Cardinality({k}) = 1
        BY <2>5
      <3>4. QED BY <2>5, <3>2, <3>3
    <2>8. CASE \E r \in Receiver : index[r] = i
      <3>1. PICK r \in Receiver : index[r] = i
        BY <2>8
      <3>2. InHand(i) = {r} /\ Queued(i) = {} /\ mIsUsed[i]
        BY <2>4, <3>1
      <3>3. Cardinality({r}) = 1
        BY <2>5
      <3>4. QED BY <2>5, <3>2, <3>3
    <2>9. QED BY <1>1, <2>6, <2>7, <2>8 DEF RefInv, OccupiedIsKnown
  <1>2. QED BY <1>1, RefInductive, PTL

(* The rtos queue has room whenever send() has found a slot: it is as long *)
(* as there are slots, and its indices are all different.                  *)
THEOREM RtosQueueSuffices == RefSpec => []RtosQueueHasRoom
  <1>1. ASSUME RefInv PROVE RtosQueueHasRoom
    <2> SUFFICES ASSUME NEW i \in Slot, ~ mIsUsed[i] PROVE Len(mQueue) < NumberOfSlots
      BY DEF RtosQueueHasRoom
    <2> DEFINE n == Len(mQueue)
               S == Slot \ {i}
    <2>1. n \in Nat /\ mQueue \in [1 .. n -> Slot]
      BY <1>1 DEF RefInv, RefTypeOK
    <2>2. \A k \in 1 .. n : mQueue[k] # i
      BY <1>1 DEF RefInv, OccupiedIsKnown
    <2>3. mQueue \in [1 .. n -> S]
      BY <2>1, <2>2
    <2>4. mQueue \in Injection(1 .. n, S)
      <3>1. DOMAIN mQueue = 1 .. n
        BY <2>3
      <3>2. IsInjective(mQueue)
        BY <1>1, <3>1 DEF IsInjective, RefInv, IndicesDiffer
      <3>3. QED BY <2>3, <3>2 DEF Injection
    <2>5. IsFiniteSet(Slot) /\ Cardinality(Slot) = NumberOfSlots
      <3>1. NumberOfSlots \in Nat /\ 0 \in Int /\ NumberOfSlots - 1 \in Int /\ ~ (0 > NumberOfSlots - 1)
        BY QueueAssumption
      <3>2. IsFiniteSet(0 .. NumberOfSlots - 1) /\ Cardinality(0 .. NumberOfSlots - 1) = (NumberOfSlots - 1) - 0 + 1
        BY <3>1, FS_Interval
      <3>3. QED BY <3>1, <3>2 DEF Slot
    <2>6. IsFiniteSet(S) /\ Cardinality(S) = NumberOfSlots - 1
      BY <2>5, FS_RemoveElement
    <2>7. Cardinality(1 .. n) <= Cardinality(S)
      BY <2>4, <2>6, FS_Injection
    <2>8. Cardinality(1 .. n) = n
      BY <2>1, FS_Interval, SMTT(30)
    <2>9. QED BY <2>1, <2>6, <2>7, <2>8, QueueAssumption
  <1>2. QED BY <1>1, RefInductive, PTL

(* getNumberOfItems(), isFull() and isEmpty() agree. *)
THEOREM ItemsAreCounted == RefSpec => []ItemsCounted
  <1> DEFINE Used == {i \in Slot : mIsUsed[i]}
  <1>0. IsFiniteSet(Slot)
    BY FS_Interval, QueueAssumption DEF Slot
  <1>1. RefInit => ItemsCounted
    <2>1. RefInit => Used = {}
      BY DEF RefInit
    <2>2. QED BY <2>1, FS_EmptySet DEF RefInit, ItemsCounted
  <1>2. ASSUME RefInv, ItemsCounted, [RefNext]_refVars PROVE ItemsCounted'
    <2>0. IsFiniteSet(Used) /\ mItemsInQueue = Cardinality(Used)
      BY <1>0, <1>2, FS_Subset DEF ItemsCounted
    <2>1. ASSUME NEW v \in Value, Send(v) PROVE ItemsCounted'
      <3>1. PICK i \in Slot :
              /\ Finds(i)
              /\ LET ok == Len(mQueue) < NumberOfSlots IN
                   /\ mIsUsed' = [mIsUsed EXCEPT ![i] = ok]
                   /\ mItemsInQueue' = IF ok THEN mItemsInQueue + 1 ELSE mItemsInQueue
        BY <2>1 DEF Send, Fill, Following
      <3>2. ~ mIsUsed[i]
        BY <1>2, <3>1, FoundIsFree
      <3>3. CASE Len(mQueue) < NumberOfSlots
        <4>1. Used' = Used \cup {i} /\ i \notin Used
          BY <1>2, <3>1, <3>2, <3>3 DEF RefInv, RefTypeOK
        <4>2. Cardinality(Used \cup {i}) = Cardinality(Used) + 1
          BY <2>0, <4>1, FS_AddElement
        <4>3. QED BY <2>0, <3>1, <3>3, <4>1, <4>2 DEF ItemsCounted
      <3>4. CASE ~ (Len(mQueue) < NumberOfSlots)
        <4>1. Used' = Used
          BY <1>2, <3>1, <3>2, <3>4 DEF RefInv, RefTypeOK
        <4>2. QED BY <2>0, <3>1, <3>4, <4>1 DEF ItemsCounted
      <3>5. QED BY <3>3, <3>4
    <2>2. ASSUME NEW r \in Receiver, ReceiveIndex(r) PROVE ItemsCounted'
      BY <1>2, <2>2 DEF ReceiveIndex, ItemsCounted
    <2>3. ASSUME NEW r \in Receiver, ReceiveData(r) PROVE ItemsCounted'
      <3>1. index[r] \in Slot /\ mIsUsed[index[r]]
        BY <1>2, <2>3 DEF ReceiveData, Vacate, RefInv, RefTypeOK, OccupiedIsKnown
      <3>2. Used' = Used \ {index[r]} /\ index[r] \in Used
        BY <1>2, <2>3, <3>1 DEF ReceiveData, Vacate, RefInv, RefTypeOK
      <3>3. Cardinality(Used \ {index[r]}) = Cardinality(Used) - 1
        BY <2>0, <3>2, FS_RemoveElement, SMTT(30)
      <3>4. QED BY <2>0, <2>3, <3>2, <3>3 DEF ReceiveData, Vacate, ItemsCounted
    <2>4. CASE UNCHANGED refVars
      BY <1>2, <2>4 DEF refVars, ItemsCounted
    <2>5. QED BY <1>2, <2>1, <2>2, <2>3, <2>4 DEF RefNext
  <1>3. QED BY <1>1, <1>2, RefInductive, PTL DEF RefSpec

(* Slots, index queue and counter of ReferenceQueue agree at every step of *)
(* send() and receive(), for any number of slots and receivers.            *)
THEOREM SlotsAreAccounted == RefSpec => []SlotsAccounted
  BY TypeCorrect, SlotsHaveOneOwner, FreeSlotsHoldNothing, ItemsAreCounted,
     RtosQueueSuffices, PTL DEF SlotsAccounted
-----------------------------------------------------------------------------
(* The slots in use are the ones filled last, the indices in the rtos      *)
(* queue are ordered by age, and those of the receivers are older.         *)
Ordered ==
    /\ \A i, j \in Slot : mIsUsed[i] /\ Age(j) < Age(i) => mIsUsed[j]
    /\ \A k, l \in 1 .. Len(mQueue) : k < l => Age(mQueue[l]) < Age(mQueue[k])
    /\ \A r \in Receiver : index[r] # NoSlot =>
         \A k \in 1 .. Len(mQueue) : Age(mQueue[k]) < Age(index[r])

LEMMA AgeOf ==
    ASSUME NEW n \in Nat \ {0}, NEW m \in 0 .. n - 1, NEW i \in 0 .. n - 1
    PROVE  /\ (m - 1 - i) % n \in 0 .. n - 1
           /\ (m - 1 - i) % n = IF i < m THEN m - 1 - i ELSE m - 1 - i + n
<1> DEFINE d == m - 1 - i
<1>1. CASE i < m
  <2>1. d \in 0 .. n - 1
    BY <1>1
  <2>2. d % n = d
    BY <2>1
  <2> QED BY <1>1, <2>1, <2>2
<1>2. CASE ~ (i < m)
  <2>1. d + n \in 0 .. n - 1 /\ d \in Int
    BY <1>2
  <2> HIDE DEF d
  <2>2. d % n = d + n
    BY <2>1, SMTT(20)
  <2> QED BY <1>2, <2>1, <2>2 DEF d
<1> QED BY <1>1, <1>2

LEMMA AgeValue ==
    ASSUME RefTypeOK, NEW i \in Slot
    PROVE  /\ Age(i) \in 0 .. NumberOfSlots - 1
           /\ Age(i) = IF i < mLastSlot THEN mLastSlot - 1 - i
                       ELSE mLastSlot - 1 - i + NumberOfSlots
  BY AgeOf, QueueAssumption DEF RefTypeOK, Slot, Age

(* With the slots in order the search of send() ends at its first slot. *)
LEMMA FirstIsFree ==
    ASSUME RefInv, Ordered, NEW i \in Slot, ~ mIsUsed[i]
    PROVE  mLastSlot \in Slot /\ ~ mIsUsed[mLastSlot]
<1>1. RefTypeOK /\ mLastSlot \in Slot /\ NumberOfSlots \in Nat \ {0}
      /\ Slot = 0 .. NumberOfSlots - 1
  BY QueueAssumption DEF RefInv, RefTypeOK, Slot
<1>2. Age(mLastSlot) = NumberOfSlots - 1
  <2>1. ~ (mLastSlot < mLastSlot) /\ mLastSlot - 1 - mLastSlot + NumberOfSlots = NumberOfSlots - 1
    BY <1>1
  <2> QED BY <1>1, <2>1, AgeValue
<1>3. i # mLastSlot => Age(i) < NumberOfSlots - 1
  <2>1. Age(i) = IF i < mLastSlot THEN mLastSlot - 1 - i ELSE mLastSlot - 1 - i + NumberOfSlots
    BY <1>1, AgeValue
  <2> QED BY <1>1, <2>1
<1> QED BY <1>1, <1>2, <1>3 DEF Ordered

LEMMA FirstTried ==
    ASSUME RefTypeOK
    PROVE  Tried(0) = mLastSlot /\ NumTried \in Nat /\ NumTried >= 1
<1>1. NumberOfSlots \in Nat \ {0} /\ mLastSlot \in 0 .. NumberOfSlots - 1 /\ SizeMax \in Nat
  BY QueueAssumption DEF RefTypeOK, Slot
<1>2. Tried(0) = mLastSlot
  BY <1>1 DEF Tried
<1>3. endSearch \in Int
  BY <1>1 DEF endSearch
<1>4. (endSearch - mLastSlot) % NumberOfSlots \in Nat
  BY <1>1, <1>3
<1>5. NumTried \in Nat /\ NumTried >= 1
  BY <1>1, <1>4 DEF NumTried
<1> QED BY <1>2, <1>5

LEMMA SendKeepsOrder ==
    ASSUME RefInv, RtosQueueHasRoom, Ordered, NEW v \in Value, Send(v)
    PROVE  Ordered'
<1>1. PICK i \in Slot :
        /\ Finds(i)
        /\ mLastSlot' = (i + 1) % NumberOfSlots
        /\ LET ok == Len(mQueue) < NumberOfSlots IN
             /\ mQueue' = IF ok THEN Append(mQueue, i) ELSE mQueue
             /\ mIsUsed' = [mIsUsed EXCEPT ![i] = ok]
        /\ UNCHANGED <<index, data>>
  BY DEF Send, Fill, Following
<1>2. /\ ~ mIsUsed[i] /\ \A k \in 1 .. Len(mQueue) : mQueue[k] # i
      /\ \A r \in Receiver : index[r] # i
  BY <1>1, FoundIsFree
<1>3. Len(mQueue) < NumberOfSlots
  BY <1>2 DEF RtosQueueHasRoom
<1>4. i = mLastSlot
  <2>1. PICK k \in 0 .. NumTried - 1 : i = Tried(k) /\ \A j \in 0 .. k - 1 : mIsUsed[Tried(j)]
    BY <1>1 DEF Finds
  <2>2. Tried(0) = mLastSlot /\ NumTried \in Nat /\ ~ mIsUsed[mLastSlot]
    BY <1>2, FirstIsFree, FirstTried DEF RefInv
  <2>3. ~ (k > 0)
    BY <2>1, <2>2
  <2>4. k = 0
    BY <2>1, <2>2, <2>3
  <2> QED BY <2>1, <2>2, <2>4
<1>5. RefInv' /\ RefTypeOK /\ RefTypeOK'
  BY SendRefInv DEF RefInv
<1>6. NumberOfSlots \in Nat \ {0} /\ Slot = 0 .. NumberOfSlots - 1
  BY QueueAssumption DEF Slot
<1>7. mLastSlot' = IF i = NumberOfSlots - 1 THEN 0 ELSE i + 1
  BY <1>1, <1>6
<1> DEFINE New(x) == (mLastSlot' - 1 - x) % NumberOfSlots
<1>0. \A x \in Slot : New(x) = IF x < mLastSlot' THEN mLastSlot' - 1 - x
                                ELSE mLastSlot' - 1 - x + NumberOfSlots
  BY <1>5, <1>6, AgeOf DEF RefTypeOK
<1> HIDE DEF New
<1>8. New(i) = 0
  BY <1>0, <1>6, <1>7
<1>9. \A j \in Slot : j # i => New(j) = Age(j) + 1 /\ Age(j) \in Nat
  <2> SUFFICES ASSUME NEW j \in Slot, j # i PROVE New(j) = Age(j) + 1 /\ Age(j) \in Nat
    OBVIOUS
  <2>1. New(j) = IF j < mLastSlot' THEN mLastSlot' - 1 - j ELSE mLastSlot' - 1 - j + NumberOfSlots
    BY <1>0
  <2>2. Age(j) = IF j < mLastSlot THEN mLastSlot - 1 - j ELSE mLastSlot - 1 - j + NumberOfSlots
    BY <1>5, AgeValue
  <2>3. Age(j) \in Nat
    BY <1>4, <1>6, <2>2
  <2> QED BY <1>4, <1>6, <1>7, <2>1, <2>2, <2>3
<1>10. \A a, b \in Slot : (mIsUsed'[a] /\ New(b) < New(a)) => mIsUsed'[b]
  <2> SUFFICES ASSUME NEW a \in Slot, NEW b \in Slot, mIsUsed'[a], New(b) < New(a), b # i
               PROVE  mIsUsed'[b]
    BY <1>1, <1>3 DEF RefInv, RefTypeOK
  <2>1. a # i
    BY <1>8, <1>9
  <2>2. Age(b) < Age(a) /\ mIsUsed[a]
    BY <1>1, <1>9, <2>1 DEF RefInv, RefTypeOK
  <2> QED BY <1>1, <2>2 DEF Ordered, RefInv, RefTypeOK
<1> DEFINE n == Len(mQueue)
<1>11. /\ n \in Nat /\ Len(mQueue') = n + 1 /\ mQueue'[n + 1] = i
       /\ \A k \in 1 .. n : mQueue'[k] = mQueue[k] /\ mQueue[k] \in Slot
  BY <1>1, <1>3 DEF RefInv, RefTypeOK
<1> HIDE DEF n
<1>12. \A k \in 1 .. n : New(mQueue'[k]) = Age(mQueue[k]) + 1 /\ Age(mQueue[k]) \in Nat
  <2> SUFFICES ASSUME NEW k \in 1 .. n
               PROVE  New(mQueue'[k]) = Age(mQueue[k]) + 1 /\ Age(mQueue[k]) \in Nat
    OBVIOUS
  <2>1. mQueue[k] \in Slot /\ mQueue[k] # i /\ mQueue'[k] = mQueue[k]
    BY <1>2, <1>11 DEF n
  <2> QED BY <1>9, <2>1
<1>13. \A k, l \in 1 .. Len(mQueue') : k < l => New(mQueue'[l]) < New(mQueue'[k])
  <2> SUFFICES ASSUME NEW k \in 1 .. Len(mQueue'), NEW l \in 1 .. Len(mQueue'), k < l
               PROVE  New(mQueue'[l]) < New(mQueue'[k])
    OBVIOUS
  <2>1. k \in 1 .. n /\ (l \in 1 .. n \/ l = n + 1)
    BY <1>11
  <2>2. CASE l \in 1 .. n
    <3>1. Age(mQueue[l]) < Age(mQueue[k])
      BY <2>1, <2>2 DEF Ordered, n
    <3> QED BY <1>12, <2>1, <2>2, <3>1
  <2>3. CASE l = n + 1
    BY <1>8, <1>11, <1>12, <2>1, <2>3
  <2> QED BY <2>1, <2>2, <2>3
<1>14. ASSUME NEW r \in Receiver, index[r] # NoSlot, NEW k \in 1 .. Len(mQueue')
       PROVE  New(mQueue'[k]) < New(index[r])
  <2>1. index[r] \in Slot /\ index[r] # i
    BY <1>2, <1>14 DEF RefInv, RefTypeOK
  <2>2. CASE k \in 1 .. n
    <3>1. Age(mQueue[k]) < Age(index[r])
      BY <1>14, <2>2 DEF Ordered, n
    <3> QED BY <1>9, <1>12, <2>1, <2>2, <3>1
  <2>3. CASE k = n + 1
    BY <1>8, <1>9, <1>11, <2>1, <2>3
  <2> QED BY <1>11, <2>2, <2>3
<1> QED BY <1>1, <1>10, <1>13, <1>14 DEF Ordered, Age, New

LEMMA ReceiveIndexKeepsOrder ==
    ASSUME RefInv, Ordered, NEW r \in Receiver, ReceiveIndex(r)
    PROVE  Ordered'
<1>1. /\ mQueue # << >> /\ mQueue' = Tail(mQueue)
      /\ index' = [index EXCEPT ![r] = Head(mQueue)]
      /\ UNCHANGED <<mPointers, mIsUsed, mItemsInQueue, mLastSlot, data>>
  BY DEF ReceiveIndex
<1> DEFINE n == Len(mQueue)
<1>2. /\ n \in Nat \ {0} /\ Head(mQueue) = mQueue[1] /\ Len(mQueue') = n - 1
      /\ \A k \in 1 .. n - 1 : mQueue'[k] = mQueue[k + 1] /\ k + 1 \in 1 .. n
  BY <1>1 DEF RefInv, RefTypeOK
<1> HIDE DEF n
<1>3. \A i : Age(i)' = Age(i)
  BY <1>1 DEF Age
<1>4. \A s \in Receiver : index'[s] = IF s = r THEN mQueue[1] ELSE index[s]
  BY <1>1, <1>2 DEF RefInv, RefTypeOK
<1>5. \A k, l \in 1 .. n - 1 : k < l => Age(mQueue'[l]) < Age(mQueue'[k])
  <2> SUFFICES ASSUME NEW k \in 1 .. n - 1, NEW l \in 1 .. n - 1, k < l
               PROVE  Age(mQueue'[l]) < Age(mQueue'[k])
    OBVIOUS
  <2>1. k + 1 \in 1 .. n /\ l + 1 \in 1 .. n /\ k + 1 < l + 1
    BY <1>2
  <2> QED BY <1>2, <2>1 DEF Ordered, n
<1>6. \A k \in 1 .. n - 1 : Age(mQueue'[k]) < Age(mQueue[1])
  <2> SUFFICES ASSUME NEW k \in 1 .. n - 1 PROVE Age(mQueue'[k]) < Age(mQueue[1])
    OBVIOUS
  <2>1. 1 \in 1 .. n /\ k + 1 \in 1 .. n /\ 1 < k + 1
    BY <1>2
  <2> QED BY <1>2, <2>1 DEF Ordered, n
<1>7. \A s \in Receiver : index'[s] # NoSlot =>
        \A k \in 1 .. n - 1 : Age(mQueue'[k]) < Age(index'[s])
  BY <1>2, <1>4, <1>6 DEF Ordered, n
<1>8. \A i, j \in Slot : mIsUsed'[i] /\ Age(j) < Age(i) => mIsUsed'[j]
  BY <1>1 DEF Ordered
<1> QED BY <1>2, <1>3, <1>5, <1>7, <1>8 DEF Ordered

LEMMA ReceiveDataKeepsOrder ==
    ASSUME RefInv, Ordered, NEW r \in Receiver, ReceiveData(r), ~ Overtakes(r)
    PROVE  Ordered'
<1> DEFINE i == index[r]
<1>1. /\ i # NoSlot /\ index' = [index EXCEPT ![r] = NoSlot]
      /\ mIsUsed' = [mIsUsed EXCEPT ![i] = FALSE]
      /\ UNCHANGED <<mLastSlot, mQueue>>
  BY DEF ReceiveData, Vacate
<1>2. i \in Slot
  BY <1>1 DEF RefInv, RefTypeOK
<1>3. \A x : Age(x)' = Age(x)
  BY <1>1 DEF Age
<1>4. ASSUME NEW a \in Slot, NEW b \in Slot, mIsUsed'[a], Age(b) < Age(a) PROVE mIsUsed'[b]
  <2>1. a # i /\ mIsUsed[a] /\ mIsUsed[b]
    BY <1>1, <1>2, <1>4 DEF Ordered, RefInv, RefTypeOK
  <2>2. Age(a) \in Nat /\ Age(i) \in Nat
    BY <1>2, AgeValue, QueueAssumption DEF RefInv
  <2>3. ~ (Age(i) < Age(a))
    <3>1. CASE \E k \in 1 .. Len(mQueue) : mQueue[k] = a
      <4>1. Age(a) < Age(i)
        BY <1>1, <3>1 DEF Ordered
      <4> QED BY <2>2, <4>1
    <3>2. CASE \E q \in Receiver : index[q] = a
      <4>1. PICK q \in Receiver : index[q] = a
        BY <3>2
      <4>2. a # NoSlot
        BY QueueAssumption DEF Slot
      <4>3. ~ (Age(a) > Age(i))
        BY <4>1, <4>2 DEF Overtakes
      <4> QED BY <2>2, <4>3
    <3> QED BY <2>1, <3>1, <3>2 DEF RefInv, OccupiedIsKnown
  <2>4. b # i
    BY <1>4, <2>3
  <2> QED BY <1>1, <2>1, <2>4 DEF RefInv, RefTypeOK
<1>5. \A s \in Receiver : index'[s] # NoSlot => index'[s] = index[s]
  BY <1>1 DEF RefInv, RefTypeOK
<1>6. \A s \in Receiver : index'[s] # NoSlot =>
        \A k \in 1 .. Len(mQueue) : Age(mQueue[k]) < Age(index'[s])
  BY <1>5 DEF Ordered
<1>7. \A k, l \in 1 .. Len(mQueue) : k < l => Age(mQueue[l]) < Age(mQueue[k])
  BY DEF Ordered
<1> HIDE DEF i
<1> QED BY <1>1, <1>3, <1>4, <1>6, <1>7 DEF Ordered

LEMMA InitOrdered == RefInit => Ordered
<1> SUFFICES ASSUME RefInit PROVE Ordered
  OBVIOUS
<1>1. Len(mQueue) = 0 /\ mIsUsed = [i \in Slot |-> FALSE]
  BY DEF RefInit
<1> QED BY <1>1 DEF Ordered

LEMMA OrderedFinds ==
    ASSUME RefInv, ItemsCounted, Ordered
    PROVE  SendFindsSlotUnlessFull
<1>1. CASE \A i \in Slot : mIsUsed[i]
  <2>1. {i \in Slot : mIsUsed[i]} = Slot
    BY <1>1
  <2>2. Cardinality(Slot) = NumberOfSlots
    <3>1. NumberOfSlots \in Nat /\ 0 \in Int /\ NumberOfSlots - 1 \in Int /\ ~ (0 > NumberOfSlots - 1)
      BY QueueAssumption
    <3>2. Cardinality(0 .. NumberOfSlots - 1) = (NumberOfSlots - 1) - 0 + 1
      BY <3>1, FS_Interval
    <3> QED BY <3>1, <3>2 DEF Slot
  <2> QED BY <2>1, <2>2 DEF ItemsCounted, SendFindsSlotUnlessFull
<1>2. CASE \E i \in Slot : ~ mIsUsed[i]
  <2>1. mLastSlot \in Slot /\ ~ mIsUsed[mLastSlot]
    BY <1>2, FirstIsFree
  <2>2. Tried(0) = mLastSlot /\ NumTried \in Nat /\ NumTried >= 1
    BY FirstTried DEF RefInv
  <2>3. 0 \in 0 .. NumTried - 1 /\ \A j \in 0 .. 0 - 1 : mIsUsed[Tried(j)]
    BY <2>2
  <2>4. Finds(mLastSlot)
    BY <2>1, <2>2, <2>3 DEF Finds
  <2> QED BY <2>1, <2>4 DEF SendFindsSlotUnlessFull
<1> QED BY <1>1, <1>2

(* As long as the receivers empty the slots in order, send() finds a slot  *)
(* unless all are in use, for any number of slots and receivers.           *)
THEOREM InOrderSendFinds == OrderSpec => []InOrderFindsSlot
<1> DEFINE I == inOrder => Ordered
<1>1. OrderSpec => RefSpec
  <2>1. [OrderNext]_orderVars => [RefNext]_refVars
    BY DEF OrderNext, orderVars
  <2>2. OrderInit => RefInit
    BY DEF OrderInit
  <2> QED BY <2>1, <2>2, PTL DEF OrderSpec, RefSpec
<1>2. OrderInit => I
  BY InitOrdered DEF OrderInit
<1>3. ASSUME RefInv, RtosQueueHasRoom, I, [OrderNext]_orderVars PROVE I'
  <2> SUFFICES ASSUME inOrder' PROVE Ordered'
    OBVIOUS
  <2>1. ASSUME NEW v \in Value, Send(v), OrderNext PROVE Ordered'
    BY <1>3, <2>1, SendKeepsOrder DEF OrderNext
  <2>2. ASSUME NEW r \in Receiver, ReceiveIndex(r), OrderNext PROVE Ordered'
    BY <1>3, <2>2, ReceiveIndexKeepsOrder DEF OrderNext
  <2>3. ASSUME NEW r \in Receiver, ReceiveData(r), OrderNext PROVE Ordered'
    <3>1. index[r] # NoSlot /\ index'[r] = NoSlot
      BY <1>3, <2>3 DEF ReceiveData, RefInv, RefTypeOK
    <3>2. inOrder /\ ~ Overtakes(r)
      BY <2>3, <3>1 DEF OrderNext
    <3> QED BY <1>3, <2>3, <3>2, ReceiveDataKeepsOrder
  <2>4. CASE UNCHANGED orderVars
    BY <1>3, <2>4 DEF orderVars, refVars, Ordered, Age
  <2> QED BY <1>3, <2>1, <2>2, <2>3, <2>4 DEF OrderNext, RefNext
<1>4. RefInv /\ ItemsCounted /\ I => InOrderFindsSlot
  BY OrderedFinds DEF InOrderFindsSlot
<1> QED BY <1>1, <1>2, <1>3, <1>4, RefInductive, RtosQueueSuffices, ItemsAreCounted, PTL
        DEF OrderSpec

(* With one receiver send() finds a slot unless the queue is full, as the  *)
(* documentation of ReferenceQueue has it.                                 *)
THEOREM OneReceiverSendFinds ==
    ASSUME \A r, s \in Receiver : r = s
    PROVE  RefSpec => []SendFindsSlotUnlessFull
<1>1. ASSUME RefInv, RtosQueueHasRoom, Ordered, [RefNext]_refVars PROVE Ordered'
  <2>1. ASSUME NEW r \in Receiver, ReceiveData(r) PROVE Ordered'
    <3>1. index[r] \in Slot
      BY <1>1, <2>1 DEF ReceiveData, RefInv, RefTypeOK
    <3>2. Age(index[r]) \in Nat
      BY <1>1, <3>1, AgeValue, QueueAssumption DEF RefInv
    <3>3. ~ (Age(index[r]) > Age(index[r]))
      BY <3>2
    <3>4. ~ Overtakes(r)
      BY <3>3 DEF Overtakes
    <3> QED BY <1>1, <2>1, <3>4, ReceiveDataKeepsOrder
  <2>2. CASE UNCHANGED refVars
    BY <1>1, <2>2 DEF refVars, Ordered, Age
  <2> QED BY <1>1, <2>1, <2>2, SendKeepsOrder, ReceiveIndexKeepsOrder DEF RefNext
<1>2. RefInv /\ ItemsCounted /\ Ordered => SendFindsSlotUnlessFull
  BY OrderedFinds
<1> QED BY <1>1, <1>2, InitOrdered, RefInductive, RtosQueueSuffices, ItemsAreCounted, PTL
        DEF RefSpec
-----------------------------------------------------------------------------
(* The double ended queue *)

(* mHead is mSize - 1 cells after mTail, also when the Deque is empty.     *)
(* Only a Deque of one cell has its front behind the buffer.               *)
EndsAgree ==
    \/ mTail + mSize = mHead + 1
    \/ mTail + mSize = mHead + 1 + mMaxSize
    \/ mTail = 0 /\ mSize = 0 /\ mHead + 1 = mMaxSize
DequeInv ==
    /\ mMaxSize \in Sizes
    /\ DequeTypeOK
    /\ EndsAgree
    /\ mMaxSize >= 2 => mTail < mMaxSize
    /\ \A k \in 1 .. mSize : mBuffer[(mTail + k - 1) % mMaxSize] \in Element

Contents == [k \in 1 .. mSize |-> mBuffer[(mTail + k - 1) % mMaxSize]]

(* The cell of the k-th element. *)
LEMMA CellPosition ==
    ASSUME NEW n \in Nat \ {0}, NEW t \in 0 .. n, NEW k \in 1 .. n
    PROVE  /\ (t + k - 1) % n \in 0 .. n - 1
           /\ (t + k - 1) % n = IF t + k - 1 >= n THEN t + k - 1 - n ELSE t + k - 1
<1> DEFINE i == t + k - 1
<1>0. i \in 0 .. 2 * n - 1
  OBVIOUS
<1> HIDE DEF i
<1>1. CASE i < n
  <2>1. i % n = i
    BY <1>0, <1>1
  <2> QED BY <1>0, <1>1, <2>1 DEF i
<1>2. CASE i >= n
  <2>1. i = n * 1 + (i - n) /\ i - n \in 0 .. n - 1
    BY <1>0, <1>2
  <2>2. i % n = i - n
    BY <1>0, <1>2, <2>1
  <2> QED BY <1>0, <1>2, <2>1, <2>2 DEF i
<1> QED BY <1>0, <1>1, <1>2

LEMMA DequeTypes ==
    ASSUME DequeInv
    PROVE  /\ mMaxSize \in Nat \ {0} /\ mHead \in 0 .. mMaxSize - 1
           /\ mTail \in 0 .. mMaxSize /\ mSize \in 0 .. mMaxSize
           /\ \A k \in 1 .. mMaxSize :
                /\ (mTail + k - 1) % mMaxSize \in 0 .. mMaxSize - 1
                /\ (mTail + k - 1) % mMaxSize =
                     IF mTail + k - 1 >= mMaxSize THEN mTail + k - 1 - mMaxSize
                     ELSE mTail + k - 1
           /\ mBuffer \in [0 .. mMaxSize - 1 -> Element \cup {NoValue}]
           /\ EndsAgree
           /\ Contents \in Seq(Element) /\ Len(Contents) = mSize
           /\ \A k \in 1 .. mSize : Contents[k] = mBuffer[(mTail + k - 1) % mMaxSize]
<1>1. /\ mMaxSize \in Nat \ {0} /\ mHead \in 0 .. mMaxSize - 1
      /\ mTail \in 0 .. mMaxSize /\ mSize \in 0 .. mMaxSize
      /\ mBuffer \in [0 .. mMaxSize - 1 -> Element \cup {NoValue}]
      /\ EndsAgree
  BY DequeAssumption DEF DequeInv, DequeTypeOK
<1>2. ASSUME NEW k \in 1 .. mMaxSize
      PROVE  /\ (mTail + k - 1) % mMaxSize \in 0 .. mMaxSize - 1
             /\ (mTail + k - 1) % mMaxSize =
                  IF mTail + k - 1 >= mMaxSize THEN mTail + k - 1 - mMaxSize
                  ELSE mTail + k - 1
  BY <1>1, CellPosition
<1>3. Contents \in [1 .. mSize -> Element]
  BY <1>1 DEF Contents, DequeInv
<1>4. mSize \in Nat
  BY <1>1
<1>5. Contents \in Seq(Element) /\ Len(Contents) = mSize
  BY <1>3, <1>4
<1>6. \A k \in 1 .. mSize : Contents[k] = mBuffer[(mTail + k - 1) % mMaxSize]
  BY DEF Contents
<1> QED BY <1>1, <1>2, <1>5, <1>6

(* Two Deques with the same elements hold the same sequence. *)
LEMMA SameContents ==
    ASSUME DequeInv', NEW s \in Seq(Element), Len(s) = mSize',
           \A k \in 1 .. mSize' : (mBuffer[(mTail + k - 1) % mMaxSize])' = s[k]
    PROVE  Contents' = s
<1>1. s = [k \in 1 .. Len(s) |-> s[k]]
  OBVIOUS
<1>2. Contents' = [k \in 1 .. mSize' |-> (mBuffer[(mTail + k - 1) % mMaxSize])']
  BY DEF Contents
<1> QED BY <1>1, <1>2
-----------------------------------------------------------------------------
LEMMA DequeInitInv == DequeInit => DequeInv
<1> SUFFICES ASSUME DequeInit PROVE DequeInv
  OBVIOUS
<1>1. mMaxSize \in Nat \ {0} /\ mHead = 0 /\ mTail = 1 /\ mSize = 0
  BY DequeAssumption DEF DequeInit
<1>2. DequeTypeOK
  BY <1>1 DEF DequeInit, DequeTypeOK
<1> QED BY <1>1, <1>2 DEF DequeInit, DequeInv, EndsAgree

LEMMA AppendStep ==
    ASSUME DequeInv, NEW v \in Element, append(v)
    PROVE  DequeInv' /\ Contents' = Append(Contents, v)
<1> DEFINE n == mMaxSize
           cell(k) == (mTail + k - 1) % mMaxSize
<1>1. /\ n \in Nat \ {0} /\ mHead \in 0 .. n - 1 /\ mTail \in 0 .. n /\ mSize \in 0 .. n
      /\ mSize # n
      /\ mHead' = IF mHead >= n - 1 THEN 0 ELSE mHead + 1
      /\ mSize' = mSize + 1 /\ mTail' = mTail /\ mMaxSize' = n
  BY DequeTypes DEF append, isFull, StepUp
<1>2. mBuffer' = [mBuffer EXCEPT ![mHead'] = v] /\ mHead' \in 0 .. n - 1
  BY <1>1 DEF append
<1>3. \A k \in 1 .. n : cell(k) \in 0 .. n - 1
                        /\ cell(k) = IF mTail + k - 1 >= n THEN mTail + k - 1 - n ELSE mTail + k - 1
  BY DequeTypes
<1>4. EndsAgree' /\ mHead' = cell(mSize + 1)
  <2>1. EndsAgree'
    BY <1>1, DequeTypes DEF EndsAgree
  <2>2. mSize + 1 \in 1 .. n
    BY <1>1
  <2>3. cell(mSize + 1) = IF mTail + mSize >= n THEN mTail + mSize - n ELSE mTail + mSize
    <3>1. mTail + (mSize + 1) - 1 = mTail + mSize
      BY <1>1
    <3> QED BY <1>1, <1>3, <2>2, <3>1
  <2>4. mHead' = IF mTail + mSize >= n THEN mTail + mSize - n ELSE mTail + mSize
    BY <1>1, DequeTypes DEF EndsAgree
  <2> QED BY <2>1, <2>3, <2>4
<1>5. \A k \in 1 .. mSize : cell(k) # cell(mSize + 1)
  <2> HIDE DEF cell
  <2> SUFFICES ASSUME NEW k \in 1 .. mSize PROVE cell(k) # cell(mSize + 1)
    OBVIOUS
  <2>1. k \in 1 .. n /\ mSize + 1 \in 1 .. n
    BY <1>1
  <2> QED BY <1>1, <1>3, <2>1
<1>6. mBuffer \in [0 .. n - 1 -> Element \cup {NoValue}]
      /\ Contents \in Seq(Element) /\ Len(Contents) = mSize
      /\ \A k \in 1 .. mSize : Contents[k] = mBuffer[cell(k)]
  BY DequeTypes
<1>7. \A k \in 1 .. mSize + 1 : mBuffer'[cell(k)] = Append(Contents, v)[k]
  <2> HIDE DEF cell
  <2> SUFFICES ASSUME NEW k \in 1 .. mSize + 1
               PROVE  mBuffer'[cell(k)] = Append(Contents, v)[k]
    OBVIOUS
  <2>1. mSize \in Nat /\ k \in 1 .. n
    BY <1>1
  <2>2. CASE k = mSize + 1
    BY <1>2, <1>3, <1>4, <1>6, <2>1, <2>2
  <2>3. CASE k # mSize + 1
    <3>1. k \in 1 .. mSize
      BY <2>1, <2>3
    <3>2. mBuffer'[cell(k)] = mBuffer[cell(k)]
      BY <1>2, <1>3, <1>4, <1>5, <1>6, <2>1, <3>1
    <3> QED BY <1>6, <2>1, <3>1, <3>2
  <2> QED BY <2>2, <2>3
<1>8. Append(Contents, v) \in Seq(Element) /\ Len(Append(Contents, v)) = mSize + 1
      /\ \A k \in 1 .. mSize + 1 : Append(Contents, v)[k] \in Element
  BY <1>1, <1>6
<1>9. DequeInv'
  <2>1. DequeTypeOK'
    BY <1>1, <1>2, <1>6 DEF DequeTypeOK
  <2>2. \A k \in 1 .. mSize' : (mBuffer[(mTail + k - 1) % mMaxSize])' \in Element
    BY <1>1, <1>7, <1>8
  <2> QED BY <1>1, <1>4, <2>1, <2>2 DEF DequeInv
<1>10. Contents' = Append(Contents, v)
  BY <1>1, <1>7, <1>8, <1>9, SameContents
<1> QED BY <1>9, <1>10

LEMMA PrependStep ==
    ASSUME DequeInv, NEW v \in Element, prepend(v)
    PROVE  DequeInv' /\ Contents' = <<v>> \o Contents
<1> DEFINE n == mMaxSize
           cell(k) == (mTail + k - 1) % mMaxSize
           cellp(k) == (mTail' + k - 1) % mMaxSize
<1>1. /\ n \in Nat \ {0} /\ mHead \in 0 .. n - 1 /\ mTail \in 0 .. n /\ mSize \in 0 .. n
      /\ mSize # n
      /\ mTail' = IF mTail = 0 THEN n - 1 ELSE mTail - 1
      /\ mSize' = mSize + 1 /\ mHead' = mHead /\ mMaxSize' = n
  BY DequeTypes DEF prepend, isFull, StepDown
<1>2. mBuffer' = [mBuffer EXCEPT ![mTail'] = v] /\ mTail' \in 0 .. n - 1
  BY <1>1 DEF prepend
<1>3. \A k \in 1 .. n : cell(k) \in 0 .. n - 1
                        /\ cell(k) = IF mTail + k - 1 >= n THEN mTail + k - 1 - n ELSE mTail + k - 1
  BY DequeTypes
<1>4. \A k \in 1 .. n :
        cellp(k) = IF mTail' + k - 1 >= n THEN mTail' + k - 1 - n ELSE mTail' + k - 1
  <2>1. mTail' \in 0 .. n
    BY <1>1, <1>2
  <2> HIDE DEF n
  <2>2. n \in Nat \ {0}
    BY <1>1
  <2>3. \A t \in 0 .. n : \A k \in 1 .. n :
          (t + k - 1) % n = IF t + k - 1 >= n THEN t + k - 1 - n ELSE t + k - 1
    BY <2>2, CellPosition
  <2> QED BY <2>1, <2>3 DEF n
<1>5. EndsAgree'
  BY <1>1, DequeTypes DEF EndsAgree
<1>6. mBuffer \in [0 .. n - 1 -> Element \cup {NoValue}]
      /\ Contents \in Seq(Element) /\ Len(Contents) = mSize
      /\ \A k \in 1 .. mSize : Contents[k] = mBuffer[cell(k)]
  BY DequeTypes
<1>7. \A k \in 1 .. mSize + 1 : mBuffer'[cellp(k)] = (<<v>> \o Contents)[k]
  <2> HIDE DEF cell, cellp
  <2> SUFFICES ASSUME NEW k \in 1 .. mSize + 1
               PROVE  mBuffer'[cellp(k)] = (<<v>> \o Contents)[k]
    OBVIOUS
  <2>1. mSize \in Nat /\ k \in 1 .. n
    BY <1>1
  <2>2. CASE k = 1
    <3>1. cellp(1) = mTail'
      BY <1>1, <1>2, <1>4, <2>1, <2>2
    <3> QED BY <1>2, <1>6, <2>1, <2>2, <3>1
  <2>3. CASE k # 1
    <3>1. k - 1 \in 1 .. mSize /\ k - 1 \in 1 .. n
      BY <1>1, <2>1, <2>3
    <3>2. cellp(k) = cell(k - 1) /\ cell(k - 1) # mTail'
      BY <1>1, <1>2, <1>3, <1>4, <2>1, <3>1
    <3>3. mBuffer'[cellp(k)] = mBuffer[cell(k - 1)]
      BY <1>2, <1>3, <1>6, <3>1, <3>2
    <3>4. (<<v>> \o Contents)[k] = Contents[k - 1]
      BY <1>6, <2>1, <2>3
    <3> QED BY <1>6, <3>1, <3>3, <3>4
  <2> QED BY <2>2, <2>3
<1>8. <<v>> \o Contents \in Seq(Element) /\ Len(<<v>> \o Contents) = mSize + 1
      /\ \A k \in 1 .. mSize + 1 : (<<v>> \o Contents)[k] \in Element
  <2> DEFINE s == <<v>> \o Contents
  <2>1. <<v>> \in Seq(Element) /\ Len(<<v>>) = 1
    OBVIOUS
  <2>2. s \in Seq(Element) /\ Len(s) = mSize + 1
    BY <1>1, <1>6, <2>1
  <2> HIDE DEF s
  <2>3. \A k \in 1 .. Len(s) : s[k] \in Element
    BY <2>2
  <2> QED BY <2>2, <2>3 DEF s
<1>9. DequeInv'
  <2>1. DequeTypeOK'
    BY <1>1, <1>2, <1>6 DEF DequeTypeOK
  <2>2. \A k \in 1 .. mSize' : (mBuffer[(mTail + k - 1) % mMaxSize])' \in Element
    BY <1>1, <1>7, <1>8
  <2> QED BY <1>1, <1>2, <1>5, <2>1, <2>2 DEF DequeInv
<1>10. Contents' = <<v>> \o Contents
  BY <1>1, <1>7, <1>8, <1>9, SameContents
<1> QED BY <1>9, <1>10

LEMMA RemoveFrontStep ==
    ASSUME DequeInv, removeFront
    PROVE  DequeInv' /\ Contents # << >> /\ Contents' = Tail(Contents)
<1> DEFINE n == mMaxSize
           cell(k) == (mTail + k - 1) % mMaxSize
           cellp(k) == (mTail' + k - 1) % mMaxSize
<1>1. /\ n \in Nat \ {0} /\ mHead \in 0 .. n - 1 /\ mTail \in 0 .. n /\ mSize \in 1 .. n
      /\ mTail' = IF mTail >= n - 1 THEN 0 ELSE mTail + 1
      /\ mSize' = mSize - 1 /\ mHead' = mHead /\ mMaxSize' = n /\ mBuffer' = mBuffer
      /\ n >= 2 => mTail < n
  BY DequeTypes DEF removeFront, StepUp, DequeInv
<1>2. mTail' \in 0 .. n - 1 /\ mTail' \in 0 .. n
  BY <1>1
<1>3. \A k \in 1 .. n : cell(k) \in 0 .. n - 1
                        /\ cell(k) = IF mTail + k - 1 >= n THEN mTail + k - 1 - n ELSE mTail + k - 1
  BY DequeTypes
<1>4. \A k \in 1 .. n :
        cellp(k) = IF mTail' + k - 1 >= n THEN mTail' + k - 1 - n ELSE mTail' + k - 1
  <2> HIDE DEF n
  <2>1. n \in Nat \ {0} /\ mTail' \in 0 .. n
    BY <1>1, <1>2
  <2>2. \A t \in 0 .. n : \A k \in 1 .. n :
          (t + k - 1) % n = IF t + k - 1 >= n THEN t + k - 1 - n ELSE t + k - 1
    BY <2>1, CellPosition
  <2> QED BY <2>1, <2>2 DEF n
<1>5. EndsAgree'
  BY <1>1, DequeTypes DEF EndsAgree
<1>6. mBuffer \in [0 .. n - 1 -> Element \cup {NoValue}]
      /\ Contents \in Seq(Element) /\ Len(Contents) = mSize
      /\ \A k \in 1 .. mSize : Contents[k] = mBuffer[cell(k)]
  BY DequeTypes
<1>7. \A k \in 1 .. mSize - 1 : cellp(k) = cell(k + 1)
  <2> HIDE DEF cell, cellp
  <2> SUFFICES ASSUME NEW k \in 1 .. mSize - 1 PROVE cellp(k) = cell(k + 1)
    OBVIOUS
  <2>1. k \in 1 .. n /\ k + 1 \in 1 .. n
    BY <1>1
  <2> QED BY <1>1, <1>2, <1>3, <1>4, <2>1
<1>8. Contents # << >> /\ Tail(Contents) \in Seq(Element) /\ Len(Tail(Contents)) = mSize - 1
      /\ \A k \in 1 .. mSize - 1 : Tail(Contents)[k] = Contents[k + 1]
                                  /\ Tail(Contents)[k] \in Element
  BY <1>1, <1>6
<1>9. \A k \in 1 .. mSize - 1 : mBuffer'[cellp(k)] = Tail(Contents)[k]
  <2> HIDE DEF cell, cellp
  <2> SUFFICES ASSUME NEW k \in 1 .. mSize - 1
               PROVE  mBuffer'[cellp(k)] = Tail(Contents)[k]
    OBVIOUS
  <2>1. k + 1 \in 1 .. mSize
    BY <1>1
  <2> QED BY <1>1, <1>6, <1>7, <1>8, <2>1
<1>10. DequeInv'
  <2>1. DequeTypeOK'
    BY <1>1, <1>2, <1>6 DEF DequeTypeOK
  <2>2. \A k \in 1 .. mSize' : (mBuffer[(mTail + k - 1) % mMaxSize])' \in Element
    BY <1>1, <1>8, <1>9
  <2>3. mMaxSize' \in Sizes
    BY <1>1 DEF DequeInv
  <2> QED BY <1>1, <1>2, <1>5, <2>1, <2>2, <2>3 DEF DequeInv
<1>11. Contents' = Tail(Contents)
  BY <1>1, <1>8, <1>9, <1>10, SameContents
<1> QED BY <1>8, <1>10, <1>11

LEMMA RemoveBackStep ==
    ASSUME DequeInv, removeBack
    PROVE  DequeInv' /\ Contents # << >>
           /\ Contents' = SubSeq(Contents, 1, Len(Contents) - 1)
<1> DEFINE n == mMaxSize
           s == SubSeq(Contents, 1, Len(Contents) - 1)
<1>1. /\ n \in Nat \ {0} /\ mHead \in 0 .. n - 1 /\ mTail \in 0 .. n /\ mSize \in 1 .. n
      /\ mHead' = IF mHead = 0 THEN n - 1 ELSE mHead - 1
      /\ mSize' = mSize - 1 /\ mTail' = mTail /\ mMaxSize' = n /\ mBuffer' = mBuffer
  BY DequeTypes DEF removeBack, StepDown
<1>2. EndsAgree' /\ mHead' \in 0 .. n - 1
  BY <1>1, DequeTypes DEF EndsAgree
<1>3. Contents \in Seq(Element) /\ Len(Contents) = mSize
      /\ \A k \in 1 .. mSize : Contents[k] = mBuffer[(mTail + k - 1) % mMaxSize]
  BY DequeTypes
<1>4. Contents # << >> /\ s \in Seq(Element) /\ Len(s) = mSize - 1
      /\ \A k \in 1 .. mSize - 1 : s[k] = Contents[k]
  <2>1. mSize \in Nat /\ mSize >= 1
    BY <1>1
  <2> QED BY <1>3, <2>1
<1>5. \A k \in 1 .. mSize - 1 : k \in 1 .. mSize
  BY <1>1
<1>6. DequeInv'
  <2>1. DequeTypeOK'
    BY <1>1, <1>2, DequeTypes DEF DequeTypeOK
  <2>2. \A k \in 1 .. mSize' : (mBuffer[(mTail + k - 1) % mMaxSize])' \in Element
    BY <1>1, <1>5 DEF DequeInv
  <2>3. mMaxSize' \in Sizes /\ (mMaxSize' >= 2 => mTail' < mMaxSize')
    BY <1>1 DEF DequeInv
  <2> QED BY <1>2, <2>1, <2>2, <2>3 DEF DequeInv
<1>7. \A k \in 1 .. mSize' : (mBuffer[(mTail + k - 1) % mMaxSize])' = s[k]
  <2> HIDE DEF s
  <2> QED BY <1>1, <1>3, <1>4, <1>5
<1>8. Contents' = s
  <2> HIDE DEF s
  <2> QED BY <1>1, <1>4, <1>6, <1>7, SameContents
<1> QED BY <1>4, <1>6, <1>8

LEMMA ClearStep ==
    ASSUME DequeInv, clear
    PROVE  DequeInv' /\ Contents' = << >>
<1>1. mMaxSize \in Nat \ {0} /\ mHead' = 0 /\ mTail' = 1 /\ mSize' = 0
      /\ mMaxSize' = mMaxSize /\ mBuffer' = mBuffer
  BY DequeTypes DEF clear
<1>2. DequeTypeOK' /\ EndsAgree'
  BY <1>1, DequeTypes DEF DequeTypeOK, EndsAgree
<1>3. DequeInv'
  BY <1>1, <1>2 DEF DequeInv
<1>4. << >> \in Seq(Element) /\ Len(<< >>) = mSize' /\ 1 .. mSize' = {}
  BY <1>1
<1>5. \A k \in 1 .. mSize' : (mBuffer[(mTail + k - 1) % mMaxSize])' = << >>[k]
  BY <1>4
<1> QED BY <1>3, <1>4, <1>5, SameContents
(* The first m elements of a slice go into the cells behind the head,      *)
(* across the end of the buffer too.                                       *)
LEMMA StoreSliceStep ==
    ASSUME DequeInv, NEW s \in Seq(Element), NEW m \in 1 .. Len(s), m <= mMaxSize - mSize,
           StoreSlice(s, m), UNCHANGED <<mMaxSize, mTail>>
    PROVE  DequeInv' /\ Contents' = Contents \o SubSeq(s, 1, m)
<1> DEFINE n == mMaxSize
           head == mHead + 1
           toEnd == n - head
           cell(k) == (mTail + k - 1) % mMaxSize
           both == Contents \o SubSeq(s, 1, m)
<1>1. /\ n \in Nat \ {0} /\ mHead \in 0 .. n - 1 /\ mTail \in 0 .. n /\ mSize \in 0 .. n
      /\ m \in Nat \ {0} /\ mSize + m <= n
      /\ mHead' = IF m <= toEnd THEN head + m - 1 ELSE m - toEnd - 1
      /\ mSize' = mSize + m /\ mTail' = mTail /\ mMaxSize' = n
      /\ n >= 2 => mTail < n
  <2>1. n \in Nat \ {0} /\ mSize \in 0 .. n /\ Len(s) \in Nat
    BY DequeTypes
  <2>2. m \in Nat \ {0} /\ mSize + m <= n
    BY <2>1
  <2> QED BY <2>1, <2>2, DequeTypes DEF StoreSlice, DequeInv
<1>0. \/ mTail + mSize = mHead + 1
      \/ mTail + mSize = mHead + 1 + n
      \/ mTail = 0 /\ mSize = 0 /\ mHead + 1 = n
  BY DequeTypes DEF EndsAgree
<1>2. /\ mBuffer \in [0 .. n - 1 -> Element \cup {NoValue}]
      /\ mBuffer' = [i \in 0 .. n - 1 |->
           IF m <= toEnd
           THEN IF i \in head .. head + m - 1 THEN s[i - head + 1] ELSE mBuffer[i]
           ELSE IF i >= head THEN s[i - head + 1]
           ELSE IF i < m - toEnd THEN s[toEnd + i + 1] ELSE mBuffer[i]]
  <2>1. mBuffer \in [0 .. n - 1 -> Element \cup {NoValue}]
    BY DequeTypes
  <2>2. DOMAIN mBuffer = 0 .. n - 1
    BY <2>1
  <2> QED BY <2>1, <2>2, Zenon DEF StoreSlice, Second
<1>3. \A k \in 1 .. n : cell(k) \in 0 .. n - 1
                        /\ cell(k) = IF mTail + k - 1 >= n THEN mTail + k - 1 - n ELSE mTail + k - 1
  BY DequeTypes
<1>4. EndsAgree' /\ mHead' \in 0 .. n - 1
  BY <1>1, DequeTypes DEF EndsAgree
<1>5. ASSUME NEW k \in 1 .. mSize PROVE mBuffer'[cell(k)] = mBuffer[cell(k)]
  <2> HIDE DEF cell
  <2> DEFINE c == cell(k)
  <2>1. k \in 1 .. n
    BY <1>1
  <2>2. c \in 0 .. n - 1 /\ c = IF mTail + k - 1 >= n THEN mTail + k - 1 - n ELSE mTail + k - 1
    BY <1>3, <2>1
  <2> HIDE DEF c
  <2>3. CASE m <= toEnd
    <3>1. c \notin head .. head + m - 1
      BY <1>0, <1>1, <2>1, <2>2, <2>3
    <3> QED BY <1>2, <2>2, <2>3, <3>1 DEF c
  <2>4. CASE ~ (m <= toEnd)
    <3>1. ~ (c >= head) /\ ~ (c < m - toEnd)
      BY <1>0, <1>1, <2>1, <2>2, <2>4
    <3> QED BY <1>2, <2>2, <2>4, <3>1 DEF c
  <2> QED BY <2>3, <2>4
<1>6. ASSUME NEW j \in 1 .. m PROVE mBuffer'[cell(mSize + j)] = s[j]
  <2> HIDE DEF cell
  <2>1. mSize + j \in 1 .. n /\ j \in Nat
    BY <1>1
  <2>2. cell(mSize + j) = IF mHead + j >= n THEN mHead + j - n ELSE mHead + j
    <3>1. cell(mSize + j) = IF mTail + (mSize + j) - 1 >= n THEN mTail + (mSize + j) - 1 - n
                            ELSE mTail + (mSize + j) - 1
      BY <1>3, <2>1
    <3>2. (IF mTail + (mSize + j) - 1 >= n THEN mTail + (mSize + j) - 1 - n
                                           ELSE mTail + (mSize + j) - 1)
          = IF mHead + j >= n THEN mHead + j - n ELSE mHead + j
      BY <1>0, <1>1, <2>1
    <3> QED BY <3>1, <3>2
  <2> DEFINE c == cell(mSize + j)
  <2>3. c \in 0 .. n - 1
    BY <1>3, <2>1
  <2> HIDE DEF c
  <2>4. c = IF mHead + j >= n THEN mHead + j - n ELSE mHead + j
    BY <2>2 DEF c
  <2>5. CASE m <= toEnd
    <3>1. c \in head .. head + m - 1 /\ c - head + 1 = j
      BY <1>1, <2>1, <2>4, <2>5
    <3> QED BY <1>2, <2>3, <2>5, <3>1 DEF c
  <2>6. CASE ~ (m <= toEnd) /\ mHead + j < n
    <3>1. c >= head /\ c - head + 1 = j
      BY <1>1, <2>1, <2>4, <2>6
    <3> QED BY <1>2, <2>3, <2>6, <3>1 DEF c
  <2>7. CASE ~ (m <= toEnd) /\ ~ (mHead + j < n)
    <3>1. ~ (c >= head) /\ c < m - toEnd /\ toEnd + c + 1 = j
      BY <1>1, <2>1, <2>4, <2>7
    <3> QED BY <1>2, <2>3, <2>7, <3>1 DEF c
  <2> QED BY <2>5, <2>6, <2>7
<1>7. both \in Seq(Element) /\ Len(both) = mSize + m
      /\ (\A k \in 1 .. mSize : both[k] = Contents[k])
      /\ (\A j \in 1 .. m : both[mSize + j] = s[j])
  <2> DEFINE u == SubSeq(s, 1, m)
  <2>1. u \in Seq(Element) /\ Len(u) = m /\ \A j \in 1 .. m : u[j] = s[j]
    BY <1>1, SMTT(30)
  <2>2. Contents \in Seq(Element) /\ Len(Contents) = mSize /\ mSize \in Nat
    BY <1>1, DequeTypes
  <2> HIDE DEF u
  <2>3. Contents \o u \in Seq(Element) /\ Len(Contents \o u) = mSize + m
    BY <2>1, <2>2
  <2>4. \A k \in 1 .. mSize : (Contents \o u)[k] = Contents[k]
    BY <2>1, <2>2
  <2>5. ASSUME NEW j \in 1 .. m PROVE (Contents \o u)[mSize + j] = u[j]
    <3> DEFINE i == mSize + j
    <3>1. i \in 1 .. mSize + m /\ i > mSize /\ i - mSize = j
      BY <1>1, <2>2
    <3> HIDE DEF i
    <3>2. (Contents \o u)[i] = u[i - mSize]
      BY <1>1, <2>1, <2>2, <3>1
    <3> QED BY <3>1, <3>2 DEF i
  <2> QED BY <2>1, <2>3, <2>4, <2>5 DEF u
<1>8. \A k \in 1 .. mSize + m : mBuffer'[cell(k)] = both[k] /\ both[k] \in Element
  <2> HIDE DEF cell, both
  <2> SUFFICES ASSUME NEW k \in 1 .. mSize + m
               PROVE  mBuffer'[cell(k)] = both[k] /\ both[k] \in Element
    OBVIOUS
  <2>0. both[k] \in Element
    BY <1>1, <1>7
  <2>1. CASE k <= mSize
    <3>1. k \in 1 .. mSize
      BY <1>1, <2>1
    <3>2. Contents[k] = mBuffer[cell(k)]
      BY <3>1, DequeTypes DEF cell
    <3> QED BY <1>5, <1>7, <2>0, <3>1, <3>2
  <2>2. CASE k > mSize
    <3>1. k - mSize \in 1 .. m /\ mSize + (k - mSize) = k
      BY <1>1, <2>2
    <3> QED BY <1>6, <1>7, <2>0, <3>1
  <2> QED BY <1>1, <2>1, <2>2
<1>9. mBuffer' \in [0 .. n - 1 -> Element \cup {NoValue}]
  <2>1. ASSUME NEW i \in 0 .. n - 1 PROVE mBuffer'[i] \in Element \cup {NoValue}
    <3>0. s \in [1 .. Len(s) -> Element] /\ Len(s) \in Nat
      OBVIOUS
    <3>1. CASE m <= toEnd /\ i \in head .. head + m - 1
      <4>1. i - head + 1 \in 1 .. Len(s)
        BY <1>1, <3>0, <3>1
      <4> QED BY <1>2, <3>0, <3>1, <4>1
    <3>2. CASE m <= toEnd /\ i \notin head .. head + m - 1
      BY <1>2, <3>2
    <3>3. CASE ~ (m <= toEnd) /\ i >= head
      <4>1. i - head + 1 \in 1 .. Len(s)
        BY <1>1, <3>0, <3>3
      <4> QED BY <1>2, <3>0, <3>3, <4>1
    <3>4. CASE ~ (m <= toEnd) /\ ~ (i >= head) /\ i < m - toEnd
      <4>1. toEnd + i + 1 \in 1 .. Len(s)
        BY <1>1, <3>0, <3>4
      <4> QED BY <1>2, <3>0, <3>4, <4>1
    <3>5. CASE ~ (m <= toEnd) /\ ~ (i >= head) /\ ~ (i < m - toEnd)
      BY <1>2, <3>5
    <3> QED BY <3>1, <3>2, <3>3, <3>4, <3>5
  <2>2. mBuffer' = [i \in 0 .. n - 1 |-> mBuffer'[i]]
    BY <1>2
  <2> QED BY <2>1, <2>2
<1>10. DequeInv'
  <2>1. DequeTypeOK'
    BY <1>1, <1>4, <1>9 DEF DequeTypeOK
  <2>2. \A k \in 1 .. mSize' : (mBuffer[(mTail + k - 1) % mMaxSize])' \in Element
    BY <1>1, <1>8
  <2>3. mMaxSize' \in Sizes
    BY <1>1 DEF DequeInv
  <2> QED BY <1>1, <1>4, <2>1, <2>2, <2>3 DEF DequeInv
<1>11. Contents' = both
  <2>1. \A k \in 1 .. mSize' : (mBuffer[(mTail + k - 1) % mMaxSize])' = both[k]
    BY <1>1, <1>8
  <2> HIDE DEF both
  <2> QED BY <1>1, <1>7, <1>10, <2>1, SameContents
<1> QED BY <1>10, <1>11
-----------------------------------------------------------------------------
(* append(slice) appends what the sequence would take. *)
LEMMA AppendSliceStep ==
    ASSUME DequeInv, NEW s \in Slice, appendSlice(s)
    PROVE  /\ DequeInv'
           /\ \E m \in 0 .. Len(s) :
                /\ Contents' = Contents \o SubSeq(s, 1, m)
                /\ strategy = "partial" => m = Ring!Min({Len(s), mMaxSize - mSize})
                /\ strategy # "partial" => m = IF Len(s) <= mMaxSize - mSize THEN Len(s) ELSE 0
<1> DEFINE room == mMaxSize - mSize
           len == Len(s)
<1>1. s \in Seq(Element) /\ len \in Nat /\ room \in Nat
  BY DequeAssumption, DequeTypes
<1>2. \A a, b \in Nat : Ring!Min({a, b}) = IF a <= b THEN a ELSE b
  <2> SUFFICES ASSUME NEW a \in Nat, NEW b \in Nat PROVE Ring!Min({a, b}) = IF a <= b THEN a ELSE b
    OBVIOUS
  <2> DEFINE c == IF a <= b THEN a ELSE b
  <2>1. c \in {a, b} /\ \A y \in {a, b} : c <= y
    OBVIOUS
  <2>2. \A d \in {a, b} : (\A y \in {a, b} : d <= y) => d = c
    OBVIOUS
  <2> HIDE DEF c
  <2>3. Ring!Min({a, b}) = c
    BY <2>1, <2>2 DEF Ring!Min
  <2> QED BY <2>3 DEF c
<1>3. CASE (len = 0 \/ isFull \/ (len > room /\ strategy = "complete"))
           /\ UNCHANGED <<mBuffer, mHead, mSize>>
  <2>1. UNCHANGED <<mBuffer, mHead, mSize, mTail, mMaxSize>>
    BY <1>3 DEF appendSlice
  <2>2. DequeInv' /\ Contents' = Contents
    BY <2>1 DEF DequeInv, DequeTypeOK, EndsAgree, Contents
  <2>3. SubSeq(s, 1, 0) = << >> /\ Contents \o << >> = Contents
    BY <1>1, DequeTypes
  <2>4. 0 \in 0 .. len
    BY <1>1
  <2>5. Ring!Min({len, room}) = IF len <= room THEN len ELSE room
    BY <1>1, <1>2
  <2>6. isFull => room = 0
    BY DequeTypes DEF isFull
  <2> HIDE DEF room, len
  <2>7. /\ strategy = "partial" => 0 = Ring!Min({len, room})
        /\ strategy # "partial" => 0 = IF len <= room THEN len ELSE 0
    BY <1>1, <1>3, <2>5, <2>6
  <2> QED BY <2>2, <2>3, <2>4, <2>7 DEF room, len
<1>4. CASE len > 0 /\ ~ isFull /\ len <= room /\ StoreSlice(s, len)
  <2>1. len \in 1 .. len /\ len \in 0 .. len
    BY <1>1, <1>4
  <2>2. UNCHANGED <<mMaxSize, mTail>>
    BY DEF appendSlice
  <2>3. DequeInv' /\ Contents' = Contents \o SubSeq(s, 1, len)
    BY <1>1, <1>4, <2>1, <2>2, StoreSliceStep
  <2>4. Ring!Min({len, room}) = IF len <= room THEN len ELSE room
    BY <1>1, <1>2
  <2> HIDE DEF room, len
  <2> QED BY <1>4, <2>1, <2>3, <2>4 DEF room, len
<1>5. CASE ~ isFull /\ len > room /\ strategy = "partial" /\ StoreSlice(s, room)
  <2>0. room # 0
    BY <1>5, DequeTypes DEF isFull
  <2>1. room \in 1 .. len /\ room \in 0 .. len /\ room <= room
    BY <1>1, <1>5, <2>0
  <2>2. UNCHANGED <<mMaxSize, mTail>>
    BY DEF appendSlice
  <2>3. DequeInv' /\ Contents' = Contents \o SubSeq(s, 1, room)
    BY <1>1, <1>5, <2>1, <2>2, StoreSliceStep
  <2>4. Ring!Min({len, room}) = IF len <= room THEN len ELSE room
    BY <1>1, <1>2
  <2> HIDE DEF room, len
  <2>5. room = Ring!Min({len, room})
    BY <1>1, <1>5, <2>4
  <2>6. /\ strategy = "partial" => room = Ring!Min({len, room})
        /\ strategy # "partial" => room = IF len <= room THEN len ELSE 0
    BY <1>5, <2>5
  <2>7. \E m \in 0 .. len :
          /\ Contents' = Contents \o SubSeq(s, 1, m)
          /\ strategy = "partial" => m = Ring!Min({len, room})
          /\ strategy # "partial" => m = IF len <= room THEN len ELSE 0
    BY <2>1, <2>3, <2>6, Zenon
  <2> QED BY <2>3, <2>7 DEF room, len
<1>6. \/ (len = 0 \/ isFull \/ (len > room /\ strategy = "complete"))
         /\ UNCHANGED <<mBuffer, mHead, mSize>>
      \/ len > 0 /\ ~ isFull /\ len <= room /\ StoreSlice(s, len)
      \/ ~ isFull /\ len > room /\ strategy = "partial" /\ StoreSlice(s, room)
  BY Zenon DEF appendSlice
<1> QED BY <1>3, <1>4, <1>5, <1>6, Zenon

(* The cells in use hold the elements, in every state of a Deque of any    *)
(* size.                                                                   *)
THEOREM DequeInductive == DequeSpec => []DequeInv
<1>1. ASSUME DequeInv, [DequeNext]_dequeVars PROVE DequeInv'
  <2>1. ASSUME NEW v \in Element, append(v) PROVE DequeInv'
    BY <1>1, <2>1, AppendStep
  <2>2. ASSUME NEW v \in Element, prepend(v) PROVE DequeInv'
    BY <1>1, <2>2, PrependStep
  <2>3. ASSUME NEW s \in Slice, appendSlice(s) PROVE DequeInv'
    BY <1>1, <2>3, AppendSliceStep
  <2>4. CASE removeBack
    BY <1>1, <2>4, RemoveBackStep
  <2>5. CASE removeFront
    BY <1>1, <2>5, RemoveFrontStep
  <2>6. CASE clear
    BY <1>1, <2>6, ClearStep
  <2>7. CASE UNCHANGED dequeVars
    BY <1>1, <2>7 DEF dequeVars, DequeInv, DequeTypeOK, EndsAgree
  <2> QED BY <1>1, <2>1, <2>2, <2>3, <2>4, <2>5, <2>6, <2>7 DEF DequeNext
<1> QED BY <1>1, DequeInitInv, PTL DEF DequeSpec

(* getFront() and getBack() of a Deque with two or more cells read cells   *)
(* of the backend buffer, mSize - 1 apart; with one cell the front lies    *)
(* behind it.                                                              *)
THEOREM EndsAreInBuffer ==
    DequeSpec => [](DequeTypeOK /\ (mMaxSize >= 2 => EndsInBuffer))
<1>1. DequeInv => DequeTypeOK /\ (mMaxSize >= 2 => EndsInBuffer)
  <2> SUFFICES ASSUME DequeInv, mMaxSize >= 2, mSize > 0 PROVE EndsInBuffer
    BY DEF DequeInv, EndsInBuffer
  <2>0. mMaxSize \in Nat \ {0} /\ mHead \in 0 .. mMaxSize - 1 /\ mTail \in 0 .. mMaxSize
        /\ mSize \in 0 .. mMaxSize /\ EndsAgree
    BY DequeTypes
  <2>1. mSize \in 1 .. mMaxSize /\ mTail < mMaxSize
    BY <2>0 DEF DequeInv
  <2>2. (mTail + mSize - 1) % mMaxSize =
          IF mTail + mSize - 1 >= mMaxSize THEN mTail + mSize - 1 - mMaxSize
          ELSE mTail + mSize - 1
    BY <2>1, DequeTypes
  <2>3. (IF mTail + mSize - 1 >= mMaxSize THEN mTail + mSize - 1 - mMaxSize
         ELSE mTail + mSize - 1) = mHead
    BY <2>0, <2>1 DEF EndsAgree
  <2> QED BY <2>1, <2>2, <2>3 DEF EndsInBuffer
<1> QED BY <1>1, DequeInductive, PTL

(* The ring buffer behaves like a bounded sequence: every operation of a   *)
(* Deque does to the elements what it does to a sequence, whatever the     *)
(* position of the wrap around and the length of a slice.                  *)
THEOREM DequeRefinesSequence == DequeSpec => SequenceSpec
<1>1. DequeInit => Ring!Init
  <2>1. DequeInit => Contents = << >>
    BY DEF DequeInit, Contents
  <2> QED BY <2>1 DEF DequeInit, Contents, Ring!Init
<1>2. ASSUME DequeInv, DequeInv', [DequeNext]_dequeVars PROVE [Ring!Next]_(Ring!vars)
  <2>t. mMaxSize \in Nat \ {0} /\ mSize \in 0 .. mMaxSize
    BY <1>2, DequeTypes
  <2>0. Len(Contents) = mSize /\ Contents = [k \in 1 .. mSize |-> mBuffer[(mTail + k - 1) % mMaxSize]]
    BY <1>2, DequeTypes DEF Contents
  <2>1. ASSUME NEW v \in Element, append(v) PROVE Ring!Next
    <3>0. mSize < mMaxSize
      BY <2>t, <2>1 DEF append, isFull
    <3>1. Contents' = Append(Contents, v) /\ mSize < mMaxSize
      BY <1>2, <3>0, <2>1, AppendStep
    <3>2. Ring!Append1(v)
      BY <2>0, <2>1, <3>1 DEF append, Call, Ring!Append1, Ring!Call, Contents
    <3> QED BY <2>1, <3>2 DEF append, Ring!Next
  <2>2. ASSUME NEW v \in Element, prepend(v) PROVE Ring!Next
    <3>0. mSize < mMaxSize
      BY <2>t, <2>2 DEF prepend, isFull
    <3>1. Contents' = <<v>> \o Contents /\ mSize < mMaxSize
      BY <1>2, <3>0, <2>2, PrependStep
    <3>2. Ring!Prepend1(v)
      BY <2>0, <2>2, <3>1 DEF prepend, Call, Ring!Prepend1, Ring!Call, Contents
    <3> QED BY <2>2, <3>2 DEF prepend, Ring!Next
  <2>3. ASSUME NEW s \in Slice, appendSlice(s) PROVE Ring!Next
    <3>1. PICK m \in 0 .. Len(s) :
                /\ Contents' = Contents \o SubSeq(s, 1, m)
                /\ strategy = "partial" => m = Ring!Min({Len(s), mMaxSize - mSize})
                /\ strategy # "partial" => m = IF Len(s) <= mMaxSize - mSize THEN Len(s) ELSE 0
      BY <1>2, <2>3, AppendSliceStep
    <3>2. m = IF strategy = "partial" THEN Ring!Min({Len(s), mMaxSize - Len(Contents)})
              ELSE IF Len(s) <= mMaxSize - Len(Contents) THEN Len(s) ELSE 0
      BY <2>0, <3>1
    <3>3. Ring!AppendMany(s)
      BY <2>3, <3>1, <3>2 DEF appendSlice, Call, Ring!AppendMany, Ring!Call, Contents
    <3> QED BY <2>3, <3>3 DEF appendSlice, Ring!Next
  <2>4. CASE removeBack
    <3>1. Ring!RemoveLast
      BY <1>2, <2>4, RemoveBackStep DEF removeBack, Call, Ring!RemoveLast, Ring!Call, Contents
    <3> QED BY <2>4, <3>1 DEF removeBack, Ring!Next
  <2>5. CASE removeFront
    <3>1. Ring!RemoveFirst
      BY <1>2, <2>5, RemoveFrontStep DEF removeFront, Call, Ring!RemoveFirst, Ring!Call, Contents
    <3> QED BY <2>5, <3>1 DEF removeFront, Ring!Next
  <2>6. CASE clear
    <3>1. Ring!Clear
      BY <1>2, <2>6, ClearStep DEF clear, Call, Ring!Clear, Ring!Call, Contents
    <3> QED BY <2>6, <3>1 DEF clear, Ring!Next
  <2>7. CASE UNCHANGED dequeVars
    BY <2>7 DEF dequeVars, Ring!vars
  <2> QED BY <1>2, <2>1, <2>2, <2>3, <2>4, <2>5, <2>6, <2>7 DEF DequeNext
<1> QED BY <1>1, <1>2, DequeInductive, PTL DEF DequeSpec, SequenceSpec, Ring!Spec
-----------------------------------------------------------------------------
(* The HDLC coding *)

(* What the receiver should make of the bytes up to a place of the stream:  *)
(* they end in noise, in a frame that will be aborted, between two frames,  *)
(* or in a frame, after p bytes of the packet that follows f others.        *)
Mark == [at : {"noise", "broken", "brokenEscape", "gap", "frame", "frameEscape"},
         f : Nat, p : Nat]
InFrame(m) == m.at \in {"frame", "frameEscape"}
InBroken(m) == m.at \in {"broken", "brokenEscape"}
Outside(m) == m.at \in {"noise", "gap", "brokenEscape"}

Fits(list, m) ==
    /\ m.at \in {"noise", "broken", "brokenEscape"} => m.f = 0
    /\ InFrame(m) => m.f < Len(list) /\ m.p <= Len(list[m.f + 1])

(* Byte b leads from mark m to mark z, where the packets are in the list.   *)
NoiseLeads(m, b, z) ==
    \/ m.at = "noise" /\ b # boundary_byte /\ z = m
    \/ m.at = "noise" /\ b = boundary_byte /\ z.at = "broken"
    \/ m.at = "broken" /\ b = escape_byte /\ z.at = "brokenEscape"
    \/ m.at = "brokenEscape" /\ b = escape_byte /\ z.at = "noise"
    \/ InBroken(m) /\ ~ Special(b) /\ z.at = "broken"
GapLeads(m, b, z) ==
    /\ Outside(m) /\ b = boundary_byte /\ z.f = m.f
    /\ z.at = "gap" \/ (z.at = "frame" /\ z.p = 0)
FrameLeads(list, m, b, z) ==
    \/ /\ m.at = "frame" /\ b = boundary_byte /\ m.p = Len(list[m.f + 1])
       /\ z.at = "gap" /\ z.f = m.f + 1
    \/ /\ m.at = "frame" /\ b = escape_byte /\ m.p < Len(list[m.f + 1])
       /\ z.at = "frameEscape" /\ z.f = m.f /\ z.p = m.p
    \/ /\ InFrame(m) /\ ~ Special(b) /\ m.p < Len(list[m.f + 1])
       /\ list[m.f + 1][m.p + 1] = IF m.at = "frameEscape" THEN Masked(b) ELSE b
       /\ z.at = "frame" /\ z.f = m.f /\ z.p = m.p + 1
Leads(list, m, b, z) == NoiseLeads(m, b, z) \/ GapLeads(m, b, z) \/ FrameLeads(list, m, b, z)

Marking(list, bytes, a) ==
    /\ a \in [0 .. Len(bytes) -> Mark]
    /\ \A k \in 0 .. Len(bytes) : Fits(list, a[k])
    /\ \A k \in 0 .. Len(bytes) - 1 : Leads(list, a[k], bytes[k + 1], a[k + 1])

(* One more byte, or a frame after what is on the line.                     *)
Marked(a, n, z) == [k \in 0 .. n + 1 |-> IF k <= n THEN a[k] ELSE z]
Spliced(a, n, e, m) == [k \in 0 .. n + m |-> IF k <= n THEN a[k] ELSE e[k - n]]

LEMMA MarkByte ==
    ASSUME NEW list, NEW bytes \in Seq(Byte), NEW a, Marking(list, bytes, a),
           NEW b \in Byte, NEW z \in Mark, Fits(list, z), Leads(list, a[Len(bytes)], b, z)
    PROVE  Marking(list, Append(bytes, b), Marked(a, Len(bytes), z))
<1> DEFINE n == Len(bytes)
           c == Marked(a, n, z)
           w == Append(bytes, b)
<1>1. n \in Nat /\ Len(w) = n + 1 /\ w[n + 1] = b /\ \A k \in 1 .. n : w[k] = bytes[k]
  OBVIOUS
<1>2. c[n + 1] = z /\ \A k \in 0 .. n : c[k] = a[k]
  BY <1>1 DEF Marked
<1>3. c \in [0 .. n + 1 -> Mark]
  BY <1>1 DEF Marked, Marking
<1>4. \A k \in 0 .. n + 1 : Fits(list, c[k])
  BY <1>1, <1>2 DEF Marking
<1>5. \A k \in 0 .. n : Leads(list, c[k], w[k + 1], c[k + 1])
  <2> TAKE k \in 0 .. n
  <2>1. CASE k = n
    BY <2>1, <1>1, <1>2
  <2>2. CASE k # n
    <3>1. k \in 0 .. n - 1 /\ k + 1 \in 1 .. n /\ k + 1 \in 0 .. n
      BY <2>2, <1>1
    <3> QED
      BY <3>1, <1>1, <1>2 DEF Marking
  <2> QED
    BY <2>1, <2>2
<1> HIDE DEF c, w
<1>6. Marking(list, w, c)
  BY <1>1, <1>3, <1>4, <1>5 DEF Marking
<1> QED
  BY <1>6 DEF c, w, n

(* A list of packets goes on with another one.                              *)
GoesOn(list, longer) ==
    /\ Len(list) <= Len(longer)
    /\ \A i \in 1 .. Len(list) : longer[i] = list[i]

LEMMA LeadsOn ==
    ASSUME NEW list \in Seq(Seq(Byte)), NEW longer \in Seq(Seq(Byte)), GoesOn(list, longer),
           NEW m \in Mark, Fits(list, m)
    PROVE  /\ Fits(longer, m)
           /\ \A b, z : Leads(list, m, b, z) => Leads(longer, m, b, z)
<1>1. CASE ~ InFrame(m)
  BY <1>1 DEF Fits, Leads, FrameLeads, InFrame
<1>2. CASE InFrame(m)
  <2>1. m.f + 1 \in 1 .. Len(list)
    BY <1>2 DEF Fits, Mark
  <2>2. longer[m.f + 1] = list[m.f + 1]
    BY <2>1 DEF GoesOn
  <2>3. m.f < Len(longer)
    BY <2>1 DEF GoesOn, Mark
  <2> QED
    BY <1>2, <2>2, <2>3 DEF Fits, Leads, FrameLeads, InFrame
<1> QED
  BY <1>1, <1>2

LEMMA Splice ==
    ASSUME NEW list \in Seq(Seq(Byte)), NEW longer \in Seq(Seq(Byte)), GoesOn(list, longer),
           NEW bytes \in Seq(Byte), NEW more \in Seq(Byte), NEW a, NEW e,
           Marking(list, bytes, a), Marking(longer, more, e),
           Outside(a[Len(bytes)]), e[0].at = "gap", e[0].f = a[Len(bytes)].f
    PROVE  Marking(longer, bytes \o more, Spliced(a, Len(bytes), e, Len(more)))
<1> DEFINE n == Len(bytes)
           m == Len(more)
           c == Spliced(a, n, e, m)
           w == bytes \o more
<1>1. /\ n \in Nat /\ m \in Nat /\ Len(w) = n + m
      /\ \A k \in 1 .. n : w[k] = bytes[k]
      /\ \A k \in 1 .. m : w[n + k] = more[k]
  OBVIOUS
<1>2. /\ \A k \in 0 .. n : c[k] = a[k]
      /\ \A k \in 1 .. m : c[n + k] = e[k]
  BY <1>1 DEF Spliced
<1>3. a \in [0 .. n -> Mark] /\ e \in [0 .. m -> Mark]
  BY DEF Marking
<1>4. c \in [0 .. n + m -> Mark]
  BY <1>1, <1>3 DEF Spliced
<1>5. \A k \in 0 .. n + m : Fits(longer, c[k])
  <2> TAKE k \in 0 .. n + m
  <2>1. CASE k <= n
    <3>1. k \in 0 .. n /\ a[k] \in Mark /\ Fits(list, a[k])
      BY <2>1, <1>1, <1>3 DEF Marking
    <3> QED
      BY <3>1, <1>2, LeadsOn
  <2>2. CASE ~ k <= n
    <3>1. k - n \in 1 .. m /\ k = n + (k - n) /\ k - n \in 0 .. m
      BY <2>2, <1>1
    <3> QED
      BY <3>1, <1>2 DEF Marking
  <2> QED
    BY <2>1, <2>2
<1>6. \A k \in 0 .. n + m - 1 : Leads(longer, c[k], w[k + 1], c[k + 1])
  <2> TAKE k \in 0 .. n + m - 1
  <2>1. CASE k < n
    <3>0. k \in 0 .. n /\ k + 1 \in 0 .. n /\ k + 1 \in 1 .. n /\ k \in 0 .. n - 1
      BY <2>1, <1>1
    <3>1. a[k] \in Mark /\ Fits(list, a[k])
      BY <3>0, <1>3 DEF Marking
    <3>2. Leads(list, a[k], bytes[k + 1], a[k + 1])
      BY <3>0 DEF Marking
    <3>3. Leads(longer, a[k], bytes[k + 1], a[k + 1])
      BY <3>1, <3>2, LeadsOn
    <3> QED
      BY <3>0, <3>3, <1>1, <1>2
  <2>2. CASE k = n
    <3>1. 1 \in 1 .. m /\ 0 \in 0 .. m - 1
      BY <2>2, <1>1
    <3>2. Leads(longer, e[0], more[1], e[1])
      BY <3>1 DEF Marking
    <3>3. GapLeads(e[0], more[1], e[1])
      BY <3>2 DEF Leads, NoiseLeads, FrameLeads, InFrame, InBroken
    <3>4. GapLeads(a[n], more[1], e[1])
      BY <3>3 DEF GapLeads
    <3>5. c[k] = a[n] /\ c[k + 1] = e[1] /\ w[k + 1] = more[1]
      BY <2>2, <3>1, <1>1, <1>2
    <3> QED
      BY <3>4, <3>5 DEF Leads
  <2>3. CASE k > n
    <3>1. /\ k - n \in 1 .. m /\ k = n + (k - n) /\ k - n \in 0 .. m - 1
          /\ k - n + 1 \in 1 .. m /\ k + 1 = n + (k - n + 1)
      BY <2>3, <1>1
    <3>2. Leads(longer, e[k - n], more[k - n + 1], e[k - n + 1])
      BY <3>1 DEF Marking
    <3>3. c[k] = e[k - n] /\ c[k + 1] = e[k - n + 1] /\ w[k + 1] = more[k - n + 1]
      BY <3>1, <1>1, <1>2
    <3> QED
      BY <3>2, <3>3
  <2>4. k < n \/ k = n \/ k > n
    BY <1>1
  <2> QED
    BY <2>1, <2>2, <2>3, <2>4
<1> HIDE DEF c, w
<1>7. Marking(longer, w, c)
  BY <1>1, <1>4, <1>5, <1>6 DEF Marking
<1> QED
  BY <1>7 DEF c, w, n, m

(* The bytes before the first frame have a marking.                         *)
LEMMA NoiseMarked ==
    ASSUME NEW noise \in Noise
    PROVE  \E a : /\ Marking(<< >>, noise, a)
                  /\ a[0].at = "noise"
                  /\ Outside(a[Len(noise)]) /\ a[Len(noise)].f = 0
<1> DEFINE n == Len(noise)
           M(at) == [at |-> at, f |-> 0, p |-> 0]
<1>1. noise \in Seq(Byte) /\ n \in Nat
  BY HdlcAssumption
<1>2. CASE \A i \in 1 .. n : noise[i] # boundary_byte
  <2> DEFINE a == [k \in 0 .. n |-> M("noise")]
  <2>1. a \in [0 .. n -> Mark]
    BY DEF Mark
  <2>2. \A k \in 0 .. n : Fits(<< >>, a[k])
    BY DEF Fits, InFrame
  <2>3. \A k \in 0 .. n - 1 : Leads(<< >>, a[k], noise[k + 1], a[k + 1])
    BY <1>1, <1>2 DEF Leads, NoiseLeads
  <2>4. a[0].at = "noise" /\ a[n].at = "noise" /\ a[n].f = 0
    BY <1>1
  <2> QED
    BY <2>1, <2>2, <2>3, <2>4 DEF Marking, Outside
<1>3. CASE \E i \in 1 .. n : noise[i] = boundary_byte
  <2>1. PICK i \in 1 .. n : BrokenFrame(noise, i)
    BY <1>3, HdlcAssumption
  <2>2. PICK d \in 1 .. 2 :
            /\ i + d <= n
            /\ \A j \in i + 1 .. n : noise[j] = escape_byte <=> j + d > n
            /\ \A j \in 1 .. n : noise[j] = boundary_byte <=> j = i
    BY <2>1 DEF BrokenFrame
  <2> DEFINE a == [k \in 0 .. n |-> IF k < i THEN M("noise")
                                    ELSE IF k + d <= n THEN M("broken")
                                    ELSE IF k + d = n + 1 THEN M("brokenEscape")
                                    ELSE M("noise")]
  <2>3. a \in [0 .. n -> Mark]
    BY DEF Mark
  <2>4. \A k \in 0 .. n : Fits(<< >>, a[k])
    BY DEF Fits, InFrame
  <2>5. \A k \in 0 .. n - 1 : NoiseLeads(a[k], noise[k + 1], a[k + 1])
    <3> TAKE k \in 0 .. n - 1
    <3> DEFINE j == k + 1
    <3>1. j \in 1 .. n /\ k \in 0 .. n /\ j \in 0 .. n
      BY <1>1
    <3>2. CASE j < i
      <4>1. a[k] = M("noise") /\ a[j] = M("noise") /\ noise[j] # boundary_byte
        BY <3>1, <3>2, <2>2
      <4> QED
        BY <4>1 DEF NoiseLeads
    <3>3. CASE j = i
      <4>1. a[k] = M("noise") /\ a[j] = M("broken") /\ noise[j] = boundary_byte
        BY <3>1, <3>3, <2>2
      <4> QED
        BY <4>1 DEF NoiseLeads
    <3>4. CASE j > i
      <4>1. j \in i + 1 .. n /\ noise[j] # boundary_byte
        BY <3>1, <3>4, <2>2
      <4>2. CASE j + d <= n
        <5>1. a[k] = M("broken") /\ a[j] = M("broken") /\ noise[j] # escape_byte
          BY <4>1, <4>2, <3>1, <2>2
        <5> QED
          BY <5>1, <4>1 DEF NoiseLeads, InBroken, Special
      <4>3. CASE j + d = n + 1
        <5>1. a[k] = M("broken") /\ a[j] = M("brokenEscape") /\ noise[j] = escape_byte
          BY <4>1, <4>3, <3>1, <2>2
        <5> QED
          BY <5>1 DEF NoiseLeads
      <4>4. CASE j + d = n + 2
        <5> HIDE DEF a
        <5>1. d = 2 /\ j = n
          BY <4>4, <3>1, <1>1
        <5>2. noise[j] = escape_byte
          BY <4>1, <5>1, <2>2, <1>1
        <5>3. ~ k < i /\ k + d = n + 1 /\ ~ k + d <= n /\ ~ j < i
          BY <4>1, <5>1, <3>1, <1>1
        <5> USE DEF a
        <5>4. a[k] = M("brokenEscape")
          BY <5>3, <3>1
        <5>5. a[j] = M("noise")
          BY <5>1, <5>3, <3>1, <1>1
        <5> QED
          BY <5>2, <5>4, <5>5 DEF NoiseLeads
      <4>5. j + d <= n \/ j + d = n + 1 \/ j + d = n + 2
        <5> HIDE DEF a
        <5> QED
          BY <3>1, <1>1
      <4> QED
        BY <4>2, <4>3, <4>4, <4>5
    <3> QED
      BY <3>1, <3>2, <3>3, <3>4
  <2>6. a[0].at = "noise"
    BY <1>1
  <2>7. a[n].at \in {"brokenEscape", "noise"} /\ a[n].f = 0
    BY <1>1, <2>2
  <2> HIDE DEF a
  <2> QED
    BY <2>3, <2>4, <2>5, <2>6, <2>7 DEF Marking, Outside, Leads
<1> QED
  BY <1>2, <1>3

(* The types of HDLC coding, and where the decoder can be.                  *)
HdlcTypes ==
    /\ encoder \in Encoding
    /\ decoder \in Decoding
    /\ stream \in Seq(Byte) /\ memory \in Seq(Byte)
    /\ Len(memory) <= Len(stream)
    /\ cut \in Nat
    /\ cut + decoder.length <= Len(memory)
    /\ decoder.input_it <= decoder.length
    /\ decoder.at = "idle" => decoder = NoDecoding
    /\ packets \in Nat
    /\ sent \in Seq(Seq(Byte)) /\ received \in Seq(Seq(Byte))
    /\ \A i \in 1 .. Len(sent) : sent[i] # << >>

(* All that encode() wrote has a marking, from a gap to where it has come.  *)
EncoderMarked(e) ==
    LET n == Len(encoder.output) IN
    /\ Marking(Nonempty(encoder.input, sent), encoder.output, e)
    /\ e[0].at = "gap" /\ e[0].f = Len(sent)
    /\ e[n].f = Len(sent)
    /\ encoder.input = << >> => e[n].at = "gap"
    /\ encoder.input # << >> => e[n].at = "frame" /\ e[n].p = encoder.input_it
EncoderHolds ==
    encoder.at = "loop" =>
        /\ encoder.input_it <= Len(encoder.input)
        /\ \E e : EncoderMarked(e)

(* A marking of all that is on the line.                                    *)
LineMarked(a) ==
    /\ Marking(sent, stream, a)
    /\ a[0].at = "noise"
    /\ Outside(a[Len(stream)]) /\ a[Len(stream)].f = Len(sent)

(* The input of decode() begins with a boundary, or in the noise.           *)
Ready(a, c) ==
    \/ a[c].at = "noise" /\ received = << >>
    \/ c < Len(stream) /\ stream[c + 1] = boundary_byte /\ a[c + 1].f = Len(received)
    \/ c < Len(stream) /\ stream[c + 1] # boundary_byte /\ a[c + 1].at = "noise"
       /\ received = << >>

(* The local variables of decode() are what the marking says.               *)
Place == cut + decoder.input_it
FrameStart == cut + decoder.input_frame_start + 1
DecoderOutside(a) ==
    /\ ~ decoder.escaped /\ decoder.output = << >> /\ decoder.input_frame_start = 0
    /\ decoder.input_it # 0 => a[Place].at = "noise" /\ received = << >>
DecoderInside(a) ==
    LET m == a[Place] IN
    /\ FrameStart <= Place
    /\ stream[FrameStart] = boundary_byte
    /\ a[FrameStart].f = Len(received)
    /\ Len(decoder.output) < decoder.input_it
    /\ \/ /\ m.at = "gap" /\ Place = FrameStart
          /\ ~ decoder.escaped /\ decoder.output = << >>
       \/ /\ InFrame(m) /\ m.f = Len(received)
          /\ decoder.escaped <=> m.at = "frameEscape"
          /\ Len(decoder.output) = m.p
          /\ \A i \in 1 .. m.p : decoder.output[i] = sent[m.f + 1][i]
       \/ /\ InBroken(m) /\ received = << >>
          /\ decoder.escaped <=> m.at = "brokenEscape"
DecoderHolds(a) ==
    /\ Ready(a, cut)
    /\ ~ decoder.inframe => DecoderOutside(a)
    /\ decoder.inframe => DecoderInside(a)

(* What decode() in place has written lies before what it reads; and it     *)
(* finds the end of the frame.                                              *)
MemoryKept ==
    \A k \in cut + 1 .. Len(memory) :
        (decoder.inPlace => k > cut + Len(decoder.output)) => memory[k] = stream[k]
EndAhead ==
    decoder.inPlace =>
        \E j \in Place + 1 .. cut + decoder.length :
            /\ stream[j] = boundary_byte
            /\ ~ decoder.inframe =>
                   \E i \in Place + 1 .. cut + decoder.length : i < j /\ stream[i] = boundary_byte

Delivered ==
    /\ Len(received) <= Len(sent)
    /\ \A i \in 1 .. Len(received) : received[i] = sent[i]

HdlcInv ==
    /\ HdlcTypes
    /\ EncoderHolds
    /\ \E a : LineMarked(a) /\ DecoderHolds(a)
    /\ MemoryKept
    /\ EndAhead
    /\ Delivered

LEMMA NonemptyList ==
    ASSUME NEW list \in Seq(Seq(Byte)), NEW packet \in Seq(Byte)
    PROVE  /\ Nonempty(packet, list) \in Seq(Seq(Byte))
           /\ GoesOn(list, Nonempty(packet, list))
           /\ packet = << >> => Nonempty(packet, list) = list
           /\ packet # << >> => /\ Len(Nonempty(packet, list)) = Len(list) + 1
                                /\ Nonempty(packet, list)[Len(list) + 1] = packet
  BY DEF Nonempty, GoesOn

LEMMA HdlcInitHolds == HdlcInit => HdlcInv
<1> SUFFICES ASSUME HdlcInit PROVE HdlcInv
  OBVIOUS
<1> USE DEF HdlcInit
<1>1. stream \in Seq(Byte)
  BY HdlcAssumption
<1>2. HdlcTypes
  BY <1>1 DEF HdlcTypes, NoEncoding, NoDecoding, Encoding, Decoding
<1>3. PICK a : /\ Marking(<< >>, stream, a)
               /\ a[0].at = "noise"
               /\ Outside(a[Len(stream)]) /\ a[Len(stream)].f = 0
  BY NoiseMarked
<1>4. LineMarked(a)
  BY <1>3 DEF LineMarked
<1>5. DecoderHolds(a)
  BY <1>3 DEF DecoderHolds, Ready, DecoderOutside, NoDecoding
<1>6. EncoderHolds /\ MemoryKept /\ EndAhead /\ Delivered
  BY DEF EncoderHolds, MemoryKept, EndAhead, Delivered, NoEncoding, NoDecoding
<1> QED
  BY <1>2, <1>4, <1>5, <1>6 DEF HdlcInv

LEMMA MaskedTwice == \A b \in Byte : Special(b) => /\ Masked(b) \in Byte /\ ~ Special(Masked(b))
                                                  /\ Masked(Masked(b)) = b
<1>1. Masked(126) = 94 /\ Masked(94) = 126 /\ Masked(125) = 93 /\ Masked(93) = 125
  BY DEF Masked, mask
<1> QED
  BY <1>1 DEF Special, Byte, boundary_byte, escape_byte

(* While decode() and the line stand still, only the encoder is to be seen. *)
LEMMA DecoderRests ==
    ASSUME HdlcInv, UNCHANGED <<stream, memory, cut, decoder, sent, received>>,
           encoder' \in Encoding, packets' \in Nat, EncoderHolds'
    PROVE  HdlcInv'
<1> USE DEF HdlcInv
<1>1. PICK a : LineMarked(a) /\ DecoderHolds(a)
  OBVIOUS
<1>2. HdlcTypes'
  BY DEF HdlcTypes
<1>3. LineMarked(a)'
  BY <1>1 DEF LineMarked
<1>4. DecoderHolds(a)'
  BY <1>1 DEF DecoderHolds, Ready, DecoderOutside, DecoderInside, Place, FrameStart
<1>5. (MemoryKept /\ EndAhead /\ Delivered)'
  BY DEF MemoryKept, EndAhead, Delivered, Place
<1> QED
  BY <1>2, <1>3, <1>4, <1>5

LEMMA encodeHolds ==
    ASSUME HdlcInv, NEW p \in Packet, NEW size \in EncodeSize, encode(p, size)
    PROVE  HdlcInv'
<1> USE DEF encode
<1> DEFINE list == Nonempty(p, sent)
           n == Len(sent)
           e == [k \in 0 .. 1 |-> [at |-> IF k = 1 /\ p # << >> THEN "frame" ELSE "gap",
                                   f |-> n, p |-> 0]]
<1>1. p \in Seq(Byte) /\ size \in Nat /\ sent \in Seq(Seq(Byte)) /\ packets \in Nat /\ n \in Nat
  BY HdlcAssumption DEF HdlcInv, HdlcTypes
<1>2. encoder' \in Encoding /\ packets' \in Nat
  BY <1>1 DEF Encoding, Byte, boundary_byte
<1>3. /\ encoder'.at = "loop" /\ encoder'.input = p /\ encoder'.input_it = 0
      /\ encoder'.output = <<boundary_byte>> /\ Len(encoder'.output) = 1
  OBVIOUS
<1>4. e \in [0 .. 1 -> Mark] /\ e[0].at = "gap" /\ e[0].f = n
  BY <1>1 DEF Mark
<1>5. e[1].f = n /\ e[1].p = 0 /\ e[1].at = IF p # << >> THEN "frame" ELSE "gap"
  BY <1>1
<1> HIDE DEF e
<1>6. \A k \in 0 .. 1 : Fits(list, e[k])
  <2>1. Fits(list, e[0])
    BY <1>4 DEF Fits, InFrame
  <2>2. CASE p = << >>
    BY <2>1, <2>2, <1>5 DEF Fits, InFrame
  <2>3. CASE p # << >>
    <3>1. Len(list) = n + 1 /\ list[n + 1] = p
      BY <2>3, <1>1 DEF Nonempty
    <3>2. e[1].at = "frame" /\ e[1].f = n /\ e[1].p = 0
      BY <2>3, <1>5
    <3> HIDE DEF list
    <3>3. Fits(list, e[1])
      BY <3>1, <3>2, <1>1 DEF Fits, InFrame
    <3> QED
      BY <2>1, <3>3
  <2> QED
    BY <2>2, <2>3
<1>7. Leads(list, e[0], boundary_byte, e[1])
  BY <1>4, <1>5 DEF Leads, GapLeads, Outside
<1>8. Marking(list, <<boundary_byte>>, e)
  BY <1>4, <1>6, <1>7 DEF Marking
<1>9. EncoderMarked(e)'
  BY <1>1, <1>3, <1>4, <1>5, <1>8 DEF EncoderMarked
<1>10. EncoderHolds'
  BY <1>1, <1>3, <1>9 DEF EncoderHolds
<1> QED
  BY <1>2, <1>10, DecoderRests

LEMMA encodeFailsHolds ==
    ASSUME HdlcInv, encodeFails
    PROVE  HdlcInv'
<1>1. encoder' \in Encoding /\ encoder'.at = "idle"
  BY DEF encodeFails, NoEncoding, Encoding
<1>2. packets' \in Nat /\ EncoderHolds'
  BY <1>1 DEF EncoderHolds, encodeFails, HdlcInv, HdlcTypes
<1> QED
  BY <1>1, <1>2, DecoderRests DEF encodeFails

LEMMA encodeByteHolds ==
    ASSUME HdlcInv, encodeByte
    PROVE  HdlcInv'
<1> DEFINE input == encoder.input
           it == encoder.input_it
           output == encoder.output
           b == input[it + 1]
           list == Nonempty(input, sent)
           n == Len(output)
           f == Len(sent)
           z == [at |-> "frame", f |-> f, p |-> it + 1]
<1>1. /\ encoder.at = "loop" /\ it < Len(input)
      /\ encoder' = [encoder EXCEPT !.input_it = it + 1, !.output = output \o Stuffed(b)]
      /\ packets' = packets
      /\ UNCHANGED <<stream, memory, cut, decoder, sent, received>>
  BY DEF encodeByte, InputLeft
<1>2. /\ encoder \in Encoding /\ input \in Seq(Byte) /\ it \in Nat /\ output \in Seq(Byte)
      /\ sent \in Seq(Seq(Byte)) /\ packets \in Nat /\ n \in Nat /\ f \in Nat
  BY DEF HdlcInv, HdlcTypes, Encoding
<1>3. it + 1 \in 1 .. Len(input) /\ b \in Byte /\ input # << >>
  BY <1>1, <1>2
<1>4. list \in Seq(Seq(Byte)) /\ Len(list) = f + 1 /\ list[f + 1] = input
  BY <1>2, <1>3, NonemptyList
<1>5. PICK e : EncoderMarked(e)
  BY <1>1 DEF HdlcInv, EncoderHolds
<1>6. /\ Marking(list, output, e)
      /\ e[0].at = "gap" /\ e[0].f = f
      /\ e[n].at = "frame" /\ e[n].f = f /\ e[n].p = it
  BY <1>3, <1>5 DEF EncoderMarked
<1>7. z \in Mark /\ Fits(list, z)
  BY <1>2, <1>3, <1>4 DEF Mark, Fits, InFrame
<1>8. \E c : /\ Marking(list, output \o Stuffed(b), c)
             /\ c[0].at = "gap" /\ c[0].f = f
             /\ c[Len(output \o Stuffed(b))] = z
  <2>1. CASE ~ Special(b)
    <3>1. Leads(list, e[n], b, z)
      <4>1. InFrame(e[n]) /\ e[n].p < Len(list[e[n].f + 1])
        BY <1>1, <1>4, <1>6 DEF InFrame
      <4>2. list[e[n].f + 1][e[n].p + 1] = b /\ e[n].at # "frameEscape"
        BY <1>4, <1>6
      <4>3. z.at = "frame" /\ z.f = e[n].f /\ z.p = e[n].p + 1
        BY <1>6
      <4> HIDE DEF z, b, list
      <4> QED
        BY <2>1, <4>1, <4>2, <4>3 DEF Leads, FrameLeads
    <3>2. Marking(list, Append(output, b), Marked(e, n, z))
      BY <3>1, <1>2, <1>3, <1>6, <1>7, MarkByte
    <3>3. output \o Stuffed(b) = Append(output, b)
      BY <2>1, <1>2, <1>3 DEF Stuffed
    <3>4. Len(Append(output, b)) = n + 1
      BY <1>2, <1>3
    <3>5. Marked(e, n, z)[0] = e[0] /\ Marked(e, n, z)[n + 1] = z
      BY <1>2 DEF Marked
    <3> QED
      BY <3>2, <3>3, <3>4, <3>5, <1>6
  <2>2. CASE Special(b)
    <3> DEFINE y == [at |-> "frameEscape", f |-> f, p |-> it]
               d == Marked(e, n, y)
               w == Append(output, escape_byte)
    <3>0. escape_byte \in Byte /\ ~ escape_byte = boundary_byte
      BY DEF Byte, escape_byte, boundary_byte
    <3>1. Leads(list, e[n], escape_byte, y)
      BY <1>3, <1>4, <1>6, <1>2 DEF Leads, FrameLeads
    <3>2. y \in Mark /\ Fits(list, y)
      BY <1>2, <1>3, <1>4 DEF Mark, Fits, InFrame
    <3>3. Marking(list, w, d)
      BY <3>0, <3>1, <3>2, <1>2, <1>6, MarkByte
    <3>4. w \in Seq(Byte) /\ Len(w) = n + 1
      BY <3>0, <1>2
    <3>5. d[0] = e[0] /\ d[n + 1] = y
      BY <1>2 DEF Marked
    <3>6. Masked(b) \in Byte /\ ~ Special(Masked(b)) /\ Masked(Masked(b)) = b
      BY <2>2, <1>3, MaskedTwice
    <3>7. Leads(list, y, Masked(b), z)
      BY <3>6, <1>3, <1>4, <1>2 DEF Leads, FrameLeads, InFrame
    <3> HIDE DEF d, w
    <3>8. Leads(list, d[Len(w)], Masked(b), z)
      BY <3>4, <3>5, <3>7
    <3>9. Marking(list, Append(w, Masked(b)), Marked(d, Len(w), z))
      BY <3>3, <3>4, <3>6, <3>8, <1>7, MarkByte
    <3>10. output \o Stuffed(b) = Append(w, Masked(b))
      BY SMTT(30), <2>2, <3>0, <3>6, <1>2 DEF Stuffed, w
    <3>11. Len(Append(w, Masked(b))) = n + 2
      BY <3>4, <3>6, <1>2
    <3>12. Marked(d, Len(w), z)[0] = e[0] /\ Marked(d, Len(w), z)[n + 2] = z
      BY <3>4, <3>5, <1>2 DEF Marked
    <3> QED
      BY <3>9, <3>10, <3>11, <3>12, <1>6
  <2> QED
    BY <2>1, <2>2
<1>9. Stuffed(b) \in Seq(Byte)
  <2>1. escape_byte \in Byte
    BY DEF Byte, escape_byte
  <2> HIDE DEF b
  <2>2. CASE Special(b)
    <3>1. Masked(b) \in Byte
      BY <2>2, <1>3, MaskedTwice
    <3> QED
      BY <2>1, <2>2, <3>1 DEF Stuffed
  <2>3. CASE ~ Special(b)
    BY <2>3, <1>3 DEF Stuffed
  <2> QED
    BY <2>2, <2>3
<1>10. encoder' \in Encoding
  <2>1. output \o Stuffed(b) \in Seq(Byte) /\ it + 1 \in Nat
    BY <1>2, <1>9
  <2> HIDE DEF b, it, output
  <2> QED
    BY <2>1, <1>1, <1>2 DEF Encoding
<1>11. /\ encoder'.input = input /\ encoder'.input_it = it + 1
       /\ encoder'.output = output \o Stuffed(b)
  BY <1>1, <1>2 DEF Encoding
<1>12. PICK c : /\ Marking(list, output \o Stuffed(b), c)
                /\ c[0].at = "gap" /\ c[0].f = f
                /\ c[Len(output \o Stuffed(b))] = z
  BY <1>8
<1>13. EncoderMarked(c)'
  <2>1. sent' = sent /\ Nonempty(encoder'.input, sent') = list
    BY <1>1, <1>11
  <2>2. z.at = "frame" /\ z.f = f /\ z.p = it + 1
    OBVIOUS
  <2> HIDE DEF z, list, b, output
  <2> QED
    BY <2>1, <2>2, <1>3, <1>11, <1>12 DEF EncoderMarked
<1>14. EncoderHolds'
  BY <1>2, <1>3, <1>11, <1>13 DEF EncoderHolds
<1> QED
  BY <1>1, <1>2, <1>10, <1>14, DecoderRests

(* What the line gets is seen by no call of decode().                       *)
LEMMA encodeEndHolds ==
    ASSUME HdlcInv, encodeEnd
    PROVE  HdlcInv'
<1> DEFINE input == encoder.input
           output == encoder.output
           list == Nonempty(input, sent)
           n == Len(output)
           f == Len(sent)
           w == Append(output, boundary_byte)
           z == [at |-> "gap", f |-> Len(list), p |-> 0]
<1>1. /\ encoder.at = "loop" /\ ~ encoder.input_it < Len(input)
      /\ stream' = stream \o w /\ sent' = list /\ encoder' = NoEncoding
      /\ UNCHANGED <<memory, cut, decoder, packets, received>>
  BY DEF encodeEnd, InputLeft
<1>2. /\ encoder \in Encoding /\ input \in Seq(Byte) /\ encoder.input_it \in Nat
      /\ output \in Seq(Byte) /\ n \in Nat /\ f \in Nat
      /\ sent \in Seq(Seq(Byte)) /\ received \in Seq(Seq(Byte))
      /\ stream \in Seq(Byte) /\ memory \in Seq(Byte) /\ Len(memory) <= Len(stream)
      /\ cut \in Nat /\ decoder \in Decoding
      /\ cut + decoder.length <= Len(memory) /\ decoder.input_it <= decoder.length
      /\ \A i \in 1 .. f : sent[i] # << >>
  BY DEF HdlcInv, HdlcTypes, Encoding
<1>2a. f \in Nat
  BY <1>2
<1>3. /\ list \in Seq(Seq(Byte)) /\ GoesOn(sent, list) /\ Len(list) \in Nat
      /\ input = << >> => list = sent
      /\ input # << >> => Len(list) = f + 1 /\ list[f + 1] = input
  <2>1. list \in Seq(Seq(Byte)) /\ GoesOn(sent, list)
    BY <1>2, NonemptyList
  <2>2. input = << >> => list = sent
    BY <1>2, NonemptyList
  <2>3. input # << >> => Len(list) = f + 1 /\ list[f + 1] = input
    BY <1>2, NonemptyList
  <2> HIDE DEF list
  <2> QED
    BY <2>1, <2>2, <2>3
<1>4. boundary_byte \in Byte /\ w \in Seq(Byte) /\ Len(w) = n + 1
  BY <1>2 DEF Byte, boundary_byte
<1>5. PICK e : EncoderMarked(e)
  BY <1>1 DEF HdlcInv, EncoderHolds
<1>6. /\ Marking(list, output, e) /\ e[0].at = "gap" /\ e[0].f = f /\ e[n].f = f
      /\ input = << >> => e[n].at = "gap"
      /\ input # << >> => e[n].at = "frame" /\ e[n].p = encoder.input_it
      /\ encoder.input_it <= Len(input)
  BY <1>1, <1>5 DEF HdlcInv, EncoderMarked, EncoderHolds
<1> DEFINE d == Marked(e, n, z)
<1>7. Marking(list, w, d) /\ d[0] = e[0] /\ d[n + 1] = z
  <2>1. z \in Mark /\ Fits(list, z) /\ z.at = "gap" /\ z.f = Len(list)
    BY <1>3 DEF Mark, Fits, InFrame
  <2> HIDE DEF z, list
  <2>2. Leads(list, e[n], boundary_byte, z)
    <3>1. CASE input = << >>
      <4>1. e[n].at = "gap" /\ z.f = e[n].f
        BY <3>1, <2>1, <1>3, <1>6
      <4>2. GapLeads(e[n], boundary_byte, z)
        BY <4>1, <2>1 DEF GapLeads, Outside
      <4> QED
        BY <4>2 DEF Leads
    <3>2. CASE input # << >>
      <4> HIDE DEF n, f
      <4>1. e[n].at = "frame" /\ e[n].p = encoder.input_it /\ e[n].f = f
        BY <3>2, <1>6
      <4>2. list[e[n].f + 1] = input /\ z.f = e[n].f + 1
        BY <3>2, <4>1, <2>1, <1>3
      <4>3. encoder.input_it = Len(input)
        BY <1>1, <1>2, <1>6
      <4> QED
        <5>1. e[n].p = Len(list[e[n].f + 1])
          BY <4>1, <4>2, <4>3
        <5>2. FrameLeads(list, e[n], boundary_byte, z)
          BY <4>1, <4>2, <5>1, <2>1, Zenon DEF FrameLeads
        <5> QED
          BY <5>2 DEF Leads
    <3> QED
      BY <3>1, <3>2
  <2>3. Marking(list, w, d)
    BY <2>1, <2>2, <1>2, <1>4, <1>6, MarkByte
  <2>4. d[0] = e[0] /\ d[n + 1] = z
    BY <1>2 DEF Marked
  <2> QED
    BY <2>3, <2>4
<1>8. PICK a : LineMarked(a) /\ DecoderHolds(a)
  BY DEF HdlcInv
<1> DEFINE N == Len(stream)
<1> HIDE DEF d
<1>0. PICK c : c = Spliced(a, N, d, Len(w))
  OBVIOUS
<1>9. N \in Nat /\ Len(stream \o w) = N + (n + 1) /\ \A k \in 1 .. N : (stream \o w)[k] = stream[k]
  BY <1>2, <1>4
<1>10. LineMarked(c)'
  <2>1. Marking(list, stream \o w, c)
    <3> HIDE DEF w, list
    <3> QED
      BY <1>0, <1>2, <1>3, <1>4, <1>6, <1>7, <1>8, Splice DEF LineMarked
  <2>2. c[0] = a[0]
    BY <1>0, <1>2, <1>4, <1>9 DEF Spliced
  <2>3. c[N + (n + 1)] = d[n + 1]
    BY <1>0, <1>2, <1>4, <1>9 DEF Spliced
  <2>4. a[0].at = "noise" /\ d[n + 1].at = "gap" /\ d[n + 1].f = Len(list)
    BY <1>7, <1>8 DEF LineMarked
  <2> HIDE DEF w, list
  <2> QED
    BY <1>1, <1>9, <2>1, <2>2, <2>3, <2>4 DEF LineMarked, Outside
<1>11. \A k \in 0 .. N : c[k] = a[k]
  BY <1>0, <1>2, <1>4 DEF Spliced
<1>12. /\ stream' \in Seq(Byte) /\ Len(stream') >= N /\ \A k \in 1 .. N : stream'[k] = stream[k]
  BY <1>1, <1>2, <1>4, <1>9
<1>13. /\ sent' \in Seq(Seq(Byte)) /\ Len(sent') >= f
       /\ \A i \in 1 .. f : sent'[i] = sent[i]
       /\ \A i \in 1 .. Len(sent') : sent'[i] # << >>
  <2> HIDE DEF list
  <2>1. \A i \in 1 .. Len(list) : list[i] # << >>
    <3>1. CASE input = << >>
      BY <3>1, <1>2, <1>3
    <3>2. CASE input # << >>
      <4> TAKE i \in 1 .. Len(list)
      <4>0. Len(list) = f + 1
        BY <3>2, <1>3
      <4>1. i \in 1 .. f \/ i = f + 1
        BY <4>0, <1>2a
      <4> QED
        BY <3>2, <4>1, <1>2, <1>3 DEF GoesOn
    <3> QED
      BY <3>1, <3>2
  <2> QED
    BY <2>1, <1>1, <1>3 DEF GoesOn
<1> HIDE DEF w, list
<1>14. HdlcTypes'
  <2>1. encoder' \in Encoding
    BY <1>1 DEF NoEncoding, Encoding
  <2>2. Len(memory) <= Len(stream')
    BY <1>2, <1>12
  <2> QED
    BY <2>1, <2>2, <1>1, <1>12, <1>13 DEF HdlcInv, HdlcTypes
<1>15. EncoderHolds'
  BY <1>1 DEF EncoderHolds, NoEncoding
<1>16. /\ cut \in 0 .. N /\ Place \in 0 .. N /\ decoder.input_frame_start \in Nat
       /\ Place + 1 .. cut + decoder.length \subseteq 1 .. N
       /\ cut + 1 .. Len(memory) \subseteq 1 .. N
  <2>1. decoder.input_it \in Nat /\ decoder.length \in Nat /\ decoder.input_frame_start \in Nat
    BY <1>2 DEF Decoding
  <2>2. Len(memory) \in Nat /\ Len(memory) <= N /\ N \in Nat /\ cut \in Nat
        /\ cut + decoder.length <= Len(memory) /\ decoder.input_it <= decoder.length
    BY <1>2
  <2> HIDE DEF N
  <2> QED
    BY <2>1, <2>2 DEF Place
<1>17. Place' = Place /\ FrameStart' = FrameStart
  BY <1>1 DEF Place, FrameStart
<1>18. Ready(c, cut)'
  <2>1. CASE a[cut].at = "noise" /\ received = << >>
    BY <2>1, <1>1, <1>11, <1>16 DEF Ready
  <2>2. CASE cut < N
    <3>1. /\ cut + 1 \in 0 .. N /\ cut + 1 \in 1 .. N
      BY <2>2, <1>16
    <3>2. c[cut + 1] = a[cut + 1] /\ stream'[cut + 1] = stream[cut + 1] /\ cut < Len(stream')
      BY <2>2, <3>1, <1>2, <1>11, <1>12
    <3> QED
      BY <2>2, <3>2, <1>1, <1>8, <1>11, <1>16 DEF DecoderHolds, Ready
  <2> QED
    BY <2>1, <2>2, <1>8 DEF DecoderHolds, Ready
<1>19. ~ decoder.inframe => DecoderOutside(c)'
  BY <1>1, <1>8, <1>11, <1>16, <1>17 DEF DecoderHolds, DecoderOutside
<1>20. ASSUME decoder.inframe PROVE DecoderInside(c)'
  <2>1. DecoderInside(a)
    BY <1>8, <1>20 DEF DecoderHolds
  <2>2. FrameStart \in 1 .. N /\ FrameStart \in 0 .. N
    BY <2>1, <1>16 DEF DecoderInside, FrameStart
  <2>3. /\ c[FrameStart] = a[FrameStart] /\ stream'[FrameStart] = stream[FrameStart]
        /\ c[Place] = a[Place]
    BY <2>2, <1>11, <1>12, <1>16
  <2>4. a[Place] \in Mark /\ Fits(sent, a[Place])
    BY <1>8, <1>16 DEF LineMarked, Marking
  <2>5. ASSUME InFrame(a[Place]) PROVE sent'[a[Place].f + 1] = sent[a[Place].f + 1]
    <3>1. a[Place].f + 1 \in 1 .. f
      BY <2>4, <2>5, <1>2a DEF Fits, Mark
    <3> QED
      BY <3>1, <1>13
  <2>6. (FrameStart <= Place)' /\ (Len(decoder.output) < decoder.input_it)'
    BY <2>1, <1>1, <1>17 DEF DecoderInside
  <2>7. stream'[FrameStart'] = boundary_byte /\ c[FrameStart'].f = Len(received')
    BY <2>1, <2>3, <1>1, <1>17 DEF DecoderInside
  <2>8. c[Place'] = a[Place] /\ decoder' = decoder /\ received' = received
    BY <2>3, <1>1, <1>17
  <2>9. \/ /\ c[Place'].at = "gap" /\ Place' = FrameStart'
           /\ ~ decoder'.escaped /\ decoder'.output = << >>
        \/ /\ InFrame(c[Place']) /\ c[Place'].f = Len(received')
           /\ decoder'.escaped <=> c[Place'].at = "frameEscape"
           /\ Len(decoder'.output) = c[Place'].p
           /\ \A i \in 1 .. c[Place'].p : decoder'.output[i] = sent'[c[Place'].f + 1][i]
        \/ /\ InBroken(c[Place']) /\ received' = << >>
           /\ decoder'.escaped <=> c[Place'].at = "brokenEscape"
    BY <2>1, <2>5, <2>8, <1>17 DEF DecoderInside
  <2> QED
    BY <2>6, <2>7, <2>9 DEF DecoderInside
<1>21. DecoderHolds(c)'
  BY <1>1, <1>18, <1>19, <1>20 DEF DecoderHolds
<1>22. MemoryKept'
  BY <1>1, <1>12, <1>16 DEF HdlcInv, MemoryKept
<1>23. EndAhead'
  <2> SUFFICES ASSUME decoder.inPlace PROVE EndAhead'
    BY <1>1 DEF EndAhead
  <2>1. PICK j \in Place + 1 .. cut + decoder.length :
            /\ stream[j] = boundary_byte
            /\ ~ decoder.inframe =>
                   \E i \in Place + 1 .. cut + decoder.length : i < j /\ stream[i] = boundary_byte
    BY DEF HdlcInv, EndAhead
  <2>2. stream'[j] = boundary_byte
    BY <2>1, <1>12, <1>16
  <2>3. ~ decoder.inframe =>
            \E i \in Place + 1 .. cut + decoder.length : i < j /\ stream'[i] = boundary_byte
    BY <2>1, <1>12, <1>16
  <2> QED
    BY <2>2, <2>3, <1>1, <1>17 DEF EndAhead
<1>24. Delivered'
  <2>1. Len(received) <= f /\ \A i \in 1 .. Len(received) : received[i] = sent[i]
    BY DEF HdlcInv, Delivered
  <2>2. Len(received) \in Nat
    BY <1>2
  <2>3. \A i \in 1 .. Len(received) : i \in 1 .. f
    BY <2>1, <2>2, <1>2a
  <2>4. Len(sent') \in Nat /\ Len(sent') >= f /\ received' = received
    BY <1>1, <1>13
  <2> HIDE DEF f
  <2>5. Len(received) <= Len(sent')
    BY <2>1, <2>2, <2>4, <1>2a
  <2>6. \A i \in 1 .. Len(received) : received[i] = sent'[i]
    BY <2>1, <2>3, <1>13 DEF f
  <2> QED
    BY <2>4, <2>5, <2>6 DEF Delivered
<1> QED
  BY <1>10, <1>14, <1>15, <1>21, <1>22, <1>23, <1>24 DEF HdlcInv

LEMMA arriveHolds ==
    ASSUME HdlcInv, arrive
    PROVE  HdlcInv'
<1> USE DEF HdlcInv
<1>1. /\ Len(memory) < Len(stream)
      /\ memory' = Append(memory, stream[Len(memory) + 1])
      /\ UNCHANGED <<encoder, stream, cut, decoder, packets, sent, received>>
  BY DEF arrive
<1>2. stream \in Seq(Byte) /\ memory \in Seq(Byte) /\ cut \in Nat
  BY DEF HdlcTypes
<1>3. stream[Len(memory) + 1] \in Byte
  BY <1>1, <1>2
<1>4. /\ memory' \in Seq(Byte) /\ Len(memory') = Len(memory) + 1
      /\ \A k \in 1 .. Len(memory) : memory'[k] = memory[k]
      /\ memory'[Len(memory) + 1] = stream[Len(memory) + 1]
  BY <1>1, <1>2, <1>3
<1>5. HdlcTypes'
  BY <1>1, <1>4 DEF HdlcTypes, Decoding
<1>6. EncoderHolds'
  BY <1>1 DEF EncoderHolds, EncoderMarked
<1>7. PICK a : LineMarked(a) /\ DecoderHolds(a)
  OBVIOUS
<1>8. (LineMarked(a) /\ DecoderHolds(a))'
  BY <1>1, <1>7
     DEF LineMarked, DecoderHolds, Ready, DecoderOutside, DecoderInside, Place, FrameStart
<1>9. MemoryKept'
  BY <1>1, <1>2, <1>4 DEF MemoryKept
<1>10. EndAhead' /\ Delivered'
  BY <1>1 DEF EndAhead, Delivered, Place
<1> QED
  BY <1>5, <1>6, <1>8, <1>9, <1>10

LEMMA decodeHolds ==
    ASSUME HdlcInv, NEW inPlace \in BOOLEAN, decode(inPlace)
    PROVE  HdlcInv'
<1>1. /\ decoder = NoDecoding
      /\ decoder' = [at |-> "loop", input_it |-> 0, length |-> Len(memory) - cut,
                     input_frame_start |-> 0, escaped |-> FALSE, inframe |-> FALSE,
                     output |-> << >>, inPlace |-> inPlace]
      /\ inPlace => FrameArrived
      /\ UNCHANGED <<encoder, stream, memory, cut, packets, sent, received>>
  BY DEF decode, NoDecoding, HdlcInv, HdlcTypes
<1>2. cut \in Nat /\ Len(memory) \in Nat /\ cut <= Len(memory)
  BY <1>1 DEF HdlcInv, HdlcTypes, NoDecoding
<1>3. decoder' \in Decoding
  BY <1>1, <1>2 DEF Decoding
<1>4. HdlcTypes'
  BY <1>1, <1>2, <1>3 DEF HdlcInv, HdlcTypes
<1>5. EncoderHolds'
  BY <1>1 DEF HdlcInv, EncoderHolds, EncoderMarked
<1>6. PICK a : LineMarked(a) /\ DecoderHolds(a)
  BY DEF HdlcInv
<1>7. LineMarked(a)'
  BY <1>1, <1>6 DEF LineMarked
<1>8. DecoderHolds(a)'
  BY <1>1, <1>6 DEF DecoderHolds, Ready, DecoderOutside
<1>9. \A k \in cut + 1 .. Len(memory) : memory[k] = stream[k]
  BY <1>1 DEF HdlcInv, MemoryKept, NoDecoding
<1>10. MemoryKept'
  BY <1>1, <1>9 DEF MemoryKept
<1>11. EndAhead'
  <2> SUFFICES ASSUME inPlace PROVE EndAhead'
    BY <1>1 DEF EndAhead
  <2>1. PICK i, j \in cut + 1 .. Len(memory) :
            i < j /\ memory[i] = boundary_byte /\ memory[j] = boundary_byte
    BY <1>1 DEF FrameArrived
  <2>2. stream[i] = boundary_byte /\ stream[j] = boundary_byte
    BY <2>1, <1>9
  <2>3. Place' + 1 .. (cut + decoder.length)' = cut + 1 .. Len(memory)
    BY <1>1, <1>2 DEF Place
  <2> QED
    BY <2>1, <2>2, <2>3, <1>1 DEF EndAhead
<1>12. Delivered'
  BY <1>1 DEF HdlcInv, Delivered
<1> QED
  BY <1>4, <1>5, <1>7, <1>8, <1>10, <1>11, <1>12 DEF HdlcInv

(* decode() reads the byte that was written, and knows what it means.       *)
LEMMA ByteRead ==
    ASSUME HdlcInv, NEW a, LineMarked(a), DecoderHolds(a), More
    PROVE  /\ Place \in Nat /\ Place + 1 \in cut + 1 .. Len(memory)
           /\ Place + 1 <= cut + decoder.length
           /\ Place + 1 \in 1 .. Len(stream) /\ Place \in 0 .. Len(stream) - 1
           /\ Data = stream[Place + 1] /\ Data \in Byte
           /\ Len(decoder.output) \in Nat /\ Len(decoder.output) <= decoder.input_it
           /\ a[Place] \in Mark /\ Fits(sent, a[Place])
           /\ a[Place + 1] \in Mark /\ Fits(sent, a[Place + 1])
           /\ Leads(sent, a[Place], Data, a[Place + 1])
<1>1. /\ cut \in Nat /\ decoder.input_it \in Nat /\ decoder.length \in Nat
      /\ Len(memory) \in Nat /\ Len(stream) \in Nat /\ Len(memory) <= Len(stream)
      /\ cut + decoder.length <= Len(memory)
      /\ stream \in Seq(Byte) /\ decoder.output \in Seq(Byte)
      /\ decoder.inframe \in BOOLEAN
  BY DEF HdlcInv, HdlcTypes, Decoding
<1>2. decoder.input_it < decoder.length
  BY DEF More
<1>3. /\ Place \in Nat /\ Place + 1 \in cut + 1 .. Len(memory)
      /\ Place + 1 <= cut + decoder.length
      /\ Place + 1 \in 1 .. Len(stream) /\ Place \in 0 .. Len(stream) - 1
      /\ Place \in 0 .. Len(stream) /\ Place + 1 \in 0 .. Len(stream)
  BY SMTT(30), <1>1, <1>2 DEF Place
<1>4. Len(decoder.output) \in Nat /\ Len(decoder.output) <= decoder.input_it
  <2>1. CASE decoder.inframe
    BY <2>1, <1>1 DEF DecoderHolds, DecoderInside
  <2>2. CASE ~ decoder.inframe
    BY <2>2, <1>1 DEF DecoderHolds, DecoderOutside
  <2> QED
    BY <2>1, <2>2
<1>5. Place + 1 > cut + Len(decoder.output)
  BY <1>1, <1>4 DEF Place
<1>6. Data = stream[Place + 1]
  BY <1>3, <1>5 DEF HdlcInv, MemoryKept, Data, Place
<1>7. Data \in Byte
  BY <1>1, <1>3, <1>6
<1>8. /\ a[Place] \in Mark /\ Fits(sent, a[Place])
      /\ a[Place + 1] \in Mark /\ Fits(sent, a[Place + 1])
      /\ Leads(sent, a[Place], Data, a[Place + 1])
  BY <1>3, <1>6 DEF LineMarked, Marking
<1> QED
  BY <1>3, <1>4, <1>6, <1>7, <1>8

(* A call that returns.                                                     *)
LEMMA ReturnHolds ==
    ASSUME HdlcInv, NEW a, LineMarked(a), NEW n \in Nat, NEW output \in Seq(Byte),
           DecodeReturns(n, output), n <= decoder.length,
           \A k \in cut + n + 1 .. Len(memory) : memory[k] = stream[k],
           Ready(a, cut)', Delivered'
    PROVE  HdlcInv'
<1>1. /\ decoder' = NoDecoding /\ cut' = cut + n /\ received' = Nonempty(output, received)
      /\ UNCHANGED <<encoder, stream, memory, packets, sent>>
  BY DEF DecodeReturns
<1>2. NoDecoding \in Decoding
  BY DEF NoDecoding, Decoding
<1>3. /\ cut \in Nat /\ decoder.length \in Nat /\ cut + decoder.length <= Len(memory)
      /\ received \in Seq(Seq(Byte)) /\ Len(memory) \in Nat
  BY DEF HdlcInv, HdlcTypes, Decoding
<1>4. received' \in Seq(Seq(Byte)) /\ cut' \in Nat /\ cut' <= Len(memory)
  BY <1>1, <1>3, NonemptyList
<1>5. HdlcTypes'
  BY <1>1, <1>2, <1>4 DEF HdlcInv, HdlcTypes, NoDecoding
<1>6. EncoderHolds'
  BY <1>1 DEF HdlcInv, EncoderHolds, EncoderMarked
<1>7. LineMarked(a)'
  BY <1>1 DEF LineMarked
<1>8. DecoderHolds(a)'
  BY <1>1 DEF DecoderHolds, DecoderOutside, NoDecoding
<1>9. MemoryKept' /\ EndAhead'
  BY <1>1 DEF MemoryKept, EndAhead, NoDecoding
<1> QED
  BY <1>5, <1>6, <1>7, <1>8, <1>9 DEF HdlcInv

(* A call that goes on to the next byte.                                    *)
LEMMA ContinueHolds ==
    ASSUME HdlcInv, NEW a, LineMarked(a), DecoderHolds(a), More,
           NEW d \in Decoding, DecodeContinues(d),
           d.at = "loop", d.input_it = decoder.input_it, d.length = decoder.length,
           d.inPlace = decoder.inPlace,
           d.inframe <=> decoder.inframe \/ Data = boundary_byte,
           decoder.inframe => Data # boundary_byte,
           memory' \in Seq(Byte), Len(memory') = Len(memory), MemoryKept',
           ~ d.inframe => DecoderOutside(a)', d.inframe => DecoderInside(a)'
    PROVE  HdlcInv'
<1>1. /\ decoder' = [d EXCEPT !.input_it = decoder.input_it + 1]
      /\ UNCHANGED <<encoder, stream, cut, packets, sent, received>>
  BY DEF DecodeContinues
<1>2. /\ decoder.input_it \in Nat /\ decoder.length \in Nat /\ cut \in Nat
      /\ decoder.input_it < decoder.length
  BY DEF HdlcInv, HdlcTypes, Decoding, More
<1>3. /\ decoder' \in Decoding /\ decoder'.input_it = decoder.input_it + 1
      /\ decoder'.at = "loop" /\ decoder'.length = decoder.length
      /\ decoder'.inPlace = decoder.inPlace /\ decoder'.inframe = d.inframe
  <2>1. decoder' \in Decoding
    BY <1>1, <1>2 DEF Decoding
  <2>2. /\ decoder'.input_it = decoder.input_it + 1 /\ decoder'.at = d.at
        /\ decoder'.length = d.length /\ decoder'.inPlace = d.inPlace
        /\ decoder'.inframe = d.inframe
    BY <1>1 DEF Decoding
  <2> QED
    BY <2>1, <2>2
<1>4. HdlcTypes'
  BY <1>1, <1>2, <1>3 DEF HdlcInv, HdlcTypes
<1>5. EncoderHolds'
  BY <1>1 DEF HdlcInv, EncoderHolds, EncoderMarked
<1>6. LineMarked(a)'
  BY <1>1 DEF LineMarked
<1>7. DecoderHolds(a)'
  BY <1>1, <1>3 DEF DecoderHolds, Ready
<1>8. EndAhead'
  <2> SUFFICES ASSUME decoder.inPlace PROVE EndAhead'
    BY <1>3 DEF EndAhead
  <2>1. PICK j \in Place + 1 .. cut + decoder.length :
            /\ stream[j] = boundary_byte
            /\ ~ decoder.inframe =>
                   \E i \in Place + 1 .. cut + decoder.length : i < j /\ stream[i] = boundary_byte
    BY DEF HdlcInv, EndAhead
  <2>2. Place \in Nat /\ Data = stream[Place + 1]
    BY ByteRead
  <2>3. Place' = Place + 1 /\ (cut + decoder.length)' = cut + decoder.length /\ stream' = stream
    BY <1>1, <1>2, <1>3 DEF Place
  <2>4. CASE Data = boundary_byte
    <3>1. PICK i \in Place + 1 .. cut + decoder.length : i < j
      BY <2>1, <2>4
    <3>2. j \in Place + 2 .. cut + decoder.length
      BY <3>1, <2>2
    <3>3. decoder'.inframe
      BY <2>4, <1>3
    <3> QED
      BY <2>1, <2>2, <2>3, <3>2, <3>3 DEF EndAhead
  <2>5. CASE Data # boundary_byte
    <3>1. \A i \in Place + 1 .. cut + decoder.length :
              stream[i] = boundary_byte => i \in Place + 2 .. cut + decoder.length
      BY <2>2, <2>5
    <3>2. j \in Place + 2 .. cut + decoder.length
      BY <2>1, <3>1
    <3>3. CASE decoder.inframe
      <4>1. decoder'.inframe
        BY <3>3, <1>3
      <4> QED
        BY <4>1, <2>1, <2>2, <2>3, <3>2 DEF EndAhead
    <3>4. CASE ~ decoder.inframe
      <4>1. PICK i \in Place + 1 .. cut + decoder.length : i < j /\ stream[i] = boundary_byte
        BY <3>4, <2>1
      <4>2. i \in Place + 2 .. cut + decoder.length
        BY <4>1, <3>1
      <4> QED
        BY <4>1, <4>2, <2>1, <2>2, <2>3, <3>2 DEF EndAhead
    <3> QED
      BY <3>3, <3>4
  <2> QED
    BY <2>4, <2>5
<1>9. Delivered'
  BY <1>1 DEF HdlcInv, Delivered
<1> QED
  BY <1>4, <1>5, <1>6, <1>7, <1>8, <1>9 DEF HdlcInv

(* Outside of a frame the decoder skips noise, or begins with a boundary.   *)
LEMMA SkipsNoise ==
    ASSUME HdlcInv, NEW a, LineMarked(a), DecoderHolds(a), More,
           ~ decoder.inframe, Data # boundary_byte
    PROVE  a[Place + 1].at = "noise" /\ received = << >>
<1>1. DecoderOutside(a) /\ Ready(a, cut)
  BY DEF DecoderHolds
<1>2. Leads(sent, a[Place], Data, a[Place + 1]) /\ Data = stream[Place + 1]
  BY ByteRead
<1>3. CASE a[Place].at = "noise" /\ received = << >>
  BY <1>2, <1>3 DEF Leads, NoiseLeads, GapLeads, FrameLeads, InFrame, InBroken
<1>4. CASE decoder.input_it = 0
  <2>1. Place = cut
    BY <1>4 DEF Place, HdlcInv, HdlcTypes
  <2> QED
    BY <2>1, <1>1, <1>2, <1>3 DEF Ready
<1> QED
  BY <1>1, <1>3, <1>4 DEF DecoderOutside

LEMMA FrameBegins ==
    ASSUME HdlcInv, NEW a, LineMarked(a), DecoderHolds(a), More,
           ~ decoder.inframe, Data = boundary_byte
    PROVE  /\ a[Place + 1].f = Len(received)
           /\ \/ a[Place + 1].at = "gap"
              \/ a[Place + 1].at = "frame" /\ a[Place + 1].p = 0
              \/ a[Place + 1].at = "broken" /\ received = << >>
<1>1. DecoderOutside(a) /\ Ready(a, cut)
  BY DEF DecoderHolds
<1>2. /\ Leads(sent, a[Place], Data, a[Place + 1]) /\ Data = stream[Place + 1]
      /\ Fits(sent, a[Place]) /\ Fits(sent, a[Place + 1])
  BY ByteRead
<1>3. \/ a[Place + 1].at = "gap"
      \/ a[Place + 1].at = "frame" /\ a[Place + 1].p = 0
      \/ a[Place + 1].at = "broken"
  BY <1>2 DEF Leads, NoiseLeads, GapLeads, FrameLeads, Special, boundary_byte, escape_byte
<1>4. a[Place + 1].f = Len(received)
  <2>1. CASE a[Place].at = "noise" /\ received = << >>
    <3>1. a[Place].f = 0
      BY <2>1, <1>2 DEF Fits
    <3>2. a[Place + 1].f = 0
      BY <2>1, <3>1, <1>2
         DEF Leads, NoiseLeads, GapLeads, FrameLeads, InFrame, InBroken, Fits
    <3> QED
      BY <2>1, <3>2
  <2>2. CASE decoder.input_it = 0
    <3>1. Place = cut
      BY <2>2 DEF Place, HdlcInv, HdlcTypes
    <3> QED
      BY <3>1, <2>1, <1>1, <1>2 DEF Ready
  <2> QED
    BY <2>1, <2>2, <1>1 DEF DecoderOutside
<1>5. a[Place + 1].at = "broken" => received = << >>
  <2>1. received \in Seq(Seq(Byte))
    BY DEF HdlcInv, HdlcTypes
  <2> QED
    BY <2>1, <1>2, <1>4 DEF Fits
<1> QED
  BY <1>3, <1>4, <1>5

LEMMA decodeSkipHolds ==
    ASSUME HdlcInv, decodeSkip \/ (decodeEscape /\ ~ decoder.escaped /\ ~ decoder.inframe)
    PROVE  HdlcInv'
<1> DEFINE d == [decoder EXCEPT !.escaped = FALSE]
<1>1. PICK a : LineMarked(a) /\ DecoderHolds(a)
  BY DEF HdlcInv
<1>2. decoder \in Decoding
  BY DEF HdlcInv, HdlcTypes
<1>3. /\ More /\ Data # boundary_byte /\ ~ decoder.inframe /\ memory' = memory
  BY DEF decodeSkip, decodeEscape, Special, boundary_byte, escape_byte
<1>4. DecodeContinues(d)
  <2>1. CASE decodeSkip
    BY <2>1 DEF decodeSkip
  <2>2. CASE decodeEscape /\ ~ decoder.escaped
    <3>1. DecodeContinues([decoder EXCEPT !.escaped = decoder.inframe])
      BY <2>2 DEF decodeEscape
    <3>2. decoder.inframe = FALSE
      BY <1>2, <1>3 DEF Decoding
    <3> QED
      BY <3>1, <3>2
  <2> QED
    BY <2>1, <2>2
<1>5. /\ d \in Decoding
      /\ d.at = decoder.at /\ d.input_it = decoder.input_it /\ d.length = decoder.length
      /\ d.inPlace = decoder.inPlace /\ d.inframe = decoder.inframe
      /\ d.output = decoder.output /\ d.input_frame_start = decoder.input_frame_start
      /\ d.escaped = FALSE
  BY <1>2 DEF Decoding
<1> HIDE DEF d
<1>6. /\ decoder' = [d EXCEPT !.input_it = decoder.input_it + 1] /\ cut' = cut
      /\ stream' = stream /\ received' = received
  BY <1>4, <1>5 DEF DecodeContinues
<1>7. /\ decoder'.input_it = decoder.input_it + 1 /\ decoder'.output = decoder.output
      /\ decoder'.input_frame_start = decoder.input_frame_start
      /\ ~ decoder'.escaped /\ decoder'.inPlace = decoder.inPlace
  BY <1>5, <1>6 DEF Decoding
<1>8. MemoryKept'
  BY <1>3, <1>6, <1>7 DEF HdlcInv, MemoryKept
<1>9. a[Place + 1].at = "noise" /\ received = << >>
  BY <1>1, <1>3, SkipsNoise
<1>10. Place' = Place + 1
  BY <1>2, <1>6, <1>7 DEF Place, Decoding, HdlcInv, HdlcTypes
<1>11. DecoderOutside(a)'
  BY <1>1, <1>3, <1>6, <1>7, <1>9, <1>10 DEF DecoderHolds, DecoderOutside
<1>12. d.at = "loop" /\ memory' \in Seq(Byte) /\ Len(memory') = Len(memory)
  BY <1>3, <1>5 DEF More, HdlcInv, HdlcTypes
<1> QED
  BY <1>1, <1>3, <1>4, <1>5, <1>8, <1>11, <1>12, ContinueHolds

LEMMA decodeBeginHolds ==
    ASSUME HdlcInv, decodeBoundary, ~ decoder.inframe
    PROVE  HdlcInv'
<1> DEFINE d == [decoder EXCEPT !.input_frame_start = decoder.input_it,
                                !.output = << >>, !.inframe = TRUE]
<1>1. PICK a : LineMarked(a) /\ DecoderHolds(a)
  BY DEF HdlcInv
<1>2. decoder \in Decoding
  BY DEF HdlcInv, HdlcTypes
<1>3. More /\ Data = boundary_byte /\ memory' = memory /\ DecodeContinues(d)
  BY DEF decodeBoundary
<1>5. /\ d \in Decoding
      /\ d.at = decoder.at /\ d.input_it = decoder.input_it /\ d.length = decoder.length
      /\ d.inPlace = decoder.inPlace /\ d.inframe = TRUE
      /\ d.output = << >> /\ d.input_frame_start = decoder.input_it
      /\ d.escaped = decoder.escaped
  <2>1. decoder.input_it \in Nat /\ << >> \in Seq(Byte)
    BY <1>2 DEF Decoding
  <2>2. d \in Decoding
    BY <1>2, <2>1 DEF Decoding
  <2>3. /\ d.at = decoder.at /\ d.input_it = decoder.input_it /\ d.length = decoder.length
        /\ d.inPlace = decoder.inPlace /\ d.inframe = TRUE
        /\ d.output = << >> /\ d.input_frame_start = decoder.input_it
        /\ d.escaped = decoder.escaped
    BY <1>2 DEF Decoding
  <2> QED
    BY <2>2, <2>3, Zenon
<1> HIDE DEF d
<1>6. /\ decoder' = [d EXCEPT !.input_it = decoder.input_it + 1] /\ cut' = cut
      /\ stream' = stream /\ received' = received
  BY <1>3, <1>5 DEF DecodeContinues
<1>7. /\ decoder'.input_it = decoder.input_it + 1 /\ decoder'.output = << >>
      /\ decoder'.input_frame_start = decoder.input_it
      /\ decoder'.escaped = decoder.escaped /\ decoder'.inPlace = decoder.inPlace
  BY <1>5, <1>6 DEF Decoding
<1>8. DecoderOutside(a) /\ ~ decoder.escaped /\ decoder.output = << >>
  BY <1>1 DEF DecoderHolds, DecoderOutside
<1>9. MemoryKept'
  BY <1>3, <1>6, <1>7, <1>8 DEF HdlcInv, MemoryKept
<1>10. /\ Place' = Place + 1 /\ FrameStart' = Place + 1
       /\ decoder.input_it \in Nat /\ Place \in Nat /\ Data = stream[Place + 1]
  <2>1. Place \in Nat /\ Data = stream[Place + 1]
    BY <1>1, <1>3, ByteRead
  <2>2. decoder.input_it \in Nat /\ cut \in Nat
    BY <1>2 DEF Decoding, HdlcInv, HdlcTypes
  <2>3. Place' = Place + 1 /\ FrameStart' = Place + 1
    BY <2>2, <1>6, <1>7 DEF Place, FrameStart
  <2> QED
    BY <2>1, <2>2, <2>3
<1>11. /\ a[Place + 1].f = Len(received)
       /\ \/ a[Place + 1].at = "gap"
          \/ a[Place + 1].at = "frame" /\ a[Place + 1].p = 0
          \/ a[Place + 1].at = "broken" /\ received = << >>
  BY <1>1, <1>3, FrameBegins
<1>12. DecoderInside(a)'
  <2>1. (FrameStart <= Place)' /\ (Len(decoder.output) < decoder.input_it)'
    BY <1>7, <1>10
  <2>2. stream'[FrameStart'] = boundary_byte /\ a[FrameStart'].f = Len(received')
    BY <1>3, <1>6, <1>10, <1>11
  <2>3. ~ decoder'.escaped /\ decoder'.output = << >> /\ received' = received
    BY <1>6, <1>7, <1>8
  <2> HIDE DEF d
  <2> QED
    BY <2>1, <2>2, <2>3, <1>10, <1>11 DEF DecoderInside, InFrame, InBroken
<1>13. d.at = "loop" /\ memory' \in Seq(Byte) /\ Len(memory') = Len(memory)
  BY <1>3, <1>5 DEF More, HdlcInv, HdlcTypes
<1> QED
  BY <1>1, <1>3, <1>5, <1>9, <1>12, <1>13, ContinueHolds, Zenon

LEMMA decodeEscapeHolds ==
    ASSUME HdlcInv, decodeEscape, ~ decoder.escaped, decoder.inframe
    PROVE  HdlcInv'
<1> DEFINE d == [decoder EXCEPT !.escaped = TRUE]
<1>1. PICK a : LineMarked(a) /\ DecoderHolds(a)
  BY DEF HdlcInv
<1>2. decoder \in Decoding /\ decoder.inframe = TRUE
  BY DEF HdlcInv, HdlcTypes, Decoding
<1>3. More /\ Data = escape_byte /\ memory' = memory /\ DecodeContinues(d)
  BY <1>2 DEF decodeEscape
<1>5. /\ d \in Decoding
      /\ d.at = decoder.at /\ d.input_it = decoder.input_it /\ d.length = decoder.length
      /\ d.inPlace = decoder.inPlace /\ d.inframe = decoder.inframe
      /\ d.output = decoder.output /\ d.input_frame_start = decoder.input_frame_start
      /\ d.escaped = TRUE
  BY <1>2 DEF Decoding
<1> HIDE DEF d
<1>6. /\ decoder' = [d EXCEPT !.input_it = decoder.input_it + 1] /\ cut' = cut
      /\ stream' = stream /\ received' = received /\ sent' = sent
  BY <1>3, <1>5 DEF DecodeContinues
<1>7. /\ decoder'.input_it = decoder.input_it + 1 /\ decoder'.output = decoder.output
      /\ decoder'.input_frame_start = decoder.input_frame_start
      /\ decoder'.escaped = TRUE /\ decoder'.inPlace = decoder.inPlace
  BY <1>5, <1>6 DEF Decoding
<1>9. MemoryKept'
  BY <1>3, <1>6, <1>7 DEF HdlcInv, MemoryKept
<1>10. /\ Place' = Place + 1 /\ FrameStart' = FrameStart
       /\ decoder.input_it \in Nat /\ Place \in Nat
       /\ Len(decoder.output) \in Nat /\ Leads(sent, a[Place], Data, a[Place + 1])
       /\ FrameStart \in Nat
  <2>1. /\ Place \in Nat /\ Len(decoder.output) \in Nat
        /\ Leads(sent, a[Place], Data, a[Place + 1])
    BY <1>1, <1>3, ByteRead
  <2>2. decoder.input_it \in Nat /\ decoder.input_frame_start \in Nat /\ cut \in Nat
    BY <1>2 DEF Decoding, HdlcInv, HdlcTypes
  <2>3. Place' = Place + 1 /\ FrameStart' = FrameStart /\ FrameStart \in Nat
    BY <2>2, <1>6, <1>7 DEF Place, FrameStart
  <2> QED
    BY <2>1, <2>2, <2>3
<1>11. DecoderInside(a)
  BY <1>1 DEF DecoderHolds
<1>12. Data # boundary_byte /\ Special(Data)
  BY <1>3 DEF boundary_byte, escape_byte, Special
<1>13. \/ a[Place].at = "frame" /\ a[Place + 1].at = "frameEscape"
          /\ a[Place + 1].f = a[Place].f /\ a[Place + 1].p = a[Place].p
       \/ a[Place].at = "broken" /\ a[Place + 1].at = "brokenEscape"
  <2>1. a[Place].at \in {"gap", "frame", "broken"}
    BY <1>11 DEF DecoderInside, InFrame, InBroken
  <2> QED
    BY <2>1, <1>10, <1>12 DEF Leads, NoiseLeads, GapLeads, FrameLeads, InFrame, InBroken
<1>14. DecoderInside(a)'
  <2>1. (FrameStart <= Place)' /\ (Len(decoder.output) < decoder.input_it)'
    BY <1>7, <1>10, <1>11 DEF DecoderInside
  <2>2. stream'[FrameStart'] = boundary_byte /\ a[FrameStart'].f = Len(received')
    BY <1>6, <1>10, <1>11 DEF DecoderInside
  <2>3. decoder'.escaped /\ decoder'.output = decoder.output /\ received' = received
    BY <1>6, <1>7
  <2>4. CASE a[Place].at = "frame"
    <3>1. /\ a[Place + 1].at = "frameEscape"
          /\ a[Place + 1].f = a[Place].f /\ a[Place + 1].p = a[Place].p
      BY <1>13, <2>4
    <3>2. /\ a[Place].f = Len(received) /\ Len(decoder.output) = a[Place].p
          /\ \A i \in 1 .. a[Place].p : decoder.output[i] = sent[a[Place].f + 1][i]
      BY <1>11, <2>4 DEF DecoderInside, InBroken
    <3> QED
      BY <2>1, <2>2, <2>3, <3>1, <3>2, <1>6, <1>10 DEF DecoderInside, InFrame
  <2>5. CASE a[Place].at = "broken"
    <3>1. a[Place + 1].at = "brokenEscape"
      BY <1>13, <2>5
    <3>2. received = << >>
      BY <1>11, <2>5 DEF DecoderInside, InFrame
    <3> QED
      BY <2>1, <2>2, <2>3, <3>1, <3>2, <1>10 DEF DecoderInside, InBroken
  <2> QED
    BY <2>4, <2>5, <1>13
<1>15. d.at = "loop" /\ memory' \in Seq(Byte) /\ Len(memory') = Len(memory)
  BY <1>3, <1>5 DEF More, HdlcInv, HdlcTypes
<1> QED
  BY <1>1, <1>2, <1>3, <1>5, <1>9, <1>12, <1>14, <1>15, ContinueHolds

LEMMA decodeDataHolds ==
    ASSUME HdlcInv, decodeData
    PROVE  HdlcInv'
<1> DEFINE value == IF decoder.escaped THEN Masked(Data) ELSE Data
           d == [decoder EXCEPT !.output = Append(@, value), !.escaped = FALSE]
           n == Len(decoder.output)
<1>1. PICK a : LineMarked(a) /\ DecoderHolds(a)
  BY DEF HdlcInv
<1>2. decoder \in Decoding /\ decoder.inframe /\ cut \in Nat /\ memory \in Seq(Byte)
  BY DEF HdlcInv, HdlcTypes, decodeData
<1>3. /\ More /\ ~ Special(Data) /\ DecodeContinues(d)
      /\ memory' = IF decoder.inPlace THEN [memory EXCEPT ![cut + n + 1] = value] ELSE memory
  BY DEF decodeData
<1>4. /\ Place \in Nat /\ Data \in Byte /\ n \in Nat
      /\ Leads(sent, a[Place], Data, a[Place + 1])
      /\ a[Place] \in Mark /\ Place + 1 \in cut + 1 .. Len(memory)
      /\ n <= decoder.input_it
  BY <1>1, <1>3, ByteRead
<1>5. value \in Byte
  <2>1. Masked(Data) \in Byte
    BY <1>4 DEF Masked, mask, Byte
  <2> QED
    BY <2>1, <1>4
<1>6. /\ Append(decoder.output, value) \in Seq(Byte)
      /\ Len(Append(decoder.output, value)) = n + 1
      /\ Append(decoder.output, value)[n + 1] = value
      /\ \A i \in 1 .. n : Append(decoder.output, value)[i] = decoder.output[i]
  <2>1. decoder.output \in Seq(Byte)
    BY <1>2 DEF Decoding
  <2> HIDE DEF value
  <2> QED
    BY <2>1, <1>5
<1> HIDE DEF value
<1>7. /\ d \in Decoding
      /\ d.at = decoder.at /\ d.input_it = decoder.input_it /\ d.length = decoder.length
      /\ d.inPlace = decoder.inPlace /\ d.inframe = decoder.inframe
      /\ d.output = Append(decoder.output, value)
      /\ d.input_frame_start = decoder.input_frame_start
      /\ d.escaped = FALSE
  BY <1>2, <1>6 DEF Decoding
<1> HIDE DEF d
<1>8. /\ decoder' = [d EXCEPT !.input_it = decoder.input_it + 1] /\ cut' = cut
      /\ stream' = stream /\ received' = received /\ sent' = sent
  BY <1>3, <1>7 DEF DecodeContinues
<1>9. /\ decoder'.input_it = decoder.input_it + 1
      /\ decoder'.output = Append(decoder.output, value)
      /\ decoder'.input_frame_start = decoder.input_frame_start
      /\ decoder'.escaped = FALSE /\ decoder'.inPlace = decoder.inPlace
  BY <1>7, <1>8 DEF Decoding
<1>10. DecoderInside(a)
  BY <1>1, <1>2 DEF DecoderHolds
<1>11. cut + n + 1 \in 1 .. Len(memory) /\ n < decoder.input_it
  BY <1>2, <1>4, <1>10 DEF DecoderInside, Place, Decoding
<1>12. memory' \in Seq(Byte) /\ Len(memory') = Len(memory)
  <2>1. CASE decoder.inPlace
    BY <2>1, <1>2, <1>3, <1>5, <1>11
  <2>2. CASE ~ decoder.inPlace
    BY <2>2, <1>2, <1>3
  <2> QED
    BY <2>1, <2>2
<1>13. MemoryKept'
  <2>1. CASE decoder.inPlace
    <3>1. \A k \in cut + 1 .. Len(memory) : k > cut + n + 1 => memory'[k] = memory[k]
      BY <2>1, <1>2, <1>3, <1>4
    <3>2. \A k \in cut + 1 .. Len(memory) : k > cut + n => memory[k] = stream[k]
      BY <2>1 DEF HdlcInv, MemoryKept
    <3>3. \A k \in cut + 1 .. Len(memory) : k > cut + n + 1 => memory'[k] = stream[k]
      BY <3>1, <3>2, <1>2, <1>4
    <3>4. Len(decoder'.output) = n + 1 /\ decoder'.inPlace /\ stream' = stream /\ cut' = cut
      BY <2>1, <1>6, <1>8, <1>9
    <3>5. cut + (n + 1) = cut + n + 1 /\ Len(memory') = Len(memory)
      BY <1>2, <1>4, <1>12
    <3> QED
      BY <3>3, <3>4, <3>5 DEF MemoryKept
  <2>2. CASE ~ decoder.inPlace
    <3>1. \A k \in cut + 1 .. Len(memory) : memory[k] = stream[k]
      BY <2>2 DEF HdlcInv, MemoryKept
    <3>2. memory' = memory
      BY <2>2, <1>3
    <3> QED
      BY <3>1, <3>2, <1>8 DEF MemoryKept
  <2> QED
    BY <2>1, <2>2
<1>14. /\ Place' = Place + 1 /\ FrameStart' = FrameStart
       /\ decoder.input_it \in Nat /\ FrameStart \in Nat
  BY <1>2, <1>8, <1>9 DEF Place, FrameStart, Decoding
<1>15. Data # boundary_byte /\ Data # escape_byte
  BY <1>3 DEF Special
<1>16. DecoderInside(a)'
  <2>1. (FrameStart <= Place)' /\ (Len(decoder.output) < decoder.input_it)'
    BY <1>4, <1>6, <1>9, <1>10, <1>11, <1>14 DEF DecoderInside
  <2>2. stream'[FrameStart'] = boundary_byte /\ a[FrameStart'].f = Len(received')
    BY <1>8, <1>10, <1>14 DEF DecoderInside
  <2>3. ~ decoder'.escaped /\ received' = received
    BY <1>8, <1>9
  <2>4. CASE InFrame(a[Place])
    <3>1. /\ sent[a[Place].f + 1][a[Place].p + 1]
                = IF a[Place].at = "frameEscape" THEN Masked(Data) ELSE Data
          /\ a[Place + 1].at = "frame" /\ a[Place + 1].f = a[Place].f
          /\ a[Place + 1].p = a[Place].p + 1
      BY <2>4, <1>4, <1>15 DEF Leads, NoiseLeads, GapLeads, FrameLeads, InFrame, InBroken, Outside
    <3>2. /\ a[Place].f = Len(received) /\ n = a[Place].p
          /\ decoder.escaped <=> a[Place].at = "frameEscape"
          /\ \A i \in 1 .. n : decoder.output[i] = sent[a[Place].f + 1][i]
      BY <1>10, <2>4 DEF DecoderInside, InBroken, InFrame
    <3>3. value = sent[a[Place].f + 1][n + 1]
      BY <3>1, <3>2 DEF value
    <3>4. \A i \in 1 .. n + 1 : Append(decoder.output, value)[i] = sent[a[Place].f + 1][i]
      <4> TAKE i \in 1 .. n + 1
      <4>1. i \in 1 .. n \/ i = n + 1
        BY <1>4
      <4> QED
        BY <4>1, <3>2, <3>3, <1>6
    <3>5. /\ a[Place'].at = "frame" /\ a[Place'].f = Len(received')
          /\ Len(decoder'.output) = a[Place'].p
          /\ a[Place'].p = n + 1
      BY <2>3, <3>1, <3>2, <1>6, <1>9, <1>14
    <3>6. \A i \in 1 .. a[Place'].p : decoder'.output[i] = sent'[a[Place'].f + 1][i]
      BY <3>1, <3>4, <3>5, <1>8, <1>9, <1>14
    <3> QED
      BY <2>1, <2>2, <2>3, <3>5, <3>6 DEF DecoderInside, InFrame
  <2>5. CASE InBroken(a[Place])
    <3>1. a[Place + 1].at = "broken"
      BY <2>5, <1>4, <1>15 DEF Leads, NoiseLeads, GapLeads, FrameLeads, InFrame, InBroken
    <3>2. received = << >>
      BY <1>10, <2>5 DEF DecoderInside, InFrame, InBroken
    <3> QED
      BY <2>1, <2>2, <2>3, <3>1, <3>2, <1>14 DEF DecoderInside, InBroken
  <2>6. a[Place].at # "gap"
    BY <1>4, <1>15 DEF Leads, NoiseLeads, GapLeads, FrameLeads, InFrame, InBroken
  <2> QED
    BY <2>4, <2>5, <2>6, <1>10 DEF DecoderInside
<1>17. d.at = "loop"
  BY <1>3, <1>7 DEF More
<1> QED
  BY <1>1, <1>2, <1>3, <1>7, <1>12, <1>13, <1>15, <1>16, <1>17, ContinueHolds

(* A call that gives up leaves the start of the frame as the next input.    *)
LEMMA GivesUp ==
    ASSUME HdlcInv, decoder.at = "loop", ~ decoder.inPlace,
           DecodeReturns(decoder.input_frame_start, << >>)
    PROVE  HdlcInv'
<1> DEFINE start == decoder.input_frame_start
<1>1. PICK a : LineMarked(a) /\ DecoderHolds(a)
  BY DEF HdlcInv
<1>2. /\ decoder \in Decoding /\ start \in Nat /\ cut \in Nat /\ decoder.input_it \in Nat
      /\ decoder.input_it <= decoder.length /\ decoder.length \in Nat
      /\ cut + decoder.length <= Len(memory) /\ Len(memory) <= Len(stream)
      /\ Len(memory) \in Nat /\ Len(stream) \in Nat
  BY DEF HdlcInv, HdlcTypes, Decoding
<1>3. cut' = cut + start /\ stream' = stream /\ received' = received
  BY DEF DecodeReturns, Nonempty
<1>4. Delivered'
  BY <1>3 DEF HdlcInv, Delivered, DecodeReturns
<1>5. \A k \in cut + start + 1 .. Len(memory) : memory[k] = stream[k]
  BY <1>2 DEF HdlcInv, MemoryKept
<1>6. << >> \in Seq(Byte)
  OBVIOUS
<1>7. start <= decoder.length /\ Ready(a, cut)'
  <2>1. CASE decoder.inframe
    <3>1. /\ FrameStart <= Place /\ stream[FrameStart] = boundary_byte
          /\ a[FrameStart].f = Len(received)
      BY <1>1, <2>1 DEF DecoderHolds, DecoderInside
    <3>2. cut' < Len(stream) /\ cut' + 1 = FrameStart /\ start <= decoder.length
      BY SMTT(30), <3>1, <1>2, <1>3 DEF FrameStart, Place
    <3> QED
      BY <3>1, <3>2, <1>3 DEF Ready
  <2>2. CASE ~ decoder.inframe
    <3>1. start = 0 /\ Ready(a, cut)
      BY <1>1, <2>2 DEF DecoderHolds, DecoderOutside
    <3>2. cut' = cut
      BY <3>1, <1>2, <1>3
    <3> QED
      BY <3>1, <3>2, <1>2, <1>3 DEF Ready
  <2> QED
    BY <2>1, <2>2
<1> QED
  BY <1>1, <1>2, <1>4, <1>5, <1>6, <1>7, ReturnHolds

LEMMA decodeFullHolds ==
    ASSUME HdlcInv, decodeFull
    PROVE  HdlcInv'
<1>1. PICK a : LineMarked(a) /\ DecoderHolds(a)
  BY DEF HdlcInv
<1>2. Len(decoder.output) \in Nat /\ Len(decoder.output) <= decoder.input_it
  BY <1>1, ByteRead DEF decodeFull
<1>3. decoder.input_it < decoder.length /\ decoder.input_it \in Nat /\ decoder.length \in Nat
  BY DEF decodeFull, More, HdlcInv, HdlcTypes, Decoding
<1>4. ~ decoder.inPlace
  BY <1>2, <1>3 DEF decodeFull, Full
<1> QED
  BY <1>4, GivesUp DEF decodeFull, More

LEMMA decodeEndHolds ==
    ASSUME HdlcInv, decodeEnd
    PROVE  HdlcInv'
<1>1. /\ decoder.input_it \in Nat /\ decoder.length \in Nat /\ cut \in Nat
      /\ decoder.input_it <= decoder.length /\ ~ decoder.input_it < decoder.length
      /\ decoder.at = "loop"
  BY DEF decodeEnd, More, HdlcInv, HdlcTypes, Decoding
<1>2. Place = cut + decoder.length
  BY <1>1 DEF Place
<1>3. ~ \E j \in Place + 1 .. cut + decoder.length : TRUE
  BY <1>1, <1>2
<1>4. ~ decoder.inPlace
  BY <1>3 DEF HdlcInv, EndAhead
<1> QED
  BY <1>1, <1>4, GivesUp DEF decodeEnd

(* A call that has come to its end or to an abort: the rest is untouched.   *)
LEMMA RestUntouched ==
    ASSUME HdlcInv, NEW a, LineMarked(a), DecoderHolds(a), More
    PROVE  \A k \in cut + decoder.input_it + 1 .. Len(memory) : memory[k] = stream[k]
<1>1. Len(decoder.output) \in Nat /\ Len(decoder.output) <= decoder.input_it
  BY ByteRead
<1>2. cut \in Nat /\ decoder.input_it \in Nat /\ Len(memory) \in Nat
  BY DEF HdlcInv, HdlcTypes, Decoding
<1>3. ASSUME NEW k \in cut + decoder.input_it + 1 .. Len(memory)
      PROVE  k \in cut + 1 .. Len(memory) /\ k > cut + Len(decoder.output)
  BY <1>1, <1>2
<1> QED
  BY <1>3 DEF HdlcInv, MemoryKept

LEMMA decodeAbortHolds ==
    ASSUME HdlcInv, decodeEscape, decoder.escaped
    PROVE  HdlcInv'
<1>1. PICK a : LineMarked(a) /\ DecoderHolds(a)
  BY DEF HdlcInv
<1>2. More /\ Data = escape_byte /\ DecodeReturns(decoder.input_it, << >>)
  BY DEF decodeEscape
<1>3. /\ decoder.input_it \in Nat /\ decoder.input_it <= decoder.length /\ cut \in Nat
      /\ << >> \in Seq(Byte)
  BY DEF HdlcInv, HdlcTypes, Decoding
<1>4. /\ Place + 1 \in 1 .. Len(stream) /\ Place \in Nat /\ Data = stream[Place + 1]
      /\ Leads(sent, a[Place], Data, a[Place + 1])
  BY <1>1, <1>2, ByteRead
<1>5. cut' = Place /\ stream' = stream /\ received' = received
  BY <1>2 DEF DecodeReturns, Nonempty, Place
<1>6. DecoderInside(a)
  BY <1>1 DEF DecoderHolds, DecoderOutside
<1>7. Data # boundary_byte /\ Special(Data)
  BY <1>2 DEF boundary_byte, escape_byte, Special
<1>8. a[Place].at # "frameEscape"
  BY <1>4, <1>7 DEF Leads, NoiseLeads, GapLeads, FrameLeads, InFrame, InBroken, Outside
<1>9. a[Place].at = "brokenEscape" /\ received = << >>
  BY <1>6, <1>8 DEF DecoderInside
<1>10. a[Place + 1].at = "noise"
  BY <1>4, <1>7, <1>9 DEF Leads, NoiseLeads, GapLeads, FrameLeads, InFrame, InBroken, Outside
<1>11. Ready(a, cut)'
  BY <1>4, <1>5, <1>7, <1>9, <1>10 DEF Ready
<1>12. Delivered'
  BY <1>2, <1>5 DEF HdlcInv, Delivered, DecodeReturns
<1>13. \A k \in cut + decoder.input_it + 1 .. Len(memory) : memory[k] = stream[k]
  BY <1>1, <1>2, RestUntouched
<1> QED
  BY <1>1, <1>2, <1>3, <1>11, <1>12, <1>13, ReturnHolds

LEMMA SameBytes ==
    ASSUME NEW s \in Seq(Byte), NEW t \in Seq(Byte), Len(s) = Len(t),
           \A i \in 1 .. Len(t) : s[i] = t[i]
    PROVE  s = t
  OBVIOUS

LEMMA decodeFrameHolds ==
    ASSUME HdlcInv, decodeBoundary, decoder.inframe
    PROVE  HdlcInv'
<1> DEFINE output == IF decoder.escaped THEN << >> ELSE decoder.output
           f == Len(received)
<1>1. PICK a : LineMarked(a) /\ DecoderHolds(a)
  BY DEF HdlcInv
<1>2. More /\ Data = boundary_byte /\ DecodeReturns(decoder.input_it, output)
  BY DEF decodeBoundary
<1>3. /\ decoder.input_it \in Nat /\ decoder.input_it <= decoder.length /\ cut \in Nat
      /\ decoder.output \in Seq(Byte) /\ output \in Seq(Byte)
      /\ received \in Seq(Seq(Byte)) /\ sent \in Seq(Seq(Byte)) /\ f \in Nat
      /\ \A i \in 1 .. Len(sent) : sent[i] # << >>
  BY DEF HdlcInv, HdlcTypes, Decoding
<1>4. /\ Place + 1 \in 1 .. Len(stream) /\ Place \in Nat /\ Data = stream[Place + 1]
      /\ a[Place] \in Mark /\ Fits(sent, a[Place]) /\ Fits(sent, a[Place + 1])
      /\ Leads(sent, a[Place], Data, a[Place + 1])
  BY <1>1, <1>2, ByteRead
<1>5. /\ cut' = Place /\ stream' = stream /\ sent' = sent
      /\ received' = Nonempty(output, received)
  BY <1>2 DEF DecodeReturns, Place
<1>6. DecoderInside(a)
  BY <1>1 DEF DecoderHolds
<1>7. Special(Data) /\ Data # escape_byte
  BY <1>2 DEF boundary_byte, escape_byte, Special
<1>8. Len(received) <= Len(sent) /\ \A i \in 1 .. f : received[i] = sent[i]
  BY DEF HdlcInv, Delivered
<1>9. a[Place + 1].f = Len(received') /\ Delivered'
  <2>1. CASE a[Place].at = "gap"
    <3>1. output = << >> /\ Place = FrameStart
      BY <1>6, <2>1 DEF DecoderInside, InFrame, InBroken
    <3>2. received' = received /\ a[Place].f = f
      BY <3>1, <1>5, <1>6 DEF Nonempty, DecoderInside
    <3>3. a[Place + 1].f = a[Place].f
      BY <2>1, <1>4 DEF Leads, NoiseLeads, GapLeads, FrameLeads, InFrame, InBroken
    <3> QED
      BY <3>2, <3>3, <1>5, <1>8 DEF Delivered
  <2>2. CASE InFrame(a[Place])
    <3> DEFINE packet == sent[f + 1]
    <3>1. /\ a[Place].f = f /\ Len(decoder.output) = a[Place].p
          /\ decoder.escaped <=> a[Place].at = "frameEscape"
          /\ \A i \in 1 .. a[Place].p : decoder.output[i] = packet[i]
      BY <1>6, <2>2 DEF DecoderInside, InFrame, InBroken
    <3>2. /\ a[Place].at = "frame" /\ a[Place].p = Len(packet)
          /\ a[Place + 1].f = f + 1
      BY <2>2, <3>1, <1>4, <1>7
         DEF Leads, NoiseLeads, GapLeads, FrameLeads, InFrame, InBroken, Outside
    <3>3. f + 1 \in 1 .. Len(sent)
      BY SMTT(30), <2>2, <3>1, <1>3, <1>4 DEF Fits
    <3>4. packet \in Seq(Byte) /\ packet # << >>
      BY <3>3, <1>3
    <3>5. decoder.output = packet
      <4>1. Len(decoder.output) = Len(packet)
        BY <3>1, <3>2
      <4>2. \A i \in 1 .. Len(packet) : decoder.output[i] = packet[i]
        BY <3>1, <3>2
      <4> QED
        BY <4>1, <4>2, <3>4, <1>3, SameBytes
    <3>6. received' = Append(received, packet)
      BY <3>1, <3>2, <3>4, <3>5, <1>5 DEF Nonempty
    <3> HIDE DEF f
    <3>7. /\ Len(received') = f + 1 /\ received'[f + 1] = packet
          /\ \A i \in 1 .. f : received'[i] = received[i]
      BY <3>4, <3>6, <1>3 DEF f
    <3>8. Len(received') <= Len(sent')
      BY <3>3, <3>7, <1>5
    <3>9. \A i \in 1 .. Len(received') : received'[i] = sent'[i]
      <4> TAKE i \in 1 .. Len(received')
      <4>1. i \in 1 .. f \/ i = f + 1
        BY <3>7, <1>3
      <4> QED
        BY <4>1, <3>7, <1>5, <1>8
    <3> QED
      BY <3>2, <3>7, <3>8, <3>9 DEF Delivered
  <2>3. CASE InBroken(a[Place])
    <3>1. received = << >> /\ (decoder.escaped <=> a[Place].at = "brokenEscape")
      BY <1>6, <2>3 DEF DecoderInside, InFrame, InBroken
    <3>2. /\ a[Place].at = "brokenEscape" /\ a[Place + 1].f = a[Place].f
      BY <2>3, <1>4, <1>7
         DEF Leads, NoiseLeads, GapLeads, FrameLeads, InFrame, InBroken, Outside
    <3>3. output = << >> /\ a[Place].f = 0
      BY <3>1, <3>2, <1>4 DEF Fits
    <3>4. received' = received /\ f = 0
      BY <3>1, <3>3, <1>5 DEF Nonempty
    <3> QED
      BY <3>2, <3>3, <3>4, <1>5, <1>8 DEF Delivered
  <2> QED
    BY <2>1, <2>2, <2>3, <1>6 DEF DecoderInside
<1>10. Ready(a, cut)'
  BY <1>2, <1>4, <1>5, <1>9 DEF Ready
<1>11. \A k \in cut + decoder.input_it + 1 .. Len(memory) : memory[k] = stream[k]
  BY <1>1, <1>2, RestUntouched
<1> HIDE DEF output
<1> QED
  BY <1>1, <1>2, <1>3, <1>9, <1>10, <1>11, ReturnHolds

LEMMA HdlcStays == HdlcInv /\ UNCHANGED hdlcVars => HdlcInv'
<1> SUFFICES ASSUME HdlcInv, UNCHANGED hdlcVars PROVE HdlcInv'
  OBVIOUS
<1>1. UNCHANGED <<stream, memory, cut, decoder, sent, received>>
  BY DEF hdlcVars
<1>2. encoder' \in Encoding /\ packets' \in Nat
  BY DEF hdlcVars, HdlcInv, HdlcTypes
<1>3. EncoderHolds'
  BY DEF hdlcVars, HdlcInv, EncoderHolds, EncoderMarked
<1> QED
  BY <1>1, <1>2, <1>3, DecoderRests

(* THE CODING KEEPS ITS MARKING: at every moment there is an account of all *)
(* that is on the line, byte by byte - noise, a broken frame, a gap, or so  *)
(* many bytes into such a packet - that the encoder has followed and that   *)
(* agrees with the decoder's flags, its output and what was delivered.      *)
THEOREM HdlcInductive == HdlcSpec => []HdlcInv
<1>1. HdlcInit => HdlcInv
  BY HdlcInitHolds
<1>2. HdlcInv /\ [HdlcNext]_hdlcVars => HdlcInv'
  <2> SUFFICES ASSUME HdlcInv, [HdlcNext]_hdlcVars PROVE HdlcInv'
    OBVIOUS
  <2>1. CASE \E p \in Packet, size \in EncodeSize : encode(p, size)
    BY <2>1, encodeHolds
  <2>2. CASE encodeByte \/ encodeFails \/ encodeEnd \/ arrive
    BY <2>2, encodeByteHolds, encodeFailsHolds, encodeEndHolds, arriveHolds
  <2>3. CASE \E inPlace \in BOOLEAN : decode(inPlace)
    BY <2>3, decodeHolds
  <2>4. CASE decodeBoundary
    BY <2>4, decodeBeginHolds, decodeFrameHolds
  <2>5. CASE decodeEscape
    BY <2>5, decodeSkipHolds, decodeEscapeHolds, decodeAbortHolds
  <2>6. CASE decodeSkip \/ decodeData
    BY <2>6, decodeSkipHolds, decodeDataHolds
  <2>7. CASE decodeFull \/ decodeEnd
    BY <2>7, decodeFullHolds, decodeEndHolds
  <2>8. CASE UNCHANGED hdlcVars
    BY <2>8, HdlcStays
  <2> QED
    BY <2>1, <2>2, <2>3, <2>4, <2>5, <2>6, <2>7, <2>8 DEF HdlcNext
<1> QED
  BY <1>1, <1>2, PTL DEF HdlcSpec

(* PACKETS ARRIVE WHOLE: decode() delivers the packets of encode(), in      *)
(* their order and each of them once, for every set of packets, any noise   *)
(* and any size of the outputs, also in place.                              *)
THEOREM HdlcFramesWhole == HdlcSpec => []FramesWhole
<1>1. HdlcInv => FramesWhole
  <2> SUFFICES ASSUME HdlcInv PROVE FramesWhole
    OBVIOUS
  <2>1. /\ cut \in Nat /\ decoder.input_it \in Nat /\ Len(memory) \in Nat
        /\ decoder.output \in Seq(Byte) /\ decoder.inframe \in BOOLEAN
    BY DEF HdlcInv, HdlcTypes, Decoding
  <2>2. PICK a : DecoderHolds(a)
    BY DEF HdlcInv
  <2>3. Len(decoder.output) \in Nat /\ Len(decoder.output) <= decoder.input_it
    <3>1. CASE decoder.inframe
      BY <3>1, <2>1, <2>2 DEF DecoderHolds, DecoderInside
    <3>2. CASE ~ decoder.inframe
      BY <3>2, <2>1, <2>2 DEF DecoderHolds, DecoderOutside
    <3> QED
      BY <3>1, <3>2
  <2>4. ASSUME NEW k \in cut + decoder.input_it + 1 .. Len(memory)
        PROVE  k \in cut + 1 .. Len(memory) /\ k > cut + Len(decoder.output)
    BY <2>1, <2>3
  <2>5. \A k \in cut + decoder.input_it + 1 .. Len(memory) : memory[k] = stream[k]
    BY <2>4 DEF HdlcInv, MemoryKept
  <2> QED
    BY <2>5 DEF HdlcInv, Delivered, FramesWhole
<1> QED
  BY <1>1, HdlcInductive, PTL
=============================================================================
