-------------------------------- MODULE Deque --------------------------------
(***************************************************************************)
(* outpost::Deque (utils, container/deque.h, deque_impl.h): a ring buffer  *)
(* with mTail at the front and mHead at the back element.  The caller has  *)
(* to test for emptiness before it removes or reads an element.            *)
(*                                                                         *)
(* The append strategy and the size are template and constructor           *)
(* arguments; both are chosen once, in the initial state.                  *)
(***************************************************************************)
EXTENDS Integers, Sequences

CONSTANTS
    Element,      \* elements
    NoValue,    \* content of an unused cell
    Sizes,      \* sizes of the backend buffer
    Slice       \* slices handed to append()

ASSUME DequeAssumption ==
    /\ Sizes \subseteq Nat \ {0}
    /\ Slice \subseteq Seq(Element)
    /\ NoValue \notin Element

VARIABLES
    strategy,   \* DequeAppendStrategy
    mMaxSize,
    mBuffer,
    mHead,
    mTail,
    mSize,
    call        \* the last operation and the elements it was given

dequeVars == <<strategy, mMaxSize, mBuffer, mHead, mTail, mSize, call>>

\* Records the operation a step performs and the elements it was given.
Call(op, arg) == call' = [op |-> op, arg |-> arg]

DequeInit ==
    /\ strategy \in {"partial", "complete"}
    /\ mMaxSize \in Sizes
    /\ mBuffer = [i \in 0 .. mMaxSize - 1 |-> NoValue]
    /\ mHead = 0
    /\ mTail = 1
    /\ mSize = 0
    /\ call = [op |-> "none", arg |-> << >>]

isFull == mSize = mMaxSize
StepUp(i)   == IF i >= mMaxSize - 1 THEN 0 ELSE i + 1
StepDown(i) == IF i = 0 THEN mMaxSize - 1 ELSE i - 1

append(v) ==
    /\ ~ isFull
    /\ mHead' = StepUp(mHead)
    /\ mBuffer' = [mBuffer EXCEPT ![mHead'] = v]
    /\ mSize' = mSize + 1
    /\ Call("append", <<v>>)
    /\ UNCHANGED <<strategy, mMaxSize, mTail>>

prepend(v) ==
    /\ ~ isFull
    /\ mTail' = StepDown(mTail)
    /\ mBuffer' = [mBuffer EXCEPT ![mTail'] = v]
    /\ mSize' = mSize + 1
    /\ Call("prepend", <<v>>)
    /\ UNCHANGED <<strategy, mMaxSize, mHead>>

(* The element of a split slice that goes into cell i at the beginning of  *)
(* the buffer.                                                             *)
Second_Restarts(i, toEnd) == i + 1
Second(i, toEnd) == toEnd + i + 1

(* The n first elements of s are stored in one piece behind the head, or   *)
(* split at the end of the buffer.                                         *)
StoreSlice(s, n) ==
    LET head  == mHead + 1
        toEnd == mMaxSize - head
    IN
    /\ mBuffer' = [i \in DOMAIN mBuffer |->
         IF n <= toEnd
         THEN IF i \in head .. head + n - 1 THEN s[i - head + 1] ELSE mBuffer[i]
         ELSE IF i >= head THEN s[i - head + 1]
         ELSE IF i < n - toEnd THEN s[Second(i, toEnd)] ELSE mBuffer[i]]
    /\ mHead' = IF n <= toEnd THEN head + n - 1 ELSE n - toEnd - 1
    /\ mSize' = mSize + n

(* append(slice): as many elements as there is room for, or none at all    *)
(* when the strategy wants all of them.  An empty slice and a full deque   *)
(* skip the whole body.                                                    *)
appendSlice(s) ==
    LET room == mMaxSize - mSize IN
    /\ \/ /\ \/ Len(s) = 0 \/ isFull
             \/ Len(s) > room /\ strategy = "complete"
          /\ UNCHANGED <<mBuffer, mHead, mSize>>
       \/ /\ Len(s) > 0 /\ ~ isFull
          /\ Len(s) <= room
          /\ StoreSlice(s, Len(s))
       \/ /\ ~ isFull
          /\ Len(s) > room
          /\ strategy = "partial"
          /\ StoreSlice(s, room)
    /\ Call("appendSlice", s)
    /\ UNCHANGED <<strategy, mMaxSize, mTail>>

removeBack ==
    /\ mSize > 0
    /\ mHead' = StepDown(mHead)
    /\ mSize' = mSize - 1
    /\ Call("removeBack", << >>)
    /\ UNCHANGED <<strategy, mMaxSize, mBuffer, mTail>>

removeFront ==
    /\ mSize > 0
    /\ mTail' = StepUp(mTail)
    /\ mSize' = mSize - 1
    /\ Call("removeFront", << >>)
    /\ UNCHANGED <<strategy, mMaxSize, mBuffer, mHead>>

clear ==
    /\ mHead' = 0
    /\ mTail' = 1
    /\ mSize' = 0
    /\ Call("clear", << >>)
    /\ UNCHANGED <<strategy, mMaxSize, mBuffer>>

DequeNext ==
    \/ \E v \in Element : append(v) \/ prepend(v)
    \/ \E s \in Slice : appendSlice(s)
    \/ removeBack \/ removeFront \/ clear

DequeSpec == DequeInit /\ [][DequeNext]_dequeVars
-----------------------------------------------------------------------------
DequeTypeOK ==
    /\ mBuffer \in [0 .. mMaxSize - 1 -> Element \cup {NoValue}]
    /\ mHead \in 0 .. mMaxSize - 1
    /\ mTail \in 0 .. mMaxSize
    /\ mSize \in 0 .. mMaxSize

(* getBack() and getFront() of a deque with elements read a cell of the    *)
(* backend buffer, and both ends are mSize - 1 cells apart.                *)
EndsInBuffer ==
    mSize > 0 => /\ mTail < mMaxSize
                 /\ mHead = (mTail + mSize - 1) % mMaxSize

(* The ring buffer behaves like a sequence of at most mMaxSize elements,   *)
(* whatever the position of the wrap around and the length of a slice.     *)
Ring == INSTANCE SequenceDeque WITH
    Value <- Element,
    limit <- mMaxSize,
    contents <- [k \in 1 .. mSize |-> mBuffer[(mTail + k - 1) % mMaxSize]]
SequenceSpec == Ring!Spec
=============================================================================
