----------------------------- MODULE BusChannel -----------------------------
(***************************************************************************)
(* outpost::swb::BufferedBusChannel (swb, bus_channel.h, bus_channel_      *)
(* impl.h): a channel of the software bus buffers the messages that match  *)
(* its filter in a Deque and counts them in a semaphore.                   *)
(*                                                                         *)
(* sendMessage() is called by the handler thread of the bus and holds      *)
(* mMutex while it appends and releases the semaphore: one step.           *)
(* receiveMessage() acquires the semaphore first and locks afterwards, so  *)
(* that several receivers can be between the two.                          *)
(***************************************************************************)
EXTENDS Integers, FiniteSets

CONSTANTS
    Channel,        \* the channels
    Receiver,       \* threads that call receiveMessage()
    Message,        \* messages
    NoMessage,      \* the default constructed Message
    Filter,         \* Filter[c]: messages that match channel c
    Capacity        \* size of the Deque of a channel

ASSUME ChannelAssumption ==
    /\ Filter \in [Channel -> SUBSET Message]
    /\ NoMessage \notin Message
    /\ Capacity \in Nat /\ Capacity >= 2
    /\ IsFiniteSet(Receiver)

VARIABLES
    mBuffer,            \* cells of the Deque
    mHead, mTail, mSize,
    mMessageAvailable,  \* the semaphore
    counters,           \* incoming, appended, failed and retrieved messages
    rpc,                \* what each receiver is doing
    source,             \* the channel it receives from
    received,           \* its message
    result              \* result of its last receiveMessage()

deque == <<mBuffer, mHead, mTail, mSize>>
receivers == <<rpc, source, received, result>>
channelVars == <<deque, mMessageAvailable, counters, receivers>>

Cell == 0 .. Capacity - 1
Up(i) == IF i >= Capacity - 1 THEN 0 ELSE i + 1

ChannelInit ==
    /\ mBuffer = [c \in Channel |-> [i \in Cell |-> NoMessage]]
    /\ mHead = [c \in Channel |-> 0]
    /\ mTail = [c \in Channel |-> 1]
    /\ mSize = [c \in Channel |-> 0]
    /\ mMessageAvailable = [c \in Channel |-> 0]
    /\ counters = [c \in Channel |->
                     [incoming |-> 0, appended |-> 0, failed |-> 0, retrieved |-> 0]]
    /\ rpc = [r \in Receiver |-> "idle"]
    /\ source \in [Receiver -> Channel]
    /\ received = [r \in Receiver |-> NoMessage]
    /\ result = [r \in Receiver |-> "success"]

matches(c, m) == m \in Filter[c]
HasRoom(c) == mSize[c] < Capacity

(* sendMessage() of a message that the filter declines: sendFailed. *)
Decline(c, m) ==
    /\ ~ matches(c, m)
    /\ counters' = [counters EXCEPT ![c].incoming = @ + 1]
    /\ UNCHANGED <<deque, mMessageAvailable, receivers>>

(* The message is stored and the semaphore released: success. *)
Accept(c, m) ==
    /\ matches(c, m)
    /\ HasRoom(c)
    /\ mHead' = [mHead EXCEPT ![c] = Up(mHead[c])]
    /\ mBuffer' = [mBuffer EXCEPT ![c][Up(mHead[c])] = m]
    /\ mSize' = [mSize EXCEPT ![c] = @ + 1]
    /\ mMessageAvailable' = [mMessageAvailable EXCEPT ![c] = @ + 1]
    /\ counters' = [counters EXCEPT ![c].incoming = @ + 1, ![c].appended = @ + 1]
    /\ UNCHANGED <<mTail, receivers>>

(* The Deque is full: noBufferAvailable. *)
Reject_Releases(c, m) ==
    /\ matches(c, m)
    /\ ~ HasRoom(c)
    /\ mMessageAvailable' = [mMessageAvailable EXCEPT ![c] = @ + 1]
    /\ counters' = [counters EXCEPT ![c].incoming = @ + 1, ![c].failed = @ + 1]
    /\ UNCHANGED <<deque, receivers>>
Reject(c, m) ==
    /\ matches(c, m)
    /\ ~ HasRoom(c)
    /\ counters' = [counters EXCEPT ![c].incoming = @ + 1, ![c].failed = @ + 1]
    /\ UNCHANGED <<deque, mMessageAvailable, receivers>>

(* receiveMessage(): the receiver waits for the semaphore ... *)
Wait(r) ==
    /\ rpc[r] = "idle"
    /\ received[r] = NoMessage
    /\ rpc' = [rpc EXCEPT ![r] = "waiting"]
    /\ UNCHANGED <<deque, mMessageAvailable, counters, source, received, result>>

(* ... gets it ... *)
Acquire(r) ==
    /\ rpc[r] = "waiting"
    /\ mMessageAvailable[source[r]] > 0
    /\ mMessageAvailable' = [mMessageAvailable EXCEPT ![source[r]] = @ - 1]
    /\ rpc' = [rpc EXCEPT ![r] = "acquired"]
    /\ UNCHANGED <<deque, counters, source, received, result>>

(* ... or does not get it in time. *)
Timeout(r) ==
    /\ rpc[r] = "waiting"
    /\ rpc' = [rpc EXCEPT ![r] = "idle"]
    /\ result' = [result EXCEPT ![r] = "noMessageAvailable"]
    /\ UNCHANGED <<deque, mMessageAvailable, counters, source, received>>

(* The front cell is overwritten with an empty message. *)
ClearFront_Skipped(c) == UNCHANGED mBuffer
ClearFront(c) == mBuffer' = [mBuffer EXCEPT ![c][mTail[c]] = NoMessage]

(* Under the mutex the front message is copied, its cell cleared so that   *)
(* the buffer behind the message is not kept, and the element removed.     *)
Fetch(r) ==
    LET c == source[r] IN
    /\ rpc[r] = "acquired"
    /\ mSize[c] # 0
    /\ received' = [received EXCEPT ![r] = mBuffer[c][mTail[c]]]
    /\ ClearFront(c)
    /\ mTail' = [mTail EXCEPT ![c] = Up(mTail[c])]
    /\ mSize' = [mSize EXCEPT ![c] = @ - 1]
    /\ counters' = [counters EXCEPT ![c].retrieved = @ + 1]
    /\ result' = [result EXCEPT ![r] = "success"]
    /\ rpc' = [rpc EXCEPT ![r] = "idle"]
    /\ UNCHANGED <<mHead, mMessageAvailable, source>>

(* The receiver has worked on the message and gives it up. *)
Release(r) ==
    /\ rpc[r] = "idle"
    /\ received[r] # NoMessage
    /\ received' = [received EXCEPT ![r] = NoMessage]
    /\ UNCHANGED <<deque, mMessageAvailable, counters, rpc, source, result>>

Receive(r) == Wait(r) \/ Acquire(r) \/ Timeout(r) \/ Fetch(r) \/ Release(r)
-----------------------------------------------------------------------------
(* The channels on their own: any message may be sent to any of them. *)
ChannelNext ==
    \/ \E c \in Channel, m \in Message : Decline(c, m) \/ Accept(c, m) \/ Reject(c, m)
    \/ \E r \in Receiver : Receive(r)

ChannelSpec == ChannelInit /\ [][ChannelNext]_channelVars

ChannelTypeOK ==
    /\ mBuffer \in [Channel -> [Cell -> Message \cup {NoMessage}]]
    /\ mHead \in [Channel -> Cell]
    /\ mTail \in [Channel -> Cell]
    /\ mSize \in [Channel -> 0 .. Capacity]
    /\ mMessageAvailable \in [Channel -> Nat]
    /\ counters \in
         [Channel -> [incoming : Nat, appended : Nat, failed : Nat, retrieved : Nat]]
    /\ rpc \in [Receiver -> {"idle", "waiting", "acquired"}]
    /\ source \in [Receiver -> Channel]
    /\ received \in [Receiver -> Message \cup {NoMessage}]
    /\ result \in [Receiver -> {"success", "noMessageAvailable"}]

(* Receivers that hold the semaphore for a message they have yet to fetch. *)
Acquired(c) == {r \in Receiver : rpc[r] = "acquired" /\ source[r] = c}

(* Every buffered message is announced exactly once: by the semaphore or   *)
(* by a receiver that has acquired it.                                     *)
PermitsMatch ==
    \A c \in Channel :
        mSize[c] = mMessageAvailable[c] + Cardinality(Acquired(c))

(* A receiver that got the semaphore finds a message: the result           *)
(* invalidState of receiveMessage() does not occur.                        *)
NoInvalidState ==
    \A r \in Receiver : rpc[r] = "acquired" => mSize[source[r]] # 0

(* The cells in use are the mSize cells from mTail on, around the end of   *)
(* the buffer, and exactly those hold a message: a cell that was left      *)
(* keeps no reference to a buffer.                                         *)
InUse(c) ==
    {i \in Cell : \/ mTail[c] <= i /\ i < mTail[c] + mSize[c]
                  \/ i < mTail[c] + mSize[c] - Capacity}
CellsCleared ==
    \A c \in Channel : \A i \in Cell : mBuffer[c][i] # NoMessage <=> i \in InUse(c)

(* The statistics of a channel agree with its state: what was appended and *)
(* not retrieved is in the Deque, and no message is counted twice.         *)
CountersAgree ==
    \A c \in Channel :
        /\ counters[c].appended - counters[c].retrieved = mSize[c]
        /\ counters[c].appended + counters[c].failed <= counters[c].incoming

(* Semaphore, buffer and statistics of a channel tell the same story, also *)
(* while receivers are between the semaphore and the mutex.                *)
ChannelSound == PermitsMatch /\ NoInvalidState /\ CellsCleared /\ CountersAgree
=============================================================================
