----------------------------- MODULE SoftwareBus -----------------------------
(***************************************************************************)
(* outpost::swb::SoftwareBus, BusDistributor and BusHandlerThread with the *)
(* channels of BusChannel: publishers put messages into the queue of the   *)
(* bus, the handler thread forwards each of them to the matching channels, *)
(* receivers fetch them from there.                                        *)
(*                                                                         *)
(* The queue is a ReferenceQueue with one receiver, the handler; it is     *)
(* used here as the bounded FIFO queue it implements.  A buffer of the     *)
(* pool is free when no pointer refers to it, which SharedBufferPool shows *)
(* for its reference counters.                                             *)
(***************************************************************************)
EXTENDS BusChannel, Sequences

CONSTANTS
    Publisher,      \* threads that call sendMessage()
    DefaultChannel, \* the channel that may be set as default
    NoChannel,
    Id,             \* message ids
    ValidId,        \* ids that pass the filter of a SoftwareBusFiltered
    Subscribed,     \* ids each channel accepts
    Buffer,         \* buffers of the pool
    NoBuffer,
    NoThread,
    QueueSize,      \* messages the queue of the bus can hold
    MaxCalls        \* bound on the calls of sendMessage()

(* A message is an id and a buffer; it is numbered when the bus accepts it. *)
BusMessage == [id : Id, buf : Buffer \cup {NoBuffer}, no : 1 .. MaxCalls]

ASSUME BusAssumption ==
    /\ Message = BusMessage
    /\ Subscribed \in [Channel -> SUBSET Id]
    /\ Filter = [c \in Channel |-> {m \in BusMessage : m.id \in Subscribed[c]}]
    /\ DefaultChannel \in Channel /\ NoChannel \notin Channel
    /\ ValidId \subseteq Id
    /\ NoThread \notin Publisher
    /\ QueueSize \in Nat /\ MaxCalls \in Nat

VARIABLES
    calls,          \* calls of sendMessage() so far
    mMutex,         \* owner of the mutex of the bus
    tmp,            \* message a publisher is about to send
    own,            \* buffer a publisher holds itself
    stats,          \* counters of the bus
    queue,          \* mQueue: messages waiting for the handler
    taken,          \* message whose index the handler took from the queue
    hpc,            \* what the handler is doing
    message,        \* its message
    position,       \* channelIterator; 0: at the end of the list
    isForwarded,
    handler,        \* counters of the handler thread
    mChannels,      \* registered channels, in order
    mDefaultChannel,
    history         \* numbers of the messages appended to each channel

publisherVars == <<calls, mMutex, tmp, own, stats>>
queueVars     == <<queue, taken>>
handlerVars   == <<hpc, message, position, isForwarded, handler>>
registry      == <<mChannels, mDefaultChannel>>
vars == <<channelVars, publisherVars, queueVars, handlerVars, registry, history>>

Init ==
    /\ ChannelInit
    /\ calls = 0
    /\ mMutex = NoThread
    /\ tmp = [p \in Publisher |-> NoMessage]
    /\ own = [p \in Publisher |-> NoBuffer]
    /\ stats = [accepted |-> 0, declined |-> 0, failedCopy |-> 0, failedSend |-> 0]
    /\ queue = << >>
    /\ taken = NoMessage
    /\ hpc = "receive"
    /\ message = NoMessage
    /\ position = 0
    /\ isForwarded = FALSE
    /\ handler = [incoming |-> 0, forwarded |-> 0, defaulted |-> 0]
    /\ mChannels = << >>
    /\ mDefaultChannel = NoChannel
    /\ history = [c \in Channel |-> << >>]

(* Buffers the bus, the channels and the receivers refer to. *)
Cells   == {mBuffer[c][i] : c \in Channel, i \in Cell}
Carried ==
    {m.buf : m \in (Cells \cup {queue[k] : k \in DOMAIN queue} \cup {taken, message}
                      \cup {received[r] : r \in Receiver}) \ {NoMessage}}
        \ {NoBuffer}
Referenced ==
    Carried \cup {own[p] : p \in Publisher}
            \cup {m.buf : m \in {tmp[p] : p \in Publisher} \ {NoMessage}}
Free == Buffer \ Referenced
-----------------------------------------------------------------------------
(* A publisher allocates a buffer of its own, to send it without a copy ... *)
AllocateOwn(p) ==
    /\ own[p] = NoBuffer
    /\ mMutex # p
    /\ \E b \in Free : own' = [own EXCEPT ![p] = b]
    /\ UNCHANGED <<channelVars, calls, mMutex, tmp, stats, queueVars, handlerVars,
                   registry, history>>

(* ... and gives it up, whether the messages with it have arrived or not. *)
DropOwn(p) ==
    /\ own[p] # NoBuffer
    /\ mMutex # p
    /\ own' = [own EXCEPT ![p] = NoBuffer]
    /\ UNCHANGED <<channelVars, calls, mMutex, tmp, stats, queueVars, handlerVars,
                   registry, history>>

Call(p) ==
    /\ mMutex = NoThread
    /\ calls < MaxCalls
    /\ calls' = calls + 1

(* The call fails; the mutex is free again at its end. *)
Fail(which) ==
    /\ stats' = [stats EXCEPT ![which] = @ + 1]
    /\ UNCHANGED <<channelVars, mMutex, tmp, own, queueVars, handlerVars, registry, history>>

(* sendMessage() with an id the filter of the bus does not let pass. *)
SendInvalid(p) ==
    /\ Call(p)
    /\ Id \ ValidId # {}
    /\ Fail("declined")

(* sendMessage() of a slice, or of a buffer with copy_once: a slice that   *)
(* is too long, or an empty pool.                                          *)
SendTooLong(p) ==
    /\ Call(p)
    /\ Fail("failedCopy")

SendNoBuffer(p) ==
    /\ Call(p)
    /\ Free = {}
    /\ Fail("failedCopy")

Prepare(p, id, b) ==
    /\ id \in ValidId
    /\ mMutex' = p
    /\ tmp' = [tmp EXCEPT ![p] = [id |-> id, buf |-> b, no |-> 1]]
    /\ UNCHANGED <<channelVars, own, stats, queueVars, handlerVars, registry, history>>

(* The data is copied into a buffer of the pool; empty data needs none. *)
SendCopy(p, id) == Call(p) /\ \E b \in Free \cup {NoBuffer} : Prepare(p, id, b)

(* The publisher's own buffer is sent (zero_copy). *)
SendOwn(p, id) == Call(p) /\ own[p] # NoBuffer /\ Prepare(p, id, own[p])

(* sendMessage(msg): the queue accepts the message or is full; a slot that *)
(* the handler is emptying is still occupied.                              *)
Occupied_OffByOne == Len(queue) - 1
Occupied == Len(queue) + (IF taken = NoMessage THEN 0 ELSE 1)

Enqueue(p) ==
    /\ mMutex = p
    /\ \/ /\ Occupied < QueueSize
          /\ queue' = Append(queue, [tmp[p] EXCEPT !.no = stats.accepted + 1])
          /\ stats' = [stats EXCEPT !.accepted = @ + 1]
       \/ /\ Occupied >= QueueSize
          /\ stats' = [stats EXCEPT !.failedSend = @ + 1]
          /\ UNCHANGED queue
    /\ tmp' = [tmp EXCEPT ![p] = NoMessage]
    /\ mMutex' = NoThread
    /\ UNCHANGED <<channelVars, calls, own, taken, handlerVars, registry, history>>

(* registerChannel(): a channel is a node of one list only. *)
registerChannel(c) ==
    /\ c # DefaultChannel
    /\ \A k \in DOMAIN mChannels : mChannels[k] # c
    /\ mChannels' = Append(mChannels, c)
    /\ UNCHANGED <<channelVars, publisherVars, queueVars, handlerVars,
                   mDefaultChannel, history>>

setDefaultChannel ==
    /\ mDefaultChannel = NoChannel
    /\ mDefaultChannel' = DefaultChannel
    /\ UNCHANGED <<channelVars, publisherVars, queueVars, handlerVars, mChannels, history>>
-----------------------------------------------------------------------------
(* BusHandlerThread::step(): the receive from the queue, in two halves. *)
HandlerTake_Newest ==
    /\ hpc = "receive"
    /\ taken = NoMessage
    /\ queue # << >>
    /\ taken' = queue[Len(queue)]
    /\ queue' = SubSeq(queue, 1, Len(queue) - 1)
    /\ UNCHANGED <<channelVars, publisherVars, handlerVars, registry, history>>
HandlerTake_OffByOne ==
    /\ hpc = "receive"
    /\ taken = NoMessage
    /\ Len(queue) > 1
    /\ taken' = Head(queue)
    /\ queue' = Tail(queue)
    /\ UNCHANGED <<channelVars, publisherVars, handlerVars, registry, history>>
HandlerTake ==
    /\ hpc = "receive"
    /\ taken = NoMessage
    /\ queue # << >>
    /\ taken' = Head(queue)
    /\ queue' = Tail(queue)
    /\ UNCHANGED <<channelVars, publisherVars, handlerVars, registry, history>>

FreeSlot_Skipped == UNCHANGED taken
FreeSlot == taken' = NoMessage

HandlerObtain ==
    /\ hpc = "receive"
    /\ taken # NoMessage
    /\ message' = taken
    /\ FreeSlot
    /\ handler' = [handler EXCEPT !.incoming = @ + 1]
    /\ hpc' = "forward"
    /\ position' = IF mChannels = << >> THEN 0 ELSE 1
    /\ isForwarded' = FALSE
    /\ UNCHANGED <<channelVars, publisherVars, queue, registry, history>>

(* What follows the sendMessage() of a channel in the loop. *)
Offered_Last(ok) ==
    /\ isForwarded' = ok
    /\ position' = IF position < Len(mChannels) THEN position + 1 ELSE 0
Offered(ok) ==
    /\ isForwarded' = (isForwarded \/ ok)
    /\ position' = IF position < Len(mChannels) THEN position + 1 ELSE 0

(* sendMessage() of the channel at the iterator.  The list is read without *)
(* its mutex: a channel that is registered meanwhile is still reached      *)
(* unless the iterator has left the last channel.                          *)
HandlerForward ==
    /\ hpc = "forward"
    /\ position # 0
    /\ LET c == mChannels[position] IN
         \/ /\ Accept(c, message)
            /\ Offered(TRUE)
            /\ history' = [history EXCEPT ![c] = Append(@, message.no)]
         \/ /\ Decline(c, message) \/ Reject(c, message)
            /\ Offered(FALSE)
            /\ UNCHANGED history
    /\ UNCHANGED <<publisherVars, queueVars, hpc, message, handler, registry>>

(* After the last channel: the message counts as forwarded, or it goes to  *)
(* the default channel, or it is lost.  step() returns and its message is  *)
(* destroyed.                                                              *)
HandlerFinish ==
    /\ hpc = "forward"
    /\ position = 0
    /\ \/ /\ isForwarded
          /\ handler' = [handler EXCEPT !.forwarded = @ + 1]
          /\ UNCHANGED <<channelVars, history>>
       \/ /\ ~ isForwarded
          /\ mDefaultChannel # NoChannel
          /\ Accept(mDefaultChannel, message)
          /\ handler' = [handler EXCEPT !.defaulted = @ + 1]
          /\ history' = [history EXCEPT ![mDefaultChannel] = Append(@, message.no)]
       \/ /\ ~ isForwarded
          /\ mDefaultChannel # NoChannel
          /\ Decline(mDefaultChannel, message) \/ Reject(mDefaultChannel, message)
          /\ UNCHANGED <<handler, history>>
       \/ /\ ~ isForwarded
          /\ mDefaultChannel = NoChannel
          /\ UNCHANGED <<channelVars, handler, history>>
    /\ hpc' = "receive"
    /\ message' = NoMessage
    /\ UNCHANGED <<publisherVars, queueVars, position, isForwarded, registry>>

Handler == HandlerTake \/ HandlerObtain \/ HandlerForward \/ HandlerFinish

(* The receivers of the channels. *)
FromChannel(A) ==
    A /\ UNCHANGED <<publisherVars, queueVars, handlerVars, registry, history>>

Publish(p) ==
    \/ SendInvalid(p) \/ SendTooLong(p) \/ SendNoBuffer(p)
    \/ \E id \in Id : SendCopy(p, id) \/ SendOwn(p, id)

Next ==
    \/ \E p \in Publisher : Publish(p) \/ Enqueue(p) \/ AllocateOwn(p) \/ DropOwn(p)
    \/ \E c \in Channel : registerChannel(c)
    \/ setDefaultChannel
    \/ Handler
    \/ \E r \in Receiver : FromChannel(Receive(r))

(* The handler thread loops forever; a publisher inside sendMessage() is   *)
(* scheduled again; receivers keep calling receiveMessage() and give up    *)
(* what they got.  A receiver may run into timeouts, but a call that finds *)
(* the semaphore available takes it: strong fairness.                      *)
Fairness ==
    /\ WF_vars(Handler)
    /\ \A p \in Publisher : WF_vars(Enqueue(p))
    /\ \A r \in Receiver :
         /\ WF_vars(FromChannel(Wait(r)))
         /\ SF_vars(FromChannel(Acquire(r)))
         /\ WF_vars(FromChannel(Fetch(r)))
         /\ WF_vars(FromChannel(Release(r)))

Spec == Init /\ [][Next]_vars /\ Fairness
-----------------------------------------------------------------------------
TypeOK ==
    /\ ChannelTypeOK
    /\ calls \in 0 .. MaxCalls
    /\ mMutex \in Publisher \cup {NoThread}
    /\ tmp \in [Publisher -> Message \cup {NoMessage}]
    /\ own \in [Publisher -> Buffer \cup {NoBuffer}]
    /\ queue \in Seq(Message) /\ Len(queue) <= QueueSize
    /\ taken \in Message \cup {NoMessage}
    /\ message \in Message \cup {NoMessage}
    /\ position \in 0 .. Len(mChannels)

(* Every call of sendMessage() is counted once, and every accepted message *)
(* is waiting in the queue or was given to the handler.                    *)
CallsAccounted ==
    /\ calls = stats.accepted + stats.declined + stats.failedCopy + stats.failedSend
                 + (IF mMutex = NoThread THEN 0 ELSE 1)
    /\ stats.accepted = Occupied + handler.incoming

(* Each channel delivers its messages in the order in which the bus        *)
(* accepted them, each of them once: the messages fetched so far and those *)
(* in the Deque, front to back, are the messages appended, and those are   *)
(* numbered upwards.                                                       *)
InOrder ==
    \A c \in Channel :
        /\ \A j, k \in DOMAIN history[c] : j < k => history[c][j] < history[c][k]
        /\ \A k \in 0 .. mSize[c] - 1 :
             mBuffer[c][(mTail[c] + k) % Capacity].no =
                 history[c][counters[c].retrieved + k + 1]

(* A message goes to the default channel or to regular channels, never to  *)
(* both, even when channels are registered while it is being forwarded.    *)
DefaultExcludesOthers ==
    \A c \in Channel \ {DefaultChannel} :
        \A j \in DOMAIN history[c], k \in DOMAIN history[DefaultChannel] :
            history[c][j] # history[DefaultChannel][k]

(* The handler gets to every accepted message. *)
EveryMessageHandled ==
    \A n \in 1 .. MaxCalls : (stats.accepted >= n) ~> (handler.incoming >= n)

(* A buffer that travels with a message comes back to the pool when        *)
(* receivers listen to all channels: nothing on the way from the publisher *)
(* to the receivers keeps a reference.                                     *)
BuffersReturn ==
    (\A c \in Channel : \E r \in Receiver : source[r] = c) =>
        \A b \in Buffer : (b \in Carried) ~> (b \notin Carried)
=============================================================================
