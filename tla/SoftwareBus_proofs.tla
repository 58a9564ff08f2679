------------------------- MODULE SoftwareBus_proofs -------------------------
(***************************************************************************)
(* Proofs about SoftwareBus, for any number of publishers, channels,       *)
(* receivers and buffers, any subscription and any size of the queue and   *)
(* of the channels.                                                        *)
(*                                                                         *)
(* What a channel is sent is numbered upwards because the messages carry   *)
(* consecutive numbers from the mutex of the bus to the handler            *)
(* (Numbered), and because a channel the iterator has yet to reach has not *)
(* seen the message the handler forwards (Forwarding), not even one that   *)
(* is registered meanwhile (Unregistered).  What a channel delivers is     *)
(* what it was sent because its ring holds the end of its history          *)
(* (Contents); that part rests on the invariant of BusChannel.             *)
(***************************************************************************)
EXTENDS SoftwareBus, BusChannel_proofs

BusTypes ==
    /\ TypeOK
    /\ stats \in [accepted : Nat, declined : Nat, failedCopy : Nat, failedSend : Nat]
    /\ handler \in [incoming : Nat, forwarded : Nat, defaulted : Nat]
    /\ hpc \in {"receive", "forward"}
    /\ isForwarded \in BOOLEAN
    /\ mChannels \in Seq(Channel \ {DefaultChannel})
    /\ mDefaultChannel \in {NoChannel, DefaultChannel}
    /\ history \in [Channel -> Seq(Nat)]

(* The owner of the mutex has a message to send; the handler has one while *)
(* it forwards, and only then.                                             *)
Holders ==
    /\ \A p \in Publisher : mMutex = p => tmp[p] # NoMessage
    /\ message # NoMessage <=> hpc = "forward"
    /\ hpc = "forward" => taken = NoMessage

(* The messages between the publishers and the channels are numbered       *)
(* consecutively.                                                          *)
LeftQueue == handler.incoming + (IF taken = NoMessage THEN 0 ELSE 1)
Numbered ==
    /\ \A k \in DOMAIN queue : queue[k].no = LeftQueue + k
    /\ taken # NoMessage => taken.no = handler.incoming + 1
    /\ hpc = "forward" => message.no = handler.incoming

(* The channels are nodes of the list once; what is not in it is empty. *)
Registered(c) == \E k \in DOMAIN mChannels : mChannels[k] = c
Unregistered ==
    /\ \A j, k \in DOMAIN mChannels : mChannels[j] = mChannels[k] => j = k
    /\ \A c \in Channel \ {DefaultChannel} : ~ Registered(c) => history[c] = << >>

(* Entries of a history that are smaller than n. *)
Below(c, n) == \A j \in DOMAIN history[c] : history[c][j] < n

Increasing ==
    \A c \in Channel : \A j, k \in DOMAIN history[c] :
        j < k => history[c][j] < history[c][k]

Forwarding ==
    /\ \A c \in Channel : Below(c, handler.incoming + 1)
    /\ hpc = "forward" =>
         /\ Below(DefaultChannel, handler.incoming)
         /\ position # 0 => \A k \in position .. Len(mChannels) :
                                Below(mChannels[k], handler.incoming)
         /\ ~ isForwarded => \A c \in Channel : Below(c, handler.incoming)

(* The cell of the k-th element of a channel's Deque. *)
At(c, k) == IF mTail[c] + k >= Capacity THEN mTail[c] + k - Capacity ELSE mTail[c] + k

(* The Deque of a channel holds the last mSize entries of its history. *)
Contents ==
    \A c \in Channel :
        /\ Len(history[c]) = counters[c].appended
        /\ \A k \in 0 .. mSize[c] - 1 :
             mBuffer[c][At(c, k)].no = history[c][counters[c].retrieved + k + 1]

BusInv ==
    /\ Inv
    /\ BusTypes
    /\ Holders
    /\ CallsAccounted
    /\ Numbered
    /\ Unregistered
    /\ Increasing
    /\ Forwarding
    /\ DefaultExcludesOthers
    /\ Contents
-----------------------------------------------------------------------------
(* Types of the components of the state that the steps below share. *)
LEMMA BusFacts ==
    ASSUME BusInv
    PROVE  /\ Capacity \in Nat /\ Capacity >= 2
           /\ QueueSize \in Nat /\ MaxCalls \in Nat
           /\ stats.accepted \in Nat /\ stats.declined \in Nat
           /\ stats.failedCopy \in Nat /\ stats.failedSend \in Nat
           /\ handler.incoming \in Nat /\ handler.forwarded \in Nat
           /\ handler.defaulted \in Nat
           /\ queue \in Seq(Message) /\ Len(queue) \in Nat
           /\ mChannels \in Seq(Channel \ {DefaultChannel}) /\ Len(mChannels) \in Nat
           /\ \A c \in Channel :
                /\ history[c] \in Seq(Nat) /\ Len(history[c]) \in Nat
                /\ \A j \in DOMAIN history[c] : history[c][j] \in Nat
           /\ calls \in Nat /\ calls <= MaxCalls
           /\ DefaultChannel \in Channel
<1>1. /\ queue \in Seq(Message) /\ calls \in 0 .. MaxCalls
      /\ stats \in [accepted : Nat, declined : Nat, failedCopy : Nat, failedSend : Nat]
      /\ handler \in [incoming : Nat, forwarded : Nat, defaulted : Nat]
      /\ mChannels \in Seq(Channel \ {DefaultChannel})
      /\ history \in [Channel -> Seq(Nat)]
  BY DEF BusInv, BusTypes, TypeOK
<1>2. ASSUME NEW c \in Channel
      PROVE  /\ history[c] \in Seq(Nat) /\ Len(history[c]) \in Nat
             /\ \A j \in DOMAIN history[c] : history[c][j] \in Nat
  <2>1. history[c] \in Seq(Nat)
    BY <1>1
  <2> QED BY <2>1
<1> QED BY <1>1, <1>2, ChannelAssumption, BusAssumption

(* The numbers among them. *)
LEMMA Numbers ==
    ASSUME BusInv
    PROVE  /\ stats.accepted \in Nat /\ stats.declined \in Nat
           /\ stats.failedCopy \in Nat /\ stats.failedSend \in Nat
           /\ handler.incoming \in Nat /\ Occupied \in Nat /\ LeftQueue \in Nat
           /\ calls \in Nat /\ calls <= MaxCalls /\ MaxCalls \in Nat
<1>1. Len(queue) \in Nat
  BY BusFacts
<1>2. Occupied \in Nat
  BY <1>1 DEF Occupied
<1>3. LeftQueue \in Nat
  BY BusFacts DEF LeftQueue
<1> QED BY <1>2, <1>3, BusFacts

LEMMA BusInit == Init => BusInv
<1> SUFFICES ASSUME Init PROVE BusInv
  OBVIOUS
<1> USE DEF Init
<1>0. QueueSize \in Nat /\ MaxCalls \in Nat
  BY BusAssumption
<1>1. Inv
  BY InitInv
<1>2. BusTypes
  <2>1. queue \in Seq(Message) /\ Len(queue) <= QueueSize /\ mChannels = << >>
          /\ Len(mChannels) = 0 /\ mChannels \in Seq(Channel \ {DefaultChannel})
    BY <1>0
  <2>2. history \in [Channel -> Seq(Nat)]
    OBVIOUS
  <2>3. TypeOK
    BY <1>0, <1>1, <2>1 DEF TypeOK, Inv
  <2>4. /\ stats \in [accepted : Nat, declined : Nat, failedCopy : Nat, failedSend : Nat]
        /\ handler \in [incoming : Nat, forwarded : Nat, defaulted : Nat]
    OBVIOUS
  <2> QED BY <2>1, <2>2, <2>3, <2>4 DEF BusTypes
<1>3. Holders
  BY BusAssumption DEF Holders
<1>4. CallsAccounted
  BY DEF CallsAccounted, Occupied
<1>5. Numbered /\ Unregistered /\ Increasing /\ DefaultExcludesOthers
  BY BusAssumption DEF Numbered, LeftQueue, Unregistered, Registered, Increasing, DefaultExcludesOthers
<1>6. Forwarding
  BY DEF Forwarding, Below
<1>7. Contents
  BY DEF Contents, ChannelInit
<1> QED BY <1>1, <1>2, <1>3, <1>4, <1>5, <1>6, <1>7 DEF BusInv
-----------------------------------------------------------------------------
(* A step of a publisher leaves the channels, the handler and the list of  *)
(* channels alone.                                                         *)
LEMMA Unmoved ==
    ASSUME BusInv, UNCHANGED <<channelVars, handlerVars, registry, history>>
    PROVE  Inv' /\ Unregistered' /\ Increasing' /\ Forwarding'
             /\ DefaultExcludesOthers' /\ Contents'
<1> USE DEF handlerVars, registry, BusInv
<1>1. Inv'
  BY ChannelStutter
<1>2. Unregistered' /\ Increasing' /\ DefaultExcludesOthers'
  BY DEF Unregistered, Registered, Increasing, DefaultExcludesOthers
<1>3. Forwarding'
  BY DEF Forwarding, Below
<1>4. Contents'
  BY DEF Contents, At, channelVars, deque
<1> QED BY <1>1, <1>2, <1>3, <1>4

(* A publisher allocates or gives up a buffer. *)
LEMMA OwnStep ==
    ASSUME BusInv, NEW p \in Publisher, AllocateOwn(p) \/ DropOwn(p)
    PROVE  BusInv'
<1> USE DEF AllocateOwn, DropOwn
<1>1. Inv' /\ Unregistered' /\ Increasing' /\ Forwarding' /\ DefaultExcludesOthers'
        /\ Contents'
  BY Unmoved
<1>2. BusTypes'
  <2>1. own' \in [Publisher -> Buffer \cup {NoBuffer}]
    BY DEF BusInv, BusTypes, TypeOK, Free
  <2> QED BY <1>1, <2>1 DEF BusInv, BusTypes, TypeOK, queueVars, handlerVars, registry, Inv
<1>3. Holders' /\ CallsAccounted' /\ Numbered'
  BY DEF BusInv, Holders, CallsAccounted, Occupied, Numbered, LeftQueue, LeftQueue, queueVars, handlerVars
<1> QED BY <1>1, <1>2, <1>3 DEF BusInv

(* A call of sendMessage() that fails before it reaches the queue. *)
LEMMA FailStep ==
    ASSUME BusInv, NEW p \in Publisher, SendInvalid(p) \/ SendTooLong(p) \/ SendNoBuffer(p)
    PROVE  BusInv'
<1>1. PICK which \in {"declined", "failedCopy"} : Call(p) /\ Fail(which)
  BY DEF SendInvalid, SendTooLong, SendNoBuffer
<1>n. /\ stats.accepted \in Nat /\ stats.declined \in Nat
      /\ stats.failedCopy \in Nat /\ stats.failedSend \in Nat
      /\ handler.incoming \in Nat /\ Occupied \in Nat /\ LeftQueue \in Nat
      /\ calls \in Nat /\ calls <= MaxCalls /\ MaxCalls \in Nat
  BY Numbers
<1> USE <1>1 DEF Call, Fail
<1>2. Inv' /\ Unregistered' /\ Increasing' /\ Forwarding' /\ DefaultExcludesOthers'
        /\ Contents'
  BY Unmoved
<1>3. /\ stats' \in [accepted : Nat, declined : Nat, failedCopy : Nat, failedSend : Nat]
      /\ stats'.accepted = stats.accepted /\ stats'.failedSend = stats.failedSend
      /\ stats'.declined + stats'.failedCopy = stats.declined + stats.failedCopy + 1
  <2>1. stats \in [accepted : Nat, declined : Nat, failedCopy : Nat, failedSend : Nat]
    BY DEF BusInv, BusTypes
  <2>2. CASE which = "declined"
    BY <2>1, <2>2
  <2>3. CASE which = "failedCopy"
    BY <2>1, <2>3
  <2> QED BY <2>2, <2>3
<1>4. calls' \in 0 .. MaxCalls
  BY BusFacts, SMTT(30)
<1>5. BusTypes'
  BY <1>2, <1>3, <1>4 DEF BusInv, BusTypes, TypeOK, queueVars, handlerVars, registry, Inv
<1>6. CallsAccounted'
  <2>1. stats'.declined \in Nat /\ stats'.failedCopy \in Nat
    BY <1>3
  <2>2. Occupied' = Occupied /\ handler' = handler
    BY DEF Occupied, queueVars, handlerVars
  <2> QED BY <1>3, <2>1, <2>2, <1>n DEF BusInv, CallsAccounted
<1>7. Holders' /\ Numbered'
  BY <1>3 DEF BusInv, Holders, Numbered, LeftQueue, queueVars, handlerVars
<1> QED BY <1>2, <1>5, <1>6, <1>7 DEF BusInv

(* A call of sendMessage() that has its message and takes the mutex. *)
LEMMA PrepareStep ==
    ASSUME BusInv, NEW p \in Publisher, NEW id \in Id, SendCopy(p, id) \/ SendOwn(p, id)
    PROVE  BusInv'
<1>1. PICK b \in Buffer \cup {NoBuffer} : Call(p) /\ Prepare(p, id, b)
  BY DEF SendCopy, SendOwn, Free, BusInv, BusTypes, TypeOK
<1>n. /\ stats.accepted \in Nat /\ stats.declined \in Nat
      /\ stats.failedCopy \in Nat /\ stats.failedSend \in Nat
      /\ handler.incoming \in Nat /\ Occupied \in Nat /\ LeftQueue \in Nat
      /\ calls \in Nat /\ calls <= MaxCalls /\ MaxCalls \in Nat
  BY Numbers
<1> USE <1>1 DEF Call, Prepare
<1>2. Inv' /\ Unregistered' /\ Increasing' /\ Forwarding' /\ DefaultExcludesOthers'
        /\ Contents'
  BY Unmoved
<1>3. calls' \in 0 .. MaxCalls /\ calls' = calls + 1 /\ calls \in Nat /\ 1 \in 1 .. MaxCalls
  BY BusFacts, SMTT(30)
<1>4. tmp' \in [Publisher -> Message \cup {NoMessage}] /\ tmp'[p] # NoMessage
  <2> DEFINE m == [id |-> id, buf |-> b, no |-> 1]
  <2>1. m \in Message /\ m # NoMessage
    BY <1>3, BusAssumption, ChannelAssumption DEF BusMessage
  <2>2. tmp \in [Publisher -> Message \cup {NoMessage}]
    BY DEF BusInv, BusTypes, TypeOK
  <2>3. tmp' = [tmp EXCEPT ![p] = m]
    OBVIOUS
  <2> HIDE DEF m
  <2> QED BY <2>1, <2>2, <2>3
<1>5. BusTypes'
  BY <1>2, <1>3, <1>4 DEF BusInv, BusTypes, TypeOK, queueVars, handlerVars, registry, Inv
<1>6. CallsAccounted'
  <2>1. mMutex = NoThread /\ mMutex' # NoThread
    BY BusAssumption
  <2>2. Occupied' = Occupied /\ handler' = handler
    BY DEF Occupied, queueVars, handlerVars
  <2> QED BY <1>3, <2>1, <2>2, <1>n DEF BusInv, CallsAccounted
<1>7. Holders'
  BY <1>4 DEF BusInv, Holders, queueVars, handlerVars
<1>8. Numbered'
  BY DEF BusInv, Numbered, LeftQueue, queueVars, handlerVars
<1> QED BY <1>2, <1>5, <1>6, <1>7, <1>8 DEF BusInv

(* The queue accepts the message under the next number, or is full. *)
LEMMA EnqueueStep ==
    ASSUME BusInv, NEW p \in Publisher, Enqueue(p)
    PROVE  BusInv'
<1>n. /\ stats.accepted \in Nat /\ stats.declined \in Nat
      /\ stats.failedCopy \in Nat /\ stats.failedSend \in Nat
      /\ handler.incoming \in Nat /\ Occupied \in Nat /\ LeftQueue \in Nat
      /\ calls \in Nat /\ calls <= MaxCalls /\ MaxCalls \in Nat
  BY Numbers
<1>0. /\ mMutex = p /\ mMutex' = NoThread
      /\ tmp' = [tmp EXCEPT ![p] = NoMessage]
      /\ UNCHANGED <<channelVars, calls, own, taken, handlerVars, registry, history>>
  BY DEF Enqueue
<1>1. Inv' /\ Unregistered' /\ Increasing' /\ Forwarding' /\ DefaultExcludesOthers'
        /\ Contents'
  BY <1>0, Unmoved
<1>2. mMutex # NoThread /\ mMutex' = NoThread /\ tmp[p] # NoMessage /\ calls' = calls
  BY <1>0, BusAssumption DEF BusInv, Holders
<1>3. tmp' \in [Publisher -> Message \cup {NoMessage}]
  BY <1>0 DEF BusInv, BusTypes, TypeOK
<1>4. Holders'
  BY <1>0, <1>2, BusAssumption DEF BusInv, Holders, handlerVars
<1>5. stats \in [accepted : Nat, declined : Nat, failedCopy : Nat, failedSend : Nat]
  BY DEF BusInv, BusTypes
<1>6. /\ calls = stats.accepted + stats.declined + stats.failedCopy + stats.failedSend + 1
      /\ stats.accepted = Occupied + handler.incoming
  BY <1>2, <1>n DEF BusInv, CallsAccounted
<1>7. CASE /\ Occupied < QueueSize
           /\ queue' = Append(queue, [tmp[p] EXCEPT !.no = stats.accepted + 1])
           /\ stats' = [stats EXCEPT !.accepted = @ + 1]
  <2> DEFINE m == [tmp[p] EXCEPT !.no = stats.accepted + 1]
  <2>1. m \in Message /\ m.no = stats.accepted + 1
    <3>1. tmp[p] \in BusMessage
      BY <1>2, BusAssumption DEF BusInv, BusTypes, TypeOK
    <3>2. stats.accepted + 1 \in 1 .. MaxCalls
      BY <1>6, <1>n
    <3> QED BY <3>1, <3>2, BusAssumption DEF BusMessage
  <2>2. queue' = Append(queue, m)
    BY <1>7
  <2> HIDE DEF m
  <2>3. /\ stats' \in [accepted : Nat, declined : Nat, failedCopy : Nat, failedSend : Nat]
        /\ stats'.accepted = stats.accepted + 1 /\ stats'.declined = stats.declined
        /\ stats'.failedCopy = stats.failedCopy /\ stats'.failedSend = stats.failedSend
    BY <1>5, <1>7
  <2>4. queue \in Seq(Message) /\ Len(queue) \in Nat
    BY BusFacts
  <2>5. queue' \in Seq(Message) /\ Len(queue') = Len(queue) + 1
    BY <2>1, <2>2, <2>4
  <2>6. Len(queue') <= QueueSize
    BY <1>7, <2>4, <2>5, BusFacts, SMTT(30) DEF Occupied
  <2>7. BusTypes'
    BY <1>0, <1>1, <1>3, <2>3, <2>5, <2>6
       DEF BusInv, BusTypes, TypeOK, handlerVars, registry, Inv
  <2>8. CallsAccounted'
    <3>1. Occupied' = Occupied + 1 /\ Occupied \in Nat /\ handler' = handler
      BY <1>0, <2>4, <2>5 DEF Occupied, handlerVars
    <3> QED BY <1>2, <1>6, <2>3, <3>1, <1>n DEF CallsAccounted
  <2>9. Numbered'
    <3>1. LeftQueue' = LeftQueue
      BY <1>0 DEF LeftQueue, handlerVars
    <3>2. ASSUME NEW k \in DOMAIN queue'
          PROVE  queue'[k].no = LeftQueue + k
      <4>1. k \in 1 .. Len(queue) + 1
        BY <2>5
      <4>2. CASE k = Len(queue) + 1
        <5>1. queue'[k] = m
          BY <2>1, <2>2, <2>4, <4>2
        <5>2. stats.accepted = Len(queue) + LeftQueue
          BY <1>6, <1>n, <2>4 DEF Occupied, LeftQueue
        <5> QED BY <1>n, <2>1, <2>4, <4>2, <5>1, <5>2
      <4>3. CASE k \in 1 .. Len(queue)
        <5>1. queue'[k] = queue[k] /\ k \in DOMAIN queue
          BY <2>1, <2>2, <2>4, <4>3
        <5> QED BY <5>1 DEF BusInv, Numbered
      <4> QED BY <2>4, <4>1, <4>2, <4>3
    <3> QED BY <1>0, <3>1, <3>2 DEF BusInv, Numbered, handlerVars
  <2> QED BY <1>1, <1>4, <2>7, <2>8, <2>9 DEF BusInv
<1>8. CASE /\ Occupied >= QueueSize
           /\ stats' = [stats EXCEPT !.failedSend = @ + 1]
           /\ UNCHANGED queue
  <2>1. /\ stats' \in [accepted : Nat, declined : Nat, failedCopy : Nat, failedSend : Nat]
        /\ stats'.accepted = stats.accepted /\ stats'.declined = stats.declined
        /\ stats'.failedCopy = stats.failedCopy /\ stats'.failedSend = stats.failedSend + 1
    BY <1>5, <1>8
  <2>2. BusTypes'
    BY <1>0, <1>1, <1>3, <1>8, <2>1 DEF BusInv, BusTypes, TypeOK, handlerVars, registry, Inv
  <2>3. CallsAccounted'
    <3>1. Occupied' = Occupied /\ handler' = handler
      BY <1>0, <1>8 DEF Occupied, handlerVars
    <3> QED BY <1>2, <1>6, <2>1, <3>1, <1>n DEF CallsAccounted
  <2>4. Numbered'
    BY <1>0, <1>8, <2>1 DEF BusInv, Numbered, LeftQueue, handlerVars
  <2> QED BY <1>1, <1>4, <2>2, <2>3, <2>4 DEF BusInv
<1> QED BY <1>7, <1>8 DEF Enqueue
-----------------------------------------------------------------------------
(* A channel that is registered while a message is forwarded has not seen  *)
(* it: the iterator may still reach the channel.                           *)
LEMMA RegisterStep ==
    ASSUME BusInv, NEW d \in Channel, registerChannel(d)
    PROVE  BusInv'
<1> USE DEF registerChannel
<1> DEFINE n == Len(mChannels)
<1>0. /\ mChannels \in Seq(Channel \ {DefaultChannel}) /\ n \in Nat
      /\ d \in Channel \ {DefaultChannel} /\ mChannels' = Append(mChannels, d)
  BY BusFacts
<1>1. /\ mChannels' \in Seq(Channel \ {DefaultChannel}) /\ Len(mChannels') = n + 1
      /\ DOMAIN mChannels = 1 .. n /\ DOMAIN mChannels' = 1 .. n + 1
      /\ mChannels'[n + 1] = d /\ \A k \in 1 .. n : mChannels'[k] = mChannels[k]
  BY <1>0
<1>2. UNCHANGED <<channelVars, publisherVars, queueVars, handlerVars, mDefaultChannel, history>>
  OBVIOUS
<1>3. Inv'
  BY <1>2, ChannelStutter DEF BusInv
<1>4. position' \in 0 .. n + 1
  BY <1>0, <1>2 DEF handlerVars, BusInv, BusTypes, TypeOK
<1> HIDE DEF n, registerChannel
<1>5. BusTypes'
  BY <1>1, <1>2, <1>3, <1>4
     DEF BusInv, BusTypes, TypeOK, queueVars, publisherVars, handlerVars, Inv
<1>6. Holders' /\ CallsAccounted' /\ Numbered'
  BY <1>2 DEF BusInv, Holders, CallsAccounted, Occupied, Numbered, LeftQueue, queueVars,
              publisherVars, handlerVars
<1>7. history[d] = << >>
  BY <1>0 DEF registerChannel, BusInv, Unregistered, Registered
<1>8. Unregistered'
  <2>1. \A j, k \in 1 .. n : mChannels[j] = mChannels[k] => j = k
    BY <1>1 DEF BusInv, Unregistered
  <2>2. \A k \in 1 .. n : mChannels[k] # d
    BY <1>1 DEF registerChannel
  <2>3. \A j, k \in 1 .. n + 1 : mChannels'[j] = mChannels'[k] => j = k
    BY <1>0, <1>1, <2>1, <2>2
  <2>4. ASSUME NEW c \in Channel \ {DefaultChannel}, ~ Registered(c)'
        PROVE  history[c] = << >>
    <3>1. ~ Registered(c)
      BY <1>0, <1>1, <2>4 DEF Registered
    <3> QED BY <3>1 DEF BusInv, Unregistered
  <2> QED BY <1>1, <1>2, <2>3, <2>4 DEF Unregistered
<1>9. Increasing' /\ DefaultExcludesOthers'
  BY <1>2 DEF BusInv, Increasing, DefaultExcludesOthers
<1>10. Forwarding'
  <2>1. \A c, k : Below(c, k)' <=> Below(c, k)
    BY <1>2 DEF Below
  <2>2. ASSUME hpc = "forward", position # 0, NEW k \in position .. n + 1
        PROVE  Below(mChannels'[k], handler.incoming)
    <3>1. CASE k = n + 1
      BY <1>1, <1>7, <3>1 DEF Below
    <3>2. CASE k \in position .. n
      <4>1. k \in 1 .. n
        BY <1>0, <1>2, <1>4, <2>2, <3>2 DEF handlerVars
      <4>2. Below(mChannels[k], handler.incoming)
        BY <2>2, <3>2 DEF BusInv, Forwarding, n
      <4> QED BY <1>1, <4>1, <4>2
    <3>3. position \in 0 .. n + 1 /\ n \in Nat
      BY <1>0, <1>2, <1>4 DEF handlerVars
    <3>4. k = n + 1 \/ k \in position .. n
      BY <3>3
    <3> QED BY <3>1, <3>2, <3>4
  <2>3. handler' = handler /\ hpc' = hpc /\ position' = position /\ isForwarded' = isForwarded
    BY <1>2 DEF handlerVars
  <2>4. /\ \A c \in Channel : Below(c, handler.incoming + 1)
        /\ hpc = "forward" =>
             /\ Below(DefaultChannel, handler.incoming)
             /\ ~ isForwarded => \A c \in Channel : Below(c, handler.incoming)
    BY DEF BusInv, Forwarding
  <2> QED BY <1>1, <2>1, <2>2, <2>3, <2>4 DEF Forwarding
<1>11. Contents'
  BY <1>2 DEF BusInv, Contents, At, channelVars, deque
<1> QED BY <1>3, <1>5, <1>6, <1>8, <1>9, <1>10, <1>11 DEF BusInv

LEMMA SetDefaultStep ==
    ASSUME BusInv, setDefaultChannel
    PROVE  BusInv'
<1> USE DEF setDefaultChannel
<1>1. Inv'
  BY ChannelStutter DEF BusInv
<1>2. BusTypes'
  BY <1>1 DEF BusInv, BusTypes, TypeOK, queueVars, publisherVars, handlerVars, Inv
<1>3. Holders' /\ CallsAccounted' /\ Numbered'
  BY DEF BusInv, Holders, CallsAccounted, Occupied, Numbered, LeftQueue, queueVars,
         publisherVars, handlerVars
<1>4. Unregistered' /\ Increasing' /\ DefaultExcludesOthers'
  BY DEF BusInv, Unregistered, Registered, Increasing, DefaultExcludesOthers
<1>5. Forwarding'
  BY DEF BusInv, Forwarding, Below, handlerVars
<1>6. Contents'
  BY DEF BusInv, Contents, At, channelVars, deque
<1> QED BY <1>1, <1>2, <1>3, <1>4, <1>5, <1>6 DEF BusInv
-----------------------------------------------------------------------------
(* The handler takes the head of the queue. *)
LEMMA TakeStep ==
    ASSUME BusInv, HandlerTake
    PROVE  BusInv'
<1> USE DEF HandlerTake
<1>0. queue \in Seq(Message) /\ queue # << >> /\ Len(queue) <= QueueSize /\ QueueSize \in Nat
  BY BusFacts DEF BusInv, BusTypes, TypeOK
<1>1. /\ queue' \in Seq(Message) /\ Len(queue') = Len(queue) - 1 /\ Len(queue) \in Nat
      /\ Len(queue) >= 1 /\ taken' \in Message /\ taken' = queue[1]
      /\ \A k \in DOMAIN queue' : k + 1 \in DOMAIN queue /\ queue'[k] = queue[k + 1]
  BY <1>0
<1>2. taken' # NoMessage /\ taken = NoMessage
  BY <1>1, ChannelAssumption
<1>3. Inv' /\ Unregistered' /\ Increasing' /\ Forwarding' /\ DefaultExcludesOthers'
        /\ Contents'
  BY Unmoved
<1>4. BusTypes'
  <2>1. Len(queue') <= QueueSize
    BY <1>0, <1>1
  <2> QED BY <1>1, <1>3, <2>1
          DEF BusInv, BusTypes, TypeOK, publisherVars, handlerVars, registry, Inv
<1>5. Holders'
  BY DEF BusInv, Holders, publisherVars, handlerVars
<1>6. Occupied' = Occupied
  BY <1>1, <1>2 DEF Occupied
<1>7. CallsAccounted'
  BY <1>6 DEF BusInv, CallsAccounted, publisherVars, handlerVars
<1>8. Numbered'
  <2>1. /\ LeftQueue = handler.incoming /\ LeftQueue' = handler.incoming + 1
        /\ handler.incoming \in Nat
    BY <1>2, Numbers DEF LeftQueue, handlerVars
  <2>2. ASSUME NEW k \in DOMAIN queue' PROVE queue'[k].no = LeftQueue' + k
    <3>1. queue[k + 1].no = LeftQueue + (k + 1) /\ queue'[k] = queue[k + 1]
      BY <1>1 DEF BusInv, Numbered
    <3>2. k \in Nat
      BY <1>1
    <3> QED BY <2>1, <3>1, <3>2
  <2>3. taken'.no = handler.incoming + 1
    <3>1. 1 \in DOMAIN queue
      BY <1>0, <1>1
    <3>2. queue[1].no = LeftQueue + 1
      BY <3>1 DEF BusInv, Numbered
    <3> QED BY <1>1, <2>1, <3>2
  <2> QED BY <2>2, <2>3 DEF BusInv, Numbered, handlerVars
<1> QED BY <1>3, <1>4, <1>5, <1>7, <1>8 DEF BusInv

(* The handler has its message, under a number that no channel has seen. *)
LEMMA ObtainStep ==
    ASSUME BusInv, HandlerObtain
    PROVE  BusInv'
<1> USE DEF HandlerObtain, FreeSlot
<1>0. /\ handler.incoming \in Nat /\ stats.accepted \in Nat
      /\ handler \in [incoming : Nat, forwarded : Nat, defaulted : Nat]
  BY Numbers DEF BusInv, BusTypes
<1>1. /\ handler'.incoming = handler.incoming + 1
      /\ handler' \in [incoming : Nat, forwarded : Nat, defaulted : Nat]
  BY <1>0
<1>2. Inv'
  BY ChannelStutter DEF BusInv
<1>3. Len(mChannels) \in Nat /\ (mChannels # << >> => Len(mChannels) >= 1)
  BY BusFacts
<1>4. BusTypes'
  <2>1. position' \in 0 .. Len(mChannels')
    BY <1>3 DEF registry
  <2> QED BY <1>1, <1>2, <2>1
          DEF BusInv, BusTypes, TypeOK, publisherVars, handlerVars, registry, Inv
<1>5. Holders'
  BY DEF BusInv, Holders, publisherVars
<1>6. Len(queue) \in Nat
  BY BusFacts
<1>7. CallsAccounted'
  <2>1. Occupied = Occupied' + 1 /\ Occupied' \in Nat
    BY <1>6 DEF Occupied
  <2>2. stats.accepted = Occupied' + handler'.incoming
    BY <1>0, <1>1, <2>1 DEF BusInv, CallsAccounted
  <2> QED BY <2>2 DEF BusInv, CallsAccounted, publisherVars
<1>8. Numbered'
  <2>1. LeftQueue' = LeftQueue
    BY <1>0, <1>1 DEF LeftQueue
  <2> QED BY <1>1, <2>1 DEF BusInv, Numbered
<1>9. Unregistered' /\ Increasing' /\ DefaultExcludesOthers'
  BY DEF BusInv, Unregistered, Registered, Increasing, DefaultExcludesOthers, registry
<1>10. Forwarding'
  <2>1. ASSUME NEW c \in Channel, NEW j \in DOMAIN history[c]
        PROVE  /\ history[c][j] < handler'.incoming
               /\ history[c][j] < handler'.incoming + 1
    <3>1. history[c][j] < handler.incoming + 1
      BY DEF BusInv, Forwarding, Below
    <3>2. history[c][j] \in Nat
      BY BusFacts
    <3> QED BY <1>0, <1>1, <3>1, <3>2
  <2>2. \A k \in 1 .. Len(mChannels) : mChannels[k] \in Channel
    BY BusFacts
  <2>3. DefaultChannel \in Channel
    BY BusAssumption
  <2> QED BY <2>1, <2>2, <2>3 DEF Forwarding, Below, registry
<1>11. Contents'
  BY DEF BusInv, Contents, At, channelVars, deque
<1> QED BY <1>2, <1>4, <1>5, <1>7, <1>8, <1>9, <1>10, <1>11 DEF BusInv
-----------------------------------------------------------------------------
(* What a step does to a channel and its history.  A message that is       *)
(* accepted becomes the last element of both.                              *)
LEMMA ContentsAccept ==
    ASSUME BusInv, NEW c \in Channel, NEW m \in Message, Accept(c, m),
           history' = [history EXCEPT ![c] = Append(@, m.no)]
    PROVE  Contents'
<1>0. /\ Inv /\ Contents /\ history \in [Channel -> Seq(Nat)]
      /\ m.no \in Nat
  BY BusAssumption DEF BusInv, BusTypes, BusMessage
<1>1. SUFFICES ASSUME NEW d \in Channel
               PROVE  /\ Len(history'[d]) = counters'[d].appended
                      /\ \A k \in 0 .. mSize'[d] - 1 :
                           mBuffer'[d][At(d, k)'].no =
                               history'[d][counters'[d].retrieved + k + 1]
  BY DEF Contents
<1>2. /\ Capacity \in Nat /\ mTail[d] \in 0 .. Capacity - 1 /\ mSize[d] \in 0 .. Capacity
      /\ counters[d].appended \in Nat /\ counters[d].retrieved \in Nat
      /\ counters[d].appended - counters[d].retrieved = mSize[d]
  BY <1>0, TypeFacts DEF Inv, CountersAgree, Cell
<1>3. history[d] \in Seq(Nat) /\ Len(history[d]) = counters[d].appended
  BY <1>0 DEF Contents
<1>4. ASSUME NEW k \in 0 .. mSize[d] - 1
      PROVE  mBuffer[d][At(d, k)].no = history[d][counters[d].retrieved + k + 1]
  BY <1>0 DEF Contents
<1>5. CASE d # c
  <2>1. /\ mBuffer'[d] = mBuffer[d] /\ mTail'[d] = mTail[d] /\ mSize'[d] = mSize[d]
        /\ counters'[d] = counters[d] /\ history'[d] = history[d]
    BY <1>0, <1>5 DEF Accept, Inv, ChannelTypeOK
  <2>2. \A k : At(d, k)' = At(d, k)
    BY <2>1 DEF At
  <2> QED BY <1>3, <1>4, <2>1, <2>2
<1>6. CASE d = c
  <2> DEFINE last == Up(mHead[d])
             n == mSize[d]
             a == counters[d].appended
             t == counters[d].retrieved
  <2>1. /\ mTail'[d] = mTail[d] /\ mSize'[d] = n + 1 /\ n < Capacity
        /\ counters'[d].appended = a + 1 /\ counters'[d].retrieved = t
        /\ history'[d] = Append(history[d], m.no)
    BY <1>0, <1>6 DEF Accept, HasRoom, Inv, ChannelTypeOK
  <2>2. \A i \in Cell : mBuffer'[d][i] = IF i = last THEN m ELSE mBuffer[d][i]
    BY <1>0, <1>6, TypeFacts DEF Accept, Inv, ChannelTypeOK
  <2>3. last = At(d, n)
    BY <1>0 DEF Inv, HeadInPlace, At
  <2>4. /\ \A k : At(d, k)' = At(d, k)
        /\ \A k \in 0 .. n : At(d, k) \in Cell
        /\ \A k \in 0 .. n - 1 : At(d, k) # At(d, n)
    <3>1. \A k : At(d, k)' = At(d, k)
      BY <2>1 DEF At
    <3>0. /\ mTail[d] \in Nat /\ mTail[d] < Capacity /\ n \in Nat /\ n < Capacity
          /\ Capacity \in Nat
      BY <1>2, <2>1
    <3> HIDE DEF n
    <3>2. \A k \in 0 .. n : At(d, k) \in Cell
      BY <3>0 DEF At, Cell
    <3>3. \A k \in 0 .. n - 1 : At(d, k) # At(d, n)
      BY <3>0 DEF At
    <3> QED BY <3>1, <3>2, <3>3
  <2>5. n \in Nat /\ a \in Nat /\ t \in Nat /\ a - t = n
    BY <1>2
  <2>6. /\ Len(history'[d]) = a + 1 /\ history'[d][a + 1] = m.no
        /\ \A j \in 1 .. a : history'[d][j] = history[d][j]
    BY <1>0, <1>3, <2>1, <2>5
  <2> HIDE DEF n, a, t, last
  <2>7. ASSUME NEW k \in 0 .. n
        PROVE  mBuffer'[d][At(d, k)'].no = history'[d][t + k + 1]
    <3>1. CASE k = n
      <4>1. t + k + 1 = a + 1
        BY <2>5, <3>1
      <4> QED BY <2>2, <2>3, <2>4, <2>6, <3>1, <4>1
    <3>2. CASE k \in 0 .. n - 1
      <4>1. t + k + 1 \in 1 .. a
        BY <2>5, <3>2
      <4>2. mBuffer[d][At(d, k)].no = history[d][t + k + 1]
        BY <1>4, <3>2 DEF n, t
      <4>3. mBuffer'[d][At(d, k)'] = mBuffer[d][At(d, k)]
        BY <2>2, <2>3, <2>4, <3>2
      <4> QED BY <2>6, <4>1, <4>2, <4>3
    <3>3. k = n \/ k \in 0 .. n - 1
      BY <2>5
    <3> QED BY <3>1, <3>2, <3>3
  <2>8. mSize'[d] - 1 = n
    BY <2>1, <2>5
  <2> QED BY <2>1, <2>6, <2>7, <2>8
<1> QED BY <1>5, <1>6

(* A message that is not accepted changes neither. *)
LEMMA ContentsRefuse ==
    ASSUME BusInv, NEW c \in Channel, NEW m, Decline(c, m) \/ Reject(c, m),
           UNCHANGED history
    PROVE  Contents'
<1>1. /\ UNCHANGED <<mBuffer, mTail, mSize>>
      /\ \A d \in Channel : /\ counters'[d].appended = counters[d].appended
                            /\ counters'[d].retrieved = counters[d].retrieved
  <2>1. counters \in
          [Channel -> [incoming : Nat, appended : Nat, failed : Nat, retrieved : Nat]]
    BY DEF BusInv, Inv, ChannelTypeOK
  <2>2. CASE Decline(c, m)
    BY <2>1, <2>2 DEF Decline, deque
  <2>3. CASE Reject(c, m)
    BY <2>1, <2>3 DEF Reject, deque
  <2> QED BY <2>2, <2>3
<1> QED BY <1>1 DEF BusInv, Contents, At

(* The element that is fetched is the oldest one of the history that is    *)
(* still in the Deque.                                                     *)
LEMMA ContentsFetch ==
    ASSUME BusInv, NEW r \in Receiver, Fetch(r), UNCHANGED history
    PROVE  Contents'
<1> DEFINE c == source[r]
<1>0. Inv /\ Contents /\ history \in [Channel -> Seq(Nat)] /\ c \in Channel
  BY DEF BusInv, BusTypes, Inv, ChannelTypeOK
<1> HIDE DEF c
<1>1. SUFFICES ASSUME NEW d \in Channel
               PROVE  /\ Len(history'[d]) = counters'[d].appended
                      /\ \A k \in 0 .. mSize'[d] - 1 :
                           mBuffer'[d][At(d, k)'].no =
                               history'[d][counters'[d].retrieved + k + 1]
  BY DEF Contents
<1>2. /\ Capacity \in Nat /\ mTail[d] \in 0 .. Capacity - 1 /\ mSize[d] \in 0 .. Capacity
      /\ counters[d].retrieved \in Nat
  BY <1>0, TypeFacts DEF Cell
<1>3. /\ Len(history[d]) = counters[d].appended
      /\ \A k \in 0 .. mSize[d] - 1 :
           mBuffer[d][At(d, k)].no = history[d][counters[d].retrieved + k + 1]
  BY <1>0 DEF Contents
<1>4. CASE d # c
  <2>1. /\ mBuffer'[d] = mBuffer[d] /\ mTail'[d] = mTail[d] /\ mSize'[d] = mSize[d]
        /\ counters'[d] = counters[d]
    BY <1>0, <1>4 DEF Fetch, ClearFront, Inv, ChannelTypeOK, c
  <2>2. \A k : At(d, k)' = At(d, k)
    BY <2>1 DEF At
  <2> QED BY <1>3, <2>1, <2>2
<1>5. CASE d = c
  <2>1. /\ mTail'[d] = Up(mTail[d]) /\ mSize'[d] = mSize[d] - 1
        /\ counters'[d].appended = counters[d].appended
        /\ counters'[d].retrieved = counters[d].retrieved + 1
    BY <1>0, <1>5 DEF Fetch, Inv, ChannelTypeOK, c
  <2>2. \A i \in Cell : i # mTail[d] => mBuffer'[d][i] = mBuffer[d][i]
    BY <1>0, <1>5, TypeFacts DEF Fetch, ClearFront, Inv, ChannelTypeOK, c
  <2>3. ASSUME NEW k \in 0 .. mSize'[d] - 1
        PROVE  mBuffer'[d][At(d, k)'].no = history'[d][counters'[d].retrieved + k + 1]
    <3>1. k \in Nat /\ k + 1 \in 0 .. mSize[d] - 1 /\ k + 1 < Capacity
      BY <1>2, <2>1
    <3>2. At(d, k)' = At(d, k + 1) /\ At(d, k + 1) \in Cell /\ At(d, k + 1) # mTail[d]
      BY <1>2, <2>1, <3>1 DEF At, Cell, Up
    <3>3. mBuffer[d][At(d, k + 1)].no = history[d][counters[d].retrieved + (k + 1) + 1]
      BY <1>3, <3>1
    <3>4. counters[d].retrieved + (k + 1) + 1 = counters'[d].retrieved + k + 1
      BY <1>2, <2>1, <3>1
    <3> QED BY <2>2, <3>2, <3>3, <3>4
  <2> QED BY <1>3, <2>1, <2>3
<1> QED BY <1>4, <1>5

(* A receiver takes a step. *)
LEMMA FromChannelStep ==
    ASSUME BusInv, NEW r \in Receiver, FromChannel(Receive(r))
    PROVE  BusInv'
<1> USE DEF FromChannel
<1>1. Inv'
  BY ReceiveStep DEF BusInv
<1>2. BusTypes'
  BY <1>1 DEF BusInv, BusTypes, TypeOK, publisherVars, queueVars, handlerVars, registry, Inv
<1>3. Holders' /\ CallsAccounted' /\ Numbered'
  BY DEF BusInv, Holders, CallsAccounted, Occupied, Numbered, LeftQueue, queueVars,
         publisherVars, handlerVars
<1>4. Unregistered' /\ Increasing' /\ DefaultExcludesOthers'
  BY DEF BusInv, Unregistered, Registered, Increasing, DefaultExcludesOthers, registry
<1>5. Forwarding'
  BY DEF BusInv, Forwarding, Below, handlerVars, registry
<1>6. Contents'
  <2>1. CASE Fetch(r)
    BY <2>1, ContentsFetch
  <2>2. CASE Wait(r) \/ Acquire(r) \/ Timeout(r) \/ Release(r)
    BY <2>2 DEF BusInv, Contents, At, Wait, Acquire, Timeout, Release, deque
  <2> QED BY <2>1, <2>2 DEF Receive
<1> QED BY <1>1, <1>2, <1>3, <1>4, <1>5, <1>6 DEF BusInv
-----------------------------------------------------------------------------
(* A number that is larger than the entries of a history is appended. *)
LEMMA AppendNumber ==
    ASSUME BusInv, NEW c \in Channel, NEW n \in Nat, Below(c, n),
           history' = [history EXCEPT ![c] = Append(@, n)]
    PROVE  /\ history' \in [Channel -> Seq(Nat)]
           /\ \A d \in Channel : d # c => history'[d] = history[d]
           /\ \A j \in DOMAIN history'[c] :
                history'[c][j] = n \/ (j \in DOMAIN history[c] /\ history'[c][j] = history[c][j])
           /\ Increasing'
<1>1. history \in [Channel -> Seq(Nat)] /\ history[c] \in Seq(Nat)
  BY DEF BusInv, BusTypes
<1>2. history'[c] = Append(history[c], n) /\ history' \in [Channel -> Seq(Nat)]
  BY <1>1
<1> DEFINE l == Len(history[c])
<1>3. /\ l \in Nat /\ DOMAIN history[c] = 1 .. l /\ DOMAIN history'[c] = 1 .. l + 1
      /\ history'[c][l + 1] = n /\ \A j \in 1 .. l : history'[c][j] = history[c][j]
  BY <1>1, <1>2
<1> HIDE DEF l
<1>4. \A d \in Channel : d # c => history'[d] = history[d]
  BY <1>1
<1>5. \A j \in 1 .. l + 1 : j = l + 1 \/ j \in 1 .. l
  BY <1>3
<1>6. Increasing'
  <2>1. SUFFICES ASSUME NEW d \in Channel, NEW j \in DOMAIN history'[d],
                        NEW k \in DOMAIN history'[d], j < k
                 PROVE  history'[d][j] < history'[d][k]
    BY DEF Increasing
  <2>2. CASE d # c
    BY <1>4, <2>1, <2>2 DEF BusInv, Increasing
  <2>3. CASE d = c
    <3>1. j \in 1 .. l
      BY <1>3, <2>1, <2>3
    <3>2. CASE k = l + 1
      BY <1>3, <2>3, <3>1, <3>2 DEF Below
    <3>3. CASE k \in 1 .. l
      <4>1. history[c][j] < history[c][k]
        BY <1>3, <2>1, <3>1, <3>3 DEF BusInv, Increasing
      <4> QED BY <1>3, <2>3, <3>1, <3>3, <4>1
    <3> QED BY <1>3, <1>5, <2>3, <3>2, <3>3
  <2> QED BY <2>2, <2>3
<1> QED BY <1>2, <1>3, <1>4, <1>5, <1>6

(* While the handler forwards, its message has the number of the last      *)
(* message it received.                                                    *)
LEMMA ForwardFacts ==
    ASSUME BusInv, hpc = "forward"
    PROVE  /\ message \in Message /\ message.no = handler.incoming
           /\ handler.incoming \in Nat
           /\ \A c \in Channel : Below(c, handler.incoming + 1)
           /\ Below(DefaultChannel, handler.incoming)
BY Numbers DEF BusInv, BusTypes, TypeOK, Holders, Numbered, Forwarding

(* The channel at the iterator. *)
LEMMA AtIterator ==
    ASSUME BusInv, position # 0
    PROVE  /\ position \in 1 .. Len(mChannels) /\ Len(mChannels) \in Nat
           /\ mChannels[position] \in Channel \ {DefaultChannel}
           /\ Registered(mChannels[position])
           /\ \A k \in position + 1 .. Len(mChannels) :
                /\ mChannels[k] \in Channel \ {DefaultChannel}
                /\ mChannels[k] # mChannels[position]
<1>1. mChannels \in Seq(Channel \ {DefaultChannel}) /\ Len(mChannels) \in Nat
  BY BusFacts
<1>2. position \in 1 .. Len(mChannels)
  BY <1>1 DEF BusInv, BusTypes, TypeOK
<1>3. DOMAIN mChannels = 1 .. Len(mChannels)
  BY <1>1
<1>4. \A k \in 1 .. Len(mChannels) : mChannels[k] \in Channel \ {DefaultChannel}
  BY <1>1
<1>5. \A j, k \in 1 .. Len(mChannels) : mChannels[j] = mChannels[k] => j = k
  BY <1>3 DEF BusInv, Unregistered
<1>6. \A k \in position + 1 .. Len(mChannels) : k \in 1 .. Len(mChannels) /\ k # position
  BY <1>1, <1>2
<1> QED BY <1>1, <1>2, <1>3, <1>4, <1>5, <1>6 DEF Registered

(* The handler offers its message to the channel at the iterator. *)
LEMMA ForwardStep ==
    ASSUME BusInv, HandlerForward
    PROVE  BusInv'
<1> DEFINE c == mChannels[position]
           n == handler.incoming
<1>0. /\ hpc = "forward" /\ position # 0
      /\ UNCHANGED <<publisherVars, queueVars, hpc, message, handler, registry>>
  BY DEF HandlerForward
<1>1. /\ message \in Message /\ message.no = n /\ n \in Nat
      /\ \A d \in Channel : Below(d, n + 1)
      /\ Below(DefaultChannel, n)
  BY <1>0, ForwardFacts
<1>2. /\ position \in 1 .. Len(mChannels) /\ Len(mChannels) \in Nat
      /\ c \in Channel \ {DefaultChannel} /\ Registered(c)
      /\ \A k \in position + 1 .. Len(mChannels) :
           mChannels[k] \in Channel \ {DefaultChannel} /\ mChannels[k] # c
  BY <1>0, AtIterator
<1>3. /\ \A k \in position .. Len(mChannels) : Below(mChannels[k], n)
      /\ ~ isForwarded => \A d \in Channel : Below(d, n)
  BY <1>0 DEF BusInv, Forwarding
<1>4. Below(c, n)
  BY <1>2, <1>3
<1>5. /\ position' = IF position < Len(mChannels) THEN position + 1 ELSE 0
      /\ \/ Accept(c, message) /\ history' = [history EXCEPT ![c] = Append(@, message.no)]
            /\ isForwarded' = TRUE
         \/ (Decline(c, message) \/ Reject(c, message)) /\ UNCHANGED history
            /\ isForwarded' = isForwarded
  <2>1. isForwarded \in BOOLEAN
    BY DEF BusInv, BusTypes
  <2> QED BY <2>1 DEF HandlerForward, Offered
<1> HIDE DEF c, n
<1>6. Inv'
  BY <1>1, <1>2, <1>5, AcceptStep, DeclineStep, RejectStep DEF BusInv
<1>7. Contents'
  BY <1>1, <1>2, <1>5, ContentsAccept, ContentsRefuse
<1>8. Holders' /\ CallsAccounted' /\ Numbered'
  BY <1>0 DEF BusInv, Holders, CallsAccounted, Occupied, Numbered, LeftQueue, queueVars,
              publisherVars
<1>9. position' \in 0 .. Len(mChannels) /\ (position' # 0 => position' = position + 1)
  BY <1>2, <1>5
<1>10. history' \in [Channel -> Seq(Nat)] /\ isForwarded' \in BOOLEAN
  <2>1. history \in [Channel -> Seq(Nat)] /\ isForwarded \in BOOLEAN
    BY DEF BusInv, BusTypes
  <2> QED BY <1>1, <1>2, <1>4, <1>5, <2>1, AppendNumber
<1>11. BusTypes'
  BY <1>0, <1>6, <1>9, <1>10
     DEF BusInv, BusTypes, TypeOK, publisherVars, queueVars, registry, Inv
<1>12. CASE /\ (Decline(c, message) \/ Reject(c, message)) /\ UNCHANGED history
            /\ isForwarded' = isForwarded
  <2>1. Unregistered' /\ Increasing' /\ DefaultExcludesOthers'
    BY <1>0, <1>12
       DEF BusInv, Unregistered, Registered, Increasing, DefaultExcludesOthers, registry
  <2>2. Forwarding'
    <3>1. \A d, k : Below(d, k)' <=> Below(d, k)
      BY <1>12 DEF Below
    <3>2. \A k \in position + 1 .. Len(mChannels) : k \in position .. Len(mChannels)
      BY <1>2
    <3> QED BY <1>0, <1>1, <1>3, <1>9, <1>12, <3>1, <3>2 DEF Forwarding, registry, n
  <2> QED BY <1>6, <1>7, <1>8, <1>11, <2>1, <2>2 DEF BusInv
<1>13. CASE /\ Accept(c, message) /\ history' = [history EXCEPT ![c] = Append(@, message.no)]
            /\ isForwarded' = TRUE
  <2>1. /\ \A d \in Channel : d # c => history'[d] = history[d]
        /\ \A j \in DOMAIN history'[c] :
             history'[c][j] = n \/ (j \in DOMAIN history[c] /\ history'[c][j] = history[c][j])
        /\ Increasing'
    <3>1. history' = [history EXCEPT ![c] = Append(@, n)] /\ n \in Nat /\ c \in Channel
      BY <1>1, <1>2, <1>13
    <3> QED BY <1>4, <3>1, AppendNumber, ZenonT(60)
  <2>2. Unregistered'
    BY <1>0, <1>2, <2>1 DEF BusInv, Unregistered, Registered, registry
  <2>3. DefaultExcludesOthers'
    <3>1. SUFFICES ASSUME NEW d \in Channel \ {DefaultChannel}, NEW j \in DOMAIN history'[d],
                          NEW k \in DOMAIN history'[DefaultChannel]
                   PROVE  history'[d][j] # history'[DefaultChannel][k]
      BY DEF DefaultExcludesOthers
    <3>2. history'[DefaultChannel] = history[DefaultChannel]
      BY <1>2, <2>1, BusAssumption
    <3>3. history[DefaultChannel][k] < n /\ history[DefaultChannel][k] \in Nat
      BY <1>1, <3>2, BusFacts DEF Below
    <3>4. CASE d = c /\ history'[c][j] = n
      BY <1>1, <3>2, <3>3, <3>4
    <3>5. CASE j \in DOMAIN history[d] /\ history'[d][j] = history[d][j]
      BY <3>2, <3>5 DEF BusInv, DefaultExcludesOthers
    <3> QED BY <2>1, <3>4, <3>5
  <2>4. Forwarding'
    <3>1. ASSUME NEW d \in Channel PROVE Below(d, n + 1)'
      <4>1. SUFFICES ASSUME NEW j \in DOMAIN history'[d] PROVE history'[d][j] < n + 1
        BY <1>0 DEF Below, n
      <4>2. CASE d = c /\ history'[c][j] = n
        BY <1>1, <4>2
      <4>3. CASE j \in DOMAIN history[d] /\ history'[d][j] = history[d][j]
        BY <1>1, <4>3 DEF Below
      <4> QED BY <2>1, <4>2, <4>3
    <3>2. ASSUME NEW d \in Channel \ {c}, Below(d, n) PROVE Below(d, n)'
      BY <1>0, <2>1, <3>2 DEF Below, n
    <3>3. Below(DefaultChannel, n)'
      BY <1>1, <1>2, <3>2, BusAssumption
    <3>4. \A k \in position + 1 .. Len(mChannels) : Below(mChannels[k], n)
      BY <1>2, <1>3
    <3>5. ASSUME NEW k \in position + 1 .. Len(mChannels) PROVE Below(mChannels[k], n)'
      <4>1. Below(mChannels[k], n) /\ mChannels[k] \in Channel \ {c}
        BY <1>2, <3>4
      <4> QED BY <1>0, <2>1, <4>1 DEF Below, n, registry
    <3> QED BY <1>0, <1>9, <1>13, <3>1, <3>3, <3>5 DEF Forwarding, registry, n
  <2> QED BY <1>6, <1>7, <1>8, <1>11, <2>1, <2>2, <2>3, <2>4 DEF BusInv
<1> QED BY <1>5, <1>12, <1>13

(* After the last channel the handler offers the message to the default    *)
(* channel if no channel took it.                                          *)
LEMMA FinishStep ==
    ASSUME BusInv, HandlerFinish
    PROVE  BusInv'
<1> DEFINE D == DefaultChannel
           n == handler.incoming
<1>0. /\ hpc = "forward" /\ hpc' = "receive" /\ message' = NoMessage
      /\ UNCHANGED <<publisherVars, queueVars, position, isForwarded, registry>>
  BY DEF HandlerFinish
<1>1. /\ message \in Message /\ message.no = n /\ n \in Nat /\ D \in Channel
      /\ \A d \in Channel : Below(d, n + 1)
  BY <1>0, ForwardFacts, BusAssumption
<1>2. /\ handler'.incoming = n
      /\ handler' \in [incoming : Nat, forwarded : Nat, defaulted : Nat]
  <2>1. handler \in [incoming : Nat, forwarded : Nat, defaulted : Nat]
    BY DEF BusInv, BusTypes
  <2> QED BY <2>1 DEF HandlerFinish
<1>3. \/ UNCHANGED <<channelVars, history>>
      \/ (Decline(D, message) \/ Reject(D, message)) /\ UNCHANGED history
      \/ /\ ~ isForwarded
         /\ Accept(D, message) /\ history' = [history EXCEPT ![D] = Append(@, message.no)]
  BY DEF HandlerFinish, BusInv, BusTypes
<1>4. Inv'
  BY <1>1, <1>3, ChannelStutter, AcceptStep, DeclineStep, RejectStep DEF BusInv
<1>5. Contents'
  <2>1. CASE UNCHANGED <<channelVars, history>>
    BY <2>1 DEF BusInv, Contents, At, channelVars, deque
  <2> QED BY <1>1, <1>3, <2>1, ContentsAccept, ContentsRefuse
<1>6. Holders' /\ CallsAccounted' /\ Numbered'
  BY <1>0, <1>2 DEF BusInv, Holders, CallsAccounted, Occupied, Numbered, LeftQueue, queueVars,
                    publisherVars
<1>7. /\ history' \in [Channel -> Seq(Nat)] /\ Unregistered' /\ Increasing'
      /\ DefaultExcludesOthers' /\ \A d \in Channel : Below(d, n + 1)'
  <2>1. CASE UNCHANGED history
    <3>1. \A d \in Channel : Below(d, n + 1)'
      BY <1>1, <1>2, <2>1 DEF Below
    <3> QED BY <1>0, <2>1, <3>1 DEF BusInv, BusTypes, Unregistered, Registered, Increasing,
                             DefaultExcludesOthers, registry
  <2>2. CASE ~ isForwarded /\ history' = [history EXCEPT ![D] = Append(@, message.no)]
    <3>1. \A d \in Channel : Below(d, n)
      BY <1>0, <2>2 DEF BusInv, Forwarding
    <3>2. history' = [history EXCEPT ![D] = Append(@, n)] /\ n \in Nat /\ D \in Channel
      BY <1>1, <2>2
    <3> HIDE DEF n
    <3>3. /\ history' \in [Channel -> Seq(Nat)]
          /\ \A d \in Channel : d # D => history'[d] = history[d]
          /\ \A j \in DOMAIN history'[D] :
               history'[D][j] = n
                 \/ (j \in DOMAIN history[D] /\ history'[D][j] = history[D][j])
          /\ Increasing'
      BY <3>1, <3>2, AppendNumber
    <3>4. Unregistered'
      BY <1>0, <3>3 DEF BusInv, Unregistered, Registered, registry
    <3>5. DefaultExcludesOthers'
      <4>1. SUFFICES ASSUME NEW d \in Channel \ {D}, NEW j \in DOMAIN history[d],
                            NEW k \in DOMAIN history'[D]
                     PROVE  history[d][j] # history'[D][k]
        BY <3>3 DEF DefaultExcludesOthers
      <4>2. history[d][j] < n /\ history[d][j] \in Nat
        BY <3>1, BusFacts DEF Below
      <4>3. CASE history'[D][k] = n
        BY <3>2, <4>2, <4>3
      <4>4. CASE k \in DOMAIN history[D] /\ history'[D][k] = history[D][k]
        BY <4>4 DEF BusInv, DefaultExcludesOthers
      <4> QED BY <3>3, <4>3, <4>4
    <3>6. ASSUME NEW d \in Channel PROVE Below(d, n + 1)'
      <4>1. SUFFICES ASSUME NEW j \in DOMAIN history'[d] PROVE history'[d][j] < n + 1
        BY <1>2 DEF Below, n
      <4>2. CASE d = D /\ history'[D][j] = n
        BY <3>2, <4>2
      <4>3. CASE j \in DOMAIN history[d] /\ history'[d][j] = history[d][j]
        BY <1>1, <4>3 DEF Below
      <4> QED BY <3>3, <4>2, <4>3
    <3> QED BY <3>3, <3>4, <3>5, <3>6
  <2> QED BY <1>3, <2>1, <2>2
<1>8. BusTypes'
  BY <1>0, <1>2, <1>4, <1>7
     DEF BusInv, BusTypes, TypeOK, publisherVars, queueVars, registry, Inv
<1>9. Forwarding'
  BY <1>0, <1>2, <1>7 DEF Forwarding
<1> QED BY <1>4, <1>5, <1>6, <1>7, <1>8, <1>9 DEF BusInv
-----------------------------------------------------------------------------
(* BusInv is an invariant of the bus. *)
THEOREM BusInductive == Spec => []BusInv
<1>1. BusInv /\ [Next]_vars => BusInv'
  <2> SUFFICES ASSUME BusInv, [Next]_vars PROVE BusInv'
    OBVIOUS
  <2>1. ASSUME NEW p \in Publisher, Publish(p) \/ Enqueue(p) \/ AllocateOwn(p) \/ DropOwn(p)
        PROVE  BusInv'
    BY <2>1, FailStep, PrepareStep, EnqueueStep, OwnStep DEF Publish
  <2>2. CASE setDefaultChannel \/ \E c \in Channel : registerChannel(c)
    BY <2>2, RegisterStep, SetDefaultStep
  <2>3. CASE Handler
    BY <2>3, TakeStep, ObtainStep, ForwardStep, FinishStep DEF Handler
  <2>4. CASE \E r \in Receiver : FromChannel(Receive(r))
    BY <2>4, FromChannelStep
  <2>5. CASE UNCHANGED vars
    <3>1. Inv' /\ Unregistered' /\ Increasing' /\ Forwarding' /\ DefaultExcludesOthers'
            /\ Contents'
      BY <2>5, Unmoved DEF vars
    <3>2. BusTypes' /\ Holders' /\ CallsAccounted' /\ Numbered'
      BY <2>5, <3>1
         DEF BusInv, BusTypes, TypeOK, Inv, Holders, CallsAccounted, Occupied, Numbered,
             LeftQueue, vars, publisherVars, queueVars, handlerVars, registry
    <3> QED BY <3>1, <3>2 DEF BusInv
  <2> QED BY <2>1, <2>2, <2>3, <2>4, <2>5 DEF Next
<1> QED BY <1>1, BusInit, PTL DEF Spec

(* The variables of the bus keep their types; the queue never holds more   *)
(* than QueueSize messages.                                                *)
THEOREM BusTypeCorrect == Spec => []TypeOK
<1>1. BusInv => TypeOK
  BY DEF BusInv, BusTypes
<1> QED BY <1>1, BusInductive, PTL

(* Every call of SoftwareBus::sendMessage() is counted once, and every     *)
(* accepted message is in the queue, being taken, or was received by       *)
(* BusHandlerThread::step().                                               *)
THEOREM CallsAreAccounted == Spec => []CallsAccounted
<1>1. BusInv => CallsAccounted
  BY DEF BusInv
<1> QED BY <1>1, BusInductive, PTL

(* No message goes to the default channel and to a regular one, whenever   *)
(* channels are registered (BusDistributor::handleMessage).                *)
THEOREM DefaultIsExclusive == Spec => []DefaultExcludesOthers
<1>1. BusInv => DefaultExcludesOthers
  BY DEF BusInv
<1> QED BY <1>1, BusInductive, PTL

(* On a ring of Capacity cells the remainder is a conditional subtraction. *)
LEMMA RingIndex ==
    ASSUME NEW n \in Nat, n >= 2, NEW i \in 0 .. 2 * n - 1
    PROVE  i % n = IF i >= n THEN i - n ELSE i
<1>1. CASE i < n
  BY <1>1
<1>2. CASE i >= n
  <2>1. i = n * 1 + (i - n) /\ i - n \in 0 .. n - 1
    BY <1>2
  <2> QED BY <1>2, <2>1
<1> QED BY <1>1, <1>2

(* Every channel delivers the messages it accepted in the order in which   *)
(* the bus accepted them, each once (sendMessage, handleMessage,           *)
(* receiveMessage).                                                        *)
THEOREM DeliveryInOrder == Spec => []InOrder
<1>1. BusInv => InOrder
  <2> SUFFICES ASSUME BusInv, NEW c \in Channel
               PROVE  /\ \A j, k \in DOMAIN history[c] : j < k => history[c][j] < history[c][k]
                      /\ \A k \in 0 .. mSize[c] - 1 :
                           mBuffer[c][(mTail[c] + k) % Capacity].no =
                               history[c][counters[c].retrieved + k + 1]
    BY DEF InOrder
  <2>1. \A j, k \in DOMAIN history[c] : j < k => history[c][j] < history[c][k]
    BY DEF BusInv, Increasing
  <2>2. ASSUME NEW k \in 0 .. mSize[c] - 1
        PROVE  mBuffer[c][(mTail[c] + k) % Capacity].no =
                   history[c][counters[c].retrieved + k + 1]
    <3>1. /\ Capacity \in Nat /\ Capacity >= 2 /\ mTail[c] \in 0 .. Capacity - 1
          /\ mSize[c] \in 0 .. Capacity
      BY TypeFacts DEF BusInv, Cell
    <3>2. mTail[c] + k \in 0 .. 2 * Capacity - 1
      BY <3>1
    <3>3. (mTail[c] + k) % Capacity = At(c, k)
      <4> DEFINE i == mTail[c] + k
      <4>1. i \in 0 .. 2 * Capacity - 1
        BY <3>2
      <4>2. At(c, k) = IF i >= Capacity THEN i - Capacity ELSE i
        BY <3>1 DEF At
      <4> HIDE DEF i
      <4>3. i % Capacity = IF i >= Capacity THEN i - Capacity ELSE i
        BY <3>1, <4>1, RingIndex
      <4> QED BY <4>2, <4>3 DEF i
    <3> QED BY <3>3 DEF BusInv, Contents
  <2> QED BY <2>1, <2>2
<1> QED BY <1>1, BusInductive, PTL

(* The channels of a running bus are sound: what ChannelSpec allows any    *)
(* caller to do includes what the handler does.                            *)
THEOREM BusChannelsAreSound == Spec => []ChannelSound
<1>1. BusInv => ChannelSound
  BY PermitMeansMessage DEF BusInv, Inv, ChannelSound
<1> QED BY <1>1, BusInductive, PTL
=============================================================================
