----------------------------- MODULE Hal_proofs -----------------------------
(***************************************************************************)
(* The receive buffers of the SpaceWire link go back to it and a channel   *)
(* that wants complete packets gets no other, for every pool, every set of *)
(* channels and every size of packet; the handler that walks the time code *)
(* listeners without the mutex misses none of them; and the protocol       *)
(* dispatcher accounts for every package and every copy.                   *)
(***************************************************************************)
EXTENDS SpaceWireHandler, TimeCodeDispatcher, ProtocolDispatcher, TLAPS

(* The multi-protocol handler *)

(* A buffer of the pool is free or holds the copy of a packet; buffers     *)
(* that a channel or the distributor knows are in use.                     *)
Content == {[used |-> FALSE]} \cup {Copy(p) : p \in Packet}
PoolBuffer == 1 .. maxPackages
SpwTypeOK ==
    /\ rx \in Seq(Packet) /\ rxFree \in Nat
    /\ message = << >> \/ \E b \in PoolBuffer : message = <<b>>
    /\ channel \in [SpwChannel -> Seq(PoolBuffer)]
    /\ buffer \in [PoolBuffer -> Content]
MessageHeld == message # << >> => buffer[message[1]].used
SpwInv == SpwTypeOK /\ ReceiveBuffersReturn /\ MessageHeld /\ StrictSeesComplete

(* A copy whose identifier does not say otherwise is complete. *)
LEMMA CopyIsHonest ==
    ASSUME NEW p \in Packet
    PROVE  Copy(p).used /\ (Copy(p).end = "eop" => Copy(p).complete)
<1>1. p.size \in Nat /\ maxPacketSize \in Nat
  BY SpwAssumption DEF Packet
<1>2. Copy(p).end = EndMarker(p) /\ Copy(p).used = TRUE
      /\ Copy(p).complete = (p.end = "eop" /\ p.size <= maxPacketSize)
  BY Zenon DEF Copy
<1>3. EndMarker(p) = "eop" => p.end = "eop" /\ p.size <= maxPacketSize
  BY <1>1 DEF EndMarker
<1> QED BY <1>2, <1>3, Zenon

LEMMA ContentIsHonest ==
    ASSUME NEW m \in Content, m.used PROVE m.end = "eop" => m.complete
<1>1. CASE m = [used |-> FALSE]
  <2>1. m.used = FALSE
    BY <1>1
  <2> QED BY <2>1
<1>2. CASE \E p \in Packet : m = Copy(p)
  BY <1>2, CopyIsHonest
<1> QED BY <1>1, <1>2 DEF Content

LEMMA SpwInitInv == SpwInit => SpwInv
<1> SUFFICES ASSUME SpwInit PROVE SpwInv
  OBVIOUS
<1>1. SpwTypeOK
  <2>1. buffer \in [PoolBuffer -> Content]
    BY DEF SpwInit, PoolBuffer, Content
  <2> QED BY <2>1, SpwAssumption DEF SpwInit, SpwTypeOK
<1>2. ReceiveBuffersReturn
  BY SpwAssumption DEF SpwInit, ReceiveBuffersReturn
<1>3. MessageHeld /\ StrictSeesComplete
  BY DEF SpwInit, MessageHeld, StrictSeesComplete
<1> QED BY <1>1, <1>2, <1>3 DEF SpwInv

(* Steps of the link. *)
LEMMA LinkReceiveKeeps ==
    ASSUME SpwInv, NEW p \in Packet, linkReceive(p) PROVE SpwInv'
<1>0. /\ rxFree > 0 /\ rxFree' = rxFree - 1 /\ rx' = Append(rx, p) /\ message' = message
      /\ channel' = channel /\ buffer' = buffer
  BY DEF linkReceive
<1>1. rx \in Seq(Packet) /\ rxFree \in Nat /\ Len(rx) \in Nat
  BY DEF SpwInv, SpwTypeOK
<1>2. rx' \in Seq(Packet) /\ Len(rx') = Len(rx) + 1 /\ rxFree' \in Nat
  BY <1>0, <1>1
<1>3. SpwTypeOK'
  BY <1>0, <1>2 DEF SpwInv, SpwTypeOK
<1>4. ReceiveBuffersReturn'
  <2> DEFINE n == Len(rx)
  <2>1. n \in Nat /\ rxFree + n = RxBuffers /\ rxFree \in Nat
    BY <1>1 DEF SpwInv, ReceiveBuffersReturn
  <2>2. Len(rx') = n + 1
    BY <1>2
  <2> HIDE DEF n
  <2>3. (rxFree - 1) + (n + 1) = rxFree + n
    BY <2>1
  <2> QED BY <1>0, <2>1, <2>2, <2>3 DEF ReceiveBuffersReturn
<1>5. MessageHeld' /\ StrictSeesComplete'
  BY <1>0 DEF SpwInv, MessageHeld, StrictSeesComplete
<1> QED BY <1>3, <1>4, <1>5 DEF SpwInv

(* receive() fills a free buffer, which no channel knows. *)
LEMMA ReceivePacketKeeps ==
    ASSUME SpwInv, receive PROVE SpwInv'
<1>0. /\ message = << >> /\ rx # << >> /\ rx' = Tail(rx) /\ rxFree' = rxFree + 1
      /\ channel' = channel
  BY DEF receive, releaseBuffer
<1>1. /\ rx \in Seq(Packet) /\ rxFree \in Nat /\ Len(rx) \in Nat
      /\ rx' \in Seq(Packet) /\ Len(rx') = Len(rx) - 1 /\ Head(rx) \in Packet
      /\ rxFree' \in Nat
  BY <1>0 DEF SpwInv, SpwTypeOK
<1>2. ReceiveBuffersReturn'
  <2> DEFINE n == Len(rx)
  <2>1. n \in Nat /\ rxFree + n = RxBuffers /\ rxFree \in Nat
    BY <1>1 DEF SpwInv, ReceiveBuffersReturn
  <2>2. Len(rx') = n - 1
    BY <1>1
  <2> HIDE DEF n
  <2>3. (rxFree + 1) + (n - 1) = rxFree + n
    BY <2>1
  <2> QED BY <1>0, <2>1, <2>2, <2>3 DEF ReceiveBuffersReturn
<1>3. ASSUME NEW b \in FreeBuffers, buffer' = [buffer EXCEPT ![b] = Copy(Head(rx))],
             message' = <<b>>
      PROVE  SpwInv'
  <2>1. /\ b \in PoolBuffer /\ ~ buffer[b].used /\ buffer \in [PoolBuffer -> Content]
        /\ Copy(Head(rx)) \in Content
    BY <1>1 DEF FreeBuffers, PoolBuffer, SpwInv, SpwTypeOK, Content
  <2>2. buffer' \in [PoolBuffer -> Content] /\ buffer'[b] = Copy(Head(rx))
        /\ \A a \in PoolBuffer : a # b => buffer'[a] = buffer[a]
    BY <1>3, <2>1
  <2>3. SpwTypeOK'
    BY <1>0, <1>1, <1>3, <2>1, <2>2 DEF SpwInv, SpwTypeOK
  <2>4. MessageHeld'
    BY <1>1, <1>3, <2>2, CopyIsHonest DEF MessageHeld
  <2>5. StrictSeesComplete'
    <3> SUFFICES ASSUME NEW c \in SpwChannel, NEW k \in 1 .. Len(channel[c])
                 PROVE  LET m == buffer'[channel[c][k]] IN m.used /\ (Filter[c].partial \/ m.complete)
      BY <1>0 DEF StrictSeesComplete
    <3>1. channel[c][k] \in PoolBuffer /\ buffer[channel[c][k]].used
      BY DEF SpwInv, SpwTypeOK, StrictSeesComplete
    <3>2. buffer'[channel[c][k]] = buffer[channel[c][k]]
      BY <2>1, <2>2, <3>1
    <3> QED BY <3>2 DEF SpwInv, StrictSeesComplete
  <2> QED BY <1>2, <2>3, <2>4, <2>5 DEF SpwInv
<1>4. CASE UNCHANGED <<buffer, message>>
  BY <1>0, <1>1, <1>2, <1>4 DEF SpwInv, SpwTypeOK, MessageHeld, StrictSeesComplete
<1> QED BY <1>3, <1>4 DEF receive

(* Releasing a buffer leaves those that the channels know. *)
LEMMA ReleaseKeepsKnown ==
    ASSUME SpwTypeOK, NEW b \in PoolBuffer, NEW queues \in [SpwChannel -> Seq(PoolBuffer)]
    PROVE  /\ Release(b, queues) \in [PoolBuffer -> Content]
           /\ \A a \in PoolBuffer : a # b => Release(b, queues)[a] = buffer[a]
           /\ \A c \in SpwChannel : \A k \in 1 .. Len(queues[c]) :
                Release(b, queues)[queues[c][k]] = buffer[queues[c][k]]
<1>1. buffer \in [PoolBuffer -> Content] /\ [used |-> FALSE] \in Content
  BY DEF SpwTypeOK, Content
<1>2. Release(b, queues) \in [PoolBuffer -> Content]
      /\ \A a \in PoolBuffer : a # b => Release(b, queues)[a] = buffer[a]
  BY <1>1 DEF Release
<1>3. ASSUME NEW c \in SpwChannel, NEW k \in 1 .. Len(queues[c])
      PROVE  Release(b, queues)[queues[c][k]] = buffer[queues[c][k]]
  <2>1. queues[c][k] \in PoolBuffer
    OBVIOUS
  <2>2. CASE queues[c][k] = b
    <3>1. b \in Referenced(queues)
      BY <2>2 DEF Referenced, PoolBuffer
    <3> QED BY <3>1 DEF Release
  <2> QED BY <1>2, <2>1, <2>2
<1> QED BY <1>2, <1>3

LEMMA DistributeKeeps ==
    ASSUME SpwInv, distribute PROVE SpwInv'
<1>0. PICK b \in PoolBuffer : message = <<b>>
  BY DEF SpwInv, SpwTypeOK, distribute
<1>1. /\ channel' = [c \in SpwChannel |->
                       IF filter(c, buffer[b]) /\ Len(channel[c]) < ChannelSize
                       THEN Append(channel[c], b) ELSE channel[c]]
      /\ buffer' = Release(b, channel') /\ message' = << >> /\ rx' = rx /\ rxFree' = rxFree
  BY <1>0 DEF distribute
<1>2. /\ channel \in [SpwChannel -> Seq(PoolBuffer)] /\ buffer \in [PoolBuffer -> Content]
      /\ buffer[b].used
  BY <1>0 DEF SpwInv, SpwTypeOK, MessageHeld
<1>3. channel' \in [SpwChannel -> Seq(PoolBuffer)]
  BY <1>1, <1>2
<1>4. /\ buffer' \in [PoolBuffer -> Content]
      /\ \A c \in SpwChannel : \A k \in 1 .. Len(channel'[c]) :
           buffer'[channel'[c][k]] = buffer[channel'[c][k]]
  BY <1>1, <1>3, ReleaseKeepsKnown, ZenonT(60) DEF SpwInv
<1>5. SpwTypeOK'
  BY <1>1, <1>3, <1>4 DEF SpwInv, SpwTypeOK
<1>6. StrictSeesComplete'
  <2> SUFFICES ASSUME NEW c \in SpwChannel, NEW k \in 1 .. Len(channel'[c])
               PROVE  LET m == buffer[channel'[c][k]] IN m.used /\ (Filter[c].partial \/ m.complete)
    BY <1>4 DEF StrictSeesComplete
  <2>1. CASE k \in 1 .. Len(channel[c]) /\ channel'[c][k] = channel[c][k]
    BY <2>1 DEF SpwInv, StrictSeesComplete
  <2>2. CASE channel'[c][k] = b /\ filter(c, buffer[b])
    <3>1. Filter[c].partial \/ buffer[b].end = "eop"
      BY <2>2 DEF filter
    <3>2. buffer[b].end = "eop" => buffer[b].complete
      BY <1>2, ContentIsHonest
    <3> QED BY <1>2, <2>2, <3>1, <3>2
  <2>3. \/ k \in 1 .. Len(channel[c]) /\ channel'[c][k] = channel[c][k]
        \/ channel'[c][k] = b /\ filter(c, buffer[b])
    <3>1. channel[c] \in Seq(PoolBuffer) /\ Len(channel[c]) \in Nat
      BY <1>2
    <3>2. CASE channel'[c] = channel[c]
      BY <3>2
    <3>3. CASE channel'[c] = Append(channel[c], b) /\ filter(c, buffer[b])
      BY <3>1, <3>3
    <3> QED BY <1>1, <3>2, <3>3
  <2> QED BY <2>1, <2>2, <2>3
<1>7. ReceiveBuffersReturn' /\ MessageHeld'
  BY <1>1 DEF SpwInv, ReceiveBuffersReturn, MessageHeld
<1> QED BY <1>5, <1>6, <1>7 DEF SpwInv

LEMMA ChannelReceiveKeeps ==
    ASSUME SpwInv, NEW d \in SpwChannel, channelReceive(d) PROVE SpwInv'
<1> DEFINE b == Head(channel[d])
<1>0. /\ channel[d] # << >> /\ channel' = [channel EXCEPT ![d] = Tail(channel[d])]
      /\ buffer' = IF <<b>> = message THEN buffer ELSE Release(b, channel')
      /\ message' = message /\ rx' = rx /\ rxFree' = rxFree
  BY DEF channelReceive
<1>1. /\ channel \in [SpwChannel -> Seq(PoolBuffer)] /\ buffer \in [PoolBuffer -> Content]
  BY DEF SpwInv, SpwTypeOK
<1>2. channel[d] \in Seq(PoolBuffer) /\ b \in PoolBuffer /\ Tail(channel[d]) \in Seq(PoolBuffer)
  BY <1>0, <1>1
<1>3. channel' \in [SpwChannel -> Seq(PoolBuffer)]
  BY <1>0, <1>1, <1>2
<1>4. /\ buffer' \in [PoolBuffer -> Content]
      /\ \A c \in SpwChannel : \A k \in 1 .. Len(channel'[c]) :
           buffer'[channel'[c][k]] = buffer[channel'[c][k]]
      /\ message # << >> => buffer'[message[1]] = buffer[message[1]]
  <2>1. CASE <<b>> = message
    BY <1>0, <1>1, <2>1
  <2>2. CASE <<b>> # message
    <3>1. buffer' = Release(b, channel')
      BY <1>0, <2>2
    <3>2. message # << >> => message[1] \in PoolBuffer /\ message[1] # b
      BY <2>2 DEF SpwInv, SpwTypeOK
    <3> QED BY <1>2, <1>3, <3>1, <3>2, ReleaseKeepsKnown DEF SpwInv
  <2> QED BY <2>1, <2>2
<1>5. SpwTypeOK'
  BY <1>0, <1>3, <1>4 DEF SpwInv, SpwTypeOK
<1>6. StrictSeesComplete'
  <2> SUFFICES ASSUME NEW c \in SpwChannel, NEW k \in 1 .. Len(channel'[c])
               PROVE  LET m == buffer[channel'[c][k]] IN m.used /\ (Filter[c].partial \/ m.complete)
    BY <1>4 DEF StrictSeesComplete
  <2>1. \E j \in 1 .. Len(channel[c]) : channel[c][j] = channel'[c][k]
    <3>1. CASE c # d
      <4>1. channel'[c] = channel[c]
        BY <1>0, <1>1, <3>1
      <4> QED BY <4>1
    <3>2. CASE c = d
      <4>1. channel'[c] = Tail(channel[d])
        BY <1>0, <1>1, <3>2
      <4>2. /\ k + 1 \in 1 .. Len(channel[d]) /\ Tail(channel[d])[k] = channel[d][k + 1]
        <5> DEFINE q == channel[d]
        <5>1. q \in Seq(PoolBuffer) /\ q # << >> /\ k \in 1 .. Len(Tail(q))
          BY <1>0, <1>2, <4>1
        <5> HIDE DEF q
        <5>2. k + 1 \in 1 .. Len(q) /\ Tail(q)[k] = q[k + 1]
          BY <5>1
        <5> QED BY <5>2 DEF q
      <4> QED BY <3>2, <4>1, <4>2
    <3> QED BY <3>1, <3>2
  <2> QED BY <2>1 DEF SpwInv, StrictSeesComplete
<1>7. ReceiveBuffersReturn' /\ MessageHeld'
  BY <1>0, <1>4 DEF SpwInv, ReceiveBuffersReturn, MessageHeld
<1> QED BY <1>5, <1>6, <1>7 DEF SpwInv

(* SpwInv is an invariant of the handler. *)
THEOREM SpwInductive == SpwSpec => []SpwInv
<1>1. SpwInv /\ [SpwNext]_spwVars => SpwInv'
  <2> SUFFICES ASSUME SpwInv, [SpwNext]_spwVars PROVE SpwInv'
    OBVIOUS
  <2>1. CASE receive
    BY <2>1, ReceivePacketKeeps
  <2>2. CASE distribute
    BY <2>2, DistributeKeeps
  <2>3. ASSUME NEW p \in Packet, linkReceive(p) PROVE SpwInv'
    BY <2>3, LinkReceiveKeeps
  <2>4. ASSUME NEW c \in SpwChannel, channelReceive(c) PROVE SpwInv'
    BY <2>4, ChannelReceiveKeeps
  <2>5. ASSUME UNCHANGED <<rx, rxFree, message, channel, buffer>> PROVE SpwInv'
    BY <2>5 DEF SpwInv, SpwTypeOK, ReceiveBuffersReturn, MessageHeld, StrictSeesComplete
  <2>6. \/ receive \/ distribute \/ \E p \in Packet : linkReceive(p)
        \/ \E c \in SpwChannel : channelReceive(c)
        \/ UNCHANGED <<rx, rxFree, message, channel, buffer>>
    BY DEF SpwNext, linkDown, receiveUp, sendExpired, sendBuffer, sendRequest, spwVars
  <2> QED BY <2>1, <2>2, <2>3, <2>4, <2>5, <2>6
<1> QED BY <1>1, SpwInitInv, PTL DEF SpwSpec

(* Every path of receive() returns the receive buffer of the link, for any *)
(* number of buffers and channels.                                         *)
THEOREM ReceiveBuffersAreReturned == SpwSpec => []ReceiveBuffersReturn
  BY SpwInductive, PTL DEF SpwInv

(* A channel whose filter wants complete packets holds only those, and no  *)
(* buffer goes back to the pool while a channel still knows it.            *)
THEOREM StrictChannelsAreServed == SpwSpec => []StrictSeesComplete
  BY SpwInductive, PTL DEF SpwInv
-----------------------------------------------------------------------------
(* The time code dispatcher *)

Entry == [queue : TcQueue, of : Registrar]
TimeCodeTypeOK ==
    /\ mListener \in [Slot -> Entry \cup {NoQueue}]
    /\ mNumberOfListeners \in 0 .. numberOfListeners
    /\ mMutex \in Registrar \cup {NoQueue}
    /\ adding \in [Registrar -> [at : {"idle", "lock", "store", "count"},
                                 queue : TcQueue \cup {NoQueue}]]
    /\ dispatching \in Int /\ dispatching >= -1
    /\ accepted \subseteq Registrar /\ awaited \subseteq Registrar

(* The registrar between its stores has the mutex, room in the table, and, *)
(* before it counts, its entry in the first free place.                    *)
Inside(r) == adding[r].at \in {"store", "count"}
RegistrarInside ==
    \A r \in Registrar :
        /\ adding[r].at # "idle" => adding[r].queue \in TcQueue
        /\ Inside(r) => mMutex = r /\ mNumberOfListeners < numberOfListeners
        /\ adding[r].at = "count" =>
             mListener[mNumberOfListeners] \in Entry /\ mListener[mNumberOfListeners].of = r

(* Below the count every entry is set, and every listener that was         *)
(* accepted has one.                                                       *)
EntriesSet == \A i \in Slot : i < mNumberOfListeners => mListener[i] \in Entry
HasEntry(r, from) ==
    \E i \in Slot : from <= i /\ i < mNumberOfListeners /\ mListener[i].of = r
AcceptedHaveEntry == \A r \in accepted : HasEntry(r, 0)

(* A listener that waits for the time code was notified or is yet to come  *)
(* in the loop of the handler.                                             *)
AwaitedAhead ==
    dispatching # -1 => \A r \in awaited : r \in notified \/ HasEntry(r, dispatching)

TimeCodeInv ==
    TimeCodeTypeOK /\ RegistrarInside /\ EntriesSet /\ AcceptedHaveEntry /\ AwaitedAhead

LEMMA TimeCodeInitInv == TimeCodeInit => TimeCodeInv
  <1> SUFFICES ASSUME TimeCodeInit PROVE TimeCodeInv
    OBVIOUS
  <1>1. TimeCodeTypeOK
    BY TimeCodeAssumption DEF TimeCodeInit, TimeCodeTypeOK
  <1>2. RegistrarInside
    BY DEF TimeCodeInit, RegistrarInside, Inside
  <1>3. EntriesSet
    BY TimeCodeAssumption DEF TimeCodeInit, EntriesSet, Slot
  <1>4. AcceptedHaveEntry /\ AwaitedAhead
    BY DEF TimeCodeInit, AcceptedHaveEntry, AwaitedAhead
  <1>5. QED BY <1>1, <1>2, <1>3, <1>4 DEF TimeCodeInv

(* Steps before the first store change nothing that the handler reads. *)
LEMMA LockKeepsInv ==
    ASSUME NEW r \in Registrar, TimeCodeInv, addLock(r) \/ \E q \in TcQueue : addListener(r, q)
    PROVE  TimeCodeInv'
  <1>1. UNCHANGED <<mListener, mNumberOfListeners, dispatching, accepted, awaited, notified>>
    BY DEF addLock, addListener
  <1>2. EntriesSet' /\ AcceptedHaveEntry' /\ AwaitedAhead'
    BY <1>1 DEF TimeCodeInv, EntriesSet, AcceptedHaveEntry, AwaitedAhead, HasEntry
  <1>3. TimeCodeTypeOK'
    BY <1>1 DEF TimeCodeInv, TimeCodeTypeOK, addLock, addListener
  <1>4. RegistrarInside'
    <2>1. CASE addLock(r)
      BY <1>1, <2>1, TimeCodeAssumption
      DEF TimeCodeInv, TimeCodeTypeOK, RegistrarInside, Inside, addLock
    <2>2. CASE \E q \in TcQueue : addListener(r, q)
      BY <1>1, <2>2 DEF TimeCodeInv, TimeCodeTypeOK, RegistrarInside, Inside, addListener
    <2>3. QED BY <2>1, <2>2
  <1>5. QED BY <1>2, <1>3, <1>4 DEF TimeCodeInv

(* The entry is written to the first place behind the count. *)
LEMMA StoreKeepsInv ==
    ASSUME NEW r \in Registrar, TimeCodeInv, addStore(r) PROVE TimeCodeInv'
  <1> DEFINE e == [queue |-> adding[r].queue, of |-> r]
             n == mNumberOfListeners
  <1>1. /\ adding[r].at = "store" /\ mListener' = [mListener EXCEPT ![n] = e]
        /\ adding' = [adding EXCEPT ![r].at = "count"]
        /\ UNCHANGED <<mNumberOfListeners, mMutex, dispatching, accepted, awaited, notified>>
    BY DEF addStore
  <1>2. e \in Entry /\ e.of = r
    BY <1>1 DEF Entry, TimeCodeInv, RegistrarInside
  <1>3. n \in Slot /\ n \in Nat /\ \A i \in Slot : i < n => i # n
    BY <1>1, TimeCodeAssumption
    DEF TimeCodeInv, TimeCodeTypeOK, RegistrarInside, Inside, Slot
  <1> HIDE DEF e
  <1>4. /\ mListener'[n] = e /\ \A i \in Slot : i # n => mListener'[i] = mListener[i]
        /\ mListener' \in [Slot -> Entry \cup {NoQueue}]
    BY <1>1, <1>2, <1>3 DEF TimeCodeInv, TimeCodeTypeOK
  <1>5. TimeCodeTypeOK'
    BY <1>1, <1>4 DEF TimeCodeInv, TimeCodeTypeOK
  <1>6. RegistrarInside'
    <2> SUFFICES ASSUME NEW q \in Registrar
                 PROVE  /\ adding'[q].at # "idle" => adding'[q].queue \in TcQueue
                        /\ Inside(q)' => mMutex = q /\ n < numberOfListeners
                        /\ adding'[q].at = "count" => mListener'[n] \in Entry /\ mListener'[n].of = q
      BY <1>1 DEF RegistrarInside
    <2>1. CASE q = r
      BY <1>1, <1>2, <1>4, <2>1 DEF TimeCodeInv, TimeCodeTypeOK, RegistrarInside, Inside
    <2>2. CASE q # r
      BY <1>1, <2>2 DEF TimeCodeInv, TimeCodeTypeOK, RegistrarInside, Inside
    <2>3. QED BY <2>1, <2>2
  <1>7. EntriesSet' /\ AcceptedHaveEntry' /\ AwaitedAhead'
    BY <1>1, <1>3, <1>4
    DEF TimeCodeInv, EntriesSet, AcceptedHaveEntry, AwaitedAhead, HasEntry
  <1>8. QED BY <1>5, <1>6, <1>7 DEF TimeCodeInv

(* The count makes the entry visible, behind all others. *)
LEMMA CountKeepsInv ==
    ASSUME NEW r \in Registrar, TimeCodeInv, addCount(r) PROVE TimeCodeInv'
  <1> DEFINE n == mNumberOfListeners
  <1>1. /\ adding[r].at = "count" /\ mNumberOfListeners' = n + 1 /\ mMutex' = NoQueue
        /\ adding' = [adding EXCEPT ![r].at = "idle"] /\ accepted' = accepted \cup {r}
        /\ UNCHANGED <<mListener, dispatching, awaited, notified>>
    BY DEF addCount
  <1>2. /\ mMutex = r /\ n < numberOfListeners /\ n \in Nat /\ n \in Slot
        /\ mListener[n] \in Entry /\ mListener[n].of = r
    BY <1>1, TimeCodeAssumption
    DEF TimeCodeInv, TimeCodeTypeOK, RegistrarInside, Inside, Slot
  <1>3. TimeCodeTypeOK'
    BY <1>1, <1>2, TimeCodeAssumption DEF TimeCodeInv, TimeCodeTypeOK
  <1>4. RegistrarInside'
    <2> SUFFICES ASSUME NEW q \in Registrar
                 PROVE  /\ adding'[q].at # "idle" => adding'[q].queue \in TcQueue
                        /\ adding'[q].at \in {"idle", "lock"}
      BY DEF RegistrarInside, Inside
    <2>1. CASE q = r
      BY <1>1, <2>1 DEF TimeCodeInv, TimeCodeTypeOK
    <2>2. CASE q # r
      BY <1>1, <1>2, <2>2 DEF TimeCodeInv, TimeCodeTypeOK, RegistrarInside, Inside
    <2>3. QED BY <2>1, <2>2
  <1>5. \A i \in Slot : i < n + 1 => i < n \/ i = n
    BY <1>2, TimeCodeAssumption DEF Slot
  <1>6. EntriesSet'
    BY <1>1, <1>2, <1>5 DEF TimeCodeInv, EntriesSet
  <1>7. AcceptedHaveEntry' /\ AwaitedAhead'
    <2>1. \A i \in Slot : i < n => i < n + 1
      BY <1>2, TimeCodeAssumption DEF Slot
    <2>2. HasEntry(r, 0)'
      BY <1>1, <1>2 DEF HasEntry
    <2>3. \A q \in Registrar, k \in Int : HasEntry(q, k) => HasEntry(q, k)'
      BY <1>1, <2>1 DEF HasEntry
    <2>4. QED BY <1>1, <2>2, <2>3 DEF TimeCodeInv, TimeCodeTypeOK, AcceptedHaveEntry, AwaitedAhead
  <1>8. QED BY <1>3, <1>4, <1>6, <1>7 DEF TimeCodeInv

LEMMA DispatchKeepsInv ==
    ASSUME TimeCodeInv, dispatchTimeCode \/ dispatchEnd PROVE TimeCodeInv'
  BY DEF TimeCodeInv, TimeCodeTypeOK, RegistrarInside, Inside, EntriesSet, HasEntry,
         AcceptedHaveEntry, AwaitedAhead, dispatchTimeCode, dispatchEnd

(* A listener that is still ahead is either served or farther ahead. *)
LEMMA SendKeepsInv == TimeCodeInv /\ dispatchSend => TimeCodeInv'
  <1> SUFFICES ASSUME TimeCodeInv, dispatchSend PROVE TimeCodeInv'
    OBVIOUS
  <1>1. /\ dispatching \in 0 .. mNumberOfListeners - 1 /\ dispatching' = dispatching + 1
        /\ notified' = notified \cup {mListener[dispatching].of}
        /\ UNCHANGED <<mListener, mNumberOfListeners, mMutex, adding, accepted, awaited>>
    BY DEF dispatchSend
  <1>2. TimeCodeTypeOK' /\ RegistrarInside' /\ EntriesSet' /\ AcceptedHaveEntry'
    BY <1>1 DEF TimeCodeInv, TimeCodeTypeOK, RegistrarInside, Inside, EntriesSet, HasEntry,
                AcceptedHaveEntry
  <1>3. ASSUME NEW r \in awaited PROVE r \in notified' \/ HasEntry(r, dispatching)'
    <2>1. CASE r \in notified
      BY <1>1, <2>1
    <2>2. CASE HasEntry(r, dispatching)
      <3>1. PICK i \in Slot : dispatching <= i /\ i < mNumberOfListeners /\ mListener[i].of = r
        BY <2>2 DEF HasEntry
      <3>2. i = dispatching \/ dispatching + 1 <= i
        BY <1>1, <3>1, TimeCodeAssumption DEF Slot
      <3>3. QED BY <1>1, <3>1, <3>2 DEF HasEntry
    <2>3. QED BY <1>1, <2>1, <2>2 DEF TimeCodeInv, TimeCodeTypeOK, AwaitedAhead
  <1>4. AwaitedAhead'
    BY <1>1, <1>3 DEF AwaitedAhead
  <1>5. QED BY <1>2, <1>4 DEF TimeCodeInv

(* TimeCodeInv is an invariant of the dispatcher. *)
THEOREM TimeCodeInductive == TimeCodeSpec => []TimeCodeInv
  <1>1. TimeCodeInv /\ [TimeCodeNext]_timeCodeVars => TimeCodeInv'
    <2> SUFFICES ASSUME TimeCodeInv, [TimeCodeNext]_timeCodeVars PROVE TimeCodeInv'
      OBVIOUS
    <2>1. CASE \E r \in Registrar : addLock(r) \/ \E q \in TcQueue : addListener(r, q)
      BY <2>1, LockKeepsInv
    <2>2. CASE \E r \in Registrar : addStore(r) \/ addCount(r)
      BY <2>2, StoreKeepsInv, CountKeepsInv
    <2>3. CASE dispatchTimeCode \/ dispatchSend \/ dispatchEnd
      BY <2>3, DispatchKeepsInv, SendKeepsInv
    <2>4. CASE UNCHANGED timeCodeVars
      BY <2>4 DEF timeCodeVars, TimeCodeInv, TimeCodeTypeOK, RegistrarInside, Inside, EntriesSet,
                  HasEntry, AcceptedHaveEntry, AwaitedAhead
    <2>5. QED BY <2>1, <2>2, <2>3, <2>4 DEF TimeCodeNext
  <1>2. QED BY <1>1, TimeCodeInitInv, PTL DEF TimeCodeSpec

(* dispatchTimeCode() calls no listener that is not set and notifies all   *)
(* that were registered when it began.                                     *)
THEOREM ListenersAreNotified == TimeCodeSpec => []ListenersNotified
  <1>1. TimeCodeInv => ListenersNotified
    <2> SUFFICES ASSUME TimeCodeInv PROVE ListenersNotified
      OBVIOUS
    <2>1. ListenersSet
      <3>1. \A e \in Entry : e # NoQueue
        BY TimeCodeAssumption DEF Entry
      <3>2. QED BY <3>1 DEF TimeCodeInv, EntriesSet, ListenersSet
    <2>2. ASSUME dispatching >= mNumberOfListeners PROVE awaited \subseteq notified
      <3>1. dispatching # -1
        BY <2>2, TimeCodeAssumption DEF TimeCodeInv, TimeCodeTypeOK
      <3>2. \A r \in awaited : ~ HasEntry(r, dispatching)
        BY <2>2, TimeCodeAssumption DEF TimeCodeInv, TimeCodeTypeOK, HasEntry, Slot
      <3>3. QED BY <3>1, <3>2 DEF TimeCodeInv, AwaitedAhead
    <2>3. QED BY <2>1, <2>2 DEF ListenersNotified
  <1>2. QED BY <1>1, TimeCodeInductive, PTL

(* The protocol dispatcher *)

InHand == [id : Protocol, read : ReadBytes, at : Nat \ {0},
           found : BOOLEAN, dropped : BOOLEAN, taken : BOOLEAN]
QueueItem == [to : Listener, lacks : Nat]
Count == [Listener -> Nat]
DispatcherTypeOK ==
    /\ mListeners \in Seq([id : Protocol, sink : Sink, dropPartial : BOOLEAN])
    /\ Len(mListeners) <= numberOfQueues
    /\ mDefaultListener \in [sink : Sink \cup {NoSink}, dropPartial : BOOLEAN]
    /\ package \in InHand \cup {NoPackage} /\ package.at <= Len(mListeners) + 1
    /\ stat \in [Listener -> [dropped : Nat, partial : Nat, overflow : Nat]]
    /\ mNumberOfDroppedPackages \in Nat /\ mNumberOfUnmatchedPackages \in Nat
    /\ seen \in [handled : Nat, taken : Nat, addressed : Count, copies : Count]
    /\ sinkQueue \in [Sink -> Seq(QueueItem)]
    /\ sinkFree \in [Sink -> Nat] /\ sinkHeld \in [Sink -> Nat]

(* `found' and `dropped' of the code say what happened to the listeners    *)
(* that the loop has passed.                                               *)
Matches(k) == HasId(package.read) /\ mListeners[k].id = package.id
LoopState ==
    ~ Unlocked =>
    /\ package.dropped <=> ~ package.taken
    /\ package.found <=> \E k \in 1 .. package.at - 1 : Matches(k)
    /\ ~ package.found => ~ package.taken
    /\ ~ HasId(package.read) => package.at = Len(mListeners) + 1

(* The accounts, with the package in hand: it is in no queue and not yet   *)
(* dropped, and the listeners ahead are owed a copy.                       *)
Open == IF Unlocked \/ package.taken THEN 0 ELSE 1
Owed(l) == /\ ~ Unlocked
           /\ l \in Addressed(package.id, package.read)
           /\ l = 0 \/ l >= package.at
PackageCount ==
    /\ seen.handled = (seen.taken + mNumberOfDroppedPackages) + Open
    /\ mNumberOfUnmatchedPackages <= mNumberOfDroppedPackages
ListenerCount ==
    \A l \in Listener : seen.addressed[l] = (seen.copies[l] + stat[l].dropped)
                                            + IF Owed(l) THEN 1 ELSE 0

(* Nothing is counted or queued for a listener that is not registered. *)
Registered(l) == IF l = 0 THEN mDefaultListener.sink # NoSink ELSE l \in 1 .. Len(mListeners)
ItemsKnown ==
    /\ \A s \in Sink : \A k \in 1 .. Len(sinkQueue[s]) : Registered(sinkQueue[s][k].to)
    /\ ~ Registered(0) => stat[0].dropped = 0

SinksOK == SinkBuffersReturn /\ ItemsKnown /\ NoPartialForStrict
DispatcherInv ==
    DispatcherTypeOK /\ LoopState /\ PackageCount /\ ListenerCount /\ SinksOK

LEMMA MissingIsNat == ASSUME NEW read \in ReadBytes PROVE Missing(read) \in Nat
<1>1. read \in Nat /\ BufferLength \in Nat /\ PackageLength \in Nat
  BY DispatcherAssumption
<1> QED BY <1>1 DEF Missing, min

LEMMA DispatcherInitInv == DispatcherInit => DispatcherInv
<1> SUFFICES ASSUME DispatcherInit PROVE DispatcherInv
  OBVIOUS
<1>0. PoolSize \in Nat /\ numberOfQueues \in Nat
  BY DispatcherAssumption
<1>1. Unlocked
  BY DEF DispatcherInit, NoPackage, Unlocked
<1>2. DispatcherTypeOK
  <2>1. stat \in [Listener -> [dropped : Nat, partial : Nat, overflow : Nat]]
    BY DEF DispatcherInit, NoStat
  <2>2. seen \in [handled : Nat, taken : Nat, addressed : Count, copies : Count]
    BY DEF DispatcherInit, NothingSeen, Count
  <2>3. mListeners \in Seq([id : Protocol, sink : Sink, dropPartial : BOOLEAN])
        /\ Len(mListeners) <= numberOfQueues /\ sinkQueue \in [Sink -> Seq(QueueItem)]
    BY <1>0 DEF DispatcherInit
  <2>4. mDefaultListener \in [sink : Sink \cup {NoSink}, dropPartial : BOOLEAN]
    BY DEF DispatcherInit
  <2>5. sinkFree \in [Sink -> Nat] /\ sinkHeld \in [Sink -> Nat]
    BY <1>0 DEF DispatcherInit
  <2>6. package \in InHand \cup {NoPackage} /\ package.at <= Len(mListeners) + 1
        /\ mNumberOfDroppedPackages \in Nat /\ mNumberOfUnmatchedPackages \in Nat
    BY DEF DispatcherInit, NoPackage
  <2> QED BY <2>1, <2>2, <2>3, <2>4, <2>5, <2>6 DEF DispatcherTypeOK
<1>3. LoopState /\ PackageCount /\ ListenerCount
  BY <1>0, <1>1 DEF DispatcherInit, LoopState, PackageCount, ListenerCount, NoStat, NothingSeen,
     Open, Owed
<1>4. SinksOK
  <2>1. 0 \in Listener
    BY <1>0 DEF Listener
  <2>2. stat[0].dropped = 0 /\ \A s \in Sink : Len(sinkQueue[s]) = 0 /\ sinkFree[s] = PoolSize
                                              /\ sinkHeld[s] = 0
    BY <2>1 DEF DispatcherInit, NoStat
  <2> QED BY <1>0, <2>2 DEF SinksOK, SinkBuffersReturn, ItemsKnown, NoPartialForStrict
<1> QED BY <1>2, <1>3, <1>4 DEF DispatcherInv

(* What insertIntoQueue() does to the sinks and to the accounts. *)
LEMMA SentKeeps ==
    ASSUME DispatcherTypeOK, SinksOK, NEW l \in Listener, NEW read \in ReadBytes,
           Registered(l), To(l).sink \in Sink, Inserted(To(l), read), Sent(l, To(l), read),
           UNCHANGED <<mListeners, mDefaultListener, sinkHeld>>
    PROVE  /\ sinkQueue' \in [Sink -> Seq(QueueItem)] /\ sinkFree' \in [Sink -> Nat]
           /\ SinksOK'
           /\ stat' \in [Listener -> [dropped : Nat, partial : Nat, overflow : Nat]]
           /\ \A k \in Listener : stat'[k].dropped = stat[k].dropped
           /\ seen' = [seen EXCEPT !.copies[l] = @ + 1,
                            !.taken = @ + IF package.taken THEN 0 ELSE 1]
<1> DEFINE s == To(l).sink
           q == sinkQueue[s]
           item == [to |-> l, lacks |-> Missing(read)]
<1>0. PoolSize \in Nat /\ Missing(read) \in Nat /\ 0 \in Listener
  BY MissingIsNat, DispatcherAssumption DEF Listener
<1>1. q \in Seq(QueueItem) /\ sinkFree[s] \in Nat /\ sinkFree[s] > 0 /\ item \in QueueItem
      /\ sinkQueue \in [Sink -> Seq(QueueItem)] /\ sinkFree \in [Sink -> Nat]
      /\ sinkHeld \in [Sink -> Nat]
  BY <1>0 DEF DispatcherTypeOK, Inserted, QueueItem
<1>2. sinkQueue' = [sinkQueue EXCEPT ![s] = Append(q, item)]
      /\ sinkFree' = [sinkFree EXCEPT ![s] = sinkFree[s] - 1] /\ sinkHeld' = sinkHeld
      /\ mListeners' = mListeners /\ mDefaultListener' = mDefaultListener
  BY DEF Sent
<1> DEFINE r == Append(q, item)
<1>r. r \in Seq(QueueItem) /\ Len(r) = Len(q) + 1 /\ r[Len(q) + 1] = item /\ Len(q) \in Nat
      /\ \A k \in 1 .. Len(q) : r[k] = q[k]
  BY <1>1
<1>q. sinkQueue'[s] = r /\ sinkFree'[s] = sinkFree[s] - 1
      /\ \A t \in Sink : t # s => sinkQueue'[t] = sinkQueue[t] /\ sinkFree'[t] = sinkFree[t]
  BY <1>1, <1>2
<1>3. sinkQueue' \in [Sink -> Seq(QueueItem)] /\ sinkFree' \in [Sink -> Nat]
  BY <1>1, <1>2, <1>r
<1>4. SinkBuffersReturn'
  <2> SUFFICES ASSUME NEW t \in Sink
               PROVE  (sinkFree'[t] + Len(sinkQueue'[t])) + sinkHeld[t] = PoolSize
    BY <1>2 DEF SinkBuffersReturn
  <2>1. (sinkFree[t] + Len(sinkQueue[t])) + sinkHeld[t] = PoolSize
    BY DEF SinksOK, SinkBuffersReturn
  <2>2. CASE t = s
    <3> DEFINE n == Len(q)
               f == sinkFree[s]
               h == sinkHeld[s]
    <3>1. sinkFree'[t] = f - 1 /\ Len(sinkQueue'[t]) = n + 1 /\ sinkHeld[t] = h
      BY <1>r, <1>q, <2>2
    <3>2. (f + n) + h = PoolSize /\ n \in Nat /\ f \in Nat /\ h \in Nat
      BY <1>1, <1>r, <2>1, <2>2
    <3> HIDE DEF n, f, h
    <3> QED BY <3>1, <3>2
  <2>3. CASE t # s
    BY <1>q, <2>1, <2>3
  <2> QED BY <2>2, <2>3
<1>5. stat' \in [Listener -> [dropped : Nat, partial : Nat, overflow : Nat]]
      /\ \A k \in Listener : stat'[k].dropped = stat[k].dropped
  <2>1. CASE Missing(read) = 0
    BY <2>1 DEF Sent, DispatcherTypeOK
  <2>2. CASE Missing(read) # 0
    <3>1. stat' = [stat EXCEPT ![l].partial = @ + 1, ![l].overflow = @ + Missing(read)]
      BY <2>2 DEF Sent
    <3>2. stat \in [Listener -> [dropped : Nat, partial : Nat, overflow : Nat]]
      BY DEF DispatcherTypeOK
    <3>3. stat[l] \in [dropped : Nat, partial : Nat, overflow : Nat]
      BY <3>2
    <3> DEFINE c == [stat[l] EXCEPT !.partial = @ + 1, !.overflow = @ + Missing(read)]
    <3>4. c \in [dropped : Nat, partial : Nat, overflow : Nat] /\ c.dropped = stat[l].dropped
      <4>1. stat[l].partial + 1 \in Nat /\ stat[l].overflow + Missing(read) \in Nat
        BY <1>0, <3>3
      <4>2. c = [stat[l] EXCEPT !.partial = stat[l].partial + 1,
                                !.overflow = stat[l].overflow + Missing(read)]
        OBVIOUS
      <4> QED BY <3>3, <4>1, <4>2
    <3>5. stat' = [stat EXCEPT ![l] = c]
      BY <3>1, <3>2, <3>3
    <3> HIDE DEF c
    <3> QED BY <3>2, <3>4, <3>5
  <2> QED BY <2>1, <2>2
<1>6. \A t \in Sink : \A k \in 1 .. Len(sinkQueue'[t]) :
         \/ k \in 1 .. Len(sinkQueue[t]) /\ sinkQueue'[t][k] = sinkQueue[t][k]
         \/ t = s /\ sinkQueue'[t][k] = item
  <2> SUFFICES ASSUME NEW t \in Sink, NEW k \in 1 .. Len(sinkQueue'[t])
               PROVE  \/ k \in 1 .. Len(sinkQueue[t]) /\ sinkQueue'[t][k] = sinkQueue[t][k]
                      \/ t = s /\ sinkQueue'[t][k] = item
    OBVIOUS
  <2>1. CASE t = s
    <3> HIDE DEF r, q, item
    <3>1. k \in 1 .. Len(q) \/ k = Len(q) + 1
      BY <1>r, <1>q, <2>1
    <3>2. sinkQueue[t] = q
      BY <2>1 DEF q
    <3> QED BY <1>r, <1>q, <2>1, <3>1, <3>2
  <2>2. CASE t # s
    BY <1>q, <2>2
  <2> QED BY <2>1, <2>2
<1>7. ItemsKnown'
  <2>1. \A k : Registered(k)' <=> Registered(k)
    BY <1>2 DEF Registered
  <2>2. ASSUME NEW t \in Sink, NEW k \in 1 .. Len(sinkQueue'[t])
        PROVE  Registered(sinkQueue'[t][k].to)
    <3>1. item.to = l
      OBVIOUS
    <3> HIDE DEF item
    <3> QED BY <1>6, <3>1 DEF SinksOK, ItemsKnown
  <2>3. ~ Registered(0) => stat'[0].dropped = 0
    BY <1>0, <1>5 DEF SinksOK, ItemsKnown
  <2>4. Registered(0)' <=> Registered(0)
    BY <1>2 DEF Registered
  <2>5. SUFFICES ASSUME NEW t \in Sink, NEW k \in 1 .. Len(sinkQueue'[t])
                 PROVE  Registered(sinkQueue[t][k].to)'
    BY <2>3, <2>4 DEF ItemsKnown
  <2> QED BY <1>2, <2>2, <2>5 DEF Registered
<1>8. NoPartialForStrict'
  <2>1. item.lacks > 0 => ~ To(item.to).dropPartial
    BY <1>0 DEF Inserted, Acceptable
  <2>2. \A k : To(k)' = To(k)
    BY <1>2 DEF To
  <2>3. SUFFICES ASSUME NEW t \in Sink, NEW k \in 1 .. Len(sinkQueue'[t]),
                        sinkQueue'[t][k].lacks > 0
                 PROVE  ~ To(sinkQueue'[t][k].to).dropPartial
    BY <1>2 DEF NoPartialForStrict, To
  <2> QED BY <1>6, <2>1, <2>3 DEF SinksOK, NoPartialForStrict
<1> QED BY <1>3, <1>4, <1>5, <1>7, <1>8 DEF SinksOK, Sent

LEMMA NotSentKeeps ==
    ASSUME DispatcherTypeOK, SinksOK, NEW l \in Listener, Registered(l), NotSent(l),
           UNCHANGED <<mListeners, mDefaultListener, sinkHeld>>
    PROVE  /\ sinkQueue' \in [Sink -> Seq(QueueItem)] /\ sinkFree' \in [Sink -> Nat]
           /\ SinksOK'
           /\ stat' \in [Listener -> [dropped : Nat, partial : Nat, overflow : Nat]]
           /\ \A k \in Listener : stat'[k].dropped = stat[k].dropped + IF k = l THEN 1 ELSE 0
           /\ seen' = seen
<1>0. 0 \in Listener
  BY DispatcherAssumption DEF Listener
<1>1. stat' = [stat EXCEPT ![l].dropped = @ + 1] /\ sinkQueue' = sinkQueue
      /\ sinkFree' = sinkFree /\ seen' = seen /\ sinkHeld' = sinkHeld
      /\ mListeners' = mListeners /\ mDefaultListener' = mDefaultListener
  BY DEF NotSent
<1>2. stat \in [Listener -> [dropped : Nat, partial : Nat, overflow : Nat]]
  BY DEF DispatcherTypeOK
<1>3. stat' \in [Listener -> [dropped : Nat, partial : Nat, overflow : Nat]]
      /\ \A k \in Listener : stat'[k].dropped = stat[k].dropped + IF k = l THEN 1 ELSE 0
  BY <1>1, <1>2
<1>4. ~ Registered(0)' => stat'[0].dropped = 0
  <2> SUFFICES ASSUME ~ Registered(0) PROVE stat'[0].dropped = 0
    BY <1>1 DEF Registered
  <2>1. l # 0
    OBVIOUS
  <2> QED BY <1>0, <1>1, <1>2, <2>1 DEF SinksOK, ItemsKnown
<1>5. SinksOK'
  BY <1>1, <1>4 DEF SinksOK, SinkBuffersReturn, ItemsKnown, NoPartialForStrict, Registered, To
<1> QED BY <1>1, <1>3, <1>5 DEF DispatcherTypeOK

(* Nothing but the listeners changes, and nobody has the mutex. *)
LEMMA RegisterKeeps ==
    ASSUME DispatcherInv, Unlocked,
           NEW s \in Sink, NEW dropPartial \in BOOLEAN,
           \/ setDefaultQueue(s, dropPartial)
           \/ \E id \in Protocol : addQueue(id, s, dropPartial)
    PROVE  DispatcherInv'
<1>0. /\ 0 \in Listener /\ NoSink \notin Sink
      /\ mListeners \in Seq([id : Protocol, sink : Sink, dropPartial : BOOLEAN])
      /\ stat \in [Listener -> [dropped : Nat, partial : Nat, overflow : Nat]]
      /\ package \in InHand \cup {NoPackage}
  BY DispatcherAssumption DEF Listener, DispatcherInv, DispatcherTypeOK
<1>1. /\ mNumberOfDroppedPackages' = mNumberOfDroppedPackages
      /\ mNumberOfUnmatchedPackages' = mNumberOfUnmatchedPackages
      /\ sinkQueue' = sinkQueue /\ sinkFree' = sinkFree /\ sinkHeld' = sinkHeld
      /\ package' = package /\ seen' = seen
  BY DEF setDefaultQueue, addQueue
<1>2. package = NoPackage /\ package.at = 0
  BY <1>0 DEF Unlocked, InHand
<1>3. CASE setDefaultQueue(s, dropPartial)
  <2>1. /\ mDefaultListener.sink = NoSink /\ mListeners' = mListeners
        /\ mDefaultListener' = [sink |-> s, dropPartial |-> dropPartial]
        /\ stat' = [stat EXCEPT ![0] = [dropped |-> 0, partial |-> 0, overflow |-> 0]]
    BY <1>0, <1>3 DEF setDefaultQueue, NoStat
  <2>2. stat[0].dropped = 0 /\ \A t \in Sink : \A k \in 1 .. Len(sinkQueue[t]) : sinkQueue[t][k].to # 0
    BY <2>1 DEF DispatcherInv, SinksOK, ItemsKnown, Registered
  <2>3. /\ stat' \in [Listener -> [dropped : Nat, partial : Nat, overflow : Nat]]
        /\ \A k \in Listener : stat'[k].dropped = stat[k].dropped
    BY <1>0, <2>1, <2>2
  <2>4. mDefaultListener' \in [sink : Sink \cup {NoSink}, dropPartial : BOOLEAN]
    BY <2>1
  <2>5. DispatcherTypeOK'
    BY <1>1, <2>1, <2>3, <2>4 DEF DispatcherInv, DispatcherTypeOK
  <2>6. LoopState' /\ PackageCount'
    BY <1>1, <1>2 DEF DispatcherInv, LoopState, PackageCount, Unlocked, Open
  <2>7. ListenerCount'
    BY <1>1, <1>2, <2>3 DEF DispatcherInv, ListenerCount, Unlocked, Owed
  <2>8. SinkBuffersReturn' /\ NoPartialForStrict'
    BY <1>1, <2>1, <2>2 DEF DispatcherInv, SinksOK, SinkBuffersReturn, NoPartialForStrict, To
  <2>9. ItemsKnown'
    BY <1>0, <1>1, <2>1, <2>2, <2>3 DEF DispatcherInv, SinksOK, ItemsKnown, Registered
  <2> QED BY <2>5, <2>6, <2>7, <2>8, <2>9 DEF DispatcherInv, SinksOK
<1>4. CASE \E id \in Protocol : addQueue(id, s, dropPartial)
  <2>1. PICK id \in Protocol : addQueue(id, s, dropPartial)
    BY <1>4
  <2> DEFINE new == [id |-> id, sink |-> s, dropPartial |-> dropPartial]
             n == Len(mListeners)
  <2>2. /\ n < numberOfQueues /\ stat' = stat /\ mDefaultListener' = mDefaultListener
        /\ mListeners' = Append(mListeners, new)
    BY <2>1 DEF addQueue
  <2>3. new \in [id : Protocol, sink : Sink, dropPartial : BOOLEAN]
    OBVIOUS
  <2>4. numberOfQueues \in Nat /\ n \in Nat
    BY <1>0, DispatcherAssumption
  <2>5. /\ mListeners' \in Seq([id : Protocol, sink : Sink, dropPartial : BOOLEAN])
        /\ Len(mListeners') = n + 1 /\ \A k \in 1 .. n : mListeners'[k] = mListeners[k]
    <3> HIDE DEF new
    <3> QED BY <1>0, <2>2, <2>3
  <2>6. DispatcherTypeOK'
    <3>1. Len(mListeners') <= numberOfQueues /\ package'.at <= Len(mListeners') + 1
      <4> HIDE DEF n
      <4> QED BY <1>1, <1>2, <2>2, <2>4, <2>5
    <3> QED BY <1>1, <2>2, <2>5, <3>1 DEF DispatcherInv, DispatcherTypeOK
  <2>7. LoopState' /\ PackageCount' /\ ListenerCount'
    BY <1>1, <1>2, <2>2 DEF DispatcherInv, LoopState, PackageCount, Unlocked, Open,
       ListenerCount, Owed
  <2>8. SinkBuffersReturn'
    BY <1>1 DEF DispatcherInv, SinksOK, SinkBuffersReturn
  <2>9. ItemsKnown' /\ NoPartialForStrict'
    <3>1. ASSUME NEW t \in Sink, NEW k \in 1 .. Len(sinkQueue[t])
          PROVE  /\ Registered(sinkQueue[t][k].to)'
                 /\ sinkQueue'[t][k].lacks > 0 => ~ To(sinkQueue[t][k].to)'.dropPartial
      <4> DEFINE i == sinkQueue[t][k]
      <4>1. i = sinkQueue'[t][k] /\ Registered(i.to) /\ (i.lacks > 0 => ~ To(i.to).dropPartial)
        BY <1>1 DEF DispatcherInv, SinksOK, ItemsKnown, NoPartialForStrict
      <4>2. Registered(i.to)'
        BY <1>1, <2>2, <2>4, <2>5, <4>1 DEF Registered
      <4>3. To(i.to)' = To(i.to)
        BY <1>1, <2>2, <2>4, <2>5, <4>1 DEF Registered, To
      <4> QED BY <4>1, <4>2, <4>3
    <3>2. ~ Registered(0)' => stat'[0].dropped = 0
      BY <2>2 DEF DispatcherInv, SinksOK, ItemsKnown, Registered
    <3>3. ItemsKnown'
      BY <1>1, <3>1, <3>2 DEF ItemsKnown
    <3>4. NoPartialForStrict'
      BY <1>1, <3>1 DEF NoPartialForStrict
    <3> QED BY <3>3, <3>4
  <2> QED BY <2>6, <2>7, <2>8, <2>9 DEF DispatcherInv, SinksOK
<1> QED BY <1>3, <1>4

LEMMA ReaderKeeps ==
    ASSUME DispatcherInv, NEW s \in Sink, sinkTake(s) \/ sinkRelease(s) PROVE DispatcherInv'
<1>1. /\ mListeners' = mListeners /\ mDefaultListener' = mDefaultListener /\ stat' = stat
      /\ mNumberOfDroppedPackages' = mNumberOfDroppedPackages
      /\ mNumberOfUnmatchedPackages' = mNumberOfUnmatchedPackages
      /\ package' = package /\ seen' = seen
  BY DEF sinkTake, sinkRelease
<1>2. LoopState' /\ PackageCount'
  BY <1>1 DEF DispatcherInv, LoopState, PackageCount, Unlocked, Matches, Open, HasId
<1>3. ListenerCount'
  BY <1>1 DEF DispatcherInv, ListenerCount, Owed, Unlocked, Addressed
<1>4. /\ sinkQueue \in [Sink -> Seq(QueueItem)] /\ sinkFree \in [Sink -> Nat]
      /\ sinkHeld \in [Sink -> Nat] /\ PoolSize \in Nat
  BY DispatcherAssumption DEF DispatcherInv, DispatcherTypeOK
<1> DEFINE q == sinkQueue[s]
           n == Len(sinkQueue[s])
           f == sinkFree[s]
           h == sinkHeld[s]
<1>5. q \in Seq(QueueItem) /\ n \in Nat /\ f \in Nat /\ h \in Nat /\ (f + n) + h = PoolSize
  BY <1>4 DEF DispatcherInv, SinksOK, SinkBuffersReturn
<1>6. CASE sinkTake(s)
  <2>1. /\ q # << >> /\ sinkQueue' = [sinkQueue EXCEPT ![s] = Tail(q)]
        /\ sinkHeld' = [sinkHeld EXCEPT ![s] = h + 1] /\ sinkFree' = sinkFree
    BY <1>6 DEF sinkTake
  <2>2. Tail(q) \in Seq(QueueItem) /\ Len(Tail(q)) = n - 1
        /\ \A k \in 1 .. n - 1 : Tail(q)[k] = q[k + 1] /\ k + 1 \in 1 .. n
    BY <1>5, <2>1
  <2>3. sinkQueue' \in [Sink -> Seq(QueueItem)] /\ sinkHeld' \in [Sink -> Nat]
        /\ sinkQueue'[s] = Tail(q) /\ sinkHeld'[s] = h + 1 /\ sinkFree'[s] = f
        /\ \A t \in Sink : t # s => sinkQueue'[t] = sinkQueue[t] /\ sinkHeld'[t] = sinkHeld[t]
    BY <1>4, <1>5, <2>1, <2>2
  <2>4. DispatcherTypeOK'
    BY <1>1, <2>1, <2>3 DEF DispatcherInv, DispatcherTypeOK
  <2>5. SinkBuffersReturn'
    <3>1. (sinkFree'[s] + Len(sinkQueue'[s])) + sinkHeld'[s] = PoolSize
      <4>1. Len(sinkQueue'[s]) = n - 1 /\ sinkFree'[s] = f /\ sinkHeld'[s] = h + 1
        BY <2>2, <2>3
      <4>2. (f + (n - 1)) + (h + 1) = PoolSize
        <5> HIDE DEF n, f, h
        <5> QED BY <1>5
      <4> QED BY <4>1, <4>2
    <3>2. ASSUME NEW t \in Sink, t # s
          PROVE  (sinkFree'[t] + Len(sinkQueue'[t])) + sinkHeld'[t] = PoolSize
      BY <2>1, <2>3, <3>2 DEF DispatcherInv, SinksOK, SinkBuffersReturn
    <3> QED BY <3>1, <3>2 DEF SinkBuffersReturn
  <2>6. \A t \in Sink : \A k \in 1 .. Len(sinkQueue'[t]) :
          \E j \in 1 .. Len(sinkQueue[t]) : sinkQueue'[t][k] = sinkQueue[t][j]
    <3>1. ASSUME NEW k \in 1 .. Len(sinkQueue'[s])
          PROVE  \E j \in 1 .. Len(sinkQueue[s]) : sinkQueue'[s][k] = sinkQueue[s][j]
      BY <2>2, <2>3
    <3> QED BY <2>3, <3>1, ZenonT(60)
  <2>7. ItemsKnown'
    BY <1>1, <2>6 DEF DispatcherInv, SinksOK, ItemsKnown, Registered
  <2>8. NoPartialForStrict'
    <3>1. mDefaultListener' = mDefaultListener /\ mListeners' = mListeners
      BY <1>1
    <3>2. NoPartialForStrict
      BY DEF DispatcherInv, SinksOK
    <3> SUFFICES ASSUME NEW t \in Sink, NEW k \in 1 .. Len(sinkQueue'[t]),
                        sinkQueue'[t][k].lacks > 0
                 PROVE  (~ To(sinkQueue[t][k].to).dropPartial)'
      BY DEF NoPartialForStrict
    <3>3. PICK j \in 1 .. Len(sinkQueue[t]) : sinkQueue'[t][k] = sinkQueue[t][j]
      BY <2>6
    <3>4. ~ To(sinkQueue[t][j].to).dropPartial
      BY <3>2, <3>3, Zenon DEF NoPartialForStrict
    <3> QED BY <3>1, <3>3, <3>4, Zenon DEF To
  <2> QED BY <1>2, <1>3, <2>4, <2>5, <2>7, <2>8 DEF DispatcherInv, SinksOK
<1>7. CASE sinkRelease(s)
  <2>1. /\ h > 0 /\ sinkQueue' = sinkQueue
        /\ sinkHeld' = [sinkHeld EXCEPT ![s] = h - 1]
        /\ sinkFree' = [sinkFree EXCEPT ![s] = f + 1]
    BY <1>7 DEF sinkRelease
  <2>2. sinkFree' \in [Sink -> Nat] /\ sinkHeld' \in [Sink -> Nat]
        /\ sinkHeld'[s] = h - 1 /\ sinkFree'[s] = f + 1
        /\ \A t \in Sink : t # s => sinkFree'[t] = sinkFree[t] /\ sinkHeld'[t] = sinkHeld[t]
    BY <1>4, <1>5, <2>1
  <2>3. DispatcherTypeOK'
    BY <1>1, <2>1, <2>2 DEF DispatcherInv, DispatcherTypeOK
  <2>4. SinkBuffersReturn'
    <3>1. (sinkFree'[s] + Len(sinkQueue'[s])) + sinkHeld'[s] = PoolSize
      <4>1. Len(sinkQueue'[s]) = n /\ sinkFree'[s] = f + 1 /\ sinkHeld'[s] = h - 1
        BY <2>1, <2>2
      <4>2. ((f + 1) + n) + (h - 1) = PoolSize
        <5> HIDE DEF n, f, h
        <5> QED BY <1>5
      <4> QED BY <4>1, <4>2
    <3>2. ASSUME NEW t \in Sink, t # s
          PROVE  (sinkFree'[t] + Len(sinkQueue'[t])) + sinkHeld'[t] = PoolSize
      BY <2>1, <2>2, <3>2 DEF DispatcherInv, SinksOK, SinkBuffersReturn
    <3> QED BY <3>1, <3>2 DEF SinkBuffersReturn
  <2>5. ItemsKnown' /\ NoPartialForStrict'
    BY <1>1, <2>1 DEF DispatcherInv, SinksOK, ItemsKnown, NoPartialForStrict, Registered, To
  <2> QED BY <1>2, <1>3, <2>3, <2>4, <2>5 DEF DispatcherInv, SinksOK
<1> QED BY <1>6, <1>7

(* The two accounts start from zero, while nobody has the mutex. *)
LEMMA ResetKeeps ==
    ASSUME DispatcherInv, resetErrorCounters PROVE DispatcherInv'
<1>0. 0 \in Listener
  BY DispatcherAssumption DEF Listener
<1>1. /\ mListeners' = mListeners /\ mDefaultListener' = mDefaultListener
      /\ sinkQueue' = sinkQueue /\ sinkFree' = sinkFree /\ sinkHeld' = sinkHeld
      /\ package' = package /\ package.at = 0 /\ stat' = NoStat /\ seen' = NothingSeen
      /\ mNumberOfDroppedPackages' = 0 /\ mNumberOfUnmatchedPackages' = 0
  BY DEF resetErrorCounters, Unlocked
<1>2. /\ NoStat \in [Listener -> [dropped : Nat, partial : Nat, overflow : Nat]]
      /\ NothingSeen \in [handled : Nat, taken : Nat, addressed : Count, copies : Count]
      /\ \A l \in Listener : NoStat[l].dropped = 0
  BY DEF NoStat, NothingSeen, Count
<1>3. DispatcherTypeOK'
  BY <1>1, <1>2 DEF DispatcherInv, DispatcherTypeOK
<1>4. LoopState' /\ PackageCount'
  BY <1>1 DEF LoopState, PackageCount, Unlocked, Open, NothingSeen
<1>5. ListenerCount'
  BY <1>1, <1>2 DEF ListenerCount, Unlocked, Owed, NothingSeen
<1>6. SinksOK'
  BY <1>0, <1>1, <1>2 DEF DispatcherInv, SinksOK, SinkBuffersReturn, ItemsKnown,
     NoPartialForStrict, Registered, To
<1> QED BY <1>3, <1>4, <1>5, <1>6 DEF DispatcherInv

LEMMA HandleKeeps ==
    ASSUME DispatcherInv, NEW id \in Protocol, NEW read \in ReadBytes, handlePackage(id, read)
    PROVE  DispatcherInv'
<1> DEFINE n == Len(mListeners)
           at == IF HasId(read) THEN 1 ELSE n + 1
           N == package'
<1>0. n \in Nat /\ package.at = 0
  BY DEF DispatcherInv, DispatcherTypeOK, handlePackage, Unlocked
<1>1. /\ mListeners' = mListeners /\ mDefaultListener' = mDefaultListener /\ stat' = stat
      /\ mNumberOfDroppedPackages' = mNumberOfDroppedPackages
      /\ mNumberOfUnmatchedPackages' = mNumberOfUnmatchedPackages
      /\ sinkQueue' = sinkQueue /\ sinkFree' = sinkFree /\ sinkHeld' = sinkHeld
  BY DEF handlePackage
<1>2. N = Received(id, read, at)
  BY DEF handlePackage
<1>3. /\ N.id = id /\ N.read = read /\ N.at = at /\ N.found = FALSE /\ N.dropped = TRUE
      /\ N.taken = FALSE /\ at \in Nat \ {0} /\ at <= n + 1 /\ N \in InHand
  <2>1. at \in Nat \ {0} /\ at <= n + 1
    <3> HIDE DEF n
    <3> QED BY <1>0
  <2> HIDE DEF at
  <2> QED BY <1>2, <2>1 DEF Received, InHand
<1>4. seen \in [handled : Nat, taken : Nat, addressed : Count, copies : Count]
  BY DEF DispatcherInv, DispatcherTypeOK
<1>5. /\ seen'.handled = seen.handled + 1 /\ seen'.taken = seen.taken
      /\ seen'.copies = seen.copies
      /\ seen'.addressed = [l \in Listener |->
           seen.addressed[l] + IF l \in Addressed(id, read) THEN 1 ELSE 0]
      /\ seen' \in [handled : Nat, taken : Nat, addressed : Count, copies : Count]
  <2> DEFINE A == [l \in Listener |->
                     seen.addressed[l] + IF l \in Addressed(id, read) THEN 1 ELSE 0]
  <2>1. A \in Count
    BY <1>4 DEF Count
  <2>2. seen' = [seen EXCEPT !.handled = @ + 1, !.addressed = A]
    BY DEF handlePackage
  <2> HIDE DEF A
  <2>0. seen.handled + 1 \in Nat
    BY <1>4
  <2>h. seen' = [seen EXCEPT !.handled = seen.handled + 1, !.addressed = A]
    BY <2>2
  <2>3. /\ seen'.handled = seen.handled + 1 /\ seen'.taken = seen.taken
        /\ seen'.copies = seen.copies /\ seen'.addressed = A
        /\ seen' \in [handled : Nat, taken : Nat, addressed : Count, copies : Count]
    BY <1>4, <2>0, <2>1, <2>h
  <2> QED BY <2>3 DEF A
<1>6. DispatcherTypeOK'
  <2>1. package' \in InHand \cup {NoPackage} /\ package'.at <= Len(mListeners') + 1
    BY <1>1, <1>3
  <2> HIDE DEF at, n, N
  <2> QED BY <1>1, <1>5, <2>1 DEF DispatcherInv, DispatcherTypeOK
<1>7. SinksOK'
  BY <1>1 DEF DispatcherInv, SinksOK, SinkBuffersReturn, ItemsKnown,
     NoPartialForStrict, Registered, To
<1>8. LoopState'
  <2>1. ~ \E k \in 1 .. at - 1 : HasId(read) /\ mListeners[k].id = id
    BY <1>0
  <2>2. ~ HasId(read) => at = n + 1
    OBVIOUS
  <2> HIDE DEF at
  <2>3. (\E k \in 1 .. package.at - 1 : Matches(k))' <=> \E k \in 1 .. at - 1 : HasId(read) /\ mListeners[k].id = id
    <3>1. \A k : Matches(k)' <=> HasId(read) /\ mListeners[k].id = id
      BY <1>1, <1>3, Zenon DEF Matches, HasId
    <3>2. package'.at = at
      BY <1>3
    <3> QED BY <3>1, <3>2
  <2>4. HasId(package.read)' <=> HasId(read)
    BY <1>3 DEF HasId
  <2>5. package'.at = at /\ package'.found = FALSE /\ package'.dropped = TRUE /\ package'.taken = FALSE
        /\ Len(mListeners') = n
    BY <1>1, <1>3
  <2> QED BY <2>1, <2>2, <2>3, <2>4, <2>5 DEF LoopState
<1>9. PackageCount'
  <2>1. Open = 0 /\ Open' = 1
    BY <1>0, <1>3 DEF Open, Unlocked
  <2> QED BY <1>1, <1>4, <1>5, <2>1 DEF DispatcherInv, PackageCount, DispatcherTypeOK
<1>10. ListenerCount'
  <2> SUFFICES ASSUME NEW l \in Listener
               PROVE  seen'.addressed[l] = (seen'.copies[l] + stat'[l].dropped)
                                           + IF Owed(l)' THEN 1 ELSE 0
    BY DEF ListenerCount
  <2>1. ~ Owed(l)
    BY <1>0 DEF Owed, Unlocked
  <2>2. Owed(l)' <=> l \in Addressed(id, read)
    <3>1. Addressed(package.id, package.read)' = Addressed(id, read)
      BY <1>1, <1>3 DEF Addressed, HasId
    <3>2. l \in Addressed(id, read) => l = 0 \/ l >= at
      BY <1>0 DEF Addressed
    <3> QED BY <1>3, <3>1, <3>2 DEF Owed, Unlocked
  <2>3. seen.addressed[l] = (seen.copies[l] + stat[l].dropped) + 0
    BY <2>1 DEF DispatcherInv, ListenerCount
  <2>4. seen.copies[l] \in Nat /\ stat[l].dropped \in Nat
    BY <1>4 DEF DispatcherInv, DispatcherTypeOK, Count
  <2>5. seen'.addressed[l] = seen.addressed[l] + IF l \in Addressed(id, read) THEN 1 ELSE 0
    BY <1>5
  <2> QED BY <1>1, <1>5, <2>2, <2>3, <2>4, <2>5
<1> QED BY <1>6, <1>7, <1>8, <1>9, <1>10 DEF DispatcherInv

(* insertIntoQueue(), both ways: l's account is settled. *)
LEMMA InsertKeeps ==
    ASSUME DispatcherInv, ~ Unlocked, NEW l \in Listener, Registered(l), To(l).sink \in Sink,
           insertIntoQueue(l, To(l), package.read),
           UNCHANGED <<mListeners, mDefaultListener, sinkHeld>>
    PROVE  /\ sinkQueue' \in [Sink -> Seq(QueueItem)] /\ sinkFree' \in [Sink -> Nat]
           /\ SinksOK'
           /\ stat' \in [Listener -> [dropped : Nat, partial : Nat, overflow : Nat]]
           /\ seen' \in [handled : Nat, taken : Nat, addressed : Count, copies : Count]
           /\ seen'.handled = seen.handled /\ seen'.addressed = seen.addressed
           /\ seen'.taken = seen.taken + IF Inserted(To(l), package.read) /\ ~ package.taken
                                         THEN 1 ELSE 0
           /\ \A k \in Listener : seen'.copies[k] + stat'[k].dropped
                                  = (seen.copies[k] + stat[k].dropped) + IF k = l THEN 1 ELSE 0
<1>0. /\ DispatcherTypeOK /\ SinksOK /\ package.read \in ReadBytes
      /\ seen \in [handled : Nat, taken : Nat, addressed : Count, copies : Count]
      /\ stat \in [Listener -> [dropped : Nat, partial : Nat, overflow : Nat]]
  <2>1. DispatcherTypeOK /\ SinksOK
    BY DEF DispatcherInv
  <2>2. package \in InHand
    BY <2>1 DEF DispatcherTypeOK, Unlocked, NoPackage
  <2> QED BY <2>1, <2>2 DEF DispatcherTypeOK, InHand
<1>1. CASE Inserted(To(l), package.read) /\ Sent(l, To(l), package.read)
  <2> DEFINE C == [seen.copies EXCEPT ![l] = seen.copies[l] + 1]
             T == seen.taken + IF package.taken THEN 0 ELSE 1
  <2>1. /\ sinkQueue' \in [Sink -> Seq(QueueItem)] /\ sinkFree' \in [Sink -> Nat] /\ SinksOK'
        /\ stat' \in [Listener -> [dropped : Nat, partial : Nat, overflow : Nat]]
        /\ \A k \in Listener : stat'[k].dropped = stat[k].dropped
        /\ seen' = [seen EXCEPT !.copies[l] = @ + 1,
                                !.taken = @ + IF package.taken THEN 0 ELSE 1]
    BY <1>0, <1>1, SentKeeps
  <2>2. /\ seen.copies \in Count /\ seen.taken \in Nat /\ C \in Count /\ T \in Nat
        /\ \A k \in Listener : C[k] = seen.copies[k] + IF k = l THEN 1 ELSE 0
    BY <1>0 DEF Count
  <2>3. seen' = [seen EXCEPT !.copies = C, !.taken = T]
    BY <1>0, <2>1
  <2> HIDE DEF C, T
  <2>4. /\ seen' \in [handled : Nat, taken : Nat, addressed : Count, copies : Count]
        /\ seen'.handled = seen.handled /\ seen'.addressed = seen.addressed
        /\ seen'.taken = T /\ seen'.copies = C
    BY <1>0, <2>2, <2>3
  <2>5. T = seen.taken + IF Inserted(To(l), package.read) /\ ~ package.taken THEN 1 ELSE 0
    BY <1>1 DEF T
  <2>6. ASSUME NEW k \in Listener
        PROVE  seen'.copies[k] + stat'[k].dropped
               = (seen.copies[k] + stat[k].dropped) + IF k = l THEN 1 ELSE 0
    <3>1. seen.copies[k] \in Nat /\ stat[k].dropped \in Nat
      BY <1>0, <2>2 DEF Count
    <3>2. seen'.copies[k] = seen.copies[k] + IF k = l THEN 1 ELSE 0
      BY <2>2, <2>4
    <3>3. stat'[k].dropped = stat[k].dropped
      BY <2>1
    <3> QED BY <3>1, <3>2, <3>3, Z3
  <2> QED BY <2>1, <2>4, <2>5, <2>6
<1>2. CASE ~ Inserted(To(l), package.read) /\ NotSent(l)
  <2>1. /\ sinkQueue' \in [Sink -> Seq(QueueItem)] /\ sinkFree' \in [Sink -> Nat] /\ SinksOK'
        /\ stat' \in [Listener -> [dropped : Nat, partial : Nat, overflow : Nat]]
        /\ \A k \in Listener : stat'[k].dropped = stat[k].dropped + IF k = l THEN 1 ELSE 0
        /\ seen' = seen
    BY <1>0, <1>2, NotSentKeeps
  <2>2. ASSUME NEW k \in Listener
        PROVE  seen'.copies[k] + stat'[k].dropped
               = (seen.copies[k] + stat[k].dropped) + IF k = l THEN 1 ELSE 0
    <3>1. seen.copies[k] \in Nat /\ stat[k].dropped \in Nat
      BY <1>0 DEF Count
    <3>2. stat'[k].dropped = stat[k].dropped + IF k = l THEN 1 ELSE 0
      BY <2>1
    <3>3. seen'.copies[k] = seen.copies[k]
      BY <2>1
    <3> QED BY <3>1, <3>2, <3>3, Z3
  <2>3. seen'.taken = seen.taken + IF Inserted(To(l), package.read) /\ ~ package.taken THEN 1 ELSE 0
    BY <1>0, <1>2, <2>1
  <2> QED BY <1>0, <2>1, <2>2, <2>3
<1> QED BY <1>1, <1>2 DEF insertIntoQueue

(* One pass of the loop: the listener at hand is owed nothing any more. *)
LEMMA DispatchKeeps ==
    ASSUME DispatcherInv, dispatch PROVE DispatcherInv'
<1> DEFINE l == package.at
           n == Len(mListeners)
           match == mListeners[l].id = package.id
           inserted == Inserted(mListeners[l], package.read)
<1>0. /\ l \in 1 .. n /\ n \in Nat /\ n <= numberOfQueues /\ numberOfQueues \in Nat
      /\ ~ Unlocked /\ l \in Listener /\ l # 0 /\ l + 1 \in Nat \ {0}
  <2>1. l \in 1 .. n
    BY DEF dispatch
  <2>2. n \in Nat /\ n <= numberOfQueues /\ numberOfQueues \in Nat
    BY DispatcherAssumption DEF DispatcherInv, DispatcherTypeOK
  <2>3. l # 0 /\ l \in 0 .. numberOfQueues /\ l + 1 \in Nat \ {0}
    <3> HIDE DEF l, n
    <3> QED BY <2>1, <2>2
  <2> QED BY <2>1, <2>2, <2>3 DEF Unlocked, Listener
<1>1. /\ mListeners' = mListeners /\ mDefaultListener' = mDefaultListener
      /\ mNumberOfDroppedPackages' = mNumberOfDroppedPackages
      /\ mNumberOfUnmatchedPackages' = mNumberOfUnmatchedPackages /\ sinkHeld' = sinkHeld
  BY DEF dispatch
<1>2. /\ package \in InHand /\ mListeners[l] \in [id : Protocol, sink : Sink, dropPartial : BOOLEAN]
      /\ DispatcherTypeOK /\ SinksOK
      /\ seen \in [handled : Nat, taken : Nat, addressed : Count, copies : Count]
      /\ stat \in [Listener -> [dropped : Nat, partial : Nat, overflow : Nat]]
      /\ mNumberOfDroppedPackages \in Nat
  <2>1. package \in InHand
    BY <1>0 DEF DispatcherInv, DispatcherTypeOK, Unlocked, NoPackage
  <2>2. mListeners[l] \in [id : Protocol, sink : Sink, dropPartial : BOOLEAN]
    <3> DEFINE L == [id : Protocol, sink : Sink, dropPartial : BOOLEAN]
    <3>1. mListeners \in Seq(L)
      BY DEF DispatcherInv, DispatcherTypeOK
    <3> HIDE DEF l, L
    <3>2. mListeners[l] \in L
      BY <1>0, <3>1
    <3> QED BY <3>2 DEF L
  <2> QED BY <2>1, <2>2 DEF DispatcherInv, DispatcherTypeOK
<1>3. /\ package.dropped <=> ~ package.taken
      /\ package.found <=> \E k \in 1 .. l - 1 : Matches(k)
      /\ ~ package.found => ~ package.taken
      /\ HasId(package.read)
  BY <1>0 DEF DispatcherInv, LoopState
<1>4. Registered(l) /\ To(l) = mListeners[l] /\ mListeners[l].sink \in Sink
  BY <1>0, <1>2 DEF Registered, To
<1>5. /\ package' \in InHand
      /\ package'.id = package.id /\ package'.read = package.read /\ package'.at = l + 1
      /\ package'.found <=> package.found \/ match
      /\ package'.dropped <=> package.dropped /\ ~ (match /\ inserted)
      /\ package'.taken <=> package.taken \/ (match /\ inserted)
  <2>1. CASE match
    <3>1. package' = [package EXCEPT !.at = l + 1, !.found = TRUE, !.dropped = Dropped(inserted),
                                     !.taken = package.taken \/ inserted]
      BY <2>1 DEF dispatch
    <3> DEFINE D == Dropped(inserted)
               T == package.taken \/ inserted
    <3>2. /\ D \in BOOLEAN /\ T \in BOOLEAN
          /\ D <=> package.dropped /\ ~ inserted
          /\ T <=> package.taken \/ inserted
      BY Zenon DEF Dropped
    <3> HIDE DEF D, T, inserted
    <3>3. /\ package' \in InHand
          /\ package'.id = package.id /\ package'.read = package.read /\ package'.at = l + 1
          /\ package'.found = TRUE /\ package'.dropped = D /\ package'.taken = T
      <4> DEFINE m == l + 1
      <4>1. package' = [package EXCEPT !.at = m, !.found = TRUE, !.dropped = D, !.taken = T]
        BY <3>1 DEF D, T
      <4>2. m \in Nat \ {0}
        BY <1>0
      <4>3. package \in InHand /\ TRUE \in BOOLEAN
        BY <1>2
      <4> HIDE DEF m
      <4>4. /\ package' \in InHand
            /\ package'.id = package.id /\ package'.read = package.read /\ package'.at = m
            /\ package'.found = TRUE /\ package'.dropped = D /\ package'.taken = T
        BY <3>2, <4>1, <4>2, <4>3 DEF InHand
      <4> QED BY <4>4 DEF m
    <3> QED BY <2>1, <3>2, <3>3
  <2>2. CASE ~ match
    <3>1. package' = [package EXCEPT !.at = l + 1]
      BY <2>2 DEF dispatch
    <3>2. /\ package' \in InHand
          /\ package'.id = package.id /\ package'.read = package.read /\ package'.at = l + 1
          /\ package'.found = package.found /\ package'.dropped = package.dropped
          /\ package'.taken = package.taken
      <4> DEFINE m == l + 1
      <4>1. package' = [package EXCEPT !.at = m] /\ m \in Nat \ {0} /\ package \in InHand
        BY <1>0, <1>2, <3>1
      <4> HIDE DEF m
      <4>2. /\ package' \in InHand
            /\ package'.id = package.id /\ package'.read = package.read /\ package'.at = m
            /\ package'.found = package.found /\ package'.dropped = package.dropped
            /\ package'.taken = package.taken
        BY <4>1 DEF InHand
      <4> QED BY <4>2 DEF m
    <3> QED BY <2>2, <3>2
  <2> QED BY <2>1, <2>2
<1>6. /\ sinkQueue' \in [Sink -> Seq(QueueItem)] /\ sinkFree' \in [Sink -> Nat]
      /\ SinksOK'
      /\ stat' \in [Listener -> [dropped : Nat, partial : Nat, overflow : Nat]]
      /\ seen' \in [handled : Nat, taken : Nat, addressed : Count, copies : Count]
      /\ seen'.handled = seen.handled /\ seen'.addressed = seen.addressed
      /\ seen'.taken = seen.taken + IF match /\ inserted /\ ~ package.taken THEN 1 ELSE 0
      /\ \A k \in Listener : seen'.copies[k] + stat'[k].dropped
                             = (seen.copies[k] + stat[k].dropped) + IF k = l /\ match THEN 1 ELSE 0
  <2>1. CASE match
    <3>1. insertIntoQueue(l, To(l), package.read)
      BY <1>4, <2>1 DEF dispatch
    <3> HIDE DEF l, inserted
    <3>2. UNCHANGED <<mListeners, mDefaultListener, sinkHeld>>
      BY <1>1
    <3> QED BY <1>0, <1>4, <2>1, <3>1, <3>2, InsertKeeps DEF inserted
  <2>2. CASE ~ match
    <3>1. stat' = stat /\ sinkQueue' = sinkQueue /\ sinkFree' = sinkFree /\ seen' = seen
      BY <2>2 DEF dispatch
    <3>2. SinksOK'
      BY <1>1, <1>2, <3>1 DEF SinksOK, SinkBuffersReturn, ItemsKnown, NoPartialForStrict,
         Registered, To
    <3>3. \A k \in Listener : seen.copies[k] \in Nat /\ stat[k].dropped \in Nat
      BY <1>2 DEF Count
    <3>4. sinkQueue' \in [Sink -> Seq(QueueItem)] /\ sinkFree' \in [Sink -> Nat]
      BY <1>2, <3>1 DEF DispatcherTypeOK
    <3>5. seen.taken \in Nat
      BY <1>2
    <3> HIDE DEF match, inserted, l
    <3> QED BY <1>2, <2>2, <3>1, <3>2, <3>3, <3>4, <3>5
  <2> QED BY <2>1, <2>2
<1>7. DispatcherTypeOK'
  <2>1. package' \in InHand \cup {NoPackage} /\ package'.at <= Len(mListeners') + 1
    BY <1>0, <1>1, <1>5
  <2> HIDE DEF l, n, match, inserted
  <2> QED BY <1>1, <1>2, <1>6, <2>1 DEF DispatcherTypeOK
<1>8. LoopState'
  <2>1. (\E k \in 1 .. package.at - 1 : Matches(k))' <=> \E k \in 1 .. l : Matches(k)
    <3>1. \A k : Matches(k)' <=> Matches(k)
      BY <1>1, <1>5, Zenon DEF Matches, HasId
    <3>2. package'.at - 1 = l
      BY <1>0, <1>5
    <3> QED BY <3>1, <3>2
  <2>2. Matches(l) <=> match
    BY <1>3 DEF Matches
  <2>3. (\E k \in 1 .. l : Matches(k)) <=> (\E k \in 1 .. l - 1 : Matches(k)) \/ Matches(l)
    <3> HIDE DEF l
    <3>1. \A k : k \in 1 .. l <=> k \in 1 .. l - 1 \/ k = l
      BY <1>0
    <3> QED BY <3>1, Zenon
  <2>4. HasId(package.read)'
    BY <1>3, <1>5 DEF HasId
  <2> HIDE DEF l, match, inserted
  <2> QED BY <1>3, <1>5, <2>1, <2>2, <2>3, <2>4, Zenon DEF LoopState
<1>9. PackageCount'
  <2> DEFINE won == match /\ inserted /\ ~ package.taken
  <2>1. Open = (IF package.taken THEN 0 ELSE 1)
    BY <1>0 DEF Open
  <2>2. Open' = (IF package.taken \/ won THEN 0 ELSE 1)
    <3>1. ~ Unlocked'
      BY <1>0, <1>5 DEF Unlocked
    <3> HIDE DEF l, match, inserted
    <3> QED BY <1>5, <3>1 DEF Open
  <2>3. seen'.taken = seen.taken + IF won THEN 1 ELSE 0
    BY <1>6
  <2>4. won => ~ package.taken
    OBVIOUS
  <2>5. seen.handled = (seen.taken + mNumberOfDroppedPackages) + Open
        /\ mNumberOfUnmatchedPackages <= mNumberOfDroppedPackages /\ seen.taken \in Nat
        /\ seen.handled \in Nat
    BY <1>2 DEF DispatcherInv, PackageCount
  <2> HIDE DEF won
  <2> QED BY <1>1, <1>2, <1>6, <2>1, <2>2, <2>3, <2>4, <2>5 DEF PackageCount
<1>10. ListenerCount'
  <2> SUFFICES ASSUME NEW k \in Listener
               PROVE  seen'.addressed[k] = (seen'.copies[k] + stat'[k].dropped)
                                           + IF Owed(k)' THEN 1 ELSE 0
    BY DEF ListenerCount
  <2> DEFINE A == Addressed(package.id, package.read)
  <2>1. Owed(k) <=> k \in A /\ (k = 0 \/ k >= l)
    BY <1>0 DEF Owed
  <2>2. Owed(k)' <=> k \in A /\ (k = 0 \/ k >= l + 1)
    <3>1. Addressed(package.id, package.read)' = A
      BY <1>1, <1>5 DEF Addressed, HasId
    <3>2. ~ Unlocked'
      BY <1>0, <1>5 DEF Unlocked
    <3> HIDE DEF A, l
    <3> QED BY <1>5, <3>1, <3>2 DEF Owed
  <2>3. l \in A <=> match
    BY <1>0, <1>3 DEF Addressed
  <2>4. (IF Owed(k) THEN 1 ELSE 0) = (IF k = l /\ match THEN 1 ELSE 0) + IF Owed(k)' THEN 1 ELSE 0
    <3>1. k \in Int
      BY DEF Listener
    <3> HIDE DEF A, l, match
    <3> QED BY <1>0, <2>1, <2>2, <2>3, <3>1
  <2>5. seen.copies[k] + stat[k].dropped \in Nat
    <3>1. seen.copies[k] \in Nat /\ stat[k].dropped \in Nat
      BY <1>2 DEF Count
    <3> QED BY <3>1
  <2>6. seen.addressed[k] = (seen.copies[k] + stat[k].dropped) + IF Owed(k) THEN 1 ELSE 0
    BY DEF DispatcherInv, ListenerCount
  <2> DEFINE before == seen.copies[k] + stat[k].dropped
             after == seen'.copies[k] + stat'[k].dropped
             owes == Owed(k)'
  <2>7. after = before + IF k = l /\ match THEN 1 ELSE 0
    BY <1>6
  <2>8. seen'.addressed[k] = before + IF Owed(k) THEN 1 ELSE 0
    BY <1>6, <2>6
  <2> HIDE DEF before, after, owes, match, l
  <2>9. seen'.addressed[k] = after + IF owes THEN 1 ELSE 0
    <3>1. before \in Nat
      BY <2>5 DEF before
    <3>2. (IF Owed(k) THEN 1 ELSE 0) = (IF k = l /\ match THEN 1 ELSE 0) + IF owes THEN 1 ELSE 0
      BY <2>4 DEF owes
    <3> QED BY <2>7, <2>8, <3>1, <3>2
  <2> QED BY <2>9 DEF after, owes
<1> QED BY <1>6, <1>7, <1>8, <1>9, <1>10 DEF DispatcherInv

(* The end of handlePackage() settles what is open. *)
LEMMA PackageEndKeeps ==
    ASSUME DispatcherInv, packageEnd PROVE DispatcherInv'
<1> DEFINE n == Len(mListeners)
           default == ~ package.found /\ mDefaultListener.sink # NoSink
           unmatched == ~ package.found /\ mDefaultListener.sink = NoSink
           inserted == Inserted(mDefaultListener, package.read)
           dropped == IF default THEN Dropped(inserted) ELSE package.dropped
<1>0. package.at = n + 1 /\ n \in Nat /\ ~ Unlocked /\ 0 \in Listener
  BY DispatcherAssumption DEF packageEnd, DispatcherInv, DispatcherTypeOK, Unlocked, Listener
<1>1. /\ mListeners' = mListeners /\ mDefaultListener' = mDefaultListener /\ sinkHeld' = sinkHeld
      /\ mNumberOfUnmatchedPackages' = mNumberOfUnmatchedPackages + IF unmatched THEN 1 ELSE 0
      /\ mNumberOfDroppedPackages' = mNumberOfDroppedPackages + IF dropped THEN 1 ELSE 0
      /\ package' = NoPackage
  BY DEF packageEnd
<1>2. /\ package \in InHand /\ DispatcherTypeOK /\ SinksOK
      /\ seen \in [handled : Nat, taken : Nat, addressed : Count, copies : Count]
      /\ stat \in [Listener -> [dropped : Nat, partial : Nat, overflow : Nat]]
      /\ mNumberOfDroppedPackages \in Nat /\ mNumberOfUnmatchedPackages \in Nat
      /\ mDefaultListener \in [sink : Sink \cup {NoSink}, dropPartial : BOOLEAN]
  BY <1>0, SMTT(30) DEF DispatcherInv, DispatcherTypeOK, Unlocked, NoPackage
<1>3. /\ package.dropped <=> ~ package.taken
      /\ package.found <=> \E k \in 1 .. n : Matches(k)
      /\ ~ package.found => ~ package.taken
  <2>1. package.at - 1 = n
    BY <1>0
  <2> QED BY <1>0, <2>1 DEF DispatcherInv, LoopState
<1>4. package'.at = 0 /\ Unlocked'
  BY <1>1 DEF NoPackage, Unlocked
<1>5. /\ sinkQueue' \in [Sink -> Seq(QueueItem)] /\ sinkFree' \in [Sink -> Nat]
      /\ SinksOK'
      /\ stat' \in [Listener -> [dropped : Nat, partial : Nat, overflow : Nat]]
      /\ seen' \in [handled : Nat, taken : Nat, addressed : Count, copies : Count]
      /\ seen'.handled = seen.handled /\ seen'.addressed = seen.addressed
      /\ seen'.taken = seen.taken + IF default /\ inserted /\ ~ package.taken THEN 1 ELSE 0
      /\ \A k \in Listener : seen'.copies[k] + stat'[k].dropped
                             = (seen.copies[k] + stat[k].dropped) + IF k = 0 /\ default THEN 1 ELSE 0
  <2>1. CASE default
    <3>1. Registered(0) /\ To(0) = mDefaultListener /\ mDefaultListener.sink \in Sink
      BY <1>2, <2>1 DEF Registered, To
    <3>2. insertIntoQueue(0, To(0), package.read)
      BY <2>1, <3>1 DEF packageEnd
    <3>3. UNCHANGED <<mListeners, mDefaultListener, sinkHeld>>
      BY <1>1
    <3>4. inserted <=> Inserted(To(0), package.read)
      BY <3>1
    <3> HIDE DEF inserted, default
    <3> QED BY <1>0, <2>1, <3>1, <3>2, <3>3, <3>4, InsertKeeps
  <2>2. CASE ~ default
    <3>1. stat' = stat /\ sinkQueue' = sinkQueue /\ sinkFree' = sinkFree /\ seen' = seen
      BY <2>2 DEF packageEnd
    <3>2. SinksOK'
      BY <1>1, <1>2, <3>1 DEF SinksOK, SinkBuffersReturn, ItemsKnown, NoPartialForStrict,
         Registered, To
    <3>3. \A k \in Listener : seen.copies[k] \in Nat /\ stat[k].dropped \in Nat
      BY <1>2 DEF Count
    <3> HIDE DEF inserted, default
    <3> QED BY <1>2, <2>2, <3>1, <3>2, <3>3, SMTT(30) DEF DispatcherTypeOK
  <2> QED BY <2>1, <2>2
<1>6. DispatcherTypeOK'
  <2>1. package' \in InHand \cup {NoPackage} /\ package'.at <= Len(mListeners') + 1
    BY <1>0, <1>1, <1>4
  <2>2. mNumberOfUnmatchedPackages' \in Nat /\ mNumberOfDroppedPackages' \in Nat
    <3> HIDE DEF dropped, unmatched
    <3> QED BY <1>1, <1>2
  <2> HIDE DEF dropped, unmatched, default, inserted
  <2> QED BY <1>1, <1>2, <1>5, <2>1, <2>2 DEF DispatcherTypeOK
<1>7. LoopState'
  BY <1>4 DEF LoopState
<1>8. PackageCount'
  <2> DEFINE won == default /\ inserted /\ ~ package.taken
  <2>1. Open = (IF package.taken THEN 0 ELSE 1) /\ Open' = 0
    BY <1>0, <1>4 DEF Open
  <2>2. dropped <=> ~ package.taken /\ ~ won
    <3>1. CASE default
      BY <1>3, <3>1, Zenon DEF Dropped
    <3>2. CASE ~ default
      BY <1>3, <3>2
    <3> QED BY <3>1, <3>2
  <2>3. (won => ~ package.taken) /\ (unmatched => dropped)
    BY <1>3
  <2>4. seen'.taken = seen.taken + IF won THEN 1 ELSE 0
    BY <1>5
  <2>5. seen.handled = (seen.taken + mNumberOfDroppedPackages) + Open
        /\ mNumberOfUnmatchedPackages <= mNumberOfDroppedPackages /\ seen.taken \in Nat
        /\ seen.handled \in Nat
    BY <1>2 DEF DispatcherInv, PackageCount
  <2> HIDE DEF won, dropped, unmatched
  <2> QED BY <1>1, <1>2, <1>5, <2>1, <2>2, <2>3, <2>4, <2>5 DEF PackageCount
<1>9. ListenerCount'
  <2> SUFFICES ASSUME NEW k \in Listener
               PROVE  seen'.addressed[k] = (seen'.copies[k] + stat'[k].dropped)
                                           + IF Owed(k)' THEN 1 ELSE 0
    BY DEF ListenerCount
  <2>1. ~ Owed(k)'
    BY <1>4 DEF Owed
  <2>2. Owed(k) <=> k = 0 /\ default
    <3> DEFINE F == {j \in 1 .. n : HasId(package.read) /\ mListeners[j].id = package.id}
    <3>1. F = {} <=> ~ package.found
      BY <1>3 DEF Matches
    <3>2. Addressed(package.id, package.read)
          = IF F = {} /\ mDefaultListener.sink # NoSink THEN {0} ELSE F
      BY DEF Addressed
    <3>3. \A j \in F : j # 0 /\ ~ (j >= package.at)
      BY <1>0
    <3> HIDE DEF F
    <3>4. CASE default
      BY <1>0, <3>1, <3>2, <3>4 DEF Owed
    <3>5. CASE ~ default
      <4>1. Addressed(package.id, package.read) = F
        BY <3>1, <3>2, <3>5
      <4> QED BY <3>3, <3>5, <4>1 DEF Owed
    <3> QED BY <3>4, <3>5
  <2>3. seen.addressed[k] = (seen.copies[k] + stat[k].dropped) + IF Owed(k) THEN 1 ELSE 0
    BY DEF DispatcherInv, ListenerCount
  <2>4. seen'.copies[k] + stat'[k].dropped = seen'.addressed[k]
    <3> HIDE DEF default, inserted
    <3> QED BY <1>5, <2>2, <2>3
  <2>5. seen'.addressed[k] \in Nat
    BY <1>5 DEF Count
  <2> QED BY <2>1, <2>4, <2>5
<1> QED BY <1>5, <1>6, <1>7, <1>8, <1>9 DEF DispatcherInv

(* DispatcherInv is an invariant of the protocol dispatcher: the accounts  *)
(* balance at every listener that handlePackage() has reached, while the   *)
(* readers of the queues go on.                                            *)
THEOREM DispatcherInductive == DispatcherSpec => []DispatcherInv
<1>1. DispatcherInv /\ [DispatcherNext]_dispatcherVars => DispatcherInv'
  <2> SUFFICES ASSUME DispatcherInv, [DispatcherNext]_dispatcherVars PROVE DispatcherInv'
    OBVIOUS
  <2>1. CASE \E s \in Sink, dropPartial \in BOOLEAN :
               \/ setDefaultQueue(s, dropPartial)
               \/ \E id \in Protocol : addQueue(id, s, dropPartial)
    <3>1. PICK s \in Sink, dropPartial \in BOOLEAN :
               \/ setDefaultQueue(s, dropPartial)
               \/ \E id \in Protocol : addQueue(id, s, dropPartial)
      BY <2>1
    <3>2. Unlocked
      BY <3>1 DEF setDefaultQueue, addQueue
    <3> QED BY <3>1, <3>2, RegisterKeeps
  <2>2. CASE \E id \in Protocol, read \in ReadBytes : handlePackage(id, read)
    BY <2>2, HandleKeeps
  <2>3. CASE dispatch
    BY <2>3, DispatchKeeps
  <2>4. CASE packageEnd
    BY <2>4, PackageEndKeeps
  <2>5. CASE \E s \in Sink : sinkTake(s) \/ sinkRelease(s)
    BY <2>5, ReaderKeeps
  <2>6. CASE resetErrorCounters
    BY <2>6, ResetKeeps
  <2>7. CASE UNCHANGED dispatcherVars
    <3>1. /\ DispatcherTypeOK' /\ LoopState' /\ PackageCount'
      BY <2>7 DEF dispatcherVars, DispatcherInv, DispatcherTypeOK, LoopState, PackageCount,
         Unlocked, Matches, Open, HasId
    <3>2. ListenerCount' /\ SinksOK'
      BY <2>7 DEF dispatcherVars, DispatcherInv, ListenerCount, Owed, Unlocked, Addressed,
         SinksOK, SinkBuffersReturn, ItemsKnown, NoPartialForStrict, Registered, To
    <3> QED BY <3>1, <3>2 DEF DispatcherInv
  <2> QED BY <2>1, <2>2, <2>3, <2>4, <2>5, <2>6, <2>7 DEF DispatcherNext
<1> QED BY <1>1, DispatcherInitInv, PTL DEF DispatcherSpec

(* Packages, copies and buffers add up, for the dispatcher as a whole and  *)
(* for each listener, for every number of listeners and sinks, every size  *)
(* of pool and queue and every length of package.                          *)
THEOREM PackagesAreAccounted == DispatcherSpec => []DispatchAccounted
<1>1. DispatcherInv => DispatchAccounted
  <2> SUFFICES ASSUME DispatcherInv PROVE DispatchAccounted
    OBVIOUS
  <2>1. seen \in [handled : Nat, taken : Nat, addressed : Count, copies : Count]
        /\ stat \in [Listener -> [dropped : Nat, partial : Nat, overflow : Nat]]
        /\ mNumberOfDroppedPackages \in Nat
    BY DEF DispatcherInv, DispatcherTypeOK
  <2>2. PackagesAccounted
    BY <2>1 DEF DispatcherInv, PackageCount, Open, PackagesAccounted
  <2>3. ListenersAccounted
    BY <2>1 DEF DispatcherInv, ListenerCount, Owed, ListenersAccounted, Count
  <2> QED BY <2>2, <2>3 DEF DispatchAccounted, DispatcherInv, SinksOK
<1> QED BY <1>1, DispatcherInductive, PTL

(* A listener that wants complete packages only is never sent one that was *)
(* cut, by the receiver or by the copy, for every length of the buffers.   *)
THEOREM StrictListenersAreServed == DispatcherSpec => []NoPartialForStrict
<1>1. DispatcherInv => NoPartialForStrict
  BY DEF DispatcherInv, SinksOK
<1> QED BY <1>1, DispatcherInductive, PTL
=============================================================================
