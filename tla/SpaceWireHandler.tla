-------------------------- MODULE SpaceWireHandler --------------------------
(***************************************************************************)
(* outpost::hal::SpaceWireMultiProtocolHandler (hal,                       *)
(* space_wire_multi_protocol_handler.h and _impl.h): packets of one        *)
(* SpaceWire link are copied to a pool and handed to the channels of a     *)
(* distributor by the protocol byte; senders copy their data to a transmit *)
(* buffer of the link.                                                     *)
(*                                                                         *)
(* The link is external (spacewire.h): it lends a limited number of        *)
(* receive and transmit buffers, a receive buffer until releaseBuffer()    *)
(* and a transmit buffer until SpaceWire::send().                          *)
(***************************************************************************)
EXTENDS Integers, Sequences, FiniteSets

CONSTANTS
    SpwSender,          \* threads that call send()
    SpwProtocol,        \* values of the protocol byte
    SpwChannel,         \* channels of the distributor
    Filter,             \* the filters of the channels: SpwPackageFilter
    PacketSize,         \* sizes of the packets on the link
    maxPacketSize,      \* size of the buffers of the pool
    maxPackages,        \* number of the buffers of the pool
    RxBuffers,          \* receive buffers of the link
    TxBuffers,          \* transmit buffers of the link
    TxLength,           \* size of a transmit buffer
    ChannelSize         \* messages a channel keeps

ASSUME SpwAssumption ==
    /\ PacketSize \subseteq Nat
    /\ {maxPacketSize, maxPackages, RxBuffers, TxBuffers, TxLength, ChannelSize} \subseteq Nat
    /\ Filter \in [SpwChannel -> [protocol : SpwProtocol, partial : BOOLEAN, maxSize : Nat]]

VARIABLES
    linkUp,
    rx,             \* packets that wait in receive buffers of the link
    rxFree,         \* receive buffers the link can use
    message,        \* what receive() gave to the distributor, or << >>
    channel,        \* the messages in each channel, by the buffer of the pool
    buffer,         \* what is in each buffer of the pool
    txFree,         \* transmit buffers the link can lend
    sending         \* per sender: "idle", or the timeout of its send()

spwVars == <<linkUp, rx, rxFree, message, channel, buffer, txFree, sending>>

Packet == [protocol : SpwProtocol, size : PacketSize, end : {"eop", "eep"}]
SendTimeout == {"zero", "bounded", "myriad"}
protocolByteOffset == 1

(* Filters of a handler none of whose channels is in use. *)
NoFilter == [c \in {} |-> c]

SpwInit ==
    /\ linkUp = FALSE
    /\ rx = << >>
    /\ rxFree = RxBuffers
    /\ message = << >>
    /\ channel = [c \in SpwChannel |-> << >>]
    /\ buffer = [b \in 1 .. maxPackages |-> [used |-> FALSE]]
    /\ txFree = TxBuffers
    /\ sending = [s \in SpwSender |-> "idle"]

(* The link stores a packet in a free receive buffer. *)
linkReceive(packet) ==
    /\ linkUp
    /\ rxFree > 0
    /\ rxFree' = rxFree - 1
    /\ rx' = Append(rx, packet)
    /\ UNCHANGED <<linkUp, message, channel, buffer, txFree, sending>>
linkDown ==
    /\ linkUp
    /\ linkUp' = FALSE
    /\ UNCHANGED <<rx, rxFree, message, channel, buffer, txFree, sending>>
-----------------------------------------------------------------------------
(* SpaceWireHandle::receive(), called by the distributor's thread.         *)
receiveUp ==
    /\ ~ linkUp
    /\ message = << >>
    /\ linkUp' = TRUE
    /\ UNCHANGED <<rx, rxFree, message, channel, buffer, txFree, sending>>

(* The identifier of a packet that is longer than the buffer says so. *)
EndMarker_OfLink(packet) == packet.end
EndMarker(packet) == IF packet.size > maxPacketSize THEN "partial" ELSE packet.end

Copy(packet) ==
    [used     |-> TRUE,
     protocol |-> packet.protocol,
     end      |-> EndMarker(packet),
     size     |-> IF packet.size > maxPacketSize THEN maxPacketSize ELSE packet.size,
     complete |-> packet.end = "eop" /\ packet.size <= maxPacketSize]

FreeBuffers == {b \in 1 .. maxPackages : ~ buffer[b].used}

(* releaseBuffer() at the end of receive(), on each of its paths. *)
releaseBuffer_IfCopied(copied) == rxFree' = rxFree + IF copied THEN 1 ELSE 0
releaseBuffer(copied) == rxFree' = rxFree + 1

(* The copy is never longer than the buffer of the pool; were it to fail,  *)
(* both buffers would be given back as when the packet is not wanted.      *)
receive ==
    /\ linkUp
    /\ message = << >>
    /\ rx # << >>
    /\ rx' = Tail(rx)
    /\ LET long == Head(rx).size >= protocolByteOffset + 1 IN
       \/ \E b \in FreeBuffers :
            /\ long
            /\ buffer' = [buffer EXCEPT ![b] = Copy(Head(rx))]
            /\ message' = <<b>>
            /\ releaseBuffer(TRUE)
       \/ /\ ~ long \/ FreeBuffers = {}
          /\ UNCHANGED <<buffer, message>>
          /\ releaseBuffer(FALSE)
    /\ UNCHANGED <<linkUp, channel, txFree, sending>>
-----------------------------------------------------------------------------
(* The distributor gives the message to the channels whose filter accepts  *)
(* it and drops its own reference.                                         *)
filter(c, m) ==
    /\ m.protocol = Filter[c].protocol
    /\ m.size <= Filter[c].maxSize
    /\ Filter[c].partial \/ m.end = "eop"

Referenced(queues) == {b \in 1 .. maxPackages :
                         \E c \in SpwChannel : \E k \in 1 .. Len(queues[c]) : queues[c][k] = b}
Release(b, queues) == IF b \in Referenced(queues) THEN buffer
                      ELSE [buffer EXCEPT ![b] = [used |-> FALSE]]

distribute ==
    /\ message # << >>
    /\ LET b == message[1] IN
       /\ channel' = [c \in SpwChannel |->
                        IF filter(c, buffer[b]) /\ Len(channel[c]) < ChannelSize
                        THEN Append(channel[c], b) ELSE channel[c]]
       /\ buffer' = Release(b, channel')
    /\ message' = << >>
    /\ UNCHANGED <<linkUp, rx, rxFree, txFree, sending>>

(* A reader of a channel takes a message and is done with its buffer. *)
channelReceive(c) ==
    /\ channel[c] # << >>
    /\ channel' = [channel EXCEPT ![c] = Tail(@)]
    /\ buffer' = IF <<Head(channel[c])>> = message THEN buffer
                 ELSE Release(Head(channel[c]), channel')
    /\ UNCHANGED <<linkUp, rx, rxFree, message, txFree, sending>>
-----------------------------------------------------------------------------
(* send(): a transmit buffer is requested and filled, ...                  *)
sendRequest(s, size, timeout) ==
    /\ sending[s] = "idle"
    /\ txFree > 0
    /\ txFree' = txFree - 1
    /\ sending' = IF TxLength < size THEN sending ELSE [sending EXCEPT ![s] = timeout]
    /\ UNCHANGED <<linkUp, rx, rxFree, message, channel, buffer>>

(* ... and sent, unless the time is over by now. *)
sendExpired(s) ==
    /\ sending[s] = "bounded"
    /\ sending' = [sending EXCEPT ![s] = "idle"]
    /\ UNCHANGED <<linkUp, rx, rxFree, message, channel, buffer, txFree>>
sendBuffer(s) ==
    /\ sending[s] # "idle"
    /\ sending' = [sending EXCEPT ![s] = "idle"]
    /\ txFree' = txFree + 1
    /\ UNCHANGED <<linkUp, rx, rxFree, message, channel, buffer>>

SpwNext ==
    \/ linkDown \/ receiveUp \/ receive \/ distribute
    \/ \E packet \in Packet : linkReceive(packet)
    \/ \E c \in SpwChannel : channelReceive(c)
    \/ \E s \in SpwSender : sendExpired(s) \/ sendBuffer(s)
    \/ \E s \in SpwSender, size \in PacketSize, t \in SendTimeout : sendRequest(s, size, t)

SpwSpec == SpwInit /\ [][SpwNext]_spwVars
-----------------------------------------------------------------------------
(* Every path of receive() gives the receive buffer of the link back, also *)
(* for packets without a protocol byte and when the pool is exhausted: the *)
(* link never runs out of buffers for packets that nobody wants.           *)
ReceiveBuffersReturn == rxFree + Len(rx) = RxBuffers

(* A channel that does not allow partial packages never holds a packet     *)
(* that was cut on the link or by the copy into the pool's buffer.         *)
StrictSeesComplete ==
    \A c \in SpwChannel : \A k \in 1 .. Len(channel[c]) :
        LET m == buffer[channel[c][k]] IN m.used /\ (Filter[c].partial \/ m.complete)

(* A transmit buffer is only held by a send() in progress.  spacewire.h    *)
(* asks for it: the link is blocked until the buffer is returned by        *)
(* sending it.                                                             *)
TransmitBuffersReturn ==
    txFree + Cardinality({s \in SpwSender : sending[s] # "idle"}) = TxBuffers
=============================================================================
