---------------------------- MODULE HdlcStuffing ----------------------------
(***************************************************************************)
(* outpost::utils::HdlcStuffing (utils, hdlc.cpp), the framing of sip: one *)
(* side encodes packets into frames, the other collects the bytes as they  *)
(* arrive, decodes them, and cuts off what decode() says.                  *)
(*                                                                         *)
(* A step is one round of a loop.  decode() works on the bytes that had    *)
(* arrived when it was called; its output is a buffer of its own, or the   *)
(* input itself.                                                           *)
(***************************************************************************)
EXTENDS Integers, Sequences

CONSTANTS
    Packet,         \* inputs of encode()
    Noise,          \* bytes that may be on the line before the first frame
    EncodeSize,     \* sizes of the output of encode()
    DecodeSize,     \* size of the output of decode(), unless it is in place
    MaxPackets      \* bound: packets that are encoded

boundary_overhead == 2
boundary_byte == 126
escape_byte == 125
Byte == 0 .. 255

(* Before the first frame: the rest of a frame whose begin was lost, and   *)
(* perhaps a frame that somebody started at i and then aborted or broke    *)
(* off: it ends with one escape, or with two.                              *)
BrokenFrame(noise, i) ==
    \E e \in 1 .. 2 :
        /\ i + e <= Len(noise)
        /\ \A j \in i + 1 .. Len(noise) : noise[j] = escape_byte <=> j + e > Len(noise)
        /\ \A j \in 1 .. Len(noise) : noise[j] = boundary_byte <=> j = i

ASSUME HdlcAssumption ==
    /\ Packet \subseteq Seq(Byte)
    /\ Noise \subseteq Seq(Byte)
    /\ \A noise \in Noise : \A i \in 1 .. Len(noise) :
            noise[i] = boundary_byte => BrokenFrame(noise, i)
    /\ EncodeSize \subseteq Nat
    /\ {DecodeSize, MaxPackets} \subseteq Nat

VARIABLES
    encoder,        \* local variables of encode(), output from its begin
    stream,         \* every byte that was written to the line
    memory,         \* the bytes that arrived, as they are in memory
    cut,            \* how many of them the caller has cut off
    decoder,        \* local variables of decode(), output from its begin
    packets,        \* number of calls of encode()
    sent, received  \* packets that are not empty

hdlcVars == <<encoder, stream, memory, cut, decoder, packets, sent, received>>

(* data ^ mask, where mask is a single bit. *)
mask == 32
Masked(data) == IF (data \div mask) % 2 = 1 THEN data - mask ELSE data + mask

Encoding == [at : {"idle", "loop"}, input : Seq(Byte), input_it : Nat,
             output : Seq(Byte), size : Nat]
Decoding == [at : {"idle", "loop"}, input_it : Nat, length : Nat, input_frame_start : Nat,
             escaped : BOOLEAN, inframe : BOOLEAN, output : Seq(Byte), inPlace : BOOLEAN]
NoEncoding == [at |-> "idle", input |-> << >>, input_it |-> 0, output |-> << >>, size |-> 0]
NoDecoding == [at |-> "idle", input_it |-> 0, length |-> 0, input_frame_start |-> 0,
               escaped |-> FALSE, inframe |-> FALSE, output |-> << >>, inPlace |-> FALSE]

HdlcInit ==
    /\ encoder = NoEncoding
    /\ stream \in Noise
    /\ memory = << >>
    /\ cut = 0
    /\ decoder = NoDecoding
    /\ packets = 0
    /\ sent = << >> /\ received = << >>
-----------------------------------------------------------------------------
(* encode(), with an output that is not shorter than the shortest frame.   *)
encode(p, size) ==
    /\ encoder.at = "idle" /\ packets < MaxPackets
    /\ size >= Len(p) + boundary_overhead
    /\ encoder' = [at |-> "loop", input |-> p, input_it |-> 0,
                   output |-> <<boundary_byte>>, size |-> size]
    /\ packets' = packets + 1
    /\ UNCHANGED <<stream, memory, cut, decoder, sent, received>>

Special_Boundary(data) == data = boundary_byte
Special(data) == data \in {boundary_byte, escape_byte}

InputLeft == encoder.input_it < Len(encoder.input)
RoomLeft == Len(encoder.output) < encoder.size

(* A special byte needs two places. *)
Stuffed(data) == IF Special(data) THEN <<escape_byte, Masked(data)>> ELSE <<data>>
encodeByte ==
    LET code == Stuffed(encoder.input[encoder.input_it + 1]) IN
    /\ encoder.at = "loop" /\ InputLeft /\ RoomLeft
    /\ Len(encoder.output) + Len(code) <= encoder.size
    /\ encoder' = [encoder EXCEPT !.input_it = @ + 1, !.output = @ \o code]
    /\ UNCHANGED <<stream, memory, cut, decoder, packets, sent, received>>

(* The output is too small: encode() returns 0. *)
encodeFails ==
    /\ encoder.at = "loop"
    /\ \/ /\ InputLeft /\ RoomLeft
          /\ Len(encoder.output) + Len(Stuffed(encoder.input[encoder.input_it + 1])) > encoder.size
       \/ ~ RoomLeft
    /\ encoder' = NoEncoding
    /\ UNCHANGED <<stream, memory, cut, decoder, packets, sent, received>>

Nonempty(packet, list) == IF packet = << >> THEN list ELSE Append(list, packet)
encodeEnd ==
    /\ encoder.at = "loop" /\ ~ InputLeft /\ RoomLeft
    /\ stream' = stream \o Append(encoder.output, boundary_byte)
    /\ sent' = Nonempty(encoder.input, sent)
    /\ encoder' = NoEncoding
    /\ UNCHANGED <<memory, cut, decoder, packets, received>>

(* The serial line delivers the next byte. *)
arrive ==
    /\ Len(memory) < Len(stream)
    /\ memory' = Append(memory, stream[Len(memory) + 1])
    /\ UNCHANGED <<encoder, stream, cut, decoder, packets, sent, received>>
-----------------------------------------------------------------------------
(* A caller that wants the result in place waits until a frame is complete. *)
FrameArrived ==
    \E i, j \in cut + 1 .. Len(memory) :
        i < j /\ memory[i] = boundary_byte /\ memory[j] = boundary_byte
decode(inPlace) ==
    /\ decoder.at = "idle"
    /\ inPlace => FrameArrived
    /\ decoder' = [NoDecoding EXCEPT !.at = "loop", !.length = Len(memory) - cut,
                                     !.inPlace = inPlace]
    /\ UNCHANGED <<encoder, stream, memory, cut, packets, sent, received>>

(* decode() returns n and an output, and the caller skips n bytes. *)
DecodeReturns(n, output) ==
    /\ decoder' = NoDecoding
    /\ cut' = cut + n
    /\ received' = Nonempty(output, received)
    /\ UNCHANGED <<encoder, stream, memory, packets, sent>>
DecodeContinues(d) ==
    /\ decoder' = [d EXCEPT !.input_it = @ + 1]
    /\ UNCHANGED <<encoder, stream, cut, packets, sent, received>>

More == decoder.at = "loop" /\ decoder.input_it < decoder.length
Data == memory[cut + decoder.input_it + 1]
Full == Len(decoder.output) >= IF decoder.inPlace THEN decoder.length ELSE DecodeSize

decodeBoundary ==
    /\ More /\ Data = boundary_byte
    /\ \/ /\ decoder.inframe
          /\ DecodeReturns(decoder.input_it, IF decoder.escaped THEN << >> ELSE decoder.output)
       \/ /\ ~ decoder.inframe
          /\ DecodeContinues([decoder EXCEPT !.input_frame_start = decoder.input_it,
                                             !.output = << >>, !.inframe = TRUE])
          /\ UNCHANGED memory
decodeEscape ==
    /\ More /\ Data = escape_byte
    /\ \/ decoder.escaped /\ DecodeReturns(decoder.input_it, << >>)
       \/ /\ ~ decoder.escaped
          /\ DecodeContinues([decoder EXCEPT !.escaped = decoder.inframe])
          /\ UNCHANGED memory
decodeSkip ==
    /\ More /\ ~ Special(Data) /\ ~ decoder.inframe
    /\ DecodeContinues([decoder EXCEPT !.escaped = FALSE])
    /\ UNCHANGED memory
decodeData ==
    LET value == IF decoder.escaped THEN Masked(Data) ELSE Data IN
    /\ More /\ ~ Special(Data) /\ decoder.inframe /\ ~ Full
    /\ DecodeContinues([decoder EXCEPT !.output = Append(@, value), !.escaped = FALSE])
    /\ memory' = IF decoder.inPlace
                 THEN [memory EXCEPT ![cut + Len(decoder.output) + 1] = value] ELSE memory
decodeFull ==
    /\ More /\ ~ Special(Data) /\ decoder.inframe /\ Full
    /\ DecodeReturns(decoder.input_frame_start, << >>)
(* No end of the frame in the input: what is returned is its start. *)
decodeEnd ==
    /\ decoder.at = "loop" /\ ~ More
    /\ DecodeReturns(decoder.input_frame_start, << >>)

HdlcNext ==
    \/ \E p \in Packet, size \in EncodeSize : encode(p, size)
    \/ encodeByte \/ encodeFails \/ encodeEnd
    \/ arrive
    \/ \E inPlace \in BOOLEAN : decode(inPlace)
    \/ decodeBoundary \/ decodeEscape \/ decodeSkip \/ decodeData \/ decodeFull \/ decodeEnd

HdlcSpec == HdlcInit /\ [][HdlcNext]_hdlcVars
-----------------------------------------------------------------------------
(* However the bytes arrive, whatever they are and wherever the output is, *)
(* decode() delivers the packets that encode() accepted, whole, in their   *)
(* order and each of them once; a frame that had not arrived as a whole is *)
(* delivered by a later call.  Decoding in place overwrites no byte that   *)
(* is still to be read.                                                    *)
FramesWhole ==
    /\ Len(received) <= Len(sent)
    /\ \A i \in 1 .. Len(received) : received[i] = sent[i]
    /\ \A k \in cut + decoder.input_it + 1 .. Len(memory) : memory[k] = stream[k]
=============================================================================
