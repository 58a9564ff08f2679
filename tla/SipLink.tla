------------------------------- MODULE SipLink -------------------------------
(***************************************************************************)
(* The simple packet protocol (sip): Coordinator (coordinator.cpp),        *)
(* CoordinatorPacketReceiver, PacketTransportSerial and Worker.            *)
(*                                                                         *)
(* A request goes over a serial line to a worker; the receiver's thread    *)
(* assembles the response byte by byte and hands it over in a queue of one *)
(* element.  transmit() and receive() work in the same mBuffer.            *)
(*                                                                         *)
(* A frame has four symbols: a boundary, two halves of a packet and a      *)
(* boundary.  Two halves of different packets fail the CRC.  Each worker   *)
(* answers its own requests one after the other, at its own pace: symbols  *)
(* of different workers arrive in any order, also within a frame.  The     *)
(* durations of the two timeouts are left open: each may expire at any     *)
(* time.                                                                   *)
(***************************************************************************)
EXTENDS Integers, Sequences

CONSTANTS
    SipWorker,      \* worker identifiers
    Boundary,       \* flagByte
    BufferCells,    \* size of PacketTransportSerial::mBuffer
    NoPacket,
    MaxRequests,    \* bound: requests of the coordinator
    MaxFrames       \* bound: frames of a worker on the line to the coordinator

ASSUME SipAssumption ==
    /\ SipWorker # {}
    /\ BufferCells \in Nat /\ BufferCells >= 4
    /\ {MaxRequests, MaxFrames} \subseteq Nat

VARIABLES
    coordinator,    \* the thread in sendRequest(): [at, n, worker]
    mResponseQueue, \* at most one response
    serialBuffer,   \* PacketTransportSerial::mBuffer
    atWorker,       \* requests that reached each worker
    line,           \* symbols of each worker on their way to the receiver
    receiver,       \* local variables of receive(): startBoundary, the number
                    \* of symbols stored and bytesCounter
    receiverBuffer, \* packet in CoordinatorPacketReceiver::mBuffer
    taken           \* responses that sendRequest() took, with the request it
                    \* made at the time, the worker addressed and its result

sipVars == <<coordinator, mResponseQueue, serialBuffer, atWorker, line, receiver,
             receiverBuffer, taken>>

sizeOfQueue == 1
Frame(p) == <<Boundary, [of |-> p, half |-> 1], [of |-> p, half |-> 2], Boundary>>
Request(n, w) == [from |-> "coordinator", n |-> n, workerId |-> w, type |-> "request"]
Response(r) == [from |-> "worker", n |-> r.n, workerId |-> r.workerId, type |-> "response"]
Listening == [startBoundary |-> FALSE, stored |-> 0, bytesCounter |-> 0]

SipInit ==
    /\ coordinator = [at |-> "idle", n |-> 0, worker |-> CHOOSE w \in SipWorker : TRUE]
    /\ mResponseQueue = << >>
    /\ serialBuffer = [i \in 1 .. BufferCells |-> NoPacket]
    /\ atWorker = [w \in SipWorker |-> << >>]
    /\ line = [w \in SipWorker |-> << >>]
    /\ receiver = Listening
    /\ receiverBuffer = NoPacket
    /\ taken = << >>
-----------------------------------------------------------------------------
(* sendRequest() and sendRequestGetResponseData(): the request is encoded  *)
(* into mBuffer, ...                                                       *)
sendRequest(w) ==
    /\ coordinator.at = "idle"
    /\ coordinator.n < MaxRequests
    /\ coordinator' = [at |-> "write", n |-> coordinator.n + 1, worker |-> w]
    /\ serialBuffer' = [i \in 1 .. BufferCells |->
                          IF i <= 4 THEN Frame(Request(coordinator.n + 1, w))[i] ELSE serialBuffer[i]]
    /\ UNCHANGED <<mResponseQueue, atWorker, line, receiver, receiverBuffer, taken>>

Return == coordinator' = [coordinator EXCEPT !.at = "idle"]

(* ... and written to the line from there.  A worker ignores a frame that  *)
(* fails its CRC.                                                          *)
transmit ==
    LET w == coordinator.worker
        r == Request(coordinator.n, w) IN
    /\ coordinator.at = "write"
    /\ coordinator' = [coordinator EXCEPT !.at = "wait"]
    /\ atWorker' = IF SubSeq(serialBuffer, 1, 4) = Frame(r)
                   THEN [atWorker EXCEPT ![w] = Append(@, r)] ELSE atWorker
    /\ UNCHANGED <<mResponseQueue, serialBuffer, line, receiver, receiverBuffer, taken>>
transmitError ==
    /\ coordinator.at = "write"
    /\ Return
    /\ UNCHANGED <<mResponseQueue, serialBuffer, atWorker, line, receiver, receiverBuffer, taken>>

(* The counter of the response is not compared with the request's. *)
Result(data) ==
    IF data.workerId # coordinator.worker THEN "workerIdError"
    ELSE IF data.type # "response" THEN "responseTypeError"
    ELSE "success"

receiveResponseQueue ==
    /\ coordinator.at = "wait"
    /\ mResponseQueue # << >>
    /\ mResponseQueue' = Tail(mResponseQueue)
    /\ taken' = Append(taken, [data |-> Head(mResponseQueue), request |-> coordinator.n,
                               worker |-> coordinator.worker,
                               result |-> Result(Head(mResponseQueue))])
    /\ Return
    /\ UNCHANGED <<serialBuffer, atWorker, line, receiver, receiverBuffer>>
(* The two seconds are over. *)
responseError_Infinite == FALSE
responseError ==
    /\ coordinator.at = "wait"
    /\ Return
    /\ UNCHANGED <<mResponseQueue, serialBuffer, atWorker, line, receiver, receiverBuffer, taken>>
-----------------------------------------------------------------------------
(* Worker::sendResponse(); a worker may also stay silent. *)
sendResponse(w) ==
    /\ atWorker[w] # << >>
    /\ Len(line[w]) <= 4 * (MaxFrames - 1)
    /\ line' = [line EXCEPT ![w] = @ \o Frame(Response(Head(atWorker[w])))]
    /\ atWorker' = [atWorker EXCEPT ![w] = Tail(@)]
    /\ UNCHANGED <<coordinator, mResponseQueue, serialBuffer, receiver, receiverBuffer,
                   taken>>
workerSilent(w) ==
    /\ atWorker[w] # << >>
    /\ atWorker' = [atWorker EXCEPT ![w] = Tail(@)]
    /\ UNCHANGED <<coordinator, mResponseQueue, serialBuffer, line, receiver,
                   receiverBuffer, taken>>
-----------------------------------------------------------------------------
(* decode(): the symbols between the boundary at the beginning of the      *)
(* buffer and the next one.                                                *)
Content(cells) ==
    LET ends == {k \in 2 .. BufferCells : cells[k] = Boundary}
        last == CHOOSE k \in ends : \A j \in ends : k <= j
    IN  SubSeq(cells, 2, last - 1)

(* PacketReader::readPacket(): the decoded symbols replace the beginning   *)
(* of the receiver's buffer; a packet below the minimal length or with a   *)
(* wrong CRC is an error.                                                  *)
IsPacket(content) ==
    /\ Len(content) = 2
    /\ content[1].of = content[2].of
    /\ content[1].half = 1 /\ content[2].half = 2
Decoded(content) ==
    IF content = << >> THEN receiverBuffer
    ELSE IF IsPacket(content) THEN content[1].of ELSE NoPacket
readPacket_NoLength(content) ==
    IF Decoded(content) = NoPacket THEN << >> ELSE <<Decoded(content)>>
readPacket(content) ==
    IF IsPacket(content) THEN <<Decoded(content)>> ELSE << >>

(* receivePacket() after receive() has found the end of a frame: the       *)
(* response goes to the queue, unless there is one already.                *)
receivePacket(cells) ==
    /\ receiverBuffer' = Decoded(Content(cells))
    /\ mResponseQueue' = IF Len(mResponseQueue) < sizeOfQueue
                         THEN mResponseQueue \o readPacket(Content(cells))
                         ELSE mResponseQueue
    /\ receiver' = Listening

(* receive() stores a symbol behind those it has. *)
Store(symbol) ==
    /\ serialBuffer' = [serialBuffer EXCEPT ![receiver.stored + 1] = symbol]
    /\ receiver' = [startBoundary |-> TRUE, stored |-> receiver.stored + 1,
                    bytesCounter  |-> receiver.bytesCounter + 1]

(* One round of the loop of receive() that reads a symbol in time. *)
receiveSymbol(w) ==
    LET symbol == Head(line[w]) IN
    /\ line[w] # << >>
    /\ line' = [line EXCEPT ![w] = Tail(@)]
    /\ \/ /\ receiver.bytesCounter + 1 > BufferCells
          /\ receiver' = Listening
          /\ UNCHANGED <<serialBuffer, mResponseQueue, receiverBuffer>>
       \/ /\ receiver.bytesCounter + 1 <= BufferCells
          /\ \/ /\ symbol = Boundary /\ receiver.startBoundary
                /\ serialBuffer' = [serialBuffer EXCEPT ![receiver.stored + 1] = symbol]
                /\ receivePacket(serialBuffer')
             \/ /\ symbol = Boundary \/ receiver.startBoundary
                /\ ~ (symbol = Boundary /\ receiver.startBoundary)
                /\ Store(symbol)
                /\ UNCHANGED <<mResponseQueue, receiverBuffer>>
             \/ /\ symbol # Boundary /\ ~ receiver.startBoundary
                /\ receiver' = [receiver EXCEPT !.bytesCounter = @ + 1]
                /\ UNCHANGED <<serialBuffer, mResponseQueue, receiverBuffer>>
    /\ UNCHANGED <<coordinator, atWorker, taken>>

(* A round that finds the time over: the symbol it has just read, if any,  *)
(* is lost, and the next call waits for the beginning of a frame.          *)
receiveTimeOut ==
    /\ receiver' = Listening
    /\ \/ UNCHANGED line
       \/ \E w \in SipWorker : line[w] # << >> /\ line' = [line EXCEPT ![w] = Tail(@)]
    /\ UNCHANGED <<coordinator, mResponseQueue, serialBuffer, atWorker, receiverBuffer,
                   taken>>

SipNext ==
    \/ \E w \in SipWorker :
         sendRequest(w) \/ sendResponse(w) \/ workerSilent(w) \/ receiveSymbol(w)
    \/ transmit \/ transmitError \/ receiveResponseQueue \/ responseError
    \/ receiveTimeOut

(* The coordinator's and the receiver's threads are scheduled; the two     *)
(* timeouts of a call that waits expire in the end.                        *)
SipFairness ==
    /\ WF_sipVars(transmit \/ transmitError)
    /\ WF_sipVars(receiveResponseQueue \/ responseError)
    /\ WF_sipVars(\E w \in SipWorker : receiveSymbol(w))

SipSpec == SipInit /\ [][SipNext]_sipVars /\ SipFairness
-----------------------------------------------------------------------------
(* sendRequest() takes the responses of a worker in the order of their     *)
(* requests, none of them twice and none before its request, also when late*)
(* responses of this and other workers make them lag behind and when       *)
(* timeouts of receive() and other workers' symbols cut frames: two        *)
(* boundaries in a row never bring the packet before them back.  Responses *)
(* of different workers may overtake each other.                           *)
ResponsesInOrder ==
    /\ \A i \in 1 .. Len(taken) : taken[i].data.n <= taken[i].request
    /\ \A i, j \in 1 .. Len(taken) :
         (/\ i < j /\ taken[i].data.workerId = taken[j].data.workerId
          /\ taken[i].data.from = "worker" /\ taken[j].data.from = "worker")
           => taken[i].data.n < taken[j].data.n

(* A late response, of any worker, that is still being received when the   *)
(* next request is encoded into the same buffer can turn into that request;*)
(* what sendRequest() reports as success is a response of the worker it    *)
(* addressed all the same.                                                 *)
SuccessIsFromWorker ==
    \A i \in 1 .. Len(taken) : taken[i].result = "success" =>
        taken[i].data.from = "worker" /\ taken[i].data.workerId = taken[i].worker

(* What sendRequest() returns is in order and, as a success, authentic.    *)
ResponsesSound == ResponsesInOrder /\ SuccessIsFromWorker

(* Every request returns, with a response or without. *)
RequestsReturn == (coordinator.at # "idle") ~> (coordinator.at = "idle")
=============================================================================
