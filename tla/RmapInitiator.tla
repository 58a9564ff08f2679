---------------------------- MODULE RmapInitiator ----------------------------
(***************************************************************************)
(* outpost::comm::RmapInitiator and RmapTransaction (comm, directory       *)
(* rmap): threads of the program read and write the memory of remote       *)
(* targets with commands over SpaceWire.  A command occupies one of a few  *)
(* transaction objects; the thread of the initiator finds the transaction  *)
(* of a reply by the transaction id and wakes the caller.                  *)
(*                                                                         *)
(* mOperationLock is held while a transaction is set up, while a reply is  *)
(* registered and while the transaction is torn down: each of these is one *)
(* step.  Everything else that a caller does runs without a lock.          *)
(*                                                                         *)
(* A packet is abstracted to the number of the call whose address and data *)
(* it carries, its instruction and its transaction id; the number is 0 when*)
(* instruction, address and data are not all of one call.  The link and the*)
(* targets may lose, delay and reorder packets.                            *)
(***************************************************************************)
EXTENDS Integers, FiniteSets

CONSTANTS
    Caller,             \* threads that call read() and write()
    NumSlots,           \* maxConcurrentTransactions
    maxTransactionId,
    ByteRange,          \* values of a byte of a packet
    Kinds,              \* kinds of calls the program makes
    MaxCalls            \* bound on the calls

ASSUME RmapAssumption ==
    /\ NumSlots \in Nat \ {0}
    /\ maxTransactionId \in Nat /\ maxTransactionId >= NumSlots
    /\ ByteRange \in Nat \ {0}
    /\ Kinds \subseteq {"read", "write", "post"}
    /\ MaxCalls \in Nat

VARIABLES
    mTransactions,      \* the transaction objects
    mTransactionId,     \* the id given out last
    mSendBuffer,        \* for each caller in sendPacket(): the commands whose
                        \* bytes its packet in the send buffer may hold
    mCounters,          \* error counters
    calls,              \* number of calls so far
    kind,               \* kind of each call
    ids,                \* transaction id that each call was given, or 0
    result,             \* result of each call
    pc, slot, no,       \* step, transaction and call number of each caller
    commands,           \* commands on their way to a target
    replies,            \* replies on their way back
    sent,               \* calls whose command was ever on its way
    executed,           \* calls whose command a target has executed
    mixed               \* ids that packets mixed from several commands carried

callers == <<pc, slot, no>>
remote  == <<commands, replies, sent, executed, mixed>>
vars == <<mTransactions, mTransactionId, mSendBuffer, mCounters, calls, kind, ids,
          result, callers, remote>>

Slot == 1 .. NumSlots
Tid  == 0 .. maxTransactionId
Call == 1 .. MaxCalls

(* read(), write() with and write() without a reply. *)
Status    == {"executed", "failed"}
NoReply   == [no |-> 0, status |-> "failed"]
Idle      == [tid |-> 0, state |-> "notInitiated", blocking |-> FALSE,
              command |-> 0, reply |-> NoReply, released |-> TRUE]

InitWith(id) ==
    /\ mTransactions = [s \in Slot |-> Idle]
    /\ mTransactionId = id
    /\ mSendBuffer = [c \in Caller |-> {}]
    /\ mCounters = [unknown |-> 0, crc |-> 0, incorrect |-> 0, size |-> 0,
                    failed |-> 0, spacewire |-> 0]
    /\ calls = 0
    /\ kind = [n \in Call |-> "none"]
    /\ ids = [n \in Call |-> 0]
    /\ result = [n \in Call |-> "none"]
    /\ pc = [c \in Caller |-> "idle"]
    /\ slot = [c \in Caller |-> 0]
    /\ no = [c \in Caller |-> 0]
    /\ commands = {}
    /\ replies = {}
    /\ sent = {}
    /\ executed = {}
    /\ mixed = {}

Init == InitWith(0)
-----------------------------------------------------------------------------
(* TransactionsList: all searches go from the first object to the last. *)
isTransactionIdUsed(t) == \E s \in Slot : mTransactions[s].tid = t

getFreeTransaction(s) ==
    /\ mTransactions[s].state = "notInitiated"
    /\ \A r \in 1 .. s - 1 : mTransactions[r].state # "notInitiated"

getTransaction(t, s) ==
    /\ mTransactions[s].tid = t
    /\ \A r \in 1 .. s - 1 : mTransactions[r].tid # t

(* The first unused id behind mTransactionId, around the end of the range; *)
(* the old one again (k = 0) when all the others are in use.               *)
After_Zero(k) == k
After(k) == (mTransactionId + k) % (maxTransactionId + 1)
getNextAvailableTransactionID(k) ==
    \/ /\ k # 0
       /\ ~ isTransactionIdUsed(After(k))
       /\ \A j \in 1 .. k - 1 : isTransactionIdUsed(After(j))
    \/ /\ k = 0
       /\ \A j \in 1 .. maxTransactionId : isTransactionIdUsed(After(j))

(* A call that returns at once: invalid parameters, mOperationLock not     *)
(* obtained in time, or no free transaction.                               *)
Refuse(c, k, code) ==
    /\ pc[c] = "idle"
    /\ calls < MaxCalls
    /\ code = "noFreeTransactions" => \A s \in Slot : ~ getFreeTransaction(s)
    /\ calls' = calls + 1
    /\ kind' = [kind EXCEPT ![calls + 1] = k]
    /\ result' = [result EXCEPT ![calls + 1] = code]
    /\ UNCHANGED <<mTransactions, mTransactionId, mSendBuffer, mCounters, ids, callers,
                   remote>>

(* Under the lock: a transaction is reserved and gets its id. *)
Reserve(c, k) ==
    /\ pc[c] = "idle"
    /\ calls < MaxCalls
    /\ calls' = calls + 1
    /\ kind' = [kind EXCEPT ![calls + 1] = k]
    /\ no' = [no EXCEPT ![c] = calls + 1]
    /\ \E s \in Slot, i \in 0 .. maxTransactionId :
         /\ getFreeTransaction(s)
         /\ getNextAvailableTransactionID(i)
         /\ mTransactions' = [mTransactions EXCEPT ![s].state = "reserved",
                                                  ![s].tid = After(i)]
         /\ mTransactionId' = After(i)
         /\ ids' = [ids EXCEPT ![calls + 1] = After(i)]
         /\ slot' = [slot EXCEPT ![c] = s]
    /\ pc' = [pc EXCEPT ![c] = IF k = "read" THEN "arm" ELSE "configure"]
    /\ UNCHANGED <<mSendBuffer, mCounters, result, remote>>

(* The command packet is filled in; read() does it after the next step,    *)
(* write() before.                                                         *)
Configure(c) ==
    /\ pc[c] = "configure"
    /\ mTransactions' = [mTransactions EXCEPT ![slot[c]].command = no[c]]
    /\ pc' = [pc EXCEPT ![c] = IF kind[no[c]] = "read" THEN "construct" ELSE "arm"]
    /\ UNCHANGED <<mTransactionId, mSendBuffer, mCounters, calls, kind, ids, result, slot, no,
                   remote>>

(* blockTransaction() with a zero timeout. *)
Drained_Not(k, released) == released
Drained(k, released) == IF k = "post" THEN released ELSE FALSE

(* setBlockingMode(); a semaphore that is still released from an earlier   *)
(* use of the object is taken.                                             *)
Arm(c) ==
    /\ pc[c] = "arm"
    /\ mTransactions' =
         [mTransactions EXCEPT
            ![slot[c]].blocking = kind[no[c]] # "post",
            ![slot[c]].released = Drained(kind[no[c]], @)]
    /\ pc' = [pc EXCEPT ![c] = IF kind[no[c]] = "read" THEN "configure" ELSE "construct"]
    /\ UNCHANGED <<mTransactionId, mSendBuffer, mCounters, calls, kind, ids, result, slot, no,
                   remote>>

(* sendPacket(), first half: constructPacket() writes the command with its *)
(* transaction id into mSendBuffer, which all callers share without a lock.*)
(* A caller that has yet to send may still be writing: its bytes and those *)
(* of this caller go over each other.                                      *)
Command(c) == [no   |-> mTransactions[slot[c]].command,
               kind |-> kind[mTransactions[slot[c]].command],
               tid  |-> mTransactions[slot[c]].tid]
Others(c) == {d \in Caller \ {c} : pc[d] = "send"}
Over(c, written) ==
    [d \in Caller |-> mSendBuffer[d] \cup (IF d \in Others(c) THEN written ELSE {})]

Construct(c) ==
    /\ pc[c] = "construct"
    /\ mSendBuffer' = [Over(c, {Command(c)}) EXCEPT
                         ![c] = {Command(d) : d \in Others(c) \cup {c}}]
    /\ pc' = [pc EXCEPT ![c] = "send"]
    /\ UNCHANGED <<mTransactions, mTransactionId, mCounters, calls, kind, ids, result, slot, no,
                   remote>>

(* The packet does not fit into the buffer: nothing is written, or, for a  *)
(* write, its header is there already.                                     *)
ConstructFails(c) ==
    /\ pc[c] = "construct"
    /\ \E written \in {{}} \cup (IF kind[no[c]] = "read" THEN {}
                                ELSE {{[Command(c) EXCEPT !.no = 0]}}) :
         mSendBuffer' = Over(c, written)
    /\ result' = [result EXCEPT ![no[c]] = "sendFailed"]
    /\ mCounters' = [mCounters EXCEPT !.spacewire = @ + 1]
    /\ pc' = [pc EXCEPT ![c] = "teardown"]
    /\ UNCHANGED <<mTransactions, mTransactionId, calls, kind, ids, slot, no, remote>>

(* SpaceWire does not send the packet. *)
SendFails(c) ==
    /\ pc[c] = "send"
    /\ mSendBuffer' = [mSendBuffer EXCEPT ![c] = {}]
    /\ result' = [result EXCEPT ![no[c]] = "sendFailed"]
    /\ mCounters' = [mCounters EXCEPT !.spacewire = @ + 1]
    /\ pc' = [pc EXCEPT ![c] = "teardown"]
    /\ UNCHANGED <<mTransactions, mTransactionId, calls, kind, ids, slot, no, remote>>

OnItsWay(p, c) == [no |-> p.no, kind |-> p.kind, tid |-> p.tid, by |-> no[c]]

(* The packets that the bytes of some commands can make up.  The CRCs of   *)
(* header and data are calculated apart, that of the header over the       *)
(* shared buffer, and do not tell a mixed packet: each of instruction,     *)
(* address, data and byte of the id may come from another command.         *)
Joined(t, u) == (t \div ByteRange) * ByteRange + (u % ByteRange)
Mixtures(written) ==
    {[no |-> 0, kind |-> z.kind, tid |-> Joined(x.tid, y.tid)] :
        x \in written, y \in written, z \in written}

(* sendPacket(), second half: what is in the buffer goes out, one of the   *)
(* commands or a mixture; a target ignores a mixture that is not a command.*)
(* A write() without reply has succeeded.                                  *)
Send(c) ==
    /\ pc[c] = "send"
    /\ \/ \E p \in mSendBuffer[c] :
            /\ commands' = commands \cup {OnItsWay(p, c)}
            /\ sent' = sent \cup {p.no}
            /\ mixed' = IF p.no = 0 THEN mixed \cup {p.tid} ELSE mixed
       \/ /\ \E x, y \in mSendBuffer[c] : x # y
          /\ sent' = sent \cup {x.no : x \in mSendBuffer[c]}
          /\ \/ \E p \in Mixtures(mSendBuffer[c]) :
                  /\ commands' = commands \cup {OnItsWay(p, c)}
                  /\ mixed' = mixed \cup {p.tid}
             \/ UNCHANGED <<commands, mixed>>
    /\ mSendBuffer' = [mSendBuffer EXCEPT ![c] = {}]
    /\ \/ /\ kind[no[c]] = "post"
          /\ result' = [result EXCEPT ![no[c]] = "success"]
          /\ pc' = [pc EXCEPT ![c] = "teardown"]
       \/ /\ kind[no[c]] # "post"
          /\ pc' = [pc EXCEPT ![c] = "wait"]
          /\ UNCHANGED result
    /\ UNCHANGED <<mTransactions, mTransactionId, mCounters, calls, kind, ids, slot, no,
                   replies, executed>>

(* blockTransaction(timeout): the semaphore, or the timeout. *)
Woken(c) ==
    /\ pc[c] = "wait"
    /\ mTransactions[slot[c]].released
    /\ mTransactions' = [mTransactions EXCEPT ![slot[c]].released = FALSE]
    /\ pc' = [pc EXCEPT ![c] = "state"]
    /\ UNCHANGED <<mTransactionId, mSendBuffer, mCounters, calls, kind, ids, result, slot, no,
                   remote>>

TimedOut_Never(c) == Woken(c)
TimedOut(c) ==
    /\ pc[c] = "wait"
    /\ pc' = [pc EXCEPT ![c] = "state"]
    /\ UNCHANGED <<mTransactions, mTransactionId, mSendBuffer, mCounters, calls, kind, ids,
                   result, slot, no, remote>>

(* The state decides, whatever has ended the wait. *)
GetState(c) ==
    /\ pc[c] = "state"
    /\ \/ /\ mTransactions[slot[c]].state = "replyReceived"
          /\ pc' = [pc EXCEPT ![c] = "reply"]
          /\ UNCHANGED result
       \/ /\ mTransactions[slot[c]].state # "replyReceived"
          /\ result' = [result EXCEPT ![no[c]] = "timeout"]
          /\ pc' = [pc EXCEPT ![c] = "teardown"]
    /\ UNCHANGED <<mTransactions, mTransactionId, mSendBuffer, mCounters, calls, kind, ids, slot,
                   no, remote>>

(* The reply packet is evaluated; that of a read() has as many data as     *)
(* were asked for, or less, or more.  A failure that the target reports is *)
(* counted as mOperationFailed by read() and as mPackageCrcError by        *)
(* write(); a reply with too many data as mIncorrectOperation.             *)
Evaluate(k, status) ==
    IF status = "failed" THEN {"executionFailed"}
    ELSE {"success"} \cup (IF k = "read" THEN {"replyTooShort", "invalidReply"} ELSE {})

CountReply(k, code) ==
    [mCounters EXCEPT
       !.failed    = IF code = "executionFailed" /\ k = "read" THEN @ + 1 ELSE @,
       !.crc       = IF code = "executionFailed" /\ k = "write" THEN @ + 1 ELSE @,
       !.incorrect = IF code = "invalidReply" THEN @ + 1 ELSE @]

GetReply(c) ==
    /\ pc[c] = "reply"
    /\ \E code \in Evaluate(kind[no[c]], mTransactions[slot[c]].reply.status) :
         /\ result' = [result EXCEPT ![no[c]] = code]
         /\ mCounters' = CountReply(kind[no[c]], code)
    /\ pc' = [pc EXCEPT ![c] = "teardown"]
    /\ UNCHANGED <<mTransactions, mTransactionId, mSendBuffer, calls, kind, ids, slot, no, remote>>

(* removeTransaction(): the first transaction with the id of the caller's  *)
(* one is reset; its semaphore stays as it is.                             *)
Reset_KeepsState(s) ==
    [Idle EXCEPT !.released = mTransactions[s].released, !.state = mTransactions[s].state]
Reset(s) == [Idle EXCEPT !.released = mTransactions[s].released]

Teardown(c) ==
    /\ pc[c] = "teardown"
    /\ \E s \in Slot :
         /\ getTransaction(mTransactions[slot[c]].tid, s)
         /\ mTransactions' = [mTransactions EXCEPT ![s] = Reset(s)]
    /\ pc' = [pc EXCEPT ![c] = "idle"]
    /\ slot' = [slot EXCEPT ![c] = 0]
    /\ no' = [no EXCEPT ![c] = 0]
    /\ UNCHANGED <<mTransactionId, mSendBuffer, mCounters, calls, kind, ids, result, remote>>
-----------------------------------------------------------------------------
(* doSingleStep() of the thread of the initiator: a reply that cannot be   *)
(* extracted is dropped, with or without being counted.                    *)
Discard(r) ==
    /\ replies' = replies \ {r}
    /\ \/ mCounters' = [mCounters EXCEPT !.crc = @ + 1]
       \/ mCounters' = [mCounters EXCEPT !.size = @ + 1]
       \/ UNCHANGED mCounters
    /\ UNCHANGED <<mTransactions, mTransactionId, mSendBuffer, calls, kind, ids, result, callers,
                   commands, sent, executed, mixed>>

(* handleReplyPacket(): no transaction has the id of the reply ... *)
HandleUnknown(r) ==
    /\ \A s \in Slot : ~ getTransaction(r.tid, s)
    /\ mCounters' = [mCounters EXCEPT !.unknown = @ + 1]
    /\ replies' = replies \ {r}
    /\ UNCHANGED <<mTransactions, mTransactionId, mSendBuffer, calls, kind, ids, result, callers,
                   commands, sent, executed, mixed>>

(* ... the reply answers another instruction ... *)
Fits(r, s) ==
    mTransactions[s].command # 0 /\ kind[mTransactions[s].command] = r.kind

HandleMismatch(r) ==
    /\ \E s \in Slot : getTransaction(r.tid, s) /\ ~ Fits(r, s)
    /\ mCounters' = [mCounters EXCEPT !.incorrect = @ + 1]
    /\ replies' = replies \ {r}
    /\ UNCHANGED <<mTransactions, mTransactionId, mSendBuffer, calls, kind, ids, result, callers,
                   commands, sent, executed, mixed>>

(* ... or it is registered and a blocked caller is woken. *)
HandleReply(r) ==
    /\ \E s \in Slot :
         /\ getTransaction(r.tid, s)
         /\ Fits(r, s)
         /\ mTransactions' = [mTransactions EXCEPT
                ![s].reply = [no |-> r.no, status |-> r.status],
                ![s].state = "replyReceived",
                ![s].released = @ \/ mTransactions[s].blocking]
    /\ replies' = replies \ {r}
    /\ UNCHANGED <<mTransactionId, mSendBuffer, mCounters, calls, kind, ids, result, callers,
                   commands, sent, executed, mixed>>

Receive(r) == Discard(r) \/ HandleUnknown(r) \/ HandleMismatch(r) \/ HandleReply(r)

(* A target executes a command, or fails to, and answers unless no reply   *)
(* is wanted; a command or a reply that is lost never gets any further.    *)
Execute(m) ==
    /\ commands' = commands \ {m}
    /\ \E status \in Status :
         /\ executed' = IF status = "failed" THEN executed ELSE executed \cup {m.no}
         /\ replies' = replies \cup
              (IF m.kind = "post" THEN {}
               ELSE {[no |-> m.no, kind |-> m.kind, tid |-> m.tid, by |-> m.by,
                      status |-> status]})
    /\ UNCHANGED <<mTransactions, mTransactionId, mSendBuffer, mCounters, calls, kind, ids,
                   result, callers, sent, mixed>>
-----------------------------------------------------------------------------
Refusal == {"invalidParameters", "lockingError", "noFreeTransactions"}

Proceed(c) ==
    \/ Configure(c) \/ Arm(c) \/ Construct(c) \/ ConstructFails(c) \/ Send(c)
    \/ SendFails(c) \/ Woken(c) \/ TimedOut(c) \/ GetState(c) \/ GetReply(c) \/ Teardown(c)

Next ==
    \/ \E c \in Caller :
         \/ \E k \in Kinds : Reserve(c, k) \/ \E code \in Refusal : Refuse(c, k, code)
         \/ Proceed(c)
    \/ \E m \in commands : Execute(m)
    \/ \E r \in replies : Receive(r)

(* A caller inside a call is scheduled again, and its wait is bounded by   *)
(* the timeout.                                                            *)
Spec == Init /\ [][Next]_vars /\ \A c \in Caller : WF_vars(Proceed(c))
-----------------------------------------------------------------------------
TypeOK ==
    /\ mTransactions \in [Slot ->
         [tid : Tid, state : {"notInitiated", "reserved", "replyReceived"},
          blocking : BOOLEAN, command : 0 .. MaxCalls,
          reply : [no : 0 .. MaxCalls, status : Status], released : BOOLEAN]]
    /\ mTransactionId \in Tid
    /\ mSendBuffer \in [Caller -> SUBSET [no : 0 .. MaxCalls, kind : Kinds, tid : Tid]]
    /\ calls \in 0 .. MaxCalls
    /\ kind \in [Call -> Kinds \cup {"none"}]
    /\ ids \in [Call -> Tid]
    /\ slot \in [Caller -> 0 .. NumSlots]
    /\ no \in [Caller -> 0 .. MaxCalls]

(* Transactions in use have different ids, and none has the id 0 of the    *)
(* free objects: a reply and a removeTransaction() find the right one.     *)
TransactionIdsUnique ==
    \A s, r \in Slot :
        (mTransactions[s].state # "notInitiated" /\ r # s) =>
            mTransactions[s].tid # 0 /\ mTransactions[r].tid # mTransactions[s].tid

(* A transaction is in use exactly while one call works with it: none is   *)
(* shared, none is lost when replies, timeouts and teardowns overlap.      *)
TransactionsOwned ==
    \A s \in Slot :
        Cardinality({c \in Caller : pc[c] # "idle" /\ slot[c] = s}) =
            IF mTransactions[s].state = "notInitiated" THEN 0 ELSE 1

(* The list of transactions is sound whichever of callers, receiver and    *)
(* timeouts comes first: unique ids, one owner for each transaction.       *)
TransactionsSound == TypeOK /\ TransactionIdsUnique /\ TransactionsOwned

(* A caller waiting for its reply finds the semaphore released only when   *)
(* a reply is registered: a release left behind by an earlier call on the  *)
(* same object, or by a second reply to it, does not end the wait.         *)
WakeupMeansReply ==
    \A c \in Caller :
        (pc[c] = "wait" /\ mTransactions[slot[c]].released) =>
            mTransactions[slot[c]].state = "replyReceived"

(* While ids are not reused, the reply in a transaction belongs to the     *)
(* call that owns it, and a confirmed call was executed by the target,     *)
(* unless two callers in the send buffer have made up a packet with the id *)
(* of that very call: what mixed packets do stays with the ids they carry. *)
RepliesMatch ==
    /\ \A c \in Caller :
         (pc[c] = "reply" /\ mTransactions[slot[c]].tid \notin mixed) =>
             mTransactions[slot[c]].reply.no = no[c]
    /\ \A n \in Call :
         (result[n] = "success" /\ kind[n] # "post" /\ ids[n] \notin mixed) => n \in executed

(* A write() without reply that returns success has sent its command.      *)
PostedCommandsSent ==
    \A n \in Call : (result[n] = "success" /\ kind[n] = "post") => n \in sent

(* Every call returns, whether a reply arrives or not. *)
CallsReturn == \A c \in Caller : (pc[c] # "idle") ~> (pc[c] = "idle")
=============================================================================
