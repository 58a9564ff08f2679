---------------------------- MODULE Comm_proofs -----------------------------
(***************************************************************************)
(* The two request and reply protocols, for any number of callers, workers,*)
(* transaction objects, ids, calls and frames.                             *)
(*                                                                         *)
(* RMAP.  A transaction that is in use has exactly one owner (Owners), and *)
(* its id is not that of any other object, because                         *)
(* getNextAvailableTransactionID() finds an unused id whenever an object is*)
(* free: there are more ids than objects, and the id 0 is the one of the   *)
(* free object (NextIdUnused).  removeTransaction(), which searches by id, *)
(* therefore removes the caller's own transaction.  Each call has an id of *)
(* its own (FreshIds), and a packet that is not mixed carries the number   *)
(* of a call together with the id of that call (Carried); a reply that     *)
(* finds a transaction by an id that no mixture has carried is therefore   *)
(* the reply to its owner's command (Answered).                            *)
(*                                                                         *)
(* sip.  The numbers of the responses of one worker grow along their whole *)
(* way, from the worker over the line and the shared buffer to the queue,  *)
(* so the second half of a packet is never followed by a symbol of the     *)
(* same or an older packet of that worker (StoredOrdered): no frame can    *)
(* bring a packet back, wherever other workers' symbols cut in.            *)
(***************************************************************************)
EXTENDS RmapInitiator, SipLink, FiniteSetTheorems, WellFoundedInduction, TLAPS

(* The RMAP initiator *)

Pc == {"idle", "arm", "configure", "construct", "send", "wait", "state", "reply", "teardown"}
CallResult == {"none", "success", "executionFailed", "replyTooShort", "invalidReply",
           "timeout", "sendFailed"} \cup Refusal
Transaction ==
    [tid : Tid, state : {"notInitiated", "reserved", "replyReceived"},
     blocking : BOOLEAN, command : 0 .. MaxCalls,
     reply : [no : 0 .. MaxCalls, status : Status], released : BOOLEAN]
BufferContent == [no : 0 .. MaxCalls, kind : Kinds, tid : Tid]

RmapTypes ==
    /\ TypeOK
    /\ pc \in [Caller -> Pc]
    /\ result \in [Call -> CallResult]
    /\ \A m \in commands : m.no \in 0 .. MaxCalls
    /\ \A r \in replies : r.no \in 0 .. MaxCalls /\ r.status \in Status

Busy(c) == pc[c] # "idle"

(* Free objects are empty; those in use and the callers inside a call      *)
(* correspond one to one.                                                  *)
Owners ==
    /\ \A s \in Slot : mTransactions[s].state = "notInitiated" =>
         mTransactions[s].tid = 0 /\ mTransactions[s].command = 0
    /\ \A c \in Caller : Busy(c) =>
         /\ slot[c] \in Slot
         /\ mTransactions[slot[c]].state # "notInitiated"
         /\ no[c] \in 1 .. calls
    /\ \A c, d \in Caller : (Busy(c) /\ Busy(d) /\ slot[c] = slot[d]) => c = d
    /\ \A s \in Slot : mTransactions[s].state # "notInitiated" =>
         \E c \in Caller : Busy(c) /\ slot[c] = s

(* Callers that have been through Arm and not yet through the wait. *)
Armed(c) ==
    \/ pc[c] \in {"construct", "send", "wait"}
    \/ pc[c] = "configure" /\ kind[no[c]] = "read"

(* A release of the semaphore of an armed transaction came with a reply. *)
Waits ==
    \A c \in Caller :
        /\ pc[c] = "wait" => kind[no[c]] # "post"
        /\ (Armed(c) /\ kind[no[c]] # "post" /\ mTransactions[slot[c]].released) =>
               mTransactions[slot[c]].state = "replyReceived"

(* A transaction holds the command of its owner once it is configured. *)
HasCommand(q, k) == q \in {"construct", "send"} \/ (q = "arm" /\ k # "read")
Configured ==
    /\ \A n \in 1 .. calls : kind[n] \in Kinds
    /\ \A c \in Caller :
         HasCommand(pc[c], kind[no[c]]) => mTransactions[slot[c]].command = no[c]

RmapInv ==
    /\ RmapTypes
    /\ Owners
    /\ TransactionIdsUnique
    /\ Waits
    /\ Configured

(* Ids are given out upwards, each to one call, and a transaction in use   *)
(* has the id of its owner's call.                                         *)
FreshIds ==
    /\ mTransactionId <= calls
    /\ \A n \in Call : ids[n] <= mTransactionId /\ (n > calls => ids[n] = 0)
    /\ \A n, m \in Call : (ids[n] = ids[m] /\ ids[n] # 0) => n = m
    /\ \A c \in Caller : Busy(c) =>
         mTransactions[slot[c]].tid = ids[no[c]] /\ ids[no[c]] # 0

(* What carries the number of a call carries its id; what is on its way    *)
(* without a number was mixed, and its id is known as that of a mixture.   *)
Carries(m) == m.no \in 1 .. calls /\ ids[m.no] = m.tid
Carried ==
    /\ \A d \in Caller : \A p \in mSendBuffer[d] : p.no = 0 \/ Carries(p)
    /\ \A m \in commands \cup replies : m.tid \in mixed \/ Carries(m)

(* A transaction holds the reply to its owner's command unless packets     *)
(* with its id were mixed, and a reply other than a failure was sent after *)
(* the target had executed the command.                                    *)
Holds(c, t) ==
    (t.state = "replyReceived" /\ t.tid \notin mixed) =>
        /\ t.reply.no = no[c]
        /\ t.reply.status # "failed" => no[c] \in executed
Answered ==
    /\ \A c \in Caller : Busy(c) => Holds(c, mTransactions[slot[c]])
    /\ \A c \in Caller : pc[c] = "reply" => mTransactions[slot[c]].state = "replyReceived"
    /\ \A r \in replies : r.status # "failed" => r.no \in executed

Confirmed ==
    /\ \A n \in Call :
         (result[n] = "success" /\ kind[n] # "post" /\ ids[n] \notin mixed) => n \in executed
    /\ \A n \in Call : n > calls => result[n] = "none"

MatchInv == FreshIds /\ Carried /\ Answered /\ Confirmed
-----------------------------------------------------------------------------
(* Around the end of the range the remainder is a conditional subtraction. *)
LEMMA Wrap ==
    ASSUME NEW n \in Nat, n >= 1, NEW i \in 0 .. 2 * n - 1
    PROVE  i % n = IF i >= n THEN i - n ELSE i
<1>1. CASE i < n
  BY <1>1
<1>2. CASE i >= n
  <2>1. i = n * 1 + (i - n) /\ i - n \in 0 .. n - 1
    BY <1>2
  <2> QED BY <1>2, <2>1
<1> QED BY <1>1, <1>2

(* What the id at distance k from the last one is. *)
LEMMA AfterIs ==
    ASSUME mTransactionId \in Tid, NEW k \in 0 .. maxTransactionId
    PROVE  /\ After(k) \in Tid
           /\ After(k) = IF mTransactionId + k > maxTransactionId
                         THEN mTransactionId + k - maxTransactionId - 1
                         ELSE mTransactionId + k
<1> DEFINE n == maxTransactionId + 1
           i == mTransactionId + k
<1>1. /\ n \in Nat /\ n >= 1 /\ i \in 0 .. 2 * n - 1
      /\ mTransactionId \in 0 .. maxTransactionId /\ maxTransactionId \in Nat
  BY RmapAssumption DEF Tid
<1>2. After(k) = i % n
  BY DEF After
<1>3. i % n = IF i >= n THEN i - n ELSE i
  <2> HIDE DEF n, i
  <2> QED BY <1>1, Wrap
<1> QED BY <1>1, <1>2, <1>3 DEF Tid

(* Every id but the last one is at some distance. *)
LEMMA AfterReaches ==
    ASSUME mTransactionId \in Tid, NEW t \in Tid, t # mTransactionId
    PROVE  \E k \in 1 .. maxTransactionId : After(k) = t
<1> DEFINE k == IF t > mTransactionId THEN t - mTransactionId
                                      ELSE t - mTransactionId + maxTransactionId + 1
<1>1. maxTransactionId \in Nat
  BY RmapAssumption
<1>2. k \in 1 .. maxTransactionId
  BY <1>1 DEF Tid
<1>3. t = IF mTransactionId + k > maxTransactionId
          THEN mTransactionId + k - maxTransactionId - 1
          ELSE mTransactionId + k
  BY <1>1 DEF Tid
<1> HIDE DEF k
<1>4. After(k) = t
  BY <1>1, <1>2, <1>3, AfterIs
<1> QED BY <1>2, <1>4

(* There are more ids than transaction objects. *)
LEMMA SomeIdUnused ==
    ASSUME \A s \in Slot : mTransactions[s].tid \in Tid
    PROVE  \E t \in Tid : ~ isTransactionIdUsed(t)
<1>1. SUFFICES ASSUME \A t \in Tid : isTransactionIdUsed(t) PROVE FALSE
  OBVIOUS
<1> DEFINE f == [s \in Slot |-> mTransactions[s].tid]
<1>2. f \in Surjection(Slot, Tid)
  BY <1>1 DEF isTransactionIdUsed, Surjection
<1>3. NumSlots \in Nat /\ maxTransactionId \in Nat /\ NumSlots <= maxTransactionId
      /\ NumSlots >= 1
  BY RmapAssumption
<1>4. IsFiniteSet(Slot) /\ Cardinality(Slot) = NumSlots
  BY <1>3, FS_Interval DEF Slot
<1>5. Cardinality(Tid) = maxTransactionId + 1
  BY <1>3, FS_Interval DEF Tid
<1> HIDE DEF f
<1>6. Cardinality(Tid) <= Cardinality(Slot)
  BY <1>2, <1>4, FS_Surjection
<1> QED BY <1>3, <1>4, <1>5, <1>6

(* getNextAvailableTransactionID() returns an unused id when some object   *)
(* is free, and not the id of the free objects.                            *)
LEMMA NextIdUnused ==
    ASSUME RmapInv, NEW s \in Slot, mTransactions[s].state = "notInitiated",
           NEW k \in 0 .. maxTransactionId, getNextAvailableTransactionID(k)
    PROVE  /\ After(k) \in Tid /\ After(k) # 0
           /\ \A r \in Slot : mTransactions[r].tid # After(k)
<1>1. mTransactionId \in Tid /\ \A r \in Slot : mTransactions[r].tid \in Tid
  BY DEF RmapInv, RmapTypes, TypeOK
<1>2. After(k) \in Tid
  BY <1>1, AfterIs
<1>3. ~ isTransactionIdUsed(After(k))
  <2>1. CASE k # 0
    BY <2>1 DEF getNextAvailableTransactionID
  <2>2. CASE k = 0
    <3>1. \A j \in 1 .. maxTransactionId : isTransactionIdUsed(After(j))
      BY <2>2 DEF getNextAvailableTransactionID
    <3>2. PICK t \in Tid : ~ isTransactionIdUsed(t)
      BY <1>1, SomeIdUnused
    <3>3. t = mTransactionId
      BY <1>1, <3>1, <3>2, AfterReaches
    <3>4. After(0) = mTransactionId
      BY <1>1, AfterIs, RmapAssumption DEF Tid
    <3> QED BY <2>2, <3>2, <3>3, <3>4
  <2> QED BY <2>1, <2>2
<1>4. isTransactionIdUsed(0)
  BY DEF RmapInv, Owners, isTransactionIdUsed
<1> QED BY <1>2, <1>3, <1>4 DEF isTransactionIdUsed
-----------------------------------------------------------------------------
(* Types of the state, in the form the steps below use them. *)
LEMMA RmapFacts ==
    ASSUME RmapInv
    PROVE  /\ mTransactions \in [Slot -> Transaction]
           /\ mTransactionId \in Tid
           /\ mSendBuffer \in [Caller -> SUBSET BufferContent]
           /\ ids \in [Call -> Tid]
           /\ calls \in 0 .. MaxCalls /\ MaxCalls \in Nat
           /\ kind \in [Call -> Kinds \cup {"none"}]
           /\ slot \in [Caller -> 0 .. NumSlots]
           /\ no \in [Caller -> 0 .. MaxCalls]
           /\ pc \in [Caller -> Pc]
           /\ result \in [Call -> CallResult]
BY RmapAssumption DEF RmapInv, RmapTypes, TypeOK, Transaction, BufferContent

LEMMA RmapInit == Init => RmapInv
<1> SUFFICES ASSUME Init PROVE RmapInv
  OBVIOUS
<1> USE DEF Init, InitWith
<1>0. MaxCalls \in Nat /\ maxTransactionId \in Nat /\ NumSlots \in Nat
  BY RmapAssumption
<1>1. Idle \in Transaction
  BY <1>0 DEF Idle, Transaction, Tid, NoReply, Status
<1>2. mTransactions \in [Slot -> Transaction]
  BY <1>0, <1>1
<1>3. RmapTypes
  BY <1>0, <1>2 DEF RmapTypes, TypeOK, Transaction, Tid, Pc, CallResult
<1>4. Owners /\ TransactionIdsUnique /\ Waits
  BY DEF Owners, TransactionIdsUnique, Waits, Busy, Armed, Idle
<1>5. Configured
  BY DEF Configured, HasCommand
<1> QED BY <1>3, <1>4, <1>5 DEF RmapInv

(* A caller goes on within its call: its transaction keeps id and state,   *)
(* the others are not touched.                                             *)
LEMMA CallerStep ==
    ASSUME RmapInv, NEW c \in Caller, Busy(c),
           NEW q \in Pc \ {"idle"}, pc' = [pc EXCEPT ![c] = q],
           UNCHANGED <<calls, kind, slot, no>>,
           mTransactions' \in [Slot -> Transaction],
           \A s \in Slot \ {slot[c]} : mTransactions'[s] = mTransactions[s],
           mTransactions'[slot[c]].tid = mTransactions[slot[c]].tid,
           mTransactions'[slot[c]].state = mTransactions[slot[c]].state,
           q = "wait" => kind[no[c]] # "post",
           (/\ q \in {"construct", "send", "wait"} \/ (q = "configure" /\ kind[no[c]] = "read")
            /\ kind[no[c]] # "post" /\ mTransactions'[slot[c]].released)
              => mTransactions[slot[c]].state = "replyReceived",
           HasCommand(q, kind[no[c]]) => mTransactions'[slot[c]].command = no[c]
    PROVE  Owners' /\ TransactionIdsUnique' /\ Waits' /\ Configured' /\ pc' \in [Caller -> Pc]
             /\ slot[c] \in Slot
<1>1. slot[c] \in Slot /\ mTransactions[slot[c]].state # "notInitiated"
  BY DEF RmapInv, Owners
<1>2. pc' \in [Caller -> Pc] /\ \A d \in Caller : pc'[d] = IF d = c THEN q ELSE pc[d]
  BY RmapFacts
<1>3. \A d \in Caller : Busy(d)' <=> Busy(d)
  BY <1>2 DEF Busy
<1>4. \A s \in Slot : /\ mTransactions'[s].tid = mTransactions[s].tid
                      /\ mTransactions'[s].state = mTransactions[s].state
  OBVIOUS
<1>5. Owners'
  BY <1>1, <1>3, <1>4 DEF RmapInv, Owners
<1>6. TransactionIdsUnique'
  BY <1>4 DEF RmapInv, TransactionIdsUnique
<1>7. Waits'
  <2>1. SUFFICES ASSUME NEW d \in Caller
                 PROVE  /\ pc'[d] = "wait" => kind[no[d]] # "post"
                        /\ (Armed(d)' /\ kind[no[d]] # "post"
                              /\ mTransactions'[slot[d]].released) =>
                             mTransactions'[slot[d]].state = "replyReceived"
    BY DEF Waits
  <2>2. CASE d = c
    BY <1>1, <1>2, <1>4, <2>2 DEF Armed
  <2>3. CASE d # c /\ ~ Busy(d)
    BY <1>2, <2>3 DEF Armed, Busy
  <2>4. CASE d # c /\ Busy(d)
    <3>1. slot[d] \in Slot \ {slot[c]}
      BY <2>4 DEF RmapInv, Owners
    <3>2. mTransactions'[slot[d]] = mTransactions[slot[d]] /\ pc'[d] = pc[d]
      BY <1>2, <2>4, <3>1
    <3>3. Armed(d)' <=> Armed(d)
      BY <3>2 DEF Armed
    <3> QED BY <3>2, <3>3 DEF RmapInv, Waits
  <2> QED BY <2>2, <2>3, <2>4
<1>8. Configured'
  <2>1. SUFFICES ASSUME NEW d \in Caller, HasCommand(pc'[d], kind[no[d]])
                 PROVE  mTransactions'[slot[d]].command = no[d]
    BY DEF RmapInv, Configured, HasCommand
  <2>2. CASE d = c
    BY <1>2, <2>1, <2>2
  <2>3. CASE d # c
    <3>1. Busy(d)
      BY <1>2, <2>1, <2>3 DEF Busy, HasCommand
    <3>2. slot[d] \in Slot \ {slot[c]}
      BY <2>3, <3>1 DEF RmapInv, Owners
    <3> QED BY <1>2, <2>1, <2>3, <3>2 DEF RmapInv, Configured
  <2> QED BY <2>2, <2>3
<1> QED BY <1>1, <1>2, <1>5, <1>6, <1>7, <1>8

LEMMA ConfigureStep ==
    ASSUME RmapInv, NEW c \in Caller, Configure(c)
    PROVE  RmapInv'
<1> USE DEF Configure
<1> DEFINE t == mTransactions[slot[c]]
           new == [t EXCEPT !.command = no[c]]
           q == IF kind[no[c]] = "read" THEN "construct" ELSE "arm"
<1>1. Busy(c) /\ slot[c] \in Slot
  BY DEF Busy, RmapInv, Owners
<1>2. t \in Transaction /\ no[c] \in 0 .. MaxCalls
  BY <1>1, RmapFacts
<1>3. /\ new \in Transaction /\ new.tid = t.tid /\ new.state = t.state
      /\ new.released = t.released /\ new.command = no[c]
  BY <1>2 DEF Transaction
<1>4. mTransactions' = [mTransactions EXCEPT ![slot[c]] = new]
  OBVIOUS
<1>5. pc' = [pc EXCEPT ![c] = q] /\ q \in Pc \ {"idle", "wait"}
  BY DEF Pc
<1> HIDE DEF new
<1>6. /\ mTransactions' \in [Slot -> Transaction] /\ mTransactions'[slot[c]] = new
      /\ \A s \in Slot \ {slot[c]} : mTransactions'[s] = mTransactions[s]
  BY <1>1, <1>3, <1>4, RmapFacts
<1>7. (q = "construct" /\ t.released) => t.state = "replyReceived"
  <2>1. q = "construct" => Armed(c) /\ kind[no[c]] # "post"
    BY DEF Armed
  <2> QED BY <2>1 DEF RmapInv, Waits
<1>8. Owners' /\ TransactionIdsUnique' /\ Waits' /\ Configured' /\ pc' \in [Caller -> Pc]
  <2>1. q # "configure" /\ q # "send" /\ q # "wait"
    OBVIOUS
  <2>2. /\ mTransactions'[slot[c]].tid = mTransactions[slot[c]].tid
        /\ mTransactions'[slot[c]].state = mTransactions[slot[c]].state
        /\ (q = "construct" /\ mTransactions'[slot[c]].released)
             => mTransactions[slot[c]].state = "replyReceived"
        /\ mTransactions'[slot[c]].command = no[c]
    BY <1>3, <1>6, <1>7
  <2>3. UNCHANGED <<calls, kind, slot, no>>
    OBVIOUS
  <2> HIDE DEF q, Configure
  <2> QED BY <1>1, <1>5, <1>6, <2>1, <2>2, <2>3, CallerStep
<1>9. RmapTypes'
  BY <1>6, <1>8 DEF RmapInv, RmapTypes, TypeOK, Transaction, remote
<1> QED BY <1>8, <1>9 DEF RmapInv

(* A semaphore that is still released is taken; only then does the caller  *)
(* count as armed.                                                         *)
LEMMA ArmStep ==
    ASSUME RmapInv, NEW c \in Caller, Arm(c)
    PROVE  RmapInv'
<1> USE DEF Arm
<1> DEFINE t == mTransactions[slot[c]]
           b == kind[no[c]] # "post"
           d == Drained(kind[no[c]], t.released)
           new == [t EXCEPT !.blocking = b, !.released = d]
           q == IF kind[no[c]] = "read" THEN "configure" ELSE "construct"
<1>1. Busy(c) /\ slot[c] \in Slot
  BY DEF Busy, RmapInv, Owners
<1>2. t \in Transaction /\ t.released \in BOOLEAN
  BY <1>1, RmapFacts DEF Transaction
<1>3. b \in BOOLEAN /\ d \in BOOLEAN
  BY <1>2 DEF Drained
<1>4. kind[no[c]] # "post" => d = FALSE
  BY DEF Drained
<1>5. mTransactions' = [mTransactions EXCEPT ![slot[c]] = new]
  BY <1>1, RmapFacts
<1>6. pc' = [pc EXCEPT ![c] = q] /\ q \in Pc \ {"idle", "wait"}
  BY DEF Pc
<1>7. /\ new \in Transaction /\ new.tid = t.tid /\ new.state = t.state
      /\ new.released = d /\ new.command = t.command
  <2> HIDE DEF b, d
  <2> QED BY <1>2, <1>3 DEF Transaction
<1> HIDE DEF new, d, b, q
<1>8. /\ mTransactions' \in [Slot -> Transaction] /\ mTransactions'[slot[c]] = new
      /\ \A s \in Slot \ {slot[c]} : mTransactions'[s] = mTransactions[s]
  <2>1. mTransactions \in [Slot -> Transaction]
    BY RmapFacts
  <2> HIDE DEF Arm
  <2> QED BY <1>1, <1>5, <1>7, <2>1
<1>9. Owners' /\ TransactionIdsUnique' /\ Waits' /\ Configured' /\ pc' \in [Caller -> Pc]
  <2>1. HasCommand(q, kind[no[c]]) => mTransactions'[slot[c]].command = no[c]
    BY <1>7, <1>8 DEF q, HasCommand, RmapInv, Configured
  <2> QED BY <1>1, <1>4, <1>6, <1>7, <1>8, <2>1, CallerStep, ZenonT(60)
<1>10. RmapTypes'
  BY <1>8, <1>9 DEF RmapInv, RmapTypes, TypeOK, Transaction, remote
<1> QED BY <1>9, <1>10 DEF RmapInv

(* A caller that is to send or may still be writing has its own command    *)
(* with the id of its transaction.                                         *)
LEMMA CommandIs ==
    ASSUME RmapInv, NEW c \in Caller, pc[c] \in {"construct", "send"}
    PROVE  /\ Busy(c) /\ slot[c] \in Slot /\ no[c] \in 1 .. calls /\ no[c] \in Call
           /\ mTransactions[slot[c]].command = no[c] /\ kind[no[c]] \in Kinds
           /\ Command(c) \in BufferContent /\ Command(c).no = no[c]
           /\ Command(c).kind = kind[no[c]] /\ Command(c).tid = mTransactions[slot[c]].tid
           /\ [Command(c) EXCEPT !.no = 0] \in BufferContent
<1>1. Busy(c) /\ slot[c] \in Slot /\ no[c] \in 1 .. calls
  BY DEF Busy, RmapInv, Owners
<1>2. mTransactions[slot[c]].command = no[c] /\ kind[no[c]] \in Kinds
  BY <1>1 DEF RmapInv, Configured, HasCommand
<1>3. no[c] \in Call /\ no[c] \in 0 .. MaxCalls /\ 0 \in 0 .. MaxCalls
  BY <1>1, RmapFacts DEF Call
<1>4. mTransactions[slot[c]].tid \in Tid
  BY <1>1, RmapFacts DEF Transaction
<1>5. Command(c) = [no |-> no[c], kind |-> kind[no[c]], tid |-> mTransactions[slot[c]].tid]
  BY <1>2 DEF Command
<1> QED BY <1>1, <1>2, <1>3, <1>4, <1>5 DEF BufferContent

LEMMA OverIs ==
    ASSUME RmapInv, NEW c \in Caller, NEW written \in SUBSET BufferContent
    PROVE  Over(c, written) \in [Caller -> SUBSET BufferContent]
BY RmapFacts DEF Over

(* Steps of a caller that leave the transactions alone. *)
LEMMA ConstructStep ==
    ASSUME RmapInv, NEW c \in Caller, Construct(c)
    PROVE  RmapInv'
<1> USE DEF Construct
<1>1. /\ Busy(c) /\ slot[c] \in Slot /\ mTransactions[slot[c]].command = no[c]
  BY CommandIs
<1>2. mSendBuffer' \in [Caller -> SUBSET BufferContent]
  <2>1. \A d \in Others(c) \cup {c} : Command(d) \in BufferContent
    BY CommandIs DEF Others
  <2>2. {Command(d) : d \in Others(c) \cup {c}} \in SUBSET BufferContent
    BY <2>1
  <2>3. Over(c, {Command(c)}) \in [Caller -> SUBSET BufferContent]
    BY <2>1, OverIs
  <2> QED BY <2>2, <2>3
<1>3. kind[no[c]] # "post" /\ mTransactions[slot[c]].released
        => mTransactions[slot[c]].state = "replyReceived"
  BY DEF RmapInv, Waits, Armed
<1>4. "send" \in Pc \ {"idle"}
  BY DEF Pc
<1>5. Owners' /\ TransactionIdsUnique' /\ Waits' /\ Configured' /\ pc' \in [Caller -> Pc]
  BY <1>1, <1>3, <1>4, RmapFacts, CallerStep
<1>6. RmapTypes'
  BY <1>2, <1>5 DEF RmapInv, RmapTypes, TypeOK, BufferContent, remote
<1> QED BY <1>5, <1>6 DEF RmapInv

LEMMA SendFailsStep ==
    ASSUME RmapInv, NEW c \in Caller, ConstructFails(c) \/ SendFails(c)
    PROVE  RmapInv'
<1>0. /\ pc[c] \in {"construct", "send"} /\ pc' = [pc EXCEPT ![c] = "teardown"]
      /\ result' = [result EXCEPT ![no[c]] = "sendFailed"]
      /\ UNCHANGED <<mTransactions, mTransactionId, calls, kind, ids, slot, no, remote>>
  BY DEF ConstructFails, SendFails
<1>1. Busy(c) /\ slot[c] \in Slot /\ no[c] \in Call
  BY <1>0, CommandIs
<1>2. result' \in [Call -> CallResult]
  BY <1>0, <1>1, RmapFacts DEF CallResult
<1>3. mSendBuffer' \in [Caller -> SUBSET BufferContent]
  <2>1. CASE SendFails(c)
    BY <2>1, RmapFacts DEF SendFails
  <2>2. CASE ConstructFails(c)
    <3>1. PICK written \in {{}} \cup (IF kind[no[c]] = "read" THEN {}
                                      ELSE {{[Command(c) EXCEPT !.no = 0]}}) :
            mSendBuffer' = Over(c, written)
      BY <2>2 DEF ConstructFails
    <3>2. written \in SUBSET BufferContent
      BY <1>0, CommandIs
    <3> QED BY <3>1, <3>2, OverIs
  <2> QED BY <2>1, <2>2
<1>4. "teardown" \in Pc \ {"idle", "construct", "send", "configure", "wait", "arm"}
  BY DEF Pc
<1>5. Owners' /\ TransactionIdsUnique' /\ Waits' /\ Configured' /\ pc' \in [Caller -> Pc]
  BY <1>0, <1>1, <1>4, RmapFacts, CallerStep DEF HasCommand
<1>6. RmapTypes'
  BY <1>0, <1>2, <1>3, <1>5 DEF RmapInv, RmapTypes, TypeOK, BufferContent, remote
<1> QED BY <1>5, <1>6 DEF RmapInv

LEMMA SendStep ==
    ASSUME RmapInv, NEW c \in Caller, Send(c)
    PROVE  RmapInv'
<1>0. /\ pc[c] = "send"
      /\ mSendBuffer' = [mSendBuffer EXCEPT ![c] = {}]
      /\ UNCHANGED <<mTransactions, mTransactionId, calls, kind, ids, slot, no, replies>>
  BY DEF Send
<1>1. Busy(c) /\ slot[c] \in Slot /\ no[c] \in Call
  BY <1>0, CommandIs
<1>2. mSendBuffer' \in [Caller -> SUBSET BufferContent]
  BY <1>0, RmapFacts
<1>3. \A m \in commands' : m.no \in 0 .. MaxCalls
  <2>1. \A m \in commands' : \/ m \in commands
                             \/ \E p \in mSendBuffer[c] : m.no = p.no
                             \/ m.no = 0
    BY DEF Send, OnItsWay, Mixtures
  <2>2. \A p \in mSendBuffer[c] : p.no \in 0 .. MaxCalls
    BY RmapFacts DEF BufferContent
  <2>3. 0 \in 0 .. MaxCalls
    BY RmapFacts
  <2> QED BY <2>1, <2>2, <2>3 DEF RmapInv, RmapTypes
<1>4. result' \in [Call -> CallResult]
  BY <1>1, RmapFacts DEF Send, CallResult
<1>5. PICK q \in {"teardown", "wait"} : pc' = [pc EXCEPT ![c] = q]
                                          /\ (q = "wait" => kind[no[c]] # "post")
  BY DEF Send
<1>6. (q = "wait" /\ mTransactions[slot[c]].released)
        => mTransactions[slot[c]].state = "replyReceived"
  BY <1>0, <1>5 DEF RmapInv, Waits, Armed
<1>7. q \in Pc \ {"idle", "construct", "send", "configure", "arm"}
  BY DEF Pc
<1>8. Owners' /\ TransactionIdsUnique' /\ Waits' /\ Configured' /\ pc' \in [Caller -> Pc]
  BY <1>0, <1>1, <1>5, <1>6, <1>7, RmapFacts, CallerStep DEF HasCommand
<1>9. RmapTypes'
  BY <1>0, <1>2, <1>3, <1>4, <1>8 DEF RmapInv, RmapTypes, TypeOK, BufferContent
<1> QED BY <1>8, <1>9 DEF RmapInv

LEMMA WaitStep ==
    ASSUME RmapInv, NEW c \in Caller, Woken(c) \/ TimedOut(c)
    PROVE  RmapInv'
<1>0. /\ pc[c] = "wait" /\ pc' = [pc EXCEPT ![c] = "state"]
      /\ UNCHANGED <<mTransactionId, mSendBuffer, calls, kind, ids, result, slot, no, remote>>
  BY DEF Woken, TimedOut
<1>1. Busy(c) /\ slot[c] \in Slot
  BY <1>0 DEF Busy, RmapInv, Owners
<1> DEFINE t == mTransactions[slot[c]]
           new == [t EXCEPT !.released = FALSE]
<1>2. t \in Transaction
  BY <1>1, RmapFacts
<1>3. new \in Transaction /\ new.tid = t.tid /\ new.state = t.state
  BY <1>2 DEF Transaction
<1>4. mTransactions' = [mTransactions EXCEPT ![slot[c]] = new] \/ mTransactions' = mTransactions
  BY DEF Woken, TimedOut
<1> HIDE DEF new
<1>5. /\ mTransactions' \in [Slot -> Transaction]
      /\ mTransactions'[slot[c]].tid = t.tid /\ mTransactions'[slot[c]].state = t.state
      /\ \A s \in Slot \ {slot[c]} : mTransactions'[s] = mTransactions[s]
  BY <1>1, <1>3, <1>4, RmapFacts
<1>6. "state" \in Pc \ {"idle", "wait", "construct", "send", "configure", "arm"}
  BY DEF Pc
<1>7. Owners' /\ TransactionIdsUnique' /\ Waits' /\ Configured' /\ pc' \in [Caller -> Pc]
  BY <1>0, <1>1, <1>5, <1>6, CallerStep DEF HasCommand
<1>8. RmapTypes'
  BY <1>0, <1>5, <1>7 DEF RmapInv, RmapTypes, TypeOK, Transaction, remote
<1> QED BY <1>7, <1>8 DEF RmapInv

LEMMA AnswerStep ==
    ASSUME RmapInv, NEW c \in Caller, GetState(c) \/ GetReply(c)
    PROVE  RmapInv'
<1>0. /\ pc[c] \in {"state", "reply"}
      /\ UNCHANGED <<mTransactions, mTransactionId, mSendBuffer, calls, kind, ids, slot, no,
                     remote>>
  BY DEF GetState, GetReply
<1>1. Busy(c) /\ slot[c] \in Slot /\ no[c] \in 1 .. calls
  BY <1>0 DEF Busy, RmapInv, Owners
<1>2. no[c] \in Call
  BY <1>1, RmapFacts DEF Call
<1>3. result' \in [Call -> CallResult]
  <2>1. CASE GetState(c)
    BY <1>2, <2>1, RmapFacts DEF GetState, CallResult
  <2>2. CASE GetReply(c)
    <3>1. mTransactions[slot[c]].reply.status \in Status
      BY <1>1, RmapFacts DEF Transaction
    <3>2. Evaluate(kind[no[c]], mTransactions[slot[c]].reply.status) \subseteq CallResult
      BY <3>1 DEF Evaluate, Status, CallResult
    <3> QED BY <1>2, <2>2, <3>2, RmapFacts DEF GetReply
  <2> QED BY <2>1, <2>2
<1>4. PICK q \in {"reply", "teardown"} : pc' = [pc EXCEPT ![c] = q]
  BY DEF GetState, GetReply
<1>5. q \in Pc \ {"idle", "construct", "send", "configure", "wait", "arm"}
  BY DEF Pc
<1>6. Owners' /\ TransactionIdsUnique' /\ Waits' /\ Configured' /\ pc' \in [Caller -> Pc]
  BY <1>0, <1>1, <1>4, <1>5, RmapFacts, CallerStep DEF HasCommand
<1>7. RmapTypes'
  BY <1>0, <1>3, <1>6 DEF RmapInv, RmapTypes, TypeOK, remote
<1> QED BY <1>6, <1>7 DEF RmapInv
-----------------------------------------------------------------------------
(* A call gets the next number; what is known of earlier calls stays. *)
LEMMA NewCall ==
    ASSUME RmapInv, NEW k \in Kinds, calls < MaxCalls, calls' = calls + 1,
           kind' = [kind EXCEPT ![calls + 1] = k]
    PROVE  /\ calls' \in 0 .. MaxCalls /\ calls + 1 \in Call
           /\ kind' \in [Call -> Kinds \cup {"none"}] /\ kind'[calls + 1] = k
           /\ \A n \in 1 .. calls : n \in 1 .. calls' /\ n \in Call /\ kind'[n] = kind[n]
           /\ \A c \in Caller : Busy(c) => no[c] \in 1 .. calls' /\ kind'[no[c]] = kind[no[c]]
           /\ \A n \in 1 .. calls' : kind'[n] \in Kinds
<1>1. calls \in Nat /\ MaxCalls \in Nat /\ kind \in [Call -> Kinds \cup {"none"}]
  BY RmapFacts
<1>2. calls' \in 0 .. MaxCalls /\ calls + 1 \in Call
  BY <1>1 DEF Call
<1>3. \A n \in 1 .. calls : n \in 1 .. calls' /\ n \in Call /\ n # calls + 1
  BY <1>1 DEF Call
<1>4. \A n \in 1 .. calls : kind'[n] = kind[n]
  BY <1>1, <1>3
<1>5. \A c \in Caller : Busy(c) => no[c] \in 1 .. calls
  BY DEF RmapInv, Owners
<1>6. \A n \in 1 .. calls' : n \in 1 .. calls \/ n = calls + 1
  BY <1>1
<1>7. \A n \in 1 .. calls' : kind'[n] \in Kinds
  BY <1>1, <1>2, <1>4, <1>6 DEF RmapInv, Configured
<1> QED BY <1>1, <1>2, <1>3, <1>4, <1>5, <1>7

LEMMA RefuseStep ==
    ASSUME RmapInv, NEW c \in Caller, NEW k \in Kinds, NEW code \in Refusal, Refuse(c, k, code)
    PROVE  RmapInv'
<1>0. /\ calls < MaxCalls /\ calls' = calls + 1 /\ kind' = [kind EXCEPT ![calls + 1] = k]
      /\ result' = [result EXCEPT ![calls + 1] = code]
      /\ UNCHANGED <<mTransactions, mTransactionId, mSendBuffer, ids, pc, slot, no, commands,
                     replies>>
  BY DEF Refuse, callers, remote
<1>1. /\ calls' \in 0 .. MaxCalls /\ calls + 1 \in Call
      /\ kind' \in [Call -> Kinds \cup {"none"}]
      /\ \A d \in Caller : Busy(d) => no[d] \in 1 .. calls' /\ kind'[no[d]] = kind[no[d]]
      /\ \A n \in 1 .. calls' : kind'[n] \in Kinds
  BY <1>0, NewCall
<1>2. result' \in [Call -> CallResult]
  BY <1>0, <1>1, RmapFacts DEF CallResult
<1>3. RmapTypes'
  BY <1>0, <1>1, <1>2 DEF RmapInv, RmapTypes, TypeOK
<1>4. Owners' /\ TransactionIdsUnique'
  BY <1>0, <1>1 DEF RmapInv, Owners, TransactionIdsUnique, Busy
<1>5. Waits'
  <2>1. SUFFICES ASSUME NEW d \in Caller, Busy(d)
                 PROVE  /\ pc[d] = "wait" => kind'[no[d]] # "post"
                        /\ (Armed(d)' /\ kind'[no[d]] # "post"
                              /\ mTransactions[slot[d]].released) =>
                             mTransactions[slot[d]].state = "replyReceived"
    BY <1>0 DEF Waits, Armed, Busy
  <2>2. Armed(d)' <=> Armed(d)
    BY <1>0, <1>1, <2>1 DEF Armed
  <2> QED BY <1>1, <2>1, <2>2 DEF RmapInv, Waits
<1>6. Configured'
  BY <1>0, <1>1 DEF RmapInv, Configured, HasCommand, Busy
<1> QED BY <1>3, <1>4, <1>5, <1>6 DEF RmapInv

(* The effect of Reserve: a free object gets an id that no other has. *)
LEMMA ReserveEffect ==
    ASSUME RmapInv, NEW c \in Caller, NEW k \in Kinds, Reserve(c, k)
    PROVE  \E s \in Slot, i \in 0 .. maxTransactionId :
             /\ mTransactions[s].state = "notInitiated"
             /\ getNextAvailableTransactionID(i)
             /\ mTransactionId' = After(i)
             /\ mTransactions' \in [Slot -> Transaction]
             /\ \A r \in Slot \ {s} : mTransactions'[r] = mTransactions[r]
             /\ mTransactions'[s].state = "reserved" /\ mTransactions'[s].tid = After(i)
             /\ mTransactions'[s].command = 0
             /\ slot' = [slot EXCEPT ![c] = s]
             /\ After(i) \in Tid /\ After(i) # 0
             /\ \A r \in Slot : mTransactions[r].tid # After(i)
<1>1. PICK s \in Slot, i \in 0 .. maxTransactionId :
        /\ getFreeTransaction(s)
        /\ getNextAvailableTransactionID(i)
        /\ mTransactions' = [mTransactions EXCEPT ![s].state = "reserved", ![s].tid = After(i)]
        /\ mTransactionId' = After(i)
        /\ slot' = [slot EXCEPT ![c] = s]
  BY DEF Reserve
<1>2. mTransactions[s].state = "notInitiated" /\ mTransactions[s].command = 0
  BY <1>1 DEF getFreeTransaction, RmapInv, Owners
<1>3. After(i) \in Tid /\ After(i) # 0 /\ \A r \in Slot : mTransactions[r].tid # After(i)
  BY <1>1, <1>2, NextIdUnused
<1> DEFINE a == After(i)
           t == mTransactions[s]
           new == [t EXCEPT !.state = "reserved", !.tid = a]
<1>4. mTransactions \in [Slot -> Transaction] /\ t \in Transaction
  BY RmapFacts
<1>5. mTransactions' = [mTransactions EXCEPT ![s] = new]
  BY <1>1, <1>4
<1>6. new \in Transaction /\ new.state = "reserved" /\ new.tid = a /\ new.command = 0
  <2> HIDE DEF a
  <2>1. a \in Tid /\ t.command = 0
    BY <1>2, <1>3 DEF a
  <2> QED BY <1>4, <2>1 DEF Transaction
<1> HIDE DEF new, t
<1>7. /\ mTransactions' \in [Slot -> Transaction] /\ mTransactions'[s] = new
      /\ \A r \in Slot \ {s} : mTransactions'[r] = mTransactions[r]
  BY <1>4, <1>5, <1>6
<1> QED BY <1>1, <1>2, <1>3, <1>6, <1>7

LEMMA ReserveStep ==
    ASSUME RmapInv, NEW c \in Caller, NEW k \in Kinds, Reserve(c, k)
    PROVE  RmapInv'
<1> DEFINE q == IF k = "read" THEN "arm" ELSE "configure"
<1>0. /\ ~ Busy(c) /\ pc' = [pc EXCEPT ![c] = q]
      /\ calls < MaxCalls /\ calls' = calls + 1 /\ kind' = [kind EXCEPT ![calls + 1] = k]
      /\ no' = [no EXCEPT ![c] = calls + 1]
      /\ UNCHANGED <<mSendBuffer, result, commands, replies>>
      /\ ids' = [ids EXCEPT ![calls + 1] = mTransactionId']
  BY DEF Reserve, remote, Busy
<1>1. /\ calls' \in 0 .. MaxCalls /\ calls + 1 \in Call
      /\ kind' \in [Call -> Kinds \cup {"none"}] /\ kind'[calls + 1] = k
      /\ \A d \in Caller : Busy(d) => no[d] \in 1 .. calls' /\ kind'[no[d]] = kind[no[d]]
      /\ \A n \in 1 .. calls' : kind'[n] \in Kinds
  BY <1>0, NewCall
<1>2. PICK s \in Slot :
        /\ mTransactions[s].state = "notInitiated"
        /\ mTransactions' \in [Slot -> Transaction] /\ mTransactionId' \in Tid
        /\ \A r \in Slot \ {s} : mTransactions'[r] = mTransactions[r]
        /\ mTransactions'[s].state = "reserved" /\ mTransactions'[s].tid = mTransactionId'
        /\ mTransactionId' # 0
        /\ \A r \in Slot : mTransactions[r].tid # mTransactionId'
        /\ slot' = [slot EXCEPT ![c] = s]
  BY ReserveEffect
<1>3. /\ pc' \in [Caller -> Pc] /\ slot' \in [Caller -> 0 .. NumSlots]
      /\ no' \in [Caller -> 0 .. MaxCalls]
  <2>1. q \in Pc /\ s \in 0 .. NumSlots /\ calls + 1 \in 0 .. MaxCalls
    BY <1>0, <1>1, RmapAssumption DEF Pc, Slot
  <2> HIDE DEF q
  <2> QED BY <1>0, <1>2, <2>1, RmapFacts
<1>4. /\ pc'[c] = q /\ slot'[c] = s /\ no'[c] = calls + 1
      /\ \A d \in Caller \ {c} : pc'[d] = pc[d] /\ slot'[d] = slot[d] /\ no'[d] = no[d]
  BY <1>0, <1>2, RmapFacts
<1>5. RmapTypes'
  <2>1. ids' \in [Call -> Tid]
    BY <1>0, <1>1, <1>2, RmapFacts
  <2> QED BY <1>0, <1>1, <1>2, <1>3, <2>1 DEF RmapInv, RmapTypes, TypeOK, Transaction
<1>6. Busy(c)' /\ \A d \in Caller \ {c} : Busy(d)' <=> Busy(d)
  BY <1>4 DEF Busy
<1>7. \A d \in Caller : Busy(d) => d # c /\ slot[d] \in Slot \ {s}
  BY <1>0, <1>2 DEF RmapInv, Owners
<1>8. no'[c] \in 1 .. calls'
  <2>1. calls \in Nat
    BY RmapFacts
  <2> QED BY <1>0, <1>4, <2>1
<1>9. Owners'
  <2>1. \A r \in Slot : mTransactions'[r].state = "notInitiated" =>
          mTransactions'[r].tid = 0 /\ mTransactions'[r].command = 0
    BY <1>2 DEF RmapInv, Owners
  <2>2. \A d \in Caller : Busy(d)' =>
          /\ slot'[d] \in Slot
          /\ mTransactions'[slot'[d]].state # "notInitiated"
          /\ no'[d] \in 1 .. calls'
    <3>1. mTransactions'[s].state # "notInitiated"
      BY <1>2
    <3>2. \A d \in Caller : Busy(d) => mTransactions[slot[d]].state # "notInitiated"
      BY DEF RmapInv, Owners
    <3> QED BY <1>1, <1>2, <1>4, <1>6, <1>7, <1>8, <3>1, <3>2
  <2>3. \A d, e \in Caller : (Busy(d)' /\ Busy(e)' /\ slot'[d] = slot'[e]) => d = e
    BY <1>4, <1>6, <1>7 DEF RmapInv, Owners
  <2>4. ASSUME NEW r \in Slot, mTransactions'[r].state # "notInitiated"
        PROVE  \E d \in Caller : Busy(d)' /\ slot'[d] = r
    <3>1. CASE r = s
      BY <1>4, <1>6, <3>1
    <3>2. CASE r # s
      <4>1. PICK d \in Caller : Busy(d) /\ slot[d] = r
        BY <1>2, <2>4, <3>2 DEF RmapInv, Owners
      <4> QED BY <1>4, <1>6, <1>7, <4>1
    <3> QED BY <3>1, <3>2
  <2> QED BY <2>1, <2>2, <2>3, <2>4 DEF Owners
<1>10. TransactionIdsUnique'
  BY <1>2 DEF RmapInv, TransactionIdsUnique
<1>11. Waits'
  <2>1. SUFFICES ASSUME NEW d \in Caller
                 PROVE  /\ pc'[d] = "wait" => kind'[no'[d]] # "post"
                        /\ (Armed(d)' /\ kind'[no'[d]] # "post"
                              /\ mTransactions'[slot'[d]].released) =>
                             mTransactions'[slot'[d]].state = "replyReceived"
    BY DEF Waits
  <2>2. CASE d = c
    BY <1>1, <1>4, <2>2 DEF Armed
  <2>3. CASE d # c /\ ~ Busy(d)
    BY <1>4, <2>3 DEF Armed, Busy
  <2>4. CASE d # c /\ Busy(d)
    <3>1. /\ mTransactions'[slot'[d]] = mTransactions[slot[d]] /\ pc'[d] = pc[d]
          /\ kind'[no'[d]] = kind[no[d]]
      BY <1>1, <1>2, <1>4, <1>7, <2>4
    <3>2. Armed(d)' <=> Armed(d)
      BY <3>1 DEF Armed
    <3> QED BY <3>1, <3>2 DEF RmapInv, Waits
  <2> QED BY <2>2, <2>3, <2>4
<1>12. Configured'
  <2>1. SUFFICES ASSUME NEW d \in Caller, HasCommand(pc'[d], kind'[no'[d]])
                 PROVE  mTransactions'[slot'[d]].command = no'[d]
    BY <1>1 DEF Configured
  <2>2. d # c
    BY <1>1, <1>4, <2>1 DEF HasCommand
  <2>3. Busy(d)
    BY <1>4, <2>1, <2>2 DEF Busy, HasCommand
  <2>4. /\ mTransactions'[slot'[d]] = mTransactions[slot[d]] /\ pc'[d] = pc[d]
        /\ kind'[no'[d]] = kind[no[d]] /\ no'[d] = no[d]
    BY <1>1, <1>2, <1>4, <1>7, <2>2, <2>3
  <2> QED BY <2>1, <2>4 DEF RmapInv, Configured
<1> QED BY <1>5, <1>9, <1>10, <1>11, <1>12 DEF RmapInv

(* removeTransaction() finds the caller's own transaction. *)
LEMMA TeardownEffect ==
    ASSUME RmapInv, NEW c \in Caller, Teardown(c)
    PROVE  /\ slot[c] \in Slot /\ Busy(c)
           /\ mTransactions' \in [Slot -> Transaction]
           /\ \A s \in Slot \ {slot[c]} : mTransactions'[s] = mTransactions[s]
           /\ mTransactions'[slot[c]].state = "notInitiated"
           /\ mTransactions'[slot[c]].tid = 0 /\ mTransactions'[slot[c]].command = 0
<1>1. Busy(c) /\ slot[c] \in Slot /\ mTransactions[slot[c]].state # "notInitiated"
  BY DEF Teardown, Busy, RmapInv, Owners
<1>2. PICK s \in Slot : /\ mTransactions[s].tid = mTransactions[slot[c]].tid
                        /\ mTransactions' = [mTransactions EXCEPT ![s] = Reset(s)]
  BY DEF Teardown, getTransaction
<1>3. s = slot[c]
  BY <1>1, <1>2 DEF RmapInv, TransactionIdsUnique
<1>4. Reset(s) \in Transaction /\ Reset(s).state = "notInitiated" /\ Reset(s).tid = 0
        /\ Reset(s).command = 0
  <2>1. mTransactions[s].released \in BOOLEAN
    BY RmapFacts DEF Transaction
  <2>2. /\ Idle \in Transaction /\ Idle.state = "notInitiated"
        /\ Idle.tid = 0 /\ Idle.command = 0
    BY RmapAssumption DEF Idle, Transaction, Tid, NoReply, Status
  <2> DEFINE b == mTransactions[s].released
  <2>3. Reset(s) = [Idle EXCEPT !.released = b]
    BY DEF Reset
  <2> HIDE DEF b
  <2>4. b \in BOOLEAN
    BY <2>1 DEF b
  <2> QED BY <2>2, <2>3, <2>4 DEF Transaction
<1> QED BY <1>1, <1>2, <1>3, <1>4, RmapFacts

LEMMA TeardownStep ==
    ASSUME RmapInv, NEW c \in Caller, Teardown(c)
    PROVE  RmapInv'
<1>0. /\ pc' = [pc EXCEPT ![c] = "idle"] /\ slot' = [slot EXCEPT ![c] = 0]
      /\ no' = [no EXCEPT ![c] = 0]
      /\ UNCHANGED <<mTransactionId, mSendBuffer, calls, kind, ids, result, commands, replies>>
  BY DEF Teardown, remote
<1>1. /\ slot[c] \in Slot /\ Busy(c)
      /\ mTransactions' \in [Slot -> Transaction]
      /\ \A s \in Slot \ {slot[c]} : mTransactions'[s] = mTransactions[s]
      /\ mTransactions'[slot[c]].state = "notInitiated"
      /\ mTransactions'[slot[c]].tid = 0 /\ mTransactions'[slot[c]].command = 0
  BY TeardownEffect
<1>2. /\ pc' \in [Caller -> Pc] /\ slot' \in [Caller -> 0 .. NumSlots]
      /\ no' \in [Caller -> 0 .. MaxCalls]
  BY <1>0, RmapFacts, RmapAssumption DEF Pc
<1>3. /\ pc'[c] = "idle"
      /\ \A d \in Caller \ {c} : pc'[d] = pc[d] /\ slot'[d] = slot[d] /\ no'[d] = no[d]
  BY <1>0, RmapFacts
<1>4. RmapTypes'
  BY <1>0, <1>1, <1>2 DEF RmapInv, RmapTypes, TypeOK, Transaction
<1>5. ~ Busy(c)' /\ \A d \in Caller \ {c} : Busy(d)' <=> Busy(d)
  BY <1>3 DEF Busy
<1>6. \A d \in Caller \ {c} : Busy(d) => slot[d] \in Slot \ {slot[c]}
  BY <1>1 DEF RmapInv, Owners
<1>7. Owners'
  <2>1. \A r \in Slot : mTransactions'[r].state = "notInitiated" =>
          mTransactions'[r].tid = 0 /\ mTransactions'[r].command = 0
    BY <1>1 DEF RmapInv, Owners
  <2>2. \A d \in Caller : Busy(d)' =>
          /\ slot'[d] \in Slot
          /\ mTransactions'[slot'[d]].state # "notInitiated"
          /\ no'[d] \in 1 .. calls'
    BY <1>0, <1>1, <1>3, <1>5, <1>6 DEF RmapInv, Owners
  <2>3. \A d, e \in Caller : (Busy(d)' /\ Busy(e)' /\ slot'[d] = slot'[e]) => d = e
    BY <1>3, <1>5, <1>6 DEF RmapInv, Owners
  <2>4. ASSUME NEW r \in Slot, mTransactions'[r].state # "notInitiated"
        PROVE  \E d \in Caller : Busy(d)' /\ slot'[d] = r
    <3>1. r # slot[c]
      BY <1>1, <2>4
    <3>2. PICK d \in Caller : Busy(d) /\ slot[d] = r
      BY <1>1, <2>4, <3>1 DEF RmapInv, Owners
    <3> QED BY <1>3, <1>5, <3>1, <3>2
  <2> QED BY <2>1, <2>2, <2>3, <2>4 DEF Owners
<1>8. TransactionIdsUnique'
  BY <1>1 DEF RmapInv, TransactionIdsUnique
<1>9. Waits'
  <2>1. SUFFICES ASSUME NEW d \in Caller
                 PROVE  /\ pc'[d] = "wait" => kind[no'[d]] # "post"
                        /\ (Armed(d)' /\ kind[no'[d]] # "post"
                              /\ mTransactions'[slot'[d]].released) =>
                             mTransactions'[slot'[d]].state = "replyReceived"
    BY <1>0 DEF Waits
  <2>2. CASE d = c
    BY <1>3, <2>2 DEF Armed
  <2>3. CASE d # c /\ ~ Busy(d)
    BY <1>3, <2>3 DEF Armed, Busy
  <2>4. CASE d # c /\ Busy(d)
    <3>1. /\ mTransactions'[slot'[d]] = mTransactions[slot[d]] /\ pc'[d] = pc[d]
          /\ kind[no'[d]] = kind[no[d]]
      BY <1>1, <1>3, <1>6, <2>4
    <3>2. Armed(d)' <=> Armed(d)
      BY <1>0, <3>1 DEF Armed
    <3> QED BY <3>1, <3>2 DEF RmapInv, Waits
  <2> QED BY <2>2, <2>3, <2>4
<1>10. Configured'
  <2>1. SUFFICES ASSUME NEW d \in Caller, HasCommand(pc'[d], kind[no'[d]])
                 PROVE  mTransactions'[slot'[d]].command = no'[d]
    BY <1>0 DEF RmapInv, Configured
  <2>2. d # c
    BY <1>3, <2>1 DEF HasCommand
  <2>3. Busy(d)
    BY <1>3, <2>1, <2>2 DEF Busy, HasCommand
  <2> QED BY <1>1, <1>3, <1>6, <2>1, <2>2, <2>3 DEF RmapInv, Configured
<1> QED BY <1>4, <1>7, <1>8, <1>9, <1>10 DEF RmapInv
-----------------------------------------------------------------------------
(* A reply is registered in a transaction that is in use. *)
LEMMA HandleReplyEffect ==
    ASSUME RmapInv, NEW r \in replies, HandleReply(r)
    PROVE  \E s \in Slot :
             /\ mTransactions[s].tid = r.tid
             /\ mTransactions[s].state # "notInitiated"
             /\ mTransactions' \in [Slot -> Transaction]
             /\ \A q \in Slot \ {s} : mTransactions'[q] = mTransactions[q]
             /\ mTransactions'[s].tid = mTransactions[s].tid
             /\ mTransactions'[s].command = mTransactions[s].command
             /\ mTransactions'[s].state = "replyReceived"
             /\ mTransactions'[s].reply = [no |-> r.no, status |-> r.status]
<1>1. PICK s \in Slot :
        /\ getTransaction(r.tid, s) /\ Fits(r, s)
        /\ mTransactions' = [mTransactions EXCEPT
                ![s].reply = [no |-> r.no, status |-> r.status],
                ![s].state = "replyReceived",
                ![s].released = @ \/ mTransactions[s].blocking]
  BY DEF HandleReply
<1>2. mTransactions[s].tid = r.tid /\ mTransactions[s].state # "notInitiated"
  BY <1>1 DEF getTransaction, Fits, RmapInv, Owners
<1> DEFINE t == mTransactions[s]
           a == [no |-> r.no, status |-> r.status]
           b == t.released \/ t.blocking
           new == [t EXCEPT !.reply = a, !.state = "replyReceived", !.released = b]
<1>3. mTransactions \in [Slot -> Transaction] /\ t \in Transaction
  BY RmapFacts
<1>4. a \in [no : 0 .. MaxCalls, status : Status]
  BY DEF RmapInv, RmapTypes
<1>5. b \in BOOLEAN
  OBVIOUS
<1>6. mTransactions' = [mTransactions EXCEPT ![s] = new]
  BY <1>1, <1>3
<1> HIDE DEF a, b
<1>7. /\ new \in Transaction /\ new.tid = t.tid /\ new.command = t.command
      /\ new.state = "replyReceived" /\ new.reply = a
  BY <1>3, <1>4, <1>5 DEF Transaction
<1> HIDE DEF new
<1>8. /\ mTransactions' \in [Slot -> Transaction] /\ mTransactions'[s] = new
      /\ \A q \in Slot \ {s} : mTransactions'[q] = mTransactions[q]
  BY <1>3, <1>6, <1>7
<1> QED BY <1>2, <1>7, <1>8 DEF a

LEMMA ReceiverStep ==
    ASSUME RmapInv, NEW r \in replies, Receive(r)
    PROVE  RmapInv'
<1>0. /\ UNCHANGED <<mTransactionId, mSendBuffer, calls, kind, ids, result, pc, slot, no, commands>>
      /\ replies' = replies \ {r}
  BY DEF Receive, Discard, HandleUnknown, HandleMismatch, HandleReply, callers
<1>1. CASE HandleReply(r)
  <2>1. PICK s \in Slot :
          /\ mTransactions[s].state # "notInitiated"
          /\ mTransactions' \in [Slot -> Transaction]
          /\ \A q \in Slot \ {s} : mTransactions'[q] = mTransactions[q]
          /\ mTransactions'[s].tid = mTransactions[s].tid
          /\ mTransactions'[s].state = "replyReceived"
          /\ mTransactions'[s].command = mTransactions[s].command
    BY <1>1, HandleReplyEffect
  <2>2. RmapTypes'
    BY <1>0, <2>1 DEF RmapInv, RmapTypes, TypeOK, Transaction
  <2>3. \A d \in Caller : (Busy(d)' <=> Busy(d)) /\ (Armed(d)' <=> Armed(d))
    BY <1>0 DEF Busy, Armed
  <2>4. \A q \in Slot :
          /\ mTransactions'[q].tid = mTransactions[q].tid
          /\ mTransactions'[q].state = "notInitiated"
               <=> mTransactions[q].state = "notInitiated"
    BY <2>1
  <2>5. Owners'
    BY <1>0, <2>1, <2>3, <2>4 DEF RmapInv, Owners
  <2>6. TransactionIdsUnique'
    BY <2>4 DEF RmapInv, TransactionIdsUnique
  <2>7. Waits'
    <3>1. \A d \in Caller : Armed(d) => slot[d] \in Slot
      BY DEF RmapInv, Owners, Armed, Busy
    <3> QED BY <1>0, <2>1, <2>3, <3>1 DEF RmapInv, Waits
  <2>8. Configured'
    <3>1. \A d \in Caller : HasCommand(pc[d], kind[no[d]]) => slot[d] \in Slot
      BY DEF RmapInv, Owners, HasCommand, Busy
    <3> QED BY <1>0, <2>1, <3>1 DEF RmapInv, Configured
  <2> QED BY <2>2, <2>5, <2>6, <2>7, <2>8 DEF RmapInv
<1>2. CASE Discard(r) \/ HandleUnknown(r) \/ HandleMismatch(r)
  <2>1. UNCHANGED mTransactions
    BY <1>2 DEF Discard, HandleUnknown, HandleMismatch
  <2>2. RmapTypes'
    BY <1>0, <2>1 DEF RmapInv, RmapTypes, TypeOK
  <2>3. Owners' /\ TransactionIdsUnique' /\ Waits' /\ Configured'
    BY <1>0, <2>1 DEF RmapInv, Owners, TransactionIdsUnique, Waits, Busy, Armed, Configured,
       HasCommand
  <2> QED BY <2>2, <2>3 DEF RmapInv
<1> QED BY <1>1, <1>2 DEF Receive

LEMMA ExecuteStep ==
    ASSUME RmapInv, NEW m \in commands, Execute(m)
    PROVE  RmapInv'
<1>0. /\ UNCHANGED <<mTransactions, mTransactionId, mSendBuffer, calls, kind, ids, result, pc,
                     slot, no>>
      /\ commands' = commands \ {m}
  BY DEF Execute, callers
<1>1. \A r \in replies' : r \in replies \/ (r.no = m.no /\ r.status \in Status)
  BY DEF Execute
<1>2. RmapTypes'
  BY <1>0, <1>1 DEF RmapInv, RmapTypes, TypeOK
<1>3. Owners' /\ TransactionIdsUnique' /\ Waits' /\ Configured'
  BY <1>0 DEF RmapInv, Owners, TransactionIdsUnique, Waits, Busy, Armed, Configured, HasCommand
<1> QED BY <1>2, <1>3 DEF RmapInv
-----------------------------------------------------------------------------
LEMMA RmapStep == RmapInv /\ [Next]_vars => RmapInv'
<1> SUFFICES ASSUME RmapInv, [Next]_vars PROVE RmapInv'
  OBVIOUS
<1>1. ASSUME NEW c \in Caller, Proceed(c) PROVE RmapInv'
  BY <1>1, ConfigureStep, ArmStep, ConstructStep, SendFailsStep, SendStep,
     WaitStep, AnswerStep, TeardownStep DEF Proceed
<1>2. ASSUME NEW c \in Caller, NEW k \in Kinds,
             Reserve(c, k) \/ \E code \in Refusal : Refuse(c, k, code)
      PROVE  RmapInv'
  BY <1>2, ReserveStep, RefuseStep
<1>3. CASE \E m \in commands : Execute(m)
  BY <1>3, ExecuteStep
<1>4. CASE \E r \in replies : Receive(r)
  BY <1>4, ReceiverStep
<1>5. CASE UNCHANGED vars
  <2> USE <1>5 DEF vars, callers, remote
  <2>1. RmapTypes'
    BY DEF RmapInv, RmapTypes, TypeOK
  <2>2. Owners' /\ TransactionIdsUnique' /\ Waits' /\ Configured'
    BY DEF RmapInv, Owners, TransactionIdsUnique, Waits, Busy, Armed, Configured, HasCommand
  <2> QED BY <2>1, <2>2 DEF RmapInv
<1> QED BY <1>1, <1>2, <1>3, <1>4, <1>5 DEF Next

(* RmapInv is an invariant of the initiator. *)
THEOREM RmapInductive == Spec => []RmapInv
BY RmapInit, RmapStep, PTL DEF Spec

(* Transactions in use have ids of their own and exactly one owner each,   *)
(* whichever of callers, timeouts and late replies comes first             *)
(* (RmapInitiator::read, write, handleReplyPacket, removeTransaction).     *)
THEOREM TransactionsAreSound == Spec => []TransactionsSound
<1>1. RmapInv => TransactionsSound
  <2> SUFFICES ASSUME RmapInv PROVE TransactionsOwned
    BY DEF RmapInv, RmapTypes, TransactionsSound
  <2>1. SUFFICES ASSUME NEW s \in Slot
                 PROVE  Cardinality({c \in Caller : pc[c] # "idle" /\ slot[c] = s}) =
                            IF mTransactions[s].state = "notInitiated" THEN 0 ELSE 1
    BY DEF TransactionsOwned
  <2> DEFINE O == {c \in Caller : pc[c] # "idle" /\ slot[c] = s}
  <2>2. CASE mTransactions[s].state = "notInitiated"
    <3>1. O = {}
      BY <2>2 DEF RmapInv, Owners, Busy
    <3> QED BY <2>2, <3>1, FS_EmptySet
  <2>3. CASE mTransactions[s].state # "notInitiated"
    <3>1. PICK c \in Caller : Busy(c) /\ slot[c] = s
      BY <2>3 DEF RmapInv, Owners
    <3>2. O = {c}
      BY <3>1 DEF RmapInv, Owners, Busy
    <3> QED BY <2>3, <3>2, FS_Singleton
  <2> QED BY <2>2, <2>3
<1> QED BY <1>1, RmapInductive, PTL

(* A caller that is woken has its reply: what an earlier call or a second  *)
(* reply left in the semaphore never ends a wait                           *)
(* (RmapTransaction::setBlockingMode, blockTransaction).                   *)
THEOREM WakeupsMeanReplies == Spec => []WakeupMeansReply
<1>1. RmapInv => WakeupMeansReply
  BY DEF RmapInv, Waits, Armed, WakeupMeansReply
<1> QED BY <1>1, RmapInductive, PTL
-----------------------------------------------------------------------------
(* A caller goes on within its call: the ids stay. *)
LEMMA CallerKeepsIds ==
    ASSUME RmapInv, FreshIds, NEW c \in Caller, Busy(c), NEW q \in Pc \ {"idle"},
           pc' = [pc EXCEPT ![c] = q],
           UNCHANGED <<calls, ids, slot, no, mTransactionId>>,
           \A s \in Slot : mTransactions'[s].tid = mTransactions[s].tid
    PROVE  FreshIds'
<1>1. \A d \in Caller : Busy(d)' <=> Busy(d)
  BY RmapFacts DEF Busy
<1>2. \A d \in Caller : Busy(d) => slot[d] \in Slot
  BY DEF RmapInv, Owners
<1>3. \A d \in Caller : Busy(d)' => mTransactions'[slot[d]].tid = ids[no[d]] /\ ids[no[d]] # 0
  BY <1>1, <1>2 DEF FreshIds
<1> QED BY <1>3 DEF FreshIds

(* What the transactions hold when a caller goes on and no reply comes. *)
LEMMA CallerKeepsReplies ==
    ASSUME RmapInv, MatchInv, NEW c \in Caller, Busy(c), NEW q \in Pc \ {"idle", "reply"},
           pc' = [pc EXCEPT ![c] = q],
           UNCHANGED <<slot, no, executed, replies>>, mixed \subseteq mixed',
           \A s \in Slot : /\ mTransactions'[s].tid = mTransactions[s].tid
                           /\ mTransactions'[s].state = mTransactions[s].state
                           /\ mTransactions'[s].reply = mTransactions[s].reply
    PROVE  Answered'
<1>1. \A d \in Caller : (Busy(d)' <=> Busy(d)) /\ (pc'[d] = "reply" => pc[d] = "reply")
  BY RmapFacts DEF Busy
<1>2. \A d \in Caller : Busy(d) => slot[d] \in Slot
  BY DEF RmapInv, Owners
<1>3. \A d \in Caller : pc[d] = "reply" => Busy(d)
  BY DEF Busy
<1>4. ASSUME NEW d \in Caller, Busy(d) PROVE Holds(d, mTransactions[slot[d]])'
  <2>1. Holds(d, mTransactions[slot[d]])
    BY <1>4 DEF MatchInv, Answered
  <2> QED BY <1>2, <1>4, <2>1 DEF Holds
<1> QED BY <1>1, <1>2, <1>3, <1>4 DEF MatchInv, Answered

(* A caller's command carries the id of its own call. *)
LEMMA OwnId ==
    ASSUME RmapInv, MatchInv, NEW c \in Caller, pc[c] \in {"construct", "send"}
    PROVE  Carries(Command(c))
<1>1. Busy(c) /\ no[c] \in 1 .. calls /\ Command(c).no = no[c]
        /\ Command(c).tid = mTransactions[slot[c]].tid
  BY CommandIs
<1>2. ids[no[c]] = mTransactions[slot[c]].tid
  BY <1>1 DEF MatchInv, FreshIds
<1> QED BY <1>1, <1>2 DEF Carries

LEMMA MatchInit == Init => MatchInv
<1> SUFFICES ASSUME Init PROVE MatchInv
  OBVIOUS
<1> USE DEF Init, InitWith
<1>1. \A n \in Call : ids[n] = 0 /\ result[n] = "none"
  OBVIOUS
<1>2. FreshIds
  BY <1>1 DEF FreshIds, Busy
<1>3. Carried /\ Answered /\ Confirmed
  BY <1>1 DEF Carried, Answered, Confirmed, Busy
<1> QED BY <1>2, <1>3 DEF MatchInv

LEMMA MatchConfigure ==
    ASSUME RmapInv, MatchInv, NEW c \in Caller, Configure(c) \/ Arm(c)
    PROVE  MatchInv'
<1> DEFINE t == mTransactions[slot[c]]
<1>0. /\ pc[c] \in {"configure", "arm"}
      /\ UNCHANGED <<mTransactionId, mSendBuffer, calls, kind, ids, result, slot, no, commands,
                     replies, executed, mixed>>
  BY DEF Configure, Arm, remote
<1>1. Busy(c) /\ slot[c] \in Slot
  BY <1>0 DEF Busy, RmapInv, Owners
<1>2. mTransactions \in [Slot -> Transaction] /\ t \in Transaction
  BY <1>1, RmapFacts
<1>3. \A s \in Slot : /\ mTransactions'[s].tid = mTransactions[s].tid
                      /\ mTransactions'[s].state = mTransactions[s].state
                      /\ mTransactions'[s].reply = mTransactions[s].reply
  <2>1. CASE Configure(c)
    <3> DEFINE new == [t EXCEPT !.command = no[c]]
    <3>1. mTransactions' = [mTransactions EXCEPT ![slot[c]] = new]
      BY <2>1 DEF Configure
    <3>2. new.tid = t.tid /\ new.state = t.state /\ new.reply = t.reply
      BY <1>2 DEF Transaction
    <3> HIDE DEF new
    <3> QED BY <1>1, <1>2, <3>1, <3>2
  <2>2. CASE Arm(c)
    <3> DEFINE b == kind[no[c]] # "post"
               d == Drained(kind[no[c]], t.released)
               new == [t EXCEPT !.blocking = b, !.released = d]
    <3>1. mTransactions' = [mTransactions EXCEPT ![slot[c]] = new]
      BY <1>1, <1>2, <2>2 DEF Arm
    <3>2. new.tid = t.tid /\ new.state = t.state /\ new.reply = t.reply
      <4> HIDE DEF b, d
      <4> QED BY <1>2 DEF Transaction
    <3> HIDE DEF new
    <3> QED BY <1>1, <1>2, <3>1, <3>2
  <2> QED BY <2>1, <2>2
<1>4. PICK q \in {"construct", "arm", "configure"} : pc' = [pc EXCEPT ![c] = q]
  BY DEF Configure, Arm
<1>5. q \in Pc \ {"idle", "reply"}
  BY DEF Pc
<1>6. Answered'
  BY <1>0, <1>1, <1>3, <1>4, <1>5, CallerKeepsReplies
<1>7. FreshIds'
  BY <1>0, <1>1, <1>3, <1>4, <1>5, CallerKeepsIds DEF MatchInv
<1>8. Carried' /\ Confirmed'
  BY <1>0 DEF MatchInv, Carried, Carries, Confirmed
<1> QED BY <1>6, <1>7, <1>8 DEF MatchInv

(* The commands that may be in the send buffer carry the ids of their own  *)
(* calls.                                                                  *)
LEMMA MatchConstruct ==
    ASSUME RmapInv, MatchInv, NEW c \in Caller, Construct(c)
    PROVE  MatchInv'
<1>0. /\ pc[c] = "construct" /\ pc' = [pc EXCEPT ![c] = "send"]
      /\ UNCHANGED <<mTransactions, mTransactionId, calls, kind, ids, result, slot, no, commands,
                     replies, executed, mixed>>
      /\ mSendBuffer' = [Over(c, {Command(c)}) EXCEPT
                           ![c] = {Command(d) : d \in Others(c) \cup {c}}]
  BY DEF Construct, remote
<1>1. Busy(c)
  BY <1>0 DEF Busy
<1>2. "send" \in Pc \ {"idle", "reply"}
  BY DEF Pc
<1>3. \A d \in Others(c) \cup {c} : Carries(Command(d))
  BY <1>0, OwnId DEF Others
<1>4. ASSUME NEW d \in Caller, NEW p \in mSendBuffer'[d] PROVE p.no = 0 \/ Carries(p)
  <2>1. \/ p \in mSendBuffer[d]
        \/ \E e \in Others(c) \cup {c} : p = Command(e)
    BY <1>0, <1>4 DEF Over
  <2> QED BY <1>3, <2>1 DEF MatchInv, Carried
<1>5. Carried'
  BY <1>0, <1>4 DEF MatchInv, Carried, Carries
<1>6. FreshIds'
  BY <1>0, <1>1, <1>2, CallerKeepsIds DEF MatchInv
<1>7. Answered'
  BY <1>0, <1>1, <1>2, CallerKeepsReplies
<1>8. Confirmed'
  BY <1>0 DEF MatchInv, Confirmed
<1> QED BY <1>5, <1>6, <1>7, <1>8 DEF MatchInv

LEMMA MatchFails ==
    ASSUME RmapInv, MatchInv, NEW c \in Caller, ConstructFails(c) \/ SendFails(c)
    PROVE  MatchInv'
<1>0. /\ pc[c] \in {"construct", "send"} /\ pc' = [pc EXCEPT ![c] = "teardown"]
      /\ result' = [result EXCEPT ![no[c]] = "sendFailed"]
      /\ UNCHANGED <<mTransactions, mTransactionId, calls, kind, ids, slot, no, commands,
                     replies, executed, mixed>>
  BY DEF ConstructFails, SendFails, remote
<1>1. Busy(c) /\ no[c] \in Call
  BY <1>0, CommandIs
<1>2. "teardown" \in Pc \ {"idle", "reply"}
  BY DEF Pc
<1>3. ASSUME NEW d \in Caller, NEW p \in mSendBuffer'[d] PROVE p.no = 0 \/ p \in mSendBuffer[d]
  <2>1. CASE SendFails(c)
    BY <1>3, <2>1, RmapFacts DEF SendFails
  <2>2. CASE ConstructFails(c)
    <3>1. PICK written \in {{}} \cup (IF kind[no[c]] = "read" THEN {}
                                      ELSE {{[Command(c) EXCEPT !.no = 0]}}) :
            mSendBuffer' = Over(c, written)
      BY <2>2 DEF ConstructFails
    <3>2. p \in mSendBuffer[d] \/ p = [Command(c) EXCEPT !.no = 0]
      BY <1>3, <3>1 DEF Over
    <3>3. [Command(c) EXCEPT !.no = 0].no = 0
      BY <1>0, CommandIs DEF BufferContent
    <3> QED BY <3>2, <3>3
  <2> QED BY <2>1, <2>2
<1>4. Carried'
  BY <1>0, <1>3 DEF MatchInv, Carried, Carries
<1>5. FreshIds'
  BY <1>0, <1>1, <1>2, CallerKeepsIds DEF MatchInv
<1>6. Answered'
  BY <1>0, <1>1, <1>2, CallerKeepsReplies
<1>7. Confirmed'
  <2>0. no[c] \in 1 .. calls
    BY <1>0, CommandIs
  <2>1. ~ (no[c] > calls) /\ result \in [Call -> CallResult]
    BY <2>0, RmapFacts
  <2> QED BY <1>0, <1>1, <2>1 DEF MatchInv, Confirmed
<1> QED BY <1>4, <1>5, <1>6, <1>7 DEF MatchInv

(* What goes out is a command with the id of its call, or its id is noted  *)
(* as that of a mixture.                                                   *)
LEMMA MatchSend ==
    ASSUME RmapInv, MatchInv, NEW c \in Caller, Send(c)
    PROVE  MatchInv'
<1>0. /\ pc[c] = "send"
      /\ mSendBuffer' = [mSendBuffer EXCEPT ![c] = {}]
      /\ UNCHANGED <<mTransactions, mTransactionId, calls, kind, ids, slot, no, replies, executed>>
  BY DEF Send
<1>1. Busy(c) /\ no[c] \in Call
  BY <1>0, CommandIs
<1>2. /\ mixed \subseteq mixed'
      /\ \A m \in commands' :
           \/ m \in commands
           \/ m.tid \in mixed'
           \/ \E p \in mSendBuffer[c] : p.no # 0 /\ m.no = p.no /\ m.tid = p.tid
  BY DEF Send, OnItsWay
<1>3. \A m \in commands' : m.tid \in mixed' \/ Carries(m)
  BY <1>2 DEF MatchInv, Carried, Carries
<1>4. \A d \in Caller : mSendBuffer'[d] \subseteq mSendBuffer[d]
  BY <1>0, RmapFacts
<1>5. Carried'
  BY <1>0, <1>2, <1>3, <1>4 DEF MatchInv, Carried, Carries
<1>6. PICK q \in {"teardown", "wait"} : pc' = [pc EXCEPT ![c] = q]
  BY DEF Send
<1>7. q \in Pc \ {"idle", "reply"}
  BY DEF Pc
<1>8. FreshIds'
  BY <1>0, <1>1, <1>6, <1>7, CallerKeepsIds DEF MatchInv
<1>9. Answered'
  BY <1>0, <1>1, <1>2, <1>6, <1>7, CallerKeepsReplies
<1>10. Confirmed'
  <2>0. no[c] \in 1 .. calls
    BY <1>0, CommandIs
  <2>1. ~ (no[c] > calls) /\ result \in [Call -> CallResult]
    BY <2>0, RmapFacts
  <2>2. \/ UNCHANGED result
        \/ result' = [result EXCEPT ![no[c]] = "success"] /\ kind[no[c]] = "post"
    BY DEF Send
  <2> QED BY <1>0, <1>1, <1>2, <2>1, <2>2 DEF MatchInv, Confirmed
<1> QED BY <1>5, <1>8, <1>9, <1>10 DEF MatchInv

LEMMA MatchWait ==
    ASSUME RmapInv, MatchInv, NEW c \in Caller, Woken(c) \/ TimedOut(c)
    PROVE  MatchInv'
<1>0. /\ pc[c] = "wait" /\ pc' = [pc EXCEPT ![c] = "state"]
      /\ UNCHANGED <<mTransactionId, mSendBuffer, calls, kind, ids, result, slot, no, commands,
                     replies, executed, mixed>>
  BY DEF Woken, TimedOut, remote
<1>1. Busy(c) /\ slot[c] \in Slot
  BY <1>0 DEF Busy, RmapInv, Owners
<1> DEFINE t == mTransactions[slot[c]]
           new == [t EXCEPT !.released = FALSE]
<1>2. mTransactions \in [Slot -> Transaction] /\ t \in Transaction
  BY <1>1, RmapFacts
<1>3. new.tid = t.tid /\ new.state = t.state /\ new.reply = t.reply
  BY <1>2 DEF Transaction
<1>4. mTransactions' = [mTransactions EXCEPT ![slot[c]] = new] \/ mTransactions' = mTransactions
  BY DEF Woken, TimedOut
<1> HIDE DEF new
<1>5. \A s \in Slot : /\ mTransactions'[s].tid = mTransactions[s].tid
                      /\ mTransactions'[s].state = mTransactions[s].state
                      /\ mTransactions'[s].reply = mTransactions[s].reply
  BY <1>1, <1>2, <1>3, <1>4
<1>6. "state" \in Pc \ {"idle", "reply"}
  BY DEF Pc
<1>7. FreshIds'
  BY <1>0, <1>1, <1>5, <1>6, CallerKeepsIds DEF MatchInv
<1>8. Answered'
  BY <1>0, <1>1, <1>5, <1>6, CallerKeepsReplies
<1>9. Carried' /\ Confirmed'
  BY <1>0 DEF MatchInv, Carried, Carries, Confirmed
<1> QED BY <1>7, <1>8, <1>9 DEF MatchInv

(* A call is confirmed by the reply to its own command. *)
LEMMA MatchAnswer ==
    ASSUME RmapInv, MatchInv, NEW c \in Caller, GetState(c) \/ GetReply(c)
    PROVE  MatchInv'
<1>0. /\ pc[c] \in {"state", "reply"}
      /\ UNCHANGED <<mTransactions, mTransactionId, mSendBuffer, calls, kind, ids, slot, no,
                     commands, replies, executed, mixed>>
  BY DEF GetState, GetReply, remote
<1>1. Busy(c) /\ no[c] \in 1 .. calls /\ slot[c] \in Slot
  BY <1>0 DEF Busy, RmapInv, Owners
<1>2. PICK q \in {"reply", "teardown"} :
        /\ pc' = [pc EXCEPT ![c] = q]
        /\ q = "reply" => mTransactions[slot[c]].state = "replyReceived"
  BY DEF GetState, GetReply
<1>3. q \in Pc \ {"idle"}
  BY DEF Pc
<1>4. FreshIds'
  BY <1>0, <1>1, <1>2, <1>3, CallerKeepsIds DEF MatchInv
<1>5. Carried'
  BY <1>0 DEF MatchInv, Carried, Carries
<1>6. Answered'
  <2>1. \A d \in Caller : Busy(d)' <=> Busy(d)
    BY <1>1, <1>2, <1>3, RmapFacts DEF Busy
  <2>2. \A d \in Caller : pc'[d] = "reply" => mTransactions[slot[d]].state = "replyReceived"
    BY <1>2, RmapFacts DEF MatchInv, Answered
  <2> QED BY <1>0, <2>1, <2>2 DEF MatchInv, Answered, Holds
<1>7. Confirmed'
  <2>1. no[c] \in Call /\ ~ (no[c] > calls) /\ result \in [Call -> CallResult]
    BY <1>1, RmapFacts DEF Call
  <2>2. CASE GetState(c)
    <3>1. UNCHANGED result \/ result' = [result EXCEPT ![no[c]] = "timeout"]
      BY <2>2 DEF GetState
    <3> QED BY <1>0, <2>1, <3>1 DEF MatchInv, Confirmed
  <2>3. CASE GetReply(c)
    <3> DEFINE t == mTransactions[slot[c]]
    <3>1. PICK code \in Evaluate(kind[no[c]], t.reply.status) :
            result' = [result EXCEPT ![no[c]] = code]
      BY <2>3 DEF GetReply
    <3>2. pc[c] = "reply"
      BY <2>3 DEF GetReply
    <3>3. t.state = "replyReceived" /\ t.tid = ids[no[c]] /\ Holds(c, t)
      BY <1>1, <3>2 DEF MatchInv, Answered, FreshIds
    <3>4. code = "success" => t.reply.status # "failed"
      BY <3>1 DEF Evaluate
    <3>5. (code = "success" /\ ids[no[c]] \notin mixed) => no[c] \in executed
      BY <3>3, <3>4 DEF Holds
    <3> QED BY <1>0, <2>1, <3>1, <3>5 DEF MatchInv, Confirmed
  <2> QED BY <2>2, <2>3
<1> QED BY <1>4, <1>5, <1>6, <1>7 DEF MatchInv

LEMMA MatchTeardown ==
    ASSUME RmapInv, MatchInv, NEW c \in Caller, Teardown(c)
    PROVE  MatchInv'
<1>0. /\ pc' = [pc EXCEPT ![c] = "idle"] /\ slot' = [slot EXCEPT ![c] = 0]
      /\ no' = [no EXCEPT ![c] = 0]
      /\ UNCHANGED <<mTransactionId, mSendBuffer, calls, kind, ids, result, commands, replies,
                     executed, mixed>>
  BY DEF Teardown, remote
<1>1. /\ slot[c] \in Slot /\ Busy(c)
      /\ \A s \in Slot \ {slot[c]} : mTransactions'[s] = mTransactions[s]
  BY TeardownEffect
<1>2. /\ pc'[c] = "idle"
      /\ \A d \in Caller \ {c} : pc'[d] = pc[d] /\ slot'[d] = slot[d] /\ no'[d] = no[d]
  BY <1>0, RmapFacts
<1>3. \A d \in Caller : Busy(d)' => /\ Busy(d) /\ pc'[d] = pc[d] /\ no'[d] = no[d]
                                    /\ mTransactions'[slot'[d]] = mTransactions[slot[d]]
  BY <1>1, <1>2 DEF Busy, RmapInv, Owners
<1>4. FreshIds'
  BY <1>0, <1>3 DEF MatchInv, FreshIds
<1>5. Answered'
  <2>1. \A d \in Caller : pc'[d] = "reply" => Busy(d)'
    BY DEF Busy
  <2>2. \A d \in Caller : Busy(d)' => Holds(d, mTransactions[slot[d]])'
    BY <1>0, <1>3 DEF MatchInv, Answered, Holds
  <2> QED BY <1>0, <1>3, <2>1, <2>2 DEF MatchInv, Answered
<1>6. Carried' /\ Confirmed'
  BY <1>0 DEF MatchInv, Carried, Carries, Confirmed
<1> QED BY <1>4, <1>5, <1>6 DEF MatchInv

(* A call that is refused has no id. *)
LEMMA MatchRefuse ==
    ASSUME RmapInv, MatchInv, NEW c \in Caller, NEW k \in Kinds, NEW code \in Refusal,
           Refuse(c, k, code)
    PROVE  MatchInv'
<1>0. /\ calls < MaxCalls /\ calls' = calls + 1 /\ kind' = [kind EXCEPT ![calls + 1] = k]
      /\ result' = [result EXCEPT ![calls + 1] = code]
      /\ UNCHANGED <<mTransactions, mTransactionId, mSendBuffer, ids, pc, slot, no, commands,
                     replies, executed, mixed>>
  BY DEF Refuse, callers, remote
<1>1. /\ calls + 1 \in Call
      /\ \A n \in 1 .. calls : n \in 1 .. calls' /\ kind'[n] = kind[n]
  BY <1>0, NewCall
<1>2. mTransactionId \in Nat /\ calls \in Nat
  BY RmapFacts DEF Tid
<1>3. \A n \in Call : n > calls' => n > calls /\ n # calls + 1
  BY <1>0, <1>2, RmapFacts DEF Call
<1>4. FreshIds'
  <2>1. mTransactionId <= calls'
    BY <1>0, <1>2 DEF MatchInv, FreshIds
  <2> QED BY <1>0, <1>3, <2>1 DEF MatchInv, FreshIds, Busy
<1>5. Carried'
  BY <1>0, <1>1 DEF MatchInv, Carried, Carries
<1>6. Answered'
  BY <1>0 DEF MatchInv, Answered, Busy, Holds
<1>7. Confirmed'
  <2>1. result \in [Call -> CallResult] /\ code # "success"
    BY RmapFacts DEF Refusal
  <2>2. \A n \in Call : n # calls + 1 => n > calls \/ n \in 1 .. calls
    BY <1>2, RmapFacts DEF Call
  <2>3. \A n \in Call : result'[n] = IF n = calls + 1 THEN code ELSE result[n]
    BY <1>0, <1>1, <2>1
  <2> QED BY <1>0, <1>1, <1>3, <2>1, <2>2, <2>3 DEF MatchInv, Confirmed
<1> QED BY <1>4, <1>5, <1>6, <1>7 DEF MatchInv

(* The id that is given out is larger than all before, as long as ids are  *)
(* not used up.                                                            *)
LEMMA NextIdIsLarger ==
    ASSUME RmapInv, MatchInv, calls < maxTransactionId,
           NEW i \in 0 .. maxTransactionId, getNextAvailableTransactionID(i)
    PROVE  After(i) = mTransactionId + 1
<1>1. /\ mTransactionId \in Tid /\ mTransactionId \in Nat /\ calls \in Nat
      /\ maxTransactionId \in Nat /\ mTransactionId < maxTransactionId
  BY RmapFacts, RmapAssumption DEF Tid, MatchInv, FreshIds
<1>2. 1 \in 0 .. maxTransactionId /\ 1 \in 1 .. maxTransactionId
  BY <1>1
<1>3. After(1) = mTransactionId + 1
  BY <1>1, <1>2, AfterIs
<1>4. ~ isTransactionIdUsed(mTransactionId + 1)
  <2>1. SUFFICES ASSUME NEW s \in Slot, mTransactions[s].tid = mTransactionId + 1
                 PROVE  FALSE
    BY DEF isTransactionIdUsed
  <2>2. mTransactions[s].state # "notInitiated"
    BY <1>1, <2>1 DEF RmapInv, Owners
  <2>3. PICK c \in Caller : Busy(c) /\ slot[c] = s
    BY <2>2 DEF RmapInv, Owners
  <2>4. no[c] \in Call
    BY <2>3, RmapFacts DEF RmapInv, Owners, Call
  <2>5. ids[no[c]] = mTransactionId + 1 /\ ids[no[c]] <= mTransactionId
    BY <2>1, <2>3, <2>4 DEF MatchInv, FreshIds
  <2> QED BY <1>1, <2>5
<1>5. i = 1
  <2>1. CASE i = 0
    BY <1>2, <1>3, <1>4, <2>1 DEF getNextAvailableTransactionID
  <2>2. CASE i > 1
    <3>1. 1 \in 1 .. i - 1 /\ i # 0
      BY <2>2
    <3>2. isTransactionIdUsed(After(1))
      BY <3>1 DEF getNextAvailableTransactionID
    <3> QED BY <1>3, <1>4, <3>2
  <2> QED BY <2>1, <2>2
<1> QED BY <1>3, <1>5

LEMMA MatchReserve ==
    ASSUME RmapInv, MatchInv, NEW c \in Caller, NEW k \in Kinds, Reserve(c, k),
           calls' <= maxTransactionId
    PROVE  MatchInv'
<1> DEFINE q == IF k = "read" THEN "arm" ELSE "configure"
           id == mTransactionId + 1
<1>0. /\ ~ Busy(c) /\ pc' = [pc EXCEPT ![c] = q]
      /\ calls < MaxCalls /\ calls' = calls + 1 /\ kind' = [kind EXCEPT ![calls + 1] = k]
      /\ no' = [no EXCEPT ![c] = calls + 1]
      /\ ids' = [ids EXCEPT ![calls + 1] = mTransactionId']
      /\ UNCHANGED <<mSendBuffer, result, commands, replies, executed, mixed>>
  BY DEF Reserve, remote, Busy
<1>1. /\ calls + 1 \in Call
      /\ \A n \in 1 .. calls : n \in 1 .. calls' /\ n \in Call /\ kind'[n] = kind[n]
  BY <1>0, NewCall
<1>2. mTransactionId \in Nat /\ calls \in Nat /\ maxTransactionId \in Nat
  BY RmapFacts, RmapAssumption DEF Tid
<1>3. calls < maxTransactionId
  BY <1>0, <1>2
<1>4. PICK s \in Slot :
        /\ mTransactions[s].state = "notInitiated"
        /\ mTransactionId' = id
        /\ \A r \in Slot \ {s} : mTransactions'[r] = mTransactions[r]
        /\ mTransactions'[s].state = "reserved"
        /\ mTransactions'[s].tid = id
        /\ slot' = [slot EXCEPT ![c] = s]
  BY <1>3, ReserveEffect, NextIdIsLarger
<1>5. /\ pc'[c] = q /\ slot'[c] = s /\ no'[c] = calls + 1
      /\ \A d \in Caller \ {c} : pc'[d] = pc[d] /\ slot'[d] = slot[d] /\ no'[d] = no[d]
  BY <1>0, <1>4, RmapFacts
<1>6. \A d \in Caller \ {c} :
        /\ Busy(d)' <=> Busy(d)
        /\ Busy(d) => /\ slot[d] \in Slot \ {s} /\ no[d] \in 1 .. calls
                      /\ mTransactions'[slot'[d]] = mTransactions[slot[d]]
  BY <1>4, <1>5 DEF Busy, RmapInv, Owners
<1>7. /\ \A n \in Call : ids'[n] = IF n = calls + 1 THEN id ELSE ids[n]
      /\ \A n \in Call : ids[n] \in Nat
  BY <1>0, <1>1, <1>4, RmapFacts, RmapAssumption DEF Tid
<1>8. /\ \A n \in Call : n > calls' => n > calls /\ n # calls + 1
      /\ \A n \in Call : n > calls \/ n \in 1 .. calls
      /\ \A n \in 1 .. calls : n # calls + 1
  BY <1>0, <1>2, RmapFacts DEF Call
<1>9. FreshIds'
  <2>1. mTransactionId <= calls /\ \A n \in Call : ids[n] <= mTransactionId
    BY DEF MatchInv, FreshIds
  <2>2. mTransactionId' <= calls' /\ id # 0 /\ \A n \in Call : ids[n] # id /\ ids[n] <= id
    BY <1>0, <1>2, <1>4, <1>7, <2>1
  <2>3. \A n \in Call : ids'[n] <= mTransactionId' /\ (n > calls' => ids'[n] = 0)
    BY <1>2, <1>4, <1>7, <1>8, <2>2 DEF MatchInv, FreshIds
  <2>4. \A n, m \in Call : (ids'[n] = ids'[m] /\ ids'[n] # 0) => n = m
    BY <1>7, <2>2 DEF MatchInv, FreshIds
  <2>5. ASSUME NEW d \in Caller, Busy(d)'
        PROVE  mTransactions'[slot'[d]].tid = ids'[no'[d]] /\ ids'[no'[d]] # 0
    <3>1. CASE d = c
      BY <1>1, <1>4, <1>5, <1>7, <2>2, <3>1
    <3>2. CASE d # c
      <4>1. Busy(d) /\ no'[d] = no[d] /\ no[d] \in Call /\ no[d] # calls + 1
        BY <1>1, <1>5, <1>6, <1>8, <2>5, <3>2
      <4> QED BY <1>6, <1>7, <3>2, <4>1 DEF MatchInv, FreshIds
    <3> QED BY <3>1, <3>2
  <2> QED BY <2>2, <2>3, <2>4, <2>5 DEF FreshIds
<1>10. Carried'
  BY <1>0, <1>1, <1>7, <1>8 DEF MatchInv, Carried, Carries
<1>11. Answered'
  <2>1. \A d \in Caller : pc'[d] = "reply" => d # c /\ Busy(d)
    BY <1>5 DEF Busy
  <2>2. ASSUME NEW d \in Caller, Busy(d)' PROVE Holds(d, mTransactions[slot[d]])'
    <3>1. CASE d = c
      BY <1>4, <1>5, <3>1 DEF Holds
    <3>2. CASE d # c
      BY <1>0, <1>5, <1>6, <2>2, <3>2 DEF MatchInv, Answered, Holds
    <3> QED BY <3>1, <3>2
  <2> QED BY <1>0, <1>5, <1>6, <2>1, <2>2 DEF MatchInv, Answered
<1>12. Confirmed'
  BY <1>0, <1>1, <1>7, <1>8 DEF MatchInv, Confirmed
<1> QED BY <1>9, <1>10, <1>11, <1>12 DEF MatchInv

(* The reply that is registered answers the command of the transaction's   *)
(* owner, unless it has the id of a mixture.                               *)
LEMMA MatchReceive ==
    ASSUME RmapInv, MatchInv, NEW r \in replies, Receive(r)
    PROVE  MatchInv'
<1>0. /\ UNCHANGED <<mTransactionId, mSendBuffer, calls, kind, ids, result, pc, slot, no,
                     commands, executed, mixed>>
      /\ replies' = replies \ {r}
  BY DEF Receive, Discard, HandleUnknown, HandleMismatch, HandleReply, callers
<1>1. /\ Confirmed' /\ Carried'
      /\ \A d \in Caller : Busy(d)' <=> Busy(d)
  BY <1>0 DEF MatchInv, Carried, Carries, Confirmed, Busy
<1>2. CASE HandleReply(r)
  <2>1. PICK s \in Slot :
          /\ mTransactions[s].tid = r.tid
          /\ \A q \in Slot \ {s} : mTransactions'[q] = mTransactions[q]
          /\ mTransactions'[s].tid = mTransactions[s].tid
          /\ mTransactions'[s].state = "replyReceived"
          /\ mTransactions'[s].reply = [no |-> r.no, status |-> r.status]
    BY <1>2, HandleReplyEffect
  <2>2. \A d \in Caller : Busy(d) => slot[d] \in Slot /\ no[d] \in 1 .. calls /\ no[d] \in Call
    BY RmapFacts DEF RmapInv, Owners, Call
  <2>3. FreshIds'
    <3>1. \A d \in Caller : Busy(d) => mTransactions'[slot[d]].tid = mTransactions[slot[d]].tid
      BY <2>1, <2>2
    <3> QED BY <1>0, <1>1, <3>1 DEF MatchInv, FreshIds
  <2>4. ASSUME NEW d \in Caller, Busy(d), slot[d] = s, r.tid \notin mixed
        PROVE  r.no = no[d]
    <3>1. ids[no[d]] = r.tid /\ ids[no[d]] # 0
      BY <2>1, <2>4 DEF MatchInv, FreshIds
    <3>2. r.no \in 1 .. calls /\ ids[r.no] = r.tid
      BY <2>4 DEF MatchInv, Carried, Carries
    <3>3. r.no \in Call
      BY <3>2, RmapFacts DEF Call
    <3> QED BY <2>2, <2>4, <3>1, <3>2, <3>3 DEF MatchInv, FreshIds
  <2>5. r.status # "failed" => r.no \in executed
    BY DEF MatchInv, Answered
  <2>6. ASSUME NEW d \in Caller, Busy(d) PROVE Holds(d, mTransactions[slot[d]])'
    <3>1. CASE slot[d] = s
      BY <1>0, <2>1, <2>4, <2>5, <2>6, <3>1 DEF Holds
    <3>2. CASE slot[d] # s
      BY <1>0, <2>1, <2>2, <2>6, <3>2 DEF MatchInv, Answered, Holds
    <3> QED BY <3>1, <3>2
  <2>7. \A d \in Caller : pc[d] = "reply" => mTransactions'[slot[d]].state = "replyReceived"
    BY <2>1, <2>2 DEF MatchInv, Answered, Busy
  <2>8. Answered'
    BY <1>0, <1>1, <2>6, <2>7 DEF MatchInv, Answered
  <2> QED BY <1>1, <2>3, <2>8 DEF MatchInv
<1>3. CASE Discard(r) \/ HandleUnknown(r) \/ HandleMismatch(r)
  <2>1. UNCHANGED mTransactions
    BY <1>3 DEF Discard, HandleUnknown, HandleMismatch
  <2>2. FreshIds' /\ Answered'
    BY <1>0, <1>1, <2>1 DEF MatchInv, FreshIds, Answered, Holds
  <2> QED BY <1>1, <2>2 DEF MatchInv
<1> QED BY <1>2, <1>3 DEF Receive

LEMMA MatchExecute ==
    ASSUME RmapInv, MatchInv, NEW m \in commands, Execute(m)
    PROVE  MatchInv'
<1>0. /\ UNCHANGED <<mTransactions, mTransactionId, mSendBuffer, calls, kind, ids, result, pc,
                     slot, no, mixed>>
      /\ commands' = commands \ {m}
  BY DEF Execute, callers
<1>1. PICK status \in Status :
        /\ executed' = IF status = "failed" THEN executed ELSE executed \cup {m.no}
        /\ replies' = replies \cup
             (IF m.kind = "post" THEN {}
              ELSE {[no |-> m.no, kind |-> m.kind, tid |-> m.tid, by |-> m.by,
                     status |-> status]})
  BY DEF Execute
<1>2. \A d \in Caller : Busy(d)' <=> Busy(d)
  BY <1>0 DEF Busy
<1>3. \A r \in replies' :
        \/ r \in replies
        \/ r.no = m.no /\ r.tid = m.tid /\ (r.status # "failed" => m.no \in executed')
  BY <1>1
<1>4. executed \subseteq executed'
  BY <1>1
<1>5. FreshIds'
  BY <1>0, <1>2 DEF MatchInv, FreshIds
<1>6. Carried'
  BY <1>0, <1>3 DEF MatchInv, Carried, Carries
<1>7. Answered'
  BY <1>0, <1>2, <1>3, <1>4 DEF MatchInv, Answered, Holds
<1>8. Confirmed'
  BY <1>0, <1>4 DEF MatchInv, Confirmed
<1> QED BY <1>5, <1>6, <1>7, <1>8 DEF MatchInv

(* As long as there are more ids than calls, every reply reaches the call  *)
(* it answers and a call is confirmed only when the target has executed    *)
(* its command, although packets are lost, delayed and reordered, callers  *)
(* time out and the send buffer is shared.  The one exception is a call    *)
(* whose id was carried by a packet that several callers made up together  *)
(* (sendPacket, constructPacket, handleReplyPacket).                       *)
THEOREM RepliesMatchCalls == Spec => [](calls <= maxTransactionId => RepliesMatch)
<1> DEFINE M == RmapInv /\ (calls <= maxTransactionId => MatchInv)
<1>1. Init => M
  BY RmapInit, MatchInit
<1>2. M /\ [Next]_vars => M'
  <2> SUFFICES ASSUME RmapInv, calls <= maxTransactionId => MatchInv, [Next]_vars,
                      calls' <= maxTransactionId
               PROVE  MatchInv'
    BY RmapStep
  <2>1. calls' = calls \/ calls' = calls + 1
    BY DEF Next, Proceed, Configure, Arm, Construct, ConstructFails, Send, SendFails, Woken,
           TimedOut, GetState, GetReply, Teardown, Reserve, Refuse, Execute, Receive, Discard,
           HandleUnknown, HandleMismatch, HandleReply, vars
  <2>2. calls \in Nat /\ maxTransactionId \in Nat
    BY RmapFacts, RmapAssumption
  <2>3. MatchInv
    BY <2>1, <2>2
  <2>4. ASSUME NEW c \in Caller, Proceed(c) PROVE MatchInv'
    BY <2>3, <2>4, MatchConfigure, MatchConstruct, MatchFails, MatchSend, MatchWait,
       MatchAnswer, MatchTeardown DEF Proceed
  <2>5. ASSUME NEW c \in Caller, NEW k \in Kinds,
               Reserve(c, k) \/ \E code \in Refusal : Refuse(c, k, code)
        PROVE  MatchInv'
    BY <2>3, <2>5, MatchReserve, MatchRefuse
  <2>6. CASE \E m \in commands : Execute(m)
    BY <2>3, <2>6, MatchExecute
  <2>7. CASE \E r \in replies : Receive(r)
    BY <2>3, <2>7, MatchReceive
  <2>8. CASE UNCHANGED vars
    BY <2>3, <2>8 DEF MatchInv, FreshIds, Carried, Carries, Busy, Answered, Holds, Confirmed,
                      vars, callers, remote
  <2> QED BY <2>4, <2>5, <2>6, <2>7, <2>8 DEF Next
<1>3. M => (calls <= maxTransactionId => RepliesMatch)
  BY DEF MatchInv, Answered, Holds, Confirmed, RepliesMatch, Busy
<1> QED BY <1>1, <1>2, <1>3, PTL DEF Spec
-----------------------------------------------------------------------------
(* The simple packet protocol *)

(* What goes over the line; only workers send responses. *)
Message ==
    {m \in [from : {"coordinator", "worker"}, n : Nat, workerId : SipWorker,
            type : {"request", "response"}] : m.type = "response" => m.from = "worker"}
HalfPacket == [of : Message, half : {1, 2}]
Symbol     == HalfPacket \cup {Boundary}
TakenResponse == [data : Message, request : Nat, worker : SipWorker,
                  result : {"success", "workerIdError", "responseTypeError"}]

SipTypeOK ==
    /\ coordinator \in [at : {"idle", "write", "wait"}, n : Nat, worker : SipWorker]
    /\ mResponseQueue \in Seq(Message) /\ Len(mResponseQueue) <= 1
    /\ serialBuffer \in [1 .. BufferCells -> HalfPacket \cup {Boundary, NoPacket}]
    /\ atWorker \in [SipWorker -> Seq(Message)]
    /\ line \in [SipWorker -> Seq(Symbol)]
    /\ receiver \in [startBoundary : BOOLEAN, stored : 0 .. BufferCells,
                     bytesCounter : 0 .. BufferCells]
    /\ receiver.stored <= receiver.bytesCounter
    /\ receiver.startBoundary => receiver.stored >= 1
    /\ taken \in Seq(TakenResponse)

(* Request n has left the coordinator. *)
Sent(n) == n < coordinator.n \/ (n = coordinator.n /\ coordinator.at # "write")

(* Worker w has answered n before the requests that still wait there,      *)
(* before what it has on the line and before what receive() has stored of  *)
(* it.                                                                     *)
BeforeWorkers(n, w) == \A i \in 1 .. Len(atWorker[w]) : n < atWorker[w][i].n
BeforeLine(n, w) ==
    \A j \in 1 .. Len(line[w]) : line[w][j] # Boundary => n < line[w][j].of.n
Stored == {k \in 2 .. receiver.stored : serialBuffer[k] # Boundary}
BeforeStored(n, w) ==
    \A k \in Stored :
        (serialBuffer[k].of.from = "worker" /\ serialBuffer[k].of.workerId = w) =>
            n < serialBuffer[k].of.n
Delivered(n, w) ==
    Sent(n) /\ BeforeWorkers(n, w) /\ BeforeLine(n, w) /\ BeforeStored(n, w)

WorkerOrdered(w) ==
    \A i \in 1 .. Len(atWorker[w]) :
        /\ atWorker[w][i].workerId = w
        /\ Sent(atWorker[w][i].n)
        /\ \A j \in 1 .. Len(atWorker[w]) : i < j => atWorker[w][i].n < atWorker[w][j].n
WorkersOrdered == \A w \in SipWorker : WorkerOrdered(w)
WorkerLineOrdered(w) ==
    \A i \in 1 .. Len(line[w]) : line[w][i] # Boundary =>
        /\ line[w][i].of.from = "worker" /\ line[w][i].of.workerId = w
        /\ Sent(line[w][i].of.n) /\ BeforeWorkers(line[w][i].of.n, w)
        /\ line[w][i].half = 2 =>
             \A j \in 1 .. Len(line[w]) : i < j /\ line[w][j] # Boundary =>
                line[w][i].of.n < line[w][j].of.n
LineOrdered == \A w \in SipWorker : WorkerLineOrdered(w)
StoredOrdered ==
    \A k \in Stored :
        /\ serialBuffer[k] \in HalfPacket /\ serialBuffer[k].of.n <= coordinator.n
        /\ serialBuffer[k].of.from = "worker" =>
             /\ Sent(serialBuffer[k].of.n)
             /\ BeforeWorkers(serialBuffer[k].of.n, serialBuffer[k].of.workerId)
             /\ serialBuffer[k].half = 2 =>
                  BeforeLine(serialBuffer[k].of.n, serialBuffer[k].of.workerId)
QueueOrdered ==
    \A q \in 1 .. Len(mResponseQueue) :
        /\ mResponseQueue[q].n <= coordinator.n
        /\ mResponseQueue[q].from = "worker" =>
             /\ Delivered(mResponseQueue[q].n, mResponseQueue[q].workerId)
             /\ \A i \in 1 .. Len(taken) :
                  (/\ taken[i].data.from = "worker"
                   /\ taken[i].data.workerId = mResponseQueue[q].workerId) =>
                      taken[i].data.n < mResponseQueue[q].n
TakenOrdered ==
    \A i \in 1 .. Len(taken) : taken[i].data.from = "worker" =>
        Delivered(taken[i].data.n, taken[i].data.workerId)

SipInv == /\ SipTypeOK /\ WorkersOrdered /\ LineOrdered /\ StoredOrdered
          /\ QueueOrdered /\ TakenOrdered /\ ResponsesSound
-----------------------------------------------------------------------------
LEMMA LeastElement ==
    ASSUME NEW T \in SUBSET Nat, T # {}
    PROVE  \E x \in T : \A y \in T : x <= y
<1> DEFINE R == OpToRel(<, Nat)
<1>1. \E x \in T : \A y \in T : ~ (<<y, x>> \in R)
  BY NatLessThanWellFounded, WFMin
<1>2. \A x, y \in T : y < x => <<y, x>> \in R
  BY DEF OpToRel
<1> HIDE DEF R
<1>3. \A x, y \in T : ~ (y < x) => x <= y
  OBVIOUS
<1> QED BY <1>1, <1>2, <1>3

(* A packet that decode() finds in the buffer fills the cells 2 and 3, and *)
(* the end of the frame lies behind them.                                  *)
LEMMA ContentCells ==
    ASSUME NEW cells \in [1 .. BufferCells -> HalfPacket \cup {Boundary, NoPacket}],
           NEW n \in 2 .. BufferCells, cells[n] = Boundary, IsPacket(Content(cells))
    PROVE  /\ 4 <= n /\ cells[2] # Boundary /\ cells[3] # Boundary
           /\ Content(cells)[1] = cells[2] /\ Content(cells)[2] = cells[3]
<1> DEFINE ends == {k \in 2 .. BufferCells : cells[k] = Boundary}
           last == CHOOSE k \in ends : \A j \in ends : k <= j
<1>0. BufferCells \in Nat /\ BufferCells >= 4
  BY SipAssumption
<1>1. ends \in SUBSET Nat /\ n \in ends
  BY <1>0
<1>2. last \in ends /\ \A j \in ends : last <= j
  <2>1. \E k \in ends : \A j \in ends : k <= j
    BY <1>1, LeastElement
  <2> HIDE DEF ends
  <2> QED BY <2>1
<1>3. Content(cells) = SubSeq(cells, 2, last - 1)
  BY DEF Content
<1> HIDE DEF last
<1>4. last \in 2 .. BufferCells /\ cells[last] = Boundary /\ last <= n
      /\ \A j \in 2 .. BufferCells : cells[j] = Boundary => last <= j
  BY <1>1, <1>2
<1>5. cells \in Seq(HalfPacket \cup {Boundary, NoPacket}) /\ Len(cells) = BufferCells
  BY <1>0
<1>6. Len(Content(cells)) = last - 2
  BY <1>0, <1>3, <1>4, <1>5
<1>7. last = 4
  <2>1. last - 2 = 2
    BY <1>6, Zenon DEF IsPacket
  <2> QED BY <1>4, <2>1
<1>8. Content(cells)[1] = cells[2] /\ Content(cells)[2] = cells[3]
  BY <1>0, <1>3, <1>5, <1>7
<1>9. cells[2] # Boundary /\ cells[3] # Boundary
  BY <1>0, <1>4, <1>7
<1> QED BY <1>0, <1>4, <1>7, <1>8, <1>9

LEMMA SipTypes ==
    ASSUME SipTypeOK
    PROVE  /\ coordinator.n \in Nat /\ coordinator.at \in {"idle", "write", "wait"}
           /\ coordinator.worker \in SipWorker
           /\ coordinator = [at |-> coordinator.at, n |-> coordinator.n,
                             worker |-> coordinator.worker]
           /\ receiver.stored \in Nat /\ receiver.bytesCounter \in Nat
           /\ receiver.startBoundary \in BOOLEAN
           /\ receiver.stored <= receiver.bytesCounter /\ receiver.bytesCounter <= BufferCells
           /\ BufferCells \in Nat /\ BufferCells >= 4
           /\ \A w \in SipWorker, i \in Nat : i \in 1 .. Len(atWorker[w]) =>
                atWorker[w][i] \in Message /\ atWorker[w][i].n \in Nat
           /\ \A i \in 1 .. Len(taken) :
                /\ taken[i].data \in Message /\ taken[i].data.n \in Nat
                /\ taken[i].data.workerId \in SipWorker
           /\ \A w \in SipWorker, i \in Nat :
                i \in 1 .. Len(line[w]) /\ line[w][i] # Boundary =>
                  /\ line[w][i] \in HalfPacket /\ line[w][i].of \in Message
                  /\ line[w][i].of.n \in Nat
<1>0. BufferCells \in Nat /\ BufferCells >= 4
  BY SipAssumption
<1>1. /\ coordinator.n \in Nat /\ coordinator.at \in {"idle", "write", "wait"}
      /\ coordinator.worker \in SipWorker
      /\ coordinator = [at |-> coordinator.at, n |-> coordinator.n, worker |-> coordinator.worker]
  BY DEF SipTypeOK
<1>2. /\ receiver.stored \in Nat /\ receiver.bytesCounter \in Nat
      /\ receiver.startBoundary \in BOOLEAN
      /\ receiver.stored <= receiver.bytesCounter /\ receiver.bytesCounter <= BufferCells
  BY <1>0 DEF SipTypeOK
<1>3. \A m \in Message : m.n \in Nat /\ m.workerId \in SipWorker
  BY DEF Message
<1>4. ASSUME NEW w \in SipWorker, NEW i \in 1 .. Len(atWorker[w])
      PROVE  atWorker[w][i] \in Message
  <2>1. atWorker[w] \in Seq(Message)
    BY DEF SipTypeOK
  <2> QED BY <2>1
<1>5. \A i \in 1 .. Len(taken) : taken[i].data \in Message
  <2>1. \A i \in 1 .. Len(taken) : taken[i] \in TakenResponse
    BY DEF SipTypeOK
  <2> QED BY <2>1 DEF TakenResponse
<1>6. ASSUME NEW w \in SipWorker, NEW i \in 1 .. Len(line[w]), line[w][i] # Boundary
      PROVE  line[w][i] \in HalfPacket
  <2>1. line[w] \in Seq(Symbol)
    BY DEF SipTypeOK
  <2>2. line[w][i] \in Symbol
    BY <2>1
  <2> QED BY <1>6, <2>2 DEF Symbol
<1>7. \A h \in HalfPacket : h.of \in Message
  BY DEF HalfPacket
<1>8. /\ \A w \in SipWorker, i \in Nat : i \in 1 .. Len(atWorker[w]) =>
           atWorker[w][i] \in Message /\ atWorker[w][i].n \in Nat
      /\ \A i \in 1 .. Len(taken) :
           /\ taken[i].data \in Message /\ taken[i].data.n \in Nat
           /\ taken[i].data.workerId \in SipWorker
  BY <1>3, <1>4, <1>5
<1>9. \A w \in SipWorker, i \in Nat :
        i \in 1 .. Len(line[w]) /\ line[w][i] # Boundary =>
          /\ line[w][i] \in HalfPacket /\ line[w][i].of \in Message
          /\ line[w][i].of.n \in Nat
  BY <1>3, <1>6, <1>7
<1> QED BY <1>0, <1>1, <1>2, <1>8, <1>9

(* A step that neither takes nor queues a response, and moves no response  *)
(* before one of the same worker that was delivered.                       *)
LEMMA OrderKept ==
    ASSUME SipInv, SipTypeOK', WorkersOrdered', LineOrdered', StoredOrdered',
           UNCHANGED <<mResponseQueue, taken>>, coordinator.n <= coordinator'.n,
           \A n \in Nat, w \in SipWorker : Delivered(n, w) => Delivered(n, w)'
    PROVE  SipInv'
<1>0. coordinator.n \in Nat /\ coordinator'.n \in Nat
  BY DEF SipInv, SipTypeOK
<1>1. ResponsesSound'
  BY DEF SipInv, ResponsesSound, ResponsesInOrder, SuccessIsFromWorker
<1>2. TakenOrdered'
  <2> SUFFICES ASSUME NEW i \in 1 .. Len(taken), taken[i].data.from = "worker"
               PROVE  \A n, w : n = taken[i].data.n /\ w = taken[i].data.workerId
                                  => Delivered(n, w)'
    BY DEF TakenOrdered
  <2>1. taken[i].data.n \in Nat /\ taken[i].data.workerId \in SipWorker
    BY SipTypes DEF SipInv
  <2>2. \A n, w : n = taken[i].data.n /\ w = taken[i].data.workerId => Delivered(n, w)
    BY DEF SipInv, TakenOrdered
  <2> QED BY <2>1, <2>2
<1>3. QueueOrdered'
  <2>1. \A q \in 1 .. Len(mResponseQueue) :
           mResponseQueue[q].n \in Nat /\ mResponseQueue[q].workerId \in SipWorker
    <3>1. \A q \in 1 .. Len(mResponseQueue) : mResponseQueue[q] \in Message
      BY DEF SipInv, SipTypeOK
    <3> QED BY <3>1 DEF Message
  <2> QED BY <1>0, <2>1 DEF SipInv, QueueOrdered
<1> QED BY <1>1, <1>2, <1>3 DEF SipInv

LEMMA SipInitInv == SipInit => SipInv
<1> SUFFICES ASSUME SipInit PROVE SipInv
  OBVIOUS
<1>1. SipTypeOK
  <2>1. (CHOOSE w \in SipWorker : TRUE) \in SipWorker
    BY SipAssumption
  <2> QED BY <2>1, SipAssumption DEF SipInit, SipTypeOK, Listening
<1>2. /\ Len(taken) = 0 /\ Len(mResponseQueue) = 0 /\ receiver.stored = 0
      /\ \A w \in SipWorker : Len(line[w]) = 0 /\ Len(atWorker[w]) = 0
  BY DEF SipInit, Listening
<1>3. ResponsesSound /\ TakenOrdered /\ QueueOrdered
  BY <1>2 DEF ResponsesSound, ResponsesInOrder, SuccessIsFromWorker, TakenOrdered, QueueOrdered
<1>4. WorkersOrdered /\ LineOrdered /\ StoredOrdered
  BY <1>2 DEF WorkersOrdered, WorkerOrdered, LineOrdered, WorkerLineOrdered, StoredOrdered, Stored
<1> QED BY <1>1, <1>3, <1>4 DEF SipInv

LEMMA RequestType ==
    ASSUME NEW n \in Nat, NEW w \in SipWorker
    PROVE  /\ Request(n, w) \in Message /\ Request(n, w).n = n
           /\ Request(n, w).workerId = w /\ Request(n, w).from = "coordinator"
           /\ [of |-> Request(n, w), half |-> 1] \in HalfPacket
           /\ [of |-> Request(n, w), half |-> 2] \in HalfPacket
  BY DEF Request, Message, HalfPacket
LEMMA ResponseType ==
    ASSUME NEW r \in Message
    PROVE  /\ Response(r) \in Message /\ Response(r).n = r.n
           /\ Response(r).workerId = r.workerId /\ Response(r).from = "worker"
           /\ [of |-> Response(r), half |-> 1] \in HalfPacket
           /\ [of |-> Response(r), half |-> 2] \in HalfPacket
  BY DEF Response, Message, HalfPacket

(* The symbols of a worker stay. *)
LEMMA LineKept ==
    ASSUME SipInv, NEW w \in SipWorker, line'[w] = line[w],
           \A n \in Nat : Sent(n) => Sent(n)',
           \A n \in Nat : Sent(n) /\ BeforeWorkers(n, w) => BeforeWorkers(n, w)'
    PROVE  WorkerLineOrdered(w)'
<1>1. WorkerLineOrdered(w)
  BY DEF SipInv, LineOrdered
<1>2. \A i \in 1 .. Len(line[w]) : line[w][i] # Boundary => line[w][i].of.n \in Nat
  BY SipTypes DEF SipInv
<1>3. \A i \in 1 .. Len(line[w]), n \in Nat :
        (line[w][i] # Boundary /\ n = line[w][i].of.n) => Sent(n)' /\ BeforeWorkers(n, w)'
  <2>1. \A i \in 1 .. Len(line[w]), n \in Nat :
          (line[w][i] # Boundary /\ n = line[w][i].of.n) => Sent(n) /\ BeforeWorkers(n, w)
    BY <1>1 DEF WorkerLineOrdered
  <2> QED BY <2>1
<1> QED BY <1>1, <1>2, <1>3 DEF WorkerLineOrdered

(* Nothing but the coordinator, what it is at and its buffer change, and   *)
(* no request leaves it: what is at the workers and on the line stays.     *)
LEMMA UnderWayKept ==
    ASSUME SipInv, UNCHANGED <<atWorker, line>>,
           \A n \in Nat : Sent(n) => Sent(n)'
    PROVE  /\ WorkersOrdered' /\ LineOrdered'
           /\ \A n, w : (BeforeWorkers(n, w) <=> BeforeWorkers(n, w)')
                     /\ (BeforeLine(n, w) <=> BeforeLine(n, w)')
<1>1. \A n, w : (BeforeWorkers(n, w) <=> BeforeWorkers(n, w)')
             /\ (BeforeLine(n, w) <=> BeforeLine(n, w)')
  BY DEF BeforeWorkers, BeforeLine
<1>2. WorkersOrdered'
  <2> SUFFICES ASSUME NEW w \in SipWorker PROVE WorkerOrdered(w)'
    BY DEF WorkersOrdered
  <2> QED BY SipTypes DEF SipInv, WorkersOrdered, WorkerOrdered
<1>3. LineOrdered'
  <2> SUFFICES ASSUME NEW w \in SipWorker PROVE WorkerLineOrdered(w)'
    BY DEF LineOrdered
  <2> QED BY <1>1, LineKept
<1> QED BY <1>1, <1>2, <1>3

(* The buffer and what receive() has stored stay. *)
LEMMA StoredKept ==
    ASSUME SipInv, UNCHANGED <<serialBuffer, receiver>>, coordinator.n <= coordinator'.n,
           \A n \in Nat : Sent(n) => Sent(n)',
           \A n \in Nat, w \in SipWorker : Sent(n) /\ BeforeWorkers(n, w) => BeforeWorkers(n, w)',
           \A n \in Nat, w \in SipWorker :
             BeforeWorkers(n, w) /\ BeforeLine(n, w) => BeforeLine(n, w)',
           coordinator'.n \in Nat
    PROVE  /\ StoredOrdered'
           /\ \A n, w : BeforeStored(n, w) <=> BeforeStored(n, w)'
<1>1. Stored' = Stored
  BY DEF Stored
<1>2. \A k \in Stored :
        serialBuffer[k].of.n \in Nat /\ serialBuffer[k].of.workerId \in SipWorker
  BY DEF SipInv, StoredOrdered, HalfPacket, Message
<1>3. coordinator.n \in Nat
  BY SipTypes DEF SipInv
<1>4. StoredOrdered'
  BY <1>1, <1>2, <1>3 DEF SipInv, StoredOrdered
<1>5. \A n, w : BeforeStored(n, w) <=> BeforeStored(n, w)'
  BY <1>1 DEF BeforeStored
<1> QED BY <1>4, <1>5

LEMMA sendRequestKeeps ==
    ASSUME SipInv, NEW w \in SipWorker, sendRequest(w)
    PROVE  SipInv'
<1> DEFINE m == coordinator.n + 1
<1>1. /\ coordinator.n \in Nat /\ m \in Nat /\ coordinator.at = "idle"
      /\ coordinator'.n = m /\ coordinator'.at = "write" /\ coordinator'.worker = w
      /\ UNCHANGED <<mResponseQueue, atWorker, line, receiver, taken>>
  BY SipTypes DEF SipInv, sendRequest
<1>2. /\ \A i \in 1 .. BufferCells : i > 4 => serialBuffer'[i] = serialBuffer[i]
      /\ serialBuffer'[1] = Boundary /\ serialBuffer'[4] = Boundary
      /\ serialBuffer'[2] = [of |-> Request(m, w), half |-> 1]
      /\ serialBuffer'[3] = [of |-> Request(m, w), half |-> 2]
  BY <1>1, SipTypes DEF SipInv, sendRequest, Frame
<1>3. /\ serialBuffer'[2] \in HalfPacket /\ serialBuffer'[3] \in HalfPacket
      /\ serialBuffer'[2].of.n = m /\ serialBuffer'[3].of.n = m
      /\ serialBuffer'[2].of.from = "coordinator" /\ serialBuffer'[3].of.from = "coordinator"
  BY <1>1, <1>2, RequestType
<1>4. SipTypeOK'
  <2>1. serialBuffer' \in [1 .. BufferCells -> HalfPacket \cup {Boundary, NoPacket}]
    <3>1. ASSUME NEW i \in 1 .. BufferCells
          PROVE  serialBuffer'[i] \in HalfPacket \cup {Boundary, NoPacket}
      <4>1. i > 4 \/ i = 1 \/ i = 2 \/ i = 3 \/ i = 4
        BY SipTypes DEF SipInv
      <4> QED BY <1>2, <1>3, <4>1 DEF SipInv, SipTypeOK
    <3>2. serialBuffer' = [i \in 1 .. BufferCells |-> serialBuffer'[i]]
      BY DEF sendRequest
    <3> QED BY <3>1, <3>2
  <2>2. coordinator' \in [at : {"idle", "write", "wait"}, n : Nat, worker : SipWorker]
    BY <1>1 DEF sendRequest
  <2> QED BY <1>1, <2>1, <2>2 DEF SipInv, SipTypeOK
<1>5. \A n \in Nat : Sent(n) => Sent(n)' /\ n <= coordinator.n
  BY <1>1 DEF Sent
<1>6. /\ WorkersOrdered' /\ LineOrdered'
      /\ \A n, v : (BeforeWorkers(n, v) <=> BeforeWorkers(n, v)')
                /\ (BeforeLine(n, v) <=> BeforeLine(n, v)')
  BY <1>1, <1>5, UnderWayKept
<1>7. ASSUME NEW k \in Stored'
      PROVE  /\ k \in 2 .. receiver.stored
             /\ \/ k \in {2, 3}
                \/ k \in Stored /\ serialBuffer'[k] = serialBuffer[k]
  <2>1. k \in 2 .. receiver.stored /\ serialBuffer'[k] # Boundary /\ k \in 1 .. BufferCells
    BY <1>1, SipTypes DEF SipInv, Stored
  <2> QED BY <1>1, <1>2, <2>1, SipTypes DEF SipInv, Stored
<1>8. \A n \in Nat, v \in SipWorker : Delivered(n, v) => Delivered(n, v)'
  <2>1. \A n \in Nat, v \in SipWorker : BeforeStored(n, v) => BeforeStored(n, v)'
    BY <1>3, <1>7 DEF BeforeStored
  <2> QED BY <1>5, <1>6, <2>1 DEF Delivered
<1>9. StoredOrdered'
  <2> SUFFICES ASSUME NEW k \in Stored'
               PROVE  /\ serialBuffer'[k] \in HalfPacket /\ serialBuffer'[k].of.n <= m
                      /\ serialBuffer'[k].of.from = "worker" =>
                           /\ Sent(serialBuffer[k].of.n)'
                           /\ BeforeWorkers(serialBuffer[k].of.n, serialBuffer[k].of.workerId)'
                           /\ serialBuffer'[k].half = 2 =>
                                BeforeLine(serialBuffer[k].of.n, serialBuffer[k].of.workerId)'
    BY <1>1 DEF StoredOrdered
  <2>1. CASE k \in {2, 3}
    BY <1>1, <1>3, <2>1
  <2>2. CASE k \in Stored /\ serialBuffer'[k] = serialBuffer[k]
    <3>1. serialBuffer[k] \in HalfPacket /\ serialBuffer[k].of.n \in Nat
      BY <2>2 DEF SipInv, StoredOrdered, HalfPacket, Message
    <3> QED BY <1>1, <1>5, <1>6, <2>2, <3>1 DEF SipInv, StoredOrdered
  <2> QED BY <1>7, <2>1, <2>2
<1> QED BY <1>1, <1>4, <1>6, <1>8, <1>9, OrderKept

(* The coordinator goes on without a change of what is under way. *)
LEMMA CoordinatorKeeps ==
    ASSUME SipInv, coordinator' = [coordinator EXCEPT !.at = "idle"],
           UNCHANGED <<mResponseQueue, serialBuffer, atWorker, line, receiver, taken>>
    PROVE  SipInv'
<1>1. coordinator.n \in Nat /\ coordinator'.n = coordinator.n /\ coordinator'.at = "idle"
      /\ coordinator' \in [at : {"idle", "write", "wait"}, n : Nat, worker : SipWorker]
  BY DEF SipInv, SipTypeOK
<1>2. SipTypeOK'
  BY <1>1 DEF SipInv, SipTypeOK
<1>3. \A n \in Nat : Sent(n) => Sent(n)'
  BY <1>1 DEF Sent
<1>4. /\ WorkersOrdered' /\ LineOrdered'
      /\ \A n, w : (BeforeWorkers(n, w) <=> BeforeWorkers(n, w)')
                /\ (BeforeLine(n, w) <=> BeforeLine(n, w)')
  BY <1>3, UnderWayKept
<1>5. StoredOrdered' /\ \A n, w : BeforeStored(n, w) <=> BeforeStored(n, w)'
  BY <1>1, <1>3, <1>4, StoredKept
<1>6. \A n \in Nat, w \in SipWorker : Delivered(n, w) => Delivered(n, w)'
  BY <1>3, <1>4, <1>5 DEF Delivered
<1> QED BY <1>1, <1>2, <1>4, <1>5, <1>6, OrderKept

LEMMA transmitKeeps ==
    ASSUME SipInv, transmit
    PROVE  SipInv'
<1>0. PICK w \in SipWorker : w = coordinator.worker
  BY SipTypes DEF SipInv
<1> DEFINE r == Request(coordinator.n, w)
           L == Len(atWorker[w])
<1>1. /\ coordinator.n \in Nat /\ coordinator'.n = coordinator.n /\ coordinator.at = "write"
      /\ coordinator'.at = "wait"
      /\ coordinator' \in [at : {"idle", "write", "wait"}, n : Nat, worker : SipWorker]
      /\ UNCHANGED <<mResponseQueue, serialBuffer, line, receiver, taken>>
  BY DEF SipInv, SipTypeOK, transmit
<1>2. /\ atWorker \in [SipWorker -> Seq(Message)] /\ atWorker[w] \in Seq(Message) /\ L \in Nat
      /\ r \in Message /\ r.n = coordinator.n /\ r.workerId = w
  <2>1. atWorker \in [SipWorker -> Seq(Message)]
    BY DEF SipInv, SipTypeOK
  <2>2. atWorker[w] \in Seq(Message)
    BY <1>1, <2>1
  <2>3. r \in Message /\ r.n = coordinator.n /\ r.workerId = w
    BY <1>1, RequestType
  <2>4. L \in Nat
    BY <2>2
  <2> QED BY <2>1, <2>2, <2>3, <2>4
<1>3. \/ atWorker' = atWorker
      \/ atWorker' = [atWorker EXCEPT ![w] = Append(@, r)]
  BY <1>0 DEF transmit
<1> HIDE DEF r
<1>4. /\ atWorker' \in [SipWorker -> Seq(Message)]
      /\ \A v \in SipWorker \ {w} : atWorker'[v] = atWorker[v]
      /\ \/ atWorker'[w] = atWorker[w]
         \/ /\ Len(atWorker'[w]) = L + 1 /\ atWorker'[w][L + 1] = r
            /\ \A i \in 1 .. L : atWorker'[w][i] = atWorker[w][i]
  <2>1. CASE atWorker' = atWorker
    BY <1>2, <2>1
  <2>2. CASE atWorker' = [atWorker EXCEPT ![w] = Append(@, r)]
    <3>1. /\ atWorker'[w] = Append(atWorker[w], r)
          /\ \A v \in SipWorker \ {w} : atWorker'[v] = atWorker[v]
      BY <1>1, <1>2, <2>2
    <3>2. Append(atWorker[w], r) \in Seq(Message)
      BY <1>2
    <3>3. atWorker' \in [SipWorker -> Seq(Message)]
      BY <1>1, <1>2, <2>2, <3>2
    <3>4. /\ Len(Append(atWorker[w], r)) = L + 1 /\ Append(atWorker[w], r)[L + 1] = r
          /\ \A i \in 1 .. L : Append(atWorker[w], r)[i] = atWorker[w][i]
      BY <1>2
    <3> QED BY <3>1, <3>3, <3>4
  <2> QED BY <1>3, <2>1, <2>2
<1>5. SipTypeOK'
  BY <1>1, <1>4 DEF SipInv, SipTypeOK
<1>6. \A n \in Nat : Sent(n) => Sent(n)' /\ n < coordinator.n
  BY <1>1 DEF Sent
<1>7. \A n \in Nat, v \in SipWorker : Sent(n) /\ BeforeWorkers(n, v) => BeforeWorkers(n, v)'
  <2> SUFFICES ASSUME NEW n \in Nat, NEW v \in SipWorker, Sent(n), BeforeWorkers(n, v),
                      NEW i \in 1 .. Len(atWorker'[v])
               PROVE  n < atWorker'[v][i].n
    BY DEF BeforeWorkers
  <2>1. n < coordinator.n
    BY <1>6
  <2>2. CASE atWorker'[v] = atWorker[v]
    BY <2>2 DEF BeforeWorkers
  <2>3. CASE /\ v = w /\ Len(atWorker'[w]) = L + 1 /\ atWorker'[w][L + 1] = r
             /\ \A j \in 1 .. L : atWorker'[w][j] = atWorker[w][j]
    <3>1. CASE i \in 1 .. L
      <4>1. n < atWorker[w][i].n
        BY <2>3, <3>1 DEF BeforeWorkers
      <4> QED BY <2>3, <3>1, <4>1
    <3>2. CASE i = L + 1
      BY <1>2, <2>1, <2>3, <3>2
    <3> QED BY <1>2, <2>3, <3>1, <3>2
  <2> QED BY <1>4, <2>2, <2>3
<1>8. \A n, v : BeforeLine(n, v) <=> BeforeLine(n, v)'
  BY <1>1 DEF BeforeLine
<1>9. StoredOrdered' /\ \A n, v : BeforeStored(n, v) <=> BeforeStored(n, v)'
  BY <1>1, <1>6, <1>7, <1>8, StoredKept
<1>10. \A n \in Nat, v \in SipWorker : Delivered(n, v) => Delivered(n, v)'
  BY <1>6, <1>7, <1>8, <1>9 DEF Delivered
<1>11. LineOrdered'
  <2> SUFFICES ASSUME NEW v \in SipWorker PROVE WorkerLineOrdered(v)'
    BY DEF LineOrdered
  <2>1. line'[v] = line[v]
    BY <1>1
  <2> QED BY <1>6, <1>7, <2>1, LineKept
<1>12. WorkersOrdered'
  <2> SUFFICES ASSUME NEW v \in SipWorker PROVE WorkerOrdered(v)'
    BY DEF WorkersOrdered
  <2>0. WorkerOrdered(v)
    BY DEF SipInv, WorkersOrdered
  <2>1. CASE atWorker'[v] = atWorker[v]
    BY <1>6, <2>0, <2>1, SipTypes DEF SipInv, WorkerOrdered
  <2>2. CASE /\ v = w /\ Len(atWorker'[w]) = L + 1 /\ atWorker'[w][L + 1] = r
             /\ \A i \in 1 .. L : atWorker'[w][i] = atWorker[w][i]
    <3>0. \A i \in 1 .. L : /\ atWorker[w][i].workerId = w /\ Sent(atWorker[w][i].n)
                            /\ atWorker[w][i].n \in Nat
                            /\ \A j \in 1 .. L : i < j => atWorker[w][i].n < atWorker[w][j].n
      BY <2>0, <2>2, SipTypes DEF SipInv, WorkerOrdered
    <3>1. \A i \in 1 .. L : Sent(atWorker[w][i].n)' /\ atWorker[w][i].n < coordinator.n
      <4> TAKE i \in 1 .. L
      <4>1. atWorker'[w][i].n = atWorker[w][i].n
        BY <2>2
      <4>2. atWorker[w][i].n < coordinator.n
        BY <1>6, <3>0
      <4> QED BY <1>1, <4>1, <4>2 DEF Sent
    <3>2. atWorker'[w][L + 1].n = coordinator.n /\ \A n : n = coordinator.n => Sent(n)'
      BY <1>1, <1>2, <2>2 DEF Sent
    <3>3. \A i \in 1 .. L + 1 : i \in 1 .. L \/ i = L + 1
      BY <1>2
    <3>4. ASSUME NEW i \in 1 .. L + 1, NEW j \in 1 .. L + 1, i < j
          PROVE  atWorker'[w][i].n < atWorker'[w][j].n
      <4>1. i \in 1 .. L
        BY <1>2, <3>4
      <4>2. CASE j \in 1 .. L
        BY <2>2, <3>0, <3>4, <4>1, <4>2
      <4>3. CASE j = L + 1
        BY <2>2, <3>1, <3>2, <4>1, <4>3
      <4> QED BY <3>3, <4>2, <4>3
    <3>5. \A i \in 1 .. L + 1 : atWorker'[w][i].workerId = w
      BY <1>2, <2>2, <3>0, <3>3
    <3>6. ASSUME NEW i \in 1 .. L + 1 PROVE Sent(atWorker[v][i].n)'
      <4>1. CASE i \in 1 .. L
        BY <2>2, <3>1, <4>1
      <4>2. CASE i = L + 1
        BY <2>2, <3>2, <4>2
      <4> QED BY <3>3, <4>1, <4>2
    <3> QED BY <2>2, <3>4, <3>5, <3>6 DEF WorkerOrdered
  <2> QED BY <1>4, <2>1, <2>2
<1> QED BY <1>1, <1>5, <1>9, <1>10, <1>11, <1>12, OrderKept

(* The first request of a worker is done; with a response on the line or   *)
(* without.                                                                *)
LEMMA WorkerStep ==
    ASSUME SipInv, NEW w \in SipWorker, atWorker[w] # << >>,
           atWorker' = [atWorker EXCEPT ![w] = Tail(@)], UNCHANGED coordinator
    PROVE  /\ atWorker' \in [SipWorker -> Seq(Message)] /\ WorkersOrdered'
           /\ Head(atWorker[w]) \in Message /\ Head(atWorker[w]).n \in Nat
           /\ Head(atWorker[w]).workerId = w
           /\ \A n : n = Head(atWorker[w]).n => Sent(n) /\ BeforeWorkers(n, w)'
           /\ \A n \in Nat : Sent(n) <=> Sent(n)'
           /\ \A n, v : v \in SipWorker /\ BeforeWorkers(n, v) => BeforeWorkers(n, v)'
           /\ \A n : BeforeWorkers(n, w) => n < Head(atWorker[w]).n
<1> DEFINE A == atWorker[w]
           L == Len(A)
<1>0. /\ atWorker \in [SipWorker -> Seq(Message)]
      /\ A \in Seq(Message) /\ A # << >>
  <2>1. atWorker \in [SipWorker -> Seq(Message)]
    BY DEF SipInv, SipTypeOK
  <2> QED BY <2>1
<1>1. atWorker'[w] = Tail(A) /\ \A v \in SipWorker \ {w} : atWorker'[v] = atWorker[v]
  BY <1>0
<1>2. Tail(A) \in Seq(Message)
  BY <1>0
<1>3. atWorker' \in [SipWorker -> Seq(Message)]
  BY <1>0, <1>2
<1>4. WorkerOrdered(w)
  BY DEF SipInv, WorkersOrdered
<1>5. /\ \A i \in 1 .. L : A[i] \in Message /\ A[i].n \in Nat /\ A[i].workerId = w
                           /\ Sent(A[i].n)
                           /\ \A j \in 1 .. L : i < j => A[i].n < A[j].n
  BY <1>4, SipTypes DEF SipInv, WorkerOrdered
<1>6. \A n : BeforeWorkers(n, w) => \A i \in 1 .. L : n < A[i].n
  BY DEF BeforeWorkers
<1> DEFINE B == atWorker'[w]
<1>7. /\ L \in Nat /\ L >= 1 /\ Head(A) = A[1] /\ Len(B) = L - 1
      /\ \A i \in 1 .. L - 1 : B[i] = A[i + 1]
  <2>1. B = Tail(A)
    BY <1>1
  <2> HIDE DEF A, B
  <2> QED BY <1>0, <2>1
<1>8. \A n : (\A i \in 1 .. Len(B) : n < B[i].n) => BeforeWorkers(n, w)'
  BY DEF BeforeWorkers
<1> HIDE DEF A, B
<1>9. 1 \in 1 .. L /\ \A i \in 1 .. L - 1 : i + 1 \in 1 .. L /\ 1 < i + 1
  BY <1>7
<1>10. \A n \in Nat : Sent(n) <=> Sent(n)'
  BY DEF Sent
<1>11. \A n : BeforeWorkers(n, w) => BeforeWorkers(n, w)' /\ n < Head(A).n
  BY <1>6, <1>7, <1>8, <1>9
<1>12. \A n, v : v \in SipWorker /\ BeforeWorkers(n, v) => BeforeWorkers(n, v)'
  <2> SUFFICES ASSUME NEW n, NEW v \in SipWorker, BeforeWorkers(n, v)
               PROVE  BeforeWorkers(n, v)'
    OBVIOUS
  <2>1. CASE v = w
    BY <1>11, <2>1
  <2>2. CASE v # w
    BY <1>1, <2>2 DEF BeforeWorkers
  <2> QED BY <2>1, <2>2
<1>13. \A n : n = Head(A).n => Sent(n) /\ BeforeWorkers(n, w)'
  BY <1>5, <1>7, <1>8, <1>9
<1>14. WorkersOrdered'
  <2> SUFFICES ASSUME NEW v \in SipWorker PROVE WorkerOrdered(v)'
    BY DEF WorkersOrdered
  <2>1. CASE v # w
    <3>1. atWorker'[v] = atWorker[v] /\ WorkerOrdered(v)
      BY <1>1, <2>1 DEF SipInv, WorkersOrdered
    <3> QED BY <3>1 DEF WorkerOrdered, Sent
  <2>2. CASE v = w
    <3>1. ASSUME NEW i \in 1 .. L - 1
          PROVE  /\ B[i].workerId = w /\ B[i].n \in Nat /\ Sent(B[i].n)
                 /\ \A j \in 1 .. L - 1 : i < j => B[i].n < B[j].n
      <4>1. B[i] = A[i + 1] /\ i + 1 \in 1 .. L
        BY <1>7, <1>9
      <4>2. ASSUME NEW j \in 1 .. L - 1, i < j PROVE B[i].n < B[j].n
        <5>1. B[j] = A[j + 1] /\ j + 1 \in 1 .. L /\ i + 1 < j + 1
          BY <1>7, <1>9, <4>2
        <5> QED BY <1>5, <4>1, <5>1
      <4> QED BY <1>5, <4>1, <4>2
    <3>2. \A i \in 1 .. L - 1 : Sent(atWorker[w][i].n)'
      BY <1>10, <3>1 DEF B
    <3> QED BY <1>7, <2>2, <3>1, <3>2 DEF WorkerOrdered, B
  <2> QED BY <2>1, <2>2
<1> QED BY <1>3, <1>5, <1>7, <1>9, <1>10, <1>11, <1>12, <1>13, <1>14 DEF A

LEMMA workerSilentKeeps ==
    ASSUME SipInv, NEW w \in SipWorker, workerSilent(w)
    PROVE  SipInv'
<1>1. /\ atWorker[w] # << >> /\ atWorker' = [atWorker EXCEPT ![w] = Tail(@)]
      /\ UNCHANGED <<coordinator, mResponseQueue, serialBuffer, line, receiver, taken>>
      /\ coordinator.n \in Nat
  BY SipTypes DEF workerSilent, SipInv
<1>2. /\ atWorker' \in [SipWorker -> Seq(Message)] /\ WorkersOrdered'
      /\ \A n \in Nat : Sent(n) <=> Sent(n)'
      /\ \A n, v : v \in SipWorker /\ BeforeWorkers(n, v) => BeforeWorkers(n, v)'
  BY <1>1, WorkerStep
<1>3. SipTypeOK'
  BY <1>1, <1>2 DEF SipInv, SipTypeOK
<1>4. \A n, v : BeforeLine(n, v) <=> BeforeLine(n, v)'
  BY <1>1 DEF BeforeLine
<1>5. StoredOrdered' /\ \A n, v : BeforeStored(n, v) <=> BeforeStored(n, v)'
  BY <1>1, <1>2, <1>4, StoredKept
<1>6. \A n \in Nat, v \in SipWorker : Delivered(n, v) => Delivered(n, v)'
  BY <1>2, <1>4, <1>5 DEF Delivered
<1>7. LineOrdered'
  <2> SUFFICES ASSUME NEW v \in SipWorker PROVE WorkerLineOrdered(v)'
    BY DEF LineOrdered
  <2>1. line'[v] = line[v]
    BY <1>1
  <2> QED BY <1>2, <2>1, LineKept
<1> QED BY <1>1, <1>2, <1>3, <1>5, <1>6, <1>7, OrderKept

LEMMA Concatenated ==
    ASSUME NEW S, NEW a \in Seq(S), NEW b \in Seq(S)
    PROVE  /\ a \o b \in Seq(S) /\ Len(a \o b) = Len(a) + Len(b)
           /\ \A i \in 1 .. Len(a) : (a \o b)[i] = a[i]
           /\ \A k \in 1 .. Len(b) : (a \o b)[Len(a) + k] = b[k]
<1>1. /\ a \o b \in Seq(S) /\ Len(a \o b) = Len(a) + Len(b)
      /\ \A i \in 1 .. Len(a) : (a \o b)[i] = a[i]
  OBVIOUS
<1>2. ASSUME NEW k \in 1 .. Len(b) PROVE (a \o b)[Len(a) + k] = b[k]
  <2> DEFINE i == Len(a) + k
  <2>1. i \in 1 .. Len(a) + Len(b) /\ i > Len(a) /\ i - Len(a) = k
    OBVIOUS
  <2> HIDE DEF i
  <2>2. (a \o b)[i] = b[i - Len(a)]
    BY <2>1
  <2> QED BY <2>1, <2>2 DEF i
<1> QED BY <1>1, <1>2

LEMMA sendResponseKeeps ==
    ASSUME SipInv, NEW w \in SipWorker, sendResponse(w)
    PROVE  SipInv'
<1> DEFINE r == Response(Head(atWorker[w]))
           h1 == [of |-> r, half |-> 1]
           h2 == [of |-> r, half |-> 2]
           A == line[w]
           B == line'[w]
           L == Len(A)
<1>1. /\ atWorker[w] # << >> /\ atWorker' = [atWorker EXCEPT ![w] = Tail(@)]
      /\ line' = [line EXCEPT ![w] = @ \o <<Boundary, h1, h2, Boundary>>]
      /\ UNCHANGED <<coordinator, mResponseQueue, serialBuffer, receiver, taken>>
      /\ coordinator.n \in Nat
  BY SipTypes DEF sendResponse, SipInv, Frame
<1>2. /\ atWorker' \in [SipWorker -> Seq(Message)] /\ WorkersOrdered'
      /\ Head(atWorker[w]) \in Message /\ Head(atWorker[w]).n \in Nat
      /\ Head(atWorker[w]).workerId = w
      /\ \A n : n = Head(atWorker[w]).n => Sent(n) /\ BeforeWorkers(n, w)'
      /\ \A n \in Nat : Sent(n) <=> Sent(n)'
      /\ \A n, v : v \in SipWorker /\ BeforeWorkers(n, v) => BeforeWorkers(n, v)'
      /\ \A n : BeforeWorkers(n, w) => n < Head(atWorker[w]).n
  BY <1>1, WorkerStep
<1>3. /\ r \in Message /\ r.n = Head(atWorker[w]).n /\ r.from = "worker" /\ r.workerId = w
      /\ h1 \in HalfPacket /\ h2 \in HalfPacket
      /\ h1.of = r /\ h2.of = r /\ h1.half = 1 /\ h2.half = 2
  BY <1>2, ResponseType
<1> HIDE DEF r, h1, h2
<1>4. /\ line' \in [SipWorker -> Seq(Symbol)]
      /\ \A v \in SipWorker \ {w} : line'[v] = line[v]
      /\ L \in Nat /\ Len(B) = L + 4
      /\ \A i \in 1 .. L : B[i] = A[i]
      /\ B[L + 1] = Boundary /\ B[L + 2] = h1 /\ B[L + 3] = h2 /\ B[L + 4] = Boundary
  <2> DEFINE f == <<Boundary, h1, h2, Boundary>>
  <2>1. f \in Seq(Symbol) /\ Len(f) = 4
        /\ f[1] = Boundary /\ f[2] = h1 /\ f[3] = h2 /\ f[4] = Boundary
    BY <1>3 DEF Symbol
  <2>2. line \in [SipWorker -> Seq(Symbol)]
    BY DEF SipInv, SipTypeOK
  <2>3. A \in Seq(Symbol) /\ L \in Nat
    BY <2>2
  <2>4. B = A \o f /\ \A v \in SipWorker \ {w} : line'[v] = line[v]
    BY <1>1, <2>2
  <2> HIDE DEF f
  <2>5. /\ A \o f \in Seq(Symbol) /\ Len(A \o f) = Len(A) + Len(f)
        /\ \A i \in 1 .. Len(A) : (A \o f)[i] = A[i]
        /\ \A k \in 1 .. Len(f) : (A \o f)[Len(A) + k] = f[k]
    <3>1. \A a, b \in Seq(Symbol) :
            /\ a \o b \in Seq(Symbol) /\ Len(a \o b) = Len(a) + Len(b)
            /\ \A i \in 1 .. Len(a) : (a \o b)[i] = a[i]
            /\ \A k \in 1 .. Len(b) : (a \o b)[Len(a) + k] = b[k]
      BY Concatenated
    <3> HIDE DEF A
    <3> QED BY <2>1, <2>3, <3>1, Zenon
  <2>6. line' \in [SipWorker -> Seq(Symbol)]
    BY <1>1, <2>2, <2>5 DEF f
  <2>7. Len(B) = L + 4 /\ (\A i \in 1 .. L : B[i] = A[i])
        /\ \A k \in 1 .. 4 : B[L + k] = f[k]
    BY <2>1, <2>4, <2>5, Zenon
  <2> HIDE DEF L, A, B
  <2>8. f[1] = Boundary /\ f[2] = h1 /\ f[3] = h2 /\ f[4] = Boundary
    BY <2>1
  <2>9. B[L + 1] = Boundary /\ B[L + 2] = h1 /\ B[L + 3] = h2 /\ B[L + 4] = Boundary
    BY <2>7, <2>8
  <2> QED BY <2>3, <2>4, <2>6, <2>7, <2>9
<1>5. ASSUME NEW i \in 1 .. L + 4, B[i] # Boundary
      PROVE  \/ i \in 1 .. L /\ B[i] = A[i]
             \/ i = L + 2 /\ B[i] = h1
             \/ i = L + 3 /\ B[i] = h2
  <2> HIDE DEF A, B
  <2> QED BY <1>4, <1>5
<1>6. SipTypeOK'
  BY <1>1, <1>2, <1>4 DEF SipInv, SipTypeOK
<1>7. \A n \in Nat, v \in SipWorker :
        BeforeWorkers(n, v) /\ BeforeLine(n, v) => BeforeLine(n, v)'
  <2> SUFFICES ASSUME NEW n \in Nat, NEW v \in SipWorker,
                      BeforeWorkers(n, v), BeforeLine(n, v)
               PROVE  BeforeLine(n, v)'
    OBVIOUS
  <2>1. CASE v # w
    BY <1>4, <2>1 DEF BeforeLine
  <2>2. CASE v = w
    <3>1. n < r.n
      BY <1>2, <1>3, <2>2
    <3>2. \A i \in 1 .. L : A[i] # Boundary => n < A[i].of.n
      BY <2>2 DEF BeforeLine
    <3>3. \A i \in 1 .. L + 4 : B[i] # Boundary => n < B[i].of.n
      <4> HIDE DEF A, B
      <4> QED BY <1>3, <1>5, <3>1, <3>2
    <3> QED BY <1>4, <2>2, <3>3 DEF BeforeLine
  <2> QED BY <2>1, <2>2
<1>8. StoredOrdered' /\ \A n, v : BeforeStored(n, v) <=> BeforeStored(n, v)'
  BY <1>1, <1>2, <1>7, StoredKept
<1>9. \A n \in Nat, v \in SipWorker : Delivered(n, v) => Delivered(n, v)'
  BY <1>2, <1>7, <1>8 DEF Delivered
<1>10. LineOrdered'
  <2> SUFFICES ASSUME NEW v \in SipWorker PROVE WorkerLineOrdered(v)'
    BY DEF LineOrdered
  <2>0. WorkerLineOrdered(v)
    BY DEF SipInv, LineOrdered
  <2>1. CASE v # w
    <3>1. line'[v] = line[v]
      BY <1>4, <2>1
    <3> QED BY <1>2, <3>1, LineKept
  <2>2. CASE v = w
    <3>1. \A n : n = r.n => Sent(n)' /\ BeforeWorkers(n, w)'
      BY <1>2, <1>3
    <3>2. ASSUME NEW i \in 1 .. L, A[i] # Boundary
          PROVE  /\ A[i].of.from = "worker" /\ A[i].of.workerId = w
                 /\ A[i].of.n \in Nat /\ A[i].of.n < r.n
                 /\ Sent(A[i].of.n) /\ BeforeWorkers(A[i].of.n, w)
                 /\ A[i].half = 2 =>
                      \A j \in 1 .. L : i < j /\ A[j] # Boundary => A[i].of.n < A[j].of.n
      <4>1. A[i].of.n \in Nat
        BY <3>2, SipTypes DEF SipInv
      <4>2. /\ A[i].of.from = "worker" /\ A[i].of.workerId = w
            /\ Sent(A[i].of.n) /\ BeforeWorkers(A[i].of.n, w)
            /\ A[i].half = 2 =>
                 \A j \in 1 .. L : i < j /\ A[j] # Boundary => A[i].of.n < A[j].of.n
        BY <2>0, <2>2, <3>2 DEF WorkerLineOrdered
      <4> QED BY <1>2, <1>3, <4>1, <4>2
    <3>3. ASSUME NEW i \in 1 .. L + 4, B[i] # Boundary
          PROVE  /\ B[i].of.from = "worker" /\ B[i].of.workerId = w
                 /\ Sent(line[w][i].of.n)' /\ BeforeWorkers(line[w][i].of.n, w)'
                 /\ B[i].half = 2 => \A j \in 1 .. L + 4 :
                      i < j /\ B[j] # Boundary => B[i].of.n < B[j].of.n
      <4>1. CASE i \in 1 .. L /\ B[i] = A[i]
        <5>1. Sent(line[w][i].of.n)' /\ BeforeWorkers(line[w][i].of.n, w)'
          BY <1>2, <3>2, <3>3, <4>1
        <5>2. A[i] # Boundary
          BY <3>3, <4>1
        <5> HIDE DEF A, B
        <5>3. B[i].half = 2 => \A j \in 1 .. L + 4 :
                i < j /\ B[j] # Boundary => B[i].of.n < B[j].of.n
          BY <1>3, <1>5, <3>2, <4>1, <5>2
        <5> QED BY <3>2, <4>1, <5>1, <5>2, <5>3 DEF B
      <4>2. CASE i = L + 2 /\ B[i] = h1
        <5>1. B[i].of.n = r.n /\ B[i].of.from = "worker" /\ B[i].half = 1
              /\ B[i].of.workerId = w
          BY <1>3, <4>2
        <5> QED BY <3>1, <5>1
      <4>3. CASE i = L + 3 /\ B[i] = h2
        <5>1. \A j \in 1 .. L + 4 : i < j => B[j] = Boundary
          <6> HIDE DEF A, B
          <6> QED BY <1>4, <4>3
        <5>2. B[i].of.n = r.n /\ B[i].of.from = "worker" /\ B[i].of.workerId = w
          BY <1>3, <4>3
        <5> QED BY <3>1, <5>1, <5>2
      <4> QED BY <1>5, <3>3, <4>1, <4>2, <4>3
    <3> QED BY <1>4, <2>2, <3>3 DEF WorkerLineOrdered
  <2> QED BY <2>1, <2>2
<1> QED BY <1>1, <1>2, <1>6, <1>8, <1>9, <1>10, OrderKept

LEMMA OneElement ==
    ASSUME NEW S, NEW x \in S
    PROVE  <<x>> \in Seq(S) /\ Len(<<x>>) = 1 /\ <<x>>[1] = x
  OBVIOUS
LEMMA NotEmpty ==
    ASSUME NEW S, NEW s \in Seq(S), s # << >>
    PROVE  Len(s) \in Nat /\ Len(s) >= 1
  OBVIOUS

LEMMA receiveResponseQueueKeeps ==
    ASSUME SipInv, receiveResponseQueue
    PROVE  SipInv'
<1> DEFINE q == mResponseQueue[1]
           e == [data |-> q, request |-> coordinator.n, worker |-> coordinator.worker,
                 result |-> Result(q)]
           L == Len(taken)
<1>1. /\ coordinator.n \in Nat /\ coordinator'.n = coordinator.n /\ coordinator'.at = "idle"
      /\ coordinator' \in [at : {"idle", "write", "wait"}, n : Nat, worker : SipWorker]
      /\ UNCHANGED <<serialBuffer, atWorker, line, receiver>>
      /\ coordinator.worker \in SipWorker
  BY DEF SipInv, SipTypeOK, receiveResponseQueue, Return
<1>2. /\ mResponseQueue \in Seq(Message) /\ 1 \in 1 .. Len(mResponseQueue)
      /\ Head(mResponseQueue) = q /\ q \in Message
      /\ mResponseQueue' \in Seq(Message) /\ Len(mResponseQueue') = 0
  <2>1. mResponseQueue \in Seq(Message) /\ mResponseQueue # << >> /\ Len(mResponseQueue) <= 1
        /\ mResponseQueue' = Tail(mResponseQueue)
    BY DEF SipInv, SipTypeOK, receiveResponseQueue
  <2>2. Len(mResponseQueue) = 1
    <3> DEFINE len == Len(mResponseQueue)
    <3>1. len \in Nat /\ len >= 1
      BY <2>1, NotEmpty
    <3>2. len <= 1
      BY <2>1
    <3> HIDE DEF len
    <3>3. len = 1
      BY <3>1, <3>2
    <3> QED BY <3>3 DEF len
  <2>3. mResponseQueue[1] \in Message /\ Head(mResponseQueue) = mResponseQueue[1]
    BY <2>1, <2>2
  <2>4. mResponseQueue' \in Seq(Message) /\ Len(mResponseQueue') = Len(mResponseQueue) - 1
    BY <2>1
  <2> QED BY <2>1, <2>2, <2>3, <2>4
<1>3. taken' = Append(taken, e) /\ taken \in Seq(TakenResponse) /\ L \in Nat
  BY <1>2 DEF SipInv, SipTypeOK, receiveResponseQueue
<1>4. /\ q.n \in Nat /\ q.workerId \in SipWorker /\ q.n <= coordinator.n
      /\ (q.type = "response" => q.from = "worker")
  BY <1>2 DEF SipInv, QueueOrdered, Message
<1>5. q.from = "worker" =>
         /\ Delivered(q.n, q.workerId)
         /\ \A i \in 1 .. L :
              taken[i].data.from = "worker" /\ taken[i].data.workerId = q.workerId =>
                 taken[i].data.n < q.n
  BY <1>2 DEF SipInv, QueueOrdered
<1>6. Result(q) \in {"success", "workerIdError", "responseTypeError"}
      /\ (Result(q) = "success" =>
            q.from = "worker" /\ q.workerId = coordinator.worker)
  BY <1>4 DEF Result
<1>7. e \in TakenResponse /\ e.data = q /\ e.request = coordinator.n /\ e.result = Result(q)
      /\ e.worker = coordinator.worker
  BY <1>1, <1>2, <1>6 DEF TakenResponse
<1> HIDE DEF e, q
<1>8. /\ taken' \in Seq(TakenResponse) /\ Len(taken') = L + 1 /\ taken'[L + 1] = e
      /\ \A i \in 1 .. L : taken'[i] = taken[i]
  BY <1>3, <1>7
<1>9. SipTypeOK'
  BY <1>1, <1>2, <1>8 DEF SipInv, SipTypeOK
<1>10. \A n \in Nat : Sent(n) => Sent(n)'
  BY <1>1 DEF Sent
<1>11. /\ WorkersOrdered' /\ LineOrdered'
       /\ \A n, w : (BeforeWorkers(n, w) <=> BeforeWorkers(n, w)')
                 /\ (BeforeLine(n, w) <=> BeforeLine(n, w)')
  BY <1>1, <1>10, UnderWayKept
<1>12. StoredOrdered' /\ \A n, w : BeforeStored(n, w) <=> BeforeStored(n, w)'
  BY <1>1, <1>10, <1>11, StoredKept
<1>13. \A n \in Nat, w \in SipWorker : Delivered(n, w) => Delivered(n, w)'
  BY <1>10, <1>11, <1>12 DEF Delivered
<1>15. QueueOrdered'
  BY <1>2 DEF QueueOrdered
<1>16. ASSUME NEW i \in 1 .. L + 1
       PROVE  \/ i \in 1 .. L /\ taken'[i] = taken[i]
              \/ i = L + 1 /\ taken'[i].data = q /\ taken'[i].request = coordinator.n
                 /\ taken'[i].result = Result(q) /\ taken'[i].worker = coordinator.worker
  BY <1>3, <1>7, <1>8
<1>17. TakenOrdered'
  <2> SUFFICES ASSUME NEW i \in 1 .. L + 1, taken'[i].data.from = "worker"
               PROVE  Delivered(taken[i].data.n, taken[i].data.workerId)'
    BY <1>8 DEF TakenOrdered
  <2>1. CASE i \in 1 .. L /\ taken'[i] = taken[i]
    <3>1. /\ taken[i].data.n \in Nat /\ taken[i].data.workerId \in SipWorker
          /\ Delivered(taken[i].data.n, taken[i].data.workerId)
      BY <2>1, SipTypes DEF SipInv, TakenOrdered
    <3> QED BY <1>13, <2>1, <3>1
  <2>2. CASE i = L + 1 /\ taken'[i].data = q
    BY <1>4, <1>5, <1>13, <2>2
  <2> QED BY <1>16, <2>1, <2>2
<1>18. ResponsesSound'
  <2>1. ASSUME NEW i \in 1 .. L + 1
        PROVE  /\ taken'[i].data.n <= taken'[i].request
               /\ taken'[i].result = "success" =>
                    taken'[i].data.from = "worker" /\ taken'[i].data.workerId = taken'[i].worker
    <3>1. CASE i \in 1 .. L /\ taken'[i] = taken[i]
      BY <3>1 DEF SipInv, ResponsesSound, ResponsesInOrder, SuccessIsFromWorker
    <3>2. CASE /\ i = L + 1 /\ taken'[i].data = q /\ taken'[i].request = coordinator.n
               /\ taken'[i].result = Result(q) /\ taken'[i].worker = coordinator.worker
      BY <1>4, <1>6, <3>2
    <3> QED BY <1>16, <3>1, <3>2
  <2>2. ASSUME NEW i \in 1 .. L + 1, NEW j \in 1 .. L + 1, i < j,
               taken'[i].data.from = "worker", taken'[j].data.from = "worker",
               taken'[i].data.workerId = taken'[j].data.workerId
        PROVE  taken'[i].data.n < taken'[j].data.n
    <3>1. i \in 1 .. L /\ taken'[i] = taken[i]
      BY <1>3, <1>8, <2>2
    <3>2. CASE j \in 1 .. L /\ taken'[j] = taken[j]
      BY <2>2, <3>1, <3>2 DEF SipInv, ResponsesSound, ResponsesInOrder
    <3>3. CASE j = L + 1 /\ taken'[j].data = q
      BY <1>5, <2>2, <3>1, <3>3
    <3> QED BY <1>16, <3>2, <3>3
  <2> QED BY <1>8, <2>1, <2>2 DEF ResponsesSound, ResponsesInOrder, SuccessIsFromWorker
<1> QED BY <1>9, <1>11, <1>12, <1>15, <1>17, <1>18 DEF SipInv

(* The receiver reads the first symbol that a worker has on the line. *)
LEMMA LineStep ==
    ASSUME SipInv, NEW w \in SipWorker, line[w] # << >>,
           line' = [line EXCEPT ![w] = Tail(@)], UNCHANGED <<coordinator, atWorker>>
    PROVE  /\ line' \in [SipWorker -> Seq(Symbol)] /\ LineOrdered'
           /\ \A n, v : v \in SipWorker /\ BeforeLine(n, v) => BeforeLine(n, v)'
           /\ \A n : Head(line[w]) # Boundary /\ BeforeLine(n, w) => n < Head(line[w]).of.n
           /\ Head(line[w]) # Boundary =>
                /\ Head(line[w]) \in HalfPacket /\ Head(line[w]).of.from = "worker"
                /\ Head(line[w]).of.workerId = w /\ Head(line[w]).of.n \in Nat
                /\ \A n : n = Head(line[w]).of.n =>
                     /\ Sent(n) /\ BeforeWorkers(n, w)
                     /\ Head(line[w]).half = 2 => BeforeLine(n, w)'
<1> DEFINE A == line[w]
           B == line'[w]
           L == Len(A)
<1>0. line \in [SipWorker -> Seq(Symbol)] /\ A \in Seq(Symbol) /\ A # << >>
  <2>1. line \in [SipWorker -> Seq(Symbol)]
    BY DEF SipInv, SipTypeOK
  <2> QED BY <2>1
<1>1. B = Tail(A) /\ \A v \in SipWorker \ {w} : line'[v] = line[v]
  BY <1>0
<1>2. Tail(A) \in Seq(Symbol)
  BY <1>0
<1>3. line' \in [SipWorker -> Seq(Symbol)]
  BY <1>0, <1>2
<1>4. WorkerLineOrdered(w)
  BY DEF SipInv, LineOrdered
<1>5. ASSUME NEW i \in 1 .. L, A[i] # Boundary
      PROVE  /\ A[i] \in HalfPacket /\ A[i].of.n \in Nat
             /\ A[i].of.from = "worker" /\ A[i].of.workerId = w
             /\ Sent(A[i].of.n) /\ BeforeWorkers(A[i].of.n, w)
             /\ A[i].half = 2 =>
                  \A j \in 1 .. L : i < j /\ A[j] # Boundary => A[i].of.n < A[j].of.n
  <2>1. A[i] \in HalfPacket /\ A[i].of.n \in Nat
    BY <1>5, SipTypes DEF SipInv
  <2> QED BY <1>4, <1>5, <2>1 DEF WorkerLineOrdered
<1>6. \A n : BeforeLine(n, w) => \A j \in 1 .. L : A[j] # Boundary => n < A[j].of.n
  BY DEF BeforeLine
<1>7. \A n : (\A j \in 1 .. Len(B) : B[j] # Boundary => n < B[j].of.n) => BeforeLine(n, w)'
  BY DEF BeforeLine
<1>8. (\A i \in 1 .. Len(B) : B[i] # Boundary =>
         /\ B[i].of.from = "worker" /\ B[i].of.workerId = w
         /\ \A n : n = B[i].of.n => Sent(n)' /\ BeforeWorkers(n, w)'
         /\ B[i].half = 2 =>
              \A j \in 1 .. Len(B) : i < j /\ B[j] # Boundary => B[i].of.n < B[j].of.n)
      => WorkerLineOrdered(w)'
  BY DEF WorkerLineOrdered
<1> HIDE DEF A, B
<1>9. /\ L \in Nat /\ L >= 1 /\ Head(A) = A[1] /\ Len(B) = L - 1
      /\ \A i \in 1 .. L - 1 : B[i] = A[i + 1]
  BY <1>0, <1>1
<1>10. 1 \in 1 .. L /\ \A i \in 1 .. L - 1 : i + 1 \in 1 .. L /\ 1 < i + 1
  BY <1>9
<1>11. \A n, v : v \in SipWorker /\ BeforeLine(n, v) => BeforeLine(n, v)'
  <2> SUFFICES ASSUME NEW n, NEW v \in SipWorker, BeforeLine(n, v) PROVE BeforeLine(n, v)'
    OBVIOUS
  <2>1. CASE v = w
    BY <1>6, <1>7, <1>9, <1>10, <2>1
  <2>2. CASE v # w
    BY <1>1, <2>2 DEF BeforeLine
  <2> QED BY <2>1, <2>2
<1>12. \A n : Head(A) # Boundary /\ BeforeLine(n, w) => n < Head(A).of.n
  BY <1>6, <1>9, <1>10
<1>13. ASSUME Head(A) # Boundary
       PROVE  /\ Head(A) \in HalfPacket /\ Head(A).of.from = "worker"
              /\ Head(A).of.workerId = w /\ Head(A).of.n \in Nat
              /\ \A n : n = Head(A).of.n =>
                   /\ Sent(n) /\ BeforeWorkers(n, w)
                   /\ Head(A).half = 2 => BeforeLine(n, w)'
  <2>1. ASSUME NEW n, n = A[1].of.n, A[1].half = 2 PROVE BeforeLine(n, w)'
    <3>1. \A j \in 1 .. L : 1 < j /\ A[j] # Boundary => n < A[j].of.n
      BY <1>5, <1>9, <1>10, <1>13, <2>1
    <3> QED BY <1>7, <1>9, <1>10, <3>1
  <2> QED BY <1>5, <1>9, <1>10, <1>13, <2>1
<1>14. \A n, v : (Sent(n) <=> Sent(n)') /\ (BeforeWorkers(n, v) <=> BeforeWorkers(n, v)')
  BY DEF Sent, BeforeWorkers
<1>15. LineOrdered'
  <2> SUFFICES ASSUME NEW v \in SipWorker PROVE WorkerLineOrdered(v)'
    BY DEF LineOrdered
  <2>1. CASE v # w
    <3>1. line'[v] = line[v] /\ WorkerLineOrdered(v)
      BY <1>1, <2>1 DEF SipInv, LineOrdered
    <3> QED BY <1>14, <3>1 DEF WorkerLineOrdered
  <2>2. CASE v = w
    <3>1. ASSUME NEW i \in 1 .. L - 1, B[i] # Boundary
          PROVE  /\ B[i].of.from = "worker" /\ B[i].of.workerId = w
                 /\ \A n : n = B[i].of.n => Sent(n)' /\ BeforeWorkers(n, w)'
                 /\ B[i].half = 2 => \A j \in 1 .. L - 1 :
                      i < j /\ B[j] # Boundary => B[i].of.n < B[j].of.n
      <4>1. B[i] = A[i + 1] /\ i + 1 \in 1 .. L
        BY <1>9, <1>10
      <4>2. ASSUME B[i].half = 2, NEW j \in 1 .. L - 1, i < j, B[j] # Boundary
            PROVE  B[i].of.n < B[j].of.n
        <5>1. B[j] = A[j + 1] /\ j + 1 \in 1 .. L /\ i + 1 < j + 1
          BY <1>9, <1>10, <4>2
        <5> QED BY <1>5, <3>1, <4>1, <4>2, <5>1
      <4> QED BY <1>5, <1>14, <3>1, <4>1, <4>2
    <3> QED BY <1>8, <1>9, <2>2, <3>1
  <2> QED BY <2>1, <2>2
<1> QED BY <1>3, <1>11, <1>12, <1>13, <1>15 DEF A

(* receive() starts again: nothing that it has stored counts any more. *)
LEMMA ListeningKeeps ==
    ASSUME SipInv, receiver' = Listening, UNCHANGED <<coordinator, atWorker, taken>>,
           line' \in [SipWorker -> Seq(Symbol)], LineOrdered',
           \A n, v : v \in SipWorker /\ BeforeLine(n, v) => BeforeLine(n, v)',
           serialBuffer' \in [1 .. BufferCells -> HalfPacket \cup {Boundary, NoPacket}],
           mResponseQueue' \in Seq(Message), Len(mResponseQueue') <= 1,
           \A q \in 1 .. Len(mResponseQueue') :
              \/ q \in 1 .. Len(mResponseQueue) /\ mResponseQueue'[q] = mResponseQueue[q]
              \/ \E k \in Stored :
                   /\ serialBuffer[k].half = 2 /\ mResponseQueue'[q] = serialBuffer[k].of
                   /\ \A n, v : (/\ n = serialBuffer[k].of.n /\ v = serialBuffer[k].of.workerId
                                 /\ serialBuffer[k].of.from = "worker") => BeforeLine(n, v)'
    PROVE  SipInv'
<1>0. coordinator.n \in Nat /\ BufferCells \in Nat
  BY SipTypes DEF SipInv
<1>1. SipTypeOK' /\ receiver'.stored = 0
  BY <1>0 DEF SipInv, SipTypeOK, Listening
<1>2. Stored' = {}
  BY <1>1 DEF Stored
<1>3. \A n, v : (Sent(n) <=> Sent(n)') /\ (BeforeWorkers(n, v) <=> BeforeWorkers(n, v)')
               /\ BeforeStored(n, v)'
  BY <1>2 DEF Sent, BeforeWorkers, BeforeStored
<1>4. \A n, v : v \in SipWorker /\ Delivered(n, v) => Delivered(n, v)'
  BY <1>3 DEF Delivered
<1>5. StoredOrdered'
  BY <1>2 DEF StoredOrdered
<1>6. WorkersOrdered'
  BY <1>3 DEF SipInv, WorkersOrdered, WorkerOrdered
<1>7. TakenOrdered'
  BY <1>4, SipTypes DEF SipInv, TakenOrdered
<1>8. ResponsesSound'
  BY DEF SipInv, ResponsesSound, ResponsesInOrder, SuccessIsFromWorker
<1>9. QueueOrdered'
  <2> SUFFICES ASSUME NEW q \in 1 .. Len(mResponseQueue')
               PROVE  /\ mResponseQueue'[q].n <= coordinator.n
                      /\ mResponseQueue'[q].from = "worker" =>
                           /\ Delivered(mResponseQueue[q].n, mResponseQueue[q].workerId)'
                           /\ \A i \in 1 .. Len(taken) :
                                (/\ taken[i].data.from = "worker"
                                 /\ taken[i].data.workerId = mResponseQueue'[q].workerId) =>
                                    taken[i].data.n < mResponseQueue'[q].n
    BY DEF QueueOrdered
  <2>1. CASE q \in 1 .. Len(mResponseQueue) /\ mResponseQueue'[q] = mResponseQueue[q]
    <3>1. mResponseQueue[q] \in Message
      BY <2>1 DEF SipInv, SipTypeOK
    <3>2. mResponseQueue[q].workerId \in SipWorker
      BY <3>1 DEF Message
    <3> QED BY <1>4, <2>1, <3>2 DEF SipInv, QueueOrdered
  <2>2. CASE \E k \in Stored :
                   /\ serialBuffer[k].half = 2 /\ mResponseQueue'[q] = serialBuffer[k].of
                   /\ \A n, v : (/\ n = serialBuffer[k].of.n /\ v = serialBuffer[k].of.workerId
                                 /\ serialBuffer[k].of.from = "worker") => BeforeLine(n, v)'
    <3>1. PICK k \in Stored :
                   /\ serialBuffer[k].half = 2 /\ mResponseQueue'[q] = serialBuffer[k].of
                   /\ \A n, v : (/\ n = serialBuffer[k].of.n /\ v = serialBuffer[k].of.workerId
                                 /\ serialBuffer[k].of.from = "worker") => BeforeLine(n, v)'
      BY <2>2
    <3>2. /\ serialBuffer[k].of.n <= coordinator.n
          /\ serialBuffer[k].of.from = "worker" =>
               /\ Sent(serialBuffer[k].of.n)
               /\ BeforeWorkers(serialBuffer[k].of.n, serialBuffer[k].of.workerId)
      BY DEF SipInv, StoredOrdered
    <3>3. ASSUME NEW i \in 1 .. Len(taken), taken[i].data.from = "worker",
                 serialBuffer[k].of.from = "worker",
                 taken[i].data.workerId = serialBuffer[k].of.workerId
          PROVE  taken[i].data.n < serialBuffer[k].of.n
      BY <3>3 DEF SipInv, TakenOrdered, Delivered, BeforeStored
    <3>4. serialBuffer[k].of.from = "worker" => \A n, v :
            n = serialBuffer[k].of.n /\ v = serialBuffer[k].of.workerId => Delivered(n, v)'
      BY <1>3, <3>1, <3>2 DEF Delivered
    <3> QED BY <3>1, <3>2, <3>3, <3>4
  <2> QED BY <2>1, <2>2
<1> QED BY <1>1, <1>5, <1>6, <1>7, <1>8, <1>9 DEF SipInv

LEMMA receiveTimeOutKeeps ==
    ASSUME SipInv, receiveTimeOut
    PROVE  SipInv'
<1>1. /\ receiver' = Listening
      /\ UNCHANGED <<coordinator, atWorker, taken, serialBuffer, mResponseQueue>>
      /\ mResponseQueue' \in Seq(Message) /\ Len(mResponseQueue') <= 1
      /\ serialBuffer' \in [1 .. BufferCells -> HalfPacket \cup {Boundary, NoPacket}]
  BY DEF receiveTimeOut, SipInv, SipTypeOK
<1>2. line' \in [SipWorker -> Seq(Symbol)] /\ LineOrdered'
      /\ \A n, v : v \in SipWorker /\ BeforeLine(n, v) => BeforeLine(n, v)'
  <2>1. CASE line' = line
    <3>1. \A n \in Nat : Sent(n) => Sent(n)'
      BY <1>1 DEF Sent
    <3>2. LineOrdered' /\ \A n, v : BeforeLine(n, v) <=> BeforeLine(n, v)'
      BY <1>1, <2>1, <3>1, UnderWayKept
    <3> QED BY <2>1, <3>2 DEF SipInv, SipTypeOK
  <2>2. CASE \E w \in SipWorker : line[w] # << >> /\ line' = [line EXCEPT ![w] = Tail(@)]
    BY <1>1, <2>2, LineStep
  <2> QED BY <2>1, <2>2 DEF receiveTimeOut
<1>3. \A q \in 1 .. Len(mResponseQueue') :
         q \in 1 .. Len(mResponseQueue) /\ mResponseQueue'[q] = mResponseQueue[q]
  BY <1>1
<1> QED BY <1>1, <1>2, <1>3, ListeningKeeps

(* The end of a frame: what comes out of the buffer was stored there. *)
LEMMA FrameEnds ==
    ASSUME SipInv, receiver.startBoundary, receiver.bytesCounter + 1 <= BufferCells,
           NEW w \in SipWorker, line[w] # << >>, line' = [line EXCEPT ![w] = Tail(@)],
           serialBuffer' = [serialBuffer EXCEPT ![receiver.stored + 1] = Boundary],
           receivePacket(serialBuffer'), UNCHANGED <<coordinator, atWorker, taken>>
    PROVE  SipInv'
<1> DEFINE cells == serialBuffer'
           e == receiver.stored + 1
           content == Content(serialBuffer')
<1>1. e \in 2 .. BufferCells /\ e \in 1 .. BufferCells /\ e - 1 = receiver.stored
  BY SipTypes, SMTT(30) DEF SipInv, SipTypeOK
<1>2. /\ serialBuffer \in [1 .. BufferCells -> HalfPacket \cup {Boundary, NoPacket}]
      /\ cells \in [1 .. BufferCells -> HalfPacket \cup {Boundary, NoPacket}]
      /\ cells[e] = Boundary /\ \A k \in 1 .. BufferCells : k # e => cells[k] = serialBuffer[k]
  BY <1>1 DEF SipInv, SipTypeOK
<1>3. /\ line' \in [SipWorker -> Seq(Symbol)] /\ LineOrdered'
      /\ \A n, v : v \in SipWorker /\ BeforeLine(n, v) => BeforeLine(n, v)'
  BY LineStep
<1>4. ASSUME IsPacket(content)
      PROVE  \E k \in Stored :
               /\ serialBuffer[k].half = 2 /\ content[1].of = serialBuffer[k].of
               /\ content[1].of \in Message
               /\ \A n, v : (/\ n = serialBuffer[k].of.n /\ v = serialBuffer[k].of.workerId
                             /\ serialBuffer[k].of.from = "worker") => BeforeLine(n, v)'
  <2>1. /\ 4 <= e /\ cells[2] # Boundary /\ cells[3] # Boundary
        /\ content[1] = cells[2] /\ content[2] = cells[3]
    <3> HIDE DEF cells, e
    <3>1. \A f \in [1 .. BufferCells -> HalfPacket \cup {Boundary, NoPacket}] :
            f[e] = Boundary /\ IsPacket(Content(f)) =>
              /\ 4 <= e /\ f[2] # Boundary /\ f[3] # Boundary
              /\ Content(f)[1] = f[2] /\ Content(f)[2] = f[3]
      BY <1>1, ContentCells
    <3>2. content = Content(cells)
      BY DEF cells
    <3> HIDE DEF content
    <3> QED BY <1>2, <1>4, <3>1, <3>2
  <2>2. 2 \in 1 .. BufferCells /\ 3 \in 1 .. BufferCells /\ 2 # e /\ 3 # e
        /\ 3 \in 2 .. receiver.stored
    BY <1>1, <2>1, SipTypes DEF SipInv
  <2>3. cells[2] = serialBuffer[2] /\ cells[3] = serialBuffer[3]
    BY <1>2, <2>2
  <2>4. 3 \in Stored
    BY <2>1, <2>2, <2>3 DEF Stored
  <2>5. content[1].of = content[2].of /\ content[2].half = 2
    BY <1>4, Zenon DEF IsPacket
  <2>6. content[1].of = serialBuffer[3].of /\ serialBuffer[3].half = 2
    BY <2>1, <2>3, <2>5
  <2>7. serialBuffer[3] \in HalfPacket
    BY <2>4 DEF SipInv, StoredOrdered
  <2>8. serialBuffer[3].of \in Message
    BY <2>7 DEF HalfPacket
  <2>9. serialBuffer[3].of.from = "worker" =>
          BeforeLine(serialBuffer[3].of.n, serialBuffer[3].of.workerId)
    BY <2>4, <2>6 DEF SipInv, StoredOrdered
  <2>10. serialBuffer[3].of.workerId \in SipWorker
    BY <2>8 DEF Message
  <2>11. ASSUME NEW n, NEW v, n = serialBuffer[3].of.n, v = serialBuffer[3].of.workerId,
                serialBuffer[3].of.from = "worker"
         PROVE  BeforeLine(n, v)'
    <3>1. v \in SipWorker /\ BeforeLine(n, v)
      BY <2>9, <2>10, <2>11
    <3> QED BY <1>3, <3>1
  <2> QED BY <2>4, <2>6, <2>8, <2>11
<1>5. /\ mResponseQueue' = IF Len(mResponseQueue) < 1 THEN mResponseQueue \o readPacket(content)
                           ELSE mResponseQueue
      /\ receiver' = Listening
  BY DEF receivePacket, sizeOfQueue
<1>6. mResponseQueue \in Seq(Message) /\ Len(mResponseQueue) <= 1
  BY DEF SipInv, SipTypeOK
<1>7. /\ mResponseQueue' \in Seq(Message) /\ Len(mResponseQueue') <= 1
      /\ \A q \in 1 .. Len(mResponseQueue') :
              \/ q \in 1 .. Len(mResponseQueue) /\ mResponseQueue'[q] = mResponseQueue[q]
              \/ IsPacket(content) /\ mResponseQueue'[q] = content[1].of
  <2>1. CASE Len(mResponseQueue) < 1 /\ IsPacket(content)
    <3>1. readPacket(content) = <<content[1].of>> /\ content[1].of \in Message
      <4>1. content # << >>
        BY <2>1 DEF IsPacket
      <4>2. Decoded(content) = content[1].of
        BY <2>1, <4>1, Zenon DEF Decoded
      <4>3. content[1].of \in Message
        BY <1>4, <2>1
      <4> QED BY <2>1, <4>2, <4>3, Zenon DEF readPacket
    <3> DEFINE p == content[1].of
    <3> HIDE DEF p
    <3>2. mResponseQueue' = mResponseQueue \o <<p>> /\ p \in Message
      BY <1>5, <2>1, <3>1 DEF p
    <3>3. mResponseQueue = << >>
      BY <1>6, <2>1
    <3>4. mResponseQueue' = <<p>>
      BY <3>2, <3>3
    <3>5. Len(mResponseQueue') = 1 /\ mResponseQueue'[1] = p /\ mResponseQueue' \in Seq(Message)
      BY <3>2, <3>4, OneElement
    <3>6. 1 .. Len(mResponseQueue') = {1}
      BY <3>5
    <3> QED BY <2>1, <3>5, <3>6 DEF p
  <2>2. CASE ~ (Len(mResponseQueue) < 1)
    BY <1>5, <1>6, <2>2
  <2>3. CASE Len(mResponseQueue) < 1 /\ ~ IsPacket(content)
    <3>1. mResponseQueue' = mResponseQueue \o << >>
      BY <1>5, <2>3, Zenon DEF readPacket
    <3>2. mResponseQueue' = mResponseQueue
      BY <1>6, <3>1
    <3> QED BY <1>6, <3>2
  <2> QED BY <2>1, <2>2, <2>3
<1>8. \A q \in 1 .. Len(mResponseQueue') :
         \/ q \in 1 .. Len(mResponseQueue) /\ mResponseQueue'[q] = mResponseQueue[q]
         \/ \E k \in Stored :
              /\ serialBuffer[k].half = 2 /\ mResponseQueue'[q] = serialBuffer[k].of
              /\ \A n, v : (/\ n = serialBuffer[k].of.n /\ v = serialBuffer[k].of.workerId
                            /\ serialBuffer[k].of.from = "worker") => BeforeLine(n, v)'
  <2> HIDE DEF content
  <2> QED BY <1>4, <1>7
<1> QED BY <1>2, <1>3, <1>5, <1>7, <1>8, ListeningKeeps

(* receive() stores the symbol, or skips it before the start of a frame. *)
LEMMA StoreKeeps ==
    ASSUME SipInv, receiver.bytesCounter + 1 <= BufferCells, NEW w \in SipWorker,
           Store(Head(line[w])),
           line[w] # << >>, line' = [line EXCEPT ![w] = Tail(@)],
           UNCHANGED <<mResponseQueue, coordinator, atWorker, taken>>
    PROVE  SipInv'
<1> DEFINE e == receiver.stored + 1
           symbol == Head(line[w])
<1>1. /\ e \in 1 .. BufferCells /\ receiver.stored \in Nat /\ coordinator.n \in Nat
      /\ BufferCells \in Nat
  BY SipTypes DEF SipInv
<1>2. /\ receiver'.stored = e /\ receiver'.bytesCounter = receiver.bytesCounter + 1
      /\ receiver'.startBoundary = TRUE
      /\ receiver' \in [startBoundary : BOOLEAN, stored : 0 .. BufferCells,
                        bytesCounter : 0 .. BufferCells]
      /\ receiver'.stored <= receiver'.bytesCounter /\ receiver'.stored >= 1
  BY <1>1, SipTypes DEF SipInv, Store
<1>3. /\ line' \in [SipWorker -> Seq(Symbol)] /\ LineOrdered'
      /\ \A n, v : v \in SipWorker /\ BeforeLine(n, v) => BeforeLine(n, v)'
      /\ \A n : symbol # Boundary /\ BeforeLine(n, w) => n < symbol.of.n
      /\ symbol # Boundary =>
                /\ symbol \in HalfPacket /\ symbol.of.from = "worker"
                /\ symbol.of.workerId = w /\ symbol.of.n \in Nat
                /\ \A n : n = symbol.of.n => /\ Sent(n) /\ BeforeWorkers(n, w)
                                             /\ symbol.half = 2 => BeforeLine(n, w)'
  BY LineStep
<1>4. serialBuffer' = [serialBuffer EXCEPT ![e] = symbol]
  BY DEF Store
<1> HIDE DEF symbol
<1>5. /\ serialBuffer' \in [1 .. BufferCells -> HalfPacket \cup {Boundary, NoPacket}]
      /\ serialBuffer'[e] = symbol
      /\ \A k \in 1 .. BufferCells : k # e => serialBuffer'[k] = serialBuffer[k]
  BY <1>1, <1>3, <1>4 DEF SipInv, SipTypeOK, Symbol
<1>6. SipTypeOK'
  BY <1>2, <1>3, <1>5 DEF SipInv, SipTypeOK
<1>7. \A n, v : (Sent(n) <=> Sent(n)') /\ (BeforeWorkers(n, v) <=> BeforeWorkers(n, v)')
  BY DEF Sent, BeforeWorkers
<1>8. ASSUME NEW k \in Stored'
      PROVE  \/ k \in Stored /\ serialBuffer'[k] = serialBuffer[k]
             \/ k = e /\ symbol # Boundary /\ serialBuffer'[k] = symbol
  <2>1. k \in 2 .. e /\ serialBuffer'[k] # Boundary
    BY <1>2 DEF Stored
  <2>2. CASE k = e
    BY <1>5, <2>1, <2>2
  <2>3. CASE k # e
    <3>1. k \in 2 .. receiver.stored /\ k \in 1 .. BufferCells
      BY <1>1, <2>1, <2>3
    <3> QED BY <1>5, <2>1, <2>3, <3>1 DEF Stored
  <2> QED BY <2>2, <2>3
<1>9. \A n \in Nat, v \in SipWorker : Delivered(n, v) => Delivered(n, v)'
  <2>1. \A n \in Nat, v \in SipWorker :
          BeforeStored(n, v) /\ BeforeLine(n, v) => BeforeStored(n, v)'
    BY <1>3, <1>8 DEF BeforeStored
  <2> QED BY <1>3, <1>7, <2>1 DEF Delivered
<1>10. WorkersOrdered'
  BY <1>7 DEF SipInv, WorkersOrdered, WorkerOrdered
<1>11. StoredOrdered'
  <2> SUFFICES ASSUME NEW k \in Stored'
               PROVE  /\ serialBuffer'[k] \in HalfPacket
                      /\ serialBuffer'[k].of.n <= coordinator.n
                      /\ serialBuffer'[k].of.from = "worker" =>
                           /\ Sent(serialBuffer[k].of.n)'
                           /\ BeforeWorkers(serialBuffer[k].of.n, serialBuffer[k].of.workerId)'
                           /\ serialBuffer'[k].half = 2 =>
                                BeforeLine(serialBuffer[k].of.n, serialBuffer[k].of.workerId)'
    BY DEF StoredOrdered
  <2>1. CASE k \in Stored /\ serialBuffer'[k] = serialBuffer[k]
    <3>1. serialBuffer[k] \in HalfPacket
      BY <2>1 DEF SipInv, StoredOrdered
    <3>2. serialBuffer[k].of.workerId \in SipWorker
      BY <3>1 DEF HalfPacket, Message
    <3> QED BY <1>3, <1>7, <2>1, <3>2 DEF SipInv, StoredOrdered
  <2>2. CASE k = e /\ symbol # Boundary /\ serialBuffer'[k] = symbol
    <3>1. symbol.of.n <= coordinator.n
      BY <1>1, <1>3, <2>2 DEF Sent
    <3> QED BY <1>3, <1>7, <2>2, <3>1
  <2> QED BY <1>8, <2>1, <2>2
<1> QED BY <1>1, <1>3, <1>6, <1>9, <1>10, <1>11, OrderKept

LEMMA SkipKeeps ==
    ASSUME SipInv, receiver.bytesCounter + 1 <= BufferCells, ~ receiver.startBoundary,
           receiver' = [receiver EXCEPT !.bytesCounter = @ + 1],
           NEW w \in SipWorker, line[w] # << >>, line' = [line EXCEPT ![w] = Tail(@)],
           UNCHANGED <<serialBuffer, mResponseQueue, coordinator, atWorker, taken>>
    PROVE  SipInv'
<1>1. /\ receiver'.stored = receiver.stored /\ receiver'.startBoundary = receiver.startBoundary
      /\ receiver'.bytesCounter = receiver.bytesCounter + 1
      /\ receiver' \in [startBoundary : BOOLEAN, stored : 0 .. BufferCells,
                        bytesCounter : 0 .. BufferCells]
  <2>1. receiver.bytesCounter + 1 \in 0 .. BufferCells
    BY SipTypes DEF SipInv
  <2> QED BY <2>1 DEF SipInv, SipTypeOK
<1>2. /\ line' \in [SipWorker -> Seq(Symbol)] /\ LineOrdered'
      /\ \A n, v : v \in SipWorker /\ BeforeLine(n, v) => BeforeLine(n, v)'
  BY LineStep
<1>3. SipTypeOK'
  <2>1. receiver'.stored <= receiver'.bytesCounter
    BY <1>1, SipTypes DEF SipInv
  <2> QED BY <1>1, <1>2, <2>1 DEF SipInv, SipTypeOK
<1>4. \A n, v : (Sent(n) <=> Sent(n)') /\ (BeforeWorkers(n, v) <=> BeforeWorkers(n, v)')
               /\ (BeforeStored(n, v) <=> BeforeStored(n, v)')
  BY <1>1 DEF Sent, BeforeWorkers, BeforeStored, Stored
<1>5. \A n \in Nat, v \in SipWorker : Delivered(n, v) => Delivered(n, v)'
  BY <1>2, <1>4 DEF Delivered
<1>6. WorkersOrdered'
  BY <1>4 DEF SipInv, WorkersOrdered, WorkerOrdered
<1>7. StoredOrdered'
  <2>1. Stored' = Stored
    BY <1>1 DEF Stored
  <2>2. \A k \in Stored : serialBuffer[k].of.workerId \in SipWorker
    BY DEF SipInv, StoredOrdered, HalfPacket, Message
  <2> QED BY <1>1, <1>2, <1>4, <2>1, <2>2 DEF SipInv, StoredOrdered
<1>8. coordinator.n <= coordinator'.n
  BY SipTypes DEF SipInv
<1> QED BY <1>2, <1>3, <1>5, <1>6, <1>7, <1>8, OrderKept

LEMMA receiveSymbolKeeps ==
    ASSUME SipInv, NEW w \in SipWorker, receiveSymbol(w)
    PROVE  SipInv'
<1>1. /\ line[w] # << >> /\ line' = [line EXCEPT ![w] = Tail(@)]
      /\ UNCHANGED <<coordinator, atWorker, taken>>
  BY DEF receiveSymbol
<1>2. CASE receiver' = Listening /\ UNCHANGED <<serialBuffer, mResponseQueue>>
  <2>1. /\ line' \in [SipWorker -> Seq(Symbol)] /\ LineOrdered'
        /\ \A n, v : v \in SipWorker /\ BeforeLine(n, v) => BeforeLine(n, v)'
    BY <1>1, LineStep
  <2>2. /\ mResponseQueue' \in Seq(Message) /\ Len(mResponseQueue') <= 1
        /\ serialBuffer' \in [1 .. BufferCells -> HalfPacket \cup {Boundary, NoPacket}]
    BY <1>2 DEF SipInv, SipTypeOK
  <2>3. \A q \in 1 .. Len(mResponseQueue') :
           q \in 1 .. Len(mResponseQueue) /\ mResponseQueue'[q] = mResponseQueue[q]
    BY <1>2
  <2> QED BY <1>1, <1>2, <2>1, <2>2, <2>3, ListeningKeeps
<1>3. CASE /\ receiver.bytesCounter + 1 <= BufferCells
           /\ receiver.startBoundary
           /\ serialBuffer' = [serialBuffer EXCEPT ![receiver.stored + 1] = Boundary]
           /\ receivePacket(serialBuffer')
  BY <1>1, <1>3, FrameEnds
<1>4. CASE /\ receiver.bytesCounter + 1 <= BufferCells
           /\ Store(Head(line[w])) /\ UNCHANGED mResponseQueue
  BY <1>1, <1>4, StoreKeeps
<1>5. CASE /\ receiver.bytesCounter + 1 <= BufferCells /\ ~ receiver.startBoundary
           /\ receiver' = [receiver EXCEPT !.bytesCounter = @ + 1]
           /\ UNCHANGED <<serialBuffer, mResponseQueue>>
  BY <1>1, <1>5, SkipKeeps
<1> QED BY <1>2, <1>3, <1>4, <1>5 DEF receiveSymbol
-----------------------------------------------------------------------------
(* The responses of a worker stay in the order of their requests on their  *)
(* whole way over the line, the buffer and the queue to sendRequest(),     *)
(* whatever the other workers send in between.                             *)
THEOREM SipInductive == SipSpec => []SipInv
<1>1. ASSUME SipInv, [SipNext]_sipVars PROVE SipInv'
  <2>1. ASSUME NEW w \in SipWorker, sendRequest(w) PROVE SipInv'
    BY <1>1, <2>1, sendRequestKeeps
  <2>2. CASE transmit
    BY <1>1, <2>2, transmitKeeps
  <2>3. CASE transmitError \/ responseError
    BY <1>1, <2>3, CoordinatorKeeps DEF transmitError, responseError, Return
  <2>4. CASE receiveResponseQueue
    BY <1>1, <2>4, receiveResponseQueueKeeps
  <2>5. ASSUME NEW w \in SipWorker, sendResponse(w) PROVE SipInv'
    BY <1>1, <2>5, sendResponseKeeps
  <2>6. ASSUME NEW w \in SipWorker, workerSilent(w) PROVE SipInv'
    BY <1>1, <2>6, workerSilentKeeps
  <2>7. ASSUME NEW w \in SipWorker, receiveSymbol(w) PROVE SipInv'
    BY <1>1, <2>7, receiveSymbolKeeps
  <2>8. CASE receiveTimeOut
    BY <1>1, <2>8, receiveTimeOutKeeps
  <2>9. CASE UNCHANGED sipVars
    <3> USE <2>9 DEF sipVars
    <3>1. SipTypeOK' /\ ResponsesSound'
      BY <1>1 DEF SipInv, SipTypeOK, ResponsesSound, ResponsesInOrder, SuccessIsFromWorker
    <3>2. WorkersOrdered' /\ LineOrdered'
      BY <1>1 DEF SipInv, WorkersOrdered, WorkerOrdered, LineOrdered, WorkerLineOrdered, Sent,
         BeforeWorkers
    <3>3. StoredOrdered'
      BY <1>1 DEF SipInv, StoredOrdered, Stored, Sent, BeforeWorkers, BeforeLine
    <3>4. QueueOrdered' /\ TakenOrdered'
      BY <1>1 DEF SipInv, QueueOrdered, TakenOrdered, Delivered, Sent, BeforeWorkers,
         BeforeLine, BeforeStored, Stored
    <3> QED BY <3>1, <3>2, <3>3, <3>4 DEF SipInv
  <2> QED BY <1>1, <2>1, <2>2, <2>3, <2>4, <2>5, <2>6, <2>7, <2>8, <2>9 DEF SipNext
<1> QED BY <1>1, SipInitInv, PTL DEF SipSpec

(* sendRequest() takes the responses of a worker in the order of their     *)
(* requests, none twice, and reports success only for what the worker it   *)
(* addressed has sent, although both directions share mBuffer, each worker *)
(* answers at its own pace and timeouts of receive() cut frames.           *)
THEOREM ResponsesAreSound == SipSpec => []ResponsesSound
<1>1. SipInv => ResponsesSound
  BY DEF SipInv
<1> QED BY <1>1, SipInductive, PTL
=============================================================================
