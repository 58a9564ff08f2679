-------------------------- MODULE BusChannel_proofs --------------------------
(***************************************************************************)
(* Proofs about BusChannel, for any number of channels and receivers, any  *)
(* filter and any capacity of at least two.                                *)
(*                                                                         *)
(* PermitsMatch is inductive together with the type invariant: the release *)
(* of the semaphore and the append are one step, and what a receiver takes *)
(* from the semaphore is accounted for by its own state until it fetches   *)
(* the message.  CellsCleared needs the position of mHead as well.         *)
(***************************************************************************)
EXTENDS BusChannel, FiniteSetTheorems, TLAPS

(* The next element is stored right behind the elements in use. *)
HeadInPlace ==
    \A c \in Channel :
        Up(mHead[c]) = IF mTail[c] + mSize[c] >= Capacity
                       THEN mTail[c] + mSize[c] - Capacity
                       ELSE mTail[c] + mSize[c]

Inv ==
    /\ ChannelTypeOK
    /\ PermitsMatch
    /\ HeadInPlace
    /\ CellsCleared
    /\ CountersAgree
-----------------------------------------------------------------------------
(* The set of receivers that hold a permit is finite. *)
LEMMA AcquiredFinite ==
    \A c : IsFiniteSet(Acquired(c)) /\ Cardinality(Acquired(c)) \in Nat
<1>1. IsFiniteSet(Receiver)
  BY ChannelAssumption
<1>2. ASSUME NEW c PROVE IsFiniteSet(Acquired(c)) /\ Cardinality(Acquired(c)) \in Nat
  <2>1. Acquired(c) \subseteq Receiver
    BY DEF Acquired
  <2> QED BY <1>1, <2>1, FS_Subset, FS_CardinalityType
<1> QED BY <1>2

(* A receiver that holds a permit for its channel finds a message there:   *)
(* its permit is one of the messages the Deque counts.                     *)
LEMMA PermitMeansMessage ==
    ASSUME ChannelTypeOK, PermitsMatch
    PROVE  NoInvalidState
<1>1. SUFFICES ASSUME NEW r \in Receiver, rpc[r] = "acquired"
               PROVE  mSize[source[r]] # 0
  BY DEF NoInvalidState
<1> DEFINE c == source[r]
<1>2. c \in Channel
  BY DEF ChannelTypeOK
<1>3. r \in Acquired(c)
  BY <1>1 DEF Acquired
<1>4. Cardinality(Acquired(c)) # 0
  BY <1>3, AcquiredFinite, FS_EmptySet
<1>5. mMessageAvailable[c] \in Nat /\ mSize[c] \in 0 .. Capacity
  BY <1>2 DEF ChannelTypeOK
<1>6. mSize[c] = mMessageAvailable[c] + Cardinality(Acquired(c))
  BY <1>2 DEF PermitsMatch
<1>7. Cardinality(Acquired(c)) \in Nat
  BY AcquiredFinite
<1> QED BY <1>4, <1>5, <1>6, <1>7

LEMMA InitInv == ChannelInit => Inv
<1> SUFFICES ASSUME ChannelInit PROVE Inv
  OBVIOUS
<1>0. Capacity \in Nat /\ Capacity >= 2
  BY ChannelAssumption
<1>1. ChannelTypeOK
  BY <1>0 DEF ChannelInit, ChannelTypeOK, Cell
<1>2. PermitsMatch
  <2>1. SUFFICES ASSUME NEW c \in Channel PROVE Cardinality(Acquired(c)) = 0
    BY DEF PermitsMatch, ChannelInit
  <2>2. Acquired(c) = {}
    BY DEF Acquired, ChannelInit
  <2> QED BY <2>2, FS_EmptySet
<1>3. HeadInPlace
  BY <1>0 DEF ChannelInit, HeadInPlace, Up
<1>4. CellsCleared
  BY <1>0 DEF ChannelInit, CellsCleared, InUse, Cell
<1>5. CountersAgree
  BY DEF ChannelInit, CountersAgree
<1> QED BY <1>1, <1>2, <1>3, <1>4, <1>5 DEF Inv
-----------------------------------------------------------------------------
(* Facts about the type of the state that the steps below share. *)
LEMMA TypeFacts ==
    ASSUME Inv
    PROVE  /\ Capacity \in Nat /\ Capacity >= 2
           /\ \A c \in Channel :
                /\ mHead[c] \in Cell /\ mTail[c] \in Cell
                /\ mSize[c] \in 0 .. Capacity
                /\ mMessageAvailable[c] \in Nat
                /\ counters[c].incoming \in Nat /\ counters[c].appended \in Nat
                /\ counters[c].failed \in Nat /\ counters[c].retrieved \in Nat
           /\ \A i \in Cell : Up(i) \in Cell
BY ChannelAssumption DEF Inv, ChannelTypeOK, Up, Cell

(* A step that touches only the counters, in step with the channel. *)
LEMMA DeclineStep ==
    ASSUME Inv, NEW c \in Channel, NEW m \in Message, Decline(c, m)
    PROVE  Inv'
<1> USE DEF Decline, deque, receivers
<1>1. ChannelTypeOK'
  BY TypeFacts DEF Inv, ChannelTypeOK
<1>2. PermitsMatch'
  BY DEF Inv, PermitsMatch, Acquired
<1>3. HeadInPlace' /\ CellsCleared'
  BY DEF Inv, HeadInPlace, CellsCleared, InUse, Cell, Up
<1>4. CountersAgree'
  BY TypeFacts DEF Inv, CountersAgree, ChannelTypeOK
<1> QED BY <1>1, <1>2, <1>3, <1>4 DEF Inv

LEMMA RejectStep ==
    ASSUME Inv, NEW c \in Channel, NEW m \in Message, Reject(c, m)
    PROVE  Inv'
<1> USE DEF Reject, deque, receivers
<1>1. ChannelTypeOK'
  <2> DEFINE C == [incoming : Nat, appended : Nat, failed : Nat, retrieved : Nat]
             new == [counters[c] EXCEPT !.incoming = @ + 1, !.failed = @ + 1]
  <2>1. counters \in [Channel -> C]
    BY DEF Inv, ChannelTypeOK
  <2>2. new \in C
    BY <2>1
  <2>3. counters' = [counters EXCEPT ![c] = new]
    BY <2>1
  <2>4. counters' \in [Channel -> C]
    BY <2>1, <2>2, <2>3
  <2> QED BY <2>4 DEF Inv, ChannelTypeOK
<1>2. PermitsMatch'
  BY DEF Inv, PermitsMatch, Acquired
<1>3. HeadInPlace' /\ CellsCleared'
  BY DEF Inv, HeadInPlace, CellsCleared, InUse, Cell, Up
<1>4. CountersAgree'
  <2>1. SUFFICES ASSUME NEW d \in Channel
                 PROVE  /\ counters'[d].appended - counters'[d].retrieved = mSize'[d]
                        /\ counters'[d].appended + counters'[d].failed
                             <= counters'[d].incoming
    BY DEF CountersAgree
  <2>2. /\ counters'[d].appended = counters[d].appended
        /\ counters'[d].retrieved = counters[d].retrieved
        /\ counters'[d].failed - counters[d].failed =
             counters'[d].incoming - counters[d].incoming
        /\ counters'[d].failed \in Nat /\ counters'[d].incoming \in Nat
    <3>1. CASE d = c
      BY <3>1, TypeFacts DEF Inv, ChannelTypeOK
    <3>2. CASE d # c
      BY <3>2, TypeFacts DEF Inv, ChannelTypeOK
    <3> QED BY <3>1, <3>2
  <2> QED BY <2>2, TypeFacts DEF Inv, CountersAgree
<1> QED BY <1>1, <1>2, <1>3, <1>4 DEF Inv

LEMMA AcceptStep ==
    ASSUME Inv, NEW c \in Channel, NEW m \in Message, Accept(c, m)
    PROVE  Inv'
<1> USE DEF Accept, receivers
<1>0. m # NoMessage
  BY ChannelAssumption
<1>1. ChannelTypeOK'
  <2>1. mBuffer' \in [Channel -> [Cell -> Message \cup {NoMessage}]]
    BY TypeFacts DEF Inv, ChannelTypeOK
  <2>2. mSize' \in [Channel -> 0 .. Capacity]
    BY TypeFacts DEF Inv, ChannelTypeOK, HasRoom
  <2>3. counters' \in
          [Channel -> [incoming : Nat, appended : Nat, failed : Nat, retrieved : Nat]]
    <3> DEFINE C == [incoming : Nat, appended : Nat, failed : Nat, retrieved : Nat]
               new == [counters[c] EXCEPT !.incoming = @ + 1, !.appended = @ + 1]
    <3>1. counters \in [Channel -> C]
      BY DEF Inv, ChannelTypeOK
    <3>2. new \in C
      BY <3>1
    <3>3. counters' = [counters EXCEPT ![c] = new]
      BY <3>1
    <3> QED BY <3>1, <3>2, <3>3
  <2>4. mHead' \in [Channel -> Cell] /\ mMessageAvailable' \in [Channel -> Nat]
    BY TypeFacts DEF Inv, ChannelTypeOK
  <2> QED BY <2>1, <2>2, <2>3, <2>4 DEF Inv, ChannelTypeOK
<1>2. PermitsMatch'
  <2>1. \A d : Acquired(d)' = Acquired(d)
    BY DEF Acquired
  <2>2. SUFFICES ASSUME NEW d \in Channel
                 PROVE  mSize'[d] = mMessageAvailable'[d] + Cardinality(Acquired(d))
    BY <2>1 DEF PermitsMatch
  <2>3. mSize'[d] - mSize[d] = mMessageAvailable'[d] - mMessageAvailable[d]
    BY TypeFacts DEF Inv, ChannelTypeOK
  <2>4. mSize'[d] \in Nat /\ mMessageAvailable'[d] \in Nat
    BY <1>1, ChannelAssumption DEF ChannelTypeOK
  <2>5. mSize[d] = mMessageAvailable[d] + Cardinality(Acquired(d))
    BY DEF Inv, PermitsMatch
  <2>6. Cardinality(Acquired(d)) \in Nat
    BY AcquiredFinite
  <2> QED BY <2>3, <2>4, <2>5, <2>6, TypeFacts
<1>3. HeadInPlace'
  <2>1. SUFFICES ASSUME NEW d \in Channel
                 PROVE  Up(mHead'[d]) = IF mTail'[d] + mSize'[d] >= Capacity
                                        THEN mTail'[d] + mSize'[d] - Capacity
                                        ELSE mTail'[d] + mSize'[d]
    BY DEF HeadInPlace, Up
  <2>2. Up(mHead[d]) = IF mTail[d] + mSize[d] >= Capacity
                       THEN mTail[d] + mSize[d] - Capacity
                       ELSE mTail[d] + mSize[d]
    BY DEF Inv, HeadInPlace
  <2>3. CASE d # c
    BY <2>2, <2>3 DEF Inv, ChannelTypeOK, Up
  <2>4. CASE d = c
    <3>1. /\ mHead'[d] = Up(mHead[d]) /\ mTail'[d] = mTail[d]
          /\ mSize'[d] = mSize[d] + 1 /\ mSize[d] < Capacity
      BY <2>4 DEF Inv, ChannelTypeOK, HasRoom
    <3> QED BY <2>2, <3>1, TypeFacts DEF Up, Cell
  <2> QED BY <2>3, <2>4
<1>4. CellsCleared'
  <2>1. SUFFICES ASSUME NEW d \in Channel, NEW i \in Cell
                 PROVE  mBuffer'[d][i] # NoMessage <=> i \in InUse(d)'
    BY DEF CellsCleared, Cell
  <2>2. mBuffer[d][i] # NoMessage <=> i \in InUse(d)
    BY DEF Inv, CellsCleared
  <2>3. CASE d # c
    BY <2>2, <2>3 DEF Inv, ChannelTypeOK, InUse, Cell
  <2>4. CASE d = c
    <3>1. mBuffer'[c][i] = IF i = Up(mHead[c]) THEN m ELSE mBuffer[c][i]
      BY TypeFacts DEF Inv, ChannelTypeOK
    <3>2. mTail'[c] = mTail[c] /\ mSize'[c] = mSize[c] + 1 /\ mSize[c] < Capacity
      BY TypeFacts DEF Inv, ChannelTypeOK, HasRoom
    <3>3. Up(mHead[c]) = IF mTail[c] + mSize[c] >= Capacity
                         THEN mTail[c] + mSize[c] - Capacity
                         ELSE mTail[c] + mSize[c]
      BY DEF Inv, HeadInPlace
    <3>4. i \in InUse(c)' <=> (i = Up(mHead[c]) \/ i \in InUse(c))
      BY <3>2, <3>3, TypeFacts DEF InUse, Cell
    <3> QED BY <1>0, <2>2, <2>4, <3>1, <3>4
  <2> QED BY <2>3, <2>4
<1>5. CountersAgree'
  BY TypeFacts DEF Inv, CountersAgree, ChannelTypeOK
<1> QED BY <1>1, <1>2, <1>3, <1>4, <1>5 DEF Inv

(* A receiver moves from one unannounced state to another. *)
LEMMA IdleStep ==
    ASSUME Inv, NEW r \in Receiver, Wait(r) \/ Timeout(r) \/ Release(r)
    PROVE  Inv'
<1> USE DEF Wait, Timeout, Release, deque
<1>1. ChannelTypeOK'
  BY DEF Inv, ChannelTypeOK
<1>2. \A d : Acquired(d)' = Acquired(d)
  BY DEF Inv, ChannelTypeOK, Acquired
<1>3. PermitsMatch'
  BY <1>2 DEF Inv, PermitsMatch
<1>4. HeadInPlace' /\ CellsCleared'
  BY DEF Inv, HeadInPlace, CellsCleared, InUse, Cell, Up
<1>5. CountersAgree'
  BY DEF Inv, CountersAgree
<1> QED BY <1>1, <1>3, <1>4, <1>5 DEF Inv

(* The permit moves from the semaphore to the receiver. *)
LEMMA AcquireStep ==
    ASSUME Inv, NEW r \in Receiver, Acquire(r)
    PROVE  Inv'
<1> USE DEF Acquire, deque
<1> DEFINE c == source[r]
<1>0. c \in Channel
  BY DEF Inv, ChannelTypeOK
<1>1. ChannelTypeOK'
  BY <1>0, TypeFacts DEF Inv, ChannelTypeOK
<1>2. PermitsMatch'
  <2>1. SUFFICES ASSUME NEW d \in Channel
                 PROVE  mSize'[d] = mMessageAvailable'[d] + Cardinality(Acquired(d)')
    BY DEF PermitsMatch
  <2>2. mSize[d] = mMessageAvailable[d] + Cardinality(Acquired(d))
    BY DEF Inv, PermitsMatch
  <2>3. CASE d # c
    <3>1. Acquired(d)' = Acquired(d)
      BY <2>3 DEF Inv, ChannelTypeOK, Acquired
    <3>2. mMessageAvailable'[d] = mMessageAvailable[d]
      BY <2>3, <1>0 DEF Inv, ChannelTypeOK
    <3> QED BY <2>2, <3>1, <3>2
  <2>4. CASE d = c
    <3>1. Acquired(d)' = Acquired(d) \cup {r} /\ r \notin Acquired(d)
      BY <2>4 DEF Inv, ChannelTypeOK, Acquired
    <3>2. Cardinality(Acquired(d)') = Cardinality(Acquired(d)) + 1
      BY <3>1, AcquiredFinite, FS_AddElement
    <3>3. mMessageAvailable'[d] = mMessageAvailable[d] - 1
      BY <2>4 DEF Inv, ChannelTypeOK
    <3> QED BY <2>2, <3>2, <3>3, TypeFacts, AcquiredFinite
  <2> QED BY <2>3, <2>4
<1>3. HeadInPlace' /\ CellsCleared'
  BY DEF Inv, HeadInPlace, CellsCleared, InUse, Cell, Up
<1>4. CountersAgree'
  BY DEF Inv, CountersAgree
<1> QED BY <1>1, <1>2, <1>3, <1>4 DEF Inv

(* The receiver gives up its permit with the message it fetches. *)
LEMMA FetchStep ==
    ASSUME Inv, NEW r \in Receiver, Fetch(r)
    PROVE  Inv'
<1> USE DEF Fetch, ClearFront
<1> DEFINE c == source[r]
<1>0. c \in Channel
  BY DEF Inv, ChannelTypeOK
<1>1. ChannelTypeOK'
  <2>1. mBuffer' \in [Channel -> [Cell -> Message \cup {NoMessage}]]
    BY <1>0, TypeFacts DEF Inv, ChannelTypeOK
  <2>2. mSize' \in [Channel -> 0 .. Capacity] /\ mTail' \in [Channel -> Cell]
    <3>1. mSize[c] \in 0 .. Capacity /\ mSize[c] # 0
      BY <1>0, TypeFacts
    <3>2. mSize[c] - 1 \in 0 .. Capacity
      BY <3>1, TypeFacts
    <3>3. Up(mTail[c]) \in Cell
      BY <1>0, TypeFacts
    <3> QED BY <1>0, <3>2, <3>3 DEF Inv, ChannelTypeOK
  <2>3. counters' \in
          [Channel -> [incoming : Nat, appended : Nat, failed : Nat, retrieved : Nat]]
    BY <1>0, TypeFacts DEF Inv, ChannelTypeOK
  <2>4. received' \in [Receiver -> Message \cup {NoMessage}]
    BY <1>0, TypeFacts DEF Inv, ChannelTypeOK
  <2> QED BY <2>1, <2>2, <2>3, <2>4 DEF Inv, ChannelTypeOK
<1>2. PermitsMatch'
  <2>1. SUFFICES ASSUME NEW d \in Channel
                 PROVE  mSize'[d] = mMessageAvailable'[d] + Cardinality(Acquired(d)')
    BY DEF PermitsMatch
  <2>2. mSize[d] = mMessageAvailable[d] + Cardinality(Acquired(d))
    BY DEF Inv, PermitsMatch
  <2>3. CASE d # c
    <3>1. Acquired(d)' = Acquired(d)
      BY <2>3 DEF Inv, ChannelTypeOK, Acquired
    <3>2. mSize'[d] = mSize[d]
      BY <2>3, <1>0 DEF Inv, ChannelTypeOK
    <3> QED BY <2>2, <3>1, <3>2
  <2>4. CASE d = c
    <3>1. Acquired(d)' = Acquired(d) \ {r} /\ r \in Acquired(d)
      BY <2>4 DEF Inv, ChannelTypeOK, Acquired
    <3>2. Cardinality(Acquired(d)') = Cardinality(Acquired(d)) - 1
      BY <3>1, AcquiredFinite, FS_RemoveElement
    <3>3. mSize'[d] = mSize[d] - 1 /\ mMessageAvailable'[d] = mMessageAvailable[d]
      BY <2>4 DEF Inv, ChannelTypeOK
    <3>4. mSize[d] \in Nat /\ mMessageAvailable[d] \in Nat
      BY TypeFacts
    <3>5. Cardinality(Acquired(d)) \in Nat
      BY AcquiredFinite
    <3> QED BY <2>2, <3>2, <3>3, <3>4, <3>5
  <2> QED BY <2>3, <2>4
<1>3. /\ mTail'[c] = Up(mTail[c]) /\ mSize'[c] = mSize[c] - 1 /\ mSize[c] # 0
      /\ \A d \in Channel : d # c => mTail'[d] = mTail[d] /\ mSize'[d] = mSize[d]
      /\ mHead' = mHead
  BY <1>0 DEF Inv, ChannelTypeOK
<1>4. HeadInPlace'
  <2>1. SUFFICES ASSUME NEW d \in Channel
                 PROVE  Up(mHead[d]) = IF mTail'[d] + mSize'[d] >= Capacity
                                       THEN mTail'[d] + mSize'[d] - Capacity
                                       ELSE mTail'[d] + mSize'[d]
    BY <1>3 DEF HeadInPlace, Up
  <2>2. Up(mHead[d]) = IF mTail[d] + mSize[d] >= Capacity
                       THEN mTail[d] + mSize[d] - Capacity
                       ELSE mTail[d] + mSize[d]
    BY DEF Inv, HeadInPlace
  <2>3. CASE d # c
    BY <1>3, <2>2, <2>3
  <2>4. CASE d = c
    <3>1. \/ mTail'[d] = mTail[d] + 1
          \/ mTail[d] = Capacity - 1 /\ mTail'[d] = 0
      BY <1>3, <2>4, <1>0, TypeFacts DEF Up, Cell
    <3> QED BY <1>3, <2>2, <2>4, <3>1, TypeFacts, SMTT(30) DEF Cell
  <2> QED BY <2>3, <2>4
<1>5. CellsCleared'
  <2>1. SUFFICES ASSUME NEW d \in Channel, NEW i \in Cell
                 PROVE  mBuffer'[d][i] # NoMessage <=> i \in InUse(d)'
    BY DEF CellsCleared, Cell
  <2>2. mBuffer[d][i] # NoMessage <=> i \in InUse(d)
    BY DEF Inv, CellsCleared
  <2>3. CASE d # c
    <3>1. mBuffer'[d][i] = mBuffer[d][i]
      BY <1>0, <2>3 DEF Inv, ChannelTypeOK
    <3> QED BY <1>3, <2>2, <2>3, <3>1 DEF InUse, Cell
  <2>4. CASE d = c
    <3>1. mBuffer'[c][i] = IF i = mTail[c] THEN NoMessage ELSE mBuffer[c][i]
      BY <1>0, TypeFacts DEF Inv, ChannelTypeOK
    <3>2. i \in InUse(c)' <=> (i # mTail[c] /\ i \in InUse(c))
      BY <1>0, <1>3, TypeFacts DEF InUse, Cell, Up
    <3> QED BY <2>2, <2>4, <3>1, <3>2
  <2> QED BY <2>3, <2>4
<1>6. CountersAgree'
  <2>1. SUFFICES ASSUME NEW d \in Channel
                 PROVE  /\ counters'[d].appended - counters'[d].retrieved = mSize'[d]
                        /\ counters'[d].appended + counters'[d].failed
                             <= counters'[d].incoming
    BY DEF CountersAgree
  <2>2. /\ counters'[d].appended = counters[d].appended
        /\ counters'[d].failed = counters[d].failed
        /\ counters'[d].incoming = counters[d].incoming
        /\ counters'[d].retrieved =
             IF d = c THEN counters[d].retrieved + 1 ELSE counters[d].retrieved
    BY <1>0 DEF Inv, ChannelTypeOK
  <2> QED BY <1>3, <2>2, TypeFacts DEF Inv, CountersAgree
<1> QED BY <1>1, <1>2, <1>4, <1>5, <1>6 DEF Inv

(* Nothing happens to the channels. *)
LEMMA ChannelStutter ==
    ASSUME Inv, UNCHANGED channelVars
    PROVE  Inv'
<1> USE DEF channelVars, deque, receivers
<1>1. ChannelTypeOK' /\ CountersAgree'
  BY DEF Inv, ChannelTypeOK, CountersAgree
<1>2. PermitsMatch'
  BY DEF Inv, PermitsMatch, Acquired
<1>3. HeadInPlace' /\ CellsCleared'
  BY DEF Inv, HeadInPlace, CellsCleared, InUse, Cell, Up
<1> QED BY <1>1, <1>2, <1>3 DEF Inv

(* A step of a receiver. *)
LEMMA ReceiveStep ==
    ASSUME Inv, NEW r \in Receiver, Receive(r)
    PROVE  Inv'
BY IdleStep, AcquireStep, FetchStep DEF Receive
-----------------------------------------------------------------------------
(* Inv is an invariant of the channels. *)
THEOREM InductiveInvariant == ChannelSpec => []Inv
<1>1. Inv /\ [ChannelNext]_channelVars => Inv'
  <2> SUFFICES ASSUME Inv, [ChannelNext]_channelVars PROVE Inv'
    OBVIOUS
  <2>1. CASE \E c \in Channel, m \in Message : Decline(c, m) \/ Accept(c, m) \/ Reject(c, m)
    BY <2>1, DeclineStep, AcceptStep, RejectStep
  <2>2. CASE \E r \in Receiver : Receive(r)
    BY <2>2, ReceiveStep
  <2>3. CASE UNCHANGED channelVars
    BY <2>3, ChannelStutter
  <2> QED BY <2>1, <2>2, <2>3 DEF ChannelNext
<1> QED BY <1>1, InitInv, PTL DEF ChannelSpec

(* The permits of the semaphore and those held by receivers match the      *)
(* buffered messages (BufferedBusChannel::sendMessage, receiveMessage).    *)
THEOREM PermitsAreExact == ChannelSpec => []PermitsMatch
<1>1. Inv => PermitsMatch
  BY DEF Inv
<1> QED BY <1>1, InductiveInvariant, PTL

(* receiveMessage() never returns invalidState. *)
THEOREM InvalidStateUnreachable == ChannelSpec => []NoInvalidState
<1>1. Inv => NoInvalidState
  BY PermitMeansMessage DEF Inv
<1> QED BY <1>1, InductiveInvariant, PTL

(* Exactly the cells in use hold a message, wherever the ring wraps. *)
THEOREM NothingIsKept == ChannelSpec => []CellsCleared
<1>1. Inv => CellsCleared
  BY DEF Inv
<1> QED BY <1>1, InductiveInvariant, PTL

(* The statistics counters of a channel agree with its contents. *)
THEOREM CountersAreExact == ChannelSpec => []CountersAgree
<1>1. Inv => CountersAgree
  BY DEF Inv
<1> QED BY <1>1, InductiveInvariant, PTL

(* The variables of a channel keep their types. *)
THEOREM TypeCorrect == ChannelSpec => []ChannelTypeOK
<1>1. Inv => ChannelTypeOK
  BY DEF Inv
<1> QED BY <1>1, InductiveInvariant, PTL

(* Semaphore, buffer and statistics of every channel agree at every step,  *)
(* for any number of channels and receivers (sendMessage, receiveMessage). *)
THEOREM ChannelIsSound == ChannelSpec => []ChannelSound
BY PermitsAreExact, InvalidStateUnreachable, NothingIsKept, CountersAreExact, PTL
   DEF ChannelSound
=============================================================================
