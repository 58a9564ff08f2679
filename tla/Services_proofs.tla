-------------------------- MODULE Services_proofs ---------------------------
(***************************************************************************)
(* What each of the services keeps, for every value of its constants: the  *)
(* queue of the POSIX port loses no item and no wake-up and implements a   *)
(* bounded FIFO, the heartbeat limiter never misleads the watchdog, a      *)
(* parameter stays whole under its writers and its readers, periodic tasks *)
(* are released on the grid of their periods, publications reach each      *)
(* subscriber once, and the parameter store finds what it was given.       *)
(***************************************************************************)
EXTENDS PosixQueue, HeartbeatLimiter, Parameter, PeriodicTaskManager, Topics,
        ParameterStore, FiniteSetTheorems, WellFoundedInduction, TLAPS

(* The queue of the POSIX port *)

(* mHead is mItemsInBuffer positions after mTail, the items in between are *)
(* real ones, and every wait knows how much of its time is left.           *)
Position == mHead = (mTail + mItemsInBuffer) % mMaximumSize
Occupied ==
    \A k \in 1 .. mItemsInBuffer : mBuffer[(mTail + k) % mMaximumSize] \in Value
WaitBudget ==
    \A r \in Receiver :
        /\ wait[r].timeout = Forever => wait[r].left = Forever
        /\ wait[r].timeout # Forever =>
             /\ wait[r].left \in Nat
             /\ wait[r].waited + wait[r].left <= wait[r].timeout * (1 + wait[r].wakeups)
PosixInv == QueueTypeOK /\ Position /\ Occupied /\ NoLostWakeup /\ WaitBudget

Waiting == [timeout : Timeout \cup {Forever}, left : Nat \cup {Forever},
            waited : Nat, wakeups : 0 .. MaxWakeups]
WaitFits(w) ==
    /\ w.timeout = Forever => w.left = Forever
    /\ w.timeout # Forever => w.left \in Nat /\ w.waited + w.left <= w.timeout * (1 + w.wakeups)
-----------------------------------------------------------------------------
(* The positions of the ring. *)
LEMMA RingPosition ==
    ASSUME NEW n \in Nat, n >= 1, NEW i \in 0 .. 2 * n - 1
    PROVE  i % n = IF i >= n THEN i - n ELSE i
<1>1. CASE i < n
  BY <1>1
<1>2. CASE i >= n
  <2>1. i = n * 1 + (i - n) /\ i - n \in 0 .. n - 1
    BY <1>2
  <2> QED BY <1>2, <2>1
<1> QED BY <1>1, <1>2

LEMMA RingSum ==
    ASSUME NEW n \in Nat, n >= 1, NEW a \in 0 .. n - 1, NEW b \in 0 .. n
    PROVE  (a + b) % n = IF a + b >= n THEN a + b - n ELSE a + b
<1> DEFINE i == a + b
<1>1. i \in 0 .. 2 * n - 1
  OBVIOUS
<1> HIDE DEF i
<1>2. i % n = IF i >= n THEN i - n ELSE i
  BY <1>1, RingPosition
<1> QED BY <1>2 DEF i

LEMMA IncrementInRing ==
    ASSUME NEW i \in Ring
    PROVE  increment(i) \in Ring /\ increment(i) = (i + 1) % mMaximumSize
<1>1. mMaximumSize \in Nat /\ mMaximumSize >= 1
  BY PosixQueueAssumption
<1>2. 1 \in 0 .. mMaximumSize /\ i \in 0 .. mMaximumSize - 1
  BY <1>1 DEF Ring
<1>3. (i + 1) % mMaximumSize = IF i + 1 >= mMaximumSize THEN i + 1 - mMaximumSize ELSE i + 1
  BY <1>1, <1>2, RingSum
<1> QED BY <1>1, <1>2, <1>3 DEF Ring, increment

(* Going k positions on from the position after i. *)
LEMMA RingShift ==
    ASSUME NEW i \in Ring, NEW k \in 0 .. mMaximumSize - 1
    PROVE  /\ (increment(i) + k) % mMaximumSize = (i + (k + 1)) % mMaximumSize
           /\ increment((i + k) % mMaximumSize) = (i + (k + 1)) % mMaximumSize
           /\ (i + (k + 1)) % mMaximumSize \in Ring /\ (i + k) % mMaximumSize \in Ring
<1> DEFINE n == mMaximumSize
           l == k + 1
           j == increment(i)
           m == (i + k) % n
<1>0. /\ n \in Nat /\ n >= 1 /\ i \in 0 .. n - 1 /\ k \in 0 .. n - 1 /\ l = k + 1
      /\ k \in 0 .. n /\ l \in 0 .. n
  BY PosixQueueAssumption DEF Ring
<1>1. j = IF i >= n - 1 THEN 0 ELSE i + 1
  BY DEF increment
<1>2. increment(m) = IF m >= n - 1 THEN 0 ELSE m + 1
  BY DEF increment
<1>3. m = (i + k) % n
  OBVIOUS
<1> HIDE DEF n, l, j, m
<1>4. j \in 0 .. n - 1
  BY <1>0, <1>1
<1>5. (j + k) % n = IF j + k >= n THEN j + k - n ELSE j + k
  BY <1>0, <1>4, RingSum
<1>6. (i + k) % n = IF i + k >= n THEN i + k - n ELSE i + k
  BY <1>0, RingSum
<1>7. (i + l) % n = IF i + l >= n THEN i + l - n ELSE i + l
  BY <1>0, RingSum
<1>8. /\ (j + k) % n = (i + l) % n /\ increment(m) = (i + l) % n
      /\ (i + l) % n \in 0 .. n - 1 /\ m \in 0 .. n - 1
  BY <1>0, <1>1, <1>2, <1>3, <1>5, <1>6, <1>7
<1> QED BY <1>8 DEF n, l, j, m, Ring

LEMMA NextRound ==
    ASSUME NEW t \in Nat, NEW w \in Nat
    PROVE  t * (1 + w) \in Nat /\ t * (1 + (w + 1)) = t * (1 + w) + t
  OBVIOUS

LEMMA WaitingTypes ==
    ASSUME NEW w \in Waiting
    PROVE  /\ w.timeout \in Timeout \cup {Forever} /\ w.left \in Nat \cup {Forever}
           /\ w.waited \in Nat /\ w.wakeups \in 0 .. MaxWakeups /\ w.wakeups \in Nat
           /\ w.timeout # Forever => w.timeout \in Nat /\ w.timeout * (1 + w.wakeups) \in Nat
<1>1. /\ w.timeout \in Timeout \cup {Forever} /\ w.left \in Nat \cup {Forever}
      /\ w.waited \in Nat /\ w.wakeups \in 0 .. MaxWakeups
  BY DEF Waiting
<1>2. w.wakeups \in Nat
  BY <1>1, PosixQueueAssumption
<1>3. w.timeout # Forever => w.timeout \in Nat
  BY <1>1, PosixQueueAssumption
<1>4. w.timeout # Forever => w.timeout * (1 + w.wakeups) \in Nat
  BY <1>2, <1>3, NextRound
<1> QED BY <1>1, <1>2, <1>3, <1>4

(* A tick moves one unit of a running wait from left to waited. *)
LEMMA WaitTick ==
    ASSUME NEW w \in Waiting, WaitFits(w), w.left # Forever, w.left > 0
    PROVE  LET u == [w EXCEPT !.left = @ - 1, !.waited = @ + 1]
           IN  u \in Waiting /\ WaitFits(u)
<1> DEFINE a == w.waited
           b == w.left
           p == w.timeout * (1 + w.wakeups)
           u == [w EXCEPT !.left = @ - 1, !.waited = @ + 1]
<1>1. /\ a \in Nat /\ b \in Nat /\ b > 0 /\ p \in Nat /\ a + b <= p
      /\ w.timeout # Forever /\ w.timeout \in Timeout \cup {Forever}
      /\ w.wakeups \in 0 .. MaxWakeups
  BY WaitingTypes DEF WaitFits
<1>2. /\ u.timeout = w.timeout /\ u.left = b - 1 /\ u.waited = a + 1 /\ u.wakeups = w.wakeups
  BY DEF Waiting
<1>3. /\ u.timeout * (1 + u.wakeups) = p
  BY <1>2
<1> HIDE DEF a, b, p
<1>4. b - 1 \in Nat /\ a + 1 \in Nat /\ (a + 1) + (b - 1) <= p
  BY <1>1
<1>5. u \in Waiting
  <2>1. b - 1 = w.left - 1 /\ a + 1 = w.waited + 1
    BY DEF a, b
  <2> QED BY <1>4, <2>1 DEF Waiting
<1> HIDE DEF u
<1>6. WaitFits(u)
  <2>1. u.waited + u.left <= u.timeout * (1 + u.wakeups)
    BY <1>2, <1>3, <1>4
  <2> QED BY <1>1, <1>2, <1>4, <2>1 DEF WaitFits
<1> QED BY <1>5, <1>6 DEF u

LEMMA PosixInitInv == QueueInit => PosixInv
<1> SUFFICES ASSUME QueueInit PROVE PosixInv
  OBVIOUS
<1>1. NoWait \in Waiting /\ WaitFits(NoWait)
  BY PosixQueueAssumption DEF NoWait, Waiting, WaitFits
<1>2. QueueTypeOK
  <2>1. wait \in [Receiver -> Waiting]
    BY <1>1 DEF QueueInit
  <2>2. 0 \in Ring /\ 0 \in 0 .. mMaximumSize
    BY PosixQueueAssumption DEF Ring
  <2> QED BY <2>1, <2>2 DEF QueueInit, QueueTypeOK, Waiting
<1>3. Position
  BY PosixQueueAssumption DEF Position, QueueInit
<1>4. Occupied
  BY DEF Occupied, QueueInit
<1>5. NoLostWakeup
  BY DEF NoLostWakeup, In, QueueInit
<1>6. WaitBudget
  BY <1>1 DEF WaitBudget, WaitFits, QueueInit
<1> QED BY <1>2, <1>3, <1>4, <1>5, <1>6 DEF PosixInv

(* Different items are at different positions. *)
LEMMA RingDistinct ==
    ASSUME NEW a \in Ring, NEW k \in 1 .. mMaximumSize, NEW l \in 1 .. mMaximumSize, k # l
    PROVE  (a + k) % mMaximumSize # (a + l) % mMaximumSize
<1> DEFINE n == mMaximumSize
<1>0. /\ n \in Nat /\ n >= 1 /\ a \in 0 .. n - 1 /\ k \in 0 .. n /\ l \in 0 .. n
      /\ k >= 1 /\ l >= 1
  BY PosixQueueAssumption DEF Ring
<1> HIDE DEF n
<1>1. (a + k) % n = IF a + k >= n THEN a + k - n ELSE a + k
  BY <1>0, RingSum
<1>2. (a + l) % n = IF a + l >= n THEN a + l - n ELSE a + l
  BY <1>0, RingSum
<1>3. (a + k) % n # (a + l) % n
  BY <1>0, <1>1, <1>2
<1> QED BY <1>3 DEF n

LEMMA PosixTypes ==
    ASSUME QueueTypeOK
    PROVE  /\ mMaximumSize \in Nat /\ mMaximumSize >= 1
           /\ mItemsInBuffer \in Nat /\ mItemsInBuffer <= mMaximumSize
           /\ mHead \in Ring /\ mTail \in Ring
           /\ mBuffer \in [Ring -> Value \cup {mEmpty}]
           /\ rx \in [Receiver -> {"idle", "waiting", "woken", "expired"}]
           /\ wait \in [Receiver -> Waiting]
           /\ data \in [Receiver -> Value \cup {mEmpty}]
           /\ IsFiniteSet(In("woken")) /\ Cardinality(In("woken")) \in Nat
<1>1. In("woken") \subseteq Receiver
  BY DEF In
<1>2. IsFiniteSet(In("woken")) /\ Cardinality(In("woken")) \in Nat
  BY <1>1, PosixQueueAssumption, FS_Subset, FS_CardinalityType
<1> QED BY <1>2, PosixQueueAssumption DEF QueueTypeOK, Waiting

LEMMA QueueSendKeeps ==
    ASSUME PosixInv, NEW v \in Value, QueueSend(v) PROVE PosixInv'
<1> DEFINE n == mMaximumSize
           m == mItemsInBuffer
<1>0. /\ n \in Nat /\ n >= 1 /\ m \in Nat /\ m < n /\ mHead \in Ring /\ mTail \in Ring
      /\ mBuffer \in [Ring -> Value \cup {mEmpty}]
      /\ rx \in [Receiver -> {"idle", "waiting", "woken", "expired"}]
      /\ IsFiniteSet(In("woken")) /\ Cardinality(In("woken")) \in Nat
  BY PosixTypes DEF PosixInv, QueueSend
<1>1. /\ mHead' = increment(mHead) /\ mHead' \in Ring
      /\ mBuffer' = [mBuffer EXCEPT ![mHead'] = v]
      /\ mItemsInBuffer' = m + 1 /\ mTail' = mTail /\ wait' = wait /\ data' = data
  BY <1>0, IncrementInRing DEF QueueSend
<1>2. /\ rx' \in [Receiver -> {"idle", "waiting", "woken", "expired"}]
      /\ \/ In("waiting") = {} /\ rx' = rx
         \/ \E r \in In("waiting") : rx' = [rx EXCEPT ![r] = "woken"]
  BY <1>0 DEF QueueSend, Signal, In
<1>3. QueueTypeOK'
  <2>1. mBuffer' \in [Ring -> Value \cup {mEmpty}] /\ m + 1 \in 0 .. n
    BY <1>0, <1>1
  <2> QED BY <1>1, <1>2, <2>1 DEF PosixInv, QueueTypeOK
<1>4. mHead' = (mTail + (m + 1)) % n
  <2>1. m \in 0 .. n - 1
    BY <1>0
  <2> QED BY <1>0, <1>1, <2>1, RingShift DEF PosixInv, Position
<1>5. Position'
  BY <1>1, <1>4 DEF Position
<1>6. Occupied'
  <2> SUFFICES ASSUME NEW k \in 1 .. m + 1 PROVE mBuffer'[(mTail + k) % n] \in Value
    BY <1>1 DEF Occupied
  <2>1. CASE k = m + 1
    BY <1>0, <1>1, <1>4, <2>1
  <2>2. CASE k # m + 1
    <3>1. k \in 1 .. m /\ k \in 1 .. n /\ m + 1 \in 1 .. n /\ k - 1 \in 0 .. n - 1 /\ k = (k - 1) + 1
      BY <1>0, <2>2
    <3>2. (mTail + k) % n # mHead'
      BY <1>0, <1>4, <2>2, <3>1, RingDistinct
    <3>3. (mTail + k) % n \in Ring
      <4> DEFINE j == k - 1
      <4>1. j \in 0 .. n - 1 /\ k = j + 1
        BY <3>1
      <4> HIDE DEF j
      <4> QED BY <1>0, <4>1, RingShift
    <3>4. mBuffer'[(mTail + k) % n] = mBuffer[(mTail + k) % n]
      BY <1>0, <1>1, <3>2, <3>3
    <3> QED BY <3>1, <3>4 DEF PosixInv, Occupied
  <2> QED BY <2>1, <2>2
<1>7. NoLostWakeup'
  <2>1. CASE In("waiting") = {} /\ rx' = rx
    BY <2>1 DEF NoLostWakeup, In
  <2>2. ASSUME NEW r \in In("waiting"), rx' = [rx EXCEPT ![r] = "woken"]
        PROVE  NoLostWakeup'
    <3>1. In("woken")' = In("woken") \cup {r} /\ r \notin In("woken")
      BY <1>0, <2>2 DEF In
    <3>2. Cardinality(In("woken") \cup {r}) = Cardinality(In("woken")) + 1
      BY <1>0, <3>1, FS_AddElement
    <3>3. m <= Cardinality(In("woken"))
      BY <2>2 DEF PosixInv, NoLostWakeup
    <3>4. m + 1 <= Cardinality(In("woken")')
      BY <1>0, <3>1, <3>2, <3>3
    <3> QED BY <1>1, <3>4 DEF NoLostWakeup
  <2> QED BY <1>2, <2>1, <2>2
<1>8. WaitBudget'
  BY <1>1 DEF PosixInv, WaitBudget
<1> QED BY <1>3, <1>5, <1>6, <1>7, <1>8 DEF PosixInv

(* A wait that is set for one receiver fits when the new entry does. *)
LEMMA WaitSet ==
    ASSUME PosixInv, NEW r \in Receiver, NEW w \in Waiting, WaitFits(w),
           wait' = [wait EXCEPT ![r] = w]
    PROVE  wait' \in [Receiver -> Waiting] /\ WaitBudget'
<1>1. wait \in [Receiver -> Waiting]
  BY PosixTypes DEF PosixInv
<1>2. wait' \in [Receiver -> Waiting]
  BY <1>1
<1>3. ASSUME NEW s \in Receiver PROVE WaitFits(wait'[s])
  BY <1>1 DEF PosixInv, WaitBudget, WaitFits
<1> QED BY <1>2, <1>3 DEF WaitBudget, WaitFits

LEMMA TakeItemKeeps ==
    ASSUME PosixInv, NEW r \in Receiver, rx[r] \in {"idle", "woken"}, TakeItem(r)
    PROVE  PosixInv'
<1> DEFINE n == mMaximumSize
           m == mItemsInBuffer
<1>0. /\ n \in Nat /\ n >= 1 /\ m \in Nat /\ m <= n /\ m >= 1 /\ mHead \in Ring /\ mTail \in Ring
      /\ mBuffer \in [Ring -> Value \cup {mEmpty}]
      /\ rx \in [Receiver -> {"idle", "waiting", "woken", "expired"}]
      /\ data \in [Receiver -> Value \cup {mEmpty}]
      /\ IsFiniteSet(In("woken")) /\ Cardinality(In("woken")) \in Nat
  BY PosixTypes DEF PosixInv, TakeItem
<1>1. /\ mTail' = increment(mTail) /\ mTail' \in Ring
      /\ data' = [data EXCEPT ![r] = mBuffer[mTail']]
      /\ mItemsInBuffer' = m - 1
      /\ rx' = [rx EXCEPT ![r] = "idle"] /\ wait' = [wait EXCEPT ![r] = NoWait]
      /\ mBuffer' = mBuffer /\ mHead' = mHead
  BY <1>0, IncrementInRing DEF TakeItem
<1>2. wait' \in [Receiver -> Waiting] /\ WaitBudget'
  <2>1. NoWait \in Waiting /\ WaitFits(NoWait)
    BY PosixQueueAssumption DEF NoWait, Waiting, WaitFits
  <2> QED BY <1>1, <2>1, WaitSet
<1>3. QueueTypeOK'
  <2>1. m - 1 \in 0 .. n /\ data' \in [Receiver -> Value \cup {mEmpty}]
        /\ rx' \in [Receiver -> {"idle", "waiting", "woken", "expired"}]
    BY <1>0, <1>1
  <2> QED BY <1>0, <1>1, <1>2, <2>1 DEF QueueTypeOK, Waiting
<1>4. Position'
  <2> DEFINE k == m - 1
  <2>1. k \in 0 .. n - 1 /\ m = k + 1
    BY <1>0
  <2>2. mItemsInBuffer' = k
    BY <1>1
  <2> HIDE DEF k
  <2>3. (increment(mTail) + k) % n = (mTail + m) % n
    BY <1>0, <2>1, RingShift
  <2> QED BY <1>1, <2>2, <2>3 DEF PosixInv, Position
<1>5. Occupied'
  <2> SUFFICES ASSUME NEW k \in 1 .. m - 1 PROVE mBuffer[(increment(mTail) + k) % n] \in Value
    BY <1>1 DEF Occupied
  <2>1. k \in 0 .. n - 1 /\ k + 1 \in 1 .. m
    BY <1>0
  <2>2. (increment(mTail) + k) % n = (mTail + (k + 1)) % n
    BY <1>0, <2>1, RingShift
  <2> QED BY <2>1, <2>2 DEF PosixInv, Occupied
<1>6. NoLostWakeup'
  <2>1. In("waiting")' = In("waiting")
    BY <1>0, <1>1 DEF In
  <2> SUFFICES ASSUME In("waiting") # {} PROVE m - 1 <= Cardinality(In("woken")')
    BY <1>1, <2>1 DEF NoLostWakeup
  <2>2. m <= Cardinality(In("woken"))
    BY DEF PosixInv, NoLostWakeup
  <2>3. CASE rx[r] = "idle"
    <3>1. In("woken")' = In("woken")
      BY <1>0, <1>1, <2>3 DEF In
    <3> QED BY <1>0, <2>2, <3>1
  <2>4. CASE rx[r] = "woken"
    <3>1. In("woken")' = In("woken") \ {r} /\ r \in In("woken")
      BY <1>0, <1>1, <2>4 DEF In
    <3>2. Cardinality(In("woken") \ {r}) = Cardinality(In("woken")) - 1
      BY <1>0, <3>1, FS_RemoveElement
    <3> QED BY <1>0, <2>2, <3>1, <3>2
  <2> QED BY <2>3, <2>4
<1> QED BY <1>2, <1>3, <1>4, <1>5, <1>6 DEF PosixInv

LEMMA AwaitItemKeeps ==
    ASSUME PosixInv, NEW r \in Receiver, NEW limit \in Timeout \cup {Forever},
           NEW waited \in Nat, NEW wakeups \in 0 .. MaxWakeups,
           limit # Forever => waited + limit <= limit * (1 + wakeups),
           AwaitItem(r, limit, waited, wakeups)
    PROVE  PosixInv'
<1> DEFINE w == [timeout |-> limit, left |-> EndOfWait(limit),
                 waited |-> waited, wakeups |-> wakeups]
<1>0. /\ mItemsInBuffer = 0 /\ rx' = [rx EXCEPT ![r] = "waiting"]
      /\ wait' = [wait EXCEPT ![r] = w]
      /\ UNCHANGED <<mBuffer, mItemsInBuffer, mHead, mTail, data>>
  BY DEF AwaitItem
<1>1. w \in Waiting /\ WaitFits(w)
  BY PosixQueueAssumption DEF Waiting, WaitFits, EndOfWait
<1> HIDE DEF w
<1>2. wait' \in [Receiver -> Waiting] /\ WaitBudget'
  BY <1>0, <1>1, WaitSet
<1>3. rx' \in [Receiver -> {"idle", "waiting", "woken", "expired"}]
  BY <1>0 DEF PosixInv, QueueTypeOK
<1>4. QueueTypeOK'
  BY <1>0, <1>2, <1>3 DEF PosixInv, QueueTypeOK, Waiting
<1>5. Position' /\ Occupied'
  BY <1>0 DEF PosixInv, Position, Occupied
<1>6. NoLostWakeup'
  <2>1. Cardinality(In("woken"))' \in Nat
    <3>1. In("woken")' \subseteq Receiver
      BY DEF In
    <3> QED BY <3>1, PosixQueueAssumption, FS_Subset, FS_CardinalityType
  <2> QED BY <1>0, <2>1 DEF NoLostWakeup
<1> QED BY <1>2, <1>4, <1>5, <1>6 DEF PosixInv

LEMMA QueueReceiveKeeps ==
    ASSUME PosixInv, NEW r \in Receiver, NEW limit \in Timeout \cup {Forever},
           QueueReceive(r, limit)
    PROVE  PosixInv'
<1>1. CASE TakeItem(r)
  BY <1>1, TakeItemKeeps DEF QueueReceive
<1>2. CASE AwaitItem(r, limit, 0, 0)
  <2>1. limit # Forever => 0 + limit <= limit * (1 + 0)
    BY PosixQueueAssumption
  <2>2. 0 \in Nat /\ 0 \in 0 .. MaxWakeups
    BY PosixQueueAssumption
  <2> QED BY <1>2, <2>1, <2>2, AwaitItemKeeps
<1> QED BY <1>1, <1>2 DEF QueueReceive

LEMMA QueueResumeKeeps ==
    ASSUME PosixInv, NEW r \in Receiver, QueueResume(r) PROVE PosixInv'
<1>1. CASE TakeItem(r)
  BY <1>1, TakeItemKeeps DEF QueueResume
<1>2. CASE /\ wait[r].wakeups < MaxWakeups
           /\ AwaitItem(r, wait[r].timeout, wait[r].waited, wait[r].wakeups + 1)
  <2> DEFINE t == wait[r].timeout
             d == wait[r].waited
             u == wait[r].wakeups
  <2>1. wait[r] \in Waiting /\ WaitFits(wait[r])
    BY PosixTypes DEF PosixInv, WaitBudget, WaitFits
  <2>2. /\ t \in Timeout \cup {Forever} /\ d \in Nat /\ u \in Nat /\ u + 1 \in 0 .. MaxWakeups
        /\ t # Forever => wait[r].left \in Nat /\ d + wait[r].left <= t * (1 + u)
    BY <1>2, <2>1, PosixQueueAssumption DEF Waiting, WaitFits
  <2>3. AwaitItem(r, t, d, u + 1)
    BY <1>2
  <2>4. t # Forever => d + t <= t * (1 + (u + 1))
    <3> SUFFICES ASSUME t # Forever PROVE d + t <= t * (1 + (u + 1))
      OBVIOUS
    <3> DEFINE l == wait[r].left
               p == t * (1 + u)
    <3>0. t \in Nat /\ u \in Nat /\ d \in Nat /\ l \in Nat /\ d + l <= p
      BY <2>2, PosixQueueAssumption
    <3>1. t \in Nat /\ u \in Nat /\ d \in Nat /\ l \in Nat /\ d + l <= p /\ p \in Nat
      BY <3>0, NextRound
    <3>2. t * (1 + (u + 1)) = p + t
      BY <3>1, NextRound
    <3> HIDE DEF t, d, u, l, p
    <3>3. d + t <= p + t
      BY <3>1
    <3> QED BY <3>2, <3>3
  <2> HIDE DEF t, d, u
  <2>5. u + 1 \in 0 .. MaxWakeups /\ d \in Nat /\ t \in Timeout \cup {Forever}
    BY <2>2
  <2> QED BY <2>3, <2>4, <2>5, AwaitItemKeeps
<1> QED BY <1>1, <1>2 DEF QueueResume

(* The steps that only move a receiver on. *)
LEMMA QueueExpireKeeps ==
    ASSUME PosixInv, NEW r \in Receiver, QueueExpire(r) PROVE PosixInv'
<1>1. QueueTypeOK'
  BY DEF QueueExpire, PosixInv, QueueTypeOK
<1>2. Position' /\ Occupied' /\ WaitBudget'
  BY DEF QueueExpire, PosixInv, Position, Occupied, WaitBudget
<1>3. In("woken")' = In("woken") /\ (In("waiting")' # {} => In("waiting") # {})
  BY DEF QueueExpire, PosixInv, QueueTypeOK, In
<1>4. NoLostWakeup'
  BY <1>3 DEF QueueExpire, PosixInv, NoLostWakeup
<1> QED BY <1>1, <1>2, <1>4 DEF PosixInv

LEMMA QueueTimeoutKeeps ==
    ASSUME PosixInv, NEW r \in Receiver, QueueTimeout(r) PROVE PosixInv'
<1>0. NoWait \in Waiting /\ WaitFits(NoWait)
  BY PosixQueueAssumption DEF NoWait, Waiting, WaitFits
<1>1. wait' \in [Receiver -> Waiting] /\ WaitBudget'
  BY <1>0, WaitSet DEF QueueTimeout
<1>2. QueueTypeOK'
  BY <1>1 DEF QueueTimeout, PosixInv, QueueTypeOK, Waiting
<1>3. Position' /\ Occupied'
  BY DEF QueueTimeout, PosixInv, Position, Occupied
<1>4. In("woken")' = In("woken") /\ In("waiting")' = In("waiting")
  BY DEF QueueTimeout, PosixInv, QueueTypeOK, In
<1>5. NoLostWakeup'
  BY <1>4 DEF QueueTimeout, PosixInv, NoLostWakeup
<1> QED BY <1>1, <1>2, <1>3, <1>5 DEF PosixInv

LEMMA SpuriousWakeupKeeps ==
    ASSUME PosixInv, NEW r \in Receiver, SpuriousWakeup(r) PROVE PosixInv'
<1>1. QueueTypeOK'
  BY DEF SpuriousWakeup, PosixInv, QueueTypeOK
<1>2. Position' /\ Occupied' /\ WaitBudget'
  BY DEF SpuriousWakeup, PosixInv, Position, Occupied, WaitBudget
<1>3. /\ In("woken")' = In("woken") \cup {r} /\ r \notin In("woken")
      /\ In("waiting") # {} /\ mItemsInBuffer' = mItemsInBuffer
  BY DEF SpuriousWakeup, PosixInv, QueueTypeOK, In
<1>4. /\ mItemsInBuffer \in Nat /\ IsFiniteSet(In("woken")) /\ Cardinality(In("woken")) \in Nat
  BY PosixTypes DEF PosixInv
<1>5. Cardinality(In("woken") \cup {r}) = Cardinality(In("woken")) + 1
  BY <1>3, <1>4, FS_AddElement
<1>6. mItemsInBuffer <= Cardinality(In("woken"))
  BY <1>3 DEF PosixInv, NoLostWakeup
<1>7. mItemsInBuffer <= Cardinality(In("woken")')
  BY <1>3, <1>4, <1>5, <1>6
<1>8. NoLostWakeup'
  BY <1>3, <1>7 DEF NoLostWakeup
<1> QED BY <1>1, <1>2, <1>8 DEF PosixInv

(* A tick moves one unit of every running wait from left to waited. *)
LEMMA QueueTickKeeps == ASSUME PosixInv, QueueTick PROVE PosixInv'
<1>0. wait \in [Receiver -> Waiting] /\ UNCHANGED <<mBuffer, mItemsInBuffer, mHead, mTail, rx, data>>
  BY PosixTypes DEF PosixInv, QueueTick
<1>1. ASSUME NEW r \in Receiver PROVE wait'[r] \in Waiting /\ WaitFits(wait'[r])
  <2>0. wait[r] \in Waiting /\ WaitFits(wait[r])
    BY <1>0 DEF PosixInv, WaitBudget, WaitFits
  <2>1. CASE r \in Timed
    <3>1. wait'[r] = [wait[r] EXCEPT !.left = @ - 1, !.waited = @ + 1]
      BY <2>1 DEF QueueTick
    <3>2. wait[r].left > 0 /\ wait[r].left # Forever
      BY <2>1 DEF QueueTick, Timed
    <3> QED BY <2>0, <3>1, <3>2, WaitTick
  <2>2. CASE r \notin Timed
    BY <2>0, <2>2 DEF QueueTick
  <2> QED BY <2>1, <2>2
<1>2. wait' \in [Receiver -> Waiting]
  <2>1. wait' = [r \in Receiver |-> wait'[r]]
    BY DEF QueueTick
  <2> QED BY <1>1, <2>1
<1>3. QueueTypeOK'
  BY <1>0, <1>2 DEF PosixInv, QueueTypeOK, Waiting
<1>4. Position' /\ Occupied' /\ NoLostWakeup'
  BY <1>0 DEF PosixInv, Position, Occupied, NoLostWakeup, In
<1>5. WaitBudget'
  BY <1>1 DEF WaitBudget, WaitFits
<1> QED BY <1>3, <1>4, <1>5 DEF PosixInv

(* PosixInv is an invariant of the queue. *)
THEOREM PosixInductive == QueueSpec => []PosixInv
<1>1. PosixInv /\ [QueueNext]_queueVars => PosixInv'
  <2> SUFFICES ASSUME PosixInv, [QueueNext]_queueVars PROVE PosixInv'
    OBVIOUS
  <2>1. ASSUME NEW v \in Value, QueueSend(v) PROVE PosixInv'
    BY <2>1, QueueSendKeeps
  <2>2. ASSUME NEW r \in Receiver, NEW limit \in Timeout \cup {Forever}, QueueReceive(r, limit)
        PROVE  PosixInv'
    BY <2>2, QueueReceiveKeeps
  <2>3. ASSUME NEW r \in Receiver,
               QueueResume(r) \/ QueueExpire(r) \/ QueueTimeout(r) \/ SpuriousWakeup(r)
        PROVE  PosixInv'
    BY <2>3, QueueResumeKeeps, QueueExpireKeeps, QueueTimeoutKeeps, SpuriousWakeupKeeps
  <2>4. CASE QueueTick
    BY <2>4, QueueTickKeeps
  <2>5. CASE UNCHANGED queueVars
    BY <2>5 DEF queueVars, PosixInv, QueueTypeOK, Position, Occupied, NoLostWakeup, In, WaitBudget
  <2> QED BY <2>1, <2>2, <2>3, <2>4, <2>5 DEF QueueNext
<1> QED BY <1>1, PosixInitInv, PTL DEF QueueSpec

(* send() and receive() of the POSIX queue keep the ring buffer well       *)
(* formed, and no receiver sleeps while an item nobody is on the way to is *)
(* in the buffer, for any number of receivers and any capacity.            *)
THEOREM QueueIsSound == QueueSpec => []QueueSound
  BY PosixInductive, PTL DEF PosixInv, QueueSound

(* receive() waits at most its timeout for every time it was woken for     *)
(* nothing, plus once.                                                     *)
THEOREM WaitsAreBounded == QueueSpec => []WaitBounded
<1>1. PosixInv => WaitBounded
  <2> SUFFICES ASSUME PosixInv, NEW r \in Receiver, wait[r].timeout # Forever
               PROVE  wait[r].waited <= wait[r].timeout * (1 + wait[r].wakeups)
    BY DEF WaitBounded
  <2> DEFINE a == wait[r].waited
             b == wait[r].left
             p == wait[r].timeout * (1 + wait[r].wakeups)
  <2>0. wait[r] \in Waiting
    BY PosixTypes DEF PosixInv
  <2>1. a \in Nat /\ b \in Nat /\ a + b <= p
    BY <2>0 DEF PosixInv, WaitBudget, Waiting
  <2>2. p \in Nat
    BY <2>0, WaitingTypes
  <2> HIDE DEF a, b, p
  <2>3. a <= p
    BY <2>1, <2>2
  <2> QED BY <2>3 DEF a, p
<1> QED BY <1>1, PosixInductive, PTL
-----------------------------------------------------------------------------
(* The items of the buffer, as BoundedFifo sees them. *)
Buffered == [k \in 1 .. mItemsInBuffer |-> mBuffer[(mTail + k) % mMaximumSize]]

LEMMA BufferedType ==
    ASSUME PosixInv
    PROVE  /\ Buffered \in Seq(Value) /\ Len(Buffered) = mItemsInBuffer
           /\ \A k \in 1 .. mItemsInBuffer : Buffered[k] = mBuffer[(mTail + k) % mMaximumSize]
<1>1. mItemsInBuffer \in Nat
  BY PosixTypes DEF PosixInv
<1>2. \A k \in 1 .. mItemsInBuffer : mBuffer[(mTail + k) % mMaximumSize] \in Value
  BY DEF PosixInv, Occupied
<1> QED BY <1>1, <1>2 DEF Buffered

LEMMA SendPuts ==
    ASSUME PosixInv, PosixInv', NEW v \in Value, QueueSend(v)
    PROVE  Len(Buffered) < mMaximumSize /\ Buffered' = Append(Buffered, v) /\ data' = data
<1> DEFINE n == mMaximumSize
           m == mItemsInBuffer
<1>0. /\ n \in Nat /\ n >= 1 /\ m \in Nat /\ m < n /\ mHead \in Ring /\ mTail \in Ring
      /\ mBuffer \in [Ring -> Value \cup {mEmpty}]
  BY PosixTypes DEF PosixInv, QueueSend
<1>1. /\ mHead' = increment(mHead) /\ mHead' \in Ring
      /\ mBuffer' = [mBuffer EXCEPT ![mHead'] = v]
      /\ mItemsInBuffer' = m + 1 /\ mTail' = mTail /\ data' = data
  BY <1>0, IncrementInRing DEF QueueSend
<1>2. mHead' = (mTail + (m + 1)) % n
  BY <1>1 DEF PosixInv, Position
<1>3. /\ Buffered \in Seq(Value) /\ Len(Buffered) = m
      /\ \A k \in 1 .. m : Buffered[k] = mBuffer[(mTail + k) % n]
  BY BufferedType
<1>4. /\ Buffered' \in Seq(Value) /\ Len(Buffered') = m + 1
      /\ \A k \in 1 .. m + 1 : Buffered'[k] = mBuffer'[(mTail + k) % n]
  <2>1. /\ Buffered' \in Seq(Value) /\ Len(Buffered') = mItemsInBuffer'
        /\ \A k \in 1 .. mItemsInBuffer' : Buffered'[k] = mBuffer'[(mTail' + k) % n]
    <3>1. mItemsInBuffer' \in Nat
      BY <1>0, <1>1
    <3>2. \A k \in 1 .. mItemsInBuffer' : mBuffer'[(mTail' + k) % n] \in Value
      BY DEF PosixInv, Occupied
    <3> QED BY <3>1, <3>2 DEF Buffered
  <2> QED BY <1>1, <2>1
<1>5. Buffered'[m + 1] = v
  <2>1. m + 1 \in 1 .. m + 1
    BY <1>0
  <2> QED BY <1>0, <1>1, <1>2, <1>4, <2>1
<1>6. ASSUME NEW k \in 1 .. m PROVE Buffered'[k] = Buffered[k]
  <2> DEFINE j == k - 1
  <2>1. /\ k \in 1 .. m + 1 /\ k \in 1 .. n /\ m + 1 \in 1 .. n /\ k # m + 1
        /\ j \in 0 .. n - 1 /\ k = j + 1
    BY <1>0
  <2> HIDE DEF j
  <2>2. (mTail + k) % n # mHead'
    BY <1>0, <1>2, <2>1, RingDistinct
  <2>3. (mTail + k) % n \in Ring
    BY <1>0, <2>1, RingShift
  <2>4. mBuffer'[(mTail + k) % n] = mBuffer[(mTail + k) % n]
    BY <1>0, <1>1, <2>2, <2>3
  <2> QED BY <1>3, <1>4, <2>1, <2>4
<1>7. /\ Append(Buffered, v) \in Seq(Value) /\ Len(Append(Buffered, v)) = m + 1
      /\ Append(Buffered, v)[m + 1] = v
      /\ \A k \in 1 .. m : Append(Buffered, v)[k] = Buffered[k]
  BY <1>3
<1>8. Buffered' = Append(Buffered, v)
  <2> HIDE DEF m
  <2>1. ASSUME NEW k \in 1 .. m + 1 PROVE Buffered'[k] = Append(Buffered, v)[k]
    <3>1. k = m + 1 \/ k \in 1 .. m
      BY <1>0
    <3> QED BY <1>5, <1>6, <1>7, <3>1
  <2> QED BY <1>0, <1>4, <1>7, <2>1
<1> QED BY <1>0, <1>1, <1>3, <1>8

LEMMA TakeReceives ==
    ASSUME PosixInv, PosixInv', NEW r \in Receiver, TakeItem(r)
    PROVE  /\ Buffered # << >> /\ data' = [data EXCEPT ![r] = Head(Buffered)]
           /\ Buffered' = Tail(Buffered)
<1> DEFINE n == mMaximumSize
           m == mItemsInBuffer
<1>0. /\ n \in Nat /\ n >= 1 /\ m \in Nat /\ m <= n /\ m >= 1 /\ mTail \in Ring
  BY PosixTypes DEF PosixInv, TakeItem
<1>1. /\ mTail' = increment(mTail) /\ mTail' = (mTail + 1) % n
      /\ data' = [data EXCEPT ![r] = mBuffer[mTail']]
      /\ mItemsInBuffer' = m - 1 /\ mBuffer' = mBuffer
  BY <1>0, IncrementInRing DEF TakeItem
<1>2. /\ Buffered \in Seq(Value) /\ Len(Buffered) = m
      /\ \A k \in 1 .. m : Buffered[k] = mBuffer[(mTail + k) % n]
  BY BufferedType
<1>3. Buffered # << >> /\ Head(Buffered) = mBuffer[(mTail + 1) % n]
  <2>1. 1 \in 1 .. m
    BY <1>0
  <2> QED BY <1>0, <1>2, <2>1
<1>4. /\ Buffered' \in Seq(Value) /\ Len(Buffered') = m - 1
      /\ \A k \in 1 .. m - 1 : Buffered'[k] = mBuffer[(increment(mTail) + k) % n]
  <2>1. /\ Buffered' \in Seq(Value) /\ Len(Buffered') = mItemsInBuffer'
        /\ \A k \in 1 .. mItemsInBuffer' : Buffered'[k] = mBuffer'[(mTail' + k) % n]
    <3>1. mItemsInBuffer' \in Nat
      BY <1>0, <1>1
    <3>2. \A k \in 1 .. mItemsInBuffer' : mBuffer'[(mTail' + k) % n] \in Value
      BY DEF PosixInv, Occupied
    <3> QED BY <3>1, <3>2 DEF Buffered
  <2> QED BY <1>1, <2>1
<1>5. ASSUME NEW k \in 1 .. m - 1 PROVE Buffered'[k] = Buffered[k + 1]
  <2>1. k \in 0 .. n - 1 /\ k + 1 \in 1 .. m
    BY <1>0
  <2>2. (increment(mTail) + k) % n = (mTail + (k + 1)) % n
    BY <1>0, <2>1, RingShift
  <2> QED BY <1>2, <1>4, <2>1, <2>2
<1>6. /\ Tail(Buffered) \in Seq(Value) /\ Len(Tail(Buffered)) = m - 1
      /\ \A k \in 1 .. m - 1 : Tail(Buffered)[k] = Buffered[k + 1]
  BY <1>2, <1>3
<1>7. Buffered' = Tail(Buffered)
  BY <1>4, <1>5, <1>6
<1> QED BY <1>1, <1>3, <1>7

(* The POSIX queue is a bounded FIFO queue: every item that send() accepts *)
(* goes to one receiver, in the order of the sends, for any capacity and   *)
(* any number of receivers.                                                *)
THEOREM PosixQueueRefinesFifo == QueueSpec => PosixFifoSpec
<1> DEFINE nothing == [r \in Receiver |-> mEmpty]
<1>1. QueueInit => PosixFifo!Init
  BY DEF QueueInit, PosixFifo!Init
<1>2. PosixInv /\ PosixInv' /\ [QueueNext]_queueVars => [PosixFifo!Next]_(PosixFifo!vars)
  <2> SUFFICES ASSUME PosixInv, PosixInv', [QueueNext]_queueVars
               PROVE  [PosixFifo!Next]_(PosixFifo!vars)
    OBVIOUS
  <2>0. nothing' = nothing /\ \A r \in Receiver : nothing[r] = mEmpty
    OBVIOUS
  <2>1. ASSUME NEW v \in Value, QueueSend(v) PROVE [PosixFifo!Next]_(PosixFifo!vars)
    <3>1. PosixFifo!Put(v)
      BY <2>0, <2>1, SendPuts DEF PosixFifo!Put, Buffered
    <3> QED BY <3>1 DEF PosixFifo!Next
  <2>2. ASSUME NEW r \in Receiver, TakeItem(r) PROVE [PosixFifo!Next]_(PosixFifo!vars)
    <3>1. PosixFifo!Receive(r)
      BY <2>0, <2>2, TakeReceives DEF PosixFifo!Receive, Buffered
    <3> QED BY <3>1 DEF PosixFifo!Next
  <2>3. ASSUME UNCHANGED <<mBuffer, mItemsInBuffer, mHead, mTail, data>>
        PROVE  [PosixFifo!Next]_(PosixFifo!vars)
    BY <2>3 DEF PosixFifo!vars
  <2>4. \/ \E v \in Value : QueueSend(v)
        \/ \E r \in Receiver : TakeItem(r)
        \/ UNCHANGED <<mBuffer, mItemsInBuffer, mHead, mTail, data>>
    BY DEF QueueNext, QueueReceive, QueueResume, QueueExpire, QueueTimeout, SpuriousWakeup,
           QueueTick, AwaitItem, queueVars
  <2> QED BY <2>1, <2>2, <2>3, <2>4
<1> QED BY <1>1, <1>2, PosixInductive, PTL DEF QueueSpec, PosixFifoSpec, PosixFifo!Spec
-----------------------------------------------------------------------------
(* The heartbeat limiter *)

(* What the proof needs beyond the two: the limiter and the watchdog agree *)
(* on the time of expiry, and the last announcement fits in.               *)
HeartbeatInv ==
    /\ clock \in Nat /\ mTimeout \in Nat /\ expected \in Nat \cup {-1}
    /\ report \in [at : Nat, processingTimeout : Nat]
    /\ report.at <= clock
    /\ expected = -1 => mTimeout = 0
    /\ expected # -1 =>
         /\ expected = mTimeout
         /\ report.at + report.processingTimeout + heartbeatTolerance <= expected
         /\ clock <= report.at + report.processingTimeout + heartbeatTolerance
         /\ HangDetected

LEMMA HeartbeatInitInv == HeartbeatInit => HeartbeatInv
  BY HeartbeatAssumption DEF HeartbeatInit, HeartbeatInv, NoReport

(* Time passes only within the promise, which the watchdog allows for. *)
LEMMA TickKeepsInv == HeartbeatInv /\ heartbeatTick => HeartbeatInv'
  BY HeartbeatAssumption DEF HeartbeatInv, heartbeatTick, HangDetected

(* A report that becomes a heartbeat sets both deadlines; one that is held *)
(* back fits between the two bounds of Due().                              *)
LEMMA SendKeepsInv ==
    ASSUME NEW p \in ProcessingTimeout, HeartbeatInv, send(p)
    PROVE  HeartbeatInv'
  <1>1. p \in Nat
    BY HeartbeatAssumption
  <1>2. /\ report' \in [at : Nat, processingTimeout : Nat]
        /\ report'.at = clock /\ report'.processingTimeout = p
        /\ clock' = clock
    BY <1>1 DEF HeartbeatInv, send
  <1>3. CASE Due(p)
    <2>1. expected' = clock + (mHeartbeatInterval + p + heartbeatTolerance)
          /\ mTimeout' = expected'
      BY <1>3 DEF send
    <2>2. QED BY <1>1, <1>2, <2>1, HeartbeatAssumption DEF HeartbeatInv, HangDetected
  <1>4. CASE ~ Due(p)
    <2>1. expected' = expected /\ mTimeout' = mTimeout
      BY <1>4 DEF send
    <2>2. /\ ~ (mTimeout <= clock + p + heartbeatTolerance)
          /\ ~ (mTimeout > clock + mHeartbeatInterval + p + heartbeatTolerance)
      BY <1>4 DEF Due
    <2>3. QED BY <1>1, <1>2, <2>1, <2>2, HeartbeatAssumption DEF HeartbeatInv, HangDetected
  <1>5. QED BY <1>3, <1>4

(* HeartbeatInv is an invariant of the limiter. *)
THEOREM HeartbeatInductive == HeartbeatSpec => []HeartbeatInv
  <1>1. HeartbeatInv /\ [HeartbeatNext]_heartbeatVars => HeartbeatInv'
    <2> SUFFICES ASSUME HeartbeatInv, [HeartbeatNext]_heartbeatVars PROVE HeartbeatInv'
      OBVIOUS
    <2>1. CASE heartbeatTick
      BY <2>1, TickKeepsInv
    <2>2. CASE \E p \in ProcessingTimeout : send(p)
      BY <2>2, SendKeepsInv
    <2>3. CASE UNCHANGED heartbeatVars
      BY <2>3 DEF HeartbeatInv, HangDetected, heartbeatVars
    <2>4. QED BY <2>1, <2>2, <2>3 DEF HeartbeatNext
  <1>2. QED BY <1>1, HeartbeatInitInv, PTL DEF HeartbeatSpec

(* HeartbeatLimiter::send() causes no false alarm and hides no hang.       *)
THEOREM WatchdogIsExact == HeartbeatSpec => []WatchdogExact
  <1>1. HeartbeatInv => WatchdogExact
    BY HeartbeatAssumption DEF HeartbeatInv, WatchdogExact, NoFalseAlarm, HangDetected
  <1>2. QED BY <1>1, HeartbeatInductive, PTL
-----------------------------------------------------------------------------
(* A parameter under its writers and its readers *)

WriterState == [at : {"idle", "time", "data", "switch", "clear"}, element : 0 .. 1, value : Nat]
ReaderState ==
    [at : {"idle", "copy", "success", "tooManyConcurrentWrites"}, before : BOOLEAN,
     tmp : [Half -> Nat], copied : SUBSET Half, Try : Nat, current : Nat, overlaps : Nat]

ParameterTypeOK ==
    /\ mMultipleWriters \in BOOLEAN /\ mWriteInProgress \in BOOLEAN
    /\ mElements \in [0 .. 1 -> [Half -> Nat]]
    /\ mCurrentElementIsFirst \in BOOLEAN
    /\ writer \in [ParWriter -> WriterState]
    /\ reader \in [ParReader -> ReaderState]
    /\ writes \in Nat

(* There is one writer at a time, and where there may be several, it has   *)
(* set mWriteInProgress.                                                   *)
Busy(w) == writer[w].at # "idle"
OneWriter ==
    /\ \A w, x \in ParWriter : Busy(w) /\ Busy(x) => w = x
    /\ \A w \in ParWriter : mMultipleWriters /\ Busy(w) => mWriteInProgress

(* The writer works on the other element, and what it has stored is there. *)
WriterProgress ==
    \A w \in ParWriter :
        LET e == writer[w].element IN
        /\ w \in Writing => e = 1 - Current
        /\ writer[w].at \in {"data", "switch"} => mElements[e]["changeTime"] = writer[w].value
        /\ writer[w].at = "switch" => mElements[e]["data"] = writer[w].value
CurrentWhole == mElements[Current]["data"] = mElements[Current]["changeTime"]

(* While fewer than two writes overlap a try, the element it copies does   *)
(* not change: the one write, if any, works on the other element.          *)
TryUndisturbed(r) ==
    reader[r].at = "copy" /\ reader[r].overlaps < 2 =>
        /\ mElements[Source(r)] = Both(reader[r].current)
        /\ \A h \in reader[r].copied : reader[r].tmp[h] = reader[r].current
        /\ Writing # {} => reader[r].overlaps = 1 /\ Current = Source(r)
        /\ reader[r].overlaps = 0 => Current = Source(r)
ReadDone(r) ==
    reader[r].at = "success" /\ reader[r].overlaps < 2 => reader[r].tmp = Both(reader[r].current)

WritersInv == OneWriter /\ WriterProgress /\ CurrentWhole
ParameterInv ==
    /\ ParameterTypeOK
    /\ WritersInv
    /\ \A r \in ParReader : TryUndisturbed(r) /\ ReadDone(r)

LEMMA ParameterInitInv == ParameterInit => ParameterInv
  <1> SUFFICES ASSUME ParameterInit PROVE ParameterInv
    OBVIOUS
  <1>1. Both(0) \in [Half -> Nat] /\ Both(0)["data"] = 0 /\ Both(0)["changeTime"] = 0
    BY DEF Both, Half
  <1>2. ParameterTypeOK
    <2>1. Resting \in ReaderState /\ [at |-> "idle", element |-> 0, value |-> 0] \in WriterState
      BY <1>1 DEF Resting, ReaderState, WriterState
    <2>2. writer \in [ParWriter -> WriterState] /\ reader \in [ParReader -> ReaderState]
      BY <2>1 DEF ParameterInit
    <2>3. mElements \in [0 .. 1 -> [Half -> Nat]]
      BY <1>1 DEF ParameterInit
    <2>4. QED BY <2>2, <2>3 DEF ParameterInit, ParameterTypeOK
  <1>3. WritersInv
    BY <1>1 DEF ParameterInit, WritersInv, OneWriter, Busy, WriterProgress, CurrentWhole,
                Writing, Current
  <1>4. \A r \in ParReader : reader[r].at = "idle"
    BY DEF ParameterInit, Resting
  <1>5. QED BY <1>2, <1>3, <1>4 DEF ParameterInv, TryUndisturbed, ReadDone
-----------------------------------------------------------------------------
(* Writers. *)
LEMMA ActivateKeepsInv ==
    ParameterInv /\ activateMultipleWritersSupport => ParameterInv'
  BY DEF ParameterInv, activateMultipleWritersSupport, ParameterTypeOK, WritersInv, OneWriter,
         Busy, WriterProgress, CurrentWhole, Writing, Current, TryUndisturbed, ReadDone, Source

(* A new write finds no other one in progress. *)
LEMMA AllIdle ==
    ASSUME NEW w \in ParWriter, ParameterInv, setValue(w)
    PROVE  \A x \in ParWriter : ~ Busy(x)
  BY DEF ParameterInv, WritersInv, OneWriter, Busy, setValue, MayWrite

LEMMA OverlappedTry ==
    ASSUME NEW try \in ReaderState
    PROVE  /\ Overlapped(try) \in ReaderState
           /\ Overlapped(try).at = try.at /\ Overlapped(try).before = try.before
           /\ Overlapped(try).tmp = try.tmp /\ Overlapped(try).copied = try.copied
           /\ Overlapped(try).current = try.current
           /\ try.overlaps \in Nat
           /\ Overlapped(try).overlaps =
                IF try.at = "copy" THEN try.overlaps + 1 ELSE try.overlaps
  BY DEF Overlapped, ReaderState

LEMMA SetValueKeepsInv ==
    ASSUME NEW w \in ParWriter, ParameterInv, setValue(w) PROVE ParameterInv'
  <1>1. \A x \in ParWriter : ~ Busy(x)
    BY AllIdle
  <1>2. Writing = {} /\ Current \in 0 .. 1 /\ 1 - Current \in 0 .. 1 /\ Current' = Current
    BY <1>1 DEF Writing, Busy, Current, setValue
  <1>3. /\ writer' = [writer EXCEPT ![w] = [at |-> "time", element |-> 1 - Current,
                                            value |-> writes + 1]]
        /\ mElements' = mElements /\ mMultipleWriters' = mMultipleWriters
        /\ mWriteInProgress' = (mWriteInProgress \/ mMultipleWriters)
        /\ writes' = writes + 1
        /\ mCurrentElementIsFirst' = mCurrentElementIsFirst
    BY DEF setValue
  <1>4. reader' = [r \in ParReader |-> Overlapped(reader[r])]
    BY DEF setValue
  <1>5. ParameterTypeOK'
    <2>1. writer' \in [ParWriter -> WriterState] /\ writes' \in Nat
      BY <1>2, <1>3 DEF ParameterInv, ParameterTypeOK, WriterState
    <2>2. reader' \in [ParReader -> ReaderState]
      BY <1>4, OverlappedTry DEF ParameterInv, ParameterTypeOK
    <2>3. QED BY <1>3, <2>1, <2>2 DEF ParameterInv, ParameterTypeOK
  <1>6. /\ writer'[w] = [at |-> "time", element |-> 1 - Current, value |-> writes + 1]
        /\ \A x \in ParWriter : x # w => writer'[x] = writer[x]
    BY <1>3 DEF ParameterInv, ParameterTypeOK
  <1>7. OneWriter'
    BY <1>1, <1>3, <1>6 DEF ParameterInv, ParameterTypeOK, WritersInv, OneWriter, Busy
  <1>8. WriterProgress' /\ CurrentWhole'
    BY <1>1, <1>2, <1>3, <1>6 DEF ParameterInv, WritersInv, WriterProgress, CurrentWhole,
       Writing, Busy
  <1>9. ASSUME NEW r \in ParReader PROVE TryUndisturbed(r)' /\ ReadDone(r)'
    <2>1. /\ reader'[r].at = reader[r].at /\ reader'[r].tmp = reader[r].tmp
          /\ reader'[r].before = reader[r].before /\ reader'[r].copied = reader[r].copied
          /\ reader'[r].current = reader[r].current
          /\ reader'[r].overlaps = IF reader[r].at = "copy" THEN reader[r].overlaps + 1
                                   ELSE reader[r].overlaps
          /\ reader[r].overlaps \in Nat
      BY <1>4, OverlappedTry DEF ParameterInv, ParameterTypeOK
    <2>2. ReadDone(r)'
      BY <2>1 DEF ParameterInv, ReadDone
    <2>3. TryUndisturbed(r)'
      <3> SUFFICES ASSUME reader'[r].at = "copy", reader'[r].overlaps < 2
                   PROVE  /\ mElements'[Source(r)'] = Both(reader'[r].current)
                          /\ \A h \in reader'[r].copied : reader'[r].tmp[h] = reader'[r].current
                          /\ reader'[r].overlaps = 1 /\ Current' = Source(r)'
        BY DEF TryUndisturbed
      <3>1. reader[r].overlaps = 0 /\ reader[r].at = "copy" /\ Source(r)' = Source(r)
        BY <2>1 DEF Source
      <3>2. QED BY <1>2, <1>3, <2>1, <3>1 DEF ParameterInv, TryUndisturbed
    <2>4. QED BY <2>2, <2>3
  <1>10. QED BY <1>5, <1>7, <1>8, <1>9 DEF ParameterInv, WritersInv

(* A store of a writer goes to the other element than the current one,     *)
(* which no undisturbed try copies from.                                   *)
LEMMA StoreKeepsInv ==
    ASSUME NEW w \in ParWriter, ParameterInv, storeTime(w) \/ storeData(w)
    PROVE  ParameterInv'
  <1> DEFINE e == writer[w].element
             v == writer[w].value
             h == IF writer[w].at = "time" THEN "changeTime" ELSE "data"
  <1>1. /\ writer[w].at \in {"time", "data"}
        /\ writer' = [writer EXCEPT ![w].at = IF writer[w].at = "time" THEN "data" ELSE "switch"]
        /\ mElements' = [mElements EXCEPT ![e][h] = v]
        /\ mMultipleWriters' = mMultipleWriters /\ mWriteInProgress' = mWriteInProgress
        /\ mCurrentElementIsFirst' = mCurrentElementIsFirst
        /\ reader' = reader /\ writes' = writes
    BY DEF storeTime, storeData
  <1>2. e \in 0 .. 1 /\ v \in Nat /\ h \in Half /\ Current \in 0 .. 1 /\ e = 1 - Current
        /\ w \in Writing /\ Current' = Current
    BY <1>1 DEF ParameterInv, ParameterTypeOK, WriterState, WritersInv, WriterProgress,
                Writing, Current, Half
  <1>3. mElements' \in [0 .. 1 -> [Half -> Nat]] /\ mElements'[Current] = mElements[Current]
    BY <1>1, <1>2 DEF ParameterInv, ParameterTypeOK
  <1>4. /\ mElements'[e][h] = v
        /\ \A g \in Half : g # h => mElements'[e][g] = mElements[e][g]
    BY <1>1, <1>2 DEF ParameterInv, ParameterTypeOK
  <1>5. writer' \in [ParWriter -> WriterState]
    BY <1>1 DEF ParameterInv, ParameterTypeOK, WriterState
  <1>6. /\ writer'[w].at = IF writer[w].at = "time" THEN "data" ELSE "switch"
        /\ writer'[w].element = e /\ writer'[w].value = v
        /\ \A x \in ParWriter : x # w => writer'[x] = writer[x]
    BY <1>1 DEF ParameterInv, ParameterTypeOK, WriterState
  <1>7. ParameterTypeOK'
    BY <1>1, <1>3, <1>5 DEF ParameterInv, ParameterTypeOK
  <1>8. \A x \in ParWriter : x # w => writer[x].at = "idle"
    BY <1>1 DEF ParameterInv, WritersInv, OneWriter, Busy
  <1>9. OneWriter'
    BY <1>1, <1>6, <1>8 DEF ParameterInv, WritersInv, OneWriter, Busy
  <1>10. WriterProgress' /\ CurrentWhole'
    <2>1. CurrentWhole'
      BY <1>2, <1>3 DEF ParameterInv, WritersInv, CurrentWhole
    <2>2. ASSUME NEW x \in ParWriter, x # w
          PROVE  writer'[x].at = "idle"
      BY <1>6, <1>8, <2>2
    <2>3. writer'[w].at \in {"data", "switch"} => mElements'[e]["changeTime"] = v
      BY <1>1, <1>2, <1>4, <1>6 DEF ParameterInv, WritersInv, WriterProgress, Half
    <2>4. writer'[w].at = "switch" => mElements'[e]["data"] = v
      BY <1>1, <1>4, <1>6
    <2>5. QED BY <1>2, <1>6, <2>1, <2>2, <2>3, <2>4 DEF WriterProgress, Writing
  <1>11. Writing' = Writing
    BY <1>1, <1>2, <1>6, <1>8 DEF Writing
  <1>12. ASSUME NEW r \in ParReader PROVE TryUndisturbed(r)' /\ ReadDone(r)'
    <2>1. ReadDone(r)'
      BY <1>1 DEF ParameterInv, ReadDone
    <2>2. TryUndisturbed(r)'
      BY <1>1, <1>2, <1>3, <1>11 DEF ParameterInv, TryUndisturbed, Source
    <2>3. QED BY <2>1, <2>2
  <1>13. QED BY <1>7, <1>9, <1>10, <1>12 DEF ParameterInv, WritersInv

(* The switch makes the complete element the current one. *)
LEMMA SwitchKeepsInv ==
    ASSUME NEW w \in ParWriter, ParameterInv, switch(w) PROVE ParameterInv'
  <1> DEFINE e == writer[w].element
  <1>1. /\ writer[w].at = "switch"
        /\ writer' = [writer EXCEPT ![w].at = IF mMultipleWriters THEN "clear" ELSE "idle"]
        /\ mElements' = mElements
        /\ mMultipleWriters' = mMultipleWriters /\ mWriteInProgress' = mWriteInProgress
        /\ mCurrentElementIsFirst' = (e = 0)
        /\ reader' = reader /\ writes' = writes
    BY DEF switch
  <1>2. e \in 0 .. 1 /\ w \in Writing /\ e = 1 - Current
    BY <1>1 DEF ParameterInv, ParameterTypeOK, WriterState, WritersInv, WriterProgress, Writing
  <1>3. Current' = e
    <2>1. CASE e = 0
      <3>1. mCurrentElementIsFirst'
        BY <1>1, <2>1, Zenon
      <3>2. QED BY <2>1, <3>1 DEF Current
    <2>2. CASE e # 0
      <3>1. ~ mCurrentElementIsFirst'
        BY <1>1, <2>2, Zenon
      <3>2. QED BY <1>2, <2>2, <3>1 DEF Current
    <2>3. QED BY <2>1, <2>2
  <1>4. /\ writer' \in [ParWriter -> WriterState]
        /\ writer'[w].at \in {"clear", "idle"}
        /\ \A x \in ParWriter : x # w => writer'[x] = writer[x]
    BY <1>1 DEF ParameterInv, ParameterTypeOK, WriterState
  <1>5. \A x \in ParWriter : x # w => writer[x].at = "idle"
    BY <1>1 DEF ParameterInv, WritersInv, OneWriter, Busy
  <1>6. ParameterTypeOK'
    BY <1>1, <1>4 DEF ParameterInv, ParameterTypeOK
  <1>7. OneWriter'
    BY <1>1, <1>4, <1>5 DEF ParameterInv, WritersInv, OneWriter, Busy
  <1>8. Writing' = {} /\ WriterProgress'
    BY <1>4, <1>5 DEF Writing, WriterProgress
  <1>9. CurrentWhole'
    BY <1>1, <1>3 DEF ParameterInv, WritersInv, WriterProgress, CurrentWhole
  <1>10. ASSUME NEW r \in ParReader PROVE TryUndisturbed(r)' /\ ReadDone(r)'
    BY <1>1, <1>2, <1>8 DEF ParameterInv, TryUndisturbed, ReadDone, Source
  <1>11. QED BY <1>6, <1>7, <1>8, <1>9, <1>10 DEF ParameterInv, WritersInv

LEMMA ClearFlagKeepsInv ==
    ASSUME NEW w \in ParWriter, ParameterInv, clearFlag(w) PROVE ParameterInv'
  <1>1. /\ writer[w].at = "clear"
        /\ writer' = [writer EXCEPT ![w].at = "idle"]
        /\ mElements' = mElements /\ mCurrentElementIsFirst' = mCurrentElementIsFirst
        /\ mMultipleWriters' = mMultipleWriters /\ mWriteInProgress' = FALSE
        /\ reader' = reader /\ writes' = writes
    BY DEF clearFlag
  <1>2. /\ writer' \in [ParWriter -> WriterState]
        /\ writer'[w].at = "idle"
        /\ \A x \in ParWriter : x # w => writer'[x] = writer[x]
    BY <1>1 DEF ParameterInv, ParameterTypeOK, WriterState
  <1>3. \A x \in ParWriter : x # w => writer[x].at = "idle"
    BY <1>1 DEF ParameterInv, WritersInv, OneWriter, Busy
  <1>4. ParameterTypeOK'
    BY <1>1, <1>2 DEF ParameterInv, ParameterTypeOK
  <1>5. OneWriter' /\ Writing' = {} /\ Writing = {} /\ WriterProgress'
    BY <1>1, <1>2, <1>3 DEF OneWriter, Busy, Writing, WriterProgress
  <1>6. CurrentWhole'
    BY <1>1 DEF ParameterInv, WritersInv, CurrentWhole, Current
  <1>7. ASSUME NEW r \in ParReader PROVE TryUndisturbed(r)' /\ ReadDone(r)'
    BY <1>1, <1>5 DEF ParameterInv, TryUndisturbed, ReadDone, Source, Current
  <1>8. QED BY <1>4, <1>5, <1>6, <1>7 DEF ParameterInv, WritersInv
-----------------------------------------------------------------------------
(* Readers leave the writers alone, and each other. *)
ReaderOnly == UNCHANGED <<mMultipleWriters, mWriteInProgress, mElements, mCurrentElementIsFirst,
                      writer, writes>>

LEMMA ReaderKeepsInv ==
    ASSUME NEW r \in ParReader, ParameterInv, ReaderOnly,
           NEW try \in ReaderState, reader' = [reader EXCEPT ![r] = try],
           TryUndisturbed(r)', ReadDone(r)'
    PROVE  ParameterInv'
  <1>1. ParameterTypeOK'
    BY DEF ParameterInv, ParameterTypeOK, ReaderOnly
  <1>2. WritersInv'
    BY DEF ParameterInv, WritersInv, ReaderOnly, OneWriter, Busy, WriterProgress, Writing, Current,
           CurrentWhole
  <1>3. ASSUME NEW q \in ParReader PROVE TryUndisturbed(q)' /\ ReadDone(q)'
    <2>1. CASE q = r
      BY <2>1
    <2>2. CASE q # r
      <3>1. reader'[q] = reader[q] /\ Writing' = Writing /\ Current' = Current
            /\ mElements' = mElements
        BY <2>2 DEF ReaderOnly, Writing, Current
      <3>2. QED BY <3>1 DEF ParameterInv, TryUndisturbed, ReadDone, Source
    <2>3. QED BY <2>1, <2>2
  <1>4. QED BY <1>1, <1>2, <1>3 DEF ParameterInv

(* A try begins with the write in progress, if there is one. *)
LEMMA BeginTryKeepsInv ==
    ASSUME NEW r \in ParReader, NEW tries \in Nat, ParameterInv, ReaderOnly, BeginTry(r, tries)
    PROVE  ParameterInv'
  <1> DEFINE try == [at |-> "copy", before |-> mCurrentElementIsFirst, tmp |-> Both(0),
                     copied |-> {}, Try |-> tries, current |-> mElements[Current]["data"],
                     overlaps |-> Cardinality(Writing)]
  <1>1. \/ Writing = {} /\ Cardinality(Writing) = 0
        \/ Writing # {} /\ Cardinality(Writing) = 1
    <2>1. CASE Writing = {}
      BY <2>1, FS_EmptySet
    <2>2. CASE Writing # {}
      <3>1. PICK w \in ParWriter : w \in Writing
        BY <2>2 DEF Writing
      <3>2. Writing = {w}
        BY <3>1 DEF Writing, ParameterInv, WritersInv, OneWriter, Busy
      <3>3. QED BY <2>2, <3>2, FS_Singleton
    <2>3. QED BY <2>1, <2>2
  <1>2. Current \in 0 .. 1 /\ mElements[Current] \in [Half -> Nat]
        /\ mElements[Current]["data"] \in Nat
    BY DEF Current, ParameterInv, ParameterTypeOK, Half
  <1>3. mElements[Current] = Both(mElements[Current]["data"])
    <2>1. \A h \in Half : mElements[Current][h] = mElements[Current]["data"]
      BY DEF ParameterInv, WritersInv, CurrentWhole, Half
    <2>2. QED BY <1>2, <2>1 DEF Both
  <1>4. try \in ReaderState
    <2>1. Both(0) \in [Half -> Nat] /\ Cardinality(Writing) \in Nat
      BY <1>1 DEF Both
    <2>2. QED BY <1>2, <2>1 DEF ReaderState, ParameterInv, ParameterTypeOK
  <1>5. reader' = [reader EXCEPT ![r] = try] /\ reader'[r] = try
    BY DEF BeginTry, ParameterInv, ParameterTypeOK
  <1>6. reader'[r].at = "copy" /\ reader'[r].before = mCurrentElementIsFirst
        /\ reader'[r].copied = {} /\ reader'[r].current = mElements[Current]["data"]
        /\ reader'[r].overlaps = Cardinality(Writing)
    BY <1>5
  <1>7. Source(r)' = Current /\ Current' = Current /\ Writing' = Writing /\ mElements' = mElements
    BY <1>6 DEF Source, Current, Writing, ReaderOnly
  <1>8. TryUndisturbed(r)' /\ ReadDone(r)'
    BY <1>1, <1>3, <1>6, <1>7 DEF TryUndisturbed, ReadDone
  <1> HIDE DEF try
  <1>9. QED BY <1>4, <1>5, <1>8, ReaderKeepsInv

LEMMA CopyKeepsInv ==
    ASSUME NEW r \in ParReader, NEW h \in Half, ParameterInv, copy(r, h)
    PROVE  ParameterInv'
  <1> DEFINE try == [reader[r] EXCEPT !.tmp[h] = mElements[Source(r)][h], !.copied = @ \cup {h}]
  <1>1. ReaderOnly /\ reader[r] \in ReaderState /\ Source(r) \in 0 .. 1
        /\ mElements[Source(r)] \in [Half -> Nat]
    BY DEF copy, ReaderOnly, ParameterInv, ParameterTypeOK, Source
  <1>2. /\ try \in ReaderState
        /\ try.at = reader[r].at /\ try.before = reader[r].before
        /\ try.current = reader[r].current /\ try.overlaps = reader[r].overlaps
        /\ try.copied = reader[r].copied \cup {h}
        /\ try.tmp = [reader[r].tmp EXCEPT ![h] = mElements[Source(r)][h]]
        /\ reader[r].tmp \in [Half -> Nat] /\ reader[r].copied \in SUBSET Half
    BY <1>1 DEF ReaderState
  <1>3. reader' = [reader EXCEPT ![r] = try]
    BY DEF copy, ParameterInv, ParameterTypeOK
  <1> HIDE DEF try
  <1>4. reader'[r] = try /\ reader[r].at = "copy"
    BY <1>3 DEF copy, ParameterInv, ParameterTypeOK
  <1>5. Source(r)' = Source(r) /\ Current' = Current /\ Writing' = Writing
        /\ mElements' = mElements
    BY <1>1, <1>2, <1>4 DEF Source, Current, Writing, ReaderOnly
  <1>6. TryUndisturbed(r)'
    <2> SUFFICES ASSUME reader[r].overlaps < 2
                 PROVE  \A g \in reader'[r].copied : reader'[r].tmp[g] = reader[r].current
      BY <1>2, <1>4, <1>5 DEF TryUndisturbed, ParameterInv
    <2>1. mElements[Source(r)][h] = reader[r].current
      BY <1>4 DEF TryUndisturbed, ParameterInv, Both
    <2>2. QED BY <1>2, <1>4, <2>1 DEF TryUndisturbed, ParameterInv
  <1>7. ReadDone(r)'
    BY <1>2, <1>4 DEF ReadDone
  <1>8. QED BY <1>1, <1>2, <1>3, <1>6, <1>7, ReaderKeepsInv

(* A try that ends has copied both halves; undisturbed, they are one pair. *)
LEMMA EndKeepsInv ==
    ASSUME NEW r \in ParReader, NEW end \in {"success", "tooManyConcurrentWrites"},
           ParameterInv, ReaderOnly, reader[r].at = "copy", reader[r].copied = Half,
           reader' = [reader EXCEPT ![r].at = end]
    PROVE  ParameterInv'
  <1> DEFINE try == [reader[r] EXCEPT !.at = end]
  <1>1. reader[r] \in ReaderState
    BY DEF ParameterInv, ParameterTypeOK
  <1>2. /\ try \in ReaderState /\ try.at = end /\ try.tmp = reader[r].tmp
        /\ try.current = reader[r].current /\ try.overlaps = reader[r].overlaps
        /\ reader[r].tmp \in [Half -> Nat]
    BY <1>1 DEF ReaderState
  <1>3. reader' = [reader EXCEPT ![r] = try]
    BY DEF ParameterInv, ParameterTypeOK
  <1> HIDE DEF try
  <1>4. reader'[r] = try
    BY <1>3 DEF ParameterInv, ParameterTypeOK
  <1>5. TryUndisturbed(r)'
    BY <1>2, <1>4 DEF TryUndisturbed
  <1>6. ReadDone(r)'
    <2> SUFFICES ASSUME reader[r].overlaps < 2
                 PROVE  reader[r].tmp = Both(reader[r].current)
      BY <1>2, <1>4 DEF ReadDone
    <2>1. \A h \in Half : reader[r].tmp[h] = reader[r].current
      BY DEF ParameterInv, TryUndisturbed
    <2>2. QED BY <1>2, <2>1 DEF Both
  <1>7. QED BY <1>2, <1>3, <1>5, <1>6, ReaderKeepsInv

LEMMA EndTryKeepsInv ==
    ASSUME NEW r \in ParReader, NEW after \in BOOLEAN, ParameterInv, endTry(r, after)
    PROVE  ParameterInv'
  <1>1. ReaderOnly /\ reader[r].at = "copy" /\ reader[r].copied = Half
    BY DEF endTry, ReaderOnly
  <1>2. reader[r].Try \in Nat
    BY DEF ParameterInv, ParameterTypeOK, ReaderState
  <1>3. CASE reader' = [reader EXCEPT ![r].at = "success"]
    BY <1>1, <1>3, EndKeepsInv
  <1>4. CASE BeginTry(r, reader[r].Try + 1)
    BY <1>1, <1>2, <1>4, BeginTryKeepsInv
  <1>5. CASE reader' = [reader EXCEPT ![r].at = "tooManyConcurrentWrites"]
    BY <1>1, <1>5, EndKeepsInv
  <1>6. QED BY <1>3, <1>4, <1>5 DEF endTry

(* ParameterInv is an invariant of the parameter. *)
THEOREM ParameterInductive == ParameterSpec => []ParameterInv
  <1>1. ParameterInv /\ [ParameterNext]_parameterVars => ParameterInv'
    <2> SUFFICES ASSUME ParameterInv, [ParameterNext]_parameterVars PROVE ParameterInv'
      OBVIOUS
    <2>1. CASE activateMultipleWritersSupport
      BY <2>1, ActivateKeepsInv
    <2>2. CASE \E w \in ParWriter :
                 setValue(w) \/ storeTime(w) \/ storeData(w) \/ switch(w) \/ clearFlag(w)
      BY <2>2, SetValueKeepsInv, StoreKeepsInv, SwitchKeepsInv, ClearFlagKeepsInv
    <2>3. CASE \E r \in ParReader : getValue(r)
      <3>1. PICK r \in ParReader : getValue(r)
        BY <2>3
      <3>2. ReaderOnly /\ BeginTry(r, 1) /\ 1 \in Nat
        BY <3>1 DEF getValue, ReaderOnly
      <3>3. QED BY <3>2, BeginTryKeepsInv
    <2>4. CASE \E r \in ParReader, h \in Half : copy(r, h)
      BY <2>4, CopyKeepsInv
    <2>5. CASE \E r \in ParReader, after \in BOOLEAN : endTry(r, after)
      BY <2>5, EndTryKeepsInv
    <2>6. CASE UNCHANGED parameterVars
      <3>1. /\ reader' = reader /\ writer' = writer /\ mElements' = mElements
            /\ Current' = Current /\ Writing' = Writing
        BY <2>6 DEF parameterVars, Current, Writing
      <3>2. ParameterTypeOK'
        BY <2>6 DEF parameterVars, ParameterInv, ParameterTypeOK
      <3>3. WritersInv'
        BY <2>6, <3>1 DEF parameterVars, ParameterInv, WritersInv, OneWriter, Busy,
                          WriterProgress, CurrentWhole
      <3>4. \A r \in ParReader : TryUndisturbed(r)' /\ ReadDone(r)'
        BY <3>1 DEF ParameterInv, TryUndisturbed, ReadDone, Source
      <3>5. QED BY <3>2, <3>3, <3>4 DEF ParameterInv
    <2>7. QED BY <2>1, <2>2, <2>3, <2>4, <2>5, <2>6 DEF ParameterNext
  <1>2. QED BY <1>1, ParameterInitInv, PTL DEF ParameterSpec

(* setValue() keeps the current element whole, and getValue() returns the  *)
(* pair that was current when its last try began, unless two writes        *)
(* overlap that try.                                                       *)
THEOREM ParameterIsSound == ParameterSpec => []ParameterSound
  <1>1. ParameterInv => ParameterSound
    <2> SUFFICES ASSUME ParameterInv PROVE CurrentStable /\ ReadsLinearizable
      BY DEF ParameterSound
    <2>1. CurrentStable
      <3>1. Current \in 0 .. 1
        BY DEF Current
      <3>2. \A w \in Writing : w \in ParWriter /\ writer[w].element = 1 - Current
        BY DEF ParameterInv, WritersInv, WriterProgress, Writing
      <3>3. QED BY <3>1, <3>2 DEF CurrentStable, ParameterInv, WritersInv, CurrentWhole
    <2>2. ReadsLinearizable
      BY DEF ParameterInv, ReadDone, ReadsLinearizable
    <2>3. QED BY <2>1, <2>2
  <1>2. QED BY <1>1, ParameterInductive, PTL
-----------------------------------------------------------------------------
(* Periodic tasks *)

(* Each port knows the release in its own representation, a period of      *)
(* FreeRTOS is below half of the range of the ticks, and a task that sleeps*)
(* is woken up in time.                                                    *)
PeriodTypeOK ==
    /\ port \in {"posix", "freertos"} /\ now \in Nat /\ mTimerRunning \in BOOLEAN
    /\ sleeping \in Period \cup {0} /\ release \in Nat /\ period \in Nat
    /\ result \in {"idle", "running", "timeout"} /\ returned \in Nat
ReleaseKnown ==
    mTimerRunning =>
        /\ period # 0 /\ result \in {"running", "timeout"}
        /\ release <= now /\ now <= release + period + MaxLate
        /\ port = "posix" => mNextWakeTime = Timespec(release + period)
        /\ port = "freertos" => /\ mLastWakeTime = release % TickRange
                                /\ mCurrentPeriod = period
                                /\ period + MaxLate < TickRange \div 2
SleepsInTime ==
    sleeping # 0 => mTimerRunning /\ result = "running" /\ now <= release + period
PeriodInv == PeriodTypeOK /\ ReleaseKnown /\ SleepsInTime /\ ReleasedOnGrid
-----------------------------------------------------------------------------
(* Division with remainder. *)
LEMMA Division ==
    ASSUME NEW d \in Nat \ {0}, NEW a \in Nat
    PROVE  /\ a \div d \in Nat /\ a % d \in 0 .. d - 1 /\ a = d * (a \div d) + (a % d)
  OBVIOUS

LEMMA ProductOrder ==
    ASSUME NEW d \in Nat \ {0}, NEW q \in Nat, NEW r \in Nat, q < r
    PROVE  d * q + d <= d * r
<1>1. d * (r - q) >= d * 1
  BY SMTT(20)
<1>2. d * (r - q) = d * r - d * q
  BY SMTT(20)
<1>3. d * q \in Nat /\ d * r \in Nat
  OBVIOUS
<1> QED BY <1>1, <1>2, <1>3

LEMMA DivisionUnique ==
    ASSUME NEW d \in Nat \ {0}, NEW a \in Nat, NEW q \in Nat, NEW r \in 0 .. d - 1,
           a = d * q + r
    PROVE  a \div d = q /\ a % d = r
<1> DEFINE Q == a \div d
           R == a % d
<1>1. Q \in Nat /\ R \in 0 .. d - 1 /\ a = d * Q + R
  BY Division
<1> HIDE DEF Q, R
<1>2. d * q \in Nat /\ d * Q \in Nat
  BY <1>1
<1>3. ~ (q < Q)
  <2> SUFFICES ASSUME q < Q PROVE FALSE
    OBVIOUS
  <2>1. d * q + d <= d * Q
    BY <1>1, ProductOrder
  <2> QED BY <1>1, <1>2, <2>1
<1>4. ~ (Q < q)
  <2> SUFFICES ASSUME Q < q PROVE FALSE
    OBVIOUS
  <2>1. d * Q + d <= d * q
    BY <1>1, ProductOrder
  <2> QED BY <1>1, <1>2, <2>1
<1>5. Q = q
  BY <1>1, <1>3, <1>4
<1>6. R = r
  BY <1>1, <1>2, <1>5
<1> QED BY <1>5, <1>6 DEF Q, R

(* isBigger() compares and addTime() adds the times that the timespecs     *)
(* stand for.                                                              *)
LEMMA TimespecOrder ==
    ASSUME NEW a \in Nat, NEW b \in Nat
    PROVE  isBigger(Timespec(a), Timespec(b)) <=> a >= b
<1> DEFINE d == PerSecond
           q == a \div d
           r == a % d
           s == b \div d
           u == b % d
<1>1. /\ q \in Nat /\ r \in 0 .. d - 1 /\ a = d * q + r
      /\ s \in Nat /\ u \in 0 .. d - 1 /\ b = d * s + u /\ d \in Nat \ {0}
  BY Division, PeriodAssumption
<1>2. isBigger(Timespec(a), Timespec(b)) <=> (q > s \/ (q = s /\ r >= u))
  BY DEF isBigger, Timespec
<1> HIDE DEF d, q, r, s, u
<1>3. d * q \in Nat /\ d * s \in Nat
  BY <1>1
<1>4. CASE q > s
  <2>1. d * s + d <= d * q
    BY <1>1, <1>4, ProductOrder
  <2> QED BY <1>1, <1>2, <1>3, <1>4, <2>1
<1>5. CASE q < s
  <2>1. d * q + d <= d * s
    BY <1>1, <1>5, ProductOrder
  <2> QED BY <1>1, <1>2, <1>3, <1>5, <2>1
<1>6. CASE q = s
  BY <1>1, <1>2, <1>3, <1>6
<1> QED BY <1>1, <1>4, <1>5, <1>6

LEMMA TimespecSum ==
    ASSUME NEW a \in Nat, NEW b \in Nat
    PROVE  addTime(Timespec(a), Timespec(b)) = Timespec(a + b)
<1> DEFINE d == PerSecond
           q == a \div d
           r == a % d
           s == b \div d
           u == b % d
           c == IF r + u >= d THEN 1 ELSE 0
<1>1. /\ q \in Nat /\ r \in 0 .. d - 1 /\ a = d * q + r
      /\ s \in Nat /\ u \in 0 .. d - 1 /\ b = d * s + u /\ d \in Nat \ {0}
  BY Division, PeriodAssumption
<1>2. addTime(Timespec(a), Timespec(b)) = [tv_sec |-> q + c + s, tv_nsec |-> (r + u) - c * d]
  <2> DEFINE x == Timespec(a)
             y == Timespec(b)
  <2>1. x.tv_sec = q /\ x.tv_nsec = r /\ y.tv_sec = s /\ y.tv_nsec = u
    BY DEF Timespec
  <2> HIDE DEF x, y, q, r, s, u
  <2>2. addTime(x, y) = [tv_sec |-> x.tv_sec + (IF x.tv_nsec + y.tv_nsec >= PerSecond THEN 1 ELSE 0)
                                    + y.tv_sec,
                         tv_nsec |-> (x.tv_nsec + y.tv_nsec)
                             - (IF x.tv_nsec + y.tv_nsec >= PerSecond THEN 1 ELSE 0) * PerSecond]
    BY DEF addTime
  <2> QED BY <2>1, <2>2, Zenon DEF x, y
<1>3. Timespec(a + b) = [tv_sec |-> (a + b) \div d, tv_nsec |-> (a + b) % d]
  BY DEF Timespec
<1> HIDE DEF d, q, r, s, u
<1>4. c \in {0, 1} /\ q + c + s \in Nat /\ (r + u) - c * d \in 0 .. d - 1
  <2>1. CASE r + u >= d
    BY <1>1, <2>1
  <2>2. CASE ~ (r + u >= d)
    BY <1>1, <2>2
  <2> QED BY <2>1, <2>2
<1>5. a + b = d * (q + c + s) + ((r + u) - c * d)
  <2>1. CASE c = 0
    <3>1. d * (q + c + s) = d * q + d * s
      BY <1>1, <2>1, SMTT(20)
    <3>2. (r + u) - c * d = r + u
      BY <1>1, <2>1
    <3>3. d * q \in Nat /\ d * s \in Nat
      BY <1>1
    <3> HIDE DEF c
    <3> QED BY <1>1, <3>1, <3>2, <3>3
  <2>2. CASE c = 1
    <3>1. d * (q + c + s) = d * q + d + d * s
      BY <1>1, <2>2, SMTT(20)
    <3>2. (r + u) - c * d = r + u - d
      BY <1>1, <2>2
    <3>3. d * q \in Nat /\ d * s \in Nat
      BY <1>1
    <3> HIDE DEF c
    <3> QED BY <1>1, <3>1, <3>2, <3>3
  <2> QED BY <1>4, <2>1, <2>2
<1> HIDE DEF c
<1>6. (a + b) \div d = q + c + s /\ (a + b) % d = (r + u) - c * d
  <2>1. a + b \in Nat
    OBVIOUS
  <2> QED BY <1>1, <1>4, <1>5, <2>1, DivisionUnique
<1> QED BY <1>2, <1>3, <1>6

(* The tick counter after some ticks. *)
LEMMA TickAfter ==
    ASSUME NEW d \in Nat \ {0}, NEW a \in Nat, NEW k \in 0 .. d - 1
    PROVE  /\ (a + k) % d = IF (a % d) + k >= d THEN (a % d) + k - d ELSE (a % d) + k
           /\ ((a % d) + k) % d = IF (a % d) + k >= d THEN (a % d) + k - d ELSE (a % d) + k
           /\ (((a + k) % d) - (a % d)) % d = k
<1> DEFINE q == a \div d
           r == a % d
<1>1. q \in Nat /\ r \in 0 .. d - 1 /\ a = d * q + r
  BY Division
<1>2. a % d = r
  OBVIOUS
<1> HIDE DEF q, r
<1>3. d * q \in Nat /\ d * 0 = 0 /\ d * 1 = d /\ d * (q + 1) = d * q + d
  BY <1>1, SMTT(20)
<1>4. CASE r + k >= d
  <2>1. r + k - d \in 0 .. d - 1 /\ a + k = d * (q + 1) + (r + k - d) /\ a + k \in Nat /\ q + 1 \in Nat
    BY <1>1, <1>3, <1>4
  <2>2. (a + k) % d = r + k - d
    BY <2>1, DivisionUnique
  <2>3. r + k = d * 1 + (r + k - d) /\ r + k \in Nat
    BY <1>1, <1>3
  <2>4. (r + k) % d = r + k - d
    BY <2>1, <2>3, DivisionUnique
  <2>5. (r + k - d - r) % d = k
    <3>1. r + k - d - r = k - d
      BY <1>1
    <3>2. CASE k = 0
      BY <1>1, <1>4, <3>2
    <3>3. CASE k # 0
      <4>1. (k - d) % d = k
        BY <3>3, SMTT(20)
      <4> QED BY <3>1, <4>1
    <3> QED BY <3>2, <3>3
  <2> QED BY <1>2, <1>4, <2>2, <2>4, <2>5
<1>5. CASE ~ (r + k >= d)
  <2>1. r + k \in 0 .. d - 1 /\ a + k = d * q + (r + k) /\ a + k \in Nat
    BY <1>1, <1>3, <1>5
  <2>2. (a + k) % d = r + k
    BY <1>1, <2>1, DivisionUnique
  <2>3. r + k = d * 0 + (r + k) /\ r + k \in Nat
    BY <1>1, <1>3
  <2>4. (r + k) % d = r + k
    BY <2>1, <2>3, DivisionUnique
  <2>5. r + k - r = k /\ k % d = k
    <3>1. k = d * 0 + k
      BY <1>3
    <3> QED BY <1>1, <3>1, DivisionUnique
  <2> QED BY <1>2, <1>5, <2>2, <2>4, <2>5
<1> QED BY <1>4, <1>5
-----------------------------------------------------------------------------
(* A period in the port's units. *)
LEMMA InClockIs ==
    ASSUME PeriodInv, NEW p \in Period
    PROVE  /\ InClock(p) \in Nat \ {0}
           /\ port = "posix" => InClock(p) = p
           /\ port = "freertos" => /\ InClock(p) = nextPeriodTicks(p)
                                   /\ InClock(p) + MaxLate < TickRange \div 2
BY PeriodAssumption DEF InClock, PeriodInv, PeriodTypeOK

(* Both ports compare the time with the release rightly. *)
LEMMA PeriodOver ==
    ASSUME PeriodInv, mTimerRunning
    PROVE  /\ DelayOver <=> now >= release + period
           /\ Missed => now >= release + period
           /\ now > release + period => Missed
           /\ port = "posix" => (Missed <=> DelayOver)
<1>1. /\ now \in Nat /\ release \in Nat /\ period \in Nat /\ period # 0
      /\ release <= now /\ now <= release + period + MaxLate
      /\ port = "posix" => mNextWakeTime = Timespec(release + period)
      /\ port = "freertos" => /\ mLastWakeTime = release % TickRange
                              /\ mCurrentPeriod = period
                              /\ period + MaxLate < TickRange \div 2
      /\ port \in {"posix", "freertos"}
  BY DEF PeriodInv, PeriodTypeOK, ReleaseKnown
<1>2. CASE port = "posix"
  <2>1. isBigger(Timespec(now), mNextWakeTime) <=> now >= release + period
    <3>1. release + period \in Nat
      BY <1>1
    <3> QED BY <1>1, <1>2, <3>1, TimespecOrder
  <2>2. (DelayOver <=> isBigger(Timespec(now), mNextWakeTime))
        /\ (Missed <=> isBigger(Timespec(now), mNextWakeTime))
    BY <1>2 DEF DelayOver, Missed
  <2>3. now > release + period => now >= release + period
    BY <1>1
  <2> QED BY <2>1, <2>2, <2>3
<1>3. CASE port = "freertos"
  <2> DEFINE T == TickRange
             H == TickRange \div 2
             d == now - release
             t == release % TickRange
             k == IF t + d >= T THEN t + d - T ELSE t + d
             w == IF t + period >= T THEN t + period - T ELSE t + period
  <2>1. T \in Nat \ {0} /\ H \in Nat /\ 2 * H <= T /\ period + MaxLate < H /\ MaxLate \in Nat
    <3>1. T \in Nat \ {0} /\ MaxLate \in Nat /\ period + MaxLate < H
      BY <1>1, <1>3, PeriodAssumption
    <3>2. H \in Nat /\ T = 2 * H + (T % 2) /\ T % 2 \in 0 .. 1
      BY <3>1, Division
    <3> QED BY <3>1, <3>2
  <2>2. d \in Nat /\ d <= period + MaxLate /\ release + d = now /\ period \in Nat
    BY <1>1, <2>1
  <2> HIDE DEF d, H
  <2>3. d \in 0 .. T - 1 /\ period \in 0 .. T - 1 /\ d < H /\ period < H
    BY <2>1, <2>2
  <2>4. t \in 0 .. T - 1
    BY <1>1, <2>1
  <2>5. /\ (release + d) % T = k /\ (((release + d) % T) - t) % T = d
        /\ (t + period) % T = w
    BY <1>1, <2>1, <2>3, TickAfter, ZenonT(60)
  <2>6. ticks = k /\ mLastWakeTime = t /\ mCurrentPeriod = period /\ WakeTick = w
    BY <1>1, <1>3, <2>2, <2>5 DEF ticks, WakeTick
  <2>7. Elapsed = d /\ Signed(mCurrentPeriod) = period
    <3>1. ((ticks - mLastWakeTime) % TickRange) = d
      BY <2>2, <2>5, <2>6 DEF ticks
    <3>2. Signed(d) = d /\ Signed(period) = period
      BY <2>1, <2>2, <2>3 DEF Signed, H
    <3> QED BY <2>6, <3>1, <3>2 DEF Elapsed
  <2>8. Missed <=> d > period
    BY <1>3, <2>7 DEF Missed
  <2>9. DelayOver <=> IF k < t THEN ~ (w < t /\ w > k) ELSE ~ (w < t \/ w > k)
    BY <1>3, <2>6 DEF DelayOver
  <2> HIDE DEF t, T
  <2>10. (IF k < t THEN ~ (w < t /\ w > k) ELSE ~ (w < t \/ w > k)) <=> d >= period
    BY <2>1, <2>2, <2>3, <2>4
  <2>11. (d >= period <=> now >= release + period) /\ (d > period <=> now > release + period)
    BY <1>1, <2>2
  <2>12. now > release + period => now >= release + period
    BY <1>1
  <2> QED BY <1>3, <2>8, <2>9, <2>10, <2>11, <2>12
<1> QED BY <1>1, <1>2, <1>3

LEMMA PeriodInitInv == PeriodInit => PeriodInv
<1> SUFFICES ASSUME PeriodInit PROVE PeriodInv
  OBVIOUS
<1>1. now \in Nat
  BY PeriodAssumption DEF PeriodInit
<1>2. PeriodTypeOK
  BY <1>1 DEF PeriodInit, PeriodTypeOK
<1>3. mTimerRunning = FALSE /\ sleeping = 0
  BY DEF PeriodInit
<1>4. ReleaseKnown
  BY <1>3 DEF ReleaseKnown
<1>5. SleepsInTime /\ ReleasedOnGrid
  BY <1>3 DEF SleepsInTime, ReleasedOnGrid
<1> QED BY <1>2, <1>4, <1>5 DEF PeriodInv

(* The end of a period: the next one starts at the release. *)
LEMMA FinishKeeps ==
    ASSUME PeriodInv, mTimerRunning, NEW p \in Period, NEW status \in {"running", "timeout"},
           DelayOver, Finish(p, status), status = "running" => now = release + period,
           sleeping' = 0, UNCHANGED <<port, now, mTimerRunning>>
    PROVE  PeriodInv'
<1>1. /\ now \in Nat /\ release \in Nat /\ period \in Nat /\ period # 0
      /\ release <= now /\ now <= release + period + MaxLate
      /\ port = "posix" => mNextWakeTime = Timespec(release + period)
      /\ port = "freertos" => /\ mLastWakeTime = release % TickRange
                              /\ mCurrentPeriod = period
                              /\ period + MaxLate < TickRange \div 2
      /\ port \in {"posix", "freertos"} /\ MaxLate \in Nat /\ now >= release + period
  BY PeriodOver, PeriodAssumption DEF PeriodInv, PeriodTypeOK, ReleaseKnown
<1> DEFINE q == InClock(p)
<1>2. /\ q \in Nat \ {0}
      /\ port = "posix" => p = q
      /\ port = "freertos" => nextPeriodTicks(p) = q /\ q + MaxLate < TickRange \div 2
  BY InClockIs
<1>3. release' = release + period /\ period' = q /\ result' = status /\ returned' = now
  BY DEF Finish
<1> HIDE DEF q
<1>4. PeriodTypeOK'
  BY <1>1, <1>2, <1>3 DEF PeriodTypeOK, PeriodInv
<1>5. port = "posix" => mNextWakeTime' = Timespec(release + period + q)
  <2>1. release + period \in Nat
    BY <1>1
  <2>2. addTime(Timespec(release + period), Timespec(q)) = Timespec(release + period + q)
    BY <1>2, <2>1, TimespecSum
  <2> QED BY <1>1, <1>2, <2>2 DEF Finish, NextRelease
<1>6. port = "freertos" => mLastWakeTime' = (release + period) % TickRange /\ mCurrentPeriod' = q
  <2> SUFFICES ASSUME port = "freertos"
               PROVE  mLastWakeTime' = (release + period) % TickRange /\ mCurrentPeriod' = q
    OBVIOUS
  <2>0. port = "freertos"
    OBVIOUS
  <2>1. period \in 0 .. TickRange - 1 /\ TickRange \in Nat \ {0}
    <3>1. TickRange \in Nat \ {0} /\ period + MaxLate < TickRange \div 2
      BY <1>1, <2>0, PeriodAssumption
    <3>2. TickRange \div 2 \in Nat /\ TickRange = 2 * (TickRange \div 2) + (TickRange % 2)
          /\ TickRange % 2 \in 0 .. 1
      BY <3>1, Division
    <3> QED BY <1>1, <3>1, <3>2
  <2>2. ((release % TickRange) + period) % TickRange = (release + period) % TickRange
    <3> DEFINE w == IF (release % TickRange) + period >= TickRange
                    THEN (release % TickRange) + period - TickRange
                    ELSE (release % TickRange) + period
    <3>1. (release + period) % TickRange = w
      BY <1>1, <2>1, TickAfter
    <3>2. ((release % TickRange) + period) % TickRange = w
      BY <1>1, <2>1, TickAfter
    <3> HIDE DEF w
    <3> QED BY <3>1, <3>2
  <2> QED BY <1>1, <1>2, <2>0, <2>2 DEF Finish, WakeTick
<1>7. ReleaseKnown'
  <2>1. release' <= now' /\ now' <= release' + period' + MaxLate
    BY <1>1, <1>2, <1>3
  <2> QED BY <1>1, <1>2, <1>3, <1>5, <1>6, <2>1 DEF ReleaseKnown
<1>8. SleepsInTime' /\ ReleasedOnGrid'
  BY <1>1, <1>3 DEF SleepsInTime, ReleasedOnGrid
<1> QED BY <1>4, <1>7, <1>8 DEF PeriodInv

LEMMA nextPeriodStartKeeps ==
    ASSUME PeriodInv, NEW p \in Period, nextPeriodStart(p)
    PROVE  PeriodInv'
<1> DEFINE q == InClock(p)
<1>1. now \in Nat /\ MaxLate \in Nat /\ port \in {"posix", "freertos"}
  BY PeriodAssumption DEF PeriodInv, PeriodTypeOK
<1>2. /\ q \in Nat \ {0}
      /\ port = "posix" => p = q
      /\ port = "freertos" => nextPeriodTicks(p) = q /\ q + MaxLate < TickRange \div 2
  BY InClockIs
<1>3. /\ mTimerRunning' = TRUE /\ release' = now /\ period' = q /\ result' = "running"
      /\ returned' = now /\ UNCHANGED <<port, now, sleeping>> /\ sleeping = 0
  BY DEF nextPeriodStart
<1> HIDE DEF q
<1>4. PeriodTypeOK'
  BY <1>1, <1>2, <1>3 DEF PeriodInv, PeriodTypeOK
<1>5. port = "posix" => mNextWakeTime' = Timespec(now + q)
  BY <1>1, <1>2, TimespecSum DEF nextPeriodStart
<1>6. port = "freertos" => mLastWakeTime' = now % TickRange /\ mCurrentPeriod' = q
  BY <1>1, <1>2 DEF nextPeriodStart, ticks
<1>7. ReleaseKnown'
  <2>1. release' <= now' /\ now' <= release' + period' + MaxLate
    BY <1>1, <1>2, <1>3
  <2> QED BY <1>1, <1>2, <1>3, <1>5, <1>6, <2>1 DEF ReleaseKnown
<1>8. SleepsInTime' /\ ReleasedOnGrid'
  BY <1>1, <1>3 DEF SleepsInTime, ReleasedOnGrid
<1> QED BY <1>4, <1>7, <1>8 DEF PeriodInv

LEMMA nextPeriodLateKeeps ==
    ASSUME PeriodInv, NEW p \in Period, nextPeriodLate(p)
    PROVE  PeriodInv'
<1> DEFINE status == IF Missed THEN "timeout" ELSE "running"
<1>1. mTimerRunning /\ DelayOver /\ Finish(p, status) /\ sleeping' = 0
      /\ UNCHANGED <<port, now, mTimerRunning>>
  BY DEF nextPeriodLate
<1>2. now \in Nat /\ release \in Nat /\ period \in Nat
  BY DEF PeriodInv, PeriodTypeOK
<1>3. status = "running" => now = release + period
  BY <1>1, <1>2, PeriodOver
<1>4. status \in {"running", "timeout"}
  OBVIOUS
<1> HIDE DEF status
<1> QED BY <1>1, <1>3, <1>4, FinishKeeps

LEMMA nextPeriodSleepKeeps ==
    ASSUME PeriodInv, NEW p \in Period, nextPeriodSleep(p)
    PROVE  PeriodInv'
<1>1. /\ mTimerRunning /\ ~ DelayOver /\ sleeping' = p /\ p \in Nat \ {0}
      /\ UNCHANGED <<port, now, mTimerRunning, mNextWakeTime, mLastWakeTime, mCurrentPeriod,
                     release, period, returned>>
  BY PeriodAssumption DEF nextPeriodSleep
<1>2. now \in Nat /\ release \in Nat /\ period \in Nat
  BY DEF PeriodInv, PeriodTypeOK
<1>3. ~ Missed /\ now <= release + period
  BY <1>1, <1>2, PeriodOver
<1>4. result' = "running"
  BY <1>3 DEF nextPeriodSleep
<1>5. PeriodTypeOK' /\ ReleaseKnown'
  BY <1>1, <1>4 DEF PeriodInv, PeriodTypeOK, ReleaseKnown
<1>6. SleepsInTime' /\ ReleasedOnGrid'
  BY <1>1, <1>3, <1>4 DEF SleepsInTime, ReleasedOnGrid
<1> QED BY <1>5, <1>6 DEF PeriodInv

LEMMA wakeUpKeeps ==
    ASSUME PeriodInv, wakeUp
    PROVE  PeriodInv'
<1>1. /\ sleeping # 0 /\ DelayOver /\ Finish(sleeping, result) /\ sleeping' = 0
      /\ UNCHANGED <<port, now, mTimerRunning>>
  BY DEF wakeUp
<1>2. /\ sleeping \in Period /\ mTimerRunning /\ result = "running"
      /\ now <= release + period /\ now \in Nat /\ release \in Nat /\ period \in Nat
  BY <1>1 DEF PeriodInv, PeriodTypeOK, SleepsInTime
<1>3. now = release + period
  BY <1>1, <1>2, PeriodOver
<1> QED BY <1>1, <1>2, <1>3, FinishKeeps

LEMMA PeriodTickKeeps ==
    ASSUME PeriodInv, PeriodTick
    PROVE  PeriodInv'
<1>1. /\ sleeping # 0 => ~ DelayOver
      /\ mTimerRunning => now < release + period + MaxLate
      /\ now' = now + 1
      /\ UNCHANGED <<port, mTimerRunning, mNextWakeTime, mLastWakeTime, mCurrentPeriod,
                     sleeping, release, period, result, returned>>
  BY DEF PeriodTick
<1>2. now \in Nat /\ release \in Nat /\ period \in Nat /\ MaxLate \in Nat
  BY PeriodAssumption DEF PeriodInv, PeriodTypeOK
<1>3. PeriodTypeOK'
  BY <1>1, <1>2 DEF PeriodInv, PeriodTypeOK
<1>4. ReleaseKnown'
  BY <1>1, <1>2 DEF PeriodInv, ReleaseKnown
<1>5. SleepsInTime'
  <2>1. sleeping # 0 => mTimerRunning /\ result = "running" /\ now < release + period
    BY <1>1, <1>2, PeriodOver DEF PeriodInv, SleepsInTime
  <2> QED BY <1>1, <1>2, <2>1 DEF SleepsInTime
<1>6. ReleasedOnGrid'
  BY <1>1 DEF PeriodInv, ReleasedOnGrid
<1> QED BY <1>3, <1>4, <1>5, <1>6 DEF PeriodInv

(* Each port keeps the next release in its own representation. *)
THEOREM PeriodInductive == PeriodSpec => []PeriodInv
<1>1. ASSUME PeriodInv, [PeriodNext]_periodVars PROVE PeriodInv'
  <2>1. ASSUME NEW p \in Period, nextPeriodStart(p) PROVE PeriodInv'
    BY <1>1, <2>1, nextPeriodStartKeeps
  <2>2. ASSUME NEW p \in Period, nextPeriodLate(p) PROVE PeriodInv'
    BY <1>1, <2>2, nextPeriodLateKeeps
  <2>3. ASSUME NEW p \in Period, nextPeriodSleep(p) PROVE PeriodInv'
    BY <1>1, <2>3, nextPeriodSleepKeeps
  <2>4. CASE wakeUp
    BY <1>1, <2>4, wakeUpKeeps
  <2>5. CASE cancel
    BY <1>1, <2>5 DEF cancel, PeriodInv, PeriodTypeOK, ReleaseKnown, SleepsInTime, ReleasedOnGrid
  <2>6. CASE PeriodTick
    BY <1>1, <2>6, PeriodTickKeeps
  <2>7. CASE UNCHANGED periodVars
    BY <1>1, <2>7 DEF periodVars, PeriodInv, PeriodTypeOK, ReleaseKnown, SleepsInTime,
       ReleasedOnGrid
  <2> QED BY <1>1, <2>1, <2>2, <2>3, <2>4, <2>5, <2>6, <2>7 DEF PeriodNext
<1> QED BY <1>1, PeriodInitInv, PTL DEF PeriodSpec

(* nextPeriod() releases the task on the grid of its periods and status()  *)
(* tells the truth, for every base of tv_nsec, every width of the tick     *)
(* counter, every tick rate and all periods of at least a tick and below   *)
(* half of the counter's range.                                            *)
THEOREM PeriodsAreKept == PeriodSpec => []PeriodsKept
<1>1. PeriodInv => PeriodsKept
  BY PeriodOver DEF PeriodInv, PeriodsKept, StatusTrue
<1> QED BY <1>1, PeriodInductive, PTL
-----------------------------------------------------------------------------
(* Publish and subscribe *)

(* The subscription a of the list of all is newer than b. *)
Newer(a, b) ==
    \E j, k \in 1 .. Len(listOfAllSubscriptions) :
        j < k /\ listOfAllSubscriptions[j] = a /\ listOfAllSubscriptions[k] = b
Connected == Len(listOfAllSubscriptions) - Len(rebuild.left)
Connecting == rebuild.does \in {"connect", "head"}

TopicsTypeOK ==
    /\ listOfAllSubscriptions \in Seq(Subscription)
    /\ mSubscriptions \in [Topic -> Subscription \cup {NoSub}]
    /\ mNextTopicSubscription \in [Subscription -> Subscription \cup {NoSub}]
    /\ rebuild \in [does : {"nothing", "connect", "head", "release"}, left : Seq(Subscription)]
    /\ publishing \in [topic : Topic \cup {NoSub}, at : Subscription \cup {NoSub},
                       called : Seq(Subscription)]

(* A subscription is in the list of all once, and what is left to visit is *)
(* the end of that list.                                                   *)
ListsKnown ==
    /\ \A j, k \in 1 .. Len(listOfAllSubscriptions) :
         listOfAllSubscriptions[j] = listOfAllSubscriptions[k] => j = k
    /\ Len(rebuild.left) <= Len(listOfAllSubscriptions)
    /\ \A k \in 1 .. Len(rebuild.left) :
         rebuild.left[k] = listOfAllSubscriptions[Connected + k]
    /\ rebuild.does = "nothing" => rebuild.left = << >>
    /\ rebuild.does = "head" => rebuild.left # << >>

(* x is the last of the first m subscriptions that are of topic t. *)
LastOf(x, t, m) ==
    \/ x = NoSub /\ \A k \in 1 .. m : TopicOf[listOfAllSubscriptions[k]] # t
    \/ \E j \in 1 .. m :
         /\ listOfAllSubscriptions[j] = x /\ TopicOf[x] = t
         /\ \A k \in j + 1 .. m : TopicOf[listOfAllSubscriptions[k]] # t

(* Heads are of their topic, and the lists lead to ever newer              *)
(* subscriptions of the topic.                                             *)
ListsLead ==
    /\ \A t \in Topic : mSubscriptions[t] # NoSub =>
         Exists(mSubscriptions[t]) /\ TopicOf[mSubscriptions[t]] = t
    /\ \A s \in Subscription : (Exists(s) /\ mNextTopicSubscription[s] # NoSub) =>
         /\ Newer(mNextTopicSubscription[s], s)
         /\ TopicOf[mNextTopicSubscription[s]] = TopicOf[s]

(* The lists of the subscriptions that are already connected. *)
ListsGrow ==
    Connecting =>
        /\ \A t \in Topic : LastOf(mSubscriptions[t], t, Connected)
        /\ \A k \in 1 .. Connected + (IF rebuild.does = "head" THEN 1 ELSE 0) :
             LastOf(mNextTopicSubscription[listOfAllSubscriptions[k]],
                    TopicOf[listOfAllSubscriptions[k]], k - 1)

(* The publisher goes from older to newer subscriptions. *)
PublisherMovesOn ==
    /\ publishing.at # NoSub =>
         Exists(publishing.at) /\ TopicOf[publishing.at] = publishing.topic
    /\ \A i \in 1 .. Len(publishing.called) :
         /\ Exists(publishing.called[i])
         /\ TopicOf[publishing.called[i]] = publishing.topic
         /\ publishing.at # NoSub => Newer(publishing.at, publishing.called[i])
         /\ \A j \in 1 .. Len(publishing.called) :
              i < j => Newer(publishing.called[j], publishing.called[i])

TopicsInv == TopicsTypeOK /\ ListsKnown /\ ListsLead /\ ListsGrow /\ PublisherMovesOn
-----------------------------------------------------------------------------
(* A set of natural numbers that is not empty has a least element. *)
LEMMA LeastElement ==
    ASSUME NEW T \in SUBSET Nat, T # {}
    PROVE  \E x \in T : \A y \in T : x <= y
<1> DEFINE R == OpToRel(<, Nat)
<1>1. \E x \in T : \A y \in T : ~ (<<y, x>> \in R)
  BY NatLessThanWellFounded, WFMin
<1>2. \A x, y \in T : y < x => <<y, x>> \in R
  BY DEF OpToRel
<1> HIDE DEF R
<1>3. \A x, y \in T : ~ (y < x) => x <= y
  OBVIOUS
<1> QED BY <1>1, <1>2, <1>3

(* The order of the list of all is transitive and irreflexive. *)
LEMMA NewerOrder ==
    ASSUME TopicsTypeOK, ListsKnown, NEW a, NEW b, NEW c
    PROVE  /\ Newer(a, b) => a # b /\ Exists(a) /\ Exists(b)
           /\ Newer(a, b) /\ Newer(b, c) => Newer(a, c)
<1>1. Newer(a, b) => a # b /\ Exists(a) /\ Exists(b)
  BY DEF Newer, ListsKnown, Exists
<1>2. ASSUME Newer(a, b), Newer(b, c) PROVE Newer(a, c)
  <2>0. Len(listOfAllSubscriptions) \in Nat
    BY DEF TopicsTypeOK
  <2>1. PICK i, j \in 1 .. Len(listOfAllSubscriptions) :
          i < j /\ listOfAllSubscriptions[i] = a /\ listOfAllSubscriptions[j] = b
    BY <1>2 DEF Newer
  <2>2. PICK k, m \in 1 .. Len(listOfAllSubscriptions) :
          k < m /\ listOfAllSubscriptions[k] = b /\ listOfAllSubscriptions[m] = c
    BY <1>2 DEF Newer
  <2>3. j = k
    BY <2>1, <2>2 DEF ListsKnown
  <2>4. i < m
    BY <2>0, <2>1, <2>2, <2>3
  <2> QED BY <2>1, <2>2, <2>4 DEF Newer
<1> QED BY <1>1, <1>2

(* The list of all does not change: neither does what rests on it alone. *)
LEMMA SameOrder ==
    ASSUME UNCHANGED listOfAllSubscriptions
    PROVE  /\ \A a, b : Newer(a, b)' <=> Newer(a, b)
           /\ \A a : Exists(a)' <=> Exists(a)
  BY DEF Newer, Exists

LEMMA SamePublisher ==
    ASSUME PublisherMovesOn, UNCHANGED <<listOfAllSubscriptions, publishing>>
    PROVE  PublisherMovesOn'
  BY SameOrder DEF PublisherMovesOn

LEMMA TopicsInitInv == TopicsInit => TopicsInv
<1> SUFFICES ASSUME TopicsInit PROVE TopicsInv
  OBVIOUS
<1>0. /\ Len(listOfAllSubscriptions) = 0 /\ rebuild.does = "nothing" /\ rebuild.left = << >>
      /\ Len(rebuild.left) = 0 /\ publishing.at = NoSub /\ publishing.called = << >>
      /\ Len(publishing.called) = 0
  BY DEF TopicsInit, AtRest, Silent
<1>1. TopicsTypeOK
  BY DEF TopicsInit, TopicsTypeOK, AtRest, Silent
<1>2. ListsKnown
  BY <1>0 DEF ListsKnown, Connected
<1>3. ListsLead
  BY <1>0 DEF TopicsInit, ListsLead, Exists
<1>4. ListsGrow
  BY <1>0 DEF ListsGrow, Connecting
<1>5. PublisherMovesOn
  BY <1>0 DEF PublisherMovesOn
<1> QED BY <1>1, <1>2, <1>3, <1>4, <1>5 DEF TopicsInv

LEMMA SubscribeKeeps ==
    ASSUME TopicsInv, NEW s \in Subscription, Subscribe(s)
    PROVE  TopicsInv'
<1> DEFINE L == listOfAllSubscriptions
           N == listOfAllSubscriptions'
<1>0. /\ rebuild.does = "nothing" /\ rebuild.left = << >> /\ ~ Exists(s)
      /\ N = <<s>> \o L
      /\ mNextTopicSubscription' = [mNextTopicSubscription EXCEPT ![s] = NoSub]
      /\ UNCHANGED <<mSubscriptions, rebuild, publishing>>
  BY DEF Subscribe, AtRest
<1>1. /\ L \in Seq(Subscription) /\ N \in Seq(Subscription) /\ Len(L) \in Nat
      /\ Len(N) = Len(L) + 1 /\ N[1] = s
      /\ \A k \in 1 .. Len(L) : N[k + 1] = L[k]
      /\ \A k \in 2 .. Len(N) : N[k] = L[k - 1] /\ k - 1 \in 1 .. Len(L)
  BY <1>0 DEF TopicsInv, TopicsTypeOK
<1> HIDE DEF L, N
<1>2. TopicsTypeOK'
  BY <1>0, <1>1 DEF TopicsInv, TopicsTypeOK, L, N
<1>3. \A k \in 1 .. Len(L) : L[k] # s
  BY <1>0 DEF Exists, L, N
<1>4. ListsKnown'
  <2>1. \A j, k \in 1 .. Len(N) : N[j] = N[k] => j = k
    <3> SUFFICES ASSUME NEW j \in 1 .. Len(N), NEW k \in 1 .. Len(N), N[j] = N[k]
                 PROVE  j = k
      OBVIOUS
    <3>0. \A i \in 1 .. Len(N) : i = 1 \/ (i \in 2 .. Len(N) /\ N[i] # s)
      <4> SUFFICES ASSUME NEW i \in 1 .. Len(N), i # 1 PROVE i \in 2 .. Len(N) /\ N[i] # s
        OBVIOUS
      <4>1. i \in 2 .. Len(N)
        BY <1>1
      <4> QED BY <1>1, <1>3, <4>1
    <3>1. CASE j = 1 \/ k = 1
      BY <1>1, <3>0, <3>1
    <3>2. CASE j \in 2 .. Len(N) /\ k \in 2 .. Len(N)
      <4>1. j - 1 \in 1 .. Len(L) /\ k - 1 \in 1 .. Len(L) /\ L[j - 1] = L[k - 1]
        BY <1>1, <3>2
      <4>2. j - 1 = k - 1
        BY <4>1 DEF TopicsInv, ListsKnown, L
      <4> QED BY <3>2, <4>2
    <3> QED BY <3>0, <3>1, <3>2
  <2>2. Len(rebuild.left) = 0
    BY <1>0
  <2> QED BY <1>0, <1>1, <2>1, <2>2 DEF ListsKnown, L, N
<1>5. /\ \A a : Exists(a) => Exists(a)'
      /\ \A a, b : Newer(a, b) => Newer(a, b)'
  <2>1. \A a : Exists(a) => Exists(a)'
    BY SMTT(30), <1>1 DEF Exists, L, N
  <2>2. ASSUME NEW a, NEW b, Newer(a, b) PROVE Newer(a, b)'
    <3>1. PICK j, k \in 1 .. Len(L) : j < k /\ L[j] = a /\ L[k] = b
      BY <2>2 DEF Newer, L, N
    <3>2. j + 1 \in 1 .. Len(N) /\ k + 1 \in 1 .. Len(N) /\ j + 1 < k + 1
      BY <1>1, <3>1
    <3>3. N[j + 1] = a /\ N[k + 1] = b
      BY <1>1, <3>1
    <3> QED BY <3>2, <3>3 DEF Newer, L, N
  <2> QED BY <2>1, <2>2
<1>6. ListsLead'
  <2>1. \A x \in Subscription : (Exists(x)' /\ mNextTopicSubscription'[x] # NoSub) =>
          /\ Exists(x) /\ mNextTopicSubscription'[x] = mNextTopicSubscription[x]
    <3> SUFFICES ASSUME NEW x \in Subscription, Exists(x)', mNextTopicSubscription'[x] # NoSub
                 PROVE  Exists(x) /\ mNextTopicSubscription'[x] = mNextTopicSubscription[x]
      OBVIOUS
    <3>1. x # s
      BY <1>0 DEF TopicsInv, TopicsTypeOK
    <3>2. PICK k \in 1 .. Len(N) : N[k] = x
      BY DEF Exists, L, N
    <3>3. k \in 2 .. Len(N)
      BY <1>1, <3>1, <3>2
    <3>4. Exists(x)
      BY <1>1, <3>2, <3>3 DEF Exists, L, N
    <3> QED BY <1>0, <3>1, <3>4 DEF TopicsInv, TopicsTypeOK
  <2>2. \A t \in Topic :
          (mSubscriptions[t] # NoSub => Exists(mSubscriptions[t]) /\ TopicOf[mSubscriptions[t]] = t)'
    BY <1>0, <1>5 DEF TopicsInv, ListsLead
  <2>3. \A x \in Subscription : ((Exists(x) /\ mNextTopicSubscription[x] # NoSub) =>
         /\ Newer(mNextTopicSubscription[x], x)
         /\ TopicOf[mNextTopicSubscription[x]] = TopicOf[x])'
    BY <1>5, <2>1 DEF TopicsInv, ListsLead
  <2> QED BY <1>0, <2>2, <2>3 DEF ListsLead
<1>7. ListsGrow'
  BY <1>0 DEF ListsGrow, Connecting
<1>8. PublisherMovesOn'
  BY <1>0, <1>5 DEF TopicsInv, PublisherMovesOn
<1> QED BY <1>2, <1>4, <1>6, <1>7, <1>8 DEF TopicsInv

LEMMA UnsubscribeKeeps ==
    ASSUME TopicsInv, NEW s \in Subscription, Unsubscribe(s)
    PROVE  TopicsInv'
<1> DEFINE L == listOfAllSubscriptions
           N == listOfAllSubscriptions'
           n == Len(L)
<1>0. PICK d \in 1 .. n : L[d] = s /\ removeFromList(d)
  BY DEF Unsubscribe
<1>1. /\ publishing = Silent /\ publishing' = Silent
      /\ mSubscriptions' = [t \in Topic |-> NoSub]
      /\ mNextTopicSubscription' = [x \in Subscription |-> NoSub]
      /\ rebuild' = [does |-> "connect", left |-> N]
      /\ N = SubSeq(L, 1, d - 1) \o SubSeq(L, d + 1, n)
  BY <1>0 DEF Unsubscribe, removeFromList
<1>2. L \in Seq(Subscription) /\ n \in Nat
  BY DEF TopicsInv, TopicsTypeOK
<1>3. /\ N \in Seq(Subscription) /\ Len(N) = n - 1 /\ n - 1 \in Nat
      /\ \A k \in 1 .. n - 1 : N[k] = IF k < d THEN L[k] ELSE L[k + 1]
  <2> DEFINE A == SubSeq(L, 1, d - 1)
             B == SubSeq(L, d + 1, n)
  <2>1. A \in Seq(Subscription) /\ Len(A) = d - 1 /\ \A k \in 1 .. d - 1 : A[k] = L[k]
    BY <1>2
  <2>2. B \in Seq(Subscription) /\ Len(B) = n - d /\ \A k \in 1 .. n - d : B[k] = L[d + k]
    BY <1>2
  <2> HIDE DEF A, B
  <2>3. N = A \o B
    BY <1>1 DEF A, B
  <2>4. /\ N \in Seq(Subscription) /\ Len(N) = n - 1
        /\ \A k \in 1 .. n - 1 : N[k] = IF k < d THEN A[k] ELSE B[k - (d - 1)]
    <3>1. N \in Seq(Subscription) /\ Len(N) = Len(A) + Len(B)
          /\ \A k \in 1 .. Len(A) + Len(B) :
               N[k] = IF k <= Len(A) THEN A[k] ELSE B[k - Len(A)]
      <4> HIDE DEF N
      <4>1. A \in Seq(Subscription) /\ B \in Seq(Subscription)
        BY <2>1, <2>2
      <4> QED BY <2>3, <4>1
    <3>2. Len(A) + Len(B) = n - 1 /\ \A k \in 1 .. n - 1 : (k <= Len(A) <=> k < d)
      BY <1>2, <2>1, <2>2
    <3> QED BY <2>1, <3>1, <3>2
  <2>5. ASSUME NEW k \in 1 .. n - 1, ~ (k < d) PROVE B[k - (d - 1)] = L[k + 1]
    <3>1. k - (d - 1) \in 1 .. n - d /\ d + (k - (d - 1)) = k + 1
      BY <1>2, <2>5
    <3> QED BY <2>2, <3>1
  <2>6. n - 1 \in Nat
    BY <1>2
  <2>7. ASSUME NEW k \in 1 .. n - 1 PROVE N[k] = IF k < d THEN L[k] ELSE L[k + 1]
    <3>1. CASE k < d
      <4>1. k \in 1 .. d - 1
        BY <1>2, <3>1
      <4> QED BY <2>1, <2>4, <3>1, <4>1
    <3>2. CASE ~ (k < d)
      BY <2>4, <2>5, <3>2
    <3> QED BY <3>1, <3>2
  <2> QED BY <2>4, <2>6, <2>7
<1>4. TopicsTypeOK'
  <2>1. N \in Seq(Subscription)
    BY <1>3
  <2>2. rebuild' \in [does : {"nothing", "connect", "head", "release"}, left : Seq(Subscription)]
    BY <1>1, <2>1
  <2>3. publishing' \in [topic : Topic \cup {NoSub}, at : Subscription \cup {NoSub},
                         called : Seq(Subscription)]
    BY <1>1 DEF Silent
  <2> QED BY <1>1, <2>1, <2>2, <2>3 DEF TopicsTypeOK
<1>5. ListsKnown'
  <2>1. \A j, k \in 1 .. n - 1 : N[j] = N[k] => j = k
    <3> SUFFICES ASSUME NEW j \in 1 .. n - 1, NEW k \in 1 .. n - 1, N[j] = N[k]
                 PROVE  j = k
      OBVIOUS
    <3>1. \A i, m \in 1 .. n : L[i] = L[m] => i = m
      BY DEF TopicsInv, ListsKnown
    <3>2. j \in 1 .. n /\ j + 1 \in 1 .. n /\ k \in 1 .. n /\ k + 1 \in 1 .. n
      BY <1>2
    <3>3. (IF j < d THEN j ELSE j + 1) = (IF k < d THEN k ELSE k + 1)
      BY <1>3, <3>1, <3>2
    <3> QED BY <3>3
  <2>2. rebuild'.left = N /\ rebuild'.does = "connect" /\ Len(N) \in Nat
    <3> HIDE DEF N, n
    <3> QED BY <1>1, <1>3
  <2> QED BY <1>3, <2>1, <2>2 DEF ListsKnown, Connected
<1>6. ListsLead'
  BY <1>1 DEF ListsLead
<1>7. ListsGrow'
  <2>1. Connected' = 0 /\ rebuild'.does = "connect"
    <3>1. rebuild'.left = N /\ rebuild'.does = "connect" /\ Connected' = Len(N) - Len(rebuild'.left)
      BY <1>1 DEF Connected
    <3>2. Len(N) \in Nat
      <4> HIDE DEF N, n
      <4> QED BY <1>3
    <3> QED BY <3>1, <3>2
  <2> QED BY <1>1, <2>1 DEF ListsGrow, LastOf
<1>8. PublisherMovesOn'
  BY <1>1 DEF PublisherMovesOn, Silent
<1> QED BY <1>4, <1>5, <1>6, <1>7, <1>8 DEF TopicsInv

LEMMA ConnectKeeps ==
    ASSUME TopicsInv, connectSubscriptionsToTopics
    PROVE  TopicsInv'
<1>1. /\ rebuild' = [does |-> "connect", left |-> listOfAllSubscriptions]
      /\ mSubscriptions' = [t \in Topic |-> NoSub]
      /\ UNCHANGED <<listOfAllSubscriptions, mNextTopicSubscription, publishing>>
  BY DEF connectSubscriptionsToTopics, clearSubscriptions
<1>2. listOfAllSubscriptions \in Seq(Subscription) /\ Len(listOfAllSubscriptions) \in Nat
  BY DEF TopicsInv, TopicsTypeOK
<1>3. TopicsTypeOK'
  BY <1>1, <1>2 DEF TopicsInv, TopicsTypeOK
<1>4. ListsKnown'
  BY <1>1, <1>2 DEF TopicsInv, ListsKnown, Connected
<1>5. ListsLead'
  BY <1>1, SameOrder DEF TopicsInv, ListsLead
<1>6. ListsGrow'
  <2>1. Connected' = 0 /\ rebuild'.does = "connect"
    BY <1>1, <1>2 DEF Connected
  <2> QED BY <1>1, <2>1 DEF ListsGrow, LastOf
<1>7. PublisherMovesOn'
  BY <1>1, SamePublisher DEF TopicsInv
<1> QED BY <1>3, <1>4, <1>5, <1>6, <1>7 DEF TopicsInv

(* The subscription that is connected next. *)
LEMMA NextToConnect ==
    ASSUME TopicsInv, rebuild.left # << >>
    PROVE  /\ Connected \in Nat /\ Connected + 1 \in 1 .. Len(listOfAllSubscriptions)
           /\ Head(rebuild.left) = listOfAllSubscriptions[Connected + 1]
           /\ Head(rebuild.left) \in Subscription
           /\ TopicOf[Head(rebuild.left)] \in Topic
<1>1. rebuild.left \in Seq(Subscription) /\ listOfAllSubscriptions \in Seq(Subscription)
  BY DEF TopicsInv, TopicsTypeOK
<1>2. Len(rebuild.left) \in Nat \ {0} /\ Len(listOfAllSubscriptions) \in Nat
      /\ Len(rebuild.left) <= Len(listOfAllSubscriptions)
  BY <1>1 DEF TopicsInv, ListsKnown
<1>3. Connected \in Nat /\ Connected + 1 \in 1 .. Len(listOfAllSubscriptions)
  BY <1>2 DEF Connected
<1>4. Head(rebuild.left) = rebuild.left[1] /\ Head(rebuild.left) \in Subscription
  BY <1>1
<1>5. rebuild.left[1] = listOfAllSubscriptions[Connected + 1]
  BY <1>2 DEF TopicsInv, ListsKnown
<1> QED BY <1>3, <1>4, <1>5, TopicsAssumption

LEMMA connectNextKeeps ==
    ASSUME TopicsInv, connectNext
    PROVE  TopicsInv'
<1> DEFINE s == Head(rebuild.left)
           L == listOfAllSubscriptions
           x == mSubscriptions[TopicOf[s]]
<1>1. /\ rebuild.does = "connect" /\ rebuild.left # << >>
      /\ mNextTopicSubscription' = [mNextTopicSubscription EXCEPT ![s] = x]
      /\ rebuild' = [rebuild EXCEPT !.does = "head"]
      /\ UNCHANGED <<listOfAllSubscriptions, mSubscriptions, publishing>>
  BY DEF connectNext
<1>2. /\ Connected \in Nat /\ Connected + 1 \in 1 .. Len(L)
      /\ s = L[Connected + 1] /\ s \in Subscription /\ TopicOf[s] \in Topic
  BY <1>1, NextToConnect
<1>3. L \in Seq(Subscription) /\ Len(L) \in Nat /\ x \in Subscription \cup {NoSub}
  BY <1>2 DEF TopicsInv, TopicsTypeOK
<1> HIDE DEF s, x
<1>4. rebuild'.does = "head" /\ rebuild'.left = rebuild.left /\ Connected' = Connected
  BY <1>1 DEF TopicsInv, TopicsTypeOK, Connected
<1>5. TopicsTypeOK'
  BY <1>1, <1>2, <1>3 DEF TopicsInv, TopicsTypeOK
<1>6. ListsKnown'
  BY <1>1, <1>4 DEF TopicsInv, ListsKnown
<1>7. LastOf(x, TopicOf[s], Connected)
  BY <1>1, <1>2 DEF TopicsInv, ListsGrow, Connecting, x
<1>8. x # NoSub => Newer(x, s) /\ TopicOf[x] = TopicOf[s]
  <2> SUFFICES ASSUME x # NoSub PROVE Newer(x, s) /\ TopicOf[x] = TopicOf[s]
    OBVIOUS
  <2>1. PICK j \in 1 .. Connected : L[j] = x /\ TopicOf[x] = TopicOf[s]
    BY <1>7 DEF LastOf
  <2>2. j \in 1 .. Len(L) /\ j < Connected + 1
    BY <1>2, <1>3
  <2> QED BY <1>2, <2>1, <2>2 DEF Newer
<1>9. ListsLead'
  <2>1. \A y \in Subscription : mNextTopicSubscription'[y] =
          IF y = s THEN x ELSE mNextTopicSubscription[y]
    BY <1>1 DEF TopicsInv, TopicsTypeOK
  <2>2. \A y \in Subscription : (Exists(y) /\ mNextTopicSubscription'[y] # NoSub) =>
         /\ Newer(mNextTopicSubscription'[y], y)
         /\ TopicOf[mNextTopicSubscription'[y]] = TopicOf[y]
    BY <1>8, <2>1 DEF TopicsInv, ListsLead
  <2>3. \A t \in Topic : mSubscriptions'[t] # NoSub =>
         Exists(mSubscriptions'[t]) /\ TopicOf[mSubscriptions'[t]] = t
    BY <1>1 DEF TopicsInv, ListsLead
  <2> QED BY <1>1, <2>2, <2>3, SameOrder DEF ListsLead
<1>10. ListsGrow'
  <2>1. \A y, t, m : LastOf(y, t, m)' <=> LastOf(y, t, m)
    BY <1>1 DEF LastOf
  <2>2. \A t \in Topic : LastOf(mSubscriptions'[t], t, Connected)
    BY <1>1 DEF TopicsInv, ListsGrow, Connecting
  <2>3. ASSUME NEW k \in 1 .. Connected + 1
        PROVE  LastOf(mNextTopicSubscription'[L[k]], TopicOf[L[k]], k - 1)
    <3>1. k \in 1 .. Len(L) /\ L[k] \in Subscription
      BY <1>2, <1>3
    <3>2. CASE k = Connected + 1
      <4>1. mNextTopicSubscription'[L[k]] = x /\ L[k] = s /\ k - 1 = Connected
        BY <1>1, <1>2, <3>2, SMTT(30) DEF TopicsInv, TopicsTypeOK
      <4> QED BY <1>7, <4>1
    <3>3. CASE k # Connected + 1
      <4>1. k \in 1 .. Connected
        BY <1>2, <3>3
      <4>2. L[k] # s
        BY <1>2, <3>1, <3>3 DEF TopicsInv, ListsKnown
      <4>3. mNextTopicSubscription'[L[k]] = mNextTopicSubscription[L[k]]
        BY <1>1, <3>1, <4>2 DEF TopicsInv, TopicsTypeOK
      <4>4. LastOf(mNextTopicSubscription[L[k]], TopicOf[L[k]], k - 1)
        <5>1. Connected + (IF rebuild.does = "head" THEN 1 ELSE 0) = Connected
          BY <1>1, <1>2
        <5> QED BY <1>1, <4>1, <5>1 DEF TopicsInv, ListsGrow, Connecting
      <4> QED BY <4>3, <4>4
    <3> QED BY <3>2, <3>3
  <2>4. Connected + (IF rebuild'.does = "head" THEN 1 ELSE 0) = Connected + 1
    BY <1>4
  <2> QED BY <1>1, <1>4, <2>1, <2>2, <2>3, <2>4 DEF ListsGrow
<1>11. PublisherMovesOn'
  BY <1>1, SamePublisher DEF TopicsInv
<1> QED BY <1>5, <1>6, <1>9, <1>10, <1>11 DEF TopicsInv

(* What is left without its first element. *)
LEMMA VisitNext ==
    ASSUME TopicsInv, rebuild.left # << >>, rebuild'.left = Tail(rebuild.left),
           rebuild'.does \in {"connect", "release"}, UNCHANGED listOfAllSubscriptions
    PROVE  /\ Connected' = Connected + 1 /\ ListsKnown' /\ rebuild'.left \in Seq(Subscription)
<1> DEFINE L == listOfAllSubscriptions
           a == rebuild.left
           b == Tail(a)
<1>1. a \in Seq(Subscription) /\ Len(a) \in Nat \ {0} /\ L \in Seq(Subscription)
      /\ Len(L) \in Nat
  BY DEF TopicsInv, TopicsTypeOK
<1>2. b \in Seq(Subscription) /\ Len(b) = Len(a) - 1 /\ \A k \in 1 .. Len(b) : b[k] = a[k + 1]
  BY <1>1
<1>3. Len(a) <= Len(L) /\ \A k \in 1 .. Len(a) : a[k] = L[Connected + k]
  BY DEF TopicsInv, ListsKnown
<1>4. Connected = Len(L) - Len(a) /\ Connected' = Len(L) - Len(b) /\ rebuild'.left = b
  BY DEF Connected
<1> HIDE DEF b, a
<1>5. Connected' = Connected + 1 /\ Connected \in Nat
  BY <1>1, <1>2, <1>3, <1>4
<1>6. \A k \in 1 .. Len(b) : b[k] = L[Connected' + k]
  <2> SUFFICES ASSUME NEW k \in 1 .. Len(b) PROVE b[k] = L[Connected' + k]
    OBVIOUS
  <2>1. k + 1 \in 1 .. Len(a) /\ k \in Nat
    BY <1>1, <1>2
  <2>2. Connected' + k = Connected + (k + 1)
    BY <1>5, <2>1
  <2> QED BY <1>2, <1>3, <2>1, <2>2
<1>7. Len(b) <= Len(L)
  BY <1>1, <1>2, <1>3
<1> QED BY <1>2, <1>4, <1>5, <1>6, <1>7 DEF TopicsInv, ListsKnown

LEMMA connectHeadKeeps ==
    ASSUME TopicsInv, connectHead
    PROVE  TopicsInv'
<1> DEFINE s == Head(rebuild.left)
           L == listOfAllSubscriptions
<1>1. /\ rebuild.does = "head" /\ rebuild.left # << >>
      /\ mSubscriptions' = [mSubscriptions EXCEPT ![TopicOf[s]] = s]
      /\ rebuild' = [does |-> "connect", left |-> Tail(rebuild.left)]
      /\ UNCHANGED <<listOfAllSubscriptions, mNextTopicSubscription, publishing>>
  BY DEF connectHead, TopicsInv, ListsKnown
<1>2. /\ Connected \in Nat /\ Connected + 1 \in 1 .. Len(L)
      /\ s = L[Connected + 1] /\ s \in Subscription /\ TopicOf[s] \in Topic
  BY <1>1, NextToConnect
<1> HIDE DEF s
<1>3. Connected' = Connected + 1 /\ ListsKnown' /\ rebuild'.left \in Seq(Subscription)
      /\ rebuild'.does = "connect"
  BY <1>1, VisitNext
<1>4. TopicsTypeOK'
  BY <1>1, <1>2, <1>3 DEF TopicsInv, TopicsTypeOK
<1>5. \A t \in Topic : mSubscriptions'[t] = IF t = TopicOf[s] THEN s ELSE mSubscriptions[t]
  BY <1>1 DEF TopicsInv, TopicsTypeOK
<1>6. ListsLead'
  <2>1. Exists(s)
    BY <1>2 DEF Exists
  <2>2. \A t \in Topic : mSubscriptions'[t] # NoSub =>
         Exists(mSubscriptions'[t]) /\ TopicOf[mSubscriptions'[t]] = t
    BY <1>5, <2>1 DEF TopicsInv, ListsLead
  <2> QED BY <1>1, <2>2, SameOrder DEF TopicsInv, ListsLead
<1>7. ListsGrow'
  <2>1. \A y, t, m : LastOf(y, t, m)' <=> LastOf(y, t, m)
    BY <1>1 DEF LastOf
  <2>2. ASSUME NEW t \in Topic PROVE LastOf(mSubscriptions'[t], t, Connected + 1)
    <3>1. CASE t = TopicOf[s]
      <4>1. Connected + 1 \in 1 .. Connected + 1
            /\ \A k \in (Connected + 1) + 1 .. Connected + 1 : TopicOf[L[k]] # t
        BY <1>2
      <4> QED BY <1>2, <1>5, <3>1, <4>1 DEF LastOf
    <3>2. CASE t # TopicOf[s]
      <4>1. LastOf(mSubscriptions[t], t, Connected)
        BY <1>1 DEF TopicsInv, ListsGrow, Connecting
      <4>2. mSubscriptions'[t] = mSubscriptions[t]
        BY <1>5, <3>2
      <4>3. TopicOf[L[Connected + 1]] # t
        BY <1>2, <3>2
      <4> HIDE DEF L
      <4>4. \A j \in Nat : \A k \in j .. Connected + 1 : k \in j .. Connected \/ k = Connected + 1
        BY <1>2
      <4>5. CASE mSubscriptions[t] = NoSub /\ \A k \in 1 .. Connected : TopicOf[L[k]] # t
        BY <4>2, <4>3, <4>4, <4>5 DEF LastOf, L
      <4>6. ASSUME NEW j \in 1 .. Connected, L[j] = mSubscriptions[t], TopicOf[L[j]] = t,
                   \A k \in j + 1 .. Connected : TopicOf[L[k]] # t
            PROVE  LastOf(mSubscriptions'[t], t, Connected + 1)
        <5>1. j \in 1 .. Connected + 1 /\ j + 1 \in Nat
          BY <1>2
        <5>2. \A k \in j + 1 .. Connected + 1 : TopicOf[L[k]] # t
          BY <4>3, <4>4, <4>6, <5>1
        <5> QED BY <4>2, <4>6, <5>1, <5>2 DEF LastOf, L
      <4> QED BY <4>1, <4>5, <4>6 DEF LastOf, L
    <3> QED BY <3>1, <3>2
  <2>3. \A k \in 1 .. Connected + 1 :
          LastOf(mNextTopicSubscription[L[k]], TopicOf[L[k]], k - 1)
    <3>1. Connected + (IF rebuild.does = "head" THEN 1 ELSE 0) = Connected + 1
      BY <1>1
    <3> QED BY <1>1, <3>1 DEF TopicsInv, ListsGrow, Connecting
  <2>4. Connected' + (IF rebuild'.does = "head" THEN 1 ELSE 0) = Connected + 1
    BY <1>2, <1>3
  <2> QED BY <1>1, <1>3, <2>1, <2>2, <2>3, <2>4 DEF ListsGrow
<1>8. PublisherMovesOn'
  BY <1>1, SamePublisher DEF TopicsInv
<1> QED BY <1>3, <1>4, <1>6, <1>7, <1>8 DEF TopicsInv

LEMMA releaseAllKeeps ==
    ASSUME TopicsInv, releaseAllSubscriptions
    PROVE  TopicsInv'
<1>1. /\ rebuild' = [does |-> "release", left |-> listOfAllSubscriptions]
      /\ UNCHANGED <<listOfAllSubscriptions, mSubscriptions, mNextTopicSubscription, publishing>>
  BY DEF releaseAllSubscriptions
<1>2. listOfAllSubscriptions \in Seq(Subscription) /\ Len(listOfAllSubscriptions) \in Nat
  BY DEF TopicsInv, TopicsTypeOK
<1>3. TopicsTypeOK'
  BY <1>1, <1>2 DEF TopicsInv, TopicsTypeOK
<1>4. ListsKnown'
  BY <1>1, <1>2 DEF TopicsInv, ListsKnown, Connected
<1>5. ListsLead'
  BY <1>1, SameOrder DEF TopicsInv, ListsLead
<1>6. ListsGrow'
  BY <1>1 DEF ListsGrow, Connecting
<1>7. PublisherMovesOn'
  BY <1>1, SamePublisher DEF TopicsInv
<1> QED BY <1>3, <1>4, <1>5, <1>6, <1>7 DEF TopicsInv

LEMMA releaseNextKeeps ==
    ASSUME TopicsInv, releaseNext
    PROVE  TopicsInv'
<1> DEFINE s == Head(rebuild.left)
<1>1. /\ rebuild.does = "release" /\ rebuild.left # << >>
      /\ mNextTopicSubscription' = [mNextTopicSubscription EXCEPT ![s] = NoSub]
      /\ rebuild' = [rebuild EXCEPT !.left = Tail(rebuild.left)]
      /\ UNCHANGED <<listOfAllSubscriptions, mSubscriptions, publishing>>
  BY DEF releaseNext
<1>2. rebuild'.does = "release" /\ rebuild'.left = Tail(rebuild.left)
  BY <1>1 DEF TopicsInv, TopicsTypeOK
<1>3. ListsKnown' /\ rebuild'.left \in Seq(Subscription)
  BY <1>1, <1>2, VisitNext
<1>4. s \in Subscription
  BY <1>1, NextToConnect
<1> HIDE DEF s
<1>5. TopicsTypeOK'
  BY <1>1, <1>2, <1>3, <1>4 DEF TopicsInv, TopicsTypeOK
<1>6. ListsLead'
  <2>1. \A y \in Subscription : mNextTopicSubscription'[y] =
          IF y = s THEN NoSub ELSE mNextTopicSubscription[y]
    BY <1>1 DEF TopicsInv, TopicsTypeOK
  <2>2. \A y \in Subscription : (Exists(y) /\ mNextTopicSubscription'[y] # NoSub) =>
         /\ Newer(mNextTopicSubscription'[y], y)
         /\ TopicOf[mNextTopicSubscription'[y]] = TopicOf[y]
    BY <2>1 DEF TopicsInv, ListsLead
  <2> QED BY <1>1, <2>2, SameOrder DEF TopicsInv, ListsLead
<1>7. ListsGrow'
  BY <1>2 DEF ListsGrow, Connecting
<1>8. PublisherMovesOn'
  BY <1>1, SamePublisher DEF TopicsInv
<1> QED BY <1>3, <1>5, <1>6, <1>7, <1>8 DEF TopicsInv

LEMMA rebuildEndKeeps ==
    ASSUME TopicsInv, rebuildEnd
    PROVE  TopicsInv'
<1>1. /\ rebuild' = AtRest
      /\ mSubscriptions' = mSubscriptions \/ mSubscriptions' = [t \in Topic |-> NoSub]
      /\ UNCHANGED <<listOfAllSubscriptions, mNextTopicSubscription, publishing>>
  BY DEF rebuildEnd, clearSubscriptions
<1>2. rebuild'.does = "nothing" /\ rebuild'.left = << >> /\ Len(rebuild'.left) = 0
      /\ Len(listOfAllSubscriptions) \in Nat
  BY <1>1 DEF AtRest, TopicsInv, TopicsTypeOK
<1>3. TopicsTypeOK'
  BY <1>1 DEF TopicsInv, TopicsTypeOK, AtRest
<1>4. ListsKnown'
  BY <1>1, <1>2 DEF TopicsInv, ListsKnown
<1>5. ListsLead'
  BY <1>1, SameOrder DEF TopicsInv, ListsLead
<1>6. ListsGrow'
  BY <1>2 DEF ListsGrow, Connecting
<1>7. PublisherMovesOn'
  BY <1>1, SamePublisher DEF TopicsInv
<1> QED BY <1>3, <1>4, <1>5, <1>6, <1>7 DEF TopicsInv

LEMMA publisherKeeps ==
    ASSUME TopicsInv, (\E t \in Topic : publish(t)) \/ execute \/ publishEnd
    PROVE  TopicsInv'
<1>1. UNCHANGED <<listOfAllSubscriptions, mSubscriptions, mNextTopicSubscription, rebuild>>
  BY DEF publish, execute, publishEnd
<1>2. ListsKnown' /\ ListsLead' /\ ListsGrow'
  <2>1. ListsKnown'
    BY <1>1 DEF TopicsInv, ListsKnown, Connected
  <2>2. ListsLead'
    BY <1>1, SameOrder DEF TopicsInv, ListsLead
  <2>3. ListsGrow'
    BY <1>1 DEF TopicsInv, ListsGrow, Connecting, Connected, LastOf
  <2> QED BY <2>1, <2>2, <2>3
<1>3. ASSUME NEW t \in Topic, publish(t) PROVE TopicsTypeOK' /\ PublisherMovesOn'
  <2>1. publishing' = [topic |-> t, at |-> mSubscriptions[t], called |-> << >>]
    BY <1>3 DEF publish
  <2>2. TopicsTypeOK'
    BY <1>1, <2>1 DEF TopicsInv, TopicsTypeOK
  <2>3. publishing'.at = mSubscriptions[t] /\ publishing'.topic = t
        /\ publishing'.called = << >> /\ Len(publishing'.called) = 0
    BY <2>1
  <2>4. (publishing.at # NoSub =>
            Exists(publishing.at) /\ TopicOf[publishing.at] = publishing.topic)'
    BY <1>1, <2>3, SameOrder DEF TopicsInv, ListsLead
  <2> QED BY <2>2, <2>3, <2>4 DEF PublisherMovesOn
<1>4. ASSUME execute PROVE TopicsTypeOK' /\ PublisherMovesOn'
  <2> DEFINE a == publishing.at
             b == mNextTopicSubscription[a]
             c == publishing.called
  <2>1. /\ a # NoSub /\ a \in Subscription /\ c \in Seq(Subscription) /\ Len(c) \in Nat
        /\ b \in Subscription \cup {NoSub} /\ publishing.topic \in Topic \cup {NoSub}
    BY <1>4 DEF execute, TopicsInv, TopicsTypeOK
  <2>2. publishing' = [publishing EXCEPT !.called = Append(c, a), !.at = b]
    BY <1>4 DEF execute
  <2>3. publishing'.at = b /\ publishing'.called = Append(c, a)
        /\ publishing'.topic = publishing.topic
    BY <2>2 DEF TopicsInv, TopicsTypeOK
  <2>4. Append(c, a) \in Seq(Subscription) /\ Len(Append(c, a)) = Len(c) + 1
        /\ \A i \in 1 .. Len(c) : Append(c, a)[i] = c[i]
        /\ Append(c, a)[Len(c) + 1] = a
    BY <2>1
  <2>5. TopicsTypeOK'
    BY <1>1, <2>1, <2>2, <2>4 DEF TopicsInv, TopicsTypeOK
  <2>6. Exists(a) /\ TopicOf[a] = publishing.topic
    BY <2>1 DEF TopicsInv, PublisherMovesOn
  <2>7. b # NoSub => Newer(b, a) /\ Exists(b) /\ TopicOf[b] = publishing.topic
    BY <2>1, <2>6, NewerOrder DEF TopicsInv, ListsLead
  <2>8. \A i \in 1 .. Len(c) :
          /\ Exists(c[i]) /\ TopicOf[c[i]] = publishing.topic /\ Newer(a, c[i])
          /\ \A j \in 1 .. Len(c) : i < j => Newer(c[j], c[i])
    BY <2>1 DEF TopicsInv, PublisherMovesOn
  <2>9. \A i \in 1 .. Len(c) : b # NoSub => Newer(b, c[i])
    BY <2>7, <2>8, NewerOrder DEF TopicsInv
  <2> DEFINE e == Append(c, a)
  <2>10. \A i \in 1 .. Len(e) : i \in 1 .. Len(c) \/ i = Len(c) + 1
    BY <2>1, <2>4
  <2> HIDE DEF a, b, c, e
  <2>11. \A i \in 1 .. Len(e) :
          /\ Exists(e[i]) /\ TopicOf[e[i]] = publishing.topic
          /\ b # NoSub => Newer(b, e[i])
    BY <2>4, <2>6, <2>7, <2>8, <2>9, <2>10 DEF e
  <2>12. ASSUME NEW i \in 1 .. Len(e), NEW j \in 1 .. Len(e), i < j
         PROVE  Newer(e[j], e[i])
    <3>1. i \in 1 .. Len(c) /\ e[i] = c[i]
      BY <2>1, <2>4, <2>12 DEF e
    <3>2. CASE j = Len(c) + 1
      BY <2>4, <2>8, <3>1, <3>2 DEF e
    <3>3. CASE j \in 1 .. Len(c)
      BY <2>4, <2>8, <2>12, <3>1, <3>3 DEF e
    <3> QED BY <2>10, <3>2, <3>3
  <2>13. publishing'.called = e
    BY <2>3 DEF e
  <2>14. /\ \A x : Exists(x)' <=> Exists(x)
         /\ \A x, y : Newer(x, y)' <=> Newer(x, y)
    BY <1>1, SameOrder
  <2>15. (publishing.at # NoSub =>
            Exists(publishing.at) /\ TopicOf[publishing.at] = publishing.topic)'
    BY <2>3, <2>7, <2>14
  <2>16. \A i \in 1 .. Len(publishing'.called) :
           (/\ Exists(publishing.called[i])
            /\ TopicOf[publishing.called[i]] = publishing.topic
            /\ publishing.at # NoSub => Newer(publishing.at, publishing.called[i]))'
    BY <2>3, <2>11, <2>13, <2>14
  <2>17. \A i, j \in 1 .. Len(publishing'.called) :
           (i < j => Newer(publishing.called[j], publishing.called[i]))'
    BY <2>12, <2>13, <2>14
  <2>18. PublisherMovesOn'
    BY <2>15, <2>16, <2>17 DEF PublisherMovesOn
  <2> QED BY <2>5, <2>18
<1>5. ASSUME publishEnd PROVE TopicsTypeOK' /\ PublisherMovesOn'
  <2>1. publishing' = Silent
    BY <1>5 DEF publishEnd
  <2>2. TopicsTypeOK'
    BY <1>1, <2>1 DEF TopicsInv, TopicsTypeOK, Silent
  <2>3. PublisherMovesOn'
    BY <2>1 DEF PublisherMovesOn, Silent
  <2> QED BY <2>2, <2>3
<1> QED BY <1>2, <1>3, <1>4, <1>5 DEF TopicsInv

(* The lists are made of what is connected, and a publisher moves along    *)
(* the list of all subscriptions.                                          *)
THEOREM TopicsInductive == TopicsSpec => []TopicsInv
<1>1. ASSUME TopicsInv, [TopicsNext]_topicVars PROVE TopicsInv'
  <2>1. ASSUME NEW s \in Subscription, Subscribe(s) PROVE TopicsInv'
    BY <1>1, <2>1, SubscribeKeeps
  <2>2. ASSUME NEW s \in Subscription, Unsubscribe(s) PROVE TopicsInv'
    BY <1>1, <2>2, UnsubscribeKeeps
  <2>3. CASE connectSubscriptionsToTopics
    BY <1>1, <2>3, ConnectKeeps
  <2>4. CASE connectNext
    BY <1>1, <2>4, connectNextKeeps
  <2>5. CASE connectHead
    BY <1>1, <2>5, connectHeadKeeps
  <2>6. CASE releaseAllSubscriptions
    BY <1>1, <2>6, releaseAllKeeps
  <2>7. CASE releaseNext
    BY <1>1, <2>7, releaseNextKeeps
  <2>8. CASE rebuildEnd
    BY <1>1, <2>8, rebuildEndKeeps
  <2>9. CASE (\E t \in Topic : publish(t)) \/ execute \/ publishEnd
    BY <1>1, <2>9, publisherKeeps
  <2>10. CASE UNCHANGED topicVars
    BY <1>1, <2>10 DEF topicVars, TopicsInv, TopicsTypeOK, ListsKnown, ListsLead, ListsGrow,
       PublisherMovesOn, Connected, Connecting, LastOf, Newer, Exists
  <2> QED BY <1>1, <2>1, <2>2, <2>3, <2>4, <2>5, <2>6, <2>7, <2>8, <2>9, <2>10 DEF TopicsNext
<1> QED BY <1>1, TopicsInitInv, PTL DEF TopicsSpec

LEMMA OnceCalled == TopicsInv => CalledOnce
<1> SUFFICES ASSUME TopicsInv PROVE CalledOnce
  OBVIOUS
<1> DEFINE c == publishing.called
<1>1. Len(c) \in Nat
  BY DEF TopicsInv, TopicsTypeOK
<1>2. ASSUME NEW i \in 1 .. Len(c), NEW j \in 1 .. Len(c), i # j PROVE c[i] # c[j]
  <2>1. i < j \/ j < i
    BY <1>1, <1>2
  <2>2. Newer(c[j], c[i]) \/ Newer(c[i], c[j])
    BY <2>1 DEF TopicsInv, PublisherMovesOn
  <2> QED BY <2>2, NewerOrder DEF TopicsInv
<1> QED BY <1>2 DEF CalledOnce, TopicsInv, PublisherMovesOn

(* A subscription that a set of the kind of ListOf() lacks is the last of  *)
(* those, and its successor in the list of all leads to it.                *)
LEMMA CompleteLists == TopicsInv => ListsComplete
<1> SUFFICES ASSUME TopicsInv, rebuild.does = "connect", rebuild.left = << >>, NEW t \in Topic
             PROVE  ListOf(t) = {s \in Subscription : Exists(s) /\ TopicOf[s] = t}
  BY DEF ListsComplete
<1> DEFINE L == listOfAllSubscriptions
           n == Len(L)
           S == {s \in Subscription : Exists(s) /\ TopicOf[s] = t}
<1>1. n \in Nat /\ L \in Seq(Subscription) /\ Connected = n
  BY DEF TopicsInv, TopicsTypeOK, Connected
<1>2. LastOf(mSubscriptions[t], t, n)
  BY <1>1 DEF TopicsInv, ListsGrow, Connecting
<1>3. \A k \in 1 .. n : LastOf(mNextTopicSubscription[L[k]], TopicOf[L[k]], k - 1)
  <2>1. Connected + (IF rebuild.does = "head" THEN 1 ELSE 0) = n
    BY <1>1
  <2> QED BY <2>1 DEF TopicsInv, ListsGrow, Connecting
<1>4. Holds(S, t)
  <2>1. mSubscriptions[t] \in S \cup {NoSub}
    BY DEF TopicsInv, ListsLead, TopicsTypeOK
  <2>2. ASSUME NEW s \in S PROVE mNextTopicSubscription[s] \in S \cup {NoSub}
    <3>1. mNextTopicSubscription[s] \in Subscription \cup {NoSub}
      BY DEF TopicsInv, TopicsTypeOK
    <3>2. mNextTopicSubscription[s] # NoSub =>
            Newer(mNextTopicSubscription[s], s) /\ TopicOf[mNextTopicSubscription[s]] = t
      BY DEF TopicsInv, ListsLead
    <3>3. mNextTopicSubscription[s] # NoSub => Exists(mNextTopicSubscription[s])
      BY <3>2, NewerOrder DEF TopicsInv
    <3> QED BY <3>1, <3>2, <3>3
  <2> QED BY <2>1, <2>2 DEF Holds
<1>5. ListOf(t) \subseteq S
  <2>1. S \in SUBSET Subscription
    OBVIOUS
  <2> HIDE DEF S
  <2> QED BY <1>4, <2>1 DEF ListOf
<1>6. ASSUME NEW R \in SUBSET Subscription, Holds(R, t) PROVE S \subseteq R
  <2> DEFINE Lack == {k \in 1 .. n : TopicOf[L[k]] = t /\ L[k] \notin R}
             Back == {n - k : k \in Lack}
  <2> SUFFICES ASSUME Lack # {} PROVE FALSE
    BY DEF Exists
  <2>1. Back \in SUBSET Nat /\ Back # {}
    BY <1>1
  <2>2. PICK m \in Back : \A y \in Back : m <= y
    BY <2>1, LeastElement
  <2>3. PICK k \in Lack : m = n - k
    OBVIOUS
  <2>4. \A u \in 1 .. n : TopicOf[L[u]] = t /\ u > k => L[u] \in R
    <3> SUFFICES ASSUME NEW u \in 1 .. n, TopicOf[L[u]] = t, u > k, L[u] \notin R PROVE FALSE
      OBVIOUS
    <3>1. n - u \in Back
      OBVIOUS
    <3>2. n - k <= n - u /\ k \in 1 .. n
      BY <2>2, <2>3, <3>1
    <3> HIDE DEF Back, Lack
    <3> QED BY <1>1, <3>2
  <2>5. k \in 1 .. n /\ TopicOf[L[k]] = t /\ L[k] \notin R
    OBVIOUS
  <2> DEFINE U == {u \in k + 1 .. n : TopicOf[L[u]] = t}
  <2>6. U \in SUBSET Nat
    BY <2>5
  <2>7. CASE U = {}
    <3> DEFINE x == mSubscriptions[t]
    <3>1. x # NoSub
      BY <1>2, <2>5, TopicsAssumption DEF LastOf, TopicsInv, TopicsTypeOK
    <3>2. PICK j \in 1 .. n : L[j] = x /\ TopicOf[x] = t
                              /\ \A i \in j + 1 .. n : TopicOf[L[i]] # t
      BY <1>2, <3>1 DEF LastOf
    <3>3. ~ (j < k)
      BY <1>1, <2>5, <3>2
    <3>4. ~ (k < j)
      BY <1>1, <2>5, <2>7, <3>2
    <3>5. j = k
      BY <2>5, <3>3, <3>4
    <3> QED BY <1>6, <2>5, <3>1, <3>2, <3>5 DEF Holds
  <2>8. CASE U # {}
    <3>1. PICK u \in U : \A y \in U : u <= y
      BY <2>6, <2>8, LeastElement
    <3>2. u \in 1 .. n /\ u > k /\ TopicOf[L[u]] = t
      BY <1>1, <2>5
    <3>3. L[u] \in R
      BY <2>4, <3>2
    <3> DEFINE x == mNextTopicSubscription[L[u]]
    <3>4. LastOf(x, t, u - 1)
      BY <1>3, <3>2
    <3>5. k \in 1 .. u - 1
      BY <2>5, <3>2
    <3> HIDE DEF x
    <3>6. x # NoSub
      BY <2>5, <3>4, <3>5, <1>1, TopicsAssumption DEF LastOf
    <3>7. PICK j \in 1 .. u - 1 : L[j] = x /\ TopicOf[x] = t
                                  /\ \A i \in j + 1 .. u - 1 : TopicOf[L[i]] # t
      BY <3>4, <3>6 DEF LastOf
    <3>8. ~ (j < k)
      BY <2>5, <3>2, <3>5, <3>7
    <3>9. ~ (k < j)
      <4> SUFFICES ASSUME k < j PROVE FALSE
        OBVIOUS
      <4>1. j \in U
        BY <1>1, <2>5, <3>2, <3>7
      <4>2. j < u /\ u <= j
        BY <3>1, <3>2, <4>1
      <4> QED BY <3>2, <4>2
    <3>10. j = k
      BY <2>5, <3>2, <3>8, <3>9
    <3>11. x \in R
      BY <1>6, <3>3, <3>6 DEF Holds, x
    <3> QED BY <2>5, <3>7, <3>10, <3>11
  <2> QED BY <2>7, <2>8
<1>7. S \subseteq ListOf(t)
  <2>1. S \subseteq Subscription
    OBVIOUS
  <2> HIDE DEF S
  <2> QED BY <1>6, <2>1 DEF ListOf
<1> QED BY <1>5, <1>7

(* Each subscriber of a topic is given a message once, and the lists are   *)
(* complete after connectSubscriptionsToTopics(), for any number of topics *)
(* and subscriptions and in whatever order they come and go.               *)
THEOREM TopicsAreSound == TopicsSpec => []TopicsSound
<1>1. TopicsInv => TopicsSound
  BY OnceCalled, CompleteLists DEF TopicsSound
<1> QED BY <1>1, TopicsInductive, PTL
-----------------------------------------------------------------------------
(* The parameter store *)

LEMMA MiddleBetween ==
    ASSUME NEW l \in Int, NEW r \in Int, l <= r
    PROVE  Middle(l, r) \in Int /\ l <= Middle(l, r) /\ Middle(l, r) <= r
  BY DEF Middle

(* The equation that search satisfies, and a function that satisfies it for *)
(* the windows of n elements or less.                                      *)
Look(f, l, r, id) ==
    IF l > r THEN -1
    ELSE IF mParameters[Middle(l, r) + 1] = id THEN Middle(l, r)
    ELSE IF mParameters[Middle(l, r) + 1] < id THEN f[<<Middle(l, r) + 1, r>>]
    ELSE f[<<l, Middle(l, r) - 1>>]
Looks(f, id, n) ==
    \A l \in 0 .. StoreSize, r \in -1 .. StoreSize - 1 :
        r - l < n => f[<<l, r>>] = Look(f, l, r, id)

LEMMA LookNarrower ==
    ASSUME NEW l \in 0 .. StoreSize, NEW r \in -1 .. StoreSize - 1, l <= r
    PROVE  /\ Middle(l, r) + 1 \in 0 .. StoreSize /\ Middle(l, r) - 1 \in -1 .. StoreSize - 1
           /\ Middle(l, r) + 1 \in 1 .. StoreSize
           /\ r - (Middle(l, r) + 1) < r - l /\ (Middle(l, r) - 1) - l < r - l
<1> DEFINE m == Middle(l, r)
<1>1. m \in Int /\ l <= m /\ m <= r
  BY MiddleBetween
<1> HIDE DEF m
<1>2. /\ m + 1 \in 0 .. StoreSize /\ m - 1 \in -1 .. StoreSize - 1
      /\ m + 1 \in 1 .. StoreSize /\ r - (m + 1) < r - l /\ (m - 1) - l < r - l
  BY <1>1, StoreAssumption
<1> QED BY <1>2 DEF m

LEMMA SearchExists ==
    ASSUME NEW id, NEW n \in Nat, mParameters \in [1 .. StoreSize -> Nat]
    PROVE  \E f \in [Window -> Int] : Looks(f, id, n)
<1> DEFINE T == {k \in Nat : ~ \E f \in [Window -> Int] : Looks(f, id, k)}
<1> SUFFICES T = {}
  OBVIOUS
<1> SUFFICES ASSUME T # {} PROVE FALSE
  OBVIOUS
<1>1. PICK k \in T : \A j \in T : k <= j
  BY LeastElement
<1>2. k # 0
  <2> DEFINE f == [x \in Window |-> -1]
  <2>1. f \in [Window -> Int]
    OBVIOUS
  <2>2. Looks(f, id, 0)
    BY StoreAssumption DEF Looks, Look, Window
  <2> QED BY <2>1, <2>2
<1>3. k - 1 \in Nat /\ k - 1 \notin T
  BY <1>1, <1>2
<1>4. PICK f \in [Window -> Int] : Looks(f, id, k - 1)
  BY <1>3
<1> DEFINE g == [x \in Window |-> Look(f, x[1], x[2], id)]
<1>5. ASSUME NEW l \in 0 .. StoreSize, NEW r \in -1 .. StoreSize - 1
      PROVE  g[<<l, r>>] = Look(f, l, r, id) /\ Look(f, l, r, id) \in Int
  <2>1. <<l, r>> \in Window
    BY DEF Window
  <2>2. g[<<l, r>>] = Look(f, l, r, id)
    BY <2>1
  <2>3. CASE l > r
    BY <2>2, <2>3, StoreAssumption DEF Look
  <2>4. CASE l <= r
    <3>1. <<Middle(l, r) + 1, r>> \in Window /\ <<l, Middle(l, r) - 1>> \in Window
      BY <2>4, LookNarrower DEF Window
    <3>2. Middle(l, r) \in Int
      BY <2>4, MiddleBetween, StoreAssumption
    <3> QED BY <2>2, <2>4, <3>1, <3>2, StoreAssumption DEF Look
  <2> QED BY <2>3, <2>4, StoreAssumption
<1>6. g \in [Window -> Int]
  BY <1>5 DEF Window
<1> HIDE DEF g
<1>7. ASSUME NEW l \in 0 .. StoreSize, NEW r \in -1 .. StoreSize - 1, r - l < k - 1
      PROVE  g[<<l, r>>] = f[<<l, r>>]
  BY <1>4, <1>5, <1>7 DEF Looks
<1>8. ASSUME NEW l \in 0 .. StoreSize, NEW r \in -1 .. StoreSize - 1, r - l < k
      PROVE  g[<<l, r>>] = Look(g, l, r, id)
  <2>1. CASE l > r
    BY <1>5, <2>1 DEF Look
  <2>2. CASE l <= r
    <3> DEFINE m == Middle(l, r)
    <3>1. /\ m + 1 \in 0 .. StoreSize /\ m - 1 \in -1 .. StoreSize - 1
          /\ r - (m + 1) < k - 1 /\ (m - 1) - l < k - 1
      <4>1. /\ m \in Int /\ m + 1 \in 0 .. StoreSize /\ m - 1 \in -1 .. StoreSize - 1
            /\ r - (m + 1) < r - l /\ (m - 1) - l < r - l
        BY <2>2, LookNarrower, MiddleBetween
      <4> HIDE DEF m
      <4> QED BY <1>1, <1>8, <4>1
    <3>2. g[<<m + 1, r>>] = f[<<m + 1, r>>] /\ g[<<l, m - 1>>] = f[<<l, m - 1>>]
      BY <1>7, <3>1
    <3>3. Look(g, l, r, id) = Look(f, l, r, id)
      BY <3>2 DEF Look
    <3> QED BY <1>5, <3>3
  <2> QED BY <2>1, <2>2, StoreAssumption
<1>9. Looks(g, id, k)
  BY <1>8 DEF Looks
<1> QED BY <1>1, <1>6, <1>9

(* search is a function that satisfies its equation. *)
LEMMA SearchDef ==
    ASSUME NEW id, mParameters \in [1 .. StoreSize -> Nat], mCount \in 0 .. StoreSize
    PROVE  \E f : /\ Looks(f, id, StoreSize + 1)
                  /\ findInternal(id) = f[<<0, mCount - 1>>]
<1> DEFINE Step(f) == [w \in Window |-> Look(f, w[1], w[2], id)]
           search == CHOOSE f : f = Step(f)
<1>0. StoreSize + 1 \in Nat
  BY StoreAssumption
<1>1. PICK f \in [Window -> Int] : Looks(f, id, StoreSize + 1)
  BY <1>0, SearchExists
<1>2. ASSUME NEW l \in 0 .. StoreSize, NEW r \in -1 .. StoreSize - 1
      PROVE  f[<<l, r>>] = Look(f, l, r, id)
  BY <1>1, StoreAssumption DEF Looks
<1>3. f = Step(f)
  <2>1. ASSUME NEW w \in Window PROVE f[w] = Look(f, w[1], w[2], id)
    <3>1. w[1] \in 0 .. StoreSize /\ w[2] \in -1 .. StoreSize - 1 /\ w = <<w[1], w[2]>>
      BY DEF Window
    <3> QED BY <1>2, <3>1
  <2> QED BY <2>1
<1>4. search = Step(search)
  BY <1>3
<1>5. findInternal(id) = search[<<0, mCount - 1>>]
  BY DEF findInternal, Look
<1> HIDE DEF search
<1>6. ASSUME NEW l \in 0 .. StoreSize, NEW r \in -1 .. StoreSize - 1
      PROVE  search[<<l, r>>] = Look(search, l, r, id)
  <2>1. <<l, r>> \in Window
    BY DEF Window
  <2>2. Step(search)[<<l, r>>] = Look(search, l, r, id)
    BY <2>1
  <2> QED BY <1>4, <2>2
<1>7. Looks(search, id, StoreSize + 1)
  BY <1>6 DEF Looks
<1> QED BY <1>5, <1>7

(* The search returns a position that holds the identifier, or -1 if no *)
(* position of the window does.                                         *)
FoundAt(l, r, id, k) ==
    \/ k \in l .. r /\ mParameters[k + 1] = id
    \/ k = -1 /\ \A j \in l .. r : mParameters[j + 1] # id

LEMMA SearchFinds ==
    ASSUME NEW id \in Nat, mParameters \in [1 .. StoreSize -> Nat], mCount \in 0 .. StoreSize,
           \A i, j \in 1 .. mCount : i < j => mParameters[i] < mParameters[j]
    PROVE  FoundAt(0, mCount - 1, id, findInternal(id))
<1>0. mCount \in Nat /\ mCount <= StoreSize /\ StoreSize \in Nat
  BY StoreAssumption
<1>1. PICK f : /\ Looks(f, id, StoreSize + 1)
               /\ findInternal(id) = f[<<0, mCount - 1>>]
  BY SearchDef
<1> DEFINE T == {k \in Nat : \E l \in 0 .. mCount, r \in -1 .. mCount - 1 :
                   r - l < k /\ ~ FoundAt(l, r, id, f[<<l, r>>])}
<1>2. T = {}
  <2> SUFFICES ASSUME T # {} PROVE FALSE
    OBVIOUS
  <2>1. PICK k \in T : \A j \in T : k <= j
    BY LeastElement
  <2>2. PICK l \in 0 .. mCount, r \in -1 .. mCount - 1 :
          r - l < k /\ ~ FoundAt(l, r, id, f[<<l, r>>])
    BY <2>1
  <2>3. f[<<l, r>>] = Look(f, l, r, id)
    BY <1>1, StoreAssumption DEF Looks
  <2>4. ASSUME NEW a \in 0 .. mCount, NEW b \in -1 .. mCount - 1, b - a < r - l, l <= r
        PROVE  FoundAt(a, b, id, f[<<a, b>>])
    <3>1. r - l \in Nat /\ ~ (k <= r - l)
      BY <1>0, <2>1, <2>2, <2>4
    <3>2. r - l \notin T
      BY <2>1, <3>1
    <3> QED BY <2>4, <3>1, <3>2
  <2>5. CASE l > r
    BY <2>2, <2>3, <2>5 DEF Look, FoundAt
  <2>6. CASE l <= r
    <3> DEFINE m == Middle(l, r)
    <3>1. /\ m \in Int /\ l <= m /\ m <= r
      <4>1. l \in Int /\ r \in Int
        BY <1>0
      <4> QED BY <2>6, <4>1, MiddleBetween
    <3>2. f[<<l, r>>] = IF mParameters[m + 1] = id THEN m
                      ELSE IF mParameters[m + 1] < id THEN f[<<m + 1, r>>] ELSE f[<<l, m - 1>>]
      BY <2>3, <2>6 DEF Look
    <3> HIDE DEF m
    <3>3. /\ m + 1 \in 0 .. mCount /\ m - 1 \in -1 .. mCount - 1 /\ m + 1 \in 1 .. mCount
          /\ r - (m + 1) < r - l /\ (m - 1) - l < r - l
      BY <1>0, <2>6, <3>1
    <3>4. mParameters[m + 1] \in Nat
      BY <1>0, <3>3
    <3>5. CASE mParameters[m + 1] = id
      BY <2>2, <3>1, <3>2, <3>5 DEF FoundAt
    <3>6. CASE mParameters[m + 1] < id
      <4>1. FoundAt(m + 1, r, id, f[<<m + 1, r>>])
        BY <2>4, <2>6, <3>3
      <4>2. f[<<l, r>>] = f[<<m + 1, r>>]
        BY <3>2, <3>4, <3>6
      <4>3. \A j \in l .. m : mParameters[j + 1] # id
        <5> SUFFICES ASSUME NEW j \in l .. m PROVE mParameters[j + 1] # id
          OBVIOUS
        <5>1. j + 1 \in 1 .. mCount /\ j + 1 <= m + 1 /\ m + 1 \in 1 .. mCount
          BY <1>0, <3>1, <3>3
        <5>2. mParameters[j + 1] \in Nat
          BY <1>0, <5>1
        <5>3. CASE j + 1 = m + 1
          BY <3>4, <3>6, <5>3
        <5>4. CASE j + 1 < m + 1
          <6>1. mParameters[j + 1] < mParameters[m + 1]
            BY <5>1, <5>4
          <6> QED BY <3>4, <3>6, <5>2, <6>1
        <5> QED BY <5>1, <5>3, <5>4
      <4>4. FoundAt(l, r, id, f[<<m + 1, r>>])
        BY <3>1, <4>1, <4>3 DEF FoundAt
      <4> QED BY <2>2, <4>2, <4>4
    <3>7. CASE mParameters[m + 1] > id
      <4>1. FoundAt(l, m - 1, id, f[<<l, m - 1>>])
        BY <2>4, <2>6, <3>3
      <4>2. f[<<l, r>>] = f[<<l, m - 1>>]
        BY <3>2, <3>4, <3>7
      <4>3. \A j \in m .. r : mParameters[j + 1] # id
        <5> SUFFICES ASSUME NEW j \in m .. r PROVE mParameters[j + 1] # id
          OBVIOUS
        <5>1. j + 1 \in 1 .. mCount /\ m + 1 <= j + 1 /\ m + 1 \in 1 .. mCount
          BY <1>0, <3>1, <3>3
        <5>2. mParameters[j + 1] \in Nat
          BY <1>0, <5>1
        <5>3. CASE j + 1 = m + 1
          BY <3>4, <3>7, <5>3
        <5>4. CASE m + 1 < j + 1
          <6>1. mParameters[m + 1] < mParameters[j + 1]
            BY <5>1, <5>4
          <6> QED BY <3>4, <3>7, <5>2, <6>1
        <5> QED BY <5>1, <5>3, <5>4
      <4>4. FoundAt(l, r, id, f[<<l, m - 1>>])
        BY <3>1, <4>1, <4>3 DEF FoundAt
      <4> QED BY <2>2, <4>2, <4>4
    <3> QED BY <3>4, <3>5, <3>6, <3>7
  <2> QED BY <2>5, <2>6
<1>3. mCount \notin T
  BY <1>2
<1>4. 0 \in 0 .. mCount /\ mCount - 1 \in -1 .. mCount - 1 /\ (mCount - 1) - 0 < mCount
  BY <1>0
<1>5. FoundAt(0, mCount - 1, id, f[<<0, mCount - 1>>])
  BY <1>0, <1>3, <1>4
<1> QED BY <1>1, <1>5

Sorts(list, f, n) ==
    /\ f \in Bijection(1 .. n, 1 .. n)
    /\ \A i, j \in 1 .. n : i < j => list[f[i]] <= list[f[j]]

(* One more element is inserted before the first that is greater. *)
LEMMA InsertSorted ==
    ASSUME NEW k \in Nat, k # 0, NEW list \in [1 .. k -> Nat], NEW f, Sorts(list, f, k - 1)
    PROVE  \E g : Sorts(list, g, k)
<1>1. /\ f \in [1 .. k - 1 -> 1 .. k - 1] /\ \A a, b \in 1 .. k - 1 : f[a] = f[b] => a = b
      /\ \A t \in 1 .. k - 1 : \E a \in 1 .. k - 1 : f[a] = t
  BY DEF Sorts, Bijection, Injection, Surjection, IsInjective
<1> DEFINE C == {i \in 1 .. k : i = k \/ list[f[i]] > list[k]}
<1>2. C \in SUBSET Nat /\ k \in C
  OBVIOUS
<1>3. PICK c \in C : \A i \in C : c <= i
  BY <1>2, LeastElement
<1>4. /\ c \in 1 .. k
      /\ c # k => list[f[c]] > list[k]
      /\ \A i \in 1 .. k : i < c => ~ (list[f[i]] > list[k])
  BY <1>3
<1> HIDE DEF C
<1> DEFINE g == [i \in 1 .. k |-> IF i < c THEN f[i] ELSE IF i = c THEN k ELSE f[i - 1]]
<1>5. ASSUME NEW i \in 1 .. k
      PROVE  /\ i < c => g[i] = f[i] /\ i \in 1 .. k - 1 /\ f[i] \in 1 .. k - 1
             /\ i = c => g[i] = k
             /\ i > c => g[i] = f[i - 1] /\ i - 1 \in 1 .. k - 1 /\ f[i - 1] \in 1 .. k - 1
  <2>1. i < c => i \in 1 .. k - 1
    BY <1>4
  <2>2. i > c => i - 1 \in 1 .. k - 1
    BY <1>4
  <2>3. \A a \in 1 .. k - 1 : f[a] \in 1 .. k - 1
    BY <1>1
  <2>4. g[i] = IF i < c THEN f[i] ELSE IF i = c THEN k ELSE f[i - 1]
    OBVIOUS
  <2>5. (i < c => ~ (i = c)) /\ (i > c => ~ (i < c) /\ ~ (i = c)) /\ (i = c => ~ (i < c))
    BY <1>4
  <2> HIDE DEF g
  <2> QED BY <2>1, <2>2, <2>3, <2>4, <2>5
<1>6. g \in [1 .. k -> 1 .. k]
  <2>1. ASSUME NEW i \in 1 .. k PROVE g[i] \in 1 .. k
    <3>1. \A x \in 1 .. k - 1 : x \in 1 .. k
      OBVIOUS
    <3>2. i < c \/ i = c \/ i > c
      BY <1>4
    <3> HIDE DEF g
    <3> QED BY <1>5, <3>1, <3>2
  <2> QED BY <2>1
<1> HIDE DEF g
<1>7. ASSUME NEW a \in 1 .. k, NEW b \in 1 .. k, g[a] = g[b] PROVE a = b
  <2>1. CASE a = c \/ b = c
    BY <1>4, <1>5, <1>7, <2>1
  <2>2. CASE a < c /\ b < c
    BY <1>1, <1>5, <1>7, <2>2
  <2>3. CASE a < c /\ b > c
    <3>1. f[a] = f[b - 1] /\ a \in 1 .. k - 1 /\ b - 1 \in 1 .. k - 1
      BY <1>5, <1>7, <2>3
    <3>2. a = b - 1
      BY <1>1, <3>1
    <3> QED BY <1>4, <2>3, <3>2
  <2>4. CASE a > c /\ b < c
    <3>1. f[a - 1] = f[b] /\ b \in 1 .. k - 1 /\ a - 1 \in 1 .. k - 1
      BY <1>5, <1>7, <2>4
    <3>2. b = a - 1
      BY <1>1, <3>1
    <3> QED BY <1>4, <2>4, <3>2
  <2>5. CASE a > c /\ b > c
    <3>1. f[a - 1] = f[b - 1] /\ b - 1 \in 1 .. k - 1 /\ a - 1 \in 1 .. k - 1
      BY <1>5, <1>7, <2>5
    <3>2. a - 1 = b - 1
      BY <1>1, <3>1
    <3> QED BY <3>2
  <2> QED BY <1>4, <2>1, <2>2, <2>3, <2>4, <2>5
<1>8. ASSUME NEW t \in 1 .. k PROVE \E a \in 1 .. k : g[a] = t
  <2>1. CASE t = k
    BY <1>4, <1>5, <2>1
  <2>2. CASE t # k
    <3>1. PICK a \in 1 .. k - 1 : f[a] = t
      BY <1>1, <2>2
    <3>2. CASE a < c
      <4>1. a \in 1 .. k
        OBVIOUS
      <4> QED BY <1>5, <3>1, <3>2, <4>1
    <3>3. CASE a >= c
      <4>1. a + 1 \in 1 .. k /\ a + 1 > c /\ (a + 1) - 1 = a
        BY <1>4, <3>3
      <4>2. g[a + 1] = f[a]
        BY <1>5, <4>1
      <4> QED BY <3>1, <4>1, <4>2
    <3> QED BY <1>4, <3>2, <3>3
  <2> QED BY <2>1, <2>2
<1>9. ASSUME NEW i \in 1 .. k, NEW j \in 1 .. k, i < j PROVE list[g[i]] <= list[g[j]]
  <2>0. \A a, b \in 1 .. k - 1 : a <= b => list[f[a]] <= list[f[b]] /\ list[f[a]] \in Nat
    <3>1. \A a \in 1 .. k - 1 : f[a] \in 1 .. k
      <4>1. \A x \in 1 .. k - 1 : x \in 1 .. k
        OBVIOUS
      <4> QED BY <1>1, <4>1
    <3>2. \A a \in 1 .. k - 1 : list[f[a]] \in Nat
      BY <3>1
    <3> QED BY <3>2 DEF Sorts
  <2>1. CASE j < c
    <3>1. i < c /\ i <= j
      BY <1>4, <1>9, <2>1
    <3>2. g[i] = f[i] /\ i \in 1 .. k - 1 /\ g[j] = f[j] /\ j \in 1 .. k - 1
      BY <1>5, <2>1, <3>1
    <3> QED BY <2>0, <3>1, <3>2
  <2>2. CASE j = c
    <3>1. g[i] = f[i] /\ i \in 1 .. k - 1 /\ g[j] = k
      BY <1>4, <1>5, <1>9, <2>2
    <3>2. list[f[i]] \in Nat /\ list[k] \in Nat /\ ~ (list[f[i]] > list[k])
      BY <1>4, <1>9, <2>0, <2>2, <3>1
    <3> QED BY <3>1, <3>2
  <2>3. CASE j > c
    <3>1. g[j] = f[j - 1] /\ j - 1 \in 1 .. k - 1
      BY <1>5, <2>3
    <3>2. CASE i < c
      <4>1. g[i] = f[i] /\ i \in 1 .. k - 1 /\ i <= j - 1
        BY <1>4, <1>5, <2>3, <3>2
      <4> QED BY <2>0, <3>1, <4>1
    <3>3. CASE i = c
      <4>1. g[i] = k /\ c \in 1 .. k - 1 /\ c <= j - 1 /\ list[f[c]] > list[k]
        BY <1>4, <1>5, <2>3, <3>1, <3>3
      <4>2. list[f[c]] <= list[f[j - 1]] /\ list[f[c]] \in Nat /\ list[f[j - 1]] \in Nat
        BY <2>0, <3>1, <4>1
      <4>3. list[k] \in Nat
        OBVIOUS
      <4>4. list[k] <= list[f[j - 1]]
        <5> DEFINE x == list[f[c]]
                   y == list[f[j - 1]]
                   z == list[k]
        <5>1. x \in Nat /\ y \in Nat /\ z \in Nat /\ x <= y /\ x > z
          BY <4>1, <4>2, <4>3
        <5> HIDE DEF x, y, z
        <5>2. z <= y
          BY <5>1
        <5> QED BY <5>2 DEF y, z
      <4>5. list[g[i]] = list[k] /\ list[g[j]] = list[f[j - 1]]
        BY <3>1, <4>1
      <4> QED BY <4>4, <4>5
    <3>4. CASE i > c
      <4>1. g[i] = f[i - 1] /\ i - 1 \in 1 .. k - 1 /\ i - 1 <= j - 1
        BY <1>5, <1>9, <3>4
      <4> QED BY <2>0, <3>1, <4>1
    <3> QED BY <1>4, <3>2, <3>3, <3>4
  <2> QED BY <1>4, <2>1, <2>2, <2>3
<1>10. g \in Bijection(1 .. k, 1 .. k)
  BY <1>6, <1>7, <1>8 DEF Bijection, Injection, Surjection, IsInjective
<1> QED BY <1>9, <1>10 DEF Sorts

LEMMA SortExists ==
    ASSUME NEW n \in Nat, NEW list \in [1 .. n -> Nat]
    PROVE  \E f : Sorts(list, f, n)
<1> DEFINE T == {k \in Nat : \E s \in [1 .. k -> Nat] : ~ \E f : Sorts(s, f, k)}
<1> SUFFICES ASSUME T # {} PROVE FALSE
  OBVIOUS
<1>1. PICK k \in T : \A j \in T : k <= j
  BY LeastElement
<1>2. PICK s \in [1 .. k -> Nat] : ~ \E f : Sorts(s, f, k)
  BY <1>1
<1>3. k # 0
  <2>1. SUFFICES ASSUME k = 0 PROVE FALSE
    OBVIOUS
  <2>2. Sorts(s, s, 0)
    BY <2>1 DEF Sorts, Bijection, Injection, Surjection, IsInjective
  <2> QED BY <1>2, <2>1, <2>2
<1> DEFINE front == [i \in 1 .. k - 1 |-> s[i]]
<1>4. k - 1 \in Nat /\ front \in [1 .. k - 1 -> Nat]
  BY <1>1, <1>3
<1>7. k - 1 \notin T
  <2>1. k \in Nat /\ ~ (k <= k - 1)
    OBVIOUS
  <2> QED BY <1>1, <2>1
<1>5. PICK f : Sorts(front, f, k - 1)
  BY <1>4, <1>7
<1>6. Sorts(s, f, k - 1)
  <2>1. \A i \in 1 .. k - 1 : f[i] \in 1 .. k - 1
    BY <1>5 DEF Sorts, Bijection, Injection
  <2>2. \A i \in 1 .. k - 1 : front[f[i]] = s[f[i]]
    BY <2>1
  <2> QED BY <1>5, <2>2 DEF Sorts
<1> QED BY <1>2, <1>3, <1>6, InsertSorted

(* What sort() returns: the same elements, in ascending order. *)
LEMMA SortSorts ==
    ASSUME NEW list \in Seq(Nat)
    PROVE  /\ sort(list) \in [1 .. Len(list) -> Nat] /\ Len(sort(list)) = Len(list)
           /\ \A i, j \in 1 .. Len(list) : i < j => sort(list)[i] <= sort(list)[j]
           /\ Range(list) = {sort(list)[i] : i \in 1 .. Len(list)}
<1> DEFINE n == Len(list)
           place == CHOOSE f \in Bijection(DOMAIN list, DOMAIN list) :
                        \A i, j \in DOMAIN list : i < j => list[f[i]] <= list[f[j]]
<1>1. n \in Nat /\ DOMAIN list = 1 .. n /\ list \in [1 .. n -> Nat]
  OBVIOUS
<1>2. PICK f : Sorts(list, f, n)
  BY <1>1, SortExists
<1>3. Sorts(list, place, n)
  BY <1>1, <1>2 DEF Sorts
<1>4. sort(list) = [i \in 1 .. n |-> list[place[i]]]
  BY DEF sort
<1> HIDE DEF place
<1>5. /\ \A i \in 1 .. n : place[i] \in 1 .. n
      /\ \A k \in 1 .. n : \E i \in 1 .. n : place[i] = k
  BY <1>3 DEF Sorts, Bijection, Injection, Surjection
<1>6. sort(list) \in [1 .. n -> Nat] /\ Len(sort(list)) = n
  <2>1. \A i \in 1 .. n : list[place[i]] \in Nat
    BY <1>1, <1>5
  <2>2. sort(list) \in [1 .. n -> Nat]
    BY <1>4, <2>1
  <2>3. Len(sort(list)) = n
    BY <1>1, <2>2
  <2> QED BY <2>2, <2>3
<1>7. \A i \in 1 .. n : sort(list)[i] = list[place[i]]
  BY <1>4
<1>8. \A i, j \in 1 .. n : i < j => sort(list)[i] <= sort(list)[j]
  BY <1>3, <1>7 DEF Sorts
<1>9. Range(list) = {sort(list)[i] : i \in 1 .. n}
  <2>1. Range(list) = {list[k] : k \in 1 .. n}
    BY <1>1 DEF Range
  <2>2. ASSUME NEW x \in {list[k] : k \in 1 .. n} PROVE x \in {sort(list)[i] : i \in 1 .. n}
    <3>1. PICK k \in 1 .. n : x = list[k]
      OBVIOUS
    <3>2. PICK i \in 1 .. n : place[i] = k
      BY <1>5
    <3> QED BY <1>7, <3>1, <3>2
  <2>3. ASSUME NEW x \in {sort(list)[i] : i \in 1 .. n} PROVE x \in {list[k] : k \in 1 .. n}
    BY <1>5, <1>7
  <2> QED BY <2>1, <2>2, <2>3
<1> QED BY <1>6, <1>8, <1>9

(* What initialize() established: the memory of an initialised store      *)
(* begins with the identifiers it was given, in ascending order, whatever *)
(* earlier calls left behind.                                             *)
StoreInv ==
    /\ mParameters \in [1 .. StoreSize -> Nat]
    /\ mCount \in 0 .. StoreSize
    /\ mInitialized \in BOOLEAN
    /\ mInitialized =>
         /\ \A i, j \in 1 .. mCount : i < j => mParameters[i] < mParameters[j]
         /\ Range(given) = {mParameters[i] : i \in 1 .. mCount}

LEMMA CopiedTypes ==
    ASSUME NEW list \in ParameterList
    PROVE  /\ Copied(list) \in Seq(Nat) /\ Len(Copied(list)) <= StoreSize
           /\ list \in Seq(Nat)
<1>1. list \in Seq(Nat) /\ Len(list) \in Nat
  <2>1. list \in Seq(ParameterId) /\ ParameterId \subseteq Nat
    BY StoreAssumption
  <2>2. Len(list) \in Nat /\ list \in [1 .. Len(list) -> ParameterId]
    BY <2>1
  <2>3. list \in [1 .. Len(list) -> Nat]
    BY <2>1, <2>2
  <2> QED BY <2>2, <2>3
<1> DEFINE ok(n) == Accepted(list, n) /\ (n < Len(list) => ~ Accepted(list, n + 1))
           T == {n \in Nat : n <= Len(list) => ~ Accepted(list, n)}
           c == CHOOSE n \in 0 .. Len(list) : ok(n)
<1>2. Len(list) + 1 \in T
  BY <1>1
<1>3. PICK k \in T : \A j \in T : k <= j
  <2>1. T \in SUBSET Nat /\ T # {}
    BY <1>2
  <2> QED BY <2>1, LeastElement
<1>4. k # 0 /\ k <= Len(list) + 1
  <2>1. 0 \notin T
    BY <1>1, StoreAssumption DEF Accepted
  <2> QED BY <1>2, <1>3, <2>1
<1>5. k - 1 \in 0 .. Len(list) /\ ok(k - 1)
  <2>1. k - 1 \in 0 .. Len(list) /\ ~ (k <= k - 1) /\ (k - 1) + 1 = k /\ k - 1 \in Nat
    BY <1>1, <1>4
  <2>2. k - 1 \notin T
    BY <1>3, <2>1
  <2>3. k <= Len(list) => ~ Accepted(list, k)
    BY <1>3
  <2> QED BY <1>1, <2>1, <2>2, <2>3
<1>6. c \in 0 .. Len(list) /\ ok(c)
  BY <1>5
<1>7. Copied(list) = SubSeq(list, 1, c) /\ c <= StoreSize
  BY <1>6 DEF Copied, Accepted
<1> HIDE DEF c, ok
<1>8. SubSeq(list, 1, c) \in Seq(Nat) /\ Len(SubSeq(list, 1, c)) = c
  BY <1>1, <1>6
<1> QED BY <1>1, <1>7, <1>8

(* The inductive invariant of the store. *)
THEOREM StoreInductive == StoreSpec => []StoreInv
<1>1. StoreInit => StoreInv
  <2> SUFFICES ASSUME StoreInit PROVE StoreInv
    OBVIOUS
  <2>1. mParameters \in [1 .. StoreSize -> Nat]
    BY DEF StoreInit, invalidID
  <2>2. mCount \in 0 .. StoreSize
    BY StoreAssumption DEF StoreInit
  <2>3. mInitialized = FALSE
    BY DEF StoreInit
  <2> QED BY <2>1, <2>2, <2>3, Zenon DEF StoreInv
<1>2. ASSUME StoreInv, [StoreNext]_storeVars PROVE StoreInv'
  <2>1. CASE UNCHANGED storeVars
    BY <1>2, <2>1 DEF StoreInv, storeVars
  <2>2. ASSUME NEW list \in ParameterList, initializeFails(list) PROVE StoreInv'
    <3>1. Copied(list) \in Seq(Nat) /\ Len(Copied(list)) <= StoreSize
      BY CopiedTypes
    <3>2. mParameters' \in [1 .. StoreSize -> Nat]
      BY <1>2, <2>2, <3>1, StoreAssumption DEF initializeFails, Stored, StoreInv
    <3> QED BY <1>2, <2>2, <3>2 DEF initializeFails, StoreInv
  <2>3. ASSUME NEW list \in ParameterList, initialize(list) PROVE StoreInv'
    <3> DEFINE n == Len(list)
               t == sort(list)
    <3>1. list \in Seq(Nat) /\ n \in Nat /\ n <= StoreSize
      BY <2>3, CopiedTypes DEF initialize
    <3>2. /\ t \in [1 .. n -> Nat] /\ Len(t) = n
          /\ \A i, j \in 1 .. n : i < j => t[i] <= t[j]
          /\ Range(list) = {t[i] : i \in 1 .. n}
      BY <3>1, SortSorts
    <3>3. /\ mParameters' = Stored(t) /\ mCount' = n /\ mInitialized' = Distinct(t)
          /\ given' = IF mInitialized' THEN list ELSE given
      BY <2>3 DEF initialize
    <3> HIDE DEF t
    <3>4. /\ mParameters' = [i \in 1 .. StoreSize |-> IF i <= n THEN t[i] ELSE mParameters[i]]
      BY <3>2, <3>3 DEF Stored
    <3>5. mParameters' \in [1 .. StoreSize -> Nat] /\ \A i \in 1 .. n : mParameters'[i] = t[i]
      <4>1. \A i \in 1 .. StoreSize : i <= n => i \in 1 .. n
        BY <3>1, StoreAssumption
      <4>2. \A i \in 1 .. n : i \in 1 .. StoreSize /\ i <= n
        BY <3>1, StoreAssumption
      <4>3. \A i \in 1 .. StoreSize : mParameters[i] \in Nat
        BY <1>2 DEF StoreInv
      <4>4. \A i \in 1 .. StoreSize : (IF i <= n THEN t[i] ELSE mParameters[i]) \in Nat
        BY <3>2, <4>1, <4>3
      <4>5. mParameters' \in [1 .. StoreSize -> Nat]
        BY <3>4, <4>4
      <4> QED BY <3>4, <4>2, <4>5
    <3>6. mCount' \in 0 .. StoreSize
      BY <3>1, <3>3, StoreAssumption
    <3>7. mInitialized' \in BOOLEAN
      BY <3>3 DEF Distinct
    <3>8. ASSUME mInitialized', NEW i \in 1 .. n, NEW j \in 1 .. n, i < j
          PROVE  mParameters'[i] < mParameters'[j]
      <4>1. j - 1 \in 1 .. n /\ j \in 2 .. n /\ i <= j - 1
        BY <3>1, <3>8
      <4>2. t[j - 1] < t[j]
        BY <3>2, <3>3, <3>8, <4>1 DEF Distinct
      <4>3. t[i] <= t[j - 1] /\ t[i] \in Nat /\ t[j - 1] \in Nat /\ t[j] \in Nat
        BY <3>2, <4>1
      <4> QED BY <3>5, <4>2, <4>3
    <3>9. {t[i] : i \in 1 .. n} = {mParameters'[i] : i \in 1 .. n}
      BY <3>5
    <3> QED BY <3>2, <3>3, <3>5, <3>6, <3>7, <3>8, <3>9 DEF StoreInv
  <2> QED BY <1>2, <2>1, <2>2, <2>3 DEF StoreNext
<1> QED BY <1>1, <1>2, PTL DEF StoreSpec

(* An initialised store finds exactly the parameters it was given and    *)
(* holds each of them once: for every size of the store and every list,  *)
(* also after calls of initialize() that failed.                         *)
THEOREM StoreFindsAll == StoreSpec => []StoreFinds
<1>1. ASSUME StoreInv PROVE StoreFinds
  <2> SUFFICES ASSUME mInitialized
               PROVE  /\ mCount = Cardinality(Range(given))
                      /\ \A id \in ParameterId \ {invalidID} :
                           /\ (getParameter(id) = "success") = (id \in Range(given))
                           /\ getParameter(id) = "success" =>
                                mParameters[findInternal(id) + 1] = id
    BY DEF StoreFinds
  <2> DEFINE S == {mParameters[i] : i \in 1 .. mCount}
  <2>1. /\ mParameters \in [1 .. StoreSize -> Nat] /\ mCount \in 0 .. StoreSize
        /\ \A i, j \in 1 .. mCount : i < j => mParameters[i] < mParameters[j]
        /\ Range(given) = S
    BY <1>1 DEF StoreInv
  <2>2. mCount \in Nat /\ \A i \in 1 .. mCount : i \in 1 .. StoreSize /\ mParameters[i] \in Nat
    BY <2>1, StoreAssumption
  <2>3. mCount = Cardinality(S)
    <3> DEFINE f == [i \in 1 .. mCount |-> mParameters[i]]
    <3>1. ASSUME NEW a \in 1 .. mCount, NEW b \in 1 .. mCount, mParameters[a] = mParameters[b]
          PROVE  a = b
      BY <2>1, <2>2, <3>1
    <3>2. f \in Bijection(1 .. mCount, S)
      BY <3>1 DEF Bijection, Injection, Surjection, IsInjective
    <3>3. ExistsBijection(1 .. mCount, S)
      BY <3>2 DEF ExistsBijection
    <3> QED BY <2>2, <3>3, FS_CountingElements
  <2>4. ASSUME NEW id \in ParameterId \ {invalidID}
        PROVE  /\ (getParameter(id) = "success") = (id \in S)
               /\ getParameter(id) = "success" => mParameters[findInternal(id) + 1] = id
    <3>1. id \in Nat
      BY StoreAssumption
    <3>2. FoundAt(0, mCount - 1, id, findInternal(id))
      BY <2>1, <3>1, SearchFinds
    <3>3. CASE mCount = 0
      <4>1. getParameter(id) = "noSuchID"
        BY <3>3 DEF getParameter
      <4>2. S = {}
        BY <3>3
      <4> QED BY <4>1, <4>2
    <3>4. CASE mCount # 0
      <4>1. getParameter(id) = IF findInternal(id) = -1 THEN "noSuchID" ELSE "success"
        BY <3>4 DEF getParameter
      <4>2. CASE findInternal(id) \in 0 .. mCount - 1 /\ mParameters[findInternal(id) + 1] = id
        <5>1. findInternal(id) + 1 \in 1 .. mCount /\ findInternal(id) # -1
          BY <2>2, <4>2
        <5>2. id \in S
          BY <4>2, <5>1
        <5> QED BY <4>1, <4>2, <5>1, <5>2
      <4>3. CASE findInternal(id) = -1 /\ \A j \in 0 .. mCount - 1 : mParameters[j + 1] # id
        <5>1. ASSUME NEW i \in 1 .. mCount PROVE mParameters[i] # id
          <6>1. i - 1 \in 0 .. mCount - 1 /\ (i - 1) + 1 = i
            BY <2>2
          <6> QED BY <4>3, <6>1
        <5>2. id \notin S
          BY <5>1
        <5> QED BY <4>1, <4>3, <5>2
      <4> QED BY <3>2, <4>2, <4>3 DEF FoundAt
    <3> QED BY <3>3, <3>4
  <2> QED BY <2>1, <2>3, <2>4
<1> QED BY <1>1, StoreInductive, PTL
=============================================================================
