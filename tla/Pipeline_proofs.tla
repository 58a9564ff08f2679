-------------------------- MODULE Pipeline_proofs --------------------------
(***************************************************************************)
(* The binary semaphore misses no release and keeps its deadlines, the     *)
(* checkpoint built on it never has two tokens, and the data pipeline      *)
(* behind the checkpoint loses neither a block nor a buffer uncounted, for *)
(* any number of threads, buffers and samples.                             *)
(***************************************************************************)
EXTENDS DataProcessorThread, TLAPS

(* What each thread knows of its wait: outside of acquire() it has none,   *)
(* inside the clock and the rest of the wait add up to the argument.       *)
SemTypeOK ==
    /\ mValue \in {"released", "acquired"}
    /\ waiter \in [Thread -> {"out", "waiting", "woken"}]
    /\ deadline \in [Thread -> Nat \cup {Myriad}]
    /\ elapsed \in [Thread -> Nat]
OutsideIsClear ==
    \A t \in Thread : waiter[t] = "out" => deadline[t] = Myriad /\ elapsed[t] = 0
SemInv == SemTypeOK /\ OutsideIsClear /\ TimedWaitExact /\ ReleaseWakes

LEMMA SemInitInv ==
    ASSUME NEW v \in {"released", "acquired"}, SemInit(v) PROVE SemInv
  BY SemaphoreAssumption
  DEF SemInit, SemInv, SemTypeOK, OutsideIsClear, TimedWaitExact, ReleaseWakes, At

LEMMA TakeKeepsInv ==
    ASSUME NEW t \in Thread, SemInv, SemTake(t) PROVE SemInv'
  BY SemaphoreAssumption
  DEF SemTake, SemInv, SemTypeOK, OutsideIsClear, TimedWaitExact, ReleaseWakes, At

(* A thread that waits anew has no clock yet; one that waits again keeps   *)
(* the end of its wait.                                                    *)
LEMMA WaitKeepsInv ==
    ASSUME NEW t \in Thread, NEW limit \in Limit \cup {Myriad}, SemInv, SemWait(t, limit)
    PROVE  SemInv'
  <1>1. limit \in Nat \cup {Myriad}
    BY SemaphoreAssumption
  <1>2. SemTypeOK'
    BY <1>1 DEF SemWait, Deadline, SemInv, SemTypeOK
  <1>3. OutsideIsClear' /\ ReleaseWakes'
    BY DEF SemWait, SemInv, SemTypeOK, OutsideIsClear, ReleaseWakes
  <1>4. TimedWaitExact'
    <2>1. CASE waiter[t] = "woken"
      BY <2>1 DEF SemWait, Deadline, SemInv, SemTypeOK, TimedWaitExact
    <2>2. CASE waiter[t] = "out"
      <3>1. elapsed[t] = 0 /\ (limit # Myriad => limit \in Limit /\ 0 + limit = limit)
        BY <2>2, SemaphoreAssumption DEF SemInv, OutsideIsClear
      <3>2. QED BY <2>2, <3>1 DEF SemWait, Deadline, SemInv, SemTypeOK, TimedWaitExact
    <2>3. QED BY <2>1, <2>2 DEF SemWait
  <1>5. QED BY <1>2, <1>3, <1>4 DEF SemInv

LEMMA ReleaseKeepsInv == SemInv /\ SemRelease => SemInv'
  <1> SUFFICES ASSUME SemInv, SemRelease PROVE SemInv'
    OBVIOUS
  <1>1. CASE At("waiting") = {}
    BY <1>1 DEF SemRelease, SemInv, SemTypeOK, OutsideIsClear, TimedWaitExact, ReleaseWakes, At
  <1>2. CASE At("waiting") # {}
    <2>1. PICK t \in At("waiting") : waiter' = [waiter EXCEPT ![t] = "woken"]
      BY <1>2 DEF SemRelease
    <2>2. t \in Thread /\ t \in At("woken")'
      BY <2>1 DEF At, SemInv, SemTypeOK
    <2>3. SemTypeOK' /\ OutsideIsClear' /\ TimedWaitExact'
      BY <2>1, <2>2 DEF SemRelease, SemInv, SemTypeOK, OutsideIsClear, TimedWaitExact
    <2>4. QED BY <2>2, <2>3 DEF SemInv, ReleaseWakes
  <1>3. QED BY <1>1, <1>2

LEMMA ExpireKeepsInv ==
    ASSUME NEW t \in Thread, SemInv, SemExpire(t) PROVE SemInv'
  <1>1. SemTypeOK' /\ OutsideIsClear' /\ TimedWaitExact'
    BY DEF SemExpire, SemInv, SemTypeOK, OutsideIsClear, TimedWaitExact
  <1>2. ReleaseWakes'
    BY DEF SemExpire, SemInv, SemTypeOK, ReleaseWakes, At
  <1>3. QED BY <1>1, <1>2 DEF SemInv

LEMMA SpuriousKeepsInv ==
    ASSUME NEW t \in Thread, SemInv, SemSpurious(t) PROVE SemInv'
  <1>1. SemTypeOK' /\ OutsideIsClear' /\ TimedWaitExact'
    BY DEF SemSpurious, SemInv, SemTypeOK, OutsideIsClear, TimedWaitExact
  <1>2. ReleaseWakes'
    BY DEF SemSpurious, SemInv, SemTypeOK, ReleaseWakes, At
  <1>3. QED BY <1>1, <1>2 DEF SemInv

(* A tick moves time from what is left of the wait to what is over.        *)
LEMMA TickKeepsInv == SemInv /\ SemTick => SemInv'
  <1> SUFFICES ASSUME SemInv, SemTick PROVE SemInv'
    OBVIOUS
  <1> DEFINE timed == {t \in At("waiting") : deadline[t] # Myriad}
  <1>1. \A t \in timed : /\ t \in Thread /\ waiter[t] = "waiting"
                         /\ deadline[t] \in Nat /\ deadline[t] > 0
    BY DEF SemTick, SemInv, SemTypeOK, At
  <1>2. /\ deadline' = [t \in Thread |-> IF t \in timed THEN deadline[t] - 1 ELSE deadline[t]]
        /\ elapsed' = [t \in Thread |-> IF t \in timed THEN elapsed[t] + 1 ELSE elapsed[t]]
        /\ mValue' = mValue /\ waiter' = waiter
    BY DEF SemTick
  <1> HIDE DEF timed
  <1>3. SemTypeOK'
    BY <1>1, <1>2 DEF SemInv, SemTypeOK
  <1>4. OutsideIsClear'
    BY <1>1, <1>2 DEF SemInv, OutsideIsClear
  <1>5. TimedWaitExact'
    <2> SUFFICES ASSUME NEW t \in Thread, deadline'[t] # Myriad
                 PROVE  elapsed'[t] + deadline'[t] \in Limit
      BY DEF TimedWaitExact
    <2>1. CASE t \in timed
      <3>1. elapsed'[t] + deadline'[t] = elapsed[t] + deadline[t] /\ deadline[t] # Myriad
        BY <2>1, <1>1, <1>2, SemaphoreAssumption DEF SemInv, SemTypeOK
      <3>2. QED BY <3>1 DEF SemInv, TimedWaitExact
    <2>2. CASE t \notin timed
      BY <2>2, <1>2 DEF SemInv, TimedWaitExact
    <2>3. QED BY <2>1, <2>2
  <1>6. ReleaseWakes'
    BY <1>2 DEF SemInv, ReleaseWakes, At
  <1>7. QED BY <1>3, <1>4, <1>5, <1>6 DEF SemInv

LEMMA SemStutterKeepsInv == SemInv /\ UNCHANGED semVars => SemInv'
  BY DEF semVars, SemInv, SemTypeOK, OutsideIsClear, TimedWaitExact, ReleaseWakes, At

(* No release() of BinarySemaphore is missed by a waiting thread, and no   *)
(* timed acquire() waits longer than its argument.                         *)
THEOREM SemaphoreIsSound == SemSpec => []SemaphoreSound
  <1>1. SemSpec => []SemInv
    <2>1. SemInit("released") => SemInv
      BY SemInitInv
    <2>2. SemInv /\ [SemNext]_semVars => SemInv'
      <3> SUFFICES ASSUME SemInv, SemNext PROVE SemInv'
        BY SemStutterKeepsInv
      <3>1. CASE \E t \in Thread : SemTake(t)
        BY <3>1, TakeKeepsInv
      <3>2. CASE \E t \in Thread, limit \in Limit \cup {Myriad} : SemWait(t, limit)
        BY <3>2, WaitKeepsInv
      <3>3. CASE \E t \in Thread : SemExpire(t) \/ SemSpurious(t)
        BY <3>3, ExpireKeepsInv, SpuriousKeepsInv
      <3>4. CASE SemRelease \/ SemTick
        BY <3>4, ReleaseKeepsInv, TickKeepsInv
      <3>5. QED BY <3>1, <3>2, <3>3, <3>4 DEF SemNext
    <2>3. QED BY <2>1, <2>2, PTL DEF SemSpec
  <1>2. SemInv => SemaphoreSound
    BY DEF SemInv, SemaphoreSound
  <1>3. QED BY <1>1, <1>2, PTL
-----------------------------------------------------------------------------
(* The thread in suspend() is the one that holds mMutex, and the state     *)
(* does not change under it.                                               *)
HolderSuspends ==
    /\ \A c \in Controller : at[c] = "suspend" => holder = {c}
    /\ mState = "running" => holder = {}
AtTypeOK == at \in [Thread -> {"idle", "suspend", "check", "acquire", "release"}]
TokenInv == AtTypeOK /\ HolderSuspends /\ TokenConserved

LEMMA CheckpointInitInv == CheckpointInit => TokenInv
  <1> SUFFICES ASSUME CheckpointInit PROVE TokenInv
    OBVIOUS
  <1>1. AtTypeOK /\ HolderSuspends /\ Past = {}
    BY CheckpointAssumption DEF CheckpointInit, AtTypeOK, HolderSuspends, Past
  <1>2. TokenConserved
    BY <1>1 DEF CheckpointInit, SemInit, TokenConserved
  <1>3. QED BY <1>1, <1>2 DEF TokenInv

(* Steps of a controller do not change which workers are past. *)
LEMMA ControllerIsNotPast ==
    ASSUME NEW c \in Controller, NEW pc, AtTypeOK, Goto(c, pc)
    PROVE  Past' = Past
  BY CheckpointAssumption DEF Goto, Past, AtTypeOK

LEMMA ResumeKeepsToken ==
    ASSUME NEW c \in Controller, TokenInv, resume(c) PROVE TokenInv'
  <1>1. /\ mState # "running" /\ mState' = "running" /\ mValue' = "released"
        /\ holder = {} /\ holder' = {} /\ at' = at
    BY DEF resume, Resume, SemRelease
  <1>2. AtTypeOK' /\ HolderSuspends'
    BY <1>1 DEF TokenInv, AtTypeOK, HolderSuspends
  <1>3. Past' = {}
    BY <1>1 DEF TokenInv, TokenConserved, Past
  <1>4. QED BY <1>1, <1>2, <1>3 DEF TokenInv, TokenConserved

LEMMA SuspendKeepsToken ==
    ASSUME NEW c \in Controller, TokenInv, suspend(c) PROVE TokenInv'
  <1>1. /\ mState = "running" /\ mState' = "suspending" /\ mValue' = mValue
        /\ holder = {} /\ holder' = {c} /\ Goto(c, "suspend")
    BY DEF suspend, Suspending, semVars
  <1>2. c \in Thread
    BY CheckpointAssumption
  <1>3. AtTypeOK' /\ HolderSuspends'
    BY <1>1, <1>2, CheckpointAssumption DEF TokenInv, AtTypeOK, HolderSuspends, Goto
  <1>4. Past' = Past
    BY <1>1, ControllerIsNotPast DEF TokenInv
  <1>5. QED BY <1>1, <1>3, <1>4 DEF TokenInv, TokenConserved

LEMMA SuspendAcquireKeepsToken ==
    ASSUME NEW c \in Controller, TokenInv, suspendAcquire(c) PROVE TokenInv'
  <1>1. at[c] = "suspend" /\ mState' = mState /\ holder = {c} /\ mState # "running"
    BY DEF suspendAcquire, TokenInv, HolderSuspends
  <1>2. CASE SemTake(c) /\ holder' = {} /\ Goto(c, "idle")
    <2>1. AtTypeOK' /\ HolderSuspends'
      BY <1>1, <1>2, CheckpointAssumption DEF TokenInv, AtTypeOK, HolderSuspends, Goto
    <2>2. Past' = Past
      BY <1>2, ControllerIsNotPast DEF TokenInv
    <2>3. Past = {} /\ mValue' = "acquired"
      BY <1>2 DEF SemTake, TokenInv, TokenConserved
    <2>4. QED BY <1>1, <1>2, <2>1, <2>2, <2>3 DEF TokenInv, TokenConserved
  <1>3. CASE SemWait(c, Myriad) /\ UNCHANGED <<holder, at>>
    BY <1>1, <1>3 DEF SemWait, TokenInv, AtTypeOK, HolderSuspends, TokenConserved, Past
  <1>4. QED BY <1>2, <1>3 DEF suspendAcquire

(* Calls of pass() that do not touch the semaphore. *)
LEMMA CheckKeepsToken ==
    ASSUME NEW w \in Worker, TokenInv, pass(w) \/ passCheck(w) PROVE TokenInv'
  <1>1. /\ holder' = holder /\ mValue' = mValue
        /\ at[w] \in {"idle", "check"}
        /\ \E pc \in {"idle", "check", "acquire"} : Goto(w, pc)
        /\ mState' = mState \/ (mState # "running" /\ mState' = "suspended" /\ holder = {})
    BY DEF pass, passCheck, semVars
  <1>2. w \in Thread /\ w \notin Controller
    BY CheckpointAssumption
  <1>3. AtTypeOK' /\ HolderSuspends'
    BY <1>1, <1>2, CheckpointAssumption DEF TokenInv, AtTypeOK, HolderSuspends, Goto
  <1>4. Past' = Past
    BY <1>1, <1>2, CheckpointAssumption DEF TokenInv, AtTypeOK, Past, Goto
  <1>5. QED BY <1>1, <1>3, <1>4 DEF TokenInv, TokenConserved

(* A worker that gets the semaphore is the only one past. *)
LEMMA PassAcquireKeepsToken ==
    ASSUME NEW w \in Worker, TokenInv, passAcquire(w) PROVE TokenInv'
  <1>1. w \in Thread /\ w \notin Controller
    BY CheckpointAssumption
  <1>2. CASE SemTake(w) /\ Goto(w, "release")
    <2>1. AtTypeOK' /\ HolderSuspends'
      BY <1>1, <1>2, CheckpointAssumption
      DEF passAcquire, TokenInv, AtTypeOK, HolderSuspends, Goto
    <2>2. Past = {} /\ mValue' = "acquired" /\ (mState # "running" => holder # {})
      BY <1>2 DEF SemTake, TokenInv, TokenConserved
    <2>3. Past' = {w}
      BY <1>1, <1>2, <2>2, CheckpointAssumption DEF TokenInv, AtTypeOK, Past, Goto
    <2>4. QED BY <2>1, <2>2, <2>3 DEF passAcquire, TokenInv, TokenConserved
  <1>3. CASE SemWait(w, Myriad) /\ UNCHANGED at
    BY <1>3 DEF passAcquire, SemWait, TokenInv, AtTypeOK, HolderSuspends, TokenConserved, Past
  <1>4. QED BY <1>2, <1>3 DEF passAcquire

(* The worker that is past is the one that gives the semaphore back. *)
LEMMA PassReleaseKeepsToken ==
    ASSUME NEW w \in Worker, TokenInv, passRelease(w) PROVE TokenInv'
  <1>1. w \in Thread /\ w \notin Controller
    BY CheckpointAssumption
  <1>2. /\ at[w] = "release" /\ mValue' = "released" /\ Goto(w, "check")
        /\ mState' = mState /\ holder' = holder
    BY DEF passRelease, SemRelease
  <1>3. AtTypeOK' /\ HolderSuspends'
    BY <1>1, <1>2, CheckpointAssumption DEF TokenInv, AtTypeOK, HolderSuspends, Goto
  <1>4. Past = {w} /\ (mState # "running" => holder # {})
    BY <1>2 DEF TokenInv, TokenConserved, Past
  <1>5. Past' = {}
    BY <1>1, <1>2, <1>4, CheckpointAssumption DEF TokenInv, AtTypeOK, Past, Goto
  <1>6. QED BY <1>2, <1>3, <1>4, <1>5 DEF TokenInv, TokenConserved

(* The semaphore of Checkpoint is released, with one worker, or with the   *)
(* closed checkpoint: suspend(), resume() and pass() never release it      *)
(* twice and nobody gets past a closed checkpoint.                         *)
THEOREM TokenIsConserved == CheckpointSpec => []TokenConserved
  <1>1. TokenInv /\ [CheckpointNext]_checkpointVars => TokenInv'
    <2> SUFFICES ASSUME TokenInv, [CheckpointNext]_checkpointVars PROVE TokenInv'
      OBVIOUS
    <2>1. CASE \E c \in Controller : resume(c) \/ suspend(c) \/ suspendAcquire(c)
      BY <2>1, ResumeKeepsToken, SuspendKeepsToken, SuspendAcquireKeepsToken
    <2>2. CASE \E w \in Worker : pass(w) \/ passCheck(w) \/ passAcquire(w) \/ passRelease(w)
      BY <2>2, CheckKeepsToken, PassAcquireKeepsToken, PassReleaseKeepsToken
    <2>3. CASE \/ \E t \in Thread : Spurious(t)
               \/ UNCHANGED checkpointVars
      <3>1. mState' = mState /\ holder' = holder /\ at' = at /\ mValue' = mValue
        BY <2>3 DEF Spurious, SemSpurious, checkpointVars, semVars
      <3>2. QED BY <3>1 DEF TokenInv, AtTypeOK, HolderSuspends, TokenConserved, Past
    <2>4. QED BY <2>1, <2>2, <2>3 DEF CheckpointNext
  <1>2. TokenInv => TokenConserved
    BY DEF TokenInv
  <1>3. QED BY <1>1, <1>2, CheckpointInitInv, PTL DEF CheckpointSpec
-----------------------------------------------------------------------------
(* The pipeline.  Every counter is a number, and so is what is left of the *)
(* pool.                                                                   *)
AggregatorTypeOK ==
    /\ mNextBlocksize \in Nat
    /\ mBlock \in [buffer : BOOLEAN, size : Nat, count : Nat]
    /\ mNumCompletedBlocks \in Nat /\ mNumLostBlocks \in Nat /\ wiped \in Nat
    /\ free \in Nat
    /\ inputQueue \in Seq(Nat)
ProcessorTypeOK ==
    /\ job \in {"pass", "receive", "compress", "encode", "send"}
    /\ tries \in Nat /\ outputQueue \in Nat
    /\ mNumIncomingBlocks \in Nat /\ mNumForwardedBlocks \in Nat /\ mNumLostByProcessor \in Nat
    /\ spent \in Nat /\ promised \in Nat

(* How far the thread is into the time it has announced. *)
TimeBudget ==
    /\ job = "receive" => promised = 0
    /\ job \in {"compress", "encode", "send"} => promised = Promise
    /\ job = "compress" => spent = waitForBlockTimeout
    /\ job = "encode" => spent = waitForBlockTimeout + processingTimeout
    /\ job = "send" =>
         /\ tries <= mMaxSendRetries
         /\ spent = waitForBlockTimeout + processingTimeout * 2 + mRetrySendTimeout * tries

PipelineInv ==
    /\ AggregatorTypeOK /\ ProcessorTypeOK
    /\ BlocksAccounted /\ BuffersAccounted
    /\ TokenInv /\ SuspendedMeansQuiet
    /\ TimeBudget

LEMMA PipelineTypes ==
    ASSUME PipelineInv
    PROVE  /\ mNumCompletedBlocks \in Nat /\ mNumLostBlocks \in Nat /\ wiped \in Nat
           /\ free \in Nat /\ inputQueue \in Seq(Nat) /\ Len(inputQueue) \in Nat
           /\ tries \in Nat /\ outputQueue \in Nat
           /\ mNumIncomingBlocks \in Nat /\ mNumForwardedBlocks \in Nat
           /\ mNumLostByProcessor \in Nat /\ spent \in Nat /\ promised \in Nat
           /\ Held(mBlock) \in Nat /\ InHand \in Nat /\ mNextBlocksize \in Nat
           /\ mBlock \in [buffer : BOOLEAN, size : Nat, count : Nat]
           /\ job \in {"pass", "receive", "compress", "encode", "send"}
<1>1. inputQueue \in Seq(Nat) => Len(inputQueue) \in Nat
  OBVIOUS
<1>2. Held(mBlock) \in Nat /\ InHand \in Nat
  BY DEF Held, InHand
<1> QED BY <1>1, <1>2 DEF PipelineInv, AggregatorTypeOK, ProcessorTypeOK

LEMMA ConstantTypes ==
    /\ OutputSize \in Nat /\ mMaxSendRetries \in Nat /\ mRetrySendTimeout \in Nat
    /\ waitForBlockTimeout \in Nat /\ processingTimeout \in Nat
    /\ NumBuffers \in Nat /\ InputSize \in Nat
  BY ProcessorAssumption, AggregatorAssumption

LEMMA PipelineInitInv == PipelineInit => PipelineInv
<1> SUFFICES ASSUME PipelineInit PROVE PipelineInv
  OBVIOUS
<1>1. /\ mBlock = NoBlock /\ free = NumBuffers /\ inputQueue = << >> /\ job = "pass"
      /\ mNumCompletedBlocks = 0 /\ mNumLostBlocks = 0 /\ wiped = 0 /\ outputQueue = 0
      /\ mNumIncomingBlocks = 0 /\ mNumForwardedBlocks = 0 /\ mNumLostByProcessor = 0
      /\ mNextBlocksize = 0 /\ tries = 0 /\ spent = 0 /\ promised = 0
      /\ mState \in {"running", "suspending"}
  BY DEF PipelineInit, AggregatorInit, ProcessorInit, CheckpointInit
<1>2. /\ Held(mBlock) = 0 /\ Len(inputQueue) = 0 /\ InHand = 0
      /\ mBlock \in [buffer : BOOLEAN, size : Nat, count : Nat] /\ inputQueue \in Seq(Nat)
  BY <1>1 DEF Held, NoBlock, InHand
<1>3. AggregatorTypeOK /\ ProcessorTypeOK
  BY <1>1, <1>2, ConstantTypes DEF AggregatorTypeOK, ProcessorTypeOK
<1>4. BlocksAccounted /\ BuffersAccounted
  BY <1>1, <1>2, ConstantTypes DEF BlocksAccounted, BuffersAccounted
<1>5. TokenInv
  BY CheckpointInitInv DEF PipelineInit
<1>6. SuspendedMeansQuiet /\ TimeBudget
  BY <1>1 DEF SuspendedMeansQuiet, TimeBudget
<1> QED BY <1>3, <1>4, <1>5, <1>6 DEF PipelineInv

(* The checkpoint is not touched. *)
LEMMA CheckpointStutters ==
    ASSUME TokenInv, UNCHANGED checkpointVars PROVE TokenInv' /\ mState' = mState
  BY DEF checkpointVars, semVars, TokenInv, AtTypeOK, HolderSuspends, TokenConserved, Past

(* What the sums are made of. *)
Queued == Len(inputQueue)
Collecting == Held(mBlock)
Encoding == IF job = "encode" THEN 1 ELSE 0

LEMMA Parts ==
    ASSUME PipelineInv
    PROVE  /\ Queued \in Nat /\ Collecting \in Nat /\ InHand \in Nat /\ Encoding \in Nat
           /\ mNumCompletedBlocks \in Nat /\ mNumLostBlocks \in Nat /\ wiped \in Nat
           /\ free \in Nat /\ outputQueue \in Nat /\ mNumIncomingBlocks \in Nat
           /\ mNumForwardedBlocks \in Nat /\ mNumLostByProcessor \in Nat
  BY PipelineTypes DEF Queued, Collecting, Encoding

LEMMA Balance ==
    ASSUME NEW l \in Int, NEW r \in Int, NEW m \in Int, NEW s \in Int, l = r, m + r = l + s
    PROVE  m = s
  OBVIOUS

(* A step keeps the accounts when what it adds to one side it adds to the  *)
(* other.                                                                  *)
LEMMA SumsKept ==
    ASSUME PipelineInv,
           mNumCompletedBlocks' \in Nat, mNumLostBlocks' \in Nat, wiped' \in Nat,
           free' \in Nat, outputQueue' \in Nat, mNumIncomingBlocks' \in Nat,
           mNumForwardedBlocks' \in Nat, mNumLostByProcessor' \in Nat,
           Queued' \in Nat, Collecting' \in Nat, InHand' \in Nat, Encoding' \in Nat,
           (mNumCompletedBlocks' + wiped') + (mNumLostBlocks + Queued + mNumIncomingBlocks)
             = (mNumCompletedBlocks + wiped) + (mNumLostBlocks' + Queued' + mNumIncomingBlocks'),
           mNumIncomingBlocks' + (InHand + mNumForwardedBlocks + mNumLostByProcessor)
             = mNumIncomingBlocks + (InHand' + mNumForwardedBlocks' + mNumLostByProcessor'),
           free' + Collecting' + Queued' + outputQueue' + InHand' + Encoding'
             = free + Collecting + Queued + outputQueue + InHand + Encoding
    PROVE  BlocksAccounted' /\ BuffersAccounted'
<1>1. /\ Queued \in Nat /\ Collecting \in Nat /\ InHand \in Nat /\ Encoding \in Nat
      /\ mNumCompletedBlocks \in Nat /\ mNumLostBlocks \in Nat /\ wiped \in Nat
      /\ free \in Nat /\ outputQueue \in Nat /\ mNumIncomingBlocks \in Nat
      /\ mNumForwardedBlocks \in Nat /\ mNumLostByProcessor \in Nat
  BY Parts
<1>2. /\ mNumCompletedBlocks + wiped = mNumLostBlocks + Queued + mNumIncomingBlocks
      /\ mNumIncomingBlocks = InHand + mNumForwardedBlocks + mNumLostByProcessor
      /\ free + Collecting + Queued + outputQueue + InHand + Encoding = NumBuffers
  BY DEF PipelineInv, BlocksAccounted, BuffersAccounted, Queued, Collecting, Encoding
<1> DEFINE completed == mNumCompletedBlocks + wiped
           left == mNumLostBlocks + Queued + mNumIncomingBlocks
           done == InHand + mNumForwardedBlocks + mNumLostByProcessor
<1>3. /\ completed \in Int /\ completed' \in Int /\ left \in Int /\ left' \in Int
      /\ done \in Int /\ done' \in Int /\ mNumIncomingBlocks \in Int /\ mNumIncomingBlocks' \in Int
  BY <1>1
<1>4. /\ completed = left /\ completed' + left = completed + left'
      /\ mNumIncomingBlocks = done /\ mNumIncomingBlocks' + done = mNumIncomingBlocks + done'
  BY <1>2
<1>5. free' + Collecting' + Queued' + outputQueue' + InHand' + Encoding' = NumBuffers
  BY <1>2
<1> HIDE DEF completed, left, done
<1>6. completed' = left' /\ mNumIncomingBlocks' = done'
  BY <1>3, <1>4, Balance
<1>7. /\ mNumCompletedBlocks' + wiped' = mNumLostBlocks' + Queued' + mNumIncomingBlocks'
      /\ mNumIncomingBlocks' = InHand' + mNumForwardedBlocks' + mNumLostByProcessor'
  BY <1>6 DEF completed, left, done
<1> QED BY <1>5, <1>7 DEF BlocksAccounted, BuffersAccounted, Queued, Collecting, Encoding
-----------------------------------------------------------------------------
(* The aggregator. *)
Block == [buffer : BOOLEAN, size : Nat, count : Nat]

(* A new block costs a buffer, and the one it replaces gives one back. *)
LEMMA NewBlock ==
    ASSUME PipelineInv
    PROVE  /\ Current \in Block /\ FreeAfter \in Nat
           /\ Held(Current) \in Nat
           /\ FreeAfter + Held(Current) = free + Collecting
           /\ isValid(Current) => Held(Current) = 1 /\ Current.buffer
<1>1. mBlock \in Block /\ free \in Nat /\ mNextBlocksize \in Nat
  BY PipelineTypes DEF Block
<1>2. CASE Allocates
  <2>1. /\ Current = [buffer |-> TRUE, size |-> mNextBlocksize, count |-> 0]
        /\ FreeAfter = free - 1 + Held(mBlock) /\ free > 0
    BY <1>2 DEF Current, FreeAfter, Allocates
  <2>2. Held(Current) = 1 /\ Current \in Block /\ Held(mBlock) \in Nat
    BY <1>1, <2>1 DEF Held, Block
  <2>3. FreeAfter \in Nat /\ FreeAfter + Held(Current) = free + Held(mBlock)
    BY <1>1, <2>1, <2>2
  <2> QED BY <2>1, <2>2, <2>3 DEF Collecting
<1>3. CASE ~ Allocates
  <2>1. Current = mBlock /\ FreeAfter = free /\ Held(mBlock) \in Nat
    BY <1>3 DEF Current, FreeAfter, Held
  <2>2. isValid(mBlock) => Held(mBlock) = 1 /\ mBlock.buffer
    BY DEF isValid, Held
  <2> QED BY <1>1, <2>1, <2>2 DEF Collecting
<1> QED BY <1>2, <1>3

(* One more sample in the block. *)
LEMMA OneMore ==
    ASSUME NEW b \in Block
    PROVE  LET c == [b EXCEPT !.count = @ + 1]
           IN  c \in Block /\ Held(c) = Held(b) /\ c.size = b.size /\ b.size \in Nat
  BY DEF Block, Held

LEMMA PushKeeps ==
    ASSUME PipelineInv, push, UNCHANGED processorVars
    PROVE  AggregatorTypeOK' /\ BlocksAccounted' /\ BuffersAccounted'
<1> DEFINE b == [Current EXCEPT !.count = @ + 1]
<1>0. /\ Queued \in Nat /\ Collecting \in Nat /\ InHand \in Nat /\ Encoding \in Nat
      /\ mNumCompletedBlocks \in Nat /\ mNumLostBlocks \in Nat /\ wiped \in Nat
      /\ free \in Nat /\ outputQueue \in Nat /\ mNumIncomingBlocks \in Nat
      /\ mNumForwardedBlocks \in Nat /\ mNumLostByProcessor \in Nat
  BY Parts
<1>1. /\ inputQueue \in Seq(Nat) /\ mNextBlocksize \in Nat
      /\ Current \in Block /\ FreeAfter \in Nat /\ Held(Current) \in Nat
      /\ FreeAfter + Held(Current) = free + Collecting
      /\ isValid(Current) => Held(Current) = 1
      /\ b \in Block /\ Held(b) = Held(Current) /\ b.size \in Nat
  BY NewBlock, OneMore, PipelineTypes
<1>2. /\ mNextBlocksize' = mNextBlocksize /\ wiped' = wiped
      /\ outputQueue' = outputQueue /\ mNumIncomingBlocks' = mNumIncomingBlocks
      /\ mNumForwardedBlocks' = mNumForwardedBlocks
      /\ mNumLostByProcessor' = mNumLostByProcessor
      /\ InHand' = InHand /\ Encoding' = Encoding
  BY DEF push, processorVars, InHand, Encoding
<1> HIDE DEF b
<1>3. CASE pushLost \/ pushStored
  <2>1. /\ mBlock' \in Block /\ Held(mBlock') = Held(Current) /\ free' = FreeAfter
        /\ inputQueue' = inputQueue /\ mNumCompletedBlocks' = mNumCompletedBlocks
        /\ mNumLostBlocks' = mNumLostBlocks
    BY <1>1, <1>3 DEF pushLost, pushStored, b, counters
  <2>2. Queued' = Queued /\ Collecting' = Held(Current)
    BY <2>1 DEF Queued, Collecting
  <2>3. AggregatorTypeOK'
    BY <1>0, <1>1, <1>2, <2>1 DEF AggregatorTypeOK, Block
  <2>4. free' + Collecting' = free + Collecting /\ free' \in Nat /\ Collecting' \in Nat
    BY <1>1, <2>1, <2>2
  <2>5. free' + Collecting' + Queued' + outputQueue' + InHand' + Encoding'
            = free + Collecting + Queued + outputQueue + InHand + Encoding
    BY <1>0, <1>2, <2>2, <2>4
  <2>6. BlocksAccounted' /\ BuffersAccounted'
    BY <1>0, <1>2, <2>1, <2>2, <2>4, <2>5, SumsKept
  <2> QED BY <2>3, <2>6
<1>4. CASE pushCompletes
  <2>1. /\ isValid(Current) /\ mNumCompletedBlocks' = mNumCompletedBlocks + 1
        /\ \/ /\ inputQueue' = Append(inputQueue, b.size) /\ free' = FreeAfter
              /\ mNumLostBlocks' = mNumLostBlocks
           \/ /\ inputQueue' = inputQueue /\ free' = FreeAfter + 1
              /\ mNumLostBlocks' = mNumLostBlocks + 1
        /\ mBlock' = NoBlock
    BY <1>4 DEF pushCompletes, b
  <2>2. Collecting' = 0 /\ mBlock' \in Block
    BY <2>1 DEF Collecting, Held, NoBlock, Block
  <2>3. FreeAfter + 1 = free + Collecting
    BY <1>1, <2>1
  <2>4. CASE /\ inputQueue' = Append(inputQueue, b.size) /\ free' = FreeAfter
             /\ mNumLostBlocks' = mNumLostBlocks
    <3>1. inputQueue' \in Seq(Nat) /\ Queued' = Queued + 1
      BY <1>1, <2>4 DEF Queued
    <3>2. AggregatorTypeOK'
      BY <1>0, <1>1, <1>2, <2>1, <2>2, <2>4, <3>1 DEF AggregatorTypeOK, Block
    <3>3. free' + Collecting' + Queued' + outputQueue' + InHand' + Encoding'
            = free + Collecting + Queued + outputQueue + InHand + Encoding
      BY <1>0, <1>1, <1>2, <2>2, <2>3, <2>4, <3>1
    <3>4. /\ (mNumCompletedBlocks' + wiped') + (mNumLostBlocks + Queued + mNumIncomingBlocks)
             = (mNumCompletedBlocks + wiped) + (mNumLostBlocks' + Queued' + mNumIncomingBlocks')
          /\ mNumCompletedBlocks' \in Nat /\ mNumLostBlocks' \in Nat /\ Queued' \in Nat
          /\ free' \in Nat /\ Collecting' \in Nat
      BY <1>0, <1>1, <1>2, <2>1, <2>2, <2>4, <3>1
    <3>5. BlocksAccounted' /\ BuffersAccounted'
      BY <1>0, <1>2, <3>3, <3>4, SumsKept
    <3> QED BY <3>2, <3>5
  <2>5. CASE /\ inputQueue' = inputQueue /\ free' = FreeAfter + 1
             /\ mNumLostBlocks' = mNumLostBlocks + 1
    <3>1. inputQueue' \in Seq(Nat) /\ Queued' = Queued
      BY <1>1, <2>5 DEF Queued
    <3>2. AggregatorTypeOK'
      BY <1>0, <1>1, <1>2, <2>1, <2>2, <2>5, <3>1 DEF AggregatorTypeOK, Block
    <3>3. free' + Collecting' + Queued' + outputQueue' + InHand' + Encoding'
            = free + Collecting + Queued + outputQueue + InHand + Encoding
      BY <1>0, <1>1, <1>2, <2>2, <2>3, <2>5, <3>1
    <3>4. /\ (mNumCompletedBlocks' + wiped') + (mNumLostBlocks + Queued + mNumIncomingBlocks)
             = (mNumCompletedBlocks + wiped) + (mNumLostBlocks' + Queued' + mNumIncomingBlocks')
          /\ mNumCompletedBlocks' \in Nat /\ mNumLostBlocks' \in Nat /\ Queued' \in Nat
          /\ free' \in Nat /\ Collecting' \in Nat
      BY <1>0, <1>1, <1>2, <2>1, <2>2, <2>5, <3>1
    <3>5. BlocksAccounted' /\ BuffersAccounted'
      BY <1>0, <1>2, <3>3, <3>4, SumsKept
    <3> QED BY <3>2, <3>5
  <2> QED BY <2>1, <2>4, <2>5
<1> QED BY <1>3, <1>4 DEF push

LEMMA SettingsKeep ==
    ASSUME PipelineInv, UNCHANGED processorVars,
           \/ disable \/ disableAfterCurrentBlock \/ resetCounters
           \/ \E bs \in Blocksize, once \in BOOLEAN : enable(bs, once)
    PROVE  AggregatorTypeOK' /\ BlocksAccounted' /\ BuffersAccounted'
<1>0. /\ Queued \in Nat /\ Collecting \in Nat /\ InHand \in Nat /\ Encoding \in Nat
      /\ mNumCompletedBlocks \in Nat /\ mNumLostBlocks \in Nat /\ wiped \in Nat
      /\ free \in Nat /\ outputQueue \in Nat /\ mNumIncomingBlocks \in Nat
      /\ mNumForwardedBlocks \in Nat /\ mNumLostByProcessor \in Nat
  BY Parts
<1>1. /\ inputQueue' = inputQueue /\ inputQueue \in Seq(Nat) /\ mBlock \in Block
      /\ mNumLostBlocks' = mNumLostBlocks
      /\ outputQueue' = outputQueue /\ mNumIncomingBlocks' = mNumIncomingBlocks
      /\ mNumForwardedBlocks' = mNumForwardedBlocks
      /\ mNumLostByProcessor' = mNumLostByProcessor
      /\ InHand' = InHand /\ Encoding' = Encoding /\ Queued' = Queued
  BY PipelineTypes DEF disable, disableAfterCurrentBlock, resetCounters, enable, processorVars,
     InHand, Encoding, Queued, counters, Block
<1>2. mNextBlocksize' \in Nat
  <2>1. mNextBlocksize \in Nat
    BY PipelineTypes
  <2> QED BY <2>1, AggregatorAssumption DEF disable, disableAfterCurrentBlock, resetCounters, enable
<1>3. /\ mBlock' \in Block /\ free' \in Nat /\ Collecting' \in Nat
      /\ free' + Collecting' = free + Collecting
  <2>1. CASE disable
    <3>1. Collecting' = 0 /\ mBlock' \in Block /\ free' = free + Collecting
      BY <2>1 DEF disable, Collecting, Held, NoBlock, Block
    <3> QED BY <1>0, <3>1
  <2>2. CASE ~ disable
    BY <1>0, <1>1, <2>2 DEF disableAfterCurrentBlock, resetCounters, enable, Collecting
  <2> QED BY <2>1, <2>2
<1>4. /\ mNumCompletedBlocks' \in Nat /\ wiped' \in Nat
      /\ mNumCompletedBlocks' + wiped' = mNumCompletedBlocks + wiped
  <2>1. \/ mNumCompletedBlocks' = mNumCompletedBlocks /\ wiped' = wiped
        \/ mNumCompletedBlocks' = 0 /\ wiped' = wiped + mNumCompletedBlocks
    BY DEF disable, disableAfterCurrentBlock, resetCounters, enable, counters
  <2> QED BY <1>0, <2>1
<1>5. AggregatorTypeOK'
  BY <1>0, <1>1, <1>2, <1>3, <1>4 DEF AggregatorTypeOK, Block
<1>6. free' + Collecting' + Queued' + outputQueue' + InHand' + Encoding'
        = free + Collecting + Queued + outputQueue + InHand + Encoding
  BY <1>0, <1>1, <1>3
<1>7. BlocksAccounted' /\ BuffersAccounted'
  BY <1>0, <1>1, <1>3, <1>4, <1>6, SumsKept
<1> QED BY <1>5, <1>7

LEMMA AggregatorKeeps ==
    ASSUME PipelineInv, AggregatorNext, UNCHANGED <<checkpointVars, processorVars>>
    PROVE  PipelineInv'
<1>1. AggregatorTypeOK' /\ BlocksAccounted' /\ BuffersAccounted'
  BY PushKeeps, SettingsKeep DEF AggregatorNext
<1>2. TokenInv' /\ mState' = mState
  BY CheckpointStutters DEF PipelineInv
<1>3. ProcessorTypeOK' /\ SuspendedMeansQuiet' /\ TimeBudget'
  BY <1>2 DEF PipelineInv, processorVars, ProcessorTypeOK, SuspendedMeansQuiet, TimeBudget, Promise
<1> QED BY <1>1, <1>2, <1>3 DEF PipelineInv
-----------------------------------------------------------------------------
(* The thread in pass(): only an open checkpoint lets it go on. *)
LEMMA RunPassKeeps ==
    ASSUME PipelineInv, runPass PROVE PipelineInv'
<1>0. /\ job = "pass" /\ promised' = 0 /\ Processor \in Worker /\ Processor \in Thread
      /\ UNCHANGED <<aggregatorVars, tries, outputQueue, mNumIncomingBlocks,
                     mNumProcessedBlocks, mNumForwardedBlocks, mNumLostByProcessor, spent>>
  BY ProcessorAssumption, CheckpointAssumption DEF runPass
<1>1. TokenInv'
  <2>1. TokenInv
    BY DEF PipelineInv
  <2>2. pass(Processor) \/ passCheck(Processor) \/ passAcquire(Processor) \/ passRelease(Processor)
    BY DEF runPass
  <2> QED BY <1>0, <2>1, <2>2, CheckKeepsToken, PassAcquireKeepsToken, PassReleaseKeepsToken
<1>2. /\ job' \in {"pass", "receive"}
      /\ job' = "receive" => mState' = "running"
  <2>1. CASE passCheck(Processor) /\ job' = IF at'[Processor] = "idle" THEN "receive" ELSE job
    <3>1. CASE mState = "running" /\ mState' = mState
      BY <1>0, <2>1, <3>1
    <3>2. CASE Goto(Processor, "acquire")
      <4>1. at'[Processor] = "acquire"
        BY <1>0, <3>2 DEF Goto, PipelineInv, TokenInv, AtTypeOK
      <4> QED BY <1>0, <2>1, <4>1
    <3> QED BY <2>1, <3>1, <3>2 DEF passCheck
  <2>2. CASE job' = job
    BY <1>0, <2>2
  <2> QED BY <2>1, <2>2 DEF runPass
<1>3. InHand = 0 /\ InHand' = 0 /\ Encoding' = Encoding
  BY <1>0, <1>2 DEF InHand, Encoding
<1>4. AggregatorTypeOK' /\ ProcessorTypeOK'
  BY <1>0, <1>2 DEF PipelineInv, AggregatorTypeOK, ProcessorTypeOK, aggregatorVars, counters
<1>5. BlocksAccounted' /\ BuffersAccounted'
  BY <1>0, <1>3 DEF PipelineInv, BlocksAccounted, BuffersAccounted, Encoding, aggregatorVars,
                    counters
<1>6. SuspendedMeansQuiet'
  BY <1>2 DEF SuspendedMeansQuiet
<1>7. TimeBudget'
  BY <1>0, <1>2 DEF TimeBudget
<1> QED BY <1>1, <1>4, <1>5, <1>6, <1>7 DEF PipelineInv

(* What processSingleBlock() leaves alone. *)
LEMMA ProcessorFrame ==
    ASSUME PipelineInv, receive \/ compress \/ encode \/ send \/ consume
    PROVE  /\ mNextBlocksize' = mNextBlocksize /\ mBlock' = mBlock /\ wiped' = wiped
           /\ mNumCompletedBlocks' = mNumCompletedBlocks /\ mNumLostBlocks' = mNumLostBlocks
           /\ Collecting' = Collecting
           /\ TokenInv' /\ mState' = mState
<1>1. /\ mNextBlocksize' = mNextBlocksize /\ mBlock' = mBlock /\ wiped' = wiped
      /\ mNumCompletedBlocks' = mNumCompletedBlocks /\ mNumLostBlocks' = mNumLostBlocks
      /\ UNCHANGED checkpointVars
  BY DEF receive, compress, encode, send, consume, counters
<1>2. TokenInv' /\ mState' = mState
  BY <1>1, CheckpointStutters DEF PipelineInv
<1> QED BY <1>1, <1>2 DEF Collecting

(* A thread outside of pass() knows that the checkpoint is not closed. *)
LEMMA StaysQuiet ==
    ASSUME PipelineInv, mState' = mState, job # "pass" \/ job' = job PROVE SuspendedMeansQuiet'
  BY DEF PipelineInv, SuspendedMeansQuiet

LEMMA PromiseType == Promise \in Nat
<1> DEFINE r == mRetrySendTimeout * mMaxSendRetries
           p == processingTimeout * 2
<1>1. r \in Nat /\ p \in Nat
  BY ConstantTypes
<1> HIDE DEF r, p
<1>2. waitForBlockTimeout + p + r \in Nat
  BY <1>1, ConstantTypes
<1> QED BY <1>2 DEF Promise, r, p

LEMMA ReceiveKeeps ==
    ASSUME PipelineInv, receive PROVE PipelineInv'
<1>0. /\ Queued \in Nat /\ Collecting \in Nat /\ InHand \in Nat /\ Encoding \in Nat
      /\ mNumCompletedBlocks \in Nat /\ mNumLostBlocks \in Nat /\ wiped \in Nat
      /\ free \in Nat /\ outputQueue \in Nat /\ mNumIncomingBlocks \in Nat
      /\ mNumForwardedBlocks \in Nat /\ mNumLostByProcessor \in Nat
  BY Parts
<1>1. /\ mNextBlocksize' = mNextBlocksize /\ mBlock' = mBlock /\ wiped' = wiped
      /\ mNumCompletedBlocks' = mNumCompletedBlocks /\ mNumLostBlocks' = mNumLostBlocks
      /\ Collecting' = Collecting /\ TokenInv' /\ mState' = mState
  BY ProcessorFrame
<1>2. /\ job = "receive" /\ promised' = Promise /\ spent' = waitForBlockTimeout
      /\ free' = free /\ outputQueue' = outputQueue /\ tries' = tries
      /\ mNumForwardedBlocks' = mNumForwardedBlocks
      /\ mNumLostByProcessor' = mNumLostByProcessor
  BY DEF receive
<1>3. CASE /\ inputQueue # << >> /\ inputQueue' = Tail(inputQueue)
           /\ mNumIncomingBlocks' = mNumIncomingBlocks + 1 /\ job' = "compress"
  <2>1. inputQueue' \in Seq(Nat) /\ Queued' = Queued - 1 /\ Queued > 0
    BY <1>3, PipelineTypes DEF Queued
  <2>2. InHand = 0 /\ InHand' = 1 /\ Encoding = 0 /\ Encoding' = 0
    BY <1>2, <1>3 DEF InHand, Encoding
  <2>3. Queued' \in Nat /\ mNumIncomingBlocks' \in Nat
    BY <1>0, <1>3, <2>1
  <2>4. AggregatorTypeOK' /\ ProcessorTypeOK'
    BY <1>0, <1>1, <1>2, <1>3, <2>1, <2>3, ConstantTypes, PromiseType
    DEF PipelineInv, AggregatorTypeOK, ProcessorTypeOK
  <2>5. /\ (mNumCompletedBlocks' + wiped') + (mNumLostBlocks + Queued + mNumIncomingBlocks)
             = (mNumCompletedBlocks + wiped) + (mNumLostBlocks' + Queued' + mNumIncomingBlocks')
        /\ mNumIncomingBlocks' + (InHand + mNumForwardedBlocks + mNumLostByProcessor)
             = mNumIncomingBlocks + (InHand' + mNumForwardedBlocks' + mNumLostByProcessor')
        /\ free' + Collecting' + Queued' + outputQueue' + InHand' + Encoding'
             = free + Collecting + Queued + outputQueue + InHand + Encoding
    BY <1>0, <1>1, <1>2, <1>3, <2>1, <2>2
  <2>6. BlocksAccounted' /\ BuffersAccounted'
    BY <1>0, <1>1, <1>2, <2>2, <2>3, <2>5, SumsKept
  <2>7. TimeBudget'
    BY <1>2, <1>3 DEF TimeBudget, Promise
  <2>8. SuspendedMeansQuiet'
    BY <1>1, <1>2, StaysQuiet
  <2> QED BY <1>1, <2>4, <2>6, <2>7, <2>8 DEF PipelineInv
<1>4. CASE /\ inputQueue' = inputQueue /\ mNumIncomingBlocks' = mNumIncomingBlocks
           /\ job' = "pass"
  <2>1. AggregatorTypeOK' /\ ProcessorTypeOK'
    BY <1>1, <1>2, <1>4, ConstantTypes, PromiseType DEF PipelineInv, AggregatorTypeOK, ProcessorTypeOK
  <2>2. InHand = 0 /\ InHand' = 0 /\ Encoding = 0 /\ Encoding' = 0 /\ Queued' = Queued
    BY <1>2, <1>4 DEF InHand, Encoding, Queued
  <2>3. BlocksAccounted' /\ BuffersAccounted'
    BY <1>1, <1>2, <1>4, <2>2
    DEF PipelineInv, BlocksAccounted, BuffersAccounted, Encoding, Collecting
  <2>4. TimeBudget' /\ SuspendedMeansQuiet'
    BY <1>4 DEF TimeBudget, SuspendedMeansQuiet
  <2> QED BY <1>1, <2>1, <2>3, <2>4 DEF PipelineInv
<1> QED BY <1>3, <1>4 DEF receive

LEMMA CompressKeeps ==
    ASSUME PipelineInv, compress PROVE PipelineInv'
<1>0. /\ Queued \in Nat /\ Collecting \in Nat /\ InHand \in Nat /\ Encoding \in Nat
      /\ mNumCompletedBlocks \in Nat /\ mNumLostBlocks \in Nat /\ wiped \in Nat
      /\ free \in Nat /\ outputQueue \in Nat /\ mNumIncomingBlocks \in Nat
      /\ mNumForwardedBlocks \in Nat /\ mNumLostByProcessor \in Nat
  BY Parts
<1>1. /\ mNextBlocksize' = mNextBlocksize /\ mBlock' = mBlock /\ wiped' = wiped
      /\ mNumCompletedBlocks' = mNumCompletedBlocks /\ mNumLostBlocks' = mNumLostBlocks
      /\ Collecting' = Collecting /\ TokenInv' /\ mState' = mState
  BY ProcessorFrame
<1>2. /\ job = "compress" /\ promised' = promised /\ spent' = spent + processingTimeout
      /\ inputQueue' = inputQueue /\ outputQueue' = outputQueue /\ tries' = tries
      /\ mNumForwardedBlocks' = mNumForwardedBlocks /\ mNumIncomingBlocks' = mNumIncomingBlocks
      /\ Queued' = Queued
  BY DEF compress, Queued
<1>3. /\ spent \in Nat /\ spent' \in Nat /\ spent = waitForBlockTimeout /\ promised = Promise
  BY <1>2, PipelineTypes, ConstantTypes DEF PipelineInv, TimeBudget
<1>4. SuspendedMeansQuiet'
  BY <1>1, <1>2, StaysQuiet
<1>5. \/ /\ free > 0 /\ free' = free - 1 /\ job' = "encode"
         /\ mNumLostByProcessor' = mNumLostByProcessor
      \/ /\ free' = free + 1 /\ job' = "pass"
         /\ mNumLostByProcessor' = mNumLostByProcessor + 1
  BY DEF compress, GiveUp
<1>6. free' \in Nat /\ mNumLostByProcessor' \in Nat /\ job' \in {"encode", "pass"}
  BY <1>0, <1>5
<1>7. AggregatorTypeOK' /\ ProcessorTypeOK'
  BY <1>1, <1>2, <1>3, <1>6 DEF PipelineInv, AggregatorTypeOK, ProcessorTypeOK
<1>8. TimeBudget'
  BY <1>2, <1>3, <1>6 DEF TimeBudget, Promise
<1>9. InHand = 1 /\ Encoding = 0
  BY <1>2 DEF InHand, Encoding
<1>10. /\ InHand' \in Nat /\ Encoding' \in Nat
       /\ mNumIncomingBlocks' + (InHand + mNumForwardedBlocks + mNumLostByProcessor)
             = mNumIncomingBlocks + (InHand' + mNumForwardedBlocks' + mNumLostByProcessor')
       /\ free' + Collecting' + Queued' + outputQueue' + InHand' + Encoding'
             = free + Collecting + Queued + outputQueue + InHand + Encoding
  <2>1. CASE /\ free > 0 /\ free' = free - 1 /\ job' = "encode"
             /\ mNumLostByProcessor' = mNumLostByProcessor
    <3>1. InHand' = 1 /\ Encoding' = 1
      BY <2>1 DEF InHand, Encoding
    <3> QED BY <1>0, <1>1, <1>2, <1>9, <2>1, <3>1
  <2>2. CASE /\ free' = free + 1 /\ job' = "pass"
             /\ mNumLostByProcessor' = mNumLostByProcessor + 1
    <3>1. InHand' = 0 /\ Encoding' = 0
      BY <2>2 DEF InHand, Encoding
    <3> QED BY <1>0, <1>1, <1>2, <1>9, <2>2, <3>1
  <2> QED BY <1>5, <2>1, <2>2
<1>11. (mNumCompletedBlocks' + wiped') + (mNumLostBlocks + Queued + mNumIncomingBlocks)
             = (mNumCompletedBlocks + wiped) + (mNumLostBlocks' + Queued' + mNumIncomingBlocks')
  BY <1>1, <1>2
<1>12. BlocksAccounted' /\ BuffersAccounted'
  BY <1>0, <1>1, <1>2, <1>6, <1>10, <1>11, SumsKept
<1> QED BY <1>1, <1>4, <1>7, <1>8, <1>12 DEF PipelineInv

LEMMA EncodeKeeps ==
    ASSUME PipelineInv, encode PROVE PipelineInv'
<1>0. /\ Queued \in Nat /\ Collecting \in Nat /\ InHand \in Nat /\ Encoding \in Nat
      /\ mNumCompletedBlocks \in Nat /\ mNumLostBlocks \in Nat /\ wiped \in Nat
      /\ free \in Nat /\ outputQueue \in Nat /\ mNumIncomingBlocks \in Nat
      /\ mNumForwardedBlocks \in Nat /\ mNumLostByProcessor \in Nat
  BY Parts
<1>1. /\ mNextBlocksize' = mNextBlocksize /\ mBlock' = mBlock /\ wiped' = wiped
      /\ mNumCompletedBlocks' = mNumCompletedBlocks /\ mNumLostBlocks' = mNumLostBlocks
      /\ Collecting' = Collecting /\ TokenInv' /\ mState' = mState
  BY ProcessorFrame
<1>2. /\ job = "encode" /\ job' = "send" /\ promised' = promised
      /\ spent' = spent + processingTimeout /\ free' = free + 1 /\ tries' = 0
      /\ inputQueue' = inputQueue /\ outputQueue' = outputQueue
      /\ mNumForwardedBlocks' = mNumForwardedBlocks /\ mNumIncomingBlocks' = mNumIncomingBlocks
      /\ mNumLostByProcessor' = mNumLostByProcessor /\ Queued' = Queued
  BY DEF encode, Queued
<1>3. InHand = 1 /\ InHand' = 1 /\ Encoding = 1 /\ Encoding' = 0
  BY <1>2 DEF InHand, Encoding
<1>4. free' \in Nat
  BY <1>0, <1>2
<1>5. /\ (mNumCompletedBlocks' + wiped') + (mNumLostBlocks + Queued + mNumIncomingBlocks)
             = (mNumCompletedBlocks + wiped) + (mNumLostBlocks' + Queued' + mNumIncomingBlocks')
      /\ mNumIncomingBlocks' + (InHand + mNumForwardedBlocks + mNumLostByProcessor)
             = mNumIncomingBlocks + (InHand' + mNumForwardedBlocks' + mNumLostByProcessor')
      /\ free' + Collecting' + Queued' + outputQueue' + InHand' + Encoding'
             = free + Collecting + Queued + outputQueue + InHand + Encoding
  BY <1>0, <1>1, <1>2, <1>3
<1>6. BlocksAccounted' /\ BuffersAccounted'
  BY <1>0, <1>1, <1>2, <1>3, <1>4, <1>5, SumsKept
<1>7. /\ spent \in Nat /\ spent = waitForBlockTimeout + processingTimeout /\ promised = Promise
  BY <1>2, PipelineTypes DEF PipelineInv, TimeBudget
<1>8. /\ spent' \in Nat
      /\ spent' = waitForBlockTimeout + processingTimeout * 2 + mRetrySendTimeout * 0
  BY <1>2, <1>7, ConstantTypes
<1>9. TimeBudget'
  <2>1. 0 <= mMaxSendRetries
    BY ConstantTypes
  <2> QED BY <1>2, <1>7, <1>8, <2>1 DEF TimeBudget, Promise
<1>10. AggregatorTypeOK' /\ ProcessorTypeOK'
  BY <1>1, <1>2, <1>4, <1>8 DEF PipelineInv, AggregatorTypeOK, ProcessorTypeOK
<1>11. SuspendedMeansQuiet'
  BY <1>1, <1>2, StaysQuiet
<1> QED BY <1>1, <1>6, <1>9, <1>10, <1>11 DEF PipelineInv

LEMMA NextTry ==
    ASSUME NEW r \in Nat, NEW t \in Nat PROVE r * (t + 1) = r * t + r /\ r * t \in Nat
  OBVIOUS

LEMMA SendKeeps ==
    ASSUME PipelineInv, send PROVE PipelineInv'
<1>0. /\ Queued \in Nat /\ Collecting \in Nat /\ InHand \in Nat /\ Encoding \in Nat
      /\ mNumCompletedBlocks \in Nat /\ mNumLostBlocks \in Nat /\ wiped \in Nat
      /\ free \in Nat /\ outputQueue \in Nat /\ mNumIncomingBlocks \in Nat
      /\ mNumForwardedBlocks \in Nat /\ mNumLostByProcessor \in Nat
  BY Parts
<1>1. /\ mNextBlocksize' = mNextBlocksize /\ mBlock' = mBlock /\ wiped' = wiped
      /\ mNumCompletedBlocks' = mNumCompletedBlocks /\ mNumLostBlocks' = mNumLostBlocks
      /\ Collecting' = Collecting /\ TokenInv' /\ mState' = mState
  BY ProcessorFrame
<1>2. /\ job = "send" /\ promised' = promised /\ inputQueue' = inputQueue
      /\ mNumIncomingBlocks' = mNumIncomingBlocks /\ Queued' = Queued
  BY DEF send, Queued
<1>3. InHand = 1 /\ Encoding = 0
  BY <1>2 DEF InHand, Encoding
<1>4. /\ spent \in Nat /\ tries \in Nat /\ promised = Promise
      /\ spent = waitForBlockTimeout + processingTimeout * 2 + mRetrySendTimeout * tries
  BY <1>2, PipelineTypes DEF PipelineInv, TimeBudget
<1>5. SuspendedMeansQuiet'
  BY <1>1, <1>2, StaysQuiet
<1>6. (mNumCompletedBlocks' + wiped') + (mNumLostBlocks + Queued + mNumIncomingBlocks)
             = (mNumCompletedBlocks + wiped) + (mNumLostBlocks' + Queued' + mNumIncomingBlocks')
  BY <1>1, <1>2
<1>7. CASE /\ outputQueue' = outputQueue + 1 /\ mNumForwardedBlocks' = mNumForwardedBlocks + 1
           /\ job' = "pass" /\ UNCHANGED <<free, tries, mNumLostByProcessor, spent>>
  <2>1. InHand' = 0 /\ Encoding' = 0 /\ outputQueue' \in Nat /\ mNumForwardedBlocks' \in Nat
    BY <1>0, <1>7 DEF InHand, Encoding
  <2>2. /\ mNumIncomingBlocks' + (InHand + mNumForwardedBlocks + mNumLostByProcessor)
             = mNumIncomingBlocks + (InHand' + mNumForwardedBlocks' + mNumLostByProcessor')
        /\ free' + Collecting' + Queued' + outputQueue' + InHand' + Encoding'
             = free + Collecting + Queued + outputQueue + InHand + Encoding
    BY <1>0, <1>1, <1>2, <1>3, <1>7, <2>1
  <2>3. BlocksAccounted' /\ BuffersAccounted'
    BY <1>0, <1>1, <1>2, <1>6, <1>7, <2>1, <2>2, SumsKept
  <2>4. AggregatorTypeOK' /\ ProcessorTypeOK' /\ TimeBudget'
    BY <1>1, <1>2, <1>7, <2>1 DEF PipelineInv, AggregatorTypeOK, ProcessorTypeOK, TimeBudget
  <2> QED BY <1>1, <1>5, <2>3, <2>4 DEF PipelineInv
<1>8. CASE /\ TriesLeft /\ tries' = tries + 1 /\ spent' = spent + mRetrySendTimeout
           /\ UNCHANGED <<free, job, outputQueue, mNumForwardedBlocks, mNumLostByProcessor>>
  <2>1. InHand' = InHand /\ Encoding' = Encoding
    BY <1>8 DEF InHand, Encoding
  <2>2. BlocksAccounted' /\ BuffersAccounted'
    BY <1>0, <1>1, <1>2, <1>6, <1>8, <2>1, SumsKept
  <2>3. tries' \in Nat /\ spent' \in Nat /\ tries' <= mMaxSendRetries
    BY <1>4, <1>8, ConstantTypes DEF TriesLeft
  <2>4. spent' = waitForBlockTimeout + processingTimeout * 2 + mRetrySendTimeout * tries'
    <3> DEFINE a == waitForBlockTimeout + processingTimeout * 2
               r == mRetrySendTimeout * tries
    <3>1. a \in Nat /\ r \in Nat /\ mRetrySendTimeout * (tries + 1) = r + mRetrySendTimeout
          /\ mRetrySendTimeout \in Nat /\ spent = a + r
      BY <1>4, ConstantTypes, NextTry
    <3> HIDE DEF a, r
    <3>2. spent + mRetrySendTimeout = a + (r + mRetrySendTimeout)
      BY <3>1
    <3>3. spent' = a + mRetrySendTimeout * tries'
      BY <1>8, <3>1, <3>2
    <3> QED BY <3>3 DEF a
  <2>5. TimeBudget'
    BY <1>2, <1>4, <1>8, <2>3, <2>4 DEF TimeBudget, Promise
  <2>6. AggregatorTypeOK' /\ ProcessorTypeOK'
    BY <1>1, <1>2, <1>8, <2>3 DEF PipelineInv, AggregatorTypeOK, ProcessorTypeOK
  <2> QED BY <1>1, <1>5, <2>2, <2>5, <2>6 DEF PipelineInv
<1>9. CASE /\ free' = free + 1 /\ mNumLostByProcessor' = mNumLostByProcessor + 1
           /\ job' = "pass" /\ UNCHANGED <<tries, outputQueue, mNumForwardedBlocks, spent>>
  <2>1. InHand' = 0 /\ Encoding' = 0 /\ free' \in Nat /\ mNumLostByProcessor' \in Nat
    BY <1>0, <1>9 DEF InHand, Encoding
  <2>2. /\ mNumIncomingBlocks' + (InHand + mNumForwardedBlocks + mNumLostByProcessor)
             = mNumIncomingBlocks + (InHand' + mNumForwardedBlocks' + mNumLostByProcessor')
        /\ free' + Collecting' + Queued' + outputQueue' + InHand' + Encoding'
             = free + Collecting + Queued + outputQueue + InHand + Encoding
    BY <1>0, <1>1, <1>2, <1>3, <1>9, <2>1
  <2>3. BlocksAccounted' /\ BuffersAccounted'
    BY <1>0, <1>1, <1>2, <1>6, <1>9, <2>1, <2>2, SumsKept
  <2>4. AggregatorTypeOK' /\ ProcessorTypeOK' /\ TimeBudget'
    BY <1>1, <1>2, <1>9, <2>1 DEF PipelineInv, AggregatorTypeOK, ProcessorTypeOK, TimeBudget
  <2> QED BY <1>1, <1>5, <2>3, <2>4 DEF PipelineInv
<1> QED BY <1>7, <1>8, <1>9 DEF send, GiveUp

LEMMA ConsumeKeeps ==
    ASSUME PipelineInv, consume PROVE PipelineInv'
<1>0. /\ Queued \in Nat /\ Collecting \in Nat /\ InHand \in Nat /\ Encoding \in Nat
      /\ mNumCompletedBlocks \in Nat /\ mNumLostBlocks \in Nat /\ wiped \in Nat
      /\ free \in Nat /\ outputQueue \in Nat /\ mNumIncomingBlocks \in Nat
      /\ mNumForwardedBlocks \in Nat /\ mNumLostByProcessor \in Nat
  BY Parts
<1>1. /\ mNextBlocksize' = mNextBlocksize /\ mBlock' = mBlock /\ wiped' = wiped
      /\ mNumCompletedBlocks' = mNumCompletedBlocks /\ mNumLostBlocks' = mNumLostBlocks
      /\ Collecting' = Collecting /\ TokenInv' /\ mState' = mState
  BY ProcessorFrame
<1>2. /\ outputQueue > 0 /\ outputQueue' = outputQueue - 1 /\ free' = free + 1
      /\ inputQueue' = inputQueue /\ job' = job /\ tries' = tries /\ spent' = spent
      /\ promised' = promised /\ mNumIncomingBlocks' = mNumIncomingBlocks
      /\ mNumForwardedBlocks' = mNumForwardedBlocks
      /\ mNumLostByProcessor' = mNumLostByProcessor
      /\ Queued' = Queued /\ InHand' = InHand /\ Encoding' = Encoding
  BY DEF consume, Queued, InHand, Encoding
<1>3. outputQueue' \in Nat /\ free' \in Nat
  BY <1>0, <1>2
<1>4. free' + Collecting' + Queued' + outputQueue' + InHand' + Encoding'
             = free + Collecting + Queued + outputQueue + InHand + Encoding
  BY <1>0, <1>1, <1>2
<1>5. BlocksAccounted' /\ BuffersAccounted'
  BY <1>0, <1>1, <1>2, <1>3, <1>4, SumsKept
<1>6. AggregatorTypeOK' /\ ProcessorTypeOK' /\ TimeBudget'
  BY <1>1, <1>2, <1>3 DEF PipelineInv, AggregatorTypeOK, ProcessorTypeOK, TimeBudget, Promise
<1>7. SuspendedMeansQuiet'
  BY <1>1, <1>2, StaysQuiet
<1> QED BY <1>1, <1>5, <1>6, <1>7 DEF PipelineInv

(* enable() and disable() neither close the checkpoint behind a thread at  *)
(* work, which only its own pass() does, nor touch its blocks.             *)
LEMMA CommandKeeps ==
    ASSUME PipelineInv, command PROVE PipelineInv'
<1>1. TokenInv'
  <2>1. TokenInv
    BY DEF PipelineInv
  <2> QED BY <2>1, ResumeKeepsToken, SuspendKeepsToken, SuspendAcquireKeepsToken DEF command
<1>2. UNCHANGED <<aggregatorVars, processorVars>> /\ (mState' = "suspended" => mState = "suspended")
  BY DEF command, resume, Resume, suspend, Suspending, suspendAcquire
<1>3. AggregatorTypeOK' /\ ProcessorTypeOK' /\ TimeBudget' /\ SuspendedMeansQuiet'
  BY <1>2 DEF PipelineInv, AggregatorTypeOK, ProcessorTypeOK, TimeBudget, SuspendedMeansQuiet,
     aggregatorVars, counters, processorVars, Promise
<1>4. BlocksAccounted' /\ BuffersAccounted'
  BY <1>2 DEF PipelineInv, BlocksAccounted, BuffersAccounted, InHand, aggregatorVars, counters,
     processorVars
<1> QED BY <1>1, <1>3, <1>4 DEF PipelineInv

(* PipelineInv is an invariant of the pipeline. *)
THEOREM PipelineInductive == PipelineSpec => []PipelineInv
<1>1. PipelineInv /\ [PipelineNext]_pipelineVars => PipelineInv'
  <2> SUFFICES ASSUME PipelineInv, [PipelineNext]_pipelineVars PROVE PipelineInv'
    OBVIOUS
  <2>1. CASE AggregatorNext /\ UNCHANGED <<checkpointVars, processorVars>>
    BY <2>1, AggregatorKeeps
  <2>2. CASE runPass
    BY <2>2, RunPassKeeps
  <2>3. CASE processSingleBlock
    BY <2>3, ReceiveKeeps, CompressKeeps, EncodeKeeps, SendKeeps DEF processSingleBlock
  <2>4. CASE consume \/ command
    BY <2>4, ConsumeKeeps, CommandKeeps
  <2>5. CASE UNCHANGED pipelineVars
    <3>1. TokenInv' /\ mState' = mState
      BY <2>5, CheckpointStutters DEF PipelineInv, pipelineVars
    <3>2. UNCHANGED <<aggregatorVars, processorVars>>
      BY <2>5 DEF pipelineVars
    <3>3. AggregatorTypeOK' /\ ProcessorTypeOK' /\ TimeBudget' /\ SuspendedMeansQuiet'
      BY <3>1, <3>2 DEF PipelineInv, AggregatorTypeOK, ProcessorTypeOK, TimeBudget,
         SuspendedMeansQuiet, aggregatorVars, counters, processorVars, Promise
    <3>4. BlocksAccounted' /\ BuffersAccounted'
      BY <3>2 DEF PipelineInv, BlocksAccounted, BuffersAccounted, InHand, aggregatorVars, counters,
         processorVars
    <3> QED BY <3>1, <3>3, <3>4 DEF PipelineInv
  <2> QED BY <2>1, <2>2, <2>3, <2>4, <2>5 DEF PipelineNext
<1> QED BY <1>1, PipelineInitInv, PTL DEF PipelineSpec

(* No complete block and no buffer gets lost between the aggregator and    *)
(* the output queue without being counted, for any sizes of the queues and *)
(* of the pool.                                                            *)
THEOREM PipelineIsAccounted == PipelineSpec => []PipelineAccounted
  BY PipelineInductive, PTL DEF PipelineInv, PipelineAccounted

(* The checkpoint of the processor keeps its token, and a processor that   *)
(* is reported suspended is in pass().                                     *)
THEOREM CheckpointIsSound == PipelineSpec => []CheckpointSound
  BY PipelineInductive, PTL DEF PipelineInv, TokenInv, CheckpointSound

(* processSingleBlock() stays within the time it has announced, for any    *)
(* timeouts and number of retries.                                         *)
THEOREM HeartbeatIsLongEnough == PipelineSpec => []HeartbeatCoversBlock
<1>1. PipelineInv => HeartbeatCoversBlock
  <2> SUFFICES ASSUME PipelineInv, job # "pass", promised > 0 PROVE spent <= promised
    BY DEF HeartbeatCoversBlock
  <2> DEFINE w == waitForBlockTimeout
             p == processingTimeout
             r == mRetrySendTimeout * mMaxSendRetries
             t == mRetrySendTimeout * tries
  <2>1. /\ w \in Nat /\ p \in Nat /\ r \in Nat /\ t \in Nat /\ mRetrySendTimeout \in Nat
        /\ tries \in Nat /\ mMaxSendRetries \in Nat
    BY ConstantTypes, PipelineTypes, NextTry
  <2>2. tries <= mMaxSendRetries => t <= r
    BY <2>1
  <2>3. /\ job \in {"compress", "encode", "send"} /\ promised = Promise
        /\ job = "compress" => spent = w
        /\ job = "encode" => spent = w + p
        /\ job = "send" => tries <= mMaxSendRetries /\ spent = w + p * 2 + t
    BY PipelineTypes, SMTT(30) DEF PipelineInv, TimeBudget
  <2>4. Promise = w + p * 2 + r
    BY DEF Promise
  <2> HIDE DEF w, p, r, t
  <2>5. CASE job = "compress"
    BY <2>1, <2>3, <2>4, <2>5
  <2>6. CASE job = "encode"
    BY <2>1, <2>3, <2>4, <2>6
  <2>7. CASE job = "send"
    BY <2>1, <2>2, <2>3, <2>4, <2>7
  <2> QED BY <2>3, <2>5, <2>6, <2>7
<1> QED BY <1>1, PipelineInductive, PTL
=============================================================================
