------------------------- MODULE DataProcessorThread -------------------------
(***************************************************************************)
(* outpost::compression::DataProcessorThread (compression,                 *)
(* data_processor_thread.h, data_processor_thread.cpp) behind a            *)
(* DataAggregator: blocks are taken from the input queue, transformed,     *)
(* encoded into a second buffer of the pool and sent on, with retries.     *)
(* enable() and disable() work through a Checkpoint.                       *)
(*                                                                         *)
(* `spent' is the time the thread has used since its last heartbeat if     *)
(* every wait takes as long as it may.                                     *)
(***************************************************************************)
EXTENDS DataAggregator, Checkpoint

CONSTANTS
    Processor,          \* the thread
    OutputSize,         \* capacity of the output queue
    mMaxSendRetries,
    mRetrySendTimeout, waitForBlockTimeout, processingTimeout   \* in ticks

ASSUME ProcessorAssumption ==
    /\ Processor \in Worker
    /\ {OutputSize, mMaxSendRetries} \subseteq Nat
    /\ {mRetrySendTimeout, waitForBlockTimeout, processingTimeout} \subseteq Nat

VARIABLES
    job,            \* what the thread does outside of pass()
    tries,
    outputQueue,    \* number of encoded blocks that wait for their consumer
    mNumIncomingBlocks, mNumProcessedBlocks, mNumForwardedBlocks,
    mNumLostByProcessor,    \* its mNumLostBlocks
    spent, promised     \* time since the heartbeat, and what it announced

processorVars == <<job, tries, outputQueue, mNumIncomingBlocks, mNumProcessedBlocks,
                   mNumForwardedBlocks, mNumLostByProcessor, spent, promised>>
pipelineVars == <<aggregatorVars, checkpointVars, processorVars>>

ProcessorInit ==
    /\ job = "pass"
    /\ tries = 0
    /\ outputQueue = 0
    /\ mNumIncomingBlocks = 0
    /\ mNumProcessedBlocks = 0
    /\ mNumForwardedBlocks = 0
    /\ mNumLostByProcessor = 0
    /\ spent = 0
    /\ promised = 0

(* run(): the heartbeat is suspended while the thread is in pass(). *)
runPass ==
    /\ job = "pass"
    /\ promised' = 0
    /\ \/ pass(Processor) /\ UNCHANGED job
       \/ passCheck(Processor) /\ job' = IF at'[Processor] = "idle" THEN "receive" ELSE job
       \/ passAcquire(Processor) /\ UNCHANGED job
       \/ passRelease(Processor) /\ UNCHANGED job
    /\ UNCHANGED <<aggregatorVars, tries, outputQueue, mNumIncomingBlocks,
                   mNumProcessedBlocks, mNumForwardedBlocks, mNumLostByProcessor, spent>>

(* processSingleBlock() announces the time it may take, and receives. *)
Promise == waitForBlockTimeout + processingTimeout * 2 + mRetrySendTimeout * mMaxSendRetries
receive ==
    /\ job = "receive"
    /\ promised' = Promise
    /\ spent' = waitForBlockTimeout
    /\ \/ /\ inputQueue # << >>
          /\ inputQueue' = Tail(inputQueue)
          /\ mNumIncomingBlocks' = mNumIncomingBlocks + 1
          /\ job' = "compress"
       \/ /\ inputQueue = << >>
          /\ job' = "pass"
          /\ UNCHANGED <<inputQueue, mNumIncomingBlocks>>
    /\ UNCHANGED <<mEnabled, mDisableAfterCurrentBlock, mNextBlocksize, mBlock, counters,
                   free, pushed, wiped, checkpointVars, tries, outputQueue,
                   mNumProcessedBlocks, mNumForwardedBlocks, mNumLostByProcessor>>

(* compress() needs a second buffer; without one the block is lost, and    *)
(* its buffer goes back when processSingleBlock() returns.  (Coefficients  *)
(* of a complete block always fit into a buffer of the same pool.)         *)
GiveUp_Uncounted == free' = free + 1 /\ UNCHANGED mNumLostByProcessor
GiveUp == free' = free + 1 /\ mNumLostByProcessor' = mNumLostByProcessor + 1
compress ==
    /\ job = "compress"
    /\ spent' = spent + processingTimeout
    /\ \/ /\ free > 0
          /\ free' = free - 1
          /\ job' = "encode"
          /\ UNCHANGED mNumLostByProcessor
       \/ /\ free = 0
          /\ GiveUp
          /\ job' = "pass"
    /\ UNCHANGED <<mEnabled, mDisableAfterCurrentBlock, mNextBlocksize, mBlock, counters,
                   inputQueue, pushed, wiped, checkpointVars, tries, outputQueue,
                   mNumIncomingBlocks, mNumProcessedBlocks, mNumForwardedBlocks, promised>>

(* The encoded block replaces the raw one, whose buffer goes back. *)
encode ==
    /\ job = "encode"
    /\ spent' = spent + processingTimeout
    /\ free' = free + 1
    /\ mNumProcessedBlocks' = mNumProcessedBlocks + 1
    /\ tries' = 0
    /\ job' = "send"
    /\ UNCHANGED <<mEnabled, mDisableAfterCurrentBlock, mNextBlocksize, mBlock, counters,
                   inputQueue, pushed, wiped, checkpointVars, outputQueue,
                   mNumIncomingBlocks, mNumForwardedBlocks, mNumLostByProcessor, promised>>

(* One round of the send loop: the queue takes the block, or the thread    *)
(* sleeps and tries again; after mMaxSendRetries rounds the block is lost. *)
TriesLeft_OneMore == tries <= mMaxSendRetries
TriesLeft == tries < mMaxSendRetries
send ==
    /\ job = "send"
    /\ \/ /\ TriesLeft /\ outputQueue < OutputSize
          /\ outputQueue' = outputQueue + 1
          /\ mNumForwardedBlocks' = mNumForwardedBlocks + 1
          /\ job' = "pass"
          /\ UNCHANGED <<free, tries, mNumLostByProcessor, spent>>
       \/ /\ TriesLeft /\ outputQueue = OutputSize
          /\ tries' = tries + 1
          /\ spent' = spent + mRetrySendTimeout
          /\ UNCHANGED <<free, job, outputQueue, mNumForwardedBlocks, mNumLostByProcessor>>
       \/ /\ ~ TriesLeft
          /\ GiveUp
          /\ job' = "pass"
          /\ UNCHANGED <<tries, outputQueue, mNumForwardedBlocks, spent>>
    /\ UNCHANGED <<mEnabled, mDisableAfterCurrentBlock, mNextBlocksize, mBlock, counters,
                   inputQueue, pushed, wiped, checkpointVars, mNumIncomingBlocks,
                   mNumProcessedBlocks, promised>>

(* Whoever reads the output queue gives the buffer back some time. *)
consume ==
    /\ outputQueue > 0
    /\ outputQueue' = outputQueue - 1
    /\ free' = free + 1
    /\ UNCHANGED <<mEnabled, mDisableAfterCurrentBlock, mNextBlocksize, mBlock, counters,
                   inputQueue, pushed, wiped, checkpointVars, job, tries,
                   mNumIncomingBlocks, mNumProcessedBlocks, mNumForwardedBlocks,
                   mNumLostByProcessor, spent, promised>>

(* enable() and disable(). *)
command ==
    /\ \E c \in Controller : resume(c) \/ suspend(c) \/ suspendAcquire(c)
    /\ UNCHANGED <<aggregatorVars, processorVars>>

processSingleBlock == receive \/ compress \/ encode \/ send

PipelineNext ==
    \/ AggregatorNext /\ UNCHANGED <<checkpointVars, processorVars>>
    \/ runPass \/ processSingleBlock \/ consume \/ command

PipelineInit == AggregatorInit /\ CheckpointInit /\ ProcessorInit
PipelineSpec == PipelineInit /\ [][PipelineNext]_pipelineVars
-----------------------------------------------------------------------------
InHand == IF job \in {"compress", "encode", "send"} THEN 1 ELSE 0

(* Every complete block is accounted for: lost by the aggregator, waiting, *)
(* in the processor's hands, forwarded or lost by the processor, whichever *)
(* queue was full and whenever the pool was empty.                         *)
BlocksAccounted ==
    /\ mNumCompletedBlocks + wiped = mNumLostBlocks + Len(inputQueue) + mNumIncomingBlocks
    /\ mNumIncomingBlocks = InHand + mNumForwardedBlocks + mNumLostByProcessor

(* All buffers of the pool are free, in a block, in a queue or in the      *)
(* processor's hands: no failure on the way keeps one.                     *)
BuffersAccounted ==
    free + Held(mBlock) + Len(inputQueue) + outputQueue
      + InHand + (IF job = "encode" THEN 1 ELSE 0) = NumBuffers

(* Nothing is lost on the way from the samples to the output queue without *)
(* being counted, neither a block nor the buffer it is in.                 *)
PipelineAccounted == BlocksAccounted /\ BuffersAccounted

(* The heartbeat announces enough time for the longest way through         *)
(* processSingleBlock().                                                   *)
HeartbeatCoversBlock == job # "pass" /\ promised > 0 => spent <= promised

(* Once the checkpoint reports that the processor is suspended, it has     *)
(* finished its block, and takes no other one until it is resumed.         *)
SuspendedMeansQuiet == mState = "suspended" => job = "pass"

(* The checkpoint has one token, and holding it back keeps the processor   *)
(* from its blocks.                                                        *)
CheckpointSound == TokenConserved /\ SuspendedMeansQuiet

(* While the processor stays enabled, a block that waits is taken, and a   *)
(* block in its hands is forwarded or counted as lost.                     *)
BlocksLeave ==
    <>[](mState = "running") => /\ []<>(inputQueue = << >>)
                                /\ []<>(InHand = 0)

(* Nobody waits for ever: suspend() returns, resume() frees the workers,   *)
(* blocks leave the pipeline.                                              *)
ThreadsGetOn == SuspendReturns /\ ResumeFrees /\ BlocksLeave
=============================================================================
