--------------------------- MODULE DataAggregator ---------------------------
(***************************************************************************)
(* outpost::compression::DataAggregator (compression, data_aggregator.h,   *)
(* data_aggregator.cpp) with its DataBlock (data_block.cpp) and the        *)
(* OneTimeQueueSender (data_block_sender.cpp): samples of one parameter    *)
(* are collected in a block, and a complete block goes into a queue.       *)
(*                                                                         *)
(* A block counts its samples; `buffer' says whether it holds a buffer of  *)
(* the pool.  The pool is the number of its free buffers, and the queue a  *)
(* bounded sequence of block sizes: what SharedBufferPool and              *)
(* ReferenceQueue promise.  The counters of single samples are left out.   *)
(***************************************************************************)
EXTENDS Integers, Sequences

CONSTANTS
    Blocksize,      \* block sizes other than Blocksize::disabled, in samples
    BufferSamples,  \* samples that fit into a buffer of the pool
    NumBuffers,     \* buffers of the pool
    InputSize,      \* capacity of the queue to the DataProcessorThread
    MaxSamples      \* bound: samples pushed

ASSUME AggregatorAssumption ==
    /\ Blocksize \subseteq Nat \ {0}
    /\ BufferSamples \in Nat
    /\ {NumBuffers, InputSize, MaxSamples} \subseteq Nat

VARIABLES
    mEnabled, mDisableAfterCurrentBlock, mNextBlocksize, mBlock,
    mNumCompletedBlocks, mNumLostBlocks,
    free,           \* free buffers of the pool
    inputQueue,     \* raw blocks on their way to the processor
    pushed,         \* samples pushed so far
    wiped           \* completed blocks that resetCounters() forgot

counters == <<mNumCompletedBlocks, mNumLostBlocks>>
aggregatorVars == <<mEnabled, mDisableAfterCurrentBlock, mNextBlocksize, mBlock,
                    counters, free, inputQueue, pushed, wiped>>

NoBlock == [buffer |-> FALSE, size |-> 0, count |-> 0]
Held(b) == IF b.buffer THEN 1 ELSE 0
isValid(b) == b.buffer /\ BufferSamples >= b.size
isComplete(b) == b.count > 0 /\ b.count = b.size

AggregatorInit ==
    /\ mEnabled = FALSE
    /\ mDisableAfterCurrentBlock = FALSE
    /\ mNextBlocksize = 0
    /\ mBlock = NoBlock
    /\ mNumCompletedBlocks = 0
    /\ mNumLostBlocks = 0
    /\ free = NumBuffers
    /\ inputQueue = << >>
    /\ pushed = 0
    /\ wiped = 0

(* The block a sample goes to: a new one if the current one is not valid   *)
(* and the pool has a buffer.                                              *)
Allocates == ~ isValid(mBlock) /\ free > 0
Current ==
    IF Allocates THEN [buffer |-> TRUE, size |-> mNextBlocksize, count |-> 0] ELSE mBlock
FreeAfter == IF Allocates THEN free - 1 + Held(mBlock) ELSE free

(* push() of a sample that no block takes. *)
pushLost ==
    /\ ~ isValid(Current)
    /\ mBlock' = Current
    /\ free' = FreeAfter
    /\ UNCHANGED <<mEnabled, counters, inputQueue>>

pushStored ==
    LET b == [Current EXCEPT !.count = @ + 1] IN
    /\ isValid(Current)
    /\ ~ isComplete(b)
    /\ mBlock' = b
    /\ free' = FreeAfter
    /\ UNCHANGED <<mEnabled, counters, inputQueue>>

(* push() of the last sample: the block is sent, or lost when the queue is *)
(* full, and the aggregator lets go of it.                                 *)
pushCompletes ==
    LET b == [Current EXCEPT !.count = @ + 1] IN
    /\ isValid(Current)
    /\ isComplete(b)
    /\ mNumCompletedBlocks' = mNumCompletedBlocks + 1
    /\ \/ /\ Len(inputQueue) < InputSize
          /\ inputQueue' = Append(inputQueue, b.size)
          /\ free' = FreeAfter
          /\ UNCHANGED mNumLostBlocks
       \/ /\ Len(inputQueue) = InputSize
          /\ mNumLostBlocks' = mNumLostBlocks + 1
          /\ free' = FreeAfter + 1
          /\ UNCHANGED inputQueue
    /\ mEnabled' = ~ mDisableAfterCurrentBlock
    /\ mBlock' = NoBlock

push ==
    /\ mEnabled
    /\ pushed < MaxSamples
    /\ pushed' = pushed + 1
    /\ pushLost \/ pushStored \/ pushCompletes
    /\ UNCHANGED <<mDisableAfterCurrentBlock, mNextBlocksize, wiped>>

(* enable() and enableForOneBlock(): a block in progress keeps its size. *)
enable(bs, once) ==
    /\ mEnabled' = TRUE
    /\ mDisableAfterCurrentBlock' = once
    /\ mNextBlocksize' = bs
    /\ UNCHANGED <<mBlock, counters, free, inputQueue, pushed, wiped>>

disable ==
    /\ mEnabled' = FALSE
    /\ mBlock' = NoBlock
    /\ free' = free + Held(mBlock)
    /\ UNCHANGED <<mDisableAfterCurrentBlock, mNextBlocksize, counters, inputQueue,
                   pushed, wiped>>

disableAfterCurrentBlock ==
    /\ mDisableAfterCurrentBlock' = TRUE
    /\ UNCHANGED <<mEnabled, mNextBlocksize, mBlock, counters, free, inputQueue,
                   pushed, wiped>>

(* resetCounters() leaves the counter of the losses alone. *)
resetCounters ==
    /\ mNumCompletedBlocks' = 0
    /\ wiped' = wiped + mNumCompletedBlocks
    /\ UNCHANGED <<mEnabled, mDisableAfterCurrentBlock, mNextBlocksize, mBlock,
                   mNumLostBlocks, free, inputQueue, pushed>>

AggregatorNext ==
    \/ push \/ disable \/ disableAfterCurrentBlock \/ resetCounters
    \/ \E bs \in Blocksize, once \in BOOLEAN : enable(bs, once)
=============================================================================
