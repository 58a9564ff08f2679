----------------------------- MODULE MCPipeline -----------------------------
(***************************************************************************)
(* The data pipeline, and a Checkpoint by itself with all its threads;     *)
(* each behaviour is about one of the two.                                 *)
(***************************************************************************)
EXTENDS DataProcessorThread

VARIABLE part

mcVars == <<part, pipelineVars>>

MCInit ==
    /\ part \in {"checkpoint", "pipeline"}
    /\ PipelineInit

MCNext ==
    /\ UNCHANGED part
    /\ \/ /\ part = "checkpoint" /\ CheckpointNext
          /\ UNCHANGED <<aggregatorVars, processorVars>>
       \/ part = "pipeline" /\ PipelineNext

(* The threads are scheduled; nobody is obliged to sample, to consume or   *)
(* to command.                                                             *)
MCSpec ==
    /\ MCInit /\ [][MCNext]_mcVars
    /\ CheckpointFairness
    /\ \A c \in Controller :
         WF_pipelineVars(suspendAcquire(c) /\ UNCHANGED <<aggregatorVars, processorVars>>)
    /\ WF_pipelineVars(part = "pipeline" /\ runPass)
    /\ WF_pipelineVars(processSingleBlock)
=============================================================================
