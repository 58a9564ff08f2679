CONSTANTS
    Blocksize = {2, 3}
    BufferSamples = 2
    NumBuffers = 3
    InputSize = 1
    MaxSamples = 5
    Thread = {t1, t2, t3, t4}
    Worker = {t1, t2}
    Controller = {t3, t4}
    Limit = {1, 2}
    Myriad = Myriad
    Processor = t1
    OutputSize = 1
    mMaxSendRetries = 2
    mRetrySendTimeout = 3
    waitForBlockTimeout = 1
    processingTimeout = 1
SPECIFICATION MCSpec
INVARIANTS PipelineAccounted HeartbeatCoversBlock CheckpointSound
PROPERTY ThreadsGetOn
CHECK_DEADLOCK FALSE
