CONSTANTS
    Receiver = {r1, r2}
    Value = {v1, v2}
    mEmpty = mEmpty
    mMaximumSize = 2
    Timeout = {0, 2}
    Forever = Forever
    MaxWakeups = 1
    Thread = {t1, t2, t3}
    Limit = {1, 2}
    Myriad = Myriad
    PerSecond = 6
    TickRange = 16
    TickRate = 2
    MillisPerSecond = 3
    PerMillisecond = 2
    LongPeriod = 6
    Period = {5, 16}
    MaxTime = 26
    MaxLate = 3
    mHeartbeatInterval = 3
    heartbeatTolerance = 1
    ProcessingTimeout = {0, 2, 5}
    MaxHeartbeatTime = 24
    o1 = o1
    o2 = o2
    o3 = o3
    n1 = n1
    n2 = n2
    Topic = {n1, n2}
    Subscription = {o1, o2, o3}
    NoSub = NoSub
    TopicOf <- MCTopicOf
    ParWriter = {y1, y2}
    ParReader = {z1}
    maxReadTries = 2
    MaxWrites = 4
    SecondRead = {"made", "merged"}
    ParameterId = {0, 1, 2, 3}
    StoreSize = 3
    ParameterList <- MCParameterList
    SipWorker = {w1, w2}
    Boundary = Boundary
    BufferCells = 5
    NoPacket = NoPacket
    MaxRequests = 3
    MaxFrames = 2
SPECIFICATION ServicesSpec
INVARIANTS QueueSound WaitBounded SemaphoreSound PeriodsKept WatchdogExact TopicsSound ParameterSound StoreFinds ResponsesSound
PROPERTIES PosixFifoSpec RequestsReturn
CHECK_DEADLOCK FALSE
