CONSTANTS
    p1 = p1
    p2 = p2
    c1 = c1
    c2 = c2
    Protocol = {p1, p2}
    Sink = {s1, s2}
    NoSink = NoSink
    numberOfQueues = 2
    HeaderLength = 2
    PackageLength = 4
    BufferLength = 3
    ReadBytes = {1, 3, 4, 6}
    PoolSize = 2
    QueueSize = 1
    MaxPackages = 2
    SpwSender = {a1}
    SpwProtocol = {p1, p2}
    SpwChannel = {c1, c2}
    Filter <- MCFilter
    PacketSize = {1, 3, 4}
    maxPacketSize = 3
    maxPackages = 2
    RxBuffers = 2
    TxBuffers = 1
    TxLength = 3
    ChannelSize = 1
    Registrar = {r1, r2, r3}
    TcQueue = {q1, q2}
    NoQueue = NoQueue
    numberOfListeners = 2
SPECIFICATION HalSpec
INVARIANTS DispatchAccounted NoPartialForStrict ReceiveBuffersReturn StrictSeesComplete ListenersNotified
SYMMETRY HalSymmetry
CHECK_DEADLOCK FALSE
