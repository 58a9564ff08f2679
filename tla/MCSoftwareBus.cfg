CONSTANTS
    a = a
    b = b
    c1 = c1
    c2 = c2
    d = d
    r1 = r1
    BusCalls = 3
    Publisher = {p1, p2}
    Channel = {c1, c2, d}
    DefaultChannel = d
    NoChannel = NoChannel
    Receiver = {r1, r2, r3}
    Id = {a, b, x}
    ValidId = {a, b}
    Subscribed <- MCSubscribed
    Message <- BusMessage
    Filter <- MCFilter
    Buffer = {b1}
    NoBuffer = NoBuffer
    NoMessage = NoMessage
    NoThread = NoThread
    Capacity = 2
    QueueSize = 2
    MaxCalls = 5
SPECIFICATION MCSpec
SYMMETRY Symmetric
INVARIANTS TypeOK CallsAccounted InOrder DefaultExcludesOthers ChannelSound
CHECK_DEADLOCK FALSE
