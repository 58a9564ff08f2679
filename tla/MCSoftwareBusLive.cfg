CONSTANTS
    a = a
    b = b
    c1 = c1
    c2 = c2
    d = d
    r1 = r1
    BusCalls = 2
    Publisher = {p1}
    Channel = {c1, d}
    DefaultChannel = d
    NoChannel = NoChannel
    Receiver = {r1, r2}
    Id = {a, b, x}
    ValidId = {a, b}
    Subscribed <- MCSubscribed
    Message <- BusMessage
    Filter <- MCFilter
    Buffer = {b1}
    NoBuffer = NoBuffer
    NoMessage = NoMessage
    NoThread = NoThread
    Capacity = 2
    QueueSize = 2
    MaxCalls = 2
SPECIFICATION StartSpec
PROPERTIES EveryMessageHandled BuffersReturn
CHECK_DEADLOCK FALSE
