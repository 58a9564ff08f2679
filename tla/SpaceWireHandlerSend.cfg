CONSTANTS
    SpwSender = {a1, a2}
    SpwProtocol = {p1}
    SpwChannel = {}
    Filter <- NoFilter
    PacketSize = {1, 4}
    maxPacketSize = 3
    maxPackages = 2
    RxBuffers = 2
    TxBuffers = 2
    TxLength = 3
    ChannelSize = 1
SPECIFICATION SpwSpec
INVARIANT TransmitBuffersReturn
CHECK_DEADLOCK FALSE
