CONSTANTS
    Thread = {t1, t2}
    Pointer = {p1, p2}
    N = 2
    NoBuffer = NoBuffer
    NoThread = NoThread
    Receiver = {r1, r2}
    Value = {v1, v2}
    mEmpty = mEmpty
    NumberOfSlots = 3
    NoSlot = NoSlot
    SizeMax = 65535
    Element = {v1, v2}
    NoValue = NoValue
    Sizes = {2, 3, 4}
    SliceLimit = 3
    Slice <- MCSlice
    Packet <- MCPacket
    Noise <- MCNoise
    EncodeSize = {4, 5, 6}
    DecodeSize = 1
    MaxPackets = 2
SPECIFICATION MCSpec
INVARIANTS ReferencesExact TakesFreeBuffer SlotsAccounted InOrderFindsSlot FramesWhole
PROPERTIES NoSpuriousFailure OperationsReturn FifoSpec SequenceSpec
