CONSTANTS
    Receiver = {r1, r2}
    Value = {v1, v2}
    mEmpty = mEmpty
    NumberOfSlots = 2
    NoSlot = NoSlot
    SizeMax = 65535
SPECIFICATION RefSpec
INVARIANT SendFindsSlotUnlessFull
