CONSTANTS
    Caller = {t1, t2}
    NumSlots = 2
    maxTransactionId = 3
    ByteRange = 2
    Kinds = {"post"}
    MaxCalls = 2
SPECIFICATION Spec
INVARIANT PostedCommandsSent
CHECK_DEADLOCK FALSE
