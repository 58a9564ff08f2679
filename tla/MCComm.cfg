CONSTANTS
    Caller = {t1, t2}
    NumSlots = 2
    maxTransactionId = 3
    ByteRange = 4
    Kinds = {"read", "write", "post"}
    MaxCalls = 2
SPECIFICATION CommSpec
INVARIANTS RepliesMatch TransactionsSound WakeupMeansReply
PROPERTY CallsReturn
CHECK_DEADLOCK FALSE
