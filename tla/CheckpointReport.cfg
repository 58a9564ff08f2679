CONSTANTS
    Thread = {t1, t2}
    Worker = {t1}
    Controller = {t2}
    Limit = {1}
    Myriad = Myriad
SPECIFICATION CheckpointSpec
PROPERTY SuspendIsReported
CHECK_DEADLOCK FALSE
