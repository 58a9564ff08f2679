CONSTANTS
    ParWriter = {y1}
    ParReader = {z1}
    maxReadTries = 2
    MaxWrites = 3
    SecondRead = {"made"}
SPECIFICATION ParameterSpec
INVARIANT ReadsConsistent
CHECK_DEADLOCK FALSE
