SPECIFICATION Spec
CONSTANTS
    Messages <- FourMessages
    History = 2
    PAGE_SIZE = 2
    MAX_RETRIES = 1
    Clocks <- TieAndOverlap
    Second = 3
    NoMessage = NoMessage
    MaxDue = 1
INVARIANT
    OlderExist
CHECK_DEADLOCK FALSE
