SPECIFICATION FairSpec
CONSTANTS
    Messages <- FourMessages
    History = 2
    PAGE_SIZE = 2
    MAX_RETRIES = 1
    Clocks <- TieAndOverlap
    Second = 3
    NoMessage = NoMessage
    MaxDue = 1
PROPERTIES
    WritesStay
CHECK_DEADLOCK FALSE
