CONSTANTS
    Downloads = 2
    Uploads = 2
SPECIFICATION FairSpec

PROPERTY FailureArrives
CHECK_DEADLOCK FALSE
