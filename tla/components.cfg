CONSTANTS
    Chunks = 2
    Downloads = 2
    Uploads = 2
    Pieces = 2
    Resends = {r1}
    Messages = 1
    Dials = {d1, d2}
    Flows = {f1}
    Composes = {c1, c2}
    ByWindow = {c1}
    MaxAnswers = 2
SPECIFICATION FairSpec
INVARIANTS TypeOK NoStaleTimeout TransfersAreWhole MessagesArrive ReplayIsWhole
    NothingOutlivesTheEngine
PROPERTIES DataIsRead EndsArrive RepeatsAreAnswered ShutdownCompletes
CHECK_DEADLOCK FALSE
