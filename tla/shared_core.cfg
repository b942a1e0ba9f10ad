\* Two windows: one can be served while the other starts or stops.  One session id, which
\* each process gives to a session of its own; nothing relates two ids of one process.
CONSTANTS
    Windows = {w1, w2}
    Ids = {1}
    NoWindow = NoWindow
SPECIFICATION FairSpec
INVARIANTS
    TypeOK
    WindowsIsolated
    OwnedInlets
    NoStrayCore
PROPERTIES
    OperationsEnd
CHECK_DEADLOCK FALSE
