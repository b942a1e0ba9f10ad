CONSTANTS
    Windows = {w1, w2}
    Ids = {1}
    NoWindow = NoWindow
SPECIFICATION Spec
INVARIANTS
    RunningIsServed
CHECK_DEADLOCK FALSE
