CONSTANTS
    Agents = {a1, a2}
    Windows = {w1, w2}
    Newer = {w1}
    NoAgent = NoAgent
    NoWindow = NoWindow
    Ids = {1}
    MaxLines = 2
    MaxCalls = 1
SPECIFICATION FairSpec
INVARIANTS TypeOK MirrorFollows CallsMatched
PROPERTIES ConnectingEnds AgentsLeave
CHECK_DEADLOCK FALSE
