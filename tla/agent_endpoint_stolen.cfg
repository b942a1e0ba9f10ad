CONSTANTS
    Agents = {a1, a2}
    Windows = {w1, w2}
    Newer = {w1}
    NoAgent = NoAgent
    NoWindow = NoWindow
SPECIFICATION Spec
PROPERTIES NeverSteals
CHECK_DEADLOCK FALSE
