CONSTANTS
    Nothing = Nothing
    MaxRules = 2
    MaxText = 5
    Limits = {2, 4}
    MaxItems = 1
    Ids = {a, b}
    MaxEvents = 3
    MaxToggles = 2
    MaxNews = 1
    MaxAsks = 2
    HeaderSize = 2
    PoolSize = 2
    MaxFrames = 3
    MaxFragments = 3
    MaxBytes = 2
    MaxRows = 3
    Hosts = {h1}
    MaxNodes = 3
    MaxFilters = 2
    Kept = 2
    MaxMade = 3
    MaxClicks = 2
    Editors = {w1, w2}
    Windows = {w1, w2}
    Ports = {p1, p2}
    Own = Own
    Unset = Unset
    MaxQueued = 2
    MaxStarts = 3
    MaxJobs = 2
    MaxChanges = 1
    Kinds = {k1}
    RuleIds = {r1, r2}
    MaxEdits = 2
    MaxWrites = 1
    Files = {f1, f2}
    MaxActions = 6
    MaxPicks = 2
    MaxPushes = 5
    MaxRecords = 5
    MaxLimit = 2
    MaxPatterns = 2
    MaxDeeds = 3
    MaxMinted = 4
SPECIFICATION Spec
INVARIANTS TypeOK RulesApply RecordIsWhole PanelFollows DataArrives
           ProxyIsChosen CaptureIsGated RulesSettle ShownIsSent McpServes
CHECK_DEADLOCK FALSE
