\* Two requests, one in each life of the core or both in one; nothing is evicted.
CONSTANTS
    Requests = 2
    Limits = {2}
SPECIFICATION Spec
INVARIANT HeldIsLive
