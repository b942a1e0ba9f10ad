\* Two requests, so that one can evict, displace or outlive the other; a limit that is
\* reached by the first of them and one that is never exceeded.
CONSTANTS
    Requests = 2
    Limits = {1, 2}
SPECIFICATION Spec
INVARIANTS
    TypeOK
    KeptWithinLimit
    PendingIsLive
    PausedCanContinue
