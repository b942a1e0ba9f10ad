\* One chunk is enough: the session only has to end while its request is asked for.
CONSTANTS
    Streams = {request, response}
    Replies = {response}
    Chunks = 1
SPECIFICATION Spec
INVARIANT ClosedSessionForgotten
\* The session ends and both processes fall silent.
CHECK_DEADLOCK FALSE
