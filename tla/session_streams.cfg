\* A request body and a response body of two chunks each: the response callback is
\* asked after the request, and a second chunk has to wait for the credit of the first.
CONSTANTS
    Streams = {request, response}
    Replies = {response}
    Chunks = 2
SPECIFICATION FairSpec
INVARIANTS
    TypeOK
    NoOverflow
    OneUnacknowledged
PROPERTIES
    ImplementsTransfer
    CancelledPipesReturn
    BodiesArrive
\* The session ends and both processes fall silent.
CHECK_DEADLOCK FALSE
