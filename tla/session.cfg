\* A request with every timer and cancellation, or two requests, through one
\* failure of any kind; a container is cut after its first request.
SPECIFICATION MCSpec
CONSTANTS
    Requests = {1, 2}
    MaxId = 12
    IdsBufferSize = 12
    ContainerSize = 1
    MaxFaults = 1
INVARIANTS
    NothingIsLost
    ToSendIsWoken
    OncePerSession
PROPERTIES
    ImplementsRpc
    Answered
CHECK_DEADLOCK FALSE
