\* The buffer of acknowledged ids is full of newer ones.
SPECIFICATION Spec
CONSTANTS
    Requests = {1, 2}
    MaxId = 4
    IdsBufferSize = 1
    ContainerSize = 2
    MaxFaults = 0
INVARIANT NothingIsLost
CHECK_DEADLOCK FALSE
