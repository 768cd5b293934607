\* A buffer of three ids that overflows within one container.
SPECIFICATION Spec
CONSTANTS
    Ids <- MCIds
    BufferSize = 3
    MaxInner = 3
INVARIANTS
    HandledOnce
    ResetIsJustified
