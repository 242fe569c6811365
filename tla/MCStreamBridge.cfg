SPECIFICATION Spec
CONSTANTS
    BufferSize = 2
    MaxChunks = 4
CHECK_DEADLOCK FALSE
INVARIANTS NothingLost StreamReleased
PROPERTIES ThreadEnds ConsumerEnds
