SPECIFICATION Spec
CONSTANTS
    UnitsPerMs = 2
    TimecodeBits = 4
    ByteBase = 4
    ImmediateDuration = 4
    BufferOnlyDuration = 8
    FrameDurations = {2, 3}
    MaxKeyInterval = 5
    Epoch = 25
    MaxLag = 1
    MaxPts = 24
INVARIANTS TypeOK BlocksOnTime DelayBounded
PROPERTY ClustersContiguous
CHECK_DEADLOCK FALSE
