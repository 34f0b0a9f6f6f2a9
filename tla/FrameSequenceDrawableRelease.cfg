CONSTANTS
    FrameCount = 3
    Decoders = {d1, d2}
    Front = b1
    Back = b2
    NoBitmap = NoBitmap
    MaxQueued = 3
    MaxInvalidations = 2
SPECIFICATION Spec
INVARIANT
    ReleasedNotDrawn
CHECK_DEADLOCK FALSE
