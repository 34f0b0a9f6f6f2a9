CONSTANTS
    CanvasWidth = 2
    CanvasHeight = 1
    Animations <- MCAnimations
    FrameCount = 3
    Decoders = {d1}
    Front = b1
    Back = b2
    NoBitmap = NoBitmap
    MaxQueued = 2
    MaxInvalidations = 1
SPECIFICATION PSpec
INVARIANTS
    NewShowsCanvas
    OldShowsKeyFrames
CHECK_DEADLOCK FALSE
