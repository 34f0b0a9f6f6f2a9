SPECIFICATION PlayerSpec
CONSTANTS
    FilesToParse <- MCFiles
    Threads = {t1, t2}
    Owner = t1
    Finalizer = finalizer
    Image = webpImage
    Frames = {f1, f2}
    Nothing = nothing
INVARIANTS
    NoUseAfterFree
    EveryFrameDrawable
PROPERTIES
    MemoryFreed
    FramesKept
CHECK_DEADLOCK FALSE
