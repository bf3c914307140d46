\* The least valid limits, two frames, and every way to cut the stream.
SPECIFICATION Spec
CONSTANTS
    MaxControlFrameBytes = 13
    MaxBinaryFrameBytes = 14
    MaxFrames = 2
INVARIANTS
    FramesIntact
    RefusedAtOnce
    BufferBounded
\* The stream ends, or the client fails.
CHECK_DEADLOCK FALSE
