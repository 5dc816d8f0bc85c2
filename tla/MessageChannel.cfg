SPECIFICATION ChannelSpec
CONSTANTS
    Frames <- ThreeFrames
    Start <- ThreeStarts
    MaxPending = 2
    HandlerThrows = TRUE
INVARIANTS
    FramesInOrder
    NothingStuck
\* The node may stop sending.
CHECK_DEADLOCK FALSE
