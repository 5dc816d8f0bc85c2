SPECIFICATION ChannelSpec
CONSTANTS
    Frames <- ThreeFrames
    Start <- ThreeStarts
    MaxPending = 2
    HandlerThrows = FALSE
INVARIANTS
    LengthIsThere
\* The node may stop sending.
CHECK_DEADLOCK FALSE
