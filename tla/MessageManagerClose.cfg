SPECIFICATION Spec
CONSTANTS
    q1 = q1
    sub = sub
    peak = peak
    a = a
    p = p
    None = None
    Requests <- OneRequests
    OneShot = {q1}
    Sending <- OneRequests
    Timed = {q1, peak}
    Peak = peak
    Msgs = {a, p}
    Pushed = {p}
    Accepts <- OneAccepts
    Callback <- OneCallbacks
    MaxInits = 1
    MaxFaults = 1
    MaxChannels = 2
    Overlap = FALSE
    MayThrow = FALSE
INVARIANT ClosedMeansNoSocket
\* The application may close the manager for good.
CHECK_DEADLOCK FALSE
