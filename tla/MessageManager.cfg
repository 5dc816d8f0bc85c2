SPECIFICATION FairSpec
CONSTANTS
    q1 = q1
    sub = sub
    peak = peak
    a = a
    p = p
    None = None
    Requests <- TwoRequests
    OneShot = {q1}
    Sending <- TwoRequests
    Timed = {q1, peak}
    Peak = peak
    Msgs = {a, p}
    Pushed = {p}
    Accepts <- TwoAccepts
    Callback <- TwoCallbacks
    MaxInits = 2
    MaxFaults = 1
    MaxChannels = 3
    Overlap = FALSE
    MayThrow = FALSE
INVARIANTS
    TypeOK
    SentWhenLinkUp
    SentOncePerChannel
    NoRejectedRequest
PROPERTIES
    ImplementsRequestService
    RequestsAreAnswered
    CloseEnds
\* The application may close the manager for good.
CHECK_DEADLOCK FALSE
