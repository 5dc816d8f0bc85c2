SPECIFICATION FairSpec
CONSTANTS
    Providers = {1, 2, 3}
    Lists <- Objects
    Kind <- Kinds
    Methods <- SomeMethods
    Implements <- Has
    Calls <- OverlappingNames
    Method <- Overlapping
    None = None
    Failed = Failed
    Settled = Settled
    Null = Null
    MaxFaults = 1
PROPERTIES
    FirstChoice
    FailsOnlyIfNone
    ReachesAll
    CallsEnd
\* The application may make no more calls.
CHECK_DEADLOCK FALSE
