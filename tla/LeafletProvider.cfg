SPECIFICATION FairSpec
CONSTANTS
    h1 = h1
    h2 = h2
    upper = upper
    short = short
    zeros = zeros
    NoList = NoList
    NoHash = NoHash
    None = None
    NoArgs = NoArgs
    Refused = Refused
    Valid <- ValidHashes
    Echo <- Echoes
    Childless = {h2}
    Args <- EveryMethod
    MaxCalls = 2
    MaxLinks = 2
    MaxQueue = 2
    MaxPeak = 1
    MaxChanges = 1
INVARIANTS
    AnswerIsOwn
PROPERTY CallsReturn
\* The application may make no more calls.
CHECK_DEADLOCK FALSE
