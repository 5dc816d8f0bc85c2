SPECIFICATION GobySpec
CONSTANTS
    Accounts = {a1, a2}
    Subscribers = {s1, s2, s3}
    Throwing = {s2}
    Closing = {s3}
    NoAddress = NoAddress
    Mainnet = mainnet
    Testnet = testnet10
    TryConnect = TRUE
    MaxRequests = 3
    MaxChanges = 3
INVARIANTS
    ConnectedListens
    SubscribersAgree
    AddressIsCurrent
    FollowsChain
\* The application and the wallet's user may stop.
CHECK_DEADLOCK FALSE
