SPECIFICATION SigningSpec
CONSTANTS
    c1 = c1
    c2 = c2
    c3 = c3
    foreign = foreign
    broken = broken
    s1 = s1
    s2 = s2
    bare = bare
    odd = odd
    red = red
    blue = blue
    o1 = o1
    o2 = o2
    o3 = o3
    back = back
    p1 = p1
    p2 = p2
    alice = alice
    bob = bob
    text = text
    Coins = {c1, c2, c3, foreign, broken, s1, s2, bare, odd}
    Info <- CoinInfo
    CATOutputs <- CATChoices
    StandardOutputs <- StandardChoices
    Fees = {0, 1}
    Magic <- MinusOneHundredThirteen
    LauncherPuzzle = LauncherPuzzle
    LaunchAmounts = {1, 2}
    InnerPuzzles = {o1, o2}
    LaunchOutputs <- LaunchChoices
    P2Coins = {p1, p2}
    Singleton = Singleton
    Dollar = Dollar
    Threw = Threw
    MaxThings = 4
    KeyOf <- Keys
    Owners = {alice, bob}
    StartNetwork <- Start
    Genesis <- Challenges
    Custom = Custom
    NoBundle = NoBundle
    MaxSpends = 2
    MaxPieces = 2
INVARIANTS
    AssertionsHold
    StandardCoinsAreLinked
    LauncherIsCreated
    OutputsOnce
    RingCloses
    CATsBalance
    FullySigned
    NothingElseSigned
\* The application may make no more calls.
CHECK_DEADLOCK FALSE
