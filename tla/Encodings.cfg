SPECIFICATION Spec
CONSTANTS
    Null = Null
    SExps <- SampleSExps
    sexpToStream <- SampleStreams
    Dot = Dot
    Letter = Letter
    Threw = Threw
    StdHash <- Hash
    Failure = Failure
    NoMatch = NoMatch
    Unreadable = Unreadable
    MaxRounds = 4
    Objects <- SampleObjects
    Types = {1}
    Errors <- SomeErrors
    MaxCuts = 40
    AmountsTried <- SomeAmounts
    Units = {1, 10, 1000}
    Tokens = {0, 1, 7, 10, 100, 990, 999, 1000, 1001, 12050, 999999}
    Texts <- SomeTexts
    Entropies <- SomeEntropies
    Words = {0, 1, 1024, 2047, 2048}
    Programs <- SomePrograms
    Arguments <- SomeArguments
INVARIANTS
    DecodesOrRefuses
    AmountsAreCanonical
    TokensAreExact
    PhrasesRoundTrip
    UncurryInverts
\* A value that was decoded is done with.
CHECK_DEADLOCK FALSE
