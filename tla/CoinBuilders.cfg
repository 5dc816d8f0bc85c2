SPECIFICATION Spec
CONSTANTS
    Null = Null
    Opaque = Opaque
    Nil = Nil
    Malformed = Malformed
    p1 = p1
    p2 = p2
    z1 = z1
    z2 = z2
    k1 = k1
    k2 = k2
    t1 = t1
    t2 = t2
    u = u
    l1 = l1
    l2 = l2
    i1 = i1
    i2 = i2
    memo = memo
    x = x
    Vars = {x}
    Values <- MCValues
    Constructions <- MCConstructions
    Copies <- MCCopies
    Additions <- MCAdditions
    Curried <- MCCurried
    MaxConditions = 2
INVARIANTS
    PuzzleIsTheCoins
    BuiltAtOnce
    SettlesInOneCopy
    RevealedTAILIsCurried
    SolutionNamesItself
