------------------------------ MODULE SpendBundle ------------------------------
(***************************************************************************)
(* SpendModule.bundle, bundleCATs, bundleStandardCoins, subtotalsForDeltas,*)
(* launchSingleton, useP2SingletonCoinsConditionsAndCoinSol                *)
(* (src/spend/index.ts): the spends made for a list of coins, with the     *)
(* conditions that tie them together.                                      *)
(*                                                                         *)
(* A coin is its own id; a hash of names is the list of names.  A coin's   *)
(* puzzle is the standard one and its solution quotes a list of conditions,*)
(* so its conditions are those of its solution.  One call is made, with    *)
(* arrays of output conditions that the application does not use again:    *)
(* bundle() pushes its own conditions to them, so that a second call with  *)
(* them would carry those of the first.                                    *)
(* The operators named for what they drop are the faults the properties    *)
(* are tested against.                                                     *)
(***************************************************************************)
EXTENDS Integers, Sequences, FiniteSets, SequencesExt

CONSTANTS
    Coins,            \* the coins of the application
    Info,             \* Info[c]: kind, amount, tail, extraDelta, own conditions, whole, takes
    CATOutputs,       \* the choices for CATOutputConditions
    StandardOutputs,  \* the choices for standardCoinOutputConditions
    Fees,             \* the choices for fee
    Magic,            \* -113, the amount that runs a TAIL
    LauncherPuzzle,   \* SINGLETON_LAUNCHER_PROGRAM_HASH
    LaunchAmounts,    \* the choices for the amount of a singleton
    InnerPuzzles,     \* the inner puzzles of singletons
    LaunchOutputs,    \* the choices for additionalInitialCoinConditions
    P2Coins,          \* coins locked to a singleton
    Singleton,        \* the coin of that singleton
    Dollar,           \* the message that they announce
    Threw,            \* what an exception leaves in place of spends
    MaxThings         \* bound: coins in a call

ASSUME CoinsAssumption ==
    \A c \in Coins :
        /\ Info[c].kind \in {"CAT", "standard"}
        /\ Info[c].amount \in Nat /\ Info[c].extraDelta \in Int
        /\ Info[c].whole \in BOOLEAN /\ Info[c].takes \in BOOLEAN
ASSUME BoundsAssumption ==
    Fees \subseteq Nat /\ MaxThings \in Nat /\ LaunchAmounts \subseteq Nat

(* What the application gives: lists of conditions that create coins, none  *)
(* of them a launcher, and that neither assert an announcement nor reserve  *)
(* a fee, which is what bundle() is called for.                             *)
Lists == {Info[c].own : c \in Coins} \cup CATOutputs \cup StandardOutputs \cup LaunchOutputs
Given == UNION {ToSet(list) : list \in Lists}
ASSUME ApplicationAssumption ==
    /\ \A list \in Lists : list \in Seq(Given)
    /\ \A d \in Given :
          /\ d.op \notin {"ASSERT_COIN_ANNOUNCEMENT", "ASSERT_PUZZLE_ANNOUNCEMENT", "RESERVE_FEE"}
          /\ d.op = "CREATE_COIN" => d.amount \in Int /\ d.id # LauncherPuzzle

(* The outputs that are asked for can be told apart from each other and     *)
(* from everything else that is created.                                    *)
ASSUME OutputsAssumption ==
    /\ \A out \in CATOutputs \cup StandardOutputs \cup LaunchOutputs :
          /\ IsInjective(out)
          /\ \A c \in Coins : ToSet(out) \cap ToSet(Info[c].own) = {}
          /\ \A d \in ToSet(out) : d.op # "CREATE_COIN_ANNOUNCEMENT"
    /\ \A co \in CATOutputs, so \in StandardOutputs : ToSet(co) \cap ToSet(so) = {}

(* A launcher is a new coin, and no other coin is created with the puzzle   *)
(* of a singleton or of a launcher; the coins locked to a singleton, and    *)
(* that singleton, are no coins of a bundle.                                *)
ASSUME NamesAssumption ==
    /\ IsFiniteSet(P2Coins) /\ (P2Coins \cup {Singleton}) \cap Coins = {}
    /\ \A c \in Coins, n \in LaunchAmounts :
          LET launcher == [parent |-> c, puzzle |-> LauncherPuzzle, amount |-> n]
          IN  /\ launcher \notin Coins \cup P2Coins \cup {Singleton}
              /\ \A inner \in InnerPuzzles :
                    /\ << launcher, inner, n >> # LauncherPuzzle
                    /\ \A d \in Given : d.op = "CREATE_COIN" => d.id # << launcher, inner, n >>

VARIABLES
    things,    \* the coins of the call, in its order
    fee,       \* its fee
    wanted,    \* the output conditions it was meant to carry
    outcome,   \* "none" before the call, then "returned" or "threw"
    spends     \* the spends returned

vars == <<things, fee, wanted, outcome, spends>>

Init ==
    /\ things = <<>>
    /\ fee = 0
    /\ wanted = <<>>
    /\ outcome = "none"
    /\ spends = <<>>

-----------------------------------------------------------------------------
(* Conditions. *)
createCoin(id, n) == [op |-> "CREATE_COIN", id |-> id, amount |-> n]
reserveFee(n) == [op |-> "RESERVE_FEE", amount |-> n]
createCoinAnnouncement(m) == [op |-> "CREATE_COIN_ANNOUNCEMENT", message |-> m]
assertCoinAnnouncement(a) == [op |-> "ASSERT_COIN_ANNOUNCEMENT", announcement |-> a]
createPuzzleAnnouncement(m) == [op |-> "CREATE_PUZZLE_ANNOUNCEMENT", message |-> m]
assertPuzzleAnnouncement(a) == [op |-> "ASSERT_PUZZLE_ANNOUNCEMENT", announcement |-> a]

(* An output condition that is an empty list makes the parser give up. *)
Empty == [op |-> "none"]
Parses(conditions) == \A i \in 1..Len(conditions) : conditions[i] # Empty

(* The name of an announcement; a CAT's puzzle marks what it announces.    *)
Announcement(origin, message, morph) ==
    [origin |-> origin, message |-> message, morph |-> morph]

CATCoins == {c \in Coins : Info[c].kind = "CAT"}
StandardCoins == {c \in Coins : Info[c].kind = "standard"}
IsCAT(c) == c \in CATCoins
IsStandard(c) == c \in StandardCoins

(* Those elements of a sequence that are in S, in their order.             *)
Filter(s, S) == FlattenSeq([i \in 1..Len(s) |-> IF s[i] \in S THEN <<s[i]>> ELSE <<>>])

-----------------------------------------------------------------------------
(* addConditionsToInnerSolution, addConditionsToSolution: a coin takes what *)
(* is added to its conditions if it has no solution or one of three         *)
(* elements; with any other it stays as it is, and nothing is said.         *)
Taken(c, added) == IF Info[c].takes THEN added ELSE <<>>

(* bundleCATs, bundleStandardCoins: what the first coin is given, and the   *)
(* others.                                                                  *)
FirstForAll(coins, first, others) ==
    [i \in 1..Len(coins) |-> Info[coins[i]].own \o Taken(coins[i], first)]
Conditions(coins, first, others) ==
    [i \in 1..Len(coins) |->
        Info[coins[i]].own \o Taken(coins[i], IF i = 1 THEN first ELSE others)]

(* Sums(ds)[k] is the sum of the first k of the numbers ds.                *)
Sums(ds) == LET s[k \in 0..Len(ds)] == IF k = 0 THEN 0 ELSE s[k - 1] + ds[k] IN s
Total(ds) == Sums(ds)[Len(ds)]

(* The sum of the amounts a list of conditions creates. *)
Created(conditions) ==
    Total([j \in 1..Len(conditions) |->
               IF conditions[j].op = "CREATE_COIN" /\ conditions[j].amount # Magic
               THEN conditions[j].amount ELSE 0])

(* A coin without a puzzle or an amount has no delta. *)
deltas(CATs, conditions) ==
    [i \in 1..Len(CATs) |->
        IF Info[CATs[i]].whole
        THEN Info[CATs[i]].amount - (Created(conditions[i]) - Info[CATs[i]].extraDelta)
        ELSE 0]

(* The sums of the deltas before each index, moved so that the least is 0. *)
LeastOf(s) == CHOOSE m \in ToSet(s) : \A x \in ToSet(s) : m <= x
OwnDeltaIncluded(ds) ==
    LET before == [i \in 1..Len(ds) |-> Sums(ds)[i]]
    IN  [i \in 1..Len(ds) |-> before[i] - LeastOf(before)]
subtotalsForDeltas(ds) ==
    LET before == [i \in 1..Len(ds) |-> Sums(ds)[i - 1]]
    IN  [i \in 1..Len(ds) |-> before[i] - LeastOf(before)]

CATsOfAnyTail(CATs, conditions) ==
    \/ Total(deltas(CATs, conditions)) # 0
    \/ \E i \in 1..Len(CATs) : ~Info[CATs[i]].whole \/ ~Parses(conditions[i])
CATsThrow(CATs, conditions) ==
    \/ \E i \in 1..Len(CATs) : Info[CATs[i]].tail # Info[CATs[1]].tail
    \/ Total(deltas(CATs, conditions)) # 0
    \/ \E i \in 1..Len(CATs) : ~Info[CATs[i]].whole \/ ~Parses(conditions[i])

nextIndex(i, n) == (i % n) + 1
prevIndex(i, n) == ((i - 2 + n) % n) + 1

bundleCATs(CATs, conditions) ==
    LET n == Len(CATs)
        subtotals == subtotalsForDeltas(deltas(CATs, conditions))
    IN  [i \in 1..n |->
            [coin |-> CATs[i], conditions |-> conditions[i],
             prev |-> CATs[prevIndex(i, n)], next |-> CATs[nextIndex(i, n)],
             subtotal |-> subtotals[i]]]

bundleStandardCoins(coins, conditions) ==
    [i \in 1..Len(coins) |-> [coin |-> coins[i], conditions |-> conditions[i]]]

-----------------------------------------------------------------------------
(* bundle. *)

MorphAlways(ts) == TRUE
Morphs(ts) == \E i \in 1..Len(ts) : IsCAT(ts[i])

(* The announcement of the first coin: of the first CAT, if there is one.  *)
TheAnnouncement(ts) ==
    LET CATs == Filter(ts, CATCoins)
        leader == IF CATs # <<>> THEN Head(CATs) ELSE Head(ts)
    IN  Announcement(leader, ts, Morphs(ts))

If(test, condition) == IF test THEN <<condition>> ELSE <<>>

(* What is pushed to each of the two arrays.                               *)
FeeForBoth(ts) == TRUE
FeeWithStandard(ts) == \A i \in 1..Len(ts) : IsStandard(ts[i])

PushedToCATs(ts, f) ==
    If(\E i \in 1..Len(ts) : IsStandard(ts[i]), createCoinAnnouncement(ts))
        \o If(f > 0, reserveFee(f))
PushedToStandard(ts, f) ==
    If(Morphs(ts), assertCoinAnnouncement(TheAnnouncement(ts)))
        \o If(~Morphs(ts) /\ Len(ts) > 1, createCoinAnnouncement(ts))
        \o If(f > 0 /\ FeeWithStandard(ts), reserveFee(f))

Forgotten(ts) == <<>>
OthersAssert(ts) == <<assertCoinAnnouncement(TheAnnouncement(ts))>>

(* The spends of a call of bundle, or what an exception leaves.            *)
Bundled(ts, f, catOut, standardOut) ==
    LET CATs == Filter(ts, CATCoins)
        standard == Filter(ts, StandardCoins)
        catPart == Conditions(CATs, catOut \o PushedToCATs(ts, f), <<>>)
        standardPart == Conditions(standard, standardOut \o PushedToStandard(ts, f),
                                   OthersAssert(ts))
        throws == \/ CATs # <<>> /\ CATsThrow(CATs, catPart)
                  \/ \E i \in 1..Len(standard) : ~Info[standard[i]].whole
    IN  IF throws THEN Threw
        ELSE (IF CATs = <<>> THEN <<>> ELSE bundleCATs(CATs, catPart))
                 \o bundleStandardCoins(standard, standardPart)

End(ts, f, result) ==
    /\ things' = ts
    /\ fee' = f
    /\ outcome' = IF result = Threw THEN "threw" ELSE "returned"
    /\ spends' = IF result = Threw THEN <<>> ELSE result

(* The application bundles some coins. *)
Call ==
    /\ outcome = "none"
    /\ \E n \in 0..MaxThings : \E ts \in [1..n -> Coins] :
         /\ IsInjective(ts)
         /\ \E f \in Fees, co \in CATOutputs, so \in StandardOutputs :
              /\ wanted' = (IF \E i \in 1..n : IsCAT(ts[i]) THEN co ELSE <<>>)
                              \o (IF \E i \in 1..n : IsStandard(ts[i]) THEN so ELSE <<>>)
              /\ End(ts, f, Bundled(ts, f, co, so))

-----------------------------------------------------------------------------
(* Singletons. *)

(* The launcher of a singleton is a coin of the first standard coin.       *)
LauncherOfLast(ts, amount) ==
    [parent |-> ts[Len(ts)], puzzle |-> LauncherPuzzle, amount |-> amount]
Launcher(ts, amount) == [parent |-> ts[1], puzzle |-> LauncherPuzzle, amount |-> amount]

(* Its solution, which its puzzle announces: the singleton's full puzzle   *)
(* and amount.                                                             *)
launcherSolution(launcher, inner) ==
    << launcher, inner, launcher.amount >>

(* The conditions that create the launcher and assert its announcement,    *)
(* and its spend, with the conditions that its puzzle makes of it.         *)
singletonLaunchConditions(launcher, inner) ==
    << createCoin(LauncherPuzzle, launcher.amount),
       assertCoinAnnouncement(Announcement(launcher, launcherSolution(launcher, inner), FALSE)) >>
launcherSpend(launcher, inner) ==
    [coin |-> launcher,
     conditions |-> << createCoin(launcherSolution(launcher, inner), launcher.amount),
                       createCoinAnnouncement(launcherSolution(launcher, inner)) >>]

(* launchSingleton; the coins are standard coins. *)
Launch ==
    /\ outcome = "none"
    /\ \E n \in 1..MaxThings : \E ts \in [1..n -> StandardCoins] :
         /\ IsInjective(ts)
         /\ \E f \in Fees, amount \in LaunchAmounts, inner \in InnerPuzzles,
               out \in LaunchOutputs :
              LET launcher == Launcher(ts, amount)
                  conditions == singletonLaunchConditions(launcher, inner) \o out
                  bundled == Bundled(ts, f, <<>>, conditions)
              IN  /\ wanted' = conditions
                  /\ End(ts, f, IF amount % 2 = 0 \/ bundled = Threw THEN Threw
                                ELSE Append(bundled, launcherSpend(launcher, inner)))

(* What a coin locked to a singleton is spent with: the singleton must     *)
(* have announced the coin's id, under its inner puzzle of the moment.     *)
p2Spend(c, inner) ==
    [coin |-> c,
     conditions |-> << assertPuzzleAnnouncement(Announcement(<<Singleton, inner>>, c, FALSE)),
                       createCoinAnnouncement(Dollar) >>]
singletonOutputConditions(cs) ==
    FlattenSeq([i \in 1..Len(cs) |->
                   << assertCoinAnnouncement(Announcement(cs[i], Dollar, FALSE)),
                      createPuzzleAnnouncement(cs[i]) >>])

(* useP2SingletonCoinsConditionsAndCoinSol; the application spends the     *)
(* singleton with the conditions that are returned.                        *)
UseP2Coins ==
    /\ outcome = "none"
    /\ \E cs \in SetToSeqs(P2Coins), inner \in InnerPuzzles :
         LET conditions == singletonOutputConditions(cs)
         IN  /\ wanted' = conditions
             /\ End(cs, 0, Append([i \in 1..Len(cs) |-> p2Spend(cs[i], inner)],
                                  [coin |-> Singleton, inner |-> inner, conditions |-> conditions]))

Next == Call \/ Launch \/ UseP2Coins
Spec == Init /\ [][Next]_vars

-----------------------------------------------------------------------------
(* Properties of a call that returned. *)

Indices == 1..Len(spends)
All == UNION {{<<i, j>> : j \in 1..Len(spends[i].conditions)} : i \in Indices}
At(p) == spends[p[1]].conditions[p[2]]

(* The announcements the spends create, as an assertion names them.        *)
Made ==
    {Announcement(spends[p[1]].coin, At(p).message, IsCAT(spends[p[1]].coin)) :
        p \in {q \in All : At(q).op = "CREATE_COIN_ANNOUNCEMENT"}} \cup
    {Announcement(<<Singleton, spends[p[1]].inner>>, At(p).message, FALSE) :
        p \in {q \in All : At(q).op = "CREATE_PUZZLE_ANNOUNCEMENT"}}
Assertions == {"ASSERT_COIN_ANNOUNCEMENT", "ASSERT_PUZZLE_ANNOUNCEMENT"}

(* The conditions that were added are there: what the properties of the    *)
(* links and the outputs suppose.                                          *)
AllTake == \A i \in Indices : spends[i].coin \in Coins => Info[spends[i].coin].takes

(* Every announcement a spend asserts is made by a spend of the bundle, if *)
(* all its coins took their conditions: "The list of CoinSpends can be     *)
(* included in a SpendBundle" (docs/spend/index.md:111).                   *)
AssertionsHold ==
    AllTake => \A p \in All : At(p).op \in Assertions => At(p).announcement \in Made

(* "Links StandardCoins and/or CATs together using announcements"          *)
(* (docs/spend/index.md:111): of several coins that took their conditions, *)
(* every standard coin asserts an announcement over all the names, except  *)
(* at most one, which makes the announcement that each of the others       *)
(* asserts.  That one asserts nothing: it alone could be spent without the *)
(* others, and none of them without it.                                    *)
AssertsNames(i) ==
    \E p \in All : /\ p[1] = i /\ At(p).op = "ASSERT_COIN_ANNOUNCEMENT"
                   /\ At(p).announcement.message = things
LeadsOthers(i) ==
    LET announcement == Announcement(spends[i].coin, things, FALSE)
    IN  /\ announcement \in Made
        /\ \A k \in Indices \ {i} : spends[k].coin \in Coins =>
              \E p \in All : p[1] = k /\ At(p) = assertCoinAnnouncement(announcement)
StandardCoinsAreLinked ==
    AllTake /\ Len(things) > 1 =>
        \A i \in Indices : IsStandard(spends[i].coin) => AssertsNames(i) \/ LeadsOthers(i)

(* Each output is created, and the fee reserved, by exactly one coin,      *)
(* whatever the mix of coins, if they took their conditions: "Output       *)
(* conditions are only asserted by one StandardCoin and/or CAT"            *)
(* (docs/spend/index.md:111).                                              *)
OutputsOnce ==
    LET reserved == {p \in All : At(p).op = "RESERVE_FEE"}
    IN  outcome = "returned" /\ AllTake =>
            /\ \A k \in 1..Len(wanted) : Cardinality({p \in All : At(p) = wanted[k]}) = 1
            /\ things # <<>> => /\ Cardinality(reserved) = (IF fee > 0 THEN 1 ELSE 0)
                               /\ \A p \in reserved : At(p).amount = fee

(* The launcher of a singleton is created by a coin the bundle spends, with *)
(* the puzzle and the amount its spend reveals, once, if the coins took     *)
(* their conditions.                                                        *)
LauncherIsCreated ==
    \A i \in Indices : AllTake /\ spends[i].coin \notin Coins \cup P2Coins \cup {Singleton} =>
        LET launcher == spends[i].coin
        IN  Cardinality({p \in All : /\ spends[p[1]].coin = launcher.parent
                                     /\ At(p) = createCoin(launcher.puzzle, launcher.amount)}) = 1

(* The ring the CAT puzzle checks: each CAT's neighbours name it, and its  *)
(* subtotal and delta make the subtotal of the next one; no subtotal is    *)
(* negative and the least is 0.                                            *)
CATIndices == {i \in Indices : IsCAT(spends[i].coin)}
DeltaOf(s) == Info[s.coin].amount + Info[s.coin].extraDelta - Created(s.conditions)
RingCloses ==
    /\ \A i \in CATIndices : \E k \in CATIndices :
          /\ spends[i].next = spends[k].coin /\ spends[k].prev = spends[i].coin
          /\ spends[k].subtotal = spends[i].subtotal + DeltaOf(spends[i])
    /\ \A i \in CATIndices : spends[i].subtotal >= 0
    /\ CATIndices # {} => \E i \in CATIndices : spends[i].subtotal = 0

(* The bundle spends no CAT of another asset and creates as much as it     *)
(* spends.                                                                 *)
CATsBalance ==
    /\ \A i, k \in CATIndices : Info[spends[i].coin].tail = Info[spends[k].coin].tail
    /\ Total([i \in Indices |-> IF IsCAT(spends[i].coin) THEN DeltaOf(spends[i]) ELSE 0]) = 0
=============================================================================
