----------------------------- MODULE CoinBuilders ------------------------------
(***************************************************************************)
(* An application that builds coins with SmartCoin, StandardCoin, CAT and  *)
(* Singleton: it calls constructors and methods and keeps what they return *)
(* in its variables.  Every method returns a new object; the two that add  *)
(* conditions also change the one they are called on.                      *)
(***************************************************************************)
EXTENDS CoinTerms

CONSTANTS
    Vars,           \* the variables of the application
    Values,         \* Values[class][p]: what it gives for parameter p of a with-method
    Constructions,  \* Constructions[class]: the arguments it constructs with
    Copies,         \* the arguments it calls copyWith with, besides single ones
    Additions,      \* the lists of conditions it adds
    Curried,        \* the lists of arguments it curries
    MaxConditions,  \* bound: conditions in a solution
    Nil, Malformed

ASSUME BoundAssumption == MaxConditions \in Nat

Smart == INSTANCE SmartCoin
Standard == INSTANCE StandardCoin
Cat == INSTANCE CAT
Single == INSTANCE Singleton

(* A condition that reveals a TAIL reveals a program. *)
RevealPrograms(conditions) ==
    /\ conditions \in Seq({conditions[i] : i \in 1..Len(conditions)})
    /\ \A i \in 1..Len(conditions) :
          Cat!IsReveal(conditions[i]) => conditions[i].TAILProgram # Null
ASSUME ConditionsAssumption ==
    /\ \A conditions \in Additions : RevealPrograms(conditions)
    /\ \A solution \in Values["CAT"]["innerSolution"]
                          \cup {args.innerSolution : args \in Constructions["CAT"] \cup Copies} :
          solution \notin {Null, Opaque} => RevealPrograms(solution.conditions)

VARIABLE
    coins    \* coins[x]: an object, what it was given so far, and whether
             \* adding conditions has set its solution

None == [class |-> "none"]

New(class, args) ==
    CASE class = "SmartCoin" -> Smart!New(args)
      [] class = "StandardCoin" -> Standard!New(args)
      [] class = "CAT" -> Cat!New(args)
      [] class = "Singleton" -> Single!New(args)
CopyWith(class, this, args) ==
    CASE class = "SmartCoin" -> Smart!CopyWith(this, args)
      [] class = "StandardCoin" -> Standard!CopyWith(this, args)
      [] class = "CAT" -> Cat!CopyWith(this, args)
      [] class = "Singleton" -> Single!CopyWith(this, args)
With(class) ==
    CASE class = "SmartCoin" -> Smart!With
      [] class = "StandardCoin" -> Standard!With
      [] class = "CAT" -> Cat!With
      [] class = "Singleton" -> Single!With

Classes == {"SmartCoin", "StandardCoin", "CAT", "Singleton"}

Init == coins = [x \in Vars |-> None]

(* The last value given for each parameter: a coin gives three of them,    *)
(* a public key gives a synthetic key, and a puzzle hash takes away the    *)
(* puzzle unless it is the one of the puzzle, written without 0x: with it, *)
(* the comparison of smart_coin.ts:65 takes the same hash for another.     *)
LastGiven(given, args) ==
    [p \in Parameters |->
        CASE p \in {"coin", "publicKey"} -> Null
          [] p \in {"parentCoinInfo", "puzzleHash", "amount"} /\ args.coin # Null -> args.coin[p]
          [] p = "syntheticKey" /\ args.publicKey # Null ->
                 calculateSyntheticPublicKey(args.publicKey)
          [] p = "puzzle" /\ args.puzzleHash \notin {Null, sha256tree(given.puzzle)} -> args.puzzle
          [] OTHER -> Or(args[p], given[p])]

Object(class, it, given) == [class |-> class, it |-> it, given |-> given, touched |-> FALSE]

(* new SmartCoin(args), and so on. *)
Construct(x) ==
    \E class \in Classes : \E args \in Constructions[class] :
        /\ class = "CAT" => ~Cat!NewThrows(args)
        /\ coins' = [coins EXCEPT ![x] = Object(class, New(class, args), LastGiven(NoArgs, args))]

Result(x, y, args) ==
    LET o == coins[y]
    IN  /\ o.class = "CAT" => ~Cat!NewThrows(Cat!CopyArgs(o.it, args))
        /\ coins' = [coins EXCEPT ![x] = Object(o.class, CopyWith(o.class, o.it, args),
                                                LastGiven(o.given, args))]

(* x = y.withParentCoinInfo(...), and so on. *)
CallWith(x, y) ==
    /\ coins[y] # None
    /\ \E p \in With(coins[y].class) : \E v \in Values[coins[y].class][p] : Result(x, y, Given(p, v))

(* x = y.copyWith(...) *)
CallCopyWith(x, y) ==
    /\ coins[y] # None
    /\ \E args \in Copies : Result(x, y, args)

Room(solution, conditions) ==
    solution \notin {Null, Opaque} =>
        Len(solution.conditions) + Len(conditions) <= MaxConditions

Touch(o, parameter, it) ==
    IF o.it[parameter] # Null THEN o
    ELSE [class |-> o.class, it |-> it, touched |-> TRUE,
          given |-> [o.given EXCEPT ![parameter] = standardCoinSolution(<<>>)]]

(* x = y.addConditionsToSolution(...), or the call alone. *)
AddConditionsToSolution(x, y) ==
    /\ coins[y].class = "StandardCoin"
    /\ \E conditions \in Additions :
         LET o == Touch(coins[y], "solution", Standard!SolutionSet(coins[y].it))
             added == standardCoinSolution(o.it.solution.conditions \o conditions)
             result == IF o.it.solution = Opaque THEN o
                       ELSE Object(o.class, Standard!AddConditions(o.it, conditions),
                                   LastGiven(o.given, Given("solution", added)))
         IN  /\ Room(coins[y].it.solution, conditions)
             /\ coins' \in {[coins EXCEPT ![y] = o, ![x] = result], [coins EXCEPT ![y] = o]}

(* x = y.addConditionsToInnerSolution(...); an exception is caught.  *)
AddConditionsToInnerSolution(x, y) ==
    /\ coins[y].class = "CAT"
    /\ \E conditions \in Additions :
         LET o == Touch(coins[y], "innerSolution", Cat!SolutionSet(coins[y].it))
             args == Cat!ConditionsArgs(o.it, conditions)
             result == IF o.it.innerSolution = Opaque THEN o
                       ELSE IF Cat!NewThrows(args) THEN o
                       ELSE Object(o.class, Cat!New(args),
                                   LastGiven(o.given, Given("innerSolution", args.innerSolution)))
         IN  /\ Room(coins[y].it.innerSolution, conditions)
             /\ coins' \in {[coins EXCEPT ![y] = o, ![x] = result], [coins EXCEPT ![y] = o]}

(* x = y.curry(...), a SmartCoin; a curried puzzle is not curried again.   *)
Curry(x, y) ==
    /\ coins[y] # None
    /\ coins[y].class # "SmartCoin"
    /\ coins[y].it.puzzle # Null
    /\ \E args \in Curried :
         LET o == coins[y]
             curriedCoin == Smart!CurryCoin(o.it, args)
         IN  coins' = [coins EXCEPT ![x] =
                 Object("SmartCoin", curriedCoin,
                        LastGiven(NoArgs, [NoArgs EXCEPT !.coin = Smart!toCoin(o.it),
                                                         !.puzzle = curriedCoin.puzzle]))]

Next ==
    \E x \in Vars :
        \/ Construct(x)
        \/ \E y \in Vars :
             \/ CallWith(x, y)
             \/ CallCopyWith(x, y)
             \/ AddConditionsToSolution(x, y)
             \/ AddConditionsToInnerSolution(x, y)
             \/ Curry(x, y)

Spec == Init /\ [][Next]_coins

-----------------------------------------------------------------------------
(* Properties. *)

Built == {coins[x] : x \in {y \in Vars : coins[y] # None}}
CATs == {o \in Built : o.class = "CAT"}

(* A coin never carries a puzzle that is not the one of its puzzle hash,   *)
(* in whatever order puzzles, keys, hashes and coins were given: the spend *)
(* it makes reveals the puzzle of the coin it spends.                      *)
PuzzleIsTheCoins ==
    \A o \in Built :
        LET spend == Smart!spend(o.it)
        IN  /\ o.it.puzzle # Null => o.it.puzzleHash = sha256tree(o.it.puzzle)
            /\ spend # Null => spend.coin.puzzleHash = sha256tree(spend.puzzleReveal)

(* The order of the calls does not matter: an object is what a single call *)
(* of its constructor makes of the last value given for each parameter.    *)
(* A CAT is, as long as it has no TAIL program.                            *)
BuiltAtOnce ==
    \A o \in Built :
        LET once == New(o.class, o.given)
        IN  IF o.class # "CAT" THEN o.it = once
            ELSE o.it.TAILProgram = Null =>
                     o.it = IF o.touched THEN [once EXCEPT !.solution = Null] ELSE once

(* What the constructor of a CAT leaves undone because of the order of its *)
(* steps, the next copy does: two copies are the same as one.              *)
SettlesInOneCopy ==
    \A o \in CATs :
        LET args == Cat!CopyArgs(o.it, NoArgs)
            once == Cat!New(args)
        IN  ~Cat!NewThrows(args) => Cat!CopyWith(once, NoArgs) = once

(* A CAT whose inner solution reveals a TAIL has the puzzle of that TAIL,  *)
(* whatever TAIL or hash it was given besides; one whose constructor made  *)
(* the inner solution has it after one copy.                               *)
RevealedTAILIsCurried ==
    \A o \in CATs :
        LET args == Cat!CopyArgs(o.it, NoArgs)
            it == IF o.given.innerSolution # Null THEN o.it ELSE Cat!New(args)
        IN  Cat!Derives(o.it.syntheticKey, o.it.innerSolution) /\ ~Cat!NewThrows(args) =>
                it.puzzle = CATPuzzle(
                    sha256tree(Cat!Revealed(it.innerSolution).TAILProgram), it.innerPuzzle)

(* The solution of a CAT names the coin of the CAT, and names it as its    *)
(* own neighbour where it was given none: no name of an earlier object of  *)
(* the chain of copies is left in it.                                      *)
SolutionNamesItself ==
    \A o \in CATs : o.it.solution # Null =>
        LET coin == Smart!toCoin(o.it)
        IN  /\ o.it.solution.thisCoin = coin
            /\ o.given.prevCoinId = Null => o.it.solution.prevCoinId = getId(coin)
            /\ o.given.nextCoin = Null => o.it.solution.nextCoin = coin
=============================================================================
