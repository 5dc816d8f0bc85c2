-------------------------- MODULE CoinBuilders_proofs --------------------------
(***************************************************************************)
(* Proofs about the coins that calls of the builders make, for every set   *)
(* of values, conditions and variables: such a coin has the puzzle of its  *)
(* puzzle hash; in whatever order its values were given it is the one that *)
(* a single call of its constructor makes; one copy settles a CAT, whose   *)
(* puzzle is then that of the TAIL its inner solution reveals and whose    *)
(* solution names the coin itself.                                         *)
(***************************************************************************)
EXTENDS CoinBuilders, TLAPS

(* What every constructor establishes and no method disturbs. *)
Matches(it) ==
    /\ {"puzzle", "puzzleHash"} \subseteq DOMAIN it
    /\ it.puzzle # Null => it.puzzleHash = sha256tree(it.puzzle)

-----------------------------------------------------------------------------
(* The constructors. *)

(* new SmartCoin() makes a coin that has the puzzle of its puzzle hash. *)
LEMMA SmartMatches == ASSUME NEW args PROVE Matches(Smart!New(args))
BY DEF Matches, Smart!New, Smart!calculatePuzzleHash, sha256tree, Plain,
       Smart!sha256tree, Smart!Plain

(* new StandardCoin() does. *)
LEMMA StandardMatches == ASSUME NEW args PROVE Matches(Standard!New(args))
BY DEF Matches, Standard!New, Standard!Super!calculatePuzzleHash, sha256tree, Plain,
       Standard!Super!sha256tree, Standard!Super!Plain

(* new Singleton() does. *)
LEMMA SingleMatches == ASSUME NEW args PROVE Matches(Single!New(args))
BY DEF Matches, Single!New, Single!Super!calculatePuzzleHash, sha256tree, Plain,
       Single!Super!sha256tree, Single!Super!Plain

(* new CAT() does. *)
LEMMA CatMatches == ASSUME NEW args PROVE Matches(Cat!New(args))
BY DEF Matches, Cat!New, Cat!Super!calculatePuzzleHash, sha256tree, Plain,
       Cat!Super!sha256tree, Cat!Super!Plain
(* Whatever the class, the constructor and copyWith do. *)
LEMMA NewMatches ==
    ASSUME NEW class \in Classes, NEW args
    PROVE  Matches(New(class, args))
BY SmartMatches, StandardMatches, SingleMatches, CatMatches DEF New, Classes

(* So does copyWith, which ends in the constructor.                        *)
LEMMA CopyMatches ==
    ASSUME NEW class \in Classes, NEW this, NEW args
    PROVE  Matches(CopyWith(class, this, args))
<1>1. Matches(Smart!CopyWith(this, args))
  BY SmartMatches DEF Smart!CopyWith
<1>2. Matches(Standard!CopyWith(this, args))
  BY StandardMatches DEF Standard!CopyWith
<1>3. Matches(Single!CopyWith(this, args))
  BY SingleMatches DEF Single!CopyWith
<1>4. Matches(Cat!CopyWith(this, args))
  BY CatMatches DEF Cat!CopyWith
<1> QED BY <1>1, <1>2, <1>3, <1>4 DEF CopyWith, Classes

-----------------------------------------------------------------------------
(* The variables. *)

(* An entry of coins that may be written over any other. *)
Good(o) == o # None => o.class \in Classes /\ Matches(o.it)

Inv ==
    /\ coins = [x \in Vars |-> coins[x]]
    /\ \A x \in Vars : Good(coins[x])

(* What a constructor made is good.                                        *)
LEMMA GoodObject ==
    ASSUME NEW class \in Classes, NEW it, NEW given, Matches(it)
    PROVE  Good(Object(class, it, given))
BY DEF Good, Object

(* A method call assigns a good object. *)
LEMMA AssignKeeps ==
    ASSUME Inv, NEW x \in Vars, NEW o, Good(o), coins' = [coins EXCEPT ![x] = o]
    PROVE  Inv'
BY DEF Inv

(* A call that also changes the object it is made on assigns two. *)
LEMMA AssignBothKeeps ==
    ASSUME Inv, NEW x \in Vars, NEW y \in Vars, NEW o, NEW p, Good(o), Good(p),
           coins' \in {[coins EXCEPT ![y] = o, ![x] = p], [coins EXCEPT ![y] = o]}
    PROVE  Inv'
BY DEF Inv

(* A method that returns a copy assigns a good object.                     *)
LEMMA ResultKeeps ==
    ASSUME Inv, NEW x \in Vars, NEW y \in Vars, NEW args, coins[y] # None,
           Result(x, y, args)
    PROVE  Inv'
<1> DEFINE o == coins[y]
<1>1. o.class \in Classes
  BY DEF Inv, Good
<1>2. Good(Object(o.class, CopyWith(o.class, o.it, args), LastGiven(o.given, args)))
  BY <1>1, CopyMatches, GoodObject
<1> QED BY <1>2, AssignKeeps DEF Result

(* Setting the solution of an object leaves its puzzle and its hash. *)
LEMMA TouchKeeps ==
    ASSUME NEW o, Good(o), o # None, NEW parameter, NEW it, Matches(it)
    PROVE  Good(Touch(o, parameter, it))
BY DEF Good, Touch

(* At first there are no coins.                                            *)
LEMMA InitGood == Init => Inv
BY DEF Init, Inv, Good

(* Every call of the application keeps Inv.                                *)
LEMMA NextKeeps == Inv /\ [Next]_coins => Inv'
<1> SUFFICES ASSUME Inv, [Next]_coins PROVE Inv'
  OBVIOUS
<1>1. CASE UNCHANGED coins
  BY <1>1 DEF Inv, Good, Matches
<1>2. ASSUME NEW x \in Vars, Construct(x) PROVE Inv'
  <2>1. PICK class \in Classes : \E args \in Constructions[class] :
          coins' = [coins EXCEPT ![x] = Object(class, New(class, args), LastGiven(NoArgs, args))]
    BY <1>2 DEF Construct
  <2>2. PICK args :
          coins' = [coins EXCEPT ![x] = Object(class, New(class, args), LastGiven(NoArgs, args))]
    BY <2>1
  <2>3. Good(Object(class, New(class, args), LastGiven(NoArgs, args)))
    BY NewMatches, GoodObject
  <2> QED BY <2>2, <2>3, AssignKeeps
<1>3. ASSUME NEW x \in Vars, NEW y \in Vars, CallWith(x, y) PROVE Inv'
  BY <1>3, ResultKeeps DEF CallWith
<1>4. ASSUME NEW x \in Vars, NEW y \in Vars, CallCopyWith(x, y) PROVE Inv'
  BY <1>4, ResultKeeps DEF CallCopyWith
<1>5. ASSUME NEW x \in Vars, NEW y \in Vars, AddConditionsToSolution(x, y) PROVE Inv'
  <2> DEFINE o == Touch(coins[y], "solution", Standard!SolutionSet(coins[y].it))
  <2>1. /\ coins[y] # None /\ Good(coins[y]) /\ Matches(coins[y].it)
        /\ coins[y].class = "StandardCoin"
    BY <1>5 DEF AddConditionsToSolution, Inv, Good, None
  <2>2. Matches(Standard!SolutionSet(coins[y].it))
    BY <2>1 DEF Matches, Standard!SolutionSet
  <2>3. Good(o) /\ o.class = "StandardCoin"
    BY <2>1, <2>2, TouchKeeps DEF Touch
  <2>4. PICK conditions \in Additions :
          LET added == standardCoinSolution(o.it.solution.conditions \o conditions)
              result == IF o.it.solution = Opaque THEN o
                        ELSE Object(o.class, Standard!AddConditions(o.it, conditions),
                                    LastGiven(o.given, Given("solution", added)))
          IN  coins' \in {[coins EXCEPT ![y] = o, ![x] = result], [coins EXCEPT ![y] = o]}
    BY <1>5 DEF AddConditionsToSolution
  <2>5. Matches(Standard!AddConditions(o.it, conditions))
    BY StandardMatches DEF Standard!AddConditions, Standard!CopyWith
  <2>6. ASSUME NEW given
        PROVE  Good(Object(o.class, Standard!AddConditions(o.it, conditions), given))
    BY <2>3, <2>5, GoodObject DEF Classes
  <2> HIDE DEF o
  <2> QED BY <2>3, <2>4, <2>6, AssignBothKeeps
<1>6. ASSUME NEW x \in Vars, NEW y \in Vars, AddConditionsToInnerSolution(x, y) PROVE Inv'
  <2> DEFINE o == Touch(coins[y], "innerSolution", Cat!SolutionSet(coins[y].it))
  <2>1. /\ coins[y] # None /\ Good(coins[y]) /\ Matches(coins[y].it)
        /\ coins[y].class = "CAT"
    BY <1>6 DEF AddConditionsToInnerSolution, Inv, Good, None
  <2>2. Matches(Cat!SolutionSet(coins[y].it))
    BY <2>1 DEF Matches, Cat!SolutionSet
  <2>3. Good(o) /\ o.class = "CAT"
    BY <2>1, <2>2, TouchKeeps DEF Touch
  <2>4. PICK conditions \in Additions :
          LET args == Cat!ConditionsArgs(o.it, conditions)
              result == IF o.it.innerSolution = Opaque THEN o
                        ELSE IF Cat!NewThrows(args) THEN o
                        ELSE Object(o.class, Cat!New(args),
                                    LastGiven(o.given, Given("innerSolution", args.innerSolution)))
          IN  coins' \in {[coins EXCEPT ![y] = o, ![x] = result], [coins EXCEPT ![y] = o]}
    BY <1>6 DEF AddConditionsToInnerSolution
  <2>5. ASSUME NEW args, NEW given PROVE Good(Object(o.class, Cat!New(args), given))
    BY <2>3, CatMatches, GoodObject DEF Classes
  <2> HIDE DEF o
  <2> QED BY <2>3, <2>4, <2>5, AssignBothKeeps
<1>7. ASSUME NEW x \in Vars, NEW y \in Vars, Curry(x, y) PROVE Inv'
  <2>1. PICK args \in Curried : \E given :
          coins' = [coins EXCEPT ![x] =
                       Object("SmartCoin", Smart!CurryCoin(coins[y].it, args), given)]
    BY <1>7 DEF Curry
  <2>2. Matches(Smart!CurryCoin(coins[y].it, args))
    BY SmartMatches DEF Smart!CurryCoin
  <2>3. ASSUME NEW given
        PROVE  Good(Object("SmartCoin", Smart!CurryCoin(coins[y].it, args), given))
    BY <2>2, GoodObject DEF Classes
  <2> QED BY <2>1, <2>3, AssignKeeps
<1> QED BY <1>1, <1>2, <1>3, <1>4, <1>5, <1>6, <1>7 DEF Next

(* Whatever is called in whatever order, a coin that has a puzzle has its  *)
(* hash (smart_coin.ts calculatePuzzleHash and its callers).               *)
THEOREM PuzzleAlwaysTheCoins == Spec => []PuzzleIsTheCoins
<1>1. Inv => PuzzleIsTheCoins
  <2> SUFFICES ASSUME Inv, NEW x \in Vars, coins[x] # None
               PROVE  LET it == coins[x].it
                          spend == Smart!spend(it)
                      IN  /\ it.puzzle # Null => it.puzzleHash = sha256tree(it.puzzle)
                          /\ spend # Null =>
                                spend.coin.puzzleHash = sha256tree(spend.puzzleReveal)
    BY DEF PuzzleIsTheCoins, Built
  <2>1. Matches(coins[x].it)
    BY DEF Inv, Good
  <2> QED BY <2>1 DEF Matches, Smart!spend, Smart!isSpendable, Smart!hasCoinInfo, Smart!toCoin,
                      Coin, Smart!Coin
<1> QED BY <1>1, InitGood, NextKeeps, PTL DEF Spec

-----------------------------------------------------------------------------
(* What an object is made of.                                              *)
(*                                                                         *)
(* Null is a model value in the runs; the proofs use one thing of it, that *)
(* it is not a function, hence no string, puzzle, solution or coin, as     *)
(* null and undefined are no objects of JavaScript.                        *)
NullIsNoFunction == Null # [x \in DOMAIN Null |-> Null[x]]

(* What hashes and constructors of terms return is not Null.               *)
LEMMA NullApart ==
    ASSUME NullIsNoFunction
    PROVE  /\ \A a, b : curry(a, b) # Null
           /\ \A s : s # Null => dehexlify(s) # Null
           /\ \A c : standardCoinSolution(c) # Null
           /\ \A h : Plain(h) # Null
           /\ \A k : calculateSyntheticPublicKey(k) # Null
BY DEF NullIsNoFunction, calculateSyntheticPublicKey, curry, dehexlify, standardCoinSolution,
       Plain

(* The hash of a coin that has this puzzle, and was given h. *)
HashOf(puzzle, h) == IF puzzle = Null THEN h ELSE sha256tree(puzzle)

(* The coin nextCoin, as the constructor of a CAT keeps it. *)
NextStored(coin) ==
    IF coin = Null THEN Null
    ELSE Coin(dehexlify(coin.parentCoinInfo), dehexlify(coin.puzzleHash), coin.amount)

(* What a constructor keeps of a hex string, a proof or a coin, it keeps   *)
(* as it is when it is given again.                                        *)
LEMMA Twice ==
    /\ \A s : dehexlify(dehexlify(s)) = dehexlify(s)
    /\ \A h : dehexlify(Plain(h)) = Plain(h)
BY DEF dehexlify, Plain

(* A lineage proof that was stored is stored as it is.                     *)
LEMMA ProofTwice == ASSUME NEW proof PROVE StoredProof(StoredProof(proof)) = StoredProof(proof)
BY Twice DEF StoredProof

(* So is a next coin.                                                      *)
LEMMA NextTwice == ASSUME NEW coin PROVE NextStored(NextStored(coin)) = NextStored(coin)
BY Twice DEF NextStored, Coin

(* A call that gives one parameter. *)
LEMMA GivenAlone ==
    ASSUME NEW v
    PROVE  /\ \A p \in Parameters : /\ Given(p, v)[p] = v
                                    /\ \A f \in Parameters \ {p} : Given(p, v)[f] = Null
           /\ \A p : Standard!Given(p, v) = Given(p, v) /\ Cat!Given(p, v) = Given(p, v)
<1>1. \A p \in Parameters : /\ Given(p, v)[p] = v
                            /\ \A f \in Parameters \ {p} : Given(p, v)[f] = Null
  BY DEF Given, NoArgs
<1>2. \A p : Standard!Given(p, v) = Given(p, v)
  BY DEF Given, NoArgs, Parameters, Standard!Given, Standard!NoArgs, Standard!Parameters
<1>3. \A p : Cat!Given(p, v) = Given(p, v)
  BY DEF Given, NoArgs, Parameters, Cat!Given, Cat!NoArgs, Cat!Parameters
<1> QED BY <1>1, <1>2, <1>3

-----------------------------------------------------------------------------
(* The values given last.                                                  *)

KeyOf(args, syntheticKey) ==
    IF args.publicKey # Null THEN calculateSyntheticPublicKey(args.publicKey) ELSE syntheticKey
StandardPuzzle(key) == IF key = Null THEN Null ELSE standardCoinPuzzle(key)

(* Parameters that LastGiven treats as any other. *)
Ordinary == Parameters \ {"coin", "publicKey", "parentCoinInfo", "puzzleHash", "amount",
                          "syntheticKey", "puzzle"}

(* Each value given last, of those given before and by the last call.      *)
LEMMA LastFields ==
    ASSUME NEW given, NEW args, NEW g, g = LastGiven(given, args)
    PROVE  /\ g.coin = Null /\ g.publicKey = Null
           /\ g = [f \in Parameters |-> g[f]]
           /\ g.parentCoinInfo = IF args.coin # Null THEN args.coin.parentCoinInfo
                                 ELSE Or(args.parentCoinInfo, given.parentCoinInfo)
           /\ g.puzzleHash = IF args.coin # Null THEN args.coin.puzzleHash
                             ELSE Or(args.puzzleHash, given.puzzleHash)
           /\ g.amount = IF args.coin # Null THEN args.coin.amount
                         ELSE Or(args.amount, given.amount)
           /\ g.syntheticKey = KeyOf(args, Or(args.syntheticKey, given.syntheticKey))
           /\ g.puzzle = IF args.puzzleHash \notin {Null, sha256tree(given.puzzle)}
                         THEN args.puzzle ELSE Or(args.puzzle, given.puzzle)
           /\ \A p \in Ordinary : g[p] = Or(args[p], given[p])
BY DEF LastGiven, Parameters, Ordinary, KeyOf

(* Of a first call, they are the ones of the call, its coin taken apart. *)
LEMMA FirstFields ==
    ASSUME NEW args, NEW g, g = LastGiven(NoArgs, args)
    PROVE  /\ g.coin = Null /\ g.publicKey = Null
           /\ g.parentCoinInfo = Or(args.coin, args).parentCoinInfo
           /\ g.puzzleHash = Or(args.coin, args).puzzleHash
           /\ g.amount = Or(args.coin, args).amount
           /\ g.syntheticKey = KeyOf(args, args.syntheticKey)
           /\ g.puzzle = args.puzzle
           /\ \A p \in Ordinary : g[p] = args[p]
<1>1. /\ \A p \in Parameters : NoArgs[p] = Null
      /\ \A a : Or(a, Null) = a
  BY DEF NoArgs, Or
<1>2. /\ NoArgs.parentCoinInfo = Null /\ NoArgs.puzzleHash = Null /\ NoArgs.amount = Null
      /\ NoArgs.syntheticKey = Null /\ NoArgs.puzzle = Null
  BY <1>1 DEF Parameters
<1>3. g.puzzle = args.puzzle
  BY <1>1, <1>2, LastFields
<1>4. \A p \in Ordinary : g[p] = args[p]
  BY <1>1, LastFields DEF Ordinary
<1>5. /\ g.coin = Null /\ g.publicKey = Null
      /\ g.parentCoinInfo = Or(args.coin, args).parentCoinInfo
      /\ g.puzzleHash = Or(args.coin, args).puzzleHash
      /\ g.amount = Or(args.coin, args).amount
  BY <1>1, <1>2, LastFields DEF Or
<1>6. g.syntheticKey = KeyOf(args, args.syntheticKey)
  BY <1>1, <1>2, LastFields
<1> QED BY <1>3, <1>4, <1>5, <1>6

(* The arguments c of the constructor that copyWith calls place the copy   *)
(* at the coin given last, whether it was given as a coin or by its parts. *)
LEMMA CopyPlace ==
    ASSUME NEW given, NEW args, NEW it, NEW c, NEW info,
           it.parentCoinInfo = dehexlify(given.parentCoinInfo), it.amount = given.amount,
           it.puzzleHash = HashOf(it.puzzle, dehexlify(given.puzzleHash)),
           c.coin = args.coin, c.parentCoinInfo = Or(args.parentCoinInfo, it.parentCoinInfo),
           c.puzzleHash = Or(args.puzzleHash, it.puzzleHash),
           c.amount = Or(args.amount, it.amount),
           info = Or(c.coin, c)
    PROVE  LET g == LastGiven(given, args)
           IN  /\ dehexlify(info.parentCoinInfo) = dehexlify(g.parentCoinInfo)
               /\ info.amount = g.amount
               /\ it.puzzle = Null \/ args.puzzleHash # Null =>
                     dehexlify(info.puzzleHash) = dehexlify(g.puzzleHash)
<1> DEFINE g == LastGiven(given, args)
<1>1. /\ g.parentCoinInfo = IF args.coin # Null THEN args.coin.parentCoinInfo
                            ELSE Or(args.parentCoinInfo, given.parentCoinInfo)
      /\ g.puzzleHash = IF args.coin # Null THEN args.coin.puzzleHash
                        ELSE Or(args.puzzleHash, given.puzzleHash)
      /\ g.amount = IF args.coin # Null THEN args.coin.amount ELSE Or(args.amount, given.amount)
  BY LastFields
<1> HIDE DEF g
<1>2. CASE args.coin # Null
  BY <1>1, <1>2 DEF Or, g
<1>3. CASE args.coin = Null
  <2>1. info = c
    BY <1>3 DEF Or
  <2> QED BY <1>1, <1>3, <2>1, Twice DEF Or, HashOf, g
<1> QED BY <1>2, <1>3

-----------------------------------------------------------------------------
(* SmartCoin: a copy is what the constructor makes of the values given     *)
(* last; so is the first object.                                           *)

SmartOf(info, puzzle, solution) ==
    [parentCoinInfo |-> dehexlify(info.parentCoinInfo),
     puzzleHash |-> HashOf(puzzle, dehexlify(info.puzzleHash)),
     amount |-> info.amount,
     puzzle |-> puzzle,
     solution |-> solution]

(* new SmartCoin() of its arguments.                                       *)
LEMMA SmartNew ==
    ASSUME NEW args
    PROVE  Smart!New(args) = SmartOf(Or(args.coin, args), args.puzzle, args.solution)
BY DEF SmartOf, Smart!New, Smart!Or, Or, Smart!dehexlify, dehexlify, Smart!calculatePuzzleHash,
       HashOf, sha256tree, Plain, Smart!sha256tree, Smart!Plain

(* Copying a SmartCoin is constructing one of the values given last.       *)
LEMMA SmartCopy ==
    ASSUME NEW given, NEW args, NEW it, given.coin = Null, it = Smart!New(given)
    PROVE  Smart!CopyWith(it, args) = Smart!New(LastGiven(given, args))
<1> DEFINE g == LastGiven(given, args)
           givePuzzle == \/ args.puzzle # Null
                         \/ args.puzzleHash # Null /\ it.puzzleHash # args.puzzleHash
           c == [parentCoinInfo |-> Or(args.parentCoinInfo, it.parentCoinInfo),
                 puzzleHash |-> Or(args.puzzleHash, it.puzzleHash),
                 amount |-> Or(args.amount, it.amount),
                 puzzle |-> IF givePuzzle THEN args.puzzle ELSE it.puzzle,
                 coin |-> args.coin,
                 solution |-> Or(args.solution, it.solution)]
           info == Or(c.coin, c)
<1>1. Smart!CopyWith(it, args) = Smart!New(c)
  BY DEF Smart!CopyWith, Smart!Or, Or
<1>2. /\ it.parentCoinInfo = dehexlify(given.parentCoinInfo) /\ it.amount = given.amount
      /\ it.puzzleHash = HashOf(it.puzzle, dehexlify(given.puzzleHash))
      /\ it.puzzle = given.puzzle /\ it.solution = given.solution
  BY SmartNew DEF Or, SmartOf
<1>3. /\ g.coin = Null /\ g.solution = Or(args.solution, given.solution)
      /\ g.puzzle = IF args.puzzleHash \notin {Null, sha256tree(given.puzzle)} THEN args.puzzle
                    ELSE Or(args.puzzle, given.puzzle)
  BY LastFields DEF Parameters, Ordinary
<1>4. /\ dehexlify(info.parentCoinInfo) = dehexlify(g.parentCoinInfo)
      /\ info.amount = g.amount
      /\ it.puzzle = Null \/ args.puzzleHash # Null =>
            dehexlify(info.puzzleHash) = dehexlify(g.puzzleHash)
  <2>1. /\ c.coin = args.coin /\ c.parentCoinInfo = Or(args.parentCoinInfo, it.parentCoinInfo)
        /\ c.puzzleHash = Or(args.puzzleHash, it.puzzleHash)
        /\ c.amount = Or(args.amount, it.amount)
    OBVIOUS
  <2> HIDE DEF c
  <2> QED BY <1>2, <2>1, CopyPlace
<1> HIDE DEF g
<1>5. c.puzzle = g.puzzle /\ c.solution = g.solution
  BY <1>2, <1>3 DEF Or, HashOf
<1>6. c.puzzle = Null => it.puzzle = Null \/ args.puzzleHash # Null
  OBVIOUS
<1>7. Smart!New(c) = SmartOf(info, c.puzzle, c.solution)
  <2> HIDE DEF c
  <2> QED BY SmartNew
<1>8. Smart!New(g) = SmartOf(g, g.puzzle, g.solution)
  BY <1>3, SmartNew DEF Or
<1> HIDE DEF c, info
<1> QED BY <1>1, <1>4, <1>5, <1>6, <1>7, <1>8 DEF g, HashOf, SmartOf

(* A first SmartCoin is made of the values given last, its arguments.      *)
LEMMA SmartFirst == ASSUME NEW args PROVE Smart!New(args) = Smart!New(LastGiven(NoArgs, args))
<1> DEFINE g == LastGiven(NoArgs, args)
<1>1. /\ g.coin = Null /\ g.parentCoinInfo = Or(args.coin, args).parentCoinInfo
      /\ g.puzzleHash = Or(args.coin, args).puzzleHash
      /\ g.amount = Or(args.coin, args).amount
      /\ g.puzzle = args.puzzle /\ g.solution = args.solution
  BY FirstFields DEF Parameters, Ordinary
<1> HIDE DEF g
<1>2. Smart!New(g) = SmartOf(g, g.puzzle, g.solution)
  BY <1>1, SmartNew DEF Or
<1> QED BY <1>1, <1>2, SmartNew DEF g, SmartOf

-----------------------------------------------------------------------------
(* StandardCoin: likewise, and the two keys are one. *)

StandardOf(info, key, solution) ==
    [parentCoinInfo |-> dehexlify(info.parentCoinInfo),
     puzzleHash |-> HashOf(StandardPuzzle(key), dehexlify(info.puzzleHash)),
     amount |-> info.amount,
     puzzle |-> StandardPuzzle(key),
     solution |-> solution,
     syntheticKey |-> key]

(* new StandardCoin() of its arguments.                                    *)
LEMMA StandardNew ==
    ASSUME NEW args
    PROVE  Standard!New(args) =
              StandardOf(Or(args.coin, args), KeyOf(args, args.syntheticKey), args.solution)
<1> DEFINE base == Standard!Super!New([parentCoinInfo |-> args.parentCoinInfo,
                           puzzleHash |-> args.puzzleHash, amount |-> args.amount,
                           coin |-> args.coin, solution |-> args.solution,
                           puzzle |-> Null])
           info == Or(args.coin, args)
           key == KeyOf(args, args.syntheticKey)
           puzzle == IF Standard!KeyGiven(args) = Null THEN Null
                     ELSE Standard!standardCoinPuzzle(Standard!KeyGiven(args))
<1>1. base = [parentCoinInfo |-> dehexlify(info.parentCoinInfo),
              puzzleHash |-> dehexlify(info.puzzleHash),
              amount |-> info.amount, puzzle |-> Null, solution |-> args.solution]
  BY DEF Or, Standard!Super!New, Standard!Super!Or, dehexlify, Standard!Super!dehexlify,
         Standard!Super!calculatePuzzleHash
<1>2. key = Standard!KeyGiven(args)
  BY DEF KeyOf, Standard!KeyGiven, calculateSyntheticPublicKey,
         Standard!calculateSyntheticPublicKey
<1>3. puzzle = StandardPuzzle(key)
  BY <1>2 DEF StandardPuzzle, standardCoinPuzzle, Standard!standardCoinPuzzle, curry,
              Standard!curry
<1>4. \A p, h : Standard!Super!calculatePuzzleHash(p, h) = HashOf(p, h)
  BY DEF HashOf, Standard!Super!calculatePuzzleHash, sha256tree, Plain,
         Standard!Super!sha256tree, Standard!Super!Plain
<1>5. Standard!New(args) =
        [parentCoinInfo |-> base.parentCoinInfo,
         puzzleHash |-> Standard!Super!calculatePuzzleHash(puzzle, base.puzzleHash),
         amount |-> base.amount,
         puzzle |-> puzzle,
         solution |-> base.solution,
         syntheticKey |-> Standard!KeyGiven(args)]
  BY DEF Standard!New
<1> HIDE DEF base, puzzle
<1> QED BY <1>1, <1>2, <1>3, <1>4, <1>5 DEF StandardOf

(* Copying a StandardCoin is constructing one of the values given last.    *)
LEMMA StandardCopy ==
    ASSUME NullIsNoFunction, NEW given, NEW args, NEW it,
           given.coin = Null, given.publicKey = Null, it = Standard!New(given)
    PROVE  Standard!CopyWith(it, args) = Standard!New(LastGiven(given, args))
<1> DEFINE g == LastGiven(given, args)
           c == [parentCoinInfo |-> Or(args.parentCoinInfo, it.parentCoinInfo),
                 puzzleHash |-> Or(args.puzzleHash, it.puzzleHash),
                 amount |-> Or(args.amount, it.amount),
                 solution |-> Or(args.solution, it.solution),
                 coin |-> args.coin,
                 publicKey |-> args.publicKey,
                 syntheticKey |-> Or(args.syntheticKey, it.syntheticKey)]
           info == Or(c.coin, c)
           key == KeyOf(c, c.syntheticKey)
           old == StandardPuzzle(given.syntheticKey)
<1>1. Standard!CopyWith(it, args) = Standard!New(c)
  BY DEF Standard!CopyWith, Standard!Or, Or
<1>2. it = StandardOf(given, given.syntheticKey, given.solution)
  BY StandardNew DEF Or, KeyOf
<1>3. /\ it.parentCoinInfo = dehexlify(given.parentCoinInfo) /\ it.amount = given.amount
      /\ it.puzzleHash = HashOf(it.puzzle, dehexlify(given.puzzleHash))
      /\ it.puzzle = old /\ it.solution = given.solution
      /\ it.syntheticKey = given.syntheticKey
  BY <1>2 DEF StandardOf
<1>4. /\ dehexlify(info.parentCoinInfo) = dehexlify(g.parentCoinInfo)
      /\ info.amount = g.amount
      /\ old = Null => dehexlify(info.puzzleHash) = dehexlify(g.puzzleHash)
  <2> HIDE DEF old
  <2>1. /\ c.coin = args.coin /\ c.parentCoinInfo = Or(args.parentCoinInfo, it.parentCoinInfo)
        /\ c.puzzleHash = Or(args.puzzleHash, it.puzzleHash)
        /\ c.amount = Or(args.amount, it.amount)
    OBVIOUS
  <2> HIDE DEF c
  <2> QED BY <1>3, <2>1, CopyPlace
<1>5. /\ g.coin = Null /\ g.publicKey = Null /\ g.syntheticKey = key
      /\ g.solution = c.solution
  <2>1. /\ g.coin = Null /\ g.publicKey = Null /\ g.solution = Or(args.solution, given.solution)
        /\ g.syntheticKey = KeyOf(args, Or(args.syntheticKey, given.syntheticKey))
    BY LastFields DEF Parameters, Ordinary
  <2> HIDE DEF g
  <2> QED BY <1>3, <2>1 DEF KeyOf
<1>6. StandardPuzzle(key) = Null => old = Null
  <2>1. key = Null => given.syntheticKey = Null
    BY <1>3, NullApart DEF Or, KeyOf
  <2> HIDE DEF key
  <2> QED BY <2>1, NullApart DEF standardCoinPuzzle, StandardPuzzle
<1>7. Standard!New(c) = StandardOf(info, key, c.solution)
  <2> HIDE DEF c
  <2> QED BY StandardNew
<1>8. Standard!New(g) = StandardOf(g, key, g.solution)
  <2> HIDE DEF key, g
  <2> QED BY <1>5, StandardNew DEF Or, KeyOf
<1> HIDE DEF c, info, key, old, g
<1> QED BY <1>1, <1>4, <1>5, <1>6, <1>7, <1>8 DEF HashOf, StandardOf, g

(* A first StandardCoin is made of the values given last.                  *)
LEMMA StandardFirst ==
    ASSUME NEW args
    PROVE  Standard!New(args) = Standard!New(LastGiven(NoArgs, args))
<1> DEFINE g == LastGiven(NoArgs, args)
           key == KeyOf(args, args.syntheticKey)
<1>1. /\ g.coin = Null /\ g.parentCoinInfo = Or(args.coin, args).parentCoinInfo
      /\ g.puzzleHash = Or(args.coin, args).puzzleHash
      /\ g.amount = Or(args.coin, args).amount /\ g.solution = args.solution
      /\ g.publicKey = Null /\ g.syntheticKey = key
  BY FirstFields DEF Parameters, Ordinary
<1> HIDE DEF g, key
<1>2. Standard!New(g) = StandardOf(g, key, g.solution)
  BY <1>1, StandardNew DEF Or, KeyOf
<1>3. Standard!New(args) = StandardOf(Or(args.coin, args), key, args.solution)
  BY StandardNew DEF key
<1> QED BY <1>1, <1>2, <1>3 DEF g, StandardOf

-----------------------------------------------------------------------------
(* Singleton: likewise. *)

SinglePuzzle(launcherId, innerPuzzle) ==
    IF launcherId = Null \/ innerPuzzle = Null THEN Null
    ELSE singletonPuzzle(launcherId, innerPuzzle)
SingleSolution(amount, proof, innerSolution) ==
    IF ~Single!HasSolution(amount, proof, innerSolution) THEN Null
    ELSE singletonSolution(Single!lineageProofToSExpForSolution(proof), amount, innerSolution)
SingleOf(info, args) ==
    LET puzzle == SinglePuzzle(dehexlify(args.launcherId), args.innerPuzzle)
        proof == StoredProof(args.lineageProof)
    IN  [parentCoinInfo |-> dehexlify(info.parentCoinInfo),
         puzzleHash |-> HashOf(puzzle, dehexlify(info.puzzleHash)),
         amount |-> info.amount,
         puzzle |-> puzzle,
         solution |-> SingleSolution(info.amount, proof, args.innerSolution),
         launcherId |-> dehexlify(args.launcherId),
         innerPuzzle |-> args.innerPuzzle,
         innerPuzzleHash |-> IF args.innerPuzzle = Null THEN Null
                             ELSE sha256tree(args.innerPuzzle),
         lineageProof |-> proof,
         innerSolution |-> args.innerSolution]

(* new Singleton() of its arguments.                                       *)
LEMMA SingleNew ==
    ASSUME NEW args
    PROVE  Single!New(args) = SingleOf(Or(args.coin, args), args)
<1> DEFINE info == Or(args.coin, args)
           base == Single!Super!New([parentCoinInfo |-> args.parentCoinInfo,
                           puzzleHash |-> args.puzzleHash, amount |-> args.amount,
                           coin |-> args.coin, puzzle |-> Null, solution |-> Null])
           launcherId == Single!dehexlify(args.launcherId)
           proof == Single!StoredProof(args.lineageProof)
           puzzle == IF launcherId = Null \/ args.innerPuzzle = Null THEN Null
                     ELSE Single!singletonPuzzle(launcherId, args.innerPuzzle)
<1>1. base = [parentCoinInfo |-> dehexlify(info.parentCoinInfo),
              puzzleHash |-> dehexlify(info.puzzleHash),
              amount |-> info.amount, puzzle |-> Null, solution |-> Null]
  BY DEF Or, Single!Super!New, Single!Super!Or, dehexlify, Single!Super!dehexlify,
         Single!Super!calculatePuzzleHash
<1>2. launcherId = dehexlify(args.launcherId) /\ proof = StoredProof(args.lineageProof)
  BY DEF dehexlify, Single!dehexlify, StoredProof, Single!StoredProof
<1>3. puzzle = SinglePuzzle(dehexlify(args.launcherId), args.innerPuzzle)
  BY <1>2 DEF SinglePuzzle, singletonPuzzle, Single!singletonPuzzle, curry, Single!curry
<1>4. /\ \A p, h : Single!Super!calculatePuzzleHash(p, h) = HashOf(p, h)
      /\ \A p : Single!sha256tree(p) = sha256tree(p)
      /\ \A a, b, c : Single!singletonSolution(a, b, c) = singletonSolution(a, b, c)
  BY DEF HashOf, Single!Super!calculatePuzzleHash, sha256tree, Plain, Single!Super!sha256tree,
         Single!Super!Plain, Single!sha256tree, Single!Plain,
         singletonSolution, Single!singletonSolution
<1>5. Single!New(args) =
        [parentCoinInfo |-> base.parentCoinInfo,
         puzzleHash |-> Single!Super!calculatePuzzleHash(puzzle, base.puzzleHash),
         amount |-> base.amount,
         puzzle |-> puzzle,
         solution |-> IF ~Single!HasSolution(base.amount, proof, args.innerSolution) THEN Null
                      ELSE Single!singletonSolution(
                               Single!lineageProofToSExpForSolution(proof), base.amount,
                               args.innerSolution),
         launcherId |-> launcherId,
         innerPuzzle |-> args.innerPuzzle,
         innerPuzzleHash |-> IF args.innerPuzzle = Null THEN Null
                             ELSE Single!sha256tree(args.innerPuzzle),
         lineageProof |-> proof,
         innerSolution |-> args.innerSolution]
  BY DEF Single!New
<1> HIDE DEF base, puzzle, launcherId, proof
<1> QED BY <1>1, <1>2, <1>3, <1>4, <1>5 DEF SingleOf, SingleSolution

(* Copying a Singleton is constructing one of the values given last.       *)
LEMMA SingleCopy ==
    ASSUME NullIsNoFunction, NEW given, NEW args, NEW it, given.coin = Null,
           it = Single!New(given)
    PROVE  Single!CopyWith(it, args) = Single!New(LastGiven(given, args))
<1> DEFINE g == LastGiven(given, args)
           c == [parentCoinInfo |-> Or(args.parentCoinInfo, it.parentCoinInfo),
                 puzzleHash |-> Or(args.puzzleHash, it.puzzleHash),
                 amount |-> Or(args.amount, it.amount),
                 coin |-> args.coin,
                 launcherId |-> Or(args.launcherId, it.launcherId),
                 innerPuzzle |-> Or(args.innerPuzzle, it.innerPuzzle),
                 lineageProof |-> Or(args.lineageProof, it.lineageProof),
                 innerSolution |-> Or(args.innerSolution, it.innerSolution)]
           info == Or(c.coin, c)
           old == SinglePuzzle(dehexlify(given.launcherId), given.innerPuzzle)
           puzzle == SinglePuzzle(dehexlify(c.launcherId), c.innerPuzzle)
<1>1. Single!CopyWith(it, args) = Single!New(c)
  BY DEF Single!CopyWith, Single!Or, Or
<1>2. it = SingleOf(given, given)
  BY SingleNew DEF Or
<1>3. /\ it.parentCoinInfo = dehexlify(given.parentCoinInfo) /\ it.amount = given.amount
      /\ it.puzzleHash = HashOf(it.puzzle, dehexlify(given.puzzleHash)) /\ it.puzzle = old
      /\ it.launcherId = dehexlify(given.launcherId) /\ it.innerPuzzle = given.innerPuzzle
      /\ it.lineageProof = StoredProof(given.lineageProof)
      /\ it.innerSolution = given.innerSolution
  BY <1>2 DEF SingleOf
<1>4. /\ dehexlify(info.parentCoinInfo) = dehexlify(g.parentCoinInfo)
      /\ info.amount = g.amount
      /\ old = Null => dehexlify(info.puzzleHash) = dehexlify(g.puzzleHash)
  <2> HIDE DEF old
  <2>1. /\ c.coin = args.coin /\ c.parentCoinInfo = Or(args.parentCoinInfo, it.parentCoinInfo)
        /\ c.puzzleHash = Or(args.puzzleHash, it.puzzleHash)
        /\ c.amount = Or(args.amount, it.amount)
    OBVIOUS
  <2> HIDE DEF c
  <2> QED BY <1>3, <2>1, CopyPlace
<1>5. /\ g.coin = Null
      /\ dehexlify(g.launcherId) = dehexlify(c.launcherId) /\ g.innerPuzzle = c.innerPuzzle
      /\ StoredProof(g.lineageProof) = StoredProof(c.lineageProof)
      /\ g.innerSolution = c.innerSolution
  <2>1. /\ g.coin = Null /\ g.launcherId = Or(args.launcherId, given.launcherId)
        /\ g.innerPuzzle = Or(args.innerPuzzle, given.innerPuzzle)
        /\ g.lineageProof = Or(args.lineageProof, given.lineageProof)
        /\ g.innerSolution = Or(args.innerSolution, given.innerSolution)
    BY LastFields DEF Parameters, Ordinary
  <2> HIDE DEF g
  <2> QED BY <1>3, <2>1, Twice, ProofTwice DEF Or
<1>6. puzzle = Null => old = Null
  BY <1>3, NullApart DEF Or, singletonPuzzle, SinglePuzzle
<1>7. Single!New(c) = SingleOf(info, c)
  <2> HIDE DEF c
  <2> QED BY SingleNew
<1>8. Single!New(g) = SingleOf(g, g)
  <2> HIDE DEF g
  <2> QED BY <1>5, SingleNew DEF Or
<1>9. HashOf(puzzle, dehexlify(info.puzzleHash)) = HashOf(puzzle, dehexlify(g.puzzleHash))
  BY <1>4, <1>6 DEF HashOf
<1>10. SingleOf(info, c) = SingleOf(g, g)
  <2> HIDE DEF c, info, old, g
  <2> QED BY <1>4, <1>5, <1>9 DEF SingleOf
<1> HIDE DEF c, info, puzzle, old, g
<1> QED BY <1>1, <1>7, <1>8, <1>10 DEF g

(* A first Singleton is made of the values given last.                     *)
LEMMA SingleFirst ==
    ASSUME NEW args
    PROVE  Single!New(args) = Single!New(LastGiven(NoArgs, args))
<1> DEFINE g == LastGiven(NoArgs, args)
<1>1. /\ g.coin = Null /\ g.parentCoinInfo = Or(args.coin, args).parentCoinInfo
      /\ g.puzzleHash = Or(args.coin, args).puzzleHash
      /\ g.amount = Or(args.coin, args).amount
      /\ g.launcherId = args.launcherId /\ g.innerPuzzle = args.innerPuzzle
      /\ g.lineageProof = args.lineageProof /\ g.innerSolution = args.innerSolution
  BY FirstFields DEF Parameters, Ordinary
<1> HIDE DEF g
<1>2. Single!New(g) = SingleOf(g, g)
  BY <1>1, SingleNew DEF Or
<1>3. SingleOf(Or(args.coin, args), args) = SingleOf(g, g)
  BY <1>1 DEF SingleOf
<1> QED BY <1>2, <1>3, SingleNew DEF g

-----------------------------------------------------------------------------
(* CAT.  Its constructor does not always make the same coin of the values  *)
(* given last: the TAIL it derives from a solution outlives the solution.  *)
(* The parts of a CAT are what its constructor was called with, each as it *)
(* is stored.                                                              *)

Parts(args) ==
    LET info == Or(args.coin, args)
    IN  [parentCoinInfo |-> dehexlify(info.parentCoinInfo),
         puzzleHash |-> dehexlify(info.puzzleHash),
         amount |-> info.amount,
         syntheticKey |-> KeyOf(args, args.syntheticKey),
         innerSolution |-> args.innerSolution,
         lineageProof |-> StoredProof(args.lineageProof),
         nextCoin |-> NextStored(args.nextCoin),
         prevCoinId |-> dehexlify(args.prevCoinId),
         TAILProgramHash |-> dehexlify(args.TAILProgramHash),
         TAILProgram |-> args.TAILProgram,
         TAILSolution |-> args.TAILSolution,
         prevSubtotal |-> args.prevSubtotal,
         extraDelta |-> args.extraDelta]

(* The attributes, each of the parts it is made of. *)
Derived(p) == Cat!Derives(p.syntheticKey, p.innerSolution)
Program(p) == IF Derived(p) THEN Cat!Revealed(p.innerSolution).TAILProgram ELSE p.TAILProgram
ProgramSolution(p) ==
    IF Derived(p) THEN Cat!Revealed(p.innerSolution).TAILSolution ELSE p.TAILSolution
ProgramHash(p) == IF Derived(p) THEN sha256tree(Program(p)) ELSE p.TAILProgramHash
Stated(p) == IF Program(p) = Null THEN ProgramHash(p) ELSE sha256tree(Program(p))
Builds(p) ==
    Cat!BuildsInnerSolution(p.innerSolution, Program(p), ProgramSolution(p), p.extraDelta)
Inner(p) ==
    IF Builds(p) THEN standardCoinSolution(<< Cat!Reveal(Program(p), ProgramSolution(p)) >>)
    ELSE p.innerSolution
InnerPuzzle(p) == StandardPuzzle(p.syntheticKey)
Puzzle(p) ==
    IF ProgramHash(p) = Null \/ InnerPuzzle(p) = Null THEN Null
    ELSE CATPuzzle(ProgramHash(p), InnerPuzzle(p))
Hash(p) == HashOf(Puzzle(p), p.puzzleHash)
ThisCoin(p) ==
    IF p.parentCoinInfo # Null /\ Hash(p) # Null /\ p.amount # Null
    THEN Coin(p.parentCoinInfo, Hash(p), p.amount) ELSE Null
Solution(p) ==
    IF Inner(p) = Null \/ ThisCoin(p) = Null THEN Null
    ELSE CATSolution(Inner(p), Cat!lineageProofToProgram(p.lineageProof),
                     Or(p.prevCoinId, getId(ThisCoin(p))), ThisCoin(p),
                     Or(p.nextCoin, ThisCoin(p)), Or(p.prevSubtotal, 0), Or(p.extraDelta, 0))

(* A CAT of these parts, with an inner solution and a solution. *)
CatWith(p, inner, solution) ==
    [parentCoinInfo |-> p.parentCoinInfo,
     puzzleHash |-> Hash(p),
     amount |-> p.amount,
     puzzle |-> Puzzle(p),
     solution |-> solution,
     TAILProgramHash |-> Stated(p),
     innerPuzzle |-> InnerPuzzle(p),
     innerPuzzleHash |-> IF InnerPuzzle(p) = Null THEN Null ELSE sha256tree(InnerPuzzle(p)),
     syntheticKey |-> p.syntheticKey,
     innerSolution |-> inner,
     prevCoinId |-> p.prevCoinId,
     nextCoin |-> p.nextCoin,
     prevSubtotal |-> p.prevSubtotal,
     extraDelta |-> p.extraDelta,
     TAILProgram |-> Program(p),
     TAILSolution |-> ProgramSolution(p),
     lineageProof |-> p.lineageProof]
CatOf(p) == CatWith(p, Inner(p), Solution(p))

(* Two attributes are independent of the others.                           *)
LEMMA CatWithOther ==
    ASSUME NEW p
    PROVE  /\ \A i, s, t : [CatWith(p, i, s) EXCEPT !.solution = t] = CatWith(p, i, t)
           /\ \A i, s, j : [CatWith(p, i, s) EXCEPT !.innerSolution = j] = CatWith(p, j, s)
<1>1. \A i, s, t : [CatWith(p, i, s) EXCEPT !.solution = t] = CatWith(p, i, t)
  BY DEF CatWith
<1>2. \A i, s, j : [CatWith(p, i, s) EXCEPT !.innerSolution = j] = CatWith(p, j, s)
  BY DEF CatWith
<1> QED BY <1>1, <1>2

(* Equal CATs have equal attributes, whatever parts they were made of. *)
LEMMA CatSame ==
    ASSUME NEW p, NEW q, CatOf(p) = CatOf(q)
    PROVE  /\ p.parentCoinInfo = q.parentCoinInfo /\ Hash(p) = Hash(q) /\ p.amount = q.amount
           /\ Puzzle(p) = Puzzle(q) /\ Stated(p) = Stated(q) /\ InnerPuzzle(p) = InnerPuzzle(q)
           /\ p.syntheticKey = q.syntheticKey /\ Inner(p) = Inner(q)
           /\ p.prevCoinId = q.prevCoinId /\ p.nextCoin = q.nextCoin
           /\ p.prevSubtotal = q.prevSubtotal /\ p.extraDelta = q.extraDelta
           /\ Program(p) = Program(q) /\ ProgramSolution(p) = ProgramSolution(q)
           /\ p.lineageProof = q.lineageProof
           /\ \A i, s : CatWith(p, i, s) = CatWith(q, i, s)
<1>1. /\ p.parentCoinInfo = q.parentCoinInfo /\ Hash(p) = Hash(q) /\ p.amount = q.amount
      /\ Puzzle(p) = Puzzle(q) /\ Stated(p) = Stated(q) /\ InnerPuzzle(p) = InnerPuzzle(q)
      /\ p.syntheticKey = q.syntheticKey /\ Inner(p) = Inner(q)
  BY DEF CatOf, CatWith
<1>2. /\ p.prevCoinId = q.prevCoinId /\ p.nextCoin = q.nextCoin
      /\ p.prevSubtotal = q.prevSubtotal /\ p.extraDelta = q.extraDelta
      /\ Program(p) = Program(q) /\ ProgramSolution(p) = ProgramSolution(q)
      /\ p.lineageProof = q.lineageProof
  BY DEF CatOf, CatWith
<1>3. \A i, s : CatWith(p, i, s) = CatWith(q, i, s)
  BY <1>1, <1>2 DEF CatWith
<1> QED BY <1>1, <1>2, <1>3

(* The operators that the instance CAT has are those of this module. *)
LEMMA SameTerms ==
    /\ \A a, b : Cat!Or(a, b) = Or(a, b)
    /\ \A s : Cat!dehexlify(s) = dehexlify(s)
    /\ \A s : Cat!sha256tree(s) = sha256tree(s)
    /\ \A k : Cat!calculateSyntheticPublicKey(k) = calculateSyntheticPublicKey(k)
    /\ \A k : Cat!standardCoinPuzzle(k) = standardCoinPuzzle(k)
    /\ \A h, i : Cat!CATPuzzle(h, i) = CATPuzzle(h, i)
    /\ \A c : Cat!standardCoinSolution(c) = standardCoinSolution(c)
    /\ \A p : Cat!StoredProof(p) = StoredProof(p)
    /\ \A a, b, c : Cat!Coin(a, b, c) = Coin(a, b, c)
    /\ \A c : Cat!getId(c) = getId(c)
    /\ \A p, h : Cat!Super!calculatePuzzleHash(p, h) = HashOf(p, h)
    /\ \A a, b, c, d, e, f, g :
          Cat!CATSolution(a, b, c, d, e, f, g) = CATSolution(a, b, c, d, e, f, g)
BY DEF Cat!Or, Or, Cat!dehexlify, dehexlify, Cat!sha256tree, sha256tree, Cat!Plain, Plain,
       Cat!calculateSyntheticPublicKey, calculateSyntheticPublicKey,
       Cat!standardCoinPuzzle, standardCoinPuzzle, Cat!curry, curry, Cat!CATPuzzle, CATPuzzle,
       Cat!standardCoinSolution, standardCoinSolution, Cat!StoredProof, StoredProof,
       Cat!Coin, Coin, Cat!getId, getId, Cat!Super!calculatePuzzleHash, HashOf,
       Cat!Super!sha256tree, Cat!Super!Plain, Cat!CATSolution, CATSolution

(* The constructor makes the CAT of the parts of its arguments. *)
LEMMA CatNew == ASSUME NEW args PROVE Cat!New(args) = CatOf(Parts(args))
<1> DEFINE p == Parts(args)
           base == Cat!Super!New([parentCoinInfo |-> args.parentCoinInfo,
                           puzzleHash |-> args.puzzleHash, amount |-> args.amount,
                           coin |-> args.coin, puzzle |-> Null, solution |-> Null])
           proof == Cat!StoredProof(args.lineageProof)
           nextCoin == IF args.nextCoin = Null THEN Null
                       ELSE Cat!Coin(Cat!dehexlify(args.nextCoin.parentCoinInfo),
                                     Cat!dehexlify(args.nextCoin.puzzleHash),
                                     args.nextCoin.amount)
           prevCoinId == Cat!dehexlify(args.prevCoinId)
           key == Cat!KeyGiven(args)
           innerPuzzle == IF key = Null THEN Null ELSE Cat!standardCoinPuzzle(key)
           derives == Cat!Derives(key, args.innerSolution)
           revealed == Cat!Revealed(args.innerSolution)
           program == IF derives THEN revealed.TAILProgram ELSE args.TAILProgram
           programSolution == IF derives THEN revealed.TAILSolution ELSE args.TAILSolution
           derivedHash == Cat!HashForPuzzle(derives, program, args.TAILProgramHash)
           innerSolution ==
               IF Cat!BuildsInnerSolution(args.innerSolution, program, programSolution,
                                          args.extraDelta)
               THEN Cat!standardCoinSolution(<< Cat!Reveal(program, programSolution) >>)
               ELSE args.innerSolution
           puzzle == IF derivedHash = Null \/ innerPuzzle = Null THEN Null
                     ELSE Cat!CATPuzzle(derivedHash, innerPuzzle)
           puzzleHash == Cat!Super!calculatePuzzleHash(puzzle, base.puzzleHash)
           thisCoin == Cat!ItsCoin(base, puzzleHash)
           solution == IF innerSolution = Null \/ thisCoin = Null THEN Null
                       ELSE Cat!CATSolution(innerSolution, Cat!lineageProofToProgram(proof),
                                            Cat!Or(prevCoinId, Cat!getId(thisCoin)), thisCoin,
                                            Cat!Or(nextCoin, thisCoin),
                                            Cat!Or(args.prevSubtotal, 0),
                                            Cat!Or(args.extraDelta, 0))
<1>1. Cat!New(args) =
        [parentCoinInfo |-> base.parentCoinInfo,
         puzzleHash |-> puzzleHash,
         amount |-> base.amount,
         puzzle |-> puzzle,
         solution |-> solution,
         TAILProgramHash |-> IF program = Null THEN derivedHash ELSE Cat!sha256tree(program),
         innerPuzzle |-> innerPuzzle,
         innerPuzzleHash |-> IF innerPuzzle = Null THEN Null ELSE Cat!sha256tree(innerPuzzle),
         syntheticKey |-> key,
         innerSolution |-> innerSolution,
         prevCoinId |-> prevCoinId,
         nextCoin |-> nextCoin,
         prevSubtotal |-> args.prevSubtotal,
         extraDelta |-> args.extraDelta,
         TAILProgram |-> program,
         TAILSolution |-> programSolution,
         lineageProof |-> proof]
  BY DEF Cat!New
<1>2. base = [parentCoinInfo |-> p.parentCoinInfo, puzzleHash |-> p.puzzleHash,
              amount |-> p.amount, puzzle |-> Null, solution |-> Null]
  BY DEF Parts, Or, Cat!Super!New, Cat!Super!Or, dehexlify, Cat!Super!dehexlify,
         Cat!Super!calculatePuzzleHash
<1>3. proof = p.lineageProof /\ nextCoin = p.nextCoin /\ prevCoinId = p.prevCoinId
  BY SameTerms DEF Parts, NextStored
<1>4. key = p.syntheticKey /\ innerPuzzle = InnerPuzzle(p) /\ derives = Derived(p)
  BY SameTerms DEF Parts, InnerPuzzle, StandardPuzzle, Derived, KeyOf, Cat!KeyGiven
<1>5. program = Program(p) /\ programSolution = ProgramSolution(p)
  BY <1>4 DEF Parts, Program, ProgramSolution
<1>6. derivedHash = ProgramHash(p)
  BY <1>4, <1>5, SameTerms DEF Parts, ProgramHash, Cat!HashForPuzzle
<1>7. innerSolution = Inner(p)
  BY <1>5, SameTerms DEF Parts, Inner, Builds
<1> HIDE DEF base, key, innerPuzzle, derives, program, programSolution, proof, nextCoin,
             prevCoinId, innerSolution
<1>8. puzzle = Puzzle(p)
  BY <1>4, <1>6, SameTerms DEF Puzzle
<1> HIDE DEF derivedHash, puzzle
<1>9. puzzleHash = Hash(p)
  BY <1>2, <1>8, SameTerms DEF Hash
<1> HIDE DEF puzzleHash
<1>10. thisCoin = ThisCoin(p)
  BY <1>2, <1>9, SameTerms
     DEF ThisCoin, Cat!ItsCoin, Cat!Super!toCoin, Cat!Super!hasCoinInfo, Cat!Super!Coin, Coin
<1> HIDE DEF thisCoin
<1>11. p.prevSubtotal = args.prevSubtotal /\ p.extraDelta = args.extraDelta
  BY DEF Parts
<1>12. solution = Solution(p)
  BY <1>3, <1>7, <1>10, <1>11, SameTerms DEF Solution
<1> HIDE DEF solution, p
<1> QED BY <1>1, <1>2, <1>3, <1>4, <1>5, <1>6, <1>7, <1>8, <1>9, <1>11, <1>12, SameTerms
        DEF CatOf, CatWith, Stated, p

(* Parts that are stored already. *)
Normal(p) ==
    /\ dehexlify(p.parentCoinInfo) = p.parentCoinInfo
    /\ dehexlify(p.puzzleHash) = p.puzzleHash
    /\ StoredProof(p.lineageProof) = p.lineageProof
    /\ NextStored(p.nextCoin) = p.nextCoin
    /\ dehexlify(p.prevCoinId) = p.prevCoinId
    /\ dehexlify(p.TAILProgramHash) = p.TAILProgramHash

(* The parts of any arguments are as they are stored.                      *)
LEMMA PartsNormal == ASSUME NEW args PROVE Normal(Parts(args))
BY Twice, ProofTwice, NextTwice DEF Normal, Parts

(* The parts that a call gives are those of its arguments for a first one. *)
LEMMA CatFirst == ASSUME NEW args PROVE Parts(args) = Parts(LastGiven(NoArgs, args))
<1> DEFINE g == LastGiven(NoArgs, args)
<1>1. /\ g.coin = Null /\ g.publicKey = Null
      /\ g.parentCoinInfo = Or(args.coin, args).parentCoinInfo
      /\ g.puzzleHash = Or(args.coin, args).puzzleHash
      /\ g.amount = Or(args.coin, args).amount
      /\ g.syntheticKey = KeyOf(args, args.syntheticKey)
  BY FirstFields
<1>2. /\ g.innerSolution = args.innerSolution /\ g.lineageProof = args.lineageProof
      /\ g.nextCoin = args.nextCoin /\ g.prevCoinId = args.prevCoinId
      /\ g.TAILProgramHash = args.TAILProgramHash /\ g.TAILProgram = args.TAILProgram
      /\ g.TAILSolution = args.TAILSolution /\ g.prevSubtotal = args.prevSubtotal
      /\ g.extraDelta = args.extraDelta
  BY FirstFields DEF Parameters, Ordinary
<1> HIDE DEF g
<1>3. Or(g.coin, g) = g /\ KeyOf(g, g.syntheticKey) = g.syntheticKey
  BY <1>1 DEF Or, KeyOf
<1> QED BY <1>1, <1>2, <1>3 DEF Parts, g

(* The parts of a copy, of those of the CAT. *)
CopiedParts(p, args) ==
    [parentCoinInfo |-> IF args.coin # Null THEN dehexlify(args.coin.parentCoinInfo)
                        ELSE dehexlify(Or(args.parentCoinInfo, p.parentCoinInfo)),
     puzzleHash |-> IF args.coin # Null THEN dehexlify(args.coin.puzzleHash)
                    ELSE dehexlify(Or(args.puzzleHash, Hash(p))),
     amount |-> IF args.coin # Null THEN args.coin.amount ELSE Or(args.amount, p.amount),
     syntheticKey |-> KeyOf(args, Or(args.syntheticKey, p.syntheticKey)),
     innerSolution |-> Or(args.innerSolution, Inner(p)),
     lineageProof |-> StoredProof(Or(args.lineageProof, p.lineageProof)),
     nextCoin |-> NextStored(Or(args.nextCoin, p.nextCoin)),
     prevCoinId |-> dehexlify(Or(args.prevCoinId, p.prevCoinId)),
     TAILProgramHash |-> dehexlify(Or(args.TAILProgramHash, Stated(p))),
     TAILProgram |-> Or(args.TAILProgram, Program(p)),
     TAILSolution |-> Or(args.TAILSolution, ProgramSolution(p)),
     prevSubtotal |-> Or(args.prevSubtotal, p.prevSubtotal),
     extraDelta |-> Or(args.extraDelta, p.extraDelta)]

(* copyWith calls the constructor with the parts of the copy.              *)
LEMMA CopyParts ==
    ASSUME NEW p, NEW solution, NEW it, it = CatWith(p, Inner(p), solution), NEW args
    PROVE  Parts(Cat!CopyArgs(it, args)) = CopiedParts(p, args)
<1> DEFINE c == Cat!CopyArgs(it, args)
           Fields == {"parentCoinInfo", "puzzleHash", "amount", "syntheticKey", "innerSolution",
                      "lineageProof", "nextCoin", "prevCoinId", "TAILProgramHash", "TAILProgram",
                      "TAILSolution", "prevSubtotal", "extraDelta"}
<1>1. /\ c.coin = args.coin /\ c.publicKey = args.publicKey
      /\ \A f \in Fields : c[f] = Or(args[f], CatWith(p, Inner(p), solution)[f])
  <2>1. \A f \in Fields : f \in DOMAIN it
    BY DEF CatWith
  <2> QED BY <2>1, SameTerms DEF Cat!CopyArgs, Cat!Parameters
<1>2. /\ c.parentCoinInfo = Or(args.parentCoinInfo, p.parentCoinInfo)
      /\ c.puzzleHash = Or(args.puzzleHash, Hash(p))
      /\ c.amount = Or(args.amount, p.amount)
      /\ c.syntheticKey = Or(args.syntheticKey, p.syntheticKey)
      /\ c.innerSolution = Or(args.innerSolution, Inner(p))
  BY <1>1 DEF CatWith
<1>3. /\ c.lineageProof = Or(args.lineageProof, p.lineageProof)
      /\ c.nextCoin = Or(args.nextCoin, p.nextCoin)
      /\ c.prevCoinId = Or(args.prevCoinId, p.prevCoinId)
      /\ c.prevSubtotal = Or(args.prevSubtotal, p.prevSubtotal)
      /\ c.extraDelta = Or(args.extraDelta, p.extraDelta)
  BY <1>1 DEF CatWith
<1>4. /\ c.TAILProgramHash = Or(args.TAILProgramHash, Stated(p))
      /\ c.TAILProgram = Or(args.TAILProgram, Program(p))
      /\ c.TAILSolution = Or(args.TAILSolution, ProgramSolution(p))
  BY <1>1 DEF CatWith
<1>5. Or(c.coin, c) = IF args.coin # Null THEN args.coin ELSE c
  BY <1>1 DEF Or
<1> HIDE DEF c
<1>6. KeyOf(c, c.syntheticKey) = KeyOf(args, Or(args.syntheticKey, p.syntheticKey))
  BY <1>1, <1>2 DEF KeyOf
<1>7. c = Cat!CopyArgs(it, args)
  BY DEF c
<1> QED BY <1>2, <1>3, <1>4, <1>5, <1>6, <1>7 DEF Parts, CopiedParts

(* Those of a copy without arguments. *)
Taken(p) ==
    [parentCoinInfo |-> p.parentCoinInfo,
     puzzleHash |-> Hash(p),
     amount |-> p.amount,
     syntheticKey |-> p.syntheticKey,
     innerSolution |-> Inner(p),
     lineageProof |-> p.lineageProof,
     nextCoin |-> p.nextCoin,
     prevCoinId |-> p.prevCoinId,
     TAILProgramHash |-> Stated(p),
     TAILProgram |-> Program(p),
     TAILSolution |-> ProgramSolution(p),
     prevSubtotal |-> p.prevSubtotal,
     extraDelta |-> p.extraDelta]

(* A copy that gives nothing has the parts that it takes over.             *)
LEMMA TakenParts ==
    ASSUME NEW p, Normal(p), NEW solution, NEW it, it = CatWith(p, Inner(p), solution)
    PROVE  /\ Parts(Cat!CopyArgs(it, NoArgs)) = Taken(p)
           /\ Cat!New(Cat!CopyArgs(it, NoArgs)) = CatOf(Taken(p))
<1>1. \A f \in Parameters : NoArgs[f] = Null
  BY DEF NoArgs
<1>2. /\ NoArgs.coin = Null /\ NoArgs.publicKey = Null /\ NoArgs.parentCoinInfo = Null
      /\ NoArgs.puzzleHash = Null /\ NoArgs.amount = Null /\ NoArgs.syntheticKey = Null
      /\ NoArgs.innerSolution = Null /\ NoArgs.lineageProof = Null /\ NoArgs.nextCoin = Null
      /\ NoArgs.prevCoinId = Null /\ NoArgs.TAILProgramHash = Null
      /\ NoArgs.TAILProgram = Null /\ NoArgs.TAILSolution = Null
      /\ NoArgs.prevSubtotal = Null /\ NoArgs.extraDelta = Null
  BY <1>1 DEF Parameters
<1>3. \A b : Or(Null, b) = b /\ KeyOf(NoArgs, b) = b
  BY <1>2 DEF Or, KeyOf
<1>4. dehexlify(Hash(p)) = Hash(p)
  BY Twice DEF Normal, Hash, HashOf, sha256tree
<1>5. dehexlify(Stated(p)) = Stated(p)
  BY Twice DEF Normal, Stated, ProgramHash, sha256tree
<1>6. CopiedParts(p, NoArgs) = Taken(p)
  BY <1>2, <1>3, <1>4, <1>5 DEF CopiedParts, Taken, Normal
<1> QED BY <1>6, CopyParts, CatNew

(* A copy of the copy is the copy: it derives nothing new. *)
LEMMA TakenTwice ==
    ASSUME NullIsNoFunction, NEW p
    PROVE  CatOf(Taken(Taken(p))) = CatOf(Taken(p))
<1> DEFINE t == Taken(p)
           u == Taken(t)
<1>1. /\ t.innerSolution = Inner(p) /\ t.TAILProgramHash = Stated(p)
      /\ t.TAILProgram = Program(p) /\ t.TAILSolution = ProgramSolution(p)
      /\ t.extraDelta = p.extraDelta
  BY DEF Taken
<1>2. /\ u.parentCoinInfo = t.parentCoinInfo /\ u.puzzleHash = Hash(t) /\ u.amount = t.amount
      /\ u.syntheticKey = t.syntheticKey /\ u.innerSolution = Inner(t)
      /\ u.lineageProof = t.lineageProof /\ u.nextCoin = t.nextCoin
      /\ u.prevCoinId = t.prevCoinId
      /\ u.TAILProgramHash = Stated(t) /\ u.TAILProgram = Program(t)
      /\ u.TAILSolution = ProgramSolution(t) /\ u.prevSubtotal = t.prevSubtotal
      /\ u.extraDelta = t.extraDelta
  BY DEF Taken
<1> HIDE DEF t, u
<1>3. ~Builds(t)
  <2> SUFFICES ASSUME Builds(t) PROVE FALSE
    OBVIOUS
  <2>1. t.innerSolution = Null /\ Inner(p) = Null
    BY <1>1 DEF Builds, Cat!BuildsInnerSolution
  <2>2. ~Builds(p) /\ p.innerSolution = Null
    BY <2>1, NullApart DEF Inner
  <2>3. ~Derived(t)
    BY <2>1 DEF Derived, Cat!Derives
  <2>4. Program(t) = Program(p) /\ ProgramSolution(t) = ProgramSolution(p)
    BY <1>1, <2>3 DEF Program, ProgramSolution
  <2> QED BY <1>1, <2>1, <2>2, <2>4 DEF Builds
<1>4. u.innerSolution = t.innerSolution /\ Inner(t) = t.innerSolution
  BY <1>2, <1>3 DEF Inner
<1>5. /\ Derived(u) = Derived(t) /\ Program(u) = Program(t)
      /\ ProgramSolution(u) = ProgramSolution(t)
  BY <1>2, <1>4 DEF Derived, Program, ProgramSolution
<1>6. ProgramHash(u) = ProgramHash(t) /\ Stated(u) = Stated(t)
  <2>1. CASE Derived(t)
    BY <1>5, <2>1 DEF ProgramHash, Stated
  <2>2. CASE ~Derived(t)
    <3>1. Program(t) = Program(p) /\ ProgramHash(t) = Stated(p)
      BY <1>1, <2>2 DEF Program, ProgramHash
    <3>2. ProgramHash(u) = Stated(t) /\ Stated(t) = Stated(p)
      BY <1>2, <1>5, <2>2, <3>1 DEF ProgramHash, Stated
    <3> QED BY <1>5, <3>1, <3>2 DEF Stated
  <2> QED BY <2>1, <2>2
<1>7. ~Builds(u) /\ Inner(u) = Inner(t)
  BY <1>2, <1>3, <1>4, <1>5 DEF Builds, Inner
<1>8. InnerPuzzle(u) = InnerPuzzle(t) /\ Puzzle(u) = Puzzle(t) /\ Hash(u) = Hash(t)
  BY <1>2, <1>6 DEF InnerPuzzle, Puzzle, Hash, HashOf
<1>9. ThisCoin(u) = ThisCoin(t)
  BY <1>2, <1>8 DEF ThisCoin
<1>10. Solution(u) = Solution(t)
  BY <1>2, <1>7, <1>9 DEF Solution
<1> QED BY <1>2, <1>5, <1>6, <1>7, <1>8, <1>10 DEF CatOf, CatWith, t, u

(* The puzzle hash given counts only where there is no puzzle. *)
LEMMA HashHidden ==
    ASSUME NEW p, NEW q, Puzzle(p) # Null \/ q.puzzleHash = p.puzzleHash,
           q.parentCoinInfo = p.parentCoinInfo, q.amount = p.amount,
           q.syntheticKey = p.syntheticKey, q.innerSolution = p.innerSolution,
           q.lineageProof = p.lineageProof, q.nextCoin = p.nextCoin,
           q.prevCoinId = p.prevCoinId, q.TAILProgramHash = p.TAILProgramHash,
           q.TAILProgram = p.TAILProgram, q.TAILSolution = p.TAILSolution,
           q.prevSubtotal = p.prevSubtotal, q.extraDelta = p.extraDelta
    PROVE  CatOf(q) = CatOf(p)
<1>1. /\ Derived(q) = Derived(p) /\ Program(q) = Program(p)
      /\ ProgramSolution(q) = ProgramSolution(p) /\ ProgramHash(q) = ProgramHash(p)
      /\ Stated(q) = Stated(p)
  BY DEF Derived, Program, ProgramSolution, ProgramHash, Stated
<1>2. Inner(q) = Inner(p) /\ InnerPuzzle(q) = InnerPuzzle(p)
  BY <1>1 DEF Inner, Builds, InnerPuzzle
<1>3. Puzzle(q) = Puzzle(p) /\ Hash(q) = Hash(p)
  BY <1>1, <1>2 DEF Puzzle, Hash, HashOf
<1>4. ThisCoin(q) = ThisCoin(p) /\ Solution(q) = Solution(p)
  BY <1>2, <1>3 DEF ThisCoin, Solution
<1> QED BY <1>1, <1>2, <1>3, <1>4 DEF CatOf, CatWith

(* A CAT that derives its TAIL has the puzzle of that TAIL. *)
LEMMA DerivedPuzzle ==
    ASSUME NullIsNoFunction, NEW p, Derived(p)
    PROVE  /\ Puzzle(p) = CATPuzzle(sha256tree(Cat!Revealed(Inner(p)).TAILProgram),
                                    InnerPuzzle(p))
           /\ Inner(p) = p.innerSolution
<1>1. p.syntheticKey # Null /\ p.innerSolution # Null
  BY DEF Derived, Cat!Derives
<1>2. Inner(p) = p.innerSolution
  BY <1>1 DEF Inner, Builds, Cat!BuildsInnerSolution
<1>3. InnerPuzzle(p) # Null
  BY <1>1, NullApart DEF InnerPuzzle, StandardPuzzle, standardCoinPuzzle
<1>4. ProgramHash(p) = sha256tree(Cat!Revealed(p.innerSolution).TAILProgram)
  BY DEF ProgramHash, Program
<1>5. ProgramHash(p) # Null
  BY <1>4, NullApart DEF sha256tree
<1> QED BY <1>2, <1>3, <1>4, <1>5 DEF Puzzle

-----------------------------------------------------------------------------
(* The CATs that chains of calls make.  The conditions the application     *)
(* gives are those it can write: one that reveals a TAIL has a program.    *)

Proper(solution) == solution \notin {Null, Opaque} => RevealPrograms(solution.conditions)

(* Conditions added to others reveal programs if both do.                  *)
LEMMA ProperJoin ==
    ASSUME NEW a, NEW b, RevealPrograms(a), RevealPrograms(b)
    PROVE  RevealPrograms(a \o b)
<1> DEFINE A == {a[i] : i \in 1..Len(a)}
           B == {b[i] : i \in 1..Len(b)}
<1>1. a \in Seq(A) /\ b \in Seq(B)
  BY DEF RevealPrograms
<1> HIDE DEF A, B
<1>2. a \in Seq(A \cup B) /\ b \in Seq(A \cup B)
  BY <1>1
<1>3. /\ a \o b \in Seq(A \cup B) /\ Len(a \o b) = Len(a) + Len(b)
      /\ Len(a) \in Nat /\ Len(b) \in Nat
      /\ \A i \in 1..Len(a) : (a \o b)[i] = a[i]
      /\ \A i \in 1..Len(b) : (a \o b)[Len(a) + i] = b[i]
  BY <1>2
<1>4. ASSUME NEW s \in Seq(A \cup B) PROVE s \in Seq({s[i] : i \in 1..Len(s)})
  <2> DEFINE S == {s[i] : i \in 1..Len(s)}
  <2>1. s = [i \in 1..Len(s) |-> s[i]] /\ Len(s) \in Nat
    OBVIOUS
  <2>2. s \in [1..Len(s) -> S]
    BY <2>1
  <2> QED BY <2>1, <2>2
<1>5. ASSUME NEW i \in 1..Len(a \o b), Cat!IsReveal((a \o b)[i])
      PROVE  (a \o b)[i].TAILProgram # Null
  <2>1. CASE i <= Len(a)
    BY <1>3, <1>5, <2>1 DEF RevealPrograms
  <2>2. CASE i > Len(a)
    <3>1. (i - Len(a)) \in 1..Len(b) /\ (a \o b)[i] = b[i - Len(a)]
      BY <1>3, <2>2
    <3> QED BY <1>5, <3>1 DEF RevealPrograms
  <2> QED BY <1>3, <2>1, <2>2
<1> QED BY <1>3, <1>4, <1>5 DEF RevealPrograms

(* A TAIL that is derived is a program. *)
LEMMA ProgramRevealed ==
    ASSUME NEW p, Derived(p), Proper(p.innerSolution)
    PROVE  Program(p) # Null
<1> DEFINE s == p.innerSolution
<1>1. s # Null /\ s # Opaque /\ Cat!Reveals(s) # {}
  BY DEF Derived, Cat!Derives
<1>2. RevealPrograms(s.conditions)
  BY <1>1 DEF Proper
<1>3. PICK i \in Cat!Reveals(s) : i = CHOOSE k \in Cat!Reveals(s) : TRUE
  BY <1>1
<1>4. i \in 1..Len(s.conditions) /\ Cat!IsReveal(s.conditions[i])
  BY DEF Cat!Reveals
<1>5. s.conditions[i].TAILProgram # Null
  BY <1>2, <1>4 DEF RevealPrograms
<1> QED BY <1>3, <1>5 DEF Program, Cat!Revealed

(* The inner solution that a constructor makes reveals a program.          *)
LEMMA ProperInner ==
    ASSUME NEW p, Proper(p.innerSolution)
    PROVE  Proper(Inner(p))
<1>1. CASE Builds(p)
  <2> DEFINE c == Cat!Reveal(Program(p), ProgramSolution(p))
  <2>1. Program(p) # Null /\ c.TAILProgram = Program(p)
    BY <1>1 DEF Builds, Cat!BuildsInnerSolution, Cat!Reveal
  <2>2. Inner(p) = standardCoinSolution(<<c>>)
    BY <1>1 DEF Inner
  <2> HIDE DEF c
  <2>3. RevealPrograms(<<c>>)
    BY <2>1 DEF RevealPrograms
  <2> QED BY <2>2, <2>3 DEF Proper, standardCoinSolution
<1>2. CASE ~Builds(p)
  BY <1>2 DEF Inner
<1> QED BY <1>1, <1>2

(* The object o is a CAT of parts p, unless adding conditions has given it *)
(* an inner solution since: it has no solution then.  What it was given    *)
(* for its solution is in the parts, and they make the CAT that the values *)
(* given last make, as long as no TAIL was derived.                        *)
MadeOf(o, p) ==
    /\ Normal(p)
    /\ o.it = CatWith(p, Inner(p), IF o.touched THEN Null ELSE Solution(p))
    /\ Proper(p.innerSolution)
    /\ o.given.innerSolution # Null => p.innerSolution = o.given.innerSolution
    /\ o.given.prevCoinId = Null => p.prevCoinId = Null
    /\ o.given.nextCoin = Null => p.nextCoin = Null
    /\ Program(p) = Null => CatOf(p) = CatOf(Parts(o.given))

(* A CAT that was constructed is made of the parts of its arguments.       *)
LEMMA CatConstructed ==
    ASSUME NEW args, Proper(args.innerSolution),
           NEW o, o = Object("CAT", Cat!New(args), LastGiven(NoArgs, args))
    PROVE  MadeOf(o, Parts(args))
<1> DEFINE g == LastGiven(NoArgs, args)
           p == Parts(args)
<1>1. o.it = Cat!New(args) /\ o.given = g /\ o.touched = FALSE
  BY DEF Object
<1>2. Normal(p) /\ o.it = CatOf(p) /\ CatOf(p) = CatOf(Parts(g))
  BY <1>1, CatNew, PartsNormal, CatFirst
<1>3. /\ p.innerSolution = args.innerSolution /\ g.innerSolution = args.innerSolution
      /\ g.prevCoinId = args.prevCoinId /\ g.nextCoin = args.nextCoin
  BY FirstFields DEF Parts, Parameters, Ordinary
<1>4. /\ args.prevCoinId = Null => p.prevCoinId = Null
      /\ args.nextCoin = Null => p.nextCoin = Null
  BY DEF Parts, dehexlify, NextStored
<1> HIDE DEF p, g
<1> QED BY <1>1, <1>2, <1>3, <1>4 DEF MadeOf, CatOf, p

(* A copy of a CAT made of the values given last is made of the values     *)
(* given last, as long as neither derives a TAIL.                          *)
LEMMA CopyOfPlain ==
    ASSUME NullIsNoFunction, NEW p, NEW q, NEW args, NEW given, NEW g,
           given.coin = Null, given.publicKey = Null, g = LastGiven(given, args),
           q = CopiedParts(p, args), Program(p) = Null, p.TAILProgram = Null, ~Derived(p),
           args.TAILProgram = Null, ~Derived(q), CatOf(p) = CatOf(Parts(given))
    PROVE  CatOf(q) = CatOf(Parts(g))
<1> DEFINE h == Parts(given)
           w == Parts(g)
<1>1. /\ g.coin = Null /\ g.publicKey = Null
      /\ g.parentCoinInfo = IF args.coin # Null THEN args.coin.parentCoinInfo
                            ELSE Or(args.parentCoinInfo, given.parentCoinInfo)
      /\ g.puzzleHash = IF args.coin # Null THEN args.coin.puzzleHash
                        ELSE Or(args.puzzleHash, given.puzzleHash)
      /\ g.amount = IF args.coin # Null THEN args.coin.amount ELSE Or(args.amount, given.amount)
      /\ g.syntheticKey = KeyOf(args, Or(args.syntheticKey, given.syntheticKey))
  BY LastFields
<1>2. /\ g.innerSolution = Or(args.innerSolution, given.innerSolution)
      /\ g.lineageProof = Or(args.lineageProof, given.lineageProof)
      /\ g.nextCoin = Or(args.nextCoin, given.nextCoin)
      /\ g.prevCoinId = Or(args.prevCoinId, given.prevCoinId)
      /\ g.TAILProgramHash = Or(args.TAILProgramHash, given.TAILProgramHash)
      /\ g.TAILProgram = Or(args.TAILProgram, given.TAILProgram)
      /\ g.TAILSolution = Or(args.TAILSolution, given.TAILSolution)
      /\ g.prevSubtotal = Or(args.prevSubtotal, given.prevSubtotal)
      /\ g.extraDelta = Or(args.extraDelta, given.extraDelta)
  BY LastFields DEF Parameters, Ordinary
<1>3. ASSUME NEW x, x.coin = Null, x.publicKey = Null
      PROVE  Or(x.coin, x) = x /\ KeyOf(x, x.syntheticKey) = x.syntheticKey
  BY <1>3 DEF Or, KeyOf
<1>4. /\ h.parentCoinInfo = dehexlify(given.parentCoinInfo)
      /\ h.puzzleHash = dehexlify(given.puzzleHash) /\ h.amount = given.amount
      /\ h.syntheticKey = given.syntheticKey /\ h.innerSolution = given.innerSolution
      /\ h.lineageProof = StoredProof(given.lineageProof)
      /\ h.nextCoin = NextStored(given.nextCoin) /\ h.prevCoinId = dehexlify(given.prevCoinId)
      /\ h.TAILProgramHash = dehexlify(given.TAILProgramHash)
      /\ h.TAILSolution = given.TAILSolution /\ h.TAILProgram = given.TAILProgram
      /\ h.prevSubtotal = given.prevSubtotal /\ h.extraDelta = given.extraDelta
  BY <1>3 DEF Parts
<1>5. /\ w.parentCoinInfo = dehexlify(g.parentCoinInfo)
      /\ w.puzzleHash = dehexlify(g.puzzleHash) /\ w.amount = g.amount
      /\ w.syntheticKey = g.syntheticKey /\ w.innerSolution = g.innerSolution
      /\ w.lineageProof = StoredProof(g.lineageProof)
      /\ w.nextCoin = NextStored(g.nextCoin) /\ w.prevCoinId = dehexlify(g.prevCoinId)
      /\ w.TAILProgramHash = dehexlify(g.TAILProgramHash)
      /\ w.TAILSolution = g.TAILSolution /\ w.TAILProgram = g.TAILProgram
      /\ w.prevSubtotal = g.prevSubtotal /\ w.extraDelta = g.extraDelta
  BY <1>1, <1>3 DEF Parts
<1> HIDE DEF h, w
<1>6. /\ p.parentCoinInfo = h.parentCoinInfo /\ Hash(p) = Hash(h) /\ p.amount = h.amount
      /\ p.syntheticKey = h.syntheticKey /\ Inner(p) = Inner(h)
      /\ p.lineageProof = h.lineageProof /\ p.nextCoin = h.nextCoin
      /\ p.prevCoinId = h.prevCoinId /\ Program(h) = Program(p) /\ Stated(h) = Stated(p)
      /\ ProgramSolution(h) = ProgramSolution(p)
      /\ p.prevSubtotal = h.prevSubtotal /\ p.extraDelta = h.extraDelta
  BY CatSame DEF h
(* h derives no TAIL either: it has the key and the inner solution of p. *)
<1>7. ~Derived(h) /\ Inner(h) = h.innerSolution /\ h.TAILProgram = Null
  <2>1. Inner(h) = h.innerSolution
    BY <1>6 DEF Inner, Builds, Cat!BuildsInnerSolution
  <2>2. Inner(p) = p.innerSolution
    BY DEF Inner, Builds, Cat!BuildsInnerSolution
  <2>3. ~Derived(h)
    BY <1>6, <2>1, <2>2 DEF Derived
  <2> QED BY <1>6, <2>1, <2>3 DEF Program
<1>8. /\ Stated(h) = h.TAILProgramHash /\ ProgramHash(h) = h.TAILProgramHash
      /\ ProgramSolution(h) = h.TAILSolution
  BY <1>6, <1>7 DEF Stated, ProgramHash, ProgramSolution
<1>9. q.parentCoinInfo = w.parentCoinInfo /\ q.amount = w.amount
  BY <1>1, <1>4, <1>5, <1>6, Twice DEF CopiedParts, Or
<1>10. q.lineageProof = w.lineageProof
  <2>1. q.lineageProof = StoredProof(Or(args.lineageProof, p.lineageProof))
    BY DEF CopiedParts
  <2> QED BY <1>2, <1>4, <1>5, <1>6, <2>1, ProofTwice DEF Or
<1>11. q.nextCoin = w.nextCoin
  <2>1. q.nextCoin = NextStored(Or(args.nextCoin, p.nextCoin))
    BY DEF CopiedParts
  <2> QED BY <1>2, <1>4, <1>5, <1>6, <2>1, NextTwice DEF Or
<1>12. q.prevCoinId = w.prevCoinId
  <2>1. q.prevCoinId = dehexlify(Or(args.prevCoinId, p.prevCoinId))
    BY DEF CopiedParts
  <2> QED BY <1>2, <1>4, <1>5, <1>6, <2>1, Twice DEF Or
<1>13. q.TAILProgramHash = w.TAILProgramHash
  <2>1. q.TAILProgramHash = dehexlify(Or(args.TAILProgramHash, Stated(p)))
    BY DEF CopiedParts
  <2>2. Stated(p) = dehexlify(given.TAILProgramHash)
    BY <1>4, <1>6, <1>8
  <2>3. w.TAILProgramHash = dehexlify(Or(args.TAILProgramHash, given.TAILProgramHash))
    BY <1>2, <1>5
  <2> QED BY <2>1, <2>2, <2>3, Twice DEF Or
<1>14. q.syntheticKey = w.syntheticKey
  BY <1>1, <1>4, <1>5, <1>6 DEF CopiedParts
<1>15. q.innerSolution = w.innerSolution
  BY <1>2, <1>4, <1>5, <1>6, <1>7 DEF CopiedParts
<1>16. q.TAILProgram = w.TAILProgram
  BY <1>2, <1>4, <1>5, <1>6, <1>7 DEF CopiedParts
<1>17. q.TAILSolution = w.TAILSolution
  BY <1>2, <1>4, <1>5, <1>6, <1>8 DEF CopiedParts
<1>18. q.prevSubtotal = w.prevSubtotal /\ q.extraDelta = w.extraDelta
  BY <1>2, <1>4, <1>5, <1>6 DEF CopiedParts
(* A CAT that had a puzzle has one still, which hides the hash given. *)
<1>19. Puzzle(q) # Null \/ q.puzzleHash = w.puzzleHash
  <2>1. CASE Puzzle(h) = Null
    <3>1. Hash(p) = dehexlify(given.puzzleHash)
      BY <1>4, <1>6, <2>1 DEF Hash, HashOf
    <3>2. q.puzzleHash = IF args.coin # Null THEN dehexlify(args.coin.puzzleHash)
                         ELSE dehexlify(Or(args.puzzleHash, Hash(p)))
      BY DEF CopiedParts
    <3> QED BY <1>1, <1>5, <3>1, <3>2, Twice DEF Or
  <2>2. CASE Puzzle(h) # Null
    <3>1. h.TAILProgramHash # Null /\ h.syntheticKey # Null
      BY <1>8, <2>2 DEF Puzzle, InnerPuzzle, StandardPuzzle
    <3>2. /\ q.TAILProgramHash = dehexlify(Or(args.TAILProgramHash, Stated(p)))
          /\ q.syntheticKey = KeyOf(args, Or(args.syntheticKey, p.syntheticKey))
      BY DEF CopiedParts
    <3>3. q.TAILProgramHash # Null
      BY <1>6, <1>8, <3>1, <3>2, NullApart DEF Or
    <3>4. q.syntheticKey # Null
      BY <1>6, <3>1, <3>2, NullApart DEF Or, KeyOf
    <3>5. ProgramHash(q) # Null
      BY <3>3 DEF ProgramHash
    <3>6. InnerPuzzle(q) # Null
      BY <3>4, NullApart DEF InnerPuzzle, StandardPuzzle, standardCoinPuzzle
    <3> QED BY <3>5, <3>6, NullApart DEF Puzzle, CATPuzzle
  <2> QED BY <2>1, <2>2
<1> QED BY <1>9, <1>10, <1>11, <1>12, <1>13, <1>14, <1>15, <1>16, <1>17, <1>18, <1>19,
           HashHidden DEF w

(* A copy is made of the parts of the copy.                                *)
LEMMA CatCopied ==
    ASSUME NullIsNoFunction, NEW o, NEW p, MadeOf(o, p),
           o.given.coin = Null, o.given.publicKey = Null, NEW args, Proper(args.innerSolution),
           NEW r, r = Object("CAT", Cat!CopyWith(o.it, args), LastGiven(o.given, args))
    PROVE  MadeOf(r, CopiedParts(p, args))
<1> DEFINE q == CopiedParts(p, args)
           g == LastGiven(o.given, args)
<1>1. q = Parts(Cat!CopyArgs(o.it, args))
  BY CopyParts DEF MadeOf
<1>2. r.it = CatOf(q) /\ r.given = g /\ r.touched = FALSE
  BY <1>1, CatNew DEF Object, Cat!CopyWith
<1>3. Normal(q)
  BY <1>1, PartsNormal
<1>4. /\ q.innerSolution = Or(args.innerSolution, Inner(p))
      /\ q.prevCoinId = dehexlify(Or(args.prevCoinId, p.prevCoinId))
      /\ q.nextCoin = NextStored(Or(args.nextCoin, p.nextCoin))
      /\ q.TAILProgram = Or(args.TAILProgram, Program(p))
  BY DEF CopiedParts
<1>5. /\ g.innerSolution = Or(args.innerSolution, o.given.innerSolution)
      /\ g.nextCoin = Or(args.nextCoin, o.given.nextCoin)
      /\ g.prevCoinId = Or(args.prevCoinId, o.given.prevCoinId)
  BY LastFields DEF Parameters, Ordinary
<1> HIDE DEF q, g
<1>6. Proper(q.innerSolution)
  <2>1. Proper(Inner(p))
    BY ProperInner DEF MadeOf
  <2> QED BY <1>4, <2>1 DEF Or
<1>7. g.innerSolution # Null => q.innerSolution = g.innerSolution
  <2>1. o.given.innerSolution # Null => Inner(p) = o.given.innerSolution
    BY DEF MadeOf, Inner, Builds, Cat!BuildsInnerSolution
  <2> QED BY <1>4, <1>5, <2>1 DEF Or
<1>8. /\ g.prevCoinId = Null => q.prevCoinId = Null
      /\ g.nextCoin = Null => q.nextCoin = Null
  BY <1>4, <1>5 DEF MadeOf, Or, dehexlify, NextStored
<1>9. ASSUME Program(q) = Null PROVE CatOf(q) = CatOf(Parts(g))
  <2>1. ~Derived(q)
    BY <1>6, <1>9, ProgramRevealed
  <2>2. Or(args.TAILProgram, Program(p)) = Null
    BY <1>4, <1>9, <2>1 DEF Program
  <2>3. args.TAILProgram = Null /\ Program(p) = Null /\ CatOf(p) = CatOf(Parts(o.given))
    BY <2>2 DEF Or, MadeOf
  <2>4. ~Derived(p) /\ p.TAILProgram = Null
    BY <2>3, ProgramRevealed DEF MadeOf, Program
  <2> QED BY <2>1, <2>3, <2>4, CopyOfPlain DEF q, g
<1> QED BY <1>2, <1>3, <1>6, <1>7, <1>8, <1>9 DEF MadeOf, CatOf, q

-----------------------------------------------------------------------------
(* Adding conditions to a CAT that has no inner solution sets an empty one *)
(* on the CAT itself.                                                      *)

Emptied(p) ==
    [parentCoinInfo |-> p.parentCoinInfo, puzzleHash |-> p.puzzleHash, amount |-> p.amount,
     syntheticKey |-> p.syntheticKey, innerSolution |-> standardCoinSolution(<<>>),
     lineageProof |-> p.lineageProof, nextCoin |-> p.nextCoin, prevCoinId |-> p.prevCoinId,
     TAILProgramHash |-> p.TAILProgramHash, TAILProgram |-> p.TAILProgram,
     TAILSolution |-> p.TAILSolution, prevSubtotal |-> p.prevSubtotal,
     extraDelta |-> p.extraDelta]

(* The solution a new CAT of these parts would have. *)
EmptySolution(p) ==
    IF ThisCoin(p) = Null THEN Null
    ELSE CATSolution(standardCoinSolution(<<>>), Cat!lineageProofToProgram(p.lineageProof),
                     Or(p.prevCoinId, getId(ThisCoin(p))), ThisCoin(p),
                     Or(p.nextCoin, ThisCoin(p)), Or(p.prevSubtotal, 0), Or(p.extraDelta, 0))

(* A CAT whose missing inner solution was made an empty one.               *)
LEMMA EmptiedCat ==
    ASSUME NullIsNoFunction, NEW p, Inner(p) = Null
    PROVE  /\ CatOf(Emptied(p)) = CatWith(p, standardCoinSolution(<<>>), EmptySolution(p))
           /\ \A s : CatWith(Emptied(p), standardCoinSolution(<<>>), s) =
                        CatWith(p, standardCoinSolution(<<>>), s)
           /\ Program(Emptied(p)) = Program(p)
           /\ Inner(Emptied(p)) = standardCoinSolution(<<>>)
           /\ Solution(p) = Null
<1> DEFINE q == Emptied(p)
           e == standardCoinSolution(<<>>)
<1>1. p.innerSolution = Null /\ ~Derived(p)
  BY NullApart DEF Inner, Derived, Cat!Derives
<1>2. ~Derived(q)
  <2>1. q.innerSolution.conditions = <<>>
    BY DEF Emptied, standardCoinSolution
  <2> HIDE DEF q
  <2>2. Cat!Reveals(q.innerSolution) = {}
    BY <2>1 DEF Cat!Reveals
  <2> QED BY <2>2 DEF Derived, Cat!Derives
<1>3. /\ q.parentCoinInfo = p.parentCoinInfo /\ q.puzzleHash = p.puzzleHash
      /\ q.amount = p.amount /\ q.syntheticKey = p.syntheticKey /\ q.innerSolution = e
      /\ q.lineageProof = p.lineageProof /\ q.nextCoin = p.nextCoin
      /\ q.prevCoinId = p.prevCoinId /\ q.TAILProgramHash = p.TAILProgramHash
      /\ q.TAILProgram = p.TAILProgram /\ q.TAILSolution = p.TAILSolution
      /\ q.prevSubtotal = p.prevSubtotal /\ q.extraDelta = p.extraDelta
  BY DEF Emptied
<1>4. e # Null
  BY NullApart
<1> HIDE DEF q, e
<1>5. /\ Program(q) = Program(p) /\ ProgramSolution(q) = ProgramSolution(p)
      /\ ProgramHash(q) = ProgramHash(p) /\ Stated(q) = Stated(p)
  BY <1>1, <1>2, <1>3 DEF Program, ProgramSolution, ProgramHash, Stated
<1>6. Inner(q) = e
  BY <1>3, <1>4 DEF Inner, Builds, Cat!BuildsInnerSolution
<1>7. InnerPuzzle(q) = InnerPuzzle(p) /\ Puzzle(q) = Puzzle(p) /\ Hash(q) = Hash(p)
  BY <1>3, <1>5 DEF InnerPuzzle, Puzzle, Hash
<1>8. ThisCoin(q) = ThisCoin(p)
  BY <1>3, <1>7 DEF ThisCoin
<1>9. Solution(q) = EmptySolution(p)
  BY <1>3, <1>4, <1>6, <1>8 DEF Solution, EmptySolution, e
<1>10. \A s : CatWith(q, e, s) = CatWith(p, e, s)
  BY <1>3, <1>5, <1>7 DEF CatWith
<1>11. Solution(p) = Null
  BY DEF Solution
<1> QED BY <1>5, <1>6, <1>9, <1>10, <1>11 DEF CatOf, q, e

(* Setting that solution leaves a CAT made of its parts and of it.         *)
LEMMA CatTouched ==
    ASSUME NullIsNoFunction, NEW o, NEW p, MadeOf(o, p), o.it.innerSolution = Null,
           o.class = "CAT", o.given.coin = Null, o.given.publicKey = Null,
           o.given = [f \in Parameters |-> o.given[f]],
           NEW r, r = Touch(o, "innerSolution", Cat!SolutionSet(o.it))
    PROVE  MadeOf(r, Emptied(p)) /\ r.it.innerSolution = standardCoinSolution(<<>>)
<1> DEFINE e == standardCoinSolution(<<>>)
           q == Emptied(p)
           g == [o.given EXCEPT !["innerSolution"] = e]
<1>1. Inner(p) = Null /\ o.it = CatWith(p, Inner(p), Null)
  <2>1. Inner(p) = Null
    BY DEF MadeOf, CatWith
  <2>2. Solution(p) = Null
    BY <2>1, EmptiedCat
  <2> QED BY <2>1, <2>2 DEF MadeOf
<1>2. r.given = g /\ r.touched = TRUE /\ r.it = [o.it EXCEPT !.innerSolution = e]
  <2>1. Cat!SolutionSet(o.it) = [o.it EXCEPT !.innerSolution = e]
    BY SameTerms DEF Cat!SolutionSet, Or
  <2>2. o.it["innerSolution"] = Null
    OBVIOUS
  <2> QED BY <2>1, <2>2 DEF Touch
<1>3. r.it = CatWith(q, Inner(q), Null) /\ r.it.innerSolution = e
  <2>1. r.it = CatWith(p, e, Null)
    <3> HIDE DEF e
    <3> QED BY <1>1, <1>2, CatWithOther
  <2>2. CatWith(q, e, Null) = CatWith(p, e, Null) /\ Inner(q) = e
    BY <1>1, EmptiedCat
  <2> HIDE DEF q, e
  <2> QED BY <2>1, <2>2 DEF CatWith
<1>4. Normal(q)
  BY DEF MadeOf, Normal, Emptied
<1>5. Proper(q.innerSolution)
  <2>1. RevealPrograms(<<>>)
    BY DEF RevealPrograms
  <2> QED BY <2>1 DEF Proper, Emptied, standardCoinSolution
<1>6. /\ g.innerSolution = e /\ g.prevCoinId = o.given.prevCoinId
      /\ g.nextCoin = o.given.nextCoin
      /\ q.innerSolution = e /\ q.prevCoinId = p.prevCoinId /\ q.nextCoin = p.nextCoin
  BY DEF Emptied, Parameters
<1>7. ASSUME Program(q) = Null PROVE CatOf(q) = CatOf(Parts(g))
  <2> DEFINE h == Parts(o.given)
  <2>1. Program(p) = Null
    BY <1>1, <1>7, EmptiedCat
  <2>2. CatOf(p) = CatOf(h)
    BY <2>1 DEF MadeOf
  <2>3. Parts(g) = Emptied(h)
    <3>1. /\ \A f \in Parameters \ {"innerSolution"} : g[f] = o.given[f]
          /\ g.innerSolution = e
      BY DEF Parameters
    <3>2. /\ g.coin = Null /\ g.publicKey = Null /\ g.parentCoinInfo = o.given.parentCoinInfo
          /\ g.puzzleHash = o.given.puzzleHash /\ g.amount = o.given.amount
          /\ g.syntheticKey = o.given.syntheticKey /\ g.lineageProof = o.given.lineageProof
          /\ g.nextCoin = o.given.nextCoin /\ g.prevCoinId = o.given.prevCoinId
          /\ g.TAILProgramHash = o.given.TAILProgramHash /\ g.TAILProgram = o.given.TAILProgram
          /\ g.TAILSolution = o.given.TAILSolution /\ g.prevSubtotal = o.given.prevSubtotal
          /\ g.extraDelta = o.given.extraDelta
      BY <3>1 DEF Parameters
    <3> HIDE DEF g
    <3>3. Or(o.given.coin, o.given) = o.given /\ Or(g.coin, g) = g
      BY <3>2 DEF Or
    <3>4. KeyOf(g, g.syntheticKey) = KeyOf(o.given, o.given.syntheticKey)
      BY <3>2 DEF KeyOf
    <3> QED BY <3>1, <3>2, <3>3, <3>4 DEF Parts, Emptied
  <2> HIDE DEF h
  <2>4. Inner(h) = Null /\ CatWith(p, e, EmptySolution(p)) = CatWith(h, e, EmptySolution(p))
    BY <1>1, <2>2, CatSame
  <2>5. EmptySolution(p) = EmptySolution(h)
    BY <2>2, CatSame DEF EmptySolution, ThisCoin
  <2>6. /\ CatOf(q) = CatWith(p, e, EmptySolution(p))
        /\ CatOf(Emptied(h)) = CatWith(h, e, EmptySolution(h))
    BY <1>1, <2>4, EmptiedCat
  <2> HIDE DEF q, g, e
  <2> QED BY <2>3, <2>4, <2>5, <2>6
<1> HIDE DEF q, g, e
<1> QED BY <1>2, <1>3, <1>4, <1>5, <1>6, <1>7 DEF MadeOf, q, e

-----------------------------------------------------------------------------
(* Every object is what one call of its constructor makes of the values    *)
(* given last, or a CAT made of some parts.                                *)

Sound(o) ==
    /\ o.class \in Classes
    /\ o.given.coin = Null /\ o.given.publicKey = Null
    /\ o.given = [f \in Parameters |-> o.given[f]]
    /\ o.class # "CAT" => o.it = New(o.class, o.given)
    /\ o.class = "CAT" => \E p : MadeOf(o, p)

(* A new object is. *)
LEMMA Constructed ==
    ASSUME NEW class \in Classes, NEW args \in Constructions[class],
           NEW o, o = Object(class, New(class, args), LastGiven(NoArgs, args))
    PROVE  Sound(o)
<1>1. o.class = class /\ o.it = New(class, args) /\ o.given = LastGiven(NoArgs, args)
  BY DEF Object
<1>2. /\ o.given.coin = Null /\ o.given.publicKey = Null
      /\ o.given = [f \in Parameters |-> o.given[f]]
  BY <1>1, LastFields
<1>3. CASE class = "CAT"
  <2>1. Proper(args.innerSolution)
    BY <1>3, ConditionsAssumption DEF Proper
  <2>2. o = Object("CAT", Cat!New(args), LastGiven(NoArgs, args))
    BY <1>3 DEF New
  <2>3. MadeOf(o, Parts(args))
    BY <2>1, <2>2, CatConstructed
  <2> QED BY <1>1, <1>2, <1>3, <2>3 DEF Sound
<1>4. CASE class # "CAT"
  <2>1. New(class, args) = New(class, LastGiven(NoArgs, args))
    BY <1>4, SmartFirst, StandardFirst, SingleFirst DEF New, Classes
  <2> QED BY <1>1, <1>2, <1>4, <2>1 DEF Sound
<1> QED BY <1>3, <1>4

(* A copy is, and so are the with-methods. *)
LEMMA Copied ==
    ASSUME NullIsNoFunction, NEW o, Sound(o), NEW args,
           o.class = "CAT" => Proper(args.innerSolution),
           NEW r, r = Object(o.class, CopyWith(o.class, o.it, args), LastGiven(o.given, args))
    PROVE  Sound(r)
<1>1. /\ r.class = o.class /\ r.it = CopyWith(o.class, o.it, args)
      /\ r.given = LastGiven(o.given, args)
  BY DEF Object
<1>2. r.given.coin = Null /\ r.given.publicKey = Null /\ r.given = [f \in Parameters |-> r.given[f]]
  BY <1>1, LastFields
<1>3. CASE o.class = "CAT"
  <2>1. PICK p : MadeOf(o, p)
    BY <1>3 DEF Sound
  <2>2. r = Object("CAT", Cat!CopyWith(o.it, args), LastGiven(o.given, args))
    BY <1>3 DEF CopyWith
  <2>3. MadeOf(r, CopiedParts(p, args))
    BY <1>3, <2>1, <2>2, CatCopied DEF Sound
  <2> QED BY <1>1, <1>2, <1>3, <2>3 DEF Sound
<1>4. CASE o.class # "CAT"
  <2>1. o.given.coin = Null /\ o.given.publicKey = Null /\ o.it = New(o.class, o.given)
        /\ o.class \in Classes
    BY <1>4 DEF Sound
  <2>2. CopyWith(o.class, o.it, args) = New(o.class, LastGiven(o.given, args))
    BY <1>4, <2>1, SmartCopy, StandardCopy, SingleCopy DEF New, CopyWith, Classes
  <2> QED BY <1>1, <1>2, <1>4, <2>1, <2>2 DEF Sound
<1> QED BY <1>3, <1>4

(* Setting the solution of a standard coin is giving it. *)
LEMMA StandardTouched ==
    ASSUME NEW o, Sound(o), o.class = "StandardCoin",
           NEW r, r = Touch(o, "solution", Standard!SolutionSet(o.it))
    PROVE  /\ Sound(r) /\ r.class = "StandardCoin"
           /\ Standard!SolutionSet(r.it) = r.it
<1> DEFINE e == standardCoinSolution(<<>>)
           key == o.given.syntheticKey
           Made(solution) == StandardOf(o.given, key, solution)
<1>1. /\ o.given.coin = Null /\ o.given.publicKey = Null
      /\ o.given = [f \in Parameters |-> o.given[f]]
      /\ o.it = Standard!New(o.given)
  BY DEF Sound, New, Classes
<1>2. o.it = Made(o.given.solution)
  BY <1>1, StandardNew DEF Or, KeyOf
<1>3. /\ \A s, t : [Made(s) EXCEPT !.solution = t] = Made(t)
      /\ \A s : Made(s).solution = s
  BY DEF StandardOf
<1> HIDE DEF Made
<1>4. \A it : Standard!SolutionSet(it) =
               [it EXCEPT !.solution = IF it.solution # Null THEN it.solution ELSE e]
  BY DEF Standard!SolutionSet, Standard!Or, Standard!standardCoinSolution, standardCoinSolution
<1> HIDE DEF e
<1>5. CASE o.it.solution # Null
  <2>1. r = o
    BY <1>5 DEF Touch
  <2>2. Standard!SolutionSet(o.it) = [o.it EXCEPT !.solution = o.it.solution]
    BY <1>4, <1>5
  <2> QED BY <1>2, <1>3, <2>1, <2>2
<1>6. CASE o.it.solution = Null
  <2> DEFINE g == [o.given EXCEPT !["solution"] = e]
  <2>1. Standard!SolutionSet(o.it) = Made(e)
    BY <1>2, <1>3, <1>4, <1>6
  <2>2. r.it = Made(e) /\ r.given = g /\ r.class = "StandardCoin"
    BY <1>6, <2>1 DEF Touch, e
  <2>3. /\ g.coin = Null /\ g.publicKey = Null /\ g = [f \in Parameters |-> g[f]]
        /\ g.parentCoinInfo = o.given.parentCoinInfo /\ g.puzzleHash = o.given.puzzleHash
        /\ g.amount = o.given.amount /\ g.syntheticKey = key /\ g.solution = e
    BY <1>1 DEF Parameters
  <2> HIDE DEF g
  <2>4. Standard!New(g) = StandardOf(g, key, e)
    BY <2>3, StandardNew DEF Or, KeyOf
  <2>5. Standard!New(g) = Made(e)
    BY <2>3, <2>4 DEF StandardOf, Made
  <2>6. Sound(r)
    BY <2>2, <2>3, <2>5 DEF Sound, New, Classes
  <2>7. Standard!SolutionSet(r.it) = [r.it EXCEPT !.solution = e]
    BY <1>3, <1>4, <2>2
  <2> QED BY <1>3, <2>2, <2>6, <2>7
<1> QED BY <1>5, <1>6

(* The standard coin that has the conditions is a copy. *)
LEMMA StandardAdded ==
    ASSUME NullIsNoFunction, NEW o, Sound(o), o.class = "StandardCoin",
           Standard!SolutionSet(o.it) = o.it, NEW conditions,
           NEW added, added = standardCoinSolution(o.it.solution.conditions \o conditions)
    PROVE  Sound(Object(o.class, Standard!AddConditions(o.it, conditions),
                        LastGiven(o.given, Given("solution", added))))
<1>1. Standard!AddConditions(o.it, conditions) = CopyWith(o.class, o.it, Given("solution", added))
  BY GivenAlone DEF Standard!AddConditions, CopyWith, Standard!standardCoinSolution,
                    standardCoinSolution
<1>2. o.class # "CAT"
  OBVIOUS
<1> QED BY <1>1, <1>2, Copied

(* A CAT whose inner solution was set is made of other parts. *)
LEMMA CatTouchedSound ==
    ASSUME NullIsNoFunction, NEW o, Sound(o), o.class = "CAT",
           NEW r, r = Touch(o, "innerSolution", Cat!SolutionSet(o.it))
    PROVE  Sound(r) /\ r.class = "CAT" /\ r.it.innerSolution # Null
<1>1. PICK p : MadeOf(o, p)
  BY DEF Sound
<1>2. CASE o.it.innerSolution # Null
  BY <1>2 DEF Touch
<1>3. CASE o.it.innerSolution = Null
  <2>1. MadeOf(r, Emptied(p))
    BY <1>1, <1>3, CatTouched DEF Sound
  <2>2. /\ r.given = [o.given EXCEPT !["innerSolution"] = standardCoinSolution(<<>>)]
        /\ r.class = "CAT"
    BY <1>3 DEF Touch
  <2>3. /\ r.given.coin = Null /\ r.given.publicKey = Null
        /\ r.given = [f \in Parameters |-> r.given[f]]
    BY <2>2 DEF Sound, Parameters
  <2>4. r.it.innerSolution # Null
    BY <1>1, <1>3, CatTouched, NullApart DEF Sound
  <2> QED BY <2>1, <2>2, <2>3, <2>4 DEF Sound, Classes
<1> QED BY <1>2, <1>3

(* The CAT that has the conditions is a copy. *)
LEMMA CatAdded ==
    ASSUME NullIsNoFunction, NEW o, Sound(o), o.class = "CAT", o.it.innerSolution # Null,
           o.it.innerSolution # Opaque, NEW conditions \in Additions,
           NEW args, args = Cat!ConditionsArgs(o.it, conditions)
    PROVE  Sound(Object(o.class, Cat!New(args),
                        LastGiven(o.given, Given("innerSolution", args.innerSolution))))
<1> DEFINE added == standardCoinSolution(o.it.innerSolution.conditions \o conditions)
           given == Given("innerSolution", added)
<1>1. PICK p : MadeOf(o, p)
  BY DEF Sound
<1>2. o.it.innerSolution = Inner(p) /\ "innerSolution" \in DOMAIN o.it
      /\ o.it = [f \in DOMAIN o.it |-> o.it[f]]
  BY <1>1 DEF MadeOf, CatWith
<1>3. Cat!SolutionSet(o.it) = o.it
  BY <1>2 DEF Cat!SolutionSet, Cat!Or
<1>4. args = Cat!CopyArgs(o.it, given)
  BY <1>3, GivenAlone, SameTerms DEF Cat!ConditionsArgs
<1>5. given.innerSolution = added
  BY GivenAlone DEF Parameters
<1>6. Proper(added)
  <2>1. Proper(Inner(p))
    BY <1>1, ProperInner DEF MadeOf
  <2>2. RevealPrograms(o.it.innerSolution.conditions)
    BY <1>2, <2>1 DEF Proper
  <2>3. RevealPrograms(conditions)
    BY ConditionsAssumption
  <2>4. RevealPrograms(o.it.innerSolution.conditions \o conditions)
    BY <2>2, <2>3, ProperJoin
  <2> QED BY <2>4 DEF Proper, standardCoinSolution
<1>7. args.innerSolution = added
  <2>1. added # Null
    BY NullApart
  <2>2. args.innerSolution = Or(given.innerSolution, o.it.innerSolution)
    BY <1>2, <1>4, SameTerms DEF Cat!CopyArgs, Cat!Parameters
  <2> QED BY <1>5, <2>1, <2>2 DEF Or
<1>8. Cat!New(args) = CopyWith(o.class, o.it, given)
  BY <1>4 DEF CopyWith, Cat!CopyWith
<1> HIDE DEF added
<1>9. Proper(given.innerSolution)
  BY <1>5, <1>6
<1> HIDE DEF given
<1>10. Sound(Object(o.class, CopyWith(o.class, o.it, given), LastGiven(o.given, given)))
  BY <1>9, Copied
<1> QED BY <1>7, <1>8, <1>10 DEF given

(* The curried coin is a new one. *)
LEMMA CurriedSound ==
    ASSUME NEW it, NEW args, NEW coin, coin = Smart!toCoin(it),
           NEW r, r = Smart!CurryCoin(it, args)
    PROVE  Sound(Object("SmartCoin", r,
                        LastGiven(NoArgs, [NoArgs EXCEPT !.coin = coin, !.puzzle = r.puzzle])))
<1> DEFINE a == [NoArgs EXCEPT !.coin = coin, !.puzzle = r.puzzle]
           puzzle == Smart!curry(it.puzzle, args)
           c == [parentCoinInfo |-> Null, puzzleHash |-> Null, amount |-> Null,
                 coin |-> coin, puzzle |-> puzzle, solution |-> Null]
           o == Object("SmartCoin", r, LastGiven(NoArgs, a))
<1>1. r = Smart!New(c)
  BY DEF Smart!CurryCoin
<1>2. r = SmartOf(Or(coin, c), puzzle, Null)
  <2>1. c.coin = coin /\ c.puzzle = puzzle /\ c.solution = Null
    OBVIOUS
  <2> HIDE DEF c, puzzle
  <2> QED BY <1>1, <2>1, SmartNew
<1>3. /\ a.coin = coin /\ a.puzzle = puzzle /\ a.solution = Null
      /\ a.parentCoinInfo = Null /\ a.puzzleHash = Null /\ a.amount = Null
  <2>1. r.puzzle = puzzle
    BY <1>2 DEF SmartOf
  <2> HIDE DEF puzzle
  <2> QED BY <2>1 DEF NoArgs, Parameters
<1> HIDE DEF a
<1>4. Smart!New(a) = SmartOf(Or(coin, a), puzzle, Null)
  <2> HIDE DEF puzzle
  <2> QED BY <1>3, SmartNew
<1>5. /\ Or(coin, a).parentCoinInfo = Or(coin, c).parentCoinInfo
      /\ Or(coin, a).puzzleHash = Or(coin, c).puzzleHash
      /\ Or(coin, a).amount = Or(coin, c).amount
  BY <1>3 DEF Or
<1> HIDE DEF c, puzzle
<1>6. r = Smart!New(a)
  BY <1>2, <1>4, <1>5 DEF SmartOf
<1>7. Smart!New(a) = Smart!New(LastGiven(NoArgs, a))
  BY SmartFirst
<1>8. o.class = "SmartCoin" /\ o.it = r /\ o.given = LastGiven(NoArgs, a)
  BY DEF Object
<1>9. o.given.coin = Null /\ o.given.publicKey = Null /\ o.given = [f \in Parameters |-> o.given[f]]
  BY <1>8, LastFields
<1> HIDE DEF o
<1>10. Sound(o)
  BY <1>6, <1>7, <1>8, <1>9 DEF Sound, New, Classes
<1> QED BY <1>10 DEF o, a

-----------------------------------------------------------------------------
(* The application.                                                        *)

(* The invariant: it is inductive. *)
AllSound ==
    /\ coins = [x \in Vars |-> coins[x]]
    /\ \A x \in Vars : coins[x] # None => Sound(coins[x])

(* A sound object may be written over any variable. *)
LEMMA AssignSound ==
    ASSUME AllSound, NEW x \in Vars, NEW o, Sound(o), coins' = [coins EXCEPT ![x] = o]
    PROVE  AllSound'
BY DEF AllSound

(* So may two, as by the methods that add conditions, which set the        *)
(* solution of their own object and return another or throw.               *)
LEMMA AssignBothSound ==
    ASSUME AllSound, NEW x \in Vars, NEW y \in Vars, NEW o, NEW p, Sound(o), Sound(p),
           coins' \in {[coins EXCEPT ![y] = o, ![x] = p], [coins EXCEPT ![y] = o]}
    PROVE  AllSound'
BY DEF AllSound

(* What copyWith() returns, and every with-method through it. *)
LEMMA ResultSound ==
    ASSUME NullIsNoFunction, AllSound, NEW x \in Vars, NEW y \in Vars, NEW args, coins[y] # None,
           coins[y].class = "CAT" => Proper(args.innerSolution), Result(x, y, args)
    PROVE  AllSound'
<1> DEFINE o == coins[y]
           r == Object(o.class, CopyWith(o.class, o.it, args), LastGiven(o.given, args))
<1>1. Sound(o)
  BY DEF AllSound
<1>2. Sound(r)
  <2> HIDE DEF r
  <2> SUFFICES ASSUME r = Object(o.class, CopyWith(o.class, o.it, args), LastGiven(o.given, args))
               PROVE  Sound(r)
    BY DEF r
  <2> HIDE DEF o
  <2> QED BY <1>1, Copied DEF o
<1>3. coins' = [coins EXCEPT ![x] = r]
  BY DEF Result
<1> HIDE DEF r
<1> QED BY <1>2, <1>3, AssignSound

(* No variable holds a coin at first. *)
LEMMA InitSound == Init => AllSound
BY DEF Init, AllSound

(* Every call keeps the invariant. *)
LEMMA NextSound == NullIsNoFunction /\ AllSound /\ [Next]_coins => AllSound'
<1> SUFFICES ASSUME NullIsNoFunction, AllSound, [Next]_coins PROVE AllSound'
  OBVIOUS
<1>1. CASE UNCHANGED coins
  BY <1>1 DEF AllSound
<1>2. ASSUME NEW x \in Vars, Construct(x) PROVE AllSound'
  <2>1. PICK class \in Classes : \E args \in Constructions[class] :
          coins' = [coins EXCEPT ![x] = Object(class, New(class, args), LastGiven(NoArgs, args))]
    BY <1>2 DEF Construct
  <2>2. PICK args \in Constructions[class] :
          coins' = [coins EXCEPT ![x] = Object(class, New(class, args), LastGiven(NoArgs, args))]
    BY <2>1
  <2>3. Sound(Object(class, New(class, args), LastGiven(NoArgs, args)))
    BY Constructed
  <2> QED BY <2>2, <2>3, AssignSound
<1>3. ASSUME NEW x \in Vars, NEW y \in Vars, CallWith(x, y) PROVE AllSound'
  <2>0. PICK p \in With(coins[y].class) : \E v \in Values[coins[y].class][p] :
          coins[y] # None /\ Result(x, y, Given(p, v))
    BY <1>3 DEF CallWith
  <2>1. PICK v \in Values[coins[y].class][p] : coins[y] # None /\ Result(x, y, Given(p, v))
    BY <2>0
  <2>2. coins[y].class = "CAT" => Proper(Given(p, v).innerSolution)
    <3> SUFFICES ASSUME coins[y].class = "CAT" PROVE Proper(Given(p, v).innerSolution)
      OBVIOUS
    <3>1. p \in Parameters
      BY DEF With, Cat!With, Parameters
    <3>2. CASE p = "innerSolution"
      <4>1. Given(p, v).innerSolution = v
        BY <3>1, <3>2, GivenAlone
      <4> QED BY <3>2, <4>1, ConditionsAssumption DEF Proper
    <3>3. CASE p # "innerSolution"
      <4>1. Given(p, v).innerSolution = Null
        BY <3>1, <3>3, GivenAlone DEF Parameters
      <4> QED BY <4>1 DEF Proper
    <3> QED BY <3>2, <3>3
  <2> QED BY <2>1, <2>2, ResultSound
<1>4. ASSUME NEW x \in Vars, NEW y \in Vars, CallCopyWith(x, y) PROVE AllSound'
  <2>1. PICK args \in Copies : coins[y] # None /\ Result(x, y, args)
    BY <1>4 DEF CallCopyWith
  <2>2. Proper(args.innerSolution)
    BY ConditionsAssumption DEF Proper
  <2> QED BY <2>1, <2>2, ResultSound
<1>5. ASSUME NEW x \in Vars, NEW y \in Vars, AddConditionsToSolution(x, y) PROVE AllSound'
  <2> DEFINE o == Touch(coins[y], "solution", Standard!SolutionSet(coins[y].it))
  <2>1. Sound(coins[y]) /\ coins[y].class = "StandardCoin"
    BY <1>5 DEF AddConditionsToSolution, AllSound, None
  <2>2. Sound(o) /\ o.class = "StandardCoin" /\ Standard!SolutionSet(o.it) = o.it
    BY <2>1, StandardTouched
  <2>3. PICK conditions \in Additions :
          LET added == standardCoinSolution(o.it.solution.conditions \o conditions)
              result == IF o.it.solution = Opaque THEN o
                        ELSE Object(o.class, Standard!AddConditions(o.it, conditions),
                                    LastGiven(o.given, Given("solution", added)))
          IN  coins' \in {[coins EXCEPT ![y] = o, ![x] = result], [coins EXCEPT ![y] = o]}
    BY <1>5 DEF AddConditionsToSolution
  <2> HIDE DEF o
  <2>4. Sound(Object(o.class, Standard!AddConditions(o.it, conditions),
                     LastGiven(o.given, Given("solution",
                         standardCoinSolution(o.it.solution.conditions \o conditions)))))
    BY <2>2, StandardAdded
  <2> QED BY <2>2, <2>3, <2>4, AssignBothSound
<1>6. ASSUME NEW x \in Vars, NEW y \in Vars, AddConditionsToInnerSolution(x, y) PROVE AllSound'
  <2> DEFINE o == Touch(coins[y], "innerSolution", Cat!SolutionSet(coins[y].it))
  <2>1. Sound(coins[y]) /\ coins[y].class = "CAT"
    BY <1>6 DEF AddConditionsToInnerSolution, AllSound, None
  <2>2. Sound(o) /\ o.class = "CAT" /\ o.it.innerSolution # Null
    BY <2>1, CatTouchedSound
  <2>3. PICK conditions \in Additions :
          LET args == Cat!ConditionsArgs(o.it, conditions)
              result == IF o.it.innerSolution = Opaque THEN o
                        ELSE IF Cat!NewThrows(args) THEN o
                        ELSE Object(o.class, Cat!New(args),
                                    LastGiven(o.given, Given("innerSolution", args.innerSolution)))
          IN  coins' \in {[coins EXCEPT ![y] = o, ![x] = result], [coins EXCEPT ![y] = o]}
    BY <1>6 DEF AddConditionsToInnerSolution
  <2> HIDE DEF o
  <2> DEFINE args == Cat!ConditionsArgs(o.it, conditions)
             added == Object(o.class, Cat!New(args),
                             LastGiven(o.given, Given("innerSolution", args.innerSolution)))
  <2>4. o.it.innerSolution # Opaque => Sound(added)
    BY <2>2, CatAdded
  <2>5. \/ coins' \in {[coins EXCEPT ![y] = o, ![x] = o], [coins EXCEPT ![y] = o]}
        \/ /\ Sound(added)
           /\ coins' \in {[coins EXCEPT ![y] = o, ![x] = added], [coins EXCEPT ![y] = o]}
    BY <2>3, <2>4
  <2> HIDE DEF added
  <2> QED BY <2>2, <2>5, AssignBothSound
<1>7. ASSUME NEW x \in Vars, NEW y \in Vars, Curry(x, y) PROVE AllSound'
  <2>1. PICK args \in Curried :
          LET o == coins[y]
              curriedCoin == Smart!CurryCoin(o.it, args)
          IN  coins' = [coins EXCEPT ![x] =
                 Object("SmartCoin", curriedCoin,
                        LastGiven(NoArgs, [NoArgs EXCEPT !.coin = Smart!toCoin(o.it),
                                                         !.puzzle = curriedCoin.puzzle]))]
    BY <1>7 DEF Curry
  <2> QED BY <2>1, CurriedSound, AssignSound
<1> QED BY <1>1, <1>2, <1>3, <1>4, <1>5, <1>6, <1>7 DEF Next

-----------------------------------------------------------------------------
(* The theorems. *)

(* In whatever order the values of an object were given, the object is the *)
(* one that a single call of its constructor makes of those given last; a  *)
(* CAT is, as long as it has no TAIL program.                              *)
THEOREM NoOrderMatters == ASSUME NullIsNoFunction PROVE Spec => []BuiltAtOnce
<1>1. AllSound => BuiltAtOnce
  <2> SUFFICES ASSUME AllSound, NEW x \in Vars, coins[x] # None
               PROVE  LET o == coins[x]
                          once == New(o.class, o.given)
                      IN  IF o.class # "CAT" THEN o.it = once
                          ELSE o.it.TAILProgram = Null =>
                             o.it = IF o.touched THEN [once EXCEPT !.solution = Null] ELSE once
    BY DEF BuiltAtOnce, Built
  <2> DEFINE o == coins[x]
             once == New(o.class, o.given)
  <2>1. Sound(o)
    BY DEF AllSound
  <2>2. CASE o.class # "CAT"
    BY <2>1, <2>2 DEF Sound
  <2>3. ASSUME o.class = "CAT", o.it.TAILProgram = Null
        PROVE  o.it = IF o.touched THEN [once EXCEPT !.solution = Null] ELSE once
    <3>1. PICK p : MadeOf(o, p)
      BY <2>1, <2>3 DEF Sound
    <3>2. o.it.TAILProgram = Program(p)
      BY <3>1 DEF MadeOf, CatWith
    <3>3. once = CatOf(Parts(o.given))
      BY <2>3, CatNew DEF New
    <3>4. CatOf(p) = CatOf(Parts(o.given))
      BY <2>3, <3>1, <3>2 DEF MadeOf
    <3>5. [CatOf(p) EXCEPT !.solution = Null] = CatWith(p, Inner(p), Null)
      BY CatWithOther DEF CatOf
    <3> HIDE DEF o, once
    <3> QED BY <3>1, <3>3, <3>4, <3>5 DEF MadeOf, CatOf
  <2> QED BY <2>2, <2>3
<1>2. AllSound /\ [Next]_coins => AllSound'
  BY NextSound
<1> QED BY <1>1, <1>2, InitSound, PTL DEF Spec

(* A CAT is made of some parts; a copy of it, of what is taken of them. *)
LEMMA CatKnown ==
    ASSUME AllSound, NEW o \in CATs
    PROVE  \E p : /\ MadeOf(o, p)
                  /\ Normal(p)
                  /\ \E solution : o.it = CatWith(p, Inner(p), solution)
<1>1. PICK x \in Vars : coins[x] # None /\ coins[x].class = "CAT" /\ o = coins[x]
  BY DEF CATs, Built
<1>2. Sound(o) /\ o.class = "CAT"
  BY <1>1 DEF AllSound
<1>3. PICK p : MadeOf(o, p)
  BY <1>2 DEF Sound
<1> QED BY <1>3 DEF MadeOf

(* Copying a CAT settles what the order of the steps of its constructor    *)
(* left undone (cat.ts constructor): another copy changes nothing.         *)
THEOREM OneCopySettles == ASSUME NullIsNoFunction PROVE Spec => []SettlesInOneCopy
<1>1. AllSound => SettlesInOneCopy
  <2> SUFFICES ASSUME AllSound, NEW o \in CATs
               PROVE  LET once == Cat!New(Cat!CopyArgs(o.it, NoArgs))
                      IN  Cat!CopyWith(once, NoArgs) = once
    BY DEF SettlesInOneCopy
  <2> DEFINE once == Cat!New(Cat!CopyArgs(o.it, NoArgs))
  <2>1. PICK p, solution : Normal(p) /\ o.it = CatWith(p, Inner(p), solution)
    BY CatKnown
  <2>2. once = CatOf(Taken(p)) /\ Normal(Taken(p))
    BY <2>1, TakenParts, PartsNormal
  <2>3. Cat!CopyWith(once, NoArgs) = CatOf(Taken(Taken(p)))
    BY <2>2, TakenParts DEF Cat!CopyWith, CatOf
  <2> QED BY <2>2, <2>3, TakenTwice
<1>2. AllSound /\ [Next]_coins => AllSound'
  BY NextSound
<1> QED BY <1>1, <1>2, InitSound, PTL DEF Spec

(* A CAT whose inner solution reveals a TAIL is locked by the puzzle of    *)
(* that TAIL, at once where the solution was given and after one copy      *)
(* where the constructor made it.                                          *)
THEOREM RevealedIsCurried == ASSUME NullIsNoFunction PROVE Spec => []RevealedTAILIsCurried
<1>1. AllSound => RevealedTAILIsCurried
  <2> SUFFICES ASSUME AllSound, NEW o \in CATs,
                      Cat!Derives(o.it.syntheticKey, o.it.innerSolution)
               PROVE  LET it == IF o.given.innerSolution # Null THEN o.it
                                ELSE Cat!New(Cat!CopyArgs(o.it, NoArgs))
                      IN  it.puzzle = CATPuzzle(
                            sha256tree(Cat!Revealed(it.innerSolution).TAILProgram),
                            it.innerPuzzle)
    BY DEF RevealedTAILIsCurried
  <2>1. PICK p : MadeOf(o, p) /\ \E solution : o.it = CatWith(p, Inner(p), solution)
    BY CatKnown
  <2>2. /\ o.it.syntheticKey = p.syntheticKey /\ o.it.innerSolution = Inner(p)
        /\ o.it.puzzle = Puzzle(p) /\ o.it.innerPuzzle = InnerPuzzle(p)
    BY <2>1 DEF CatWith
  <2>3. CASE o.given.innerSolution # Null
    <3>1. p.innerSolution = o.given.innerSolution
      BY <2>1, <2>3 DEF MadeOf
    <3>2. Inner(p) = p.innerSolution
      BY <2>3, <3>1 DEF Inner, Builds, Cat!BuildsInnerSolution
    <3>3. Derived(p)
      BY <2>2, <3>2 DEF Derived
    <3> QED BY <2>2, <2>3, <3>3, DerivedPuzzle
  <2>4. CASE o.given.innerSolution = Null
    <3> DEFINE t == Taken(p)
    <3>1. Derived(t)
      BY <2>2 DEF Derived, Taken
    <3>2. Cat!New(Cat!CopyArgs(o.it, NoArgs)) = CatOf(t)
      BY <2>1, TakenParts DEF MadeOf
    <3> HIDE DEF t
    <3>3. /\ CatOf(t).puzzle = Puzzle(t) /\ CatOf(t).innerPuzzle = InnerPuzzle(t)
          /\ CatOf(t).innerSolution = Inner(t)
      BY DEF CatOf, CatWith
    <3> QED BY <2>4, <3>1, <3>2, <3>3, DerivedPuzzle
  <2> QED BY <2>3, <2>4
<1>2. AllSound /\ [Next]_coins => AllSound'
  BY NextSound
<1> QED BY <1>1, <1>2, InitSound, PTL DEF Spec

(* The solution of a CAT names the coin it spends, and no coin of an       *)
(* earlier object of the chain of calls, as its neighbours too.            *)
THEOREM NamesItself == ASSUME NullIsNoFunction PROVE Spec => []SolutionNamesItself
<1>1. AllSound => SolutionNamesItself
  <2> SUFFICES ASSUME AllSound, NEW o \in CATs, o.it.solution # Null
               PROVE  LET coin == Smart!toCoin(o.it)
                      IN  /\ o.it.solution.thisCoin = coin
                          /\ o.given.prevCoinId = Null => o.it.solution.prevCoinId = getId(coin)
                          /\ o.given.nextCoin = Null => o.it.solution.nextCoin = coin
    BY DEF SolutionNamesItself
  <2>1. PICK p : MadeOf(o, p)
    BY CatKnown
  <2>2. /\ o.it.solution = Solution(p) /\ o.it.parentCoinInfo = p.parentCoinInfo
        /\ o.it.puzzleHash = Hash(p) /\ o.it.amount = p.amount
    BY <2>1 DEF MadeOf, CatWith
  <2>3. Smart!toCoin(o.it) = ThisCoin(p)
    BY <2>2 DEF Smart!toCoin, Smart!hasCoinInfo, ThisCoin, Coin, Smart!Coin
  <2>4. Solution(p) = CATSolution(Inner(p), Cat!lineageProofToProgram(p.lineageProof),
                     Or(p.prevCoinId, getId(ThisCoin(p))), ThisCoin(p),
                     Or(p.nextCoin, ThisCoin(p)), Or(p.prevSubtotal, 0), Or(p.extraDelta, 0))
    BY <2>2 DEF Solution
  <2>5. /\ o.given.prevCoinId = Null => p.prevCoinId = Null
        /\ o.given.nextCoin = Null => p.nextCoin = Null
    BY <2>1 DEF MadeOf
  <2> QED BY <2>2, <2>3, <2>4, <2>5 DEF CATSolution, Or
<1>2. AllSound /\ [Next]_coins => AllSound'
  BY NextSound
<1> QED BY <1>1, <1>2, InitSound, PTL DEF Spec
=============================================================================
