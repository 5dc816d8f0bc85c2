----------------------------- MODULE StandardCoin -----------------------------
(***************************************************************************)
(* StandardCoin (src/standard_coin.ts): a coin whose puzzle is the         *)
(* standard one of a synthetic key.                                        *)
(***************************************************************************)
EXTENDS CoinTerms

Super == INSTANCE SmartCoin

SyntheticFirst(args) ==
    IF args.syntheticKey # Null \/ args.publicKey = Null THEN args.syntheticKey
    ELSE calculateSyntheticPublicKey(args.publicKey)
(* The key given: the public key, made synthetic, before the synthetic key.*)
KeyGiven(args) ==
    IF args.publicKey # Null THEN calculateSyntheticPublicKey(args.publicKey)
    ELSE args.syntheticKey

(* The constructor: what it passes to super() has no puzzle, and the       *)
(* puzzle of the key replaces the puzzle hash given.                       *)
New(args) ==
    LET key == KeyGiven(args)
        base == Super!New([parentCoinInfo |-> args.parentCoinInfo,
                           puzzleHash |-> args.puzzleHash, amount |-> args.amount,
                           coin |-> args.coin, solution |-> args.solution,
                           puzzle |-> Null])
        puzzle == IF key = Null THEN Null ELSE standardCoinPuzzle(key)
    IN  [parentCoinInfo |-> base.parentCoinInfo,
         puzzleHash |-> Super!calculatePuzzleHash(puzzle, base.puzzleHash),
         amount |-> base.amount,
         puzzle |-> puzzle,
         solution |-> base.solution,
         syntheticKey |-> key]

CopyWith(this, args) ==
    New([parentCoinInfo |-> Or(args.parentCoinInfo, this.parentCoinInfo),
         puzzleHash |-> Or(args.puzzleHash, this.puzzleHash),
         amount |-> Or(args.amount, this.amount),
         solution |-> Or(args.solution, this.solution),
         coin |-> args.coin,
         publicKey |-> args.publicKey,
         syntheticKey |-> Or(args.syntheticKey, this.syntheticKey)])

(* withPuzzle is inherited; this copyWith drops its argument. *)
With == {"parentCoinInfo", "puzzleHash", "amount", "publicKey", "syntheticKey",
         "puzzle", "solution"}

(* addConditionsToSolution: a null solution is first set on the object     *)
(* itself, and the method returns the object if the solution is opaque.    *)
SolutionSet(this) ==
    [this EXCEPT !.solution = Or(this.solution, standardCoinSolution(<<>>))]
AddConditions(this, conditions) ==
    CopyWith(SolutionSet(this),
             Given("solution", standardCoinSolution(
                                   SolutionSet(this).solution.conditions \o conditions)))
=============================================================================
