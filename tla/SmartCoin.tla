------------------------------- MODULE SmartCoin ------------------------------
(***************************************************************************)
(* SmartCoin (src/smart_coin.ts): a coin with its puzzle and its solution. *)
(* An object is a record of its attributes; args has a field, which may be *)
(* Null, for every parameter.                                              *)
(***************************************************************************)
EXTENDS CoinTerms

(* The puzzle hash given, unless there is a puzzle to take it of.          *)
GivenHash(puzzle, puzzleHash) == Or(puzzleHash, sha256tree(puzzle))
calculatePuzzleHash(puzzle, puzzleHash) ==
    IF puzzle = Null THEN puzzleHash ELSE sha256tree(puzzle)

(* The constructor; calculatePuzzleHash is its last step. *)
New(args) ==
    LET info == Or(args.coin, args)
    IN  [parentCoinInfo |-> dehexlify(info.parentCoinInfo),
         puzzleHash |-> calculatePuzzleHash(args.puzzle, dehexlify(info.puzzleHash)),
         amount |-> info.amount,
         puzzle |-> args.puzzle,
         solution |-> args.solution]

(* A puzzle hash other than the one of the puzzle drops the puzzle.        *)
CopyWith(this, args) ==
    LET givePuzzle == \/ args.puzzle # Null
                      \/ args.puzzleHash # Null /\ this.puzzleHash # args.puzzleHash
    IN  New([parentCoinInfo |-> Or(args.parentCoinInfo, this.parentCoinInfo),
             puzzleHash |-> Or(args.puzzleHash, this.puzzleHash),
             amount |-> Or(args.amount, this.amount),
             puzzle |-> IF givePuzzle THEN args.puzzle ELSE this.puzzle,
             coin |-> args.coin,
             solution |-> Or(args.solution, this.solution)])

(* The arguments of the with-methods: each is copyWith of one argument.    *)
With == {"parentCoinInfo", "puzzleHash", "amount", "puzzle", "solution"}

hasCoinInfo(this) ==
    this.parentCoinInfo # Null /\ this.puzzleHash # Null /\ this.amount # Null
toCoin(this) ==
    IF hasCoinInfo(this) THEN Coin(this.parentCoinInfo, this.puzzleHash, this.amount) ELSE Null
isSpendable(this) == hasCoinInfo(this) /\ this.puzzle # Null /\ this.solution # Null
spend(this) ==
    IF isSpendable(this)
    THEN [coin |-> toCoin(this), puzzleReveal |-> this.puzzle, solution |-> this.solution]
    ELSE Null

(* A coin that lacks a field passes none of them to the curried one.       *)
CurryCoin(this, args) ==
    New([parentCoinInfo |-> Null, puzzleHash |-> Null, amount |-> Null, coin |-> toCoin(this),
         puzzle |-> curry(this.puzzle, args), solution |-> Null])
=============================================================================
