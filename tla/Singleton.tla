------------------------------ MODULE Singleton -------------------------------
(***************************************************************************)
(* Singleton (src/singleton.ts): a coin whose puzzle wraps an inner puzzle *)
(* in the singleton layer of a launcher.                                   *)
(***************************************************************************)
EXTENDS CoinTerms

Super == INSTANCE SmartCoin

(* The proof of an eve spend has no inner puzzle hash.                     *)
lineageProofToSExpForSolution(proof) ==
    <<proof.parentName>>
        \o (IF proof.innerPuzzleHash = Null THEN <<>> ELSE <<proof.innerPuzzleHash>>)
        \o <<proof.amount>>

HasSolution(amount, proof, innerSolution) ==
    /\ proof # Null /\ amount # Null /\ innerSolution # Null
    /\ proof.parentName # Null /\ proof.amount # Null

(* The constructor: calculateInnerPuzzleHash, constructPuzzle and          *)
(* constructSolution, in this order.                                       *)
New(args) ==
    LET base == Super!New([parentCoinInfo |-> args.parentCoinInfo,
                           puzzleHash |-> args.puzzleHash, amount |-> args.amount,
                           coin |-> args.coin, puzzle |-> Null, solution |-> Null])
        launcherId == dehexlify(args.launcherId)
        proof == StoredProof(args.lineageProof)
        puzzle == IF launcherId = Null \/ args.innerPuzzle = Null THEN Null
                  ELSE singletonPuzzle(launcherId, args.innerPuzzle)
    IN  [parentCoinInfo |-> base.parentCoinInfo,
         puzzleHash |-> Super!calculatePuzzleHash(puzzle, base.puzzleHash),
         amount |-> base.amount,
         puzzle |-> puzzle,
         solution |-> IF ~HasSolution(base.amount, proof, args.innerSolution) THEN Null
                      ELSE singletonSolution(lineageProofToSExpForSolution(proof),
                                             base.amount, args.innerSolution),
         launcherId |-> launcherId,
         innerPuzzle |-> args.innerPuzzle,
         innerPuzzleHash |-> IF args.innerPuzzle = Null THEN Null
                             ELSE sha256tree(args.innerPuzzle),
         lineageProof |-> proof,
         innerSolution |-> args.innerSolution]

CopyWith(this, args) ==
    New([parentCoinInfo |-> Or(args.parentCoinInfo, this.parentCoinInfo),
         puzzleHash |-> Or(args.puzzleHash, this.puzzleHash),
         amount |-> Or(args.amount, this.amount),
         coin |-> args.coin,
         launcherId |-> Or(args.launcherId, this.launcherId),
         innerPuzzle |-> Or(args.innerPuzzle, this.innerPuzzle),
         lineageProof |-> Or(args.lineageProof, this.lineageProof),
         innerSolution |-> Or(args.innerSolution, this.innerSolution)])

(* withPuzzle and withSolution are inherited; this copyWith drops their    *)
(* argument.                                                               *)
With == {"parentCoinInfo", "puzzleHash", "amount", "launcherId", "innerPuzzle",
         "lineageProof", "innerSolution", "puzzle", "solution"}
=============================================================================
