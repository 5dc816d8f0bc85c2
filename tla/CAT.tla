--------------------------------- MODULE CAT ----------------------------------
(***************************************************************************)
(* CAT (src/cat.ts): a coin whose puzzle wraps the standard puzzle of a    *)
(* synthetic key in the CAT layer of an asset, which its TAIL program      *)
(* names.  A condition [TAILProgram, TAILSolution] stands for the          *)
(* (CREATE_COIN _ -113 TAILProgram TAILSolution) that reveals the TAIL.    *)
(***************************************************************************)
EXTENDS CoinTerms

CONSTANTS
    Nil,         \* (), a TAIL solution that is an empty atom
    Malformed    \* a condition that parseSExpToCondition refuses

Super == INSTANCE SmartCoin

KeyGiven(args) ==
    IF args.publicKey # Null THEN calculateSyntheticPublicKey(args.publicKey)
    ELSE args.syntheticKey

IsReveal(c) == c # Malformed /\ "TAILProgram" \in DOMAIN c

(* What deriveTAILProgramAndSolutionFromSolution takes from the conditions *)
(* of the solution: the first reveal.  An opaque solution does not run,    *)
(* and one malformed condition makes conditionsDictForSolution fail.       *)
Reveals(solution) ==
    {i \in 1..Len(solution.conditions) :
        /\ IsReveal(solution.conditions[i])
        /\ \A k \in 1..(i - 1) : ~IsReveal(solution.conditions[k])}
Revealed(solution) == solution.conditions[CHOOSE i \in Reveals(solution) : TRUE]
Derives(key, solution) ==
    /\ key # Null /\ solution # Null /\ solution # Opaque
    /\ \A i \in 1..Len(solution.conditions) : solution.conditions[i] # Malformed
    /\ Reveals(solution) # {}

(* The atom () is read back as no bytes at all, and fromHex("") throws.    *)
NewThrows(args) ==
    /\ Derives(KeyGiven(args), args.innerSolution)
    /\ Revealed(args.innerSolution).TAILSolution = Nil

lineageProofToProgram(proof) ==
    IF proof = Null \/ proof.amount = Null \/ proof.innerPuzzleHash = Null
                    \/ proof.parentName = Null
    THEN Null
    ELSE Coin(proof.parentName, proof.innerPuzzleHash, proof.amount)

(* constructInnerSolution *)
BuildsInnerSolution(innerSolution, program, solution, extraDelta) ==
    innerSolution = Null /\ program # Null /\ solution # Null /\ extraDelta \notin {Null, 0}
Reveal(program, solution) == [TAILProgram |-> program, TAILSolution |-> solution]

(* The hash constructPuzzle finds: a TAIL that was derived has set it.     *)
HashAsGiven(derives, program, TAILProgramHash) == dehexlify(TAILProgramHash)
HashForPuzzle(derives, program, TAILProgramHash) ==
    IF derives THEN sha256tree(program) ELSE dehexlify(TAILProgramHash)

(* The coin constructSolution finds: with the hash of the puzzle.          *)
CoinAsGiven(base, puzzleHash) == Super!toCoin(base)
ItsCoin(base, puzzleHash) == Super!toCoin([base EXCEPT !.puzzleHash = puzzleHash])

(* The constructor, by the order of its last five steps: the TAIL is       *)
(* derived (with its hash), the inner solution built, the puzzle made of   *)
(* the hash there is, the hash taken again, the solution constructed.      *)
New(args) ==
    LET base == Super!New([parentCoinInfo |-> args.parentCoinInfo,
                           puzzleHash |-> args.puzzleHash, amount |-> args.amount,
                           coin |-> args.coin, puzzle |-> Null, solution |-> Null])
        proof == StoredProof(args.lineageProof)
        nextCoin == IF args.nextCoin = Null THEN Null
                    ELSE Coin(dehexlify(args.nextCoin.parentCoinInfo),
                              dehexlify(args.nextCoin.puzzleHash), args.nextCoin.amount)
        prevCoinId == dehexlify(args.prevCoinId)
        key == KeyGiven(args)
        innerPuzzle == IF key = Null THEN Null ELSE standardCoinPuzzle(key)
        derives == Derives(key, args.innerSolution)
        revealed == Revealed(args.innerSolution)
        program == IF derives THEN revealed.TAILProgram ELSE args.TAILProgram
        programSolution == IF derives THEN revealed.TAILSolution ELSE args.TAILSolution
        derivedHash == HashForPuzzle(derives, program, args.TAILProgramHash)
        innerSolution ==
            IF BuildsInnerSolution(args.innerSolution, program, programSolution, args.extraDelta)
            THEN standardCoinSolution(<< Reveal(program, programSolution) >>)
            ELSE args.innerSolution
        puzzle == IF derivedHash = Null \/ innerPuzzle = Null THEN Null
                  ELSE CATPuzzle(derivedHash, innerPuzzle)
        puzzleHash == Super!calculatePuzzleHash(puzzle, base.puzzleHash)
        thisCoin == ItsCoin(base, puzzleHash)
    IN  [parentCoinInfo |-> base.parentCoinInfo,
         puzzleHash |-> puzzleHash,
         amount |-> base.amount,
         puzzle |-> puzzle,
         solution |-> IF innerSolution = Null \/ thisCoin = Null THEN Null
                      ELSE CATSolution(innerSolution, lineageProofToProgram(proof),
                                       Or(prevCoinId, getId(thisCoin)), thisCoin,
                                       Or(nextCoin, thisCoin),
                                       Or(args.prevSubtotal, 0), Or(args.extraDelta, 0)),
         TAILProgramHash |-> IF program = Null THEN derivedHash ELSE sha256tree(program),
         innerPuzzle |-> innerPuzzle,
         innerPuzzleHash |-> IF innerPuzzle = Null THEN Null ELSE sha256tree(innerPuzzle),
         syntheticKey |-> key,
         innerSolution |-> innerSolution,
         prevCoinId |-> prevCoinId,
         nextCoin |-> nextCoin,
         prevSubtotal |-> args.prevSubtotal,
         extraDelta |-> args.extraDelta,
         TAILProgram |-> program,
         TAILSolution |-> programSolution,
         lineageProof |-> proof]

(* The arguments that copyWith passes to the constructor.                  *)
CopyArgs(this, args) ==
    [p \in Parameters |->
        IF p \in {"coin", "publicKey"} THEN args[p]
        ELSE IF p \in DOMAIN this THEN Or(args[p], this[p]) ELSE Null]
CopyWith(this, args) == New(CopyArgs(this, args))

(* withPuzzle and withSolution are inherited; this copyWith drops their    *)
(* argument.                                                               *)
With == {"parentCoinInfo", "puzzleHash", "amount", "TAILProgramHash", "publicKey",
         "syntheticKey", "innerSolution", "extraDelta", "TAILProgram", "TAILSolution",
         "lineageProof", "puzzle", "solution"}

(* addConditionsToInnerSolution *)
SolutionSet(this) ==
    [this EXCEPT !.innerSolution = Or(this.innerSolution, standardCoinSolution(<<>>))]
ConditionsArgs(this, conditions) ==
    CopyArgs(SolutionSet(this),
             Given("innerSolution", standardCoinSolution(
                                        SolutionSet(this).innerSolution.conditions \o conditions)))
=============================================================================
