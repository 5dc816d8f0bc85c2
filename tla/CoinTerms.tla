------------------------------ MODULE CoinTerms -------------------------------
(***************************************************************************)
(* What the classes of coins are made of (src/util/index.ts, util/coin.ts, *)
(* util/sexp/index.ts): hex strings, puzzles, solutions, coins.            *)
(*                                                                         *)
(* A hash is the thing hashed: sha256 is taken to be free of collisions.   *)
(* A hex string is [hash, zeroX]: two strings of one hash may differ by    *)
(* the prefix "0x".  A puzzle is the module and what is curried into it.   *)
(***************************************************************************)
EXTENDS Integers, Sequences

CONSTANTS
    Null,      \* null and undefined
    Opaque     \* a solution that is not (() (q . conditions) ()), such as ()

(* The parameters of the constructors, and a call that gives one of them.  *)
Parameters ==
    {"parentCoinInfo", "puzzleHash", "amount", "coin", "puzzle", "solution",
     "publicKey", "syntheticKey", "TAILProgramHash", "innerSolution", "prevCoinId", "nextCoin",
     "prevSubtotal", "extraDelta", "TAILProgram", "TAILSolution", "lineageProof",
     "launcherId", "innerPuzzle"}
NoArgs == [p \in Parameters |-> Null]
Given(p, value) == [NoArgs EXCEPT ![p] = value]

(* a ?? b *)
Or(a, b) == IF a # Null THEN a ELSE b

Plain(h) == [hash |-> h, zeroX |-> FALSE]
dehexlify(s) == IF s = Null THEN Null ELSE [s EXCEPT !.zeroX = FALSE]

sha256tree(program) == Plain(program)

(* Of a public key, the key that also lets the hidden puzzle spend. *)
calculateSyntheticPublicKey(pk) == [synthetic |-> pk]

curry(program, args) == [mod |-> program, curried |-> args]

standardCoinPuzzle(syntheticKey) == curry("p2_delegated_puzzle_or_hidden_puzzle", <<syntheticKey>>)
CATPuzzle(TAILProgramHash, innerPuzzle) == curry("cat", <<TAILProgramHash, innerPuzzle>>)
singletonPuzzle(launcherId, innerPuzzle) ==
    curry("singleton_top_layer_v1_1", <<launcherId, innerPuzzle>>)

(* (() (q . conditions) ()) *)
standardCoinSolution(conditions) == [conditions |-> conditions]
CATSolution(inner, lineageProof, prevCoinId, thisCoin, nextCoin, prevSubtotal, extraDelta) ==
    [inner |-> inner, lineageProof |-> lineageProof, prevCoinId |-> prevCoinId,
     thisCoin |-> thisCoin, nextCoin |-> nextCoin,
     prevSubtotal |-> prevSubtotal, extraDelta |-> extraDelta]
singletonSolution(lineageProof, amount, inner) ==
    [inner |-> inner, lineageProof |-> lineageProof, amount |-> amount]

Coin(parentCoinInfo, puzzleHash, amount) ==
    [parentCoinInfo |-> parentCoinInfo, puzzleHash |-> puzzleHash, amount |-> amount]
getId(coin) == Plain(coin)

SwapsHashes(proof) ==
    IF proof = Null THEN Null
    ELSE [amount |-> proof.amount, parentName |-> dehexlify(proof.innerPuzzleHash),
          innerPuzzleHash |-> dehexlify(proof.parentName)]
(* What both constructors that take a lineage proof keep of it: an amount  *)
(* of 0 given as a number is falsy.                                        *)
StoredProof(proof) ==
    IF proof = Null THEN Null
    ELSE [amount |-> IF proof.amount = 0 THEN Null ELSE proof.amount,
          parentName |-> dehexlify(proof.parentName),
          innerPuzzleHash |-> dehexlify(proof.innerPuzzleHash)]
=============================================================================
