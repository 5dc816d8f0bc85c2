---------------------------- MODULE MCCoinBuilders -----------------------------
(* Instances of CoinBuilders for TLC. *)
EXTENDS CoinBuilders, TLC
CONSTANTS x, p1, p2, z1, z2, k1, k2, t1, t2, u, l1, l2, i1, i2, memo

ZeroX(h) == [hash |-> h, zeroX |-> TRUE]
Reveal(t, s) == [TAILProgram |-> t, TAILSolution |-> s]
Condition == [op |-> memo]
Proof(parent, inner, amount) ==
    [parentName |-> parent, innerPuzzleHash |-> inner, amount |-> amount]

SomeCoin == Coin(ZeroX(p2), ZeroX(z2), 2)
OtherCoin == Coin(Plain(p1), ZeroX(z1), 1)

OfAll(p) ==
    CASE p = "parentCoinInfo" -> {Plain(p1)}
      [] p = "puzzleHash" -> {Plain(z1), ZeroX(z1)}
      [] p = "amount" -> {0}
      [] p = "puzzle" -> {z1, z2}
      [] p = "solution" -> {Opaque}
      [] p = "publicKey" -> {k1}
      [] p = "syntheticKey" -> {calculateSyntheticPublicKey(k2)}
      [] p = "innerSolution" -> {Opaque}
      [] p = "lineageProof" -> {Proof(ZeroX(p1), Null, 1), Proof(Plain(p1), Plain(z1), 0)}
      [] p = "launcherId" -> {Plain(l1), ZeroX(l2)}
      [] p = "innerPuzzle" -> {i1, i2}
      [] OTHER -> {}
(* A CAT has more parameters: fewer values of those it shares. *)
OfCAT(p) ==
    CASE p = "puzzleHash" -> {ZeroX(z1)}
      [] p \in {"amount", "puzzle", "solution"} -> OfAll(p)
      [] p = "publicKey" -> {k1}
      [] p = "TAILProgramHash" -> {ZeroX(t1)}
      [] p = "innerSolution" -> {standardCoinSolution(<< Malformed, Reveal(t1, u) >>),
                                 standardCoinSolution(<< Reveal(t1, u) >>), Opaque}
      [] p = "extraDelta" -> {-1}
      [] p = "TAILProgram" -> {t1, t2}
      [] p = "TAILSolution" -> {u, Nil}
      [] OTHER -> {}
MCValues == [class \in Classes |->
                [p \in Parameters |-> IF class = "CAT" THEN OfCAT(p) ELSE OfAll(p)]]

OneCoin == Given("coin", SomeCoin)
OneCAT == [OneCoin EXCEPT !.extraDelta = 0, !.lineageProof = Proof(Plain(p1), ZeroX(z1), 1)]
MCConstructions ==
    [class \in Classes |->
        CASE class = "CAT" -> {OneCAT,
                               [OneCAT EXCEPT !.publicKey = k1, !.TAILProgram = t2,
                                              !.TAILSolution = u, !.extraDelta = -1]}
          [] class = "Singleton" -> {NoArgs, [OneCoin EXCEPT !.launcherId = Plain(l1),
                                                 !.innerSolution = Opaque,
                                                 !.lineageProof = Proof(Plain(p1), Null, 1)]}
          [] OTHER -> {NoArgs, OneCoin}]
MCCopies == {OneCoin, [NoArgs EXCEPT !.nextCoin = OtherCoin, !.prevCoinId = ZeroX(p2)]}
MCCurried == {<< memo >>}
MCAdditions == {<< Condition >>}
=============================================================================
