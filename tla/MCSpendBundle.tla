----------------------------- MODULE MCSpendBundle -----------------------------
(* Instances of Signing, and so of SpendBundle, for TLC. *)
EXTENDS Signing
CONSTANTS c1, c2, c3, foreign, broken, s1, s2, bare, odd, red, blue, o1, o2, o3, back,
          p1, p2, alice, bob, text

Coin(kind, amount, tail, extra, own, whole) ==
    [kind |-> kind, amount |-> amount, tail |-> tail, extraDelta |-> extra, own |-> own,
     whole |-> whole, takes |-> TRUE]

MinusOneHundredThirteen == -113

(* Three CATs of one asset, one of which melts 1 and one of which gives    *)
(* itself change, one of another asset, one without a puzzle; two standard *)
(* coins, the second of which asks for a signature of its own, one without *)
(* a puzzle, and one whose solution has not three elements.                *)
CoinInfo ==
    (c1 :> Coin("CAT", 2, red, 0, <<>>, TRUE)) @@
    (c2 :> Coin("CAT", 3, red, -1, << createCoin(o3, MinusOneHundredThirteen) >>, TRUE)) @@
    (c3 :> Coin("CAT", 4, red, 0, << createCoin(back, 1) >>, TRUE)) @@
    (foreign :> Coin("CAT", 1, blue, 0, <<>>, TRUE)) @@
    (broken :> Coin("CAT", 1, red, 0, <<>>, FALSE)) @@
    (s1 :> Coin("standard", 5, red, 0, <<>>, TRUE)) @@
    (s2 :> Coin("standard", 6, red, 0, << aggSigUnsafe(alice, text) >>, TRUE)) @@
    (bare :> Coin("standard", 7, red, 0, <<>>, FALSE)) @@
    (odd :> [Coin("standard", 8, red, 0, <<>>, TRUE) EXCEPT !.takes = FALSE])

(* Bob owns the coins that ask for no other key. *)
Keys == [c \in Coins |-> IF c \in {c1, s2} THEN alice ELSE bob]

Challenges == ("mainnet" :> "ccd5bb71") @@ ("testnet10" :> "ae83525b")

(* Bob's provider starts with a network that has no genesis challenge. *)
Start == (alice :> "mainnet") @@ (bob :> "nowhere")

(* The totals that some choices of CATs have. *)
CATChoices == { << createCoin(o1, n) >> : n \in 1..7 } \cup
              { << createCoin(o1, n), createCoin(o2, 1) >> : n \in {3, 5, 6} } \cup
              { << createCoin(o1, 2), Empty >> }
StandardChoices == { <<>>, << createCoin(o3, 4) >> }
LaunchChoices == { <<>>, << createCoin(o3, 4) >>, << Empty >> }
=============================================================================
