-------------------------- MODULE MCLeafletProvider --------------------------
(* Instances of LeafletProvider for TLC. *)
EXTENDS LeafletProvider
CONSTANTS h1, h2, upper, short, zeros

(* "upper" is h1 in upper case, which validateHashString accepts; "short"  *)
(* is no hash, and the zeros it is padded to come back.                    *)
ValidHashes == {h1, h2, upper}
Echoes == [h \in {h1, h2, upper, short} |->
             IF h = upper THEN h1 ELSE IF h = short THEN zeros ELSE h]

With(m, hash, height, scope) == [method |-> m, hash |-> hash, height |-> height, scope |-> scope]

(* Calls of every method; most come twice with one argument changed.       *)
EveryMethod ==
    {  With("getBalance", h1, 1, NoList), With("getBalance", upper, 1, NoList),
       With("getBalance", NoHash, 1, NoList),
       With("subscribeToPuzzleHashUpdates", h1, 1, NoList),
       With("subscribeToCoinUpdates", h1, 1, NoList),
       With("getPuzzleSolution", h1, 1, NoList), With("getPuzzleSolution", h1, 2, NoList),
       With("getPuzzleSolution", short, 1, NoList), With("getCoinChildren", h1, 1, NoList),
       With("getBlockHeader", h1, 1, NoList), With("getBlockHeader", h1, 2, NoList),
       With("getBlocksHeaders", h1, 1, h1), With("getBlocksHeaders", h1, 1, h2),
       With("getCoinRemovals", h1, 1, NoList), With("getCoinChildren", h2, 1, NoList),
       With("getCoinAdditions", h1, 1, NoList), With("getCoinAdditions", h1, 2, NoList),
       With("getCoinAdditions", h1, 1, short), With("getCoinAdditions", h1, 1, h2),
       With("pushSpendBundle", h1, 1, NoList) }

(* Calls whose replies look the same: with and without a list of hashes.   *)
LookAlikes ==
    {  With("getCoinRemovals", h1, 1, NoList), With("getCoinRemovals", h1, 1, h1),
       With("getCoinAdditions", h1, 1, NoList), With("getCoinAdditions", h1, 1, h2) }
=============================================================================
