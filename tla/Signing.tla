-------------------------------- MODULE Signing --------------------------------
(***************************************************************************)
(* PrivateKeyProvider.signCoinSpends and changeNetwork                     *)
(* (src/xch/providers/private_key/private_key_provider.ts), and            *)
(* SpendModule.merge (src/spend/index.ts): the spends that SpendBundle     *)
(* made are signed, each by a provider that holds one key, and put         *)
(* together again.                                                         *)
(*                                                                         *)
(* A signature is the sequence of the <<key, message>> pairs aggregated in *)
(* it.  A key is its holder's public key; the hash of what a standard      *)
(* puzzle is to do is the list of its conditions.                          *)
(***************************************************************************)
EXTENDS SpendBundle

CONSTANTS
    KeyOf,            \* KeyOf[c]: the synthetic key of c's standard puzzle
    Owners,           \* the providers, each by its key
    StartNetwork,     \* StartNetwork[o]: the network of a new provider
    Genesis,          \* Genesis[n]: the genesis challenge of a network in the table
    Custom,           \* a custom genesis challenge
    NoBundle,         \* no bundle was merged
    MaxSpends,        \* bound: spends that are signed
    MaxPieces         \* bound: bundles and lists of spends merged

(* Nobody signs for the lack of a chain. *)
ASSUME ChallengesAssumption == NoBundle \notin {Custom} \cup {Genesis[n] : n \in DOMAIN Genesis}

VARIABLES
    network,   \* network[o]: the network of a provider
    pieces,    \* what there is to merge, in order
    bundle     \* the merged bundle

signing == <<network, pieces, bundle>>

InitSigning ==
    /\ Init
    /\ network = StartNetwork
    /\ pieces = <<>>
    /\ bundle = NoBundle

-----------------------------------------------------------------------------
(* What a puzzle returns: a standard puzzle, alone or in a CAT, asks for a *)
(* signature of what it does.                                              *)
aggSigMe(key, message) == [op |-> "AGG_SIG_ME", key |-> key, message |-> message]
aggSigUnsafe(key, message) == [op |-> "AGG_SIG_UNSAFE", key |-> key, message |-> message]

conditionsForSolution(spend) ==
    IF spend.coin \in Coins
    THEN << aggSigMe(KeyOf[spend.coin], spend.conditions) >> \o spend.conditions
    ELSE spend.conditions

WithOp(conditions, ops) == Filter(conditions, {d \in ToSet(conditions) : d.op \in ops})

(* conditionsByOpcode: the conditions with an opcode, in their order; those *)
(* of a list that does not parse are none.                                  *)
conditionsByOpcode(conditions, op) ==
    IF Parses(conditions) THEN WithOp(conditions, {op}) ELSE <<>>

(* The pairs a spend asks for; a signature of AGG_SIG_ME is good for one    *)
(* coin and one chain.                                                      *)
AnyCoin(spend, challenge) ==
    LET conditions == conditionsForSolution(spend)
        me == conditionsByOpcode(conditions, "AGG_SIG_ME")
    IN  [i \in 1..Len(me) |-> << me[i].key, << me[i].message, challenge >> >>]
pkmPairsForConditionsDict(spend, challenge) ==
    LET conditions == conditionsForSolution(spend)
        unsafe == conditionsByOpcode(conditions, "AGG_SIG_UNSAFE")
        me == conditionsByOpcode(conditions, "AGG_SIG_ME")
    IN  [i \in 1..Len(unsafe) |-> << unsafe[i].key, unsafe[i].message >>]
            \o [i \in 1..Len(me) |-> << me[i].key, << me[i].message, spend.coin, challenge >> >>]

(* What an owner signs of some spends: the pairs with its key. *)
OwnPairs(owner, pairs) == Filter(pairs, {pair \in ToSet(pairs) : pair[1] = owner})
Signature(owner, coinSpends, challenge) ==
    FlattenSeq([i \in 1..Len(coinSpends) |->
                   OwnPairs(owner, pkmPairsForConditionsDict(coinSpends[i], challenge))])

(* A consecutive part of the spends. *)
Parts == {SubSeq(spends, i, j) : i \in 1..Len(spends), j \in 1..Len(spends)} \ {<<>>}

Open ==
    /\ outcome = "returned" /\ Len(spends) <= MaxSpends
    /\ bundle = NoBundle /\ Len(pieces) < MaxPieces

(* It throws for a network that is not in its table. *)
getGenesisChallenge(n) == IF n \in DOMAIN Genesis THEN Genesis[n] ELSE Threw

(* An owner signs some of the spends. *)
signCoinSpends(o) ==
    /\ Open
    /\ \E part \in Parts, challenge \in {getGenesisChallenge(network[o]), Custom} \ {Threw} :
         pieces' = Append(pieces, [spends |-> part, by |-> o, challenge |-> challenge,
                                   signature |-> Signature(o, part, challenge)])
    /\ UNCHANGED <<network, bundle, vars>>

(* Spends that need no signature are merged as they are. *)
LeaveUnsigned ==
    /\ Open
    /\ \E part \in Parts :
         pieces' = Append(pieces, [spends |-> part, by |-> NoBundle, challenge |-> NoBundle,
                                   signature |-> <<>>])
    /\ UNCHANGED <<network, bundle, vars>>

(* A network that is not in the list of networks is refused. *)
changeNetwork(o) ==
    /\ Open
    /\ \E n \in DOMAIN Genesis : network' = [network EXCEPT ![o] = n]
    /\ UNCHANGED <<pieces, bundle, vars>>

(* merge: all spends in order, and all signatures; without things it throws. *)
LastSignature(parts) == parts[Len(parts)].signature
AllSignatures(parts) == FlattenSeq([i \in 1..Len(parts) |-> parts[i].signature])
merge ==
    /\ bundle = NoBundle /\ pieces # <<>>
    /\ bundle' = [spends |-> FlattenSeq([i \in 1..Len(pieces) |-> pieces[i].spends]),
                  signature |-> AllSignatures(pieces)]
    /\ UNCHANGED <<network, pieces, vars>>

SigningNext ==
    \/ Next /\ UNCHANGED signing
    \/ \E o \in Owners : signCoinSpends(o) \/ changeNetwork(o)
    \/ LeaveUnsigned
    \/ merge

SigningSpec == InitSigning /\ [][SigningNext]_<<vars, signing>>

-----------------------------------------------------------------------------
(* What the chain asks of a bundle: a pair for every AGG_SIG condition of   *)
(* every spend, no more and no less.                                        *)
Occurrences(x, s) == Cardinality({i \in 1..Len(s) : s[i] = x})
SameBag(s, t) == \A x \in ToSet(s) \cup ToSet(t) : Occurrences(x, s) = Occurrences(x, t)

AsksFor(spend, challenge) ==
    LET signed == WithOp(conditionsForSolution(spend), {"AGG_SIG_ME", "AGG_SIG_UNSAFE"})
    IN  [i \in 1..Len(signed) |->
            << signed[i].key,
               IF signed[i].op = "AGG_SIG_UNSAFE" THEN signed[i].message
               ELSE << signed[i].message, spend.coin, challenge >> >>]

(* A merged bundle carries the signature the chain asks for when each spend *)
(* was signed for that chain by the one owner whose keys it names, in       *)
(* whatever order and however the spends were divided: "merge ... into a    *)
(* single SpendBundle" (docs/spend/index.md:132).  Spends with conditions   *)
(* that do not parse are signed by nobody and valid nowhere.                *)
FullySigned ==
    bundle # NoBundle =>
        \A challenge \in {Custom} \cup {Genesis[n] : n \in DOMAIN Genesis} :
            (\A i \in 1..Len(pieces) : \A k \in 1..Len(pieces[i].spends) :
                LET spend == pieces[i].spends[k]
                IN  /\ Parses(spend.conditions)
                    /\ \A pair \in ToSet(AsksFor(spend, challenge)) :
                          pieces[i].by = pair[1] /\ pieces[i].challenge = challenge)
            => SameBag(bundle.signature,
                       FlattenSeq([i \in 1..Len(bundle.spends) |->
                                      AsksFor(bundle.spends[i], challenge)]))

(* A bundle holds no signature that a spend in it does not ask for on some  *)
(* chain an owner chose, and none of a key whose owner did not sign: what   *)
(* was signed for one coin or chain is of no use for another.               *)
NothingElseSigned ==
    bundle # NoBundle =>
        \A k \in 1..Len(bundle.signature) : \E i \in 1..Len(pieces) :
            /\ pieces[i].by = bundle.signature[k][1]
            /\ \E j \in 1..Len(pieces[i].spends) :
                  bundle.signature[k] \in ToSet(AsksFor(pieces[i].spends[j], pieces[i].challenge))
=============================================================================
