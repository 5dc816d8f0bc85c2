------------------------------ MODULE WalletTypes ------------------------------
(***************************************************************************)
(* The classes of src/util/serializer/types: the fields of each, in the    *)
(* order they are declared, without their names.                           *)
(***************************************************************************)
EXTENDS Serializer

Coin == Bytes(32) ++ Bytes(32) ++ Uint(64)
CoinSpend == Coin ++ SExp ++ SExp
SpendBundle == List(CoinSpend) ++ Bytes(96)
PoolTarget == Bytes(32) ++ Uint(32)
ProofOfSpace ==
    Bytes(32) ++ Optional(Bytes(48)) ++ Optional(Bytes(32)) ++ Bytes(48) ++ Uint(8) ++ Blob
VDFInfo == Bytes(32) ++ Uint(64) ++ Bytes(100)
VDFProof == Uint(8) ++ Blob ++ Boolean
ChallengeBlockInfo ==
    ProofOfSpace ++ Optional(VDFInfo) ++ Bytes(96) ++ VDFInfo
ChallengeChainSubSlot ==
    VDFInfo ++ Optional(Bytes(32)) ++ Optional(Bytes(32)) ++ Optional(Uint(64))
        ++ Optional(Uint(64))
InfusedChallengeChainSubSlot == VDFInfo
RewardChainSubSlot ==
    VDFInfo ++ Bytes(32) ++ Optional(Bytes(32)) ++ Uint(8)
SubSlotProofs == VDFProof ++ Optional(VDFProof) ++ VDFProof
EndOfSubSlotBundle ==
    ChallengeChainSubSlot ++ Optional(InfusedChallengeChainSubSlot) ++ RewardChainSubSlot
        ++ SubSlotProofs
TransactionsInfo ==
    Bytes(32) ++ Bytes(32) ++ Bytes(96) ++ Uint(64) ++ Uint(64) ++ List(Coin)
FoliageTransactionBlock ==
    Bytes(32) ++ Uint(64) ++ Bytes(32) ++ Bytes(32) ++ Bytes(32) ++ Bytes(32)
FoliageBlockData ==
    Bytes(32) ++ PoolTarget ++ Optional(Bytes(96)) ++ Bytes(32) ++ Bytes(32)
Foliage ==
    Bytes(32) ++ Bytes(32) ++ FoliageBlockData ++ Bytes(96) ++ Optional(Bytes(32))
        ++ Optional(Bytes(96))
RewardChainBlock ==
    Uint(128) ++ Uint(32) ++ Uint(128) ++ Uint(8) ++ Bytes(32) ++ ProofOfSpace
        ++ Optional(VDFInfo) ++ Bytes(96) ++ VDFInfo ++ Optional(VDFInfo) ++ Bytes(96)
        ++ VDFInfo ++ Optional(VDFInfo) ++ Boolean
HeaderBlock ==
    List(EndOfSubSlotBundle) ++ RewardChainBlock ++ Optional(VDFProof) ++ VDFProof
        ++ Optional(VDFProof) ++ VDFProof ++ Optional(VDFProof) ++ Foliage
        ++ Optional(FoliageTransactionBlock) ++ Blob ++ Optional(TransactionsInfo)
Message == Uint(8) ++ Optional(Uint(16)) ++ Blob
Handshake ==
    String ++ String ++ String ++ Uint(16) ++ Uint(8) ++ List(Uint(16) ** String)
RequestPuzzleSolution == Bytes(32) ++ Uint(32)
PuzzleSolutionResponse == Bytes(32) ++ Uint(32) ++ SExp ++ SExp
RespondPuzzleSolution == PuzzleSolutionResponse
RejectPuzzleSolution == Bytes(32) ++ Uint(32)
SendTransaction == SpendBundle
(* error is declared as Optional(fields.String), without its parentheses. *)
TransactionAck == Bytes(32) ++ Uint(8) ++ Optional(Unbuilt)
NewPeakWallet == Bytes(32) ++ Uint(32) ++ Uint(128) ++ Uint(32)
RequestBlockHeader == Uint(32)
RespondBlockHeader == HeaderBlock
RejectHeaderRequest == Uint(32)
RequestRemovals == Uint(32) ++ Bytes(32) ++ Optional(List(Bytes(32)))
RespondRemovals ==
    Uint(32) ++ Bytes(32) ++ List(Bytes(32) ** Optional(Coin))
        ++ Optional(List(Bytes(32) ** Blob))
RejectRemovalsRequest == Uint(32) ++ Bytes(32)
RequestAdditions ==
    Uint(32) ++ Optional(Bytes(32)) ++ Optional(List(Bytes(32)))
RespondAdditions ==
    Uint(32) ++ Bytes(32) ++ List(Bytes(32) ** List(Coin))
        ++ Optional(List(Bytes(32) ** Blob ** Optional(Blob)))
RejectAdditionsRequest == Uint(32) ++ Bytes(32)
RequestHeaderBlocks == Uint(32) ++ Uint(32)
RejectHeaderBlocks == Uint(32) ++ Uint(32)
RespondHeaderBlocks == Uint(32) ++ Uint(32) ++ List(HeaderBlock)
CoinState == Coin ++ Optional(Uint(32)) ++ Optional(Uint(32))
RegisterForPhUpdates == List(Bytes(32)) ++ Uint(32)
RespondToPhUpdates == List(Bytes(32)) ++ Uint(32) ++ List(CoinState)
RegisterForCoinUpdates == List(Bytes(32)) ++ Uint(32)
RespondToCoinUpdates == List(Bytes(32)) ++ Uint(32) ++ List(CoinState)
CoinStateUpdate == Uint(32) ++ Uint(32) ++ Bytes(32) ++ List(CoinState)
RequestChildren == Bytes(32)
RespondChildren == List(CoinState)
RequestSESInfo == Uint(32) ++ Uint(32)
RespondSESInfo == List(Bytes(32)) ++ List(List(Uint(32)))

(* The classes that are sent or received whole; they reach all the others. *)
Class ==
    [Message |-> Message, Handshake |-> Handshake,
     RequestPuzzleSolution |-> RequestPuzzleSolution, RespondPuzzleSolution |-> RespondPuzzleSolution,
     RejectPuzzleSolution |-> RejectPuzzleSolution, SendTransaction |-> SendTransaction,
     TransactionAck |-> TransactionAck, NewPeakWallet |-> NewPeakWallet,
     RequestBlockHeader |-> RequestBlockHeader, RespondBlockHeader |-> RespondBlockHeader,
     RejectHeaderRequest |-> RejectHeaderRequest, RequestRemovals |-> RequestRemovals,
     RespondRemovals |-> RespondRemovals, RejectRemovalsRequest |-> RejectRemovalsRequest,
     RequestAdditions |-> RequestAdditions, RespondAdditions |-> RespondAdditions,
     RejectAdditionsRequest |-> RejectAdditionsRequest, RequestHeaderBlocks |-> RequestHeaderBlocks,
     RejectHeaderBlocks |-> RejectHeaderBlocks, RespondHeaderBlocks |-> RespondHeaderBlocks,
     RegisterForPhUpdates |-> RegisterForPhUpdates, RespondToPhUpdates |-> RespondToPhUpdates,
     RegisterForCoinUpdates |-> RegisterForCoinUpdates, RespondToCoinUpdates |-> RespondToCoinUpdates,
     CoinStateUpdate |-> CoinStateUpdate, RequestChildren |-> RequestChildren,
     RespondChildren |-> RespondChildren, RequestSESInfo |-> RequestSESInfo,
     RespondSESInfo |-> RespondSESInfo, ChallengeBlockInfo |-> ChallengeBlockInfo]

(* makeMsg: an object in its envelope, which has no id. *)
Envelope(type, class, object) == << << << type >>, Null >>, class.serialize[object] >>
makeMsg(type, class, object) == Message.serialize[Envelope(type, class, object)]
=============================================================================
