---------------------------- MODULE LeafletProvider ----------------------------
(***************************************************************************)
(* LeafletProvider (src/xch/providers/leaflet/leaflet_provider.ts): calls  *)
(* become requests to a node, and the messages that come back are matched  *)
(* to the waiting calls by their type and a few of their fields only.      *)
(*                                                                         *)
(* The message manager is used by what RequestService says of it, plus two *)
(* facts of its sockets: a new link carries every registered request       *)
(* again, and the old link may go on delivering (MessageManager.tla).      *)
(* A link delivers in order.  The operators named for what they drop are   *)
(* the faults the properties are tested against.                           *)
(***************************************************************************)
EXTENDS Integers, Sequences, FiniteSets

CONSTANTS
    Args,       \* the calls to choose from: method, hash, height, scope
    Valid,      \* what validateHashString accepts
    NoList,     \* no list of hashes: all the coins of a block
    Echo,       \* Echo[h]: hash h as the node sends it back (lower case)
    Childless,  \* the hashes of coins without children
    NoHash,     \* no hash: the parent of the first coin of an empty list, or
                \* what a call gives whose address does not decode or is left out
    None,       \* a call that has not returned
    Refused,    \* a call that returned without asking the node
    NoArgs,     \* a call not made yet
    MaxCalls,   \* bound: calls made
    MaxLinks,   \* bound: links made
    MaxQueue,   \* bound: messages in flight on a link
    MaxPeak,    \* bound: height of the chain
    MaxChanges  \* bound: changes of coins

Methods == {"getBalance", "subscribeToPuzzleHashUpdates", "subscribeToCoinUpdates",
            "getPuzzleSolution", "getCoinChildren", "getBlockHeader", "getBlocksHeaders",
            "getCoinRemovals", "getCoinAdditions", "pushSpendBundle"}
Subscribing == {"subscribeToPuzzleHashUpdates", "subscribeToCoinUpdates"}
WithoutHash == {"getBlockHeader", "getBlocksHeaders", "pushSpendBundle"}

Calls == 1..MaxCalls
Links == 1..MaxLinks

ASSUME CallsAssumption ==
    /\ \A a \in Args : a.method \in Methods
    /\ None \notin Calls /\ Refused \notin Calls /\ None # Refused
    /\ \A a \in Args : a.method \notin WithoutHash =>
          a.hash \in DOMAIN Echo \/ (a.method = "getBalance" /\ a.hash = NoHash)
    /\ NoHash \notin Valid \cup DOMAIN Echo
    /\ \A h \in DOMAIN Echo : Echo[h] # NoHash

ASSUME LimitsAssumption ==
    MaxCalls \in Nat /\ MaxLinks \in Nat \ {0} /\ MaxQueue \in Nat /\ MaxPeak \in Nat
        /\ MaxChanges \in Nat

VARIABLES
    asked,        \* the calls made
    args,         \* args[c]: the method and the arguments of call c
    pending,      \* the calls whose filter is registered
    answer,       \* answer[c]: the call whose reply c got, or Refused
    blockNumber,  \* LeafletProvider.blockNumber
    link,         \* the current link
    requests,     \* requests[l]: received by the node over link l, not answered
    watched,      \* watched[l]: the subscriptions the node has answered over l
    inflight,     \* inflight[l]: messages on their way over link l
    peak,         \* height of the chain
    changes       \* number of changes of coins so far

provider == <<asked, args, pending, answer, blockNumber>>
vars == <<asked, args, pending, answer, blockNumber, link,
          requests, watched, inflight, peak, changes>>

method(c) == args[c].method

MessageTypes == {"respond_to_ph_update", "respond_to_coin_update", "respond_puzzle_solution",
    "reject_puzzle_solution", "respond_children", "respond_block_header",
    "reject_header_request", "respond_header_blocks", "reject_header_blocks",
    "respond_removals", "reject_removals_request", "respond_additions",
    "reject_additions_request", "transaction_ack", "new_peak_wallet", "coin_state_update"}

TypeOK ==
    /\ asked \subseteq Calls
    /\ \A c \in Calls : args[c] \in (IF c \in asked THEN Args ELSE {NoArgs})
    /\ pending \subseteq asked
    /\ answer \in [Calls -> Calls \cup {None, Refused}]
    /\ blockNumber \in 0..MaxPeak
    /\ link \in Links
    /\ requests \in [Links -> SUBSET asked]
    /\ watched \in [Links -> SUBSET asked]
    /\ \A l \in Links : \A i \in 1..Len(inflight[l]) : inflight[l][i].type \in MessageTypes
    /\ peak \in 0..MaxPeak
    /\ changes \in 0..MaxChanges

Init ==
    /\ asked = {}
    /\ args = [c \in Calls |-> NoArgs]
    /\ pending = {}
    /\ answer = [c \in Calls |-> None]
    /\ blockNumber = 0
    /\ link = 1
    /\ requests = [l \in Links |-> {}]
    /\ watched = [l \in Links |-> {}]
    /\ inflight = [l \in Links |-> <<>>]
    /\ peak = 0
    /\ changes = 0

-----------------------------------------------------------------------------
(* The filters. *)

(* The types of message the protocol has to answer each request.           *)
NodeReplies == [
    getBalance |-> {"respond_to_ph_update"},
    subscribeToPuzzleHashUpdates |-> {"respond_to_ph_update"},
    subscribeToCoinUpdates |-> {"respond_to_coin_update"},
    getPuzzleSolution |-> {"respond_puzzle_solution", "reject_puzzle_solution"},
    getCoinChildren |-> {"respond_children"},
    getBlockHeader |-> {"respond_block_header", "reject_header_request"},
    getBlocksHeaders |-> {"respond_header_blocks", "reject_header_blocks"},
    getCoinRemovals |-> {"respond_removals", "reject_removals_request"},
    getCoinAdditions |-> {"respond_additions", "reject_additions_request"},
    pushSpendBundle |-> {"transaction_ack"}]

(* consumeMessage of each method, for arguments a.  "hash" is the hash, the *)
(* coin's name or the spend bundle, "height" is minHeight, height or        *)
(* startHeight, and "scope" is endHeight, coinIds or puzzleHashes.          *)
getBalance(a, m) ==
    m.type = "respond_to_ph_update" /\ m.hash = a.hash /\ m.height = a.height

subscribeToPuzzleHashUpdates(a, m) ==
    m.type = "respond_to_ph_update" /\ m.hash = a.hash /\ m.height = a.height

subscribeToCoinUpdates(a, m) ==
    m.type = "respond_to_coin_update" /\ m.hash = a.hash /\ m.height = a.height

getPuzzleSolutionWithoutRejection(a, m) ==
    m.type = "respond_puzzle_solution" /\ m.hash = a.hash /\ m.height = a.height
getPuzzleSolution(a, m) ==
    /\ m.type \in {"reject_puzzle_solution", "respond_puzzle_solution"}
    /\ m.hash = a.hash /\ m.height = a.height

(* An empty list of children is anybody's. *)
getCoinChildren(a, m) ==
    m.type = "respond_children" /\ m.hash \in {NoHash, a.hash}

getBlockHeader(a, m) ==
    m.type \in {"reject_header_request", "respond_block_header"} /\ m.height = a.height

getBlocksHeadersFromStart(a, m) ==
    m.type \in {"reject_header_blocks", "respond_header_blocks"} /\ m.height = a.height
getBlocksHeaders(a, m) ==
    /\ m.type \in {"reject_header_blocks", "respond_header_blocks"}
    /\ m.height = a.height /\ m.scope = a.scope

getCoinRemovals(a, m) ==
    /\ m.type \in {"reject_removals_request", "respond_removals"}
    /\ m.height = a.height /\ m.hash = a.hash

getCoinAdditions(a, m) ==
    /\ m.type \in {"reject_additions_request", "respond_additions"}
    /\ m.height = a.height /\ m.hash = a.hash

(* Any acknowledgement. *)
pushSpendBundle(a, m) == m.type = "transaction_ack"

(* The filter that the call with arguments a registers takes the message.  *)
Consumes(a, m) ==
    CASE a.method = "getBalance" -> getBalance(a, m)
      [] a.method = "subscribeToPuzzleHashUpdates" -> subscribeToPuzzleHashUpdates(a, m)
      [] a.method = "subscribeToCoinUpdates" -> subscribeToCoinUpdates(a, m)
      [] a.method = "getPuzzleSolution" -> getPuzzleSolution(a, m)
      [] a.method = "getCoinChildren" -> getCoinChildren(a, m)
      [] a.method = "getBlockHeader" -> getBlockHeader(a, m)
      [] a.method = "getBlocksHeaders" -> getBlocksHeaders(a, m)
      [] a.method = "getCoinRemovals" -> getCoinRemovals(a, m)
      [] a.method = "getCoinAdditions" -> getCoinAdditions(a, m)
      [] a.method = "pushSpendBundle" -> pushSpendBundle(a, m)

(* The node's reply to call c: it echoes the arguments, and "of" says what *)
(* the reply is really about.                                              *)
Reply(c, t) ==
    [type |-> t, of |-> c, height |-> args[c].height, scope |-> args[c].scope,
     hash |-> IF method(c) \in WithoutHash
                 \/ (method(c) = "getCoinChildren" /\ args[c].hash \in Childless)
              THEN NoHash ELSE Echo[args[c].hash]]

-----------------------------------------------------------------------------
(* The calls of the application. *)

(* Does the method give up because a hash is not valid?  getBalance wants   *)
(* an address that decodes or a hash, and does not look at what             *)
(* validateHashString returned for the hash.                                *)
Refuses(a) ==
    \/ a.method = "getBalance" /\ a.hash = NoHash
    \/ a.method \notin WithoutHash \cup {"getBalance"} /\ a.hash \notin Valid
    \/ a.method \in {"getCoinRemovals", "getCoinAdditions"} /\ a.scope \notin Valid \cup {NoList}

Call(a) ==
    LET c == Cardinality(asked) + 1
    IN  /\ c <= MaxCalls
        /\ asked' = asked \cup {c}
        /\ args' = [args EXCEPT ![c] = a]
        /\ \/ /\ Refuses(a)
              /\ answer' = [answer EXCEPT ![c] = Refused]
              /\ UNCHANGED <<pending, requests>>
           \/ /\ ~Refuses(a)
              /\ pending' = pending \cup {c}
              /\ requests' = [requests EXCEPT ![link] = @ \cup {c}]
              /\ UNCHANGED answer
    /\ UNCHANGED <<blockNumber, link, watched, inflight, peak, changes>>

(* Does the filter of connect take the message as a new height? *)
Announces(m) == m.type = "new_peak_wallet"

(* A message is handled: the block number's filter, and those of the calls *)
(* that wait.                                                              *)
HandleMessage(l) ==
    /\ inflight[l] # <<>>
    /\ LET m == Head(inflight[l])
           consumers == {c \in pending : Consumes(args[c], m)}
       IN  /\ blockNumber' = IF Announces(m) THEN m.height ELSE blockNumber
           /\ pending' = {c \in pending : c \in consumers => method(c) \in Subscribing}
           /\ answer' = [c \in Calls |->
                           IF c \in consumers /\ answer[c] = None THEN m.of ELSE answer[c]]
    /\ inflight' = [inflight EXCEPT ![l] = Tail(@)]
    /\ UNCHANGED <<asked, args, link, requests, watched, peak, changes>>

-----------------------------------------------------------------------------
(* The links. *)

(* The manager replaces the link and sends every registered request again. *)
Reconnect ==
    /\ link < MaxLinks
    /\ link' = link + 1
    /\ requests' = [requests EXCEPT ![link'] = pending]
    /\ UNCHANGED <<provider, watched, inflight, peak, changes>>

(* A replaced link loses what it carries. *)
LinkDies(l) ==
    /\ l < link
    /\ requests' = [requests EXCEPT ![l] = {}]
    /\ watched' = [watched EXCEPT ![l] = {}]
    /\ inflight' = [inflight EXCEPT ![l] = <<>>]
    /\ UNCHANGED <<provider, link, peak, changes>>

-----------------------------------------------------------------------------
(* The node, as the protocol types of src/util/serializer describe it. *)

Sends(l, m) ==
    /\ Len(inflight[l]) < MaxQueue
    /\ inflight' = [inflight EXCEPT ![l] = Append(@, m)]

Replied(l, c) ==
    /\ c \in requests[l]
    /\ \E t \in NodeReplies[method(c)] : Sends(l, Reply(c, t))
    /\ requests' = [requests EXCEPT ![l] = @ \ {c}]
    /\ watched' = IF method(c) \in Subscribing
                  THEN [watched EXCEPT ![l] = @ \cup {c}] ELSE watched
    /\ UNCHANGED <<provider, link, peak, changes>>

(* A block: every link is told the new peak. *)
NewPeak ==
    /\ peak < MaxPeak
    /\ peak' = peak + 1
    /\ \A l \in 1..link : Len(inflight[l]) < MaxQueue
    /\ inflight' = [l \in Links |->
          IF l > link THEN inflight[l]
          ELSE Append(inflight[l], [type |-> "new_peak_wallet", of |-> None,
                                    height |-> peak', scope |-> NoHash, hash |-> NoHash])]
    /\ UNCHANGED <<provider, link, requests, watched, changes>>

(* A coin of a watched hash changes: those who asked are told. *)
CoinChanges(c) ==
    /\ c \in watched[link]
    /\ changes < MaxChanges
    /\ changes' = changes + 1
    /\ Sends(link, [type |-> "coin_state_update", of |-> c, height |-> peak, scope |-> NoHash, hash |-> Echo[args[c].hash]])
    /\ UNCHANGED <<provider, link, requests, watched, peak>>

Next ==
    \/ \E a \in Args : Call(a)
    \/ \E c \in Calls : CoinChanges(c)
    \/ Reconnect \/ NewPeak
    \/ \E l \in Links : HandleMessage(l) \/ LinkDies(l) \/ \E c \in Calls : Replied(l, c)

Spec == Init /\ [][Next]_vars

(* The node answers over the current link and what arrives is handled.     *)
FairSpec ==
    /\ Spec
    /\ \A l \in Links : WF_vars(HandleMessage(l))
    /\ \A l \in Links : WF_vars(link = l /\ \E c \in Calls : Replied(l, c))

-----------------------------------------------------------------------------
(* Properties. *)

Answered(c) == answer[c] \in Calls

(* A call that got a reply got one to a call of its own kind, of its own   *)
(* height and about its own hash, through reconnections, requests sent     *)
(* twice and late replies of an old link.  Of the rest of a request only   *)
(* the end of a range of blocks is compared: AllIfNoList says what becomes *)
(* of the lists of hashes.  Left out, as the code tells them apart by      *)
(* nothing, are an empty list of children and the acknowledgement of a     *)
(* spend bundle: a call takes that of another call of its method.          *)
Own(a, b) ==
    /\ NodeReplies[b.method] = NodeReplies[a.method]
    /\ a.method \notin {"getCoinChildren", "pushSpendBundle"} => b.height = a.height
    /\ a.method \notin WithoutHash =>
          Echo[b.hash] = a.hash \/ (a.method = "getCoinChildren" /\ b.hash \in Childless)
    /\ a.method = "getBlocksHeaders" => b.scope = a.scope
AnswerIsOwn == \A c \in Calls : Answered(c) => Own(args[c], args[answer[c]])

(* "Will return all removals if `coinIds` is not specified", and the same  *)
(* of additions and `puzzleHashes` (docs/xch/provider.md): a call that     *)
(* gives no list is not answered with the reply to one that gave a list.   *)
AllIfNoList ==
    \A c \in Calls :
        /\ Answered(c) /\ method(c) \in {"getCoinRemovals", "getCoinAdditions"}
        /\ args[c].scope = NoList
        => args[answer[c]].scope = NoList

(* The node repeats the hash of the call as it was given.                  *)
Repeated(c) == method(c) \in WithoutHash \/ Echo[args[c].hash] = args[c].hash

(* Every call returns if the node answers: at once with a refusal, or with *)
(* a reply, which it may share with a subscription or another call.  (The  *)
(* calls are finitely many: again and again all of them have returned.)    *)
CallsReturn == []<>(\A c \in asked : Refuses(args[c]) \/ Repeated(c) => answer[c] # None)
=============================================================================
