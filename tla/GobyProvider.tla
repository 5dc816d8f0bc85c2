------------------------------ MODULE GobyProvider ------------------------------
(***************************************************************************)
(* GobyProvider (src/xch/providers/goby/goby_provider.ts): the address and *)
(* the network of a browser wallet, followed through its answers and its   *)
(* events, and told to the application's callbacks.                        *)
(*                                                                         *)
(* The wallet is external: its user chooses an account and a chain, allows *)
(* or refuses a request, and what it sends arrives in order.  The operators*)
(* named for what they drop are the faults the properties are tested with. *)
(***************************************************************************)
EXTENDS Integers, Sequences

CONSTANTS
    Accounts,      \* the accounts of the wallet's user
    Subscribers,   \* the callbacks of subscribeToAddressChanges
    Throwing,      \* those that throw when called
    Closing,       \* those that call close() when told an account
    NoAddress,     \* the empty address
    Mainnet, Testnet,
    TryConnect,    \* tryNonInteractiveConnect, and is the wallet installed?
    MaxRequests,   \* bound: requests for accounts
    MaxChanges     \* bound: changes of account or chain in the wallet

ASSUME AccountsAssumption == NoAddress \notin Accounts /\ Mainnet # Testnet
ASSUME SubscribersAssumption ==
    Throwing \subseteq Subscribers /\ Closing \subseteq Subscribers
ASSUME BoundsAssumption ==
    TryConnect \in BOOLEAN /\ MaxRequests \in Nat \ {0} /\ MaxChanges \in Nat

Addresses == Accounts \cup {NoAddress}
Networks == {Mainnet, Testnet}

VARIABLES
    address,     \* GobyProvider._address
    network,     \* GobyProvider._network
    callbacks,   \* GobyProvider._callbacks
    listeners,   \* how often the two listeners were registered
    told,        \* told[s]: the address callback s was last called with
    account,     \* the account the wallet shows the page, or NoAddress
    chain,       \* the wallet's chain
    requests,    \* requests for accounts the wallet has not answered
    asked,       \* number of requests for accounts so far
    changes,     \* number of changes in the wallet so far
    inbox,       \* what the wallet has sent and the page has not handled
    chainHeard   \* a chainChanged event was heard

goby == <<address, network, callbacks, listeners, told>>
wallet == <<account, chain, requests, asked, changes, inbox>>
gobyVars == <<address, network, callbacks, listeners, told, account, chain, requests,
              asked, changes, inbox, chainHeard>>

Items ==
    [kind : {"answer", "accountsChanged"}, value : Addresses]
        \cup [kind : {"chainChanged"}, value : Networks]

GobyTypeOK ==
    /\ address \in Addresses
    /\ network \in Networks
    /\ callbacks \in Seq(Subscribers)
    /\ listeners \in 0..1
    /\ told \in [Subscribers -> Addresses]
    /\ account \in Addresses /\ chain \in Networks
    /\ requests \in 0..MaxRequests /\ asked \in 0..MaxRequests
    /\ changes \in 0..MaxChanges
    /\ inbox \in Seq(Items)
    /\ chainHeard \in BOOLEAN

(* The constructor asks for the accounts the page already may see. *)
GobyInit ==
    /\ address = NoAddress
    /\ network = Mainnet
    /\ callbacks = <<>>
    /\ listeners = 0
    /\ told = [s \in Subscribers |-> NoAddress]
    /\ account \in Addresses
    /\ chain \in Networks
    /\ requests = IF TryConnect THEN 1 ELSE 0
    /\ asked = requests
    /\ changes = 0
    /\ inbox = <<>>
    /\ chainHeard = FALSE

-----------------------------------------------------------------------------
isConnected == address # NoAddress
getAddress == address
getNetworkId == IF isConnected THEN network ELSE Mainnet

(* The callbacks the loop of _changeAddress calls: a throwing one ends it. *)
Called(cbs) == {i \in 1..Len(cbs) : \A j \in 1..(i - 1) : cbs[j] \notin Throwing}

(* The positions of those that close the provider in the loop.             *)
Closers(cbs, new) ==
    IF new = NoAddress THEN {} ELSE {i \in Called(cbs) : cbs[i] \in Closing}

(* The last address each callback hears when the loop runs with new, heard *)
(* being the last before it.  The first that closes runs a loop of its own *)
(* for the empty address; the outer loop then goes on with new.            *)
Tell(heard, cbs, new) ==
    LET hearsClose(i) == Closers(cbs, new) # {} /\ \A k \in Closers(cbs, new) : i <= k
    IN  [s \in Subscribers |->
            IF \E i \in Called(cbs) : cbs[i] = s /\ hearsClose(i) THEN NoAddress
            ELSE IF \E i \in Called(cbs) : cbs[i] = s THEN new
            ELSE heard[s]]

RegisterWithOnce(new) ==
    listeners' = IF address = NoAddress /\ new # NoAddress THEN 1 ELSE 0
RegisterListeners(new) ==
    listeners' = IF address = NoAddress /\ new # NoAddress /\ listeners = 0
                 THEN 1 ELSE listeners

ChangeIfNotConnected(new) ==
    /\ RegisterListeners(new)
    /\ address' = IF isConnected /\ new # NoAddress THEN address ELSE new
    /\ told' = Tell(told, callbacks, address')
    /\ UNCHANGED <<network, callbacks>>
ChangeTellsOld(new) ==
    /\ RegisterListeners(new)
    /\ address' = IF Closers(callbacks, new) = {} THEN new ELSE NoAddress
    /\ told' = Tell(told, callbacks, address)
    /\ UNCHANGED <<network, callbacks>>
changeAddress(new) ==
    /\ RegisterListeners(new)
    /\ address' = IF Closers(callbacks, new) = {} THEN new ELSE NoAddress
    /\ told' = Tell(told, callbacks, new)
    /\ UNCHANGED <<network, callbacks>>

-----------------------------------------------------------------------------
(* The application. *)

Connect ==
    /\ ~isConnected
    /\ asked < MaxRequests
    /\ asked' = asked + 1
    /\ requests' = requests + 1
    /\ UNCHANGED <<goby, account, chain, changes, inbox, chainHeard>>

Close ==
    /\ isConnected
    /\ changeAddress(NoAddress)
    /\ UNCHANGED <<wallet, chainHeard>>

(* The callback is told the address at once, and may close the provider:   *)
(* then every callback is told.                                            *)
SubscribeToAddressChanges(s) ==
    LET closes == s \in Closing /\ isConnected
    IN  /\ s \notin {callbacks[i] : i \in 1..Len(callbacks)}
        /\ callbacks' = Append(callbacks, s)
        /\ address' = IF closes THEN NoAddress ELSE address
        /\ LET heard == [told EXCEPT ![s] = address]
           IN  told' = IF closes THEN Tell(heard, callbacks', NoAddress) ELSE heard
        /\ UNCHANGED <<network, listeners, wallet, chainHeard>>

-----------------------------------------------------------------------------
(* What the wallet sent is handled, in order: the answer to a request, or  *)
(* an event, which only a registered listener hears.                       *)

(* The network of a chain id: "0x01" or another. *)
ChainAlwaysMainnet(id) == Mainnet
ChainOf(id) == id

Handle ==
    /\ inbox # <<>>
    /\ inbox' = Tail(inbox)
    /\ LET item == Head(inbox)
       IN  \/ /\ item.kind = "answer"
              /\ changeAddress(item.value)
              /\ UNCHANGED chainHeard
           \/ /\ item.kind = "accountsChanged" /\ listeners > 0
              /\ changeAddress(item.value)
              /\ UNCHANGED chainHeard
           \/ /\ item.kind = "chainChanged" /\ listeners > 0
              /\ network' = ChainOf(item.value)
              /\ chainHeard' = TRUE
              /\ UNCHANGED <<address, callbacks, listeners, told>>
           \/ /\ item.kind # "answer" /\ listeners = 0
              /\ UNCHANGED <<goby, chainHeard>>
    /\ UNCHANGED <<account, chain, requests, asked, changes>>

-----------------------------------------------------------------------------
(* The wallet. *)

(* The user allows a request and shows an account, or refuses it; a request*)
(* that fails is handled as no account.                                    *)
Answer ==
    /\ requests > 0
    /\ requests' = requests - 1
    /\ \/ /\ account' \in IF account = NoAddress THEN Accounts ELSE {account}
          /\ inbox' = Append(inbox, [kind |-> "answer", value |-> account'])
       \/ /\ inbox' = Append(inbox, [kind |-> "answer", value |-> NoAddress])
          /\ UNCHANGED account
    /\ UNCHANGED <<goby, chain, asked, changes, chainHeard>>

(* The user shows the page another account, or none any more. *)
AccountChanges ==
    /\ changes < MaxChanges
    /\ changes' = changes + 1
    /\ account' \in Addresses \ {account}
    /\ inbox' = Append(inbox, [kind |-> "accountsChanged", value |-> account'])
    /\ UNCHANGED <<goby, chain, requests, asked, chainHeard>>

(* The user, or changeNetwork through walletSwitchChain, takes another     *)
(* chain.                                                                  *)
ChainChanges ==
    /\ changes < MaxChanges
    /\ changes' = changes + 1
    /\ chain' \in Networks \ {chain}
    /\ inbox' = Append(inbox, [kind |-> "chainChanged", value |-> chain'])
    /\ UNCHANGED <<goby, account, requests, asked, chainHeard>>

GobyNext ==
    \/ Connect \/ Close \/ Handle
    \/ \E s \in Subscribers : SubscribeToAddressChanges(s)
    \/ Answer \/ AccountChanges \/ ChainChanges

GobySpec == GobyInit /\ [][GobyNext]_gobyVars

-----------------------------------------------------------------------------
(* Properties. *)

InFlight(kind) == \E i \in 1..Len(inbox) : inbox[i].kind = kind

(* A connected provider listens to the wallet, through any sequence of     *)
(* connects, closes and account changes; it registers its listeners once   *)
(* (listeners \in 0..1 in GobyTypeOK), so no event is handled twice.       *)
ConnectedListens == isConnected => listeners = 1

(* Every callback was last told the address the provider has, unless the   *)
(* loop over the callbacks is cut short or run again inside by one before  *)
(* it, which throws or closes the provider.                                *)
SubscribersAgree ==
    \A i \in Called(callbacks) :
        (\A j \in 1..(i - 1) : callbacks[j] \notin Closing) => told[callbacks[i]] = getAddress

(* A connected provider has the wallet's account once all is handled,      *)
(* however connects, refusals, closes and changes of account interleave    *)
(* ("Returns the address that the user is connected with",                 *)
(* docs/xch/provider.md:576).                                              *)
AddressIsCurrent ==
    isConnected /\ ~InFlight("answer") /\ ~InFlight("accountsChanged") => getAddress = account

(* From the first chain event on, through closes and reconnects, a         *)
(* connected provider tells the wallet's chain once all is handled         *)
(* ("Returns the current network id", docs/xch/provider.md:213).           *)
FollowsChain ==
    chainHeard /\ isConnected /\ ~InFlight("chainChanged") => getNetworkId = chain
=============================================================================
