-------------------------- MODULE Providers_proofs ---------------------------
(***************************************************************************)
(* Proofs about the providers an application is given.                     *)
(*                                                                         *)
(* A GobyProvider follows its wallet, for every set of accounts and        *)
(* callbacks, and however many requests and changes there are.  An         *)
(* application may replace its MultiProvider at any time, for every set of *)
(* providers, methods and calls, and without a bound on their number: a    *)
(* call is carried out once, by the first provider that can, fails only    *)
(* when none could, and a connect() or a close() reaches every provider.   *)
(***************************************************************************)
EXTENDS XCHModule, GobyProvider, FiniteSetTheorems, TLAPS

-----------------------------------------------------------------------------
(* GobyProvider. *)

AccountKinds == {"answer", "accountsChanged"}

(* Nothing after place i of the inbox is of these kinds. *)
LastOf(kinds, i) == \A j \in 1..Len(inbox) : j > i => inbox[j].kind \notin kinds

(* A provider that is connected, or has heard an event, listens.           *)
Listening ==
    /\ address # NoAddress => listeners = 1
    /\ chainHeard => listeners = 1

(* The last thing said about the account, handled or not, is that it is the *)
(* wallet's, or that there is none.                                        *)
AccountTold ==
    /\ (\A i \in 1..Len(inbox) : inbox[i].kind \notin AccountKinds) =>
           address \in {account, NoAddress}
    /\ \A i \in 1..Len(inbox) :
           inbox[i].kind \in AccountKinds /\ LastOf(AccountKinds, i) =>
               inbox[i].value \in {account, NoAddress}

(* The last event about the chain, handled or not, has the wallet's chain. *)
ChainTold ==
    /\ (\A i \in 1..Len(inbox) : inbox[i].kind # "chainChanged") =>
           (chainHeard => network = chain)
    /\ \A i \in 1..Len(inbox) :
           inbox[i].kind = "chainChanged" /\ LastOf({"chainChanged"}, i) =>
               inbox[i].value = chain

GobyIInv ==
    /\ GobyTypeOK
    /\ requests <= asked
    /\ Listening
    /\ AccountTold
    /\ ChainTold

-----------------------------------------------------------------------------
(* _changeAddress. *)

(* Whatever the callbacks do, the callbacks were told addresses. *)
LEMMA TellTyped ==
    ASSUME NEW heard \in [Subscribers -> Addresses], NEW cbs, NEW new \in Addresses
    PROVE  Tell(heard, cbs, new) \in [Subscribers -> Addresses]
BY DEF Tell, Addresses

(* It leaves the new address or none, and registers the listeners once.    *)
LEMMA ChangeAddress ==
    ASSUME GobyTypeOK, Listening, NEW new \in Addresses, changeAddress(new),
           chainHeard' = chainHeard
    PROVE  /\ address' \in {new, NoAddress} /\ address' \in Addresses
           /\ listeners' \in 0..1
           /\ told' \in [Subscribers -> Addresses]
           /\ Listening'
           /\ UNCHANGED <<network, callbacks>>
<1>1. address' \in {new, NoAddress} /\ UNCHANGED <<network, callbacks>>
  BY DEF changeAddress
<1>2. address' \in Addresses
  BY <1>1 DEF Addresses
<1>3. told' \in [Subscribers -> Addresses]
  BY TellTyped DEF changeAddress, GobyTypeOK
<1>4. listeners' \in 0..1 /\ Listening'
  BY <1>1 DEF changeAddress, RegisterListeners, GobyTypeOK, Listening
<1> QED BY <1>1, <1>2, <1>3, <1>4

-----------------------------------------------------------------------------
(* The inbox. *)

(* What the wallet adds at the end is the last of its kinds. *)
LEMMA Appended ==
    ASSUME inbox \in Seq(Items), NEW x \in Items, inbox' = Append(inbox, x)
    PROVE  /\ inbox' \in Seq(Items)
           /\ Len(inbox') = Len(inbox) + 1 /\ inbox'[Len(inbox')] = x
           /\ \A i \in 1..Len(inbox) : inbox'[i] = inbox[i]
OBVIOUS

(* What is handled is the first. *)
LEMMA Taken ==
    ASSUME inbox \in Seq(Items), inbox # <<>>, inbox' = Tail(inbox)
    PROVE  /\ inbox' \in Seq(Items)
           /\ Len(inbox') = Len(inbox) - 1 /\ Len(inbox) \in Nat \ {0}
           /\ Head(inbox) = inbox[1] /\ inbox[1] \in Items
           /\ \A i \in 1..Len(inbox') : inbox'[i] = inbox[i + 1]
OBVIOUS

(* An item about the account, and nothing that changes the account without  *)
(* one.                                                                    *)
LEMMA AccountItem ==
    ASSUME GobyIInv, NEW x \in Items, inbox' = Append(inbox, x), x.kind \in AccountKinds,
           x.value \in {account', NoAddress}, UNCHANGED <<address, chain, network, chainHeard>>
    PROVE  AccountTold' /\ ChainTold'
<1>1. /\ inbox' \in Seq(Items)
      /\ Len(inbox') = Len(inbox) + 1 /\ inbox'[Len(inbox')] = x
      /\ \A i \in 1..Len(inbox) : inbox'[i] = inbox[i]
      /\ Len(inbox) \in Nat
  BY Appended DEF GobyIInv, GobyTypeOK
<1>2. AccountTold'
  BY <1>1 DEF AccountTold, LastOf
<1>3. ChainTold'
  <2>1. ASSUME NEW i \in 1..Len(inbox'), inbox'[i].kind = "chainChanged",
               LastOf({"chainChanged"}, i)'
        PROVE  inbox'[i].value = chain
    <3>1. i # Len(inbox')
      BY <1>1, <2>1 DEF AccountKinds
    <3>2. i \in 1..Len(inbox) /\ inbox[i].kind = "chainChanged" /\ LastOf({"chainChanged"}, i)
      BY <1>1, <2>1, <3>1 DEF LastOf
    <3> QED BY <1>1, <3>2 DEF GobyIInv, ChainTold
  <2>2. ASSUME \A i \in 1..Len(inbox') : inbox'[i].kind # "chainChanged", chainHeard
        PROVE  network = chain
    BY <1>1, <2>2 DEF GobyIInv, ChainTold
  <2> QED BY <2>1, <2>2 DEF ChainTold
<1> QED BY <1>2, <1>3

(* An event about the chain, which nothing else changes. *)
LEMMA ChainItem ==
    ASSUME GobyIInv, NEW x \in Items, inbox' = Append(inbox, x), x.kind = "chainChanged",
           x.value = chain', UNCHANGED <<address, account, network, chainHeard>>
    PROVE  AccountTold' /\ ChainTold'
<1>1. /\ inbox' \in Seq(Items)
      /\ Len(inbox') = Len(inbox) + 1 /\ inbox'[Len(inbox')] = x
      /\ \A i \in 1..Len(inbox) : inbox'[i] = inbox[i]
      /\ Len(inbox) \in Nat
  BY Appended DEF GobyIInv, GobyTypeOK
<1>2. ChainTold'
  BY <1>1 DEF ChainTold, LastOf
<1>3. AccountTold'
  <2>1. ASSUME NEW i \in 1..Len(inbox'), inbox'[i].kind \in AccountKinds,
               LastOf(AccountKinds, i)'
        PROVE  inbox'[i].value \in {account, NoAddress}
    <3>1. i # Len(inbox')
      BY <1>1, <2>1 DEF AccountKinds
    <3>2. i \in 1..Len(inbox) /\ inbox[i].kind \in AccountKinds /\ LastOf(AccountKinds, i)
      BY <1>1, <2>1, <3>1 DEF LastOf
    <3> QED BY <1>1, <3>2 DEF GobyIInv, AccountTold
  <2>2. ASSUME \A i \in 1..Len(inbox') : inbox'[i].kind \notin AccountKinds
        PROVE  address \in {account, NoAddress}
    BY <1>1, <2>2 DEF GobyIInv, AccountTold
  <2> QED BY <2>1, <2>2 DEF AccountTold
<1> QED BY <1>2, <1>3

(* Without a change of the inbox a call of the application can only take    *)
(* the address away.                                                       *)
LEMMA SameInbox ==
    ASSUME GobyIInv, UNCHANGED <<inbox, account, chain, network, chainHeard>>,
           address' \in {address, NoAddress}
    PROVE  AccountTold' /\ ChainTold'
BY DEF GobyIInv, AccountTold, ChainTold, LastOf

-----------------------------------------------------------------------------
(* The steps. *)

(* A new provider has heard nothing of the wallet.                         *)
LEMMA GobyInitKeeps == GobyInit => GobyIInv
<1> SUFFICES ASSUME GobyInit PROVE GobyIInv
  OBVIOUS
<1>1. requests \in {0, 1} /\ asked = requests
  BY DEF GobyInit
<1>2. requests \in 0..MaxRequests /\ asked \in 0..MaxRequests /\ requests <= asked
  BY <1>1, BoundsAssumption
<1>3. GobyTypeOK /\ requests <= asked
  <2>1. callbacks \in Seq(Subscribers) /\ inbox \in Seq(Items)
    BY DEF GobyInit
  <2>2. told \in [Subscribers -> Addresses] /\ address \in Addresses /\ account \in Addresses
    BY DEF GobyInit, Addresses
  <2>3. network \in Networks /\ chain \in Networks /\ chainHeard \in BOOLEAN
    BY DEF GobyInit, Networks
  <2>4. listeners \in 0..1 /\ changes \in 0..MaxChanges
    BY BoundsAssumption DEF GobyInit
  <2> QED BY <1>2, <2>1, <2>2, <2>3, <2>4 DEF GobyTypeOK
<1> QED BY <1>3 DEF GobyInit, GobyIInv, Listening, AccountTold, ChainTold

(* Handling what the wallet sent keeps the invariant.                      *)
LEMMA HandleKeeps ==
    ASSUME GobyIInv, Handle
    PROVE  GobyIInv'
<1>1. /\ inbox \in Seq(Items) /\ inbox # <<>> /\ inbox' = Tail(inbox)
      /\ GobyTypeOK /\ Listening
      /\ UNCHANGED <<account, chain, requests, asked, changes>>
  BY DEF Handle, GobyIInv, GobyTypeOK
<1> DEFINE item == Head(inbox)
<1>2. /\ inbox' \in Seq(Items)
      /\ Len(inbox') = Len(inbox) - 1 /\ Len(inbox) \in Nat \ {0}
      /\ item = inbox[1] /\ item \in Items
      /\ \A i \in 1..Len(inbox') : inbox'[i] = inbox[i + 1]
  BY <1>1, Taken
<1>3. \A kinds : \A i \in 1..Len(inbox') : LastOf(kinds, i)' => LastOf(kinds, i + 1)
  <2> SUFFICES ASSUME NEW kinds, NEW i \in 1..Len(inbox'), LastOf(kinds, i)',
                      NEW j \in 1..Len(inbox), j > i + 1
               PROVE  inbox[j].kind \notin kinds
    BY DEF LastOf
  <2>1. j - 1 \in 1..Len(inbox') /\ j - 1 > i /\ inbox'[j - 1] = inbox[j]
    BY <1>2
  <2> QED BY <2>1 DEF LastOf
<1>4. /\ \A i \in 1..Len(inbox') :
            inbox'[i].kind \in AccountKinds /\ LastOf(AccountKinds, i)' =>
                inbox'[i].value \in {account, NoAddress}
      /\ \A i \in 1..Len(inbox') :
            inbox'[i].kind = "chainChanged" /\ LastOf({"chainChanged"}, i)' =>
                inbox'[i].value = chain
  <2> SUFFICES ASSUME NEW i \in 1..Len(inbox')
               PROVE  /\ inbox'[i].kind \in AccountKinds /\ LastOf(AccountKinds, i)' =>
                            inbox'[i].value \in {account, NoAddress}
                      /\ inbox'[i].kind = "chainChanged" /\ LastOf({"chainChanged"}, i)' =>
                            inbox'[i].value = chain
    OBVIOUS
  <2>1. i + 1 \in 1..Len(inbox) /\ inbox'[i] = inbox[i + 1]
    BY <1>2
  <2> QED BY <2>1, <1>3 DEF GobyIInv, AccountTold, ChainTold
<1>5. ASSUME \A i \in 1..Len(inbox') : inbox'[i].kind \notin AccountKinds
      PROVE  IF item.kind \in AccountKinds THEN item.value \in {account, NoAddress}
             ELSE address \in {account, NoAddress}
  <2>1. \A j \in 1..Len(inbox) : j > 1 => inbox[j].kind \notin AccountKinds
    <3> SUFFICES ASSUME NEW j \in 1..Len(inbox), j > 1 PROVE inbox[j].kind \notin AccountKinds
      OBVIOUS
    <3>1. j - 1 \in 1..Len(inbox') /\ inbox'[j - 1] = inbox[j]
      BY <1>2
    <3> QED BY <1>5, <3>1
  <2>2. LastOf(AccountKinds, 1)
    BY <2>1 DEF LastOf
  <2> QED BY <1>2, <2>1, <2>2 DEF GobyIInv, AccountTold
<1>6. ASSUME \A i \in 1..Len(inbox') : inbox'[i].kind # "chainChanged"
      PROVE  IF item.kind = "chainChanged" THEN item.value = chain
             ELSE chainHeard => network = chain
  <2>1. \A j \in 1..Len(inbox) : j > 1 => inbox[j].kind # "chainChanged"
    <3> SUFFICES ASSUME NEW j \in 1..Len(inbox), j > 1 PROVE inbox[j].kind # "chainChanged"
      OBVIOUS
    <3>1. j - 1 \in 1..Len(inbox') /\ inbox'[j - 1] = inbox[j]
      BY <1>2
    <3> QED BY <1>6, <3>1
  <2>2. LastOf({"chainChanged"}, 1)
    BY <2>1 DEF LastOf
  <2> QED BY <1>2, <2>1, <2>2 DEF GobyIInv, ChainTold
<1>7. requests' <= asked'
  BY <1>1 DEF GobyIInv
<1>8. ASSUME item.kind \in AccountKinds, changeAddress(item.value), UNCHANGED chainHeard
      PROVE  GobyIInv'
  <2>1. item.value \in Addresses
    BY <1>2, <1>8 DEF Items, AccountKinds
  <2>2. /\ address' \in {item.value, NoAddress} /\ address' \in Addresses
        /\ listeners' \in 0..1 /\ told' \in [Subscribers -> Addresses]
        /\ Listening' /\ UNCHANGED <<network, callbacks>>
    BY <1>1, <1>8, <2>1, ChangeAddress
  <2>3. GobyTypeOK'
    BY <1>1, <1>2, <1>8, <2>2 DEF GobyTypeOK
  <2>4. AccountTold'
    BY <1>1, <1>4, <1>5, <1>8, <2>2 DEF AccountTold
  <2>5. item.kind # "chainChanged"
    BY <1>8 DEF AccountKinds
  <2>6. ChainTold'
    BY <1>1, <1>4, <1>6, <1>8, <2>2, <2>5 DEF ChainTold
  <2> QED BY <1>7, <2>2, <2>3, <2>4, <2>6 DEF GobyIInv
<1>9. ASSUME item.kind = "chainChanged", listeners > 0, network' = item.value,
             chainHeard' = TRUE, UNCHANGED <<address, callbacks, listeners, told>>
      PROVE  GobyIInv'
  <2>1. item.value \in Networks
    BY <1>2, <1>9 DEF Items
  <2>2. GobyTypeOK' /\ Listening'
    BY <1>1, <1>2, <1>9, <2>1 DEF GobyTypeOK, Listening
  <2>3. item.kind \notin AccountKinds
    BY <1>9 DEF AccountKinds
  <2>4. AccountTold'
    BY <1>1, <1>4, <1>5, <1>9, <2>3 DEF AccountTold
  <2>5. ChainTold'
    BY <1>1, <1>4, <1>6, <1>9 DEF ChainTold
  <2> QED BY <1>7, <2>2, <2>4, <2>5 DEF GobyIInv
<1>10. ASSUME item.kind # "answer", listeners = 0, UNCHANGED <<goby, chainHeard>>
       PROVE  GobyIInv'
  <2>1. address = NoAddress /\ ~chainHeard
    BY <1>1, <1>10 DEF Listening, GobyTypeOK
  <2>2. GobyTypeOK' /\ Listening'
    BY <1>1, <1>2, <1>10 DEF GobyTypeOK, Listening, goby
  <2>3. AccountTold'
    BY <1>1, <1>4, <1>10, <2>1 DEF AccountTold, goby
  <2>4. ChainTold'
    BY <1>1, <1>4, <1>10, <2>1 DEF ChainTold, goby
  <2> QED BY <1>7, <2>2, <2>3, <2>4 DEF GobyIInv
<1> QED BY <1>8, <1>9, <1>10 DEF Handle, ChainOf, AccountKinds

(* Every step keeps the invariant.                                         *)
LEMMA GobyNextKeeps == GobyIInv /\ [GobyNext]_gobyVars => GobyIInv'
<1> SUFFICES ASSUME GobyIInv, [GobyNext]_gobyVars PROVE GobyIInv'
  OBVIOUS
<1> USE DEF GobyIInv
<1>1. CASE Connect
  <2>1. GobyTypeOK' /\ Listening' /\ requests' <= asked'
    BY <1>1, BoundsAssumption DEF Connect, GobyTypeOK, Listening, goby
  <2>2. AccountTold' /\ ChainTold'
    BY <1>1, SameInbox DEF Connect, goby
  <2> QED BY <2>1, <2>2
<1>2. CASE Close
  <2>1. changeAddress(NoAddress) /\ UNCHANGED <<wallet, chainHeard>> /\ NoAddress \in Addresses
    BY <1>2 DEF Close, Addresses
  <2>2. /\ address' = NoAddress /\ address' \in Addresses
        /\ listeners' \in 0..1 /\ told' \in [Subscribers -> Addresses]
        /\ Listening' /\ UNCHANGED <<network, callbacks>>
    BY <2>1, ChangeAddress
  <2>3. GobyTypeOK' /\ requests' <= asked'
    BY <2>1, <2>2 DEF GobyTypeOK, wallet
  <2>4. AccountTold' /\ ChainTold'
    BY <2>1, <2>2, SameInbox DEF wallet
  <2> QED BY <2>2, <2>3, <2>4
<1>3. CASE Handle
  BY <1>3, HandleKeeps
<1>4. ASSUME NEW s \in Subscribers, SubscribeToAddressChanges(s) PROVE GobyIInv'
  <2>1. /\ callbacks' \in Seq(Subscribers)
        /\ address' \in {address, NoAddress} /\ UNCHANGED <<network, listeners, wallet, chainHeard>>
    BY <1>4 DEF SubscribeToAddressChanges, GobyTypeOK
  <2>2. [told EXCEPT ![s] = address] \in [Subscribers -> Addresses] /\ NoAddress \in Addresses
    BY DEF GobyTypeOK, Addresses
  <2>3. told' \in [Subscribers -> Addresses]
    BY <1>4, <2>2, TellTyped DEF SubscribeToAddressChanges
  <2>4. GobyTypeOK' /\ Listening' /\ requests' <= asked'
    BY <2>1, <2>3 DEF GobyTypeOK, Listening, wallet, Addresses
  <2>5. AccountTold' /\ ChainTold'
    BY <2>1, SameInbox DEF wallet
  <2> QED BY <2>4, <2>5
<1>5. CASE Answer
  <2>1. account' \in Addresses
    BY <1>5 DEF Answer, GobyTypeOK, Addresses
  <2>2. PICK value \in {account', NoAddress} :
          inbox' = Append(inbox, [kind |-> "answer", value |-> value])
    BY <1>5 DEF Answer
  <2>3. [kind |-> "answer", value |-> value] \in Items
    BY <2>1, <2>2 DEF Items, Addresses
  <2>4. inbox' \in Seq(Items)
    BY <2>2, <2>3 DEF GobyTypeOK
  <2>5. GobyTypeOK' /\ Listening' /\ requests' <= asked'
    <3>1. requests' \in 0..MaxRequests /\ requests' <= asked' /\ asked' = asked
      BY <1>5, BoundsAssumption DEF Answer, GobyTypeOK
    <3>2. UNCHANGED <<goby, chain, asked, changes, chainHeard>>
      BY <1>5 DEF Answer
    <3> QED BY <2>1, <2>4, <3>1, <3>2 DEF GobyTypeOK, Listening, goby
  <2>6. AccountTold' /\ ChainTold'
    <3> DEFINE x == [kind |-> "answer", value |-> value]
    <3>1. x \in Items /\ x.kind \in AccountKinds /\ x.value \in {account', NoAddress}
      BY <2>2, <2>3 DEF AccountKinds
    <3>2. inbox' = Append(inbox, x) /\ UNCHANGED <<address, chain, network, chainHeard>>
      BY <1>5, <2>2 DEF Answer, goby
    <3> HIDE DEF x
    <3> QED BY <3>1, <3>2, AccountItem
  <2> QED BY <2>5, <2>6
<1>6. CASE AccountChanges
  <2>1. account' \in Addresses
    BY <1>6 DEF AccountChanges
  <2>2. [kind |-> "accountsChanged", value |-> account'] \in Items
    BY <2>1 DEF Items
  <2>3. inbox' \in Seq(Items)
    BY <1>6, <2>2 DEF AccountChanges, GobyTypeOK
  <2>4. GobyTypeOK' /\ Listening' /\ requests' <= asked'
    BY <1>6, <2>1, <2>3, BoundsAssumption DEF AccountChanges, GobyTypeOK, Listening, goby
  <2>5. AccountTold' /\ ChainTold'
    BY <1>6, <2>2, AccountItem DEF AccountChanges, goby, AccountKinds
  <2> QED BY <2>4, <2>5
<1>7. CASE ChainChanges
  <2>1. chain' \in Networks
    BY <1>7 DEF ChainChanges
  <2>2. [kind |-> "chainChanged", value |-> chain'] \in Items
    BY <2>1 DEF Items
  <2>3. inbox' \in Seq(Items)
    BY <1>7, <2>2 DEF ChainChanges, GobyTypeOK
  <2>4. GobyTypeOK' /\ Listening' /\ requests' <= asked'
    BY <1>7, <2>1, <2>3, BoundsAssumption DEF ChainChanges, GobyTypeOK, Listening, goby
  <2>5. AccountTold' /\ ChainTold'
    BY <1>7, <2>2, ChainItem DEF ChainChanges, goby
  <2> QED BY <2>4, <2>5
<1>8. CASE UNCHANGED gobyVars
  BY <1>8 DEF gobyVars, GobyTypeOK, Listening, AccountTold, ChainTold, LastOf
<1> QED BY <1>1, <1>2, <1>3, <1>4, <1>5, <1>6, <1>7, <1>8 DEF GobyNext

(* It is an invariant.                                                     *)
LEMMA GobyInvariant == GobySpec => []GobyIInv
BY GobyInitKeeps, GobyNextKeeps, PTL DEF GobySpec

-----------------------------------------------------------------------------
(* The results. *)

(* A connected provider hears the wallet's events, each once               *)
(* (goby_provider.ts _changeAddress, _areListenersSet).                    *)
THEOREM AlwaysListens == GobySpec => []ConnectedListens
<1>1. GobyIInv => ConnectedListens
  BY DEF GobyIInv, Listening, ConnectedListens, isConnected
<1> QED BY <1>1, GobyInvariant, PTL

(* Once all that the wallet sent is handled, the provider has the wallet's  *)
(* account or none (goby_provider.ts connect, _changeAddress).             *)
THEOREM AddressFollowsWallet == GobySpec => []AddressIsCurrent
<1>1. GobyIInv => AddressIsCurrent
  BY DEF GobyIInv, AccountTold, AccountKinds, AddressIsCurrent, isConnected, InFlight, getAddress
<1> QED BY <1>1, GobyInvariant, PTL

(* From the first chain event on a connected provider is on the wallet's    *)
(* chain (goby_provider.ts, the chainChanged listener).                    *)
THEOREM NetworkFollowsWallet == GobySpec => []FollowsChain
<1>1. GobyIInv => FollowsChain
  BY DEF GobyIInv, ChainTold, FollowsChain, InFlight, getNetworkId
<1> QED BY <1>1, GobyInvariant, PTL

-----------------------------------------------------------------------------
(* The callbacks. *)

(* The callbacks that SubscribersAgree speaks of: none before them throws or*)
(* closes.                                                                 *)
Undisturbed(cbs) == {i \in Called(cbs) : \A j \in 1..(i - 1) : cbs[j] \notin Closing}

(* A run of the loop leaves each of them told the address the provider has  *)
(* after it: those before the first that closes, and that one, hear of the  *)
(* close after the new address.                                            *)
LEMMA LoopTells ==
    ASSUME NEW cbs \in Seq(Subscribers), NEW heard, NEW new, NEW i \in Undisturbed(cbs)
    PROVE  Tell(heard, cbs, new)[cbs[i]] = IF Closers(cbs, new) = {} THEN new ELSE NoAddress
<1>1. i \in Called(cbs) /\ i \in 1..Len(cbs) /\ cbs[i] \in Subscribers
  BY DEF Undisturbed, Called
<1>2. CASE Closers(cbs, new) = {}
  BY <1>1, <1>2 DEF Tell
<1>3. CASE Closers(cbs, new) # {}
  <2>1. \A k \in Closers(cbs, new) : i <= k
    <3> SUFFICES ASSUME NEW k \in Closers(cbs, new), k < i PROVE FALSE
      BY <1>1 DEF Closers, Called
    <3>1. k \in 1..(i - 1) /\ cbs[k] \in Closing
      BY <1>1 DEF Closers, Called
    <3> QED BY <3>1 DEF Undisturbed
  <2>2. Tell(heard, cbs, new)[cbs[i]] = NoAddress
    BY <1>1, <1>3, <2>1 DEF Tell
  <2> QED BY <1>3, <2>2
<1> QED BY <1>2, <1>3

(* A change of the address, with the loop it runs, makes them agree.       *)
LEMMA ChangeAgrees ==
    ASSUME GobyTypeOK, NEW new, changeAddress(new)
    PROVE  SubscribersAgree'
<1>1. callbacks' = callbacks /\ callbacks \in Seq(Subscribers)
  BY DEF changeAddress, GobyTypeOK
<1>2. ASSUME NEW i \in Undisturbed(callbacks) PROVE told'[callbacks[i]] = address'
  BY <1>1, <1>2, LoopTells DEF changeAddress
<1> QED BY <1>1, <1>2 DEF SubscribersAgree, Undisturbed, getAddress, Called

(* A new callback comes last: it is told at once, and those before it are as*)
(* they were, unless it closes and the loop tells them all.                *)
LEMMA SubscribeAgrees ==
    ASSUME GobyTypeOK, SubscribersAgree, NEW s \in Subscribers, SubscribeToAddressChanges(s)
    PROVE  SubscribersAgree'
<1>1. /\ callbacks \in Seq(Subscribers) /\ told \in [Subscribers -> Addresses]
      /\ callbacks' = Append(callbacks, s) /\ callbacks' \in Seq(Subscribers)
      /\ \A j \in 1..Len(callbacks) : callbacks[j] # s
  BY DEF SubscribeToAddressChanges, GobyTypeOK
<1> SUFFICES ASSUME NEW i \in Undisturbed(callbacks') PROVE told'[callbacks'[i]] = address'
  BY DEF SubscribersAgree, Undisturbed, getAddress, Called
<1> DEFINE heard == [told EXCEPT ![s] = address]
<1>2. CASE s \in Closing /\ isConnected
  <2>1. told' = Tell(heard, callbacks', NoAddress) /\ address' = NoAddress
    BY <1>2 DEF SubscribeToAddressChanges
  <2>2. Closers(callbacks', NoAddress) = {}
    BY DEF Closers
  <2>3. \A h : \A cbs \in Seq(Subscribers) : \A k \in Undisturbed(cbs) :
            Closers(cbs, NoAddress) = {} => Tell(h, cbs, NoAddress)[cbs[k]] = NoAddress
    BY LoopTells
  <2>4. Tell(heard, callbacks', NoAddress)[callbacks'[i]] = NoAddress
    <3> HIDE DEF heard
    <3> QED BY <1>1, <2>2, <2>3
  <2> QED BY <2>1, <2>4
<1>3. CASE ~(s \in Closing /\ isConnected)
  <2>1. told' = heard /\ address' = address
    BY <1>3 DEF SubscribeToAddressChanges
  <2>2. i \in 1..(Len(callbacks) + 1) /\ Len(callbacks) \in Nat
    BY <1>1 DEF Undisturbed, Called
  <2>3. CASE i = Len(callbacks) + 1
    BY <1>1, <2>1, <2>3
  <2>4. CASE i # Len(callbacks) + 1
    <3>1. i \in 1..Len(callbacks) /\ callbacks'[i] = callbacks[i] /\ callbacks[i] # s
      BY <1>1, <2>2, <2>4
    <3>2. \A j \in 1..(i - 1) : callbacks'[j] = callbacks[j]
      BY <1>1, <2>2, <3>1
    <3>3. i \in Undisturbed(callbacks)
      BY <3>1, <3>2 DEF Undisturbed, Called
    <3>4. told[callbacks[i]] = address
      BY <3>3 DEF SubscribersAgree, Undisturbed, getAddress
    <3>5. callbacks[i] \in Subscribers
      BY <1>1, <3>1
    <3> QED BY <1>1, <2>1, <3>1, <3>4, <3>5
  <2> QED BY <2>3, <2>4
<1> QED BY <1>2, <1>3

(* No step makes a callback disagree.                                      *)
LEMMA AgreeKeeps == GobyTypeOK /\ SubscribersAgree /\ [GobyNext]_gobyVars => SubscribersAgree'
<1> SUFFICES ASSUME GobyTypeOK, SubscribersAgree, [GobyNext]_gobyVars PROVE SubscribersAgree'
  OBVIOUS
<1>1. CASE Close
  BY <1>1, ChangeAgrees DEF Close
<1>2. ASSUME NEW s \in Subscribers, SubscribeToAddressChanges(s) PROVE SubscribersAgree'
  BY <1>2, SubscribeAgrees
<1>3. ASSUME UNCHANGED <<address, callbacks, told>> PROVE SubscribersAgree'
  BY <1>3 DEF SubscribersAgree, getAddress, Called
<1>4. CASE Handle
  <2>1. ASSUME changeAddress(Head(inbox).value) PROVE SubscribersAgree'
    BY <2>1, ChangeAgrees
  <2> QED BY <1>3, <1>4, <2>1 DEF Handle, goby
<1>5. CASE Connect \/ Answer \/ AccountChanges \/ ChainChanges
  BY <1>3, <1>5 DEF Connect, Answer, AccountChanges, ChainChanges, goby
<1>6. CASE UNCHANGED gobyVars
  BY <1>3, <1>6 DEF gobyVars
<1> QED BY <1>1, <1>2, <1>4, <1>5, <1>6 DEF GobyNext

(* Through any sequence of subscriptions, connects, closes and changes of   *)
(* account, closes inside a callback included, each callback that no earlier*)
(* one disturbs was last told the provider's address (goby_provider.ts      *)
(* _changeAddress, subscribeToAddressChanges).                             *)
THEOREM CallbacksAreTold == GobySpec => []SubscribersAgree
<1>1. GobyInit => SubscribersAgree
  BY DEF GobyInit, SubscribersAgree, Called
<1>2. GobyIInv => GobyTypeOK
  BY DEF GobyIInv
<1> QED BY <1>1, <1>2, AgreeKeeps, GobyInvariant, PTL DEF GobySpec

-----------------------------------------------------------------------------
(* MultiProvider and XCHModule. *)

allVars == <<vars, provider, unused>>

(* Provider p needs no more of call c: it has been tried, or it cannot be. *)
Passed(c, p) ==
    IF Method[c] = "connect" THEN p \in same[c] /\ p \notin connected => p \in called[c]
    ELSE p \in same[c] /\ p \in connected => p \in threw[c]

PassedNext(c, p) ==
    IF Method[c] = "connect" THEN p \in same'[c] /\ p \notin connected' => p \in called'[c]
    ELSE p \in same'[c] /\ p \in connected' => p \in threw'[c]

Types ==
    /\ connected \subseteq Providers
    /\ made \subseteq Calls
    /\ list \in [Calls -> Seq(Providers)]
    /\ position \in [Calls -> Nat]
    /\ \A c \in Calls : position[c] <= Len(list[c])
    /\ result \in [Calls -> Providers \cup {None, Failed, Settled}]
    /\ threw \in [Calls -> SUBSET Providers]
    /\ called \in [Calls -> SUBSET Providers]
    /\ same \in [Calls -> SUBSET Providers]
    /\ faults \in 0..MaxFaults
    /\ provider \in Seq(Providers) \cup {Null}
    /\ unused \subseteq Providers

(* A call that was not made has done nothing. *)
Fresh ==
    \A c \in Calls \ made :
        position[c] = 0 /\ result[c] = None /\ list[c] = <<>>

(* A call that waits for a provider has passed all those before it. *)
Waiting ==
    \A c \in Calls : position[c] # 0 =>
        /\ c \in made
        /\ result[c] = None
        /\ list[c][position[c]] \in called[c]
        /\ \A j \in 1..(position[c] - 1) : Passed(c, list[c][j])

IInv == Types /\ Fresh /\ Waiting

(* How a call may end. *)
EndsRightly(c) ==
    result[c] = None /\ result'[c] # None =>
        \/ /\ result'[c] \in Providers
           /\ \E k \in 1..Len(list[c]) :
                 /\ list[c][k] = result'[c]
                 /\ \A j \in 1..(k - 1) : Passed(c, list[c][j])
           /\ Method[c] \in Methods
        \/ /\ result'[c] = (IF Method[c] \in Visiting THEN Settled ELSE Failed)
           /\ \A j \in 1..Len(list'[c]) : PassedNext(c, list'[c][j])
           /\ same'[c] = same[c] /\ connected' = connected
        \/ result'[c] = Failed /\ list'[c] = <<>>

-----------------------------------------------------------------------------
(* A step of the loop. *)

(* Going on from place i, all before which have been passed, a call either *)
(* waits at a later place or ends with all of them passed.                 *)
LEMMA GoesOn ==
    ASSUME Types, NEW c \in Calls, NEW l \in Seq(Providers), NEW i \in 0..Len(l),
           GoesOnFrom(c, l, i), connected' = connected, same' = same,
           result[c] = None, \A j \in 1..i : PassedNext(c, l[j])
    PROVE  /\ position' \in [Calls -> Nat]
           /\ position' = [position EXCEPT ![c] = position'[c]]
           /\ result' \in [Calls -> Providers \cup {None, Failed, Settled}]
           /\ result' = [result EXCEPT ![c] = result'[c]]
           /\ called' \in [Calls -> SUBSET Providers]
           /\ \A d \in Calls : d # c => called'[d] = called[d]
           /\ position'[c] <= Len(l)
           /\ position'[c] # 0 =>
                 /\ result'[c] = None
                 /\ l[position'[c]] \in called'[c]
                 /\ \A j \in 1..(position'[c] - 1) : PassedNext(c, l[j])
           /\ result'[c] # None =>
                 /\ result'[c] = (IF Method[c] \in Visiting THEN Settled ELSE Failed)
                 /\ \A j \in 1..Len(l) : PassedNext(c, l[j])
<1> DEFINE next == {k \in 1..Len(l) : k > i /\ Visits(c, l[k])}
<1>1. ASSUME NEW j \in 1..Len(l), j > i, j \notin next PROVE PassedNext(c, l[j])
  BY <1>1 DEF Passed, PassedNext, Visits
<1>2. CASE /\ next = {}
           /\ position' = [position EXCEPT ![c] = 0]
           /\ result' = [result EXCEPT ![c] =
                            IF Method[c] \in Visiting THEN Settled ELSE Failed]
           /\ UNCHANGED called
  <2>1. \A j \in 1..Len(l) : PassedNext(c, l[j])
    <3> SUFFICES ASSUME NEW j \in 1..Len(l) PROVE PassedNext(c, l[j])
      OBVIOUS
    <3>1. CASE j <= i
      BY <3>1
    <3>2. CASE j > i
      BY <3>2, <1>1, <1>2
    <3> QED BY <3>1, <3>2
  <2> HIDE DEF next
  <2> QED BY <1>2, <2>1 DEF Types
<1>3. ASSUME NEW k \in next,
             \A j \in next : k <= j,
             position' = [position EXCEPT ![c] = k],
             called' = [called EXCEPT ![c] = @ \cup {l[k]}],
             UNCHANGED result
      PROVE  /\ position' \in [Calls -> Nat]
             /\ position'[c] = k
             /\ called' \in [Calls -> SUBSET Providers]
             /\ l[k] \in called'[c]
             /\ \A d \in Calls : d # c => called'[d] = called[d]
             /\ \A j \in 1..(k - 1) : PassedNext(c, l[j])
  <2>1. k \in 1..Len(l) /\ k > i /\ l[k] \in Providers
    OBVIOUS
  <2>2. ASSUME NEW j \in 1..(k - 1) PROVE PassedNext(c, l[j])
    <3>1. CASE j <= i
      BY <3>1
    <3>2. CASE j > i
      <4>1. j \in 1..Len(l) /\ j \notin next
        BY <2>1, <1>3
      <4> QED BY <3>2, <4>1, <1>1
    <3> QED BY <3>1, <3>2
  <2> QED BY <2>1, <2>2, <1>3 DEF Types
<1>4. \/ /\ next = {}
         /\ position' = [position EXCEPT ![c] = 0]
         /\ result' = [result EXCEPT ![c] =
                          IF Method[c] \in Visiting THEN Settled ELSE Failed]
         /\ UNCHANGED called
      \/ \E k \in next :
         /\ \A j \in next : k <= j
         /\ position' = [position EXCEPT ![c] = k]
         /\ called' = [called EXCEPT ![c] = @ \cup {l[k]}]
         /\ UNCHANGED result
  BY DEF GoesOnFrom
<1>5. \A k \in next : k \in 1..Len(l)
  OBVIOUS
<1> HIDE DEF next
<1> QED
  <2>1. ASSUME NEW k \in next,
               \A j \in next : k <= j,
               position' = [position EXCEPT ![c] = k],
               called' = [called EXCEPT ![c] = @ \cup {l[k]}],
               UNCHANGED result
        PROVE  /\ result' \in [Calls -> Providers \cup {None, Failed, Settled}]
               /\ result' = [result EXCEPT ![c] = result'[c]]
               /\ result'[c] = None
               /\ position' = [position EXCEPT ![c] = position'[c]]
    BY <2>1 DEF Types
  <2> QED BY <1>2, <1>3, <1>4, <1>5, <2>1

-----------------------------------------------------------------------------
(* The steps of the calls and of the providers. *)

(* Making a call of an object keeps the invariant. *)
LEMMA CallKeeps ==
    ASSUME IInv, NEW c \in Calls, NEW l \in Seq(Providers), Call(c, l),
           UNCHANGED <<provider, unused>>
    PROVE  IInv' /\ \A d \in Calls : EndsRightly(d)
<1> USE DEF IInv
<1>1. /\ Types /\ c \notin made /\ position[c] = 0 /\ result[c] = None
      /\ made' = made \cup {c} /\ list' = [list EXCEPT ![c] = l]
      /\ GoesOnFrom(c, l, 0)
      /\ UNCHANGED <<connected, threw, same, faults, provider, unused>>
  BY DEF Call, Fresh
<1>2. 0 \in 0..Len(l)
  OBVIOUS
<1>3. \A j \in 1..0 : PassedNext(c, l[j])
  OBVIOUS
<1>4. /\ position' \in [Calls -> Nat]
      /\ position' = [position EXCEPT ![c] = position'[c]]
      /\ result' \in [Calls -> Providers \cup {None, Failed, Settled}]
      /\ result' = [result EXCEPT ![c] = result'[c]]
      /\ called' \in [Calls -> SUBSET Providers]
      /\ \A d \in Calls : d # c => called'[d] = called[d]
      /\ position'[c] <= Len(l)
      /\ position'[c] # 0 =>
            /\ result'[c] = None
            /\ l[position'[c]] \in called'[c]
            /\ \A j \in 1..(position'[c] - 1) : PassedNext(c, l[j])
      /\ result'[c] # None =>
            /\ result'[c] = (IF Method[c] \in Visiting THEN Settled ELSE Failed)
            /\ \A j \in 1..Len(l) : PassedNext(c, l[j])
  BY <1>1, <1>2, <1>3, GoesOn
<1>5. list'[c] = l /\ \A d \in Calls : d # c =>
        list'[d] = list[d] /\ position'[d] = position[d] /\ result'[d] = result[d]
  BY <1>1, <1>4 DEF Types
<1>6. Types'
  BY <1>1, <1>4, <1>5 DEF Types
<1>7. Fresh'
  BY <1>1, <1>5 DEF Fresh
<1>8. Waiting'
  <2> SUFFICES ASSUME NEW d \in Calls, position'[d] # 0
               PROVE  /\ d \in made' /\ result'[d] = None
                      /\ list'[d][position'[d]] \in called'[d]
                      /\ \A j \in 1..(position'[d] - 1) : PassedNext(d, list'[d][j])
    BY DEF Waiting, Passed, PassedNext
  <2>1. CASE d = c
    BY <2>1, <1>1, <1>4, <1>5
  <2>2. CASE d # c
    <3>1. \A p : Passed(d, p) => PassedNext(d, p)
      BY <2>2, <1>1, <1>4 DEF Passed, PassedNext
    <3> QED BY <2>2, <3>1, <1>1, <1>4, <1>5 DEF Waiting
  <2> QED BY <2>1, <2>2
<1>9. \A d \in Calls : EndsRightly(d)
  BY <1>1, <1>4, <1>5 DEF EndsRightly
<1> QED BY <1>6, <1>7, <1>8, <1>9

(* So does a provider's answer. *)
LEMMA AnswersKeeps ==
    ASSUME IInv, NEW c \in Calls, Answers(c), UNCHANGED <<provider, unused>>
    PROVE  IInv' /\ \A d \in Calls : EndsRightly(d)
<1> USE DEF IInv
<1> DEFINE p == list[c][position[c]]
<1>1. /\ position[c] # 0 /\ c \in made /\ result[c] = None /\ p \in called[c]
      /\ \A j \in 1..(position[c] - 1) : Passed(c, list[c][j])
      /\ position[c] \in 1..Len(list[c]) /\ list[c] \in Seq(Providers) /\ p \in Providers
      /\ UNCHANGED <<connected, made, list, threw, same, faults, provider, unused>>
  BY DEF Answers, Waiting, Types
<1>2. CASE Method[c] \in Visiting
  <2>1. /\ Method[c] = "close" => p \notin connected
        /\ GoesOnFrom(c, list[c], position[c])
    BY <1>2 DEF Answers
  <2>2. \A j \in 1..position[c] : PassedNext(c, list[c][j])
    <3> SUFFICES ASSUME NEW j \in 1..position[c] PROVE PassedNext(c, list[c][j])
      OBVIOUS
    <3>1. called[c] \subseteq called'[c]
      BY <2>1, <1>1 DEF GoesOnFrom, Types
    <3>2. CASE j < position[c]
      BY <3>1, <3>2, <1>1 DEF Passed, PassedNext
    <3>3. CASE j = position[c]
      BY <3>1, <3>3, <1>1, <1>2, <2>1 DEF Passed, PassedNext, Visiting
    <3> QED BY <3>2, <3>3, <1>1
  <2>3. position[c] \in 0..Len(list[c])
    BY <1>1
  <2>4. /\ position' \in [Calls -> Nat]
        /\ position' = [position EXCEPT ![c] = position'[c]]
        /\ result' \in [Calls -> Providers \cup {None, Failed, Settled}]
        /\ result' = [result EXCEPT ![c] = result'[c]]
        /\ called' \in [Calls -> SUBSET Providers]
        /\ \A d \in Calls : d # c => called'[d] = called[d]
        /\ position'[c] <= Len(list[c])
        /\ position'[c] # 0 =>
              /\ result'[c] = None
              /\ list[c][position'[c]] \in called'[c]
              /\ \A j \in 1..(position'[c] - 1) : PassedNext(c, list[c][j])
        /\ result'[c] # None =>
              /\ result'[c] = (IF Method[c] \in Visiting THEN Settled ELSE Failed)
              /\ \A j \in 1..Len(list[c]) : PassedNext(c, list[c][j])
    BY <1>1, <2>1, <2>2, <2>3, GoesOn
  <2>5. Types'
    <3>1. /\ connected' \subseteq Providers /\ made' \subseteq Calls
          /\ list' \in [Calls -> Seq(Providers)] /\ faults' \in 0..MaxFaults
          /\ threw' \in [Calls -> SUBSET Providers] /\ same' \in [Calls -> SUBSET Providers]
          /\ provider' \in Seq(Providers) \cup {Null} /\ unused' \subseteq Providers
      BY <1>1 DEF Types
    <3>2. \A d \in Calls : position'[d] <= Len(list'[d])
      <4> SUFFICES ASSUME NEW d \in Calls PROVE position'[d] <= Len(list'[d])
        OBVIOUS
      <4>1. list' = list /\ position[d] <= Len(list[d])
        BY <1>1 DEF Types
      <4>2. d # c => position'[d] = position[d]
        BY <2>4
      <4> QED BY <2>4, <4>1, <4>2
    <3> QED BY <2>4, <3>1, <3>2 DEF Types
  <2>6. Fresh'
    BY <1>1, <2>4 DEF Fresh, Types
  <2>7. Waiting'
    BY <1>1, <2>4 DEF Waiting, Types, Passed, PassedNext
  <2>8. \A d \in Calls : EndsRightly(d)
    BY <1>1, <2>4 DEF EndsRightly, Types
  <2> QED BY <2>5, <2>6, <2>7, <2>8
<1>3. CASE Method[c] \notin Visiting
  <2>1. /\ position' = [position EXCEPT ![c] = 0]
        /\ result' = [result EXCEPT ![c] = p]
        /\ called' = called
    BY <1>3 DEF Answers, Returns
  <2>2. Method[c] \in Methods
    BY <1>3, MethodsAssumption
  <2>3. Types'
    BY <1>1, <2>1 DEF Types
  <2>4. Fresh'
    BY <1>1, <2>1 DEF Fresh, Types
  <2>5. Waiting'
    BY <1>1, <2>1 DEF Waiting, Types, Passed, PassedNext
  <2>6. \A d \in Calls : EndsRightly(d)
    <3>1. \E k \in 1..Len(list[c]) : /\ list[c][k] = p
                                   /\ \A j \in 1..(k - 1) : Passed(c, list[c][j])
      BY <1>1
    <3>2. result'[c] = p /\ \A d \in Calls : d # c => result'[d] = result[d]
      BY <1>1, <2>1 DEF Types
    <3> QED BY <1>1, <2>2, <3>1, <3>2 DEF EndsRightly
  <2> QED BY <2>3, <2>4, <2>5, <2>6
<1> QED BY <1>2, <1>3

(* So does an exception. *)
LEMMA ThrowsKeeps ==
    ASSUME IInv, NEW c \in Calls, Throws(c), UNCHANGED <<provider, unused>>
    PROVE  IInv' /\ \A d \in Calls : EndsRightly(d)
<1> USE DEF IInv
<1> DEFINE p == list[c][position[c]]
<1>1. /\ position[c] # 0 /\ c \in made /\ result[c] = None /\ p \in called[c]
      /\ \A j \in 1..(position[c] - 1) : Passed(c, list[c][j])
      /\ position[c] \in 1..Len(list[c]) /\ list[c] \in Seq(Providers) /\ p \in Providers
      /\ threw' = [threw EXCEPT ![c] = @ \cup {p}]
      /\ GoesOnFrom(c, list[c], position[c])
      /\ faults' \in 0..MaxFaults
      /\ UNCHANGED <<connected, made, list, same, provider, unused>>
  BY MethodsAssumption DEF Throws, Catches, Waiting, Types
<1>2. \A j \in 1..position[c] : PassedNext(c, list[c][j])
  <2> SUFFICES ASSUME NEW j \in 1..position[c] PROVE PassedNext(c, list[c][j])
    OBVIOUS
  <2>1. called[c] \subseteq called'[c] /\ threw[c] \subseteq threw'[c] /\ p \in threw'[c]
    BY <1>1 DEF GoesOnFrom, Types
  <2>2. CASE j < position[c]
    BY <2>1, <2>2, <1>1 DEF Passed, PassedNext
  <2>3. CASE j = position[c]
    BY <2>1, <2>3, <1>1 DEF Passed, PassedNext
  <2> QED BY <2>2, <2>3, <1>1
<1>3. position[c] \in 0..Len(list[c])
  BY <1>1
<1>4. /\ position' \in [Calls -> Nat]
      /\ position' = [position EXCEPT ![c] = position'[c]]
      /\ result' \in [Calls -> Providers \cup {None, Failed, Settled}]
      /\ result' = [result EXCEPT ![c] = result'[c]]
      /\ called' \in [Calls -> SUBSET Providers]
      /\ \A d \in Calls : d # c => called'[d] = called[d]
      /\ position'[c] <= Len(list[c])
      /\ position'[c] # 0 =>
            /\ result'[c] = None
            /\ list[c][position'[c]] \in called'[c]
            /\ \A j \in 1..(position'[c] - 1) : PassedNext(c, list[c][j])
      /\ result'[c] # None =>
            /\ result'[c] = (IF Method[c] \in Visiting THEN Settled ELSE Failed)
            /\ \A j \in 1..Len(list[c]) : PassedNext(c, list[c][j])
  BY <1>1, <1>2, <1>3, GoesOn
<1>5. Types'
  <2>1. threw' \in [Calls -> SUBSET Providers]
    BY <1>1 DEF Types
  <2>2. /\ connected' \subseteq Providers /\ made' \subseteq Calls
        /\ list' \in [Calls -> Seq(Providers)]
        /\ same' \in [Calls -> SUBSET Providers]
        /\ provider' \in Seq(Providers) \cup {Null} /\ unused' \subseteq Providers
    BY <1>1 DEF Types
  <2>3. \A d \in Calls : position'[d] <= Len(list'[d])
    <3> SUFFICES ASSUME NEW d \in Calls PROVE position'[d] <= Len(list'[d])
      OBVIOUS
    <3>1. list' = list /\ position[d] <= Len(list[d])
      BY <1>1 DEF Types
    <3>2. d # c => position'[d] = position[d]
      BY <1>4
    <3> QED BY <1>4, <3>1, <3>2
  <2> QED BY <1>1, <1>4, <2>1, <2>2, <2>3 DEF Types
<1>6. Fresh'
  BY <1>1, <1>4 DEF Fresh, Types
<1>7. Waiting'
  BY <1>1, <1>4 DEF Waiting, Types, Passed, PassedNext
<1>8. \A d \in Calls : EndsRightly(d)
  BY <1>1, <1>4 DEF EndsRightly, Types
<1> QED BY <1>5, <1>6, <1>7, <1>8

(* A provider that connects or disconnects is no longer one that stayed the *)
(* same: what was passed remains passed.                                    *)
LEMMA ChangeKeeps ==
    ASSUME IInv, NEW p \in Providers, Changed(p),
           connected' = connected \cup {p} \/ connected' = connected \ {p},
           faults' \in 0..MaxFaults, UNCHANGED <<calls, provider, unused>>
    PROVE  IInv' /\ \A d \in Calls : EndsRightly(d)
<1> USE DEF IInv
<1>1. UNCHANGED <<made, list, position, result, threw, called, provider, unused>>
  BY DEF calls
<1>2. /\ same' \in [Calls -> SUBSET Providers]
      /\ \A c \in Calls : same'[c] \subseteq same[c]
      /\ \A c \in Calls : c \in made /\ result[c] = None => p \notin same'[c]
  BY DEF Changed, Types
<1>3. Types'
  BY <1>1, <1>2 DEF Types
<1>4. Waiting'
  <2> SUFFICES ASSUME NEW c \in Calls, position[c] # 0, NEW j \in 1..(position[c] - 1)
               PROVE  PassedNext(c, list[c][j])
    BY <1>1 DEF Waiting, Passed, PassedNext
  <2>1. c \in made /\ result[c] = None /\ Passed(c, list[c][j])
    BY DEF Waiting
  <2> QED BY <2>1, <1>1, <1>2 DEF Passed, PassedNext
<1>5. Fresh' /\ \A d \in Calls : EndsRightly(d)
  BY <1>1 DEF Fresh, EndsRightly
<1> QED BY <1>3, <1>4, <1>5

(* Without a provider a call fails at once. *)
LEMMA NotSetKeeps ==
    ASSUME IInv, NEW c \in Calls, NotSet(c), UNCHANGED <<provider, unused>>
    PROVE  IInv' /\ \A d \in Calls : EndsRightly(d)
<1> USE DEF IInv
<1>1. /\ c \notin made /\ made' = made \cup {c}
      /\ result' = [result EXCEPT ![c] = Failed]
      /\ UNCHANGED <<connected, list, position, threw, called, same, faults, unused>>
  BY DEF NotSet
<1>2. Types'
  BY <1>1 DEF Types
<1>3. Fresh'
  BY <1>1 DEF Fresh, Types
<1>4. Waiting'
  BY <1>1 DEF Waiting, Fresh, Types, Passed
<1>5. \A d \in Calls : EndsRightly(d)
  BY <1>1 DEF EndsRightly, Fresh, Types
<1> QED BY <1>2, <1>3, <1>4, <1>5

(* The application sets another provider, or none: calls under way go on    *)
(* with the one they were made on.                                          *)
LEMMA SetKeeps ==
    ASSUME IInv, provider' \in Seq(Providers) \cup {Null}, unused' \subseteq Providers,
           UNCHANGED vars
    PROVE  IInv' /\ \A d \in Calls : EndsRightly(d)
<1> USE DEF IInv
<1>1. UNCHANGED <<connected, made, list, position, result, threw, called, same, faults>>
  BY DEF vars, calls
<1> QED BY <1>1 DEF Types, Fresh, Waiting, EndsRightly, Passed

-----------------------------------------------------------------------------
(* The invariant of the specification. *)

(* At first no call is in flight.                                          *)
LEMMA InitKeeps == InitXCH => IInv
<1> SUFFICES ASSUME InitXCH PROVE IInv
  OBVIOUS
<1>1. UNION {{l[k] : k \in 1..Len(l)} : l \in Lists} \subseteq Providers
  BY MethodsAssumption
<1>2. Types
  BY <1>1, MethodsAssumption DEF InitXCH, Init, Types
<1> QED BY <1>2 DEF InitXCH, Init, IInv, Fresh, Waiting

(* Every step keeps the invariant, and ends calls rightly.                 *)
LEMMA NextKeeps ==
    IInv /\ [XCHNext]_allVars => IInv' /\ \A d \in Calls : EndsRightly(d)
<1> SUFFICES ASSUME IInv, [XCHNext]_allVars
             PROVE  IInv' /\ \A d \in Calls : EndsRightly(d)
  OBVIOUS
<1>1. ASSUME UNCHANGED <<provider, unused>>, Next
      PROVE  IInv' /\ \A d \in Calls : EndsRightly(d)
  <2>1. ASSUME NEW c \in Calls, NEW l \in Lists, Call(c, l)
        PROVE  IInv' /\ \A d \in Calls : EndsRightly(d)
    BY <1>1, <2>1, MethodsAssumption, CallKeeps
  <2>2. ASSUME NEW c \in Calls, Answers(c) \/ Throws(c)
        PROVE  IInv' /\ \A d \in Calls : EndsRightly(d)
    BY <1>1, <2>2, AnswersKeeps, ThrowsKeeps
  <2>3. ASSUME NEW p \in Providers, Connects(p) \/ Disconnects(p)
        PROVE  IInv' /\ \A d \in Calls : EndsRightly(d)
    <3>1. /\ Changed(p) /\ UNCHANGED calls
          /\ connected' = connected \cup {p} \/ connected' = connected \ {p}
          /\ faults' \in 0..MaxFaults
      BY <2>3, MethodsAssumption DEF Connects, Disconnects, IInv, Types
    <3> QED BY <1>1, <3>1, ChangeKeeps
  <2> QED BY <1>1, <2>1, <2>2, <2>3 DEF Next, Step
<1>2. ASSUME NEW providers \in Lists, setProvider(providers)
      PROVE  IInv' /\ \A d \in Calls : EndsRightly(d)
  BY <1>2, MethodsAssumption, SetKeeps DEF setProvider, IInv, Types
<1>3. ASSUME clearProvider PROVE IInv' /\ \A d \in Calls : EndsRightly(d)
  BY <1>3, SetKeeps DEF clearProvider, IInv, Types
<1>4. ASSUME NEW options \in SUBSET {"Goby", "Leaflet", "PrivateKey"}, createProvider(options)
      PROVE  IInv' /\ \A d \in Calls : EndsRightly(d)
  <2>1. CASE InvalidKey(options)
    <3>1. provider' = provider /\ unused' \subseteq unused /\ UNCHANGED vars
      BY <1>4, <2>1 DEF createProvider, InvalidKey, UsesUp
    <3> QED BY <3>1, SetKeeps DEF IInv, Types
  <2>2. ASSUME NEW new \in New(options),
               provider' = Pushed(new, "Goby") \o Pushed(new, "Leaflet") \o Pushed(new, "PrivateKey"),
               UsesUp(new)
        PROVE  IInv' /\ \A d \in Calls : EndsRightly(d)
    <3>1. new \in [options -> unused] /\ unused' \subseteq unused /\ UNCHANGED vars
      BY <1>4, <2>2 DEF New, UsesUp, createProvider
    <3>2. \A kind : Pushed(new, kind) \in Seq(Providers)
      <4> SUFFICES ASSUME NEW kind PROVE Pushed(new, kind) \in Seq(Providers)
        OBVIOUS
      <4>1. CASE kind \in options
        <5>1. new[kind] \in Providers
          BY <3>1, <4>1 DEF IInv, Types
        <5> QED BY <3>1, <4>1, <5>1 DEF Pushed
      <4>2. CASE kind \notin options
        BY <3>1, <4>2 DEF Pushed
      <4> QED BY <4>1, <4>2
    <3>3. provider' \in Seq(Providers)
      BY <2>2, <3>2
    <3> QED BY <3>1, <3>3, SetKeeps DEF IInv, Types
  <2> QED BY <1>4, <2>1, <2>2 DEF createProvider
<1>5. ASSUME NEW c \in Calls, Wrapper(c)
      PROVE  IInv' /\ \A d \in Calls : EndsRightly(d)
  <2>1. CASE NotSet(c)
    BY <1>5, <2>1, NotSetKeeps DEF Wrapper
  <2>2. CASE provider # Null /\ Call(c, provider)
    BY <1>5, <2>2, CallKeeps DEF Wrapper, IInv, Types
  <2> QED BY <1>5, <2>1, <2>2 DEF Wrapper
<1>6. CASE UNCHANGED allVars
  BY <1>6, SetKeeps DEF allVars, IInv, Types
<1> QED BY <1>1, <1>2, <1>3, <1>4, <1>5, <1>6 DEF XCHNext, Next

(* It is an invariant.                                                     *)
LEMMA Invariant == XCHSpec => []IInv
BY InitKeeps, NextKeeps, PTL DEF XCHSpec, allVars

-----------------------------------------------------------------------------
(* The results. *)

(* Every call is where a call can be: it waits for a provider of its list,  *)
(* or it has a result (multi_provider.ts, the loops of its methods).        *)
THEOREM CallsAreTyped == XCHSpec => []TypeOK
<1>1. IInv => TypeOK
  BY DEF IInv, Types, Waiting, TypeOK
<1> QED BY <1>1, Invariant, PTL

(* The result of a call comes from the first provider that could give it    *)
(* (multi_provider.ts, the order of providers).                             *)
THEOREM FirstChoiceTaken == XCHSpec => FirstChoice
<1>1. IInv /\ [XCHNext]_allVars =>
        [\A c \in Calls : result[c] = None /\ result'[c] \in Providers =>
            \E k \in 1..Len(list[c]) :
                /\ list[c][k] = result'[c]
                /\ \A j \in 1..(k - 1) :
                      list[c][j] \in same[c] \cap connected => list[c][j] \in threw[c]]_vars
  <2> SUFFICES ASSUME IInv, [XCHNext]_allVars,
                      NEW c \in Calls, result[c] = None, result'[c] \in Providers
               PROVE  \E k \in 1..Len(list[c]) :
                        /\ list[c][k] = result'[c]
                        /\ \A j \in 1..(k - 1) :
                              list[c][j] \in same[c] \cap connected => list[c][j] \in threw[c]
    OBVIOUS
  <2>1. result'[c] \notin {None, Failed, Settled}
    BY ResultsAssumption
  <2>2. EndsRightly(c)
    BY NextKeeps
  <2>3. Method[c] \in Methods /\
        \E k \in 1..Len(list[c]) : /\ list[c][k] = result'[c]
                                   /\ \A j \in 1..(k - 1) : Passed(c, list[c][j])
    BY <2>1, <2>2 DEF EndsRightly
  <2>4. Method[c] # "connect"
    BY <2>3, MethodsAssumption DEF Visiting
  <2> QED BY <2>3, <2>4 DEF Passed
<1> QED BY <1>1, Invariant, PTL DEF XCHSpec, allVars, FirstChoice

(* A call fails only when each provider that stayed connected threw         *)
(* (multi_provider.ts, the throw after the loop).                           *)
THEOREM FailureMeansNone == XCHSpec => FailsOnlyIfNone
<1>1. IInv /\ [XCHNext]_allVars =>
        [\A c \in Calls : result[c] = None /\ result'[c] = Failed =>
            Of(c)' \cap same[c] \cap connected \subseteq threw'[c]]_vars
  <2> SUFFICES ASSUME IInv, [XCHNext]_allVars,
                      NEW c \in Calls, result[c] = None, result'[c] = Failed,
                      NEW k \in 1..Len(list'[c]), list'[c][k] \in same[c] \cap connected
               PROVE  list'[c][k] \in threw'[c]
    BY DEF Of
  <2>1. EndsRightly(c)
    BY NextKeeps
  <2>2. list'[c] # <<>>
    OBVIOUS
  <2>3. /\ Method[c] \notin Visiting
        /\ PassedNext(c, list'[c][k]) /\ same'[c] = same[c] /\ connected' = connected
    BY <2>1, <2>2, ResultsAssumption DEF EndsRightly
  <2> QED BY <2>3 DEF PassedNext, Visiting
<1> QED BY <1>1, Invariant, PTL DEF XCHSpec, allVars, FailsOnlyIfNone

(* connect() and close() go on to the last provider, whatever happens to    *)
(* the others (multi_provider.ts connect, close).                           *)
THEOREM EveryProviderReached == XCHSpec => ReachesAll
<1>1. IInv /\ [XCHNext]_allVars =>
        [\A c \in Calls : result[c] = None /\ result'[c] = Settled =>
            IF Method[c] = "connect" THEN (Of(c)' \cap same[c]) \ connected \subseteq called'[c]
            ELSE Of(c)' \cap same[c] \cap connected \subseteq threw'[c]]_vars
  <2> SUFFICES ASSUME IInv, [XCHNext]_allVars,
                      NEW c \in Calls, result[c] = None, result'[c] = Settled,
                      NEW k \in 1..Len(list'[c]), list'[c][k] \in same[c]
               PROVE  IF Method[c] = "connect"
                      THEN list'[c][k] \notin connected => list'[c][k] \in called'[c]
                      ELSE list'[c][k] \in connected => list'[c][k] \in threw'[c]
    BY DEF Of
  <2>1. EndsRightly(c)
    BY NextKeeps
  <2>2. PassedNext(c, list'[c][k]) /\ same'[c] = same[c] /\ connected' = connected
    BY <2>1, ResultsAssumption DEF EndsRightly
  <2> QED BY <2>2 DEF PassedNext
<1> QED BY <1>1, Invariant, PTL DEF XCHSpec, allVars, ReachesAll
=============================================================================
