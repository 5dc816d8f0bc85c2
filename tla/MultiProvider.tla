----------------------------- MODULE MultiProvider -----------------------------
(***************************************************************************)
(* MultiProvider (src/xch/providers/multi/multi_provider.ts): a call goes  *)
(* to the providers in their order, skips those that are not connected and *)
(* those that throw, and returns the first answer; connect() and close()   *)
(* visit all of them.  Calls overlap at every await, and the providers     *)
(* connect and disconnect on their own meanwhile.                          *)
(*                                                                         *)
(* The provider's call and its answer are two steps.  A synchronous method *)
(* answers in the step of the call, which is one of the orders considered. *)
(***************************************************************************)
EXTENDS Integers, Sequences, FiniteSets

CONSTANTS
    Providers,      \* Goby, Leaflet and private key providers
    Lists,          \* the lists of providers the application makes objects of
    Methods,        \* the methods of Provider but connect and close
    Implements,     \* Implements[p]: the methods that do not throw at once
    Calls,          \* the calls an application may make
    Method,         \* Method[c]: a method, "connect" or "close"
    None, Failed, Settled,
    MaxFaults       \* bound: throws, connections and disconnections on their own

Visiting == {"connect", "close"}

ASSUME MethodsAssumption ==
    /\ Lists \subseteq Seq(Providers) /\ MaxFaults \in Nat
    /\ Implements \in [Providers -> SUBSET Methods]
    /\ Method \in [Calls -> Methods \cup Visiting]
    /\ Methods \cap Visiting = {}
ASSUME ResultsAssumption ==
    /\ None # Failed /\ None # Settled /\ Failed # Settled
    /\ {None, Failed, Settled} \cap Providers = {}

VARIABLES
    connected,   \* the providers whose isConnected() is true
    made,        \* the calls made
    list,        \* list[c]: the providers of the object that c was made on
    position,    \* position[c]: the place in it of the one c waits for, or 0
    result,      \* result[c]: the provider that answered, Failed, Settled
    threw,       \* threw[c]: the providers that threw for call c
    called,      \* called[c]: the providers called for c
    same,        \* same[c]: those that have not changed since c was made
    faults

calls == <<made, list, position, result, threw, called>>
vars == <<connected, made, list, position, result, threw, called, same, faults>>

TypeOK ==
    /\ connected \subseteq Providers
    /\ made \subseteq Calls
    /\ list \in [Calls -> Seq(Providers)]
    /\ \A c \in Calls : position[c] \in 0..Len(list[c])
    /\ result \in [Calls -> Providers \cup {None, Failed, Settled}]
    /\ threw \in [Calls -> SUBSET Providers]
    /\ called \in [Calls -> SUBSET Providers]
    /\ same \in [Calls -> SUBSET Providers]
    /\ faults \in 0..MaxFaults
    /\ \A c \in Calls : position[c] # 0 => c \in made /\ result[c] = None

Init ==
    /\ connected \in SUBSET UNION {{l[k] : k \in 1..Len(l)} : l \in Lists}
    /\ made = {}
    /\ list = [c \in Calls |-> <<>>]
    /\ position = [c \in Calls |-> 0]
    /\ result = [c \in Calls |-> None]
    /\ threw = [c \in Calls |-> {}]
    /\ called = [c \in Calls |-> {}]
    /\ same = [c \in Calls |-> Providers]
    /\ faults = 0

-----------------------------------------------------------------------------
(* Does the loop call provider p for c, or skip it? *)
Visits(c, p) == IF Method[c] = "connect" THEN p \notin connected ELSE p \in connected

(* The loop from place i of a list on, up to its next await or its end. *)
GoesOnFrom(c, providers, i) ==
    LET next == {k \in 1..Len(providers) : k > i /\ Visits(c, providers[k])}
    IN  \/ /\ next = {}
           /\ position' = [position EXCEPT ![c] = 0]
           /\ result' = [result EXCEPT ![c] = IF Method[c] \in Visiting THEN Settled ELSE Failed]
           /\ UNCHANGED called
        \/ \E k \in next :
           /\ \A j \in next : k <= j
           /\ position' = [position EXCEPT ![c] = k]
           /\ called' = [called EXCEPT ![c] = @ \cup {providers[k]}]
           /\ UNCHANGED result

CallSkipsFirst(c, providers) ==
    /\ c \notin made
    /\ made' = made \cup {c}
    /\ list' = [list EXCEPT ![c] = providers]
    /\ GoesOnFrom(c, providers, IF Method[c] \in Visiting THEN 0 ELSE 1)
    /\ UNCHANGED <<connected, threw, same, faults>>
Call(c, providers) ==
    /\ c \notin made
    /\ made' = made \cup {c}
    /\ list' = [list EXCEPT ![c] = providers]
    /\ GoesOnFrom(c, providers, 0)
    /\ UNCHANGED <<connected, threw, same, faults>>

Returns(c, p) ==
    /\ position' = [position EXCEPT ![c] = 0]
    /\ result' = [result EXCEPT ![c] = p]
    /\ UNCHANGED called

(* The provider carries out the call and its promise resolves: the method  *)
(* returns, and the loops of connect and close go on.  A provider whose    *)
(* close() has resolved is not connected.                                  *)
Answers(c) ==
    /\ position[c] # 0
    /\ LET p == list[c][position[c]]
       IN
        IF Method[c] \in Visiting
        THEN /\ Method[c] = "close" => p \notin connected
             /\ GoesOnFrom(c, list[c], position[c])
        ELSE /\ Method[c] \in Implements[p]
             /\ Returns(c, p)
    /\ UNCHANGED <<connected, made, list, threw, same, faults>>

(* The call throws: catch, continue.  The provider does not have the       *)
(* method, or has a reason of its own.  It may have carried out the call   *)
(* before it throws (GobyProvider.subscribeToAddressChanges keeps the      *)
(* callback, then runs it): the loop cannot tell and goes on all the same. *)
ThrowEndsLoop(c, p) ==
    /\ position' = [position EXCEPT ![c] = 0]
    /\ result' = [result EXCEPT ![c] = IF Method[c] \in Visiting THEN Settled ELSE Failed]
    /\ UNCHANGED called
TriesAgain(c, p) == UNCHANGED <<position, result, called>>
Catches(c, p) == GoesOnFrom(c, list[c], position[c])

Throws(c) ==
    /\ position[c] # 0
    /\ LET p == list[c][position[c]]
       IN
        /\ \/ /\ Method[c] \in Methods \ Implements[p]
              /\ UNCHANGED faults
           \/ /\ Method[c] \in Implements[p] \cup Visiting
              /\ faults < MaxFaults
              /\ faults' = faults + 1
        /\ threw' = [threw EXCEPT ![c] = @ \cup {p}]
        /\ Catches(c, p)
    /\ UNCHANGED <<connected, made, list, same>>

-----------------------------------------------------------------------------
(* The providers: one connects or disconnects because a call asked it to,  *)
(* or on its own (a wallet asked for its accounts by the constructor       *)
(* answers, or its user changes the account).                              *)
Waited(p, m) == \E c \in Calls : position[c] # 0 /\ list[c][position[c]] = p /\ Method[c] = m

(* What the properties say of a call is about the providers that did not    *)
(* change while it was under way.                                           *)
Changed(p) ==
    same' = [c \in Calls |-> IF c \in made /\ result[c] = None THEN same[c] \ {p} ELSE same[c]]

Connects(p) ==
    /\ p \notin connected
    /\ \/ /\ Waited(p, "connect")
          /\ UNCHANGED faults
       \/ /\ faults < MaxFaults
          /\ faults' = faults + 1
    /\ connected' = connected \cup {p}
    /\ Changed(p)
    /\ UNCHANGED calls

Disconnects(p) ==
    /\ p \in connected
    /\ \/ /\ Waited(p, "close")
          /\ UNCHANGED faults
       \/ /\ faults < MaxFaults
          /\ faults' = faults + 1
    /\ connected' = connected \ {p}
    /\ Changed(p)
    /\ UNCHANGED calls

Step ==
    \/ \E c \in Calls : Answers(c) \/ Throws(c)
    \/ \E p \in Providers : Connects(p) \/ Disconnects(p)

Next ==
    \/ \E c \in Calls, providers \in Lists : Call(c, providers)
    \/ Step

Spec == Init /\ [][Next]_vars

-----------------------------------------------------------------------------
(* Properties. *)

(* The providers of a call. *)
Of(c) == {list[c][k] : k \in 1..Len(list[c])}

(* The answer of a call is that of the first provider that could give it:  *)
(* one before it, connected from the call to the answer, has thrown.       *)
FirstChoice ==
    [][\A c \in Calls : result[c] = None /\ result'[c] \in Providers =>
          \E k \in 1..Len(list[c]) :
              /\ list[c][k] = result'[c]
              /\ \A j \in 1..(k - 1) :
                    list[c][j] \in same[c] \cap connected => list[c][j] \in threw[c]]_vars

(* A call throws only when every provider that was connected all the while *)
(* has thrown: "It iterates over all given providers until one that        *)
(* implements the wanted method" is found (docs/xch/multi-provider.md:3).  *)
FailsOnlyIfNone ==
    [][\A c \in Calls : result[c] = None /\ result'[c] = Failed =>
          Of(c)' \cap same[c] \cap connected \subseteq threw'[c]]_vars

(* connect() and close() reach every provider, whatever the others do: one *)
(* that was disconnected all the while was told to connect, and one still  *)
(* connected after a close() reconnected or threw.                         *)
ReachesAll ==
    [][\A c \in Calls : result[c] = None /\ result'[c] = Settled =>
          IF Method[c] = "connect" THEN (Of(c)' \cap same[c]) \ connected \subseteq called'[c]
          ELSE Of(c)' \cap same[c] \cap connected \subseteq threw'[c]]_vars

(* Every call ends. *)
CallsEnd == \A c \in Calls : c \in made ~> result[c] # None
=============================================================================
