------------------------------- MODULE XCHModule -------------------------------
(***************************************************************************)
(* XCHModule (src/xch/index.ts): greenweb.xch keeps one static provider,   *)
(* which createProvider, setProvider and clearProvider replace while calls *)
(* are under way, and hands every call to the one of the moment.  The      *)
(* application may also call its own MultiProvider objects.                *)
(***************************************************************************)
EXTENDS MultiProvider

CONSTANTS
    Kind,    \* Kind[p]: "Goby", "Leaflet" or "PrivateKey"
    Null     \* no provider is set

ASSUME KindAssumption ==
    /\ Kind \in [Providers -> {"Goby", "Leaflet", "PrivateKey"}]
    /\ Null \notin Seq(Providers)

VARIABLES
    provider,   \* the providers of the MultiProvider that is set, or Null
    unused      \* the providers createProvider may still make (a bound)

InitXCH ==
    /\ Init
    /\ provider = Null
    /\ unused = Providers \ UNION {{l[k] : k \in 1..Len(l)} : l \in Lists}

setProvider(providers) ==
    /\ provider' = providers
    /\ UNCHANGED <<vars, unused>>

clearProvider ==
    /\ provider' = Null
    /\ UNCHANGED <<vars, unused>>

(* A new provider of each kind asked for, a wallet first and a private key  *)
(* last; none of them is connected yet.                                     *)
New(kinds) == {new \in [kinds -> unused] : \A kind \in kinds : Kind[new[kind]] = kind}
Pushed(new, kind) == IF kind \in DOMAIN new THEN <<new[kind]>> ELSE <<>>
UsesUp(new) == unused' = unused \ {new[kind] : kind \in DOMAIN new}

(* The constructor of the last one throws "Invalid private key.": the       *)
(* others were made for nothing and the provider stays what it was.         *)
InvalidKey(options) ==
    /\ "PrivateKey" \in options
    /\ \E new \in New(options \ {"PrivateKey"}) : UsesUp(new)
    /\ UNCHANGED provider

createProvider(options) ==
    /\ \/ InvalidKey(options)
       \/ \E new \in New(options) :
             /\ provider' = Pushed(new, "Goby") \o Pushed(new, "Leaflet") \o Pushed(new, "PrivateKey")
             /\ UsesUp(new)
    /\ UNCHANGED vars

(* A method of greenweb.xch: "Provider not set!", or the provider's.        *)
NotSet(c) ==
    /\ provider = Null
    /\ c \notin made
    /\ made' = made \cup {c}
    /\ result' = [result EXCEPT ![c] = Failed]
    /\ UNCHANGED <<connected, list, position, threw, called, same, faults>>
Wrapper(c) ==
    /\ NotSet(c) \/ (provider # Null /\ Call(c, provider))
    /\ UNCHANGED <<provider, unused>>

XCHNext ==
    \/ /\ Next
       /\ connected' \cap unused = {}   \* a provider not made yet does nothing
       /\ UNCHANGED <<provider, unused>>
    \/ \E providers \in Lists : setProvider(providers)
    \/ clearProvider
    \/ \E options \in SUBSET {"Goby", "Leaflet", "PrivateKey"} : createProvider(options)
    \/ \E c \in Calls : Wrapper(c)

XCHSpec == InitXCH /\ [][XCHNext]_<<vars, provider, unused>>

(* A provider answers or throws, and one told to close disconnects. *)
FairSpec ==
    /\ XCHSpec
    /\ \A c \in Calls : WF_vars(Answers(c) \/ Throws(c))
    /\ \A p \in Providers : WF_vars(Waited(p, "close") /\ Disconnects(p))
=============================================================================
