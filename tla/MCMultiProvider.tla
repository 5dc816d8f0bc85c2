---------------------------- MODULE MCMultiProvider ----------------------------
(* An instance of XCHModule, and so of MultiProvider, for TLC. *)
EXTENDS XCHModule

SomeMethods == {"getBalance", "changeNetwork"}

(* The application has an object around a node, and lets createProvider     *)
(* make a wallet and a private key provider, together or one by one: a call *)
(* that the first of the two refuses has a second choice.                   *)
Kinds == << "Goby", "Leaflet", "PrivateKey" >>
Has == << {"changeNetwork"}, {"getBalance"}, {"changeNetwork"} >>
Objects == { << 2 >> }

(* A call is under way while a connect() and a close() are. *)
Overlapping == [change |-> "changeNetwork", connect |-> "connect", close |-> "close"]
OverlappingNames == DOMAIN Overlapping
=============================================================================
