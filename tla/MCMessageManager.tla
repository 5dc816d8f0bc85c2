-------------------------- MODULE MCMessageManager --------------------------
(* Instances of MessageManager for TLC. *)
EXTENDS MessageManager, TLC
CONSTANTS q1, sub, peak, a, p

(* A request and a subscription that accept the same answer, as getBalance *)
(* and subscribeToPuzzleHashUpdates do for one puzzle hash; the callback   *)
(* of the subscription may register the request.                           *)
TwoRequests == {q1, sub}
TwoAccepts == (q1 :> {a}) @@ (sub :> {a}) @@ (peak :> {p})
TwoCallbacks == (q1 :> {}) @@ (sub :> {q1}) @@ (peak :> {})

(* One request, for two controllers at once. *)
OneRequests == {q1}
OneAccepts == (q1 :> {a}) @@ (peak :> {p})
OneCallbacks == (q1 :> {}) @@ (peak :> {})
=============================================================================
