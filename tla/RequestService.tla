---------------------------- MODULE RequestService ----------------------------
(***************************************************************************)
(* What a caller of MessageManager.registerFilter is promised, without     *)
(* sockets, controllers, timeouts or restarts.  A request is registered at *)
(* most once and then waits.  A message is a broadcast: in one step it     *)
(* reaches every waiting request that accepts it, it settles the promise   *)
(* of each of them that was not settled before, and a one-shot request     *)
(* stops waiting.  A request registered by a callback of a message takes   *)
(* part in the same broadcast.                                             *)
(***************************************************************************)
CONSTANTS Requests,  \* the filters an application may register
          OneShot,   \* those with deleteAfterFirstMessageConsumed
          Msgs,      \* the messages a peer can send
          Accepts,   \* Accepts[r]: the messages consumeMessage accepts
          None       \* the promise is not settled

VARIABLES waiting,   \* the requests offered every incoming message
          asked,     \* the requests ever registered
          answer     \* answer[r]: the message the promise was resolved with

avars == <<waiting, asked, answer>>

Init ==
    /\ waiting = {}
    /\ asked = {}
    /\ answer = [r \in Requests |-> None]

(* The application registers r; a promise that is rejected at once leaves  *)
(* the filter registered (MessageManager pushes it before it sends).       *)
Ask(r) ==
    /\ r \in Requests \ asked
    /\ asked' = asked \cup {r}
    /\ waiting' = waiting \cup {r}
    /\ UNCHANGED answer

(* Message m arrives; the requests of S are registered by its callbacks.   *)
(* Those of R were rejected: m removes them but resolves nothing.          *)
Broadcast(m, S, R) ==
    LET heard == {r \in waiting \cup S : m \in Accepts[r]}
    IN  /\ S \subseteq Requests \ asked
        /\ asked' = asked \cup S
        /\ waiting' = (waiting \cup S) \ (heard \cap OneShot)
        /\ answer' = [r \in Requests |->
                        IF r \in heard \ R /\ answer[r] = None THEN m ELSE answer[r]]

Next ==
    \/ \E r \in Requests : Ask(r)
    \/ \E m \in Msgs, S, R \in SUBSET Requests : Broadcast(m, S, R)

Spec == Init /\ [][Next]_avars
=============================================================================
