------------------------ MODULE LeafletProvider_proofs ------------------------
(***************************************************************************)
(* Proofs that a reply reaches a call of the same kind, height and hash,   *)
(* for every set of calls, any number of links and messages in flight.     *)
(***************************************************************************)
EXTENDS LeafletProvider, FiniteSetTheorems, TLAPS

(* m is a reply of the node to a call made with arguments b.               *)
IsReplyTo(m, b) ==
    /\ m.type \in NodeReplies[b.method]
    /\ m.height = b.height
    /\ m.scope = b.scope
    /\ m.hash = IF b.method \in WithoutHash \/ (b.method = "getCoinChildren" /\ b.hash \in Childless)
                THEN NoHash ELSE Echo[b.hash]

Unasked == {"new_peak_wallet", "coin_state_update"}

(* m may be in flight when the calls made are done, with arguments of.     *)
Truthful(m, done, of) == m.type \in Unasked \/ (m.of \in done /\ IsReplyTo(m, of[m.of]))

(* The messages of the queue s may be. *)
Holds(s, done, of) == \E S : s \in Seq(S) /\ \A m \in S : Truthful(m, done, of)

Types ==
    /\ \E n \in Nat : asked = 1..n
    /\ asked \subseteq Calls
    /\ DOMAIN args = Calls
    /\ \A c \in asked : args[c] \in Args
    /\ pending \subseteq asked
    /\ link \in Links
    /\ DOMAIN requests = Links
    /\ \A l \in Links : requests[l] \subseteq asked
    /\ DOMAIN inflight = Links
    /\ DOMAIN answer = Calls

InFlight == \A l \in Links : Holds(inflight[l], asked, args)

Answers ==
    \A c \in Calls : answer[c] \in Calls =>
        c \in asked /\ answer[c] \in asked /\ Own(args[c], args[answer[c]])

IInv == Types /\ InFlight /\ Answers

-----------------------------------------------------------------------------
(* The filters. *)

(* What the filter of a call takes comes from a call that asked the same.  *)
LEMMA Matches ==
    ASSUME NEW a \in Args, NEW b \in Args, NEW m, IsReplyTo(m, b), Consumes(a, m)
    PROVE  Own(a, b)
<1>1. a.method \in Methods /\ b.method \in Methods
  BY CallsAssumption
<1>2. CASE a.method = "getBalance"
  <2>1. getBalance(a, m)
    BY <1>2 DEF Consumes
  <2>2. b.method \in {"getBalance", "subscribeToPuzzleHashUpdates"}
    BY <1>1, <2>1 DEF getBalance, IsReplyTo, NodeReplies, Methods
  <2>3. NodeReplies[b.method] = NodeReplies[a.method]
    BY <1>2, <2>2 DEF NodeReplies
  <2> QED BY <1>2, <2>1, <2>2, <2>3 DEF getBalance, IsReplyTo, Own, WithoutHash
<1>3. CASE a.method = "subscribeToPuzzleHashUpdates"
  <2>1. subscribeToPuzzleHashUpdates(a, m)
    BY <1>3 DEF Consumes
  <2>2. b.method \in {"getBalance", "subscribeToPuzzleHashUpdates"}
    BY <1>1, <2>1 DEF subscribeToPuzzleHashUpdates, IsReplyTo, NodeReplies, Methods
  <2>3. NodeReplies[b.method] = NodeReplies[a.method]
    BY <1>3, <2>2 DEF NodeReplies
  <2> QED BY <1>3, <2>1, <2>2, <2>3 DEF subscribeToPuzzleHashUpdates, IsReplyTo, Own, WithoutHash
<1>4. CASE a.method = "subscribeToCoinUpdates"
  <2>1. subscribeToCoinUpdates(a, m)
    BY <1>4 DEF Consumes
  <2>2. b.method = "subscribeToCoinUpdates"
    BY <1>1, <2>1 DEF subscribeToCoinUpdates, IsReplyTo, NodeReplies, Methods
  <2> QED BY <1>4, <2>1, <2>2 DEF subscribeToCoinUpdates, IsReplyTo, Own, WithoutHash
<1>5. CASE a.method = "getPuzzleSolution"
  <2>1. getPuzzleSolution(a, m)
    BY <1>5 DEF Consumes
  <2>2. b.method = "getPuzzleSolution"
    BY <1>1, <2>1 DEF getPuzzleSolution, IsReplyTo, NodeReplies, Methods
  <2> QED BY <1>5, <2>1, <2>2 DEF getPuzzleSolution, IsReplyTo, Own, WithoutHash
<1>6. CASE a.method = "getBlockHeader"
  <2>1. getBlockHeader(a, m)
    BY <1>6 DEF Consumes
  <2>2. b.method = "getBlockHeader"
    BY <1>1, <2>1 DEF getBlockHeader, IsReplyTo, NodeReplies, Methods
  <2> QED BY <1>6, <2>1, <2>2 DEF getBlockHeader, IsReplyTo, Own, WithoutHash
<1>7. CASE a.method = "getBlocksHeaders"
  <2>1. getBlocksHeaders(a, m)
    BY <1>7 DEF Consumes
  <2>2. b.method = "getBlocksHeaders"
    BY <1>1, <2>1 DEF getBlocksHeaders, IsReplyTo, NodeReplies, Methods
  <2> QED BY <1>7, <2>1, <2>2 DEF getBlocksHeaders, IsReplyTo, Own, WithoutHash
<1>8. CASE a.method = "getCoinRemovals"
  <2>1. getCoinRemovals(a, m)
    BY <1>8 DEF Consumes
  <2>2. b.method = "getCoinRemovals"
    BY <1>1, <2>1 DEF getCoinRemovals, IsReplyTo, NodeReplies, Methods
  <2> QED BY <1>8, <2>1, <2>2 DEF getCoinRemovals, IsReplyTo, Own, WithoutHash
<1>9. CASE a.method = "getCoinAdditions"
  <2>1. getCoinAdditions(a, m)
    BY <1>9 DEF Consumes
  <2>2. b.method = "getCoinAdditions"
    BY <1>1, <2>1 DEF getCoinAdditions, IsReplyTo, NodeReplies, Methods
  <2> QED BY <1>9, <2>1, <2>2 DEF getCoinAdditions, IsReplyTo, Own, WithoutHash
<1>10. CASE a.method = "getCoinChildren"
  <2>1. getCoinChildren(a, m)
    BY <1>10 DEF Consumes
  <2>2. b.method = "getCoinChildren"
    BY <1>1, <2>1 DEF getCoinChildren, IsReplyTo, NodeReplies, Methods
  <2>3. CASE b.hash \in Childless
    BY <1>10, <2>2, <2>3 DEF Own
  <2>4. CASE b.hash \notin Childless
    <3>1. m.hash = Echo[b.hash]
      BY <2>2, <2>4 DEF IsReplyTo, WithoutHash
    <3>2. b.hash \in DOMAIN Echo
      BY <2>2, CallsAssumption DEF WithoutHash
    <3>3. Echo[b.hash] = a.hash
      BY <2>1, <3>1, <3>2, CallsAssumption DEF getCoinChildren
    <3> QED BY <1>10, <2>2, <3>3 DEF Own
  <2> QED BY <2>3, <2>4
<1>11. CASE a.method = "pushSpendBundle"
  <2>1. pushSpendBundle(a, m)
    BY <1>11 DEF Consumes
  <2>2. b.method = "pushSpendBundle"
    BY <1>1, <2>1 DEF pushSpendBundle, IsReplyTo, NodeReplies, Methods
  <2> QED BY <1>11, <2>2 DEF Own, WithoutHash
<1> QED
  BY <1>1, <1>2, <1>3, <1>4, <1>5, <1>6, <1>7, <1>8, <1>9, <1>10, <1>11 DEF Methods

(* No filter takes a message that answers no call.                         *)
LEMMA NotTaken ==
    ASSUME NEW a \in Args, NEW m, m.type \in Unasked
    PROVE  ~Consumes(a, m)
<1>1. a.method \in Methods
  BY CallsAssumption
<1> QED
  BY <1>1 DEF Methods, Unasked, Consumes, getBalance, subscribeToPuzzleHashUpdates,
     subscribeToCoinUpdates, getPuzzleSolution, getCoinChildren, getBlockHeader,
     getBlocksHeaders, getCoinRemovals, getCoinAdditions, pushSpendBundle

(* The node answers a call with a reply to it. *)
LEMMA ReplyIsTrue ==
    ASSUME NEW c, NEW t \in NodeReplies[method(c)]
    PROVE  Reply(c, t).of = c /\ IsReplyTo(Reply(c, t), args[c])
BY DEF Reply, IsReplyTo, method

-----------------------------------------------------------------------------
(* The queues. *)

(* A truthful message may be added to those under way,                     *)
LEMMA Added ==
    ASSUME NEW s, NEW m, NEW done, NEW of, Holds(s, done, of), Truthful(m, done, of)
    PROVE  Holds(Append(s, m), done, of)
<1>1. PICK S : s \in Seq(S) /\ \A n \in S : Truthful(n, done, of)
  BY DEF Holds
<1> DEFINE T == S \cup {m}
<1>2. s \in Seq(T) /\ m \in T
  BY <1>1
<1>3. \A n \in T : Truthful(n, done, of)
  BY <1>1
<1> HIDE DEF T
<1>4. Append(s, m) \in Seq(T)
  BY <1>2
<1> QED BY <1>3, <1>4 DEF Holds

(* the first of them taken off,                                            *)
LEMMA Removed ==
    ASSUME NEW s, NEW done, NEW of, Holds(s, done, of), s # <<>>
    PROVE  Truthful(Head(s), done, of) /\ Holds(Tail(s), done, of)
<1>1. PICK S : s \in Seq(S) /\ \A n \in S : Truthful(n, done, of)
  BY DEF Holds
<1>2. Head(s) \in S /\ Tail(s) \in Seq(S)
  BY <1>1
<1> QED BY <1>1, <1>2 DEF Holds

(* and none of them is none that lies.                                     *)
LEMMA Empty ==
    ASSUME NEW done, NEW of
    PROVE  Holds(<<>>, done, of)
<1> DEFINE S == {}
<1>1. <<>> \in Seq(S) /\ \A m \in S : Truthful(m, done, of)
  OBVIOUS
<1> HIDE DEF S
<1> QED BY <1>1 DEF Holds

(* Calls made later change nothing about a queue.                          *)
LEMMA Later ==
    ASSUME NEW s, NEW done, NEW of, NEW more, NEW new, Holds(s, done, of),
           done \subseteq more, \A c \in done : new[c] = of[c]
    PROVE  Holds(s, more, new)
BY DEF Holds, Truthful

-----------------------------------------------------------------------------
(* The invariant. *)

(* At first nothing is under way.                                          *)
LEMMA InitKeeps == Init => IInv
<1> SUFFICES ASSUME Init PROVE IInv
  OBVIOUS
<1>1. Types
  <2>1. asked = 1..0 /\ 1 \in Links
    BY LimitsAssumption DEF Init, Links
  <2> QED BY <2>1 DEF Init, Types
<1>2. InFlight
  BY Empty DEF Init, InFlight
<1>3. Answers
  BY CallsAssumption DEF Init, Answers
<1> QED BY <1>1, <1>2, <1>3 DEF IInv

(* A call leaves the arguments of the others alone.                        *)
LEMMA CallKeeps ==
    ASSUME IInv, NEW a \in Args, Call(a)
    PROVE  IInv'
<1> DEFINE c == Cardinality(asked) + 1
<1>1. PICK n \in Nat : asked = 1..n
  BY DEF IInv, Types
<1>2. c = n + 1
  <2>1. Cardinality(1..n) = IF 1 > n THEN 0 ELSE n - 1 + 1
    BY FS_Interval
  <2> QED BY <1>1, <2>1
<1>3. c \notin asked /\ asked' = 1..(n + 1) /\ asked' = asked \cup {c}
  BY <1>1, <1>2 DEF Call
<1>4. c \in Calls
  BY <1>2, LimitsAssumption DEF Call, Calls
<1> HIDE DEF c
<1>5. /\ args' = [args EXCEPT ![c] = a]
      /\ \/ answer' = [answer EXCEPT ![c] = Refused] /\ UNCHANGED <<pending, requests>>
         \/ /\ pending' = pending \cup {c}
            /\ requests' = [requests EXCEPT ![link] = @ \cup {c}]
            /\ UNCHANGED answer
      /\ UNCHANGED <<link, inflight>>
  BY DEF Call, c
<1>6. /\ DOMAIN args' = Calls /\ args'[c] = a /\ \A d \in asked : args'[d] = args[d]
  BY <1>3, <1>4, <1>5 DEF IInv, Types
<1>7. Types'
  <2>1. \E k \in Nat : asked' = 1..k
    BY <1>3
  <2>2. asked' \subseteq Calls /\ (\A d \in asked' : args'[d] \in Args)
    BY <1>3, <1>4, <1>6 DEF IInv, Types
  <2>3. pending' \subseteq asked'
    BY <1>3, <1>5 DEF IInv, Types
  <2>4. DOMAIN requests' = Links /\ \A l \in Links : requests'[l] \subseteq asked'
    BY <1>3, <1>5 DEF IInv, Types
  <2> QED BY <1>5, <1>6, <2>1, <2>2, <2>3, <2>4 DEF IInv, Types
<1>8. InFlight'
  <2>1. asked \subseteq asked'
    BY <1>3
  <2>2. \A l \in Links : Holds(inflight[l], asked', args')
    BY <1>6, <2>1, Later DEF IInv, InFlight
  <2> QED BY <1>5, <2>2 DEF InFlight
<1>9. Answers'
  <2> SUFFICES ASSUME NEW d \in Calls, answer'[d] \in Calls
               PROVE  d \in asked' /\ answer'[d] \in asked' /\ Own(args'[d], args'[answer'[d]])
    BY DEF Answers
  <2>1. answer'[d] = answer[d]
    BY <1>4, <1>5, CallsAssumption DEF IInv, Types
  <2> QED BY <1>3, <1>6, <2>1 DEF IInv, Answers
<1> QED BY <1>7, <1>8, <1>9 DEF IInv

(* Handling a message answers those whose arguments it repeats.            *)
LEMMA HandleKeeps ==
    ASSUME IInv, NEW l \in Links, HandleMessage(l)
    PROVE  IInv'
<1> DEFINE m == Head(inflight[l])
           consumers == {c \in pending : Consumes(args[c], m)}
<1>1. /\ inflight[l] # <<>>
      /\ pending' = {c \in pending : c \in consumers => method(c) \in Subscribing}
      /\ answer' = [c \in Calls |->
                      IF c \in consumers /\ answer[c] = None THEN m.of ELSE answer[c]]
      /\ inflight' = [inflight EXCEPT ![l] = Tail(@)]
      /\ UNCHANGED <<asked, args, link, requests>>
  BY DEF HandleMessage
<1>2. Truthful(m, asked, args) /\ Holds(Tail(inflight[l]), asked, args)
  BY <1>1, Removed DEF IInv, InFlight
<1>3. Types'
  BY <1>1 DEF IInv, Types
<1>4. InFlight'
  BY <1>1, <1>2 DEF IInv, Types, InFlight
<1>5. \A c \in consumers : c \in asked /\ m.of \in asked /\ Own(args[c], args[m.of])
  <2> SUFFICES ASSUME NEW c \in consumers
               PROVE  c \in asked /\ m.of \in asked /\ Own(args[c], args[m.of])
    OBVIOUS
  <2>1. c \in asked /\ args[c] \in Args /\ Consumes(args[c], m)
    BY DEF IInv, Types
  <2> HIDE DEF m, consumers
  <2>2. m.type \notin Unasked
    BY <2>1, NotTaken
  <2>3. m.of \in asked /\ IsReplyTo(m, args[m.of])
    BY <1>2, <2>2 DEF Truthful
  <2>4. args[m.of] \in Args
    BY <2>3 DEF IInv, Types
  <2> QED BY <2>1, <2>3, <2>4, Matches
<1>6. Answers'
  <2> SUFFICES ASSUME NEW c \in Calls, answer'[c] \in Calls
               PROVE  c \in asked /\ answer'[c] \in asked /\ Own(args[c], args[answer'[c]])
    BY <1>1 DEF Answers
  <2> HIDE DEF m, consumers
  <2>1. CASE c \in consumers /\ answer[c] = None
    BY <1>1, <1>5, <2>1
  <2>2. CASE ~(c \in consumers /\ answer[c] = None)
    BY <1>1, <2>2 DEF IInv, Answers
  <2> QED BY <2>1, <2>2
<1> QED BY <1>3, <1>4, <1>6 DEF IInv

(* The node and the links ask nothing and answer nothing by themselves.    *)
LEMMA NodeKeeps ==
    ASSUME IInv, UNCHANGED provider, DOMAIN inflight' = Links,
           \A l \in Links : inflight'[l] # inflight[l] => Holds(inflight'[l], asked, args),
           link' \in Links, DOMAIN requests' = Links,
           \A l \in Links : requests'[l] \subseteq asked
    PROVE  IInv'
<1>1. /\ asked' = asked /\ args' = args /\ pending' = pending /\ answer' = answer
  BY DEF provider
<1>2. Types'
  BY <1>1 DEF IInv, Types
<1>3. InFlight'
  BY <1>1 DEF IInv, InFlight
<1>4. Answers'
  BY <1>1 DEF IInv, Answers
<1> QED BY <1>2, <1>3, <1>4 DEF IInv

(* A new link carries nothing yet.                                         *)
LEMMA ReconnectKeeps ==
    ASSUME IInv, Reconnect
    PROVE  IInv'
<1>1. link' \in Links
  BY LimitsAssumption DEF IInv, Types, Reconnect, Links
<1>2. DOMAIN requests' = Links /\ \A l \in Links : requests'[l] \subseteq asked
  BY DEF IInv, Types, Reconnect
<1> QED BY <1>1, <1>2, NodeKeeps DEF IInv, Types, Reconnect

(* A link that dies loses what is under way on it.                         *)
LEMMA LinkDiesKeeps ==
    ASSUME IInv, NEW l \in Links, LinkDies(l)
    PROVE  IInv'
<1>1. link' \in Links /\ DOMAIN inflight' = Links
  BY DEF IInv, Types, LinkDies
<1>2. DOMAIN requests' = Links /\ \A k \in Links : requests'[k] \subseteq asked
  BY DEF IInv, Types, LinkDies
<1>3. \A k \in Links : inflight'[k] # inflight[k] => Holds(inflight'[k], asked, args)
  BY Empty DEF IInv, Types, LinkDies
<1> QED BY <1>1, <1>2, <1>3, NodeKeeps DEF LinkDies

(* A message that is sent joins the end of one queue.                      *)
LEMMA SendsHolds ==
    ASSUME IInv, NEW l \in Links, NEW m, Truthful(m, asked, args), Sends(l, m)
    PROVE  /\ DOMAIN inflight' = Links
           /\ \A k \in Links : inflight'[k] # inflight[k] => Holds(inflight'[k], asked, args)
<1>1. Holds(Append(inflight[l], m), asked, args)
  BY Added DEF IInv, InFlight
<1>2. inflight' = [inflight EXCEPT ![l] = Append(inflight[l], m)]
  BY DEF Sends
<1> QED BY <1>1, <1>2 DEF IInv, Types

(* A reply repeats the arguments of the request.                           *)
LEMMA RepliedKeeps ==
    ASSUME IInv, NEW l \in Links, NEW c \in Calls, Replied(l, c)
    PROVE  IInv'
<1>1. PICK t \in NodeReplies[method(c)] : Sends(l, Reply(c, t))
  BY DEF Replied
<1>2. c \in asked
  BY DEF IInv, Types, Replied
<1>3. Truthful(Reply(c, t), asked, args)
  BY <1>2, ReplyIsTrue DEF Truthful
<1>4. DOMAIN requests' = Links /\ \A k \in Links : requests'[k] \subseteq asked
  BY DEF IInv, Types, Replied
<1>5. link' \in Links /\ UNCHANGED provider
  BY DEF IInv, Types, Replied
<1> QED BY <1>1, <1>3, <1>4, <1>5, SendsHolds, NodeKeeps

(* A new peak is about no call.                                            *)
LEMMA NewPeakKeeps ==
    ASSUME IInv, NewPeak
    PROVE  IInv'
<1> DEFINE m == [type |-> "new_peak_wallet", of |-> None, height |-> peak', scope |-> NoHash, hash |-> NoHash]
<1>1. Truthful(m, asked, args)
  BY DEF Truthful, Unasked
<1>2. inflight' = [k \in Links |-> IF k > link THEN inflight[k] ELSE Append(inflight[k], m)]
  BY DEF NewPeak
<1> HIDE DEF m
<1>3. \A k \in Links : Holds(Append(inflight[k], m), asked, args)
  BY <1>1, Added DEF IInv, InFlight
<1>4. /\ DOMAIN inflight' = Links
      /\ \A k \in Links : inflight'[k] # inflight[k] => Holds(inflight'[k], asked, args)
  BY <1>2, <1>3
<1> QED BY <1>4, NodeKeeps DEF IInv, Types, NewPeak

(* A change is about a subscription.                                       *)
LEMMA CoinChangesKeeps ==
    ASSUME IInv, NEW c \in Calls, CoinChanges(c)
    PROVE  IInv'
<1> DEFINE m == [type |-> "coin_state_update", of |-> c, height |-> peak, scope |-> NoHash, hash |-> Echo[args[c].hash]]
<1>1. Truthful(m, asked, args)
  BY DEF Truthful, Unasked
<1>2. Sends(link, m) /\ link \in Links
  BY DEF CoinChanges, IInv, Types
<1> HIDE DEF m
<1> QED BY <1>1, <1>2, SendsHolds, NodeKeeps DEF IInv, Types, CoinChanges

(* Every step keeps the invariant.                                         *)
LEMMA NextKeeps == IInv /\ [Next]_vars => IInv'
<1> SUFFICES ASSUME IInv, [Next]_vars PROVE IInv'
  OBVIOUS
<1>1. ASSUME NEW a \in Args, Call(a) PROVE IInv'
  BY <1>1, CallKeeps
<1>2. ASSUME NEW c \in Calls, CoinChanges(c) PROVE IInv'
  BY <1>2, CoinChangesKeeps
<1>3. CASE Reconnect
  BY <1>3, ReconnectKeeps
<1>4. CASE NewPeak
  BY <1>4, NewPeakKeeps
<1>5. ASSUME NEW l \in Links, HandleMessage(l) PROVE IInv'
  BY <1>5, HandleKeeps
<1>6. ASSUME NEW l \in Links, LinkDies(l) PROVE IInv'
  BY <1>6, LinkDiesKeeps
<1>7. ASSUME NEW l \in Links, NEW c \in Calls, Replied(l, c) PROVE IInv'
  BY <1>7, RepliedKeeps
<1>8. CASE UNCHANGED vars
  BY <1>8 DEF vars, IInv, Types, InFlight, Answers
<1> QED BY <1>1, <1>2, <1>3, <1>4, <1>5, <1>6, <1>7, <1>8 DEF Next

-----------------------------------------------------------------------------
(* A call of the provider that returns a reply returns one to a call of    *)
(* the same kind, height and hash, whatever the links repeat, delay or     *)
(* lose: as much as the filters compare.                                   *)
THEOREM OwnAnswers == Spec => []AnswerIsOwn
<1>1. IInv => AnswerIsOwn
  BY DEF IInv, Answers, AnswerIsOwn, Answered, Own, method
<1> QED BY <1>1, InitKeeps, NextKeeps, PTL DEF Spec
=============================================================================
