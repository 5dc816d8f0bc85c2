--------------------------- MODULE Messages_proofs ---------------------------
(***************************************************************************)
(* Proofs about the way of a message, for every set of requests, stream of *)
(* frames and bound: that MessageManager keeps its link and its requests   *)
(* and implements RequestService, and that the channel below it cuts the   *)
(* stream into its messages again, however it comes in chunks, as long as  *)
(* no Blob is read before an earlier one.                                  *)
(***************************************************************************)
EXTENDS MessageManager, MessageChannel, Recursion, TLAPS

-----------------------------------------------------------------------------
(* MessageManager. *)

(* The manager the constructor makes has a state of the right type.         *)
LEMMA TypeInit == Init => TypeOK
<1> SUFFICES ASSUME Init PROVE TypeOK
  OBVIOUS
<1> USE DEF Init
<1>1. /\ MaxInits \in Nat /\ MaxFaults \in Nat /\ MaxChannels \in Nat
  BY BoundsAssumption DEF BoundsAssumption
<1>2. /\ open \in BOOLEAN /\ canSendMessage \in BOOLEAN
      /\ filters \subseteq Filters /\ overdue \subseteq filters \cap Timed
      /\ rejected \subseteq Requests /\ resent \subseteq Requests
  OBVIOUS
<1>3. created \in 0..MaxChannels /\ msgChannel \in 0..created /\ faults \in 0..MaxFaults
  BY <1>1 DEF NoChannel
<1>4. /\ controller \in [Controllers -> Live \cup {"off", "done", "failed"}]
      /\ awaited \in [Controllers -> 0..created]
  BY <1>1 DEF NoChannel
<1>5. /\ socket \in [0..MaxChannels -> {"none", "connecting", "open", "closed"}]
      /\ wire \in [Channels -> SUBSET Msgs]
      /\ sent \in [0..MaxChannels -> SUBSET Requests]
      /\ answer \in [Requests -> Msgs \cup {None}]
  OBVIOUS
<1> QED
  BY <1>2, <1>3, <1>4, <1>5 DEF TypeOK

(* Every step keeps each variable in its set; a filter can only be overdue *)
(* while it is registered.                                                 *)
LEMMA TypeStep == TypeOK /\ [Next]_vars => TypeOK'
<1> SUFFICES ASSUME TypeOK, [Next]_vars PROVE TypeOK'
  OBVIOUS
<1> USE SetsAssumption, FunctionsAssumption, BoundsAssumption
        DEF TypeOK, Live, Filters, Channels, Controllers, NoChannel,
            SetsAssumption, FunctionsAssumption, BoundsAssumption
<1>1. ASSUME NEW f \in Requests, RegisterFilter(f) PROVE TypeOK'
  BY <1>1 DEF RegisterFilter, Fresh, SendIfPossible, SendAll, isConnected, link, history
<1>2. ASSUME NEW f \in Filters, Expire(f) PROVE TypeOK'
  BY <1>2 DEF Expire, link, history, promises
<1>3. ASSUME NEW k \in Controllers, Initialize(k) PROVE TypeOK'
  BY <1>3 DEF Initialize, link, history, promises
<1>4. CASE Close
  BY <1>4 DEF Close, link, history, promises
<1>5. ASSUME NEW k \in Controllers, CreateChannel(k) PROVE TypeOK'
  BY <1>5 DEF CreateChannel, history, promises
<1>6. ASSUME NEW k \in Controllers, CreateThrows(k) PROVE TypeOK'
  BY <1>6 DEF CreateThrows, link, history, promises
<1>7. ASSUME NEW k \in Controllers, ConnectThrows(k) PROVE TypeOK'
  BY <1>7 DEF ConnectThrows, history, promises
<1>8. ASSUME NEW k \in Controllers, NEW cs \in BOOLEAN, NEW od, NextRound(k, cs, od)
      PROVE /\ controller' \in [Controllers -> Live \cup {"off", "done", "failed"}]
            /\ canSendMessage' \in BOOLEAN
            /\ socket' \in [0..MaxChannels -> {"none", "connecting", "open", "closed"}]
  BY <1>8 DEF NextRound, EndLoop, Backoff, Sleep
<1>9. ASSUME NEW k \in Controllers, Connected(k) PROVE TypeOK'
  <2>1. isConnected \in BOOLEAN
    BY DEF isConnected
  <2>2. overdue' \subseteq filters' \cap Timed
    BY <1>9 DEF Connected
  <2>3. /\ sent' \in [0..MaxChannels -> SUBSET Requests]
        /\ resent' \subseteq Requests
    BY <1>9 DEF Connected, SendAll, history
  <2>4. NextRound(k, isConnected, {})
    BY <1>9 DEF Connected
  <2> QED
    BY <1>8, <1>9, <2>1, <2>2, <2>3, <2>4 DEF Connected, promises
<1>10. ASSUME NEW k \in Controllers, Check(k) PROVE TypeOK'
  BY <1>8, <1>10 DEF Check, history, promises
<1>11. ASSUME NEW c \in Channels, NEW m \in Msgs, HandleMessage(c, m) PROVE TypeOK'
  <2>1. PICK registered \in SUBSET Requests :
          LET consumers == Consumers(filters \cup registered, m)
          IN  /\ SendIfPossible(registered)
              /\ filters' = (filters \cup registered) \ (consumers \cap OneShot)
              /\ overdue' = overdue \ consumers
              /\ answer' = [f \in Requests |->
                              IF f \in consumers \ rejected' /\ answer[f] = None
                              THEN m ELSE answer[f]]
    BY <1>11 DEF HandleMessage, Fresh
  <2>2. /\ sent' \in [0..MaxChannels -> SUBSET Requests]
        /\ resent' \subseteq Requests
        /\ rejected' \subseteq Requests
    BY <2>1 DEF SendIfPossible, SendAll, history
  <2>3. answer' \in [Requests -> Msgs \cup {None}]
    BY <2>1
  <2>4. filters' \subseteq Filters /\ overdue' \subseteq filters' \cap Timed
    BY <2>1
  <2>5. wire' \in [Channels -> SUBSET Msgs]
    BY <1>11 DEF HandleMessage
  <2> QED
    BY <1>11, <2>2, <2>3, <2>4, <2>5 DEF HandleMessage, link
<1>12. ASSUME NEW c \in Channels, SocketOpens(c) PROVE TypeOK'
  BY <1>12 DEF SocketOpens, history, promises
<1>13. ASSUME NEW c \in Channels, SocketFails(c) PROVE TypeOK'
  BY <1>13 DEF SocketFails, history, promises
<1>14. ASSUME NEW c \in Channels, NEW m \in Msgs, Arrives(c, m) \/ Lose(c, m) PROVE TypeOK'
  <2>1. wire' \in [Channels -> SUBSET Msgs]
    BY <1>14 DEF Arrives, Lose
  <2> QED
    BY <1>14, <2>1 DEF Arrives, Lose, link, history, promises
<1>15. CASE UNCHANGED vars
  BY <1>15 DEF vars
<1> QED
  BY <1>1, <1>2, <1>3, <1>4, <1>5, <1>6, <1>7, <1>9, <1>10, <1>11, <1>12, <1>13, <1>14, <1>15
     DEF Next, ControllerStep

(* The type invariant: in particular only registered filters are overdue,  *)
(* and the current channel is one that was created.                        *)
THEOREM TypeCorrect == Spec => []TypeOK
BY TypeInit, TypeStep, PTL DEF Spec

-----------------------------------------------------------------------------
(* Facts about the code shared by several actions. *)

(* What one call of NextRound can do. *)
LEMMA NextRoundCases ==
    ASSUME TypeOK, NEW k \in Controllers, NEW cs, NEW od, NextRound(k, cs, od)
    PROVE  /\ \A j \in Controllers : j # k => controller'[j] = controller[j]
           /\ \A c \in 0..MaxChannels : c # msgChannel => socket'[c] = socket[c]
           /\ \/ /\ ~open
                 /\ controller'[k] = "done"
                 /\ canSendMessage' = cs
                 /\ socket[msgChannel] = "none" => socket'[msgChannel] = "none"
                 /\ socket[msgChannel] # "none" => socket'[msgChannel] = "closed"
              \/ /\ open /\ restart(cs, od)
                 /\ controller'[k] = "restarting"
                 /\ canSendMessage' = FALSE
                 /\ socket' = socket
              \/ /\ open /\ ~restart(cs, od)
                 /\ controller'[k] = "sleeping"
                 /\ canSendMessage' = cs
                 /\ socket' = socket
BY BoundsAssumption DEF BoundsAssumption, TypeOK, NextRound, EndLoop, Backoff, Sleep, Live

-----------------------------------------------------------------------------
(* The controllers, whatever the order of initialize() and close(). *)

(* Every step leaves an open manager with a controller, or with one that   *)
(* was killed by an exception.                                             *)
LEMMA DrivenStep == TypeOK /\ OpenIsDriven /\ [Next]_vars => OpenIsDriven'
<1> SUFFICES ASSUME TypeOK, OpenIsDriven, [Next]_vars PROVE OpenIsDriven'
  OBVIOUS
<1> USE DEF OpenIsDriven, Alive, Live
<1>1. ASSUME NEW k \in Controllers, Initialize(k) PROVE OpenIsDriven'
  BY <1>1 DEF Initialize, TypeOK
<1>2. CASE Close
  BY <1>2 DEF Close
<1>3. ASSUME NEW k \in Controllers,
             CreateChannel(k) \/ CreateThrows(k) \/ ConnectThrows(k)
      PROVE OpenIsDriven'
  <2>1. controller'[k] \in Live \cup {"failed"}
    BY <1>3 DEF CreateChannel, CreateThrows, ConnectThrows, TypeOK
  <2> QED
    BY <2>1
<1>4. ASSUME NEW k \in Controllers, Connected(k) \/ Check(k) PROVE OpenIsDriven'
  <2>1. PICK cs, od : NextRound(k, cs, od)
    BY <1>4 DEF Connected, Check
  <2>2. open' = open
    BY <1>4 DEF Connected, Check
  <2> QED
    BY <2>1, <2>2, NextRoundCases
<1>5. CASE UNCHANGED <<open, controller>>
  BY <1>5
<1>6. ASSUME ~ \E k \in Controllers : Initialize(k) \/ ControllerStep(k), ~Close
      PROVE UNCHANGED <<open, controller>>
  BY <1>6 DEF Next, vars, RegisterFilter, Expire, SocketOpens, SocketFails,
              HandleMessage, Arrives, Lose
<1> QED
  BY <1>1, <1>2, <1>3, <1>4, <1>5, <1>6 DEF ControllerStep

(* The manager never claims to be open with nobody keeping its link.       *)
THEOREM OpenIsAlwaysDriven == Spec => []OpenIsDriven
<1>1. Init => OpenIsDriven
  BY DEF Init, OpenIsDriven
<1> QED
  BY <1>1, DrivenStep, TypeCorrect, PTL DEF Spec

(* No step leaves the current channel up once the last controller ended.   *)
LEMMA EndedStep == TypeOK /\ EndedLinkIsDown /\ [Next]_vars => EndedLinkIsDown'
<1> SUFFICES ASSUME TypeOK, EndedLinkIsDown, [Next]_vars PROVE EndedLinkIsDown'
  OBVIOUS
<1> USE DEF EndedLinkIsDown, AllEnded
<1>1. ASSUME NEW k \in Controllers, Initialize(k) PROVE EndedLinkIsDown'
  <2>1. controller'[k] = "restarting"
    BY <1>1 DEF Initialize, TypeOK
  <2> QED
    BY <2>1
<1>2. ASSUME NEW k \in Controllers,
             CreateChannel(k) \/ CreateThrows(k) \/ ConnectThrows(k)
      PROVE EndedLinkIsDown'
  <2>1. controller'[k] \in {"connecting", "failed"}
    BY <1>2 DEF CreateChannel, CreateThrows, ConnectThrows, TypeOK
  <2> QED
    BY <2>1
<1>3. ASSUME NEW k \in Controllers, Connected(k) \/ Check(k) PROVE EndedLinkIsDown'
  <2>1. PICK cs, od : NextRound(k, cs, od)
    BY <1>3 DEF Connected, Check
  <2>2. msgChannel' = msgChannel
    BY <1>3 DEF Connected, Check
  <2> QED
    BY <2>1, <2>2, NextRoundCases
<1>4. ASSUME NEW c \in Channels, SocketOpens(c) \/ SocketFails(c) PROVE EndedLinkIsDown'
  <2>1. /\ controller' = controller /\ msgChannel' = msgChannel
        /\ socket[c] \in {"connecting", "open"}
        /\ \A d \in 0..MaxChannels : d # c => socket'[d] = socket[d]
    BY <1>4, BoundsAssumption DEF SocketOpens, SocketFails, TypeOK, BoundsAssumption
  <2>2. msgChannel \in 0..MaxChannels
    BY BoundsAssumption DEF TypeOK, BoundsAssumption
  <2> QED
    BY <2>1, <2>2
<1>5. CASE UNCHANGED <<controller, msgChannel, socket>>
  BY <1>5
<1>6. ASSUME ~ \E k \in Controllers : Initialize(k) \/ ControllerStep(k),
             ~ \E c \in Channels : SocketOpens(c) \/ SocketFails(c)
      PROVE UNCHANGED <<controller, msgChannel, socket>>
  BY <1>6 DEF Next, vars, link, RegisterFilter, Expire, Close, HandleMessage, Arrives, Lose
<1> QED
  BY <1>1, <1>2, <1>3, <1>4, <1>5, <1>6 DEF ControllerStep

(* When every controller has ended the current link is closed.             *)
THEOREM EndedLinkIsAlwaysDown == Spec => []EndedLinkIsDown
<1>1. Init => EndedLinkIsDown
  BY BoundsAssumption DEF Init, EndedLinkIsDown, BoundsAssumption, NoChannel
<1> QED
  BY <1>1, EndedStep, TypeCorrect, PTL DEF Spec

-----------------------------------------------------------------------------
(* The link, when initialize() is not called while a controller is alive.  *)

(* A transmission over a channel that has not carried S repeats nothing,   *)
(* and afterwards an open channel has carried S.                           *)
LEMMA SendAllOnce ==
    ASSUME TypeOK, NEW S \in SUBSET Requests, SendAll(S),
           isConnected => S \cap sent[msgChannel] = {}, SentOncePerChannel
    PROVE  /\ SentOncePerChannel'
           /\ \A c \in 0..MaxChannels : c # msgChannel => sent'[c] = sent[c]
           /\ sent'[msgChannel] = sent[msgChannel] \cup (IF isConnected THEN S ELSE {})
BY BoundsAssumption
   DEF BoundsAssumption, TypeOK, SendAll, history, SentOncePerChannel

(* registerFilter's tail sends only over a socket that has been opened.    *)
LEMMA SendIfPossibleSafe ==
    ASSUME TypeOK, LinkInv, NEW S \in SUBSET Requests,
           \A f \in S : Fresh(f), SendIfPossible(S)
    PROVE  /\ rejected' = rejected
           /\ SentOncePerChannel'
           /\ \A c \in 0..MaxChannels : c # msgChannel => sent'[c] = sent[c]
           /\ sent'[msgChannel] \subseteq sent[msgChannel] \cup S
           /\ sent[msgChannel] \subseteq sent'[msgChannel]
           /\ ~canSendMessage => sent'[msgChannel] = sent[msgChannel]
           /\ canSendMessage /\ isConnected => S \cap Sending \subseteq sent'[msgChannel]
<1> DEFINE now == IF canSendMessage THEN S \cap Sending ELSE {}
<1>1. msgChannel \in 0..MaxChannels
  BY BoundsAssumption DEF TypeOK, BoundsAssumption
<1>2. now \cap sent[msgChannel] = {}
  BY <1>1 DEF LinkInv, SentWasRegistered
<1>3. SendAll(now) /\ rejected' = rejected \cup (IF socket[msgChannel] = "connecting" THEN now ELSE {})
  BY DEF SendIfPossible
<1>4. rejected' = rejected
  BY <1>3 DEF LinkInv, SenderHasSocket
<1>5. /\ SentOncePerChannel'
      /\ \A c \in 0..MaxChannels : c # msgChannel => sent'[c] = sent[c]
      /\ sent'[msgChannel] = sent[msgChannel] \cup (IF isConnected THEN now ELSE {})
  BY <1>2, <1>3, SendAllOnce DEF LinkInv
<1> QED
  BY <1>4, <1>5

(* A new manager has no channel and no filter: there is nothing to send.   *)
LEMMA LinkInit == Init => LinkInv
BY BoundsAssumption
   DEF BoundsAssumption, Init, LinkInv, OneController, RestartMutesSending, NewLinkIsClean,
       SenderHasSocket, UnusedIsClean, SentWasRegistered, SentWhenLinkUp, SentOncePerChannel,
       NoRejectedRequest, Alive, Live, isConnected, NoChannel

(* Each step keeps the invariant.  The interesting ones are Connected,     *)
(* where the resend loop fills the clean new channel, and the two ways a   *)
(* request is registered.                                                  *)
LEMMA LinkStep ==
    ASSUME ~Overlap, TypeOK, TypeOK', LinkInv, [Next]_vars
    PROVE  LinkInv'
<1> USE BoundsAssumption DEF BoundsAssumption, NoChannel
<1>0. msgChannel \in 0..MaxChannels /\ created \in Nat
  BY DEF TypeOK
<1> DEFINE Parts == /\ OneController' /\ RestartMutesSending' /\ NewLinkIsClean'
                    /\ SenderHasSocket' /\ UnusedIsClean' /\ SentWasRegistered'
                    /\ SentWhenLinkUp' /\ SentOncePerChannel' /\ NoRejectedRequest'
<1>q. Parts => LinkInv'
  BY DEF LinkInv
<1> USE DEF OneController, RestartMutesSending, NewLinkIsClean, SenderHasSocket,
            UnusedIsClean, SentWasRegistered, SentWhenLinkUp, SentOncePerChannel,
            NoRejectedRequest, isConnected
<1>1. ASSUME NEW f \in Requests, RegisterFilter(f) PROVE LinkInv'
  <2>1. /\ Fresh(f) /\ filters' = filters \cup {f} /\ SendIfPossible({f})
        /\ UNCHANGED <<canSendMessage, msgChannel, created, socket, controller, awaited, answer>>
    BY <1>1 DEF RegisterFilter, link
  <2>2. /\ rejected' = rejected
        /\ SentOncePerChannel'
        /\ \A c \in 0..MaxChannels : c # msgChannel => sent'[c] = sent[c]
        /\ sent'[msgChannel] \subseteq sent[msgChannel] \cup {f}
        /\ sent[msgChannel] \subseteq sent'[msgChannel]
        /\ ~canSendMessage => sent'[msgChannel] = sent[msgChannel]
        /\ canSendMessage /\ isConnected => {f} \cap Sending \subseteq sent'[msgChannel]
    BY <2>1, SendIfPossibleSafe
  <2>3. \A g \in Requests : Fresh(g)' => Fresh(g) /\ g # f
    BY <2>1, <2>2 DEF Fresh
  <2>4. SentWasRegistered'
    BY <2>2, <2>3, <1>0 DEF LinkInv, TypeOK
  <2>5. UnusedIsClean'
    BY <2>1, <2>2, <1>0 DEF LinkInv, TypeOK
  <2>6. SentWhenLinkUp'
    BY <2>1, <2>2 DEF LinkInv
  <2>7. NewLinkIsClean'
    BY <2>1, <2>2 DEF LinkInv
  <2> QED
    BY <2>1, <2>2, <2>4, <2>5, <2>6, <2>7, <1>q DEF LinkInv, Alive
<1>2. ASSUME NEW f \in Filters, Expire(f) PROVE LinkInv'
  BY <1>2, <1>q DEF Expire, link, history, promises, LinkInv, Alive, Fresh
<1>3. ASSUME NEW k \in Controllers, Initialize(k) PROVE LinkInv'
  <2>1. /\ \A j \in Controllers : ~Alive(j)
        /\ \A j \in Controllers : j # k => controller'[j] = controller[j]
        /\ controller'[k] = "restarting"
    BY <1>3 DEF Initialize, TypeOK, Alive
  <2>2. \A g \in Requests : Fresh(g)' => Fresh(g)
    BY <1>3 DEF Initialize, Fresh, promises
  <2>3. /\ ~canSendMessage' /\ UNCHANGED <<msgChannel, created, socket, sent, resent, rejected>>
    BY <1>3 DEF Initialize, link, history, promises
  <2>4. NewLinkIsClean'
    BY <2>1 DEF Alive, Live
  <2>5. OneController'
    BY <2>1 DEF Alive
  <2>6. SentWasRegistered'
    BY <2>2, <2>3, <1>0 DEF LinkInv, TypeOK
  <2>7. UnusedIsClean'
    BY <2>3 DEF LinkInv
  <2>8. RestartMutesSending' /\ SenderHasSocket' /\ SentWhenLinkUp'
    BY <2>3
  <2> QED
    BY <2>3, <2>4, <2>5, <2>6, <2>7, <2>8, <1>q DEF LinkInv
<1>4. CASE Close
  BY <1>4, <1>q DEF Close, link, history, promises, LinkInv, Alive, Fresh
<1>5. ASSUME NEW k \in Controllers, CreateChannel(k) PROVE LinkInv'
  <2>1. /\ \A j \in Controllers : j # k => controller'[j] = controller[j] /\ awaited'[j] = awaited[j]
        /\ controller[k] = "restarting" /\ controller'[k] = "connecting"
        /\ awaited'[k] = msgChannel'
    BY <1>5 DEF CreateChannel, TypeOK
  <2>2. /\ created + 1 \in 0..MaxChannels /\ created' = created + 1 /\ msgChannel' = created + 1
        /\ \A c \in 0..MaxChannels : c # created + 1 => socket'[c] = socket[c]
        /\ UNCHANGED <<filters, canSendMessage, sent, resent, rejected, answer>>
    BY <1>5 DEF CreateChannel, TypeOK, history, promises
  <2>3. ~canSendMessage /\ sent[created + 1] = {}
    BY <2>1, <2>2, <1>0 DEF LinkInv
  <2>4. \A j \in Controllers : controller[j] = "connecting" => j = k
    BY <2>1 DEF LinkInv, Alive, Live
  <2>5. OneController'
    BY <2>1 DEF LinkInv, Alive, Live
  <2>6. NewLinkIsClean'
    BY <2>1, <2>2, <2>3, <2>4
  <2>7. UnusedIsClean'
    BY <2>2, <1>0 DEF LinkInv
  <2> QED
    BY <2>2, <2>3, <2>5, <2>6, <2>7, <1>q DEF LinkInv, Fresh
<1>6. ASSUME NEW k \in Controllers, CreateThrows(k) \/ ConnectThrows(k) PROVE LinkInv'
  <2>1. /\ \A j \in Controllers : j # k => controller'[j] = controller[j]
        /\ controller[k] = "restarting" /\ controller'[k] = "failed"
        /\ UNCHANGED <<awaited, socket, filters, canSendMessage, sent, resent, rejected, answer>>
        /\ \/ UNCHANGED <<created, msgChannel>>
           \/ created' = created + 1 /\ msgChannel' = created + 1
    BY <1>6 DEF CreateThrows, ConnectThrows, TypeOK, link, history, promises
  <2>2. \A j \in Controllers : controller'[j] # "connecting"
    BY <2>1 DEF LinkInv, Alive, Live
  <2>3. ~canSendMessage
    BY <2>1 DEF LinkInv
  <2>4. OneController'
    BY <2>1 DEF LinkInv, Alive, Live
  <2>5. UnusedIsClean'
    BY <2>1, <1>0 DEF LinkInv
  <2> QED
    BY <2>1, <2>2, <2>3, <2>4, <2>5, <1>q DEF LinkInv, Fresh
<1>7. ASSUME NEW k \in Controllers, Connected(k) PROVE LinkInv'
  <2>1. /\ controller[k] = "connecting"
        /\ SendAll(filters \cap Sending)
        /\ NextRound(k, isConnected, {})
        /\ UNCHANGED <<filters, msgChannel, awaited, created, answer, rejected>>
    BY <1>7 DEF Connected, promises
  <2>2. sent[msgChannel] = {} /\ filters \cap Sending \in SUBSET Requests
    BY <2>1, SetsAssumption DEF LinkInv, SetsAssumption
  <2>3. /\ SentOncePerChannel'
        /\ \A c \in 0..MaxChannels : c # msgChannel => sent'[c] = sent[c]
        /\ sent'[msgChannel] = (IF isConnected THEN filters \cap Sending ELSE {})
    BY <2>1, <2>2, SendAllOnce DEF LinkInv
  <2>4. SentWasRegistered'
    BY <2>1, <2>3, <1>0 DEF LinkInv, Fresh
  <2>5. UnusedIsClean'
    BY <2>1, <2>3, <1>0, NextRoundCases DEF LinkInv
  <2>a. \A j \in Controllers : j # k => controller[j] \notin Live
    BY <2>1 DEF LinkInv, Alive, Live
  <2>b. /\ \A j \in Controllers : j # k => controller'[j] = controller[j]
        /\ controller'[k] \in {"done", "restarting", "sleeping"}
        /\ controller'[k] = "restarting" => ~canSendMessage'
    BY <2>1, NextRoundCases
  <2>6. \A j \in Controllers : controller'[j] # "connecting"
    BY <2>a, <2>b DEF Live
  <2>7. OneController'
    BY <2>a, <2>b DEF Alive
  <2>8. RestartMutesSending'
    BY <2>a, <2>b DEF Live
  <2>9. SenderHasSocket' /\ SentWhenLinkUp'
    BY <2>1, <2>3, NextRoundCases DEF LinkInv, restart
  <2> QED
    BY <2>1, <2>3, <2>4, <2>5, <2>6, <2>7, <2>8, <2>9, <1>q DEF LinkInv
<1>8. ASSUME NEW k \in Controllers, Check(k) PROVE LinkInv'
  <2>1. /\ controller[k] = "sleeping"
        /\ NextRound(k, canSendMessage, overdue)
        /\ UNCHANGED <<filters, msgChannel, awaited, created, answer, rejected, sent, resent>>
    BY <1>8 DEF Check, promises, history
  <2>a. \A j \in Controllers : j # k => controller[j] \notin Live
    BY <2>1 DEF LinkInv, Alive, Live
  <2>b. /\ \A j \in Controllers : j # k => controller'[j] = controller[j]
        /\ controller'[k] \in {"done", "restarting", "sleeping"}
        /\ controller'[k] = "restarting" => ~canSendMessage'
        /\ canSendMessage' => canSendMessage
        /\ socket'[msgChannel] \in {socket[msgChannel], "closed"}
    BY <2>1, NextRoundCases DEF TypeOK
  <2>2. \A j \in Controllers : controller'[j] # "connecting"
    BY <2>a, <2>b DEF Live
  <2>3. OneController'
    BY <2>a, <2>b DEF Alive
  <2>4. RestartMutesSending'
    BY <2>a, <2>b DEF Live
  <2>5. SenderHasSocket' /\ SentWhenLinkUp'
    BY <2>1, <2>b DEF LinkInv
  <2>6. UnusedIsClean'
    BY <2>1, <1>0, NextRoundCases DEF LinkInv
  <2> QED
    BY <2>1, <2>2, <2>3, <2>4, <2>5, <2>6, <1>q DEF LinkInv, Fresh
<1>9. ASSUME NEW c \in Channels, NEW m \in Msgs, HandleMessage(c, m) PROVE LinkInv'
  <2>1. PICK registered \in SUBSET Requests :
          LET consumers == Consumers(filters \cup registered, m)
          IN  /\ \A f \in registered : Fresh(f)
              /\ SendIfPossible(registered)
              /\ filters' = (filters \cup registered) \ (consumers \cap OneShot)
              /\ answer' = [f \in Requests |->
                              IF f \in consumers \ rejected' /\ answer[f] = None
                              THEN m ELSE answer[f]]
    BY <1>9 DEF HandleMessage, Fresh
  <2>2. UNCHANGED <<canSendMessage, msgChannel, created, socket, controller, awaited>>
    BY <1>9 DEF HandleMessage, link
  <2>3. /\ rejected' = rejected
        /\ SentOncePerChannel'
        /\ \A d \in 0..MaxChannels : d # msgChannel => sent'[d] = sent[d]
        /\ sent'[msgChannel] \subseteq sent[msgChannel] \cup registered
        /\ sent[msgChannel] \subseteq sent'[msgChannel]
        /\ ~canSendMessage => sent'[msgChannel] = sent[msgChannel]
        /\ canSendMessage /\ isConnected => registered \cap Sending \subseteq sent'[msgChannel]
    BY <2>1, SendIfPossibleSafe
  <2>4. m # None
    BY SetsAssumption DEF SetsAssumption
  <2>5. \A g \in Requests : Fresh(g)' => Fresh(g) /\ g \notin registered
    BY <2>1, <2>3, <2>4 DEF Fresh, LinkInv
  <2>6. SentWasRegistered'
    BY <2>3, <2>5, <1>0 DEF LinkInv, TypeOK
  <2>7. UnusedIsClean'
    BY <2>2, <2>3, <1>0 DEF LinkInv, TypeOK
  <2>8. SentWhenLinkUp'
    BY <2>1, <2>2, <2>3 DEF LinkInv
  <2>9. NewLinkIsClean'
    BY <2>2, <2>3 DEF LinkInv
  <2> QED
    BY <2>2, <2>3, <2>6, <2>7, <2>8, <2>9, <1>q DEF LinkInv, Alive
<1>10. ASSUME NEW c \in Channels, SocketOpens(c) \/ SocketFails(c) PROVE LinkInv'
  <2>1. /\ UNCHANGED <<filters, canSendMessage, msgChannel, created, controller, awaited,
                       sent, resent, rejected, answer>>
        /\ \A d \in 0..MaxChannels : d # c => socket'[d] = socket[d]
        /\ \/ socket[c] = "connecting" /\ socket'[c] = "open"
           \/ socket[c] \in {"connecting", "open"} /\ socket'[c] = "closed"
    BY <1>10 DEF SocketOpens, SocketFails, TypeOK, history, promises, Channels
  <2>2. c \in 0..MaxChannels
    BY DEF Channels
  <2>3. UnusedIsClean'
    BY <2>1, <2>2 DEF LinkInv
  <2>4. SenderHasSocket' /\ SentWhenLinkUp'
    BY <2>1, <2>2, <1>0 DEF LinkInv
  <2> QED
    BY <2>1, <2>3, <2>4, <1>q DEF LinkInv, Alive, Fresh
<1>11. ASSUME NEW c \in Channels, NEW m \in Msgs, Arrives(c, m) \/ Lose(c, m) PROVE LinkInv'
  BY <1>11, <1>q DEF Arrives, Lose, link, history, promises, LinkInv, Alive, Fresh
<1>12. CASE UNCHANGED vars
  BY <1>12, <1>q DEF vars, LinkInv, Alive, Fresh
<1> QED
  BY <1>1, <1>2, <1>3, <1>4, <1>5, <1>6, <1>7, <1>8, <1>9, <1>10, <1>11, <1>12
     DEF Next, ControllerStep

(* With one controller at a time, the link forgets no request, repeats     *)
(* none on one channel, and rejects none.                                  *)
THEOREM LinkIsSafe ==
    ASSUME ~Overlap PROVE Spec => []LinkInv
<1>1. TypeOK /\ TypeOK' /\ LinkInv /\ [Next]_vars => LinkInv'
  BY LinkStep
<1> QED
  BY <1>1, LinkInit, TypeCorrect, PTL DEF Spec

(* What LinkInv is for: once the manager may send over a link that is up,  *)
(* that link has carried every waiting request (the resend loop of         *)
(* connectAndSendMessages and registerFilter leave none out).              *)
THEOREM RequestsAreSent ==
    ASSUME ~Overlap PROVE Spec => []SentWhenLinkUp
<1>1. LinkInv => SentWhenLinkUp
  BY DEF LinkInv
<1> QED
  BY <1>1, LinkIsSafe, PTL

(* No channel carries a request twice: registerFilter and the resend loop  *)
(* never both send it.                                                     *)
THEOREM RequestsAreSentOnce ==
    ASSUME ~Overlap PROVE Spec => []SentOncePerChannel
<1>1. LinkInv => SentOncePerChannel
  BY DEF LinkInv
<1> QED
  BY <1>1, LinkIsSafe, PTL

(* registerFilter never sends over a socket that is still connecting.      *)
THEOREM RequestsAreNotRejected ==
    ASSUME ~Overlap PROVE Spec => []NoRejectedRequest
<1>1. LinkInv => NoRejectedRequest
  BY DEF LinkInv
<1> QED
  BY <1>1, LinkIsSafe, PTL

-----------------------------------------------------------------------------
(* The manager implements RequestService. *)

Asked == {f \in Requests : ~Fresh(f)}

(* Before the first registerFilter nobody has asked for anything.          *)
LEMMA ServiceInit == Init => Service!Init
BY DEF Init, Service!Init, Fresh

(* Registering a request asks for it. *)
LEMMA RegisterIsAsk ==
    ASSUME TypeOK, NEW f \in Requests, RegisterFilter(f)
    PROVE  Service!Ask(f)
<1>1. /\ Fresh(f) /\ filters' = filters \cup {f} /\ answer' = answer
      /\ SendIfPossible({f})
  BY DEF RegisterFilter
<1>2. rejected' = rejected \/ rejected' = rejected \cup {f}
  BY <1>1 DEF SendIfPossible
<1>3. f \notin Asked /\ Asked' = Asked \cup {f}
  BY <1>1, <1>2 DEF Fresh, Asked
<1>4. filters' \ {Peak} = (filters \ {Peak}) \cup {f}
  BY <1>1, SetsAssumption DEF SetsAssumption
<1> QED
  BY <1>1, <1>3, <1>4 DEF Service!Ask, Asked

(* Handling a message broadcasts it, with the requests its callbacks       *)
(* register.                                                               *)
LEMMA HandleIsBroadcast ==
    ASSUME TypeOK, NEW c \in Channels, NEW m \in Msgs, HandleMessage(c, m)
    PROVE  \E S, R \in SUBSET Requests : Service!Broadcast(m, S, R)
<1>1. PICK S \in SUBSET Requests :
        LET consumers == Consumers(filters \cup S, m)
        IN  /\ \A f \in S : Fresh(f)
            /\ SendIfPossible(S)
            /\ filters' = (filters \cup S) \ (consumers \cap OneShot)
            /\ answer' = [f \in Requests |->
                            IF f \in consumers \ rejected' /\ answer[f] = None
                            THEN m ELSE answer[f]]
  BY DEF HandleMessage, Fresh
<1> DEFINE heard == {f \in (filters \ {Peak}) \cup S : m \in Accepts[f]}
<1>2. /\ rejected \subseteq rejected' /\ rejected' \subseteq rejected \cup S
  BY <1>1 DEF SendIfPossible
<1>3. rejected' \in SUBSET Requests
  BY <1>2 DEF TypeOK
<1>4. Peak \notin Requests /\ OneShot \subseteq Requests /\ None # m
  BY SetsAssumption DEF SetsAssumption
<1>5. \A f \in Requests : f \in Consumers(filters \cup S, m) <=> f \in heard
  BY <1>4 DEF Consumers
<1>6. filters' \ {Peak} = ((filters \ {Peak}) \cup S) \ (heard \cap OneShot)
  BY <1>1, <1>4, <1>5
<1>7. answer' = [f \in Requests |->
                  IF f \in heard \ rejected' /\ answer[f] = None THEN m ELSE answer[f]]
  BY <1>1, <1>5
<1>8. Asked' = Asked \cup S
  <2>1. ASSUME NEW f \in Requests, f \in S PROVE f \in Asked'
    BY <2>1, <1>1, <1>4, <1>6, <1>7 DEF Asked, Fresh
  <2>2. ASSUME NEW f \in Requests, f \in Asked PROVE f \in Asked'
    BY <2>2, <1>2, <1>4, <1>6, <1>7 DEF Asked, Fresh
  <2>3. ASSUME NEW f \in Requests, f \in Asked' PROVE f \in Asked \cup S
    BY <2>3, <1>2, <1>4, <1>6, <1>7 DEF Asked, Fresh
  <2>4. Asked' \subseteq Requests /\ Asked \subseteq Requests
    BY DEF Asked
  <2> QED
    BY <2>1, <2>2, <2>3, <2>4
<1>9. S \subseteq Requests \ Asked
  BY <1>1 DEF Asked
<1>10. heard = {r \in (filters \ {Peak}) \cup S : m \in [f \in Requests |-> Accepts[f]][r]}
  BY <1>4 DEF TypeOK, Filters
<1>11. Service!Broadcast(m, S, rejected')
  BY <1>6, <1>7, <1>8, <1>9, <1>10 DEF Service!Broadcast, Asked
<1> QED
  BY <1>3, <1>11

(* Everything else leaves the callers' view alone. *)
LEMMA ServiceStep == TypeOK /\ [Next]_vars => [Service!Next]_(Service!avars)
<1> SUFFICES ASSUME TypeOK, [Next]_vars PROVE [Service!Next]_(Service!avars)
  OBVIOUS
<1>1. ASSUME NEW f \in Requests, RegisterFilter(f) PROVE Service!Next
  BY <1>1, RegisterIsAsk DEF Service!Next
<1>2. ASSUME NEW c \in Channels, NEW m \in Msgs, HandleMessage(c, m) PROVE Service!Next
  BY <1>2, HandleIsBroadcast DEF Service!Next
<1>3. ASSUME filters' \ {Peak} = filters \ {Peak}, UNCHANGED promises
      PROVE  UNCHANGED Service!avars
  <2>1. \A f \in Requests : f \in filters' <=> f \in filters
    BY <1>3, SetsAssumption DEF SetsAssumption
  <2>2. {f \in Requests : ~Fresh(f)}' = {f \in Requests : ~Fresh(f)}
    BY <1>3, <2>1 DEF Fresh, promises
  <2> QED
    BY <1>3, <2>2 DEF Service!avars, promises
<1>4. ASSUME NEW k \in Controllers, Initialize(k) PROVE UNCHANGED Service!avars
  BY <1>3, <1>4 DEF Initialize
<1>5. ASSUME NEW k \in Controllers, ControllerStep(k) PROVE UNCHANGED Service!avars
  BY <1>3, <1>5 DEF ControllerStep, CreateChannel, CreateThrows, ConnectThrows, Connected,
                    Check, promises
<1>6. ASSUME NEW f \in Filters, Expire(f) PROVE UNCHANGED Service!avars
  BY <1>3, <1>6 DEF Expire
<1>7. CASE Close
  BY <1>3, <1>7 DEF Close
<1>8. ASSUME NEW c \in Channels, SocketOpens(c) \/ SocketFails(c) PROVE UNCHANGED Service!avars
  BY <1>3, <1>8 DEF SocketOpens, SocketFails
<1>9. ASSUME NEW c \in Channels, NEW m \in Msgs, Arrives(c, m) \/ Lose(c, m)
      PROVE UNCHANGED Service!avars
  BY <1>3, <1>9 DEF Arrives, Lose
<1>10. CASE UNCHANGED vars
  BY <1>3, <1>10 DEF vars, promises
<1> QED
  BY <1>1, <1>2, <1>4, <1>5, <1>6, <1>7, <1>8, <1>9, <1>10 DEF Next

(* Every behaviour of the manager, with overlapping initializations and    *)
(* throwing channels too, is one of RequestService.                        *)
THEOREM Implementation == Spec => ImplementsRequestService
BY ServiceInit, ServiceStep, TypeCorrect, PTL DEF Spec, ImplementsRequestService, Service!Spec

-----------------------------------------------------------------------------
(* MessageChannel. *)

(* The awaited chunks p lie within the a bytes that arrived; when none was  *)
(* read before an earlier one they follow each other up to the last byte.  *)
Within(p, a) ==
    \A j \in 1..Len(p) : 1 <= p[j][1] /\ p[j][1] <= p[j][2] /\ p[j][2] <= a
Chain(p, a) ==
    \A j \in 1..Len(p) : /\ j < Len(p) => p[j + 1][1] = p[j][2] + 1
                         /\ j = Len(p) => p[j][2] = a

(* How many bytes have left the queue p of awaited chunks for the buffer.  *)
Taken(p, a) == IF p = <<>> THEN a ELSE p[1][1] - 1

(* The bytes b are those of the stream after byte s. *)
Follows(b, s) == \A j \in 1..Len(b) : b[j] = s + j

Types ==
    /\ arrived \in 0..Total
    /\ pending \in Seq(Nat \X Nat) /\ Within(pending, arrived)
    /\ overtaken \in BOOLEAN
    /\ buffer \in Seq(Nat)
    /\ delivered \in Seq(Nat)
    /\ pc \in {"idle", "loop", "garbled"}
    /\ pc = "loop" => Len(buffer) >= 5

(* What was delivered, the buffer and the awaited chunks follow each other. *)
Continues ==
    /\ pc # "garbled"
    /\ Len(delivered) <= Len(Frames)
    /\ \A k \in 1..Len(delivered) : delivered[k] = k
    /\ Follows(buffer, Start[Len(delivered) + 1])
    /\ Start[Len(delivered) + 1] + Len(buffer) = Taken(pending, arrived)
    /\ Chain(pending, arrived)

IInv == Types /\ NothingStuck /\ (~overtaken => Continues)

-----------------------------------------------------------------------------
(* The frames. *)

(* The numbers that the frames determine.                                  *)
LEMMA Constants ==
    /\ Len(Frames) \in Nat /\ Total \in Nat
    /\ \A i \in 1..(Len(Frames) + 1) : Start[i] \in Nat
    /\ \A i \in FrameIds : /\ Start[i + 1] = Start[i] + realMessageLength(i)
                           /\ realMessageLength(i) \in Nat /\ realMessageLength(i) >= 6
                           /\ lengthField(i) \in {6, 8} /\ lengthField(i) <= realMessageLength(i)
    /\ \A i, j \in 1..(Len(Frames) + 1) : Start[i] = Start[j] => i = j
<1>1. Len(Frames) \in Nat /\ \A i \in 1..(Len(Frames) + 1) : Start[i] \in Nat
  BY FramesAssumption
<1>2. Total \in Nat
  BY <1>1 DEF Total
<1>3. ASSUME NEW i \in FrameIds
      PROVE  /\ Start[i + 1] = Start[i] + realMessageLength(i)
             /\ realMessageLength(i) \in Nat /\ realMessageLength(i) >= 6
             /\ lengthField(i) \in {6, 8} /\ lengthField(i) <= realMessageLength(i)
  <2>1. Frames[i] \in [id : BOOLEAN, len : Nat]
    <3>1. i \in 1..Len(Frames) /\ Frames \in Seq([id : BOOLEAN, len : Nat])
      BY FramesAssumption, Zenon DEF FrameIds
    <3>2. \A S : \A s \in Seq(S) : \A k \in 1..Len(s) : s[k] \in S
      OBVIOUS
    <3> QED BY <3>1, <3>2, Zenon
  <2>2. Frames[i].len \in Nat
    BY <2>1
  <2>3. \/ realMessageLength(i) = Frames[i].len + 8 /\ lengthField(i) = 8
        \/ realMessageLength(i) = Frames[i].len + 6 /\ lengthField(i) = 6
    BY DEF realMessageLength, lengthField
  <2>4. /\ realMessageLength(i) \in Nat /\ realMessageLength(i) >= 6
        /\ lengthField(i) \in {6, 8} /\ lengthField(i) <= realMessageLength(i)
    BY <2>2, <2>3
  <2>5. Start[i + 1] = Start[i] + Frames[i].len + (IF Frames[i].id THEN 8 ELSE 6)
    BY FramesAssumption DEF FrameIds
  <2>6. Start[i] \in Nat
    BY <1>1 DEF FrameIds
  <2>7. Start[i + 1] = Start[i] + realMessageLength(i)
    BY <2>2, <2>5, <2>6 DEF realMessageLength
  <2> QED BY <2>4, <2>7
<1>4. ASSUME NEW i \in 1..(Len(Frames) + 1), NEW j \in 1..(Len(Frames) + 1), Start[i] = Start[j]
      PROVE  i = j
  <2>1. \A k \in 1..Len(Frames) : Start[k] < Start[k + 1]
    <3> SUFFICES ASSUME NEW k \in 1..Len(Frames) PROVE Start[k] < Start[k + 1]
      OBVIOUS
    <3>1. k \in FrameIds /\ Start[k] \in Nat
      BY <1>1 DEF FrameIds
    <3> QED BY <1>3, <3>1
  <2>2. \A k, l \in 1..(Len(Frames) + 1) : k < l => Start[k] < Start[l]
    BY <1>1, <2>1, Increasing
  <2>3. ~(i < j) /\ ~(j < i)
    BY <1>1, <1>4, <2>2
  <2> QED BY <2>3
<1> QED BY <1>1, <1>2, <1>3, <1>4

(* A buffer opens with one frame at most. *)
LEMMA OneHead ==
    ASSUME NEW i \in FrameIds, NEW k \in FrameIds, NEW m \in Nat \ {0}, NEW n \in Nat \ {0},
           Opens(buffer, i, m), Opens(buffer, k, n)
    PROVE  i = k
<1>1. buffer[1] = Start[i] + 1 /\ buffer[1] = Start[k] + 1
  BY DEF Opens
<1>2. i \in 1..(Len(Frames) + 1) /\ k \in 1..(Len(Frames) + 1)
  BY Constants DEF FrameIds
<1>3. Start[i] \in Nat /\ Start[k] \in Nat
  BY <1>2, Constants
<1>4. Start[i] = Start[k]
  BY <1>1, <1>3
<1> QED BY <1>2, <1>4, Constants

(* The frame that heads the buffer in the loop.                            *)
LEMMA Headed ==
    ASSUME IInv, pc = "loop", NEW i \in FrameIds, HeadedBy(i)
    PROVE  /\ \E n \in Nat \ {0} : Opens(buffer, i, n)
           /\ ~overtaken => i = Len(delivered) + 1
<1>1. Len(buffer) \in Nat /\ Len(buffer) >= 5
  BY DEF IInv, Types
<1>2. Least(Len(buffer), lengthField(i)) \in Nat \ {0}
  BY <1>1, Constants DEF Least
<1>3. Opens(buffer, i, Least(Len(buffer), lengthField(i)))
  BY DEF HeadedBy
<1>4. buffer[1] = Start[i] + 1
  BY <1>2, <1>3 DEF Opens
<1>5. ASSUME ~overtaken PROVE i = Len(delivered) + 1
  <2>1. /\ Len(delivered) + 1 \in 1..(Len(Frames) + 1) /\ i \in 1..(Len(Frames) + 1)
        /\ buffer[1] = Start[Len(delivered) + 1] + 1
    <3>1. Len(delivered) \in Nat /\ Len(delivered) <= Len(Frames)
      BY <1>5 DEF IInv, Types, Continues
    <3>2. buffer[1] = Start[Len(delivered) + 1] + 1
      BY <1>1, <1>5 DEF IInv, Continues, Follows
    <3> QED BY <3>1, <3>2, Constants DEF FrameIds
  <2>2. Start[i] \in Nat /\ Start[Len(delivered) + 1] \in Nat
    BY <2>1, Constants
  <2>3. Start[i] = Start[Len(delivered) + 1]
    BY <1>4, <2>1, <2>2
  <2> QED BY <2>1, <2>3, Constants
<1> QED BY <1>2, <1>3, <1>5

(* The bytes of a chunk. *)
LEMMA SpanBytes ==
    ASSUME NEW first \in Nat, NEW last \in Nat, first <= last
    PROVE  /\ Span(first, last) \in Seq(Nat)
           /\ Len(Span(first, last)) = last - first + 1
           /\ \A i \in 1..(last - first + 1) : Span(first, last)[i] = first + i - 1
BY DEF Span

(* Two sequences, one after the other. *)
LEMMA Joined ==
    ASSUME NEW S, NEW s \in Seq(S), NEW t \in Seq(S)
    PROVE  /\ s \o t \in Seq(S)
           /\ Len(s \o t) = Len(s) + Len(t)
           /\ \A j \in 1..Len(s) : (s \o t)[j] = s[j]
           /\ \A j \in 1..Len(t) : (s \o t)[Len(s) + j] = t[j]
<1>1. s \o t \in Seq(S)
  OBVIOUS
<1>2. Len(s \o t) = Len(s) + Len(t)
  OBVIOUS
<1>3. \A j \in 1..Len(s) : (s \o t)[j] = s[j]
  OBVIOUS
<1>4. \A j \in 1..Len(t) : (s \o t)[Len(s) + j] = t[j]
  OBVIOUS
<1> QED BY <1>1, <1>2, <1>3, <1>4

(* The chunk that comes next continues the buffer. *)
LEMMA FollowsOn ==
    ASSUME NEW b \in Seq(Nat), NEW s \in Nat, NEW first \in Nat, NEW last \in Nat,
           Follows(b, s), first = s + Len(b) + 1, first <= last
    PROVE  /\ Follows(b \o Span(first, last), s)
           /\ s + Len(b \o Span(first, last)) = last
<1> DEFINE c == Span(first, last)
<1>1. /\ c \in Seq(Nat) /\ Len(c) = last - first + 1
      /\ \A i \in 1..(last - first + 1) : c[i] = first + i - 1
  BY SpanBytes
<1> HIDE DEF c
<1>2. /\ Len(b \o c) = Len(b) + Len(c)
      /\ \A j \in 1..Len(b) : (b \o c)[j] = b[j]
      /\ \A j \in 1..Len(c) : (b \o c)[Len(b) + j] = c[j]
  BY <1>1, Joined
<1>3. Len(b) \in Nat
  OBVIOUS
<1>4. ASSUME NEW j \in 1..Len(b \o c) PROVE (b \o c)[j] = s + j
  <2>1. CASE j \in 1..Len(b)
    BY <1>2, <2>1 DEF Follows
  <2>2. CASE j \notin 1..Len(b)
    <3>1. j - Len(b) \in 1..Len(c) /\ Len(b) + (j - Len(b)) = j
      BY <1>1, <1>2, <1>3, <2>2
    <3>2. (b \o c)[j] = c[j - Len(b)]
      BY <1>2, <3>1
    <3>3. c[j - Len(b)] = first + (j - Len(b)) - 1
      BY <1>1, <3>1
    <3> QED BY <1>3, <3>1, <3>2, <3>3
  <2> QED BY <2>1, <2>2
<1>5. Follows(b \o c, s)
  BY <1>4 DEF Follows
<1> QED BY <1>1, <1>2, <1>3, <1>5 DEF c

(* A chunk joins the queue. *)
LEMMA Queued ==
    ASSUME NEW p \in Seq(Nat \X Nat), NEW a \in Nat, NEW n \in Nat \ {0}, Within(p, a)
    PROVE  LET q == Append(p, <<a + 1, a + n>>)
           IN  /\ q \in Seq(Nat \X Nat) /\ Within(q, a + n)
               /\ Taken(q, a + n) = Taken(p, a)
               /\ Chain(p, a) => Chain(q, a + n)
<1> DEFINE e == <<a + 1, a + n>>
           q == Append(p, e)
<1>1. e \in Nat \X Nat /\ e[1] = a + 1 /\ e[2] = a + n
  OBVIOUS
<1> HIDE DEF e
<1>2. /\ q \in Seq(Nat \X Nat) /\ Len(q) = Len(p) + 1 /\ Len(p) \in Nat
      /\ \A j \in 1..Len(p) : q[j] = p[j]
      /\ q[Len(p) + 1] = e
  BY <1>1
<1> HIDE DEF q
<1>0. Len(q) = Len(p) + 1 /\ Len(p) \in Nat
  BY <1>2
<1>3. \A j \in 1..Len(p) : p[j][1] \in Nat /\ p[j][2] \in Nat
  <2>1. \A j \in 1..Len(p) : p[j] \in Nat \X Nat
    OBVIOUS
  <2> QED BY <2>1
<1>4. Within(q, a + n)
  <2> SUFFICES ASSUME NEW j \in 1..Len(q)
               PROVE  1 <= q[j][1] /\ q[j][1] <= q[j][2] /\ q[j][2] <= a + n
    BY DEF Within
  <2>1. CASE j \in 1..Len(p)
    <3>1. q[j] = p[j] /\ p[j][2] \in Nat
      BY <1>2, <1>3, <2>1
    <3>2. 1 <= p[j][1] /\ p[j][1] <= p[j][2] /\ p[j][2] <= a
      BY <2>1 DEF Within
    <3> QED BY <3>1, <3>2
  <2>2. CASE j \notin 1..Len(p)
    <3>1. j = Len(p) + 1
      BY <1>2, <2>2
    <3> QED BY <1>1, <1>2, <3>1
  <2> QED BY <2>1, <2>2
<1>5. Taken(q, a + n) = Taken(p, a)
  <2>1. q # <<>>
    BY <1>2
  <2>2. CASE p = <<>>
    <3>1. q[1] = e
      BY <1>2, <2>2
    <3> QED BY <1>1, <2>1, <2>2, <3>1 DEF Taken
  <2>3. CASE p # <<>>
    <3>1. q[1] = p[1]
      BY <1>2, <2>3
    <3> QED BY <2>1, <2>3, <3>1 DEF Taken
  <2> QED BY <2>2, <2>3
<1>6. ASSUME Chain(p, a) PROVE Chain(q, a + n)
  <2> SUFFICES ASSUME NEW j \in 1..Len(q)
               PROVE  /\ j < Len(q) => q[j + 1][1] = q[j][2] + 1
                      /\ j = Len(q) => q[j][2] = a + n
    BY DEF Chain
  <2>1. CASE j = Len(p) + 1
    BY <1>1, <1>2, <2>1
  <2>2. CASE j = Len(p)
    <3>1. j \in 1..Len(p) /\ q[j] = p[j] /\ q[j + 1] = e
      BY <1>2, <2>2
    <3>2. p[j][2] = a
      BY <1>6, <2>2, <3>1 DEF Chain
    <3> QED BY <1>1, <1>2, <2>2, <3>1, <3>2
  <2>3. CASE j < Len(p)
    <3>1. j \in 1..Len(p) /\ j + 1 \in 1..Len(p)
      BY <1>0, <2>3
    <3>2. q[j] = p[j] /\ q[j + 1] = p[j + 1]
      BY <1>2, <3>1
    <3>3. p[j + 1][1] = p[j][2] + 1
      BY <1>6, <2>3, <3>1 DEF Chain
    <3> QED BY <1>2, <2>3, <3>2, <3>3
  <2> QED BY <1>2, <2>1, <2>2, <2>3
<1> QED BY <1>2, <1>4, <1>5, <1>6 DEF q, e

(* The j-th chunk leaves the queue. *)
LEMMA Unqueued ==
    ASSUME NEW p \in Seq(Nat \X Nat), NEW a \in Nat, NEW j \in 1..Len(p), Within(p, a)
    PROVE  LET q == SubSeq(p, 1, j - 1) \o SubSeq(p, j + 1, Len(p))
           IN  /\ q \in Seq(Nat \X Nat) /\ Within(q, a)
               /\ Chain(p, a) /\ j = 1 => Chain(q, a) /\ Taken(q, a) = p[1][2]
<1> DEFINE r == SubSeq(p, 1, j - 1)
           t == SubSeq(p, j + 1, Len(p))
           q == r \o t
<1>1. Len(p) \in Nat /\ j \in Nat /\ 1 <= j /\ j <= Len(p)
  OBVIOUS
<1>2. /\ r \in Seq(Nat \X Nat) /\ Len(r) = j - 1
      /\ \A k \in 1..(j - 1) : r[k] = p[k]
  BY <1>1
<1>3. /\ t \in Seq(Nat \X Nat) /\ Len(t) = Len(p) - j
      /\ \A k \in 1..(Len(p) - j) : t[k] = p[j + k]
  BY <1>1
<1> HIDE DEF r, t
<1>4. q \in Seq(Nat \X Nat) /\ Len(q) = Len(p) - 1
  <2>1. q \in Seq(Nat \X Nat) /\ Len(q) = Len(r) + Len(t)
    BY <1>2, <1>3, Joined
  <2> QED BY <1>1, <1>2, <1>3, <2>1
<1>0. Len(q) = Len(p) - 1 /\ Len(r) = j - 1 /\ Len(t) = Len(p) - j
  BY <1>2, <1>3, <1>4
<1>5. \A k \in 1..Len(q) : q[k] = IF k < j THEN p[k] ELSE p[k + 1]
  <2> SUFFICES ASSUME NEW k \in 1..Len(q) PROVE q[k] = IF k < j THEN p[k] ELSE p[k + 1]
    OBVIOUS
  <2>1. CASE k < j
    <3>1. k \in 1..Len(r)
      BY <1>1, <1>0, <2>1
    <3>2. q[k] = r[k]
      BY <1>2, <1>3, <3>1, Joined
    <3> QED BY <1>2, <1>0, <2>1, <3>1, <3>2
  <2>2. CASE ~(k < j)
    <3>1. k - Len(r) \in 1..(Len(p) - j) /\ j + (k - Len(r)) = k + 1
          /\ Len(r) + (k - Len(r)) = k
      BY <1>1, <1>0, <2>2
    <3>5. r \in Seq(Nat \X Nat) /\ t \in Seq(Nat \X Nat)
      BY <1>2, <1>3
    <3>4. \A i \in 1..Len(t) : q[Len(r) + i] = t[i]
      BY <3>5, Joined
    <3>2. q[Len(r) + (k - Len(r))] = t[k - Len(r)]
      BY <1>0, <3>1, <3>4
    <3>3. t[k - Len(r)] = p[j + (k - Len(r))]
      BY <1>3, <3>1
    <3> QED BY <2>2, <3>1, <3>2, <3>3
  <2> QED BY <2>1, <2>2
<1>9. Len(q) = Len(p) - 1 /\ Len(q) \in Nat
  BY <1>1, <1>0
<1> HIDE DEF q
<1>6. Within(q, a)
  <2> SUFFICES ASSUME NEW k \in 1..Len(q)
               PROVE  1 <= q[k][1] /\ q[k][1] <= q[k][2] /\ q[k][2] <= a
    BY DEF Within
  <2>1. PICK i \in 1..Len(p) : q[k] = p[i]
    <3>1. k \in 1..Len(p) /\ k + 1 \in 1..Len(p)
      BY <1>1, <1>4
    <3> QED BY <1>5, <3>1
  <2> QED BY <2>1 DEF Within
<1>7. ASSUME Chain(p, a), j = 1 PROVE Chain(q, a) /\ Taken(q, a) = p[1][2]
  <2>1. \A k \in 1..Len(q) : q[k] = p[k + 1] /\ k + 1 \in 1..Len(p)
    <3> TAKE k \in 1..Len(q)
    <3>1. k + 1 \in 1..Len(p)
      BY <1>0, <1>9
    <3>2. ~(k < j)
      BY <1>7
    <3> QED BY <1>5, <3>1, <3>2
  <2>2. Chain(q, a)
    <3> SUFFICES ASSUME NEW k \in 1..Len(q)
                 PROVE  /\ k < Len(q) => q[k + 1][1] = q[k][2] + 1
                        /\ k = Len(q) => q[k][2] = a
      BY DEF Chain
    <3>1. CASE k < Len(q)
      <4>0. k \in Nat /\ k + 1 <= Len(q)
        BY <1>9, <3>1
      <4>1. k + 1 \in 1..Len(q) /\ k + 1 < Len(p)
        BY <1>1, <1>9, <4>0
      <4>2. q[k] = p[k + 1] /\ q[k + 1] = p[(k + 1) + 1] /\ k + 1 \in 1..Len(p)
        BY <2>1, <4>1
      <4>3. p[(k + 1) + 1][1] = p[k + 1][2] + 1
        BY <1>7, <4>1, <4>2 DEF Chain
      <4> QED BY <3>1, <4>2, <4>3
    <3>2. CASE k = Len(q)
      <4>1. k + 1 = Len(p)
        BY <1>1, <1>0, <3>2
      <4>2. q[k] = p[k + 1] /\ k + 1 \in 1..Len(p)
        BY <2>1
      <4> QED BY <1>7, <3>2, <4>1, <4>2 DEF Chain
    <3> QED BY <1>1, <1>0, <3>1, <3>2
  <2>3. CASE Len(p) = 1
    <3>1. q = <<>>
      BY <1>4, <2>3
    <3>2. p[1][2] = a
      BY <1>7, <2>3 DEF Chain
    <3> QED BY <2>2, <3>1, <3>2 DEF Taken
  <2>4. CASE Len(p) # 1
    <3>1. 1 \in 1..Len(q) /\ 1 < Len(p) /\ 1 \in 1..Len(p)
      BY <1>1, <1>9, <2>4
    <3>4. q # <<>>
      BY <3>1
    <3>2. q[1] = p[2] /\ p[2][1] = p[1][2] + 1
      BY <1>7, <2>1, <3>1 DEF Chain
    <3>3. p[1] \in Nat \X Nat
      BY <3>1
    <3>5. Taken(q, a) = q[1][1] - 1
      BY <3>4 DEF Taken
    <3> QED BY <2>2, <3>2, <3>3, <3>5
  <2> QED BY <2>3, <2>4
<1> QED BY <1>4, <1>6, <1>7 DEF q, r, t

-----------------------------------------------------------------------------
(* The handler. *)

(* The handler's start appends a chunk and decides whether to loop.        *)
LEMMA Handled ==
    ASSUME Types, NEW first \in Nat, NEW last \in Nat, first <= last,
           HandlerStarts(Span(first, last))
    PROVE  /\ buffer' = buffer \o Span(first, last) /\ buffer' \in Seq(Nat)
           /\ UNCHANGED delivered
           /\ pc' \in {"idle", "loop"}
           /\ pc' = "loop" => Len(buffer') >= 5
           /\ NothingStuck'
<1> DEFINE chunk == Span(first, last)
<1>1. chunk \in Seq(Nat)
  BY SpanBytes
<1>2. buffer' = buffer \o chunk /\ buffer \in Seq(Nat)
  BY DEF HandlerStarts, Types
<1> HIDE DEF chunk
<1>3. buffer \o chunk \in Seq(Nat)
  BY <1>1, <1>2, Joined
<1>4. buffer' \in Seq(Nat) /\ Len(buffer') \in Nat
  BY <1>2, <1>3
<1>5. pc' = (IF Len(buffer') < 5 THEN "idle" ELSE "loop")
  BY DEF HandlerStarts
<1>6. /\ pc' \in {"idle", "loop"}
      /\ pc' = "loop" => Len(buffer') >= 5
      /\ pc' = "idle" => Len(buffer') < 5
  BY <1>4, <1>5
<1>7. NothingStuck'
  <2> SUFFICES ASSUME pc' = "idle", NEW i \in FrameIds,
                      Len(buffer') >= Start[i + 1] - Start[i]
               PROVE  FALSE
    BY DEF NothingStuck
  <2>1. Start[i] \in Nat
    BY Constants DEF FrameIds
  <2>2. Start[i + 1] = Start[i] + realMessageLength(i) /\ realMessageLength(i) \in Nat
        /\ realMessageLength(i) >= 6
    BY Constants
  <2> QED BY <1>4, <1>6, <2>1, <2>2
<1> QED BY <1>2, <1>4, <1>6, <1>7 DEF HandlerStarts, chunk

-----------------------------------------------------------------------------
(* The invariant. *)

(* At first every byte is still to come.                                   *)
LEMMA InitKeeps == ChannelInit => IInv
<1> SUFFICES ASSUME ChannelInit PROVE IInv
  OBVIOUS
<1>1. Len(buffer) = 0 /\ Len(pending) = 0 /\ Len(delivered) = 0
  BY DEF ChannelInit
<1>2. Types
  <2>1. 0 \in 0..Total
    BY Constants
  <2>2. <<>> \in Seq(Nat \X Nat) /\ <<>> \in Seq(Nat)
    OBVIOUS
  <2>3. arrived = 0 /\ pending = <<>> /\ overtaken = FALSE /\ buffer = <<>> /\ delivered = <<>>
        /\ pc = "idle"
    BY DEF ChannelInit
  <2>4. pending \in Seq(Nat \X Nat) /\ buffer \in Seq(Nat) /\ delivered \in Seq(Nat)
        /\ arrived \in 0..Total /\ overtaken \in BOOLEAN
    BY <2>1, <2>2, <2>3, Zenon
  <2>5. Within(pending, arrived)
    BY <1>1 DEF Within
  <2>6. pc # "loop" /\ pc \in {"idle", "loop", "garbled"}
    BY <2>3
  <2> QED BY <2>4, <2>5, <2>6, Zenon DEF Types
<1>3. NothingStuck
  <2> SUFFICES ASSUME NEW i \in FrameIds, Len(buffer) >= Start[i + 1] - Start[i]
               PROVE  FALSE
    BY DEF NothingStuck
  <2>1. Start[i] \in Nat
    BY Constants DEF FrameIds
  <2>2. Start[i + 1] = Start[i] + realMessageLength(i) /\ realMessageLength(i) \in Nat
        /\ realMessageLength(i) >= 6
    BY Constants
  <2> QED BY <1>1, <2>1, <2>2
<1>4. Continues
  <2>1. Start[1] = 0
    BY FramesAssumption
  <2> QED BY <1>1, <2>1, Constants DEF ChannelInit, Continues, Follows, Chain, Taken
<1> QED BY <1>2, <1>3, <1>4 DEF IInv

(* How far the frames that were delivered and the buffer reach. *)
LEMMA Reached ==
    ASSUME Types, Continues
    PROVE  /\ Len(delivered) \in Nat /\ Len(delivered) + 1 \in 1..(Len(Frames) + 1)
           /\ Start[Len(delivered) + 1] \in Nat
           /\ Start[Len(delivered) + 1] + Len(buffer) <= Total
<1>1. Len(delivered) \in Nat /\ Len(delivered) + 1 \in 1..(Len(Frames) + 1)
  BY Constants DEF Types, Continues
<1>2. Taken(pending, arrived) <= Total
  <2>1. arrived \in Nat /\ arrived <= Total /\ Total \in Nat
    BY Constants DEF Types
  <2>2. CASE pending = <<>>
    BY <2>1, <2>2 DEF Taken
  <2>3. CASE pending # <<>>
    <3>1. 1 \in 1..Len(pending) /\ pending[1] \in Nat \X Nat
      BY <2>3 DEF Types
    <3>2. pending[1][1] \in Nat /\ pending[1][2] \in Nat
      BY <3>1
    <3>3. pending[1][1] <= pending[1][2] /\ pending[1][2] <= arrived
      BY <3>1 DEF Types, Within
    <3> QED BY <2>1, <2>3, <3>2, <3>3 DEF Taken
  <2> QED BY <2>2, <2>3
<1> QED BY <1>1, <1>2, Constants DEF Continues

(* The head of the buffer is the next frame when no Blob overtook another. *)
LEMMA NextHead ==
    ASSUME Types, Continues, pc = "loop"
    PROVE  /\ Len(delivered) + 1 \in FrameIds
           /\ HeadedBy(Len(delivered) + 1)
<1> DEFINE i == Len(delivered) + 1
<1>1. Len(buffer) \in Nat /\ Len(buffer) >= 5
  BY DEF Types
<1>2. i \in 1..(Len(Frames) + 1) /\ Start[i] \in Nat /\ Start[i] + Len(buffer) <= Total
  BY Reached
<1>3. i # Len(Frames) + 1
  BY <1>1, <1>2, Constants DEF Total
<1>4. i \in FrameIds
  BY <1>2, <1>3, Constants DEF FrameIds
<1>5. Least(Len(buffer), lengthField(i)) \in Nat
      /\ Least(Len(buffer), lengthField(i)) <= Len(buffer)
  BY <1>1, <1>4, Constants DEF Least
<1>6. \A j \in 1..Len(buffer) : buffer[j] = Start[i] + j
  BY DEF Continues, Follows
<1>7. HeadedBy(i)
  BY <1>1, <1>5, <1>6 DEF HeadedBy, Opens
<1> QED BY <1>4, <1>7

(* A loop that ends on an incomplete frame leaves no complete one.         *)
LEMMA Unfinished ==
    ASSUME IInv, pc = "loop", NEW i \in FrameIds, HeadedBy(i),
           Len(buffer) < realMessageLength(i), UNCHANGED buffer
    PROVE  NothingStuck'
<1> SUFFICES ASSUME NEW k \in FrameIds, Len(buffer) >= Start[k + 1] - Start[k],
                    Opens(buffer, k, Start[k + 1] - Start[k])
             PROVE  FALSE
  BY DEF NothingStuck, Opens
<1>1. PICK n \in Nat \ {0} : Opens(buffer, i, n)
  BY Headed
<1>2. Start[k] \in Nat
  BY Constants DEF FrameIds
<1>3. /\ Start[k + 1] = Start[k] + realMessageLength(k)
      /\ realMessageLength(k) \in Nat /\ realMessageLength(k) >= 6
  BY Constants
<1>4. Start[k + 1] - Start[k] = realMessageLength(k)
  BY <1>2, <1>3
<1>5. i = k
  BY <1>1, <1>3, <1>4, OneHead
<1>6. Len(buffer) \in Nat
  BY DEF IInv, Types
<1> QED BY <1>3, <1>4, <1>5, <1>6

(* A chunk arrives: after the buffer, or after those that are awaited.     *)
LEMMA MessageKeeps ==
    ASSUME IInv, NEW n \in 1..Total, OnMessage(n)
    PROVE  IInv'
<1> DEFINE first == arrived + 1
           last == arrived + n
<1>1. /\ arrived \in Nat /\ n \in Nat \ {0} /\ first \in Nat /\ last \in Nat /\ first <= last
      /\ arrived' = last /\ arrived' \in 0..Total /\ arrived <= arrived'
  BY Constants DEF IInv, Types, OnMessage
<1>2. pending \in Seq(Nat \X Nat) /\ Within(pending, arrived)
  BY DEF IInv, Types
<1>3. CASE /\ HandlerStarts(Span(first, last))
           /\ overtaken' = (overtaken \/ pending # <<>>)
           /\ UNCHANGED pending
  <2>1. /\ buffer' = buffer \o Span(first, last) /\ buffer' \in Seq(Nat)
        /\ UNCHANGED delivered
        /\ pc' \in {"idle", "loop"}
        /\ pc' = "loop" => Len(buffer') >= 5
        /\ NothingStuck'
    BY <1>1, <1>3, Handled DEF IInv
  <2>2. Within(pending, arrived')
    <3>1. \A j \in 1..Len(pending) : pending[j] \in Nat \X Nat
      BY <1>2
    <3>2. \A j \in 1..Len(pending) : pending[j][2] \in Nat
      BY <3>1
    <3> QED BY <1>1, <1>2, <3>2 DEF Within
  <2>3. Types'
    <3>1. overtaken' \in BOOLEAN
      BY <1>3
    <3>2. delivered' \in Seq(Nat)
      BY <2>1 DEF IInv, Types
    <3> QED BY <1>1, <1>2, <1>3, <2>1, <2>2, <3>1, <3>2 DEF Types
  <2>4. ASSUME ~overtaken' PROVE Continues'
    <3>1. ~overtaken /\ pending = <<>> /\ Types /\ Continues
      BY <1>3, <2>4 DEF IInv, Types
    <3>2. Taken(pending, arrived) = arrived /\ Taken(pending', arrived') = last
      BY <1>1, <1>3, <3>1 DEF Taken
    <3>3. Start[Len(delivered) + 1] \in Nat
      BY <3>1, Reached
    <3>4. first = Start[Len(delivered) + 1] + Len(buffer) + 1 /\ buffer \in Seq(Nat)
      BY <3>1, <3>2 DEF Continues, Types
    <3>5. /\ Follows(buffer', Start[Len(delivered) + 1])
          /\ Start[Len(delivered) + 1] + Len(buffer') = last
      <4>1. Follows(buffer, Start[Len(delivered) + 1])
        BY <3>1 DEF Continues
      <4> HIDE DEF first, last
      <4>2. /\ Follows(buffer \o Span(first, last), Start[Len(delivered) + 1])
            /\ Start[Len(delivered) + 1] + Len(buffer \o Span(first, last)) = last
        <5> DEFINE s == Start[Len(delivered) + 1]
        <5>1. s \in Nat /\ Follows(buffer, s) /\ first = s + Len(buffer) + 1
          BY <3>3, <3>4, <4>1
        <5> HIDE DEF s
        <5>2. Follows(buffer \o Span(first, last), s) /\ s + Len(buffer \o Span(first, last)) = last
          <6>1. first \in Nat /\ last \in Nat /\ first <= last
            BY <1>1
          <6>2. buffer \in Seq(Nat)
            BY <3>4
          <6> QED BY <5>1, <6>1, <6>2, FollowsOn
        <5> QED BY <5>2 DEF s
      <4> QED BY <2>1, <4>2
    <3>6. Chain(pending', arrived')
      BY <1>3, <3>1 DEF Chain
    <3>7. pc' # "garbled"
      BY <2>1
    <3> QED BY <2>1, <3>1, <3>2, <3>5, <3>6, <3>7 DEF Continues
  <2> QED BY <2>1, <2>3, <2>4 DEF IInv
<1>4. CASE /\ pending' = Append(pending, <<first, last>>)
           /\ UNCHANGED <<overtaken, buffer, pc, delivered, outcome>>
  <2>1. /\ pending' \in Seq(Nat \X Nat) /\ Within(pending', arrived')
        /\ Taken(pending', arrived') = Taken(pending, arrived)
        /\ Chain(pending, arrived) => Chain(pending', arrived')
    BY <1>1, <1>2, <1>4, Queued
  <2>2. Types'
    BY <1>1, <1>4, <2>1 DEF IInv, Types
  <2>3. NothingStuck'
    BY <1>4 DEF IInv, NothingStuck, Opens
  <2>4. ASSUME ~overtaken' PROVE Continues'
    <3>1. Continues
      BY <1>4, <2>4 DEF IInv
    <3> QED BY <1>4, <2>1, <3>1 DEF Continues
  <2> QED BY <2>2, <2>3, <2>4 DEF IInv
<1> QED BY <1>3, <1>4 DEF OnMessage

(* The bytes of a Blob are read: in order if it is the first of them.      *)
LEMMA BlobKeeps ==
    ASSUME IInv, NEW j \in 1..Len(pending), BlobRead(j)
    PROVE  IInv'
<1> DEFINE first == pending[j][1]
           last == pending[j][2]
<1>1. /\ arrived \in Nat /\ pending \in Seq(Nat \X Nat) /\ Within(pending, arrived)
      /\ UNCHANGED arrived
  BY Constants DEF IInv, Types, BlobRead
<1>2. first \in Nat /\ last \in Nat /\ first <= last /\ first >= 1
  <2>1. pending[j] \in Nat \X Nat
    BY <1>1
  <2> QED BY <1>1, <2>1 DEF Within
<1> HIDE DEF first, last
<1>3. HandlerStarts(Span(first, last))
  BY DEF BlobRead, first, last
<1>4. /\ buffer' = buffer \o Span(first, last) /\ buffer' \in Seq(Nat)
      /\ UNCHANGED delivered
      /\ pc' \in {"idle", "loop"}
      /\ pc' = "loop" => Len(buffer') >= 5
      /\ NothingStuck'
  BY <1>2, <1>3, Handled DEF IInv
<1>5. /\ pending' \in Seq(Nat \X Nat) /\ Within(pending', arrived)
      /\ Chain(pending, arrived) /\ j = 1 =>
            Chain(pending', arrived) /\ Taken(pending', arrived) = pending[1][2]
  BY <1>1, Unqueued DEF BlobRead
<1>6. Types'
  <2>1. overtaken' \in BOOLEAN /\ delivered' \in Seq(Nat) /\ arrived' \in 0..Total
    BY <1>1, <1>4 DEF IInv, Types, BlobRead
  <2> QED BY <1>1, <1>4, <1>5, <2>1 DEF Types
<1>7. ASSUME ~overtaken' PROVE Continues'
  <2>1. ~overtaken /\ j = 1 /\ Types /\ Continues
    <3>1. overtaken' = (overtaken \/ j > 1) /\ overtaken \in BOOLEAN
      BY DEF IInv, Types, BlobRead
    <3>2. ~overtaken /\ ~(j > 1)
      BY <1>7, <3>1
    <3>3. j = 1
      BY <1>1, <3>2
    <3> QED BY <3>2, <3>3 DEF IInv
  <2>2. pending # <<>> /\ Taken(pending, arrived) = first - 1 /\ last = pending[1][2]
    BY <1>1, <2>1 DEF Taken, first, last
  <2>3. Start[Len(delivered) + 1] \in Nat
    BY <2>1, Reached
  <2>4. first = Start[Len(delivered) + 1] + Len(buffer) + 1 /\ buffer \in Seq(Nat)
    BY <1>2, <2>1, <2>2, <2>3 DEF Continues, Types
  <2>5. /\ Follows(buffer', Start[Len(delivered) + 1])
        /\ Start[Len(delivered) + 1] + Len(buffer') = last
    <3>1. Follows(buffer, Start[Len(delivered) + 1])
      BY <2>1 DEF Continues
    <3>2. /\ Follows(buffer \o Span(first, last), Start[Len(delivered) + 1])
          /\ Start[Len(delivered) + 1] + Len(buffer \o Span(first, last)) = last
      <4> DEFINE s == Start[Len(delivered) + 1]
      <4>1. s \in Nat /\ Follows(buffer, s) /\ first = s + Len(buffer) + 1
        BY <2>3, <2>4, <3>1
      <4> HIDE DEF s
      <4>2. Follows(buffer \o Span(first, last), s) /\ s + Len(buffer \o Span(first, last)) = last
        <5>1. first \in Nat /\ last \in Nat /\ first <= last
          BY <1>2
        <5>2. buffer \in Seq(Nat)
          BY <2>4
        <5> QED BY <4>1, <5>1, <5>2, FollowsOn
      <4> QED BY <4>2 DEF s
    <3> QED BY <1>4, <3>2
  <2>6. Chain(pending', arrived') /\ Taken(pending', arrived') = last
    BY <1>1, <1>5, <2>1, <2>2 DEF Continues
  <2>7. pc' # "garbled"
    BY <1>4
  <2> QED BY <1>4, <2>1, <2>5, <2>6, <2>7 DEF Continues
<1> QED BY <1>4, <1>6, <1>7 DEF IInv

(* What is misread was overtaken.                                          *)
LEMMA MisreadKeeps ==
    ASSUME IInv, Misread
    PROVE  IInv'
<1>1. overtaken
  BY NextHead DEF IInv, Misread
<1>2. Types'
  BY DEF IInv, Types, Misread
<1>3. NothingStuck'
  BY DEF NothingStuck, Misread
<1> QED BY <1>1, <1>2, <1>3 DEF IInv, Misread

(* The RangeError leaves the buffer as it is.                              *)
LEMMA TooShortKeeps ==
    ASSUME IInv, NEW i \in FrameIds, TooShort(i)
    PROVE  IInv'
<1>1. Len(buffer) < realMessageLength(i)
  <2>1. Len(buffer) \in Nat /\ Len(buffer) < lengthField(i)
    BY DEF IInv, Types, TooShort
  <2>2. /\ realMessageLength(i) \in Nat /\ lengthField(i) \in {6, 8}
        /\ lengthField(i) <= realMessageLength(i)
    BY Constants
  <2> QED BY <2>1, <2>2
<1>2. Types'
  BY DEF IInv, Types, TooShort
<1>3. NothingStuck'
  BY <1>1, Unfinished DEF TooShort
<1>4. ~overtaken' => Continues'
  BY DEF IInv, Continues, TooShort
<1> QED BY <1>2, <1>3, <1>4 DEF IInv

(* The handler stops at a frame that is not complete.                      *)
LEMMA IncompleteKeeps ==
    ASSUME IInv, NEW i \in FrameIds, Incomplete(i)
    PROVE  IInv'
<1>1. Types'
  BY DEF IInv, Types, Incomplete
<1>2. NothingStuck'
  BY Unfinished DEF Incomplete
<1>3. ~overtaken' => Continues'
  BY DEF IInv, Continues, Incomplete
<1> QED BY <1>1, <1>2, <1>3 DEF IInv

(* A complete frame is delivered and leaves the buffer.                    *)
LEMMA ConsumeKeeps ==
    ASSUME IInv, NEW i \in FrameIds, Consume(i)
    PROVE  IInv'
<1> DEFINE m == realMessageLength(i)
<1>1. m \in Nat /\ m >= 6 /\ Len(buffer) \in Nat /\ m <= Len(buffer)
  BY Constants DEF IInv, Types, Consume
<1>2. buffer' = SubSeq(buffer, m + 1, Len(buffer)) /\ buffer \in Seq(Nat)
  BY DEF IInv, Types, Consume
<1>3. /\ pc = "loop" /\ HeadedBy(i) /\ UNCHANGED <<arrived, pending, overtaken>>
      /\ i \in Nat
  BY Constants DEF Consume, FrameIds
<1> HIDE DEF m
<1>4. /\ buffer' \in Seq(Nat) /\ Len(buffer') = Len(buffer) - m
      /\ \A j \in 1..(Len(buffer) - m) : buffer'[j] = buffer[m + j]
  <2>1. /\ SubSeq(buffer, m + 1, Len(buffer)) \in Seq(Nat)
        /\ Len(SubSeq(buffer, m + 1, Len(buffer))) = Len(buffer) - m
    BY <1>1, <1>2
  <2>2. \A j \in 1..(Len(buffer) - m) :
           SubSeq(buffer, m + 1, Len(buffer))[j] = buffer[m + j]
    BY <1>1, <1>2
  <2> QED BY <1>2, <2>1, <2>2
<1>5. ASSUME ~overtaken PROVE i = Len(delivered) + 1 /\ Types /\ Continues
  BY <1>3, <1>5, Headed DEF IInv
<1>6. CASE /\ ~Opens(buffer, i, m) /\ pc' = "garbled" /\ UNCHANGED <<delivered, outcome>>
  <2>1. overtaken
    <3> SUFFICES ASSUME ~overtaken PROVE Opens(buffer, i, m)
      BY <1>6
    <3>1. \A j \in 1..Len(buffer) : buffer[j] = Start[i] + j
      BY <1>5 DEF Continues, Follows
    <3> QED BY <1>1, <3>1 DEF Opens
  <2>2. Types'
    BY <1>3, <1>4, <1>6 DEF IInv, Types
  <2>3. NothingStuck'
    BY <1>6 DEF NothingStuck
  <2> QED BY <1>3, <2>1, <2>2, <2>3 DEF IInv
<1>7. CASE /\ Opens(buffer, i, m) /\ delivered' = Append(delivered, i)
           /\ \/ pc' = (IF Again(buffer') THEN "loop" ELSE "idle") /\ UNCHANGED outcome
              \/ HandlerThrows /\ pc' = "idle" /\ outcome' = "handler"
  <2>1. /\ pc' \in {"idle", "loop"}
        /\ pc' = "loop" => Len(buffer') >= 5
        /\ pc' = "idle" => Len(buffer') < 5 \/ outcome' = "handler"
    <3>1. CASE pc' = (IF Again(buffer') THEN "loop" ELSE "idle") /\ UNCHANGED outcome
      <4>1. Again(buffer') <=> Len(buffer') >= 5
        BY DEF Again
      <4>2. Len(buffer') \in Nat
        BY <1>4
      <4> QED BY <3>1, <4>1, <4>2
    <3>2. CASE pc' = "idle" /\ outcome' = "handler"
      BY <3>2
    <3> QED BY <1>7, <3>1, <3>2
  <2>2. /\ delivered' \in Seq(Nat) /\ Len(delivered') = Len(delivered) + 1
        /\ \A k \in 1..Len(delivered) : delivered'[k] = delivered[k]
        /\ delivered'[Len(delivered) + 1] = i /\ Len(delivered) \in Nat
    <3>1. delivered \in Seq(Nat)
      BY DEF IInv, Types
    <3> QED BY <1>3, <1>7, <3>1
  <2>3. Types'
    BY <1>3, <1>4, <2>1, <2>2 DEF IInv, Types
  <2>4. NothingStuck'
    <3> SUFFICES ASSUME Len(buffer') < 5, NEW k \in FrameIds,
                        Len(buffer') >= Start[k + 1] - Start[k]
                 PROVE  FALSE
      BY <2>1 DEF NothingStuck
    <3>1. Start[k] \in Nat
      BY Constants DEF FrameIds
    <3>2. Start[k + 1] = Start[k] + realMessageLength(k) /\ realMessageLength(k) \in Nat
          /\ realMessageLength(k) >= 6
      BY Constants
    <3>3. Len(buffer') \in Nat
      BY <1>4
    <3> QED BY <3>1, <3>2, <3>3
  <2>5. ASSUME ~overtaken' PROVE Continues'
    <3>1. i = Len(delivered) + 1 /\ Types /\ Continues
      BY <1>3, <1>5, <2>5
    <3>2. Start[i] \in Nat /\ Start[i + 1] = Start[i] + m
      BY Constants DEF FrameIds, m
    <3>3. Len(delivered') = i /\ Len(delivered') <= Len(Frames)
      BY <2>2, <3>1, Constants DEF FrameIds
    <3>4. Follows(buffer', Start[i + 1])
      <4> SUFFICES ASSUME NEW j \in 1..Len(buffer') PROVE buffer'[j] = Start[i + 1] + j
        BY DEF Follows
      <4>1. j \in 1..(Len(buffer) - m) /\ m + j \in 1..Len(buffer)
        BY <1>1, <1>4
      <4>2. buffer'[j] = buffer[m + j]
        BY <1>4, <4>1
      <4>3. buffer[m + j] = Start[i] + (m + j)
        BY <3>1, <4>1 DEF Continues, Follows
      <4> QED BY <1>1, <3>2, <4>1, <4>2, <4>3
    <3>5. Start[i + 1] + Len(buffer') = Start[i] + Len(buffer)
      BY <1>1, <1>4, <3>2
    <3>6. \A k \in 1..Len(delivered') : delivered'[k] = k
      <4> TAKE k \in 1..Len(delivered')
      <4>1. CASE k \in 1..Len(delivered)
        BY <2>2, <3>1, <4>1 DEF Continues
      <4>2. CASE k \notin 1..Len(delivered)
        <5>1. k = Len(delivered) + 1
          BY <2>2, <4>2
        <5> QED BY <2>2, <3>1, <5>1
      <4> QED BY <4>1, <4>2
    <3>7. Start[i] + Len(buffer) = Taken(pending, arrived) /\ Chain(pending, arrived)
      BY <3>1 DEF Continues
    <3>8. pc' # "garbled"
      BY <2>1
    <3> QED BY <1>3, <3>3, <3>4, <3>5, <3>6, <3>7, <3>8 DEF Continues
  <2> QED BY <2>3, <2>4, <2>5 DEF IInv
<1> QED BY <1>6, <1>7 DEF Consume, m

(* Every step keeps the invariant.                                         *)
LEMMA NextKeeps == IInv /\ [ChannelNext]_channelVars => IInv'
<1> SUFFICES ASSUME IInv, [ChannelNext]_channelVars PROVE IInv'
  OBVIOUS
<1>1. ASSUME NEW n \in 1..Total, OnMessage(n) PROVE IInv'
  BY <1>1, MessageKeeps
<1>2. ASSUME NEW j \in 1..Len(pending), BlobRead(j) PROVE IInv'
  BY <1>2, BlobKeeps
<1>3. CASE Misread
  BY <1>3, MisreadKeeps
<1>4. ASSUME NEW i \in FrameIds, TooShort(i) PROVE IInv'
  BY <1>4, TooShortKeeps
<1>5. ASSUME NEW i \in FrameIds, Incomplete(i) PROVE IInv'
  BY <1>5, IncompleteKeeps
<1>6. ASSUME NEW i \in FrameIds, Consume(i) PROVE IInv'
  BY <1>6, ConsumeKeeps
<1>7. CASE UNCHANGED channelVars
  BY <1>7 DEF channelVars, IInv, Types, NothingStuck, Continues, Opens
<1> QED BY <1>1, <1>2, <1>3, <1>4, <1>5, <1>6, <1>7 DEF ChannelNext

(* It is an invariant.                                                     *)
LEMMA Invariant == ChannelSpec => []IInv
<1> QED BY InitKeeps, NextKeeps, PTL DEF ChannelSpec

-----------------------------------------------------------------------------
(* The messages handed over are the frames the node sent, in order and     *)
(* none left out, however messageHandler's chunks cut them.                *)
THEOREM MessagesInOrder == ChannelSpec => []FramesInOrder
<1>1. IInv => FramesInOrder
  <2> SUFFICES ASSUME IInv, ~overtaken
               PROVE  /\ pc # "garbled"
                      /\ delivered = [k \in 1..Len(delivered) |-> k]
                      /\ \A j \in 1..Len(buffer) : buffer[j] = Start[Len(delivered) + 1] + j
    BY DEF FramesInOrder
  <2>1. Continues /\ delivered \in Seq(Nat)
    BY DEF IInv, Types
  <2>2. delivered = [k \in 1..Len(delivered) |-> k]
    BY <2>1 DEF Continues
  <2> QED BY <2>1, <2>2 DEF Continues, Follows
<1> QED BY <1>1, Invariant, PTL

(* messageHandler leaves no complete message behind in its buffer unless   *)
(* onMessage threw, read out of order or not.                              *)
THEOREM NoMessageStuck == ChannelSpec => []NothingStuck
<1>1. IInv => NothingStuck
  BY DEF IInv
<1> QED BY <1>1, Invariant, PTL
=============================================================================
