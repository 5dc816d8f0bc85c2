---------------------------- MODULE MessageManager ----------------------------
(***************************************************************************)
(* src/xch/providers/leaflet/message_manager.ts with the connection part   *)
(* of chia_message_channel.ts: the filters an application registers, the   *)
(* controller that keeps one channel to a node alive and sends every       *)
(* registered message again on each new channel, and the sockets.          *)
(* The operators before a definition whose names say what they drop or     *)
(* change are the faults the properties are tested against.                *)
(*                                                                         *)
(* JavaScript runs to the next await, so an action is the code between two *)
(* awaits.  The clock is abstract: "overdue" holds the filters for which   *)
(* lastMessageReceived + expectedMaxRensponseWait < now.                   *)
(***************************************************************************)
EXTENDS Integers

CONSTANTS
    Requests,      \* the filters the application may pass to registerFilter
    OneShot,       \* those with deleteAfterFirstMessageConsumed
    Sending,       \* those with a messageToSend
    Timed,         \* those with expectedMaxRensponseWait # 0
    Peak,          \* the filter initialize() pushes
    Msgs,          \* the messages the node can send
    Pushed,        \* those the node sends on its own (peaks, updates)
    Accepts,       \* Accepts[f]: the messages f's consumeMessage accepts
    Callback,      \* Callback[f]: the requests f's callback may register
    None,          \* a promise that is not resolved
    MaxInits,      \* bound: calls of initialize()
    MaxFaults,     \* bound: socket errors and timeouts
    MaxChannels,   \* bound: channels created
    Overlap,       \* may initialize() run while a controller is alive?
    MayThrow       \* may creating or connecting a channel throw?

Filters == Requests \cup {Peak}
Controllers == 1..MaxInits
Channels == 1..MaxChannels
NoChannel == 0

ASSUME SetsAssumption ==
    /\ Peak \notin Requests
    /\ OneShot \subseteq Requests
    /\ Sending \subseteq Requests
    /\ Timed \subseteq Filters /\ Peak \in Timed
    /\ Pushed \subseteq Msgs
    /\ None \notin Msgs

ASSUME FunctionsAssumption ==
    /\ Accepts \in [Filters -> SUBSET Msgs]
    /\ Callback \in [Filters -> SUBSET OneShot]
    /\ \A f \in OneShot : Callback[f] = {}

ASSUME BoundsAssumption ==
    /\ MaxInits \in Nat /\ MaxFaults \in Nat /\ MaxChannels \in Nat
    /\ Overlap \in BOOLEAN /\ MayThrow \in BOOLEAN

VARIABLES
    open,            \* MessageManager.open
    canSendMessage,  \* MessageManager._canSendMessage
    filters,         \* MessageManager._filters
    overdue,         \* the filters whose wait is over
    msgChannel,      \* MessageManager._msgChannel
    controller,      \* where each call of _controllerFunction stands
    awaited,         \* the channel whose connect() a controller awaits
    created,         \* number of channels created
    socket,          \* the WebSocket of each channel
    wire,            \* messages of the node not yet handled, per channel
    answer,          \* what registerFilter's promise was resolved with
    rejected,        \* the requests whose promise was rejected
    sent,            \* the requests transmitted over each channel
    resent,          \* those transmitted more than once over one channel
    faults           \* number of socket errors and timeouts so far

link == <<msgChannel, created, socket>>
promises == <<answer, rejected>>
history == <<sent, resent>>
vars == <<open, canSendMessage, filters, overdue, msgChannel, controller, awaited,
          created, socket, wire, answer, rejected, sent, resent, faults>>

(* "restarting" covers the backoff sleep and the await of                  *)
(* createMessageChannel: nothing but the position changes between them.    *)
Live == {"restarting", "connecting", "sleeping"}

TypeOK ==
    /\ open \in BOOLEAN
    /\ canSendMessage \in BOOLEAN
    /\ filters \subseteq Filters
    /\ overdue \subseteq filters \cap Timed
    /\ created \in 0..MaxChannels
    /\ msgChannel \in 0..created
    /\ controller \in [Controllers -> Live \cup {"off", "done", "failed"}]
    /\ awaited \in [Controllers -> 0..created]
    /\ socket \in [0..MaxChannels -> {"none", "connecting", "open", "closed"}]
    /\ wire \in [Channels -> SUBSET Msgs]
    /\ answer \in [Requests -> Msgs \cup {None}]
    /\ rejected \subseteq Requests
    /\ sent \in [0..MaxChannels -> SUBSET Requests]
    /\ resent \subseteq Requests
    /\ faults \in 0..MaxFaults

Init ==
    /\ open = FALSE
    /\ canSendMessage = FALSE
    /\ filters = {}
    /\ overdue = {}
    /\ msgChannel = NoChannel
    /\ controller = [k \in Controllers |-> "off"]
    /\ awaited = [k \in Controllers |-> NoChannel]
    /\ created = 0
    /\ socket = [c \in 0..MaxChannels |-> "none"]
    /\ wire = [c \in Channels |-> {}]
    /\ answer = [f \in Requests |-> None]
    /\ rejected = {}
    /\ sent = [c \in 0..MaxChannels |-> {}]
    /\ resent = {}
    /\ faults = 0

-----------------------------------------------------------------------------
(* ChiaMessageChannel.isConnected of the current channel.                  *)
isConnected == socket[msgChannel] = "open"

(* sendMessage for the requests of S over the current channel.  A closed   *)
(* or missing socket drops the message without a word.                     *)
SendAll(S) ==
    IF isConnected
    THEN /\ sent' = [sent EXCEPT ![msgChannel] = @ \cup S]
         /\ resent' = resent \cup (S \cap sent[msgChannel])
    ELSE UNCHANGED history

(* A request that was never registered.                                    *)
Fresh(f) == f \in Requests \ (filters \cup rejected) /\ answer[f] = None

(* The tail of registerFilter for the requests of S, which are pushed by   *)
(* the caller: WebSocket.send throws while the socket is connecting, which *)
(* rejects the promise and leaves the filter registered.                   *)
SendAlways(S) ==
    LET now == S \cap Sending
    IN  /\ SendAll(now)
        /\ rejected' = rejected \cup (IF socket[msgChannel] = "connecting" THEN now ELSE {})
SendIfConnected(S) ==
    LET now == IF isConnected THEN S \cap Sending ELSE {}
    IN  SendAll(now) /\ UNCHANGED rejected
SendIfPossible(S) ==
    LET now == IF canSendMessage THEN S \cap Sending ELSE {}
    IN  /\ SendAll(now)
        /\ rejected' = rejected \cup (IF socket[msgChannel] = "connecting" THEN now ELSE {})

RegisterFilter(f) ==
    /\ Fresh(f)
    /\ filters' = filters \cup {f}
    /\ SendIfPossible({f})
    /\ UNCHANGED <<open, canSendMessage, overdue, link, controller, awaited, wire,
                   answer, faults>>

(* initialize(): lastMessageReceived is 0, so the new filter is overdue;   *)
(* the controller runs up to its first await without the backoff.          *)
Initialize(k) ==
    /\ controller[k] = "off"
    /\ Overlap \/ \A j \in Controllers : controller[j] \notin Live
    /\ \A j \in Controllers : j < k => controller[j] # "off"
    /\ filters' = filters \cup {Peak}
    /\ overdue' = overdue \cup {Peak}
    /\ canSendMessage' = FALSE
    /\ open' = TRUE
    /\ controller' = [controller EXCEPT ![k] = "restarting"]
    /\ UNCHANGED <<link, awaited, wire, promises, history, faults>>

(* close(), up to the await of the controller.                             *)
Close ==
    /\ open
    /\ open' = FALSE
    /\ UNCHANGED <<canSendMessage, filters, overdue, link, controller, awaited, wire,
                   promises, history, faults>>

-----------------------------------------------------------------------------
(* The controller.  NextRound is the code from the loop's test to its next *)
(* await or its end, once canSendMessage is cs and od the overdue filters. *)

RestartIgnoresSocket(cs, od) == ~cs \/ od # {}
restart(cs, od) == ~cs \/ ~isConnected \/ od # {}

EndLoopKeepsChannel(k, cs) ==
    /\ controller' = [controller EXCEPT ![k] = "done"]
    /\ canSendMessage' = cs
    /\ UNCHANGED socket
EndLoop(k, cs) ==
    /\ controller' = [controller EXCEPT ![k] = "done"]
    /\ canSendMessage' = cs
    /\ socket' = [socket EXCEPT ![msgChannel] = IF @ = "none" THEN @ ELSE "closed"]

BackoffGivesUp(k) ==
    /\ controller' = [controller EXCEPT ![k] = "done"]
    /\ canSendMessage' = FALSE
    /\ UNCHANGED socket
Backoff(k) ==
    /\ controller' = [controller EXCEPT ![k] = "restarting"]
    /\ canSendMessage' = FALSE
    /\ UNCHANGED socket

Sleep(k, cs) ==
    /\ controller' = [controller EXCEPT ![k] = "sleeping"]
    /\ canSendMessage' = cs
    /\ UNCHANGED socket

NextRoundForever(k, cs, od) ==
    \/ restart(cs, od) /\ Backoff(k)
    \/ ~restart(cs, od) /\ Sleep(k, cs)
NextRound(k, cs, od) ==
    \/ ~open /\ EndLoop(k, cs)
    \/ open /\ restart(cs, od) /\ Backoff(k)
    \/ open /\ ~restart(cs, od) /\ Sleep(k, cs)

(* The new channel replaces the old one, which is not closed, and starts   *)
(* to connect.                                                             *)
CreateChannel(k) ==
    /\ controller[k] = "restarting"
    /\ created < MaxChannels
    /\ created' = created + 1
    /\ msgChannel' = created + 1
    /\ awaited' = [awaited EXCEPT ![k] = created + 1]
    /\ socket' = [socket EXCEPT ![created + 1] = "connecting"]
    /\ controller' = [controller EXCEPT ![k] = "connecting"]
    /\ UNCHANGED <<open, canSendMessage, filters, overdue, wire, promises, history, faults>>

(* createMessageChannel throws: the controller's promise is rejected.      *)
CreateThrows(k) ==
    /\ MayThrow
    /\ controller[k] = "restarting"
    /\ controller' = [controller EXCEPT ![k] = "failed"]
    /\ UNCHANGED <<open, canSendMessage, filters, overdue, link, awaited, wire,
                   promises, history, faults>>

(* The channel is assigned, then webSocketCreateFunc throws.               *)
ConnectThrows(k) ==
    /\ MayThrow
    /\ controller[k] = "restarting"
    /\ created < MaxChannels
    /\ created' = created + 1
    /\ msgChannel' = created + 1
    /\ controller' = [controller EXCEPT ![k] = "failed"]
    /\ UNCHANGED <<open, canSendMessage, filters, overdue, awaited, socket, wire,
                   promises, history, faults>>

(* connect() has settled: the loop that sends every filter's message and   *)
(* restarts its wait, then the next round, which finds nothing overdue or  *)
(* no connection.  isConnected is asked of the current channel, which      *)
(* another controller may have replaced.                                   *)
ConnectedSendsAll(k) ==
    /\ controller[k] = "connecting"
    /\ socket[awaited[k]] # "connecting"
    /\ overdue' = IF isConnected THEN {} ELSE overdue
    /\ SendAll(filters)
    /\ NextRound(k, isConnected, {})
    /\ UNCHANGED <<open, filters, msgChannel, awaited, created, wire, promises, faults>>
ConnectedForgets(k) ==
    /\ controller[k] = "connecting"
    /\ socket[awaited[k]] # "connecting"
    /\ overdue' = IF isConnected THEN {} ELSE overdue
    /\ NextRound(k, isConnected, {})
    /\ UNCHANGED <<open, filters, msgChannel, awaited, created, wire, promises, history, faults>>
Connected(k) ==
    /\ controller[k] = "connecting"
    /\ socket[awaited[k]] # "connecting"
    /\ overdue' = IF isConnected THEN {} ELSE overdue
    /\ SendAll(filters \cap Sending)
    /\ NextRound(k, isConnected, {})
    /\ UNCHANGED <<open, filters, msgChannel, awaited, created, wire, promises, faults>>

(* The sleep between two checks ends.                                      *)
Check(k) ==
    /\ controller[k] = "sleeping"
    /\ NextRound(k, canSendMessage, overdue)
    /\ UNCHANGED <<open, filters, overdue, msgChannel, awaited, created, wire,
                   promises, history, faults>>

-----------------------------------------------------------------------------
(* The filters of fs whose consumeMessage returns true.                    *)
SubscriberTakesAll(fs, m) ==
    LET all == {f \in fs : m \in Accepts[f]}
    IN  IF all \subseteq OneShot THEN all ELSE all \ OneShot
Consumers(fs, m) == {f \in fs : m \in Accepts[f]}

(* _handleMessage: every filter is offered the message, those that its own *)
(* callbacks register during the loop included (registered).               *)
HandleMessage(c, m) ==
    /\ m \in wire[c]
    /\ wire' = [wire EXCEPT ![c] = @ \ {m}]
    /\ LET callable == UNION {Callback[f] : f \in Consumers(filters, m)}
       IN  \E registered \in SUBSET {f \in callable : Fresh(f)} :
             LET consumers == Consumers(filters \cup registered, m)
             IN  /\ SendIfPossible(registered)
                 /\ filters' = (filters \cup registered) \ (consumers \cap OneShot)
                 /\ overdue' = overdue \ consumers
                 /\ answer' = [f \in Requests |->
                                 IF f \in consumers \ rejected' /\ answer[f] = None
                                 THEN m ELSE answer[f]]
    /\ UNCHANGED <<open, canSendMessage, link, controller, awaited, faults>>

(* A filter's wait runs out before a message for it arrives.               *)
Expire(f) ==
    /\ f \in (filters \cap Timed) \ overdue
    /\ faults < MaxFaults
    /\ faults' = faults + 1
    /\ overdue' = overdue \cup {f}
    /\ UNCHANGED <<open, canSendMessage, filters, link, controller, awaited, wire,
                   promises, history>>

-----------------------------------------------------------------------------
(* The sockets and the node, as the code uses them.                        *)

SocketOpens(c) ==
    /\ socket[c] = "connecting"
    /\ socket' = [socket EXCEPT ![c] = "open"]
    /\ UNCHANGED <<open, canSendMessage, filters, overdue, msgChannel, controller, awaited,
                   created, wire, promises, history, faults>>

(* onerror before or after the socket opened, or the node hangs up.        *)
SocketFails(c) ==
    /\ socket[c] \in {"connecting", "open"}
    /\ faults < MaxFaults
    /\ faults' = faults + 1
    /\ socket' = [socket EXCEPT ![c] = "closed"]
    /\ UNCHANGED <<open, canSendMessage, filters, overdue, msgChannel, controller, awaited,
                   created, wire, promises, history>>

(* The node answers a request it received, or sends on its own.            *)
Arrives(c, m) ==
    /\ socket[c] = "open"
    /\ m \notin wire[c]
    /\ m \in Pushed \/ \E f \in sent[c] : m \in Accepts[f]
    /\ wire' = [wire EXCEPT ![c] = @ \cup {m}]
    /\ UNCHANGED <<open, canSendMessage, filters, overdue, link, controller, awaited,
                   promises, history, faults>>

(* What a closed socket had not delivered may never be.                    *)
Lose(c, m) ==
    /\ socket[c] = "closed"
    /\ m \in wire[c]
    /\ wire' = [wire EXCEPT ![c] = @ \ {m}]
    /\ UNCHANGED <<open, canSendMessage, filters, overdue, link, controller, awaited,
                   promises, history, faults>>

-----------------------------------------------------------------------------
ControllerStep(k) ==
    CreateChannel(k) \/ CreateThrows(k) \/ ConnectThrows(k) \/ Connected(k) \/ Check(k)

Next ==
    \/ \E f \in Requests : RegisterFilter(f)
    \/ \E f \in Filters : Expire(f)
    \/ \E k \in Controllers : Initialize(k)
    \/ Close
    \/ \E k \in Controllers : ControllerStep(k)
    \/ \E c \in Channels : SocketOpens(c) \/ SocketFails(c)
    \/ \E c \in Channels, m \in Msgs : HandleMessage(c, m) \/ Arrives(c, m) \/ Lose(c, m)

Spec == Init /\ [][Next]_vars

(* Timers fire and promises settle (the event loop), a socket that is      *)
(* connecting opens or fails, the node answers what it received, and what  *)
(* arrived is handled.  Nothing is assumed of the application.             *)
Fairness ==
    /\ \A k \in Controllers : WF_vars(ControllerStep(k))
    /\ \A c \in Channels : WF_vars(SocketOpens(c) \/ (socket[c] = "connecting" /\ SocketFails(c)))
    /\ \A c \in Channels, m \in Msgs : WF_vars(Arrives(c, m)) /\ WF_vars(HandleMessage(c, m))

FairSpec == Spec /\ Fairness
-----------------------------------------------------------------------------
(* Properties. *)

Alive(k) == controller[k] \in Live
AllEnded == \A k \in Controllers : controller[k] \in {"off", "done"}

(* Once the manager may send and the socket is up, every registered        *)
(* message has been transmitted over that very socket: neither a request   *)
(* made while the link was being rebuilt nor one made over a dead socket   *)
(* is forgotten by the resend loop.                                        *)
SentWhenLinkUp ==
    canSendMessage /\ isConnected => filters \cap Sending \subseteq sent[msgChannel]

(* registerFilter and the resend loop never both transmit a request over   *)
(* one channel, so only a new link repeats a message (a transaction).      *)
SentOncePerChannel == resent = {}

(* registerFilter never sends over a connecting socket, where send throws  *)
(* and the promise is rejected.                                            *)
NoRejectedRequest == rejected = {}

(* Why the three hold when initialize() is not called while a controller   *)
(* is alive.  One controller at a time; from the moment it decides to      *)
(* restart until connect() has settled nothing is sent, so the channel it  *)
(* waits for has carried nothing; and what a channel carried was           *)
(* registered before.                                                      *)
OneController == \A j, k \in Controllers : Alive(j) /\ Alive(k) => j = k
RestartMutesSending ==
    \A k \in Controllers : controller[k] \in {"restarting", "connecting"} => ~canSendMessage
NewLinkIsClean ==
    \A k \in Controllers : controller[k] = "connecting" =>
        awaited[k] = msgChannel /\ sent[msgChannel] = {}
SenderHasSocket == canSendMessage => socket[msgChannel] \in {"open", "closed"}
UnusedIsClean ==
    \A c \in 0..MaxChannels : c = NoChannel \/ c > created => socket[c] = "none" /\ sent[c] = {}
SentWasRegistered == \A c \in 0..MaxChannels : \A f \in sent[c] : ~Fresh(f)
LinkInv ==
    /\ OneController
    /\ RestartMutesSending
    /\ NewLinkIsClean
    /\ SenderHasSocket
    /\ UnusedIsClean
    /\ SentWasRegistered
    /\ SentWhenLinkUp
    /\ SentOncePerChannel
    /\ NoRejectedRequest

(* While the manager is open some controller keeps the link, unless one    *)
(* died by an exception, whatever the order of close() and initialize().   *)
OpenIsDriven == open => \E k \in Controllers : Alive(k) \/ controller[k] = "failed"

(* When the controllers have ended, the last channel is closed: a close()  *)
(* that comes while the link is rebuilt leaves no current link behind.     *)
EndedLinkIsDown == AllEnded => socket[msgChannel] \in {"none", "closed"}

(* The manager implements RequestService: each message is offered to every *)
(* registered request, none is offered twice once settled, a restart loses *)
(* no request, and a subscription is never dropped.                        *)
Service == INSTANCE RequestService WITH
    waiting <- filters \ {Peak},
    asked <- {f \in Requests : ~Fresh(f)},
    Accepts <- [f \in Requests |-> Accepts[f]]
ImplementsRequestService == Service!Spec

(* A one-shot request with a message gets its answer if the manager stays  *)
(* open, through socket failures and timeouts.                             *)
RequestsAreAnswered ==
    \A f \in OneShot \cap Sending : f \in filters /\ open ~> f \notin filters \/ ~open

(* close() settles: the controller it awaits ends, unless the application  *)
(* opens the manager again meanwhile.                                      *)
CloseEnds == ~open ~> open \/ \A k \in Controllers : ~Alive(k)

(* "Tells a given provider to close the connection"                        *)
(* (docs/xch/provider.md:191): after close() has settled no socket of this *)
(* manager is left.                                                        *)
ClosedMeansNoSocket ==
    AllEnded => \A c \in Channels : socket[c] \in {"none", "closed"}
=============================================================================
