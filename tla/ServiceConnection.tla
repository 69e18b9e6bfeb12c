-------------------------- MODULE ServiceConnection --------------------------
(***************************************************************************)
(* From a main channel to a service call: ServiceConnectionProvider        *)
(* (browser/messaging/service-connection-provider.ts) opens one channel    *)
(* per service path on the current main channel, RpcProxyFactory           *)
(* (common/messaging/proxy-factory.ts) puts the calls of a path's proxy on *)
(* the protocol of that channel, and DefaultMessagingService               *)
(* (node/messaging/default-messaging-service.ts) connects an opened        *)
(* channel to the handler of its path.                                     *)
(*                                                                         *)
(* Main channels come and go as MainChannel says, sometimes several in one *)
(* turn.  What ChannelMultiplexer and RpcProtocol do in detail is here     *)
(* what they come to for one path: an open request and its answer, a       *)
(* request and its reply.  A promise's continuations run before the next   *)
(* event, so resolving one and what its waiters then do is one step.       *)
(***************************************************************************)
EXTENDS Naturals, Sequences, FiniteSets, SequencesExt

CONSTANTS
    Paths,          \* service paths
    Handled,        \* the paths a connection handler of the back end serves
    Calls,          \* calls of proxies
    PathOf,         \* the path of a call's proxy
    MaxChannels,    \* bound: main channels the page ever gets
    MaxLosses       \* bound: messages that the connection loses

ASSUME ServiceAssumption ==
    /\ IsFiniteSet(Paths) /\ IsFiniteSet(Calls)
    /\ Handled \subseteq Paths
    /\ PathOf \in [Calls -> Paths]
    /\ MaxChannels \in Nat \ {0}
    /\ MaxLosses \in Nat

ToServer == [type : {"open"}, path : Paths] \cup [type : {"request"}, call : Calls]
ToClient == [type : {"ack"}, path : Paths] \cup [type : {"reply"}, call : Calls]

VARIABLES
    \* the page
    channel, told,  \* the main channel, as in MainChannel
    listening,      \* per path: "idle", or what listen() waits for, or "done"
    registered,     \* channelHandlers: paths to open again on a new main channel
    pendingOpen,    \* the current multiplexer's pendingOpen
    openChannels,   \* the current multiplexer's openChannels
    proxy,          \* per path: main channel of the protocol rpcDeferred has, or 0
    call,           \* per call: its promise
    \* the current main channel
    toServer, toClient,
    losses,
    \* the back end's context for it
    context,        \* does it still exist?
    served,         \* open channels of its multiplexer
    running         \* calls whose handler runs

page == <<channel, told, listening, registered, pendingOpen, openChannels, proxy, call>>
link == <<toServer, toClient, losses>>
backend == <<context, served, running>>
vars == <<page, link, backend>>

Main == INSTANCE MainChannel

TypeOK ==
    /\ channel \in 0 .. MaxChannels
    /\ {told, context} \subseteq BOOLEAN
    /\ listening \in [Paths -> {"idle", "channelReady", "open", "done"}]
    /\ registered \subseteq Paths
    /\ pendingOpen \subseteq Paths
    /\ openChannels \subseteq Paths
    /\ proxy \in [Paths -> 0 .. MaxChannels]
    /\ call \in [Calls -> {"idle", "waiting", "sent", "resolved", "rejected"}]
    /\ toServer \in Seq(ToServer)
    /\ toClient \in Seq(ToClient)
    /\ losses \in 0 .. MaxLosses
    /\ served \subseteq Paths
    /\ running \subseteq Calls

Init ==
    /\ Main!Init
    /\ listening = [p \in Paths |-> "idle"]
    /\ registered = {}
    /\ pendingOpen = {}
    /\ openChannels = {}
    /\ proxy = [p \in Paths |-> 0]
    /\ call = [c \in Calls |-> "idle"]
    /\ toServer = <<>>
    /\ toClient = <<>>
    /\ losses = 0
    /\ context = FALSE
    /\ served = {}
    /\ running = {}

-------------------------------------------------------------------------------
(***************************************************************************)
(* The page.                                                               *)
(***************************************************************************)
OpenRequest(p) == [type |-> "open", path |-> p]
Ack(p) == [type |-> "ack", path |-> p]

\* Mutant: a request goes out as a reply.
RequestAsReply(c) == [type |-> "reply", call |-> c]

Request(c) == [type |-> "request", call |-> c]

\* What the page writes reaches the back end only while it keeps the context.
Written(packets) == IF context THEN toServer \o packets ELSE toServer

HasMainChannel == channel # 0 /\ ~told

\* createProxy(path): listen() and its openChannel(), up to the first await that
\* has to wait; the handler is kept once the path's first channel is open.
Listen(p) ==
    /\ listening[p] = "idle"
    /\ \/ /\ HasMainChannel
          /\ listening' = [listening EXCEPT ![p] = "open"]
          /\ pendingOpen' = pendingOpen \cup {p}
          /\ toServer' = Written(<<OpenRequest(p)>>)
       \/ /\ ~HasMainChannel
          /\ listening' = [listening EXCEPT ![p] = "channelReady"]
          /\ UNCHANGED <<pendingOpen, toServer>>
    /\ UNCHANGED <<channel, told, registered, openChannels, proxy, call, toClient, losses,
                   backend>>

Waiting == {p \in Paths : listening[p] = "channelReady"}

\* Mutant: only the waiting calls of listen() are served.
OpenCallsOfListen(k) == {1} \X Waiting

\* The calls of open() in a turn that announces k main channels, with the number
\* of the run of handleChannelCreated they come from.  All are continuations of
\* channelReady and so meet the multiplexer of the last run; the waiting calls
\* of listen() are continued once.
OpenCalls(k) == ({1} \X Waiting) \cup ((1 .. k) \X registered)

\* Mutant: open() does not look at the pending opens.
NeverThrows(open, opens) == FALSE

\* open() throws if the path is pending or open, in a promise nobody looks at.
Throws(open, opens) == \E other \in opens : other[1] < open[1] /\ other[2] = open[2]

\* handleChannelCreated, run once for each of the k channels: both sides have a
\* new multiplexer.
MainChannelOpens(k) ==
    LET sending == SetToSeq({open \in OpenCalls(k) : ~Throws(open, OpenCalls(k))})
    IN  /\ channel' = channel + k
        /\ Main!Open
        /\ context' = TRUE
        /\ served' = {}
        /\ running' = {}
        /\ listening' = [p \in Paths |-> IF p \in Waiting THEN "open" ELSE listening[p]]
        /\ pendingOpen' = {open[2] : open \in OpenCalls(k)}
        /\ openChannels' = {}
        /\ toServer' = [i \in DOMAIN sending |-> OpenRequest(sending[i][2])]
        /\ toClient' = <<>>
        /\ UNCHANGED <<registered, proxy, call, losses>>

\* (Bound: main channels are left.)
MainChannelsOpen == \E k \in 1 .. MaxChannels - channel : MainChannelOpens(k)

\* Mutant: the factory goes on with the protocol of the closed channel.
KeptProtocols == proxy

\* waitForConnection() of the factories whose protocol's channel closes.
WaitForConnection == [p \in Paths |-> IF p \in openChannels THEN 0 ELSE proxy[p]]

\* The main channel's onClose: handleChannelClosed, then the multiplexer forgets
\* the pending opens and closes its channels, whose protocols reject their
\* requests (bound: another main channel is left).
MainChannelCloses ==
    /\ Main!Close
    /\ ~context
    /\ pendingOpen' = {}
    /\ openChannels' = {}
    /\ call' = [c \in Calls |-> IF call[c] = "sent" /\ PathOf[c] \in openChannels
                                THEN "rejected" ELSE call[c]]
    /\ proxy' = WaitForConnection
    /\ UNCHANGED <<listening, registered, link, backend>>

WaitingCalls(p) == {c \in Calls : PathOf[c] = p /\ call[c] = "waiting"}

\* handleAckOpen, and the continuations of open(): the handler, factory.listen(),
\* the calls that wait for the protocol, and listen()'s registration.
HandleAckOpen(p) ==
    /\ toClient # <<>> /\ Head(toClient) = Ack(p)
    /\ HasMainChannel
    /\ toClient' = Tail(toClient)
    /\ IF p \in pendingOpen
       THEN /\ pendingOpen' = pendingOpen \ {p}
            /\ openChannels' = openChannels \cup {p}
            /\ proxy' = [proxy EXCEPT ![p] = IF @ = 0 THEN channel ELSE @]
            /\ call' = [c \in Calls |-> IF c \in WaitingCalls(p) THEN "sent" ELSE call[c]]
            /\ toServer' = Written(LET s == SetToSeq(WaitingCalls(p))
                                   IN  [i \in DOMAIN s |-> Request(s[i])])
            /\ registered' = registered \cup {p}
            /\ listening' = [listening EXCEPT ![p] = "done"]
       ELSE UNCHANGED <<pendingOpen, openChannels, proxy, call, toServer, registered, listening>>
    /\ UNCHANGED <<channel, told, losses, backend>>

\* A method of the proxy is called; the request is sent in a continuation of
\* rpcDeferred's promise.
Call(c) ==
    /\ call[c] = "idle"
    /\ listening[PathOf[c]] # "idle"
    /\ IF proxy[PathOf[c]] = 0
       THEN /\ call' = [call EXCEPT ![c] = "waiting"]
            /\ UNCHANGED toServer
       ELSE /\ call' = [call EXCEPT ![c] = "sent"]
            /\ toServer' = IF HasMainChannel /\ proxy[PathOf[c]] = channel
                           THEN Written(<<Request(c)>>) ELSE toServer
    /\ UNCHANGED <<channel, told, listening, registered, pendingOpen, openChannels, proxy,
                   toClient, losses, backend>>

HandleReply(c) ==
    /\ toClient # <<>> /\ Head(toClient) = [type |-> "reply", call |-> c]
    /\ HasMainChannel
    /\ toClient' = Tail(toClient)
    /\ call' = [call EXCEPT ![c] = IF @ = "sent" /\ PathOf[c] \in openChannels THEN "resolved" ELSE @]
    /\ UNCHANGED <<channel, told, listening, registered, pendingOpen, openChannels, proxy,
                   toServer, losses, backend>>

-------------------------------------------------------------------------------
(***************************************************************************)
(* The back end and the connection between the two.                        *)
(***************************************************************************)

\* handleOpen, and getConnectionChannelHandlers' route, which finds a handler or
\* does not.
HandleOpen(p) ==
    /\ toServer # <<>> /\ Head(toServer) = OpenRequest(p)
    /\ toServer' = Tail(toServer)
    /\ IF p \in served
       THEN UNCHANGED <<served, toClient>>
       ELSE /\ served' = served \cup {p}
            /\ toClient' = Append(toClient, Ack(p))
    /\ UNCHANGED <<page, losses, context, running>>

\* A request meets a protocol if its path's channel was routed to a handler.
HasHandler(p) == p \in served \cap Handled

HandleRequest(c) ==
    /\ toServer # <<>> /\ Head(toServer) = Request(c)
    /\ toServer' = Tail(toServer)
    /\ running' = IF HasHandler(PathOf[c]) THEN running \cup {c} ELSE running
    /\ UNCHANGED <<page, toClient, losses, context, served>>

HandlerEnds(c) ==
    /\ c \in running
    /\ running' = running \ {c}
    /\ toClient' = Append(toClient, [type |-> "reply", call |-> c])
    /\ UNCHANGED <<page, toServer, losses, context, served>>

\* The back end discards the context (a close timeout, a restart): what is on
\* its way is gone (bound: another main channel is left).
DiscardContext ==
    /\ context
    /\ channel < MaxChannels
    /\ context' = FALSE
    /\ served' = {}
    /\ running' = {}
    /\ toServer' = <<>>
    /\ toClient' = <<>>
    /\ UNCHANGED <<page, losses>>

\* A message is lost with the session that carried it.
Lose ==
    /\ losses < MaxLosses
    /\ losses' = losses + 1
    /\ \/ \E i \in DOMAIN toServer : toServer' = RemoveAt(toServer, i) /\ UNCHANGED toClient
       \/ \E i \in DOMAIN toClient : toClient' = RemoveAt(toClient, i) /\ UNCHANGED toServer
    /\ UNCHANGED <<page, backend>>

-------------------------------------------------------------------------------
Deliver ==
    \/ \E p \in Paths : HandleAckOpen(p) \/ HandleOpen(p)
    \/ \E c \in Calls : HandleReply(c) \/ HandleRequest(c)

Next ==
    \/ \E p \in Paths : Listen(p)
    \/ MainChannelsOpen \/ MainChannelCloses
    \/ Deliver
    \/ \E c \in Calls : Call(c) \/ HandlerEnds(c)
    \/ DiscardContext \/ Lose

Spec == Init /\ [][Next]_vars

\* What arrives is handled and handlers end; and the connection layer brings a
\* main channel, announces the end of one whose context is gone and replaces it
\* (FrontendConnection!FrontEndSettlesOrIsStranded).
FairSpec ==
    /\ Spec
    /\ WF_vars(Deliver)
    /\ WF_vars(MainChannelsOpen)
    /\ WF_vars(MainChannelCloses)
    /\ \A c \in Calls : WF_vars(HandlerEnds(c))

-------------------------------------------------------------------------------
(***************************************************************************)
(* Properties.                                                             *)
(***************************************************************************)

\* A proxy has a protocol exactly while its path's channel is open, and it is
\* the protocol of the current main channel: no call goes out on a channel that
\* is gone, and none waits although there is a channel.  A new protocol that
\* arrives while the deferred still has the old one would be lost (resolving a
\* promise twice does nothing), so this leans on MainChannel's promise.
ProxyFollowsConnection ==
    \A p \in Paths : proxy[p] = IF p \in openChannels THEN channel ELSE 0

\* Every path a listener is kept for is connected to each main channel, in one
\* attempt: nobody goes on waiting for a main channel, the path is open or about
\* to be, its open request travels once and meets a channel that is not open yet,
\* and while no message is lost a pending open has its request or its answer on
\* the way.  That some calls of open() throw when a turn announces several
\* channels, where nobody catches, does no harm to the path they were for.
EachPathIsOpenedOnce ==
    HasMainChannel => \A p \in Paths :
        /\ listening[p] # "channelReady"
        /\ listening[p] = "done" => p \in pendingOpen \cup openChannels
        /\ \A i, j \in DOMAIN toServer : toServer[i] = OpenRequest(p) =>
              p \notin served /\ (toServer[j] = toServer[i] => i = j)
        /\ (p \in pendingOpen /\ context /\ losses = 0) =>
              \/ \E i \in DOMAIN toServer : toServer[i] = OpenRequest(p)
              \/ \E i \in DOMAIN toClient : toClient[i] = Ack(p)

\* The open request of listen() was pending when the main channel closed: its
\* promise never settles and its path is never registered.
Forgotten(p) == listening[p] = "open" /\ p \notin pendingOpen

\* "Wait for connection in case the backend reconnects" (proxy-factory.ts:131):
\* if no message is lost, a path that was listened to is connected once main
\* channels stop changing, unless listen() was overtaken by the end of one.
PathsReconnect ==
    \A p \in Paths :
        (listening[p] # "idle" /\ losses = 0) ~> (losses > 0 \/ Forgotten(p) \/ p \in openChannels)

\* If no message is lost, a call of a service that the back end handles settles,
\* whatever main channels it waits for or loses, unless its path is forgotten.
CallsSettle ==
    \A c \in Calls :
        (call[c] # "idle" /\ PathOf[c] \in Handled)
            ~> (call[c] \in {"resolved", "rejected"} \/ losses > 0 \/ Forgotten(PathOf[c]))

==============================================================================
