-------------------------- MODULE FrontendConnection --------------------------
(***************************************************************************)
(* The connection between one front end and its back end: the client side  *)
(* (WebSocketConnectionSource, browser/messaging/ws-connection-source.ts), *)
(* the server side (WebsocketFrontendConnectionService and its             *)
(* ReconnectableSocketChannel, node/messaging/                             *)
(* websocket-frontend-connection-service.ts) and the SocketWriteBuffer     *)
(* both use while no socket is connected.                                  *)
(*                                                                         *)
(* Every time the client's socket.io socket connects, the server sees a    *)
(* new socket: a session, numbered in the order of connection.  A session  *)
(* carries one FIFO stream in each direction until it ends; each side      *)
(* notices the end on its own, at a moment of its own.                     *)
(*                                                                         *)
(* A connection context is named after the session on which it was created *)
(* (0 is "no context"): the front end's current channel and the back end's *)
(* channel of the same context carry the same number.  One front end id is *)
(* modelled; the service keeps separate entries for separate ids.          *)
(***************************************************************************)
EXTENDS Naturals, Sequences, FiniteSets, SequencesExt

CONSTANTS
    MaxSessions,        \* bound: sockets the server ever accepts from this front end
    MaxBreaks,          \* bound: sessions lost to the network
    MaxReloads,         \* bound: reloads of the page by its user
    MaxWrites,          \* bound: messages each side writes, per configuration
    BufferCapacity,     \* messages a SocketWriteBuffer holds (100 KiB in the code)
    Configurations,     \* the configurations an application may have
    LateDisconnect      \* may a new socket connect before the server saw the old one go?

ASSUME BoundsAssumption ==
    /\ MaxSessions \in Nat \ {0}
    /\ {MaxBreaks, MaxReloads, BufferCapacity} \subseteq Nat

\* An application's configuration: frontendConnectionTimeout is zero, a finite
\* time or negative; reloadOnReconnect; whether a reloaded page has the front
\* end id of the page before (Electron's window id) or one of its own (a uuid);
\* and whether a contributed validator takes so long to admit a socket that its
\* first packets arrive meanwhile.
Configuration == [connectionTimeout : {"zero", "finite", "never"},
                  reloadOnReconnect : BOOLEAN,
                  sameIdOnReload : BOOLEAN,
                  slowValidators : BOOLEAN]

ASSUME ConfigurationAssumption ==
    /\ Configurations \subseteq Configuration
    /\ MaxWrites \in [Configurations -> Nat]
    /\ LateDisconnect \in BOOLEAN

Sessions == 1 .. MaxSessions
Contexts == Sessions
NoContext == 0
NoSession == 0

\* A committed message: the context of the channel it was written to and its
\* number; number 0 is the call markForClose(frontEndId).  It is late if its
\* channel had been closed or replaced by then: a handler that outlives its
\* channel still commits its reply.
Item == [ctx : Contexts, n : Nat, late : BOOLEAN]
MarkForClose == 0

\* What a socket carries.  A data packet holds a sequence of messages because
\* flush sends the whole disconnected buffer as one packet.
Blob == Seq(Item) \ {<<>>}
ClientPacket == [type : {"initial", "reconnect"}] \cup [type : {"data"}, blob : Blob]
ServerPacket == [type : {"initial"}] \cup [type : {"reconnect"}, found : BOOLEAN]
                    \cup [type : {"data"}, blob : Blob]

\* Mutant: messages go out under an event that nobody listens to.
DataUnheard(blob) == [type |-> "message", blob |-> blob]

Data(blob) == [type |-> "data", blob |-> blob]

VARIABLES
    config,         \* the configuration, which never changes
    \* the network
    sid,            \* the client's latest session
    ended,          \* sessions that are over; each side still has to notice
    toServer,       \* per session, packets on their way to the server
    toClient,       \* per session, packets on their way to the client
    \* the front end
    alive,          \* the page exists
    up,             \* socket.connected
    epoch,          \* context of currentChannel, or NoContext while undefined
    closed,         \* currentChannel.close() was called
    channels,       \* channels this page has created, the current one the last
    held,           \* their contexts
    writeBuffer,    \* messages held in the client's SocketWriteBuffer
    reconnectListeners,  \* registered reconnectListener closures
    initialListeners,    \* registered initialConnectListener closures
    outbox,         \* INITIAL_CONNECT emits socket.io buffers until it connects
    \* the back end
    socketState,    \* per session: "none", "validating", "open", "closed"
    negotiating,    \* sessions whose two negotiation listeners are registered
    owner,          \* per session: context whose disconnect handler it carries
    listening,      \* sessions with a data listener attached
    conn,           \* connectionsByFrontend.get(frontEndId)
    bound,          \* per context: the channel's socket
    disposed,       \* contexts whose channel was closed
    socketBuffer,   \* per context: messages in the channel's SocketWriteBuffer
    timers,         \* running close timeouts, in the order they will expire
    closeTimeout,   \* closeTimeouts.get(frontEndId): the timer it names
    marked,         \* channelsMarkedForClose.has(frontEndId)
    \* history
    breaks, reloads,
    written,        \* messages written so far by "client" and by "server"
    gotServer,      \* per context: messages the back end's consumers read
    gotClient,      \* per context: messages the front end's consumers read
    swallowed,      \* messages that arrived in a packet but were not read
    faulted,        \* closeConnection ran without a connection
    marker          \* context from which the current mark for close came

network == <<sid, ended, toServer, toClient>>
frontend == <<alive, up, epoch, closed, channels, held, writeBuffer, reconnectListeners, initialListeners, outbox>>
backend == <<socketState, negotiating, owner, listening, conn, bound, disposed, socketBuffer,
             timers, closeTimeout, marked>>
history == <<breaks, reloads, written, gotServer, gotClient, swallowed, faulted, marker>>
vars == <<config, network, frontend, backend, history>>

ConnectionTimeout == config.connectionTimeout
ReloadOnReconnect == config.reloadOnReconnect
SameIdOnReload == config.sameIdOnReload

TypeOK ==
    /\ config \in Configurations
    /\ sid \in 0 .. MaxSessions
    /\ ended \subseteq Sessions
    /\ toServer \in [Sessions -> Seq(ClientPacket)]
    /\ toClient \in [Sessions -> Seq(ServerPacket)]
    /\ alive \in BOOLEAN /\ up \in BOOLEAN /\ closed \in BOOLEAN
    /\ marked \in BOOLEAN /\ faulted \in BOOLEAN
    /\ {epoch, conn, marker} \subseteq Contexts \cup {NoContext}
    /\ held \subseteq Contexts
    /\ writeBuffer \in Seq(Item)
    /\ {channels, reconnectListeners, initialListeners, outbox} \subseteq Nat
    /\ socketState \in [Sessions -> {"none", "validating", "open", "closed"}]
    /\ negotiating \subseteq Sessions
    /\ owner \in [Sessions -> Contexts \cup {NoContext}]
    /\ listening \subseteq Sessions
    /\ bound \in [Contexts -> Sessions \cup {NoSession}]
    /\ disposed \subseteq Contexts
    /\ socketBuffer \in [Contexts -> Seq(Item)]
    /\ timers \in Seq(Sessions)
    /\ closeTimeout \in Sessions \cup {NoSession}
    /\ breaks \in 0 .. MaxBreaks
    /\ reloads \in 0 .. MaxReloads
    /\ written \in [{"client", "server"} -> 0 .. MaxWrites[config]]
    /\ gotServer \in [Contexts -> Seq(Item)]
    /\ gotClient \in [Contexts -> Seq(Item)]
    /\ swallowed \subseteq Item

Init ==
    /\ config \in Configurations
    /\ sid = 0
    /\ ended = {}
    /\ toServer = [s \in Sessions |-> <<>>]
    /\ toClient = [s \in Sessions |-> <<>>]
    /\ alive = TRUE
    /\ up = FALSE
    /\ epoch = NoContext
    /\ closed = FALSE
    /\ channels = 0
    /\ held = {}
    /\ writeBuffer = <<>>
    /\ reconnectListeners = 0
    /\ initialListeners = 0
    /\ outbox = 0
    /\ socketState = [s \in Sessions |-> "none"]
    /\ negotiating = {}
    /\ owner = [s \in Sessions |-> NoContext]
    /\ listening = {}
    /\ conn = NoContext
    /\ bound = [c \in Contexts |-> NoSession]
    /\ disposed = {}
    /\ socketBuffer = [c \in Contexts |-> <<>>]
    /\ timers = <<>>
    /\ closeTimeout = NoSession
    /\ marked = FALSE
    /\ breaks = 0
    /\ reloads = 0
    /\ written = [side \in {"client", "server"} |-> 0]
    /\ gotServer = [c \in Contexts |-> <<>>]
    /\ gotClient = [c \in Contexts |-> <<>>]
    /\ swallowed = {}
    /\ faulted = FALSE
    /\ marker = NoContext

-------------------------------------------------------------------------------
(***************************************************************************)
(* The network.  A packet sent on a session that is over goes nowhere.     *)
(***************************************************************************)
SentToServer(s, packets) ==
    IF s \in ended THEN toServer ELSE [toServer EXCEPT ![s] = @ \o packets]

SentToClient(s, packets) ==
    IF s \in ended THEN toClient ELSE [toClient EXCEPT ![s] = @ \o packets]

\* The connection of session s is lost, for whatever reason.
Break(s) ==
    /\ breaks < MaxBreaks
    /\ socketState[s] \in {"validating", "open"}
    /\ s \notin ended
    /\ ended' = ended \cup {s}
    /\ breaks' = breaks + 1
    /\ UNCHANGED <<config, sid, toServer, toClient, frontend, backend,
                   reloads, written, gotServer, gotClient, swallowed, faulted, marker>>

\* What the consumer of a packet reads from it: the multiplexer decodes one
\* message header and hands on the rest, of which the decoder reads one message.
Parsed(blob) == Head(blob)
Unread(blob) == {blob[i] : i \in 2 .. Len(blob)}

-------------------------------------------------------------------------------
(***************************************************************************)
(* The front end.                                                          *)
(***************************************************************************)

\* Mutant: an initial connect although there is a channel.
RequestInitial == "initial"

\* What handleSocketConnected asks for: a reconnect if there ever was a channel.
Request == IF epoch # NoContext THEN "reconnect" ELSE "initial"

\* The socket connects: socket.io first sends what it buffered, then the
\* connect handler negotiates.
Connect ==
    LET s == sid + 1
        buffered == [i \in 1 .. outbox |-> [type |-> "initial"]]
    IN  /\ alive /\ ~up /\ s \in Sessions
        /\ LateDisconnect \/ \A t \in 1 .. sid : socketState[t] = "closed"
        /\ sid' = s
        /\ up' = TRUE
        /\ outbox' = 0
        /\ IF Request = "reconnect"
           THEN /\ reconnectListeners' = reconnectListeners + 1
                /\ UNCHANGED initialListeners
           ELSE /\ initialListeners' = initialListeners + 1
                /\ UNCHANGED reconnectListeners
        /\ toServer' = [toServer EXCEPT ![s] = Append(buffered, [type |-> Request])]
        /\ socketState' = [socketState EXCEPT ![s] = "validating"]
        /\ UNCHANGED <<config, ended, toClient, alive, epoch, closed, channels, held, writeBuffer,
                       negotiating, owner, listening, conn, bound, disposed, socketBuffer,
                       timers, closeTimeout, marked, history>>

\* The client notices that its session is over.
ClientDisconnect ==
    /\ up /\ sid \in ended
    /\ up' = FALSE
    /\ toClient' = [toClient EXCEPT ![sid] = <<>>]
    /\ UNCHANGED <<config, sid, ended, toServer, alive, epoch, closed, channels, held, writeBuffer,
                   reconnectListeners, initialListeners, outbox, backend, history>>

ClientReceives(packet) ==
    /\ up
    /\ toClient[sid] # <<>>
    /\ Head(toClient[sid]) = packet

\* Mutant: drain leaves the buffer as it is.
NotDrained == writeBuffer

\* drain() of the SocketWriteBuffer.
Drained == <<>>

\* initialConnectListener: the reply runs every registered closure in one turn,
\* and each runs connectNewChannel.  All but the first find the channel of the
\* one before them: they close it, which disposes its emitters, so that the
\* onClose they fire reaches nobody, and announce another.
HandleInitialReply ==
    /\ ClientReceives([type |-> "initial"])
    /\ toClient' = [toClient EXCEPT ![sid] = Tail(@)]
    /\ initialListeners' = 0
    /\ IF initialListeners > 0
       THEN /\ epoch' = sid
            /\ closed' = FALSE
            /\ channels' = channels + initialListeners
            /\ held' = held \cup {sid}
            /\ writeBuffer' = Drained
       ELSE UNCHANGED <<epoch, closed, channels, held, writeBuffer>>
    /\ UNCHANGED <<config, sid, ended, toServer, alive, up, reconnectListeners, outbox,
                   backend, history>>

\* Mutant: flush forgets to drop the buffer it sent.
HandleReconnectedKeepsBuffer ==
    /\ ClientReceives([type |-> "reconnect", found |-> TRUE])
    /\ toClient' = [toClient EXCEPT ![sid] = Tail(@)]
    /\ reconnectListeners' = 0
    /\ IF reconnectListeners > 0 /\ writeBuffer # <<>>
       THEN toServer' = SentToServer(sid, <<Data(writeBuffer)>>)
       ELSE UNCHANGED toServer
    /\ UNCHANGED <<config, sid, ended, alive, up, epoch, closed, channels, held, writeBuffer,
                   initialListeners, outbox, backend, history>>

\* reconnectListener(true): the disconnected buffer is flushed as one packet.
HandleReconnected ==
    /\ ClientReceives([type |-> "reconnect", found |-> TRUE])
    /\ toClient' = [toClient EXCEPT ![sid] = Tail(@)]
    /\ reconnectListeners' = 0
    /\ IF reconnectListeners > 0 /\ writeBuffer # <<>>
       THEN /\ toServer' = SentToServer(sid, <<Data(writeBuffer)>>)
            /\ writeBuffer' = <<>>
       ELSE UNCHANGED <<toServer, writeBuffer>>
    /\ UNCHANGED <<config, sid, ended, alive, up, epoch, closed, channels, held, initialListeners,
                   outbox, backend, history>>

\* The page goes away.  A new page has the same front end id only in Electron;
\* in a browser the old front end never connects again.
PageLoads ==
    /\ alive' = SameIdOnReload
    /\ up' = FALSE
    /\ epoch' = NoContext
    /\ closed' = FALSE
    /\ channels' = 0
    /\ held' = {}
    /\ writeBuffer' = <<>>
    /\ reconnectListeners' = 0
    /\ initialListeners' = 0
    /\ outbox' = 0
    /\ ended' = IF up THEN ended \cup {sid} ELSE ended
    /\ toClient' = [s \in Sessions |-> <<>>]

Reload ==
    /\ alive
    /\ reloads < MaxReloads
    /\ reloads' = reloads + 1
    /\ PageLoads
    /\ UNCHANGED <<config, sid, toServer, backend, breaks, written, gotServer, gotClient,
                   swallowed, faulted, marker>>

\* Mutant: the listener is registered but nothing is emitted.
NegotiateInitialConnectSilently(times) ==
    /\ initialListeners' = initialListeners + times
    /\ UNCHANGED outbox

\* negotiateInitialConnect, so many times, while the socket is down.
NegotiateInitialConnect(times) ==
    /\ initialListeners' = initialListeners + times
    /\ outbox' = outbox + times

\* reconnectListener(false): each registered closure closes the channel, drops
\* the buffer, recycles the socket and asks for a new context; the request is
\* emitted while the socket is down, so socket.io keeps it.
HandleReconnectRefused ==
    /\ ClientReceives([type |-> "reconnect", found |-> FALSE])
    /\ UNCHANGED <<config, sid, toServer, backend, history>>
    /\ IF reconnectListeners > 0
       THEN \/ /\ ReloadOnReconnect
               /\ PageLoads
            \/ /\ ~ReloadOnReconnect
               /\ closed' = TRUE
               /\ writeBuffer' = Drained
               /\ up' = FALSE
               /\ ended' = ended \cup {sid}
               /\ toClient' = [toClient EXCEPT ![sid] = <<>>]
               /\ reconnectListeners' = 0
               /\ NegotiateInitialConnect(reconnectListeners)
               /\ UNCHANGED <<alive, epoch, channels, held>>
       ELSE /\ toClient' = [toClient EXCEPT ![sid] = Tail(@)]
            /\ UNCHANGED <<ended, frontend>>

\* messageHandler: registered by createChannel, removed by close.
HandleClientData ==
    /\ up
    /\ toClient[sid] # <<>>
    /\ LET packet == Head(toClient[sid])
       IN  /\ packet.type = "data"
           /\ IF epoch # NoContext /\ ~closed
              THEN /\ gotClient' = [gotClient EXCEPT ![epoch] = Append(@, Parsed(packet.blob))]
                   /\ swallowed' = swallowed \cup Unread(packet.blob)
              ELSE UNCHANGED <<gotClient, swallowed>>
    /\ toClient' = [toClient EXCEPT ![sid] = Tail(@)]
    /\ UNCHANGED <<config, sid, ended, toServer, frontend, backend,
                   breaks, reloads, written, gotServer, faulted, marker>>

\* A commit on the write buffer of a front end's channel of context c.  Whoever
\* calls a service stops when the channel ends, but a handler that still runs
\* commits its reply (RpcProtocol.handleRequest), and nothing stops it: the
\* closure reads the present socket and buffer of the connection source.
ClientCommits(c, n) ==
    LET item == [ctx |-> c, n |-> n, late |-> c # epoch \/ closed]
    IN  /\ c \in held
        /\ \/ /\ up
              /\ toServer' = SentToServer(sid, <<Data(<<item>>)>>)
              /\ UNCHANGED writeBuffer
           \/ /\ ~up
              /\ Len(writeBuffer) < BufferCapacity
              /\ writeBuffer' = Append(writeBuffer, item)
              /\ UNCHANGED toServer

ClientWrite ==
    /\ written["client"] < MaxWrites[config]
    /\ written' = [written EXCEPT !["client"] = @ + 1]
    /\ \E c \in held : ClientCommits(c, written["client"] + 1)
    /\ UNCHANGED <<config, sid, ended, toClient, alive, up, epoch, closed, channels, held,
                   reconnectListeners, initialListeners, outbox, backend,
                   breaks, reloads, gotServer, gotClient, swallowed, faulted, marker>>

\* A markForClose call is buffered or travelling.
MarkIsOnItsWay ==
    \/ \E i \in 1 .. Len(writeBuffer) : writeBuffer[i].n = MarkForClose
    \/ \E s \in Sessions : \E i \in 1 .. Len(toServer[s]) :
          /\ toServer[s][i].type = "data"
          /\ \E j \in 1 .. Len(toServer[s][i].blob) : toServer[s][i].blob[j].n = MarkForClose

\* The Electron window is about to close and calls markForClose (bound: one
\* such call at a time).
AboutToClose ==
    /\ SameIdOnReload
    /\ ~closed
    /\ ~MarkIsOnItsWay
    /\ ClientCommits(epoch, MarkForClose)
    /\ UNCHANGED <<config, sid, ended, toClient, alive, up, epoch, closed, channels, held,
                   reconnectListeners, initialListeners, outbox, backend, history>>

-------------------------------------------------------------------------------
(***************************************************************************)
(* The back end.                                                           *)
(***************************************************************************)
ServerReceives(s, type) ==
    /\ socketState[s] = "open"
    /\ toServer[s] # <<>>
    /\ Head(toServer[s]).type = type

\* Mutant: the timer's handle is forgotten without clearTimeout.
NotCancelled(timer) == timers

\* The running timers without one of them.  A timer is named after the session
\* whose end started it, so it runs once at most.
Without(running, timer) ==
    IF \E i \in DOMAIN running : running[i] = timer
    THEN RemoveAt(running, CHOOSE i \in DOMAIN running : running[i] = timer)
    ELSE running

\* clearTimeout of the timer.
Cancelled(timer) == Without(timers, timer)

\* The socket passes the validation that the connection event awaits, and its
\* two negotiation listeners are registered.
Accept(s) ==
    /\ socketState[s] = "validating"
    /\ socketState' = [socketState EXCEPT ![s] = "open"]
    /\ negotiating' = negotiating \cup {s}
    /\ UNCHANGED <<config, network, frontend, owner, listening, conn, bound, disposed, socketBuffer,
                   timers, closeTimeout, marked, history>>

\* A packet that arrives during the validation meets no listener.
MissPacket(s) ==
    /\ config.slowValidators
    /\ socketState[s] = "validating"
    /\ toServer[s] # <<>>
    /\ toServer' = [toServer EXCEPT ![s] = Tail(@)]
    /\ UNCHANGED <<config, sid, ended, toClient, frontend, backend, history>>

\* A negotiation request on a socket that has already negotiated: no listener.
IgnoreRequest(s) ==
    /\ \E type \in {"initial", "reconnect"} : ServerReceives(s, type)
    /\ s \notin negotiating
    /\ toServer' = [toServer EXCEPT ![s] = Tail(@)]
    /\ UNCHANGED <<config, sid, ended, toClient, frontend, backend, history>>

\* initialConnectListener: a context the front end id still has is closed, a
\* channel is created on the socket and the front end is told.
HandleInitialConnect(s) ==
    /\ ServerReceives(s, "initial")
    /\ s \in negotiating
    /\ toServer' = [toServer EXCEPT ![s] = Tail(@)]
    /\ negotiating' = negotiating \ {s}
    /\ IF conn # NoContext
       THEN /\ disposed' = disposed \cup {conn}
            /\ timers' = Cancelled(closeTimeout)
            /\ closeTimeout' = NoSession
       ELSE UNCHANGED <<disposed, timers, closeTimeout>>
    /\ conn' = s
    /\ bound' = [bound EXCEPT ![s] = s]
    /\ owner' = [owner EXCEPT ![s] = s]
    /\ listening' = listening \cup {s}
    /\ toClient' = SentToClient(s, <<[type |-> "initial"]>>)
    /\ UNCHANGED <<config, sid, ended, frontend, socketState, socketBuffer, marked, history>>

ReconnectReply(found) == <<[type |-> "reconnect", found |-> found]>>

\* reconnectListener: the context, if there still is one, moves to the socket;
\* its buffer is flushed after the reply; the pending close is cancelled.
HandleReconnect(s) ==
    /\ ServerReceives(s, "reconnect")
    /\ s \in negotiating
    /\ toServer' = [toServer EXCEPT ![s] = Tail(@)]
    /\ negotiating' = negotiating \ {s}
    /\ IF conn # NoContext
       THEN /\ toClient' = SentToClient(s, ReconnectReply(TRUE)
                    \o (IF socketBuffer[conn] = <<>> THEN <<>> ELSE <<Data(socketBuffer[conn])>>))
            /\ socketBuffer' = [socketBuffer EXCEPT ![conn] = <<>>]
            /\ bound' = [bound EXCEPT ![conn] = s]
            /\ owner' = [owner EXCEPT ![s] = conn]
            /\ listening' = listening \cup {s}
            /\ timers' = Cancelled(closeTimeout)
            /\ closeTimeout' = NoSession
       ELSE /\ toClient' = SentToClient(s, ReconnectReply(FALSE))
            /\ UNCHANGED <<socketBuffer, bound, owner, listening, timers, closeTimeout>>
    /\ UNCHANGED <<config, sid, ended, frontend, socketState, conn, disposed, marked, history>>

\* dataListener, and behind it the markForClose service.
HandleServerData(s) ==
    /\ ServerReceives(s, "data")
    /\ toServer' = [toServer EXCEPT ![s] = Tail(@)]
    /\ LET blob == Head(toServer[s]).blob
           c    == owner[s]
       IN  IF s \in listening /\ c \notin disposed
           THEN /\ IF Parsed(blob).n = MarkForClose
                   THEN marked' = TRUE /\ marker' = c
                   ELSE UNCHANGED <<marked, marker>>
                /\ gotServer' = IF Parsed(blob).n = MarkForClose THEN gotServer
                                ELSE [gotServer EXCEPT ![c] = Append(@, Parsed(blob))]
                /\ swallowed' = swallowed \cup Unread(blob)
           ELSE UNCHANGED <<marked, marker, gotServer, swallowed>>
    /\ UNCHANGED <<config, sid, ended, toClient, frontend, socketState, negotiating, owner,
                   listening, conn, bound, disposed, socketBuffer, timers, closeTimeout,
                   breaks, reloads, written, gotClient, faulted>>

\* Mutant: connectionsByFrontend keeps the closed channel.
CloseConnectionKeepsEntry(running, named) ==
    /\ UNCHANGED conn
    /\ timers' = Without(running, named)
    /\ closeTimeout' = NoSession
    /\ disposed' = disposed \cup ({conn} \ {NoContext})
    /\ faulted' = (faulted \/ conn = NoContext)

\* closeConnection(frontEndId), with the timers that run when it is called and
\* the one closeTimeouts names.
CloseConnection(running, named) ==
    /\ conn' = NoContext
    /\ timers' = Without(running, named)
    /\ closeTimeout' = NoSession
    /\ disposed' = disposed \cup ({conn} \ {NoContext})
    /\ faulted' = (faulted \/ conn = NoContext)

\* Mutant: the mark for close is read but not deleted.
DisconnectKeepsMark(c) ==
    /\ listening' = listening \ {bound[c]}
    /\ bound' = [bound EXCEPT ![c] = NoSession]
    /\ UNCHANGED marked

\* channel.disconnect() detaches the channel from the socket it has by now; the
\* front end's mark for close is deleted, whether it was set or not.
Disconnect(c) ==
    /\ listening' = listening \ {bound[c]}
    /\ bound' = [bound EXCEPT ![c] = NoSession]
    /\ marked' = FALSE

\* The server notices that session s is over.  The handler that negotiation
\* put on the socket disconnects its channel from whatever socket the channel
\* has by then, and closes the context now, later or never.
HandleSocketDisconnect(s) ==
    /\ socketState[s] \in {"validating", "open"}
    /\ s \in ended
    /\ socketState' = [socketState EXCEPT ![s] = "closed"]
    /\ toServer' = [toServer EXCEPT ![s] = <<>>]
    /\ IF owner[s] = NoContext
       THEN UNCHANGED <<listening, bound, marked, conn, timers, closeTimeout, disposed, faulted>>
       ELSE /\ Disconnect(owner[s])
            /\ \/ /\ ConnectionTimeout = "zero" \/ marked
                  /\ CloseConnection(timers, closeTimeout)
               \/ /\ ConnectionTimeout = "finite" /\ ~marked
                  /\ timers' = Append(timers, s)
                  /\ closeTimeout' = s
                  /\ UNCHANGED <<conn, disposed, faulted>>
               \/ /\ ConnectionTimeout = "never" /\ ~marked
                  /\ UNCHANGED <<conn, timers, closeTimeout, disposed, faulted>>
    /\ UNCHANGED <<config, sid, ended, toClient, frontend, negotiating, owner, socketBuffer,
                   breaks, reloads, written, gotServer, gotClient, swallowed, marker>>

\* The oldest running close timeout expires (all run for the same time).
CloseTimeoutExpires ==
    /\ timers # <<>>
    /\ CloseConnection(Tail(timers), closeTimeout)
    /\ UNCHANGED <<config, network, frontend, socketState, negotiating, owner, listening, bound,
                   socketBuffer, marked, breaks, reloads, written, gotServer, gotClient,
                   swallowed, marker>>

\* A commit on the write buffer of the back end's channel of context c, late if
\* the context was closed before.
ServerWrite ==
    /\ written["server"] < MaxWrites[config]
    /\ written' = [written EXCEPT !["server"] = @ + 1]
    /\ \E c \in Contexts :
          LET item == [ctx |-> c, n |-> written["server"] + 1, late |-> c \in disposed]
          IN  /\ \E s \in Sessions : owner[s] = c
              /\ \/ /\ bound[c] # NoSession
                    /\ toClient' = SentToClient(bound[c], <<Data(<<item>>)>>)
                    /\ UNCHANGED socketBuffer
                 \/ /\ bound[c] = NoSession
                    /\ Len(socketBuffer[c]) < BufferCapacity
                    /\ socketBuffer' = [socketBuffer EXCEPT ![c] = Append(@, item)]
                    /\ UNCHANGED toClient
    /\ UNCHANGED <<config, sid, ended, toServer, frontend, socketState, negotiating, owner, listening,
                   conn, bound, disposed, timers, closeTimeout, marked, breaks, reloads,
                   gotServer, gotClient, swallowed, faulted, marker>>

-------------------------------------------------------------------------------
FrontEnd == Connect \/ ClientDisconnect \/ HandleInitialReply \/ HandleReconnected
                \/ HandleReconnectRefused \/ HandleClientData

BackEnd(s) == Accept(s) \/ IgnoreRequest(s) \/ HandleInitialConnect(s) \/ HandleReconnect(s)
                \/ HandleServerData(s) \/ HandleSocketDisconnect(s)

Environment == Reload \/ ClientWrite \/ AboutToClose \/ ServerWrite
                   \/ \E s \in Sessions : Break(s)

Next ==
    \/ FrontEnd
    \/ \E s \in Sessions : BackEnd(s) \/ MissPacket(s)
    \/ CloseTimeoutExpires
    \/ Environment

Spec == Init /\ [][Next]_vars

\* Each event loop handles what arrives, socket.io reconnects for ever, both
\* sides' heartbeats notice a dead connection and a timeout that is not cleared
\* expires.  Nothing is assumed of the user or of the network.
Fairness ==
    /\ WF_vars(FrontEnd)
    /\ \A s \in Sessions : WF_vars(BackEnd(s))
    /\ WF_vars(CloseTimeoutExpires)

FairSpec == Spec /\ Fairness

-------------------------------------------------------------------------------
(***************************************************************************)
(* Properties.                                                             *)
(***************************************************************************)

\* The front end's socket is connected and it waits for no reply.
Settled ==
    /\ up
    /\ sid \notin ended \cup negotiating
    /\ socketState[sid] = "open"
    /\ epoch # NoContext
    /\ ~closed
    /\ \A i \in 1 .. Len(toClient[sid]) : toClient[sid][i].type = "data"

\* A front end that has negotiated is served: the back end keeps the context the
\* front end believes in, attached to the socket the front end is connected on.
\* This is what "the context is reconnected" (connection-management.ts:29) means
\* to both sides; it is at risk from a late disconnect of an older socket, a
\* leaked close timeout and a reply that meets an older listener.
SettledFrontEndIsServed ==
    Settled => /\ conn = epoch
               /\ conn \notin disposed
               /\ bound[conn] = sid
               /\ sid \in listening

\* closeConnection is "not called when no connection is present"
\* (websocket-frontend-connection-service.ts:83), neither by a disconnect
\* handler nor by a close timeout that outlived its context.
CloseConnectionHasConnection == ~faulted

\* The back end never discards a context whose socket is connected, unless the
\* same front end asks for a new one: a close timeout started by an earlier
\* disconnect has been cancelled by the time the front end is back.
ConnectedContextIsKept ==
    [][ (conn # NoContext /\ bound[conn] \in Sessions \ ended) => conn' # NoContext ]_vars

\* No message is read twice, however it was buffered, flushed and sent again
\* around a reconnect, and what a context's consumers read was written to that
\* context: what it left in a buffer or on a socket when it ended stays out of
\* the next.  The one exception is a late message of the front end: its reply
\* goes to whatever socket or buffer the connection source has by then.
MessagesAreDeliveredOnceInTheirContext ==
    /\ \A c \in Contexts : \A i \in DOMAIN gotServer[c] :
          gotServer[c][i].late \/ gotServer[c][i].ctx = c
    /\ \A c \in Contexts : \A i \in DOMAIN gotClient[c] : gotClient[c][i].ctx = c
    /\ \A got \in {gotServer, gotClient} : \A c \in Contexts : \A i, j \in DOMAIN got[c] :
          got[c][i] = got[c][j] => i = j

\* commit "makes any writes to the buffer permanent" (message-buffer.ts:29): every
\* message that was buffered while the socket was down and arrives is read.
BufferedMessagesAreRead == swallowed = {}

\* The front end still waits for the answer to an INITIAL_CONNECT, with its
\* channel closed, while the back end has reconnected it to the context which
\* that request created: the answer was lost with the session it was sent on.
Stranded ==
    /\ up /\ sid \notin ended
    /\ closed /\ initialListeners > 0
    /\ conn # NoContext /\ bound[conn] = sid /\ conn \notin held

\* Once the network is stable the front end ends up served, or its page is gone
\* ("The front end can then either do an initial connect or reload the whole UI",
\* connection-management.ts:30-31), but for the one way in which it is stranded.
\* A slow validator can make it miss the request itself.
FrontEndSettlesOrIsStranded ==
    ~config.slowValidators => <>[](~alive \/ Settled \/ Stranded)

\* "If set to negative number, the backend will never close the connection"
\* (packages/core/README.md:162): only a window that announced its own closing
\* loses its context, and the mark it left never hits the context of the page
\* that the same window loads next.
MarkClosesItsOwnContext ==
    [][ (ConnectionTimeout = "never" /\ conn # NoContext /\ conn' = NoContext)
            => marker = conn ]_vars

\* The context of a front end that never comes back is discarded in the end,
\* unless the application keeps contexts for ever.
AbandonedContextIsDiscarded ==
    (~alive /\ ConnectionTimeout # "never") ~> (conn = NoContext)

\* The connection source keeps its promise to the listeners of its channels,
\* whatever was negotiated and lost in between: channels are announced when the
\* listeners of the last one have heard of its end, and of several announced in
\* one turn only the last one stays open.
Promised == INSTANCE MainChannel WITH channel <- channels, told <- closed

ChannelPromiseIsKept == Promised!Spec

===============================================================================
