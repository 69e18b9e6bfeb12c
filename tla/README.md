# A TLA+ model of the Theia connection stack, file watching and text models

This directory specifies, model-checks and proves properties of two parts of
this repository. The first is the one on which everything else depends: the
connection between a Theia front end (a browser page or an Electron window) and
its back end, and the protocol stack that turns one socket into calls of
services. The second is what guards the user's work: the text model with its
saves against a file that others change, and the watching that reports such
changes. It is written from the code; `PROJECT.json` maps every definition to the
lines it models. Paths below are relative to `packages/core/src` unless they
start with another package or name a file that is the only one of its name.

## 1. The system

A call on a service proxy of the front end goes through these layers, and each
has a peer at the other end:

    ServiceConnectionProvider    browser/messaging/service-connection-provider.ts
    RpcProxyFactory              common/messaging/proxy-factory.ts
    RpcProtocol                  common/message-rpc/rpc-protocol.ts
    a channel of the multiplexer common/message-rpc/channel.ts
    ChannelMultiplexer           common/message-rpc/channel.ts
    connection context channel   browser/messaging/ws-connection-source.ts
                                 node/messaging/websocket-frontend-connection-service.ts
    SocketWriteBuffer            common/messaging/socket-write-buffer.ts
    socket.io socket             (library)

| component | state it keeps | operations | talks to | what is hard | what makes it correct |
|---|---|---|---|---|---|
| Front end connection negotiation | front end: `currentChannel`, `writeBuffer`, listeners registered on the socket; back end: `connectionsByFrontend`, `closeTimeouts`, `channelsMarkedForClose`, each channel's socket and buffer | connect, INITIAL_CONNECT, RECONNECT, refused reconnect, disconnect, close timeout, mark for close, buffer and flush | socket.io below, the multiplexer above | each side notices a lost connection at its own time; timeouts race reconnects; listeners accumulate; answers get lost | both sides believe in the same context on the connected socket; contexts are discarded when and only when they should; messages reach their own context once |
| Channel multiplexer | `openChannels`, `pendingOpen` | open, close, write, Open/AckOpen/Close/Data packets, close of the main channel | the context channel below, one RpcProtocol per channel above | an id is closed at both ends and opened again while packets travel; both ends open at once | data meets the channel it was written to; the ends agree when nothing travels; no holder is left with a channel nobody serves |
| RPC protocol | `pendingRequests`, `pendingRequestCancellationEventListeners`, `cancellationTokenSources`, `nextMessageId` | request, notification, cancel, reply, error reply, close | a channel below, a request handler above | answers, cancellations and closes during a commit; encodings that throw | every request gets one answer; nothing outlives its request; a cancel reaches its handler |
| Service connection provider and RPC proxies | the deferred protocol of a proxy, the listeners of each path | listen, connectNewChannel, proxied calls | multiplexer and RpcProtocol | a new channel before the old one's close was heard | calls wait for, and use, the current protocol |
| Messaging service and connection handlers (back end) | handlers per path | route an opened channel to a handler | multiplexer | - | each channel has one handler |
| Message buffers and encoding | offset and capacity of a byte buffer | write and read of integers, strings, bytes | RpcProtocol, multiplexer | capacity and length boundaries | read inverts write |
| Connection status service | last activity, ping timer, status | ping, activity, status change | connection source | a ping that is never answered | goes offline and comes back |
| Events, disposables, cancellation | listener lists, delivery queues | add, remove, fire, dispose | everything | re-entrance | each listener hears each event once |
| IPC to child processes | frame assembly, pipe | send, receive | RpcProtocol | frames split across chunks | frames arrive whole and in order |
| Plugin RPC and batching channel (`packages/plugin-ext`) | pending replies, proxies, batch | call, cancel, flush, dispose | RpcProtocol | flush after close | as RPC protocol |
| Plugin host, activation, deployment | plugin and activation tables | load, activate, deploy, stop | plugin RPC | dependency order, concurrent activation | one activation per plugin, after its dependencies |
| File watching (`packages/filesystem`) | watch handles of a provider, watcherIds and reference counts of the watcher process, disposal timers | watch, dispose, start, fail, time out, front end gone | RPC below, the file service above | a watch given up before its id is known; the timer against a new reference; failures with several clients; disposal during a start | nobody's watcher is taken away untold, and what nobody wants is released |
| File service, resources, text models (`packages/filesystem`, `packages/monaco`) | text, change events, dirty flag, versions of model and resource, queue of operations, writing lock | edit, undo, save, auto save, sync, revert, overwrite | RPC, file watching | saves against changes on disk, against edits and against each other; cancelled operations | no save replaces a version nobody has seen; a dirty model can be saved, a clean one follows the file |
| Process output buffer (`packages/process`) | ring buffer, readers | enqueue, dequeue, close reader | terminals, tasks | wrap-around with several readers | each reader gets the newest data in order |

`PROJECT.json` lists these and the other components (terminals, tasks, debug,
preferences, text models, workspace, Electron, AI, collaboration, user interface,
build tools), each with the reason why it is or is not modelled. The user
interface packages and the build tools have no protocol of their own.

## 2. Modules

| module | models |
|---|---|
| `FrontendConnection` | both sides of the negotiation of a connection context, the write buffers, socket.io as a sequence of sessions |
| `MainChannel` | abstract: what the connection source promises those who listen to its channels |
| `ChannelMultiplexer` | two multiplexers and the main channel between them |
| `RpcProtocol` | two RpcProtocols and the channel between them |
| `ReliableCall` | abstract: one request as its caller may understand it |
| `ServiceConnection` | service paths, proxies and calls on top of main channels that come and go |
| `FileWatching` | watch handles, reference-counted watchers and their native subscriptions, for one path |
| `EditorModel` | one text model, its file resource and the check for dirty writes |
| `MC...` | instances for TLC: the sets and functions the `.cfg` files assign to constants |
| `..._proofs` | theorems about the module of that name; `FrontendMessages_proofs` has those about the messages of `FrontendConnection`, `RpcRefinement_proofs` the refinement of `ReliableCall` |

How they fit together:

    EditorModel                 FileWatching            (above the services; each on its own)
        .                            .
    ServiceConnection ---------- built on ---------> MainChannel
        :                                                ^
        :  abstracts, per path                           | implements (Promised)
    RpcProtocol --implements--> ReliableCall             |
    ChannelMultiplexer                           FrontendConnection

`ServiceConnection` INSTANCEs `MainChannel` for the channel life cycle and takes
from `ChannelMultiplexer` and `RpcProtocol` what they come to for one path: an
open request and its answer, a request and its reply. The two details are checked
by themselves, so that no run needs the product of all layers.

Operators whose comment starts with "Mutant" are mistaken variants of the
definition they precede. No behaviour uses them; `PROJECT.json` names, for every
property, the variant that breaks it.

### FrontendConnection and MainChannel

*State.* Each connect of the client's socket creates a session, numbered in
order. `toServer` and `toClient` are the packets in flight per session and
`ended` the sessions that are over; `up` is the client's `socket.connected` and
`socketState` what the server has noticed. A context is named after the session
that created it: `epoch` is the front end's `currentChannel`, `conn` the entry of
`connectionsByFrontend` for the one front end id modelled. `closed` says that
`currentChannel.close()` was called while `currentChannel` stays set, which the
code distinguishes nowhere. `owner[s]` is the channel captured by the disconnect
listener of socket `s`; `bound[c]` the socket the channel of `c` is attached to.
`timers` are the timeouts that run and `closeTimeout` the one that
`closeTimeouts` can still name: they differ when a timeout leaked.

*Actions.* `Connect` is the `connect` handler with what socket.io sends first;
`HandleInitialReply`, `HandleReconnected` and `HandleReconnectRefused` are the
front end's two listeners with all registered closures: a reply that meets several
initial listeners, because the page asked several times, creates that many channels
in one turn, and all but the last are closed with nobody hearing. `Accept`,
`HandleInitialConnect`, `HandleReconnect`, `HandleSocketDisconnect`,
`CloseTimeoutExpires` and `HandleServerData` the back end's. `MissPacket` is a
packet that arrives during the awaited `allowConnect`, when no listener is
registered. `Break` is a connection lost anywhere, `Reload` the page's user,
`AboutToClose` the Electron window that calls `markForClose`.

`channels` counts the main channels a page has created and `held` their contexts.

*Data.* A message is the context of the channel it was written to, a number, and
whether that channel had ended by then (`late`): a handler that outlives its channel
still commits its reply, and the commit closure takes whatever socket or buffer the
connection source has at that time. A packet holds a sequence of them because a flush sends the whole buffer at once,
and `Parsed` is the one message its reader decodes. The buffer's capacity is
counted in messages; the exception at its limit appears as the guard of a write
that does not happen.

*Configurations.* A configuration is a `frontendConnectionTimeout` (zero, finite,
negative), `reloadOnReconnect`, whether a new page keeps the front end id
(Electron windows do), and whether validators of a connection really wait. It is
chosen in `Init`, so one run covers all those it is given.

*Switch.* `LateDisconnect`: the back end may notice the end of an old socket
after it accepted a new one. This is possible whenever a connection is lost
without a TCP close: the ping interval and timeout are 30 s and 60 s
(`node/messaging/websocket-endpoint.ts`), and a client that changes networks
reconnects much earlier. The run `late` shows what it breaks; the run `negotiate`
and four of the theorems say what holds otherwise.

*Abstraction.* `MainChannel` has two variables, the number of the page's latest main
channel and whether its `onClose` has fired. Its `Open` announces one channel or
several, since that is all the code keeps within a turn of the event loop. `Promised`
maps `channels` and `closed` to them.

### ChannelMultiplexer

A channel object is named by its id and the number of the `open` call it answers.
The packets of the code carry the id only; the number travels in the model so that
a property can say which channel a packet was meant for, and no guard reads it.
`Use` holds what channel holders do (`open`, `close`, write), `HandleMessage` the
four packet handlers, `UnderlyingChannelClose` the end of the main channel at one
side. `LateUse` allows a holder to close, or write to, a channel that is closed.
`close()` acts on the id, so such a holder hits whatever was opened under the id
since; the switch is off, the hazard listed.

### RpcProtocol and ReliableCall

`sent[e]` are all messages end `e` committed and `read[e]` how many of the other
end's messages `e` has read. `sendRequest` is two actions, up to its commit and
after it, because a channel may call back during the commit (`Reentrant`), which is
why the code has a `DisposableWrapper`; with `Reentrant = FALSE` nothing comes
between them at that end (`Turn`). `FailToSendRequest` and `FailToAnswer` are
encodings or commits that throw. A request handler may end with a result or an
error, or never. `Close(e)` is the channel's `onClose` at one end; it does not
touch running handlers, as in the code. `SendAfterClose` lets a program send on a
channel it was told is closed.

`ReliableCall` knows a promise, a handler and whether the caller is connected. The
refinement mapping (`Abstract`) reads the promise from `outcome` and the handler's
fate from `running` and from what was sent and read (`HandlerOf`).

### ServiceConnection

*State.* `channel` and `told` are those of `MainChannel`. `listening[p]` is where
`listen()` of path `p` waits: for the first channel, for its open request, or for
nothing any more. `registered` are the `channelHandlers`, opened again on every new
main channel; `pendingOpen` and `openChannels` belong to the current multiplexer;
`proxy[p]` is the main channel of the protocol that the factory's deferred holds.
At the back end, `served` are the channels its multiplexer opened and `running` the
calls under way.

*Actions.* `Listen`, `MainChannelOpens(k)` (a turn announces `k` main channels;
`handleChannelCreated` runs `k` times, and what it and the waiting `listen()` calls open
is opened in promise continuations after the turn, so all on the last multiplexer, where
the second `open()` of a path throws), `MainChannelCloses` (the
multiplexer forgets its pending opens, the protocols reject their calls, the proxies
get a new deferred), `HandleAckOpen` (with the continuations of `open()`),
`HandleReply`, `HandleOpen` (a path without a handler is acknowledged too),
`HandleRequest`, `HandlerEnds`, `Call`. The bound on main channels holds back the end
of the last one, so that liveness is about pages that stay connected in the end.
`DiscardContext` is the back end's end of the context and `Lose` a message that the
connection below loses, which the run `flush` shows to be possible.

### FileWatching

All watches ask for the same path and options, so the service has one current
watcher at a time. `handle` and `answer` are a watch as its provider sees it, from
the call to the watcherId it gets; `requests` the calls on their way to the watcher
process; `watcherOf` the service's `watcherHandles`, `current` its `watchers` entry,
`refsPerClient`, `timers`, `disposed`, `phase` and `native` the state of
`ParcelWatcher` objects. `Start` is the awaited sequence of `start()` (wait for the
path, subscribe, finish), with `disposed` read where the code reads it.
`HandleUnwatch` removes a reference and starts the ten-second timer with the last
one, `DisposalTimeout` is its expiry, `NativeError` and `FailToStart` tell every
client of the watcher. `Disconnect` is a front end that goes away.

### EditorModel

*Data.* A content is a set of edits on a base; base `n` is what the `n`-th change by
somebody else left in the file. A change event toggles edits, so an incremental save
that applies an edit and its undo takes the edit back, or leads from one base to
another, when a load is undone.

*State.* `text`, `undoable` (the earlier texts), `dirty`, `contentChanges`,
`resourceVersion` and `savedAt` (what `bufferSavedVersionId` stands for) are the model's; `fileVersion` is the version of
`FileResource`, which reads advance although the model may not take what was read;
`operations` is the chain behind `pendingOperation`, with each operation's
cancellation token, `step` what the running one awaits and `saving` what a save has
captured. `received` is what a running read has got so far. `changed` is a file change
event on its way. `raced`, `torn`, `undone`, `skipped` and `misapplied` record what the
properties except (section 4).

*Actions.* Edits, undo of edits and of loads, manual and auto saves, reverts and changes by somebody else
come at any moment. `Prepare`, `Validate`, `Write`, `StatWritten` are the stages of a
save, with `ValidateUpdateFails` and `UpdateFails` for the incremental attempt
that falls back to the whole content, and `Overwrite`/`Refuse` for the user's answer
to a dirty write. `UpdateFails` and `WriteFails` strike before the file is written or
after it, when the stat fails or the answer is lost. `ReadContent` and `StatRead` come in
either order, because `FileResource` reads with `ETAG_DISABLED` and
`file-service.ts:964-967` then lets the stat run in parallel with the read; `ReadVersion`
and `Load` complete the sync. `FilesChanged` and
`Synchronize` the reaction to a change event, which waits for the writing lock.

## 3. Runs

| run | what it asks | bounds |
|---|---|---|
| `negotiate` | all negotiation properties, safety, refinement and liveness, in all 12 configurations with quick validators and an Electron one with slow validators | 2 lost connections, 1 user reload, 7 sessions; a message per side in two of the configurations |
| `late` (violated) | a connected context is kept, with late disconnects | 2 lost connections, 5 sessions |
| `flush` (violated) | buffered messages are read | 1 lost connection, 2 messages |
| `channels` | the multiplexer, one opener per id | 2 ids, 2 calls each, 2 packets in flight |
| `both_open` (violated) | no orphaned channel when both ends open an id | 1 id, 2 calls |
| `requests` | RPC safety and the refinement, with tokens, failures, closes, re-entrance and sends after the close | 2 messages, 2 failures |
| `settle` | RPC liveness between a client-only and a server-only end | 2 + 1 messages |
| `services` | paths, proxies and calls over several main channels | 2 paths (1 without a handler), 3 calls, 3 main channels, 1 lost message |
| `watchers` | references, timers, who is told, what is released | 2 clients, 3 watches, 3 watchers, 1 native error |
| `leak` (violated) | a start that was given up is undone | the same, no errors |
| `editor` | saves, syncs, reverts and foreign changes of one file | 1 edit, any undos, 2 saves, 1 revert, 1 foreign change, 1 failed write |
| `unpersisted` (violated) | a clean model has no edits the file lacks | 2 edits, 1 save |

*Why the bounds are enough.* Every shared entry of the negotiation (the context,
the timer, the mark, a listener) is replaced by a second one at most: two lost
connections give an old context, the current one and a timer of each, with a
refused reconnect in between; a third would repeat the second. `EnoughSessions`
checks that `MaxSessions` leaves room for every reconnect the breaks and reloads
cause. Messages travel in the two configurations where they can do most harm. The bound on breaks suffices for
a page to ask for its context twice before a reply comes, so that one reply announces two
channels. Two
calls per channel id let an id live twice, with packets of its first life under way
in its second; two ids show that they do not disturb each other. Requests interact
only through the order of messages in one direction. Three main channels let a path
outlive one while its calls wait for the next, and let two be announced in one turn
after a path was registered; a second path shares the multiplexer.
Three watches of two clients let one client hold a watcher twice while the other
comes and goes, and with as many watchers as watches that bound is never met. One
edit with its undos makes changes before, during or after a save, two saves cancel each
other or follow each other, and one foreign change falls into every gap of a save, a
failed save and a read; a second edit multiplies the states without a new kind of step,
and the theorems have no bound on edits. Most safety properties are moreover
proved for every bound (section 5).

*Deadlock* checking is off in all runs because the systems may stop: a page that
is gone never connects again, a channel closed on both sides carries nothing, a
model that is saved waits for its user, and the bounds end the rest.

*Fairness.* Nothing is assumed of users, of the network or of other programs.
`FrontendConnection`: both event loops handle what arrives, the client reconnects
for ever (socket.io's default), both sides notice a dead connection (its heartbeat)
and a timeout that is not cleared expires. `ChannelMultiplexer`: packets are
handled, and a main channel closed at one end closes at the other. `RpcProtocol`:
messages are handled, `sendRequest` runs to its end, and a channel closed at one end
closes at the other; a request handler need not end, and `EveryRequestSettles` says
so. `ServiceConnection`: packets are handled, handlers end, and the connection layer
brings main channels and announces their ends, which `FrontEndSettlesOrIsStranded`
is about. `FileWatching`: calls and answers arrive, awaited calls of the operating
system come back, timers expire; the path need never exist. `EditorModel`: file
events arrive and awaited reads and writes come back; the user need never answer the
dialog, and the properties except that case.

## 4. What the runs show

*Holds.* A front end that has negotiated and the back end agree on the context,
and the context is attached to the connected socket (`SettledFrontEndIsServed`).
`closeConnection` always finds a connection. A close timeout started by an earlier
disconnect never hits a context whose socket is connected
(`ConnectedContextIsKept`). A mark for close hits only the context whose window set
it, also when the window loads a new page at once (`MarkClosesItsOwnContext`).
Abandoned contexts are discarded. No message is read twice, and messages arrive in their
own context, late messages of the front end excepted: a reply that a handler commits
after its channel's end goes into the connection source's present socket or buffer and so
reaches the next context (`rpc-protocol.ts:231-246`, `ws-connection-source.ts:169`).
No turn announces a main channel before the listeners of the last one have heard of its
end (`ChannelPromiseIsKept`): this is no matter of course, since `connectNewChannel`
fires `onClose` on a channel whose listeners it has disposed, and it is what every
proxy counts on. Within a turn it is not so: one reply to several requests announces
several channels, and nobody hears of the end of any but the last. The service
connections bear this (`EachPathIsOpenedOnce`), because they open their paths only after
the turn. A front end ends up served with one exception: after a refused
reconnect it asks for a new context while `currentChannel` still holds the closed
channel, and when the answer is lost with its session, the next `connect` negotiates
a reconnect, which succeeds, and no channel is ever created (`Stranded`).

A channel id can be closed and reopened while packets of its earlier life travel,
provided one end only opens it. Every request is a reliable call: its handler runs
at most once and its promise tells what came of it; a cancellation reaches its
handler; after a close, what was pending is rejected. A proxy has the protocol of
the current main channel or waits for the next one, and calls settle; the exception
(`Forgotten`) is a `listen()` whose open request was under way when the main channel
closed, because the multiplexer forgets it without rejecting it and the path is then
never registered.

Watches and references agree however requests, releases, failures and departures
cross; a client keeps its watcher or is told; what is given up is released. No save
replaces a version of the file that the user has neither seen nor agreed to lose. The
stated exceptions are changes the code does lose:

- a foreign change between the check of a save and the end of its write (`raced`);
- a foreign change between the content and the version of one read, which leaves an old
  text with a new version (`torn`);
- a load that the user has undone: the model then holds the old text under the version
  of the load, and a save writes it unasked (`undone`);
- a save that `resource.ts:137` takes for done after it was given up between its
  incremental and its full attempt (`skipped`);
- an incremental save whose changes go back over a load and were made to another content
  than the file's, since `contentChanges` outlives loads (`misapplied`).

A dirty model has changes to save, a clean one follows the file, and operations do not
wait for each other for ever.

*Does not hold.* Five statements of the repository's comments and docs are
contradicted by the code; `PROJECT.json` quotes them under "findings".

1. `late`. The disconnect listener of an old socket acts on the channel and on the
   front end id: noticed after the front end reconnected, it detaches the channel
   from the new socket and closes the context, or starts a timeout nobody clears.
2. `flush`. Messages buffered while the socket is down are sent as one packet, of
   which the reader decodes the first message only.
3. `both_open`. The edge case that two comments mention gives each end two channel
   objects, of which the caller holds the one that gets no data.
4. `leak`. `assertNotDisposed` throws before the block that stops a native watcher
   whose owner was disposed of while it started, so the subscription stays.
5. `unpersisted`. An edit made while a save is being written is taken for saved.

## 5. What is proved

All theorems hold for every value of the constants that satisfies the module's
assumption (`BoundsAssumption`, `MultiplexerAssumption`, `RpcAssumption`,
`ServiceAssumption`, `WatchingAssumption`, `EditorAssumption`), so for every bound.

| module | theorems | further conditions |
|---|---|---|
| `FrontendConnection_proofs` | `TypeCorrect`, `PromiseKept` (`Spec => ChannelPromiseIsKept`) | none |
| | `CloseHasConnection`, `ConnectedContextKept`, `MarkedContextsOnly`, `SettledIsServed`, `NobodyWaitsForNothing` | `LateDisconnect = FALSE` |
| `FrontendMessages_proofs` | `NoMessageIsReadTwice` | none |
| | `MessagesAreDeliveredOnce` | `LateDisconnect = FALSE` |
| `ChannelMultiplexer_proofs` | `TypeCorrect` | none |
| | `ChannelsAreNotOrphaned`, `DataMeetsItsWriter`, `EndsAgree` | one end opens each id, `LateUse = FALSE` |
| `RpcProtocol_proofs` | `TypeCorrect`, `ListenersAreReleased`, `SourcesAreReleased`, `CancelComesAfterRequest`, `RepliesFindTheirRequests`, `PendingRequestsAreServed` | none |
| `RpcRefinement_proofs` | `RequestsAreCalls` (`Spec => RequestsAreReliableCalls`) | none |
| `ServiceConnection_proofs` | `TypeCorrect`, `ProxiesFollowTheConnection`, `PathsAreOpenedOnEveryMainChannel` | none |
| `FileWatching_proofs` | `TypeCorrect`, `TimersRunWhileUnused`, `ReferencesAreHandles`, `HeldWatchesAreServed` | none |
| `EditorModel_proofs` | `TypeCorrect`, `VersionsBelongToTheText`, `DirtyModelsHaveChanges`, `ForeignChangesAreKept` | none |

The further conditions are the ones whose absence a violated run, or a listed
hazard, is about.

*FrontendConnection.* `PromiseKept` needs that a turn announces main channels only
while there is none or a closed one. Channels are announced by initial listeners, so `ListenersInv` says when those exist, and
`ReplyInv` that a session carries at most one answer to a negotiation, and none once
its context has become the front end's. The server's side rests on `BackInv`: only
the latest session is live, and if it owns a context, that is the current one, bound
to it, with no timer running (`ContextInv`); a timer that runs is the one
`closeTimeouts` names, for a context that exists (`TimersInv`); the current context
is not disposed of (`DisposedInv`). `MarkedContextsOnly` adds that a mark is there
only while the socket it came on is live and serves the current context (`MarkInv`):
the disconnect of that socket deletes it before anyone else connects. `SettledIsServed` adds what links the two sides
(`ServedInv`): a request or an answer under way has its listener (`RequestInv`,
`AnswerInv`), an initial reply names the context its session created (`NamesInv`), a
socket that negotiated and owns nothing has a refusal on its way (`RefusalInv`), and
a front end whose channel is not closed means the context the back end has
(`AgreementInv`).

`NobodyWaitsForNothing` is the part of the liveness property
`FrontEndSettlesOrIsStranded` that needs no fairness: on a socket that works, a front
end that is neither served nor stranded has a request or an answer on its way. A
session that has not answered still has the request (`AskedInv`, which a slow
validator breaks), one that has answered a page without a channel has the initial
reply under way (`FirstInv`), a context that is being refused is gone for good
(`RefusedInv`), so a channel closed by a refusal is not the back end's and waits for
the next one (`WaitsInv`), also because the page holds no context of a session that
has yet to answer (`HeldInv`).

*FrontendMessages.* That no message is read twice does not depend on who notices a lost
connection first. Each message of a side has a number of its own, at most that side's
count (the `markForClose` calls excepted, which have none), and `OnceInv` follows it:
it is held in one buffer, or travels in one packet of one session, or was read, and
never two of these at once; a flush, a send, a loss and a read each move it once.
That it is read in the context it was written to needs the order of events, since a
packet does not name a context. `PlacesInv` says which context each place stands for:
only the client's latest session carries messages (`LinesInv`), what travels or is
buffered on the server was written in the context that owns the session, unless it is
late (`BufferInv`, `ToServerInv`, `ToClientInv`), the two sides name the owner alike
(`OwnersAgree`), and only the current context is attached to a socket (`AttachedInv`), so
that a late message of the back end goes nowhere but into the buffer of its own context.
The condition is needed: when the server handles an INITIAL_CONNECT that a lost
socket left behind after it has served the next session, it replaces the context the
front end is in, and one reconnect later the messages of one are read in the other.

*ChannelMultiplexer.* `NoOrphanedChannel` and `DataMeetsItsChannel` need an account of
the packets of an id: each is for a call that was made, at the end that may get it
(`PacketsInv`); they travel in the order of their calls (`OrderInv`), none for a
channel older than those its receiver has created (`FreshInv`), and while an Open or
its AckOpen travels the call waits (`WaitingInv`). A waiting call is the last of its id
and nothing is open under it (`PendingInv`), and what is open is the latest that was
created (`CreatedInv`). Since only one end opens an id, a call ends before the next
begins, and every packet of an earlier call is ahead of the first of the next.
`EndsAgreeWhenQuiet` is not inductive, as it says nothing while packets travel;
`AgreementInv` says that whatever one end alone knows is on its way to the other: a
call that waits has its Open or AckOpen under way, and a channel that is open at one
end only has the packet that opens or closes it under way to the other.

*RpcProtocol.* `NoListenerOutlivesRequest` is not inductive, because the end of
`sendRequest` adds a listener when it finds the wrapper; `OwnersInv` adds that
wrappers belong to pending requests. `CancelFollowsRequest` needs `TokensInv`: an
id with a token was sent with a token. `ReplyFindsRequest` rests on `StagesInv`:
as long as end `e` is open, each of its requests is in at most one of three stages
(message unread, handler running, reply unread), in it only once (`OneStage`), and
pending in each (`Tracked`); new ids are free because ids are handed out in order
(`IdsUsed`). All of it is conditional on `e` being open, since `Close(e)` forgets
what is pending while the other end works on. `CommitUnread` and `AdvanceUnread`
say what a commit and a read do to the stages, one lemma follows per move from
stage to stage, and `StagesShrink` covers every other step. `PendingRequestIsServed`
is then inductive with `ReadInv` (no end reads more than was sent): `StagesReply`
supplies that a reply that is read settles its own request.

*RpcRefinement.* The mapping reads the handler's fate from the messages, so the proof
needs that an id is requested once and answered once, by an end whose caller has its
promise (`MessagesInv`), and that running and answered exclude each other and follow
the read request (`Ordered`). These hold whether or not an end is closed, unlike the
stages above. Each action is then a step of one `ReliableCall` and a stutter of all
others; a close is a step of every call of its end.

*ServiceConnection.* The protocol of a proxy follows its channel by induction with
`OpenInv` (nothing is open without a main channel, a path is not both open and
pending, what is open or registered was listened to) and `RequestsInv` (open
requests on their way are for different paths, none of which is served).
`PathsAreOpenedOnEveryMainChannel` adds that no `listen()` waits for a main channel while
there is one and that what is registered is open or pending (`ReadyInv`), and that a
pending path has its request or its answer on the way (`AnswerInv`). For a turn that
announces several channels, `OpensToSend` says that of the calls of `open()` for one path
exactly one does not throw, and `SetToSeqListsOnce` that each of those sends one request.

*FileWatching.* The three properties strengthen each other, with `MadeInv` (watchers
that are not made yet have left no trace, and what the service knows is in use),
`QueueInv` (a watch is asked for once and released only when given up) and
`HandleInv` (a watch has a watcher only after it was asked for). Counting handles of
finite sets is done with the cardinality theorems of the library.

*EditorModel.* Most types follow one action at a time; that the file is written at most
once for each `save()`, each failure and each foreign change (`WritesInv`) does not,
since a queued operation may be cancelled, be asked again, or fail after it has written
and then write a second time: the writes made and the saves that wait in the queue
(`QueueInv`) are together no more than those calls, failures and changes.
`VersionBelongsToText` is what makes the check for dirty writes work: a text older than
the file has an older version. `CapturedInv` says that what a save has captured stays
current, because no load and no other save runs while it has the writing lock, `ReadInv`
that what a read has got belongs together unless it is torn, and `WritingInv` that a
write that goes on takes back nothing that was there when it was checked.
`ForeignChangesAreKept` follows for the one step that replaces the file.

*Only model-checked.* All liveness properties: liveness under fairness and ENABLED, and
induction over data, are beyond the proof system used (`NobodyWaitsForNothing` is what
can be proved of `FrontEndSettlesOrIsStranded`). Every other invariant and action
property of a passing run is stated by a theorem. No module has a RECURSIVE operator.

## 6. What is not modelled

- socket.io is modelled by what the code relies on: ordered, reliable delivery within
  a session, buffering of emits while disconnected, endless reconnection.
- The byte encoding of messages, `onError` events, logging and the URL of the socket.
- Several front ends share nothing but the service's maps, in which each has its own
  entries, so one is modelled.
- Between the `connect` event and the reply to RECONNECT new messages go out at once,
  ahead of the buffered ones (`ws-connection-source.ts:170`): no property speaks of
  the order across a reconnect, which nothing in the repository states.
- `ChannelMultiplexer.dispose()` without a close of the main channel has no caller in
  the repository.
- Notifications of a proxy, a second `listen` of one path, the container a back end
  makes per connection, and error handling of a proxy's target (`proxy-factory.ts:130`).
- File watching: that a client which was told of one failure is told of a later one of
  the same watch (`HeldWatchIsServed` asks for one notice); the events themselves and their
  coalescing; the front end's
  `RemoteFileSystemProvider`, which gives each watch its own id.
- Text models: redo, soft reverts (file moves), encodings, closing an editor, save
  participants, and a read or write of the content that another program sees half done. One consequence of the model that no run reports:
  `contentChanges` outlives a revert (`monaco-editor-model.ts:575`), so after an edit
  and a revert the next incremental save would apply the reverted edit to the file
  again. `DirtyHasChanges` holds regardless, and the consistency of the file's content
  with the text has no property.
- The ping loop of the connection status service, the plugin RPC with its flush after
  close (`plugin-ext/src/common/rpc-protocol.ts:230`), plugin activation, buffers,
  emitters, frames of child processes, the process output buffer, tasks, debug sessions
  and preferences have state worth modelling and are left for later (section 7). The
  rest, listed in `PROJECT.json`, is user interface, configuration, native
  windows, external services or batch tools.

## 7. What is left

1. `BatchingChannel` and the plugin side `RPCProtocolImpl` on top of `RpcProtocol`;
   plugin activation (one activation per plugin, after its dependencies).
2. The ping loop of the connection status service; `AsyncEmitter`,
   `DisposableCollection`.
3. Pure algorithms against reference definitions: write-buffer growth and
   variable-length integers, `BinaryMessagePipe` frames, `MultiRingBuffer`,
   coalescing of file changes.
4. The life cycle of one path of `ServiceConnection` as an abstraction of
   `ChannelMultiplexer`.
