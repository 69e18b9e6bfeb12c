----------------------------- MODULE RpcProtocol ------------------------------
(***************************************************************************)
(* Two RpcProtocol objects (common/message-rpc/rpc-protocol.ts), one at    *)
(* each end of a channel: requests, replies, notifications, cancellation   *)
(* and the close of the channel, which each end is told of on its own.     *)
(*                                                                         *)
(* sent[e] lists all messages end e ever committed to the channel; the     *)
(* other end has read the first read[Other(e)] of them.                    *)
(***************************************************************************)
EXTENDS Naturals, Sequences

CONSTANTS
    MaxMessages,    \* bound: message ids
    MaxFailures,    \* bound: encodings that throw
    Quota,          \* bound: requests and notifications each end's program sends
    Mode,           \* per end: RpcProtocolOptions.mode
    Reentrant,      \* may the channel call back while a message is committed?
    SendAfterClose  \* does a program send on a channel it was told is closed?

Ends == {"left", "right"}
Other(e) == IF e = "left" THEN "right" ELSE "left"

ASSUME RpcAssumption ==
    /\ {MaxMessages, MaxFailures} \subseteq Nat
    /\ Quota \in [Ends -> 0 .. MaxMessages]
    /\ Mode \in [Ends -> {"default", "clientOnly", "serverOnly"}]
    /\ {Reentrant, SendAfterClose} \subseteq BOOLEAN

Ids == 0 .. MaxMessages - 1
None == MaxMessages

RequestTypes == {"Request", "Notification", "Cancel"}
ReplyTypes == {"Reply", "ReplyErr"}

\* A message; "token" says that CANCELLATION_TOKEN_KEY ends the arguments.
Message == [type : RequestTypes \cup ReplyTypes, id : Ids, token : BOOLEAN]

VARIABLES
    \* the requesting side of each end
    nextMessageId,
    pendingRequests,    \* ids with a Deferred
    wrappers,           \* ids in pendingRequestCancellationEventListeners
    subscribed,         \* ids whose cancellation token holds a listener
    sending,            \* id whose sendRequest is past its commit, or None
    withToken,          \* ids of requests that carry a cancellation token
    cancelled,          \* ids whose token was cancelled
    outcome,            \* per id: what the caller's promise has become
    \* the serving side of each end
    running,            \* ids whose request handler runs
    sources,            \* ids in cancellationTokenSources
    \* the channel
    sent, read, closed,
    \* history
    cancelSeen,         \* ids whose token source was cancelled
    lost,               \* ids of requests whose answer could not be encoded
    failures            \* encodings that threw

requesting == <<nextMessageId, pendingRequests, wrappers, subscribed, sending, withToken,
                cancelled, outcome>>
serving == <<running, sources>>
history == <<cancelSeen, lost, failures>>
vars == <<requesting, serving, sent, read, closed, history>>

Outcomes == {"none", "pending", "resolved", "rejected"}

TypeOK ==
    /\ nextMessageId \in [Ends -> 0 .. MaxMessages]
    /\ pendingRequests \in [Ends -> SUBSET Ids]
    /\ wrappers \in [Ends -> SUBSET Ids]
    /\ subscribed \in [Ends -> SUBSET Ids]
    /\ sending \in [Ends -> Ids \cup {None}]
    /\ withToken \in [Ends -> SUBSET Ids]
    /\ cancelled \in [Ends -> SUBSET Ids]
    /\ outcome \in [Ends -> [Ids -> Outcomes]]
    /\ running \in [Ends -> SUBSET Ids]
    /\ sources \in [Ends -> SUBSET Ids]
    /\ sent \in [Ends -> Seq(Message)]
    /\ read \in [Ends -> Nat]
    /\ closed \in [Ends -> BOOLEAN]
    /\ cancelSeen \in [Ends -> SUBSET Ids]
    /\ lost \in [Ends -> SUBSET Ids]
    /\ failures \in Nat

Init ==
    /\ nextMessageId = [e \in Ends |-> 0]
    /\ pendingRequests = [e \in Ends |-> {}]
    /\ wrappers = [e \in Ends |-> {}]
    /\ subscribed = [e \in Ends |-> {}]
    /\ sending = [e \in Ends |-> None]
    /\ withToken = [e \in Ends |-> {}]
    /\ cancelled = [e \in Ends |-> {}]
    /\ outcome = [e \in Ends |-> [id \in Ids |-> "none"]]
    /\ running = [e \in Ends |-> {}]
    /\ sources = [e \in Ends |-> {}]
    /\ sent = [e \in Ends |-> <<>>]
    /\ read = [e \in Ends |-> 0]
    /\ closed = [e \in Ends |-> FALSE]
    /\ cancelSeen = [e \in Ends |-> {}]
    /\ lost = [e \in Ends |-> {}]
    /\ failures = 0

-------------------------------------------------------------------------------
(***************************************************************************)
(* The channel.                                                            *)
(***************************************************************************)
Msg(type, id, token) == [type |-> type, id |-> id, token |-> token]

\* A commit by end e; a closed channel carries nothing any more.
Commit(e, m) == sent' = IF closed[e] THEN sent ELSE [sent EXCEPT ![e] = Append(@, m)]

\* The messages on their way to e, by position, and the next one.
InFlight(e) == {i \in DOMAIN sent[Other(e)] : i > read[e]}
NextMessage(e) == sent[Other(e)][read[e] + 1]

\* JavaScript runs sendRequest to its end before anything else happens at e,
\* unless the channel itself calls back during the commit.
Turn(e) == sending[e] = None \/ Reentrant

\* e reads its next message.
Receives(e, types) ==
    /\ ~closed[e]
    /\ Turn(e)
    /\ InFlight(e) # {}
    /\ NextMessage(e).type \in types

Advance(e) == read' = [read EXCEPT ![e] = @ + 1]

-------------------------------------------------------------------------------
(***************************************************************************)
(* Requesting.                                                             *)
(***************************************************************************)
MaySend(e) ==
    /\ sending[e] = None
    /\ nextMessageId[e] < Quota[e]
    /\ closed[e] => SendAfterClose

\* The entries sendRequest makes for a new id before it writes anything.
Register(e, id) ==
    /\ nextMessageId' = [nextMessageId EXCEPT ![e] = id + 1]
    /\ pendingRequests' = [pendingRequests EXCEPT ![e] = @ \cup {id}]
    /\ wrappers' = [wrappers EXCEPT ![e] = @ \cup {id}]

\* Mutant: CANCELLATION_TOKEN_KEY is not pushed to the arguments.
SendRequestWithoutKey(e, token, early) ==
    LET id == nextMessageId[e]
    IN  /\ MaySend(e)
        /\ early => token
        /\ Register(e, id)
        /\ withToken' = IF token THEN [withToken EXCEPT ![e] = @ \cup {id}] ELSE withToken
        /\ cancelled' = IF early THEN [cancelled EXCEPT ![e] = @ \cup {id}] ELSE cancelled
        /\ outcome' = [outcome EXCEPT ![e][id] = "pending"]
        /\ sending' = [sending EXCEPT ![e] = id]
        /\ Commit(e, Msg("Request", id, FALSE))
        /\ UNCHANGED <<subscribed, serving, read, closed, history>>

\* sendRequest up to its commit, with or without a cancellation token, which
\* may be cancelled already.
SendRequest(e, token, early) ==
    LET id == nextMessageId[e]
    IN  /\ MaySend(e)
        /\ early => token
        /\ Register(e, id)
        /\ withToken' = IF token THEN [withToken EXCEPT ![e] = @ \cup {id}] ELSE withToken
        /\ cancelled' = IF early THEN [cancelled EXCEPT ![e] = @ \cup {id}] ELSE cancelled
        /\ outcome' = [outcome EXCEPT ![e][id] = "pending"]
        /\ sending' = [sending EXCEPT ![e] = id]
        /\ Commit(e, Msg("Request", id, token))
        /\ UNCHANGED <<subscribed, serving, read, closed, history>>

\* sendRequest whose encoding or commit throws: the caller gets the error and
\* no promise, the entries stay.
FailToSendRequest(e) ==
    LET id == nextMessageId[e]
    IN  /\ MaySend(e)
        /\ failures < MaxFailures
        /\ failures' = failures + 1
        /\ Register(e, id)
        /\ UNCHANGED <<subscribed, sending, withToken, cancelled, outcome, serving,
                       sent, read, closed, cancelSeen, lost>>

\* Mutant: the wrapper is set without asking whether it was disposed of.
FinishSendRequestUnwrapped(e) ==
    LET id == sending[e]
    IN  /\ id # None
        /\ sending' = [sending EXCEPT ![e] = None]
        /\ IF id \in withToken[e] /\ id \in cancelled[e]
           THEN Commit(e, Msg("Cancel", id, FALSE)) /\ UNCHANGED subscribed
           ELSE /\ UNCHANGED sent
                /\ subscribed' = IF id \in withToken[e]
                                 THEN [subscribed EXCEPT ![e] = @ \cup {id}] ELSE subscribed
        /\ UNCHANGED <<nextMessageId, pendingRequests, wrappers, withToken, cancelled,
                       outcome, serving, read, closed, history>>

\* Mutant: a token that is cancelled already is only listened to.
FinishSendRequestListening(e) ==
    LET id == sending[e]
    IN  /\ id # None
        /\ sending' = [sending EXCEPT ![e] = None]
        /\ subscribed' = IF id \in withToken[e] /\ id \in wrappers[e]
                         THEN [subscribed EXCEPT ![e] = @ \cup {id}] ELSE subscribed
        /\ UNCHANGED <<nextMessageId, pendingRequests, wrappers, withToken, cancelled,
                       outcome, serving, sent, read, closed, history>>

\* The rest of sendRequest: a token that is cancelled already cancels the
\* request, another one is listened to unless the wrapper was disposed of.
FinishSendRequest(e) ==
    LET id == sending[e]
    IN  /\ id # None
        /\ sending' = [sending EXCEPT ![e] = None]
        /\ IF id \in withToken[e] /\ id \in cancelled[e]
           THEN Commit(e, Msg("Cancel", id, FALSE)) /\ UNCHANGED subscribed
           ELSE /\ UNCHANGED sent
                /\ subscribed' = IF id \in withToken[e] /\ id \in wrappers[e]
                                 THEN [subscribed EXCEPT ![e] = @ \cup {id}] ELSE subscribed
        /\ UNCHANGED <<nextMessageId, pendingRequests, wrappers, withToken, cancelled,
                       outcome, serving, read, closed, history>>

\* sendNotification without a token (with one it is sendRequest).
SendNotification(e) ==
    /\ MaySend(e)
    /\ nextMessageId' = [nextMessageId EXCEPT ![e] = @ + 1]
    /\ Commit(e, Msg("Notification", nextMessageId[e], FALSE))
    /\ UNCHANGED <<pendingRequests, wrappers, subscribed, sending, withToken, cancelled,
                   outcome, serving, read, closed, history>>

\* The caller cancels the token of request id; a listener sends the cancel.
CancelToken(e, id) ==
    /\ Turn(e)
    /\ id \in withToken[e] \ cancelled[e]
    /\ cancelled' = [cancelled EXCEPT ![e] = @ \cup {id}]
    /\ IF id \in subscribed[e]
       THEN Commit(e, Msg("Cancel", id, FALSE))
       ELSE UNCHANGED sent
    /\ UNCHANGED <<nextMessageId, pendingRequests, wrappers, subscribed, sending, withToken,
                   outcome, serving, read, closed, history>>

\* disposeCancellationEventListener.
DisposeCancellationEventListener(e, id) ==
    /\ wrappers' = [wrappers EXCEPT ![e] = @ \ {id}]
    /\ subscribed' = [subscribed EXCEPT ![e] = @ \ {id}]

\* Mutant: the promise is left with the reply's message type.
HandleReplyUntranslated(e) ==
    LET m == NextMessage(e)
    IN  /\ Receives(e, ReplyTypes)
        /\ Mode[e] # "serverOnly"
        /\ Advance(e)
        /\ m.id \in pendingRequests[e]
        /\ pendingRequests' = [pendingRequests EXCEPT ![e] = @ \ {m.id}]
        /\ outcome' = [outcome EXCEPT ![e][m.id] = m.type]
        /\ DisposeCancellationEventListener(e, m.id)
        /\ UNCHANGED <<nextMessageId, sending, withToken, cancelled, serving, sent, closed, history>>

\* handleReply and handleReplyErr; without a reply handler they throw.
HandleReply(e) ==
    LET m == NextMessage(e)
    IN  /\ Receives(e, ReplyTypes)
        /\ Mode[e] # "serverOnly"
        /\ Advance(e)
        /\ IF m.id \in pendingRequests[e]
           THEN /\ pendingRequests' = [pendingRequests EXCEPT ![e] = @ \ {m.id}]
                /\ outcome' = [outcome EXCEPT ![e][m.id] =
                       IF m.type = "Reply" THEN "resolved" ELSE "rejected"]
                /\ DisposeCancellationEventListener(e, m.id)
           ELSE UNCHANGED <<pendingRequests, outcome, wrappers, subscribed>>
        /\ UNCHANGED <<nextMessageId, sending, withToken, cancelled, serving, sent, closed, history>>

-------------------------------------------------------------------------------
(***************************************************************************)
(* Serving.                                                                *)
(***************************************************************************)

\* handleRequest up to its await.
HandleRequest(e) ==
    LET m == NextMessage(e)
    IN  /\ Receives(e, {"Request"})
        /\ Mode[e] # "clientOnly"
        /\ Advance(e)
        /\ running' = [running EXCEPT ![e] = @ \cup {m.id}]
        /\ sources' = IF m.token THEN [sources EXCEPT ![e] = @ \cup {m.id}] ELSE sources
        /\ UNCHANGED <<requesting, sent, closed, history>>

\* Mutant: the error path answers a request that was answered.
AnswerAgain(e, id, type) ==
    /\ Turn(e)
    /\ id \in running[e]
    /\ running' = [running EXCEPT ![e] = IF type = "Reply" THEN @ ELSE @ \ {id}]
    /\ sources' = [sources EXCEPT ![e] = @ \ {id}]
    /\ Commit(e, Msg(type, id, FALSE))
    /\ UNCHANGED <<requesting, read, closed, history>>

\* Mutant: the error path keeps the token source.
AnswerKeepsSource(e, id, type) ==
    /\ Turn(e)
    /\ id \in running[e]
    /\ running' = [running EXCEPT ![e] = @ \ {id}]
    /\ sources' = [sources EXCEPT ![e] = IF type = "Reply" THEN @ \ {id} ELSE @]
    /\ Commit(e, Msg(type, id, FALSE))
    /\ UNCHANGED <<requesting, read, closed, history>>

\* The handler of request id is over, with a result or an error, or with a
\* result whose encoding throws and becomes an error.
Answer(e, id, type) ==
    /\ Turn(e)
    /\ id \in running[e]
    /\ running' = [running EXCEPT ![e] = @ \ {id}]
    /\ sources' = [sources EXCEPT ![e] = @ \ {id}]
    /\ Commit(e, Msg(type, id, FALSE))
    /\ UNCHANGED <<requesting, read, closed, history>>

\* The error's own encoding throws: nothing is answered.
FailToAnswer(e, id) ==
    /\ Turn(e)
    /\ id \in running[e]
    /\ failures < MaxFailures
    /\ failures' = failures + 1
    /\ lost' = [lost EXCEPT ![e] = @ \cup {id}]
    /\ running' = [running EXCEPT ![e] = @ \ {id}]
    /\ sources' = [sources EXCEPT ![e] = @ \ {id}]
    /\ UNCHANGED <<requesting, sent, read, closed, cancelSeen>>

\* Mutant: a cancelled request is dropped without an answer.
HandleCancelDropsRequest(e) ==
    /\ Receives(e, {"Cancel"})
    /\ Mode[e] # "clientOnly"
    /\ Advance(e)
    /\ running' = [running EXCEPT ![e] = @ \ {NextMessage(e).id}]
    /\ sources' = [sources EXCEPT ![e] = @ \ {NextMessage(e).id}]
    /\ UNCHANGED <<requesting, sent, closed, history>>

\* handleCancel.
HandleCancel(e) ==
    /\ Receives(e, {"Cancel"})
    /\ Mode[e] # "clientOnly"
    /\ Advance(e)
    /\ cancelSeen' = [cancelSeen EXCEPT ![e] = @ \cup (sources[e] \cap {NextMessage(e).id})]
    /\ UNCHANGED <<requesting, serving, sent, closed, lost, failures>>

\* handleNotify: listeners are called, which is nothing to this protocol.
HandleNotify(e) ==
    /\ Receives(e, {"Notification"})
    /\ Mode[e] # "clientOnly"
    /\ Advance(e)
    /\ UNCHANGED <<requesting, serving, sent, closed, history>>

\* A message that does not fit the mode is dropped with a warning.
DropIncompatible(e) ==
    /\ Receives(e, IF Mode[e] = "clientOnly" THEN RequestTypes
                   ELSE IF Mode[e] = "serverOnly" THEN ReplyTypes ELSE {})
    /\ Advance(e)
    /\ UNCHANGED <<requesting, serving, sent, closed, history>>

\* Mutant: what is pending is cleared but not rejected.
CloseWithoutReject(e) ==
    /\ ~closed[e]
    /\ Turn(e)
    /\ closed' = [closed EXCEPT ![e] = TRUE]
    /\ pendingRequests' = [pendingRequests EXCEPT ![e] = {}]
    /\ wrappers' = [wrappers EXCEPT ![e] = {}]
    /\ subscribed' = [subscribed EXCEPT ![e] = {}]
    /\ UNCHANGED <<nextMessageId, sending, withToken, cancelled, outcome, serving, sent, read,
                   history>>

\* The channel's onClose: what is pending is rejected, listeners are let go.
\* Handlers that run are neither cancelled nor forgotten.
Close(e) ==
    /\ ~closed[e]
    /\ Turn(e)
    /\ closed' = [closed EXCEPT ![e] = TRUE]
    /\ outcome' = [outcome EXCEPT ![e] = [id \in Ids |->
           IF id \in pendingRequests[e] /\ @[id] = "pending" THEN "rejected" ELSE @[id]]]
    /\ pendingRequests' = [pendingRequests EXCEPT ![e] = {}]
    /\ wrappers' = [wrappers EXCEPT ![e] = {}]
    /\ subscribed' = [subscribed EXCEPT ![e] = {}]
    /\ UNCHANGED <<nextMessageId, sending, withToken, cancelled, serving, sent, read, history>>

-------------------------------------------------------------------------------
HandleMessage(e) ==
    HandleReply(e) \/ HandleRequest(e) \/ HandleCancel(e) \/ HandleNotify(e) \/ DropIncompatible(e)

Finish(e, id) == \E type \in ReplyTypes : Answer(e, id, type)

Use(e) ==
    \/ \E token, early \in BOOLEAN : SendRequest(e, token, early)
    \/ FailToSendRequest(e)
    \/ FinishSendRequest(e)
    \/ SendNotification(e)
    \/ \E id \in Ids : CancelToken(e, id)

Serve(e) == \E id \in Ids : Finish(e, id) \/ FailToAnswer(e, id)

Next == \E e \in Ends : HandleMessage(e) \/ Use(e) \/ Serve(e) \/ Close(e)

Spec == Init /\ [][Next]_vars

\* The channel delivers, sendRequest runs to its end, and a channel closed at
\* one end closes at the other.  Nothing makes a request handler end.
TransportFairness ==
    \A e \in Ends : /\ WF_vars(HandleMessage(e))
                    /\ WF_vars(FinishSendRequest(e))
                    /\ WF_vars(closed[Other(e)] /\ Close(e))

FairSpec == Spec /\ TransportFairness

-------------------------------------------------------------------------------
(***************************************************************************)
(* Properties.                                                             *)
(***************************************************************************)

\* handleReply and handleReplyErr never throw "No reply handler": a reply that
\* is read belongs to a request that is still pending (rpc-protocol.ts:129-149),
\* and no request is answered twice.
ReplyFindsRequest ==
    \A e \in Ends :
        (~closed[e] /\ InFlight(e) # {} /\ NextMessage(e).type \in ReplyTypes)
            => NextMessage(e).id \in pendingRequests[e]

\* A cancellation token holds a listener of a request only while the request is
\* pending, also when the answer or the close comes during the commit
\* (the DisposableWrapper of rpc-protocol.ts:173-175).
NoListenerOutlivesRequest ==
    \A e \in Ends : subscribed[e] \subseteq pendingRequests[e]

\* A token source lives no longer than the handler it was made for
\* (rpc-protocol.ts:233 and :243).
NoSourceOutlivesHandler ==
    \A e \in Ends : sources[e] \subseteq running[e]

\* The two modes let e's requests be served and their replies be read.
ModesFit(e) == Mode[e] # "serverOnly" /\ Mode[Other(e)] # "clientOnly"

\* Outstanding requests are kept track of (class comment, rpc-protocol.ts:52): as
\* long as neither end is closed, a request its caller waits for is on its way,
\* running or its answer is, unless that could not be encoded.
PendingRequestIsServed ==
    \A e \in Ends : \A id \in Ids :
        (outcome[e][id] = "pending" /\ ModesFit(e) /\ ~closed[e] /\ ~closed[Other(e)])
            => \/ \E i \in InFlight(Other(e)) : sent[e][i] \in {Msg("Request", id, FALSE), Msg("Request", id, TRUE)}
               \/ id \in running[Other(e)] \cup lost[Other(e)]
               \/ \E i \in InFlight(e) : sent[Other(e)][i].id = id /\ sent[Other(e)][i].type \in ReplyTypes

\* A cancel follows the request it is about, which carried a token, so that
\* handleCancel finds the request's source or finds the request answered.
CancelFollowsRequest ==
    \A e \in Ends : \A i \in DOMAIN sent[e] :
        sent[e][i].type = "Cancel"
            => \E j \in 1 .. i - 1 : sent[e][j] = Msg("Request", sent[e][i].id, TRUE)

\* What has become of the handler of e's request id.
RequestIsRead(e, id) ==
    \E i \in DOMAIN sent[e] :
        i <= read[Other(e)] /\ sent[e][i].type = "Request" /\ sent[e][i].id = id

Replied(e, id, type) ==
    \E i \in DOMAIN sent[Other(e)] : sent[Other(e)][i].type = type /\ sent[Other(e)][i].id = id

HandlerOf(e, id) ==
    IF id \in running[Other(e)] THEN "runs"
    ELSE IF Replied(e, id, "Reply") THEN "result"
    ELSE IF Replied(e, id, "ReplyErr") THEN "error"
    ELSE IF RequestIsRead(e, id) THEN "silent" ELSE "none"

Abstract(e, id) ==
    INSTANCE ReliableCall
        WITH promise <- outcome[e][id], handler <- HandlerOf(e, id), connected <- ~closed[e]

\* Every request is a reliable call: whatever is interleaved with it (other
\* requests, cancels, a failed encoding, a close in the middle of a commit), its
\* handler runs at most once, and its promise is resolved only by a result and
\* rejected only by an error or by the close.  (This is Abstract(e, id)!Spec for
\* every e and id; the quantifiers are moved inwards for TLC.)
RequestsAreReliableCalls ==
    /\ \A e \in Ends, id \in Ids : Abstract(e, id)!Init
    /\ [][\A e \in Ends, id \in Ids :
            [Abstract(e, id)!Next]_<<outcome[e][id], HandlerOf(e, id), ~closed[e]>>]_vars

\* "a promise for a remote request result that will be either resolved or
\* rejected" (rpc-protocol.ts:51-52), unless the handler never comes to an end.
EveryRequestSettles ==
    \A e \in Ends : \A id \in Ids :
        (outcome[e][id] = "pending" /\ ModesFit(e))
            ~> (outcome[e][id] \in {"resolved", "rejected"} \/ [](id \in running[Other(e)]))

\* Cancelling the token of a request reaches the handler that serves it, unless
\* the handler is done before or the channel closes.
CancellationReachesHandler ==
    \A e \in Ends : \A id \in Ids :
        (id \in cancelled[e] /\ outcome[e][id] = "pending" /\ ModesFit(e))
            ~> (id \in cancelSeen[Other(e)] \cup lost[Other(e)] \/ outcome[e][id] # "pending"
                   \/ closed[e] \/ closed[Other(e)])

===============================================================================
