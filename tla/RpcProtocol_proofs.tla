--------------------------- MODULE RpcProtocol_proofs --------------------------
(***************************************************************************)
(* Theorems about RpcProtocol, for every number of messages and failures,  *)
(* every pair of modes, and programs and channels of every kind.           *)
(***************************************************************************)
EXTENDS RpcProtocol, TLAPS

(***************************************************************************)
(* The inductive invariant.  A request of e that e still awaits goes       *)
(* through three stages: its message is unread, its handler runs, its      *)
(* reply is unread.                                                        *)
(***************************************************************************)
UnreadRequests(e) == {i \in InFlight(Other(e)) : sent[e][i].type = "Request"}
UnreadReplies(e) == {i \in InFlight(e) : sent[Other(e)][i].type \in ReplyTypes}

\* A request in any of the stages is pending.
Tracked(e) ==
    /\ \A i \in UnreadRequests(e) : sent[e][i].id \in pendingRequests[e]
    /\ running[Other(e)] \subseteq pendingRequests[e]
    /\ \A i \in UnreadReplies(e) : sent[Other(e)][i].id \in pendingRequests[e]

\* A request is in one stage at a time, and in it only once.
OneStage(e) ==
    /\ \A i, j \in UnreadRequests(e) : sent[e][i].id = sent[e][j].id => i = j
    /\ \A i, j \in UnreadReplies(e) : sent[Other(e)][i].id = sent[Other(e)][j].id => i = j
    /\ \A i \in UnreadRequests(e), j \in UnreadReplies(e) : sent[e][i].id # sent[Other(e)][j].id
    /\ \A i \in UnreadRequests(e) : sent[e][i].id \notin running[Other(e)]
    /\ \A i \in UnreadReplies(e) : sent[Other(e)][i].id \notin running[Other(e)]

\* Ids are handed out in order.
IdsUsed(e) == \A id \in pendingRequests[e] : id < nextMessageId[e]

StagesInv == \A e \in Ends : IdsUsed(e) /\ (~closed[e] => Tracked(e) /\ OneStage(e))

\* What a wrapper or a source belongs to is still there.
OwnersInv == \A e \in Ends :
    /\ wrappers[e] \subseteq pendingRequests[e]
    /\ subscribed[e] \subseteq pendingRequests[e]
    /\ sources[e] \subseteq running[e]

\* A request that carries a token was sent with one, unless the channel is closed.
TokensInv == \A e \in Ends : ~closed[e] =>
    \A id \in withToken[e] : \E i \in DOMAIN sent[e] : sent[e][i] = Msg("Request", id, TRUE)

-------------------------------------------------------------------------------
LEMMA OtherEnd == ASSUME NEW e \in Ends PROVE Other(e) \in Ends /\ Other(Other(e)) = e /\ Other(e) # e
  BY DEF Ends, Other

\* What e receives is the first message it has not read, of the awaited types.
LEMMA ReceivedMessage ==
    ASSUME TypeOK, NEW e \in Ends, NEW types, Receives(e, types)
    PROVE  /\ read[e] \in Nat
           /\ read[e] + 1 \in DOMAIN sent[Other(e)]
           /\ NextMessage(e) \in Message
           /\ NextMessage(e).type \in types
           /\ NextMessage(e).id \in Ids
  <1>1. Other(e) \in Ends
    BY OtherEnd
  <1>2. sent[Other(e)] \in Seq(Message) /\ read[e] \in Nat
    BY <1>1 DEF TypeOK
  <1>3. PICK i \in DOMAIN sent[Other(e)] : i > read[e]
    BY DEF Receives, InFlight
  <1>4. read[e] + 1 \in 1 .. Len(sent[Other(e)])
    BY <1>2, <1>3
  <1>5. NextMessage(e) \in Message
    BY <1>2, <1>4 DEF NextMessage
  <1> QED
    BY <1>2, <1>4, <1>5 DEF Receives, Message

\* A commit keeps what was sent and adds at most the message, at the end.
LEMMA CommitAppends ==
    ASSUME TypeOK, NEW e \in Ends, NEW m \in Message, Commit(e, m)
    PROVE  /\ sent' \in [Ends -> Seq(Message)]
           /\ \A d \in Ends : d # e => sent'[d] = sent[d]
           /\ closed[e] => sent' = sent
           /\ ~closed[e] => /\ DOMAIN sent'[e] = DOMAIN sent[e] \cup {Len(sent[e]) + 1}
                            /\ sent'[e][Len(sent[e]) + 1] = m
           /\ \A i \in DOMAIN sent[e] : i \in DOMAIN sent'[e] /\ sent'[e][i] = sent[e][i]
  <1>1. sent[e] \in Seq(Message) /\ sent \in [Ends -> Seq(Message)]
    BY DEF TypeOK
  <1>2. CASE closed[e]
    BY <1>1, <1>2 DEF Commit
  <1>3. CASE ~closed[e]
    <2>1. sent' = [sent EXCEPT ![e] = Append(sent[e], m)]
      BY <1>3 DEF Commit
    <2>2. sent'[e] = Append(sent[e], m)
      BY <2>1, <1>1
    <2>3. Append(sent[e], m) \in Seq(Message)
      BY <1>1
    <2>4. Len(sent'[e]) = Len(sent[e]) + 1 /\ DOMAIN sent'[e] = 1 .. Len(sent[e]) + 1
      BY <1>1, <2>2, <2>3
    <2>5. DOMAIN sent[e] = 1 .. Len(sent[e]) /\ Len(sent[e]) \in Nat
      BY <1>1
    <2>6. \A i \in 1 .. Len(sent[e]) : sent'[e][i] = sent[e][i]
      BY <1>1, <2>2
    <2>7. sent'[e][Len(sent[e]) + 1] = m
      BY <1>1, <2>2
    <2>8. DOMAIN sent'[e] = DOMAIN sent[e] \cup {Len(sent[e]) + 1}
      BY <2>4, <2>5
    <2>9. sent' \in [Ends -> Seq(Message)] /\ \A d \in Ends : d # e => sent'[d] = sent[d]
      BY <1>1, <2>1, <2>3
    <2> QED
      BY <1>3, <2>5, <2>6, <2>7, <2>8, <2>9
  <1> QED
    BY <1>2, <1>3

LEMMA MsgIsMessage ==
    ASSUME NEW type \in RequestTypes \cup ReplyTypes, NEW id \in Ids, NEW token \in BOOLEAN
    PROVE  Msg(type, id, token) \in Message
  BY DEF Msg, Message

-------------------------------------------------------------------------------
(***************************************************************************)
(* Type correctness.                                                       *)
(***************************************************************************)

\* An id that MaySend allows to hand out.
LEMMA NextIdIsFree ==
    ASSUME TypeOK, NEW e \in Ends, MaySend(e)
    PROVE  /\ nextMessageId[e] \in Ids
           /\ nextMessageId[e] + 1 \in 0 .. MaxMessages
  BY RpcAssumption DEF TypeOK, MaySend, Ids

LEMMA TypeOKInit == Init => TypeOK
  BY RpcAssumption DEF Init, TypeOK, Ends, Ids, None, Outcomes

LEMMA TypeOKNext == TypeOK /\ [Next]_vars => TypeOK'
  <1> SUFFICES ASSUME TypeOK, [Next]_vars PROVE TypeOK'
    OBVIOUS
  <1> USE DEF TypeOK
  <1>1. ASSUME NEW e \in Ends, HandleReply(e) PROVE TypeOK'
    <2>1. NextMessage(e).id \in Ids /\ read[e] \in Nat
      BY <1>1, ReceivedMessage DEF HandleReply
    <2>2. outcome' = outcome \/ \E o \in Outcomes : outcome' = [outcome EXCEPT ![e][NextMessage(e).id] = o]
      BY <1>1 DEF HandleReply, Outcomes
    <2>3. outcome' \in [Ends -> [Ids -> Outcomes]]
      <3>1. outcome \in [Ends -> [Ids -> Outcomes]]
        OBVIOUS
      <3>2. ASSUME NEW o \in Outcomes, outcome' = [outcome EXCEPT ![e][NextMessage(e).id] = o]
            PROVE  outcome' \in [Ends -> [Ids -> Outcomes]]
        <4>1. [outcome[e] EXCEPT ![NextMessage(e).id] = o] \in [Ids -> Outcomes]
          BY <2>1, <3>1
        <4> QED
          BY <3>1, <3>2, <4>1
      <3> QED
        BY <2>2, <3>1, <3>2
    <2>4. /\ pendingRequests' \in [Ends -> SUBSET Ids]
          /\ wrappers' \in [Ends -> SUBSET Ids]
          /\ subscribed' \in [Ends -> SUBSET Ids]
      <3>1. CASE UNCHANGED <<pendingRequests, wrappers, subscribed>>
        BY <3>1
      <3>2. CASE /\ pendingRequests' = [pendingRequests EXCEPT ![e] = @ \ {NextMessage(e).id}]
                 /\ DisposeCancellationEventListener(e, NextMessage(e).id)
        BY <3>2 DEF DisposeCancellationEventListener
      <3> QED
        BY <1>1, <3>1, <3>2 DEF HandleReply
    <2>5. Advance(e) /\ UNCHANGED <<nextMessageId, sending, withToken, cancelled, serving, sent, closed, history>>
      BY <1>1 DEF HandleReply
    <2> QED
      BY <2>1, <2>3, <2>4, <2>5 DEF Advance, serving, history
  <1>2. ASSUME NEW e \in Ends, HandleRequest(e) PROVE TypeOK'
    <2>1. NextMessage(e).id \in Ids /\ read[e] \in Nat
      BY <1>2, ReceivedMessage DEF HandleRequest
    <2> QED
      BY <1>2, <2>1 DEF HandleRequest, Advance, requesting, history
  <1>3. ASSUME NEW e \in Ends, HandleCancel(e) PROVE TypeOK'
    <2>1. NextMessage(e).id \in Ids /\ read[e] \in Nat
      BY <1>3, ReceivedMessage DEF HandleCancel
    <2> QED
      BY <1>3, <2>1 DEF HandleCancel, Advance, requesting, serving
  <1>4. ASSUME NEW e \in Ends, HandleNotify(e) \/ DropIncompatible(e) PROVE TypeOK'
    <2>1. Advance(e) /\ UNCHANGED <<requesting, serving, sent, closed, history>>
      BY <1>4 DEF HandleNotify, DropIncompatible
    <2> QED
      BY <2>1 DEF Advance, requesting, serving, history
  <1>5. ASSUME NEW e \in Ends, NEW token \in BOOLEAN, NEW early \in BOOLEAN, SendRequest(e, token, early)
        PROVE  TypeOK'
    <2>1. nextMessageId[e] \in Ids /\ nextMessageId[e] + 1 \in 0 .. MaxMessages
      BY <1>5, NextIdIsFree DEF SendRequest
    <2>2. Msg("Request", nextMessageId[e], token) \in Message
      BY <2>1, MsgIsMessage DEF RequestTypes
    <2>3. sent' \in [Ends -> Seq(Message)]
      BY <1>5, <2>2, CommitAppends DEF SendRequest
    <2>4. /\ nextMessageId' \in [Ends -> 0 .. MaxMessages]
          /\ pendingRequests' \in [Ends -> SUBSET Ids]
          /\ wrappers' \in [Ends -> SUBSET Ids]
          /\ sending' \in [Ends -> Ids \cup {None}]
      BY <1>5, <2>1 DEF SendRequest, Register
    <2>5. withToken' \in [Ends -> SUBSET Ids] /\ cancelled' \in [Ends -> SUBSET Ids]
      BY <1>5, <2>1 DEF SendRequest
    <2>6. outcome' \in [Ends -> [Ids -> Outcomes]]
      BY <1>5, <2>1 DEF SendRequest, Outcomes
    <2>7. UNCHANGED <<subscribed, serving, read, closed, history>>
      BY <1>5 DEF SendRequest
    <2> QED
      BY <2>3, <2>4, <2>5, <2>6, <2>7 DEF serving, history
  <1>6. ASSUME NEW e \in Ends, FailToSendRequest(e) PROVE TypeOK'
    <2>1. nextMessageId[e] \in Ids /\ nextMessageId[e] + 1 \in 0 .. MaxMessages
      BY <1>6, NextIdIsFree DEF FailToSendRequest
    <2> QED
      BY <1>6, <2>1 DEF FailToSendRequest, Register, serving
  <1>7. ASSUME NEW e \in Ends, FinishSendRequest(e) PROVE TypeOK'
    <2>1. sending[e] \in Ids
      BY <1>7 DEF FinishSendRequest
    <2>2. Msg("Cancel", sending[e], FALSE) \in Message
      BY <2>1, MsgIsMessage DEF RequestTypes
    <2>3. sent' \in [Ends -> Seq(Message)]
      BY <1>7, <2>2, CommitAppends DEF FinishSendRequest
    <2>4. subscribed' = subscribed \/ subscribed' = [subscribed EXCEPT ![e] = @ \cup {sending[e]}]
      BY <1>7 DEF FinishSendRequest
    <2>5. /\ sending' = [sending EXCEPT ![e] = None]
          /\ UNCHANGED <<nextMessageId, pendingRequests, wrappers, withToken, cancelled,
                         outcome, serving, read, closed, history>>
      BY <1>7 DEF FinishSendRequest
    <2>6. subscribed' \in [Ends -> SUBSET Ids]
      <3>1. CASE subscribed' = subscribed
        BY <3>1
      <3>2. CASE subscribed' = [subscribed EXCEPT ![e] = @ \cup {sending[e]}]
        BY <2>1, <3>2
      <3> QED
        BY <2>4, <3>1, <3>2
    <2>7. sending' \in [Ends -> Ids \cup {None}]
      BY <2>5
    <2> QED
      BY <2>3, <2>5, <2>6, <2>7 DEF serving, history
  <1>8. ASSUME NEW e \in Ends, SendNotification(e) PROVE TypeOK'
    <2>1. nextMessageId[e] \in Ids /\ nextMessageId[e] + 1 \in 0 .. MaxMessages
      BY <1>8, NextIdIsFree DEF SendNotification
    <2>2. Msg("Notification", nextMessageId[e], FALSE) \in Message
      BY <2>1, MsgIsMessage DEF RequestTypes
    <2>3. sent' \in [Ends -> Seq(Message)]
      BY <1>8, <2>2, CommitAppends DEF SendNotification
    <2> QED
      BY <1>8, <2>1, <2>3 DEF SendNotification, serving, history
  <1>9. ASSUME NEW e \in Ends, NEW id \in Ids, CancelToken(e, id) PROVE TypeOK'
    <2>1. Msg("Cancel", id, FALSE) \in Message
      BY MsgIsMessage DEF RequestTypes
    <2>2. sent' \in [Ends -> Seq(Message)]
      BY <1>9, <2>1, CommitAppends DEF CancelToken
    <2> QED
      BY <1>9, <2>2 DEF CancelToken, serving, history
  <1>10. ASSUME NEW e \in Ends, NEW id \in Ids, NEW type \in ReplyTypes, Answer(e, id, type) PROVE TypeOK'
    <2>1. Msg(type, id, FALSE) \in Message
      BY MsgIsMessage
    <2>2. sent' \in [Ends -> Seq(Message)]
      BY <1>10, <2>1, CommitAppends DEF Answer
    <2> QED
      BY <1>10, <2>2 DEF Answer, requesting, history
  <1>11. ASSUME NEW e \in Ends, NEW id \in Ids, FailToAnswer(e, id) PROVE TypeOK'
    BY <1>11 DEF FailToAnswer, requesting
  <1>12. ASSUME NEW e \in Ends, Close(e) PROVE TypeOK'
    BY <1>12 DEF Close, serving, history, Outcomes
  <1>13. CASE UNCHANGED vars
    BY <1>13 DEF vars, requesting, serving, history
  <1> QED
    BY <1>1, <1>2, <1>3, <1>4, <1>5, <1>6, <1>7, <1>8, <1>9, <1>10, <1>11, <1>12, <1>13
       DEF Next, HandleMessage, Use, Serve, Finish

\* The state is of its type, in particular a promise is never left with
\* anything but a result or an error (handleReply, handleReplyErr, onClose).
THEOREM TypeCorrect == Spec => []TypeOK
  BY TypeOKInit, TypeOKNext, PTL DEF Spec

-------------------------------------------------------------------------------
(***************************************************************************)
(* Listeners and token sources go with what they belong to.                *)
(***************************************************************************)
LEMMA OwnersInvInit == Init => OwnersInv
  BY DEF Init, OwnersInv

LEMMA OwnersInvNext == TypeOK /\ OwnersInv /\ [Next]_vars => OwnersInv'
  <1> SUFFICES ASSUME TypeOK, OwnersInv, [Next]_vars, NEW d \in Ends
               PROVE  /\ wrappers'[d] \subseteq pendingRequests'[d]
                      /\ subscribed'[d] \subseteq pendingRequests'[d]
                      /\ sources'[d] \subseteq running'[d]
    BY DEF OwnersInv
  <1> DEFINE Goal == /\ wrappers'[d] \subseteq pendingRequests'[d]
                     /\ subscribed'[d] \subseteq pendingRequests'[d]
                     /\ sources'[d] \subseteq running'[d]
  <1>a. /\ wrappers[d] \subseteq pendingRequests[d]
        /\ subscribed[d] \subseteq pendingRequests[d]
        /\ sources[d] \subseteq running[d]
    BY DEF OwnersInv
  <1>b. /\ wrappers \in [Ends -> SUBSET Ids]
        /\ pendingRequests \in [Ends -> SUBSET Ids]
        /\ subscribed \in [Ends -> SUBSET Ids]
        /\ sources \in [Ends -> SUBSET Ids]
        /\ running \in [Ends -> SUBSET Ids]
    BY DEF TypeOK
  \* The steps that change none of the five.
  <1>c. ASSUME UNCHANGED <<wrappers, subscribed, pendingRequests, serving>> PROVE Goal
    BY <1>a, <1>c DEF serving
  \* The requesting side.
  <1>1. ASSUME NEW e \in Ends, HandleReply(e) PROVE Goal
    <2>1. UNCHANGED serving
      BY <1>1 DEF HandleReply
    <2>2. CASE /\ pendingRequests' = [pendingRequests EXCEPT ![e] = @ \ {NextMessage(e).id}]
               /\ DisposeCancellationEventListener(e, NextMessage(e).id)
      BY <1>a, <1>b, <2>1, <2>2 DEF DisposeCancellationEventListener, serving
    <2>3. CASE UNCHANGED <<pendingRequests, wrappers, subscribed>>
      BY <1>c, <2>1, <2>3
    <2> QED
      BY <1>1, <2>2, <2>3 DEF HandleReply
  <1>2. ASSUME NEW e \in Ends, NEW id, Register(e, id), UNCHANGED <<subscribed, serving>> PROVE Goal
    BY <1>a, <1>b, <1>2 DEF Register, serving
  <1>3. ASSUME NEW e \in Ends, NEW token, NEW early, SendRequest(e, token, early) PROVE Goal
    BY <1>2, <1>3 DEF SendRequest
  <1>4. ASSUME NEW e \in Ends, FailToSendRequest(e) PROVE Goal
    BY <1>2, <1>4 DEF FailToSendRequest
  <1>5. ASSUME NEW e \in Ends, FinishSendRequest(e) PROVE Goal
    <2>1. UNCHANGED <<pendingRequests, wrappers, serving>>
      BY <1>5 DEF FinishSendRequest
    <2>2. CASE sending[e] \in wrappers[e] /\ subscribed' = [subscribed EXCEPT ![e] = @ \cup {sending[e]}]
      <3>1. sending[e] \in pendingRequests[e]
        BY <2>2 DEF OwnersInv
      <3> QED
        BY <1>a, <1>b, <2>1, <2>2, <3>1 DEF serving
    <2>3. CASE UNCHANGED subscribed
      BY <1>c, <2>1, <2>3
    <2> QED
      BY <1>5, <2>2, <2>3 DEF FinishSendRequest
  <1>6. ASSUME NEW e \in Ends, NEW id, SendNotification(e) \/ CancelToken(e, id) PROVE Goal
    BY <1>c, <1>6 DEF SendNotification, CancelToken
  \* The serving side.
  <1>7. ASSUME NEW e \in Ends, HandleRequest(e) PROVE Goal
    <2>1. UNCHANGED <<pendingRequests, wrappers, subscribed>>
      BY <1>7 DEF HandleRequest, requesting
    <2>2. /\ running' = [running EXCEPT ![e] = @ \cup {NextMessage(e).id}]
          /\ \/ sources' = [sources EXCEPT ![e] = @ \cup {NextMessage(e).id}]
             \/ sources' = sources
      BY <1>7 DEF HandleRequest
    <2> QED
      BY <1>a, <1>b, <2>1, <2>2
  <1>8. ASSUME NEW e \in Ends, HandleCancel(e) \/ HandleNotify(e) \/ DropIncompatible(e) PROVE Goal
    BY <1>c, <1>8 DEF HandleCancel, HandleNotify, DropIncompatible, requesting
  <1>9. ASSUME NEW e \in Ends, NEW id, NEW type, Answer(e, id, type) \/ FailToAnswer(e, id) PROVE Goal
    <2>1. /\ UNCHANGED <<pendingRequests, wrappers, subscribed>>
          /\ running' = [running EXCEPT ![e] = @ \ {id}]
          /\ sources' = [sources EXCEPT ![e] = @ \ {id}]
      BY <1>9 DEF Answer, FailToAnswer, requesting
    <2> QED
      BY <1>a, <1>b, <2>1
  <1>10. ASSUME NEW e \in Ends, Close(e) PROVE Goal
    BY <1>a, <1>b, <1>10 DEF Close, serving
  <1>11. CASE UNCHANGED vars
    BY <1>c, <1>11 DEF vars, requesting
  <1> QED
    BY <1>1, <1>3, <1>4, <1>5, <1>6, <1>7, <1>8, <1>9, <1>10, <1>11
       DEF Next, HandleMessage, Use, Serve, Finish

\* A cancellation token holds a listener of a request only while the request is
\* pending, also when the answer or the close comes during the commit of the
\* request.
THEOREM ListenersAreReleased == Spec => []NoListenerOutlivesRequest
  <1>1. OwnersInv => NoListenerOutlivesRequest
    BY DEF OwnersInv, NoListenerOutlivesRequest
  <1> QED
    BY <1>1, TypeCorrect, OwnersInvInit, OwnersInvNext, PTL DEF Spec

\* A token source lives no longer than the handler it was made for, whether the
\* handler answers, throws or finds the channel closed.
THEOREM SourcesAreReleased == Spec => []NoSourceOutlivesHandler
  <1>1. OwnersInv => NoSourceOutlivesHandler
    BY DEF OwnersInv, NoSourceOutlivesHandler
  <1> QED
    BY <1>1, TypeCorrect, OwnersInvInit, OwnersInvNext, PTL DEF Spec

-------------------------------------------------------------------------------
(***************************************************************************)
(* A cancel comes after the request it cancels.                            *)
(***************************************************************************)
CancelInv == TokensInv /\ CancelFollowsRequest

LEMMA CancelInvInit == Init => CancelInv
  BY DEF Init, CancelInv, TokensInv, CancelFollowsRequest

\* A commit leaves the requests in place that were sent with a token.
LEMMA CommitKeepsTokens ==
    ASSUME TypeOK, TokensInv, NEW e \in Ends, NEW m \in Message, Commit(e, m),
           UNCHANGED <<withToken, closed>>
    PROVE  TokensInv'
  <1> SUFFICES ASSUME NEW d \in Ends, ~closed[d], NEW id \in withToken[d]
               PROVE  \E i \in DOMAIN sent'[d] : sent'[d][i] = Msg("Request", id, TRUE)
    BY DEF TokensInv
  <1>1. PICK i \in DOMAIN sent[d] : sent[d][i] = Msg("Request", id, TRUE)
    BY DEF TokensInv
  <1> QED
    BY <1>1, CommitAppends

\* A commit of anything but a cancel without its request keeps the order.
LEMMA CommitKeepsOrder ==
    ASSUME TypeOK, CancelFollowsRequest, NEW e \in Ends, NEW m \in Message, Commit(e, m),
           (m.type = "Cancel" /\ ~closed[e])
               => \E j \in DOMAIN sent[e] : sent[e][j] = Msg("Request", m.id, TRUE)
    PROVE  CancelFollowsRequest'
  <1>1. /\ \A d \in Ends : d # e => sent'[d] = sent[d]
        /\ closed[e] => sent' = sent
        /\ ~closed[e] => /\ DOMAIN sent'[e] = DOMAIN sent[e] \cup {Len(sent[e]) + 1}
                         /\ sent'[e][Len(sent[e]) + 1] = m
        /\ \A i \in DOMAIN sent[e] : i \in DOMAIN sent'[e] /\ sent'[e][i] = sent[e][i]
    BY CommitAppends
  <1>2. DOMAIN sent[e] = 1 .. Len(sent[e]) /\ Len(sent[e]) \in Nat
    BY DEF TypeOK
  <1> SUFFICES ASSUME NEW d \in Ends, NEW i \in DOMAIN sent'[d], sent'[d][i].type = "Cancel"
               PROVE  \E j \in 1 .. i - 1 : sent'[d][j] = Msg("Request", sent'[d][i].id, TRUE)
    BY DEF CancelFollowsRequest
  <1>3. CASE sent'[d] = sent[d]
    BY <1>3 DEF CancelFollowsRequest
  <1>4. CASE d = e /\ ~closed[e] /\ i \in DOMAIN sent[e]
    <2>1. PICK j \in 1 .. i - 1 : sent[e][j] = Msg("Request", sent[e][i].id, TRUE)
      BY <1>1, <1>4 DEF CancelFollowsRequest
    <2>2. j \in DOMAIN sent[e]
      BY <1>2, <1>4
    <2> QED
      BY <1>1, <1>4, <2>1, <2>2
  <1>5. CASE d = e /\ ~closed[e] /\ i = Len(sent[e]) + 1
    <2>1. PICK j \in DOMAIN sent[e] : sent[e][j] = Msg("Request", m.id, TRUE)
      BY <1>1, <1>5
    <2>2. j \in 1 .. i - 1
      BY <1>2, <1>5
    <2> QED
      BY <1>1, <1>5, <2>1, <2>2
  <1>6. \/ sent'[d] = sent[d]
        \/ d = e /\ ~closed[e] /\ i \in DOMAIN sent[e] \cup {Len(sent[e]) + 1}
    BY <1>1
  <1> QED
    BY <1>3, <1>4, <1>5, <1>6

\* The cancel of a request that was sent with a token may be sent.
LEMMA CancelSent ==
    ASSUME TypeOK, CancelInv, NEW e \in Ends, NEW id \in withToken[e],
           Commit(e, Msg("Cancel", id, FALSE)), UNCHANGED <<withToken, closed>>
    PROVE  CancelInv'
  <1>1. Msg("Cancel", id, FALSE) \in Message /\ Msg("Cancel", id, FALSE).id = id
    BY MsgIsMessage DEF TypeOK, RequestTypes, Msg
  <1>2. ~closed[e] => \E j \in DOMAIN sent[e] : sent[e][j] = Msg("Request", id, TRUE)
    BY DEF CancelInv, TokensInv
  <1> QED
    BY <1>1, <1>2, CommitKeepsTokens, CommitKeepsOrder DEF CancelInv

\* A message that is no cancel may be sent.
LEMMA NoCancelSent ==
    ASSUME TypeOK, CancelInv, NEW e \in Ends, NEW m \in Message, m.type # "Cancel",
           Commit(e, m), UNCHANGED <<withToken, closed>>
    PROVE  CancelInv'
  BY CommitKeepsTokens, CommitKeepsOrder DEF CancelInv

LEMMA CancelInvNext == TypeOK /\ CancelInv /\ [Next]_vars => CancelInv'
  <1> SUFFICES ASSUME TypeOK, CancelInv, [Next]_vars PROVE CancelInv'
    OBVIOUS
  <1>a. ASSUME UNCHANGED <<sent, withToken, closed>> PROVE CancelInv'
    BY <1>a DEF CancelInv, TokensInv, CancelFollowsRequest
  <1>1. ASSUME NEW e \in Ends, HandleReply(e) PROVE CancelInv'
    BY <1>a, <1>1 DEF HandleReply
  <1>2. ASSUME NEW e \in Ends, HandleRequest(e) \/ HandleCancel(e) \/ HandleNotify(e) \/ DropIncompatible(e)
        PROVE  CancelInv'
    BY <1>a, <1>2 DEF HandleRequest, HandleCancel, HandleNotify, DropIncompatible, requesting
  <1>3. ASSUME NEW e \in Ends, NEW token \in BOOLEAN, NEW early \in BOOLEAN, SendRequest(e, token, early)
        PROVE  CancelInv'
    <2> DEFINE id == nextMessageId[e]
               m == Msg("Request", id, token)
    <2>1. id \in Ids
      BY <1>3, NextIdIsFree DEF SendRequest
    <2>2. m \in Message /\ m.type # "Cancel"
      BY <2>1, MsgIsMessage DEF RequestTypes, Msg
    <2>3. Commit(e, m) /\ UNCHANGED closed
      BY <1>3 DEF SendRequest
    <2>4. CASE ~token
      BY <1>3, <2>2, <2>3, <2>4, NoCancelSent DEF SendRequest
    <2>5. CASE token
      <3>1. withToken' = [withToken EXCEPT ![e] = @ \cup {id}]
        BY <1>3, <2>5 DEF SendRequest
      <3>2. withToken \in [Ends -> SUBSET Ids]
        BY DEF TypeOK
      <3>3. /\ \A d \in Ends : d # e => sent'[d] = sent[d]
            /\ closed[e] => sent' = sent
            /\ ~closed[e] => /\ DOMAIN sent'[e] = DOMAIN sent[e] \cup {Len(sent[e]) + 1}
                             /\ sent'[e][Len(sent[e]) + 1] = m
            /\ \A i \in DOMAIN sent[e] : i \in DOMAIN sent'[e] /\ sent'[e][i] = sent[e][i]
        BY <2>2, <2>3, CommitAppends
      <3>5. TokensInv'
        <4> SUFFICES ASSUME NEW d \in Ends, ~closed[d], NEW t \in withToken'[d]
                     PROVE  \E i \in DOMAIN sent'[d] : sent'[d][i] = Msg("Request", t, TRUE)
          BY <2>3 DEF TokensInv
        <4>1. CASE t \in withToken[d]
          <5>1. ~closed[d]
            BY <2>3
          <5>2. PICK i \in DOMAIN sent[d] : sent[d][i] = Msg("Request", t, TRUE)
            BY <4>1, <5>1 DEF CancelInv, TokensInv
          <5>3. i \in DOMAIN sent'[d] /\ sent'[d][i] = sent[d][i]
            BY <3>3, <5>2
          <5> QED
            BY <5>2, <5>3
        <4>2. CASE d = e /\ t = id
          BY <2>5, <3>3, <4>2
        <4> QED
          BY <3>1, <3>2, <4>1, <4>2
      <3>6. CancelFollowsRequest'
        BY <2>2, <2>3, CommitKeepsOrder DEF CancelInv
      <3> QED
        BY <3>5, <3>6 DEF CancelInv
    <2> QED
      BY <2>4, <2>5
  <1>4. ASSUME NEW e \in Ends, FailToSendRequest(e) PROVE CancelInv'
    BY <1>a, <1>4 DEF FailToSendRequest
  <1>5. ASSUME NEW e \in Ends, FinishSendRequest(e) PROVE CancelInv'
    <2>1. UNCHANGED <<withToken, closed>>
      BY <1>5 DEF FinishSendRequest
    <2>2. CASE sending[e] \in withToken[e] /\ Commit(e, Msg("Cancel", sending[e], FALSE))
      BY <2>1, <2>2, CancelSent
    <2>3. CASE UNCHANGED sent
      BY <1>a, <2>1, <2>3
    <2> QED
      BY <1>5, <2>2, <2>3 DEF FinishSendRequest
  <1>6. ASSUME NEW e \in Ends, SendNotification(e) PROVE CancelInv'
    <2>1. nextMessageId[e] \in Ids
      BY <1>6, NextIdIsFree DEF SendNotification
    <2>2. Msg("Notification", nextMessageId[e], FALSE) \in Message
      BY <2>1, MsgIsMessage DEF RequestTypes
    <2>3. Msg("Notification", nextMessageId[e], FALSE).type # "Cancel"
      BY DEF Msg
    <2> QED
      BY <1>6, <2>2, <2>3, NoCancelSent DEF SendNotification
  <1>7. ASSUME NEW e \in Ends, NEW id \in Ids, CancelToken(e, id) PROVE CancelInv'
    <2>1. UNCHANGED <<withToken, closed>> /\ id \in withToken[e]
      BY <1>7 DEF CancelToken
    <2>2. CASE Commit(e, Msg("Cancel", id, FALSE))
      BY <2>1, <2>2, CancelSent
    <2>3. CASE UNCHANGED sent
      BY <1>a, <2>1, <2>3
    <2> QED
      BY <1>7, <2>2, <2>3 DEF CancelToken
  <1>8. ASSUME NEW e \in Ends, NEW id \in Ids, NEW type \in ReplyTypes, Answer(e, id, type) PROVE CancelInv'
    <2>1. Msg(type, id, FALSE) \in Message /\ Msg(type, id, FALSE).type # "Cancel"
      BY MsgIsMessage DEF Msg, ReplyTypes
    <2> QED
      BY <1>8, <2>1, NoCancelSent DEF Answer, requesting
  <1>9. ASSUME NEW e \in Ends, NEW id \in Ids, FailToAnswer(e, id) PROVE CancelInv'
    BY <1>a, <1>9 DEF FailToAnswer, requesting
  <1>10. ASSUME NEW e \in Ends, Close(e) PROVE CancelInv'
    <2>1. UNCHANGED <<sent, withToken>> /\ \A d \in Ends : closed[d] => closed'[d]
      BY <1>10 DEF Close, TypeOK
    <2>2. TokensInv'
      BY <2>1 DEF CancelInv, TokensInv
    <2>3. CancelFollowsRequest'
      BY <2>1 DEF CancelInv, CancelFollowsRequest
    <2> QED
      BY <2>2, <2>3 DEF CancelInv
  <1>11. CASE UNCHANGED vars
    BY <1>a, <1>11 DEF vars, requesting
  <1> QED
    BY <1>1, <1>2, <1>3, <1>4, <1>5, <1>6, <1>7, <1>8, <1>9, <1>10, <1>11
       DEF Next, HandleMessage, Use, Serve, Finish

\* On the channel, a cancel comes after the request it cancels, which carries a
\* token: handleCancel finds the token's source or finds the request answered.
THEOREM CancelComesAfterRequest == Spec => []CancelFollowsRequest
  <1>1. CancelInv => CancelFollowsRequest
    BY DEF CancelInv
  <1> QED
    BY <1>1, TypeCorrect, CancelInvInit, CancelInvNext, PTL DEF Spec

-------------------------------------------------------------------------------
(***************************************************************************)
(* Every reply meets its request.                                          *)
(***************************************************************************)

\* What a commit adds to the stages.
LEMMA CommitUnread ==
    ASSUME TypeOK, NEW d \in Ends, NEW e \in Ends, NEW m \in Message, Commit(e, m), UNCHANGED read
    PROVE  /\ UnreadRequests(d)' \subseteq UnreadRequests(d) \cup
                  (IF e = d /\ ~closed[e] /\ m.type = "Request" THEN {Len(sent[e]) + 1} ELSE {})
           /\ UnreadReplies(d)' \subseteq UnreadReplies(d) \cup
                  (IF e = Other(d) /\ ~closed[e] /\ m.type \in ReplyTypes THEN {Len(sent[e]) + 1} ELSE {})
           /\ \A i \in UnreadRequests(d) : sent'[d][i] = sent[d][i]
           /\ \A i \in UnreadReplies(d) : sent'[Other(d)][i] = sent[Other(d)][i]
           /\ ~closed[e] => sent'[e][Len(sent[e]) + 1] = m
  <1>1. /\ \A x \in Ends : x # e => sent'[x] = sent[x]
        /\ closed[e] => sent' = sent
        /\ ~closed[e] => /\ DOMAIN sent'[e] = DOMAIN sent[e] \cup {Len(sent[e]) + 1}
                         /\ sent'[e][Len(sent[e]) + 1] = m
        /\ \A i \in DOMAIN sent[e] : i \in DOMAIN sent'[e] /\ sent'[e][i] = sent[e][i]
    BY CommitAppends
  <1>2. Other(d) \in Ends /\ Other(Other(d)) = d
    BY OtherEnd
  <1>3. \A x \in Ends : \A i \in DOMAIN sent[x] : sent'[x][i] = sent[x][i]
    BY <1>1
  <1>4. \A x \in Ends : \A i \in DOMAIN sent'[x] :
            \/ i \in DOMAIN sent[x]
            \/ x = e /\ ~closed[e] /\ i = Len(sent[e]) + 1 /\ sent'[x][i] = m
    BY <1>1
  <1> QED
    BY <1>1, <1>2, <1>3, <1>4 DEF UnreadRequests, UnreadReplies, InFlight

\* What reading a message takes from the stages.
LEMMA AdvanceUnread ==
    ASSUME TypeOK, NEW d \in Ends, NEW e \in Ends, Advance(e), UNCHANGED sent
    PROVE  /\ UnreadRequests(d)' = UnreadRequests(d) \ (IF e = Other(d) THEN {read[e] + 1} ELSE {})
           /\ UnreadReplies(d)' = UnreadReplies(d) \ (IF e = d THEN {read[e] + 1} ELSE {})
  <1>1. Other(d) \in Ends /\ Other(Other(d)) = d /\ Other(d) # d
    BY OtherEnd
  <1>2. \A x \in Ends : DOMAIN sent[x] \subseteq Nat
    BY DEF TypeOK
  <1>3. read' = [read EXCEPT ![e] = @ + 1] /\ read \in [Ends -> Nat]
    BY DEF Advance, TypeOK
  <1>4. InFlight(d)' = InFlight(d) \ (IF e = d THEN {read[e] + 1} ELSE {})
    BY <1>1, <1>2, <1>3 DEF InFlight
  <1>5. InFlight(Other(d))' = InFlight(Other(d)) \ (IF e = Other(d) THEN {read[e] + 1} ELSE {})
    BY <1>1, <1>2, <1>3 DEF InFlight
  <1> QED
    BY <1>4, <1>5 DEF UnreadRequests, UnreadReplies

\* A step that starts no stage and ends no request keeps them.
LEMMA StagesShrink ==
    ASSUME NEW d \in Ends, Tracked(d), OneStage(d),
           UnreadRequests(d)' \subseteq UnreadRequests(d),
           UnreadReplies(d)' \subseteq UnreadReplies(d),
           \A i \in UnreadRequests(d) : sent'[d][i] = sent[d][i],
           \A i \in UnreadReplies(d) : sent'[Other(d)][i] = sent[Other(d)][i],
           running'[Other(d)] \subseteq running[Other(d)],
           pendingRequests[d] \subseteq pendingRequests'[d]
    PROVE  Tracked(d)' /\ OneStage(d)'
  <1>1. Tracked(d)'
    BY DEF Tracked
  <1>2. OneStage(d)'
    BY DEF OneStage
  <1> QED
    BY <1>1, <1>2

LEMMA StagesInvInit == Init => StagesInv
  <1> SUFFICES ASSUME Init PROVE StagesInv
    OBVIOUS
  <1>1. \A e \in Ends : sent[e] = <<>> /\ pendingRequests[e] = {} /\ running[e] = {}
    BY DEF Init
  <1>2. \A e \in Ends : UnreadRequests(e) = {} /\ UnreadReplies(e) = {}
    BY <1>1, OtherEnd DEF UnreadRequests, UnreadReplies, InFlight
  <1> QED
    BY <1>1, <1>2, OtherEnd DEF StagesInv, IdsUsed, Tracked, OneStage

\* A step that closes no end's channel anew and only commits a message which is
\* neither a request nor a reply, or nothing at all, keeps the stages.
LEMMA StagesCommit ==
    ASSUME TypeOK, NEW d \in Ends, Tracked(d), OneStage(d),
           NEW e \in Ends, NEW m \in Message, Commit(e, m),
           m.type = "Request" => e # d, m.type \in ReplyTypes => e # Other(d),
           UNCHANGED read, running'[Other(d)] \subseteq running[Other(d)],
           pendingRequests[d] \subseteq pendingRequests'[d]
    PROVE  Tracked(d)' /\ OneStage(d)'
  <1>1. /\ UnreadRequests(d)' \subseteq UnreadRequests(d)
        /\ UnreadReplies(d)' \subseteq UnreadReplies(d)
        /\ \A i \in UnreadRequests(d) : sent'[d][i] = sent[d][i]
        /\ \A i \in UnreadReplies(d) : sent'[Other(d)][i] = sent[Other(d)][i]
    BY CommitUnread
  <1> QED
    BY <1>1, StagesShrink

\* Reading a message keeps the stages when no request begins to run or ends.
LEMMA StagesAdvance ==
    ASSUME TypeOK, NEW d \in Ends, Tracked(d), OneStage(d),
           NEW e \in Ends, Advance(e), UNCHANGED sent,
           running'[Other(d)] \subseteq running[Other(d)],
           pendingRequests[d] \subseteq pendingRequests'[d]
    PROVE  Tracked(d)' /\ OneStage(d)'
  <1>1. UnreadRequests(d)' \subseteq UnreadRequests(d) /\ UnreadReplies(d)' \subseteq UnreadReplies(d)
    BY AdvanceUnread
  <1> QED
    BY <1>1, StagesShrink

\* SendRequest by d puts a new request in the first stage.
LEMMA StagesSend ==
    ASSUME TypeOK, NEW d \in Ends, Tracked(d), OneStage(d), IdsUsed(d), ~closed[d],
           NEW token \in BOOLEAN, NEW early \in BOOLEAN, SendRequest(d, token, early)
    PROVE  Tracked(d)' /\ OneStage(d)'
  <1> DEFINE id == nextMessageId[d]
             m == Msg("Request", id, token)
             p == Other(d)
             new == Len(sent[d]) + 1
  <1>1. id \in Ids /\ id \notin pendingRequests[d]
    BY NextIdIsFree DEF SendRequest, IdsUsed, TypeOK, Ids
  <1>2. m \in Message /\ m.type = "Request" /\ m.id = id
    BY <1>1, MsgIsMessage DEF RequestTypes, Msg
  <1>3. Commit(d, m) /\ UNCHANGED <<read, running>>
    BY DEF SendRequest, serving
  <1>4. pendingRequests'[d] = pendingRequests[d] \cup {id}
    BY DEF SendRequest, Register, TypeOK
  <1>5. /\ UnreadRequests(d)' \subseteq UnreadRequests(d) \cup {new}
        /\ \A i \in UnreadRequests(d) : sent'[d][i] = sent[d][i]
        /\ \A i \in UnreadReplies(d) : sent'[p][i] = sent[p][i]
        /\ sent'[d][new] = m
    BY <1>2, <1>3, CommitUnread
  <1>6. UnreadReplies(d)' \subseteq UnreadReplies(d)
    <2>1. p # d
      BY OtherEnd
    <2> QED
      BY <1>2, <1>3, <2>1, CommitUnread
  <1>7. Tracked(d)'
    BY <1>2, <1>3, <1>4, <1>5, <1>6 DEF Tracked
  <1>8. OneStage(d)'
    BY <1>1, <1>2, <1>3, <1>5, <1>6 DEF Tracked, OneStage
  <1> QED
    BY <1>7, <1>8

\* HandleRequest at the other end moves a request to the second stage.
LEMMA StagesRun ==
    ASSUME TypeOK, NEW d \in Ends, Tracked(d), OneStage(d), HandleRequest(Other(d))
    PROVE  Tracked(d)' /\ OneStage(d)'
  <1> DEFINE p == Other(d)
             at == read[p] + 1
             id == NextMessage(p).id
  <1>1. p \in Ends /\ Other(p) = d /\ p # d
    BY OtherEnd
  <1>2. Receives(p, {"Request"}) /\ Advance(p) /\ UNCHANGED <<sent, pendingRequests>>
    BY DEF HandleRequest, requesting
  <1>3. at \in UnreadRequests(d) /\ sent[d][at].id = id
    BY <1>1, <1>2, ReceivedMessage DEF UnreadRequests, InFlight, NextMessage
  <1>4. running'[p] = running[p] \cup {id}
    BY <1>1 DEF HandleRequest, TypeOK
  <1>5. UnreadRequests(d)' = UnreadRequests(d) \ {at} /\ UnreadReplies(d)' = UnreadReplies(d)
    BY <1>1, <1>2, AdvanceUnread
  <1>6. Tracked(d)'
    BY <1>2, <1>3, <1>4, <1>5 DEF Tracked
  <1>7. OneStage(d)'
    BY <1>2, <1>3, <1>4, <1>5 DEF OneStage
  <1> QED
    BY <1>6, <1>7

\* Answer at the other end moves a request to the third stage.
LEMMA StagesAnswer ==
    ASSUME TypeOK, NEW d \in Ends, Tracked(d), OneStage(d),
           NEW id \in Ids, NEW type \in ReplyTypes, Answer(Other(d), id, type)
    PROVE  Tracked(d)' /\ OneStage(d)'
  <1> DEFINE p == Other(d)
             m == Msg(type, id, FALSE)
             new == Len(sent[p]) + 1
  <1>1. p \in Ends /\ p # d
    BY OtherEnd
  <1>2. m \in Message /\ m.type = type /\ m.id = id /\ m.type # "Request"
    BY MsgIsMessage DEF Msg, ReplyTypes
  <1>3. Commit(p, m) /\ UNCHANGED <<read, pendingRequests>>
    BY DEF Answer, requesting
  <1>4. running'[p] = running[p] \ {id} /\ id \in running[p]
    BY <1>1 DEF Answer, TypeOK
  <1>5. /\ UnreadRequests(d)' \subseteq UnreadRequests(d)
        /\ UnreadReplies(d)' \subseteq UnreadReplies(d) \cup {new}
        /\ new \in UnreadReplies(d)' /\ new \notin UnreadReplies(d) => sent'[p][new] = m
        /\ \A i \in UnreadRequests(d) : sent'[d][i] = sent[d][i]
        /\ \A i \in UnreadReplies(d) : sent'[p][i] = sent[p][i]
    <2>1. CASE closed[p]
      <3>1. UNCHANGED sent
        BY <1>3, <2>1 DEF Commit
      <3> QED
        BY <1>1, <1>2, <1>3, <2>1, <3>1, CommitUnread
    <2>2. CASE ~closed[p]
      BY <1>1, <1>2, <1>3, <2>2, CommitUnread
    <2> QED
      BY <2>1, <2>2
  <1>6. Tracked(d)'
    BY <1>2, <1>3, <1>4, <1>5 DEF Tracked
  <1>7. OneStage(d)'
    <2>1. ASSUME NEW i \in UnreadReplies(d)'
          PROVE  \/ i \in UnreadReplies(d) /\ sent'[p][i] = sent[p][i] /\ sent[p][i].id # id
                 \/ i = new /\ sent'[p][i].id = id
      BY <1>2, <1>4, <1>5 DEF OneStage
    <2>2. ASSUME NEW i \in UnreadRequests(d)'
          PROVE  i \in UnreadRequests(d) /\ sent'[d][i] = sent[d][i] /\ sent[d][i].id # id
      BY <1>4, <1>5 DEF OneStage
    <2>3. \A i, j \in UnreadRequests(d)' : sent'[d][i].id = sent'[d][j].id => i = j
      BY <2>2 DEF OneStage
    <2>4. \A i, j \in UnreadReplies(d)' : sent'[p][i].id = sent'[p][j].id => i = j
      BY <2>1 DEF OneStage
    <2>5. \A i \in UnreadRequests(d)', j \in UnreadReplies(d)' : sent'[d][i].id # sent'[p][j].id
      BY <2>1, <2>2 DEF OneStage
    <2>6. \A i \in UnreadRequests(d)' : sent'[d][i].id \notin running'[p]
      BY <1>4, <2>2 DEF OneStage
    <2>7. \A i \in UnreadReplies(d)' : sent'[p][i].id \notin running'[p]
      BY <1>4, <2>1 DEF OneStage
    <2> QED
      BY <2>3, <2>4, <2>5, <2>6, <2>7 DEF OneStage
  <1> QED
    BY <1>6, <1>7

\* HandleReply by d finds its request and ends it.
LEMMA StagesReply ==
    ASSUME TypeOK, NEW d \in Ends, Tracked(d), OneStage(d), HandleReply(d)
    PROVE  NextMessage(d).id \in pendingRequests[d] /\ Tracked(d)' /\ OneStage(d)'
  <1> DEFINE p == Other(d)
             at == read[d] + 1
             id == NextMessage(d).id
  <1>1. p \in Ends /\ p # d
    BY OtherEnd
  <1>2. Receives(d, ReplyTypes) /\ Advance(d) /\ UNCHANGED <<sent, running>>
    BY DEF HandleReply, serving
  <1>3. at \in UnreadReplies(d) /\ sent[p][at].id = id
    BY <1>2, ReceivedMessage DEF UnreadReplies, InFlight, NextMessage
  <1>4. id \in pendingRequests[d]
    BY <1>3 DEF Tracked
  <1>5. pendingRequests'[d] = pendingRequests[d] \ {id}
    BY <1>4 DEF HandleReply, TypeOK
  <1>6. UnreadRequests(d)' = UnreadRequests(d) /\ UnreadReplies(d)' = UnreadReplies(d) \ {at}
    BY <1>1, <1>2, AdvanceUnread
  <1>7. Tracked(d)'
    BY <1>2, <1>3, <1>5, <1>6 DEF Tracked, OneStage
  <1>8. OneStage(d)'
    BY <1>2, <1>6 DEF OneStage
  <1> QED
    BY <1>4, <1>7, <1>8

\* A channel stays closed.
LEMMA ClosedStays == ASSUME TypeOK, [Next]_vars, NEW d \in Ends, closed[d] PROVE closed'[d]
  <1>1. ASSUME NEW e \in Ends, HandleMessage(e) PROVE UNCHANGED closed
    BY <1>1 DEF HandleMessage, HandleReply, HandleRequest, HandleCancel, HandleNotify, DropIncompatible
  <1>2. ASSUME NEW e \in Ends, Use(e) PROVE UNCHANGED closed
    BY <1>2 DEF Use, SendRequest, FailToSendRequest, FinishSendRequest, SendNotification, CancelToken
  <1>3. ASSUME NEW e \in Ends, Serve(e) PROVE UNCHANGED closed
    BY <1>3 DEF Serve, Finish, Answer, FailToAnswer
  <1>4. ASSUME NEW e \in Ends, Close(e) PROVE closed'[d]
    BY <1>4 DEF Close, TypeOK
  <1>5. CASE UNCHANGED vars
    BY <1>5 DEF vars
  <1> QED
    BY <1>1, <1>2, <1>3, <1>4, <1>5 DEF Next

LEMMA IdsUsedNext == ASSUME TypeOK, [Next]_vars, NEW d \in Ends, IdsUsed(d) PROVE IdsUsed(d)'
  <1>a. /\ nextMessageId \in [Ends -> 0 .. MaxMessages]
        /\ pendingRequests \in [Ends -> SUBSET Ids]
        /\ MaxMessages \in Nat
    BY RpcAssumption DEF TypeOK
  <1>b. \A e \in Ends : \A id : Register(e, id) /\ id = nextMessageId[e] => IdsUsed(d)'
    BY <1>a DEF IdsUsed, Register, Ids
  <1>c. pendingRequests'[d] \subseteq pendingRequests[d] /\ nextMessageId'[d] = nextMessageId[d] => IdsUsed(d)'
    BY DEF IdsUsed
  <1>1. ASSUME NEW e \in Ends, HandleReply(e) PROVE IdsUsed(d)'
    BY <1>a, <1>c, <1>1 DEF HandleReply
  <1>2. ASSUME NEW e \in Ends, HandleRequest(e) \/ HandleCancel(e) \/ HandleNotify(e) \/ DropIncompatible(e)
        PROVE  IdsUsed(d)'
    BY <1>c, <1>2 DEF HandleRequest, HandleCancel, HandleNotify, DropIncompatible, requesting
  <1>3. ASSUME NEW e \in Ends, NEW token, NEW early, SendRequest(e, token, early) PROVE IdsUsed(d)'
    BY <1>b, <1>3 DEF SendRequest
  <1>4. ASSUME NEW e \in Ends, FailToSendRequest(e) PROVE IdsUsed(d)'
    BY <1>b, <1>4 DEF FailToSendRequest
  <1>5. ASSUME NEW e \in Ends, NEW id, FinishSendRequest(e) \/ CancelToken(e, id) PROVE IdsUsed(d)'
    BY <1>c, <1>5 DEF FinishSendRequest, CancelToken
  <1>6. ASSUME NEW e \in Ends, SendNotification(e) PROVE IdsUsed(d)'
    BY <1>a, <1>6 DEF SendNotification, IdsUsed, Ids
  <1>7. ASSUME NEW e \in Ends, NEW id, NEW type, Answer(e, id, type) \/ FailToAnswer(e, id) PROVE IdsUsed(d)'
    BY <1>c, <1>7 DEF Answer, FailToAnswer, requesting
  <1>8. ASSUME NEW e \in Ends, Close(e) PROVE IdsUsed(d)'
    BY <1>a, <1>c, <1>8 DEF Close
  <1>9. CASE UNCHANGED vars
    BY <1>c, <1>9 DEF vars, requesting
  <1> QED
    BY <1>1, <1>2, <1>3, <1>4, <1>5, <1>6, <1>7, <1>8, <1>9 DEF Next, HandleMessage, Use, Serve, Finish

LEMMA StagesNext ==
    ASSUME TypeOK, [Next]_vars, NEW d \in Ends, IdsUsed(d), Tracked(d), OneStage(d), ~closed'[d]
    PROVE  Tracked(d)' /\ OneStage(d)'
  <1> DEFINE Goal == Tracked(d)' /\ OneStage(d)'
  <1>a. Other(d) \in Ends /\ Other(d) # d /\ \A e \in Ends : e # d => e = Other(d)
    BY OtherEnd DEF Ends, Other
  <1>b. ~closed[d]
    BY ClosedStays
  <1>c. ASSUME UNCHANGED <<sent, read>>, running'[Other(d)] \subseteq running[Other(d)],
               pendingRequests[d] \subseteq pendingRequests'[d]
        PROVE  Goal
    <2>1. UnreadRequests(d)' = UnreadRequests(d) /\ UnreadReplies(d)' = UnreadReplies(d)
      BY <1>c DEF UnreadRequests, UnreadReplies, InFlight
    <2> QED
      BY <1>c, <2>1, StagesShrink
  <1>1. ASSUME NEW e \in Ends, HandleReply(e) PROVE Goal
    <2>1. CASE e = d
      BY <1>1, <2>1, StagesReply
    <2>2. CASE e # d
      <3>1. Advance(e) /\ UNCHANGED <<sent, running>> /\ pendingRequests'[d] = pendingRequests[d]
        BY <1>1, <2>2 DEF HandleReply, serving, TypeOK
      <3> QED
        BY <3>1, StagesAdvance
    <2> QED
      BY <2>1, <2>2
  <1>2. ASSUME NEW e \in Ends, HandleRequest(e) PROVE Goal
    <2>1. CASE e = Other(d)
      BY <1>2, <2>1, StagesRun
    <2>2. CASE e = d
      <3>1. /\ Advance(e) /\ UNCHANGED <<sent, pendingRequests>>
            /\ running'[Other(d)] = running[Other(d)]
        BY <1>2, <1>a, <2>2 DEF HandleRequest, requesting, TypeOK
      <3> QED
        BY <3>1, StagesAdvance
    <2> QED
      BY <1>a, <2>1, <2>2
  <1>3. ASSUME NEW e \in Ends, HandleCancel(e) \/ HandleNotify(e) \/ DropIncompatible(e) PROVE Goal
    <2>1. Advance(e) /\ UNCHANGED <<sent, running, pendingRequests>>
      BY <1>3 DEF HandleCancel, HandleNotify, DropIncompatible, requesting, serving
    <2> QED
      BY <2>1, StagesAdvance
  <1>4. ASSUME NEW e \in Ends, NEW token \in BOOLEAN, NEW early \in BOOLEAN, SendRequest(e, token, early)
        PROVE  Goal
    <2>1. CASE e = d
      BY <1>4, <1>b, <2>1, StagesSend
    <2>2. CASE e # d
      <3>1. nextMessageId[e] \in Ids
        BY <1>4, NextIdIsFree DEF SendRequest
      <3>2. Msg("Request", nextMessageId[e], token) \in Message
        BY <3>1, MsgIsMessage DEF RequestTypes
      <3>3. /\ Commit(e, Msg("Request", nextMessageId[e], token)) /\ UNCHANGED <<read, running>>
            /\ pendingRequests'[d] = pendingRequests[d]
        BY <1>4, <2>2 DEF SendRequest, Register, serving, TypeOK
      <3>4. Msg("Request", nextMessageId[e], token).type \notin ReplyTypes
        BY DEF Msg, ReplyTypes
      <3> QED
        BY <2>2, <3>2, <3>3, <3>4, StagesCommit
    <2> QED
      BY <2>1, <2>2
  <1>5. ASSUME NEW e \in Ends, FailToSendRequest(e) PROVE Goal
    <2>1. UNCHANGED <<sent, read, running>>
      BY <1>5 DEF FailToSendRequest, serving
    <2>2. pendingRequests[d] \subseteq pendingRequests'[d]
      BY <1>5 DEF FailToSendRequest, Register, TypeOK
    <2> QED
      BY <1>c, <2>1, <2>2
  <1>6. ASSUME NEW e \in Ends, NEW id \in Ids, Commit(e, Msg("Cancel", id, FALSE)),
               UNCHANGED <<read, running, pendingRequests>>
        PROVE  Goal
    <2>1. /\ Msg("Cancel", id, FALSE) \in Message
          /\ Msg("Cancel", id, FALSE).type \notin ReplyTypes \cup {"Request"}
      BY MsgIsMessage DEF RequestTypes, ReplyTypes, Msg
    <2> QED
      BY <1>6, <2>1, StagesCommit
  <1>7. ASSUME NEW e \in Ends, FinishSendRequest(e) PROVE Goal
    <2>1. UNCHANGED <<read, running, pendingRequests>> /\ sending[e] \in Ids
      BY <1>7 DEF FinishSendRequest, serving, TypeOK
    <2>2. UNCHANGED sent \/ Commit(e, Msg("Cancel", sending[e], FALSE))
      BY <1>7 DEF FinishSendRequest
    <2> QED
      BY <1>c, <1>6, <2>1, <2>2
  <1>8. ASSUME NEW e \in Ends, NEW id \in Ids, CancelToken(e, id) PROVE Goal
    <2>1. UNCHANGED <<read, running, pendingRequests>>
      BY <1>8 DEF CancelToken, serving
    <2>2. UNCHANGED sent \/ Commit(e, Msg("Cancel", id, FALSE))
      BY <1>8 DEF CancelToken
    <2> QED
      BY <1>c, <1>6, <2>1, <2>2
  <1>9. ASSUME NEW e \in Ends, SendNotification(e) PROVE Goal
    <2>1. nextMessageId[e] \in Ids
      BY <1>9, NextIdIsFree DEF SendNotification
    <2>2. /\ Msg("Notification", nextMessageId[e], FALSE) \in Message
          /\ Msg("Notification", nextMessageId[e], FALSE).type \notin ReplyTypes \cup {"Request"}
      BY <2>1, MsgIsMessage DEF RequestTypes, ReplyTypes, Msg
    <2>3. Commit(e, Msg("Notification", nextMessageId[e], FALSE)) /\ UNCHANGED <<read, running, pendingRequests>>
      BY <1>9 DEF SendNotification, serving
    <2> QED
      BY <2>2, <2>3, StagesCommit
  <1>10. ASSUME NEW e \in Ends, NEW id \in Ids, NEW type \in ReplyTypes, Answer(e, id, type) PROVE Goal
    <2>1. CASE e = Other(d)
      BY <1>10, <2>1, StagesAnswer
    <2>2. CASE e = d
      <3>1. Msg(type, id, FALSE) \in Message /\ Msg(type, id, FALSE).type # "Request"
        BY MsgIsMessage DEF Msg, ReplyTypes
      <3>2. /\ Commit(e, Msg(type, id, FALSE)) /\ UNCHANGED <<read, pendingRequests>>
            /\ running'[Other(d)] = running[Other(d)]
        BY <1>10, <1>a, <2>2 DEF Answer, requesting, TypeOK
      <3> QED
        BY <1>a, <2>2, <3>1, <3>2, StagesCommit
    <2> QED
      BY <1>a, <2>1, <2>2
  <1>11. ASSUME NEW e \in Ends, NEW id \in Ids, FailToAnswer(e, id) PROVE Goal
    <2>1. UNCHANGED <<sent, read, pendingRequests>> /\ running' = [running EXCEPT ![e] = @ \ {id}]
      BY <1>11 DEF FailToAnswer, requesting
    <2>2. running'[Other(d)] \subseteq running[Other(d)]
      BY <1>a, <2>1 DEF TypeOK
    <2> QED
      BY <1>c, <2>1, <2>2
  <1>12. ASSUME NEW e \in Ends, Close(e) PROVE Goal
    <2>1. e # d
      BY <1>12 DEF Close, TypeOK
    <2>2. UNCHANGED <<sent, read, running>> /\ pendingRequests'[d] = pendingRequests[d]
      BY <1>12, <2>1 DEF Close, serving, TypeOK
    <2> QED
      BY <1>c, <2>2
  <1>13. CASE UNCHANGED vars
    BY <1>c, <1>13 DEF vars, requesting, serving
  <1> QED
    BY <1>1, <1>2, <1>3, <1>4, <1>5, <1>7, <1>8, <1>9, <1>10, <1>11, <1>12, <1>13
       DEF Next, HandleMessage, Use, Serve, Finish

LEMMA StagesInvNext == TypeOK /\ StagesInv /\ [Next]_vars => StagesInv'
  BY IdsUsedNext, StagesNext, ClosedStays DEF StagesInv

LEMMA StagesMeet == TypeOK /\ StagesInv => ReplyFindsRequest
  <1> SUFFICES ASSUME TypeOK, StagesInv, NEW e \in Ends,
                      ~closed[e], InFlight(e) # {}, NextMessage(e).type \in ReplyTypes
               PROVE  NextMessage(e).id \in pendingRequests[e]
    BY DEF ReplyFindsRequest
  <1>1. sent[Other(e)] \in Seq(Message) /\ read[e] \in Nat
    BY OtherEnd DEF TypeOK
  <1>2. PICK i \in DOMAIN sent[Other(e)] : i > read[e]
    BY DEF InFlight
  <1>3. read[e] + 1 \in InFlight(e)
    BY <1>1, <1>2 DEF InFlight
  <1>4. read[e] + 1 \in UnreadReplies(e)
    BY <1>3 DEF UnreadReplies, NextMessage
  <1> QED
    BY <1>4 DEF StagesInv, Tracked, NextMessage

\* handleReply and handleReplyErr never throw "No reply handler for reply": a
\* reply that is read belongs to a request that is still pending, and no request
\* is answered twice, whatever is cancelled, fails or closes.
THEOREM RepliesFindTheirRequests == Spec => []ReplyFindsRequest
  BY TypeCorrect, StagesInvInit, StagesInvNext, StagesMeet, PTL DEF Spec

-------------------------------------------------------------------------------
(***************************************************************************)
(* Every pending request is on its way, running or answered.               *)
(***************************************************************************)
ReadInv == \A e \in Ends : read[e] <= Len(sent[Other(e)])

\* Where a request of e is that its caller waits for.
OnItsWay(e, id) == \E i \in InFlight(Other(e)) : sent[e][i] \in {Msg("Request", id, FALSE), Msg("Request", id, TRUE)}
Answered(e, id) == \E i \in InFlight(e) : sent[Other(e)][i].id = id /\ sent[Other(e)][i].type \in ReplyTypes
Served(e, id) == OnItsWay(e, id) \/ id \in running[Other(e)] \cup lost[Other(e)] \/ Answered(e, id)

LEMMA ReadInvInit == Init => ReadInv
  BY OtherEnd DEF Init, ReadInv

\* The three things a step does to the channel.
LEMMA ChannelStep ==
    ASSUME TypeOK, [Next]_vars
    PROVE  \/ UNCHANGED <<sent, read>>
           \/ \E e \in Ends : UNCHANGED sent /\ Advance(e) /\ InFlight(e) # {}
           \/ \E e \in Ends, m \in Message : UNCHANGED read /\ Commit(e, m)
  <1> DEFINE Goal == \/ UNCHANGED <<sent, read>>
                     \/ \E e \in Ends : UNCHANGED sent /\ Advance(e) /\ InFlight(e) # {}
                     \/ \E e \in Ends, m \in Message : UNCHANGED read /\ Commit(e, m)
  <1>1. ASSUME NEW e \in Ends, HandleMessage(e) PROVE Goal
    BY <1>1 DEF HandleMessage, HandleReply, HandleRequest, HandleCancel, HandleNotify, DropIncompatible, Receives
  <1>2. ASSUME NEW e \in Ends, NEW token \in BOOLEAN, NEW early \in BOOLEAN, SendRequest(e, token, early) PROVE Goal
    <2>1. nextMessageId[e] \in Ids
      BY <1>2, NextIdIsFree DEF SendRequest
    <2>2. Msg("Request", nextMessageId[e], token) \in Message
      BY <2>1, MsgIsMessage DEF RequestTypes
    <2> QED
      BY <1>2, <2>2 DEF SendRequest
  <1>3. ASSUME NEW e \in Ends, FailToSendRequest(e) PROVE Goal
    BY <1>3 DEF FailToSendRequest
  <1>4. ASSUME NEW e \in Ends, FinishSendRequest(e) PROVE Goal
    <2>1. sending[e] \in Ids
      BY <1>4 DEF FinishSendRequest, TypeOK
    <2>2. Msg("Cancel", sending[e], FALSE) \in Message
      BY <2>1, MsgIsMessage DEF RequestTypes
    <2> QED
      BY <1>4, <2>2 DEF FinishSendRequest
  <1>5. ASSUME NEW e \in Ends, SendNotification(e) PROVE Goal
    <2>1. nextMessageId[e] \in Ids
      BY <1>5, NextIdIsFree DEF SendNotification
    <2>2. Msg("Notification", nextMessageId[e], FALSE) \in Message
      BY <2>1, MsgIsMessage DEF RequestTypes
    <2> QED
      BY <1>5, <2>2 DEF SendNotification
  <1>6. ASSUME NEW e \in Ends, NEW id \in Ids, CancelToken(e, id) PROVE Goal
    <2>1. Msg("Cancel", id, FALSE) \in Message
      BY MsgIsMessage DEF RequestTypes
    <2> QED
      BY <1>6, <2>1 DEF CancelToken
  <1>7. ASSUME NEW e \in Ends, NEW id \in Ids, NEW type \in ReplyTypes, Answer(e, id, type) PROVE Goal
    <2>1. Msg(type, id, FALSE) \in Message
      BY MsgIsMessage
    <2> QED
      BY <1>7, <2>1 DEF Answer
  <1>8. ASSUME NEW e \in Ends, NEW id, FailToAnswer(e, id) \/ Close(e) PROVE Goal
    BY <1>8 DEF FailToAnswer, Close
  <1>9. CASE UNCHANGED vars
    BY <1>9 DEF vars
  <1> QED
    BY <1>1, <1>2, <1>3, <1>4, <1>5, <1>6, <1>7, <1>8, <1>9 DEF Next, Use, Serve, Finish

LEMMA ReadInvNext == TypeOK /\ ReadInv /\ [Next]_vars => ReadInv'
  <1> SUFFICES ASSUME TypeOK, ReadInv, [Next]_vars, NEW d \in Ends PROVE read'[d] <= Len(sent'[Other(d)])
    BY DEF ReadInv
  <1>a. Other(d) \in Ends /\ sent \in [Ends -> Seq(Message)] /\ read \in [Ends -> Nat]
    BY OtherEnd DEF TypeOK
  <1>1. CASE UNCHANGED <<sent, read>>
    BY <1>1 DEF ReadInv
  <1>2. ASSUME NEW e \in Ends, UNCHANGED sent, Advance(e), InFlight(e) # {} PROVE read'[d] <= Len(sent'[Other(d)])
    <2>1. CASE e = d
      <3>1. PICK i \in 1 .. Len(sent[Other(d)]) : i > read[d]
        BY <1>a, <1>2, <2>1 DEF InFlight
      <3>2. read'[d] = read[d] + 1
        BY <1>a, <1>2, <2>1 DEF Advance
      <3> QED
        BY <1>a, <1>2, <3>1, <3>2
    <2>2. CASE e # d
      <3>1. read'[d] = read[d]
        BY <1>a, <1>2, <2>2 DEF Advance
      <3> QED
        BY <1>2, <3>1 DEF ReadInv
    <2> QED
      BY <2>1, <2>2
  <1>3. ASSUME NEW e \in Ends, NEW m \in Message, UNCHANGED read, Commit(e, m) PROVE read'[d] <= Len(sent'[Other(d)])
    <2>1. CASE sent'[Other(d)] = sent[Other(d)]
      BY <1>3, <2>1 DEF ReadInv
    <2>2. CASE sent' = [sent EXCEPT ![e] = Append(@, m)] /\ e = Other(d)
      <3>1. Len(sent'[Other(d)]) = Len(sent[Other(d)]) + 1
        BY <1>a, <2>2
      <3> QED
        BY <1>a, <1>3, <3>1 DEF ReadInv
    <2> QED
      BY <1>a, <1>3, <2>1, <2>2 DEF Commit
  <1> QED
    BY <1>1, <1>2, <1>3, ChannelStep

\* A commit leaves what is served served, and puts its message on the way.
LEMMA CommitServed ==
    ASSUME TypeOK, ReadInv, NEW d \in Ends, NEW e \in Ends, NEW m \in Message, Commit(e, m), UNCHANGED read
    PROVE  /\ \A id : OnItsWay(d, id) => OnItsWay(d, id)'
           /\ \A id : Answered(d, id) => Answered(d, id)'
           /\ (e = d /\ ~closed[e] /\ m \in {Msg("Request", m.id, FALSE), Msg("Request", m.id, TRUE)}) => OnItsWay(d, m.id)'
           /\ (e = Other(d) /\ ~closed[e] /\ m.type \in ReplyTypes) => Answered(d, m.id)'
  <1>1. /\ \A x \in Ends : x # e => sent'[x] = sent[x]
        /\ closed[e] => sent' = sent
        /\ ~closed[e] => /\ DOMAIN sent'[e] = DOMAIN sent[e] \cup {Len(sent[e]) + 1}
                         /\ sent'[e][Len(sent[e]) + 1] = m
        /\ \A i \in DOMAIN sent[e] : i \in DOMAIN sent'[e] /\ sent'[e][i] = sent[e][i]
    BY CommitAppends
  <1>2. Other(d) \in Ends /\ Other(Other(d)) = d
    BY OtherEnd
  <1>3. \A x \in Ends : \A i \in DOMAIN sent[x] : i \in DOMAIN sent'[x] /\ sent'[x][i] = sent[x][i]
    BY <1>1
  <1>4. /\ \A i \in InFlight(Other(d)) : i \in InFlight(Other(d))' /\ sent'[d][i] = sent[d][i]
        /\ \A i \in InFlight(d) : i \in InFlight(d)' /\ sent'[Other(d)][i] = sent[Other(d)][i]
    BY <1>2, <1>3 DEF InFlight
  <1>5. ~closed[e] => Len(sent[e]) + 1 \in InFlight(Other(e))'
    <2>1. Other(e) \in Ends /\ Other(Other(e)) = e
      BY OtherEnd
    <2>2. read[Other(e)] <= Len(sent[e]) /\ read[Other(e)] \in Nat /\ Len(sent[e]) \in Nat
      BY <2>1 DEF ReadInv, TypeOK
    <2> QED
      BY <1>1, <2>1, <2>2 DEF InFlight
  <1>6. \A id : OnItsWay(d, id) => OnItsWay(d, id)'
    BY <1>4 DEF OnItsWay
  <1>7. \A id : Answered(d, id) => Answered(d, id)'
    BY <1>4 DEF Answered
  <1>8. (e = d /\ ~closed[e] /\ m \in {Msg("Request", m.id, FALSE), Msg("Request", m.id, TRUE)}) => OnItsWay(d, m.id)'
    BY <1>1, <1>5 DEF OnItsWay
  <1>9. (e = Other(d) /\ ~closed[e] /\ m.type \in ReplyTypes) => Answered(d, m.id)'
    BY <1>1, <1>2, <1>5 DEF Answered
  <1> QED
    BY <1>6, <1>7, <1>8, <1>9

\* Reading a message takes at most that message off the way.
LEMMA AdvanceServed ==
    ASSUME TypeOK, NEW d \in Ends, NEW e \in Ends, NEW id, Advance(e), UNCHANGED sent, InFlight(e) # {}
    PROVE  /\ OnItsWay(d, id) =>
                  \/ OnItsWay(d, id)'
                  \/ e = Other(d) /\ NextMessage(e) \in {Msg("Request", id, FALSE), Msg("Request", id, TRUE)}
           /\ Answered(d, id) =>
                  \/ Answered(d, id)'
                  \/ e = d /\ NextMessage(e).id = id /\ NextMessage(e).type \in ReplyTypes
  <1>1. Other(d) \in Ends /\ Other(Other(d)) = d /\ Other(d) # d
    BY OtherEnd
  <1>2. \A x \in Ends : DOMAIN sent[x] \subseteq Nat
    BY DEF TypeOK
  <1>3. read' = [read EXCEPT ![e] = @ + 1] /\ read \in [Ends -> Nat]
    BY DEF Advance, TypeOK
  <1>4. InFlight(d)' = InFlight(d) \ (IF e = d THEN {read[e] + 1} ELSE {})
    BY <1>1, <1>2, <1>3 DEF InFlight
  <1>5. InFlight(Other(d))' = InFlight(Other(d)) \ (IF e = Other(d) THEN {read[e] + 1} ELSE {})
    BY <1>1, <1>2, <1>3 DEF InFlight
  <1>6. OnItsWay(d, id) =>
            \/ OnItsWay(d, id)'
            \/ e = Other(d) /\ NextMessage(e) \in {Msg("Request", id, FALSE), Msg("Request", id, TRUE)}
    BY <1>1, <1>5 DEF OnItsWay, NextMessage
  <1>7. Answered(d, id) =>
            \/ Answered(d, id)'
            \/ e = d /\ NextMessage(e).id = id /\ NextMessage(e).type \in ReplyTypes
    BY <1>1, <1>4 DEF Answered, NextMessage
  <1> QED
    BY <1>6, <1>7

ServedInv == ReadInv /\ PendingRequestIsServed

LEMMA ServedNext ==
    ASSUME TypeOK, StagesInv, ServedInv, [Next]_vars, NEW d \in Ends, NEW id \in Ids,
           outcome'[d][id] = "pending", ModesFit(d), ~closed'[d], ~closed'[Other(d)]
    PROVE  Served(d, id)'
  <1> DEFINE p == Other(d)
             Goal == Served(d, id)'
  <1>a. p \in Ends /\ Other(p) = d /\ p # d /\ \A e \in Ends : e # d => e = p
    BY OtherEnd DEF Ends, Other
  <1>b. ~closed[d] /\ ~closed[p]
    BY <1>a, ClosedStays
  <1>c. outcome[d][id] = "pending" => Served(d, id)
    BY <1>b DEF ServedInv, PendingRequestIsServed, Served, OnItsWay, Answered
  <1>d. outcome \in [Ends -> [Ids -> Outcomes]] /\ running \in [Ends -> SUBSET Ids] /\ lost \in [Ends -> SUBSET Ids]
    BY DEF TypeOK
  \* Steps that keep what is served.
  <1>e. ASSUME UNCHANGED <<outcome, sent, read, running>>, lost[p] \subseteq lost'[p] PROVE Goal
    <2>1. (OnItsWay(d, id) => OnItsWay(d, id)') /\ (Answered(d, id) => Answered(d, id)')
      BY <1>e DEF OnItsWay, Answered, InFlight
    <2> QED
      BY <1>c, <1>e, <2>1 DEF Served
  <1>f. ASSUME NEW e \in Ends, NEW m \in Message, Commit(e, m), UNCHANGED <<outcome, read, running, lost>> PROVE Goal
    <2>1. (OnItsWay(d, id) => OnItsWay(d, id)') /\ (Answered(d, id) => Answered(d, id)')
      BY <1>f, CommitServed DEF ServedInv
    <2> QED
      BY <1>c, <1>f, <2>1 DEF Served
  <1>g. ASSUME NEW e \in Ends, Advance(e), InFlight(e) # {}, UNCHANGED <<outcome, sent, running, lost>>,
               e = p => NextMessage(e).type # "Request", e = d => NextMessage(e).type \notin ReplyTypes
        PROVE  Goal
    <2>1. (OnItsWay(d, id) => OnItsWay(d, id)') /\ (Answered(d, id) => Answered(d, id)')
      BY <1>g, AdvanceServed DEF Msg
    <2> QED
      BY <1>c, <1>g, <2>1 DEF Served
  <1>1. ASSUME NEW e \in Ends, HandleReply(e) PROVE Goal
    <2>1. Advance(e) /\ InFlight(e) # {} /\ UNCHANGED <<sent, running, lost>> /\ NextMessage(e).type \in ReplyTypes
      BY <1>1 DEF HandleReply, Receives, serving, history
    <2>2. CASE e = d
      <3>1. NextMessage(d).id \in pendingRequests[d]
        BY <1>1, <1>b, <2>2, StagesReply DEF StagesInv
      <3>2. outcome' = [outcome EXCEPT ![d][NextMessage(d).id] = IF NextMessage(d).type = "Reply" THEN "resolved" ELSE "rejected"]
        BY <1>1, <2>2, <3>1 DEF HandleReply
      <3>3. id # NextMessage(d).id /\ outcome[d][id] = "pending"
        BY <1>d, <3>2
      <3>4. Served(d, id)
        BY <1>c, <3>3
      <3>5. (OnItsWay(d, id) => OnItsWay(d, id)') /\ (Answered(d, id) => Answered(d, id)')
        BY <1>a, <2>1, <2>2, <3>3, AdvanceServed
      <3> QED
        BY <2>1, <3>4, <3>5 DEF Served
    <2>3. CASE e = p
      <3>1. outcome'[d] = outcome[d]
        BY <1>1, <1>a, <1>d, <2>3 DEF HandleReply
      <3>2. Served(d, id)
        BY <1>c, <3>1
      <3>3. (OnItsWay(d, id) => OnItsWay(d, id)') /\ (Answered(d, id) => Answered(d, id)')
        BY <1>a, <2>1, <2>3, AdvanceServed DEF Msg, ReplyTypes
      <3> QED
        BY <2>1, <3>2, <3>3 DEF Served
    <2> QED
      BY <1>a, <2>2, <2>3
  <1>2. ASSUME NEW e \in Ends, HandleRequest(e) PROVE Goal
    <2>1. /\ Advance(e) /\ InFlight(e) # {} /\ NextMessage(e).type = "Request"
          /\ UNCHANGED <<outcome, sent, lost>>
          /\ running' = [running EXCEPT ![e] = @ \cup {NextMessage(e).id}]
      BY <1>2 DEF HandleRequest, Receives, requesting, history
    <2>2. NextMessage(e).id \in Ids
      BY <1>2, ReceivedMessage DEF HandleRequest
    <2>3. Answered(d, id) => Answered(d, id)'
      BY <2>1, AdvanceServed DEF ReplyTypes
    <2>4. running[p] \subseteq running'[p] /\ (e = p => NextMessage(e).id \in running'[p])
      BY <1>a, <1>d, <2>1
    <2>5. OnItsWay(d, id) => OnItsWay(d, id)' \/ (e = p /\ NextMessage(e).id = id)
      BY <2>1, AdvanceServed DEF Msg
    <2>6. Served(d, id)
      BY <1>c, <2>1
    <2> QED
      BY <2>1, <2>3, <2>4, <2>5, <2>6 DEF Served
  <1>3. ASSUME NEW e \in Ends, HandleCancel(e) \/ HandleNotify(e) PROVE Goal
    <2>1. /\ Advance(e) /\ InFlight(e) # {} /\ UNCHANGED <<outcome, sent, running, lost>>
          /\ NextMessage(e).type \notin ReplyTypes \cup {"Request"}
      BY <1>3 DEF HandleCancel, HandleNotify, Receives, requesting, serving, history, ReplyTypes
    <2> QED
      BY <1>g, <2>1
  <1>4. ASSUME NEW e \in Ends, DropIncompatible(e) PROVE Goal
    <2>1. /\ Advance(e) /\ InFlight(e) # {} /\ UNCHANGED <<outcome, sent, running, lost>>
          /\ NextMessage(e).type \in (IF Mode[e] = "clientOnly" THEN RequestTypes
                                      ELSE IF Mode[e] = "serverOnly" THEN ReplyTypes ELSE {})
      BY <1>4 DEF DropIncompatible, Receives, requesting, serving, history
    <2>2. e = p => NextMessage(e).type # "Request"
      BY <2>1 DEF ModesFit, ReplyTypes
    <2>3. e = d => NextMessage(e).type \notin ReplyTypes
      BY <2>1 DEF ModesFit, RequestTypes, ReplyTypes
    <2> QED
      BY <1>g, <2>1, <2>2, <2>3
  <1>5. ASSUME NEW e \in Ends, NEW token \in BOOLEAN, NEW early \in BOOLEAN, SendRequest(e, token, early) PROVE Goal
    <2> DEFINE new == nextMessageId[e]
               m == Msg("Request", new, token)
    <2>1. new \in Ids
      BY <1>5, NextIdIsFree DEF SendRequest
    <2>2. m \in Message /\ m.id = new /\ m \in {Msg("Request", new, FALSE), Msg("Request", new, TRUE)}
      BY <2>1, MsgIsMessage DEF RequestTypes, Msg
    <2>3. /\ Commit(e, m) /\ UNCHANGED <<read, running, lost>>
          /\ outcome' = [outcome EXCEPT ![e][new] = "pending"]
      BY <1>5 DEF SendRequest, serving, history
    <2>4. CASE e = d /\ id = new
      <3>1. OnItsWay(d, id)'
        BY <1>b, <2>2, <2>3, <2>4, CommitServed DEF ServedInv
      <3> QED
        BY <3>1 DEF Served
    <2>5. CASE ~(e = d /\ id = new)
      <3>1. outcome'[d][id] = outcome[d][id]
        BY <1>d, <2>1, <2>3, <2>5
      <3>2. Served(d, id)
        BY <1>c, <3>1
      <3>3. (OnItsWay(d, id) => OnItsWay(d, id)') /\ (Answered(d, id) => Answered(d, id)')
        BY <2>2, <2>3, CommitServed DEF ServedInv
      <3> QED
        BY <2>3, <3>2, <3>3 DEF Served
    <2> QED
      BY <2>4, <2>5
  <1>6. ASSUME NEW e \in Ends, FailToSendRequest(e) PROVE Goal
    BY <1>e, <1>6 DEF FailToSendRequest, serving
  <1>7. ASSUME NEW e \in Ends, FinishSendRequest(e) PROVE Goal
    <2>1. UNCHANGED <<outcome, read, running, lost>> /\ sending[e] \in Ids
      BY <1>7 DEF FinishSendRequest, serving, history, TypeOK
    <2>2. Msg("Cancel", sending[e], FALSE) \in Message
      BY <2>1, MsgIsMessage DEF RequestTypes
    <2>3. UNCHANGED sent \/ Commit(e, Msg("Cancel", sending[e], FALSE))
      BY <1>7 DEF FinishSendRequest
    <2> QED
      BY <1>e, <1>f, <2>1, <2>2, <2>3
  <1>8. ASSUME NEW e \in Ends, NEW t \in Ids, CancelToken(e, t) PROVE Goal
    <2>1. UNCHANGED <<outcome, read, running, lost>>
      BY <1>8 DEF CancelToken, serving, history
    <2>2. Msg("Cancel", t, FALSE) \in Message
      BY MsgIsMessage DEF RequestTypes
    <2>3. UNCHANGED sent \/ Commit(e, Msg("Cancel", t, FALSE))
      BY <1>8 DEF CancelToken
    <2> QED
      BY <1>e, <1>f, <2>1, <2>2, <2>3
  <1>9. ASSUME NEW e \in Ends, SendNotification(e) PROVE Goal
    <2>1. nextMessageId[e] \in Ids
      BY <1>9, NextIdIsFree DEF SendNotification
    <2>2. Msg("Notification", nextMessageId[e], FALSE) \in Message
      BY <2>1, MsgIsMessage DEF RequestTypes
    <2>3. /\ Commit(e, Msg("Notification", nextMessageId[e], FALSE))
          /\ UNCHANGED <<outcome, read, running, lost>>
      BY <1>9 DEF SendNotification, serving, history
    <2> QED
      BY <1>f, <2>2, <2>3
  <1>10. ASSUME NEW e \in Ends, NEW t \in Ids, NEW type \in ReplyTypes, Answer(e, t, type) PROVE Goal
    <2> DEFINE m == Msg(type, t, FALSE)
    <2>1. m \in Message /\ m.id = t /\ m.type = type
      BY MsgIsMessage DEF Msg
    <2>2. /\ Commit(e, m) /\ UNCHANGED <<outcome, read, lost>>
          /\ running' = [running EXCEPT ![e] = @ \ {t}]
      BY <1>10 DEF Answer, requesting, history
    <2>3. (OnItsWay(d, id) => OnItsWay(d, id)') /\ (Answered(d, id) => Answered(d, id)')
      BY <2>1, <2>2, CommitServed DEF ServedInv
    <2>4. e = p => Answered(d, t)'
      BY <1>b, <2>1, <2>2, CommitServed DEF ServedInv
    <2>5. id \in running[p] => id \in running'[p] \/ (e = p /\ id = t)
      BY <1>a, <1>d, <2>2
    <2>6. Served(d, id)
      BY <1>c, <2>2
    <2> QED
      BY <2>2, <2>3, <2>4, <2>5, <2>6 DEF Served
  <1>11. ASSUME NEW e \in Ends, NEW t \in Ids, FailToAnswer(e, t) PROVE Goal
    <2>1. /\ UNCHANGED <<outcome, sent, read>>
          /\ running' = [running EXCEPT ![e] = @ \ {t}]
          /\ lost' = [lost EXCEPT ![e] = @ \cup {t}]
      BY <1>11 DEF FailToAnswer, requesting
    <2>2. running[p] \cup lost[p] \subseteq running'[p] \cup lost'[p]
      BY <1>a, <1>d, <2>1
    <2>3. (OnItsWay(d, id) => OnItsWay(d, id)') /\ (Answered(d, id) => Answered(d, id)')
      BY <2>1 DEF OnItsWay, Answered, InFlight
    <2> QED
      BY <1>c, <2>1, <2>2, <2>3 DEF Served
  <1>12. ASSUME NEW e \in Ends, Close(e) PROVE Goal
    <2>1. closed'[e]
      BY <1>12 DEF Close, TypeOK
    <2> QED
      BY <1>a, <2>1
  <1>13. CASE UNCHANGED vars
    BY <1>e, <1>13 DEF vars, requesting, serving, history
  <1> QED
    BY <1>1, <1>2, <1>3, <1>4, <1>5, <1>6, <1>7, <1>8, <1>9, <1>10, <1>11, <1>12, <1>13
       DEF Next, HandleMessage, Use, Serve, Finish

LEMMA ServedInvInit == Init => ServedInv
  <1> SUFFICES ASSUME Init PROVE PendingRequestIsServed
    BY ReadInvInit DEF ServedInv
  <1> QED
    BY DEF Init, PendingRequestIsServed

LEMMA ServedInvNext == TypeOK /\ StagesInv /\ ServedInv /\ [Next]_vars => ServedInv'
  <1> SUFFICES ASSUME TypeOK, StagesInv, ServedInv, [Next]_vars PROVE PendingRequestIsServed'
    BY ReadInvNext DEF ServedInv
  <1>1. ASSUME NEW e \in Ends, NEW id \in Ids, outcome'[e][id] = "pending", ModesFit(e), ~closed'[e], ~closed'[Other(e)]
        PROVE  Served(e, id)'
    BY <1>1, ServedNext
  <1>2. PendingRequestIsServed' <=> \A e \in Ends : \A id \in Ids :
            (outcome'[e][id] = "pending" /\ ModesFit(e) /\ ~closed'[e] /\ ~closed'[Other(e)]) => Served(e, id)'
    BY DEF PendingRequestIsServed, Served, OnItsWay, Answered, ModesFit
  <1> QED
    BY <1>1, <1>2

\* As long as neither end is closed, a request its caller waits for is on its
\* way, its handler runs, or its answer is on its way, unless the answer could
\* not be encoded: no request is lost between the two ends.
THEOREM PendingRequestsAreServed == Spec => []PendingRequestIsServed
  <1>1. ServedInv => PendingRequestIsServed
    BY DEF ServedInv
  <1> QED
    BY <1>1, TypeCorrect, StagesInvInit, StagesInvNext, ServedInvInit, ServedInvNext, PTL DEF Spec

===============================================================================
