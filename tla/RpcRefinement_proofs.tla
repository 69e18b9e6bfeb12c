------------------------- MODULE RpcRefinement_proofs -------------------------
(***************************************************************************)
(* RpcProtocol implements ReliableCall for every request: the property     *)
(* RequestsAreReliableCalls, for every number of messages and failures,    *)
(* every pair of modes, and programs and channels of every kind.           *)
(***************************************************************************)
EXTENDS RpcProtocol_proofs

(***************************************************************************)
(* The inductive invariant: nothing is asked or answered twice, and a      *)
(* promise, a handler and an answer come in this order.                    *)
(***************************************************************************)
RequestsOnce(e) ==
    \A i, j \in DOMAIN sent[e] :
        (/\ sent[e][i].type = "Request" /\ sent[e][j].type = "Request"
         /\ sent[e][i].id = sent[e][j].id) => i = j

RepliesOnce(e) ==
    \A i, j \in DOMAIN sent[e] :
        (/\ sent[e][i].type \in ReplyTypes /\ sent[e][j].type \in ReplyTypes
         /\ sent[e][i].id = sent[e][j].id) => i = j

RequestsHaveCallers(e) ==
    \A i \in DOMAIN sent[e] : sent[e][i].type = "Request" => outcome[e][sent[e][i].id] # "none"

\* Where e's request id may be.
Ordered(e, id) ==
    /\ id >= nextMessageId[e] => outcome[e][id] = "none"
    /\ outcome[e][id] = "pending" => id \in pendingRequests[e]
    /\ id \in pendingRequests[e] => outcome[e][id] \in {"none", "pending"}
    /\ id \in running[Other(e)] => RequestIsRead(e, id)
    /\ \A type \in ReplyTypes : Replied(e, id, type) => RequestIsRead(e, id) /\ id \notin running[Other(e)]

MessagesInv == \A e \in Ends : RequestsOnce(e) /\ RepliesOnce(e) /\ RequestsHaveCallers(e)

CallInv == MessagesInv /\ \A e \in Ends, id \in Ids : Ordered(e, id)

\* A step of ReliableCall, or none, for every request.
CallsStep ==
    \A e \in Ends, id \in Ids :
        [Abstract(e, id)!Next]_<<outcome[e][id], HandlerOf(e, id), ~closed[e]>>

-------------------------------------------------------------------------------
(***************************************************************************)
(* What a message changes.                                                 *)
(***************************************************************************)
\* What has been read and answered before and after a commit.
LEMMA CommitViews ==
    ASSUME TypeOK, ReadInv, NEW a \in Ends, NEW m \in Message, Commit(a, m), read' = read,
           NEW e \in Ends, NEW id
    PROVE  /\ RequestIsRead(e, id)' <=> RequestIsRead(e, id)
           /\ \A type : Replied(e, id, type)' <=>
                 \/ Replied(e, id, type)
                 \/ a = Other(e) /\ ~closed[a] /\ m.type = type /\ m.id = id
<1>1. /\ \A d \in Ends : d # a => sent'[d] = sent[d]
      /\ closed[a] => sent' = sent
      /\ ~closed[a] => /\ DOMAIN sent'[a] = DOMAIN sent[a] \cup {Len(sent[a]) + 1}
                       /\ sent'[a][Len(sent[a]) + 1] = m
      /\ \A i \in DOMAIN sent[a] : sent'[a][i] = sent[a][i]
      BY CommitAppends
<1>2. Other(e) \in Ends /\ Other(Other(e)) = e /\ Other(a) \in Ends
      BY OtherEnd
<1>3. sent[e] \in Seq(Message) /\ read[Other(e)] \in Nat /\ read[Other(e)] <= Len(sent[e])
      BY <1>2 DEF TypeOK, ReadInv
<1>4. ~(Len(sent[e]) + 1 <= read[Other(e)])
      BY <1>3
<1>5. RequestIsRead(e, id)' <=> RequestIsRead(e, id)
  <2>1. CASE a # e \/ closed[a]
        BY <1>1, <2>1 DEF RequestIsRead
  <2>2. CASE a = e /\ ~closed[a]
        BY <1>1, <1>4, <2>2 DEF RequestIsRead
  <2> QED BY <2>1, <2>2
<1>6. ASSUME NEW type
      PROVE  Replied(e, id, type)' <=>
                 \/ Replied(e, id, type)
                 \/ a = Other(e) /\ ~closed[a] /\ m.type = type /\ m.id = id
  <2>1. CASE a # Other(e) \/ closed[a]
        BY <1>1, <1>2, <2>1 DEF Replied
  <2>2. CASE a = Other(e) /\ ~closed[a]
        BY <1>1, <2>2 DEF Replied
  <2> QED BY <2>1, <2>2
<1> QED BY <1>5, <1>6

\* A message that is neither a second request nor a second answer.
LEMMA CommitOnce ==
    ASSUME TypeOK, MessagesInv, NEW a \in Ends, NEW m \in Message, Commit(a, m),
           m.type = "Request" => \A i \in DOMAIN sent[a] :
                                    ~(sent[a][i].type = "Request" /\ sent[a][i].id = m.id),
           m.type \in ReplyTypes => \A i \in DOMAIN sent[a] :
                                    ~(sent[a][i].type \in ReplyTypes /\ sent[a][i].id = m.id),
           m.type = "Request" => outcome'[a][m.id] # "none",
           \A e \in Ends, id \in Ids : outcome[e][id] # "none" => outcome'[e][id] # "none"
    PROVE  MessagesInv'
<1>1. /\ \A d \in Ends : d # a => sent'[d] = sent[d]
      /\ closed[a] => sent' = sent
      /\ ~closed[a] => /\ DOMAIN sent'[a] = DOMAIN sent[a] \cup {Len(sent[a]) + 1}
                       /\ sent'[a][Len(sent[a]) + 1] = m
      /\ \A i \in DOMAIN sent[a] : sent'[a][i] = sent[a][i]
      BY CommitAppends
<1>2. \A e \in Ends : \A i \in DOMAIN sent[e] : sent[e][i].id \in Ids
  <2>1. \A e \in Ends : \A i \in DOMAIN sent[e] : sent[e][i] \in Message
        BY DEF TypeOK
  <2> QED BY <2>1 DEF Message
<1>3. \A e \in Ends : RequestsHaveCallers(e)'
      BY <1>1, <1>2 DEF MessagesInv, RequestsHaveCallers
<1>4. ASSUME NEW e \in Ends PROVE RequestsOnce(e)' /\ RepliesOnce(e)'
  <2>1. CASE e # a \/ closed[a]
        BY <1>1, <2>1 DEF MessagesInv, RequestsOnce, RepliesOnce
  <2>2. CASE e = a /\ ~closed[a]
    <3>1. ASSUME NEW i \in DOMAIN sent'[a], NEW j \in DOMAIN sent'[a]
          PROVE  \/ i \in DOMAIN sent[a] /\ j \in DOMAIN sent[a]
                       /\ sent'[a][i] = sent[a][i] /\ sent'[a][j] = sent[a][j]
                 \/ i \in DOMAIN sent[a] /\ sent'[a][i] = sent[a][i] /\ sent'[a][j] = m
                 \/ j \in DOMAIN sent[a] /\ sent'[a][j] = sent[a][j] /\ sent'[a][i] = m
                 \/ i = j
          BY <1>1, <2>2, <3>1
    <3>2. RequestsOnce(a)'
          BY <3>1 DEF MessagesInv, RequestsOnce
    <3>3. RepliesOnce(a)'
          BY <3>1 DEF MessagesInv, RepliesOnce
    <3> QED BY <2>2, <3>2, <3>3
  <2> QED BY <2>1, <2>2
<1> QED BY <1>3, <1>4 DEF MessagesInv

\* What has been read and answered before and after a message is read.
LEMMA AdvanceViews ==
    ASSUME TypeOK, NEW a \in Ends, NEW types, Receives(a, types), Advance(a), sent' = sent,
           NEW e \in Ends, NEW id
    PROVE  /\ RequestIsRead(e, id)' <=>
                 \/ RequestIsRead(e, id)
                 \/ a = Other(e) /\ NextMessage(a).type = "Request" /\ NextMessage(a).id = id
           /\ \A type : Replied(e, id, type)' <=> Replied(e, id, type)
<1>1. read[a] \in Nat /\ read[a] + 1 \in DOMAIN sent[Other(a)]
      BY ReceivedMessage
<1>2. Other(e) \in Ends /\ Other(Other(e)) = e
      BY OtherEnd
<1>3. sent[e] \in Seq(Message) /\ read \in [Ends -> Nat]
      BY DEF TypeOK
<1>4. read' = [read EXCEPT ![a] = read[a] + 1]
      BY DEF Advance
<1>5. RequestIsRead(e, id)' <=>
         \/ RequestIsRead(e, id)
         \/ a = Other(e) /\ NextMessage(a).type = "Request" /\ NextMessage(a).id = id
  <2>1. CASE a # Other(e)
        BY <1>2, <1>3, <1>4, <2>1 DEF RequestIsRead
  <2>2. CASE a = Other(e)
    <3>1. read'[Other(e)] = read[a] + 1 /\ sent[Other(a)] = sent[e]
          BY <1>2, <1>3, <1>4, <2>2
    <3>2. \A i \in DOMAIN sent[e] : i <= read[a] + 1 <=> (i <= read[a] \/ i = read[a] + 1)
          BY <1>1, <1>3
    <3> QED BY <1>1, <2>2, <3>1, <3>2 DEF RequestIsRead, NextMessage
  <2> QED BY <2>1, <2>2
<1> QED BY <1>5 DEF Replied

\* A request that is being read was not read before, and its caller has a promise.
LEMMA NewRequest ==
    ASSUME TypeOK, MessagesInv, NEW a \in Ends, NEW types, Receives(a, types),
           NextMessage(a).type = "Request"
    PROVE  /\ ~RequestIsRead(Other(a), NextMessage(a).id)
           /\ outcome[Other(a)][NextMessage(a).id] # "none"
<1>1. read[a] \in Nat /\ read[a] + 1 \in DOMAIN sent[Other(a)]
      BY ReceivedMessage
<1>2. Other(a) \in Ends /\ Other(Other(a)) = a
      BY OtherEnd
<1>3. sent[Other(a)] \in Seq(Message)
      BY <1>2 DEF TypeOK
<1>4. \A i \in DOMAIN sent[Other(a)] : i <= read[a] => i # read[a] + 1
      BY <1>1, <1>3
<1> QED BY <1>1, <1>2, <1>4 DEF MessagesInv, RequestsOnce, RequestsHaveCallers, RequestIsRead, NextMessage

\* A request whose answer is in the channel has been read; it has one answer.
LEMMA OneAnswer ==
    ASSUME TypeOK, CallInv, NEW e \in Ends, NEW id \in Ids
    PROVE  /\ ~(Replied(e, id, "Reply") /\ Replied(e, id, "ReplyErr"))
           /\ RequestIsRead(e, id) => outcome[e][id] # "none"
<1>1. Other(e) \in Ends
      BY OtherEnd
<1> QED BY <1>1 DEF CallInv, MessagesInv, RepliesOnce, RequestsHaveCallers, RequestIsRead, Replied, ReplyTypes

-------------------------------------------------------------------------------
(***************************************************************************)
(* The steps.                                                              *)
(***************************************************************************)
\* Nothing happens to any promise, handler or answer.
Quiet ==
    /\ UNCHANGED <<outcome, running, closed>>
    /\ \A e \in Ends, id \in Ids :
          /\ RequestIsRead(e, id)' <=> RequestIsRead(e, id)
          /\ \A type \in ReplyTypes : Replied(e, id, type)' <=> Replied(e, id, type)
    /\ \A e \in Ends, id \in Ids :
          /\ id >= nextMessageId'[e] => id >= nextMessageId[e]
          /\ outcome[e][id] = "pending" /\ id \in pendingRequests[e] => id \in pendingRequests'[e]
          /\ id \in pendingRequests'[e] => id \in pendingRequests[e] \/ outcome[e][id] = "none"
    /\ MessagesInv'

LEMMA QuietStep == ASSUME CallInv, Quiet PROVE CallInv' /\ CallsStep
<1>1. ASSUME NEW e \in Ends, NEW id \in Ids PROVE Ordered(e, id)'
      BY DEF CallInv, Quiet, Ordered
<1>2. ASSUME NEW e \in Ends, NEW id \in Ids
      PROVE  UNCHANGED <<outcome[e][id], HandlerOf(e, id), ~closed[e]>>
  <2>1. "Reply" \in ReplyTypes /\ "ReplyErr" \in ReplyTypes
        BY DEF ReplyTypes
  <2> QED BY <2>1 DEF Quiet, HandlerOf
<1> QED BY <1>1, <1>2 DEF CallInv, CallsStep, Quiet

LEMMA QuietCommit ==
    ASSUME TypeOK, ReadInv, CallInv, NEW a \in Ends, NEW m \in Message, m.type \in {"Cancel", "Notification"},
           Commit(a, m), UNCHANGED <<read, outcome, running, closed, pendingRequests>>,
           \A e \in Ends : nextMessageId'[e] = nextMessageId[e] \/ nextMessageId'[e] = nextMessageId[e] + 1
    PROVE  Quiet
<1>1. m.type \notin ReplyTypes /\ m.type # "Request"
      BY DEF ReplyTypes
<1>2. MessagesInv'
      BY <1>1, CommitOnce DEF CallInv
<1>3. \A e \in Ends : nextMessageId[e] \in Nat
      BY RpcAssumption DEF TypeOK
<1>4. \A e \in Ends, id \in Ids : id >= nextMessageId'[e] => id >= nextMessageId[e]
      BY <1>3, RpcAssumption DEF Ids
<1> QED BY <1>1, <1>2, <1>4, CommitViews DEF Quiet

LEMMA QuietAdvance ==
    ASSUME TypeOK, CallInv, NEW a \in Ends, NEW types, Receives(a, types), Advance(a),
           NextMessage(a).type # "Request", UNCHANGED <<sent, requesting, running, closed>>
    PROVE  Quiet
<1>1. MessagesInv'
      BY DEF CallInv, MessagesInv, RequestsOnce, RepliesOnce, RequestsHaveCallers, requesting
<1> QED BY <1>1, AdvanceViews DEF Quiet, requesting

\* A request is read: it is served or dropped.
LEMMA RequestStep ==
    ASSUME TypeOK, CallInv, NEW a \in Ends, NEW types, Receives(a, types), Advance(a),
           NextMessage(a).type = "Request", UNCHANGED <<sent, requesting, closed>>,
           running' = running \/ running' = [running EXCEPT ![a] = @ \cup {NextMessage(a).id}]
    PROVE  CallInv' /\ CallsStep
<1> DEFINE m == NextMessage(a)
<1>1. /\ Other(a) \in Ends /\ Other(Other(a)) = a
      /\ \A e \in Ends : Other(e) \in Ends /\ (a = Other(e) <=> e = Other(a))
      BY OtherEnd
<1>2. PICK k \in Ids : k = m.id
      BY ReceivedMessage
<1>3. ~RequestIsRead(Other(a), k) /\ outcome[Other(a)][k] # "none"
      BY <1>2, NewRequest DEF CallInv
<1>4. k \notin running[a] /\ \A type \in ReplyTypes : ~Replied(Other(a), k, type)
      BY <1>1, <1>3 DEF CallInv, Ordered
<1>5. \A e \in Ends, id \in Ids :
         /\ RequestIsRead(e, id)' <=> RequestIsRead(e, id) \/ (e = Other(a) /\ id = k)
         /\ \A type \in ReplyTypes : Replied(e, id, type)' <=> Replied(e, id, type)
      BY <1>1, <1>2, AdvanceViews
<1>6. /\ \A e \in Ends \ {a} : running'[e] = running[e]
      /\ running'[a] = running[a] \/ running'[a] = running[a] \cup {k}
      BY <1>2 DEF TypeOK
<1>7. UNCHANGED <<outcome, pendingRequests, nextMessageId, closed>>
      BY DEF requesting
<1>8. MessagesInv'
      BY <1>7 DEF CallInv, MessagesInv, RequestsOnce, RepliesOnce, RequestsHaveCallers
<1>9. ASSUME NEW e \in Ends, NEW id \in Ids PROVE Ordered(e, id)'
      BY <1>1, <1>4, <1>5, <1>6, <1>7 DEF CallInv, Ordered
<1>10. "Reply" \in ReplyTypes /\ "ReplyErr" \in ReplyTypes
      BY DEF ReplyTypes
<1>11. ASSUME NEW e \in Ends, NEW id \in Ids, e = Other(a), id = k
      PROVE  Abstract(e, id)!Next
  <2>1. HandlerOf(e, id) = "none"
        BY <1>1, <1>3, <1>4, <1>10, <1>11 DEF HandlerOf
  <2>2. HandlerOf(e, id)' \in {"runs", "silent"}
        BY <1>1, <1>4, <1>5, <1>10, <1>11 DEF HandlerOf
  <2>3. Abstract(e, id)!Start
        BY <1>3, <1>7, <1>11, <2>1, <2>2 DEF Abstract!Start
  <2> QED BY <2>3 DEF Abstract!Next
<1>12. ASSUME NEW e \in Ends, NEW id \in Ids, ~(e = Other(a) /\ id = k)
      PROVE  UNCHANGED <<outcome[e][id], HandlerOf(e, id), ~closed[e]>>
      BY <1>1, <1>5, <1>6, <1>7, <1>10, <1>12 DEF HandlerOf
<1> QED BY <1>8, <1>9, <1>11, <1>12 DEF CallInv, CallsStep

\* A request is sent.
LEMMA SendStep ==
    ASSUME TypeOK, ReadInv, CallInv, NEW a \in Ends, NEW token \in BOOLEAN, NEW early \in BOOLEAN,
           SendRequest(a, token, early)
    PROVE  CallInv' /\ CallsStep
<1>1. PICK k \in Ids : k = nextMessageId[a]
      BY NextIdIsFree DEF SendRequest
<1>2. PICK m \in Message : m = Msg("Request", k, token)
      BY MsgIsMessage DEF RequestTypes
<1>3. /\ m.type = "Request" /\ m.id = k /\ m.type \notin ReplyTypes
      BY <1>2 DEF Msg, ReplyTypes
<1>4. /\ Commit(a, m) /\ UNCHANGED <<running, read, closed>>
      /\ nextMessageId' = [nextMessageId EXCEPT ![a] = k + 1]
      /\ pendingRequests' = [pendingRequests EXCEPT ![a] = @ \cup {k}]
      /\ outcome' = [outcome EXCEPT ![a][k] = "pending"]
      BY <1>1, <1>2 DEF SendRequest, Register, serving
<1>5. outcome[a][k] = "none"
  <2>1. nextMessageId[a] \in Nat
        BY RpcAssumption DEF TypeOK
  <2> QED BY <1>1, <2>1 DEF CallInv, Ordered
<1>6. /\ outcome'[a][k] = "pending" /\ k \in pendingRequests'[a] /\ nextMessageId'[a] = k + 1
      /\ \A id \in Ids \ {k} : outcome'[a][id] = outcome[a][id]
      /\ \A id \in Ids \ {k} : id \in pendingRequests'[a] <=> id \in pendingRequests[a]
      /\ \A e \in Ends \ {a} : /\ outcome'[e] = outcome[e] /\ pendingRequests'[e] = pendingRequests[e]
                               /\ nextMessageId'[e] = nextMessageId[e]
      BY <1>4 DEF TypeOK
<1>7. \A i \in DOMAIN sent[a] : ~(sent[a][i].type = "Request" /\ sent[a][i].id = k)
      BY <1>5 DEF CallInv, MessagesInv, RequestsHaveCallers
<1>8. \A e \in Ends, id \in Ids : outcome[e][id] # "none" => outcome'[e][id] # "none"
      BY <1>6
<1>9. MessagesInv'
      BY <1>3, <1>4, <1>6, <1>7, <1>8, CommitOnce DEF CallInv
<1>10. \A e \in Ends, id \in Ids :
         /\ RequestIsRead(e, id)' <=> RequestIsRead(e, id)
         /\ \A type \in ReplyTypes : Replied(e, id, type)' <=> Replied(e, id, type)
      BY <1>3, <1>4, CommitViews
<1>11. ASSUME NEW e \in Ends, NEW id \in Ids PROVE Ordered(e, id)'
  <2>1. id \in Nat /\ k \in Nat
        BY RpcAssumption DEF Ids
  <2>2. CASE e = a /\ id = k
        BY <1>4, <1>6, <1>10, <2>1, <2>2 DEF CallInv, Ordered
  <2>3. CASE e = a /\ id # k
    <3>1. id >= k + 1 => id >= nextMessageId[a]
          BY <1>1, <2>1
    <3> QED BY <1>4, <1>6, <1>10, <2>3, <3>1 DEF CallInv, Ordered
  <2>4. CASE e # a
        BY <1>4, <1>6, <1>10, <2>4 DEF CallInv, Ordered
  <2> QED BY <2>2, <2>3, <2>4
<1>12. "Reply" \in ReplyTypes /\ "ReplyErr" \in ReplyTypes
      BY DEF ReplyTypes
<1>13. \A e \in Ends, id \in Ids : HandlerOf(e, id)' = HandlerOf(e, id) /\ (~closed[e])' = ~closed[e]
      BY <1>4, <1>10, <1>12 DEF HandlerOf
<1>14. Abstract(a, k)!Next
      BY <1>5, <1>6, <1>13 DEF Abstract!Next, Abstract!Request
<1>15. ASSUME NEW e \in Ends, NEW id \in Ids, ~(e = a /\ id = k)
      PROVE  UNCHANGED <<outcome[e][id], HandlerOf(e, id), ~closed[e]>>
      BY <1>6, <1>13, <1>15
<1> QED BY <1>9, <1>11, <1>14, <1>15 DEF CallInv, CallsStep

\* A reply is read, and its request is pending.
LEMMA ReplyStep ==
    ASSUME TypeOK, CallInv, NEW a \in Ends, HandleReply(a),
           NextMessage(a).id \in pendingRequests[a]
    PROVE  CallInv' /\ CallsStep
<1>1. PICK k \in Ids : k = NextMessage(a).id
      BY ReceivedMessage DEF HandleReply
<1>2. PICK type \in ReplyTypes : type = NextMessage(a).type
      BY DEF HandleReply, Receives
<1>3. PICK o \in {"resolved", "rejected"} : o = IF type = "Reply" THEN "resolved" ELSE "rejected"
      OBVIOUS
<1>4. /\ Receives(a, ReplyTypes) /\ Advance(a) /\ UNCHANGED <<sent, running, closed, nextMessageId>>
      /\ pendingRequests' = [pendingRequests EXCEPT ![a] = @ \ {k}]
      /\ outcome' = [outcome EXCEPT ![a][k] = o]
      BY <1>1, <1>2, <1>3 DEF HandleReply, serving
<1>5. /\ outcome'[a][k] = o /\ k \notin pendingRequests'[a]
      /\ \A id \in Ids \ {k} : outcome'[a][id] = outcome[a][id]
      /\ \A id \in Ids \ {k} : id \in pendingRequests'[a] <=> id \in pendingRequests[a]
      /\ \A e \in Ends \ {a} : outcome'[e] = outcome[e] /\ pendingRequests'[e] = pendingRequests[e]
      BY <1>4 DEF TypeOK
<1>6. type # "Request" /\ (type = "Reply" \/ type = "ReplyErr") /\ {"Reply", "ReplyErr"} = ReplyTypes
      BY DEF ReplyTypes
<1>7. \A e \in Ends, id \in Ids :
         /\ RequestIsRead(e, id)' <=> RequestIsRead(e, id)
         /\ \A t \in ReplyTypes : Replied(e, id, t)' <=> Replied(e, id, t)
      BY <1>2, <1>4, <1>6, AdvanceViews
<1>8. Replied(a, k, type)
  <2>1. read[a] + 1 \in DOMAIN sent[Other(a)]
        BY <1>4, ReceivedMessage
  <2> QED BY <1>1, <1>2, <2>1 DEF Replied, NextMessage
<1>9. RequestIsRead(a, k) /\ k \notin running[Other(a)] /\ outcome[a][k] = "pending"
  <2>1. RequestIsRead(a, k) /\ k \notin running[Other(a)] /\ outcome[a][k] \in {"none", "pending"}
        BY <1>1, <1>8 DEF CallInv, Ordered
  <2> QED BY <2>1, OneAnswer
<1>10. ~(k >= nextMessageId[a])
      BY <1>9 DEF CallInv, Ordered
<1>11. MessagesInv'
  <2>1. ASSUME NEW e \in Ends, NEW id \in Ids, outcome[e][id] # "none" PROVE outcome'[e][id] # "none"
        BY <1>5, <2>1
  <2>2. \A e \in Ends : \A i \in DOMAIN sent[e] : sent[e][i].id \in Ids
    <3>1. \A e \in Ends : \A i \in DOMAIN sent[e] : sent[e][i] \in Message
          BY DEF TypeOK
    <3> QED BY <3>1 DEF Message
  <2> QED BY <1>4, <2>1, <2>2 DEF CallInv, MessagesInv, RequestsOnce, RepliesOnce, RequestsHaveCallers
<1>12. ASSUME NEW e \in Ends, NEW id \in Ids PROVE Ordered(e, id)'
  <2>1. CASE e = a /\ id = k
        BY <1>4, <1>5, <1>7, <1>9, <1>10, <2>1 DEF CallInv, Ordered
  <2>2. CASE e = a /\ id # k
        BY <1>4, <1>5, <1>7, <2>2 DEF CallInv, Ordered
  <2>3. CASE e # a
        BY <1>4, <1>5, <1>7, <2>3 DEF CallInv, Ordered
  <2> QED BY <2>1, <2>2, <2>3
<1>13. \A e \in Ends, id \in Ids : HandlerOf(e, id)' = HandlerOf(e, id) /\ (~closed[e])' = ~closed[e]
      BY <1>4, <1>6, <1>7 DEF HandlerOf
<1>14. HandlerOf(a, k) = IF type = "Reply" THEN "result" ELSE "error"
      BY <1>6, <1>8, <1>9, OneAnswer DEF HandlerOf
<1>15. Abstract(a, k)!Settle
      BY <1>3, <1>5, <1>9, <1>13, <1>14 DEF Abstract!Settle
<1>16. Abstract(a, k)!Next
      BY <1>15 DEF Abstract!Next
<1>17. ASSUME NEW e \in Ends, NEW id \in Ids, ~(e = a /\ id = k)
      PROVE  UNCHANGED <<outcome[e][id], HandlerOf(e, id), ~closed[e]>>
      BY <1>5, <1>13, <1>17
<1> QED BY <1>11, <1>12, <1>16, <1>17 DEF CallInv, CallsStep

\* A handler is over, with an answer or without.
LEMMA AnswerStep ==
    ASSUME TypeOK, ReadInv, CallInv, NEW a \in Ends, NEW k \in Ids, k \in running[a],
           running' = [running EXCEPT ![a] = @ \ {k}], UNCHANGED <<requesting, read, closed>>,
           sent' = sent \/ \E type \in ReplyTypes : Commit(a, Msg(type, k, FALSE))
    PROVE  CallInv' /\ CallsStep
<1>1. /\ Other(a) \in Ends /\ Other(Other(a)) = a
      /\ \A e \in Ends : Other(e) \in Ends /\ (a = Other(e) <=> e = Other(a))
      BY OtherEnd
<1>2. UNCHANGED <<outcome, pendingRequests, nextMessageId>>
      BY DEF requesting
<1>3. /\ \A e \in Ends \ {a} : running'[e] = running[e]
      /\ \A id \in Ids : id \in running'[a] <=> id \in running[a] /\ id # k
      BY DEF TypeOK
<1>4. RequestIsRead(Other(a), k) /\ \A type \in ReplyTypes : ~Replied(Other(a), k, type)
      BY <1>1 DEF CallInv, Ordered
<1>5. /\ MessagesInv'
      /\ \A e \in Ends, id \in Ids :
            /\ RequestIsRead(e, id)' <=> RequestIsRead(e, id)
            /\ e # Other(a) \/ id # k =>
                  \A type \in ReplyTypes : Replied(e, id, type)' <=> Replied(e, id, type)
      /\ ~(Replied(Other(a), k, "Reply")' /\ Replied(Other(a), k, "ReplyErr")')
  <2>1. CASE sent' = sent
    <3>1. MessagesInv'
          BY <1>2, <2>1 DEF CallInv, MessagesInv, RequestsOnce, RepliesOnce, RequestsHaveCallers
    <3> QED BY <1>4, <2>1, <3>1 DEF RequestIsRead, Replied, ReplyTypes
  <2>2. ASSUME NEW type \in ReplyTypes, Commit(a, Msg(type, k, FALSE))
        PROVE  <1>5!1 /\ <1>5!2 /\ <1>5!3
    <3>1. PICK m \in Message : m = Msg(type, k, FALSE)
          BY MsgIsMessage
    <3>2. m.type = type /\ m.id = k /\ m.type # "Request" /\ Commit(a, m)
          BY <2>2, <3>1 DEF Msg, ReplyTypes
    <3>3. \A i \in DOMAIN sent[a] : ~(sent[a][i].type \in ReplyTypes /\ sent[a][i].id = k)
          BY <1>1, <1>4 DEF Replied
    <3>4. MessagesInv'
          BY <1>2, <3>2, <3>3, CommitOnce DEF CallInv
    <3>5. \A e \in Ends, id \in Ids :
            /\ RequestIsRead(e, id)' <=> RequestIsRead(e, id)
            /\ \A t : Replied(e, id, t)' <=>
                  Replied(e, id, t) \/ (e = Other(a) /\ ~closed[a] /\ type = t /\ k = id)
          BY <1>1, <3>2, CommitViews
    <3>6. "Reply" \in ReplyTypes /\ "ReplyErr" \in ReplyTypes
          BY DEF ReplyTypes
    <3> QED BY <1>1, <1>4, <3>4, <3>5, <3>6
  <2> QED BY <2>1, <2>2
<1>6. ASSUME NEW e \in Ends, NEW id \in Ids PROVE Ordered(e, id)'
  <2>1. CASE e = Other(a) /\ id = k
        BY <1>1, <1>2, <1>3, <1>4, <1>5, <2>1 DEF CallInv, Ordered
  <2>2. CASE ~(e = Other(a) /\ id = k)
        BY <1>1, <1>2, <1>3, <1>5, <2>2 DEF CallInv, Ordered
  <2> QED BY <2>1, <2>2
<1>7. HandlerOf(Other(a), k) = "runs" /\ HandlerOf(Other(a), k)' \in {"result", "error", "silent"}
      BY <1>1, <1>3, <1>4, <1>5 DEF HandlerOf
<1>8. Abstract(Other(a), k)!End
      BY <1>2, <1>7 DEF Abstract!End
<1>9. Abstract(Other(a), k)!Next
      BY <1>8 DEF Abstract!Next
<1>10. ASSUME NEW e \in Ends, NEW id \in Ids, ~(e = Other(a) /\ id = k)
      PROVE  UNCHANGED <<outcome[e][id], HandlerOf(e, id), ~closed[e]>>
  <2>1. "Reply" \in ReplyTypes /\ "ReplyErr" \in ReplyTypes
        BY DEF ReplyTypes
  <2>2. id \in running'[Other(e)] <=> id \in running[Other(e)]
        BY <1>1, <1>3, <1>10
  <2> QED BY <1>2, <1>5, <1>10, <2>1, <2>2 DEF HandlerOf
<1> QED BY <1>5, <1>6, <1>9, <1>10 DEF CallInv, CallsStep

\* The channel closes at one end.
LEMMA CloseStep ==
    ASSUME TypeOK, CallInv, NEW a \in Ends, Close(a)
    PROVE  CallInv' /\ CallsStep
<1>1. /\ ~closed[a] /\ UNCHANGED <<nextMessageId, sent, read, running>>
      /\ closed' = [closed EXCEPT ![a] = TRUE]
      /\ pendingRequests' = [pendingRequests EXCEPT ![a] = {}]
      BY DEF Close, serving
<1>2. /\ closed'[a] /\ pendingRequests'[a] = {}
      /\ \A e \in Ends \ {a} : closed'[e] = closed[e] /\ pendingRequests'[e] = pendingRequests[e]
      BY <1>1 DEF TypeOK
<1>3. /\ \A e \in Ends \ {a} : outcome'[e] = outcome[e]
      /\ \A id \in Ids : outcome'[a][id] =
            IF id \in pendingRequests[a] /\ outcome[a][id] = "pending" THEN "rejected" ELSE outcome[a][id]
      BY DEF Close, TypeOK
<1>4. \A id \in Ids : outcome'[a][id] = IF outcome[a][id] = "pending" THEN "rejected" ELSE outcome[a][id]
      BY <1>3 DEF CallInv, Ordered
<1>5. \A e \in Ends, id \in Ids :
         /\ RequestIsRead(e, id)' <=> RequestIsRead(e, id)
         /\ \A type : Replied(e, id, type)' <=> Replied(e, id, type)
         /\ HandlerOf(e, id)' = HandlerOf(e, id)
      BY <1>1 DEF RequestIsRead, Replied, HandlerOf
<1>6. MessagesInv'
  <2>1. \A e \in Ends : \A i \in DOMAIN sent[e] : sent[e][i].id \in Ids
    <3>1. \A e \in Ends : \A i \in DOMAIN sent[e] : sent[e][i] \in Message
          BY DEF TypeOK
    <3> QED BY <3>1 DEF Message
  <2>2. \A e \in Ends, id \in Ids : outcome[e][id] # "none" => outcome'[e][id] # "none"
        BY <1>3, <1>4
  <2> QED BY <1>1, <2>1, <2>2 DEF CallInv, MessagesInv, RequestsOnce, RepliesOnce, RequestsHaveCallers
<1>7. ASSUME NEW e \in Ends, NEW id \in Ids PROVE Ordered(e, id)'
  <2>1. CASE e = a
        BY <1>1, <1>2, <1>4, <1>5, <2>1 DEF CallInv, Ordered
  <2>2. CASE e # a
        BY <1>1, <1>2, <1>3, <1>5, <2>2 DEF CallInv, Ordered
  <2> QED BY <2>1, <2>2
<1>8. ASSUME NEW id \in Ids PROVE Abstract(a, id)!Next
  <2>1. Abstract(a, id)!Disconnect
        BY <1>1, <1>2, <1>4, <1>5 DEF Abstract!Disconnect
  <2> QED BY <2>1 DEF Abstract!Next
<1>9. ASSUME NEW e \in Ends, NEW id \in Ids, e # a
      PROVE  UNCHANGED <<outcome[e][id], HandlerOf(e, id), ~closed[e]>>
      BY <1>2, <1>3, <1>5, <1>9
<1> QED BY <1>6, <1>7, <1>8, <1>9 DEF CallInv, CallsStep

-------------------------------------------------------------------------------
(***************************************************************************)
(* The theorem.                                                            *)
(***************************************************************************)
LEMMA CallsInit == Init => CallInv /\ \A e \in Ends, id \in Ids : Abstract(e, id)!Init
<1> SUFFICES ASSUME Init PROVE CallInv /\ \A e \in Ends, id \in Ids : Abstract(e, id)!Init
    OBVIOUS
<1>1. MessagesInv
      BY DEF Init, MessagesInv, RequestsOnce, RepliesOnce, RequestsHaveCallers
<1>2. ASSUME NEW e \in Ends, NEW id \in Ids
      PROVE  /\ outcome[e][id] = "none" /\ id \notin pendingRequests[e] /\ id \notin running[Other(e)]
             /\ ~RequestIsRead(e, id) /\ \A type : ~Replied(e, id, type)
             /\ ~closed[e]
      BY OtherEnd DEF Init, RequestIsRead, Replied
<1>3. ASSUME NEW e \in Ends, NEW id \in Ids PROVE Ordered(e, id) /\ Abstract(e, id)!Init
      BY <1>2 DEF Ordered, HandlerOf, Abstract!Init
<1> QED BY <1>1, <1>3 DEF CallInv

LEMMA CallsNext == TypeOK /\ ReadInv /\ CallInv /\ [Next]_vars => CallInv' /\ CallsStep
<1> SUFFICES ASSUME TypeOK, ReadInv, CallInv, [Next]_vars PROVE CallInv' /\ CallsStep
    OBVIOUS
<1>1. ASSUME NEW a \in Ends, HandleReply(a) PROVE CallInv' /\ CallsStep
  <2>1. CASE NextMessage(a).id \in pendingRequests[a]
        BY <1>1, <2>1, ReplyStep
  <2>2. CASE NextMessage(a).id \notin pendingRequests[a]
    <3>1. Receives(a, ReplyTypes) /\ Advance(a)
          BY <1>1 DEF HandleReply
    <3>2. NextMessage(a).type # "Request"
          BY <3>1 DEF Receives, ReplyTypes
    <3>3. UNCHANGED <<sent, requesting, running, closed>>
          BY <1>1, <2>2 DEF HandleReply, requesting, serving
    <3> QED BY <3>1, <3>2, <3>3, QuietAdvance, QuietStep
  <2> QED BY <2>1, <2>2
<1>2. ASSUME NEW a \in Ends, HandleRequest(a) PROVE CallInv' /\ CallsStep
  <2>1. /\ Receives(a, {"Request"}) /\ Advance(a) /\ UNCHANGED <<sent, requesting, closed>>
        /\ running' = [running EXCEPT ![a] = @ \cup {NextMessage(a).id}]
        BY <1>2 DEF HandleRequest
  <2>2. NextMessage(a).type = "Request"
        BY <2>1 DEF Receives
  <2> QED BY <2>1, <2>2, RequestStep
<1>3. ASSUME NEW a \in Ends, HandleCancel(a) \/ HandleNotify(a) PROVE CallInv' /\ CallsStep
  <2>1. PICK types \in {{"Cancel"}, {"Notification"}} : Receives(a, types) /\ Advance(a)
        BY <1>3 DEF HandleCancel, HandleNotify
  <2>2. NextMessage(a).type # "Request"
        BY <2>1 DEF Receives
  <2>3. UNCHANGED <<sent, requesting, running, closed>>
        BY <1>3 DEF HandleCancel, HandleNotify, serving
  <2> QED BY <2>1, <2>2, <2>3, QuietAdvance, QuietStep
<1>4. ASSUME NEW a \in Ends, DropIncompatible(a) PROVE CallInv' /\ CallsStep
  <2>1. PICK types : Receives(a, types) /\ Advance(a)
        BY <1>4 DEF DropIncompatible
  <2>2. UNCHANGED <<sent, requesting, running, closed>>
        BY <1>4 DEF DropIncompatible, serving
  <2>3. CASE NextMessage(a).type = "Request"
        BY <2>1, <2>2, <2>3, RequestStep
  <2>4. CASE NextMessage(a).type # "Request"
        BY <2>1, <2>2, <2>4, QuietAdvance, QuietStep
  <2> QED BY <2>3, <2>4
<1>5. ASSUME NEW a \in Ends, NEW token \in BOOLEAN, NEW early \in BOOLEAN, SendRequest(a, token, early)
      PROVE  CallInv' /\ CallsStep
      BY <1>5, SendStep
<1>6. ASSUME NEW a \in Ends, FailToSendRequest(a) PROVE CallInv' /\ CallsStep
  <2>1. PICK k \in Ids : k = nextMessageId[a]
        BY <1>6, NextIdIsFree DEF FailToSendRequest
  <2>2. /\ nextMessageId' = [nextMessageId EXCEPT ![a] = k + 1]
        /\ pendingRequests' = [pendingRequests EXCEPT ![a] = @ \cup {k}]
        /\ UNCHANGED <<outcome, running, closed, sent, read>>
        BY <1>6, <2>1 DEF FailToSendRequest, Register, serving
  <2>3. outcome[a][k] = "none"
    <3>1. nextMessageId[a] \in Nat
          BY RpcAssumption DEF TypeOK
    <3> QED BY <2>1, <3>1 DEF CallInv, Ordered
  <2>4. ASSUME NEW e \in Ends, NEW id \in Ids
        PROVE  /\ id >= nextMessageId'[e] => id >= nextMessageId[e]
               /\ id \in pendingRequests[e] => id \in pendingRequests'[e]
               /\ id \in pendingRequests'[e] => id \in pendingRequests[e] \/ (e = a /\ id = k)
    <3>1. id \in Nat /\ k \in Nat
          BY RpcAssumption DEF Ids
    <3>2. nextMessageId'[e] = IF e = a THEN k + 1 ELSE nextMessageId[e]
          BY <2>2 DEF TypeOK
    <3>3. pendingRequests'[e] = IF e = a THEN pendingRequests[e] \cup {k} ELSE pendingRequests[e]
          BY <2>2 DEF TypeOK
    <3>4. id >= k + 1 => id >= k
          BY <3>1
    <3> QED BY <2>1, <3>2, <3>3, <3>4
  <2>5. MessagesInv'
        BY <2>2 DEF CallInv, MessagesInv, RequestsOnce, RepliesOnce, RequestsHaveCallers
  <2>6. Quiet
        BY <2>2, <2>3, <2>4, <2>5 DEF Quiet, RequestIsRead, Replied
  <2> QED BY <2>6, QuietStep
<1>7. ASSUME NEW a \in Ends, FinishSendRequest(a) \/ \E k \in Ids : CancelToken(a, k)
      PROVE  CallInv' /\ CallsStep
  <2>1. UNCHANGED <<read, outcome, running, closed, pendingRequests, nextMessageId>>
        BY <1>7 DEF FinishSendRequest, CancelToken, serving
  <2>2. UNCHANGED sent \/ \E id \in Ids : Commit(a, Msg("Cancel", id, FALSE))
        BY <1>7 DEF FinishSendRequest, CancelToken, TypeOK
  <2>3. CASE UNCHANGED sent
    <3>1. MessagesInv'
          BY <2>1, <2>3 DEF CallInv, MessagesInv, RequestsOnce, RepliesOnce, RequestsHaveCallers
    <3>2. Quiet
          BY <2>1, <2>3, <3>1 DEF Quiet, RequestIsRead, Replied
    <3> QED BY <3>2, QuietStep
  <2>4. ASSUME NEW id \in Ids, Commit(a, Msg("Cancel", id, FALSE)) PROVE CallInv' /\ CallsStep
    <3>1. PICK m \in Message : m = Msg("Cancel", id, FALSE)
          BY MsgIsMessage DEF RequestTypes
    <3>2. m.type = "Cancel" /\ Commit(a, m)
          BY <2>4, <3>1 DEF Msg
    <3> QED BY <2>1, <3>2, QuietCommit, QuietStep
  <2> QED BY <2>2, <2>3, <2>4
<1>8. ASSUME NEW a \in Ends, SendNotification(a) PROVE CallInv' /\ CallsStep
  <2>1. PICK m \in Message : m = Msg("Notification", nextMessageId[a], FALSE)
        BY <1>8, NextIdIsFree, MsgIsMessage DEF SendNotification, RequestTypes
  <2>2. m.type = "Notification" /\ Commit(a, m)
        BY <1>8, <2>1 DEF Msg, SendNotification
  <2>3. /\ UNCHANGED <<read, outcome, running, closed, pendingRequests>>
        /\ \A e \in Ends : nextMessageId'[e] = nextMessageId[e] \/ nextMessageId'[e] = nextMessageId[e] + 1
        BY <1>8 DEF SendNotification, serving, TypeOK
  <2> QED BY <2>2, <2>3, QuietCommit, QuietStep
<1>9. ASSUME NEW a \in Ends, NEW k \in Ids, NEW type \in ReplyTypes, Answer(a, k, type) \/ FailToAnswer(a, k)
      PROVE  CallInv' /\ CallsStep
  <2>1. /\ k \in running[a] /\ running' = [running EXCEPT ![a] = @ \ {k}]
        /\ UNCHANGED <<requesting, read, closed>>
        /\ sent' = sent \/ Commit(a, Msg(type, k, FALSE))
        BY <1>9 DEF Answer, FailToAnswer
  <2> QED BY <2>1, AnswerStep
<1>10. ASSUME NEW a \in Ends, Close(a) PROVE CallInv' /\ CallsStep
      BY <1>10, CloseStep
<1>11. CASE UNCHANGED vars
  <2>1. UNCHANGED <<read, outcome, running, closed, pendingRequests, nextMessageId, sent>>
        BY <1>11 DEF vars, requesting, serving
  <2>2. MessagesInv'
        BY <2>1 DEF CallInv, MessagesInv, RequestsOnce, RepliesOnce, RequestsHaveCallers
  <2>3. Quiet
        BY <2>1, <2>2 DEF Quiet, RequestIsRead, Replied
  <2> QED BY <2>3, QuietStep
<1>12. "Reply" \in ReplyTypes
      BY DEF ReplyTypes
<1> QED BY <1>1, <1>2, <1>3, <1>4, <1>5, <1>6, <1>7, <1>8, <1>9, <1>10, <1>11, <1>12
        DEF Next, HandleMessage, Use, Serve, Finish

\* Each request is a ReliableCall: its handler runs at most once, and its promise
\* is settled by what the handler came to, or by the close of the channel.
THEOREM RequestsAreCalls == Spec => RequestsAreReliableCalls
<1>1. Init => \A e \in Ends, id \in Ids : Abstract(e, id)!Init
      BY CallsInit
<1>2. TypeOK /\ ReadInv /\ CallInv /\ [Next]_vars =>
         [\A e \in Ends, id \in Ids :
            [Abstract(e, id)!Next]_<<outcome[e][id], HandlerOf(e, id), ~closed[e]>>]_vars
      BY CallsNext DEF CallsStep
<1>3. Init => CallInv
      BY CallsInit
<1>4. TypeOK /\ ReadInv /\ CallInv /\ [Next]_vars => CallInv'
      BY CallsNext
<1> QED BY <1>1, <1>2, <1>3, <1>4, TypeCorrect, ReadInvInit, ReadInvNext, PTL
        DEF Spec, RequestsAreReliableCalls

===============================================================================
