----------------------- MODULE ServiceConnection_proofs -----------------------
(***************************************************************************)
(* Theorems about ServiceConnection, for every finite set of paths and of  *)
(* calls and every number of main channels and losses.                     *)
(***************************************************************************)
EXTENDS ServiceConnection, FiniteSetTheorems, TLAPS

-------------------------------------------------------------------------------
(***************************************************************************)
(* The inductive invariant.                                                *)
(***************************************************************************)
\* A channel is open only while there is a main channel, and not also about to be
\* opened.  A handler is kept for a path once it was open.
OpenInv ==
    /\ pendingOpen \cap openChannels = {}
    /\ channel = 0 \/ told => openChannels = {}
    /\ \A p \in openChannels : listening[p] = "done"
    /\ \A p \in Paths : p \in registered <=> listening[p] = "done"

\* Open requests on their way are for different paths, none of which is served.
RequestsInv ==
    /\ \A i \in DOMAIN toServer : toServer[i].type = "open" =>
           /\ toServer[i].path \notin served
           /\ listening[toServer[i].path] \in {"open", "done"}
    /\ \A i, j \in DOMAIN toServer :
           toServer[i].type = "open" /\ toServer[j] = toServer[i] => i = j
    /\ \A p \in served : listening[p] \in {"open", "done"}

\* While there is a main channel nobody waits for one, and the paths that have a
\* handler are open or about to be.
ReadyInv ==
    HasMainChannel => \A p \in Paths :
        /\ listening[p] # "channelReady"
        /\ listening[p] = "done" => p \in pendingOpen \cup openChannels

Travels(queue, message) == \E i \in DOMAIN queue : queue[i] = message
Asked(p) == Travels(toServer, OpenRequest(p)) \/ Travels(toClient, Ack(p))

\* What is about to be open was asked for, or is answered.
AnswerInv == context /\ losses = 0 => \A p \in pendingOpen : Asked(p)

IInv == TypeOK /\ OpenInv /\ ProxyFollowsConnection /\ RequestsInv /\ ReadyInv /\ AnswerInv

-------------------------------------------------------------------------------
(***************************************************************************)
(* Sequences.                                                              *)
(***************************************************************************)
\* SetToSeq lists the elements of a finite set without repetition.
LEMMA SetToSeqListsOnce ==
    ASSUME NEW S, IsFiniteSet(S)
    PROVE  /\ SetToSeq(S) \in Seq(S)
           /\ \A i, j \in DOMAIN SetToSeq(S) : SetToSeq(S)[i] = SetToSeq(S)[j] => i = j
           /\ \A x \in S : \E i \in DOMAIN SetToSeq(S) : SetToSeq(S)[i] = x
<1>1. Cardinality(S) \in Nat /\ ExistsBijection(1 .. Cardinality(S), S)
      BY FS_CardinalityType
<1>2. \E f \in [1 .. Cardinality(S) -> S] : IsInjective(f)
      BY <1>1 DEF ExistsBijection, Bijection, Injection
<1>3. SetToSeq(S) \in [1 .. Cardinality(S) -> S] /\ IsInjective(SetToSeq(S))
      BY <1>2 DEF SetToSeq
<1>4. SetToSeq(S) \in Surjection(1 .. Cardinality(S), S)
  <2>1. Cardinality(1 .. Cardinality(S)) = Cardinality(S)
        BY <1>1, FS_Interval
  <2>2. SetToSeq(S) \in Injection(1 .. Cardinality(S), S)
        BY <1>3 DEF Injection
  <2> QED BY <2>1, <2>2, FS_Injection
<1>5. \A x \in S : \E i \in DOMAIN SetToSeq(S) : SetToSeq(S)[i] = x
      BY <1>4 DEF Surjection
<1> QED BY <1>1, <1>3, <1>5 DEF IsInjective

\* What is left when a member is removed, and where it was.
LEMMA RemovedAt ==
    ASSUME NEW S, NEW s \in Seq(S), NEW k \in DOMAIN s
    PROVE  /\ RemoveAt(s, k) \in Seq(S)
           /\ \A i \in DOMAIN RemoveAt(s, k) :
                 LET at(n) == IF n < k THEN n ELSE n + 1
                 IN  at(i) \in DOMAIN s /\ RemoveAt(s, k)[i] = s[at(i)]
<1> DEFINE front == SubSeq(s, 1, k - 1)
           back == SubSeq(s, k + 1, Len(s))
<1>1. k \in 1 .. Len(s) /\ Len(s) \in Nat
      OBVIOUS
<1>2. front \in Seq(S) /\ Len(front) = k - 1 /\ \A i \in 1 .. k - 1 : front[i] = s[i]
      BY <1>1
<1>3. back \in Seq(S) /\ Len(back) = Len(s) - k /\ \A i \in 1 .. Len(s) - k : back[i] = s[k + i]
      BY <1>1
<1>4. RemoveAt(s, k) = front \o back
      BY DEF RemoveAt
<1> HIDE DEF front, back
<1>5. RemoveAt(s, k) \in Seq(S) /\ Len(RemoveAt(s, k)) = Len(s) - 1
      BY <1>1, <1>2, <1>3, <1>4
<1>6. ASSUME NEW i \in 1 .. Len(s) - 1
      PROVE  RemoveAt(s, k)[i] = IF i < k THEN s[i] ELSE s[i + 1]
  <2>1. CASE i < k
    <3>1. RemoveAt(s, k)[i] = front[i]
          BY <1>1, <1>2, <1>3, <1>4, <2>1
    <3> QED BY <1>1, <1>2, <2>1, <3>1
  <2>2. CASE ~(i < k)
    <3>1. i - (k - 1) \in 1 .. Len(s) - k /\ k + (i - (k - 1)) = i + 1
          BY <1>1, <2>2
    <3>2. \A f, b \in Seq(S) : \A n \in 1 .. Len(b) : (f \o b)[Len(f) + n] = b[n]
          OBVIOUS
    <3>3. Len(front) + (i - (k - 1)) = i
          BY <1>1, <1>2
    <3>4. (front \o back)[Len(front) + (i - (k - 1))] = back[i - (k - 1)]
      <4>1. front \in Seq(S) /\ back \in Seq(S)
            BY <1>2, <1>3
      <4>2. i - (k - 1) \in 1 .. Len(back)
            BY <1>3, <3>1
      <4> QED BY <3>2, <4>1, <4>2
    <3> QED BY <1>3, <1>4, <2>2, <3>1, <3>3, <3>4
  <2> QED BY <2>1, <2>2
<1> QED BY <1>1, <1>5, <1>6

LEMMA FiniteParts ==
    ASSUME TypeOK
    PROVE  IsFiniteSet(Waiting) /\ IsFiniteSet(registered)
              /\ \A p \in Paths : IsFiniteSet(WaitingCalls(p))
BY ServiceAssumption, FS_Subset DEF TypeOK, Waiting, WaitingCalls

\* The requests that go out when a set of calls is sent are requests.
LEMMA RequestsOfCalls ==
    ASSUME NEW C \in SUBSET Calls
    PROVE  /\ [i \in DOMAIN SetToSeq(C) |-> Request(SetToSeq(C)[i])] \in Seq(ToServer)
           /\ \A i \in DOMAIN SetToSeq(C) : Request(SetToSeq(C)[i]).type = "request"
<1>1. IsFiniteSet(C)
      BY ServiceAssumption, FS_Subset
<1>2. SetToSeq(C) \in Seq(Calls)
      BY <1>1, SetToSeqListsOnce
<1>3. \A c \in Calls : Request(c) \in ToServer /\ Request(c).type = "request"
      BY DEF Request, ToServer
<1> QED BY <1>2, <1>3

\* The calls of open() that send a request, in some order: one for each path that
\* waits for a main channel or has a handler.
Sending(k) == SetToSeq({open \in OpenCalls(k) : ~Throws(open, OpenCalls(k))})

LEMMA OpensToSend ==
    ASSUME TypeOK, NEW k \in Nat \ {0}
    PROVE  /\ Len(Sending(k)) \in Nat /\ DOMAIN Sending(k) = 1 .. Len(Sending(k))
           /\ \A i \in DOMAIN Sending(k) : Sending(k)[i][2] \in Waiting \cup registered
           /\ \A i, j \in DOMAIN Sending(k) : Sending(k)[i][2] = Sending(k)[j][2] => i = j
           /\ \A p \in Waiting \cup registered : \E i \in DOMAIN Sending(k) : Sending(k)[i][2] = p
           /\ {open[2] : open \in OpenCalls(k)} = Waiting \cup registered
<1> DEFINE opens == OpenCalls(k)
           sent == {open \in opens : ~Throws(open, opens)}
           q == SetToSeq(sent)
<1>1. IsFiniteSet(sent)
  <2>1. IsFiniteSet({1}) /\ IsFiniteSet(1 .. k)
    <3>1. 1 \in Int /\ k \in Int
          OBVIOUS
    <3>2. IsFiniteSet(1 .. k)
          BY <3>1, FS_Interval
    <3> QED BY <3>2, FS_Singleton
  <2>2. IsFiniteSet({1} \X Waiting) /\ IsFiniteSet((1 .. k) \X registered)
        BY <2>1, FiniteParts, FS_Product
  <2>3. IsFiniteSet(opens)
        BY <2>2, FS_Union DEF OpenCalls
  <2> QED BY <2>3, FS_Subset
<1>2. \A open \in opens : open = <<open[1], open[2]>> /\ open[1] \in Nat \ {0} /\ open[2] \in Waiting \cup registered
      BY DEF OpenCalls
<1>3. \A p \in Waiting \cup registered : <<1, p>> \in sent
  <2>1. \A p \in Waiting \cup registered : <<1, p>> \in opens
        BY DEF OpenCalls
  <2>2. \A p : ~Throws(<<1, p>>, opens)
        BY <1>2 DEF Throws
  <2> QED BY <2>1, <2>2
<1>4. \A open, other \in sent : open[2] = other[2] => open = other
  <2> SUFFICES ASSUME NEW open \in sent, NEW other \in sent, open[2] = other[2] PROVE open = other
      OBVIOUS
  <2>1. ~(other[1] < open[1]) /\ ~(open[1] < other[1])
        BY DEF Throws
  <2>2. open \in opens /\ other \in opens
        OBVIOUS
  <2>3. open[1] = other[1]
    <3>1. open[1] \in Nat /\ other[1] \in Nat
          BY <1>2, <2>2
    <3> QED BY <2>1, <3>1
  <2> QED BY <1>2, <2>2, <2>3
<1>5. /\ q \in Seq(sent)
      /\ \A i, j \in DOMAIN q : q[i] = q[j] => i = j
      /\ \A x \in sent : \E i \in DOMAIN q : q[i] = x
      BY <1>1, SetToSeqListsOnce
<1>6. Sending(k) = q
      BY DEF Sending
<1>7. {open[2] : open \in opens} = Waiting \cup registered
  <2>1. \A p \in Waiting \cup registered : <<1, p>> \in opens /\ <<1, p>>[2] = p
        BY <1>3
  <2> HIDE DEF opens
  <2> QED BY <1>2, <2>1
<1> HIDE DEF q
<1>8. Len(q) \in Nat /\ DOMAIN q = 1 .. Len(q) /\ \A i \in DOMAIN q : q[i] \in sent
      BY <1>5
<1>9. \A i \in DOMAIN q : q[i][2] \in Waiting \cup registered
      BY <1>2, <1>8
<1>10. \A p \in Waiting \cup registered : \E i \in DOMAIN q : q[i][2] = p
  <2> SUFFICES ASSUME NEW p \in Waiting \cup registered PROVE \E i \in DOMAIN q : q[i][2] = p
      OBVIOUS
  <2>1. PICK i \in DOMAIN q : q[i] = <<1, p>>
        BY <1>3, <1>5
  <2> QED BY <2>1
<1>11. \A i, j \in DOMAIN q : q[i][2] = q[j][2] => i = j
       BY <1>4, <1>5, <1>8
<1> QED BY <1>6, <1>7, <1>8, <1>9, <1>10, <1>11

\* What happens on new main channels.
LEMMA Opened ==
    ASSUME TypeOK, MainChannelsOpen
    PROVE  /\ channel' \in 0 .. MaxChannels /\ channel' # 0 /\ told' = FALSE /\ (channel = 0 \/ told)
           /\ pendingOpen' = Waiting \cup registered /\ openChannels' = {}
           /\ listening' = [p \in Paths |-> IF p \in Waiting THEN "open" ELSE listening[p]]
           /\ context' = TRUE /\ served' = {} /\ running' = {} /\ toClient' = <<>>
           /\ UNCHANGED <<registered, proxy, call, losses>>
           /\ \E k \in Nat \ {0} : toServer' = [i \in DOMAIN Sending(k) |-> OpenRequest(Sending(k)[i][2])]
<1>1. PICK k \in 1 .. MaxChannels - channel : MainChannelOpens(k)
      BY DEF MainChannelsOpen
<1>2. k \in Nat \ {0} /\ channel + k \in 0 .. MaxChannels /\ channel + k # 0
      BY <1>1, ServiceAssumption DEF TypeOK
<1>3. toServer' = [i \in DOMAIN Sending(k) |-> OpenRequest(Sending(k)[i][2])]
      BY <1>1 DEF MainChannelOpens, Sending
<1>4. channel' = channel + k /\ told' = FALSE /\ (channel = 0 \/ told)
      BY <1>1 DEF MainChannelOpens, Main!Open
<1>5. pendingOpen' = Waiting \cup registered
      BY <1>1, <1>2, OpensToSend DEF MainChannelOpens
<1> QED BY <1>1, <1>2, <1>3, <1>4, <1>5 DEF MainChannelOpens

-------------------------------------------------------------------------------
(***************************************************************************)
(* Types.                                                                  *)
(***************************************************************************)
LEMMA WrittenType ==
    ASSUME TypeOK, NEW packets \in Seq(ToServer)
    PROVE  Written(packets) \in Seq(ToServer)
BY DEF Written, TypeOK

LEMMA TypesInit == Init => TypeOK
<1> SUFFICES ASSUME Init PROVE TypeOK
    OBVIOUS
<1>1. << >> \in Seq(ToServer) /\ << >> \in Seq(ToClient)
      OBVIOUS
<1>2. told \in BOOLEAN /\ context \in BOOLEAN
      BY DEF Init, Main!Init
<1>3. channel \in 0 .. MaxChannels /\ losses \in 0 .. MaxLosses /\ proxy \in [Paths -> 0 .. MaxChannels]
      BY ServiceAssumption DEF Init, Main!Init
<1>4. /\ listening \in [Paths -> {"idle", "channelReady", "open", "done"}]
      /\ call \in [Calls -> {"idle", "waiting", "sent", "resolved", "rejected"}]
      BY DEF Init
<1> QED BY <1>1, <1>2, <1>3, <1>4 DEF Init, TypeOK

LEMMA TypesNext == TypeOK /\ OpenInv /\ [Next]_vars => TypeOK'
<1> SUFFICES ASSUME TypeOK, OpenInv, [Next]_vars PROVE TypeOK'
    OBVIOUS
<1> USE ServiceAssumption
<1>1. ASSUME NEW p \in Paths, Listen(p) PROVE TypeOK'
  <2>1. <<OpenRequest(p)>> \in Seq(ToServer)
        BY DEF OpenRequest, ToServer
  <2>2. toServer' \in Seq(ToServer)
    <3>1. toServer' = toServer \/ toServer' = Written(<<OpenRequest(p)>>)
          BY <1>1 DEF Listen
    <3>2. toServer \in Seq(ToServer)
          BY DEF TypeOK
    <3> QED BY <2>1, <3>1, <3>2, WrittenType
  <2> QED BY <1>1, <2>2 DEF Listen, backend, TypeOK
<1>2. CASE MainChannelsOpen
  <2>1. toServer' \in Seq(ToServer)
    <3>1. \A p \in Paths : OpenRequest(p) \in ToServer
          BY DEF OpenRequest, ToServer
    <3>2. Waiting \cup registered \subseteq Paths
          BY DEF Waiting, TypeOK
    <3>3. PICK k \in Nat \ {0} : toServer' = [i \in DOMAIN Sending(k) |-> OpenRequest(Sending(k)[i][2])]
          BY <1>2, Opened
    <3>4. /\ Len(Sending(k)) \in Nat /\ DOMAIN Sending(k) = 1 .. Len(Sending(k))
          /\ \A i \in DOMAIN Sending(k) : Sending(k)[i][2] \in Waiting \cup registered
          BY OpensToSend
    <3> QED BY <3>1, <3>2, <3>3, <3>4
  <2>2. pendingOpen' \subseteq Paths /\ openChannels' \subseteq Paths
        BY <1>2, Opened DEF Waiting, TypeOK
  <2>3. listening' \in [Paths -> {"idle", "channelReady", "open", "done"}]
        BY <1>2, Opened DEF TypeOK
  <2>4. toClient' \in Seq(ToClient)
        BY <1>2, Opened
  <2>5. /\ channel' \in 0 .. MaxChannels /\ told' \in BOOLEAN /\ context' \in BOOLEAN
        /\ served' \subseteq Paths /\ running' \subseteq Calls
        /\ UNCHANGED <<registered, proxy, call, losses>>
        BY <1>2, Opened
  <2> QED BY <2>1, <2>2, <2>3, <2>4, <2>5 DEF TypeOK
<1>3. CASE MainChannelCloses
      BY <1>3 DEF MainChannelCloses, Main!Close, WaitForConnection, link, backend, TypeOK
<1>4. ASSUME NEW p \in Paths, HandleAckOpen(p) PROVE TypeOK'
  <2>1. toServer' \in Seq(ToServer)
    <3>1. WaitingCalls(p) \in SUBSET Calls
          BY DEF WaitingCalls
    <3>2. \E packets \in Seq(ToServer) : toServer' = toServer \/ toServer' = Written(packets)
          BY <1>4, <3>1, RequestsOfCalls DEF HandleAckOpen
    <3>3. toServer \in Seq(ToServer)
          BY DEF TypeOK
    <3> QED BY <3>2, <3>3, WrittenType
  <2>2. toClient' \in Seq(ToClient)
        BY <1>4 DEF HandleAckOpen, TypeOK
  <2>3. proxy' \in [Paths -> 0 .. MaxChannels]
    <3>1. channel \in 0 .. MaxChannels /\ proxy \in [Paths -> 0 .. MaxChannels]
          BY DEF TypeOK
    <3>2. proxy' = proxy \/ proxy' = [proxy EXCEPT ![p] = IF @ = 0 THEN channel ELSE @]
          BY <1>4 DEF HandleAckOpen
    <3> QED BY <3>1, <3>2
  <2>6. call' \in [Calls -> {"idle", "waiting", "sent", "resolved", "rejected"}]
        BY <1>4 DEF HandleAckOpen, TypeOK
  <2>4. listening' \in [Paths -> {"idle", "channelReady", "open", "done"}]
        BY <1>4 DEF HandleAckOpen, TypeOK
  <2>5. /\ registered' \subseteq Paths /\ pendingOpen' \subseteq Paths /\ openChannels' \subseteq Paths
        /\ UNCHANGED <<channel, told, losses, context, served, running>>
        BY <1>4 DEF HandleAckOpen, backend, TypeOK
  <2> QED BY <2>1, <2>2, <2>3, <2>4, <2>5, <2>6 DEF TypeOK
<1>5. ASSUME NEW c \in Calls, Call(c) PROVE TypeOK'
  <2>1. <<Request(c)>> \in Seq(ToServer)
        BY DEF Request, ToServer
  <2>2. toServer' \in Seq(ToServer)
        BY <1>5, <2>1, WrittenType DEF Call, TypeOK
  <2> QED BY <1>5, <2>2 DEF Call, backend, TypeOK
<1>6. ASSUME NEW c \in Calls, HandleReply(c) PROVE TypeOK'
  <2>1. toClient' \in Seq(ToClient)
        BY <1>6 DEF HandleReply, TypeOK
  <2> QED BY <1>6, <2>1 DEF HandleReply, backend, TypeOK
<1>7. ASSUME NEW p \in Paths, HandleOpen(p) PROVE TypeOK'
  <2>1. [type |-> "ack", path |-> p] \in ToClient
        BY DEF ToClient
  <2>2. toServer' \in Seq(ToServer)
        BY <1>7 DEF HandleOpen, TypeOK
  <2>3. toClient' \in Seq(ToClient)
    <3>1. toClient' = toClient \/ toClient' = Append(toClient, [type |-> "ack", path |-> p])
          BY <1>7 DEF HandleOpen, Ack
    <3>2. toClient \in Seq(ToClient)
          BY DEF TypeOK
    <3>3. Append(toClient, [type |-> "ack", path |-> p]) \in Seq(ToClient)
          BY <2>1, <3>2
    <3> QED BY <3>1, <3>2, <3>3
  <2> QED BY <1>7, <2>2, <2>3 DEF HandleOpen, page, TypeOK
<1>8. ASSUME NEW c \in Calls, HandleRequest(c) PROVE TypeOK'
  <2>1. toServer' \in Seq(ToServer)
        BY <1>8 DEF HandleRequest, TypeOK
  <2> QED BY <1>8, <2>1 DEF HandleRequest, page, TypeOK
<1>9. ASSUME NEW c \in Calls, HandlerEnds(c) PROVE TypeOK'
  <2>1. [type |-> "reply", call |-> c] \in ToClient
        BY DEF ToClient
  <2>2. toClient' \in Seq(ToClient)
        BY <1>9, <2>1 DEF HandlerEnds, TypeOK
  <2> QED BY <1>9, <2>2 DEF HandlerEnds, page, TypeOK
<1>10. CASE DiscardContext
  <2>1. << >> \in Seq(ToServer) /\ << >> \in Seq(ToClient)
        OBVIOUS
  <2> QED BY <1>10, <2>1 DEF DiscardContext, page, TypeOK
<1>11. CASE Lose
  <2>1. toServer' \in Seq(ToServer) /\ toClient' \in Seq(ToClient)
        BY <1>11, RemovedAt DEF Lose, TypeOK
  <2> QED BY <1>11, <2>1 DEF Lose, page, backend, TypeOK
<1>12. CASE UNCHANGED vars
       BY <1>12 DEF vars, page, link, backend, TypeOK
<1> QED
    BY <1>1, <1>2, <1>3, <1>4, <1>5, <1>6, <1>7, <1>8, <1>9, <1>10, <1>11, <1>12
    DEF Next, Deliver

-------------------------------------------------------------------------------
(***************************************************************************)
(* Proxies and open channels.                                              *)
(***************************************************************************)
LEMMA ConnectionsInit == Init => OpenInv /\ ProxyFollowsConnection
BY DEF Init, OpenInv, ProxyFollowsConnection

LEMMA ConnectionsNext ==
    TypeOK /\ OpenInv /\ ProxyFollowsConnection /\ [Next]_vars
        => OpenInv' /\ ProxyFollowsConnection'
<1> SUFFICES ASSUME TypeOK, OpenInv, ProxyFollowsConnection, [Next]_vars
             PROVE  OpenInv' /\ ProxyFollowsConnection'
    OBVIOUS
<1> USE DEF TypeOK, OpenInv, ProxyFollowsConnection
<1>1. ASSUME NEW p \in Paths, Listen(p) PROVE OpenInv' /\ ProxyFollowsConnection'
  <2>1. /\ p \notin openChannels \cup registered
        /\ listening' \in [Paths -> {"idle", "channelReady", "open", "done"}]
        /\ \A r \in Paths : listening'[r] = "done" <=> listening[r] = "done"
        BY <1>1 DEF Listen
  <2>2. /\ pendingOpen' \subseteq pendingOpen \cup {p}
        /\ UNCHANGED <<channel, told, registered, openChannels, proxy>>
        BY <1>1 DEF Listen
  <2> QED BY <2>1, <2>2
<1>2. CASE MainChannelsOpen
  <2>1. /\ openChannels = {} /\ openChannels' = {}
        /\ UNCHANGED <<registered, proxy>>
        BY <1>2, Opened
  <2>2. \A p \in Paths : listening'[p] = "done" <=> listening[p] = "done"
        BY <1>2, Opened DEF Waiting
  <2> QED BY <2>1, <2>2
<1>3. CASE MainChannelCloses
  <2>1. pendingOpen' = {} /\ openChannels' = {} /\ UNCHANGED <<registered, listening>>
        BY <1>3 DEF MainChannelCloses
  <2>2. \A p \in Paths : proxy'[p] = 0
        BY <1>3 DEF MainChannelCloses, WaitForConnection
  <2> QED BY <2>1, <2>2
<1>4. ASSUME NEW p \in Paths, HandleAckOpen(p) PROVE OpenInv' /\ ProxyFollowsConnection'
  <2>1. CASE p \in pendingOpen
    <3>1. proxy[p] = 0 /\ channel # 0 /\ ~told /\ UNCHANGED <<channel, told>>
          BY <1>4, <2>1 DEF HandleAckOpen, HasMainChannel
    <3>2. /\ pendingOpen' = pendingOpen \ {p} /\ openChannels' = openChannels \cup {p}
          /\ proxy' = [proxy EXCEPT ![p] = IF @ = 0 THEN channel ELSE @]
          /\ registered' = registered \cup {p}
          /\ listening' = [listening EXCEPT ![p] = "done"]
          BY <1>4, <2>1 DEF HandleAckOpen
    <3>3. ProxyFollowsConnection'
          BY <3>1, <3>2
    <3>4. OpenInv'
          BY <3>1, <3>2
    <3> QED BY <3>3, <3>4
  <2>2. CASE p \notin pendingOpen
        BY <1>4, <2>2 DEF HandleAckOpen
  <2> QED BY <2>1, <2>2
<1>5. ASSUME UNCHANGED <<channel, told, listening, registered, pendingOpen, openChannels, proxy>>
      PROVE  OpenInv' /\ ProxyFollowsConnection'
      BY <1>5
<1>6. ASSUME NEW c \in Calls, Call(c) \/ HandleReply(c) \/ HandleRequest(c) \/ HandlerEnds(c)
      PROVE  OpenInv' /\ ProxyFollowsConnection'
      BY <1>5, <1>6 DEF Call, HandleReply, HandleRequest, HandlerEnds, page
<1>7. ASSUME NEW p \in Paths, HandleOpen(p)
      PROVE  OpenInv' /\ ProxyFollowsConnection'
      BY <1>5, <1>7 DEF HandleOpen, page
<1>8. CASE DiscardContext \/ Lose \/ UNCHANGED vars
      BY <1>5, <1>8 DEF DiscardContext, Lose, vars, page
<1> QED
    BY <1>1, <1>2, <1>3, <1>4, <1>6, <1>7, <1>8 DEF Next, Deliver

-------------------------------------------------------------------------------
(***************************************************************************)
(* Open requests.                                                          *)
(***************************************************************************)
LEMMA RequestsInit == Init => RequestsInv
BY DEF Init, RequestsInv

\* What follows an open request on the way: a request, or the open request for
\* a path that is not listened to yet.
LEMMA AppendedRequests ==
    ASSUME TypeOK, RequestsInv, NEW packets \in Seq(ToServer),
           \A i \in DOMAIN packets : packets[i].type = "request",
           toServer' = Written(packets), served' = served,
           \A p \in Paths : listening[p] \in {"open", "done"} => listening'[p] \in {"open", "done"}
    PROVE  RequestsInv'
<1>1. toServer \in Seq(ToServer) /\ served \subseteq Paths
      BY DEF TypeOK
<1>2. CASE ~context
      BY <1>1, <1>2 DEF Written, RequestsInv, ToServer
<1>3. CASE context
  <2>1. toServer' = toServer \o packets
        BY <1>3 DEF Written
  <2>2. /\ Len(toServer') = Len(toServer) + Len(packets) /\ toServer' \in Seq(ToServer)
        /\ \A i \in 1 .. Len(toServer) : toServer'[i] = toServer[i]
        /\ \A i \in 1 .. Len(packets) : toServer'[Len(toServer) + i] = packets[i]
        BY <1>1, <2>1
  <2>3. \A i \in DOMAIN toServer' : toServer'[i].type = "open" =>
            i \in DOMAIN toServer /\ toServer'[i] = toServer[i]
    <3> SUFFICES ASSUME NEW i \in DOMAIN toServer', i \notin DOMAIN toServer
                 PROVE  toServer'[i].type # "open"
        BY <1>1, <2>2
    <3>1. i - Len(toServer) \in 1 .. Len(packets)
          BY <1>1, <2>2
    <3>2. toServer'[i] = packets[i - Len(toServer)]
          BY <1>1, <2>2, <3>1
    <3> QED BY <3>1, <3>2
  <2>4. \A i \in DOMAIN toServer : toServer[i].type = "open" => toServer[i].path \in Paths
        BY <1>1 DEF ToServer
  <2> QED BY <1>1, <2>3, <2>4 DEF RequestsInv
<1> QED BY <1>2, <1>3

\* What is left when packets arrive or are lost.
LEMMA ShrunkRequests ==
    ASSUME TypeOK, RequestsInv, served' = served, listening' = listening,
           NEW k \in DOMAIN toServer, toServer' = RemoveAt(toServer, k)
    PROVE  RequestsInv'
<1> DEFINE at(n) == IF n < k THEN n ELSE n + 1
<1>1. toServer \in Seq(ToServer)
      BY DEF TypeOK
<1>2. \A i \in DOMAIN toServer' : at(i) \in DOMAIN toServer /\ toServer'[i] = toServer[at(i)]
      BY <1>1, RemovedAt
<1>3. \A i, j \in DOMAIN toServer' : at(i) = at(j) => i = j
  <2>1. toServer' \in Seq(ToServer)
        BY <1>1, RemovedAt
  <2> QED BY <1>1, <2>1
<1> HIDE DEF at
<1> QED BY <1>2, <1>3 DEF RequestsInv

\* The first packet is removed.
LEMMA TailIsRemoval ==
    ASSUME NEW S, NEW s \in Seq(S), s # << >>
    PROVE  1 \in DOMAIN s /\ Tail(s) = RemoveAt(s, 1)
<1>1. SubSeq(s, 1, 0) = << >> /\ SubSeq(s, 2, Len(s)) = Tail(s)
      OBVIOUS
<1> QED BY <1>1 DEF RemoveAt

LEMMA RequestsNext == TypeOK /\ TypeOK' /\ OpenInv /\ RequestsInv /\ [Next]_vars => RequestsInv'
<1> SUFFICES ASSUME TypeOK, TypeOK', OpenInv, RequestsInv, [Next]_vars PROVE RequestsInv'
    OBVIOUS
<1>t. toServer \in Seq(ToServer)
      BY DEF TypeOK
<1>0. ASSUME UNCHANGED <<toServer, served, listening>> PROVE RequestsInv'
      BY <1>0 DEF RequestsInv
<1>1. ASSUME NEW p \in Paths, Listen(p) PROVE RequestsInv'
  <2>1. listening[p] = "idle" /\ served' = served
        BY <1>1 DEF Listen, backend
  <2>2. \A q \in Paths \ {p} : listening'[q] = listening[q]
        BY <1>1 DEF Listen, TypeOK
  <2>3. \A i \in DOMAIN toServer : toServer[i].type = "open" =>
            toServer[i].path \in Paths \ {p} /\ toServer[i] # OpenRequest(p)
        BY <1>t, <2>1 DEF RequestsInv, ToServer, OpenRequest
  <2>4. p \notin served /\ served \subseteq Paths
        BY <2>1 DEF RequestsInv, TypeOK
  <2>5. CASE toServer' = toServer
        BY <2>1, <2>2, <2>3, <2>4, <2>5 DEF RequestsInv
  <2>6. CASE toServer' = Append(toServer, OpenRequest(p)) /\ listening'[p] = "open"
    <3>1. DOMAIN toServer = 1 .. Len(toServer) /\ DOMAIN toServer' = 1 .. Len(toServer) + 1
          BY <1>t, <2>6
    <3>2. /\ \A i \in DOMAIN toServer : toServer'[i] = toServer[i]
          /\ toServer'[Len(toServer) + 1] = OpenRequest(p)
          BY <1>t, <2>6
    <3>3. OpenRequest(p).path = p
          BY DEF OpenRequest
    <3>4. \A i \in DOMAIN toServer' : toServer'[i].type = "open" =>
             /\ toServer'[i].path \notin served'
             /\ listening'[toServer'[i].path] \in {"open", "done"}
          BY <1>t, <2>1, <2>2, <2>3, <2>4, <2>6, <3>1, <3>2, <3>3 DEF RequestsInv
    <3>5. \A i, j \in DOMAIN toServer' :
             toServer'[i].type = "open" /\ toServer'[j] = toServer'[i] => i = j
          BY <1>t, <2>3, <3>1, <3>2 DEF RequestsInv, OpenRequest
    <3>6. \A q \in served' : listening'[q] \in {"open", "done"}
          BY <2>1, <2>2, <2>4 DEF RequestsInv
    <3> QED BY <3>4, <3>5, <3>6 DEF RequestsInv
  <2>7. \/ toServer' = toServer
        \/ toServer' = Append(toServer, OpenRequest(p)) /\ listening'[p] = "open"
    <3>1. \/ toServer' = toServer
          \/ toServer' = Written(<<OpenRequest(p)>>) /\ listening' = [listening EXCEPT ![p] = "open"]
          BY <1>1 DEF Listen
    <3>2. toServer \o <<OpenRequest(p)>> = Append(toServer, OpenRequest(p))
          BY <1>t
    <3> QED BY <3>1, <3>2 DEF Written, TypeOK
  <2> QED BY <2>5, <2>6, <2>7
<1>2. CASE MainChannelsOpen
  <2>1. PICK k \in Nat \ {0} : toServer' = [i \in DOMAIN Sending(k) |-> OpenRequest(Sending(k)[i][2])]
        BY <1>2, Opened
  <2>2. /\ \A i \in DOMAIN Sending(k) : Sending(k)[i][2] \in Waiting \cup registered
        /\ \A i, j \in DOMAIN Sending(k) : Sending(k)[i][2] = Sending(k)[j][2] => i = j
        BY OpensToSend
  <2>3. \A p \in Waiting \cup registered : listening'[p] \in {"open", "done"}
        BY <1>2, Opened DEF Waiting, OpenInv, TypeOK
  <2>4. \A p : OpenRequest(p).path = p
        BY DEF OpenRequest
  <2>5. served' = {}
        BY <1>2, Opened
  <2> QED BY <2>1, <2>2, <2>3, <2>4, <2>5 DEF RequestsInv
<1>3. CASE MainChannelCloses
      BY <1>0, <1>3 DEF MainChannelCloses, link, backend
<1>4. ASSUME NEW p \in Paths, HandleAckOpen(p) PROVE RequestsInv'
  <2>1. CASE p \in pendingOpen
    <3> DEFINE s == SetToSeq(WaitingCalls(p))
               packets == [i \in DOMAIN s |-> Request(s[i])]
    <3>1. WaitingCalls(p) \in SUBSET Calls
          BY DEF WaitingCalls
    <3>2. packets \in Seq(ToServer) /\ \A i \in DOMAIN packets : packets[i].type = "request"
          BY <3>1, RequestsOfCalls
    <3>3. toServer' = Written(packets) /\ served' = served
          BY <1>4, <2>1 DEF HandleAckOpen, backend
    <3>4. \A q \in Paths : listening[q] \in {"open", "done"} => listening'[q] \in {"open", "done"}
          BY <1>4, <2>1 DEF HandleAckOpen, TypeOK
    <3> HIDE DEF packets
    <3> QED BY <3>2, <3>3, <3>4, AppendedRequests
  <2>2. CASE p \notin pendingOpen
        BY <1>0, <1>4, <2>2 DEF HandleAckOpen, backend
  <2> QED BY <2>1, <2>2
<1>5. ASSUME NEW c \in Calls, Call(c) PROVE RequestsInv'
  <2>1. <<Request(c)>> \in Seq(ToServer) /\ \A i \in DOMAIN <<Request(c)>> : <<Request(c)>>[i].type = "request"
        BY DEF Request, ToServer
  <2>2. served' = served /\ listening' = listening
        BY <1>5 DEF Call, backend
  <2>3. toServer' = toServer \/ toServer' = Written(<<Request(c)>>)
        BY <1>5 DEF Call
  <2> QED BY <1>0, <2>1, <2>2, <2>3, AppendedRequests
<1>6. ASSUME NEW c \in Calls, HandleReply(c) \/ HandlerEnds(c) PROVE RequestsInv'
      BY <1>0, <1>6 DEF HandleReply, HandlerEnds, page, backend
<1>7. ASSUME NEW p \in Paths, HandleOpen(p) PROVE RequestsInv'
  <2>1. /\ toServer # << >> /\ toServer[1] = OpenRequest(p) /\ toServer' = Tail(toServer)
        /\ listening' = listening
        BY <1>7 DEF HandleOpen, page
  <2>2. p \notin served /\ listening[p] \in {"open", "done"} /\ served' = served \cup {p}
        BY <1>t, <1>7, <2>1 DEF HandleOpen, RequestsInv, OpenRequest
  <2>3. DOMAIN toServer = 1 .. Len(toServer) /\ DOMAIN toServer' = 1 .. Len(toServer) - 1
        BY <1>t, <2>1
  <2>4. \A i \in DOMAIN toServer' : i + 1 \in DOMAIN toServer /\ toServer'[i] = toServer[i + 1]
        BY <1>t, <2>1
  <2>5. 1 \in DOMAIN toServer
        BY <1>t, <2>1
  <2>6. \A i \in DOMAIN toServer' : toServer'[i].type = "open" => toServer'[i].path # p
    <3> SUFFICES ASSUME NEW i \in DOMAIN toServer', toServer'[i].type = "open", toServer'[i].path = p
                 PROVE  FALSE
        OBVIOUS
    <3>1. toServer[i + 1] \in ToServer /\ toServer[i + 1].type = "open" /\ toServer[i + 1].path = p
          BY <1>t, <2>4
    <3>2. toServer[i + 1] = toServer[1]
          BY <2>1, <3>1 DEF ToServer, OpenRequest
    <3> QED BY <2>3, <2>4, <2>5, <3>1, <3>2 DEF RequestsInv
  <2>7. \A i, j \in DOMAIN toServer' : i + 1 = j + 1 => i = j
        BY <2>3
  <2> QED BY <2>1, <2>2, <2>4, <2>6, <2>7 DEF RequestsInv
<1>8. ASSUME NEW k \in DOMAIN toServer, toServer' = RemoveAt(toServer, k), served' = served,
             listening' = listening
      PROVE  RequestsInv'
      BY <1>8, ShrunkRequests
<1>9. ASSUME NEW c \in Calls, HandleRequest(c) PROVE RequestsInv'
  <2>1. toServer # << >> /\ toServer' = Tail(toServer) /\ served' = served /\ listening' = listening
        BY <1>9 DEF HandleRequest, page
  <2> QED BY <1>t, <1>8, <2>1, TailIsRemoval
<1>10. CASE DiscardContext
       BY <1>10 DEF DiscardContext, page, RequestsInv
<1>11. CASE Lose
       BY <1>0, <1>8, <1>11 DEF Lose, page, backend
<1>12. CASE UNCHANGED vars
       BY <1>0, <1>12 DEF vars, page, link, backend
<1> QED
    BY <1>1, <1>2, <1>3, <1>4, <1>5, <1>6, <1>7, <1>9, <1>10, <1>11, <1>12 DEF Next, Deliver

-------------------------------------------------------------------------------
(***************************************************************************)
(* Paths are opened on every main channel.                                 *)
(***************************************************************************)
LEMMA ReadyInit == Init => ReadyInv /\ AnswerInv
BY DEF Init, Main!Init, ReadyInv, AnswerInv, HasMainChannel

LEMMA ReadyNext == TypeOK /\ OpenInv /\ ReadyInv /\ [Next]_vars => ReadyInv'
<1> SUFFICES ASSUME TypeOK, OpenInv, ReadyInv, [Next]_vars PROVE ReadyInv'
    OBVIOUS
<1>t. listening \in [Paths -> {"idle", "channelReady", "open", "done"}]
      BY DEF TypeOK
<1>1. ASSUME NEW p \in Paths, Listen(p) PROVE ReadyInv'
  <2>1. /\ pendingOpen \subseteq pendingOpen' /\ UNCHANGED <<channel, told, openChannels>>
        /\ \A r \in Paths : r # p => listening'[r] = listening[r]
        /\ HasMainChannel => listening'[p] = "open"
        BY <1>t, <1>1 DEF Listen
  <2> QED BY <2>1 DEF ReadyInv, HasMainChannel
<1>2. CASE MainChannelsOpen
  <2>1. /\ pendingOpen' = Waiting \cup registered
        /\ listening' = [p \in Paths |-> IF p \in Waiting THEN "open" ELSE listening[p]]
        BY <1>2, Opened
  <2>2. \A p \in Paths : /\ listening'[p] # "channelReady"
                         /\ listening'[p] = "done" => p \in pendingOpen'
        BY <2>1 DEF Waiting, OpenInv
  <2> QED BY <2>2 DEF ReadyInv
<1>3. CASE MainChannelCloses
      BY <1>3 DEF MainChannelCloses, Main!Close, ReadyInv, HasMainChannel
<1>4. ASSUME NEW p \in Paths, HandleAckOpen(p) PROVE ReadyInv'
  <2>1. CASE p \in pendingOpen
    <3>1. /\ pendingOpen' = pendingOpen \ {p} /\ openChannels' = openChannels \cup {p}
          /\ listening' = [listening EXCEPT ![p] = "done"] /\ UNCHANGED <<channel, told>>
          BY <1>4, <2>1 DEF HandleAckOpen
    <3> QED BY <1>t, <3>1 DEF ReadyInv, HasMainChannel
  <2>2. CASE p \notin pendingOpen
        BY <1>4, <2>2 DEF HandleAckOpen, ReadyInv, HasMainChannel
  <2> QED BY <2>1, <2>2
<1>5. CASE UNCHANGED <<channel, told, listening, pendingOpen, openChannels>>
      BY <1>5 DEF ReadyInv, HasMainChannel
<1> QED
    BY <1>1, <1>2, <1>3, <1>4, <1>5
    DEF Next, Deliver, Call, HandleReply, HandleRequest, HandlerEnds, HandleOpen, DiscardContext, Lose, vars, page

\* What travels goes on travelling behind what is appended, and until it arrives.
LEMMA TravelsOn ==
    ASSUME NEW S, NEW queue \in Seq(S), NEW message, Travels(queue, message)
    PROVE  /\ \A packets \in Seq(S) : Travels(queue \o packets, message)
           /\ queue # <<>> /\ Head(queue) # message => Travels(Tail(queue), message)
<1>1. PICK i \in DOMAIN queue : queue[i] = message
      BY DEF Travels
<1>2. ASSUME NEW packets \in Seq(S) PROVE Travels(queue \o packets, message)
  <2>1. i \in DOMAIN (queue \o packets) /\ (queue \o packets)[i] = queue[i]
        OBVIOUS
  <2> QED BY <1>1, <2>1 DEF Travels
<1>3. ASSUME queue # <<>>, Head(queue) # message PROVE Travels(Tail(queue), message)
  <2>1. i # 1
        BY <1>1, <1>3
  <2>2. i - 1 \in DOMAIN Tail(queue) /\ Tail(queue)[i - 1] = queue[i]
        BY <1>3, <2>1
  <2> QED BY <1>1, <2>2 DEF Travels
<1> QED BY <1>2, <1>3

\* What is appended travels.
LEMMA AppendedTravels ==
    ASSUME NEW S, NEW queue \in Seq(S), NEW message \in S
    PROVE  Travels(Append(queue, message), message) /\ Append(queue, message) = queue \o <<message>>
<1>1. Len(queue) + 1 \in DOMAIN Append(queue, message) /\ Append(queue, message)[Len(queue) + 1] = message
      OBVIOUS
<1> QED BY <1>1 DEF Travels

LEMMA AnswerNext == TypeOK /\ OpenInv /\ RequestsInv /\ AnswerInv /\ [Next]_vars => AnswerInv'
<1> SUFFICES ASSUME TypeOK, OpenInv, RequestsInv, AnswerInv, [Next]_vars PROVE AnswerInv'
    OBVIOUS
<1>t. toServer \in Seq(ToServer) /\ toClient \in Seq(ToClient) /\ pendingOpen \subseteq Paths
      BY DEF TypeOK
<1>m. /\ \A p \in Paths : OpenRequest(p) \in ToServer /\ Ack(p) \in ToClient
      /\ \A p, r \in Paths : p # r => OpenRequest(p) # OpenRequest(r) /\ Ack(p) # Ack(r)
      /\ \A p \in Paths, c \in Calls : Request(c) # OpenRequest(p) /\ [type |-> "reply", call |-> c] # Ack(p)
  <2>1. \A p \in Paths : OpenRequest(p) \in ToServer /\ Ack(p) \in ToClient
        BY DEF OpenRequest, Ack, ToServer, ToClient
  <2>2. \A p : OpenRequest(p).path = p /\ Ack(p).path = p
        BY DEF OpenRequest, Ack
  <2>3. \A p \in Paths, c \in Calls :
            /\ Request(c).type = "request" /\ OpenRequest(p).type = "open"
            /\ [type |-> "reply", call |-> c].type = "reply" /\ Ack(p).type = "ack"
        BY DEF Request, OpenRequest, Ack
  <2>4. \A p \in Paths, c \in Calls : Request(c) # OpenRequest(p)
        BY <2>3
  <2>5. \A p \in Paths, c \in Calls : [type |-> "reply", call |-> c] # Ack(p)
        BY <2>3
  <2> QED BY <2>1, <2>2, <2>4, <2>5
\* Packets were appended, if any.
<1>1. ASSUME NEW packets \in Seq(ToServer), toServer' = toServer \/ toServer' = Written(packets),
             NEW p \in Paths, Asked(p), UNCHANGED <<context, toClient>>
      PROVE  Asked(p)'
      BY <1>1, <1>t, TravelsOn DEF Asked, Written
<1>2. ASSUME NEW p \in Paths, Listen(p) PROVE AnswerInv'
  <2> DEFINE packets == <<OpenRequest(p)>>
  <2>1. /\ toServer' = toServer \/ toServer' = Written(packets)
        /\ pendingOpen' = pendingOpen \/ (pendingOpen' = pendingOpen \cup {p} /\ toServer' = Written(packets))
        /\ UNCHANGED <<context, losses, toClient>>
        BY <1>2 DEF Listen, backend
  <2>2. packets \in Seq(ToServer)
        BY <1>m
  <2>3. context /\ toServer' = Written(packets) => Travels(toServer', OpenRequest(p))
        BY <1>t, <1>m, AppendedTravels DEF Written
  <2> HIDE DEF packets
  <2>4. ASSUME context, losses = 0, NEW r \in pendingOpen' PROVE Asked(r)'
    <3>1. CASE r \in pendingOpen
          BY <1>1, <1>t, <2>1, <2>2, <2>4, <3>1 DEF AnswerInv
    <3>2. CASE r \notin pendingOpen
          BY <2>1, <2>3, <2>4, <3>2 DEF Asked
    <3> QED BY <3>1, <3>2
  <2> QED BY <2>1, <2>4 DEF AnswerInv
<1>3. CASE MainChannelsOpen
  <2>1. PICK k \in Nat \ {0} : toServer' = [i \in DOMAIN Sending(k) |-> OpenRequest(Sending(k)[i][2])]
        BY <1>3, Opened
  <2>2. \A p \in Waiting \cup registered : \E i \in DOMAIN Sending(k) : Sending(k)[i][2] = p
        BY OpensToSend
  <2>3. \A p \in Waiting \cup registered : \E i \in DOMAIN toServer' : toServer'[i] = OpenRequest(p)
        BY <2>1, <2>2
  <2>4. pendingOpen' = Waiting \cup registered
        BY <1>3, Opened
  <2> QED BY <2>3, <2>4 DEF AnswerInv, Asked, Travels
<1>4. CASE MainChannelCloses
      BY <1>4 DEF MainChannelCloses, AnswerInv
<1>5. ASSUME NEW p \in Paths, HandleAckOpen(p) PROVE AnswerInv'
  <2>1. /\ toClient # <<>> /\ Head(toClient) = Ack(p) /\ toClient' = Tail(toClient)
        /\ UNCHANGED <<context, losses>>
        BY <1>5 DEF HandleAckOpen, backend
  <2>2. /\ p \notin pendingOpen' /\ pendingOpen' \subseteq pendingOpen
        /\ \E packets \in Seq(ToServer) : toServer' = toServer \/ toServer' = Written(packets)
    <3>1. CASE p \in pendingOpen
      <4>1. WaitingCalls(p) \in SUBSET Calls
            BY DEF WaitingCalls
      <4> QED BY <1>5, <3>1, <4>1, RequestsOfCalls DEF HandleAckOpen
    <3>2. CASE p \notin pendingOpen
          BY <1>5, <1>t, <3>2 DEF HandleAckOpen
    <3> QED BY <3>1, <3>2
  <2>3. ASSUME NEW r \in pendingOpen, r # p, Asked(r) PROVE Asked(r)'
    <3>1. r \in Paths /\ p \in Paths
          BY <1>t
    <3>2. Ack(r) # Ack(p)
          BY <1>m, <2>3, <3>1
    <3>3. Travels(toServer, OpenRequest(r)) => Travels(toServer', OpenRequest(r))
          BY <1>t, <2>2, TravelsOn DEF Written
    <3>4. Travels(toClient, Ack(r)) => Travels(toClient', Ack(r))
          BY <1>t, <2>1, <3>2, TravelsOn
    <3> QED BY <2>3, <3>3, <3>4 DEF Asked
  <2> QED BY <2>1, <2>2, <2>3 DEF AnswerInv
<1>6. ASSUME NEW c \in Calls, Call(c) PROVE AnswerInv'
  <2>1. /\ toServer' = toServer \/ toServer' = Written(<<Request(c)>>)
        /\ UNCHANGED <<pendingOpen, context, losses, toClient>>
        BY <1>6 DEF Call, backend
  <2>2. <<Request(c)>> \in Seq(ToServer)
        BY DEF Request, ToServer
  <2>3. \A r \in pendingOpen : Asked(r) => Asked(r)'
        BY <1>1, <1>t, <2>1, <2>2
  <2> QED BY <2>1, <2>3 DEF AnswerInv
<1>7. ASSUME NEW c \in Calls, HandleReply(c) PROVE AnswerInv'
  <2>1. /\ toClient # <<>> /\ Head(toClient) = [type |-> "reply", call |-> c] /\ toClient' = Tail(toClient)
        /\ UNCHANGED <<pendingOpen, context, losses, toServer>>
        BY <1>7 DEF HandleReply, backend
  <2>2. \A r \in pendingOpen : Travels(toClient, Ack(r)) => Travels(toClient', Ack(r))
        BY <1>t, <1>m, <2>1, TravelsOn
  <2> QED BY <2>1, <2>2 DEF AnswerInv, Asked
<1>8. ASSUME NEW p \in Paths, HandleOpen(p) PROVE AnswerInv'
  <2>1. /\ toServer # <<>> /\ Head(toServer) = OpenRequest(p) /\ toServer' = Tail(toServer)
        /\ UNCHANGED <<pendingOpen, context, losses>>
        BY <1>8 DEF HandleOpen, page
  <2>2. p \notin served
    <3>1. 1 \in DOMAIN toServer /\ toServer[1] = OpenRequest(p)
          BY <1>t, <2>1
    <3> QED BY <3>1 DEF RequestsInv, OpenRequest
  <2>3. toClient' = Append(toClient, Ack(p))
        BY <1>8, <2>2 DEF HandleOpen
  <2>4. Travels(toClient', Ack(p)) /\ toClient' = toClient \o <<Ack(p)>> /\ <<Ack(p)>> \in Seq(ToClient)
        BY <1>t, <1>m, <2>3, AppendedTravels
  <2>5. ASSUME NEW r \in pendingOpen, Asked(r) PROVE Asked(r)'
    <3>1. CASE r = p
          BY <2>4, <3>1 DEF Asked
    <3>2. CASE r # p /\ Travels(toServer, OpenRequest(r))
      <4>1. OpenRequest(r) # OpenRequest(p)
            BY <1>t, <1>m, <3>2
      <4>2. Travels(toServer', OpenRequest(r))
            BY <1>t, <2>1, <3>2, <4>1, TravelsOn
      <4> QED BY <4>2 DEF Asked
    <3>3. CASE Travels(toClient, Ack(r))
      <4>1. Travels(toClient', Ack(r))
            BY <1>t, <2>4, <3>3, TravelsOn
      <4> QED BY <4>1 DEF Asked
    <3> QED BY <2>5, <3>1, <3>2, <3>3 DEF Asked
  <2> QED BY <2>1, <2>5 DEF AnswerInv
<1>9. ASSUME NEW c \in Calls, HandleRequest(c) PROVE AnswerInv'
  <2>1. /\ toServer # <<>> /\ Head(toServer) = Request(c) /\ toServer' = Tail(toServer)
        /\ UNCHANGED <<pendingOpen, context, losses, toClient>>
        BY <1>9 DEF HandleRequest, page
  <2>2. \A r \in pendingOpen : Travels(toServer, OpenRequest(r)) => Travels(toServer', OpenRequest(r))
        BY <1>t, <1>m, <2>1, TravelsOn
  <2> QED BY <2>1, <2>2 DEF AnswerInv, Asked
<1>10. ASSUME NEW c \in Calls, HandlerEnds(c) PROVE AnswerInv'
  <2>1. /\ toClient' = Append(toClient, [type |-> "reply", call |-> c])
        /\ UNCHANGED <<pendingOpen, context, losses, toServer>>
        BY <1>10 DEF HandlerEnds, page
  <2>2. [type |-> "reply", call |-> c] \in ToClient
        BY DEF ToClient
  <2> DEFINE reply == [type |-> "reply", call |-> c]
  <2>3. toClient' = toClient \o <<reply>> /\ <<reply>> \in Seq(ToClient)
        BY <1>t, <2>1, <2>2, AppendedTravels
  <2> HIDE DEF reply
  <2>4. \A r \in pendingOpen : Travels(toClient, Ack(r)) => Travels(toClient', Ack(r))
        BY <1>t, <2>3, TravelsOn
  <2> QED BY <2>1, <2>4 DEF AnswerInv, Asked
<1>11. CASE DiscardContext
       BY <1>11 DEF DiscardContext, AnswerInv
<1>12. CASE Lose
  <2>1. losses' # 0
        BY <1>12 DEF Lose, TypeOK
  <2> QED BY <2>1 DEF AnswerInv
<1>13. CASE UNCHANGED vars
       BY <1>13 DEF vars, page, link, backend, AnswerInv, Asked
<1> QED
    BY <1>2, <1>3, <1>4, <1>5, <1>6, <1>7, <1>8, <1>9, <1>10, <1>11, <1>12, <1>13 DEF Next, Deliver

LEMMA Invariance == Spec => []IInv
<1>1. Init => IInv
      BY TypesInit, ConnectionsInit, RequestsInit, ReadyInit DEF IInv
<1>2. IInv /\ [Next]_vars => IInv'
      BY TypesNext, ConnectionsNext, RequestsNext, ReadyNext, AnswerNext DEF IInv
<1> QED BY <1>1, <1>2, PTL DEF Spec

-------------------------------------------------------------------------------
(***************************************************************************)
(* The theorems.                                                           *)
(***************************************************************************)
\* The variables keep their types.
THEOREM TypeCorrect == Spec => []TypeOK
<1>1. IInv => TypeOK
      BY DEF IInv
<1> QED BY <1>1, Invariance, PTL

\* A proxy uses the protocol of the current main channel while its path is open
\* there, and none otherwise (waitForConnection and listen of proxy-factory.ts).
THEOREM ProxiesFollowTheConnection == Spec => []ProxyFollowsConnection
<1>1. IInv => ProxyFollowsConnection
      BY DEF IInv
<1> QED BY <1>1, Invariance, PTL

\* Each path that a listener is kept for is connected to every main channel in one
\* attempt, although a turn that announces several channels calls open() several
\* times for it: nobody waits for a main channel that is there, the path is open or
\* about to be, one request at most travels for it and meets no open channel, and
\* without losses what is pending is asked for or answered (listen, openChannel and
\* handleChannelCreated of service-connection-provider.ts, open and handleOpen of
\* channel.ts).
THEOREM PathsAreOpenedOnEveryMainChannel == Spec => []EachPathIsOpenedOnce
<1>1. IInv => EachPathIsOpenedOnce
  <2> SUFFICES ASSUME IInv, HasMainChannel, NEW p \in Paths
               PROVE  /\ listening[p] # "channelReady"
                      /\ listening[p] = "done" => p \in pendingOpen \cup openChannels
                      /\ \A i, j \in DOMAIN toServer : toServer[i] = OpenRequest(p) =>
                            p \notin served /\ (toServer[j] = toServer[i] => i = j)
                      /\ (p \in pendingOpen /\ context /\ losses = 0) =>
                            \/ \E i \in DOMAIN toServer : toServer[i] = OpenRequest(p)
                            \/ \E i \in DOMAIN toClient : toClient[i] = Ack(p)
      BY DEF EachPathIsOpenedOnce
  <2>1. listening[p] # "channelReady" /\ (listening[p] = "done" => p \in pendingOpen \cup openChannels)
        BY DEF IInv, ReadyInv
  <2>2. \A i, j \in DOMAIN toServer : toServer[i] = OpenRequest(p) =>
            p \notin served /\ (toServer[j] = toServer[i] => i = j)
        BY DEF IInv, RequestsInv, OpenRequest
  <2>3. (p \in pendingOpen /\ context /\ losses = 0) =>
            \/ \E i \in DOMAIN toServer : toServer[i] = OpenRequest(p)
            \/ \E i \in DOMAIN toClient : toClient[i] = Ack(p)
        BY DEF IInv, AnswerInv, Asked, Travels
  <2> QED BY <2>1, <2>2, <2>3
<1> QED BY <1>1, Invariance, PTL

===============================================================================
