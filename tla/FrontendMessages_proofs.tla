------------------------ MODULE FrontendMessages_proofs ------------------------
(***************************************************************************)
(* What FrontendConnection does with messages, for every bound and every   *)
(* set of configurations: no message is read twice, and the messages that  *)
(* reach the consumers of a context were written to it.  The second part   *)
(* is, as most of FrontendConnection_proofs, on which this module rests,   *)
(* about a server that saw the old socket go before the new one connects.  *)
(***************************************************************************)
EXTENDS FrontendConnection_proofs

(***************************************************************************)
(* The messages in a buffer, in a packet and in a stream of packets.  All  *)
(* messages of a side have numbers of their own, but for the markForClose  *)
(* calls, which carry the number 0.                                        *)
(***************************************************************************)
Marks == {x \in Item : x.n = MarkForClose}
Distinct(q) == \A i, j \in DOMAIN q : q[i] = q[j] /\ q[i] \notin Marks => i = j

DataPackets(q) == {i \in DOMAIN q : q[i].type = "data"}
Carried(q) == UNION {Range(q[i].blob) : i \in DataPackets(q)}
Single(q) ==
    /\ \A i \in DataPackets(q) : Distinct(q[i].blob)
    /\ \A i, j \in DataPackets(q) : i # j => Range(q[i].blob) \cap Range(q[j].blob) \subseteq Marks

LEMMA NoMessages ==
    /\ Range(<<>>) = {} /\ Distinct(<<>>)
    /\ Carried(<<>>) = {} /\ Single(<<>>)
BY DEF Range, Distinct, Carried, Single, DataPackets

LEMMA MessageAppended ==
    ASSUME NEW q \in Seq(Item), NEW x \in Item
    PROVE  /\ Range(Append(q, x)) = Range(q) \cup {x}
           /\ Distinct(q) /\ (x \in Range(q) => x \in Marks) => Distinct(Append(q, x))
<1> DEFINE p == Append(q, x)
           m == Len(q) + 1
<1>1. /\ \A i \in DOMAIN q : i \in DOMAIN p /\ p[i] = q[i] /\ i # m
      /\ m \in DOMAIN p /\ p[m] = x
      /\ \A i \in DOMAIN p : i = m \/ i \in DOMAIN q
      OBVIOUS
<1> HIDE DEF p, m
<1>2. Range(p) = Range(q) \cup {x}
      BY <1>1 DEF Range
<1>3. ASSUME Distinct(q), x \in Range(q) => x \in Marks PROVE Distinct(p)
  <2> SUFFICES ASSUME NEW i \in DOMAIN p, NEW j \in DOMAIN p, p[i] = p[j], p[i] \notin Marks
               PROVE  i = j
      BY DEF Distinct
  <2>1. ASSUME NEW k \in DOMAIN q, q[k] = x, x \notin Marks PROVE FALSE
        BY <1>3, <2>1 DEF Range
  <2> QED BY <1>1, <1>3, <2>1 DEF Distinct
<1> QED BY <1>2, <1>3 DEF p

LEMMA OneMessage ==
    ASSUME NEW x
    PROVE  Range(<<x>>) = {x} /\ Distinct(<<x>>)
<1>1. DOMAIN <<x>> = {1} /\ <<x>>[1] = x
      OBVIOUS
<1> QED BY <1>1 DEF Range, Distinct

LEMMA OnePacket ==
    ASSUME NEW p
    PROVE  /\ p.type = "data" => Carried(<<p>>) = Range(p.blob) /\ (Distinct(p.blob) => Single(<<p>>))
           /\ p.type # "data" => Carried(<<p>>) = {} /\ Single(<<p>>)
<1>1. DOMAIN <<p>> = {1} /\ <<p>>[1] = p
      OBVIOUS
<1>2. p.type = "data" => DataPackets(<<p>>) = {1}
      BY <1>1 DEF DataPackets
<1>3. p.type # "data" => DataPackets(<<p>>) = {}
      BY <1>1 DEF DataPackets
<1> QED BY <1>1, <1>2, <1>3 DEF Carried, Single

\* A stream to which packets were added.
LEMMA PacketsSent ==
    ASSUME NEW S, NEW q \in Seq(S), NEW r \in Seq(S)
    PROVE  /\ Carried(q \o r) = Carried(q) \cup Carried(r)
           /\ Single(q) /\ Single(r) /\ Carried(q) \cap Carried(r) \subseteq Marks => Single(q \o r)
<1> DEFINE p == q \o r
           before == DataPackets(q)
           after == {i \in DOMAIN p : i - Len(q) \in DataPackets(r)}
<1>1. \A i \in DOMAIN p : \/ i \in DOMAIN q /\ p[i] = q[i]
                          \/ i - Len(q) \in DOMAIN r /\ p[i] = r[i - Len(q)]
      OBVIOUS
<1>2. \A i \in DOMAIN q : i \in DOMAIN p /\ p[i] = q[i]
      OBVIOUS
<1>3. \A i \in DOMAIN r : /\ i + Len(q) \in DOMAIN p /\ p[i + Len(q)] = r[i]
                          /\ (i + Len(q)) - Len(q) = i
      OBVIOUS
<1>4. \A i, j \in DOMAIN p : i - Len(q) = j - Len(q) => i = j
      OBVIOUS
<1>5. \A i \in DOMAIN p : i - Len(q) \in DOMAIN r => p[i] = r[i - Len(q)]
      OBVIOUS
<1> HIDE DEF p
<1>6. /\ DataPackets(p) = before \cup after
      /\ \A i \in before : p[i] = q[i] /\ i \in DataPackets(q)
      /\ \A i \in after : p[i] = r[i - Len(q)] /\ i - Len(q) \in DataPackets(r)
      BY <1>1, <1>2, <1>5 DEF DataPackets
<1>7. Carried(p) \subseteq Carried(q) \cup Carried(r)
  <2> SUFFICES ASSUME NEW i \in DataPackets(p) PROVE Range(p[i].blob) \subseteq Carried(q) \cup Carried(r)
      BY DEF Carried
  <2> QED BY <1>6 DEF Carried
<1>8. Carried(q) \subseteq Carried(p)
      BY <1>2, <1>6 DEF Carried
<1>9. Carried(r) \subseteq Carried(p)
  <2> SUFFICES ASSUME NEW i \in DataPackets(r) PROVE Range(r[i].blob) \subseteq Carried(p)
      BY DEF Carried
  <2>1. i + Len(q) \in after /\ p[i + Len(q)] = r[i]
        BY <1>3 DEF DataPackets
  <2> QED BY <1>6, <2>1 DEF Carried
<1>10. ASSUME Single(q), Single(r), Carried(q) \cap Carried(r) \subseteq Marks PROVE Single(p)
  <2>1. \A i \in DataPackets(p) : Distinct(p[i].blob)
        BY <1>6, <1>10 DEF Single
  <2>2. \A i \in before : Range(p[i].blob) \subseteq Carried(q)
        BY <1>6 DEF Carried
  <2>3. \A i \in after : Range(p[i].blob) \subseteq Carried(r)
        BY <1>6 DEF Carried
  <2>4. ASSUME NEW i \in DataPackets(p), NEW j \in DataPackets(p), i # j
        PROVE  Range(p[i].blob) \cap Range(p[j].blob) \subseteq Marks
    <3>1. CASE i \in before /\ j \in before
          BY <1>6, <1>10, <2>4, <3>1 DEF Single
    <3>2. CASE i \in after /\ j \in after
      <4>1. i - Len(q) # j - Len(q)
            BY <1>4, <2>4, <3>2
      <4> QED BY <1>6, <1>10, <3>2, <4>1 DEF Single
    <3>3. CASE (i \in before /\ j \in after) \/ (i \in after /\ j \in before)
          BY <1>10, <2>2, <2>3, <3>3
    <3> QED BY <1>6, <3>1, <3>2, <3>3
  <2> QED BY <2>1, <2>4 DEF Single
<1> QED BY <1>7, <1>8, <1>9, <1>10 DEF p

\* A stream whose first packet was taken.
LEMMA PacketTaken ==
    ASSUME NEW S, NEW q \in Seq(S), q # <<>>
    PROVE  /\ Carried(Tail(q)) \subseteq Carried(q)
           /\ Single(q) => Single(Tail(q))
           /\ Head(q).type = "data" =>
                 /\ Range(Head(q).blob) \subseteq Carried(q)
                 /\ Single(q) => Range(Head(q).blob) \cap Carried(Tail(q)) \subseteq Marks
<1> DEFINE r == Tail(q)
<1>1. /\ Head(q) = q[1] /\ 1 \in DOMAIN q
      /\ \A i \in DOMAIN r : i + 1 # 1 /\ i + 1 \in DOMAIN q /\ r[i] = q[i + 1]
      BY TailFacts
<1>2. \A i, j \in DOMAIN r : i + 1 = j + 1 => i = j
      OBVIOUS
<1> HIDE DEF r
<1>3. \A i \in DataPackets(r) : i \in DOMAIN r /\ i + 1 \in DataPackets(q) /\ i + 1 # 1 /\ r[i] = q[i + 1]
      BY <1>1 DEF DataPackets
<1>4. Carried(r) \subseteq Carried(q)
      BY <1>3 DEF Carried
<1>5. ASSUME Single(q) PROVE Single(r)
  <2>1. \A i \in DataPackets(r) : Distinct(r[i].blob)
        BY <1>3, <1>5 DEF Single
  <2>2. \A i, j \in DataPackets(r) : i # j => Range(r[i].blob) \cap Range(r[j].blob) \subseteq Marks
        BY <1>2, <1>3, <1>5 DEF Single
  <2> QED BY <2>1, <2>2 DEF Single
<1>6. Head(q).type = "data" => 1 \in DataPackets(q)
      BY <1>1 DEF DataPackets
<1>7. Head(q).type = "data" => Range(Head(q).blob) \subseteq Carried(q)
      BY <1>1, <1>6 DEF Carried
<1>8. ASSUME Head(q).type = "data", Single(q)
      PROVE  Range(Head(q).blob) \cap Carried(r) \subseteq Marks
      BY <1>1, <1>3, <1>6, <1>8 DEF Carried, Single
<1> QED BY <1>4, <1>5, <1>7, <1>8 DEF r

\* The message a consumer reads from a packet is one of the packet's.
LEMMA MessageParsed ==
    ASSUME NEW blob \in Blob
    PROVE  Parsed(blob) \in Range(blob)
<1>1. Parsed(blob) = blob[1] /\ 1 \in DOMAIN blob
      BY TailFacts DEF Parsed, Blob
<1> QED BY <1>1 DEF Range

\* The messages that one side sends carry the types of messages.
LEMMA CarriedTypes ==
    /\ \A q \in Seq(ClientPacket) : Carried(q) \subseteq Item
    /\ \A q \in Seq(ServerPacket) : Carried(q) \subseteq Item
    /\ \A q \in Seq(Item) : Range(q) \subseteq Item
<1>1. \A q \in Seq(Item) : Range(q) \subseteq Item
      BY DEF Range
<1>2. \A blob \in Blob : Range(blob) \subseteq Item
      BY <1>1 DEF Blob
<1>3. ASSUME NEW q \in Seq(ClientPacket) PROVE Carried(q) \subseteq Item
  <2>1. \A i \in DOMAIN q : q[i] \in ClientPacket
        OBVIOUS
  <2> QED BY <1>2, <2>1, BlobOfPacket DEF Carried, DataPackets
<1>4. ASSUME NEW q \in Seq(ServerPacket) PROVE Carried(q) \subseteq Item
  <2>1. \A i \in DOMAIN q : q[i] \in ServerPacket
        OBVIOUS
  <2> QED BY <1>2, <2>1, BlobOfPacket DEF Carried, DataPackets
<1> QED BY <1>1, <1>3, <1>4

-------------------------------------------------------------------------------
(***************************************************************************)
(* What a step does to the streams of one direction: it may take messages  *)
(* away from them, or add one packet to the stream of one session.         *)
(***************************************************************************)
Fewer(old, new) ==
    \A t \in Sessions : Carried(new[t]) \subseteq Carried(old[t]) /\ (Single(old[t]) => Single(new[t]))

Sent(old, new, s, blob) ==
    \A t \in Sessions :
        /\ t # s => new[t] = old[t]
        /\ Carried(new[t]) \subseteq Carried(old[t]) \cup Range(blob)
        /\ Single(old[t]) /\ Distinct(blob) /\ Carried(old[s]) \cap Range(blob) \subseteq Marks => Single(new[t])

LEMMA FewerWhen ==
    ASSUME NEW S, NEW old \in [Sessions -> Seq(S)], NEW new, NEW s \in Sessions
    PROVE  /\ new = old => Fewer(old, new)
           /\ new = [t \in Sessions |-> <<>>] => Fewer(old, new)
           /\ old[s] # <<>> /\ new = [old EXCEPT ![s] = Tail(old[s])] => Fewer(old, new)
           /\ \A q : Carried(q) = {} /\ Single(q) /\ new = [old EXCEPT ![s] = q] => Fewer(old, new)
           /\ \A r \in Seq(S) :
                 Carried(r) = {} /\ Single(r) /\ new = [old EXCEPT ![s] = old[s] \o r] => Fewer(old, new)
<1>1. old[s] \in Seq(S)
      OBVIOUS
<1>2. new = old => Fewer(old, new)
      BY DEF Fewer
<1>3. new = [t \in Sessions |-> <<>>] => Fewer(old, new)
      BY NoMessages DEF Fewer
<1>4. old[s] # <<>> /\ new = [old EXCEPT ![s] = Tail(old[s])] => Fewer(old, new)
      BY <1>1, PacketTaken DEF Fewer
<1>5. \A q : Carried(q) = {} /\ Single(q) /\ new = [old EXCEPT ![s] = q] => Fewer(old, new)
      BY DEF Fewer
<1>6. ASSUME NEW r \in Seq(S), Carried(r) = {}, Single(r), new = [old EXCEPT ![s] = old[s] \o r]
      PROVE  Fewer(old, new)
  <2>1. /\ Carried(old[s] \o r) = Carried(old[s]) \cup Carried(r)
        /\ Single(old[s]) /\ Single(r) /\ Carried(old[s]) \cap Carried(r) \subseteq Marks => Single(old[s] \o r)
        BY <1>1, PacketsSent
  <2>2. Carried(old[s] \o r) = Carried(old[s]) /\ (Single(old[s]) => Single(old[s] \o r))
        BY <1>6, <2>1
  <2> QED BY <1>6, <2>2 DEF Fewer
<1> QED BY <1>2, <1>3, <1>4, <1>5, <1>6

LEMMA SentWhen ==
    ASSUME NEW S, NEW old \in [Sessions -> Seq(S)], NEW new, NEW s \in Sessions,
           NEW r \in Seq(S), NEW blob, Carried(r) \subseteq Range(blob), Distinct(blob) => Single(r)
    PROVE  new = old \/ new = [old EXCEPT ![s] = old[s] \o r] => Sent(old, new, s, blob)
<1>1. old[s] \in Seq(S)
      OBVIOUS
<1>2. /\ Carried(old[s] \o r) \subseteq Carried(old[s]) \cup Range(blob)
      /\ Single(old[s]) /\ Distinct(blob) /\ Carried(old[s]) \cap Range(blob) \subseteq Marks
             => Single(old[s] \o r)
      BY <1>1, PacketsSent
<1>3. new = old => Sent(old, new, s, blob)
      BY DEF Sent
<1>4. new = [old EXCEPT ![s] = old[s] \o r] => Sent(old, new, s, blob)
      BY <1>2 DEF Sent
<1> QED BY <1>3, <1>4

\* A packet of data that one side sends.
LEMMA DataSent ==
    ASSUME TypeOK, NEW s \in Sessions, NEW blob \in Blob
    PROVE  /\ toServer' = SentToServer(s, <<Data(blob)>>) => Sent(toServer, toServer', s, blob)
           /\ toClient' = SentToClient(s, <<Data(blob)>>) => Sent(toClient, toClient', s, blob)
<1>1. toServer \in [Sessions -> Seq(ClientPacket)] /\ toClient \in [Sessions -> Seq(ServerPacket)]
      BY DEF TypeOK
<1>2. <<Data(blob)>> \in Seq(ClientPacket) /\ <<Data(blob)>> \in Seq(ServerPacket)
      BY DataPacket
<1>3. Data(blob).type = "data" /\ Data(blob).blob = blob
      BY DEF Data
<1>4. Carried(<<Data(blob)>>) = Range(blob) /\ (Distinct(blob) => Single(<<Data(blob)>>))
      BY <1>3, OnePacket
<1>5. /\ toServer' = toServer \/ toServer' = [toServer EXCEPT ![s] = toServer[s] \o <<Data(blob)>>]
             => Sent(toServer, toServer', s, blob)
      BY <1>1, <1>2, <1>4, SentWhen
<1>6. /\ toClient' = toClient \/ toClient' = [toClient EXCEPT ![s] = toClient[s] \o <<Data(blob)>>]
             => Sent(toClient, toClient', s, blob)
      BY <1>1, <1>2, <1>4, SentWhen
<1> QED BY <1>5, <1>6 DEF SentToServer, SentToClient

-------------------------------------------------------------------------------
(***************************************************************************)
(* The streams: only the client's latest session carries packets, and none *)
(* once either side saw its end.                                           *)
(***************************************************************************)
LinesInv ==
    /\ \A s \in Sessions :
          /\ socketState[s] = "closed" => s \in ended /\ toServer[s] = <<>>
          /\ s # sid => toServer[s] = <<>> /\ toClient[s] = <<>>
    /\ ~up /\ sid # 0 => sid \in ended /\ toClient[sid] = <<>>

\* A step that sends packets, if any, on the client's latest session.
LEMMA LinesKept ==
    ASSUME TypeOK, LinesInv, UNCHANGED <<sid, up>>, ended \subseteq ended',
           \A s \in Sessions : socketState'[s] = "closed" =>
               socketState[s] = "closed" \/ (s \in ended /\ toServer'[s] = <<>>),
           \A s \in Sessions : s # sid \/ s \in ended => toServer'[s] \in {toServer[s], <<>>, Tail(toServer[s])},
           \A s \in Sessions : s # sid \/ ~up => toClient'[s] \in {toClient[s], <<>>}
    PROVE  LinesInv'
<1>1. Tail(<<>>) = <<>>
      OBVIOUS
<1>2. sid # 0 => sid \in Sessions
      BY DEF TypeOK, Sessions
<1> QED BY <1>1, <1>2 DEF LinesInv

\* Only the current context is attached to a socket.
AttachedInv == \A c \in Contexts : bound[c] # NoSession => c = conn

LEMMA AttachedNext ==
    ASSUME LateDisconnect = FALSE
    PROVE  KnownInv /\ AttachedInv /\ [Next]_vars => AttachedInv'
<1> SUFFICES ASSUME KnownInv, AttachedInv, [Next]_vars PROVE AttachedInv'
    OBVIOUS
<1> USE DEF frontend, backend, history, network
<1>t. /\ TypeOK /\ ReplyInv /\ BackInv
      /\ bound \in [Contexts -> Sessions \cup {NoSession}] /\ Contexts = Sessions
      /\ conn \in Contexts \cup {NoContext}
      BY DEF KnownInv, TypeOK, Contexts
<1>n. NoContext \notin Contexts
      BY DEF Contexts, Sessions, NoContext
<1>1. ASSUME NEW s \in Sessions, HandleInitialConnect(s)
      PROVE  AttachedInv'
  <2>1. /\ conn' = s /\ bound' = [bound EXCEPT ![s] = s]
        /\ s \in negotiating /\ socketState[s] = "open"
        BY <1>1 DEF HandleInitialConnect, ServerReceives
  <2>2. s = sid /\ owner[s] = NoContext
        BY <1>t, <2>1 DEF BackInv, ContextInv, Live
  <2>3. conn # NoContext => bound[conn] = NoSession
        BY <1>t, <2>2 DEF BackInv, ContextInv
  <2>4. \A c \in Contexts : bound[c] = NoSession
        BY <1>n, <2>3 DEF AttachedInv
  <2> QED BY <1>t, <2>1, <2>4 DEF AttachedInv
<1>2. ASSUME NEW s \in Sessions, HandleReconnect(s)
      PROVE  AttachedInv'
  <2>1. UNCHANGED conn /\ (UNCHANGED bound \/ bound' = [bound EXCEPT ![conn] = s])
        BY <1>2 DEF HandleReconnect
  <2> QED BY <1>t, <2>1 DEF AttachedInv
<1>3. ASSUME NEW s \in Sessions, HandleSocketDisconnect(s)
      PROVE  AttachedInv'
  <2>1. CASE UNCHANGED <<bound, conn>>
        BY <2>1 DEF AttachedInv
  <2>2. CASE owner[s] # NoContext /\ Disconnect(owner[s])
    <3>1. Live(s)
          BY <1>3 DEF HandleSocketDisconnect, Live
    <3>2. conn = owner[s] /\ conn \in Contexts
          BY <1>t, <2>2, <3>1 DEF BackInv, ContextInv
    <3>3. bound' = [bound EXCEPT ![conn] = NoSession]
          BY <2>2, <3>2 DEF Disconnect
    <3>4. \A c \in Contexts : bound'[c] = NoSession
          BY <1>t, <3>2, <3>3 DEF AttachedInv
    <3> QED BY <3>4 DEF AttachedInv
  <2> QED BY <1>3, <2>1, <2>2 DEF HandleSocketDisconnect
<1>4. CASE CloseTimeoutExpires
  <2>1. timers # <<>> /\ UNCHANGED bound
        BY <1>4 DEF CloseTimeoutExpires
  <2>2. conn # NoContext => bound[conn] = NoSession
        BY <1>t, <1>n, <2>1 DEF BackInv, ContextInv
  <2>3. \A c \in Contexts : bound[c] = NoSession
        BY <1>n, <2>2 DEF AttachedInv
  <2> QED BY <2>1, <2>3 DEF AttachedInv
<1>5. CASE UNCHANGED <<bound, conn>>
      BY <1>5 DEF AttachedInv
<1> QED BY <1>1, <1>2, <1>3, <1>4, <1>5
        DEF Next, FrontEnd, BackEnd, Environment, vars, Reload, Connect, ClientDisconnect, HandleInitialReply,
            HandleReconnected, HandleReconnectRefused, HandleClientData, Accept, MissPacket, IgnoreRequest,
            HandleServerData, ClientWrite, AboutToClose, ServerWrite, Break

\* A channel that is written to on a socket is the current context's, and the
\* socket is the client's latest.
LEMMA BoundSession ==
    ASSUME TypeOK, BackInv, AttachedInv, NEW c \in Contexts, bound[c] # NoSession
    PROVE  c = conn /\ bound[c] \in Sessions /\ bound[c] = sid /\ owner[bound[c]] = c
<1>1. c # NoContext /\ c = conn
      BY DEF Contexts, Sessions, NoContext, AttachedInv
<1>2. bound[c] \in Sessions
      BY DEF TypeOK
<1>3. Live(bound[c]) /\ owner[bound[c]] = c
      BY <1>1 DEF BackInv, ContextInv
<1> QED BY <1>1, <1>2, <1>3 DEF BackInv, ContextInv

LEMMA LinesNext ==
    ASSUME LateDisconnect = FALSE
    PROVE  KnownInv /\ AttachedInv /\ LinesInv /\ [Next]_vars => LinesInv'
<1> SUFFICES ASSUME KnownInv, AttachedInv, LinesInv, [Next]_vars PROVE LinesInv'
    OBVIOUS
<1> USE DEF frontend, backend, history, network
<1>t. /\ TypeOK /\ UpInv /\ ReplyInv /\ BackInv
      /\ toClient \in [Sessions -> Seq(ServerPacket)] /\ toServer \in [Sessions -> Seq(ClientPacket)]
      /\ socketState \in [Sessions -> {"none", "validating", "open", "closed"}]
      /\ sid \in 0 .. MaxSessions /\ MaxSessions \in Nat
      BY BoundsAssumption DEF KnownInv, TypeOK
<1>n. /\ \A s \in Sessions : s # 0 /\ s \in Nat
      /\ sid # 0 => sid \in Sessions
      BY <1>t DEF Sessions
<1>1. CASE Connect
  <2> DEFINE n == sid + 1
  <2>1. /\ n \in Sessions /\ sid' = n /\ up' /\ ~up
        /\ socketState' = [socketState EXCEPT ![n] = "validating"]
        /\ \A s \in Sessions : s # n => toServer'[s] = toServer[s]
        /\ UNCHANGED <<ended, toClient>>
        BY <1>1, <1>t DEF Connect
  <2>2. \A s \in 1 .. sid : socketState[s] = "closed"
        BY <1>1 DEF Connect
  <2>3. sid # 0 => socketState[sid] = "closed" /\ toServer[sid] = <<>> /\ toClient[sid] = <<>>
        BY <1>t, <1>n, <2>1, <2>2 DEF LinesInv
  <2>4. \A s \in Sessions : s # n => toServer'[s] = <<>> /\ toClient'[s] = <<>>
        BY <1>n, <2>1, <2>3 DEF LinesInv
  <2>5. \A s \in Sessions : socketState'[s] = "closed" => socketState[s] = "closed" /\ s # n
        BY <1>t, <2>1
  <2> QED BY <2>1, <2>4, <2>5 DEF LinesInv
<1>2. CASE ClientDisconnect
  <2>1. /\ UNCHANGED <<sid, ended, toServer, socketState>> /\ sid \in ended /\ sid \in Sessions
        /\ toClient' = [toClient EXCEPT ![sid] = <<>>]
        BY <1>2, <1>t DEF ClientDisconnect, UpInv
  <2> QED BY <1>t, <2>1 DEF LinesInv
<1>3. CASE PageLoads /\ UNCHANGED <<sid, toServer, socketState>>
  <2>1. /\ \A s \in Sessions : toClient'[s] = <<>>
        /\ ended \subseteq ended' /\ (up => sid \in ended') /\ ~up'
        BY <1>3 DEF PageLoads
  <2> QED BY <1>3, <1>n, <2>1 DEF LinesInv
<1>4. CASE HandleReconnectRefused
  <2>1. /\ UNCHANGED <<sid, toServer, socketState>> /\ up /\ sid \in Sessions
        BY <1>4, <1>t DEF HandleReconnectRefused, ClientReceives, UpInv
  <2>2. CASE ended' = ended \cup {sid} /\ toClient' = [toClient EXCEPT ![sid] = <<>>]
        BY <1>t, <2>1, <2>2 DEF LinesInv
  <2>3. CASE toClient' = [toClient EXCEPT ![sid] = Tail(@)] /\ UNCHANGED <<ended, frontend>>
        BY <1>t, <2>1, <2>3, LinesKept
  <2> QED BY <1>3, <1>4, <2>1, <2>2, <2>3 DEF HandleReconnectRefused
<1>5. CASE HandleInitialReply \/ HandleClientData
  <2>1. /\ toClient' = [toClient EXCEPT ![sid] = Tail(@)] /\ up
        /\ UNCHANGED <<sid, up, ended, toServer, socketState>>
        BY <1>5 DEF HandleInitialReply, HandleClientData, ClientReceives
  <2> QED BY <1>t, <2>1, LinesKept
<1>6. ASSUME UNCHANGED <<sid, up, ended, socketState>>, up, toClient' = toClient \/ toClient' = [toClient EXCEPT ![sid] = Tail(@)],
             \E blob : toServer' = toServer \/ toServer' = SentToServer(sid, <<Data(blob)>>)
      PROVE  LinesInv'
  <2>1. \A s \in Sessions : s # sid \/ s \in ended => toServer'[s] = toServer[s]
        BY <1>6, <1>t DEF SentToServer
  <2> QED BY <1>t, <1>6, <2>1, LinesKept
<1>7. CASE HandleReconnected
      BY <1>6, <1>7 DEF HandleReconnected, ClientReceives
<1>8. ASSUME NEW c, NEW n, ClientCommits(c, n), UNCHANGED <<sid, up, ended, socketState, toClient>>
      PROVE  LinesInv'
  <2>1. CASE up
        BY <1>6, <1>8, <2>1 DEF ClientCommits
  <2>2. CASE ~up
        BY <1>8, <2>2 DEF ClientCommits, LinesInv
  <2> QED BY <2>1, <2>2
<1>9. CASE ClientWrite \/ AboutToClose
      BY <1>8, <1>9 DEF ClientWrite, AboutToClose
<1>10. CASE UNCHANGED <<sid, up, toServer, toClient, socketState>> /\ ended \subseteq ended'
       BY <1>10 DEF LinesInv
<1>11. ASSUME NEW s \in Sessions, Accept(s)
       PROVE  LinesInv'
       BY <1>t, <1>11 DEF Accept, LinesInv
<1>12. ASSUME NEW s \in Sessions, MissPacket(s) \/ IgnoreRequest(s) \/ HandleServerData(s)
       PROVE  LinesInv'
  <2>1. /\ toServer' = [toServer EXCEPT ![s] = Tail(@)]
        /\ UNCHANGED <<sid, up, ended, toClient, socketState>>
        BY <1>12 DEF MissPacket, IgnoreRequest, HandleServerData
  <2> QED BY <1>t, <2>1, LinesKept
<1>13. ASSUME NEW s \in Sessions, HandleInitialConnect(s) \/ HandleReconnect(s)
       PROVE  LinesInv'
  <2>1. s = sid
        BY <1>13, <1>t, LiveSession DEF HandleInitialConnect, HandleReconnect, ServerReceives
  <2>2. /\ toServer' = [toServer EXCEPT ![s] = Tail(@)]
        /\ UNCHANGED <<sid, up, ended, socketState>>
        /\ \E r : toClient' = SentToClient(s, r)
        BY <1>13 DEF HandleInitialConnect, HandleReconnect
  <2>3. \A u \in Sessions : u # sid \/ u \in ended => toClient'[u] = toClient[u]
        BY <1>t, <2>1, <2>2 DEF SentToClient
  <2>4. \A u \in Sessions : u # sid \/ ~up => toClient'[u] = toClient[u]
        BY <1>n, <2>3 DEF LinesInv
  <2> QED BY <1>t, <2>2, <2>4, LinesKept
<1>14. ASSUME NEW s \in Sessions, HandleSocketDisconnect(s)
       PROVE  LinesInv'
  <2>1. /\ s \in ended /\ socketState' = [socketState EXCEPT ![s] = "closed"]
        /\ toServer' = [toServer EXCEPT ![s] = <<>>]
        /\ UNCHANGED <<sid, up, ended, toClient>>
        BY <1>14 DEF HandleSocketDisconnect
  <2> QED BY <1>t, <2>1 DEF LinesInv
<1>15. CASE ServerWrite
  <2>0. \A u \in Sessions : u # sid \/ u \in ended => toClient'[u] = toClient[u]
    <3>1. CASE UNCHANGED toClient
          BY <3>1
    <3>2. CASE toClient' # toClient
      <4>1. PICK c \in Contexts : /\ bound[c] # NoSession
                                  /\ \E r : toClient' = SentToClient(bound[c], r)
            BY <1>15, <3>2 DEF ServerWrite
      <4>2. bound[c] \in Sessions
            BY <4>1 DEF KnownInv, TypeOK
      <4>3. bound[c] = sid
            BY <1>t, <4>1, BoundSession
      <4> QED BY <1>t, <4>1, <4>2, <4>3 DEF SentToClient
    <3> QED BY <3>1, <3>2
  <2>1. \A u \in Sessions : u # sid \/ ~up => toClient'[u] = toClient[u]
        BY <1>n, <2>0 DEF LinesInv
  <2>2. UNCHANGED <<sid, up, ended, socketState, toServer>>
        BY <1>15 DEF ServerWrite
  <2> QED BY <1>t, <2>1, <2>2, LinesKept
<1>16. CASE Reload
       BY <1>3, <1>16 DEF Reload
<1>17. CASE CloseTimeoutExpires \/ (\E s \in Sessions : Break(s)) \/ UNCHANGED vars
       BY <1>10, <1>17 DEF CloseTimeoutExpires, Break, vars
<1> QED BY <1>1, <1>2, <1>4, <1>5, <1>7, <1>9, <1>11, <1>12, <1>13, <1>14, <1>15, <1>16, <1>17
        DEF Next, FrontEnd, BackEnd, Environment

-------------------------------------------------------------------------------
(***************************************************************************)
(* The contexts of messages.  A message carries the context of the channel *)
(* it was written to and, unless it is a late one of the front end,        *)
(* whatever holds it belongs to that context: the buffer of the channel,   *)
(* the stream of a socket the context is attached to, and the consumers.   *)
(* On a socket that no context is attached to yet, messages may already    *)
(* travel; then the client asked to be reconnected to their context, and   *)
(* the back end has no other one.                                          *)
(***************************************************************************)
OwnersAgree == up /\ epoch # NoContext /\ ~closed /\ owner[sid] # NoContext => owner[sid] = epoch

Current(x) == x.ctx = epoch /\ epoch # NoContext /\ ~closed

BufferInv == \A x \in Range(writeBuffer) : x.late \/ Current(x)

ToServerInv ==
    \A s \in Sessions : \A x \in Carried(toServer[s]) : ~x.late =>
        /\ owner[s] # NoContext => x.ctx = owner[s]
        /\ owner[s] = NoContext /\ Unanswered(s) => conn \in {NoContext, x.ctx} /\ ~Says(toServer[s], "initial")

ToClientInv ==
    /\ \A c \in Contexts : \A x \in Range(socketBuffer[c]) : x.ctx = c
    /\ \A s \in Sessions : \A x \in Carried(toClient[s]) : x.ctx = owner[s]

ReadInv ==
    \A c \in Contexts : /\ \A x \in Range(gotServer[c]) : x.late \/ x.ctx = c
                        /\ \A x \in Range(gotClient[c]) : x.ctx = c

LEMMA OwnersNext == KnownInv /\ ServedInv /\ OwnersAgree /\ [Next]_vars => OwnersAgree'
<1> SUFFICES ASSUME KnownInv, ServedInv, OwnersAgree, [Next]_vars PROVE OwnersAgree'
    OBVIOUS
<1> USE DEF frontend, backend, history, network
<1>t. /\ TypeOK /\ UpInv /\ BackInv /\ ReplyInv /\ RequestInv /\ ListenersInv /\ AgreementInv /\ NamesInv
      /\ toServer \in [Sessions -> Seq(ClientPacket)]
      /\ owner \in [Sessions -> Contexts \cup {NoContext}]
      BY DEF KnownInv, ServedInv, TypeOK
<1>n. \A s \in Sessions : s # 0
      BY DEF Sessions
<1>1. CASE Connect
  <2>1. sid + 1 \in Sessions /\ sid' = sid + 1 /\ UNCHANGED owner
        BY <1>1 DEF Connect
  <2>2. socketState[sid + 1] = "none"
    <3>1. sid \in 0 .. MaxSessions /\ MaxSessions \in Nat
          BY <1>t, BoundsAssumption DEF TypeOK
    <3>2. sid + 1 > sid
          BY <3>1
    <3> QED BY <1>t, <2>1, <3>2 DEF ReplyInv
  <2>3. owner[sid + 1] = NoContext
        BY <1>t, <2>1, <2>2 DEF BackInv, ContextInv
  <2> QED BY <2>1, <2>3 DEF OwnersAgree
<1>2. ASSUME NEW s \in Sessions, HandleInitialConnect(s)
      PROVE  OwnersAgree'
  <2>1. s = sid /\ s \in negotiating
        BY <1>2, <1>t, LiveSession DEF HandleInitialConnect, ServerReceives
  <2>2. Says(toServer[s], "initial")
        BY <1>2, <1>t, TailFacts DEF HandleInitialConnect, ServerReceives, Says
  <2>3. epoch = NoContext \/ closed
        BY <1>t, <1>n, <2>1, <2>2 DEF RequestInv, Unanswered, ListenersInv
  <2> QED BY <1>2, <2>3 DEF HandleInitialConnect, OwnersAgree
<1>3. ASSUME NEW s \in Sessions, HandleReconnect(s)
      PROVE  OwnersAgree'
  <2>1. s = sid /\ UNCHANGED <<sid, up, epoch, closed>>
        BY <1>3, <1>t, LiveSession DEF HandleReconnect, ServerReceives
  <2>2. CASE conn = NoContext
        BY <1>3, <2>1, <2>2 DEF HandleReconnect, OwnersAgree
  <2>3. CASE conn # NoContext
    <3>1. owner'[sid] = conn
          BY <1>3, <1>t, <2>1, <2>3 DEF HandleReconnect
    <3> QED BY <1>t, <2>1, <2>3, <3>1 DEF OwnersAgree, AgreementInv
  <2> QED BY <2>2, <2>3
<1>4. CASE HandleInitialReply
  <2>1. sid \in Sessions /\ Says(toClient[sid], "initial")
    <3>1. up /\ toClient[sid] # <<>> /\ Head(toClient[sid]).type = "initial"
          BY <1>4 DEF HandleInitialReply, ClientReceives
    <3>2. Head(toClient[sid]).type # "data"
          BY <3>1
    <3> QED BY <3>1, <3>2, AnswerTaken
  <2>2. owner[sid] = sid
        BY <1>t, <2>1 DEF NamesInv
  <2> QED BY <1>4, <2>2 DEF HandleInitialReply, OwnersAgree
<1>5. CASE UNCHANGED owner /\ ~up'
      BY <1>5 DEF OwnersAgree
<1>6. CASE UNCHANGED <<owner, up, sid, epoch, closed>>
      BY <1>6 DEF OwnersAgree
<1> QED BY <1>1, <1>2, <1>3, <1>4, <1>5, <1>6
        DEF Next, FrontEnd, BackEnd, Environment, vars, Reload, PageLoads, ClientDisconnect,
            HandleReconnected, HandleReconnectRefused, HandleClientData, Accept, MissPacket, IgnoreRequest,
            HandleServerData, HandleSocketDisconnect, CloseTimeoutExpires, ClientWrite, AboutToClose,
            ServerWrite, Break

\* What a commit writes.
LEMMA Committed ==
    ASSUME TypeOK, UpInv, NEW c, NEW n \in Nat, ClientCommits(c, n)
    PROVE  LET item == ClientItem(c, n) IN
           /\ item \in Item /\ item.n = n /\ (item.late \/ Current(item))
           /\ \/ /\ up /\ sid \in Sessions /\ UNCHANGED writeBuffer
                 /\ toServer' = SentToServer(sid, <<Data(<<item>>)>>)
                 /\ Sent(toServer, toServer', sid, <<item>>) /\ RequestsKept
              \/ /\ ~up /\ UNCHANGED toServer /\ writeBuffer' = Append(writeBuffer, item)
                 /\ Range(writeBuffer') = Range(writeBuffer) \cup {item}
                 /\ Distinct(writeBuffer) /\ (item \in Range(writeBuffer) => item \in Marks) => Distinct(writeBuffer')
<1> DEFINE item == ClientItem(c, n)
<1>1. item.n = n /\ (item.late \/ Current(item))
  <2>1. c \in Contexts
        BY DEF ClientCommits, TypeOK
  <2>2. c # NoContext
        BY <2>1 DEF Contexts, Sessions, NoContext
  <2>3. item.n = n /\ item.ctx = c /\ item.late = (c # epoch \/ closed)
        BY DEF ClientItem
  <2> QED BY <2>2, <2>3 DEF Current
<1>2. item \in Item /\ <<item>> \in Blob
      BY ItemBlob DEF ClientCommits, TypeOK
<1>3. writeBuffer \in Seq(Item)
      BY DEF TypeOK
<1>4. CASE up /\ toServer' = SentToServer(sid, <<Data(<<item>>)>>) /\ UNCHANGED writeBuffer
  <2>1. sid \in Sessions
        BY <1>4 DEF UpInv
  <2> DEFINE blob == <<item>>
  <2>2. blob \in Blob /\ toServer' = SentToServer(sid, <<Data(blob)>>)
        BY <1>2, <1>4
  <2> HIDE DEF blob
  <2>3. Sent(toServer, toServer', sid, blob) /\ RequestsKept
        BY <2>1, <2>2, DataSent, RequestsKeptWhen
  <2> QED BY <1>1, <1>2, <1>4, <2>1, <2>3 DEF blob
<1>5. CASE ~up /\ UNCHANGED toServer /\ writeBuffer' = Append(writeBuffer, item)
  <2> HIDE DEF item
  <2>1. /\ Range(Append(writeBuffer, item)) = Range(writeBuffer) \cup {item}
        /\ Distinct(writeBuffer) /\ (item \in Range(writeBuffer) => item \in Marks)
              => Distinct(Append(writeBuffer, item))
        BY <1>2, <1>3, MessageAppended
  <2> QED BY <1>1, <1>2, <1>5, <2>1 DEF item
<1>6. \/ up /\ toServer' = SentToServer(sid, <<Data(<<item>>)>>) /\ UNCHANGED writeBuffer
      \/ ~up /\ UNCHANGED toServer /\ writeBuffer' = Append(writeBuffer, item)
      BY DEF ClientCommits, ClientItem
<1> QED BY <1>4, <1>5, <1>6

LEMMA WriteCounts ==
    ASSUME TypeOK
    PROVE  /\ written["client"] \in Nat /\ written["server"] \in Nat
           /\ \A side \in {"client", "server"} :
                 written' = [written EXCEPT ![side] = @ + 1] =>
                     /\ written'[side] = written[side] + 1
                     /\ \A other \in {"client", "server"} : other # side => written'[other] = written[other]
<1>1. MaxWrites[config] \in Nat
      BY ConfigurationAssumption DEF TypeOK
<1>2. HistoryTypes
      BY TypeParts
<1> QED BY <1>1, <1>2 DEF HistoryTypes

\* What a step does to the messages for the server.  Most steps only take some
\* away; the others write one, flush the buffer or have one read.
FewerForServer ==
    /\ Fewer(toServer, toServer')
    /\ writeBuffer' \in {writeBuffer, <<>>}
    /\ UNCHANGED gotServer

Flushed ==
    /\ HandleReconnected
    /\ up /\ sid \in Sessions
    /\ writeBuffer \in Blob
    /\ toServer' = SentToServer(sid, <<Data(writeBuffer)>>)
    /\ writeBuffer' = <<>>

LEMMA NoDataSent ==
    ASSUME NEW q, \A i \in DOMAIN q : q[i].type # "data"
    PROVE  Carried(q) = {} /\ Single(q)
BY DEF Carried, Single, DataPackets

LEMMA ForServerSteps ==
    TypeOK /\ UpInv /\ [Next]_vars =>
        \/ FewerForServer
        \/ Flushed \/ ClientWrite \/ AboutToClose
        \/ \E s \in Sessions : HandleServerData(s)
<1> SUFFICES ASSUME TypeOK, UpInv, [Next]_vars, ~Flushed,
                    ~\E s \in Sessions : HandleServerData(s)
             PROVE  FewerForServer \/ ClientWrite \/ AboutToClose
    OBVIOUS
<1> USE DEF frontend, backend, history, network
<1>t. toServer \in [Sessions -> Seq(ClientPacket)] /\ writeBuffer \in Seq(Item) /\ outbox \in Nat
      BY DEF TypeOK
<1>u. \E s \in Sessions : TRUE
      BY BoundsAssumption DEF Sessions
<1>1. ASSUME UNCHANGED <<toServer, gotServer>>, writeBuffer' \in {writeBuffer, <<>>}
      PROVE  FewerForServer
      BY <1>1, <1>t, <1>u, FewerWhen DEF FewerForServer
<1>2. CASE Connect
  <2> DEFINE buffered == [i \in 1 .. outbox |-> [type |-> "initial"]]
             q == Append(buffered, [type |-> Request])
  <2>1. /\ sid + 1 \in Sessions /\ toServer' = [toServer EXCEPT ![sid + 1] = q]
        /\ UNCHANGED <<writeBuffer, gotServer>>
        BY <1>2 DEF Connect
  <2>2. \A i \in DOMAIN q : q[i] = [type |-> "initial"] \/ q[i] = [type |-> Request]
        BY <1>t
  <2>3. Request # "data"
        BY DEF Request
  <2> HIDE DEF q
  <2>4. Carried(q) = {} /\ Single(q)
        BY <2>2, <2>3, NoDataSent
  <2> QED BY <1>t, <2>1, <2>4, FewerWhen DEF FewerForServer
<1>3. ASSUME NEW s \in Sessions, BackEnd(s) \/ MissPacket(s)
      PROVE  FewerForServer
  <2>1. UNCHANGED <<writeBuffer, gotServer>>
        BY <1>3 DEF BackEnd, Accept, MissPacket, IgnoreRequest, HandleInitialConnect, HandleReconnect,
                    HandleSocketDisconnect
  <2>2. CASE toServer[s] # <<>> /\ toServer' = [toServer EXCEPT ![s] = Tail(toServer[s])]
        BY <1>t, <2>1, <2>2, FewerWhen DEF FewerForServer
  <2>3. CASE toServer' = [toServer EXCEPT ![s] = <<>>]
        BY <1>t, <2>1, <2>3, FewerWhen, NoMessages DEF FewerForServer
  <2>4. CASE UNCHANGED toServer
        BY <1>1, <2>1, <2>4
  <2> QED BY <1>3, <2>2, <2>3, <2>4
          DEF BackEnd, Accept, MissPacket, IgnoreRequest, HandleInitialConnect, HandleReconnect,
              HandleSocketDisconnect, ServerReceives
<1>4. CASE HandleReconnected
  <2>1. up /\ sid \in Sessions
        BY <1>4 DEF HandleReconnected, ClientReceives, UpInv
  <2>2. CASE reconnectListeners > 0 /\ writeBuffer # <<>>
    <3>1. writeBuffer \in Blob
          BY <1>t, <2>2 DEF Blob
    <3> QED BY <1>4, <2>1, <2>2, <3>1 DEF HandleReconnected, Flushed
  <2>3. CASE ~(reconnectListeners > 0 /\ writeBuffer # <<>>)
        BY <1>1, <1>4, <2>3 DEF HandleReconnected
  <2> QED BY <2>2, <2>3
<1>5. CASE ClientDisconnect \/ HandleInitialReply \/ HandleReconnectRefused \/ HandleClientData \/ Reload
           \/ CloseTimeoutExpires \/ ServerWrite \/ (\E s \in Sessions : Break(s)) \/ UNCHANGED vars
  <2>1. UNCHANGED <<toServer, gotServer>> /\ writeBuffer' \in {writeBuffer, <<>>}
        BY <1>5 DEF ClientDisconnect, HandleInitialReply, HandleReconnectRefused, PageLoads, HandleClientData,
                    Reload, CloseTimeoutExpires, ServerWrite, Break, vars, Drained
  <2> QED BY <1>1, <2>1
<1> QED BY <1>2, <1>3, <1>4, <1>5 DEF Next, FrontEnd, Environment

LEMMA BufferNext == KnownInv /\ BufferInv /\ [Next]_vars => BufferInv'
<1> SUFFICES ASSUME KnownInv, BufferInv, [Next]_vars PROVE BufferInv'
    OBVIOUS
<1> USE DEF frontend, backend, history, network
<1>t. TypeOK /\ UpInv
      BY DEF KnownInv
<1>1. CASE writeBuffer' = <<>>
      BY <1>1, NoMessages DEF BufferInv
<1>2. CASE UNCHANGED <<writeBuffer, epoch, closed>>
      BY <1>2 DEF BufferInv, Current
<1>3. ASSUME NEW c, NEW n \in Nat, ClientCommits(c, n), UNCHANGED <<epoch, closed>>
      PROVE  BufferInv'
  <2> DEFINE item == ClientItem(c, n)
  <2>1. /\ item.late \/ Current(item)
        /\ Range(writeBuffer') = Range(writeBuffer) \cup {item} \/ UNCHANGED writeBuffer
        BY <1>t, <1>3, Committed
  <2> HIDE DEF item
  <2> QED BY <1>3, <2>1 DEF BufferInv, Current
<1>4. CASE ClientWrite
  <2>1. PICK c \in held : ClientCommits(c, written["client"] + 1)
        BY <1>4 DEF ClientWrite
  <2>2. written["client"] + 1 \in Nat
        BY <1>t, WriteCounts
  <2> QED BY <1>3, <1>4, <2>1, <2>2 DEF ClientWrite
<1>5. CASE AboutToClose
      BY <1>3, <1>5 DEF AboutToClose, MarkForClose
<1> QED BY <1>1, <1>2, <1>4, <1>5
        DEF Next, FrontEnd, BackEnd, Environment, vars, Reload, PageLoads, Connect, ClientDisconnect,
            HandleInitialReply, HandleReconnected, HandleReconnectRefused, HandleClientData, Accept, MissPacket,
            IgnoreRequest, HandleInitialConnect, HandleReconnect, HandleServerData, HandleSocketDisconnect,
            CloseTimeoutExpires, ServerWrite, Break, Drained

LEMMA ToServerNext ==
    KnownInv /\ ServedInv /\ LinesInv /\ OwnersAgree /\ BufferInv /\ ToServerInv /\ [Next]_vars => ToServerInv'
<1> SUFFICES ASSUME KnownInv, ServedInv, LinesInv, OwnersAgree, BufferInv, ToServerInv, [Next]_vars
             PROVE  ToServerInv'
    OBVIOUS
<1> USE DEF frontend, backend, history, network
<1>t. /\ TypeOK /\ UpInv /\ BackInv /\ RequestInv /\ ListenersInv /\ AgreementInv
      /\ toServer \in [Sessions -> Seq(ClientPacket)]
      /\ socketState \in [Sessions -> {"none", "validating", "open", "closed"}]
      /\ owner \in [Sessions -> Contexts \cup {NoContext}]
      BY DEF KnownInv, ServedInv, TypeOK
<1>n. \A s \in Sessions : s # 0 /\ s # NoContext
      BY DEF Sessions, NoContext
<1>e. \A s \in Sessions : s # sid => Carried(toServer[s]) = {}
      BY NoMessages DEF LinesInv
<1>1. ASSUME Fewer(toServer, toServer'), RequestsKept, UNCHANGED owner, conn' \in {conn, NoContext},
             \A s \in Sessions : Unanswered(s)' => Unanswered(s)
      PROVE  ToServerInv'
      BY <1>1 DEF ToServerInv, Fewer, RequestsKept, Negotiation
<1>2. CASE Connect
  <2> DEFINE n == sid + 1
  <2>1. /\ n \in Sessions /\ UNCHANGED <<owner, conn, negotiating>>
        /\ \A s \in Sessions : s # n => toServer'[s] = toServer[s] /\ socketState'[s] = socketState[s]
        BY <1>2, <1>t DEF Connect
  <2>2. Fewer(toServer, toServer')
    <3>1. FewerForServer
          BY <1>t, <1>2, ForServerSteps DEF Connect, Flushed, HandleReconnected, ClientReceives, ClientWrite,
             AboutToClose, HandleServerData
    <3> QED BY <3>1 DEF FewerForServer
  <2>3. n # sid
    <3>1. sid \in 0 .. MaxSessions /\ MaxSessions \in Nat
          BY <1>t, BoundsAssumption DEF TypeOK
    <3> QED BY <3>1
  <2>4. Carried(toServer'[n]) = {}
        BY <1>e, <2>1, <2>2, <2>3 DEF Fewer
  <2> HIDE DEF n
  <2> QED BY <2>1, <2>4 DEF ToServerInv, Unanswered
<1>3. ASSUME NEW s \in Sessions, s = sid, s \in negotiating, Fewer(toServer, toServer'),
             \A t \in Sessions : t # s => owner'[t] = owner[t], ~Unanswered(s)',
             (\A x \in Carried(toServer[s]) : x.late) \/ owner'[s] \in {conn, NoContext}
      PROVE  ToServerInv'
  <2>1. \A t \in Sessions : t # s => Carried(toServer'[t]) = {}
        BY <1>e, <1>3 DEF Fewer
  <2>2. owner[s] = NoContext /\ Unanswered(s)
        BY <1>3, <1>t DEF BackInv, ContextInv, Unanswered
  <2>3. ASSUME NEW x \in Carried(toServer'[s]), ~x.late, owner'[s] # NoContext
        PROVE  x.ctx = owner'[s]
    <3>1. x \in Carried(toServer[s])
          BY <1>3 DEF Fewer
    <3> QED BY <1>3, <2>2, <2>3, <3>1 DEF ToServerInv
  <2> QED BY <1>3, <2>1, <2>3 DEF ToServerInv
<1>4. ASSUME NEW s \in Sessions, HandleInitialConnect(s) \/ HandleReconnect(s)
      PROVE  ToServerInv'
  <2>1. s = sid /\ s \in negotiating /\ socketState[s] = "open"
        BY <1>4, <1>t, LiveSession DEF HandleInitialConnect, HandleReconnect, ServerReceives
  <2>2. Fewer(toServer, toServer')
    <3>1. toServer[s] # <<>> /\ toServer' = [toServer EXCEPT ![s] = Tail(toServer[s])]
          BY <1>4 DEF HandleInitialConnect, HandleReconnect, ServerReceives
    <3> QED BY <1>t, <3>1, FewerWhen
  <2>3. ~Unanswered(s)'
        BY <1>4, <2>1 DEF HandleInitialConnect, HandleReconnect, Unanswered
  <2>4. \A t \in Sessions : t # s => owner'[t] = owner[t]
        BY <1>4, <1>t DEF HandleInitialConnect, HandleReconnect
  <2>5. CASE HandleInitialConnect(s)
    <3>1. Says(toServer[s], "initial")
          BY <2>5, <1>t, TailFacts DEF HandleInitialConnect, ServerReceives, Says
    <3>2. owner[s] = NoContext /\ Unanswered(s)
          BY <2>1, <1>t DEF BackInv, ContextInv, Unanswered
    <3>3. \A x \in Carried(toServer[s]) : x.late
          BY <3>1, <3>2 DEF ToServerInv
    <3> QED BY <1>3, <2>1, <2>2, <2>3, <2>4, <3>3
  <2>6. CASE HandleReconnect(s)
    <3>2. owner'[s] \in {conn, NoContext}
      <4>1. CASE conn # NoContext
            BY <1>t, <2>6, <4>1 DEF HandleReconnect
      <4>2. CASE conn = NoContext
        <5>1. UNCHANGED owner /\ owner[s] = NoContext
              BY <1>t, <2>1, <2>6, <4>2 DEF HandleReconnect, BackInv, ContextInv
        <5> QED BY <5>1
      <4> QED BY <4>1, <4>2
    <3> QED BY <1>3, <2>1, <2>2, <2>3, <2>4, <3>2
  <2> QED BY <1>4, <2>5, <2>6
<1>5. ASSUME NEW blob, Sent(toServer, toServer', sid, blob), \A x \in Range(blob) : x.late \/ Current(x),
             up, RequestsKept, UNCHANGED <<owner, conn, negotiating, socketState>>
      PROVE  ToServerInv'
  <2>1. sid \in Sessions
        BY <1>5, <1>t DEF UpInv
  <2>2. epoch # NoContext /\ ~closed /\ owner[sid] # NoContext => owner[sid] = epoch
        BY <1>5 DEF OwnersAgree
  <2>3. epoch # NoContext /\ ~closed /\ Unanswered(sid) => conn \in {NoContext, epoch} /\ ~Says(toServer[sid], "initial")
        BY <1>5, <1>n, <1>t, <2>1 DEF AgreementInv, RequestInv, ListenersInv
  <2>4. \A s \in Sessions : Unanswered(s)' = Unanswered(s) /\ (Says(toServer'[s], "initial") => Says(toServer[s], "initial"))
        BY <1>5 DEF Unanswered, RequestsKept, Negotiation
  <2>5. ASSUME NEW s \in Sessions, NEW x \in Carried(toServer'[s]), ~x.late
        PROVE  /\ owner[s] # NoContext => x.ctx = owner[s]
               /\ owner[s] = NoContext /\ Unanswered(s) => conn \in {NoContext, x.ctx} /\ ~Says(toServer[s], "initial")
    <3>1. CASE x \in Carried(toServer[s])
          BY <2>5, <3>1 DEF ToServerInv
    <3>2. CASE s = sid /\ x \in Range(blob)
          BY <1>5, <2>2, <2>3, <2>5, <3>2 DEF Current
    <3> QED BY <1>5, <3>1, <3>2 DEF Sent
  <2> QED BY <1>5, <2>4, <2>5 DEF ToServerInv
<1>6. CASE Flushed
  <2>1. Sent(toServer, toServer', sid, writeBuffer) /\ RequestsKept
        BY <1>6, <1>t, DataSent, RequestsKeptWhen DEF Flushed
  <2>2. UNCHANGED <<owner, conn, negotiating, socketState>>
        BY <1>6 DEF Flushed, HandleReconnected
  <2> QED BY <1>5, <1>6, <2>1, <2>2 DEF Flushed, BufferInv
<1>7. ASSUME NEW c, NEW n \in Nat, ClientCommits(c, n), UNCHANGED <<owner, conn, negotiating, socketState>>
      PROVE  ToServerInv'
  <2> DEFINE item == ClientItem(c, n)
  <2>1. CASE up
    <3>1. /\ Sent(toServer, toServer', sid, <<item>>) /\ RequestsKept
          /\ item.late \/ Current(item)
          BY <1>t, <1>7, <2>1, Committed
    <3> HIDE DEF item
    <3>2. \A x \in Range(<<item>>) : x.late \/ Current(x)
          BY <3>1, OneMessage
    <3> QED BY <1>5, <1>7, <2>1, <3>1, <3>2
  <2>2. CASE ~up
    <3>1. UNCHANGED toServer
          BY <1>t, <1>7, <2>2, Committed
    <3> QED BY <1>7, <3>1 DEF ToServerInv, Unanswered
  <2> QED BY <2>1, <2>2
<1>8. CASE ClientWrite
  <2>1. PICK c \in held : ClientCommits(c, written["client"] + 1)
        BY <1>8 DEF ClientWrite
  <2>2. written["client"] + 1 \in Nat
        BY <1>t, WriteCounts
  <2> QED BY <1>7, <1>8, <2>1, <2>2 DEF ClientWrite
<1>9. CASE AboutToClose
      BY <1>7, <1>9 DEF AboutToClose, MarkForClose
<1>10. ASSUME NEW s \in Sessions, HandleServerData(s)
       PROVE  ToServerInv'
  <2>1. /\ toServer[s] # <<>> /\ toServer' = [toServer EXCEPT ![s] = Tail(toServer[s])]
        /\ UNCHANGED <<owner, conn, negotiating, socketState>>
        BY <1>10 DEF HandleServerData, ServerReceives
  <2>2. Fewer(toServer, toServer') /\ RequestsKept
        BY <1>t, <2>1, FewerWhen, RequestsKeptWhen
  <2> QED BY <1>1, <2>1, <2>2 DEF Unanswered
<1>11. ASSUME UNCHANGED owner, conn' \in {conn, NoContext}, \A s \in Sessions : Unanswered(s)' => Unanswered(s),
              FewerForServer, ~Connect
       PROVE  ToServerInv'
       BY <1>1, <1>11, <1>t, NoRequestSent DEF FewerForServer
<1>12. ASSUME NEW s \in Sessions, Accept(s) \/ HandleSocketDisconnect(s), FewerForServer, ~Connect
       PROVE  ToServerInv'
  <2>1. UNCHANGED owner /\ conn' \in {conn, NoContext}
        BY <1>12 DEF Accept, HandleSocketDisconnect, CloseConnection
  <2>2. \A t \in Sessions : Unanswered(t)' => Unanswered(t)
        BY <1>12, <1>t DEF Accept, HandleSocketDisconnect, Unanswered
  <2> QED BY <1>11, <1>12, <2>1, <2>2
<1>13. CASE UNCHANGED <<owner, negotiating, socketState>> /\ conn' \in {conn, NoContext} /\ FewerForServer /\ ~Connect
       BY <1>11, <1>13 DEF Unanswered
<1>14. \/ FewerForServer \/ Flushed \/ ClientWrite \/ AboutToClose
       \/ \E s \in Sessions : HandleServerData(s)
       BY <1>t, ForServerSteps
<1>15. \/ Connect
       \/ \E s \in Sessions : HandleInitialConnect(s) \/ HandleReconnect(s) \/ Accept(s) \/ HandleSocketDisconnect(s)
       \/ UNCHANGED <<owner, negotiating, socketState>> /\ conn' \in {conn, NoContext}
       BY DEF Next, FrontEnd, BackEnd, Environment, vars, Reload, ClientDisconnect, HandleInitialReply,
              HandleReconnected, HandleReconnectRefused, HandleClientData, MissPacket, IgnoreRequest,
              HandleServerData, CloseTimeoutExpires, CloseConnection, ClientWrite, AboutToClose, ServerWrite, Break
<1> QED BY <1>2, <1>4, <1>6, <1>8, <1>9, <1>10, <1>12, <1>13, <1>14, <1>15

\* What a step does to the messages for the client.
FewerForClient ==
    /\ Fewer(toClient, toClient')
    /\ UNCHANGED <<socketBuffer, gotClient>>

Reattached(s) == HandleReconnect(s) /\ conn # NoContext

LEMMA ReconnectionCarries ==
    ASSUME TypeOK, NEW c \in Contexts
    PROVE  /\ Carried(Reconnection(c)) \subseteq Range(socketBuffer[c])
           /\ Distinct(socketBuffer[c]) => Single(Reconnection(c))
<1> DEFINE tail == IF socketBuffer[c] = <<>> THEN <<>> ELSE <<Data(socketBuffer[c])>>
           blob == socketBuffer[c]
<1>1. blob \in Seq(Item)
      BY DEF TypeOK
<1>2. tail \in Seq(ServerPacket) /\ Carried(tail) \subseteq Range(blob) /\ (Distinct(blob) => Single(tail))
  <2>1. CASE blob = <<>>
        BY <2>1, NoMessages
  <2>2. CASE blob # <<>>
    <3> DEFINE p == Data(blob)
    <3>1. p.type = "data" /\ p.blob = blob
          BY DEF Data
    <3>2. blob \in Blob
          BY <1>1, <2>2 DEF Blob
    <3>3. p \in ServerPacket
          BY <3>2, DataPacket
    <3>4. tail = <<p>>
          BY <2>2
    <3>5. <<p>> \in Seq(ServerPacket)
          BY <3>3
    <3> HIDE DEF p, tail, blob
    <3>6. Carried(<<p>>) = Range(blob) /\ (Distinct(blob) => Single(<<p>>))
          BY <3>1, OnePacket
    <3> QED BY <3>4, <3>5, <3>6
  <2> QED BY <2>1, <2>2
<1>3. ReconnectReply(TRUE) \in Seq(ServerPacket)
      BY ServerPackets
<1>4. Carried(ReconnectReply(TRUE)) = {} /\ Single(ReconnectReply(TRUE))
  <2>1. [type |-> "reconnect", found |-> TRUE].type # "data"
        OBVIOUS
  <2> QED BY <2>1, OnePacket DEF ReconnectReply
<1> HIDE DEF tail, blob
<1> DEFINE reply == ReconnectReply(TRUE)
<1> HIDE DEF reply
<1>5. /\ Carried(reply \o tail) = Carried(reply) \cup Carried(tail)
      /\ Single(reply) /\ Single(tail) /\ Carried(reply) \cap Carried(tail) \subseteq Marks => Single(reply \o tail)
      BY <1>2, <1>3, PacketsSent DEF reply
<1>6. Reconnection(c) = reply \o tail
      BY DEF Reconnection, reply, tail
<1> QED BY <1>2, <1>4, <1>5, <1>6 DEF blob, reply

LEMMA ContextReattached ==
    ASSUME TypeOK, NEW s \in Sessions, Reattached(s)
    PROVE  /\ conn \in Contexts /\ s \in negotiating /\ socketState[s] = "open"
           /\ socketBuffer' = [socketBuffer EXCEPT ![conn] = <<>>]
           /\ owner' = [owner EXCEPT ![s] = conn]
           /\ UNCHANGED <<conn, gotClient, written>>
           /\ Sent(toClient, toClient', s, socketBuffer[conn])
<1>1. conn \in Contexts
      BY DEF Reattached, TypeOK
<1>2. toClient' = SentToClient(s, Reconnection(conn))
      BY DEF Reattached, HandleReconnect, Reconnection
<1>3. toClient \in [Sessions -> Seq(ServerPacket)]
      BY DEF TypeOK
<1>4. Reconnection(conn) \in Seq(ServerPacket)
      BY <1>1, ReconnectionPackets
<1>5. toClient' = toClient \/ toClient' = [toClient EXCEPT ![s] = toClient[s] \o Reconnection(conn)]
      BY <1>2 DEF SentToClient
<1>6. /\ Carried(Reconnection(conn)) \subseteq Range(socketBuffer[conn])
      /\ Distinct(socketBuffer[conn]) => Single(Reconnection(conn))
      BY <1>1, ReconnectionCarries
<1>7. Sent(toClient, toClient', s, socketBuffer[conn])
      BY <1>3, <1>4, <1>5, <1>6, SentWhen
<1>8. /\ s \in negotiating /\ socketState[s] = "open"
      /\ UNCHANGED <<conn, gotClient, written>>
      BY DEF Reattached, HandleReconnect, ServerReceives, history
<1>9. /\ socketBuffer' = [socketBuffer EXCEPT ![conn] = <<>>]
      /\ owner' = [owner EXCEPT ![s] = conn]
      BY DEF Reattached, HandleReconnect
<1> QED BY <1>1, <1>7, <1>8, <1>9

\* What a write of the server writes.
LEMMA ServerWritten ==
    ASSUME TypeOK, ServerWrite
    PROVE  \E c \in Contexts : \E item \in Item :
              /\ item = ServerItem(c)
              /\ \/ /\ bound[c] \in Sessions /\ UNCHANGED socketBuffer
                    /\ Sent(toClient, toClient', bound[c], <<item>>)
                 \/ /\ UNCHANGED toClient
                    /\ socketBuffer' = [socketBuffer EXCEPT ![c] = Append(socketBuffer[c], item)]
<1>1. PICK c \in Contexts :
          LET item == ServerItem(c)
          IN  \/ /\ bound[c] # NoSession
                 /\ toClient' = SentToClient(bound[c], <<Data(<<item>>)>>)
                 /\ UNCHANGED socketBuffer
              \/ /\ socketBuffer' = [socketBuffer EXCEPT ![c] = Append(@, item)]
                 /\ UNCHANGED toClient
      BY DEF ServerWrite, ServerItem
<1> DEFINE item == ServerItem(c)
           blob == <<item>>
<1>2. item \in Item /\ blob \in Blob
  <2>1. written["server"] + 1 \in Nat
        BY WriteCounts
  <2> QED BY <2>1, ItemBlob
<1>3. CASE bound[c] # NoSession /\ toClient' = SentToClient(bound[c], <<Data(blob)>>) /\ UNCHANGED socketBuffer
  <2>1. bound[c] \in Sessions
        BY <1>3 DEF TypeOK
  <2> HIDE DEF blob
  <2>2. Sent(toClient, toClient', bound[c], blob)
        BY <1>2, <1>3, <2>1, DataSent
  <2> QED BY <1>1, <1>2, <1>3, <2>1, <2>2 DEF blob
<1>4. CASE socketBuffer' = [socketBuffer EXCEPT ![c] = Append(socketBuffer[c], item)] /\ UNCHANGED toClient
  <2> HIDE DEF blob
  <2> QED BY <1>1, <1>2, <1>4
<1> QED BY <1>1, <1>3, <1>4

LEMMA ForClientSteps ==
    TypeOK /\ UpInv /\ [Next]_vars =>
        \/ FewerForClient
        \/ ServerWrite \/ HandleClientData
        \/ \E s \in Sessions : Reattached(s)
<1> SUFFICES ASSUME TypeOK, UpInv, [Next]_vars, ~\E s \in Sessions : Reattached(s)
             PROVE  FewerForClient \/ ServerWrite \/ HandleClientData
    OBVIOUS
<1> USE DEF frontend, backend, history, network
<1>t. toClient \in [Sessions -> Seq(ServerPacket)]
      BY DEF TypeOK
<1>u. \E s \in Sessions : TRUE
      BY BoundsAssumption DEF Sessions
<1>1. CASE UNCHANGED <<toClient, socketBuffer, gotClient>>
      BY <1>1, <1>t, <1>u, FewerWhen DEF FewerForClient
<1>2. CASE ClientDisconnect
  <2>1. sid \in Sessions /\ toClient' = [toClient EXCEPT ![sid] = <<>>] /\ UNCHANGED <<socketBuffer, gotClient>>
        BY <1>2 DEF ClientDisconnect, UpInv
  <2> QED BY <1>t, <2>1, FewerWhen, NoMessages DEF FewerForClient
<1>3. ASSUME PageLoads, UNCHANGED <<socketBuffer, gotClient>>
      PROVE  FewerForClient
      BY <1>3, <1>t, <1>u, FewerWhen DEF PageLoads, FewerForClient
<1>4. CASE HandleInitialReply \/ HandleReconnected
  <2>1. /\ sid \in Sessions /\ toClient[sid] # <<>> /\ UNCHANGED <<socketBuffer, gotClient>>
        /\ toClient' = [toClient EXCEPT ![sid] = Tail(toClient[sid])]
        BY <1>4 DEF HandleInitialReply, HandleReconnected, ClientReceives, UpInv
  <2> QED BY <1>t, <2>1, FewerWhen DEF FewerForClient
<1>5. CASE HandleReconnectRefused
  <2>1. sid \in Sessions /\ toClient[sid] # <<>> /\ UNCHANGED <<socketBuffer, gotClient>>
        BY <1>5 DEF HandleReconnectRefused, ClientReceives, UpInv
  <2>2. CASE toClient' = [toClient EXCEPT ![sid] = <<>>]
        BY <1>t, <2>1, <2>2, FewerWhen, NoMessages DEF FewerForClient
  <2>3. CASE toClient' = [toClient EXCEPT ![sid] = Tail(toClient[sid])]
        BY <1>t, <2>1, <2>3, FewerWhen DEF FewerForClient
  <2> QED BY <1>3, <1>5, <2>1, <2>2, <2>3 DEF HandleReconnectRefused
<1>6. ASSUME NEW s \in Sessions, NEW r \in Seq(ServerPacket), toClient' = SentToClient(s, r),
             Carried(r) = {}, Single(r), UNCHANGED <<socketBuffer, gotClient>>
      PROVE  FewerForClient
  <2>1. toClient' = toClient \/ toClient' = [toClient EXCEPT ![s] = toClient[s] \o r]
        BY <1>6 DEF SentToClient
  <2> QED BY <1>t, <1>6, <2>1, FewerWhen DEF FewerForClient
<1>7. ASSUME NEW s \in Sessions, HandleInitialConnect(s)
      PROVE  FewerForClient
  <2> DEFINE p == [type |-> "initial"]
  <2>1. p.type # "data" /\ <<p>> \in Seq(ServerPacket)
        BY ServerPackets
  <2>2. toClient' = SentToClient(s, <<p>>) /\ UNCHANGED <<socketBuffer, gotClient>>
        BY <1>7 DEF HandleInitialConnect
  <2> HIDE DEF p
  <2> QED BY <1>6, <2>1, <2>2, OnePacket
<1>8. ASSUME NEW s \in Sessions, HandleReconnect(s)
      PROVE  FewerForClient
  <2> DEFINE p == [type |-> "reconnect", found |-> FALSE]
  <2>1. p.type # "data" /\ <<p>> \in Seq(ServerPacket)
        BY ServerPackets DEF ReconnectReply
  <2>2. toClient' = SentToClient(s, <<p>>) /\ UNCHANGED <<socketBuffer, gotClient>>
        BY <1>8 DEF HandleReconnect, Reattached, ReconnectReply
  <2> HIDE DEF p
  <2> QED BY <1>6, <2>1, <2>2, OnePacket
<1> QED BY <1>1, <1>2, <1>3, <1>4, <1>5, <1>7, <1>8
        DEF Next, FrontEnd, BackEnd, Environment, vars, Reload, Connect, Accept, MissPacket, IgnoreRequest,
            HandleServerData, HandleSocketDisconnect, CloseTimeoutExpires, ClientWrite, AboutToClose, Break

LEMMA ToClientNext ==
    KnownInv /\ AttachedInv /\ ToClientInv /\ [Next]_vars => ToClientInv'
<1> SUFFICES ASSUME KnownInv, AttachedInv, ToClientInv, [Next]_vars PROVE ToClientInv'
    OBVIOUS
<1> USE DEF frontend, backend, history, network
<1>t. /\ TypeOK /\ UpInv /\ BackInv
      /\ toClient \in [Sessions -> Seq(ServerPacket)]
      /\ socketBuffer \in [Contexts -> Seq(Item)]
      /\ owner \in [Sessions -> Contexts \cup {NoContext}]
      BY DEF KnownInv, TypeOK
<1>1. ASSUME NEW s \in Sessions, s \in negotiating
      PROVE  Carried(toClient[s]) = {}
  <2>1. owner[s] = NoContext
        BY <1>1, <1>t DEF BackInv, ContextInv
  <2>2. Carried(toClient[s]) \subseteq Item
        BY <1>t, CarriedTypes
  <2>3. \A x \in Item : x.ctx # NoContext
        BY DEF Item, Contexts, Sessions, NoContext
  <2> QED BY <2>1, <2>2, <2>3 DEF ToClientInv
<1>2. ASSUME FewerForClient, \A s \in Sessions : owner'[s] = owner[s] \/ Carried(toClient[s]) = {}
      PROVE  ToClientInv'
  <2>1. ASSUME NEW s \in Sessions, NEW x \in Carried(toClient'[s])
        PROVE  x.ctx = owner'[s]
    <3>1. x \in Carried(toClient[s])
          BY <1>2 DEF FewerForClient, Fewer
    <3> QED BY <1>2, <3>1 DEF ToClientInv
  <2>2. UNCHANGED socketBuffer
        BY <1>2 DEF FewerForClient
  <2> QED BY <2>1, <2>2 DEF ToClientInv
<1>3. ASSUME NEW s \in Sessions, HandleInitialConnect(s) \/ HandleReconnect(s), FewerForClient
      PROVE  ToClientInv'
  <2>1. s \in negotiating /\ \A t \in Sessions : t # s => owner'[t] = owner[t]
        BY <1>3, <1>t DEF HandleInitialConnect, HandleReconnect
  <2> QED BY <1>1, <1>2, <1>3, <2>1
<1>4. ASSUME NEW s \in Sessions, Reattached(s)
      PROVE  ToClientInv'
  <2>1. /\ conn \in Contexts /\ s \in negotiating
        /\ socketBuffer' = [socketBuffer EXCEPT ![conn] = <<>>]
        /\ owner' = [owner EXCEPT ![s] = conn]
        /\ Sent(toClient, toClient', s, socketBuffer[conn])
        BY <1>4, <1>t, ContextReattached
  <2>2. Carried(toClient[s]) = {}
        BY <1>1, <2>1
  <2>3. \A c \in Contexts : Range(socketBuffer'[c]) \subseteq Range(socketBuffer[c])
        BY <1>t, <2>1, NoMessages
  <2>4. Carried(toClient'[s]) \subseteq Range(socketBuffer[conn])
        BY <2>1, <2>2 DEF Sent
  <2>5. \A t \in Sessions : t # s => toClient'[t] = toClient[t] /\ owner'[t] = owner[t]
        BY <1>t, <2>1 DEF Sent
  <2>6. owner'[s] = conn
        BY <1>t, <2>1
  <2> QED BY <2>1, <2>3, <2>4, <2>5, <2>6 DEF ToClientInv
<1>5. CASE ServerWrite
  <2>1. PICK c \in Contexts, item \in Item :
              /\ item = ServerItem(c)
              /\ \/ /\ bound[c] \in Sessions /\ UNCHANGED socketBuffer
                    /\ Sent(toClient, toClient', bound[c], <<item>>)
                 \/ /\ UNCHANGED toClient
                    /\ socketBuffer' = [socketBuffer EXCEPT ![c] = Append(socketBuffer[c], item)]
        BY <1>5, <1>t, ServerWritten
  <2>2. item.ctx = c /\ UNCHANGED owner
        BY <1>5, <2>1 DEF ServerWrite, ServerItem
  <2>3. CASE bound[c] \in Sessions /\ UNCHANGED socketBuffer /\ Sent(toClient, toClient', bound[c], <<item>>)
    <3>1. Range(<<item>>) = {item}
          BY OneMessage
    <3>2. \A s \in Sessions : Carried(toClient'[s]) \subseteq Carried(toClient[s])
                                  \/ (s = bound[c] /\ Carried(toClient'[s]) \subseteq Carried(toClient[s]) \cup {item})
          BY <2>3, <3>1 DEF Sent
    <3>3. owner[bound[c]] = c
          BY <1>t, <2>1, <2>3, BoundSession DEF Sessions, NoSession
    <3> QED BY <2>2, <2>3, <3>2, <3>3 DEF ToClientInv
  <2>4. CASE UNCHANGED toClient /\ socketBuffer' = [socketBuffer EXCEPT ![c] = Append(socketBuffer[c], item)]
    <3>1. socketBuffer[c] \in Seq(Item)
          BY <1>t
    <3>2. Range(Append(socketBuffer[c], item)) = Range(socketBuffer[c]) \cup {item}
          BY <3>1, MessageAppended
    <3>3. \A d \in Contexts : Range(socketBuffer'[d]) = Range(socketBuffer[d])
                                  \/ (d = c /\ Range(socketBuffer'[d]) = Range(socketBuffer[d]) \cup {item})
          BY <1>t, <2>4, <3>2
    <3> QED BY <2>2, <2>4, <3>3 DEF ToClientInv
  <2> QED BY <2>1, <2>3, <2>4
<1>6. CASE HandleClientData
  <2>1. /\ sid \in Sessions /\ toClient[sid] # <<>>
        /\ toClient' = [toClient EXCEPT ![sid] = Tail(toClient[sid])]
        /\ UNCHANGED <<owner, socketBuffer>>
        BY <1>6, <1>t DEF HandleClientData, UpInv
  <2>2. Fewer(toClient, toClient')
        BY <1>t, <2>1, FewerWhen
  <2> QED BY <2>1, <2>2 DEF Fewer, ToClientInv
<1>7. CASE FewerForClient /\ UNCHANGED owner
      BY <1>2, <1>7
<1>8. FewerForClient \/ ServerWrite \/ HandleClientData \/ \E s \in Sessions : Reattached(s)
      BY <1>t, ForClientSteps
<1>9. UNCHANGED owner \/ \E s \in Sessions : HandleInitialConnect(s) \/ HandleReconnect(s)
      BY DEF Next, FrontEnd, BackEnd, Environment, vars, Reload, Connect, ClientDisconnect, HandleInitialReply,
             HandleReconnected, HandleReconnectRefused, HandleClientData, Accept, MissPacket, IgnoreRequest,
             HandleServerData, HandleSocketDisconnect, CloseTimeoutExpires, ClientWrite, AboutToClose,
             ServerWrite, Break
<1> QED BY <1>3, <1>4, <1>5, <1>6, <1>7, <1>8, <1>9

-------------------------------------------------------------------------------
(***************************************************************************)
(* What the consumers read.                                                *)
(***************************************************************************)
LEMMA ServerReads ==
    ASSUME TypeOK, NEW s \in Sessions, s \in listening => owner[s] # NoContext, HandleServerData(s)
    PROVE  LET blob == Head(toServer[s]).blob IN
           /\ toServer[s] # <<>> /\ Head(toServer[s]).type = "data" /\ Range(blob) \subseteq Item
           /\ toServer' = [toServer EXCEPT ![s] = Tail(toServer[s])]
           /\ \/ UNCHANGED gotServer
              \/ /\ owner[s] \in Contexts
                 /\ \E x \in Range(blob) \ Marks :
                       gotServer' = [gotServer EXCEPT ![owner[s]] = Append(gotServer[owner[s]], x)]
<1> DEFINE packet == Head(toServer[s])
           blob == packet.blob
<1>1. /\ toServer[s] # <<>> /\ packet.type = "data"
      /\ toServer' = [toServer EXCEPT ![s] = Tail(toServer[s])]
      BY DEF HandleServerData, ServerReceives
<1>2. toServer[s] \in Seq(ClientPacket) /\ owner[s] \in Contexts \cup {NoContext}
      BY DEF TypeOK
<1>3. packet \in ClientPacket
      BY <1>1, <1>2, TailFacts
<1>4. blob \in Blob
      BY <1>1, <1>3, BlobOfPacket
<1>5. Range(blob) \subseteq Item
  <2> HIDE DEF blob
  <2>1. blob \in Seq(Item)
        BY <1>4 DEF Blob
  <2> QED BY <2>1, CarriedTypes
<1>6. Parsed(blob) \in Range(blob)
      BY <1>4, MessageParsed
<1>7. \/ UNCHANGED gotServer
      \/ /\ s \in listening /\ Parsed(blob).n # MarkForClose
         /\ gotServer' = [gotServer EXCEPT ![owner[s]] = Append(gotServer[owner[s]], Parsed(blob))]
      BY DEF HandleServerData
<1>8. Parsed(blob).n # MarkForClose => Parsed(blob) \notin Marks
      BY DEF Marks
<1> QED BY <1>1, <1>2, <1>5, <1>6, <1>7, <1>8

LEMMA ClientReads ==
    ASSUME TypeOK, UpInv, HandleClientData
    PROVE  LET blob == Head(toClient[sid]).blob IN
           /\ sid \in Sessions /\ up
           /\ toClient[sid] # <<>> /\ Head(toClient[sid]).type = "data" /\ Range(blob) \subseteq Item
           /\ toClient' = [toClient EXCEPT ![sid] = Tail(toClient[sid])]
           /\ \/ UNCHANGED gotClient
              \/ /\ epoch \in Contexts /\ ~closed
                 /\ \E x \in Range(blob) :
                       gotClient' = [gotClient EXCEPT ![epoch] = Append(gotClient[epoch], x)]
<1> DEFINE packet == Head(toClient[sid])
           blob == packet.blob
<1>1. /\ sid \in Sessions /\ up
      /\ toClient[sid] # <<>> /\ packet.type = "data"
      /\ toClient' = [toClient EXCEPT ![sid] = Tail(toClient[sid])]
      BY DEF HandleClientData, UpInv
<1>2. toClient[sid] \in Seq(ServerPacket) /\ (epoch # NoContext => epoch \in Contexts)
      BY <1>1 DEF TypeOK
<1>3. packet \in ServerPacket
      BY <1>1, <1>2, TailFacts
<1>4. blob \in Blob
      BY <1>1, <1>3, BlobOfPacket
<1>5. Range(blob) \subseteq Item
  <2> HIDE DEF blob
  <2>1. blob \in Seq(Item)
        BY <1>4 DEF Blob
  <2> QED BY <2>1, CarriedTypes
<1>6. Parsed(blob) \in Range(blob)
      BY <1>4, MessageParsed
<1>7. \/ UNCHANGED gotClient
      \/ /\ epoch # NoContext /\ ~closed
         /\ gotClient' = [gotClient EXCEPT ![epoch] = Append(gotClient[epoch], Parsed(blob))]
      BY DEF HandleClientData
<1> QED BY <1>1, <1>2, <1>5, <1>6, <1>7

\* Consumers read messages of their own context.
LEMMA ReadNext ==
    KnownInv /\ MarkInv /\ OwnersAgree /\ ToServerInv /\ ToClientInv /\ ReadInv /\ [Next]_vars => ReadInv'
<1> SUFFICES ASSUME KnownInv, MarkInv, OwnersAgree, ToServerInv, ToClientInv, ReadInv, [Next]_vars
             PROVE  ReadInv'
    OBVIOUS
<1> USE DEF frontend, backend, history, network
<1>t. /\ TypeOK /\ UpInv
      /\ toClient \in [Sessions -> Seq(ServerPacket)] /\ toServer \in [Sessions -> Seq(ClientPacket)]
      /\ gotServer \in [Contexts -> Seq(Item)] /\ gotClient \in [Contexts -> Seq(Item)]
      BY DEF KnownInv, TypeOK
<1>n. NoContext \notin Contexts
      BY DEF Contexts, Sessions, NoContext
<1>1. CASE UNCHANGED <<gotServer, gotClient>>
      BY <1>1 DEF ReadInv
<1>2. ASSUME NEW s \in Sessions, HandleServerData(s), gotServer' # gotServer
      PROVE  ReadInv'
  <2> DEFINE blob == Head(toServer[s]).blob
  <2>1. s \in listening => owner[s] # NoContext
        BY DEF MarkInv
  <2>2. /\ toServer[s] # <<>> /\ Head(toServer[s]).type = "data" /\ Range(blob) \subseteq Item
        /\ owner[s] \in Contexts
        /\ \E x \in Range(blob) \ Marks :
              gotServer' = [gotServer EXCEPT ![owner[s]] = Append(gotServer[owner[s]], x)]
        BY <1>2, <1>t, <2>1, ServerReads
  <2>3. PICK x \in Range(blob) \ Marks :
              gotServer' = [gotServer EXCEPT ![owner[s]] = Append(gotServer[owner[s]], x)]
        BY <2>2
  <2>4. x \in Carried(toServer[s]) /\ x \in Item
        BY <1>t, <2>2, <2>3, PacketTaken
  <2>5. x.late \/ x.ctx = owner[s]
        BY <1>n, <2>2, <2>4 DEF ToServerInv
  <2>6. gotServer[owner[s]] \in Seq(Item)
        BY <1>t, <2>2
  <2>7. Range(Append(gotServer[owner[s]], x)) = Range(gotServer[owner[s]]) \cup {x}
        BY <2>4, <2>6, MessageAppended
  <2>8. \A c \in Contexts : \A y \in Range(gotServer'[c]) : y.late \/ y.ctx = c
        BY <1>t, <2>2, <2>3, <2>5, <2>7 DEF ReadInv
  <2>9. UNCHANGED gotClient
        BY <1>2 DEF HandleServerData
  <2> QED BY <2>8, <2>9 DEF ReadInv
<1>3. CASE HandleClientData /\ gotClient' # gotClient
  <2> DEFINE blob == Head(toClient[sid]).blob
  <2>2. /\ sid \in Sessions /\ up
        /\ toClient[sid] # <<>> /\ Head(toClient[sid]).type = "data" /\ Range(blob) \subseteq Item
        /\ epoch \in Contexts /\ ~closed
        /\ \E x \in Range(blob) : gotClient' = [gotClient EXCEPT ![epoch] = Append(gotClient[epoch], x)]
        BY <1>3, <1>t, ClientReads
  <2>3. PICK x \in Range(blob) : gotClient' = [gotClient EXCEPT ![epoch] = Append(gotClient[epoch], x)]
        BY <2>2
  <2>4. x \in Carried(toClient[sid]) /\ x \in Item
        BY <1>t, <2>2, <2>3, PacketTaken
  <2>5. x.ctx = owner[sid] /\ x.ctx # NoContext
        BY <1>n, <2>2, <2>4 DEF ToClientInv, Item
  <2>6. x.ctx = epoch
        BY <1>n, <2>2, <2>5 DEF OwnersAgree
  <2>7. Range(Append(gotClient[epoch], x)) = Range(gotClient[epoch]) \cup {x}
    <3>1. gotClient[epoch] \in Seq(Item)
          BY <1>t, <2>2
    <3> QED BY <2>4, <3>1, MessageAppended
  <2>8. \A c \in Contexts : \A y \in Range(gotClient'[c]) : y.ctx = c
        BY <1>t, <2>2, <2>3, <2>6, <2>7 DEF ReadInv
  <2>9. UNCHANGED gotServer
        BY <1>3 DEF HandleClientData
  <2> QED BY <2>8, <2>9 DEF ReadInv
<1>4. FewerForServer \/ Flushed \/ ClientWrite \/ AboutToClose \/ \E s \in Sessions : HandleServerData(s)
      BY <1>t, ForServerSteps
<1>5. FewerForClient \/ ServerWrite \/ HandleClientData \/ \E s \in Sessions : Reattached(s)
      BY <1>t, ForClientSteps
<1>6. UNCHANGED gotServer \/ \E s \in Sessions : HandleServerData(s) /\ gotServer' # gotServer
      BY <1>4 DEF FewerForServer, Flushed, HandleReconnected, ClientWrite, AboutToClose
<1>7. UNCHANGED gotClient \/ (HandleClientData /\ gotClient' # gotClient)
      BY <1>5, <1>t, ContextReattached DEF FewerForClient, ServerWrite
<1> QED BY <1>1, <1>2, <1>3, <1>6, <1>7

-------------------------------------------------------------------------------
(***************************************************************************)
(* Every message is in one place: held in a buffer, travelling on a socket *)
(* or read by a consumer.  No number is above the count of messages        *)
(* written, so that the next one is new everywhere.  Nothing here depends  *)
(* on which side notices the end of a session first.                       *)
(***************************************************************************)
Travelling(streams) == UNION {Carried(streams[s]) : s \in Sessions}
Gathered(places) == UNION {Range(places[c]) : c \in Contexts}

\* Every message is in one place of its kind.
Isolated(streams) ==
    /\ \A s \in Sessions : Single(streams[s])
    /\ \A s, t \in Sessions : s # t => Carried(streams[s]) \cap Carried(streams[t]) \subseteq Marks

Separate(places) ==
    /\ \A c \in Contexts : Distinct(places[c])
    /\ \A c, d \in Contexts : c # d => Range(places[c]) \cap Range(places[d]) \subseteq Marks

Apart(held_, travelling, read) ==
    /\ held_ \cap travelling \subseteq Marks
    /\ held_ \cap read \subseteq Marks
    /\ travelling \cap read \subseteq Marks

Once(held_, streams, got, count) ==
    /\ Isolated(streams) /\ Separate(got)
    /\ Apart(held_, Travelling(streams), Gathered(got))
    /\ \A x \in held_ \cup Travelling(streams) \cup Gathered(got) : x.n <= count

Numbered(held_, streams, got) == \A x \in held_ \cup Travelling(streams) \cup Gathered(got) : x.n \in Nat

LEMMA MessageGathered ==
    ASSUME NEW places \in [Contexts -> Seq(Item)], NEW c \in Contexts, NEW x \in Item
    PROVE  LET after == [places EXCEPT ![c] = Append(places[c], x)] IN
           /\ Gathered(after) = Gathered(places) \cup {x}
           /\ Separate(places) /\ (x \in Gathered(places) => x \in Marks) => Separate(after)
<1> DEFINE after == [places EXCEPT ![c] = Append(places[c], x)]
<1>1. /\ Range(Append(places[c], x)) = Range(places[c]) \cup {x}
      /\ Distinct(places[c]) /\ (x \in Range(places[c]) => x \in Marks) => Distinct(Append(places[c], x))
      BY MessageAppended
<1>2. after[c] = Append(places[c], x) /\ \A d \in Contexts : d # c => after[d] = places[d]
      OBVIOUS
<1> HIDE DEF after
<1>3. Gathered(after) = Gathered(places) \cup {x}
      BY <1>1, <1>2 DEF Gathered
<1>4. ASSUME Separate(places), x \in Gathered(places) => x \in Marks
      PROVE  Separate(after)
  <2>1. \A d \in Contexts : x \in Range(places[d]) => x \in Marks
        BY <1>4 DEF Gathered
  <2>2. \A d \in Contexts : Distinct(after[d])
        BY <1>1, <1>2, <1>4, <2>1 DEF Separate
  <2>3. \A d \in Contexts : Range(after[d]) \subseteq Range(places[d]) \cup {x}
                                /\ (d # c => Range(after[d]) = Range(places[d]))
        BY <1>1, <1>2
  <2> QED BY <1>4, <2>1, <2>2, <2>3 DEF Separate
<1> QED BY <1>3, <1>4 DEF after

\* A packet is sent: its messages were held, or are new.
LEMMA SentIsolated ==
    ASSUME NEW old, NEW new, NEW s \in Sessions, NEW blob, Isolated(old), Sent(old, new, s, blob),
           Distinct(blob), Range(blob) \cap Travelling(old) \subseteq Marks
    PROVE  Isolated(new) /\ Travelling(new) \subseteq Travelling(old) \cup Range(blob)
<1>1. Travelling(new) \subseteq Travelling(old) \cup Range(blob)
      BY DEF Sent, Travelling
<1>2. \A t \in Sessions : Range(blob) \cap Carried(old[t]) \subseteq Marks
      BY DEF Travelling
<1>3. \A t \in Sessions : Single(new[t])
      BY <1>2 DEF Isolated, Sent
<1>4. /\ \A t \in Sessions : t # s => Carried(new[t]) = Carried(old[t])
      /\ Carried(new[s]) \subseteq Carried(old[s]) \cup Range(blob)
      BY DEF Sent
<1>5. \A t, u \in Sessions : t # u => Carried(new[t]) \cap Carried(new[u]) \subseteq Marks
      BY <1>2, <1>4 DEF Isolated
<1> QED BY <1>1, <1>3, <1>5 DEF Isolated

LEMMA FewerIsolated ==
    ASSUME NEW old, NEW new, Isolated(old), Fewer(old, new)
    PROVE  Isolated(new) /\ Travelling(new) \subseteq Travelling(old)
BY DEF Isolated, Fewer, Travelling

\* Messages were taken away.
LEMMA OnceFewer ==
    ASSUME NEW held_, NEW less \in SUBSET held_, NEW old, NEW new, NEW got, NEW k \in Nat, NEW m \in Nat, k <= m,
           Numbered(held_, old, got),
           Once(held_, old, got, k), Fewer(old, new)
    PROVE  Once(less, new, got, m)
<1>1. Isolated(new) /\ Travelling(new) \subseteq Travelling(old)
      BY FewerIsolated DEF Once
<1>2. Apart(less, Travelling(new), Gathered(got))
      BY <1>1 DEF Once, Apart
<1>3. \A x \in less \cup Travelling(new) \cup Gathered(got) : x.n <= k /\ x.n \in Nat
      BY <1>1 DEF Once, Numbered
<1>4. \A x \in less \cup Travelling(new) \cup Gathered(got) : x.n <= m
      BY <1>3
<1> QED BY <1>1, <1>2, <1>4 DEF Once

\* Messages that were held are sent.
LEMMA OnceFlushed ==
    ASSUME NEW held_, NEW less \in SUBSET held_, NEW old, NEW new, NEW got, NEW k,
           NEW s \in Sessions, NEW blob, Range(blob) \subseteq held_, Range(blob) \cap less \subseteq Marks,
           Distinct(blob), Once(held_, old, got, k), Sent(old, new, s, blob)
    PROVE  Once(less, new, got, k)
<1>1. Range(blob) \cap Travelling(old) \subseteq Marks
      BY DEF Once, Apart
<1>2. Isolated(new) /\ Travelling(new) \subseteq Travelling(old) \cup Range(blob)
      BY <1>1, SentIsolated DEF Once
<1>3. Apart(less, Travelling(new), Gathered(got))
      BY <1>2 DEF Once, Apart
<1>4. \A x \in less \cup Travelling(new) \cup Gathered(got) : x.n <= k
      BY <1>2 DEF Once
<1> QED BY <1>2, <1>3, <1>4 DEF Once

\* A message is written and held: it was nowhere before.
LEMMA OnceHeld ==
    ASSUME NEW held_, NEW streams, NEW got, NEW k \in Nat, NEW m \in Nat, k <= m,
           NEW item \in Item, item \in Marks \/ item.n > k, item.n <= m,
           Numbered(held_, streams, got), Once(held_, streams, got, k)
    PROVE  /\ Once(held_ \cup {item}, streams, got, m)
           /\ item \in held_ \cup Travelling(streams) \cup Gathered(got) => item \in Marks
<1> DEFINE everywhere == held_ \cup Travelling(streams) \cup Gathered(got)
<1>1. \A x \in everywhere : x.n <= k /\ x.n \in Nat
      BY DEF Once, Numbered
<1>2. item \in everywhere => item \in Marks
      BY <1>1
<1>3. \A x \in everywhere \cup {item} : x.n <= m
      BY <1>1
<1>4. Apart(held_ \cup {item}, Travelling(streams), Gathered(got))
      BY <1>2 DEF Once, Apart
<1>5. Once(held_ \cup {item}, streams, got, m)
      BY <1>3, <1>4 DEF Once
<1> QED BY <1>2, <1>5

\* A message is written and sent.
LEMMA OnceSent ==
    ASSUME NEW held_, NEW old, NEW new, NEW got, NEW k \in Nat, NEW m \in Nat, k <= m,
           NEW s \in Sessions, NEW item \in Item, item \in Marks \/ item.n > k, item.n <= m,
           Numbered(held_, old, got), Once(held_, old, got, k), Sent(old, new, s, <<item>>)
    PROVE  Once(held_, new, got, m)
<1>1. /\ Once(held_ \cup {item}, old, got, m)
      /\ item \in held_ \cup Travelling(old) \cup Gathered(got) => item \in Marks
      BY OnceHeld
<1>2. Range(<<item>>) = {item} /\ Distinct(<<item>>)
      BY OneMessage
<1>3. Range(<<item>>) \cap Travelling(old) \subseteq Marks
      BY <1>1, <1>2
<1>4. Isolated(new) /\ Travelling(new) \subseteq Travelling(old) \cup {item}
  <2>1. Isolated(new) /\ Travelling(new) \subseteq Travelling(old) \cup Range(<<item>>)
        BY <1>2, <1>3, SentIsolated DEF Once
  <2> QED BY <1>2, <2>1
<1>5. Apart(held_, Travelling(new), Gathered(got))
      BY <1>1, <1>4 DEF Once, Apart
<1>6. \A x \in held_ \cup Travelling(new) \cup Gathered(got) : x.n <= m
      BY <1>1, <1>4 DEF Once
<1> QED BY <1>1, <1>4, <1>5, <1>6 DEF Once

\* A message is read from a stream.
LEMMA OnceRead ==
    ASSUME NEW held_, NEW S, NEW old \in [Sessions -> Seq(S)], NEW got \in [Contexts -> Seq(Item)],
           NEW k, NEW s \in Sessions, NEW c \in Contexts, NEW x \in Item,
           old[s] # <<>>, Head(old[s]).type = "data", x \in Range(Head(old[s]).blob), x \notin Marks,
           Once(held_, old, got, k)
    PROVE  Once(held_, [old EXCEPT ![s] = Tail(old[s])], [got EXCEPT ![c] = Append(got[c], x)], k)
<1> DEFINE new == [old EXCEPT ![s] = Tail(old[s])]
           after == [got EXCEPT ![c] = Append(got[c], x)]
<1>0. new[s] = Tail(old[s]) /\ \A t \in Sessions : t # s => new[t] = old[t]
      OBVIOUS
<1>1. old[s] \in Seq(S) /\ Single(old[s]) /\ Fewer(old, new)
      BY FewerWhen DEF Once, Isolated
<1>2. /\ Range(Head(old[s]).blob) \subseteq Carried(old[s])
      /\ Range(Head(old[s]).blob) \cap Carried(Tail(old[s])) \subseteq Marks
      BY <1>1, PacketTaken
<1>3. x \in Travelling(old) /\ x \notin held_ /\ x \notin Gathered(got)
  <2>1. x \in Travelling(old)
        BY <1>2 DEF Travelling
  <2> QED BY <2>1 DEF Once, Apart
<1>4. Isolated(new) /\ Travelling(new) \subseteq Travelling(old) /\ x \notin Travelling(new)
  <2>1. \A t \in Sessions : t # s => x \notin Carried(old[t])
        BY <1>2 DEF Once, Isolated
  <2>2. \A t \in Sessions : x \notin Carried(new[t])
        BY <1>0, <1>2, <2>1
  <2>3. Isolated(new) /\ Travelling(new) \subseteq Travelling(old)
        BY <1>1, FewerIsolated DEF Once
  <2> QED BY <2>2, <2>3 DEF Travelling
<1>5. Gathered(after) = Gathered(got) \cup {x} /\ Separate(after)
      BY <1>3, MessageGathered DEF Once
<1> HIDE DEF new, after
<1>6. Apart(held_, Travelling(new), Gathered(after))
      BY <1>3, <1>4, <1>5 DEF Once, Apart
<1>7. \A y \in held_ \cup Travelling(new) \cup Gathered(after) : y.n <= k
      BY <1>3, <1>4, <1>5 DEF Once
<1>8. Once(held_, new, after, k)
      BY <1>4, <1>5, <1>6, <1>7 DEF Once
<1> QED BY <1>8 DEF new, after

-------------------------------------------------------------------------------
(***************************************************************************)
(* Where the messages are: all of them are Items, and no consumer reads a  *)
(* markForClose call as a message.                                         *)
(***************************************************************************)
ForServer == Range(writeBuffer) \cup Travelling(toServer) \cup Gathered(gotServer)
ForClient == Gathered(socketBuffer) \cup Travelling(toClient) \cup Gathered(gotClient)

LEMMA MessagesAreItems ==
    ASSUME TypeOK
    PROVE  /\ ForServer \subseteq Item /\ ForClient \subseteq Item
           /\ Numbered(Range(writeBuffer), toServer, gotServer)
           /\ Numbered(Gathered(socketBuffer), toClient, gotClient)
<1>1. /\ toServer \in [Sessions -> Seq(ClientPacket)] /\ toClient \in [Sessions -> Seq(ServerPacket)]
      /\ writeBuffer \in Seq(Item) /\ socketBuffer \in [Contexts -> Seq(Item)]
      /\ gotServer \in [Contexts -> Seq(Item)] /\ gotClient \in [Contexts -> Seq(Item)]
      BY DEF TypeOK
<1>2. Travelling(toServer) \subseteq Item /\ Travelling(toClient) \subseteq Item
      BY <1>1, CarriedTypes DEF Travelling
<1>3. Range(writeBuffer) \subseteq Item
      BY <1>1, CarriedTypes
<1>4. /\ Gathered(socketBuffer) \subseteq Item
      /\ Gathered(gotServer) \subseteq Item /\ Gathered(gotClient) \subseteq Item
      BY <1>1, CarriedTypes DEF Gathered
<1>5. ForServer \subseteq Item /\ ForClient \subseteq Item
      BY <1>2, <1>3, <1>4 DEF ForServer, ForClient
<1>6. \A x \in Item : x.n \in Nat
      BY DEF Item
<1> QED BY <1>5, <1>6 DEF Numbered, ForServer, ForClient

ListeningInv == \A s \in listening : owner[s] # NoContext

UnmarkedInv ==
    /\ Gathered(gotServer) \cap Marks = {}
    /\ ForClient \cap Marks = {}

\* Where a message for the client goes when it is written, sent or read.
LEMMA ForClientMoves ==
    ASSUME TypeOK
    PROVE  /\ FewerForClient => ForClient' \subseteq ForClient
           /\ \A s \in Sessions : \A blob :
                 Sent(toClient, toClient', s, blob) => Travelling(toClient') \subseteq Travelling(toClient) \cup Range(blob)
           /\ \A c \in Contexts : \A item \in Item :
                 socketBuffer' = [socketBuffer EXCEPT ![c] = Append(socketBuffer[c], item)] =>
                     Gathered(socketBuffer') = Gathered(socketBuffer) \cup {item}
           /\ \A c \in Contexts :
                 socketBuffer' = [socketBuffer EXCEPT ![c] = <<>>] =>
                     Gathered(socketBuffer') \subseteq Gathered(socketBuffer)
           /\ \A c \in Contexts : \A x \in Item :
                 gotClient' = [gotClient EXCEPT ![c] = Append(gotClient[c], x)] =>
                     Gathered(gotClient') = Gathered(gotClient) \cup {x}
<1>t. socketBuffer \in [Contexts -> Seq(Item)] /\ gotClient \in [Contexts -> Seq(Item)]
      BY DEF TypeOK
<1>1. FewerForClient => ForClient' \subseteq ForClient
      BY DEF FewerForClient, Fewer, ForClient, Travelling, Gathered
<1>2. \A s \in Sessions : \A blob :
         Sent(toClient, toClient', s, blob) => Travelling(toClient') \subseteq Travelling(toClient) \cup Range(blob)
      BY DEF Sent, Travelling
<1>3. ASSUME NEW c \in Contexts, socketBuffer' = [socketBuffer EXCEPT ![c] = <<>>]
      PROVE  Gathered(socketBuffer') \subseteq Gathered(socketBuffer)
  <2>1. \A d \in Contexts : Range(socketBuffer'[d]) \subseteq Range(socketBuffer[d])
        BY <1>t, <1>3, NoMessages
  <2> QED BY <2>1 DEF Gathered
<1>4. ASSUME NEW c \in Contexts, NEW item \in Item,
             socketBuffer' = [socketBuffer EXCEPT ![c] = Append(socketBuffer[c], item)]
      PROVE  Gathered(socketBuffer') = Gathered(socketBuffer) \cup {item}
      BY <1>t, <1>4, MessageGathered
<1>5. ASSUME NEW c \in Contexts, NEW x \in Item,
             gotClient' = [gotClient EXCEPT ![c] = Append(gotClient[c], x)]
      PROVE  Gathered(gotClient') = Gathered(gotClient) \cup {x}
      BY <1>t, <1>5, MessageGathered
<1> QED BY <1>1, <1>2, <1>3, <1>4, <1>5

LEMMA ListeningNext == TypeOK /\ ListeningInv /\ [Next]_vars => ListeningInv'
<1> SUFFICES ASSUME TypeOK, ListeningInv, [Next]_vars PROVE ListeningInv'
    OBVIOUS
<1>t. owner \in [Sessions -> Contexts \cup {NoContext}] /\ listening \subseteq Sessions
      BY DEF TypeOK
<1>1. ASSUME NEW s \in Sessions, NEW c \in Contexts, owner' = [owner EXCEPT ![s] = c],
             listening' = listening \cup {s}
      PROVE  ListeningInv'
  <2>1. c # NoContext
        BY DEF Contexts, Sessions, NoContext
  <2> QED BY <1>t, <1>1, <2>1 DEF ListeningInv
<1>2. ASSUME NEW s \in Sessions, HandleInitialConnect(s)
      PROVE  ListeningInv'
      BY <1>1, <1>2 DEF HandleInitialConnect, Contexts
<1>3. ASSUME NEW s \in Sessions, HandleReconnect(s)
      PROVE  ListeningInv'
  <2>1. CASE conn # NoContext
    <3>1. conn \in Contexts
          BY <2>1 DEF TypeOK
    <3> QED BY <1>1, <1>3, <2>1, <3>1 DEF HandleReconnect
  <2>2. CASE conn = NoContext
        BY <1>3, <2>2 DEF HandleReconnect, ListeningInv
  <2> QED BY <2>1, <2>2
<1>4. CASE UNCHANGED owner /\ listening' \subseteq listening
      BY <1>4 DEF ListeningInv
<1>5. \/ \E s \in Sessions : HandleInitialConnect(s) \/ HandleReconnect(s)
      \/ UNCHANGED owner /\ listening' \subseteq listening
      BY DEF Next, FrontEnd, BackEnd, Environment, vars, backend, Reload, Connect, ClientDisconnect,
             HandleInitialReply, HandleReconnected, HandleReconnectRefused, HandleClientData, Accept, MissPacket,
             IgnoreRequest, HandleServerData, HandleSocketDisconnect, Disconnect, CloseTimeoutExpires,
             ClientWrite, AboutToClose, ServerWrite, Break
<1> QED BY <1>2, <1>3, <1>4, <1>5

LEMMA UnmarkedNext == TypeOK /\ UpInv /\ ListeningInv /\ UnmarkedInv /\ [Next]_vars => UnmarkedInv'
<1> SUFFICES ASSUME TypeOK, UpInv, ListeningInv, UnmarkedInv, [Next]_vars PROVE UnmarkedInv'
    OBVIOUS
<1>t. gotServer \in [Contexts -> Seq(Item)] /\ toClient \in [Sessions -> Seq(ServerPacket)]
      BY DEF TypeOK
<1>1. Gathered(gotServer') \cap Marks = {}
  <2>1. CASE UNCHANGED gotServer
        BY <2>1 DEF UnmarkedInv
  <2>2. ASSUME NEW s \in Sessions, HandleServerData(s), gotServer' # gotServer
        PROVE  Gathered(gotServer') \cap Marks = {}
    <3> DEFINE blob == Head(toServer[s]).blob
    <3>1. /\ Range(blob) \subseteq Item /\ owner[s] \in Contexts
          /\ \E x \in Range(blob) \ Marks :
                gotServer' = [gotServer EXCEPT ![owner[s]] = Append(gotServer[owner[s]], x)]
          BY <2>2, ServerReads DEF ListeningInv
    <3>2. PICK x \in Range(blob) \ Marks :
                gotServer' = [gotServer EXCEPT ![owner[s]] = Append(gotServer[owner[s]], x)]
          BY <3>1
    <3>3. Range(Append(gotServer[owner[s]], x)) = Range(gotServer[owner[s]]) \cup {x}
          BY <1>t, <3>1, <3>2, MessageAppended
    <3>4. \A c \in Contexts : Range(gotServer'[c]) \subseteq Range(gotServer[c]) \cup {x}
          BY <1>t, <3>1, <3>2, <3>3
    <3>5. x \notin Marks
          BY <3>2
    <3> QED BY <3>4, <3>5 DEF UnmarkedInv, Gathered
  <2>3. UNCHANGED gotServer \/ \E s \in Sessions : HandleServerData(s) /\ gotServer' # gotServer
        BY ForServerSteps DEF FewerForServer, Flushed, HandleReconnected, ClientWrite, AboutToClose, history
  <2> QED BY <2>1, <2>2, <2>3
<1>2. CASE FewerForClient
      BY <1>1, <1>2, ForClientMoves DEF UnmarkedInv
<1>3. CASE ServerWrite
  <2>1. PICK c \in Contexts, item \in Item :
              /\ item = ServerItem(c)
              /\ \/ /\ bound[c] \in Sessions /\ UNCHANGED socketBuffer
                    /\ Sent(toClient, toClient', bound[c], <<item>>)
                 \/ /\ UNCHANGED toClient
                    /\ socketBuffer' = [socketBuffer EXCEPT ![c] = Append(socketBuffer[c], item)]
        BY <1>3, ServerWritten
  <2>2. item.n = written["server"] + 1 /\ written["server"] \in Nat
        BY <2>1, WriteCounts DEF ServerItem
  <2>3. item \notin Marks
        BY <2>2 DEF Marks, MarkForClose
  <2>4. UNCHANGED gotClient
        BY <1>3 DEF ServerWrite
  <2>5. Range(<<item>>) = {item}
        BY OneMessage
  <2>6. Gathered(socketBuffer') \subseteq Gathered(socketBuffer) \cup {item}
        BY <2>1, ForClientMoves
  <2>7. Travelling(toClient') \subseteq Travelling(toClient) \cup {item}
        BY <2>1, <2>5, ForClientMoves
  <2> QED BY <1>1, <2>3, <2>4, <2>6, <2>7 DEF UnmarkedInv, ForClient
<1>4. ASSUME NEW s \in Sessions, Reattached(s)
      PROVE  UnmarkedInv'
  <2>1. /\ conn \in Contexts /\ UNCHANGED gotClient
        /\ socketBuffer' = [socketBuffer EXCEPT ![conn] = <<>>]
        /\ Sent(toClient, toClient', s, socketBuffer[conn])
        BY <1>4, ContextReattached
  <2>2. Gathered(socketBuffer') \subseteq Gathered(socketBuffer)
        BY <2>1, ForClientMoves
  <2>3. Travelling(toClient') \subseteq Travelling(toClient) \cup Range(socketBuffer[conn])
        BY <2>1, ForClientMoves
  <2>4. Range(socketBuffer[conn]) \subseteq Gathered(socketBuffer)
        BY <2>1 DEF Gathered
  <2> QED BY <1>1, <2>1, <2>2, <2>3, <2>4 DEF UnmarkedInv, ForClient
<1>5. CASE HandleClientData
  <2> DEFINE blob == Head(toClient[sid]).blob
  <2>1. /\ sid \in Sessions
        /\ toClient[sid] # <<>> /\ Head(toClient[sid]).type = "data" /\ Range(blob) \subseteq Item
        /\ toClient' = [toClient EXCEPT ![sid] = Tail(toClient[sid])]
        /\ \/ UNCHANGED gotClient
           \/ /\ epoch \in Contexts
              /\ \E x \in Range(blob) :
                    gotClient' = [gotClient EXCEPT ![epoch] = Append(gotClient[epoch], x)]
        BY <1>5, ClientReads
  <2>2. Travelling(toClient') \subseteq Travelling(toClient)
    <3>1. Fewer(toClient, toClient')
          BY <1>t, <2>1, FewerWhen
    <3> QED BY <3>1 DEF Fewer, Travelling
  <2>3. Gathered(gotClient') \subseteq Gathered(gotClient) \cup Travelling(toClient)
    <3>1. CASE UNCHANGED gotClient
          BY <3>1
    <3>2. ASSUME NEW x \in Range(blob), epoch \in Contexts,
                 gotClient' = [gotClient EXCEPT ![epoch] = Append(gotClient[epoch], x)]
          PROVE  Gathered(gotClient') \subseteq Gathered(gotClient) \cup Travelling(toClient)
      <4>1. Gathered(gotClient') = Gathered(gotClient) \cup {x}
            BY <2>1, <3>2, ForClientMoves
      <4>2. x \in Carried(toClient[sid])
            BY <1>t, <2>1, <3>2, PacketTaken
      <4> QED BY <2>1, <4>1, <4>2 DEF Travelling
    <3> QED BY <2>1, <3>1, <3>2
  <2>4. UNCHANGED socketBuffer
        BY <1>5 DEF HandleClientData, backend
  <2> QED BY <1>1, <2>2, <2>3, <2>4 DEF UnmarkedInv, ForClient
<1> QED BY <1>2, <1>3, <1>4, <1>5, ForClientSteps

OnceToServer ==
    /\ Distinct(writeBuffer)
    /\ Once(Range(writeBuffer), toServer, gotServer, written["client"])

OnceToClient ==
    /\ Separate(socketBuffer)
    /\ Once(Gathered(socketBuffer), toClient, gotClient, written["server"])

LEMMA CountsGrow ==
    TypeOK /\ [Next]_vars =>
        \A side \in {"client", "server"} :
            written[side] \in Nat /\ written'[side] \in {written[side], written[side] + 1}
<1> SUFFICES ASSUME TypeOK, [Next]_vars, NEW side \in {"client", "server"}
             PROVE  written[side] \in Nat /\ written'[side] \in {written[side], written[side] + 1}
    OBVIOUS
<1>1. written["client"] \in Nat /\ written["server"] \in Nat
      BY WriteCounts
<1>2. \/ UNCHANGED written
      \/ \E other \in {"client", "server"} : written' = [written EXCEPT ![other] = @ + 1]
      BY DEF Next, FrontEnd, BackEnd, Environment, vars, history, frontend, Reload, Connect, ClientDisconnect,
             HandleInitialReply, HandleReconnected, HandleReconnectRefused, HandleClientData, Accept, MissPacket,
             IgnoreRequest, HandleInitialConnect, HandleReconnect, HandleServerData, HandleSocketDisconnect,
             CloseTimeoutExpires, ClientWrite, AboutToClose, ServerWrite, Break
<1>3. CASE UNCHANGED written
      BY <1>1, <1>3
<1>4. ASSUME NEW other \in {"client", "server"}, written' = [written EXCEPT ![other] = @ + 1]
      PROVE  written'[side] \in {written[side], written[side] + 1}
  <2>1. /\ written'[other] = written[other] + 1
        /\ \A third \in {"client", "server"} : third # other => written'[third] = written[third]
        BY <1>4, WriteCounts
  <2> QED BY <2>1
<1> QED BY <1>1, <1>2, <1>3, <1>4

LEMMA OnceToServerNext ==
    TypeOK /\ UpInv /\ ListeningInv /\ OnceToServer /\ [Next]_vars => OnceToServer'
<1> SUFFICES ASSUME TypeOK, UpInv, ListeningInv, OnceToServer, [Next]_vars PROVE OnceToServer'
    OBVIOUS
<1> DEFINE k == written["client"]
           m == written'["client"]
<1>t. /\ toServer \in [Sessions -> Seq(ClientPacket)] /\ gotServer \in [Contexts -> Seq(Item)]
      /\ Numbered(Range(writeBuffer), toServer, gotServer)
  <2>1. toServer \in [Sessions -> Seq(ClientPacket)] /\ gotServer \in [Contexts -> Seq(Item)]
        BY DEF TypeOK
  <2> QED BY <2>1, MessagesAreItems
<1>k. k \in Nat /\ m \in Nat /\ k <= m
  <2>1. k \in Nat /\ m \in {k, k + 1}
        BY CountsGrow
  <2> QED BY <2>1
<1>o. Distinct(writeBuffer) /\ Once(Range(writeBuffer), toServer, gotServer, k)
      BY DEF OnceToServer
<1> HIDE DEF k, m
<1>1. CASE FewerForServer
  <2>1. /\ Fewer(toServer, toServer') /\ UNCHANGED gotServer
        /\ Range(writeBuffer') \subseteq Range(writeBuffer) /\ Distinct(writeBuffer')
        BY <1>1, <1>o, NoMessages DEF FewerForServer
  <2>2. Range(writeBuffer') \in SUBSET Range(writeBuffer)
        BY <2>1
  <2>3. Once(Range(writeBuffer'), toServer', gotServer, m)
        BY <1>t, <1>k, <1>o, <2>1, <2>2, OnceFewer
  <2> QED BY <2>1, <2>3 DEF OnceToServer, m
<1>2. CASE Flushed
  <2>1. /\ sid \in Sessions /\ writeBuffer \in Blob /\ writeBuffer' = <<>>
        /\ toServer' = SentToServer(sid, <<Data(writeBuffer)>>)
        BY <1>2 DEF Flushed
  <2>2. UNCHANGED <<gotServer, written>>
        BY <1>2 DEF Flushed, HandleReconnected, history
  <2>3. Sent(toServer, toServer', sid, writeBuffer)
        BY <2>1, DataSent
  <2>4. Range(writeBuffer') = {} /\ Distinct(writeBuffer')
        BY <2>1, NoMessages
  <2>5. Once(Range(writeBuffer'), toServer', gotServer, k)
        BY <1>o, <2>1, <2>3, <2>4, OnceFlushed
  <2> QED BY <2>2, <2>4, <2>5 DEF OnceToServer, k
<1>3. ASSUME NEW c, NEW n \in Nat, ClientCommits(c, n), n = MarkForClose \/ n = k + 1, n <= m, UNCHANGED gotServer
      PROVE  OnceToServer'
  <2> DEFINE item == ClientItem(c, n)
  <2>1. /\ item \in Item /\ item.n = n
        /\ \/ /\ sid \in Sessions /\ UNCHANGED writeBuffer /\ Sent(toServer, toServer', sid, <<item>>)
           \/ /\ UNCHANGED toServer
              /\ Range(writeBuffer') = Range(writeBuffer) \cup {item}
              /\ (item \in Range(writeBuffer) => item \in Marks) => Distinct(writeBuffer')
        BY <1>3, <1>o, Committed
  <2>2. item.n = n
        BY <2>1
  <2> HIDE DEF item
  <2>3. (item \in Marks \/ item.n > k) /\ item.n <= m
    <3>1. n = MarkForClose => item \in Marks
          BY <2>1, <2>2 DEF Marks
    <3>2. n = k + 1 => item.n > k
          BY <1>k, <2>2
    <3> QED BY <1>3, <2>2, <3>1, <3>2
  <2>4. CASE sid \in Sessions /\ UNCHANGED writeBuffer /\ Sent(toServer, toServer', sid, <<item>>)
    <3>1. Once(Range(writeBuffer), toServer', gotServer, m)
          BY <1>t, <1>k, <1>o, <2>1, <2>3, <2>4, OnceSent
    <3> QED BY <1>3, <1>o, <2>4, <3>1 DEF OnceToServer, m
  <2>5. CASE /\ UNCHANGED toServer
             /\ Range(writeBuffer') = Range(writeBuffer) \cup {item}
             /\ (item \in Range(writeBuffer) => item \in Marks) => Distinct(writeBuffer')
    <3>1. /\ Once(Range(writeBuffer) \cup {item}, toServer, gotServer, m)
          /\ item \in Range(writeBuffer) => item \in Marks
          BY <1>t, <1>k, <1>o, <2>1, <2>3, OnceHeld
    <3> QED BY <1>3, <2>5, <3>1 DEF OnceToServer, m
  <2> QED BY <2>1, <2>4, <2>5
<1>4. CASE ClientWrite
  <2>1. PICK c \in held : ClientCommits(c, written["client"] + 1)
        BY <1>4 DEF ClientWrite
  <2>2. k + 1 <= m /\ k + 1 \in Nat /\ UNCHANGED gotServer
    <3>1. written' = [written EXCEPT !["client"] = @ + 1] /\ UNCHANGED gotServer
          BY <1>4 DEF ClientWrite
    <3>2. m = k + 1
          BY <3>1, WriteCounts DEF k, m
    <3> QED BY <1>k, <3>1, <3>2
  <2> QED BY <1>3, <2>1, <2>2 DEF k
<1>5. CASE AboutToClose
  <2>1. ClientCommits(epoch, MarkForClose) /\ UNCHANGED gotServer
        BY <1>5 DEF AboutToClose, history
  <2>2. MarkForClose \in Nat /\ MarkForClose <= m
        BY <1>k DEF MarkForClose
  <2> QED BY <1>3, <2>1, <2>2
<1>6. ASSUME NEW s \in Sessions, HandleServerData(s)
      PROVE  OnceToServer'
  <2> DEFINE blob == Head(toServer[s]).blob
  <2>1. UNCHANGED <<writeBuffer, written>>
        BY <1>6 DEF HandleServerData, frontend
  <2>2. /\ toServer[s] # <<>> /\ Head(toServer[s]).type = "data" /\ Range(blob) \subseteq Item
        /\ toServer' = [toServer EXCEPT ![s] = Tail(toServer[s])]
        /\ \/ UNCHANGED gotServer
           \/ /\ owner[s] \in Contexts
              /\ \E x \in Range(blob) \ Marks :
                    gotServer' = [gotServer EXCEPT ![owner[s]] = Append(gotServer[owner[s]], x)]
        BY <1>6, ServerReads DEF ListeningInv
  <2>3. CASE UNCHANGED gotServer
    <3>1. Fewer(toServer, toServer')
          BY <1>t, <2>2, FewerWhen
    <3>2. Range(writeBuffer) \in SUBSET Range(writeBuffer)
          OBVIOUS
    <3>3. Once(Range(writeBuffer), toServer', gotServer, m)
          BY <1>t, <1>k, <1>o, <3>1, <3>2, OnceFewer
    <3> QED BY <1>o, <2>1, <2>3, <3>3 DEF OnceToServer, m
  <2>4. ASSUME NEW x \in Range(blob) \ Marks, owner[s] \in Contexts,
               gotServer' = [gotServer EXCEPT ![owner[s]] = Append(gotServer[owner[s]], x)]
        PROVE  OnceToServer'
    <3>1. /\ toServer[s] # <<>> /\ Head(toServer[s]).type = "data"
          /\ x \in Range(Head(toServer[s]).blob) /\ x \notin Marks /\ x \in Item
          /\ toServer' = [toServer EXCEPT ![s] = Tail(toServer[s])]
          BY <2>2, <2>4
    <3>2. Once(Range(writeBuffer), toServer', gotServer', k)
          BY <1>t, <1>o, <2>4, <3>1, OnceRead
    <3> QED BY <1>o, <2>1, <3>2 DEF OnceToServer, k
  <2> QED BY <2>2, <2>3, <2>4
<1> QED BY <1>1, <1>2, <1>4, <1>5, <1>6, ForServerSteps

LEMMA OnceToClientNext ==
    TypeOK /\ UpInv /\ UnmarkedInv /\ OnceToClient /\ [Next]_vars => OnceToClient'
<1> SUFFICES ASSUME TypeOK, UpInv, UnmarkedInv, OnceToClient, [Next]_vars PROVE OnceToClient'
    OBVIOUS
<1> DEFINE k == written["server"]
           m == written'["server"]
<1>t. /\ toClient \in [Sessions -> Seq(ServerPacket)] /\ gotClient \in [Contexts -> Seq(Item)]
      /\ socketBuffer \in [Contexts -> Seq(Item)]
      /\ Numbered(Gathered(socketBuffer), toClient, gotClient)
  <2>1. /\ toClient \in [Sessions -> Seq(ServerPacket)] /\ gotClient \in [Contexts -> Seq(Item)]
        /\ socketBuffer \in [Contexts -> Seq(Item)]
        BY DEF TypeOK
  <2> QED BY <2>1, MessagesAreItems
<1>k. k \in Nat /\ m \in Nat /\ k <= m
  <2>1. k \in Nat /\ m \in {k, k + 1}
        BY CountsGrow
  <2> QED BY <2>1
<1>o. Separate(socketBuffer) /\ Once(Gathered(socketBuffer), toClient, gotClient, k)
      BY DEF OnceToClient
<1>s. \A S : S \in SUBSET S
      OBVIOUS
<1> HIDE DEF k, m
<1>1. CASE FewerForClient
  <2>1. Fewer(toClient, toClient') /\ UNCHANGED <<socketBuffer, gotClient>>
        BY <1>1 DEF FewerForClient
  <2>2. Once(Gathered(socketBuffer), toClient', gotClient, m)
        BY <1>t, <1>k, <1>o, <1>s, <2>1, OnceFewer
  <2> QED BY <1>o, <2>1, <2>2 DEF OnceToClient, m
<1>2. CASE ServerWrite
  <2>1. PICK c \in Contexts, item \in Item :
              /\ item = ServerItem(c)
              /\ \/ /\ bound[c] \in Sessions /\ UNCHANGED socketBuffer
                    /\ Sent(toClient, toClient', bound[c], <<item>>)
                 \/ /\ UNCHANGED toClient
                    /\ socketBuffer' = [socketBuffer EXCEPT ![c] = Append(socketBuffer[c], item)]
        BY <1>2, ServerWritten
  <2>2. UNCHANGED gotClient
        BY <1>2 DEF ServerWrite
  <2>3. (item \in Marks \/ item.n > k) /\ item.n <= m
    <3>1. item.n = k + 1 /\ m = k + 1
      <4>1. written' = [written EXCEPT !["server"] = @ + 1]
            BY <1>2 DEF ServerWrite
      <4>2. item.n = k + 1
            BY <2>1 DEF k, ServerItem
      <4> QED BY <4>1, <4>2, WriteCounts DEF k, m
    <3> QED BY <1>k, <3>1
  <2>4. CASE bound[c] \in Sessions /\ UNCHANGED socketBuffer /\ Sent(toClient, toClient', bound[c], <<item>>)
    <3>1. Once(Gathered(socketBuffer), toClient', gotClient, m)
          BY <1>t, <1>k, <1>o, <2>1, <2>3, <2>4, OnceSent
    <3> QED BY <1>o, <2>2, <2>4, <3>1 DEF OnceToClient, m
  <2>5. CASE /\ UNCHANGED toClient
             /\ socketBuffer' = [socketBuffer EXCEPT ![c] = Append(socketBuffer[c], item)]
    <3>1. /\ Once(Gathered(socketBuffer) \cup {item}, toClient, gotClient, m)
          /\ item \in Gathered(socketBuffer) => item \in Marks
          BY <1>t, <1>k, <1>o, <2>1, <2>3, OnceHeld
    <3>2. /\ Gathered(socketBuffer') = Gathered(socketBuffer) \cup {item}
          /\ Separate(socketBuffer')
          BY <1>t, <1>o, <2>5, <3>1, MessageGathered
    <3> QED BY <2>2, <2>5, <3>1, <3>2 DEF OnceToClient, m
  <2> QED BY <2>1, <2>4, <2>5
<1>3. ASSUME NEW s \in Sessions, Reattached(s)
      PROVE  OnceToClient'
  <2> DEFINE blob == socketBuffer[conn]
             less == Gathered(socketBuffer')
  <2>1. /\ conn \in Contexts /\ UNCHANGED <<gotClient, written>>
        /\ socketBuffer' = [socketBuffer EXCEPT ![conn] = <<>>]
        /\ Sent(toClient, toClient', s, blob)
        BY <1>3, ContextReattached
  <2>2. less \in SUBSET Gathered(socketBuffer)
        BY <2>1, ForClientMoves
  <2>3. Range(blob) \subseteq Gathered(socketBuffer)
        BY <2>1 DEF Gathered
  <2>4. Range(socketBuffer'[conn]) = {} /\ \A d \in Contexts : d # conn => socketBuffer'[d] = socketBuffer[d]
        BY <1>t, <2>1, NoMessages
  <2>5. Range(blob) \cap less \subseteq Marks
    <3>1. \A d \in Contexts : Range(blob) \cap Range(socketBuffer'[d]) \subseteq Marks
          BY <1>o, <2>1, <2>4 DEF Separate
    <3> QED BY <3>1 DEF Gathered
  <2>6. Distinct(blob) /\ Separate(socketBuffer')
    <3>1. \A d \in Contexts : Distinct(socketBuffer'[d])
          BY <1>t, <1>o, <2>1, NoMessages DEF Separate
    <3> QED BY <1>o, <2>1, <2>4, <3>1 DEF Separate
  <2> HIDE DEF less, blob
  <2>7. Once(less, toClient', gotClient, k)
        BY <1>3, <1>o, <2>1, <2>2, <2>3, <2>5, <2>6, OnceFlushed
  <2> QED BY <2>1, <2>6, <2>7 DEF OnceToClient, less, k
<1>4. CASE HandleClientData
  <2> DEFINE blob == Head(toClient[sid]).blob
  <2>1. UNCHANGED <<socketBuffer, written>>
        BY <1>4 DEF HandleClientData, backend
  <2>2. /\ sid \in Sessions
        /\ toClient[sid] # <<>> /\ Head(toClient[sid]).type = "data" /\ Range(blob) \subseteq Item
        /\ toClient' = [toClient EXCEPT ![sid] = Tail(toClient[sid])]
        /\ \/ UNCHANGED gotClient
           \/ /\ epoch \in Contexts
              /\ \E x \in Range(blob) :
                    gotClient' = [gotClient EXCEPT ![epoch] = Append(gotClient[epoch], x)]
        BY <1>4, ClientReads
  <2>3. CASE UNCHANGED gotClient
    <3>1. Fewer(toClient, toClient')
          BY <1>t, <2>2, FewerWhen
    <3>2. Once(Gathered(socketBuffer), toClient', gotClient, m)
          BY <1>t, <1>k, <1>o, <1>s, <3>1, OnceFewer
    <3> QED BY <1>o, <2>1, <2>3, <3>2 DEF OnceToClient, m
  <2>4. ASSUME NEW x \in Range(blob) \ Marks, epoch \in Contexts,
               gotClient' = [gotClient EXCEPT ![epoch] = Append(gotClient[epoch], x)]
        PROVE  OnceToClient'
    <3>1. /\ sid \in Sessions /\ toClient[sid] # <<>> /\ Head(toClient[sid]).type = "data"
          /\ x \in Range(Head(toClient[sid]).blob) /\ x \notin Marks /\ x \in Item
          /\ toClient' = [toClient EXCEPT ![sid] = Tail(toClient[sid])]
          BY <2>2, <2>4
    <3>2. Once(Gathered(socketBuffer), toClient', gotClient', k)
          BY <1>t, <1>o, <2>4, <3>1, OnceRead
    <3> QED BY <1>o, <2>1, <3>2 DEF OnceToClient, k
  <2>5. Range(blob) \cap Marks = {}
    <3>1. Range(blob) \subseteq Carried(toClient[sid])
          BY <1>t, <2>2, PacketTaken
    <3>2. Carried(toClient[sid]) \subseteq ForClient
          BY <2>2 DEF ForClient, Travelling
    <3> QED BY <3>1, <3>2 DEF UnmarkedInv
  <2>6. \A x \in Range(blob) : x \in Range(blob) \ Marks
        BY <2>5
  <2> QED BY <2>2, <2>3, <2>4, <2>6
<1> QED BY <1>1, <1>2, <1>3, <1>4, ForClientSteps

-------------------------------------------------------------------------------
(***************************************************************************)
(* The invariants together.                                                *)
(***************************************************************************)
PlacesInv == AttachedInv /\ LinesInv /\ OwnersAgree /\ BufferInv /\ ToServerInv /\ ToClientInv /\ ReadInv
OnceInv == ListeningInv /\ UnmarkedInv /\ OnceToServer /\ OnceToClient

LEMMA MessagesInit == Init => PlacesInv /\ OnceInv
<1> SUFFICES ASSUME Init PROVE PlacesInv /\ OnceInv
    OBVIOUS
<1>1. /\ \A s \in Sessions : toServer[s] = <<>> /\ toClient[s] = <<>> /\ socketState[s] = "none"
      /\ \A s \in Sessions : owner[s] = NoContext
      /\ \A c \in Contexts : bound[c] = NoSession
      /\ \A c \in Contexts : socketBuffer[c] = <<>> /\ gotServer[c] = <<>> /\ gotClient[c] = <<>>
      /\ writeBuffer = <<>> /\ ~up /\ sid = 0 /\ epoch = NoContext /\ listening = {}
      /\ written["client"] = 0 /\ written["server"] = 0
      BY DEF Init
<1>2. /\ \A s \in Sessions : Carried(toServer[s]) = {} /\ Carried(toClient[s]) = {}
      /\ \A c \in Contexts : /\ Range(socketBuffer[c]) = {}
                             /\ Range(gotServer[c]) = {} /\ Range(gotClient[c]) = {}
      /\ Range(writeBuffer) = {}
      BY <1>1, NoMessages
<1>3. PlacesInv
  <2>1. AttachedInv
        BY <1>1 DEF AttachedInv
  <2>2. LinesInv
        BY <1>1 DEF LinesInv
  <2> QED BY <1>1, <1>2, <2>1, <2>2 DEF PlacesInv, OwnersAgree, BufferInv, ToServerInv, ToClientInv, ReadInv
<1>4. /\ Travelling(toServer) = {} /\ Travelling(toClient) = {}
      /\ Gathered(socketBuffer) = {} /\ Gathered(gotServer) = {} /\ Gathered(gotClient) = {}
      BY <1>2 DEF Travelling, Gathered
<1>5. /\ Isolated(toServer) /\ Isolated(toClient)
      /\ Separate(socketBuffer) /\ Separate(gotServer) /\ Separate(gotClient)
      /\ Distinct(writeBuffer)
  <2>1. /\ \A s \in Sessions : Single(toServer[s]) /\ Single(toClient[s])
        /\ \A c \in Contexts : Distinct(socketBuffer[c]) /\ Distinct(gotServer[c]) /\ Distinct(gotClient[c])
        /\ Distinct(writeBuffer)
        BY <1>1, NoMessages
  <2> QED BY <1>2, <2>1 DEF Isolated, Separate
<1>6. OnceToServer /\ OnceToClient
      BY <1>1, <1>2, <1>4, <1>5 DEF OnceToServer, OnceToClient, Once, Apart
<1>7. ListeningInv /\ UnmarkedInv
      BY <1>1, <1>4 DEF ListeningInv, UnmarkedInv, ForClient
<1> QED BY <1>3, <1>6, <1>7 DEF OnceInv

LEMMA OnceAlways == Spec => [](TypeOK /\ UpInv /\ OnceInv)
<1>1. Init => OnceInv
      BY MessagesInit
<1>2. TypeOK /\ UpInv /\ OnceInv /\ [Next]_vars => OnceInv'
      BY ListeningNext, UnmarkedNext, OnceToServerNext, OnceToClientNext DEF OnceInv
<1> QED BY <1>1, <1>2, TypesAlways, PTL DEF Spec

LEMMA ContextsAlways ==
    ASSUME LateDisconnect = FALSE
    PROVE  Spec => [](KnownInv /\ PlacesInv)
<1>1. Init => MarkInv /\ PlacesInv
  <2>1. Init => MarkInv
        BY DEF Init, MarkInv
  <2> QED BY <2>1, MessagesInit
<1>2. KnownInv /\ ServedInv /\ MarkInv /\ PlacesInv /\ [Next]_vars => MarkInv' /\ PlacesInv'
  <2> SUFFICES ASSUME KnownInv, ServedInv, MarkInv, PlacesInv, [Next]_vars
               PROVE  MarkInv' /\ PlacesInv'
      OBVIOUS
  <2>1. TypeOK /\ UpInv /\ BackInv
        BY DEF KnownInv
  <2>2. AttachedInv /\ LinesInv /\ OwnersAgree /\ BufferInv /\ ToServerInv /\ ToClientInv /\ ReadInv
        BY DEF PlacesInv
  <2>3. MarkInv'
        BY <2>1, MarkNext
  <2>4. AttachedInv' /\ LinesInv'
        BY <2>2, AttachedNext, LinesNext
  <2>5. OwnersAgree' /\ BufferInv'
        BY <2>2, OwnersNext, BufferNext
  <2>6. ToServerInv' /\ ToClientInv' /\ ReadInv'
        BY <2>2, ToServerNext, ToClientNext, ReadNext
  <2> QED BY <2>3, <2>4, <2>5, <2>6 DEF PlacesInv
<1>3. Spec => [](KnownInv /\ ServedInv)
      BY ServedAlways
<1> QED BY <1>1, <1>2, <1>3, PTL DEF Spec

-------------------------------------------------------------------------------
(***************************************************************************)
(* The theorems.                                                           *)
(***************************************************************************)
ReadOnce ==
    \A got \in {gotServer, gotClient} : \A c, d \in Contexts :
        \A i \in DOMAIN got[c], j \in DOMAIN got[d] : got[c][i] = got[d][j] => c = d /\ i = j

\* No message is read twice, in whatever contexts, however often the socket breaks,
\* the page reloads and the buffers are flushed on a new session (SocketWriteBuffer,
\* websocket-frontend-connection-service.ts, ws-connection-source.ts).  This holds
\* also when a new socket connects before the server saw the old one go.
THEOREM NoMessageIsReadTwice == Spec => []ReadOnce
<1>1. OnceInv => ReadOnce
  <2> SUFFICES ASSUME OnceInv, NEW got \in {gotServer, gotClient}, NEW c \in Contexts, NEW d \in Contexts,
                      NEW i \in DOMAIN got[c], NEW j \in DOMAIN got[d], got[c][i] = got[d][j]
               PROVE  c = d /\ i = j
      BY DEF ReadOnce
  <2>1. Separate(got)
        BY DEF OnceInv, OnceToServer, OnceToClient, Once
  <2>2. got[c][i] \in Range(got[c]) /\ got[d][j] \in Range(got[d])
        BY DEF Range
  <2>3. got[c][i] \notin Marks
    <3>1. got[c][i] \in Gathered(got)
          BY <2>2 DEF Gathered
    <3>2. Gathered(got) \cap Marks = {}
          BY DEF OnceInv, UnmarkedInv, ForClient
    <3> QED BY <3>1, <3>2
  <2>4. c = d
        BY <2>1, <2>2, <2>3 DEF Separate
  <2> QED BY <2>1, <2>3, <2>4 DEF Separate, Distinct
<1> QED BY <1>1, OnceAlways, PTL

\* No message is delivered twice, and what reaches the consumers of a context, on
\* either side, was written to that context or, at the back end, came late from a
\* channel of the front end that had ended (the commit of a handler that outlived
\* its channel, ws-connection-source.ts:164), provided the server sees the old
\* socket go before the new one connects: what a context left in a buffer or on a
\* socket when it ended stays out of the next.
THEOREM MessagesAreDeliveredOnce ==
    ASSUME LateDisconnect = FALSE
    PROVE  Spec => []MessagesAreDeliveredOnceInTheirContext
<1>1. PlacesInv /\ ReadOnce => MessagesAreDeliveredOnceInTheirContext
  <2> SUFFICES ASSUME PlacesInv, ReadOnce PROVE MessagesAreDeliveredOnceInTheirContext
      OBVIOUS
  <2>1. ASSUME NEW got \in {gotServer, gotClient}, NEW c \in Contexts
        PROVE  \A i \in DOMAIN got[c] : got[c][i] \in Range(got[c])
        BY DEF Range
  <2>2. \A c \in Contexts : \A i \in DOMAIN gotServer[c] : gotServer[c][i].late \/ gotServer[c][i].ctx = c
        BY <2>1 DEF PlacesInv, ReadInv
  <2>3. \A c \in Contexts : \A i \in DOMAIN gotClient[c] : gotClient[c][i].ctx = c
        BY <2>1 DEF PlacesInv, ReadInv
  <2>4. \A got \in {gotServer, gotClient} : \A c \in Contexts : \A i, j \in DOMAIN got[c] :
            got[c][i] = got[c][j] => i = j
        BY DEF ReadOnce
  <2> QED BY <2>2, <2>3, <2>4 DEF MessagesAreDeliveredOnceInTheirContext
<1> QED BY <1>1, ContextsAlways, NoMessageIsReadTwice, PTL

===============================================================================
