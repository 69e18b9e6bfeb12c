----------------------- MODULE FrontendConnection_proofs -----------------------
(***************************************************************************)
(* Theorems about FrontendConnection, for every bound and every set of     *)
(* configurations.  Types and the refinement of MainChannel hold whatever  *)
(* the order in which the two sides notice lost connections; the other     *)
(* theorems are about a server that saw the old socket go before the new   *)
(* one connects (the run late shows what happens otherwise).               *)
(***************************************************************************)
EXTENDS FrontendConnection, TLAPS

(***************************************************************************)
(* Sequences: what each step does to the packets of one session.           *)
(***************************************************************************)
LEMMA TailFacts ==
    ASSUME NEW S, NEW q \in Seq(S), q # <<>>
    PROVE  /\ Head(q) \in S /\ Head(q) = q[1] /\ 1 \in DOMAIN q
           /\ Tail(q) \in Seq(S)
           /\ \A i \in DOMAIN Tail(q) : 1 < i + 1 /\ i + 1 \in DOMAIN q /\ Tail(q)[i] = q[i + 1]
OBVIOUS

LEMMA ConcatType ==
    ASSUME NEW S, NEW p \in Seq(S), NEW q \in Seq(S)
    PROVE  p \o q \in Seq(S)
OBVIOUS

LEMMA DataPacket ==
    ASSUME NEW blob \in Blob
    PROVE  /\ Data(blob) \in ClientPacket /\ Data(blob) \in ServerPacket
           /\ Data(blob).type = "data"
BY DEF Data, ClientPacket, ServerPacket

\* What a channel of each side commits.
ClientItem(c, n) == [ctx |-> c, n |-> n, late |-> c # epoch \/ closed]
ServerItem(c) == [ctx |-> c, n |-> written["server"] + 1, late |-> c \in disposed]

LEMMA ItemBlob ==
    ASSUME NEW c \in Contexts, NEW n \in Nat
    PROVE  /\ ClientItem(c, n) \in Item /\ <<ClientItem(c, n)>> \in Blob
           /\ written["server"] + 1 = n => ServerItem(c) \in Item /\ <<ServerItem(c)>> \in Blob
<1>1. (c # epoch \/ closed) \in BOOLEAN /\ (c \in disposed) \in BOOLEAN
      OBVIOUS
<1>2. ClientItem(c, n) \in Item
      BY <1>1 DEF Item, ClientItem
<1>3. written["server"] + 1 = n => ServerItem(c) \in Item
      BY <1>1 DEF Item, ServerItem
<1>4. \A item \in Item : <<item>> \in Seq(Item) /\ <<item>> # <<>>
      OBVIOUS
<1> QED BY <1>2, <1>3, <1>4 DEF Blob

LEMMA BlobOfPacket ==
    /\ \A p \in ClientPacket : p.type \in {"initial", "reconnect", "data"}
    /\ \A p \in ServerPacket : p.type \in {"initial", "reconnect", "data"}
    /\ \A p \in ClientPacket : p.type = "data" => p.blob \in Blob
    /\ \A p \in ServerPacket : p.type = "data" => p.blob \in Blob
BY DEF ClientPacket, ServerPacket

LEMMA BlobFacts ==
    ASSUME NEW blob \in Blob
    PROVE  Parsed(blob) \in Item /\ Unread(blob) \subseteq Item
<1>1. blob \in Seq(Item) /\ blob # <<>>
      BY DEF Blob
<1>2. Head(blob) \in Item
      BY <1>1
<1>3. \A i \in 2 .. Len(blob) : blob[i] \in Item
      BY <1>1
<1> QED BY <1>2, <1>3 DEF Parsed, Unread

LEMMA RemoveAtType ==
    ASSUME NEW S, NEW s \in Seq(S), NEW k \in DOMAIN s
    PROVE  RemoveAt(s, k) \in Seq(S)
<1>1. k \in 1 .. Len(s) /\ Len(s) \in Nat
      OBVIOUS
<1>2. SubSeq(s, 1, k - 1) \in Seq(S) /\ SubSeq(s, k + 1, Len(s)) \in Seq(S)
      BY <1>1
<1> QED BY <1>2 DEF RemoveAt

LEMMA WithoutType ==
    ASSUME NEW running \in Seq(Sessions), NEW timer
    PROVE  /\ Without(running, timer) \in Seq(Sessions)
           /\ running = <<>> => Without(running, timer) = <<>>
           /\ running = <<timer>> => Without(running, timer) = <<>>
<1>1. ASSUME NEW k \in DOMAIN running PROVE RemoveAt(running, k) \in Seq(Sessions)
      BY RemoveAtType
<1>2. Without(running, timer) \in Seq(Sessions)
      BY <1>1 DEF Without
<1>3. running = <<>> => Without(running, timer) = <<>>
      BY DEF Without
<1>4. ASSUME running = <<timer>> PROVE Without(running, timer) = <<>>
  <2>1. DOMAIN running = {1} /\ running[1] = timer /\ Len(running) = 1
        BY <1>4
  <2>2. Without(running, timer) = RemoveAt(running, 1)
        BY <2>1 DEF Without
  <2>3. SubSeq(running, 1, 0) = <<>> /\ SubSeq(running, 2, 1) = <<>>
        BY <1>4
  <2> QED BY <2>1, <2>2, <2>3 DEF RemoveAt
<1> QED BY <1>2, <1>3, <1>4

LEMMA SentTypes ==
    ASSUME TypeOK, NEW s \in Sessions
    PROVE  /\ \A packets \in Seq(ClientPacket) : SentToServer(s, packets) \in [Sessions -> Seq(ClientPacket)]
           /\ \A packets \in Seq(ServerPacket) : SentToClient(s, packets) \in [Sessions -> Seq(ServerPacket)]
<1>1. toServer \in [Sessions -> Seq(ClientPacket)] /\ toClient \in [Sessions -> Seq(ServerPacket)]
      BY DEF TypeOK
<1>2. \A q \in Seq(ClientPacket) : toServer[s] \o q \in Seq(ClientPacket)
      BY <1>1
<1>3. \A q \in Seq(ServerPacket) : toClient[s] \o q \in Seq(ServerPacket)
      BY <1>1
<1> QED BY <1>1, <1>2, <1>3 DEF SentToServer, SentToClient

-------------------------------------------------------------------------------
(***************************************************************************)
(* Types.                                                                  *)
(***************************************************************************)
NetworkTypes ==
    /\ config \in Configurations
    /\ sid \in 0 .. MaxSessions
    /\ ended \subseteq Sessions
    /\ toServer \in [Sessions -> Seq(ClientPacket)]
    /\ toClient \in [Sessions -> Seq(ServerPacket)]

FrontTypes ==
    /\ alive \in BOOLEAN /\ up \in BOOLEAN /\ closed \in BOOLEAN
    /\ epoch \in Contexts \cup {NoContext}
    /\ held \subseteq Contexts
    /\ writeBuffer \in Seq(Item)
    /\ channels \in Nat
    /\ reconnectListeners \in Nat /\ initialListeners \in Nat /\ outbox \in Nat

BackTypes ==
    /\ socketState \in [Sessions -> {"none", "validating", "open", "closed"}]
    /\ negotiating \subseteq Sessions
    /\ owner \in [Sessions -> Contexts \cup {NoContext}]
    /\ listening \subseteq Sessions
    /\ conn \in Contexts \cup {NoContext}
    /\ bound \in [Contexts -> Sessions \cup {NoSession}]
    /\ disposed \subseteq Contexts
    /\ socketBuffer \in [Contexts -> Seq(Item)]
    /\ timers \in Seq(Sessions)
    /\ closeTimeout \in Sessions \cup {NoSession}
    /\ marked \in BOOLEAN

HistoryTypes ==
    /\ breaks \in 0 .. MaxBreaks
    /\ reloads \in 0 .. MaxReloads
    /\ written \in [{"client", "server"} -> 0 .. MaxWrites[config]]
    /\ gotServer \in [Contexts -> Seq(Item)]
    /\ gotClient \in [Contexts -> Seq(Item)]
    /\ swallowed \subseteq Item
    /\ faulted \in BOOLEAN
    /\ marker \in Contexts \cup {NoContext}

LEMMA TypeParts == TypeOK <=> NetworkTypes /\ FrontTypes /\ BackTypes /\ HistoryTypes
BY DEF TypeOK, NetworkTypes, FrontTypes, BackTypes, HistoryTypes

\* What a step leaves alone keeps its types.
LEMMA UnchangedTypes ==
    /\ FrontTypes /\ UNCHANGED frontend => FrontTypes'
    /\ BackTypes /\ UNCHANGED backend => BackTypes'
    /\ HistoryTypes /\ UNCHANGED <<config, history>> => HistoryTypes'
BY DEF FrontTypes, BackTypes, HistoryTypes, frontend, backend, history

LEMMA TypesInit == Init => TypeOK
<1> SUFFICES ASSUME Init PROVE TypeOK
    OBVIOUS
<1>1. /\ MaxSessions \in Nat /\ MaxBreaks \in Nat /\ MaxReloads \in Nat
      /\ config \in Configurations /\ MaxWrites[config] \in Nat
      BY BoundsAssumption, ConfigurationAssumption DEF Init
<1>2. <<>> \in Seq(Item) /\ <<>> \in Seq(ClientPacket) /\ <<>> \in Seq(ServerPacket) /\ <<>> \in Seq(Sessions)
      OBVIOUS
<1>3. NetworkTypes
      BY <1>1, <1>2 DEF Init, NetworkTypes
<1>4. FrontTypes
  <2>1. alive \in BOOLEAN /\ up \in BOOLEAN /\ closed \in BOOLEAN
        BY DEF Init
  <2>2. /\ epoch \in Contexts \cup {NoContext} /\ held \subseteq Contexts
        /\ writeBuffer \in Seq(Item)
        /\ channels \in Nat /\ reconnectListeners \in Nat /\ initialListeners \in Nat /\ outbox \in Nat
        BY <1>2 DEF Init
  <2> QED BY <2>1, <2>2 DEF FrontTypes
<1>5. BackTypes
  <2>1. marked \in BOOLEAN
        BY DEF Init
  <2>2. /\ socketState \in [Sessions -> {"none", "validating", "open", "closed"}]
        /\ negotiating \subseteq Sessions /\ listening \subseteq Sessions /\ disposed \subseteq Contexts
        BY DEF Init
  <2>3. /\ owner \in [Sessions -> Contexts \cup {NoContext}]
        /\ bound \in [Contexts -> Sessions \cup {NoSession}]
        /\ conn \in Contexts \cup {NoContext} /\ closeTimeout \in Sessions \cup {NoSession}
        BY DEF Init
  <2>4. socketBuffer \in [Contexts -> Seq(Item)] /\ timers \in Seq(Sessions)
        BY <1>2 DEF Init
  <2> QED BY <2>1, <2>2, <2>3, <2>4 DEF BackTypes
<1>6. HistoryTypes
  <2>1. faulted \in BOOLEAN
        BY DEF Init
  <2>2. /\ breaks \in 0 .. MaxBreaks /\ reloads \in 0 .. MaxReloads
        /\ written \in [{"client", "server"} -> 0 .. MaxWrites[config]]
        BY <1>1 DEF Init
  <2>3. /\ gotServer \in [Contexts -> Seq(Item)] /\ gotClient \in [Contexts -> Seq(Item)]
        /\ swallowed \subseteq Item /\ marker \in Contexts \cup {NoContext}
        BY <1>2 DEF Init
  <2> QED BY <2>1, <2>2, <2>3 DEF HistoryTypes
<1> QED BY <1>3, <1>4, <1>5, <1>6, TypeParts

\* The client's socket and the session under it.
UpInv == up => sid \in Sessions

LEMMA UpNext == TypeOK /\ UpInv /\ [Next]_vars => UpInv'
BY DEF TypeOK, UpInv, Next, FrontEnd, BackEnd, Environment, vars, network, frontend, backend, history,
       Connect, ClientDisconnect, HandleInitialReply, HandleReconnected, HandleReconnectRefused,
       PageLoads, HandleClientData, Accept, MissPacket, IgnoreRequest, HandleInitialConnect,
       HandleReconnect, HandleServerData, HandleSocketDisconnect, CloseTimeoutExpires, Reload,
       ClientWrite, AboutToClose, ServerWrite, Break

\* A page that loads.
LEMMA PageTypes ==
    ASSUME NetworkTypes, FrontTypes, PageLoads, up => sid \in Sessions
    PROVE  FrontTypes' /\ ended' \subseteq Sessions /\ toClient' \in [Sessions -> Seq(ServerPacket)]
<1>1. alive' \in BOOLEAN
  <2>1. config \in Configuration
        BY ConfigurationAssumption DEF NetworkTypes
  <2>2. config.sameIdOnReload \in BOOLEAN
        BY <2>1 DEF Configuration
  <2> QED BY <2>2 DEF PageLoads, SameIdOnReload
<1>2. FrontTypes'
  <2>1. up' \in BOOLEAN /\ closed' \in BOOLEAN
        BY DEF PageLoads
  <2>2. <<>> \in Seq(Item)
        OBVIOUS
  <2>3. /\ (epoch \in Contexts \cup {NoContext})' /\ (held \subseteq Contexts)'
        /\ (writeBuffer \in Seq(Item))'
        /\ (channels \in Nat /\ reconnectListeners \in Nat /\ initialListeners \in Nat /\ outbox \in Nat)'
        BY <2>2 DEF PageLoads
  <2> QED BY <1>1, <2>1, <2>3 DEF FrontTypes
<1>3. ended' \subseteq Sessions /\ toClient' \in [Sessions -> Seq(ServerPacket)]
      BY DEF PageLoads, NetworkTypes
<1> QED BY <1>2, <1>3

LEMMA FrontEndTypes ==
    ASSUME NetworkTypes, FrontTypes, BackTypes, HistoryTypes, UpInv, FrontEnd
    PROVE  NetworkTypes' /\ FrontTypes' /\ BackTypes' /\ HistoryTypes'
<1>t. TypeOK
      BY TypeParts
<1>1. CASE Connect
  <2> DEFINE s == sid + 1
             buffered == [i \in 1 .. outbox |-> [type |-> "initial"]]
  <2>1. s \in Sessions /\ s \in 0 .. MaxSessions
        BY <1>1 DEF Connect, Sessions, NetworkTypes
  <2>2. [type |-> "initial"] \in ClientPacket /\ [type |-> Request] \in ClientPacket
        BY DEF ClientPacket, Request
  <2>3. buffered \in Seq(ClientPacket)
        BY <2>2 DEF FrontTypes
  <2>4. Append(buffered, [type |-> Request]) \in Seq(ClientPacket)
        BY <2>2, <2>3
  <2>5. NetworkTypes'
        BY <1>1, <2>1, <2>4 DEF Connect, NetworkTypes
  <2>6. FrontTypes'
        BY <1>1 DEF Connect, FrontTypes
  <2>7. BackTypes'
        BY <1>1 DEF Connect, BackTypes
  <2> QED BY <1>1, <2>5, <2>6, <2>7, UnchangedTypes DEF Connect
<1>2. CASE ClientDisconnect
  <2>1. NetworkTypes'
        BY <1>2 DEF ClientDisconnect, NetworkTypes
  <2>2. FrontTypes'
        BY <1>2 DEF ClientDisconnect, FrontTypes
  <2> QED BY <1>2, <2>1, <2>2, UnchangedTypes DEF ClientDisconnect
<1>3. ASSUME up, toClient[sid] # <<>>, toClient' = [toClient EXCEPT ![sid] = Tail(toClient[sid])]
      PROVE  toClient' \in [Sessions -> Seq(ServerPacket)]
  <2>1. toClient[sid] \in Seq(ServerPacket)
        BY <1>3 DEF UpInv, NetworkTypes
  <2>2. Tail(toClient[sid]) \in Seq(ServerPacket)
        BY <1>3, <2>1
  <2> QED BY <1>3, <2>2 DEF NetworkTypes
<1>4. CASE HandleInitialReply
  <2>1. toClient' \in [Sessions -> Seq(ServerPacket)] /\ sid \in Sessions
        BY <1>3, <1>4 DEF HandleInitialReply, ClientReceives, UpInv
  <2>2. NetworkTypes'
        BY <1>4, <2>1 DEF HandleInitialReply, NetworkTypes
  <2>3. FrontTypes'
    <3>1. alive' \in BOOLEAN /\ up' \in BOOLEAN /\ closed' \in BOOLEAN
          BY <1>4 DEF HandleInitialReply, FrontTypes
    <3>2. epoch' \in Contexts \cup {NoContext} /\ held' \subseteq Contexts
          BY <1>4, <2>1 DEF HandleInitialReply, FrontTypes, Contexts
    <3>3. UNCHANGED <<reconnectListeners, outbox>> /\ initialListeners' \in Nat /\ channels' \in Nat
          BY <1>4 DEF HandleInitialReply, FrontTypes
    <3>4. writeBuffer' \in Seq(Item)
      <4>1. writeBuffer' = <<>> \/ writeBuffer' = writeBuffer
            BY <1>4 DEF HandleInitialReply, Drained
      <4>2. <<>> \in Seq(Item) /\ writeBuffer \in Seq(Item)
            BY DEF FrontTypes
      <4> QED BY <4>1, <4>2
    <3> QED BY <3>1, <3>2, <3>3, <3>4 DEF FrontTypes
  <2> QED BY <1>4, <2>2, <2>3, UnchangedTypes DEF HandleInitialReply
<1>5. CASE HandleReconnected
  <2>1. toClient' \in [Sessions -> Seq(ServerPacket)] /\ sid \in Sessions
        BY <1>3, <1>5 DEF HandleReconnected, ClientReceives, UpInv
  <2>2. toServer' \in [Sessions -> Seq(ClientPacket)] /\ writeBuffer' \in Seq(Item)
    <3>1. CASE reconnectListeners > 0 /\ writeBuffer # <<>>
      <4>1. writeBuffer \in Blob
            BY <3>1 DEF FrontTypes, Blob
      <4>2. <<Data(writeBuffer)>> \in Seq(ClientPacket)
            BY <4>1, DataPacket
      <4>3. SentToServer(sid, <<Data(writeBuffer)>>) \in [Sessions -> Seq(ClientPacket)]
            BY <1>t, <2>1, <4>2, SentTypes
      <4> QED BY <1>5, <3>1, <4>3 DEF HandleReconnected
    <3>2. CASE ~(reconnectListeners > 0 /\ writeBuffer # <<>>)
          BY <1>5, <3>2 DEF HandleReconnected, NetworkTypes, FrontTypes
    <3> QED BY <3>1, <3>2
  <2>3. NetworkTypes'
        BY <1>5, <2>1, <2>2 DEF HandleReconnected, NetworkTypes
  <2>4. FrontTypes'
        BY <1>5, <2>2 DEF HandleReconnected, FrontTypes
  <2> QED BY <1>5, <2>3, <2>4, UnchangedTypes DEF HandleReconnected
<1>6. CASE HandleReconnectRefused
  <2>1. up /\ sid \in Sessions /\ toClient[sid] # <<>>
        BY <1>6 DEF HandleReconnectRefused, ClientReceives, UpInv
  <2>2. ended' \subseteq Sessions /\ toClient' \in [Sessions -> Seq(ServerPacket)] /\ FrontTypes'
    <3>1. CASE PageLoads
          BY <2>1, <3>1, PageTypes
    <3>2. CASE reconnectListeners > 0 /\ ~PageLoads
      <4>0. /\ UNCHANGED <<alive, epoch, channels, held>>
            /\ writeBuffer' = <<>>
            /\ ended' = ended \cup {sid}
            /\ toClient' = [toClient EXCEPT ![sid] = <<>>]
            BY <1>6, <3>2 DEF HandleReconnectRefused, Drained
      <4>1. alive' \in BOOLEAN /\ up' \in BOOLEAN /\ closed' \in BOOLEAN
            BY <1>6, <3>2 DEF HandleReconnectRefused, FrontTypes
      <4>2. UNCHANGED <<epoch, held>> /\ writeBuffer' \in Seq(Item)
            BY <4>0
      <4>3. reconnectListeners' \in Nat /\ initialListeners' \in Nat /\ outbox' \in Nat
            BY <1>6, <3>2 DEF HandleReconnectRefused, NegotiateInitialConnect, FrontTypes
      <4>4. ended' \subseteq Sessions /\ toClient' \in [Sessions -> Seq(ServerPacket)]
            BY <2>1, <4>0 DEF NetworkTypes
      <4> QED BY <4>0, <4>1, <4>2, <4>3, <4>4 DEF FrontTypes
    <3>3. CASE ~(reconnectListeners > 0)
      <4>1. toClient' = [toClient EXCEPT ![sid] = Tail(toClient[sid])] /\ UNCHANGED <<ended, frontend>>
            BY <1>6, <3>3 DEF HandleReconnectRefused
      <4> QED BY <1>3, <2>1, <4>1, UnchangedTypes DEF NetworkTypes
    <3> QED BY <3>1, <3>2, <3>3
  <2>3. NetworkTypes'
        BY <1>6, <2>2 DEF HandleReconnectRefused, NetworkTypes
  <2> QED BY <1>6, <2>2, <2>3, UnchangedTypes DEF HandleReconnectRefused
<1>7. CASE HandleClientData
  <2> DEFINE packet == Head(toClient[sid])
  <2>1. toClient' \in [Sessions -> Seq(ServerPacket)] /\ sid \in Sessions
        BY <1>3, <1>7 DEF HandleClientData, UpInv
  <2>2. packet \in ServerPacket /\ packet.type = "data"
        BY <1>7, <2>1, TailFacts DEF HandleClientData, NetworkTypes
  <2>3. Parsed(packet.blob) \in Item /\ Unread(packet.blob) \subseteq Item
        BY <2>2, BlobOfPacket, BlobFacts
  <2>4. gotClient' \in [Contexts -> Seq(Item)] /\ swallowed' \subseteq Item
    <3>1. CASE epoch # NoContext /\ ~closed
      <4>1. gotClient' = [gotClient EXCEPT ![epoch] = Append(gotClient[epoch], Parsed(packet.blob))]
            BY <1>7, <3>1 DEF HandleClientData
      <4>2. gotClient[epoch] \in Seq(Item)
            BY <3>1 DEF HistoryTypes, FrontTypes
      <4>3. Append(gotClient[epoch], Parsed(packet.blob)) \in Seq(Item)
            BY <2>3, <4>2
      <4>4. swallowed' = swallowed \cup Unread(packet.blob)
            BY <1>7, <3>1 DEF HandleClientData
      <4> QED BY <2>3, <4>1, <4>3, <4>4 DEF HistoryTypes
    <3>2. CASE ~(epoch # NoContext /\ ~closed)
          BY <1>7, <3>2 DEF HandleClientData, HistoryTypes
    <3> QED BY <3>1, <3>2
  <2>5. NetworkTypes'
        BY <1>7, <2>1 DEF HandleClientData, NetworkTypes
  <2>6. HistoryTypes'
        BY <1>7, <2>4 DEF HandleClientData, HistoryTypes
  <2> QED BY <1>7, <2>5, <2>6, UnchangedTypes DEF HandleClientData
<1> QED BY <1>1, <1>2, <1>4, <1>5, <1>6, <1>7 DEF FrontEnd
LEMMA BackEndTypes ==
    ASSUME NetworkTypes, FrontTypes, BackTypes, HistoryTypes,
           NEW s \in Sessions, BackEnd(s) \/ MissPacket(s)
    PROVE  NetworkTypes' /\ FrontTypes' /\ BackTypes' /\ HistoryTypes'
<1>t. TypeOK
      BY TypeParts
<1>1. CASE Accept(s)
  <2>1. BackTypes'
        BY <1>1 DEF Accept, BackTypes
  <2>2. NetworkTypes'
        BY <1>1 DEF Accept, NetworkTypes, network
  <2> QED BY <1>1, <2>1, <2>2, UnchangedTypes DEF Accept
<1>2. ASSUME toServer[s] # <<>>, toServer' = [toServer EXCEPT ![s] = Tail(toServer[s])]
      PROVE  /\ toServer' \in [Sessions -> Seq(ClientPacket)]
             /\ Head(toServer[s]) \in ClientPacket
  <2>1. toServer[s] \in Seq(ClientPacket)
        BY DEF NetworkTypes
  <2>2. Tail(toServer[s]) \in Seq(ClientPacket) /\ Head(toServer[s]) \in ClientPacket
        BY <1>2, <2>1, TailFacts
  <2> QED BY <1>2, <2>2 DEF NetworkTypes
<1>3. CASE MissPacket(s) \/ IgnoreRequest(s)
  <2>1. /\ toServer[s] # <<>> /\ toServer' = [toServer EXCEPT ![s] = Tail(toServer[s])]
        /\ UNCHANGED <<config, sid, ended, toClient, frontend, backend, history>>
        BY <1>3 DEF MissPacket, IgnoreRequest, ServerReceives
  <2>2. NetworkTypes'
        BY <1>2, <2>1 DEF NetworkTypes
  <2> QED BY <2>1, <2>2, UnchangedTypes
<1>4. CASE HandleInitialConnect(s)
  <2>1. <<[type |-> "initial"]>> \in Seq(ServerPacket)
        BY DEF ServerPacket
  <2>2. toServer' \in [Sessions -> Seq(ClientPacket)]
        BY <1>2, <1>4 DEF HandleInitialConnect, ServerReceives
  <2>3. toClient' \in [Sessions -> Seq(ServerPacket)]
        BY <1>t, <1>4, <2>1, SentTypes DEF HandleInitialConnect
  <2>4. NetworkTypes'
        BY <1>4, <2>2, <2>3 DEF HandleInitialConnect, NetworkTypes
  <2>5. Cancelled(closeTimeout) \in Seq(Sessions)
        BY WithoutType DEF Cancelled, BackTypes
  <2>6. disposed' \subseteq Contexts /\ timers' \in Seq(Sessions) /\ closeTimeout' \in Sessions \cup {NoSession}
        BY <1>4, <2>5 DEF HandleInitialConnect, BackTypes
  <2>7. BackTypes'
        BY <1>4, <2>6 DEF HandleInitialConnect, BackTypes, Contexts
  <2> QED BY <1>4, <2>4, <2>7, UnchangedTypes DEF HandleInitialConnect
<1>5. CASE HandleReconnect(s)
  <2>1. toServer' \in [Sessions -> Seq(ClientPacket)]
        BY <1>2, <1>5 DEF HandleReconnect, ServerReceives
  <2>2. \A found \in BOOLEAN : ReconnectReply(found) \in Seq(ServerPacket)
        BY DEF ReconnectReply, ServerPacket
  <2>3. CASE conn = NoContext
    <3>1. /\ toClient' = SentToClient(s, ReconnectReply(FALSE))
          /\ UNCHANGED <<socketState, socketBuffer, bound, owner, listening, timers, closeTimeout,
                         conn, disposed, marked>>
          /\ negotiating' = negotiating \ {s}
          BY <1>5, <2>3 DEF HandleReconnect
    <3>2. toClient' \in [Sessions -> Seq(ServerPacket)]
          BY <1>t, <2>2, <3>1, SentTypes
    <3>3. NetworkTypes'
          BY <1>5, <2>1, <3>2 DEF HandleReconnect, NetworkTypes
    <3>4. BackTypes'
          BY <3>1 DEF BackTypes
    <3> QED BY <1>5, <3>3, <3>4, UnchangedTypes DEF HandleReconnect
  <2>4. CASE conn # NoContext
    <3> DEFINE tail == IF socketBuffer[conn] = <<>> THEN <<>> ELSE <<Data(socketBuffer[conn])>>
    <3>1. conn \in Contexts /\ socketBuffer[conn] \in Seq(Item)
          BY <2>4 DEF BackTypes
    <3>2. tail \in Seq(ServerPacket)
      <4>1. CASE socketBuffer[conn] = <<>>
            BY <4>1
      <4>2. CASE socketBuffer[conn] # <<>>
        <5>1. Data(socketBuffer[conn]) \in ServerPacket
              BY <3>1, <4>2, DataPacket DEF Blob
        <5> QED BY <4>2, <5>1
      <4> QED BY <4>1, <4>2
    <3>3. toClient' = SentToClient(s, ReconnectReply(TRUE) \o tail)
          BY <1>5, <2>4 DEF HandleReconnect
    <3>4. ReconnectReply(TRUE) \o tail \in Seq(ServerPacket)
      <4>1. ReconnectReply(TRUE) \in Seq(ServerPacket)
            BY <2>2
      <4> HIDE DEF tail
      <4> QED BY <3>2, <4>1, ConcatType
    <3>5. toClient' \in [Sessions -> Seq(ServerPacket)]
          BY <1>t, <3>3, <3>4, SentTypes
    <3>6. NetworkTypes'
          BY <1>5, <2>1, <3>5 DEF HandleReconnect, NetworkTypes
    <3>7. timers' \in Seq(Sessions)
          BY <1>5, <2>4, WithoutType DEF HandleReconnect, Cancelled, BackTypes
    <3>8. socketBuffer' \in [Contexts -> Seq(Item)]
      <4>1. socketBuffer' = [socketBuffer EXCEPT ![conn] = <<>>]
            BY <1>5, <2>4 DEF HandleReconnect
      <4>2. <<>> \in Seq(Item)
            OBVIOUS
      <4> QED BY <4>1, <4>2 DEF BackTypes
    <3>9. BackTypes'
          BY <1>5, <2>4, <3>1, <3>7, <3>8 DEF HandleReconnect, BackTypes
    <3> QED BY <1>5, <3>6, <3>9, UnchangedTypes DEF HandleReconnect
  <2> QED BY <2>3, <2>4
<1>6. CASE HandleServerData(s)
  <2> DEFINE packet == Head(toServer[s])
             c == owner[s]
  <2>1. toServer' \in [Sessions -> Seq(ClientPacket)] /\ packet \in ClientPacket /\ packet.type = "data"
        BY <1>2, <1>6 DEF HandleServerData, ServerReceives
  <2>2. Parsed(packet.blob) \in Item /\ Unread(packet.blob) \subseteq Item
        BY <2>1, BlobOfPacket, BlobFacts
  <2>3. NetworkTypes'
        BY <1>6, <2>1 DEF HandleServerData, NetworkTypes
  <2>4. c \in Contexts \cup {NoContext}
        BY DEF BackTypes
  <2>5. (marked \in BOOLEAN)' /\ (marker \in Contexts \cup {NoContext})'
    <3>1. CASE UNCHANGED <<marked, marker>>
          BY <3>1 DEF BackTypes, HistoryTypes
    <3>2. CASE marked' = TRUE /\ marker' = c
          BY <2>4, <3>2
    <3> QED BY <1>6, <3>1, <3>2 DEF HandleServerData
  <2>6. gotServer' \in [Contexts -> Seq(Item)]
    <3>1. CASE UNCHANGED gotServer
          BY <3>1 DEF HistoryTypes
    <3>2. CASE gotServer' = [gotServer EXCEPT ![c] = Append(gotServer[c], Parsed(packet.blob))]
      <4>1. \A d \in Contexts : Append(gotServer[d], Parsed(packet.blob)) \in Seq(Item)
            BY <2>2 DEF HistoryTypes
      <4> QED BY <3>2, <4>1 DEF HistoryTypes
    <3> QED BY <1>6, <3>1, <3>2 DEF HandleServerData
  <2>7. swallowed' \subseteq Item
        BY <1>6, <2>2 DEF HandleServerData, HistoryTypes
  <2>8. BackTypes'
        BY <1>6, <2>5 DEF HandleServerData, BackTypes
  <2>9. HistoryTypes'
        BY <1>6, <2>5, <2>6, <2>7 DEF HandleServerData, HistoryTypes
  <2> QED BY <1>6, <2>3, <2>8, <2>9, UnchangedTypes DEF HandleServerData
<1>7. CASE HandleSocketDisconnect(s)
  <2>1. NetworkTypes'
    <3>1. <<>> \in Seq(ClientPacket)
          OBVIOUS
    <3> QED BY <1>7, <3>1 DEF HandleSocketDisconnect, NetworkTypes
  <2>2. /\ listening' \subseteq listening
        /\ \/ UNCHANGED bound
           \/ \E c \in Contexts : bound' = [bound EXCEPT ![c] = NoSession]
        BY <1>7 DEF HandleSocketDisconnect, Disconnect, BackTypes
  <2>3. /\ timers' \in Seq(Sessions) /\ closeTimeout' \in Sessions \cup {NoSession}
        /\ (conn \in Contexts \cup {NoContext})' /\ (disposed \subseteq Contexts)'
    <3>1. CASE UNCHANGED <<conn, timers, closeTimeout, disposed, faulted>>
          BY <3>1 DEF BackTypes
    <3>2. CASE CloseConnection(timers, closeTimeout)
          BY <3>2, WithoutType DEF CloseConnection, BackTypes
    <3>3. CASE /\ timers' = Append(timers, s) /\ closeTimeout' = s
               /\ UNCHANGED <<conn, disposed, faulted>>
          BY <3>3 DEF BackTypes
    <3> QED BY <1>7, <3>1, <3>2, <3>3 DEF HandleSocketDisconnect
  <2>4. marked' \in BOOLEAN /\ faulted' \in BOOLEAN
        BY <1>7 DEF HandleSocketDisconnect, Disconnect, CloseConnection, BackTypes, HistoryTypes
  <2>5. BackTypes'
        BY <1>7, <2>2, <2>3, <2>4 DEF HandleSocketDisconnect, BackTypes
  <2>6. HistoryTypes'
        BY <1>7, <2>4 DEF HandleSocketDisconnect, HistoryTypes
  <2> QED BY <1>7, <2>1, <2>5, <2>6, UnchangedTypes DEF HandleSocketDisconnect
<1> QED BY <1>1, <1>3, <1>4, <1>5, <1>6, <1>7 DEF BackEnd

LEMMA EnvironmentTypes ==
    ASSUME NetworkTypes, FrontTypes, BackTypes, HistoryTypes, UpInv,
           Environment \/ CloseTimeoutExpires
    PROVE  NetworkTypes' /\ FrontTypes' /\ BackTypes' /\ HistoryTypes'
<1>t. TypeOK
      BY TypeParts
<1>w. /\ config \in Configurations /\ MaxWrites[config] \in Nat
      /\ MaxBreaks \in Nat /\ MaxReloads \in Nat
      BY BoundsAssumption, ConfigurationAssumption DEF NetworkTypes
<1>1. CASE Reload
  <2>1. FrontTypes' /\ ended' \subseteq Sessions /\ toClient' \in [Sessions -> Seq(ServerPacket)]
        BY <1>1, PageTypes DEF Reload, UpInv
  <2>2. NetworkTypes'
        BY <1>1, <2>1 DEF Reload, NetworkTypes
  <2>3. HistoryTypes'
        BY <1>1, <1>w DEF Reload, HistoryTypes
  <2> QED BY <1>1, <2>1, <2>2, <2>3, UnchangedTypes DEF Reload
<1>2. ASSUME NEW c, NEW n \in Nat, ClientCommits(c, n)
      PROVE  toServer' \in [Sessions -> Seq(ClientPacket)] /\ writeBuffer' \in Seq(Item)
  <2> DEFINE item == ClientItem(c, n)
  <2>1. c \in Contexts
        BY <1>2 DEF ClientCommits, FrontTypes
  <2>2. item \in Item /\ <<item>> \in Blob
        BY <2>1, ItemBlob
  <2>3. CASE up /\ toServer' = SentToServer(sid, <<Data(<<item>>)>>) /\ UNCHANGED writeBuffer
    <3>1. <<Data(<<item>>)>> \in Seq(ClientPacket)
      <4>1. Data(<<item>>) \in ClientPacket
            BY <2>2, DataPacket
      <4> QED BY <4>1
    <3> QED BY <1>t, <2>3, <3>1, SentTypes DEF UpInv, FrontTypes
  <2>4. CASE writeBuffer' = Append(writeBuffer, item) /\ UNCHANGED toServer
    <3> HIDE DEF item
    <3> QED BY <2>2, <2>4 DEF FrontTypes, NetworkTypes
  <2> QED BY <1>2, <2>3, <2>4 DEF ClientCommits, ClientItem
<1>3. CASE ClientWrite
  <2>1. PICK c \in held : ClientCommits(c, written["client"] + 1)
        BY <1>3 DEF ClientWrite
  <2>2. written["client"] + 1 \in Nat
        BY <1>w DEF HistoryTypes
  <2>3. toServer' \in [Sessions -> Seq(ClientPacket)] /\ writeBuffer' \in Seq(Item)
        BY <1>2, <2>1, <2>2
  <2>4. NetworkTypes'
        BY <1>3, <2>3 DEF ClientWrite, NetworkTypes
  <2>5. FrontTypes'
        BY <1>3, <2>3 DEF ClientWrite, FrontTypes
  <2>6. HistoryTypes'
    <3>1. written' \in [{"client", "server"} -> 0 .. MaxWrites[config]]
          BY <1>3, <1>w DEF ClientWrite, HistoryTypes
    <3> QED BY <1>3, <3>1 DEF ClientWrite, HistoryTypes
  <2> QED BY <1>3, <2>4, <2>5, <2>6, UnchangedTypes DEF ClientWrite
<1>4. CASE AboutToClose
  <2>1. toServer' \in [Sessions -> Seq(ClientPacket)] /\ writeBuffer' \in Seq(Item)
        BY <1>2, <1>4 DEF AboutToClose, MarkForClose
  <2>2. NetworkTypes'
        BY <1>4, <2>1 DEF AboutToClose, NetworkTypes
  <2>3. FrontTypes'
        BY <1>4, <2>1 DEF AboutToClose, FrontTypes
  <2> QED BY <1>4, <2>2, <2>3, UnchangedTypes DEF AboutToClose
<1>5. CASE ServerWrite
  <2>1. PICK c \in Contexts :
             LET item == ServerItem(c)
             IN  \/ /\ bound[c] # NoSession
                    /\ toClient' = SentToClient(bound[c], <<Data(<<item>>)>>)
                    /\ UNCHANGED socketBuffer
                 \/ /\ socketBuffer' = [socketBuffer EXCEPT ![c] = Append(@, item)]
                    /\ UNCHANGED toClient
        BY <1>5 DEF ServerWrite, ServerItem
  <2> DEFINE item == ServerItem(c)
  <2>2. item \in Item /\ <<item>> \in Blob
    <3>1. written["server"] + 1 \in Nat
          BY <1>w DEF HistoryTypes
    <3> QED BY <3>1, ItemBlob
  <2>3. toClient' \in [Sessions -> Seq(ServerPacket)] /\ socketBuffer' \in [Contexts -> Seq(Item)]
    <3>1. CASE /\ bound[c] # NoSession
               /\ toClient' = SentToClient(bound[c], <<Data(<<item>>)>>)
               /\ UNCHANGED socketBuffer
      <4>1. Data(<<item>>) \in ServerPacket
            BY <2>2, DataPacket
      <4>2. <<Data(<<item>>)>> \in Seq(ServerPacket)
            BY <4>1
      <4>3. bound[c] \in Sessions
            BY <3>1 DEF BackTypes
      <4> QED BY <1>t, <3>1, <4>2, <4>3, SentTypes DEF BackTypes
    <3>2. CASE /\ socketBuffer' = [socketBuffer EXCEPT ![c] = Append(@, item)]
               /\ UNCHANGED toClient
      <4> HIDE DEF item
      <4>1. Append(socketBuffer[c], item) \in Seq(Item)
            BY <2>2 DEF BackTypes
      <4> QED BY <3>2, <4>1 DEF BackTypes, NetworkTypes
    <3> QED BY <2>1, <3>1, <3>2
  <2>4. NetworkTypes'
        BY <1>5, <2>3 DEF ServerWrite, NetworkTypes
  <2>5. BackTypes'
        BY <1>5, <2>3 DEF ServerWrite, BackTypes
  <2>6. HistoryTypes'
    <3>1. written' \in [{"client", "server"} -> 0 .. MaxWrites[config]]
          BY <1>5, <1>w DEF ServerWrite, HistoryTypes
    <3> QED BY <1>5, <3>1 DEF ServerWrite, HistoryTypes
  <2> QED BY <1>5, <2>4, <2>5, <2>6, UnchangedTypes DEF ServerWrite
<1>6. CASE \E s \in Sessions : Break(s)
  <2>1. NetworkTypes'
        BY <1>6 DEF Break, NetworkTypes
  <2>2. HistoryTypes'
        BY <1>6, <1>w DEF Break, HistoryTypes
  <2> QED BY <1>6, <2>1, <2>2, UnchangedTypes DEF Break
<1>7. CASE CloseTimeoutExpires
  <2>1. Tail(timers) \in Seq(Sessions)
        BY <1>7 DEF CloseTimeoutExpires, BackTypes
  <2>2. /\ timers' \in Seq(Sessions) /\ closeTimeout' \in Sessions \cup {NoSession}
        /\ (conn \in Contexts \cup {NoContext})' /\ (disposed \subseteq Contexts)'
        BY <1>7, <2>1, WithoutType DEF CloseTimeoutExpires, CloseConnection, BackTypes
  <2>3. faulted' \in BOOLEAN
        BY <1>7 DEF CloseTimeoutExpires, CloseConnection, HistoryTypes
  <2>4. BackTypes'
        BY <1>7, <2>2 DEF CloseTimeoutExpires, BackTypes
  <2>5. HistoryTypes'
        BY <1>7, <2>3 DEF CloseTimeoutExpires, HistoryTypes
  <2>6. NetworkTypes'
        BY <1>7 DEF CloseTimeoutExpires, NetworkTypes, network
  <2> QED BY <1>7, <2>4, <2>5, <2>6, UnchangedTypes DEF CloseTimeoutExpires
<1> QED BY <1>1, <1>3, <1>4, <1>5, <1>6, <1>7 DEF Environment

LEMMA TypesNext == TypeOK /\ UpInv /\ [Next]_vars => TypeOK'
<1> SUFFICES ASSUME TypeOK, UpInv, [Next]_vars PROVE TypeOK'
    OBVIOUS
<1>1. NetworkTypes /\ FrontTypes /\ BackTypes /\ HistoryTypes
      BY TypeParts
<1>2. NetworkTypes' /\ FrontTypes' /\ BackTypes' /\ HistoryTypes'
  <2>1. CASE FrontEnd
        BY <1>1, <2>1, FrontEndTypes
  <2>2. CASE \E s \in Sessions : BackEnd(s) \/ MissPacket(s)
        BY <1>1, <2>2, BackEndTypes
  <2>3. CASE Environment \/ CloseTimeoutExpires
        BY <1>1, <2>3, EnvironmentTypes
  <2>4. CASE UNCHANGED vars
    <3>1. NetworkTypes'
          BY <1>1, <2>4 DEF NetworkTypes, vars, network
    <3> QED BY <1>1, <2>4, <3>1, UnchangedTypes DEF vars
  <2> QED BY <2>1, <2>2, <2>3, <2>4 DEF Next
<1> QED BY <1>2, TypeParts DEF TypeOK, NetworkTypes, FrontTypes, BackTypes, HistoryTypes

LEMMA TypesAlways == Spec => [](TypeOK /\ UpInv)
<1>1. Init => TypeOK /\ UpInv
      BY TypesInit DEF Init, UpInv
<1> QED BY <1>1, TypesNext, UpNext, PTL DEF Spec

\* Every variable has its type in every reachable state.
THEOREM TypeCorrect == Spec => []TypeOK
BY TypesAlways, PTL

-------------------------------------------------------------------------------
(***************************************************************************)
(* The promise to the listeners of the main channel.  The end of a channel *)
(* is announced once, and the next channel when it has been, because       *)
(* closures that would announce something are registered only while they   *)
(* may.                                                                    *)
(***************************************************************************)
NoReply(q) == \A i \in DOMAIN q : q[i].type = "data"
OneReply(q) == \A i, j \in DOMAIN q : q[i].type # "data" /\ q[j].type # "data" => i = j

ListenersInv ==
    /\ reconnectListeners > 0 => epoch # NoContext
    /\ initialListeners > 0 => epoch = NoContext \/ closed
    /\ epoch = NoContext <=> channels = 0

\* A session that has not answered a negotiation request.
Unanswered(s) == s \in negotiating \/ socketState[s] \in {"none", "validating"}

ReplyInv ==
    /\ epoch <= sid
    /\ \A s \in Sessions :
          /\ OneReply(toClient[s])
          /\ epoch = s \/ Unanswered(s) => NoReply(toClient[s])
          /\ Unanswered(s) => epoch # s
          /\ s > sid => socketState[s] = "none"

LEMMA ReplyInTail ==
    ASSUME NEW q \in Seq(ServerPacket), q # <<>>
    PROVE  /\ NoReply(q) => NoReply(Tail(q))
           /\ OneReply(q) => OneReply(Tail(q))
           /\ OneReply(q) /\ Head(q).type # "data" => NoReply(Tail(q))
<1> DEFINE r == Tail(q)
<1>1. /\ Head(q) = q[1] /\ 1 \in DOMAIN q
      /\ \A i \in DOMAIN r : 1 < i + 1 /\ i + 1 \in DOMAIN q /\ r[i] = q[i + 1]
      BY TailFacts
<1>2. DOMAIN r \subseteq Nat
      OBVIOUS
<1> HIDE DEF r
<1> QED BY <1>1, <1>2 DEF NoReply, OneReply

LEMMA ReplyInSent ==
    ASSUME NEW q \in Seq(ServerPacket), NEW r \in Seq(ServerPacket)
    PROVE  /\ NoReply(q) /\ NoReply(r) => NoReply(q \o r)
           /\ OneReply(q) /\ NoReply(r) => OneReply(q \o r)
           /\ NoReply(q) /\ OneReply(r) => OneReply(q \o r)
<1> DEFINE p == q \o r
<1>1. \A i \in DOMAIN p : \/ i \in DOMAIN q /\ p[i] = q[i]
                          \/ i - Len(q) \in DOMAIN r /\ p[i] = r[i - Len(q)]
      OBVIOUS
<1> HIDE DEF p
<1> QED BY <1>1 DEF NoReply, OneReply

\* A step that sends no reply.
RepliesKept ==
    \A s \in Sessions : /\ NoReply(toClient[s]) => NoReply(toClient'[s])
                        /\ OneReply(toClient[s]) => OneReply(toClient'[s])

LEMMA RepliesKeptWhen ==
    ASSUME TypeOK, NEW s \in Sessions
    PROVE  /\ UNCHANGED toClient => RepliesKept
           /\ toClient' = [toClient EXCEPT ![s] = <<>>] => RepliesKept
           /\ toClient' = [t \in Sessions |-> <<>>] => RepliesKept
           /\ toClient[s] # <<>> /\ toClient' = [toClient EXCEPT ![s] = Tail(toClient[s])] => RepliesKept
           /\ \A r \in Seq(ServerPacket) :
                 NoReply(r) /\ toClient' = SentToClient(s, r) => RepliesKept
<1>1. toClient \in [Sessions -> Seq(ServerPacket)]
      BY DEF TypeOK
<1>2. NoReply(<<>>) /\ OneReply(<<>>)
      BY DEF NoReply, OneReply
<1>3. UNCHANGED toClient => RepliesKept
      BY DEF RepliesKept
<1>4. toClient' = [toClient EXCEPT ![s] = <<>>] => RepliesKept
      BY <1>1, <1>2 DEF RepliesKept
<1>5. toClient' = [t \in Sessions |-> <<>>] => RepliesKept
      BY <1>1, <1>2 DEF RepliesKept
<1>6. toClient[s] # <<>> /\ toClient' = [toClient EXCEPT ![s] = Tail(toClient[s])] => RepliesKept
      BY <1>1, ReplyInTail DEF RepliesKept
<1>7. ASSUME NEW r \in Seq(ServerPacket), NoReply(r), toClient' = SentToClient(s, r)
      PROVE  RepliesKept
      BY <1>1, <1>7, ReplyInSent DEF RepliesKept, SentToClient
<1> QED BY <1>3, <1>4, <1>5, <1>6, <1>7

LEMMA ReplyKept ==
    ASSUME TypeOK, ReplyInv, RepliesKept, UNCHANGED sid,
           epoch' = epoch \/ epoch' = NoContext,
           negotiating' \subseteq negotiating,
           \A s \in Sessions : \/ socketState'[s] = socketState[s]
                               \/ socketState[s] # "none" /\ socketState'[s] = "closed"
    PROVE  ReplyInv'
<1>1. (epoch <= sid)'
      BY BoundsAssumption DEF ReplyInv, TypeOK, NoContext
<1>2. \A s \in Sessions : Unanswered(s)' => Unanswered(s)
      BY DEF Unanswered
<1>3. \A s \in Sessions : s # NoContext
      BY DEF Sessions, NoContext
<1>4. ASSUME NEW s \in Sessions
      PROVE  /\ OneReply(toClient[s])'
             /\ (epoch = s \/ Unanswered(s) => NoReply(toClient[s]))'
             /\ (Unanswered(s) => epoch # s)'
             /\ (s > sid => socketState[s] = "none")'
      BY <1>2, <1>3 DEF ReplyInv, RepliesKept
<1> QED BY <1>1, <1>4 DEF ReplyInv

\* The packets a server sends.
LEMMA ServerPackets ==
    /\ \A blob \in Blob : <<Data(blob)>> \in Seq(ServerPacket) /\ NoReply(<<Data(blob)>>)
    /\ \A found \in BOOLEAN : OneReply(ReconnectReply(found)) /\ ReconnectReply(found) \in Seq(ServerPacket)
    /\ OneReply(<<[type |-> "initial"]>>) /\ <<[type |-> "initial"]>> \in Seq(ServerPacket)
<1>1. ASSUME NEW blob \in Blob PROVE <<Data(blob)>> \in Seq(ServerPacket) /\ NoReply(<<Data(blob)>>)
      BY DataPacket DEF NoReply
<1>2. ASSUME NEW found \in BOOLEAN
      PROVE  OneReply(ReconnectReply(found)) /\ ReconnectReply(found) \in Seq(ServerPacket)
      BY DEF OneReply, ReconnectReply, ServerPacket
<1>3. OneReply(<<[type |-> "initial"]>>) /\ <<[type |-> "initial"]>> \in Seq(ServerPacket)
      BY DEF OneReply, ServerPacket
<1> QED BY <1>1, <1>2, <1>3

\* What the server sends in answer to a reconnect for which it has a context.
Reconnection(c) ==
    ReconnectReply(TRUE) \o (IF socketBuffer[c] = <<>> THEN <<>> ELSE <<Data(socketBuffer[c])>>)

LEMMA ReconnectionPackets ==
    ASSUME TypeOK, NEW c \in Contexts
    PROVE  OneReply(Reconnection(c)) /\ Reconnection(c) \in Seq(ServerPacket)
<1> DEFINE tail == IF socketBuffer[c] = <<>> THEN <<>> ELSE <<Data(socketBuffer[c])>>
<1>1. socketBuffer[c] \in Seq(Item)
      BY DEF TypeOK
<1>2. NoReply(tail) /\ tail \in Seq(ServerPacket)
  <2>1. CASE socketBuffer[c] = <<>>
    <3>1. tail = <<>>
          BY <2>1
    <3> QED BY <3>1 DEF NoReply
  <2>2. CASE socketBuffer[c] # <<>>
    <3>1. socketBuffer[c] \in Blob /\ tail = <<Data(socketBuffer[c])>>
          BY <1>1, <2>2 DEF Blob
    <3> QED BY <3>1, ServerPackets
  <2> QED BY <2>1, <2>2
<1>3. ReconnectReply(TRUE) \in Seq(ServerPacket) /\ OneReply(ReconnectReply(TRUE))
      BY ServerPackets
<1> HIDE DEF tail
<1>4. ReconnectReply(TRUE) \o tail \in Seq(ServerPacket) /\ OneReply(ReconnectReply(TRUE) \o tail)
      BY <1>2, <1>3, ConcatType, ReplyInSent
<1> QED BY <1>4 DEF Reconnection, tail

\* A negotiation request is answered.
LEMMA ReplySent ==
    ASSUME TypeOK, ReplyInv, NEW s \in negotiating, NEW r \in Seq(ServerPacket), OneReply(r),
           socketState[s] = "open", negotiating' = negotiating \ {s}, toClient' = SentToClient(s, r),
           UNCHANGED <<epoch, sid, socketState>>
    PROVE  ReplyInv'
<1>t. toClient \in [Sessions -> Seq(ServerPacket)] /\ s \in Sessions
      BY DEF TypeOK
<1>1. epoch # s /\ NoReply(toClient[s])
      BY <1>t DEF ReplyInv, Unanswered
<1>2. toClient[s] \in Seq(ServerPacket)
      BY <1>t
<1>3. OneReply(toClient'[s])
      BY <1>t, <1>1, <1>2, ReplyInSent DEF SentToClient, ReplyInv
<1>4. \A t \in Sessions : t # s => toClient'[t] = toClient[t]
      BY <1>t DEF SentToClient
<1>5. \A t \in Sessions : (Unanswered(t)' => Unanswered(t)) /\ (t = s => ~Unanswered(t)')
      BY DEF Unanswered
<1> QED BY <1>1, <1>3, <1>4, <1>5 DEF ReplyInv

LEMMA ReplyNext == TypeOK /\ UpInv /\ ReplyInv /\ [Next]_vars => ReplyInv'
<1> SUFFICES ASSUME TypeOK, UpInv, ReplyInv, [Next]_vars PROVE ReplyInv'
    OBVIOUS
<1> USE DEF frontend, backend, history, network
<1>t. /\ sid \in 0 .. MaxSessions /\ MaxSessions \in Nat
      /\ toClient \in [Sessions -> Seq(ServerPacket)] /\ epoch \in Contexts \cup {NoContext}
      BY BoundsAssumption DEF TypeOK
<1>u. \E s \in Sessions : TRUE
      BY BoundsAssumption DEF Sessions
<1>1. CASE Connect
  <2>1. /\ sid + 1 \in Sessions /\ sid' = sid + 1 /\ socketState[sid + 1] = "none"
        /\ socketState' = [socketState EXCEPT ![sid + 1] = "validating"]
        /\ UNCHANGED <<toClient, epoch, negotiating>>
        BY <1>1, <1>t DEF Connect, ReplyInv, Sessions
  <2>2. (epoch <= sid)'
        BY <1>t, <2>1 DEF ReplyInv, Contexts, Sessions, NoContext
  <2>3. ASSUME NEW s \in Sessions
        PROVE  /\ OneReply(toClient[s])'
               /\ (epoch = s \/ Unanswered(s) => NoReply(toClient[s]))'
               /\ (Unanswered(s) => epoch # s)'
               /\ (s > sid => socketState[s] = "none")'
    <3>1. sid' = sid + 1 /\ sid \in Nat /\ s \in Nat
          BY <1>t, <2>1 DEF Sessions
    <3>2. CASE s # sid + 1
      <4>1. socketState'[s] = socketState[s]
            BY <2>1, <3>2 DEF TypeOK
      <4> QED BY <2>1, <3>1, <4>1 DEF ReplyInv, Unanswered
    <3>3. CASE s = sid + 1
      <4>1. Unanswered(s)
            BY <2>1, <3>3 DEF Unanswered
      <4> QED BY <2>1, <3>1, <3>3, <4>1 DEF ReplyInv
    <3> QED BY <3>2, <3>3
  <2> QED BY <2>2, <2>3 DEF ReplyInv
<1>2. CASE HandleInitialReply
  <2>1. /\ sid \in Sessions /\ toClient[sid] # <<>> /\ Head(toClient[sid]).type # "data"
        /\ toClient' = [toClient EXCEPT ![sid] = Tail(toClient[sid])]
        /\ UNCHANGED <<sid, negotiating, socketState>>
        /\ epoch' = epoch \/ epoch' = sid
        BY <1>2 DEF HandleInitialReply, ClientReceives, UpInv
  <2>2. RepliesKept
        BY <2>1, RepliesKeptWhen
  <2>3. NoReply(toClient[sid])'
        BY <1>t, <2>1, ReplyInTail DEF ReplyInv
  <2>4. ~NoReply(toClient[sid])
        BY <1>t, <2>1, TailFacts DEF NoReply
  <2>5. (epoch <= sid)'
        BY <1>t, <2>1 DEF ReplyInv
  <2>6. ASSUME NEW s \in Sessions
        PROVE  /\ OneReply(toClient[s])'
               /\ (epoch = s \/ Unanswered(s) => NoReply(toClient[s]))'
               /\ (Unanswered(s) => epoch # s)'
               /\ (s > sid => socketState[s] = "none")'
    <3>1. Unanswered(s)' = Unanswered(s)
          BY <2>1 DEF Unanswered
    <3> QED BY <2>1, <2>2, <2>3, <2>4, <3>1 DEF ReplyInv, RepliesKept
  <2> QED BY <2>5, <2>6 DEF ReplyInv
<1>3. ASSUME NEW s \in Sessions, Accept(s)
      PROVE  ReplyInv'
  <2>1. \A t \in Sessions : Unanswered(t)' = Unanswered(t)
        BY <1>3 DEF Accept, Unanswered, TypeOK
  <2>2. \A t \in Sessions : socketState'[t] = "none" <=> socketState[t] = "none"
        BY <1>3 DEF Accept, TypeOK
  <2>3. UNCHANGED <<toClient, epoch, sid>>
        BY <1>3 DEF Accept
  <2> QED BY <2>1, <2>2, <2>3 DEF ReplyInv
<1>4. ASSUME NEW s \in Sessions, HandleInitialConnect(s)
      PROVE  ReplyInv'
      BY <1>4, ServerPackets, ReplySent DEF HandleInitialConnect, ServerReceives
<1>5. ASSUME UNCHANGED <<sid, negotiating, socketState>>, RepliesKept, epoch' \in {epoch, NoContext}
      PROVE  ReplyInv'
      BY <1>5, ReplyKept
<1>6. CASE ClientDisconnect
  <2>1. sid \in Sessions
        BY <1>6 DEF ClientDisconnect, UpInv
  <2> QED BY <1>5, <1>6, <2>1, RepliesKeptWhen DEF ClientDisconnect
<1>7. CASE HandleReconnected
  <2>1. sid \in Sessions
        BY <1>7 DEF HandleReconnected, ClientReceives, UpInv
  <2>2. RepliesKept
        BY <1>7, <2>1, RepliesKeptWhen DEF HandleReconnected, ClientReceives
  <2> QED BY <1>5, <1>7, <2>2 DEF HandleReconnected
<1>8. ASSUME PageLoads, UNCHANGED <<sid, negotiating, socketState>>
      PROVE  ReplyInv'
  <2>1. RepliesKept
        BY <1>u, <1>8, RepliesKeptWhen DEF PageLoads
  <2> QED BY <1>5, <1>8, <2>1 DEF PageLoads
<1>9. CASE HandleReconnectRefused
  <2>1. sid \in Sessions /\ toClient[sid] # <<>> /\ UNCHANGED <<sid, negotiating, socketState>>
        BY <1>9 DEF HandleReconnectRefused, ClientReceives, UpInv
  <2>2. CASE PageLoads
        BY <1>8, <2>1, <2>2
  <2>3. CASE UNCHANGED epoch /\ toClient' = [toClient EXCEPT ![sid] = <<>>]
        BY <1>5, <2>1, <2>3, RepliesKeptWhen
  <2>4. CASE UNCHANGED epoch /\ toClient' = [toClient EXCEPT ![sid] = Tail(toClient[sid])]
        BY <1>5, <2>1, <2>4, RepliesKeptWhen
  <2> QED BY <1>9, <2>2, <2>3, <2>4 DEF HandleReconnectRefused
<1>10. CASE HandleClientData
  <2>1. sid \in Sessions
        BY <1>10 DEF HandleClientData, UpInv
  <2>2. RepliesKept
        BY <1>10, <2>1, RepliesKeptWhen DEF HandleClientData
  <2> QED BY <1>5, <1>10, <2>2 DEF HandleClientData
<1>11. ASSUME UNCHANGED <<toClient, epoch, sid, negotiating, socketState>>
       PROVE  ReplyInv'
       BY <1>5, <1>11, <1>u, RepliesKeptWhen
<1>12. ASSUME NEW s \in Sessions, MissPacket(s) \/ IgnoreRequest(s) \/ HandleServerData(s)
       PROVE  ReplyInv'
       BY <1>11, <1>12 DEF MissPacket, IgnoreRequest, HandleServerData
<1>13. ASSUME NEW s \in Sessions, HandleReconnect(s)
       PROVE  ReplyInv'
  <2>1. CASE conn = NoContext
    <3>1. toClient' = SentToClient(s, ReconnectReply(FALSE))
          BY <1>13, <2>1 DEF HandleReconnect
    <3> QED BY <1>13, <3>1, ServerPackets, ReplySent DEF HandleReconnect, ServerReceives
  <2>2. CASE conn # NoContext
    <3>1. toClient' = SentToClient(s, Reconnection(conn)) /\ conn \in Contexts
          BY <1>13, <2>2 DEF HandleReconnect, Reconnection, TypeOK
    <3> QED BY <1>13, <3>1, ReconnectionPackets, ReplySent DEF HandleReconnect, ServerReceives
  <2> QED BY <2>1, <2>2
<1>14. ASSUME NEW s \in Sessions, HandleSocketDisconnect(s)
       PROVE  ReplyInv'
  <2>1. /\ UNCHANGED <<toClient, epoch, sid, negotiating>>
        /\ \A t \in Sessions : \/ socketState'[t] = socketState[t]
                               \/ socketState[t] # "none" /\ socketState'[t] = "closed"
        BY <1>14 DEF HandleSocketDisconnect, TypeOK
  <2> QED BY <1>u, <2>1, RepliesKeptWhen, ReplyKept
<1>15. CASE CloseTimeoutExpires \/ ClientWrite \/ AboutToClose \/ (\E s \in Sessions : Break(s))
       BY <1>11, <1>15 DEF CloseTimeoutExpires, ClientWrite, AboutToClose, Break
<1>16. CASE Reload
       BY <1>8, <1>16 DEF Reload
<1>17. CASE ServerWrite
  <2>1. RepliesKept
    <3>1. CASE UNCHANGED toClient
          BY <1>u, <3>1, RepliesKeptWhen
    <3>2. CASE toClient' # toClient
      <4>1. PICK c \in Contexts : /\ bound[c] # NoSession
                                  /\ toClient' = SentToClient(bound[c], <<Data(<<ServerItem(c)>>)>>)
            BY <1>17, <3>2 DEF ServerWrite, ServerItem
      <4> DEFINE blob == <<ServerItem(c)>>
      <4>2. blob \in Blob
        <5>1. written["server"] + 1 \in Nat
          <6>1. MaxWrites[config] \in Nat
                BY ConfigurationAssumption DEF TypeOK
          <6>2. HistoryTypes
                BY TypeParts
          <6> QED BY <6>1, <6>2 DEF HistoryTypes
        <5> QED BY <5>1, ItemBlob
      <4>3. bound[c] \in Sessions
            BY <4>1 DEF TypeOK
      <4> HIDE DEF blob
      <4>4. <<Data(blob)>> \in Seq(ServerPacket) /\ NoReply(<<Data(blob)>>)
            BY <4>2, ServerPackets
      <4> QED BY <4>1, <4>3, <4>4, RepliesKeptWhen DEF blob
    <3> QED BY <3>1, <3>2
  <2> QED BY <1>5, <1>17, <2>1 DEF ServerWrite
<1>18. CASE UNCHANGED vars
       BY <1>11, <1>18 DEF vars
<1> QED BY <1>1, <1>2, <1>3, <1>4, <1>6, <1>7, <1>9, <1>10, <1>12, <1>13, <1>14, <1>15, <1>16, <1>17, <1>18
        DEF Next, FrontEnd, BackEnd, Environment

LEMMA ListenersNext == TypeOK /\ UpInv /\ ListenersInv /\ [Next]_vars => ListenersInv'
<1> SUFFICES ASSUME TypeOK, UpInv, ListenersInv, [Next]_vars PROVE ListenersInv'
    OBVIOUS
<1> USE DEF frontend, backend, history, network
<1>t. reconnectListeners \in Nat /\ initialListeners \in Nat /\ channels \in Nat
      BY DEF TypeOK
<1>1. CASE Connect
      BY <1>1, <1>t DEF Connect, ListenersInv, Request
<1>2. CASE HandleInitialReply
  <2>1. sid # NoContext
        BY <1>2 DEF HandleInitialReply, ClientReceives, UpInv, Sessions, NoContext
  <2> QED BY <1>2, <1>t, <2>1 DEF HandleInitialReply, ListenersInv
<1>3. CASE HandleReconnected
      BY <1>3, <1>t DEF HandleReconnected, ListenersInv
<1>4. CASE PageLoads
      BY <1>4 DEF PageLoads, ListenersInv
<1>5. CASE HandleReconnectRefused
      BY <1>4, <1>5, <1>t DEF HandleReconnectRefused, ListenersInv
<1>6. CASE UNCHANGED <<epoch, closed, channels, reconnectListeners, initialListeners>>
      BY <1>6 DEF ListenersInv
<1> QED BY <1>1, <1>2, <1>3, <1>4, <1>5, <1>6
        DEF Next, FrontEnd, BackEnd, Environment, vars, Reload, ClientDisconnect, HandleClientData,
            Accept, MissPacket, IgnoreRequest, HandleInitialConnect, HandleReconnect, HandleServerData,
            HandleSocketDisconnect, CloseTimeoutExpires, ClientWrite, AboutToClose, ServerWrite, Break

LEMMA PromiseNext ==
    TypeOK /\ UpInv /\ ReplyInv /\ ListenersInv /\ [Next]_vars => [Promised!Next]_<<channels, closed>>
<1> SUFFICES ASSUME TypeOK, UpInv, ReplyInv, ListenersInv, [Next]_vars
             PROVE  [Promised!Next]_<<channels, closed>>
    OBVIOUS
<1> USE DEF frontend, backend, history, network
<1>t. /\ reconnectListeners \in Nat /\ initialListeners \in Nat
      /\ channels \in Nat /\ closed \in BOOLEAN
      BY DEF TypeOK
<1>1. CASE PageLoads
      BY <1>1 DEF PageLoads, NoContext, Promised!Next, Promised!Leave
<1>2. CASE HandleInitialReply
  <2>1. CASE initialListeners > 0
    <3>1. channels = 0 \/ closed
          BY <2>1 DEF ListenersInv
    <3>2. channels' > channels /\ closed' = FALSE
          BY <1>2, <1>t, <2>1 DEF HandleInitialReply
    <3> QED BY <3>1, <3>2 DEF Promised!Next, Promised!Open
  <2>2. CASE ~(initialListeners > 0)
        BY <1>2, <2>2 DEF HandleInitialReply
  <2> QED BY <2>1, <2>2
<1>3. CASE HandleReconnectRefused
  <2>1. CASE UNCHANGED <<channels, closed>>
        BY <2>1
  <2>2. CASE reconnectListeners > 0 /\ closed' = TRUE /\ UNCHANGED channels
    <3>1. CASE closed
          BY <2>2, <3>1
    <3>2. CASE ~closed
          BY <2>2, <3>2 DEF ListenersInv, NoContext, Promised!Next, Promised!Close
    <3> QED BY <3>1, <3>2
  <2> QED BY <1>1, <1>3, <2>1, <2>2 DEF HandleReconnectRefused
<1>4. CASE UNCHANGED <<channels, closed>>
      BY <1>4
<1> QED BY <1>1, <1>2, <1>3, <1>4
        DEF Next, FrontEnd, BackEnd, Environment, vars, Reload, Connect, ClientDisconnect,
            HandleReconnected, HandleClientData,
            Accept, MissPacket, IgnoreRequest, HandleInitialConnect, HandleReconnect, HandleServerData,
            HandleSocketDisconnect, CloseTimeoutExpires, ClientWrite, AboutToClose, ServerWrite, Break

LEMMA RepliesAlways == Spec => [](TypeOK /\ UpInv /\ ReplyInv /\ ListenersInv)
<1>1. Init => ReplyInv /\ ListenersInv
  <2> SUFFICES ASSUME Init PROVE ReplyInv /\ ListenersInv
      OBVIOUS
  <2>1. \A s \in Sessions : toClient[s] = <<>> /\ socketState[s] = "none" /\ epoch # s
        BY DEF Init, Sessions, NoContext
  <2>2. NoReply(<<>>) /\ OneReply(<<>>)
        BY DEF NoReply, OneReply
  <2>3. epoch <= sid
        BY DEF Init, NoContext
  <2> QED BY <2>1, <2>2, <2>3 DEF ReplyInv, ListenersInv, Init
<1>2. TypeOK /\ UpInv /\ ReplyInv /\ ListenersInv /\ [Next]_vars
          => (TypeOK /\ UpInv /\ ReplyInv /\ ListenersInv)'
      BY TypesNext, UpNext, ReplyNext, ListenersNext
<1>3. Init => TypeOK /\ UpInv
      BY TypesInit DEF Init, UpInv
<1> QED BY <1>1, <1>2, <1>3, PTL DEF Spec

\* The connection source implements MainChannel: no turn of the event loop
\* announces a channel before the listeners of the last one that the turns before
\* it left heard of its end.  The several channels that one reply announces are one
\* step of both.
THEOREM PromiseKept == Spec => ChannelPromiseIsKept
<1>1. Init => Promised!Init
      BY DEF Init, Promised!Init, NoContext
<1> QED BY <1>1, RepliesAlways, PromiseNext, PTL DEF Spec, ChannelPromiseIsKept, Promised!Spec

-------------------------------------------------------------------------------
(***************************************************************************)
(* The context and its socket, when the server notices the end of a socket *)
(* before the next one connects.  One session is live at a time; while a   *)
(* live session has a context no close timeout runs; and the one timeout   *)
(* that may run is the one closeTimeouts names.                            *)
(***************************************************************************)
Live(s) == socketState[s] \in {"validating", "open"}

ContextInv ==
    /\ \A s \in Sessions :
          /\ Live(s) => s = sid
          /\ socketState[s] \in {"none", "validating"} => owner[s] = NoContext /\ s \notin negotiating
          /\ s \in negotiating => owner[s] = NoContext
          /\ Live(s) /\ owner[s] # NoContext =>
                conn = owner[s] /\ timers = <<>> /\ bound[conn] = s /\ s \in listening
    /\ conn # NoContext /\ bound[conn] # NoSession => Live(bound[conn]) /\ owner[bound[conn]] = conn
    /\ sid # 0 /\ conn # NoContext /\ owner[sid] # NoContext => conn = owner[sid]

TimersInv == timers = <<>> \/ (timers = <<closeTimeout>> /\ conn # NoContext)

\* A context that was closed is one that was created, and not the current one.
DisposedInv ==
    /\ conn \notin disposed
    /\ \A c \in disposed : owner[c] = c
    /\ conn # NoContext => owner[conn] = conn

BackInv == ContextInv /\ TimersInv /\ DisposedInv /\ ~faulted

LEMMA BackUnchanged ==
    BackInv /\ UNCHANGED <<sid, socketState, negotiating, owner, listening, conn, bound, disposed,
                           timers, closeTimeout, faulted>>
        => BackInv'
BY DEF BackInv, ContextInv, Live, TimersInv, DisposedInv

LEMMA CancelledTimers ==
    ASSUME TypeOK, TimersInv
    PROVE  Without(timers, closeTimeout) = <<>> /\ (timers # <<>> => Without(Tail(timers), closeTimeout) = <<>>)
<1>1. timers \in Seq(Sessions) /\ <<>> \in Seq(Sessions)
      BY DEF TypeOK
<1>2. Without(timers, closeTimeout) = <<>> /\ Without(<<>>, closeTimeout) = <<>>
      BY <1>1, WithoutType DEF TimersInv
<1>3. timers # <<>> => Tail(timers) = <<>>
  <2>1. Tail(<<closeTimeout>>) = <<>>
        OBVIOUS
  <2> QED BY <2>1 DEF TimersInv
<1> QED BY <1>2, <1>3

LEMMA BackNext ==
    ASSUME LateDisconnect = FALSE
    PROVE  TypeOK /\ UpInv /\ ReplyInv /\ BackInv /\ [Next]_vars => BackInv'
<1> SUFFICES ASSUME TypeOK, UpInv, ReplyInv, BackInv, [Next]_vars PROVE BackInv'
    OBVIOUS
<1> USE DEF frontend, backend, history, network
<1>t. /\ sid \in 0 .. MaxSessions /\ MaxSessions \in Nat
      /\ socketState \in [Sessions -> {"none", "validating", "open", "closed"}]
      /\ owner \in [Sessions -> Contexts \cup {NoContext}]
      /\ bound \in [Contexts -> Sessions \cup {NoSession}]
      /\ conn \in Contexts \cup {NoContext}
      /\ Contexts = Sessions /\ NoContext \notin Sessions /\ NoSession \notin Sessions
      /\ disposed \subseteq Contexts
  <2>1. Contexts = Sessions /\ NoContext \notin Sessions /\ NoSession \notin Sessions
        BY DEF Contexts, Sessions, NoContext, NoSession
  <2>2. sid \in 0 .. MaxSessions /\ MaxSessions \in Nat
        BY BoundsAssumption DEF TypeOK
  <2>3. BackTypes
        BY TypeParts
  <2> QED BY <2>1, <2>2, <2>3 DEF BackTypes
<1>i. ContextInv /\ TimersInv /\ DisposedInv /\ ~faulted
      BY DEF BackInv
<1>1. CASE Connect
  <2> DEFINE n == sid + 1
  <2>1. /\ n \in Sessions /\ sid' = n /\ socketState[n] = "none"
        /\ socketState' = [socketState EXCEPT ![n] = "validating"]
        /\ UNCHANGED <<negotiating, owner, listening, conn, bound, disposed, timers, closeTimeout, faulted>>
        BY <1>1, <1>t DEF Connect, ReplyInv, Sessions
  <2>2. \A s \in Sessions : ~Live(s)
    <3>1. \A s \in 1 .. sid : socketState[s] = "closed"
          BY <1>1 DEF Connect
    <3>2. \A s \in Sessions : s \in 1 .. sid \/ s > sid
          BY <1>t DEF Sessions
    <3> QED BY <3>1, <3>2 DEF ReplyInv, Live
  <2>3. owner[n] = NoContext /\ n \notin negotiating
        BY <1>i, <2>1 DEF ContextInv
  <2>4. \A s \in Sessions : s # n => ~Live(s)' /\ socketState'[s] = socketState[s]
        BY <1>t, <2>1, <2>2 DEF Live
  <2>5. conn # NoContext => bound[conn] = NoSession
        BY <1>t, <1>i, <2>2 DEF ContextInv
  <2> HIDE DEF n
  <2>6. ContextInv'
    <3>1. ASSUME NEW s \in Sessions
          PROVE  /\ (Live(s) => s = sid)'
                 /\ (socketState[s] \in {"none", "validating"} => owner[s] = NoContext /\ s \notin negotiating)'
                 /\ (s \in negotiating => owner[s] = NoContext)'
                 /\ (Live(s) /\ owner[s] # NoContext =>
                        conn = owner[s] /\ timers = <<>> /\ bound[conn] = s /\ s \in listening)'
          BY <1>i, <2>1, <2>3, <2>4 DEF ContextInv
    <3> QED BY <2>1, <2>3, <2>5, <3>1 DEF ContextInv
  <2>7. TimersInv' /\ DisposedInv' /\ ~faulted'
        BY <1>i, <2>1 DEF TimersInv, DisposedInv
  <2> QED BY <2>6, <2>7 DEF BackInv
<1>2. ASSUME NEW s \in Sessions, Accept(s)
      PROVE  BackInv'
  <2>1. /\ socketState[s] = "validating" /\ negotiating' = negotiating \cup {s}
        /\ socketState' = [socketState EXCEPT ![s] = "open"]
        /\ UNCHANGED <<sid, owner, listening, conn, bound, disposed, timers, closeTimeout, faulted>>
        BY <1>2 DEF Accept
  <2>2. \A t \in Sessions : Live(t)' = Live(t)
        BY <1>t, <2>1 DEF Live
  <2>3. owner[s] = NoContext
        BY <1>i, <2>1 DEF ContextInv
  <2>4. ContextInv'
    <3>1. ASSUME NEW t \in Sessions
          PROVE  /\ (Live(t) => t = sid)'
                 /\ (socketState[t] \in {"none", "validating"} => owner[t] = NoContext /\ t \notin negotiating)'
                 /\ (t \in negotiating => owner[t] = NoContext)'
                 /\ (Live(t) /\ owner[t] # NoContext =>
                        conn = owner[t] /\ timers = <<>> /\ bound[conn] = t /\ t \in listening)'
          BY <1>t, <1>i, <2>1, <2>2, <2>3 DEF ContextInv
    <3> QED BY <1>t, <1>i, <2>1, <2>2, <3>1 DEF ContextInv
  <2>5. TimersInv' /\ DisposedInv' /\ ~faulted'
        BY <1>i, <2>1 DEF TimersInv, DisposedInv
  <2> QED BY <2>4, <2>5 DEF BackInv
<1>3. ASSUME NEW s \in Sessions, NEW c \in Contexts, socketState[s] = "open", s \in negotiating,
             conn' = c, bound' = [bound EXCEPT ![c] = s], owner' = [owner EXCEPT ![s] = c],
             listening' = listening \cup {s}, timers' = <<>>, negotiating' = negotiating \ {s},
             UNCHANGED <<sid, socketState>>
      PROVE  ContextInv' /\ TimersInv'
  <2>1. \A t \in Sessions : Live(t)' = Live(t)
        BY <1>3 DEF Live
  <2>2. Live(s) /\ s = sid
        BY <1>3, <1>i DEF Live, ContextInv
  <2>3. owner'[s] = c /\ bound'[c] = s
        BY <1>3, <1>t
  <2>4. ASSUME NEW t \in Sessions
        PROVE  /\ (Live(t) => t = sid)'
               /\ (socketState[t] \in {"none", "validating"} => owner[t] = NoContext /\ t \notin negotiating)'
               /\ (t \in negotiating => owner[t] = NoContext)'
               /\ (Live(t) /\ owner[t] # NoContext =>
                      conn = owner[t] /\ timers = <<>> /\ bound[conn] = t /\ t \in listening)'
    <3>1. CASE t = s
          BY <1>3, <2>2, <2>3, <3>1
    <3>2. CASE t # s
      <4>1. owner'[t] = owner[t] /\ ~Live(t)
            BY <1>3, <1>t, <1>i, <2>2, <3>2 DEF ContextInv
      <4> QED BY <1>3, <1>i, <2>1, <3>2, <4>1 DEF ContextInv
    <3> QED BY <3>1, <3>2
  <2> QED BY <1>3, <1>t, <2>1, <2>2, <2>3, <2>4 DEF ContextInv, TimersInv
<1>4. ASSUME NEW s \in Sessions, HandleInitialConnect(s)
      PROVE  BackInv'
  <2>1. socketState[s] = "open" /\ s \in negotiating /\ owner[s] = NoContext
        BY <1>4, <1>i DEF HandleInitialConnect, ServerReceives, ContextInv
  <2>2. timers' = <<>>
    <3>1. CASE conn # NoContext
          BY <1>4, <1>i, <3>1, CancelledTimers DEF HandleInitialConnect, Cancelled
    <3>2. CASE conn = NoContext
          BY <1>4, <1>i, <3>2 DEF HandleInitialConnect, TimersInv
    <3> QED BY <3>1, <3>2
  <2>3. ContextInv' /\ TimersInv'
        BY <1>3, <1>4, <1>t, <2>1, <2>2 DEF HandleInitialConnect
  <2>4. DisposedInv'
    <3>1. conn' = s /\ owner' = [owner EXCEPT ![s] = s] /\ disposed' \subseteq disposed \cup ({conn} \ {NoContext})
          BY <1>4 DEF HandleInitialConnect
    <3>2. \A c \in disposed \cup ({conn} \ {NoContext}) : c \in Sessions /\ owner[c] = c
          BY <1>t, <1>i DEF DisposedInv
    <3>3. s \notin disposed \cup ({conn} \ {NoContext})
          BY <1>t, <2>1, <3>2
    <3> QED BY <1>t, <3>1, <3>2, <3>3 DEF DisposedInv
  <2>5. ~faulted'
        BY <1>4, <1>i DEF HandleInitialConnect
  <2> QED BY <2>3, <2>4, <2>5 DEF BackInv
<1>5. ASSUME NEW s \in Sessions, HandleReconnect(s)
      PROVE  BackInv'
  <2>1. socketState[s] = "open" /\ s \in negotiating /\ owner[s] = NoContext
        BY <1>5, <1>i DEF HandleReconnect, ServerReceives, ContextInv
  <2>2. CASE conn # NoContext
    <3>1. timers' = <<>>
          BY <1>5, <1>i, <2>2, CancelledTimers DEF HandleReconnect, Cancelled
    <3>2. ContextInv' /\ TimersInv'
          BY <1>3, <1>5, <1>t, <2>1, <2>2, <3>1 DEF HandleReconnect
    <3>3. DisposedInv'
      <4>1. conn' = conn /\ owner' = [owner EXCEPT ![s] = conn] /\ disposed' = disposed
            BY <1>5, <2>2 DEF HandleReconnect
      <4>2. \A c \in disposed \cup {conn} : c \in Sessions /\ owner[c] = c
            BY <1>t, <1>i, <2>2 DEF DisposedInv
      <4>3. s \notin disposed \cup {conn}
            BY <1>t, <2>1, <4>2
      <4> QED BY <1>t, <1>i, <4>1, <4>2, <4>3 DEF DisposedInv
    <3>4. ~faulted'
          BY <1>5, <1>i DEF HandleReconnect
    <3> QED BY <3>2, <3>3, <3>4 DEF BackInv
  <2>3. CASE conn = NoContext
    <3>1. /\ UNCHANGED <<sid, socketState, owner, listening, conn, bound, disposed, timers, closeTimeout, faulted>>
          /\ negotiating' = negotiating \ {s}
          BY <1>5, <2>3 DEF HandleReconnect
    <3>2. \A t \in Sessions : Live(t)' = Live(t)
          BY <3>1 DEF Live
    <3>3. ContextInv'
          BY <1>i, <3>1, <3>2, <2>3 DEF ContextInv
    <3> QED BY <1>i, <3>1, <3>3 DEF BackInv, TimersInv, DisposedInv
  <2> QED BY <2>2, <2>3
<1>6. ASSUME NEW s \in Sessions, HandleSocketDisconnect(s)
      PROVE  BackInv'
  <2>1. /\ Live(s) /\ s = sid
        /\ socketState' = [socketState EXCEPT ![s] = "closed"]
        /\ UNCHANGED <<sid, negotiating, owner>>
        BY <1>6, <1>i DEF HandleSocketDisconnect, Live, ContextInv
  <2>2. \A t \in Sessions : ~Live(t)' /\ (t # s => socketState'[t] = socketState[t])
        BY <1>t, <1>i, <2>1 DEF Live, ContextInv
  <2>3. CASE owner[s] = NoContext
    <3>1. UNCHANGED <<listening, bound, conn, timers, closeTimeout, disposed, faulted>>
          BY <1>6, <2>3 DEF HandleSocketDisconnect
    <3>2. conn # NoContext => bound[conn] = NoSession
          BY <1>t, <1>i, <2>1, <2>3 DEF ContextInv
    <3>3. ContextInv'
          BY <1>t, <1>i, <2>1, <2>2, <2>3, <3>1, <3>2 DEF ContextInv
    <3> QED BY <1>i, <2>1, <3>1, <3>3 DEF BackInv, TimersInv, DisposedInv
  <2>4. CASE owner[s] # NoContext
    <3>1. conn = owner[s] /\ timers = <<>> /\ bound[conn] = s /\ conn \in Contexts
          BY <1>t, <1>i, <2>1, <2>4 DEF ContextInv
    <3>2. bound' = [bound EXCEPT ![conn] = NoSession]
          BY <1>6, <2>4, <3>1 DEF HandleSocketDisconnect, Disconnect
    <3>3. \/ CloseConnection(timers, closeTimeout)
          \/ UNCHANGED <<conn, disposed, faulted>> /\ timers' = Append(timers, s) /\ closeTimeout' = s
          \/ UNCHANGED <<conn, disposed, faulted, timers, closeTimeout>>
          BY <1>6, <2>4 DEF HandleSocketDisconnect
    <3>4. TimersInv'
      <4>1. CASE CloseConnection(timers, closeTimeout)
            BY <1>i, <4>1, CancelledTimers DEF CloseConnection, TimersInv
      <4>2. CASE UNCHANGED conn /\ timers' = Append(timers, s) /\ closeTimeout' = s
        <5>1. Append(<<>>, s) = <<s>>
              OBVIOUS
        <5> QED BY <1>t, <3>1, <4>2, <5>1 DEF TimersInv
      <4>3. CASE UNCHANGED <<conn, timers, closeTimeout>>
            BY <1>i, <4>3 DEF TimersInv
      <4> QED BY <3>3, <4>1, <4>2, <4>3
    <3>5. conn' = conn \/ conn' = NoContext
          BY <3>3 DEF CloseConnection
    <3>6. ContextInv'
          BY <1>t, <1>i, <2>1, <2>2, <3>1, <3>2, <3>5 DEF ContextInv
    <3>7. DisposedInv' /\ ~faulted'
      <4>1. CASE CloseConnection(timers, closeTimeout)
            BY <1>t, <1>i, <2>1, <3>1, <4>1 DEF CloseConnection, DisposedInv
      <4>2. CASE UNCHANGED <<conn, disposed, faulted>>
            BY <1>i, <2>1, <4>2 DEF DisposedInv
      <4> QED BY <3>3, <4>1, <4>2
    <3> QED BY <3>4, <3>6, <3>7 DEF BackInv
  <2> QED BY <2>3, <2>4
<1>7. CASE CloseTimeoutExpires
  <2>1. timers # <<>> /\ conn # NoContext
        BY <1>7, <1>i DEF CloseTimeoutExpires, TimersInv
  <2>2. /\ timers' = <<>> /\ conn' = NoContext /\ disposed' = disposed \cup ({conn} \ {NoContext})
        /\ faulted' = (faulted \/ conn = NoContext)
        /\ UNCHANGED <<sid, socketState, negotiating, owner, listening, bound>>
        BY <1>7, <1>i, <2>1, CancelledTimers DEF CloseTimeoutExpires, CloseConnection
  <2>3. \A t \in Sessions : Live(t)' = Live(t) /\ (Live(t) => owner[t] = NoContext)
        BY <1>i, <2>1, <2>2 DEF Live, ContextInv
  <2>4. ContextInv'
        BY <1>i, <2>2, <2>3 DEF ContextInv
  <2>5. TimersInv' /\ DisposedInv' /\ ~faulted'
        BY <1>t, <1>i, <2>1, <2>2 DEF TimersInv, DisposedInv
  <2> QED BY <2>4, <2>5 DEF BackInv
<1>8. CASE UNCHANGED <<sid, socketState, negotiating, owner, listening, conn, bound, disposed,
                       timers, closeTimeout, faulted>>
      BY <1>8, BackUnchanged
<1> QED BY <1>1, <1>2, <1>4, <1>5, <1>6, <1>7, <1>8
        DEF Next, FrontEnd, BackEnd, Environment, vars, Reload, ClientDisconnect, HandleInitialReply,
            HandleReconnected, HandleReconnectRefused, HandleClientData, MissPacket, IgnoreRequest,
            HandleServerData, ClientWrite, AboutToClose, ServerWrite, Break

LEMMA BackAlways ==
    ASSUME LateDisconnect = FALSE
    PROVE  Spec => [](TypeOK /\ UpInv /\ ReplyInv /\ ListenersInv /\ BackInv)
<1>1. Init => BackInv
  <2> SUFFICES ASSUME Init PROVE BackInv
      OBVIOUS
  <2>1. \A s \in Sessions : socketState[s] = "none" /\ owner[s] = NoContext
        BY DEF Init
  <2>2. NoContext \notin disposed /\ negotiating = {} /\ conn = NoContext /\ sid = 0 /\ timers = <<>> /\ ~faulted
        BY DEF Init
  <2>3. \A c \in disposed : FALSE
        BY DEF Init
  <2> QED BY <2>1, <2>2, <2>3 DEF BackInv, ContextInv, TimersInv, DisposedInv, Live
<1>2. TypeOK /\ UpInv /\ ReplyInv /\ BackInv /\ [Next]_vars => BackInv'
      BY BackNext
<1> QED BY <1>1, <1>2, RepliesAlways, PTL DEF Spec

\* closeConnection never runs without a connection, neither in a disconnect
\* handler nor in a close timeout that outlived its context.
THEOREM CloseHasConnection ==
    ASSUME LateDisconnect = FALSE
    PROVE  Spec => []CloseConnectionHasConnection
<1>1. BackInv => CloseConnectionHasConnection
      BY DEF BackInv, CloseConnectionHasConnection
<1> QED BY <1>1, BackAlways, PTL

\* A context whose socket is connected is discarded only for a new one.
THEOREM ConnectedContextKept ==
    ASSUME LateDisconnect = FALSE
    PROVE  Spec => ConnectedContextIsKept
<1> DEFINE Kept == (conn # NoContext /\ bound[conn] \in Sessions \ ended) => conn' # NoContext
<1>1. TypeOK /\ BackInv /\ [Next]_vars => [Kept]_vars
  <2> SUFFICES ASSUME TypeOK, BackInv, Next, conn # NoContext, bound[conn] \in Sessions \ ended
               PROVE  conn' # NoContext
      OBVIOUS
  <2> USE DEF frontend, backend, history, network
  <2>0. Sessions = Contexts /\ NoContext \notin Sessions /\ NoSession \notin Sessions
        BY DEF Contexts, Sessions, NoContext, NoSession
  <2>1. /\ Live(bound[conn]) /\ owner[bound[conn]] = conn
        /\ timers = <<>>
        BY <2>0 DEF BackInv, ContextInv
  <2>2. ASSUME NEW s \in Sessions, HandleSocketDisconnect(s)
        PROVE  conn' # NoContext
    <3>1. s \in ended /\ Live(s)
          BY <2>2 DEF HandleSocketDisconnect, Live
    <3>2. FALSE
          BY <2>1, <3>1 DEF BackInv, ContextInv
    <3> QED BY <3>2
  <2>3. ASSUME NEW s \in Sessions, HandleInitialConnect(s)
        PROVE  conn' # NoContext
        BY <2>0, <2>3 DEF HandleInitialConnect
  <2>4. CASE CloseTimeoutExpires
        BY <2>1, <2>4 DEF CloseTimeoutExpires
  <2>5. CASE UNCHANGED conn
        BY <2>5
  <2> QED BY <2>2, <2>3, <2>4, <2>5
        DEF Next, FrontEnd, BackEnd, Environment, Reload, Connect, ClientDisconnect, HandleInitialReply,
            HandleReconnected, HandleReconnectRefused, HandleClientData, Accept, MissPacket, IgnoreRequest,
            HandleReconnect, HandleServerData, ClientWrite, AboutToClose, ServerWrite, Break
<1> QED BY <1>1, BackAlways, PTL DEF Spec, ConnectedContextIsKept

-------------------------------------------------------------------------------
(***************************************************************************)
(* A mark for close.                                                       *)
(***************************************************************************)
\* A mark is there only while the socket it came on is live, and that socket
\* serves the current context; whoever connects next finds it deleted.  A context
\* that is kept for ever has no timer.
MarkInv ==
    /\ \A s \in listening : owner[s] # NoContext
    /\ ConnectionTimeout = "never" => timers = <<>>
    /\ marked => sid # 0 /\ Live(sid) /\ owner[sid] # NoContext /\ marker = conn

LEMMA MarkNext ==
    ASSUME LateDisconnect = FALSE
    PROVE  TypeOK /\ UpInv /\ BackInv /\ MarkInv /\ [Next]_vars => MarkInv'
<1> SUFFICES ASSUME TypeOK, UpInv, BackInv, MarkInv, [Next]_vars PROVE MarkInv'
    OBVIOUS
<1> USE DEF frontend, backend, history, network, ConnectionTimeout
<1>t. /\ Contexts = Sessions /\ NoContext \notin Sessions /\ NoContext = 0
      /\ sid \in 0 .. MaxSessions /\ MaxSessions \in Nat
      /\ listening \subseteq Sessions /\ Sessions = 1 .. MaxSessions
      /\ owner \in [Sessions -> Contexts \cup {NoContext}]
      /\ conn \in Contexts \cup {NoContext}
  <2>1. /\ Contexts = Sessions /\ NoContext \notin Sessions /\ NoContext = 0
        /\ Sessions = 1 .. MaxSessions /\ MaxSessions \in Nat
        BY BoundsAssumption DEF Contexts, Sessions, NoContext
  <2>2. sid \in 0 .. MaxSessions
        BY DEF TypeOK
  <2>3. BackTypes
        BY TypeParts
  <2> QED BY <2>1, <2>2, <2>3 DEF BackTypes
<1>s. socketState \in [Sessions -> {"none", "validating", "open", "closed"}]
      BY DEF TypeOK
<1>l. \A s \in Sessions : Live(s) => s = sid
      BY DEF BackInv, ContextInv
<1>1. CASE Connect
  <2>1. \A t \in 1 .. sid : socketState[t] = "closed"
        BY <1>1, LateDisconnect = FALSE DEF Connect
  <2>2. ASSUME marked PROVE FALSE
    <3>1. sid \in 1 .. sid /\ socketState[sid] # "closed"
          BY <1>t, <2>2 DEF MarkInv, Live
    <3> QED BY <2>1, <3>1
  <2>3. UNCHANGED <<config, owner, listening, timers, marked>>
        BY <1>1 DEF Connect
  <2> QED BY <2>2, <2>3 DEF MarkInv
<1>2. ASSUME NEW s \in Sessions, Accept(s)
      PROVE  MarkInv'
  <2>1. Live(s) /\ s = sid /\ owner[s] = NoContext
        BY <1>2, <1>l DEF Accept, Live, BackInv, ContextInv
  <2>2. ~marked
        BY <2>1 DEF MarkInv
  <2>3. UNCHANGED <<config, owner, listening, timers, marked>>
        BY <1>2 DEF Accept
  <2> QED BY <2>2, <2>3 DEF MarkInv
<1>3. ASSUME NEW s \in Sessions, HandleInitialConnect(s) \/ HandleReconnect(s)
      PROVE  MarkInv'
  <2>1. Live(s) /\ s = sid /\ owner[s] = NoContext
        BY <1>3, <1>l DEF HandleInitialConnect, HandleReconnect, ServerReceives, Live, BackInv, ContextInv
  <2>2. ~marked /\ ~marked'
    <3>1. ~marked
          BY <2>1 DEF MarkInv
    <3>2. marked' = marked
          BY <1>3 DEF HandleInitialConnect, HandleReconnect
    <3> QED BY <3>1, <3>2
  <2>3. timers' = timers \/ timers' = <<>>
        BY <1>3, CancelledTimers DEF HandleInitialConnect, HandleReconnect, Cancelled, BackInv
  <2>4. \A t \in listening' : owner'[t] # NoContext
    <3>1. CASE UNCHANGED <<owner, listening>>
          BY <3>1 DEF MarkInv
    <3>2. ASSUME NEW c \in Contexts, listening' = listening \cup {s}, owner' = [owner EXCEPT ![s] = c]
          PROVE  \A t \in listening' : owner'[t] # NoContext
          BY <1>t, <3>2 DEF MarkInv
    <3>3. CASE HandleInitialConnect(s)
          BY <1>t, <3>2, <3>3 DEF HandleInitialConnect
    <3>4. CASE HandleReconnect(s) /\ conn # NoContext
          BY <1>t, <3>2, <3>4 DEF HandleReconnect
    <3>5. CASE HandleReconnect(s) /\ conn = NoContext
          BY <3>1, <3>5 DEF HandleReconnect
    <3> QED BY <1>3, <3>3, <3>4, <3>5
  <2>5. UNCHANGED config
        BY <1>3 DEF HandleInitialConnect, HandleReconnect
  <2> QED BY <2>2, <2>3, <2>4, <2>5 DEF MarkInv
<1>4. ASSUME NEW s \in Sessions, HandleServerData(s)
      PROVE  MarkInv'
  <2>1. UNCHANGED <<config, sid, socketState, owner, listening, conn, timers>>
        BY <1>4 DEF HandleServerData
  <2>2. CASE UNCHANGED <<marked, marker>>
        BY <2>1, <2>2 DEF MarkInv, Live
  <2>3. CASE s \in listening /\ marker' = owner[s]
    <3>1. Live(s) /\ s = sid /\ owner[s] # NoContext
          BY <1>4, <1>l, <2>3 DEF HandleServerData, ServerReceives, Live, MarkInv
    <3>2. conn = owner[s]
          BY <3>1 DEF BackInv, ContextInv
    <3>3. sid # 0
          BY <1>t, <3>1
    <3> QED BY <2>1, <2>3, <3>1, <3>2, <3>3 DEF MarkInv, Live
  <2> QED BY <1>4, <2>2, <2>3 DEF HandleServerData
<1>5. ASSUME NEW s \in Sessions, HandleSocketDisconnect(s)
      PROVE  MarkInv'
  <2>1. s = sid /\ UNCHANGED <<config, sid, owner>>
        BY <1>5, <1>l DEF HandleSocketDisconnect, Live
  <2>2. ~marked'
    <3>1. CASE owner[s] = NoContext
          BY <1>5, <2>1, <3>1 DEF HandleSocketDisconnect, MarkInv
    <3>2. CASE owner[s] # NoContext
          BY <1>5, <3>2 DEF HandleSocketDisconnect, Disconnect
    <3> QED BY <3>1, <3>2
  <2>3. listening' \subseteq listening
        BY <1>5 DEF HandleSocketDisconnect, Disconnect
  <2>4. timers' = timers \/ timers' = <<>> \/ ConnectionTimeout = "finite"
        BY <1>5, CancelledTimers DEF HandleSocketDisconnect, CloseConnection, BackInv
  <2> QED BY <2>1, <2>2, <2>3, <2>4 DEF MarkInv
<1>6. CASE CloseTimeoutExpires
  <2>1. timers # <<>> /\ timers' = <<>>
        BY <1>6, CancelledTimers DEF CloseTimeoutExpires, CloseConnection, BackInv
  <2>2. ~marked
    <3>1. ASSUME marked PROVE FALSE
      <4>1. sid \in Sessions /\ Live(sid) /\ owner[sid] # NoContext
            BY <1>t, <3>1 DEF MarkInv
      <4> QED BY <2>1, <4>1 DEF BackInv, ContextInv
    <3> QED BY <3>1
  <2>3. UNCHANGED <<config, owner, listening, marked>>
        BY <1>6 DEF CloseTimeoutExpires
  <2> QED BY <2>1, <2>2, <2>3 DEF MarkInv
<1>7. CASE UNCHANGED <<config, sid, socketState, owner, listening, conn, timers, marked, marker>>
      BY <1>7 DEF MarkInv, Live
<1> QED BY <1>1, <1>2, <1>3, <1>4, <1>5, <1>6, <1>7
        DEF Next, FrontEnd, BackEnd, Environment, vars, Reload, ClientDisconnect, HandleInitialReply,
            HandleReconnected, HandleReconnectRefused, HandleClientData, MissPacket, IgnoreRequest,
            ClientWrite, AboutToClose, ServerWrite, Break

\* An application that keeps contexts for ever loses one only to the mark its own
\* window set, never to one that an earlier page of the same window left.
THEOREM MarkedContextsOnly ==
    ASSUME LateDisconnect = FALSE
    PROVE  Spec => MarkClosesItsOwnContext
<1> DEFINE Own == (ConnectionTimeout = "never" /\ conn # NoContext /\ conn' = NoContext) => marker = conn
<1>1. Init => MarkInv
      BY DEF Init, MarkInv
<1>2. TypeOK /\ UpInv /\ BackInv /\ MarkInv /\ [Next]_vars => MarkInv'
      BY MarkNext
<1>3. MarkInv /\ [Next]_vars => [Own]_vars
  <2> SUFFICES ASSUME MarkInv, Next, ConnectionTimeout = "never", conn # NoContext, conn' = NoContext
               PROVE  marker = conn
      OBVIOUS
  <2> USE DEF frontend, backend, history, network, ConnectionTimeout
  <2>1. ASSUME NEW s \in Sessions, HandleSocketDisconnect(s)
        PROVE  marked
        BY <2>1 DEF HandleSocketDisconnect
  <2>2. ~CloseTimeoutExpires
        BY DEF CloseTimeoutExpires, MarkInv
  <2>3. ASSUME NEW s \in Sessions, HandleInitialConnect(s)
        PROVE  FALSE
        BY <2>3 DEF HandleInitialConnect, Sessions, NoContext
  <2>4. CASE UNCHANGED conn
        BY <2>4
  <2> QED BY <2>1, <2>2, <2>3, <2>4
          DEF MarkInv, Next, FrontEnd, BackEnd, Environment, Reload, Connect, ClientDisconnect,
              HandleInitialReply, HandleReconnected, HandleReconnectRefused, HandleClientData, Accept,
              MissPacket, IgnoreRequest, HandleReconnect, HandleServerData, ClientWrite, AboutToClose,
              ServerWrite, Break
<1> QED BY <1>1, <1>2, <1>3, BackAlways, PTL DEF Spec, MarkClosesItsOwnContext

-------------------------------------------------------------------------------
(***************************************************************************)
(* A front end that has negotiated is served.  What ties the two sides     *)
(* together: a request that may still be answered has a listener waiting   *)
(* for the answer; an answer finds its listener; an accepted socket without *)
(* a context is one whose refusal is still travelling; and the context the *)
(* back end keeps is the one the front end believes in.                    *)
(***************************************************************************)
Negotiation == {"initial", "reconnect"}
Refusal == [type |-> "reconnect", found |-> FALSE]

Says(q, type) == \E i \in DOMAIN q : q[i].type = type
Refused(q) == \E i \in DOMAIN q : q[i] = Refusal

\* A request that may still be answered has its listener, unless the page that
\* sent it is gone.
RequestInv ==
    /\ outbox > 0 => initialListeners > 0 /\ ~up
    /\ sid # 0 /\ Unanswered(sid) =>
          /\ Says(toServer[sid], "initial") => initialListeners > 0 \/ (epoch = NoContext /\ ~up)
          /\ up /\ Says(toServer[sid], "reconnect") => reconnectListeners > 0

\* An answer finds the listener of its kind.
AnswerInv ==
    up => /\ Says(toClient[sid], "initial") => initialListeners > 0
          /\ Says(toClient[sid], "reconnect") => reconnectListeners > 0

\* An initial reply names the context of the session it travels on.
NamesInv == \A s \in Sessions : Says(toClient[s], "initial") => owner[s] = s

\* A socket that negotiated without obtaining a context was refused one.
RefusalInv ==
    up /\ sid \notin ended \cup negotiating /\ socketState[sid] = "open" /\ owner[sid] = NoContext
        => Refused(toClient[sid])

\* Both sides mean the same context.
AgreementInv == conn # NoContext /\ epoch # NoContext /\ ~closed => conn = epoch

LEMMA SaysInTail ==
    ASSUME NEW S, NEW q \in Seq(S), q # <<>>
    PROVE  /\ \A type \in Negotiation : Says(Tail(q), type) => Says(q, type)
           /\ Refused(q) /\ Head(q) # Refusal => Refused(Tail(q))
           /\ Refused(q) => Says(q, "reconnect")
<1> DEFINE r == Tail(q)
<1>1. /\ Head(q) = q[1]
      /\ \A i \in DOMAIN r : i + 1 \in DOMAIN q /\ r[i] = q[i + 1]
      BY TailFacts
<1>2. \A i \in DOMAIN q : i # 1 => i - 1 \in DOMAIN r /\ q[i] = r[i - 1]
  <2>1. Len(q) \in Nat /\ DOMAIN q = 1 .. Len(q) /\ DOMAIN r = 1 .. Len(q) - 1
        OBVIOUS
  <2>2. \A i \in DOMAIN q : i # 1 => i - 1 \in DOMAIN r /\ (i - 1) + 1 = i
        BY <2>1
  <2> HIDE DEF r
  <2> QED BY <1>1, <2>2
<1> HIDE DEF r
<1>3. \A type \in Negotiation : Says(r, type) => Says(q, type)
      BY <1>1 DEF Says
<1>4. Refused(q) /\ Head(q) # Refusal => Refused(r)
  <2> SUFFICES ASSUME NEW i \in DOMAIN q, q[i] = Refusal, Head(q) # Refusal PROVE Refused(r)
      BY DEF Refused
  <2>1. i # 1
        BY <1>1
  <2> QED BY <1>2, <2>1 DEF Refused
<1>5. Refused(q) => Says(q, "reconnect")
  <2>1. Refusal.type = "reconnect"
        BY DEF Refusal
  <2> QED BY <2>1 DEF Refused, Says
<1> QED BY <1>3, <1>4, <1>5 DEF r

LEMMA SaysInSent ==
    ASSUME NEW S, NEW q \in Seq(S), NEW r \in Seq(S)
    PROVE  /\ \A type \in Negotiation : Says(q \o r, type) <=> Says(q, type) \/ Says(r, type)
           /\ Refused(q) \/ Refused(r) => Refused(q \o r)
<1> DEFINE p == q \o r
<1>1. \A i \in DOMAIN p : \/ i \in DOMAIN q /\ p[i] = q[i]
                          \/ i - Len(q) \in DOMAIN r /\ p[i] = r[i - Len(q)]
      OBVIOUS
<1>2. \A i \in DOMAIN q : i \in DOMAIN p /\ p[i] = q[i]
      OBVIOUS
<1>3. \A i \in DOMAIN r : i + Len(q) \in DOMAIN p /\ p[i + Len(q)] = r[i]
      OBVIOUS
<1> HIDE DEF p
<1>4. \A type : Says(p, type) => Says(q, type) \/ Says(r, type)
      BY <1>1 DEF Says
<1>5. \A type : Says(q, type) => Says(p, type)
      BY <1>2 DEF Says
<1>6. \A type : Says(r, type) => Says(p, type)
      BY <1>3 DEF Says
<1>7. Refused(q) => Refused(p)
      BY <1>2 DEF Refused
<1>8. Refused(r) => Refused(p)
      BY <1>3 DEF Refused
<1> QED BY <1>4, <1>5, <1>6, <1>7, <1>8 DEF p

LEMMA SaysOfPackets ==
    /\ \A type \in Negotiation : ~Says(<<>>, type)
    /\ \A blob \in Blob : \A type \in Negotiation : ~Says(<<Data(blob)>>, type)
    /\ \A found \in BOOLEAN : ~Says(ReconnectReply(found), "initial")
    /\ Refused(ReconnectReply(FALSE))
<1>1. \A type \in Negotiation : ~Says(<<>>, type)
      BY DEF Says
<1>2. \A blob \in Blob : \A type \in Negotiation : ~Says(<<Data(blob)>>, type)
      BY DEF Says, Data, Negotiation
<1>3. \A found \in BOOLEAN : ~Says(ReconnectReply(found), "initial")
      BY DEF Says, ReconnectReply
<1>4. ReconnectReply(FALSE) = <<Refusal>>
      BY DEF ReconnectReply, Refusal
<1>5. \A x : 1 \in DOMAIN <<x>> /\ <<x>>[1] = x
      OBVIOUS
<1>6. Refused(ReconnectReply(FALSE))
      BY <1>4, <1>5 DEF Refused
<1> QED BY <1>1, <1>2, <1>3, <1>6

LEMMA ReconnectionSaysNoInitial ==
    ASSUME TypeOK, NEW c \in Contexts
    PROVE  ~Says(Reconnection(c), "initial")
<1> DEFINE tail == IF socketBuffer[c] = <<>> THEN <<>> ELSE <<Data(socketBuffer[c])>>
<1>1. socketBuffer[c] \in Seq(Item)
      BY DEF TypeOK
<1>2. ~Says(tail, "initial") /\ tail \in Seq(ServerPacket)
  <2>1. CASE socketBuffer[c] = <<>>
    <3>1. tail = <<>>
          BY <2>1
    <3> QED BY <3>1, SaysOfPackets DEF Negotiation
  <2>2. CASE socketBuffer[c] # <<>>
    <3>1. socketBuffer[c] \in Blob /\ tail = <<Data(socketBuffer[c])>>
          BY <1>1, <2>2 DEF Blob
    <3> QED BY <3>1, ServerPackets, SaysOfPackets DEF Negotiation
  <2> QED BY <2>1, <2>2
<1>3. ReconnectReply(TRUE) \in Seq(ServerPacket) /\ ~Says(ReconnectReply(TRUE), "initial")
      BY ServerPackets, SaysOfPackets
<1> HIDE DEF tail
<1>4. ~Says(ReconnectReply(TRUE) \o tail, "initial")
      BY <1>2, <1>3, SaysInSent DEF Negotiation
<1> QED BY <1>4 DEF Reconnection, tail

\* A session with a reply on its way has been answered.
LEMMA AnsweredSession ==
    ASSUME TypeOK, ReplyInv, NEW s \in Sessions, toClient[s] # <<>>, Head(toClient[s]).type # "data"
    PROVE  ~Unanswered(s) /\ NoReply(Tail(toClient[s]))
<1>1. toClient[s] \in Seq(ServerPacket)
      BY DEF TypeOK
<1>2. ~NoReply(toClient[s])
      BY <1>1, TailFacts DEF NoReply
<1> QED BY <1>1, <1>2, ReplyInTail DEF ReplyInv

LEMMA NothingSaid ==
    ASSUME NEW q, NoReply(q)
    PROVE  (\A type \in Negotiation : ~Says(q, type)) /\ ~Refused(q)
<1>1. Refusal.type = "reconnect"
      BY DEF Refusal
<1> QED BY <1>1 DEF NoReply, Says, Refused, Negotiation

\* A step that sends no request; a step that sends no answer.
RequestsKept ==
    \A s \in Sessions : \A type \in Negotiation : Says(toServer'[s], type) => Says(toServer[s], type)
AnswersKept ==
    \A s \in Sessions : \A type \in Negotiation : Says(toClient'[s], type) => Says(toClient[s], type)

LEMMA RequestsKeptWhen ==
    ASSUME TypeOK, NEW s \in Sessions
    PROVE  /\ UNCHANGED toServer => RequestsKept
           /\ toServer' = [toServer EXCEPT ![s] = <<>>] => RequestsKept
           /\ toServer[s] # <<>> /\ toServer' = [toServer EXCEPT ![s] = Tail(toServer[s])] => RequestsKept
           /\ \A blob \in Blob : toServer' = SentToServer(s, <<Data(blob)>>) => RequestsKept
<1>1. toServer \in [Sessions -> Seq(ClientPacket)]
      BY DEF TypeOK
<1>2. \A type \in Negotiation : ~Says(<<>>, type)
      BY SaysOfPackets
<1>3. UNCHANGED toServer => RequestsKept
      BY DEF RequestsKept
<1>4. toServer' = [toServer EXCEPT ![s] = <<>>] => RequestsKept
      BY <1>1, <1>2 DEF RequestsKept
<1>5. toServer[s] # <<>> /\ toServer' = [toServer EXCEPT ![s] = Tail(toServer[s])] => RequestsKept
      BY <1>1, SaysInTail DEF RequestsKept
<1>6. ASSUME NEW blob \in Blob, toServer' = SentToServer(s, <<Data(blob)>>)
      PROVE  RequestsKept
  <2> DEFINE r == <<Data(blob)>>
  <2>1. r \in Seq(ClientPacket)
        BY DataPacket
  <2>2. \A type \in Negotiation : ~Says(r, type)
        BY SaysOfPackets
  <2>3. toServer' = SentToServer(s, r)
        BY <1>6
  <2> HIDE DEF r
  <2>4. \A type \in Negotiation : Says(toServer[s] \o r, type) => Says(toServer[s], type)
        BY <1>1, <2>1, <2>2, SaysInSent
  <2> QED BY <1>1, <2>3, <2>4 DEF RequestsKept, SentToServer
<1> QED BY <1>3, <1>4, <1>5, <1>6

LEMMA NoRequestSent == TypeOK /\ UpInv /\ [Next]_vars => RequestsKept \/ Connect
<1> SUFFICES ASSUME TypeOK, UpInv, [Next]_vars, ~Connect PROVE RequestsKept
    OBVIOUS
<1> USE DEF frontend, backend, history, network
<1>u. \E s \in Sessions : TRUE
      BY BoundsAssumption DEF Sessions
<1>1. CASE UNCHANGED toServer
      BY <1>1, <1>u, RequestsKeptWhen
<1>2. ASSUME NEW s \in Sessions, toServer[s] # <<>>,
             toServer' = [toServer EXCEPT ![s] = Tail(toServer[s])]
      PROVE  RequestsKept
      BY <1>2, RequestsKeptWhen
<1>3. ASSUME NEW s \in Sessions, BackEnd(s) \/ MissPacket(s)
      PROVE  RequestsKept
  <2>1. CASE Accept(s)
        BY <1>1, <2>1 DEF Accept
  <2>2. CASE MissPacket(s) \/ IgnoreRequest(s)
        BY <1>2, <2>2 DEF MissPacket, IgnoreRequest, ServerReceives
  <2>3. CASE HandleInitialConnect(s) \/ HandleReconnect(s) \/ HandleServerData(s)
        BY <1>2, <2>3 DEF HandleInitialConnect, HandleReconnect, HandleServerData, ServerReceives
  <2>4. CASE HandleSocketDisconnect(s)
        BY <2>4, RequestsKeptWhen DEF HandleSocketDisconnect
  <2> QED BY <1>3, <2>1, <2>2, <2>3, <2>4 DEF BackEnd
<1>4. CASE HandleReconnected
  <2>1. sid \in Sessions
        BY <1>4 DEF HandleReconnected, ClientReceives, UpInv
  <2>2. CASE writeBuffer # <<>> /\ toServer' = SentToServer(sid, <<Data(writeBuffer)>>)
    <3>1. writeBuffer \in Blob
          BY <2>2 DEF TypeOK, Blob
    <3> QED BY <2>1, <2>2, <3>1, RequestsKeptWhen
  <2> QED BY <1>1, <1>4, <2>2 DEF HandleReconnected
<1>5. ASSUME NEW c, NEW n \in Nat, ClientCommits(c, n)
      PROVE  RequestsKept
  <2>1. CASE up /\ toServer' = SentToServer(sid, <<Data(<<ClientItem(c, n)>>)>>)
    <3> DEFINE blob == <<ClientItem(c, n)>>
    <3>1. c \in Contexts
          BY <1>5 DEF ClientCommits, TypeOK
    <3>2. blob \in Blob
          BY <3>1, ItemBlob
    <3> QED BY <2>1, <3>2, RequestsKeptWhen DEF UpInv
  <2> QED BY <1>1, <1>5, <2>1 DEF ClientCommits, ClientItem
<1>6. CASE ClientWrite
  <2>1. written["client"] + 1 \in Nat
    <3>1. MaxWrites[config] \in Nat
          BY ConfigurationAssumption DEF TypeOK
    <3>2. HistoryTypes
          BY TypeParts
    <3> QED BY <3>1, <3>2 DEF HistoryTypes
  <2> QED BY <1>5, <1>6, <2>1 DEF ClientWrite
<1>7. CASE AboutToClose
      BY <1>5, <1>7 DEF AboutToClose, MarkForClose
<1> QED BY <1>1, <1>3, <1>4, <1>6, <1>7
        DEF Next, FrontEnd, Environment, vars, Reload, ClientDisconnect, HandleInitialReply,
            HandleReconnectRefused, HandleClientData, CloseTimeoutExpires, ServerWrite, Break

LEMMA AnswersKeptWhen ==
    ASSUME TypeOK, NEW s \in Sessions
    PROVE  /\ UNCHANGED toClient => AnswersKept
           /\ toClient' = [toClient EXCEPT ![s] = <<>>] => AnswersKept
           /\ toClient' = [t \in Sessions |-> <<>>] => AnswersKept
           /\ toClient[s] # <<>> /\ toClient' = [toClient EXCEPT ![s] = Tail(toClient[s])] => AnswersKept
           /\ \A blob \in Blob : toClient' = SentToClient(s, <<Data(blob)>>) =>
                 AnswersKept /\ (\A t \in Sessions : Refused(toClient[t]) => Refused(toClient'[t]))
<1>1. toClient \in [Sessions -> Seq(ServerPacket)]
      BY DEF TypeOK
<1>2. \A type \in Negotiation : ~Says(<<>>, type)
      BY SaysOfPackets
<1>3. UNCHANGED toClient => AnswersKept
      BY DEF AnswersKept
<1>4. toClient' = [toClient EXCEPT ![s] = <<>>] => AnswersKept
      BY <1>1, <1>2 DEF AnswersKept
<1>5. toClient' = [t \in Sessions |-> <<>>] => AnswersKept
      BY <1>1, <1>2 DEF AnswersKept
<1>6. toClient[s] # <<>> /\ toClient' = [toClient EXCEPT ![s] = Tail(toClient[s])] => AnswersKept
      BY <1>1, SaysInTail DEF AnswersKept
<1>7. ASSUME NEW blob \in Blob, toClient' = SentToClient(s, <<Data(blob)>>)
      PROVE  AnswersKept /\ (\A t \in Sessions : Refused(toClient[t]) => Refused(toClient'[t]))
  <2> DEFINE r == <<Data(blob)>>
  <2>1. r \in Seq(ServerPacket)
        BY DataPacket
  <2>2. \A type \in Negotiation : ~Says(r, type)
        BY SaysOfPackets
  <2>3. toClient' = SentToClient(s, r)
        BY <1>7
  <2> HIDE DEF r
  <2>4. /\ \A type \in Negotiation : Says(toClient[s] \o r, type) => Says(toClient[s], type)
        /\ Refused(toClient[s]) => Refused(toClient[s] \o r)
        BY <1>1, <2>1, <2>2, SaysInSent
  <2> QED BY <1>1, <2>3, <2>4 DEF AnswersKept, SentToClient
<1> QED BY <1>3, <1>4, <1>5, <1>6, <1>7

\* A write of the server, if it goes out at all, is one message.
LEMMA WriteSent ==
    ASSUME TypeOK, ServerWrite
    PROVE  \/ UNCHANGED toClient
           \/ \E s \in Sessions : \E blob \in Blob : toClient' = SentToClient(s, <<Data(blob)>>)
<1> SUFFICES ASSUME toClient' # toClient
             PROVE  \E s \in Sessions : \E blob \in Blob : toClient' = SentToClient(s, <<Data(blob)>>)
    OBVIOUS
<1>1. PICK c \in Contexts : /\ bound[c] # NoSession
                            /\ toClient' = SentToClient(bound[c], <<Data(<<ServerItem(c)>>)>>)
      BY DEF ServerWrite, ServerItem
<1>2. written["server"] + 1 \in Nat
  <2>1. MaxWrites[config] \in Nat
        BY ConfigurationAssumption DEF TypeOK
  <2>2. HistoryTypes
        BY TypeParts
  <2> QED BY <2>1, <2>2 DEF HistoryTypes
<1>3. <<ServerItem(c)>> \in Blob
      BY <1>2, ItemBlob
<1>4. bound[c] \in Sessions
      BY <1>1 DEF TypeOK
<1> QED BY <1>1, <1>3, <1>4

LEMMA NoAnswerSent ==
    TypeOK /\ UpInv /\ [Next]_vars
        => AnswersKept \/ \E s \in Sessions : HandleInitialConnect(s) \/ HandleReconnect(s)
<1> SUFFICES ASSUME TypeOK, UpInv, [Next]_vars,
                    ~\E s \in Sessions : HandleInitialConnect(s) \/ HandleReconnect(s)
             PROVE  AnswersKept
    OBVIOUS
<1> USE DEF frontend, backend, history, network
<1>u. \E s \in Sessions : TRUE
      BY BoundsAssumption DEF Sessions
<1>1. CASE UNCHANGED toClient
      BY <1>1, <1>u, AnswersKeptWhen
<1>2. CASE ClientDisconnect
      BY <1>2, AnswersKeptWhen DEF ClientDisconnect, UpInv
<1>3. CASE HandleInitialReply \/ HandleReconnected \/ HandleClientData
      BY <1>3, AnswersKeptWhen DEF HandleInitialReply, HandleReconnected, HandleClientData, ClientReceives, UpInv
<1>4. CASE PageLoads
      BY <1>4, <1>u, AnswersKeptWhen DEF PageLoads
<1>5. CASE HandleReconnectRefused
      BY <1>4, <1>5, AnswersKeptWhen DEF HandleReconnectRefused, ClientReceives, UpInv
<1>6. CASE ServerWrite
      BY <1>1, <1>6, WriteSent, AnswersKeptWhen
<1> QED BY <1>1, <1>2, <1>3, <1>4, <1>5, <1>6
        DEF Next, FrontEnd, BackEnd, Environment, vars, Reload, Connect, Accept, MissPacket, IgnoreRequest,
            HandleServerData, HandleSocketDisconnect, CloseTimeoutExpires, ClientWrite, AboutToClose, Break

ServedInv == RequestInv /\ AnswerInv /\ NamesInv /\ RefusalInv /\ AgreementInv
KnownInv == TypeOK /\ UpInv /\ ReplyInv /\ ListenersInv /\ BackInv

\* The page takes an answer: its session has been answered, and says no more.
LEMMA AnswerTaken ==
    ASSUME KnownInv, up, toClient[sid] # <<>>, Head(toClient[sid]).type # "data"
    PROVE  /\ sid \in Sessions /\ sid # 0 /\ ~Unanswered(sid)
           /\ Says(toClient[sid], Head(toClient[sid]).type)
           /\ toClient' = [toClient EXCEPT ![sid] = Tail(toClient[sid])] =>
                 (\A type \in Negotiation : ~Says(toClient'[sid], type)) /\ AnswersKept
<1>1. sid \in Sessions /\ sid # 0 /\ toClient \in [Sessions -> Seq(ServerPacket)]
  <2>1. sid \in Sessions
        BY DEF KnownInv, UpInv
  <2>2. toClient \in [Sessions -> Seq(ServerPacket)]
        BY DEF KnownInv, TypeOK
  <2> QED BY <2>1, <2>2 DEF Sessions
<1>2. ~Unanswered(sid) /\ NoReply(Tail(toClient[sid]))
      BY <1>1, AnsweredSession DEF KnownInv
<1>3. \A type \in Negotiation : ~Says(Tail(toClient[sid]), type)
      BY <1>2, NothingSaid
<1>4. Says(toClient[sid], Head(toClient[sid]).type)
      BY <1>1, TailFacts DEF Says
<1>5. toClient' = [toClient EXCEPT ![sid] = Tail(toClient[sid])] => AnswersKept
      BY <1>1, AnswersKeptWhen DEF KnownInv
<1> QED BY <1>1, <1>2, <1>3, <1>4, <1>5

LEMMA RequestNext == KnownInv /\ ServedInv /\ [Next]_vars => RequestInv'
<1> SUFFICES ASSUME KnownInv, ServedInv, [Next]_vars PROVE RequestInv'
    OBVIOUS
<1> USE DEF frontend, backend, history, network
<1>t. /\ TypeOK /\ UpInv /\ RequestInv /\ AnswerInv /\ ReplyInv
      /\ sid \in 0 .. MaxSessions /\ MaxSessions \in Nat
      /\ reconnectListeners \in Nat /\ initialListeners \in Nat /\ outbox \in Nat
      BY BoundsAssumption DEF KnownInv, ServedInv, TypeOK
<1>1. CASE Connect
  <2> DEFINE n == sid + 1
             buffered == [i \in 1 .. outbox |-> [type |-> "initial"]]
             sent == Append(buffered, [type |-> Request])
  <2>1. toServer'[n] = sent
        BY <1>1, <1>t DEF Connect, TypeOK
  <2>2. sid' = n /\ up' /\ outbox' = 0
        BY <1>1 DEF Connect
  <2>3. \A i \in DOMAIN sent : (sent[i].type = "initial" /\ outbox > 0) \/ sent[i].type = Request
        BY <1>t
  <2>4. Says(sent, "initial") => initialListeners' > 0
    <3>1. outbox > 0 => initialListeners' > 0
          BY <1>1, <1>t DEF Connect, RequestInv
    <3>2. Request = "initial" => initialListeners' > 0
          BY <1>1, <1>t DEF Connect
    <3> HIDE DEF sent
    <3> QED BY <2>3, <3>1, <3>2 DEF Says
  <2>5. Says(sent, "reconnect") => reconnectListeners' > 0
    <3>1. Request = "reconnect" => reconnectListeners' > 0
          BY <1>1, <1>t DEF Connect
    <3> HIDE DEF sent
    <3> QED BY <2>3, <3>1 DEF Says
  <2> HIDE DEF sent, n
  <2> QED BY <2>1, <2>2, <2>4, <2>5 DEF RequestInv
<1>2. CASE RequestsKept /\ sid' = sid /\ (Unanswered(sid)' => Unanswered(sid))
           /\ UNCHANGED <<up, epoch, reconnectListeners, initialListeners, outbox>>
  <2>1. sid # 0 => sid \in Sessions
        BY <1>t DEF Sessions
  <2> QED BY <1>2, <1>t, <2>1 DEF RequestInv, RequestsKept, Negotiation
<1>3. CASE ClientDisconnect
  <2>1. /\ UNCHANGED <<toServer, sid, epoch, reconnectListeners, initialListeners, outbox, negotiating, socketState>>
        /\ up /\ ~up'
        BY <1>3 DEF ClientDisconnect
  <2> QED BY <1>t, <2>1 DEF RequestInv, Unanswered
<1>4. CASE HandleInitialReply
  <2>1. /\ up /\ up' /\ toClient[sid] # <<>> /\ Head(toClient[sid]).type # "data"
        /\ UNCHANGED <<sid, outbox, negotiating, socketState>>
        BY <1>4 DEF HandleInitialReply, ClientReceives
  <2>2. ~Unanswered(sid)
        BY <2>1, AnswerTaken
  <2> QED BY <1>t, <2>1, <2>2 DEF RequestInv, Unanswered
<1>5. CASE HandleReconnected
  <2>1. /\ up /\ toClient[sid] # <<>> /\ Head(toClient[sid]).type # "data"
        /\ UNCHANGED <<sid, up, outbox, initialListeners, negotiating, socketState>>
        BY <1>5 DEF HandleReconnected, ClientReceives
  <2>2. ~Unanswered(sid)
        BY <2>1, AnswerTaken
  <2> QED BY <1>t, <2>1, <2>2 DEF RequestInv, Unanswered
<1>6. CASE PageLoads
      BY <1>6 DEF PageLoads, RequestInv
<1>7. CASE HandleReconnectRefused
  <2>1. /\ up /\ toClient[sid] # <<>> /\ Head(toClient[sid]).type # "data"
        /\ UNCHANGED <<sid, negotiating, socketState>>
        BY <1>7 DEF HandleReconnectRefused, ClientReceives
  <2>2. ~Unanswered(sid) /\ ~Unanswered(sid)'
        BY <2>1, AnswerTaken DEF Unanswered
  <2>3. CASE reconnectListeners > 0 /\ ~up' /\ NegotiateInitialConnect(reconnectListeners)
        BY <1>t, <2>1, <2>2, <2>3 DEF RequestInv, NegotiateInitialConnect
  <2>4. CASE UNCHANGED frontend
        BY <1>t, <2>1, <2>2, <2>4 DEF RequestInv
  <2> QED BY <1>6, <1>7, <2>3, <2>4 DEF HandleReconnectRefused
<1>8. CASE RequestsKept /\ HandleClientData
      BY <1>2, <1>8 DEF HandleClientData, Unanswered
<1>9. ASSUME NEW s \in Sessions, RequestsKept, BackEnd(s) \/ MissPacket(s)
      PROVE  RequestInv'
  <2>1. UNCHANGED <<sid, up, epoch, reconnectListeners, initialListeners, outbox>>
        BY <1>9 DEF BackEnd, Accept, MissPacket, IgnoreRequest, HandleInitialConnect, HandleReconnect,
                    HandleServerData, HandleSocketDisconnect
  <2>2. sid \in Sessions => (Unanswered(sid)' => Unanswered(sid))
        BY <1>t, <1>9, <2>1 DEF Unanswered, BackEnd, Accept, MissPacket, IgnoreRequest, HandleInitialConnect, HandleReconnect,
                    HandleServerData, HandleSocketDisconnect, TypeOK
  <2>3. sid = 0 => RequestInv'
        BY <1>t, <2>1, <2>2 DEF RequestInv
  <2>4. sid # 0 => sid \in Sessions
        BY <1>t DEF Sessions
  <2> QED BY <1>2, <1>9, <2>1, <2>2, <2>3, <2>4
<1>10. CASE RequestsKept /\ (CloseTimeoutExpires \/ ServerWrite \/ \E s \in Sessions : Break(s))
       BY <1>2, <1>10 DEF CloseTimeoutExpires, ServerWrite, Break, Unanswered
<1>11. CASE RequestsKept /\ (ClientWrite \/ AboutToClose)
       BY <1>2, <1>11 DEF ClientWrite, AboutToClose, Unanswered
<1>12. CASE RequestsKept /\ UNCHANGED vars
       BY <1>2, <1>12 DEF vars, Unanswered
<1>13. RequestsKept \/ Connect
       BY <1>t, NoRequestSent
<1> QED BY <1>1, <1>3, <1>4, <1>5, <1>6, <1>7, <1>8, <1>9, <1>10, <1>11, <1>12, <1>13
        DEF Next, FrontEnd, Environment, Reload

LEMMA NamesNext == KnownInv /\ ServedInv /\ [Next]_vars => NamesInv'
<1> SUFFICES ASSUME KnownInv, ServedInv, [Next]_vars PROVE NamesInv'
    OBVIOUS
<1> USE DEF frontend, backend, history, network
<1>t. /\ TypeOK /\ UpInv /\ ReplyInv /\ NamesInv /\ toClient \in [Sessions -> Seq(ServerPacket)]
      /\ owner \in [Sessions -> Contexts \cup {NoContext}]
      BY DEF KnownInv, ServedInv, TypeOK
<1>1. ASSUME NEW s \in Sessions, HandleInitialConnect(s)
      PROVE  NamesInv'
  <2>1. owner' = [owner EXCEPT ![s] = s] /\ toClient' = SentToClient(s, <<[type |-> "initial"]>>)
        BY <1>1 DEF HandleInitialConnect
  <2>2. \A t \in Sessions : t # s => toClient'[t] = toClient[t] /\ owner'[t] = owner[t]
        BY <1>t, <2>1 DEF SentToClient
  <2> QED BY <1>t, <2>1, <2>2 DEF NamesInv
<1>2. ASSUME NEW s \in Sessions, HandleReconnect(s)
      PROVE  NamesInv'
  <2>1. NoReply(toClient[s])
        BY <1>t, <1>2 DEF HandleReconnect, ReplyInv, Unanswered
  <2>2. ~Says(toClient[s], "initial")
        BY <2>1, NothingSaid DEF Negotiation
  <2>3. \E r \in Seq(ServerPacket) : ~Says(r, "initial") /\ toClient' = SentToClient(s, r)
    <3>1. CASE conn = NoContext
          BY <1>2, <3>1, ServerPackets, SaysOfPackets DEF HandleReconnect
    <3>2. CASE conn # NoContext
      <4>1. toClient' = SentToClient(s, Reconnection(conn)) /\ conn \in Contexts
            BY <1>t, <1>2, <3>2 DEF HandleReconnect, Reconnection, TypeOK
      <4> QED BY <1>t, <4>1, ReconnectionPackets, ReconnectionSaysNoInitial
    <3> QED BY <3>1, <3>2
  <2>4. ~Says(toClient'[s], "initial")
        BY <1>t, <2>2, <2>3, SaysInSent DEF SentToClient, Negotiation
  <2>5. \A t \in Sessions : t # s => toClient'[t] = toClient[t] /\ owner'[t] = owner[t]
        BY <1>t, <1>2, <2>3 DEF SentToClient, HandleReconnect
  <2> QED BY <1>t, <2>4, <2>5 DEF NamesInv
<1>3. CASE AnswersKept /\ UNCHANGED owner
      BY <1>3, <1>t DEF AnswersKept, NamesInv, Negotiation
<1>4. AnswersKept \/ \E s \in Sessions : HandleInitialConnect(s) \/ HandleReconnect(s)
      BY <1>t, NoAnswerSent
<1>5. UNCHANGED owner \/ \E s \in Sessions : HandleInitialConnect(s) \/ HandleReconnect(s)
      BY DEF Next, FrontEnd, BackEnd, Environment, vars, Reload, Connect, ClientDisconnect, HandleInitialReply,
             HandleReconnected, HandleReconnectRefused, HandleClientData, Accept, MissPacket, IgnoreRequest,
             HandleServerData, HandleSocketDisconnect, CloseTimeoutExpires, ClientWrite, AboutToClose,
             ServerWrite, Break
<1> QED BY <1>1, <1>2, <1>3, <1>4, <1>5

\* The session on which the server receives anything is the client's latest.
LEMMA LiveSession ==
    ASSUME BackInv, NEW s \in Sessions, socketState[s] \in {"validating", "open"}
    PROVE  s = sid
BY DEF BackInv, ContextInv, Live

LEMMA AnswerNext == KnownInv /\ ServedInv /\ [Next]_vars => AnswerInv'
<1> SUFFICES ASSUME KnownInv, ServedInv, [Next]_vars PROVE AnswerInv'
    OBVIOUS
<1> USE DEF frontend, backend, history, network
<1>t. /\ TypeOK /\ UpInv /\ ReplyInv /\ BackInv /\ RequestInv /\ AnswerInv
      /\ toClient \in [Sessions -> Seq(ServerPacket)] /\ toServer \in [Sessions -> Seq(ClientPacket)]
      BY DEF KnownInv, ServedInv, TypeOK
<1>n. \A s \in Sessions : s # 0
      BY DEF Sessions
<1>1. CASE Connect
  <2>1. /\ sid + 1 \in Sessions /\ sid' = sid + 1 /\ toClient' = toClient
        BY <1>1 DEF Connect
  <2>2. sid \in Nat /\ sid + 1 > sid
        BY BoundsAssumption, <1>t DEF TypeOK
  <2>3. socketState[sid + 1] = "none"
        BY <1>t, <2>1, <2>2 DEF ReplyInv
  <2>4. NoReply(toClient[sid + 1])
        BY <1>t, <2>1, <2>3 DEF ReplyInv, Unanswered
  <2> QED BY <2>1, <2>4, NothingSaid DEF AnswerInv, Negotiation
<1>2. ASSUME NEW s \in Sessions, NEW type \in Negotiation, ServerReceives(s, type), s \in negotiating
      PROVE  /\ s = sid
             /\ up /\ type = "initial" => initialListeners > 0
             /\ up /\ type = "reconnect" => reconnectListeners > 0
  <2>1. s = sid
        BY <1>2, <1>t, LiveSession DEF ServerReceives
  <2>2. Says(toServer[s], type)
        BY <1>2, <1>t, TailFacts DEF ServerReceives, Says
  <2> QED BY <1>2, <1>t, <1>n, <2>1, <2>2 DEF RequestInv, Unanswered
<1>3. ASSUME NEW s \in Sessions, HandleInitialConnect(s)
      PROVE  AnswerInv'
  <2>1. s = sid /\ (up => initialListeners > 0)
        BY <1>2, <1>3 DEF HandleInitialConnect, Negotiation
  <2>2. /\ toClient' = SentToClient(s, <<[type |-> "initial"]>>)
        /\ UNCHANGED <<sid, up, initialListeners, reconnectListeners>>
        BY <1>3 DEF HandleInitialConnect
  <2>3. ~Says(<<[type |-> "initial"]>>, "reconnect") /\ <<[type |-> "initial"]>> \in Seq(ServerPacket)
        BY ServerPackets DEF Says
  <2>4. Says(toClient'[s], "reconnect") => Says(toClient[s], "reconnect")
        BY <1>t, <2>2, <2>3, SaysInSent DEF SentToClient, Negotiation
  <2> QED BY <1>t, <2>1, <2>2, <2>4 DEF AnswerInv
<1>4. ASSUME NEW s \in Sessions, HandleReconnect(s)
      PROVE  AnswerInv'
  <2>1. s = sid /\ (up => reconnectListeners > 0)
        BY <1>2, <1>4 DEF HandleReconnect, Negotiation
  <2>2. \E r \in Seq(ServerPacket) : ~Says(r, "initial") /\ toClient' = SentToClient(s, r)
    <3>1. CASE conn = NoContext
          BY <1>4, <3>1, ServerPackets, SaysOfPackets DEF HandleReconnect
    <3>2. CASE conn # NoContext
      <4>1. toClient' = SentToClient(s, Reconnection(conn)) /\ conn \in Contexts
            BY <1>t, <1>4, <3>2 DEF HandleReconnect, Reconnection, TypeOK
      <4> QED BY <1>t, <4>1, ReconnectionPackets, ReconnectionSaysNoInitial
    <3> QED BY <3>1, <3>2
  <2>3. UNCHANGED <<sid, up, initialListeners, reconnectListeners>>
        BY <1>4 DEF HandleReconnect
  <2>4. Says(toClient'[s], "initial") => Says(toClient[s], "initial")
        BY <1>t, <2>2, SaysInSent DEF SentToClient, Negotiation
  <2> QED BY <1>t, <2>1, <2>3, <2>4 DEF AnswerInv
<1>5. CASE HandleInitialReply \/ HandleReconnected
  <2>1. /\ up /\ toClient[sid] # <<>> /\ Head(toClient[sid]).type # "data"
        /\ toClient' = [toClient EXCEPT ![sid] = Tail(toClient[sid])] /\ sid' = sid
        BY <1>5 DEF HandleInitialReply, HandleReconnected, ClientReceives
  <2>2. \A type \in Negotiation : ~Says(toClient'[sid], type)
        BY <2>1, AnswerTaken
  <2> QED BY <2>1, <2>2 DEF AnswerInv, Negotiation
<1>6. CASE ~up'
      BY <1>6 DEF AnswerInv
<1>7. CASE AnswersKept /\ UNCHANGED <<sid, up, initialListeners, reconnectListeners>>
      BY <1>7, <1>t DEF AnswersKept, AnswerInv, UpInv, Negotiation
<1>8. AnswersKept \/ \E s \in Sessions : HandleInitialConnect(s) \/ HandleReconnect(s)
      BY <1>t, NoAnswerSent
<1>9. \/ Connect \/ HandleInitialReply \/ HandleReconnected
      \/ ~up'
      \/ UNCHANGED <<sid, up, initialListeners, reconnectListeners>>
  <2>1. CASE FrontEnd
        BY <2>1 DEF FrontEnd, ClientDisconnect, HandleReconnectRefused, PageLoads, HandleClientData
  <2>2. CASE Environment
        BY <2>2 DEF Environment, Reload, PageLoads, ClientWrite, AboutToClose, ServerWrite, Break
  <2>3. ASSUME NEW s \in Sessions, BackEnd(s) \/ MissPacket(s)
        PROVE  UNCHANGED <<sid, up, initialListeners, reconnectListeners>>
        BY <2>3 DEF BackEnd, Accept, MissPacket, IgnoreRequest, HandleInitialConnect, HandleReconnect,
                    HandleServerData, HandleSocketDisconnect
  <2>4. CASE CloseTimeoutExpires \/ UNCHANGED vars
        BY <2>4 DEF CloseTimeoutExpires, vars
  <2> QED BY <2>1, <2>2, <2>3, <2>4 DEF Next
<1> QED BY <1>1, <1>3, <1>4, <1>5, <1>6, <1>7, <1>8, <1>9

LEMMA AgreementNext == KnownInv /\ ServedInv /\ [Next]_vars => AgreementInv'
<1> SUFFICES ASSUME KnownInv, ServedInv, [Next]_vars PROVE AgreementInv'
    OBVIOUS
<1> USE DEF frontend, backend, history, network
<1>t. /\ TypeOK /\ UpInv /\ BackInv /\ ListenersInv /\ RequestInv /\ AnswerInv /\ NamesInv /\ AgreementInv
      /\ toServer \in [Sessions -> Seq(ClientPacket)]
      BY DEF KnownInv, ServedInv, TypeOK
<1>n. \A s \in Sessions : s # 0
      BY DEF Sessions
<1>1. ASSUME NEW s \in Sessions, HandleInitialConnect(s)
      PROVE  AgreementInv'
  <2>1. s = sid /\ s \in negotiating
        BY <1>1, <1>t, LiveSession DEF HandleInitialConnect, ServerReceives
  <2>2. Says(toServer[s], "initial")
        BY <1>1, <1>t, TailFacts DEF HandleInitialConnect, ServerReceives, Says
  <2>3. epoch = NoContext \/ closed
        BY <1>t, <1>n, <2>1, <2>2 DEF RequestInv, Unanswered, ListenersInv
  <2> QED BY <1>1, <2>3 DEF HandleInitialConnect, AgreementInv
<1>2. CASE HandleInitialReply
  <2>1. /\ sid \in Sessions /\ Says(toClient[sid], "initial")
    <3>1. up /\ toClient[sid] # <<>> /\ Head(toClient[sid]).type = "initial"
          BY <1>2 DEF HandleInitialReply, ClientReceives
    <3>2. Head(toClient[sid]).type # "data"
          BY <3>1
    <3> QED BY <3>1, <3>2, AnswerTaken
  <2>2. owner[sid] = sid
        BY <1>t, <2>1 DEF NamesInv
  <2>3. conn # NoContext => conn = sid
        BY <1>t, <1>n, <2>1, <2>2 DEF BackInv, ContextInv, NoContext
  <2>4. UNCHANGED conn /\ (UNCHANGED <<epoch, closed>> \/ epoch' = sid)
        BY <1>2 DEF HandleInitialReply
  <2> QED BY <1>t, <2>3, <2>4 DEF AgreementInv
<1>3. CASE epoch' = NoContext \/ closed' = TRUE
      BY <1>3 DEF AgreementInv
<1>4. CASE UNCHANGED <<epoch, closed>> /\ conn' \in {conn, NoContext}
      BY <1>4, <1>t DEF AgreementInv
<1> QED BY <1>1, <1>2, <1>3, <1>4
        DEF Next, FrontEnd, BackEnd, Environment, vars, Reload, PageLoads, Connect, ClientDisconnect,
            HandleReconnected, HandleReconnectRefused, HandleClientData, Accept, MissPacket, IgnoreRequest,
            HandleReconnect, HandleServerData, HandleSocketDisconnect, CloseTimeoutExpires, CloseConnection,
            ClientWrite, AboutToClose, ServerWrite, Break

LEMMA RefusalNext == KnownInv /\ ServedInv /\ [Next]_vars => RefusalInv'
<1> SUFFICES ASSUME KnownInv, ServedInv, [Next]_vars,
                    (up /\ sid \notin ended \cup negotiating /\ socketState[sid] = "open"
                        /\ owner[sid] = NoContext)'
             PROVE  Refused(toClient[sid])'
    BY DEF RefusalInv
<1> USE DEF frontend, backend, history, network
<1>t. /\ TypeOK /\ UpInv /\ BackInv /\ AnswerInv /\ RefusalInv
      /\ toClient \in [Sessions -> Seq(ServerPacket)]
      /\ socketState \in [Sessions -> {"none", "validating", "open", "closed"}]
      /\ owner \in [Sessions -> Contexts \cup {NoContext}]
      BY DEF KnownInv, ServedInv, TypeOK
<1>n. \A s \in Sessions : s # NoContext
      BY DEF Sessions, NoContext
<1>1. CASE Connect
  <2>1. sid' \in Sessions /\ socketState' = [socketState EXCEPT ![sid'] = "validating"]
        BY <1>1 DEF Connect
  <2>2. socketState'[sid'] = "validating"
        BY <1>t, <2>1
  <2> QED BY <2>2
<1>2. CASE /\ UNCHANGED <<sid, up, socketState, owner>> /\ negotiating \subseteq negotiating' /\ ended \subseteq ended'
           /\ (up => (Refused(toClient[sid]) => Refused(toClient'[sid])))
      BY <1>2, <1>t DEF RefusalInv
<1>3. CASE HandleInitialReply \/ HandleReconnected \/ HandleClientData
  <2>1. /\ up /\ toClient[sid] # <<>> /\ Head(toClient[sid]) # Refusal
        /\ toClient' = [toClient EXCEPT ![sid] = Tail(toClient[sid])]
        /\ UNCHANGED <<sid, up, socketState, owner, negotiating, ended>>
    <3>1. CASE HandleInitialReply
      <4>1. [type |-> "initial"] # Refusal
            BY DEF Refusal
      <4> QED BY <3>1, <4>1 DEF HandleInitialReply, ClientReceives
    <3>2. CASE HandleReconnected
      <4>1. [type |-> "reconnect", found |-> TRUE] # Refusal
            BY DEF Refusal
      <4> QED BY <3>2, <4>1 DEF HandleReconnected, ClientReceives
    <3>3. CASE HandleClientData
      <4>1. Refusal.type # "data"
            BY DEF Refusal
      <4> QED BY <3>3, <4>1 DEF HandleClientData
    <3> QED BY <1>3, <3>1, <3>2, <3>3
  <2>2. sid \in Sessions
        BY <1>t, <2>1 DEF UpInv
  <2>3. Refused(toClient[sid]) => Refused(toClient'[sid])
        BY <1>t, <2>1, <2>2, SaysInTail
  <2> QED BY <1>2, <2>1, <2>3
<1>4. CASE HandleReconnectRefused
  <2>1. /\ up /\ toClient[sid] # <<>> /\ Head(toClient[sid]) = [type |-> "reconnect", found |-> FALSE]
        BY <1>4 DEF HandleReconnectRefused, ClientReceives
  <2>2. Head(toClient[sid]).type = "reconnect" /\ Head(toClient[sid]).type # "data"
        BY <2>1
  <2>3. reconnectListeners > 0
        BY <1>t, <2>1, <2>2, AnswerTaken DEF AnswerInv
  <2>4. ~up'
        BY <1>4, <2>3 DEF HandleReconnectRefused, PageLoads
  <2> QED BY <2>4
<1>5. ASSUME NEW s \in Sessions, Accept(s)
      PROVE  Refused(toClient[sid])'
  <2>1. s = sid /\ UNCHANGED sid /\ negotiating' = negotiating \cup {s}
        BY <1>5, <1>t, LiveSession DEF Accept
  <2> QED BY <2>1
<1>6. ASSUME NEW s \in Sessions, HandleInitialConnect(s)
      PROVE  Refused(toClient[sid])'
  <2>1. s = sid /\ UNCHANGED sid /\ owner' = [owner EXCEPT ![s] = s]
        BY <1>6, <1>t, LiveSession DEF HandleInitialConnect, ServerReceives
  <2>2. owner'[sid'] # NoContext
        BY <1>t, <1>n, <2>1
  <2> QED BY <2>2
<1>7. ASSUME NEW s \in Sessions, HandleReconnect(s)
      PROVE  Refused(toClient[sid])'
  <2>1. s = sid /\ UNCHANGED <<sid, ended>>
        BY <1>7, <1>t, LiveSession DEF HandleReconnect, ServerReceives
  <2>2. CASE conn # NoContext
    <3>1. owner' = [owner EXCEPT ![s] = conn]
          BY <1>7, <2>2 DEF HandleReconnect
    <3>2. owner'[sid'] # NoContext
          BY <1>t, <2>1, <2>2, <3>1
    <3> QED BY <3>2
  <2>3. CASE conn = NoContext
    <3>1. toClient' = SentToClient(s, ReconnectReply(FALSE)) /\ s \notin ended
          BY <1>7, <2>1, <2>3 DEF HandleReconnect
    <3>2. toClient'[s] = toClient[s] \o ReconnectReply(FALSE)
          BY <1>t, <3>1 DEF SentToClient
    <3>3. ReconnectReply(FALSE) \in Seq(ServerPacket) /\ Refused(ReconnectReply(FALSE))
          BY ServerPackets, SaysOfPackets
    <3>4. Refused(toClient[s] \o ReconnectReply(FALSE))
          BY <1>t, <3>3, SaysInSent
    <3> QED BY <2>1, <3>2, <3>4
  <2> QED BY <2>2, <2>3
<1>8. ASSUME NEW s \in Sessions, HandleSocketDisconnect(s)
      PROVE  Refused(toClient[sid])'
  <2>1. s = sid /\ UNCHANGED sid /\ socketState' = [socketState EXCEPT ![s] = "closed"]
        BY <1>8, <1>t, LiveSession DEF HandleSocketDisconnect
  <2>2. socketState'[sid'] = "closed"
        BY <1>t, <2>1
  <2> QED BY <2>2
<1>9. CASE ServerWrite
  <2>1. sid \in Sessions => (Refused(toClient[sid]) => Refused(toClient'[sid]))
        BY <1>9, <1>t, WriteSent, AnswersKeptWhen
  <2>2. UNCHANGED <<sid, up, socketState, owner, negotiating, ended>>
        BY <1>9 DEF ServerWrite
  <2> QED BY <1>2, <1>t, <2>1, <2>2 DEF UpInv
<1>10. CASE ~up'
       BY <1>10
<1>11. CASE UNCHANGED <<sid, up, socketState, owner, negotiating, toClient>> /\ ended \subseteq ended'
       BY <1>2, <1>11
<1> QED BY <1>1, <1>3, <1>4, <1>5, <1>6, <1>7, <1>8, <1>9, <1>10, <1>11
        DEF Next, FrontEnd, BackEnd, Environment, vars, Reload, PageLoads, ClientDisconnect, MissPacket,
            IgnoreRequest, HandleServerData, CloseTimeoutExpires, ClientWrite, AboutToClose, Break

LEMMA ServedAlways ==
    ASSUME LateDisconnect = FALSE
    PROVE  Spec => [](KnownInv /\ ServedInv)
<1>1. Init => ServedInv
  <2> SUFFICES ASSUME Init PROVE ServedInv
      OBVIOUS
  <2>1. \A s \in Sessions : toClient[s] = <<>>
        BY DEF Init
  <2>2. /\ ~up /\ outbox = 0 /\ sid = 0 /\ conn = NoContext
        BY DEF Init
  <2>3. ~Says(<<>>, "initial")
        BY SaysOfPackets DEF Negotiation
  <2>4. NamesInv
        BY <2>1, <2>3 DEF NamesInv
  <2> QED BY <2>2, <2>4 DEF ServedInv, RequestInv, AnswerInv, RefusalInv, AgreementInv
<1>2. KnownInv /\ ServedInv /\ [Next]_vars => ServedInv'
      BY RequestNext, AnswerNext, NamesNext, RefusalNext, AgreementNext DEF ServedInv
<1>3. Spec => []KnownInv
      BY BackAlways, PTL DEF KnownInv
<1> QED BY <1>1, <1>2, <1>3, PTL DEF Spec

\* A front end that has negotiated and waits for no answer is served: the back end
\* keeps the context the front end believes in, attached to its present socket.
THEOREM SettledIsServed ==
    ASSUME LateDisconnect = FALSE
    PROVE  Spec => []SettledFrontEndIsServed
<1>1. KnownInv /\ ServedInv => SettledFrontEndIsServed
  <2> SUFFICES ASSUME KnownInv, ServedInv, Settled
               PROVE  conn = epoch /\ conn \notin disposed /\ bound[conn] = sid /\ sid \in listening
      BY DEF SettledFrontEndIsServed
  <2>1. sid \in Sessions
        BY DEF KnownInv, UpInv, Settled
  <2>2. NoReply(toClient[sid])
    <3>1. toClient[sid] \in Seq(ServerPacket)
          BY <2>1 DEF KnownInv, TypeOK
    <3>2. DOMAIN toClient[sid] = 1 .. Len(toClient[sid])
          BY <3>1
    <3> QED BY <3>2 DEF Settled, NoReply
  <2>3. owner[sid] # NoContext
        BY <2>2, NothingSaid DEF ServedInv, RefusalInv, Settled
  <2>4. conn = owner[sid] /\ bound[conn] = sid /\ sid \in listening
        BY <2>1, <2>3 DEF KnownInv, BackInv, ContextInv, Live, Settled
  <2>5. conn = epoch
        BY <2>3, <2>4 DEF ServedInv, AgreementInv, Settled
  <2>6. conn \notin disposed
        BY DEF KnownInv, BackInv, DisposedInv
  <2> QED BY <2>4, <2>5, <2>6
<1> QED BY <1>1, ServedAlways, PTL

-------------------------------------------------------------------------------
(***************************************************************************)
(* The handshake goes on.  On a socket that works, a front end that is not *)
(* served has a request or an answer on its way, or is stranded: nothing   *)
(* is ever lost that somebody waits for, but for a request that meets a    *)
(* slow validator.                                                         *)
(***************************************************************************)
HandshakeGoesOn ==
    (up /\ sid \notin ended /\ ~config.slowValidators) =>
        \/ Settled
        \/ Stranded
        \/ Unanswered(sid) /\ \E type \in Negotiation : Says(toServer[sid], type)
        \/ \E type \in Negotiation : Says(toClient[sid], type)

\* The server closes only what is over.
EndedInv == \A s \in Sessions : socketState[s] = "closed" => s \in ended

\* The page has channels only of sessions that answered.
HeldInv == \A s \in held : ~Unanswered(s)

\* A closed channel waits for the next one, and is not the back end's.
WaitsInv == closed => initialListeners > 0 /\ (conn # NoContext => conn \notin held)

\* The context of a front end that is being refused is gone, and stays gone.
RefusedInv == sid # 0 /\ Refused(toClient[sid]) => conn = NoContext

\* A page without a channel that was answered is about to get its first.
FirstInv ==
    up /\ sid \notin ended /\ epoch = NoContext /\ ~Unanswered(sid) => Says(toClient[sid], "initial")

\* A session that did not answer has a request to answer.
AskedInv ==
    up /\ sid \notin ended /\ ~config.slowValidators /\ Unanswered(sid)
        => \E type \in Negotiation : Says(toServer[sid], type)

GoesOnInv == EndedInv /\ HeldInv /\ WaitsInv /\ RefusedInv /\ FirstInv /\ AskedInv

\* No session forgets that it answered.
LEMMA AnsweredForGood ==
    KnownInv /\ [Next]_vars => \A s \in Sessions : Unanswered(s)' => Unanswered(s)
<1> SUFFICES ASSUME KnownInv, [Next]_vars PROVE \A s \in Sessions : Unanswered(s)' => Unanswered(s)
    OBVIOUS
<1> USE DEF frontend, backend, history, network
<1>t. /\ socketState \in [Sessions -> {"none", "validating", "open", "closed"}]
      /\ sid \in 0 .. MaxSessions /\ MaxSessions \in Nat
      BY BoundsAssumption DEF KnownInv, TypeOK
<1>1. CASE Connect
  <2>1. /\ sid + 1 \in Sessions /\ UNCHANGED negotiating
        /\ socketState' = [socketState EXCEPT ![sid + 1] = "validating"]
        BY <1>1 DEF Connect
  <2>2. sid + 1 > sid
        BY <1>t
  <2>3. socketState[sid + 1] = "none"
        BY <2>1, <2>2 DEF KnownInv, ReplyInv
  <2> QED BY <1>t, <2>1, <2>3 DEF Unanswered
<1>2. ASSUME NEW s \in Sessions, BackEnd(s) \/ MissPacket(s)
      PROVE  \A t \in Sessions : Unanswered(t)' => Unanswered(t)
      BY <1>t, <1>2 DEF BackEnd, Accept, MissPacket, IgnoreRequest, HandleInitialConnect, HandleReconnect,
                        HandleServerData, HandleSocketDisconnect, Unanswered
<1>3. CASE UNCHANGED <<socketState, negotiating>>
      BY <1>3 DEF Unanswered
<1> QED BY <1>1, <1>2, <1>3
        DEF Next, FrontEnd, Environment, vars, Reload, ClientDisconnect, HandleInitialReply,
            HandleReconnected, HandleReconnectRefused, HandleClientData, CloseTimeoutExpires, ClientWrite,
            AboutToClose, ServerWrite, Break

LEMMA EndedNext == TypeOK /\ EndedInv /\ [Next]_vars => EndedInv'
<1> SUFFICES ASSUME TypeOK, EndedInv, [Next]_vars PROVE EndedInv'
    OBVIOUS
<1> USE DEF frontend, backend, history, network
<1>t. socketState \in [Sessions -> {"none", "validating", "open", "closed"}]
      BY DEF TypeOK
<1>1. CASE Connect
      BY <1>1, <1>t DEF Connect, EndedInv
<1>2. ASSUME NEW s \in Sessions, BackEnd(s) \/ MissPacket(s)
      PROVE  EndedInv'
      BY <1>t, <1>2 DEF BackEnd, Accept, MissPacket, IgnoreRequest, HandleInitialConnect, HandleReconnect,
                        HandleServerData, HandleSocketDisconnect, EndedInv
<1>3. CASE UNCHANGED socketState /\ ended \subseteq ended'
      BY <1>3 DEF EndedInv
<1> QED BY <1>1, <1>2, <1>3
        DEF Next, FrontEnd, Environment, vars, Reload, PageLoads, ClientDisconnect, HandleInitialReply,
            HandleReconnected, HandleReconnectRefused, HandleClientData, CloseTimeoutExpires, ClientWrite,
            AboutToClose, ServerWrite, Break

LEMMA HeldNext == KnownInv /\ HeldInv /\ [Next]_vars => HeldInv'
<1> SUFFICES ASSUME KnownInv, HeldInv, [Next]_vars PROVE HeldInv'
    OBVIOUS
<1> USE DEF frontend, backend, history, network
<1>t. held \subseteq Sessions
      BY DEF KnownInv, TypeOK, Contexts
<1>1. \A s \in Sessions : Unanswered(s)' => Unanswered(s)
      BY AnsweredForGood
<1>2. CASE HandleInitialReply
  <2>1. /\ up /\ toClient[sid] # <<>> /\ Head(toClient[sid]).type # "data"
        /\ held' \subseteq held \cup {sid}
        BY <1>2 DEF HandleInitialReply, ClientReceives
  <2>2. sid \in Sessions /\ ~Unanswered(sid)
        BY <2>1, AnswerTaken
  <2> QED BY <1>1, <1>t, <2>1, <2>2 DEF HeldInv
<1>3. CASE held' \subseteq held
      BY <1>1, <1>t, <1>3 DEF HeldInv
<1> QED BY <1>2, <1>3
        DEF Next, FrontEnd, BackEnd, Environment, vars, Reload, PageLoads, Connect, ClientDisconnect,
            HandleReconnected, HandleReconnectRefused, HandleClientData, Accept, MissPacket, IgnoreRequest,
            HandleInitialConnect, HandleReconnect, HandleServerData, HandleSocketDisconnect,
            CloseTimeoutExpires, ClientWrite, AboutToClose, ServerWrite, Break

\* What else is in a stream after its head was read, and after something was sent.
LEMMA StillSaid ==
    ASSUME NEW S, NEW q \in Seq(S)
    PROVE  /\ \A type \in Negotiation :
                 q # <<>> /\ Head(q).type # type /\ Says(q, type) => Says(Tail(q), type)
           /\ q # <<>> /\ Refused(Tail(q)) => Refused(q)
           /\ \A r \in Seq(S) : Refused(q \o r) => Refused(q) \/ Refused(r)
<1>1. ASSUME q # <<>>
      PROVE  /\ Head(q) = q[1]
             /\ \A i \in DOMAIN Tail(q) : i + 1 \in DOMAIN q /\ Tail(q)[i] = q[i + 1]
             /\ \A i \in DOMAIN q : i # 1 => i - 1 \in DOMAIN Tail(q) /\ q[i] = Tail(q)[i - 1]
  <2>1. /\ Head(q) = q[1]
        /\ \A i \in DOMAIN Tail(q) : i + 1 \in DOMAIN q /\ Tail(q)[i] = q[i + 1]
        BY <1>1, TailFacts
  <2>2. Len(q) \in Nat /\ DOMAIN q = 1 .. Len(q) /\ DOMAIN Tail(q) = 1 .. Len(q) - 1
        BY <1>1
  <2>3. \A i \in DOMAIN q : i # 1 => i - 1 \in DOMAIN Tail(q) /\ (i - 1) + 1 = i
        BY <2>2
  <2>4. \A i \in DOMAIN q : i # 1 => i - 1 \in DOMAIN Tail(q) /\ q[i] = Tail(q)[i - 1]
        BY <2>1, <2>3
  <2> QED BY <2>1, <2>4
<1>2. ASSUME NEW type \in Negotiation, q # <<>>, Head(q).type # type, Says(q, type)
      PROVE  Says(Tail(q), type)
  <2>1. PICK i \in DOMAIN q : q[i].type = type
        BY <1>2 DEF Says
  <2>2. i # 1
        BY <1>1, <1>2, <2>1
  <2> QED BY <1>1, <1>2, <2>1, <2>2 DEF Says
<1>3. ASSUME q # <<>>, Refused(Tail(q)) PROVE Refused(q)
      BY <1>1, <1>3 DEF Refused
<1>4. ASSUME NEW r \in Seq(S), Refused(q \o r) PROVE Refused(q) \/ Refused(r)
  <2> DEFINE p == q \o r
  <2>1. \A i \in DOMAIN p : \/ i \in DOMAIN q /\ p[i] = q[i]
                            \/ i - Len(q) \in DOMAIN r /\ p[i] = r[i - Len(q)]
        OBVIOUS
  <2> HIDE DEF p
  <2> QED BY <1>4, <2>1 DEF Refused, p
<1> QED BY <1>2, <1>3, <1>4

\* The client's stream to the server loses requests to the server only.
LEMMA RequestsStay ==
    ASSUME TypeOK, NEW s \in Sessions, NEW type \in Negotiation, Says(toServer[s], type)
    PROVE  /\ \A blob \in Blob : toServer' = SentToServer(s, <<Data(blob)>>) => Says(toServer'[s], type)
           /\ toServer[s] # <<>> /\ Head(toServer[s]).type # type
                 /\ toServer' = [toServer EXCEPT ![s] = Tail(toServer[s])] => Says(toServer'[s], type)
<1>1. toServer \in [Sessions -> Seq(ClientPacket)]
      BY DEF TypeOK
<1>2. ASSUME NEW blob \in Blob, toServer' = SentToServer(s, <<Data(blob)>>)
      PROVE  Says(toServer'[s], type)
  <2>1. <<Data(blob)>> \in Seq(ClientPacket)
        BY DataPacket
  <2>2. Says(toServer[s] \o <<Data(blob)>>, type)
        BY <1>1, <2>1, SaysInSent
  <2> QED BY <1>1, <1>2, <2>2 DEF SentToServer
<1>3. ASSUME toServer[s] # <<>>, Head(toServer[s]).type # type,
             toServer' = [toServer EXCEPT ![s] = Tail(toServer[s])]
      PROVE  Says(toServer'[s], type)
      BY <1>1, <1>3, StillSaid
<1> QED BY <1>2, <1>3

LEMMA AskedNext == KnownInv /\ AskedInv /\ [Next]_vars => AskedInv'
<1> SUFFICES ASSUME KnownInv, AskedInv, [Next]_vars,
                    (up /\ sid \notin ended /\ ~config.slowValidators /\ Unanswered(sid))'
             PROVE  (\E type \in Negotiation : Says(toServer[sid], type))'
    BY DEF AskedInv
<1> USE DEF frontend, backend, history, network
<1>t. /\ TypeOK /\ UpInv /\ BackInv
      /\ toServer \in [Sessions -> Seq(ClientPacket)]
      /\ socketState \in [Sessions -> {"none", "validating", "open", "closed"}]
      BY DEF KnownInv, TypeOK
<1>u. \A s \in Sessions : Unanswered(s)' => Unanswered(s)
      BY AnsweredForGood
<1>1. CASE Connect
  <2> DEFINE n == sid + 1
             buffered == [i \in 1 .. outbox |-> [type |-> "initial"]]
             sent == Append(buffered, [type |-> Request])
  <2>1. toServer'[n] = sent /\ sid' = n
        BY <1>1, <1>t DEF Connect, TypeOK
  <2>2. outbox \in Nat
        BY <1>t DEF TypeOK
  <2>3. buffered \in Seq({[type |-> "initial"]})
        BY <2>2
  <2>4. \E i \in DOMAIN sent : sent[i] = [type |-> Request]
    <3> HIDE DEF buffered
    <3>1. Len(buffered) + 1 \in DOMAIN sent /\ sent[Len(buffered) + 1] = [type |-> Request]
          BY <2>3
    <3> QED BY <3>1
  <2>5. Request \in Negotiation
        BY DEF Request, Negotiation
  <2> HIDE DEF sent, n
  <2>6. Says(sent, Request)
        BY <2>4 DEF Says
  <2> QED BY <2>1, <2>5, <2>6
<1>2. CASE UNCHANGED <<config, sid>> /\ (up' => up) /\ ended \subseteq ended'
           /\ \A type \in Negotiation : up /\ Says(toServer[sid], type) => Says(toServer'[sid], type)
      BY <1>2, <1>t, <1>u DEF AskedInv, UpInv
<1>3. CASE UNCHANGED <<config, sid, toServer>> /\ (up' => up) /\ ended \subseteq ended'
      BY <1>2, <1>3
<1>4. CASE HandleReconnected
  <2>1. up /\ toClient[sid] # <<>> /\ Head(toClient[sid]).type # "data" /\ UNCHANGED sid
        BY <1>4 DEF HandleReconnected, ClientReceives
  <2>2. sid \in Sessions /\ ~Unanswered(sid)
        BY <2>1, AnswerTaken
  <2> QED BY <1>u, <2>1, <2>2
<1>5. ASSUME NEW c, NEW n \in Nat, ClientCommits(c, n), NEW type \in Negotiation, up, Says(toServer[sid], type)
      PROVE  Says(toServer'[sid], type)
  <2> DEFINE blob == <<ClientItem(c, n)>>
  <2>1. toServer' = SentToServer(sid, <<Data(blob)>>) \/ UNCHANGED toServer
        BY <1>5 DEF ClientCommits, ClientItem
  <2>2. c \in Contexts
        BY <1>5, <1>t DEF ClientCommits, TypeOK
  <2>3. blob \in Blob
        BY <2>2, ItemBlob
  <2> HIDE DEF blob
  <2> QED BY <1>5, <1>t, <2>1, <2>3, RequestsStay DEF UpInv
<1>6. CASE ClientWrite
  <2>1. written["client"] + 1 \in Nat
    <3>1. MaxWrites[config] \in Nat
          BY <1>t, ConfigurationAssumption DEF TypeOK
    <3>2. HistoryTypes
          BY <1>t, TypeParts
    <3> QED BY <3>1, <3>2 DEF HistoryTypes
  <2>2. UNCHANGED <<config, sid, up, ended>>
        BY <1>6 DEF ClientWrite
  <2>3. \E c : ClientCommits(c, written["client"] + 1)
        BY <1>6 DEF ClientWrite
  <2> QED BY <1>2, <1>5, <2>1, <2>2, <2>3
<1>7. CASE AboutToClose
  <2>1. UNCHANGED <<config, sid, up, ended>> /\ ClientCommits(epoch, 0)
        BY <1>7 DEF AboutToClose, MarkForClose
  <2> QED BY <1>2, <1>5, <2>1
<1>8. ASSUME NEW s \in Sessions, socketState[s] = "open", s \notin negotiating',
             UNCHANGED <<sid, socketState>>
      PROVE  FALSE
  <2>1. s = sid
        BY <1>8, <1>t, LiveSession
  <2> QED BY <1>8, <2>1 DEF Unanswered
<1>9. ASSUME NEW s \in Sessions, BackEnd(s) \/ MissPacket(s)
      PROVE  (\E type \in Negotiation : Says(toServer[sid], type))'
  <2>1. CASE Accept(s)
        BY <1>3, <2>1 DEF Accept
  <2>2. CASE MissPacket(s)
        BY <2>2 DEF MissPacket
  <2>3. CASE IgnoreRequest(s)
    <3>1. socketState[s] = "open" /\ s \notin negotiating'
          BY <2>3 DEF IgnoreRequest, ServerReceives
    <3>2. UNCHANGED <<sid, socketState>>
          BY <2>3 DEF IgnoreRequest
    <3> QED BY <1>8, <3>1, <3>2
  <2>4. CASE HandleInitialConnect(s) \/ HandleReconnect(s)
    <3>1. socketState[s] = "open" /\ s \notin negotiating'
          BY <2>4 DEF HandleInitialConnect, HandleReconnect, ServerReceives
    <3>2. UNCHANGED <<sid, socketState>>
          BY <2>4 DEF HandleInitialConnect, HandleReconnect
    <3> QED BY <1>8, <3>1, <3>2
  <2>5. CASE HandleServerData(s)
    <3>1. /\ s = sid /\ UNCHANGED <<config, sid, up, ended>>
          /\ toServer[s] # <<>> /\ Head(toServer[s]).type = "data"
          /\ toServer' = [toServer EXCEPT ![s] = Tail(toServer[s])]
          BY <2>5, <1>t, LiveSession DEF HandleServerData, ServerReceives
    <3>2. \A type \in Negotiation : Head(toServer[s]).type # type
          BY <3>1 DEF Negotiation
    <3> QED BY <1>2, <1>t, <3>1, <3>2, RequestsStay
  <2>6. CASE HandleSocketDisconnect(s)
    <3>1. s = sid /\ s \in ended /\ UNCHANGED <<sid, ended>>
          BY <2>6, <1>t, LiveSession DEF HandleSocketDisconnect
    <3> QED BY <3>1
  <2> QED BY <1>9, <2>1, <2>2, <2>3, <2>4, <2>5, <2>6 DEF BackEnd
<1> QED BY <1>1, <1>3, <1>4, <1>6, <1>7, <1>9
        DEF Next, FrontEnd, Environment, vars, Reload, PageLoads, ClientDisconnect, HandleInitialReply,
            HandleReconnectRefused, HandleClientData, CloseTimeoutExpires, ServerWrite, Break

\* A step that sends no refusal.
RefusalsKept == \A s \in Sessions : Refused(toClient'[s]) => Refused(toClient[s])

LEMMA RefusalsKeptWhen ==
    ASSUME TypeOK, NEW s \in Sessions
    PROVE  /\ UNCHANGED toClient => RefusalsKept
           /\ toClient' = [toClient EXCEPT ![s] = <<>>] => RefusalsKept
           /\ toClient' = [t \in Sessions |-> <<>>] => RefusalsKept
           /\ toClient[s] # <<>> /\ toClient' = [toClient EXCEPT ![s] = Tail(toClient[s])] => RefusalsKept
           /\ \A r \in Seq(ServerPacket) : ~Refused(r) /\ toClient' = SentToClient(s, r) => RefusalsKept
<1>1. toClient \in [Sessions -> Seq(ServerPacket)]
      BY DEF TypeOK
<1>2. ~Refused(<<>>)
      BY DEF Refused
<1>3. UNCHANGED toClient => RefusalsKept
      BY DEF RefusalsKept
<1>4. toClient' = [toClient EXCEPT ![s] = <<>>] => RefusalsKept
      BY <1>1, <1>2 DEF RefusalsKept
<1>5. toClient' = [t \in Sessions |-> <<>>] => RefusalsKept
      BY <1>1, <1>2 DEF RefusalsKept
<1>6. toClient[s] # <<>> /\ toClient' = [toClient EXCEPT ![s] = Tail(toClient[s])] => RefusalsKept
      BY <1>1, StillSaid DEF RefusalsKept
<1>7. ASSUME NEW r \in Seq(ServerPacket), ~Refused(r), toClient' = SentToClient(s, r)
      PROVE  RefusalsKept
  <2>1. Refused(toClient[s] \o r) => Refused(toClient[s])
        BY <1>1, <1>7, StillSaid
  <2> QED BY <1>1, <1>7, <2>1 DEF RefusalsKept, SentToClient
<1> QED BY <1>3, <1>4, <1>5, <1>6, <1>7

LEMMA NotRefusals ==
    /\ ~Refused(<<[type |-> "initial"]>>)
    /\ \A blob \in Blob : ~Refused(<<Data(blob)>>)
    /\ TypeOK => \A c \in Contexts : ~Refused(Reconnection(c))
<1>1. /\ [type |-> "initial"] # Refusal
      /\ [type |-> "reconnect", found |-> TRUE] # Refusal
      /\ Refusal.type # "data"
      BY DEF Refusal
<1>2. ~Refused(<<[type |-> "initial"]>>)
      BY <1>1 DEF Refused
<1>3. \A blob \in Blob : ~Refused(<<Data(blob)>>)
  <2>1. \A blob \in Blob : Data(blob) # Refusal
        BY <1>1, DataPacket
  <2> QED BY <2>1 DEF Refused
<1>4. ASSUME TypeOK, NEW c \in Contexts PROVE ~Refused(Reconnection(c))
  <2> DEFINE tail == IF socketBuffer[c] = <<>> THEN <<>> ELSE <<Data(socketBuffer[c])>>
  <2>1. socketBuffer[c] \in Seq(Item)
        BY <1>4 DEF TypeOK
  <2>2. ~Refused(tail) /\ tail \in Seq(ServerPacket)
    <3>1. CASE socketBuffer[c] = <<>>
      <4>1. tail = <<>>
            BY <3>1
      <4> QED BY <4>1 DEF Refused
    <3>2. CASE socketBuffer[c] # <<>>
      <4>1. socketBuffer[c] \in Blob /\ tail = <<Data(socketBuffer[c])>>
            BY <2>1, <3>2 DEF Blob
      <4> QED BY <1>3, <4>1, ServerPackets
    <3> QED BY <3>1, <3>2
  <2>3. ReconnectReply(TRUE) \in Seq(ServerPacket) /\ ~Refused(ReconnectReply(TRUE))
    <3>1. ~Refused(ReconnectReply(TRUE))
          BY <1>1 DEF Refused, ReconnectReply
    <3> QED BY <3>1, ServerPackets
  <2> HIDE DEF tail
  <2>4. ~Refused(ReconnectReply(TRUE) \o tail)
        BY <2>2, <2>3, StillSaid
  <2> QED BY <2>4 DEF Reconnection, tail
<1> QED BY <1>2, <1>3, <1>4

LEMMA RefusedNext == KnownInv /\ RefusedInv /\ [Next]_vars => RefusedInv'
<1> SUFFICES ASSUME KnownInv, RefusedInv, [Next]_vars PROVE RefusedInv'
    OBVIOUS
<1> USE DEF frontend, backend, history, network
<1>t. /\ TypeOK /\ UpInv /\ ReplyInv /\ BackInv
      /\ toClient \in [Sessions -> Seq(ServerPacket)]
      /\ sid \in 0 .. MaxSessions /\ MaxSessions \in Nat
      BY BoundsAssumption DEF KnownInv, TypeOK
<1>n. sid # 0 => sid \in Sessions
      BY <1>t DEF Sessions
<1>u. \E s \in Sessions : TRUE
      BY BoundsAssumption DEF Sessions
<1>1. CASE Connect
  <2>1. /\ sid + 1 \in Sessions /\ sid' = sid + 1 /\ toClient' = toClient
        BY <1>1 DEF Connect
  <2>2. sid + 1 > sid
        BY <1>t
  <2>3. socketState[sid + 1] = "none"
        BY <1>t, <2>1, <2>2 DEF ReplyInv
  <2>4. ~Refused(toClient[sid + 1])
        BY <1>t, <2>1, <2>3, NothingSaid DEF ReplyInv, Unanswered
  <2> QED BY <2>1, <2>4 DEF RefusedInv
<1>2. CASE RefusalsKept /\ UNCHANGED sid /\ conn' \in {conn, NoContext}
      BY <1>2, <1>n DEF RefusedInv, RefusalsKept
<1>3. ASSUME NEW s \in Sessions, HandleInitialConnect(s)
      PROVE  RefusedInv'
  <2>1. s = sid /\ s \in negotiating /\ UNCHANGED sid
        BY <1>3, <1>t, LiveSession DEF HandleInitialConnect, ServerReceives
  <2>2. ~Refused(toClient[s])
        BY <1>t, <2>1, NothingSaid DEF ReplyInv, Unanswered
  <2>3. RefusalsKept
        BY <1>3, <1>t, ServerPackets, NotRefusals, RefusalsKeptWhen DEF HandleInitialConnect
  <2> QED BY <2>1, <2>2, <2>3 DEF RefusedInv, RefusalsKept
<1>4. ASSUME NEW s \in Sessions, HandleReconnect(s)
      PROVE  RefusedInv'
  <2>1. s = sid /\ s \in negotiating /\ UNCHANGED <<sid, conn>>
        BY <1>4, <1>t, LiveSession DEF HandleReconnect, ServerReceives
  <2>2. CASE conn # NoContext
    <3>1. toClient' = SentToClient(s, Reconnection(conn)) /\ conn \in Contexts
          BY <1>t, <1>4, <2>2 DEF HandleReconnect, Reconnection, TypeOK
    <3>2. RefusalsKept
          BY <1>t, <3>1, ReconnectionPackets, NotRefusals, RefusalsKeptWhen
    <3> QED BY <1>2, <2>1, <3>2
  <2> QED BY <2>1, <2>2 DEF RefusedInv
<1>5. \/ UNCHANGED toClient
      \/ PageLoads
      \/ Connect \/ ClientDisconnect \/ HandleInitialReply \/ HandleReconnected \/ HandleReconnectRefused
      \/ HandleClientData \/ ServerWrite
      \/ \E s \in Sessions : HandleInitialConnect(s) \/ HandleReconnect(s)
      BY DEF Next, FrontEnd, BackEnd, Environment, vars, Reload, Accept, MissPacket, IgnoreRequest,
             HandleServerData, HandleSocketDisconnect, CloseTimeoutExpires, ClientWrite, AboutToClose, Break
<1>6. RefusalsKept \/ \E s \in Sessions : HandleInitialConnect(s) \/ HandleReconnect(s)
  <2>1. CASE UNCHANGED toClient \/ PageLoads
        BY <1>t, <1>u, <2>1, RefusalsKeptWhen DEF PageLoads
  <2>2. CASE Connect
        BY <1>t, <1>u, <2>2, RefusalsKeptWhen DEF Connect
  <2>3. CASE ClientDisconnect \/ HandleInitialReply \/ HandleReconnected \/ HandleClientData
        BY <1>t, <2>3, RefusalsKeptWhen
           DEF ClientDisconnect, HandleInitialReply, HandleReconnected, HandleClientData, ClientReceives, UpInv
  <2>4. CASE HandleReconnectRefused
        BY <1>t, <2>1, <2>4, RefusalsKeptWhen DEF HandleReconnectRefused, ClientReceives, UpInv
  <2>5. CASE ServerWrite
    <3>1. ASSUME NEW s \in Sessions, NEW blob \in Blob, toClient' = SentToClient(s, <<Data(blob)>>)
          PROVE  RefusalsKept
          BY <1>t, <3>1, ServerPackets, NotRefusals, RefusalsKeptWhen
    <3> QED BY <1>t, <2>1, <2>5, <3>1, WriteSent
  <2> QED BY <1>5, <2>1, <2>2, <2>3, <2>4, <2>5
<1>7. \/ Connect
      \/ \E s \in Sessions : HandleInitialConnect(s) \/ HandleReconnect(s)
      \/ UNCHANGED sid /\ conn' \in {conn, NoContext}
      BY DEF Next, FrontEnd, BackEnd, Environment, vars, Reload, ClientDisconnect, HandleInitialReply,
             HandleReconnected, HandleReconnectRefused, HandleClientData, Accept, MissPacket, IgnoreRequest,
             HandleServerData, HandleSocketDisconnect, CloseTimeoutExpires, CloseConnection, ClientWrite,
             AboutToClose, ServerWrite, Break
<1> QED BY <1>1, <1>2, <1>3, <1>4, <1>6, <1>7

LEMMA FirstNext == KnownInv /\ ServedInv /\ FirstInv /\ [Next]_vars => FirstInv'
<1> SUFFICES ASSUME KnownInv, ServedInv, FirstInv, [Next]_vars,
                    (up /\ sid \notin ended /\ epoch = NoContext /\ ~Unanswered(sid))'
             PROVE  Says(toClient[sid], "initial")'
    BY DEF FirstInv
<1> USE DEF frontend, backend, history, network
<1>t. /\ TypeOK /\ UpInv /\ BackInv /\ ListenersInv /\ RequestInv /\ AnswerInv
      /\ toServer \in [Sessions -> Seq(ClientPacket)]
      /\ toClient \in [Sessions -> Seq(ServerPacket)]
      /\ socketState \in [Sessions -> {"none", "validating", "open", "closed"}]
      /\ reconnectListeners \in Nat /\ initialListeners \in Nat
      BY DEF KnownInv, ServedInv, TypeOK
<1>n. \A s \in Sessions : s # 0 /\ s # NoContext
      BY DEF Sessions, NoContext
<1>1. CASE Connect
  <2>1. sid' \in Sessions /\ socketState' = [socketState EXCEPT ![sid'] = "validating"]
        BY <1>1 DEF Connect
  <2>2. socketState'[sid'] = "validating"
        BY <1>t, <2>1
  <2> QED BY <2>2 DEF Unanswered
<1>2. CASE UNCHANGED <<sid, up, epoch, socketState, negotiating>> /\ ended \subseteq ended'
           /\ (up => (Says(toClient[sid], "initial") => Says(toClient'[sid], "initial")))
      BY <1>2 DEF FirstInv, Unanswered
<1>3. CASE UNCHANGED <<sid, up, epoch, socketState, negotiating, toClient>> /\ ended \subseteq ended'
      BY <1>2, <1>3
<1>4. CASE HandleInitialReply
  <2>1. up /\ toClient[sid] # <<>> /\ Head(toClient[sid]).type = "initial" /\ Head(toClient[sid]).type # "data"
        BY <1>4 DEF HandleInitialReply, ClientReceives
  <2>2. initialListeners > 0 /\ sid \in Sessions
        BY <1>t, <2>1, AnswerTaken DEF AnswerInv
  <2> QED BY <1>4, <1>n, <2>2 DEF HandleInitialReply
<1>5. CASE HandleReconnected \/ HandleReconnectRefused
  <2>0. /\ up /\ toClient[sid] # <<>>
        /\ Head(toClient[sid]) \in {[type |-> "reconnect", found |-> found] : found \in BOOLEAN}
        BY <1>5 DEF HandleReconnected, HandleReconnectRefused, ClientReceives
  <2>1. Head(toClient[sid]).type = "reconnect" /\ Head(toClient[sid]).type # "data"
        BY <2>0
  <2>2. reconnectListeners > 0
        BY <1>t, <2>0, <2>1, AnswerTaken DEF AnswerInv
  <2>3. epoch # NoContext
        BY <1>t, <2>2 DEF ListenersInv
  <2>4. CASE HandleReconnected
        BY <2>3, <2>4 DEF HandleReconnected
  <2>5. CASE HandleReconnectRefused
        BY <2>2, <2>5 DEF HandleReconnectRefused, PageLoads
  <2> QED BY <1>5, <2>4, <2>5
<1>6. CASE HandleClientData
  <2>1. /\ up /\ toClient[sid] # <<>> /\ Head(toClient[sid]).type = "data"
        /\ toClient' = [toClient EXCEPT ![sid] = Tail(toClient[sid])]
        /\ UNCHANGED <<sid, up, epoch, socketState, negotiating, ended>>
        BY <1>6 DEF HandleClientData
  <2>2. sid \in Sessions
        BY <1>t, <2>1 DEF UpInv
  <2>3. Head(toClient[sid]).type # "initial" /\ "initial" \in Negotiation
        BY <2>1 DEF Negotiation
  <2>4. Says(toClient[sid], "initial") => Says(toClient'[sid], "initial")
        BY <1>t, <2>1, <2>2, <2>3, StillSaid
  <2> QED BY <1>2, <2>1, <2>4
<1>7. CASE ServerWrite
  <2>1. ASSUME NEW s \in Sessions, NEW blob \in Blob, toClient' = SentToClient(s, <<Data(blob)>>),
               sid \in Sessions, Says(toClient[sid], "initial")
        PROVE  Says(toClient'[sid], "initial")
    <3>1. <<Data(blob)>> \in Seq(ServerPacket) /\ "initial" \in Negotiation
          BY ServerPackets DEF Negotiation
    <3>2. Says(toClient[s], "initial") => Says(toClient[s] \o <<Data(blob)>>, "initial")
          BY <1>t, <3>1, SaysInSent
    <3> QED BY <1>t, <2>1, <3>2 DEF SentToClient
  <2>2. UNCHANGED <<sid, up, epoch, socketState, negotiating, ended>>
        BY <1>7 DEF ServerWrite
  <2> QED BY <1>2, <1>7, <1>t, <2>1, <2>2, WriteSent DEF UpInv
<1>8. ASSUME NEW s \in Sessions, HandleInitialConnect(s)
      PROVE  Says(toClient[sid], "initial")'
  <2>1. s = sid /\ UNCHANGED <<sid, ended>>
        BY <1>8, <1>t, LiveSession DEF HandleInitialConnect, ServerReceives
  <2>2. toClient'[s] = toClient[s] \o <<[type |-> "initial"]>>
        BY <1>8, <1>t, <2>1 DEF HandleInitialConnect, SentToClient
  <2>3. <<[type |-> "initial"]>> \in Seq(ServerPacket) /\ "initial" \in Negotiation
        BY ServerPackets DEF Negotiation
  <2>4. Says(<<[type |-> "initial"]>>, "initial")
        BY DEF Says
  <2>5. Says(toClient[s] \o <<[type |-> "initial"]>>, "initial")
        BY <1>t, <2>3, <2>4, SaysInSent
  <2> QED BY <2>1, <2>2, <2>5
<1>9. ASSUME NEW s \in Sessions, HandleReconnect(s)
       PROVE  FALSE
  <2>1. s = sid /\ s \in negotiating /\ UNCHANGED <<up, epoch>>
        BY <1>9, <1>t, LiveSession DEF HandleReconnect, ServerReceives
  <2>2. Says(toServer[s], "reconnect")
        BY <1>9, <1>t, TailFacts DEF HandleReconnect, ServerReceives, Says
  <2>3. reconnectListeners > 0
        BY <1>n, <1>t, <2>1, <2>2 DEF RequestInv, Unanswered
  <2> QED BY <1>t, <2>1, <2>3 DEF ListenersInv
<1>10. ASSUME NEW s \in Sessions, Accept(s)
       PROVE  FALSE
  <2>1. s = sid /\ UNCHANGED sid /\ negotiating' = negotiating \cup {s}
        BY <1>10, <1>t, LiveSession DEF Accept
  <2> QED BY <2>1 DEF Unanswered
<1>11. ASSUME NEW s \in Sessions, HandleSocketDisconnect(s)
       PROVE  FALSE
  <2>1. s = sid /\ s \in ended /\ UNCHANGED <<sid, ended>>
        BY <1>11, <1>t, LiveSession DEF HandleSocketDisconnect
  <2> QED BY <2>1
<1> QED BY <1>1, <1>3, <1>4, <1>5, <1>6, <1>7, <1>8, <1>9, <1>10, <1>11
        DEF Next, FrontEnd, BackEnd, Environment, vars, Reload, PageLoads, ClientDisconnect, MissPacket,
            IgnoreRequest, HandleServerData, CloseTimeoutExpires, ClientWrite, AboutToClose, Break

LEMMA WaitsNext == KnownInv /\ ServedInv /\ HeldInv /\ RefusedInv /\ WaitsInv /\ [Next]_vars => WaitsInv'
<1> SUFFICES ASSUME KnownInv, ServedInv, HeldInv, RefusedInv, WaitsInv, [Next]_vars PROVE WaitsInv'
    OBVIOUS
<1> USE DEF frontend, backend, history, network
<1>t. /\ TypeOK /\ UpInv /\ BackInv /\ AnswerInv
      /\ toClient \in [Sessions -> Seq(ServerPacket)]
      /\ reconnectListeners \in Nat /\ initialListeners \in Nat
      BY DEF KnownInv, ServedInv, TypeOK
<1>1. CASE UNCHANGED <<closed, held>> /\ initialListeners' \in {initialListeners, initialListeners + 1} /\ conn' \in {conn, NoContext}
  <2>1. initialListeners > 0 => initialListeners' > 0
        BY <1>1, <1>t
  <2> QED BY <1>1, <2>1 DEF WaitsInv
<1>2. CASE UNCHANGED <<closed, held, initialListeners>> /\ conn' \in {conn, NoContext}
      BY <1>2 DEF WaitsInv
<1>3. CASE Connect
      BY <1>1, <1>3, <1>t DEF Connect
<1>4. CASE PageLoads
      BY <1>4 DEF PageLoads, WaitsInv
<1>5. CASE HandleInitialReply
      BY <1>5 DEF HandleInitialReply, WaitsInv
<1>6. CASE HandleReconnectRefused
  <2>1. /\ up /\ toClient[sid] # <<>> /\ Head(toClient[sid]) = Refusal
        BY <1>6 DEF HandleReconnectRefused, ClientReceives, Refusal
  <2>2. Head(toClient[sid]).type = "reconnect" /\ Head(toClient[sid]).type # "data"
        BY <2>1 DEF Refusal
  <2>3. sid \in Sessions /\ sid # 0 /\ reconnectListeners > 0
        BY <1>t, <2>1, <2>2, AnswerTaken DEF AnswerInv
  <2>4. Refused(toClient[sid])
        BY <1>t, <2>1, <2>3, TailFacts DEF Refused
  <2>5. UNCHANGED conn /\ conn = NoContext
        BY <1>6, <2>3, <2>4 DEF HandleReconnectRefused, RefusedInv
  <2>6. CASE initialListeners' = initialListeners + reconnectListeners
    <3>1. initialListeners' > 0
          BY <1>t, <2>3, <2>6
    <3> QED BY <2>5, <3>1 DEF WaitsInv
  <2> QED BY <1>4, <1>6, <2>3, <2>6 DEF HandleReconnectRefused, NegotiateInitialConnect
<1>7. ASSUME NEW s \in Sessions, HandleInitialConnect(s)
      PROVE  WaitsInv'
  <2>1. s \in negotiating /\ conn' = s /\ UNCHANGED <<closed, held, initialListeners>>
        BY <1>7 DEF HandleInitialConnect
  <2>2. s \notin held
        BY <2>1 DEF HeldInv, Unanswered
  <2> QED BY <2>1, <2>2 DEF WaitsInv
<1> QED BY <1>2, <1>3, <1>4, <1>5, <1>6, <1>7
        DEF Next, FrontEnd, BackEnd, Environment, vars, Reload, ClientDisconnect, HandleReconnected,
            HandleClientData, Accept, MissPacket, IgnoreRequest, HandleReconnect, HandleServerData,
            HandleSocketDisconnect, CloseTimeoutExpires, CloseConnection, ClientWrite, AboutToClose,
            ServerWrite, Break

LEMMA GoesOnAlways ==
    ASSUME LateDisconnect = FALSE
    PROVE  Spec => [](KnownInv /\ ServedInv /\ GoesOnInv)
<1>1. Init => GoesOnInv
  <2> SUFFICES ASSUME Init PROVE GoesOnInv
      OBVIOUS
  <2>1. \A s \in Sessions : socketState[s] = "none"
        BY DEF Init
  <2>2. ~up /\ sid = 0 /\ held = {} /\ ~closed
        BY DEF Init
  <2> QED BY <2>1, <2>2 DEF GoesOnInv, EndedInv, HeldInv, WaitsInv, RefusedInv, FirstInv, AskedInv
<1>2. KnownInv /\ ServedInv /\ GoesOnInv /\ [Next]_vars => GoesOnInv'
      BY EndedNext, HeldNext, WaitsNext, RefusedNext, FirstNext, AskedNext DEF GoesOnInv, KnownInv
<1> QED BY <1>1, <1>2, ServedAlways, PTL DEF Spec

\* A front end that is connected and not served has a request or an answer on its
\* way, or it is stranded: it never waits for something that is not coming, however
\* breaks, refusals, reloads and timeouts interleave (handleSocketConnected,
\* negotiateReconnect and negotiateInitialConnect of ws-connection-source.ts, and
\* their listeners in websocket-frontend-connection-service.ts).  It is the part of
\* FrontEndSettlesOrIsStranded that needs no fairness.
THEOREM NobodyWaitsForNothing ==
    ASSUME LateDisconnect = FALSE
    PROVE  Spec => []HandshakeGoesOn
<1>1. KnownInv /\ ServedInv /\ GoesOnInv => HandshakeGoesOn
  <2> SUFFICES ASSUME KnownInv, ServedInv, GoesOnInv, up, sid \notin ended, ~config.slowValidators,
                      \A type \in Negotiation : ~Says(toClient[sid], type), ~Unanswered(sid)
               PROVE  Settled \/ Stranded
      BY DEF HandshakeGoesOn, GoesOnInv, AskedInv
  <2>1. /\ sid \in Sessions /\ toClient[sid] \in Seq(ServerPacket)
        /\ socketState[sid] \in {"none", "validating", "open", "closed"}
        BY DEF KnownInv, UpInv, TypeOK
  <2>2. socketState[sid] = "open" /\ sid \notin negotiating
        BY <2>1 DEF Unanswered, GoesOnInv, EndedInv
  <2>3. "initial" \in Negotiation /\ "reconnect" \in Negotiation
        BY DEF Negotiation
  <2>4. \A i \in 1 .. Len(toClient[sid]) : toClient[sid][i].type = "data"
    <3>1. \A i \in DOMAIN toClient[sid] : toClient[sid][i] \in ServerPacket
          BY <2>1
    <3>2. \A i \in DOMAIN toClient[sid] : toClient[sid][i].type \in {"initial", "reconnect", "data"}
          BY <3>1, BlobOfPacket
    <3>3. DOMAIN toClient[sid] = 1 .. Len(toClient[sid])
          BY <2>1
    <3> QED BY <2>3, <3>2, <3>3 DEF Says
  <2>5. ~Refused(toClient[sid])
    <3>1. Refusal.type = "reconnect"
          BY DEF Refusal
    <3> QED BY <2>3, <3>1 DEF Refused, Says
  <2>6. owner[sid] # NoContext
        BY <2>2, <2>5 DEF ServedInv, RefusalInv
  <2>7. conn = owner[sid] /\ bound[conn] = sid
        BY <2>1, <2>2, <2>6 DEF KnownInv, BackInv, ContextInv, Live
  <2>8. epoch # NoContext
        BY <2>3 DEF GoesOnInv, FirstInv
  <2>9. CASE ~closed
        BY <2>2, <2>4, <2>8, <2>9 DEF Settled
  <2>10. CASE closed
         BY <2>6, <2>7, <2>10 DEF GoesOnInv, WaitsInv, Stranded
  <2> QED BY <2>9, <2>10
<1> QED BY <1>1, GoesOnAlways, PTL

===============================================================================
