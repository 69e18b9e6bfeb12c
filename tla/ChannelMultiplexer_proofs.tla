----------------------- MODULE ChannelMultiplexer_proofs -----------------------
(***************************************************************************)
(* Theorems about ChannelMultiplexer, for every set of ids and every bound *)
(* on open calls and packets.  All but the first are about ids             *)
(* that one end opens (the run both_open shows what happens to the others) *)
(* and holders that leave alone a channel they were told is closed.        *)
(***************************************************************************)
EXTENDS ChannelMultiplexer, TLAPS

OneOpener == \A id \in Ids : \A e \in Ends : e \in Openers[id] => Other(e) \notin Openers[id]

(***************************************************************************)
(* The inductive invariant, in parts.  The opener of an id asks for calls  *)
(* in order; the other end creates each channel first, the opener after    *)
(* the acknowledgement; packets keep the order of the calls they are for.  *)
(***************************************************************************)
Opening == {"Open", "AckOpen"}

\* A packet is for a call that was made and travels the way its type goes.
Expected(e, m) ==
    /\ m.call <= opens[m.id]
    /\ m.type = "Open" => Other(e) \in Openers[m.id]
    /\ m.type = "AckOpen" => e \in Openers[m.id]
    /\ m.type # "Open" => <<m.id, m.call>> \in created[Other(e)]

PacketsInv == \A e \in Ends : \A i \in DOMAIN link[e] : Expected(e, link[e][i])

\* A waiting call is the last one, and nothing is open under its id.
PendingInv ==
    \A e \in Ends : \A id \in Ids :
        /\ pendingOpen[e][id] # NoCall =>
              /\ e \in Openers[id]
              /\ pendingOpen[e][id] = opens[id]
              /\ openChannels[e][id] = NoCall
        /\ e \in Openers[id] => openChannels[e][id] \in {NoCall, opens[id]}

\* What is open was created, and nothing was created after it.
CreatedInv ==
    \A e \in Ends : \A id \in Ids : \A c \in Calls :
        /\ <<id, c>> \in created[e] =>
              /\ c <= opens[id]
              /\ openChannels[e][id] # NoCall => c <= openChannels[e][id]
              /\ Other(e) \notin Openers[id] => <<id, c>> \in created[Other(e)]
        /\ openChannels[e][id] = c => <<id, c>> \in created[e]

\* Packets of one id come in the order of its calls.
Ordered(m, n) == /\ m.call <= n.call
                 /\ n.type \in Opening => m.call < n.call

OrderInv ==
    \A e \in Ends : \A i, j \in DOMAIN link[e] :
        (i < j /\ link[e][i].id = link[e][j].id) => Ordered(link[e][i], link[e][j])

\* Nothing on its way to an end is for a channel older than those it created.
After(c, m) == /\ c <= m.call
               /\ m.type \in Opening => c < m.call

FreshInv ==
    \A e \in Ends : \A i \in DOMAIN link[e] : \A c \in Calls :
        <<link[e][i].id, c>> \in created[e] => After(c, link[e][i])

\* While an Open or its AckOpen travels, its call waits.
WaitingInv ==
    \A e \in Ends : active[e] =>
        /\ \A i \in DOMAIN link[e] :
              link[e][i].type = "AckOpen" => pendingOpen[e][link[e][i].id] = link[e][i].call
        /\ \A i \in DOMAIN link[Other(e)] :
              link[Other(e)][i].type = "Open"
                  => pendingOpen[e][link[Other(e)][i].id] = link[Other(e)][i].call

ChannelInv == /\ PacketsInv /\ PendingInv /\ CreatedInv /\ OrderInv /\ FreshInv /\ WaitingInv
              /\ NoOrphanedChannel

(***************************************************************************)
(* What a step does to the packets on their way to e: all of them stay, or *)
(* all but the first, or one is added behind them.                         *)
(***************************************************************************)
Kept(e) == \E k \in {0, 1} : \A i \in DOMAIN link'[e] :
               i + k \in DOMAIN link[e] /\ link'[e][i] = link[e][i + k]

Grown(e, m) == /\ \A i \in DOMAIN link'[e] : i \in DOMAIN link[e] \/ i = Len(link[e]) + 1
               /\ \A i \in DOMAIN link[e] : /\ i < Len(link[e]) + 1 /\ link'[e][i] = link[e][i]
                                            /\ i \in DOMAIN link'[e]
               /\ Len(link[e]) + 1 \in DOMAIN link'[e] /\ link'[e][Len(link[e]) + 1] = m

LEMMA OtherEnd == ASSUME NEW e \in Ends PROVE Other(e) \in Ends /\ Other(Other(e)) = e /\ Other(e) # e
BY DEF Ends, Other

LEMMA LinkTypes ==
    ASSUME TypeOK, NEW e \in Ends
    PROVE  /\ link[e] \in Seq(Packet)
           /\ \A i \in DOMAIN link[e] : /\ i \in Nat /\ link[e][i] \in Packet
                                        /\ link[e][i].id \in Ids
                                        /\ link[e][i].call \in Calls /\ link[e][i].call \in Nat
                                        /\ link[e][i].type \in MessageTypes
           /\ \A id \in Ids : opens[id] \in Nat
<1>1. link[e] \in Seq(Packet) /\ opens \in [Ids -> 0 .. MaxOpens]
      BY DEF TypeOK
<1>2. \A i \in DOMAIN link[e] : i \in Nat /\ link[e][i] \in Packet
      BY <1>1
<1>3. \A c \in Calls : c \in Nat
      BY DEF Calls
<1>4. \A n \in 0 .. MaxOpens : n \in Nat
      OBVIOUS
<1> QED BY <1>1, <1>2, <1>3, <1>4 DEF Packet

\* The first packet, and the packets once it is taken.
LEMMA FirstPacket ==
    ASSUME TypeOK, NEW p \in Ends, NEW type \in MessageTypes, Receives(p, type)
    PROVE  /\ 1 \in DOMAIN link[p] /\ Head(link[p]) = link[p][1] /\ link[p][1].type = type
           /\ Tail(link[p]) \in Seq(Packet)
           /\ \A i \in DOMAIN Tail(link[p]) :
                 1 < i + 1 /\ i + 1 \in DOMAIN link[p] /\ Tail(link[p])[i] = link[p][i + 1]
<1>1. link[p] \in Seq(Packet) /\ link[p] # <<>> /\ Head(link[p]).type = type
      BY LinkTypes DEF Receives
<1>2. 1 \in DOMAIN link[p] /\ Head(link[p]) = link[p][1]
      BY <1>1
<1>3. Tail(link[p]) \in Seq(Packet)
      BY <1>1
<1>4. \A i \in DOMAIN Tail(link[p]) :
         1 < i + 1 /\ i + 1 \in DOMAIN link[p] /\ Tail(link[p])[i] = link[p][i + 1]
      BY <1>1
<1> QED BY <1>1, <1>2, <1>3, <1>4

LEMMA TakenIsKept ==
    ASSUME TypeOK, NEW p \in Ends, NEW type \in MessageTypes, Receives(p, type), link' = Taken(p)
    PROVE  /\ link' \in [Ends -> Seq(Packet)]
           /\ \A e \in Ends : Kept(e)
           /\ \A i \in DOMAIN link'[p] :
                 1 < i + 1 /\ i + 1 \in DOMAIN link[p] /\ link'[p][i] = link[p][i + 1]
           /\ \A e \in Ends : e # p => link'[e] = link[e]
<1>1. link \in [Ends -> Seq(Packet)]
      BY DEF TypeOK
<1>2. link' = [link EXCEPT ![p] = Tail(link[p])]
      BY DEF Taken
<1>3. link'[p] = Tail(link[p]) /\ \A e \in Ends : e # p => link'[e] = link[e]
      BY <1>1, <1>2
<1>4. \A e \in Ends : \A i \in DOMAIN link[e] : i + 0 \in DOMAIN link[e] /\ link[e][i + 0] = link[e][i]
      BY LinkTypes
<1>5. Kept(p)
      BY <1>3, FirstPacket DEF Kept
<1>6. \A e \in Ends : e # p => Kept(e)
      BY <1>3, <1>4 DEF Kept
<1>7. link' \in [Ends -> Seq(Packet)]
      BY <1>1, <1>2, FirstPacket
<1> QED BY <1>3, <1>5, <1>6, <1>7, FirstPacket

\* A commit by p.
LEMMA SentGrows ==
    ASSUME TypeOK, NEW p \in Ends, NEW m \in Packet, link' = Sent(link, p, m)
    PROVE  /\ link' \in [Ends -> Seq(Packet)]
           /\ ~active[p] => \A e \in Ends : Kept(e)
           /\ active[p] => Kept(p) /\ Grown(Other(p), m)
           /\ link'[p] = link[p]
<1>1. link \in [Ends -> Seq(Packet)]
      BY DEF TypeOK
<1>2. \A e \in Ends : \A i \in DOMAIN link[e] : i + 0 \in DOMAIN link[e] /\ link[e][i + 0] = link[e][i]
      BY LinkTypes
<1>3. \A e \in Ends : link'[e] = link[e] => Kept(e)
      BY <1>2 DEF Kept
<1>4. CASE ~active[p]
      BY <1>1, <1>3, <1>4 DEF Sent
<1>5. CASE active[p]
  <2> DEFINE o == Other(p)
  <2>1. link' = [link EXCEPT ![o] = Append(link[o], m)] /\ o \in Ends /\ o # p
        BY <1>5, OtherEnd DEF Sent
  <2>2. link'[o] = Append(link[o], m) /\ link'[p] = link[p]
        BY <1>1, <2>1
  <2>3. link[o] \in Seq(Packet)
        BY <1>1, <2>1
  <2>4. Append(link[o], m) \in Seq(Packet)
        BY <2>3
  <2>5. Grown(o, m)
        BY <2>2, <2>3 DEF Grown
  <2> QED BY <1>1, <1>3, <1>5, <2>1, <2>2, <2>4, <2>5
<1> QED BY <1>4, <1>5

-------------------------------------------------------------------------------
(***************************************************************************)
(* Types.                                                                  *)
(***************************************************************************)
LEMMA TypesInit == Init => TypeOK
BY MultiplexerAssumption DEF Init, TypeOK

LEMMA NumberOfCall == /\ NoCall \notin Calls
                      /\ \A id \in Ids : \A c \in Calls : <<id, c>> \in Channels
BY DEF NoCall, Calls, Channels

\* What a packet needs to be one.
LEMMA PackedIsPacket ==
    ASSUME NEW type \in MessageTypes, NEW id \in Ids, NEW c \in Calls
    PROVE  /\ Packed(type, id, c) \in Packet
           /\ Packed(type, id, c).type = type
           /\ Packed(type, id, c).id = id
           /\ Packed(type, id, c).call = c
BY DEF Packed, Packet

\* The two steps of handleOpen on the links.
LEMMA TakenThenSent ==
    ASSUME TypeOK, NEW p \in Ends, NEW type \in MessageTypes, Receives(p, type), NEW m \in Packet,
           link' = Sent(Taken(p), p, m)
    PROVE  /\ link' \in [Ends -> Seq(Packet)]
           /\ Kept(p) /\ Grown(Other(p), m)
           /\ link'[p] = Tail(link[p])
           /\ \A i \in DOMAIN link'[p] :
                 1 < i + 1 /\ i + 1 \in DOMAIN link[p] /\ link'[p][i] = link[p][i + 1]
<1> DEFINE o == Other(p)
<1>1. link \in [Ends -> Seq(Packet)] /\ active[p] /\ o \in Ends /\ o # p
      BY OtherEnd DEF TypeOK, Receives
<1>2. Tail(link[p]) \in Seq(Packet)
      BY FirstPacket
<1>3. Taken(p) \in [Ends -> Seq(Packet)] /\ Taken(p)[p] = Tail(link[p]) /\ Taken(p)[o] = link[o]
      BY <1>1, <1>2 DEF Taken
<1>4. link' = [Taken(p) EXCEPT ![o] = Append(Taken(p)[o], m)]
      BY <1>1 DEF Sent
<1>5. link'[p] = Tail(link[p]) /\ link'[o] = Append(link[o], m)
      BY <1>1, <1>3, <1>4
<1>6. link[o] \in Seq(Packet) /\ Append(link[o], m) \in Seq(Packet)
      BY <1>1
<1>7. link' \in [Ends -> Seq(Packet)]
      BY <1>1, <1>3, <1>4, <1>6
<1>8. Grown(o, m)
      BY <1>5, <1>6 DEF Grown
<1>9. Kept(p)
      BY <1>5, FirstPacket DEF Kept
<1> QED BY <1>5, <1>7, <1>8, <1>9, FirstPacket

LEMMA TypesNext == TypeOK /\ [Next]_vars => TypeOK'
<1> SUFFICES ASSUME TypeOK, [Next]_vars PROVE TypeOK'
    OBVIOUS
<1>t. \A t \in {"Open", "Close", "AckOpen", "Data"} : t \in MessageTypes
      BY DEF MessageTypes
<1>1. ASSUME NEW p \in Ends, NEW id \in Ids, Open(p, id) PROVE TypeOK'
  <2> DEFINE call == opens[id] + 1
  <2>1. call \in Calls /\ link' = Sent(link, p, Packed("Open", id, call))
        BY <1>1 DEF Open
  <2>2. Packed("Open", id, call) \in Packet
        BY <1>t, <2>1, PackedIsPacket
  <2>3. link' \in [Ends -> Seq(Packet)]
        BY <2>1, <2>2, SentGrows
  <2>4. opens' \in [Ids -> 0 .. MaxOpens]
        BY <1>1, <2>1 DEF Open, TypeOK, Calls
  <2> QED BY <1>1, <2>1, <2>3, <2>4 DEF Open, TypeOK
<1>2. ASSUME NEW p \in Ends, NEW ch \in Channels, Close(p, ch) PROVE TypeOK'
  <2>1. Packed("Close", ch[1], ch[2]) \in Packet /\ ch[1] \in Ids
        BY <1>t, PackedIsPacket DEF Channels
  <2>2. link' \in [Ends -> Seq(Packet)]
        BY <1>2, <2>1, SentGrows DEF Close
  <2> QED BY <1>2, <2>1, <2>2 DEF Close, TypeOK
<1>3. ASSUME NEW p \in Ends, NEW ch \in Channels, Write(p, ch) PROVE TypeOK'
  <2>1. Packed("Data", ch[1], ch[2]) \in Packet
        BY <1>t, PackedIsPacket DEF Channels
  <2>2. link' \in [Ends -> Seq(Packet)]
        BY <1>3, <2>1, SentGrows DEF Write
  <2> QED BY <1>3, <2>2 DEF Write, TypeOK
<1>4. ASSUME NEW p \in Ends, HandleAckOpen(p) PROVE TypeOK'
  <2> DEFINE id == Head(link[p]).id
             call == pendingOpen[p][id]
  <2>1. Receives(p, "AckOpen") /\ link' = Taken(p)
        BY <1>4 DEF HandleAckOpen
  <2>2. link' \in [Ends -> Seq(Packet)] /\ id \in Ids
        BY <1>t, <2>1, TakenIsKept, FirstPacket, LinkTypes
  <2>3. CASE call # NoCall
    <3>1. call \in Calls /\ <<id, call>> \in Channels
          BY <2>2, <2>3, NumberOfCall DEF TypeOK
    <3>2. /\ created' = [created EXCEPT ![p] = created[p] \cup {<<id, call>>}]
          /\ resolved' = [resolved EXCEPT ![p] = resolved[p] \cup {<<id, call>>}]
          /\ pendingOpen' = [pendingOpen EXCEPT ![p][id] = NoCall]
          /\ openChannels' = [openChannels EXCEPT ![p][id] = call]
          BY <1>4, <2>3 DEF HandleAckOpen
    <3>3. created' \in [Ends -> SUBSET Channels] /\ resolved' \in [Ends -> SUBSET Channels]
          BY <3>1, <3>2 DEF TypeOK
    <3>4. /\ pendingOpen' \in [Ends -> [Ids -> Calls \cup {NoCall}]]
          /\ openChannels' \in [Ends -> [Ids -> Calls \cup {NoCall}]]
          BY <2>2, <3>1, <3>2 DEF TypeOK
    <3> QED BY <1>4, <2>2, <3>3, <3>4 DEF HandleAckOpen, TypeOK
  <2>4. CASE call = NoCall
        BY <1>4, <2>2, <2>4 DEF HandleAckOpen, TypeOK
  <2> QED BY <2>3, <2>4
<1>5. ASSUME NEW p \in Ends, HandleOpen(p) PROVE TypeOK'
  <2> DEFINE id == Head(link[p]).id
             call == Head(link[p]).call
  <2>1. Receives(p, "Open")
        BY <1>5 DEF HandleOpen
  <2>2. id \in Ids /\ call \in Calls
        BY <1>t, <2>1, FirstPacket, LinkTypes
  <2>3. CASE openChannels[p][id] = NoCall
    <3>1. link' = Sent(Taken(p), p, Packed("AckOpen", id, call))
          BY <1>5, <2>3 DEF HandleOpen
    <3>2. link' \in [Ends -> Seq(Packet)]
          BY <1>t, <2>1, <2>2, <3>1, PackedIsPacket, TakenThenSent
    <3>3. <<id, call>> \in Channels /\ {<<id, pendingOpen[p][id]>>} \cap Channels \subseteq Channels
          BY <2>2, NumberOfCall
    <3>4. created' = [created EXCEPT ![p] = created[p] \cup {<<id, call>>}]
          BY <1>5, <2>3 DEF HandleOpen
    <3>5. created' \in [Ends -> SUBSET Channels]
          BY <3>3, <3>4 DEF TypeOK
    <3>6. resolved' = [resolved EXCEPT ![p] = resolved[p] \cup ({<<id, pendingOpen[p][id]>>} \cap Channels)]
          BY <1>5, <2>3 DEF HandleOpen
    <3>7. resolved' \in [Ends -> SUBSET Channels]
          BY <3>3, <3>6 DEF TypeOK
    <3>8. openChannels' = [openChannels EXCEPT ![p][id] = call]
          BY <1>5, <2>3 DEF HandleOpen
    <3>9. openChannels' \in [Ends -> [Ids -> Calls \cup {NoCall}]]
          BY <2>2, <3>8 DEF TypeOK
    <3> QED BY <1>5, <3>2, <3>5, <3>7, <3>9 DEF HandleOpen, TypeOK
  <2>4. CASE openChannels[p][id] # NoCall
    <3>1. link' = Taken(p)
          BY <1>5, <2>4 DEF HandleOpen
    <3>2. link' \in [Ends -> Seq(Packet)]
          BY <1>t, <2>1, <3>1, TakenIsKept
    <3> QED BY <1>5, <2>4, <3>2 DEF HandleOpen, TypeOK
  <2> QED BY <2>3, <2>4
<1>6. ASSUME NEW p \in Ends, HandleClose(p) PROVE TypeOK'
  <2> DEFINE id == Head(link[p]).id
             told == {<<id, openChannels[p][id]>>} \cap Channels
  <2>1. link' \in [Ends -> Seq(Packet)] /\ id \in Ids
        BY <1>6, <1>t, TakenIsKept, FirstPacket, LinkTypes DEF HandleClose
  <2>2. notified' = [notified EXCEPT ![p] = notified[p] \cup told] /\ told \subseteq Channels
        BY <1>6 DEF HandleClose
  <2>3. notified' \in [Ends -> SUBSET Channels]
        BY <2>2 DEF TypeOK
  <2> QED BY <1>6, <2>1, <2>3 DEF HandleClose, TypeOK
<1>7. ASSUME NEW p \in Ends, HandleData(p) PROVE TypeOK'
  <2>1. link' \in [Ends -> Seq(Packet)]
        BY <1>7, <1>t, TakenIsKept DEF HandleData
  <2> QED BY <1>7, <2>1 DEF HandleData, TypeOK
<1>8. ASSUME NEW p \in Ends, UnderlyingChannelClose(p) PROVE TypeOK'
  <2>1. OpenAt(p) \subseteq Channels
        BY DEF OpenAt
  <2> QED BY <1>8, <2>1 DEF UnderlyingChannelClose, TypeOK
<1>9. CASE UNCHANGED vars
      BY <1>9 DEF vars, TypeOK
<1> QED BY <1>1, <1>2, <1>3, <1>4, <1>5, <1>6, <1>7, <1>8, <1>9 DEF Next, HandleMessage, Use

\* The variables keep their types: an id has a channel or none, a packet names a
\* call that can have been made.
THEOREM TypeCorrect == Spec => []TypeOK
<1> QED BY TypesInit, TypesNext, PTL DEF Spec

-------------------------------------------------------------------------------
(***************************************************************************)
(* The invariant.  The parts about packets, end by end.                    *)
(***************************************************************************)
ArrivalsInv(e) ==
    /\ \A i \in DOMAIN link[e] : Expected(e, link[e][i])
    /\ \A i, j \in DOMAIN link[e] :
          (i < j /\ link[e][i].id = link[e][j].id) => Ordered(link[e][i], link[e][j])
    /\ \A i \in DOMAIN link[e] : \A c \in Calls :
          <<link[e][i].id, c>> \in created[e] => After(c, link[e][i])

LEMMA ArrivalsParts == (\A e \in Ends : ArrivalsInv(e)) <=> (PacketsInv /\ OrderInv /\ FreshInv)
BY DEF ArrivalsInv, PacketsInv, OrderInv, FreshInv

\* What may happen to the history while a packet is on its way to e.
Onward(e) ==
    /\ \A id \in Ids : opens[id] <= opens'[id]
    /\ created[Other(e)] \subseteq created'[Other(e)]
    /\ \A i \in DOMAIN link'[e] : \A c \in Calls :
          <<link'[e][i].id, c>> \in created'[e]
              => <<link'[e][i].id, c>> \in created[e] \/ After(c, link'[e][i])

LEMMA ExpectedStays ==
    ASSUME TypeOK, TypeOK', NEW e \in Ends, NEW m \in Packet, Onward(e), Expected(e, m)
    PROVE  Expected(e, m)'
<1>1. m.id \in Ids /\ m.call \in Nat
      BY DEF Packet, Calls
<1>2. opens[m.id] \in Nat /\ opens'[m.id] \in Nat /\ opens[m.id] <= opens'[m.id]
      BY <1>1, LinkTypes DEF Onward, TypeOK
<1> QED BY <1>1, <1>2 DEF Onward, Expected

LEMMA KeptArrivals ==
    ASSUME TypeOK, TypeOK', NEW e \in Ends, ArrivalsInv(e), Kept(e), Onward(e)
    PROVE  ArrivalsInv(e)'
<1>1. PICK k \in {0, 1} : \A i \in DOMAIN link'[e] : i + k \in DOMAIN link[e] /\ link'[e][i] = link[e][i + k]
      BY DEF Kept
<1>2. \A i \in DOMAIN link'[e] : i \in Nat /\ link'[e][i] \in Packet
      BY DEF TypeOK
<1>3. \A i \in DOMAIN link'[e] : Expected(e, link[e][i])'
  <2> SUFFICES ASSUME NEW i \in DOMAIN link'[e] PROVE Expected(e, link[e][i])'
      OBVIOUS
  <2>1. PICK m \in Packet : m = link'[e][i]
        BY <1>2
  <2>2. Expected(e, m)
        BY <1>1, <2>1 DEF ArrivalsInv
  <2>3. Expected(e, m)'
        BY <2>2, ExpectedStays
  <2> QED BY <2>1, <2>3 DEF Expected
<1>4. ASSUME NEW i \in DOMAIN link'[e], NEW j \in DOMAIN link'[e], i < j, link'[e][i].id = link'[e][j].id
      PROVE  Ordered(link'[e][i], link'[e][j])
  <2> DEFINE a == i + k
             b == j + k
  <2>1. a < b
        BY <1>2, <1>4
  <2>2. /\ a \in DOMAIN link[e] /\ link'[e][i] = link[e][a]
        /\ b \in DOMAIN link[e] /\ link'[e][j] = link[e][b]
        BY <1>1
  <2> HIDE DEF a, b
  <2>3. Ordered(link[e][a], link[e][b])
        BY <1>4, <2>1, <2>2 DEF ArrivalsInv
  <2> QED BY <2>2, <2>3
<1>5. ASSUME NEW i \in DOMAIN link'[e], NEW c \in Calls, <<link'[e][i].id, c>> \in created'[e]
      PROVE  After(c, link'[e][i])
      BY <1>1, <1>5 DEF ArrivalsInv, Onward
<1> QED BY <1>3, <1>4, <1>5 DEF ArrivalsInv, Ordered, After

LEMMA GrownArrivals ==
    ASSUME TypeOK, TypeOK', NEW e \in Ends, NEW m \in Packet, ArrivalsInv(e), Grown(e, m), Onward(e),
           Expected(e, m)',
           \A c \in Calls : <<m.id, c>> \in created'[e] => After(c, m),
           \A i \in DOMAIN link[e] : link[e][i].id = m.id => Ordered(link[e][i], m)
    PROVE  ArrivalsInv(e)'
<1> DEFINE n == Len(link[e]) + 1
<1>1. /\ \A i \in DOMAIN link'[e] : i \in DOMAIN link[e] \/ i = n
      /\ \A i \in DOMAIN link[e] : i < n /\ link'[e][i] = link[e][i]
      /\ link'[e][n] = m
      BY DEF Grown
<1>2. \A i \in DOMAIN link[e] : i \in Nat /\ link[e][i] \in Packet
      BY LinkTypes
<1>n. n \in Nat
      BY LinkTypes
<1>3. \A i \in DOMAIN link'[e] : Expected(e, link[e][i])'
  <2> SUFFICES ASSUME NEW i \in DOMAIN link'[e] PROVE Expected(e, link[e][i])'
      OBVIOUS
  <2>1. CASE i = n
        BY <1>1, <2>1 DEF Expected
  <2>2. CASE i \in DOMAIN link[e]
    <3>1. PICK p \in Packet : p = link[e][i]
          BY <1>2, <2>2
    <3>2. Expected(e, p)
          BY <2>2, <3>1 DEF ArrivalsInv
    <3>3. Expected(e, p)'
          BY <3>2, ExpectedStays
    <3> QED BY <1>1, <2>2, <3>1, <3>3 DEF Expected
  <2> QED BY <1>1, <2>1, <2>2
<1>4. ASSUME NEW i \in DOMAIN link'[e], NEW j \in DOMAIN link'[e], i < j, link'[e][i].id = link'[e][j].id
      PROVE  Ordered(link'[e][i], link'[e][j])
  <2> HIDE DEF n
  <2>1. i # n
        BY <1>1, <1>2, <1>4, <1>n
  <2>2. i \in DOMAIN link[e] /\ link'[e][i] = link[e][i]
        BY <1>1, <2>1
  <2>3. CASE j = n
        BY <1>1, <1>4, <2>2, <2>3
  <2>4. CASE j \in DOMAIN link[e]
        BY <1>1, <1>4, <2>2, <2>4 DEF ArrivalsInv
  <2> QED BY <1>1, <2>3, <2>4
<1>5. ASSUME NEW i \in DOMAIN link'[e], NEW c \in Calls, <<link'[e][i].id, c>> \in created'[e]
      PROVE  After(c, link'[e][i])
      BY <1>1, <1>5 DEF ArrivalsInv, Onward
<1> QED BY <1>3, <1>4, <1>5 DEF ArrivalsInv, Ordered, After

\* A step after which only old packets travel, and new ones that open nothing.
LEMMA WaitingStays ==
    ASSUME TypeOK, WaitingInv,
           \A e \in Ends : active'[e] => active[e] /\ pendingOpen'[e] = pendingOpen[e],
           \A e \in Ends : \A i \in DOMAIN link'[e] :
              \/ \E j \in DOMAIN link[e] : link'[e][i] = link[e][j]
              \/ link'[e][i].type \notin Opening
    PROVE  WaitingInv'
<1>1. ASSUME NEW e \in Ends, active'[e], NEW i \in DOMAIN link'[e], link'[e][i].type = "AckOpen"
      PROVE  pendingOpen'[e][link'[e][i].id] = link'[e][i].call
      BY <1>1 DEF WaitingInv, Opening
<1>2. ASSUME NEW e \in Ends, active'[e], NEW i \in DOMAIN link'[Other(e)], link'[Other(e)][i].type = "Open"
      PROVE  pendingOpen'[e][link'[Other(e)][i].id] = link'[Other(e)][i].call
      BY <1>2, OtherEnd DEF WaitingInv, Opening
<1> QED BY <1>1, <1>2 DEF WaitingInv

LEMMA OldPackets ==
    /\ \A e \in Ends : Kept(e) =>
          \A i \in DOMAIN link'[e] : \E j \in DOMAIN link[e] : link'[e][i] = link[e][j]
    /\ \A e \in Ends : \A m \in Packet : Grown(e, m) =>
          \A i \in DOMAIN link'[e] :
              (\E j \in DOMAIN link[e] : link'[e][i] = link[e][j]) \/ link'[e][i] = m
BY DEF Kept, Grown

-------------------------------------------------------------------------------
(***************************************************************************)
(* Steps that put nothing, or one packet, on a link.                       *)
(***************************************************************************)
LEMMA KeptAll ==
    ASSUME TypeOK, TypeOK', ChannelInv, \A e \in Ends : Kept(e), created' = created,
           \A id \in Ids : opens[id] <= opens'[id]
    PROVE  PacketsInv' /\ OrderInv' /\ FreshInv'
<1>1. \A e \in Ends : ArrivalsInv(e)
      BY ArrivalsParts DEF ChannelInv
<1>2. \A e \in Ends : Onward(e)
      BY DEF Onward
<1>3. \A e \in Ends : ArrivalsInv(e)'
      BY <1>1, <1>2, KeptArrivals
<1> QED BY <1>3 DEF ArrivalsInv, PacketsInv, OrderInv, FreshInv

LEMMA SentAll ==
    ASSUME TypeOK, TypeOK', ChannelInv, NEW p \in Ends, NEW m \in Packet, link' = Sent(link, p, m),
           created' = created, \A id \in Ids : opens[id] <= opens'[id],
           Expected(Other(p), m)',
           \A c \in Calls : <<m.id, c>> \in created[Other(p)] => After(c, m),
           \A i \in DOMAIN link[Other(p)] :
              link[Other(p)][i].id = m.id => Ordered(link[Other(p)][i], m)
    PROVE  PacketsInv' /\ OrderInv' /\ FreshInv'
<1>1. \A e \in Ends : ArrivalsInv(e)
      BY ArrivalsParts DEF ChannelInv
<1>2. \A e \in Ends : Onward(e)
      BY DEF Onward
<1>3. CASE ~active[p]
      BY <1>3, SentGrows, KeptAll
<1>4. CASE active[p]
  <2>1. Kept(p) /\ Grown(Other(p), m) /\ Other(p) \in Ends
        BY <1>4, SentGrows, OtherEnd
  <2>2. ArrivalsInv(p)'
        BY <1>1, <1>2, <2>1, KeptArrivals
  <2>3. ArrivalsInv(Other(p))'
        BY <1>1, <1>2, <2>1, GrownArrivals
  <2>4. \A e \in Ends : e = p \/ e = Other(p)
        BY DEF Ends, Other
  <2>5. \A e \in Ends : ArrivalsInv(e)'
        BY <2>2, <2>3, <2>4
  <2> QED BY <2>5 DEF ArrivalsInv, PacketsInv, OrderInv, FreshInv
<1> QED BY <1>3, <1>4

\* What the holder of an open channel sends.
LEMMA HolderSends ==
    ASSUME TypeOK, OneOpener, ChannelInv, NEW p \in Ends, NEW ch \in Channels, ch \in OpenAt(p),
           ch \in created[p], NEW m \in Packet, m.id = ch[1], m.call = ch[2], m.type \in {"Close", "Data"}
    PROVE  /\ Expected(Other(p), m)
           /\ \A c \in Calls : <<m.id, c>> \in created[Other(p)] => After(c, m)
           /\ \A i \in DOMAIN link[Other(p)] :
                 link[Other(p)][i].id = m.id => Ordered(link[Other(p)][i], m)
<1> DEFINE o == Other(p)
           id == ch[1]
           k == ch[2]
<1>1. id \in Ids /\ k \in Calls /\ k \in Nat /\ ch = <<id, k>> /\ openChannels[p][id] = k /\ k # NoCall
      BY DEF Channels, OpenAt, Calls, NoCall
<1>2. o \in Ends /\ Other(o) = p
      BY OtherEnd
<1>3. m.type \notin Opening /\ m.type # "Open" /\ m.type # "AckOpen"
      BY DEF Opening
<1>4. k <= opens[id]
      BY <1>1 DEF ChannelInv, CreatedInv
<1>5. Expected(o, m)
      BY <1>1, <1>2, <1>3, <1>4 DEF Expected
<1>6. CASE p \in Openers[id]
  <2>1. k = opens[id]
        BY <1>1, <1>6 DEF ChannelInv, PendingInv
  <2>2. \A c \in Calls : <<id, c>> \in created[o] => c <= k
        BY <1>1, <1>2, <2>1 DEF ChannelInv, CreatedInv
  <2>3. \A i \in DOMAIN link[o] : link[o][i].id = id => link[o][i].call <= k
        BY <1>2, <2>1 DEF ChannelInv, PacketsInv, Expected
  <2> QED BY <1>3, <1>5, <2>2, <2>3 DEF After, Ordered
<1>7. CASE p \notin Openers[id]
  <2>1. \A c \in Calls : <<id, c>> \in created[p] => c <= k
        BY <1>1 DEF ChannelInv, CreatedInv
  <2>2. \A c \in Calls : <<id, c>> \in created[o] => c <= k
        BY <1>1, <1>2, <1>7, <2>1 DEF ChannelInv, CreatedInv
  <2>3. ASSUME NEW i \in DOMAIN link[o], link[o][i].id = id PROVE link[o][i].call <= k
    <3>1. link[o][i].type # "Open" /\ link[o][i].call \in Calls
          BY <1>2, <1>7, <2>3, LinkTypes DEF ChannelInv, PacketsInv, Expected
    <3>2. <<id, link[o][i].call>> \in created[p]
          BY <1>2, <2>3, <3>1 DEF ChannelInv, PacketsInv, Expected
    <3> QED BY <2>1, <3>1, <3>2
  <2> QED BY <1>3, <1>5, <2>2, <2>3 DEF After, Ordered
<1> QED BY <1>6, <1>7

LEMMA CloseStep ==
    ASSUME TypeOK, TypeOK', OneOpener, LateUse = FALSE, ChannelInv,
           NEW p \in Ends, NEW ch \in Channels, Close(p, ch)
    PROVE  ChannelInv'
<1> DEFINE m == Packed("Close", ch[1], ch[2])
<1>1. ch[1] \in Ids /\ ch[2] \in Calls /\ ch = <<ch[1], ch[2]>> /\ "Close" \in MessageTypes
      BY DEF Channels, MessageTypes
<1>2. m \in Packet /\ m.type = "Close" /\ m.id = ch[1] /\ m.call = ch[2]
      BY <1>1, PackedIsPacket
<1>3. /\ ch \in created[p] /\ ch \notin closed[p] /\ ch \notin notified[p]
      /\ closed' = [closed EXCEPT ![p] = closed[p] \cup {ch}]
      /\ link' = Sent(link, p, m)
      /\ openChannels' = [openChannels EXCEPT ![p][ch[1]] = NoCall]
      /\ UNCHANGED <<pendingOpen, active, opens, created, notified>>
      BY DEF Close
<1>4. ch \in OpenAt(p)
      BY <1>3 DEF ChannelInv, NoOrphanedChannel
<1>5. /\ openChannels \in [Ends -> [Ids -> Calls \cup {NoCall}]]
      /\ closed \in [Ends -> SUBSET Channels]
      /\ \A id \in Ids : opens[id] <= opens'[id]
      BY <1>3, LinkTypes DEF TypeOK
<1>6. /\ \A e \in Ends, id \in Ids : openChannels'[e][id] = NoCall \/ openChannels'[e][id] = openChannels[e][id]
      /\ \A e \in Ends, c \in Channels : c \in OpenAt(e) => c \in OpenAt(e)' \/ c \in closed'[e]
      /\ \A e \in Ends : closed[e] \subseteq closed'[e]
  <2>1. \A e \in Ends, id \in Ids : openChannels'[e][id] =
            IF e = p /\ id = ch[1] THEN NoCall ELSE openChannels[e][id]
        BY <1>3, <1>5
  <2>2. \A c \in OpenAt(p) : c[1] = ch[1] => c = ch
        BY <1>4 DEF OpenAt, Channels
  <2>3. \A e \in Ends : closed'[e] = IF e = p THEN closed[p] \cup {ch} ELSE closed[e]
        BY <1>3, <1>5
  <2>4. \A c \in Channels : c[1] \in Ids
        BY DEF Channels
  <2>5. \A e \in Ends, c \in Channels : c \in OpenAt(e) => c \in OpenAt(e)' \/ c \in closed'[e]
        BY <2>1, <2>2, <2>3, <2>4 DEF OpenAt
  <2> QED BY <2>1, <2>3, <2>5
<1>7. PacketsInv' /\ OrderInv' /\ FreshInv'
  <2>1. /\ Expected(Other(p), m)
        /\ \A c \in Calls : <<m.id, c>> \in created[Other(p)] => After(c, m)
        /\ \A i \in DOMAIN link[Other(p)] :
              link[Other(p)][i].id = m.id => Ordered(link[Other(p)][i], m)
        BY <1>2, <1>3, <1>4, HolderSends
  <2>2. Expected(Other(p), m)'
        BY <1>3, <2>1 DEF Expected, Packed
  <2> QED BY <1>2, <1>3, <1>5, <2>1, <2>2, SentAll
<1>8. PendingInv' /\ CreatedInv'
      BY <1>3, <1>6, NumberOfCall DEF ChannelInv, PendingInv, CreatedInv
<1>9. WaitingInv'
  <2>1. \A e \in Ends : Kept(e) \/ Grown(e, m)
        BY <1>2, <1>3, SentGrows DEF Ends, Other
  <2>2. m.type \notin Opening
        BY <1>2 DEF Opening
  <2> HIDE DEF m
  <2>3. \A e \in Ends : \A i \in DOMAIN link'[e] :
              \/ \E j \in DOMAIN link[e] : link'[e][i] = link[e][j]
              \/ link'[e][i].type \notin Opening
        BY <1>2, <2>1, <2>2, OldPackets
  <2> QED BY <1>3, <2>3, WaitingStays DEF ChannelInv
<1>10. NoOrphanedChannel'
  <2>1. created \in [Ends -> SUBSET Channels]
        BY DEF TypeOK
  <2> QED BY <1>3, <1>6, <2>1 DEF ChannelInv, NoOrphanedChannel
<1> QED BY <1>7, <1>8, <1>9, <1>10 DEF ChannelInv

LEMMA WriteStep ==
    ASSUME TypeOK, TypeOK', OneOpener, LateUse = FALSE, ChannelInv,
           NEW p \in Ends, NEW ch \in Channels, Write(p, ch)
    PROVE  ChannelInv'
<1> DEFINE m == Packed("Data", ch[1], ch[2])
<1>1. ch[1] \in Ids /\ ch[2] \in Calls /\ ch = <<ch[1], ch[2]>> /\ "Data" \in MessageTypes
      BY DEF Channels, MessageTypes
<1>2. m \in Packet /\ m.type = "Data" /\ m.id = ch[1] /\ m.call = ch[2]
      BY <1>1, PackedIsPacket
<1>3. /\ ch \in created[p] /\ ch \notin closed[p] /\ ch \notin notified[p]
      /\ link' = Sent(link, p, m)
      /\ UNCHANGED <<pendingOpen, openChannels, active, opens, created, closed, notified>>
      BY DEF Write
<1>4. ch \in OpenAt(p) /\ \A id \in Ids : opens[id] <= opens'[id]
      BY <1>3, LinkTypes DEF ChannelInv, NoOrphanedChannel
<1>5. PacketsInv' /\ OrderInv' /\ FreshInv'
  <2>1. /\ Expected(Other(p), m)
        /\ \A c \in Calls : <<m.id, c>> \in created[Other(p)] => After(c, m)
        /\ \A i \in DOMAIN link[Other(p)] :
              link[Other(p)][i].id = m.id => Ordered(link[Other(p)][i], m)
        BY <1>2, <1>3, <1>4, HolderSends
  <2>2. Expected(Other(p), m)'
        BY <1>3, <2>1 DEF Expected, Packed
  <2> QED BY <1>2, <1>3, <1>4, <2>1, <2>2, SentAll
<1>6. PendingInv' /\ CreatedInv' /\ NoOrphanedChannel'
      BY <1>3 DEF ChannelInv, PendingInv, CreatedInv, NoOrphanedChannel, OpenAt
<1>7. WaitingInv'
  <2>1. \A e \in Ends : Kept(e) \/ Grown(e, m)
        BY <1>2, <1>3, SentGrows DEF Ends, Other
  <2>2. m.type \notin Opening
        BY <1>2 DEF Opening
  <2> HIDE DEF m
  <2>3. \A e \in Ends : \A i \in DOMAIN link'[e] :
              \/ \E j \in DOMAIN link[e] : link'[e][i] = link[e][j]
              \/ link'[e][i].type \notin Opening
        BY <1>2, <2>1, <2>2, OldPackets
  <2> QED BY <1>3, <2>3, WaitingStays DEF ChannelInv
<1> QED BY <1>5, <1>6, <1>7 DEF ChannelInv

LEMMA OpenStep ==
    ASSUME TypeOK, TypeOK', OneOpener, ChannelInv, NEW p \in Ends, NEW id \in Ids, Open(p, id)
    PROVE  ChannelInv'
<1> DEFINE o == Other(p)
<1>0. PICK call \in Calls : call = opens[id] + 1
      BY DEF Open
<1>2. PICK m \in Packet : m = Packed("Open", id, call) /\ m.type = "Open" /\ m.id = id /\ m.call = call
      BY PackedIsPacket DEF MessageTypes
<1>1. /\ p \in Openers[id] /\ call = opens[id] + 1
      /\ openChannels[p][id] = NoCall /\ pendingOpen[p][id] = NoCall
      /\ opens' = [opens EXCEPT ![id] = call]
      /\ pendingOpen' = [pendingOpen EXCEPT ![p][id] = call]
      /\ link' = Sent(link, p, m)
      /\ UNCHANGED <<openChannels, active, created, closed, notified>>
      BY <1>0, <1>2 DEF Open, MayOpen
<1>3. /\ opens \in [Ids -> 0 .. MaxOpens] /\ opens[id] \in Nat /\ opens[id] < call
      /\ pendingOpen \in [Ends -> [Ids -> Calls \cup {NoCall}]]
      /\ call \in Nat /\ call # NoCall
      BY <1>1, LinkTypes, NumberOfCall DEF TypeOK, Calls
<1>4. /\ opens'[id] = call /\ \A x \in Ids : x # id => opens'[x] = opens[x]
      /\ \A x \in Ids : opens[x] <= opens'[x]
      BY <1>1, <1>3, LinkTypes
<1>5. o \in Ends /\ o # p /\ Other(o) = p /\ \A e \in Ends : e = p \/ e = o
      BY OtherEnd DEF Ends, Other
<1>6. o \notin Openers[id]
      BY <1>1, <1>5 DEF OneOpener
<1>7. PacketsInv' /\ OrderInv' /\ FreshInv'
  <2>1. Expected(o, m)'
        BY <1>1, <1>2, <1>3, <1>4, <1>5 DEF Expected
  <2>2. \A c \in Calls : <<m.id, c>> \in created[o] => After(c, m)
    <3>1. \A c \in Calls : <<id, c>> \in created[o] => c <= opens[id] /\ c \in Nat
          BY <1>5 DEF ChannelInv, CreatedInv, Calls
    <3> QED BY <1>2, <1>3, <3>1 DEF After
  <2>3. \A i \in DOMAIN link[o] : link[o][i].id = m.id => Ordered(link[o][i], m)
    <3>1. \A i \in DOMAIN link[o] : link[o][i].id = id => link[o][i].call <= opens[id] /\ link[o][i].call \in Nat
          BY <1>5, LinkTypes DEF ChannelInv, PacketsInv, Expected
    <3> QED BY <1>2, <1>3, <3>1 DEF Ordered
  <2> QED BY <1>1, <1>2, <1>4, <2>1, <2>2, <2>3, SentAll
<1>8. /\ pendingOpen'[p][id] = call
      /\ \A e \in Ends, x \in Ids : (e # p \/ x # id) => pendingOpen'[e][x] = pendingOpen[e][x]
      BY <1>1, <1>3
<1>9. PendingInv'
  <2> SUFFICES ASSUME NEW e \in Ends, NEW x \in Ids
               PROVE  /\ pendingOpen'[e][x] # NoCall =>
                            /\ e \in Openers[x]
                            /\ pendingOpen'[e][x] = opens'[x]
                            /\ openChannels'[e][x] = NoCall
                      /\ e \in Openers[x] => openChannels'[e][x] \in {NoCall, opens'[x]}
      BY DEF PendingInv
  <2>1. CASE x # id
        BY <1>1, <1>4, <1>8, <2>1 DEF ChannelInv, PendingInv
  <2>2. CASE x = id /\ e = p
        BY <1>1, <1>4, <1>8, <2>2
  <2>3. CASE x = id /\ e = o
        BY <1>1, <1>5, <1>6, <1>8, <2>3 DEF ChannelInv, PendingInv
  <2> QED BY <1>5, <2>1, <2>2, <2>3
<1>10. CreatedInv' /\ NoOrphanedChannel'
  <2>1. \A x \in Ids, c \in Calls : c <= opens[x] => c <= opens'[x]
    <3> SUFFICES ASSUME NEW x \in Ids, NEW c \in Calls, c <= opens[x] PROVE c <= opens'[x]
        OBVIOUS
    <3>1. c \in Nat /\ opens[x] \in Nat /\ opens'[x] \in Nat /\ opens[x] <= opens'[x]
          BY <1>3, <1>4, LinkTypes DEF Calls
    <3> QED BY <3>1
  <2> QED BY <1>1, <2>1 DEF ChannelInv, CreatedInv, NoOrphanedChannel, OpenAt
<1>11. WaitingInv'
  <2>1. Kept(p) \/ ~active[p]
        BY <1>2, <1>1, SentGrows
  <2>2. \A e \in Ends : Kept(e) \/ (e = o /\ Grown(e, m))
        BY <1>2, <1>1, <1>5, SentGrows
  <2>3. \A e \in Ends : \A i \in DOMAIN link'[e] :
              \/ \E j \in DOMAIN link[e] : link'[e][i] = link[e][j]
              \/ e = o /\ link'[e][i] = m
        BY <1>2, <2>2, OldPackets
  <2>4. ASSUME NEW e \in Ends, active'[e], NEW i \in DOMAIN link'[e], link'[e][i].type = "AckOpen"
        PROVE  pendingOpen'[e][link'[e][i].id] = link'[e][i].call
    <3>1. PICK j \in DOMAIN link[e] : link'[e][i] = link[e][j]
          BY <1>2, <2>3, <2>4
    <3>2. pendingOpen[e][link[e][j].id] = link[e][j].call /\ link[e][j].call # NoCall /\ link[e][j].id \in Ids
          BY <1>1, <2>4, <3>1, LinkTypes, NumberOfCall DEF ChannelInv, WaitingInv
    <3> QED BY <1>1, <1>8, <3>1, <3>2
  <2>5. ASSUME NEW e \in Ends, active'[e], NEW i \in DOMAIN link'[Other(e)], link'[Other(e)][i].type = "Open"
        PROVE  pendingOpen'[e][link'[Other(e)][i].id] = link'[Other(e)][i].call
    <3>1. CASE \E j \in DOMAIN link[Other(e)] : link'[Other(e)][i] = link[Other(e)][j]
      <4>1. PICK j \in DOMAIN link[Other(e)] : link'[Other(e)][i] = link[Other(e)][j]
            BY <3>1
      <4>2. /\ pendingOpen[e][link[Other(e)][j].id] = link[Other(e)][j].call
            /\ link[Other(e)][j].call # NoCall /\ link[Other(e)][j].id \in Ids
            BY <1>1, <2>5, <4>1, OtherEnd, LinkTypes, NumberOfCall DEF ChannelInv, WaitingInv
      <4> QED BY <1>1, <1>8, <4>1, <4>2
    <3>2. CASE Other(e) = o /\ link'[Other(e)][i] = m
      <4>1. e = p
            BY <1>5, <3>2, OtherEnd
      <4> QED BY <1>2, <1>8, <3>2, <4>1
    <3> QED BY <2>3, <2>5, <3>1, <3>2, OtherEnd
  <2> QED BY <2>4, <2>5 DEF WaitingInv
<1> QED BY <1>7, <1>9, <1>10, <1>11 DEF ChannelInv

LEMMA HandleCloseStep ==
    ASSUME TypeOK, TypeOK', ChannelInv, NEW p \in Ends, HandleClose(p)
    PROVE  ChannelInv'
<1> DEFINE id == Head(link[p]).id
           told == {<<id, openChannels[p][id]>>} \cap Channels
<1>1. /\ Receives(p, "Close") /\ link' = Taken(p)
      /\ notified' = [notified EXCEPT ![p] = notified[p] \cup told]
      /\ openChannels' = [openChannels EXCEPT ![p][id] = NoCall]
      /\ UNCHANGED <<pendingOpen, active, opens, created, closed>>
      BY DEF HandleClose
<1>2. id \in Ids /\ "Close" \in MessageTypes
      BY <1>1, FirstPacket, LinkTypes DEF MessageTypes
<1>3. (\A e \in Ends : Kept(e)) /\ (\A x \in Ids : opens[x] <= opens'[x])
      BY <1>1, <1>2, TakenIsKept, LinkTypes
<1> HIDE DEF id
<1>4. PacketsInv' /\ OrderInv' /\ FreshInv'
      BY <1>1, <1>3, KeptAll
<1>5. /\ \A e \in Ends, x \in Ids : openChannels'[e][x] = NoCall \/ openChannels'[e][x] = openChannels[e][x]
      /\ \A e \in Ends, ch \in Channels : ch \in OpenAt(e) => ch \in OpenAt(e)' \/ ch \in notified'[e]
      /\ \A e \in Ends : notified[e] \subseteq notified'[e]
  <2>1. \A e \in Ends, x \in Ids : openChannels'[e][x] =
            IF e = p /\ x = id THEN NoCall ELSE openChannels[e][x]
        BY <1>1 DEF TypeOK
  <2>2. \A ch \in OpenAt(p) : ch[1] = id => ch \in told
        BY DEF OpenAt, Channels
  <2>3. \A e \in Ends : notified'[e] = IF e = p THEN notified[p] \cup told ELSE notified[e]
        BY <1>1 DEF TypeOK
  <2>4. \A ch \in Channels : ch[1] \in Ids
        BY DEF Channels
  <2> HIDE DEF told
  <2>5. \A e \in Ends, ch \in Channels : ch \in OpenAt(e) => ch \in OpenAt(e)' \/ ch \in notified'[e]
        BY <2>1, <2>2, <2>3, <2>4 DEF OpenAt
  <2> QED BY <2>1, <2>3, <2>5
<1>6. PendingInv' /\ CreatedInv'
      BY <1>1, <1>5, NumberOfCall DEF ChannelInv, PendingInv, CreatedInv
<1>7. WaitingInv'
      BY <1>1, <1>3, OldPackets, WaitingStays DEF ChannelInv
<1>8. NoOrphanedChannel'
  <2>1. created \in [Ends -> SUBSET Channels]
        BY DEF TypeOK
  <2> QED BY <1>1, <1>5, <2>1 DEF ChannelInv, NoOrphanedChannel
<1> QED BY <1>4, <1>6, <1>7, <1>8 DEF ChannelInv

LEMMA HandleDataStep ==
    ASSUME TypeOK, TypeOK', ChannelInv, NEW p \in Ends, HandleData(p)
    PROVE  ChannelInv'
<1>1. /\ Receives(p, "Data") /\ link' = Taken(p)
      /\ UNCHANGED <<pendingOpen, openChannels, active, opens, created, closed, notified>>
      BY DEF HandleData
<1>2. (\A e \in Ends : Kept(e)) /\ (\A x \in Ids : opens[x] <= opens'[x])
      BY <1>1, TakenIsKept, LinkTypes DEF MessageTypes
<1>3. PacketsInv' /\ OrderInv' /\ FreshInv'
      BY <1>1, <1>2, KeptAll
<1>4. PendingInv' /\ CreatedInv' /\ NoOrphanedChannel'
      BY <1>1 DEF ChannelInv, PendingInv, CreatedInv, NoOrphanedChannel, OpenAt
<1>5. WaitingInv'
      BY <1>1, <1>2, OldPackets, WaitingStays DEF ChannelInv
<1> QED BY <1>3, <1>4, <1>5 DEF ChannelInv

LEMMA UnderlyingChannelCloseStep ==
    ASSUME TypeOK, TypeOK', ChannelInv, NEW p \in Ends, UnderlyingChannelClose(p)
    PROVE  ChannelInv'
<1>1. /\ active' = [active EXCEPT ![p] = FALSE]
      /\ pendingOpen' = [pendingOpen EXCEPT ![p] = [id \in Ids |-> NoCall]]
      /\ notified' = [notified EXCEPT ![p] = notified[p] \cup OpenAt(p)]
      /\ openChannels' = [openChannels EXCEPT ![p] = [id \in Ids |-> NoCall]]
      /\ UNCHANGED <<link, opens, created, closed>>
      BY DEF UnderlyingChannelClose
<1>2. /\ \A e \in Ends : active'[e] => active[e] /\ pendingOpen'[e] = pendingOpen[e]
      /\ \A e \in Ends, x \in Ids : openChannels'[e][x] = NoCall \/ openChannels'[e][x] = openChannels[e][x]
      /\ \A e \in Ends, x \in Ids : pendingOpen'[e][x] = NoCall \/ pendingOpen'[e][x] = pendingOpen[e][x]
      /\ \A e \in Ends, ch \in Channels : ch \in OpenAt(e) => ch \in OpenAt(e)' \/ ch \in notified'[e]
      /\ \A e \in Ends : notified[e] \subseteq notified'[e]
      BY <1>1 DEF TypeOK, OpenAt
<1>3. PacketsInv' /\ OrderInv' /\ FreshInv'
      BY <1>1 DEF ChannelInv, PacketsInv, Expected, OrderInv, Ordered, FreshInv, After
<1>4. PendingInv' /\ CreatedInv'
      BY <1>1, <1>2, NumberOfCall DEF ChannelInv, PendingInv, CreatedInv
<1>5. WaitingInv'
      BY <1>1, <1>2, WaitingStays DEF ChannelInv
<1>6. NoOrphanedChannel'
  <2>1. created \in [Ends -> SUBSET Channels]
        BY DEF TypeOK
  <2> QED BY <1>1, <1>2, <2>1 DEF ChannelInv, NoOrphanedChannel
<1> QED BY <1>3, <1>4, <1>5, <1>6 DEF ChannelInv

\* The two steps that create a channel leave everything else to the holders.
LEMMA CreatedAppears ==
    ASSUME TypeOK, NoOrphanedChannel, NEW p \in Ends, NEW id \in Ids, NEW call \in Calls,
           openChannels[p][id] = NoCall,
           created' = [created EXCEPT ![p] = created[p] \cup {<<id, call>>}],
           openChannels' = [openChannels EXCEPT ![p][id] = call],
           UNCHANGED <<closed, notified>>
    PROVE  /\ NoOrphanedChannel'
           /\ \A e \in Ends : created[e] \subseteq created'[e]
           /\ \A e \in Ends : e # p => created'[e] = created[e]
           /\ \A x \in Ids, c \in Calls : <<x, c>> \in created'[p] =>
                  <<x, c>> \in created[p] \/ (x = id /\ c = call)
           /\ <<id, call>> \in created'[p] /\ openChannels'[p][id] = call
           /\ \A e \in Ends, x \in Ids : (e # p \/ x # id) => openChannels'[e][x] = openChannels[e][x]
<1> DEFINE ch == <<id, call>>
<1>1. ch \in Channels /\ ch[1] = id /\ ch[2] = call
      BY NumberOfCall
<1>2. \A e \in Ends : created'[e] = IF e = p THEN created[p] \cup {ch} ELSE created[e]
      BY DEF TypeOK
<1>3. \A e \in Ends, x \in Ids : openChannels'[e][x] =
          IF e = p /\ x = id THEN call ELSE openChannels[e][x]
      BY DEF TypeOK
<1>4. \A e \in Ends, c \in Channels : c \in OpenAt(e) => c \in OpenAt(e)'
      BY <1>3, NumberOfCall DEF OpenAt, Channels
<1>5. ch \in OpenAt(p)'
      BY <1>1, <1>3 DEF OpenAt
<1>6. NoOrphanedChannel'
  <2>1. created \in [Ends -> SUBSET Channels]
        BY DEF TypeOK
  <2> HIDE DEF ch
  <2> QED BY <1>2, <1>4, <1>5, <2>1 DEF NoOrphanedChannel
<1> QED BY <1>2, <1>3, <1>6

LEMMA HandleOpenStep ==
    ASSUME TypeOK, TypeOK', OneOpener, ChannelInv, NEW p \in Ends, HandleOpen(p)
    PROVE  ChannelInv'
<1> DEFINE o == Other(p)
<1>1. Receives(p, "Open") /\ "Open" \in MessageTypes /\ "AckOpen" \in MessageTypes
      BY DEF HandleOpen, MessageTypes
<1>2. PICK id \in Ids, call \in Calls : /\ Head(link[p]).id = id /\ Head(link[p]).call = call
                                        /\ link[p][1].id = id /\ link[p][1].call = call
      BY <1>1, FirstPacket, LinkTypes
<1>3. 1 \in DOMAIN link[p] /\ link[p][1].type = "Open" /\ link[p][1].type \in Opening
      BY <1>1, FirstPacket DEF Opening
<1>4. \A x \in Ids : opens[x] <= opens[x]
      BY LinkTypes
<1>5. CASE openChannels[p][id] # NoCall
  <2>1. link' = Taken(p) /\ UNCHANGED <<created, openChannels, pendingOpen, active, opens, closed, notified>>
        BY <1>2, <1>5 DEF HandleOpen
  <2>2. \A e \in Ends : Kept(e)
        BY <1>1, <2>1, TakenIsKept
  <2>3. PacketsInv' /\ OrderInv' /\ FreshInv'
        BY <1>4, <2>1, <2>2, KeptAll
  <2>4. PendingInv' /\ CreatedInv' /\ NoOrphanedChannel'
        BY <2>1 DEF ChannelInv, PendingInv, CreatedInv, NoOrphanedChannel, OpenAt
  <2>5. WaitingInv'
        BY <2>1, <2>2, OldPackets, WaitingStays DEF ChannelInv
  <2> QED BY <2>3, <2>4, <2>5 DEF ChannelInv
<1>6. CASE openChannels[p][id] = NoCall
  <2>1. PICK m \in Packet : m = Packed("AckOpen", id, call) /\ m.type = "AckOpen" /\ m.id = id /\ m.call = call
        BY <1>1, PackedIsPacket
  <2>2. /\ created' = [created EXCEPT ![p] = created[p] \cup {<<id, call>>}]
        /\ openChannels' = [openChannels EXCEPT ![p][id] = call]
        /\ link' = Sent(Taken(p), p, m)
        /\ UNCHANGED <<pendingOpen, active, opens, closed, notified>>
        BY <1>2, <1>6, <2>1 DEF HandleOpen
  <2>3. /\ NoOrphanedChannel'
        /\ \A e \in Ends : created[e] \subseteq created'[e]
        /\ \A e \in Ends : e # p => created'[e] = created[e]
        /\ \A x \in Ids, c \in Calls : <<x, c>> \in created'[p] =>
               <<x, c>> \in created[p] \/ (x = id /\ c = call)
        /\ <<id, call>> \in created'[p] /\ openChannels'[p][id] = call
        /\ \A e \in Ends, x \in Ids : (e # p \/ x # id) => openChannels'[e][x] = openChannels[e][x]
        BY <1>6, <2>2, CreatedAppears DEF ChannelInv
  <2>4. /\ Kept(p) /\ Grown(o, m)
        /\ \A i \in DOMAIN link'[p] :
              1 < i + 1 /\ i + 1 \in DOMAIN link[p] /\ link'[p][i] = link[p][i + 1]
        BY <1>1, <2>2, TakenThenSent
  <2>5. o \in Ends /\ o # p /\ Other(o) = p /\ \A e \in Ends : e = p \/ e = o
        BY OtherEnd DEF Ends, Other
  <2>6. o \in Openers[id] /\ p \notin Openers[id] /\ call <= opens[id]
        BY <1>2, <1>3, <2>5 DEF ChannelInv, PacketsInv, Expected, OneOpener
  <2>7. \A c \in Calls : <<id, c>> \in created[p] => c < call
        BY <1>2, <1>3 DEF ChannelInv, FreshInv, After
  <2>8. \A e \in Ends : ArrivalsInv(e)
        BY ArrivalsParts DEF ChannelInv
  <2>9. ArrivalsInv(p)'
    <3>1. ASSUME NEW i \in DOMAIN link'[p], NEW c \in Calls, <<link'[p][i].id, c>> \in created'[p]
          PROVE  <<link'[p][i].id, c>> \in created[p] \/ After(c, link'[p][i])
      <4>1. 1 < i + 1 /\ i + 1 \in DOMAIN link[p] /\ link'[p][i] = link[p][i + 1]
            BY <2>4
      <4>2. CASE link'[p][i].id = id /\ c = call
        <5>1. Ordered(link[p][1], link[p][i + 1])
              BY <1>2, <1>3, <4>1, <4>2 DEF ChannelInv, OrderInv
        <5> QED BY <1>2, <4>1, <4>2, <5>1 DEF Ordered, After
      <4> QED BY <2>3, <3>1, <4>1, <4>2, LinkTypes
    <3>2. Onward(p)
          BY <1>4, <2>2, <2>3, <2>5, <3>1 DEF Onward
    <3> QED BY <2>4, <2>8, <3>2, KeptArrivals
  <2>10. ArrivalsInv(o)'
    <3>1. Onward(o)
          BY <1>4, <2>2, <2>3, <2>5 DEF Onward
    <3>2. Expected(o, m)'
          BY <2>1, <2>2, <2>3, <2>5, <2>6 DEF Expected
    <3>3. ASSUME NEW c \in Calls, <<m.id, c>> \in created'[o] PROVE After(c, m)
      <4>1. <<id, c>> \in created[p]
            BY <2>1, <2>3, <2>5, <2>6, <3>3 DEF ChannelInv, CreatedInv
      <4> QED BY <2>1, <2>7, <4>1 DEF After, Calls
    <3>4. ASSUME NEW i \in DOMAIN link[o], link[o][i].id = m.id PROVE Ordered(link[o][i], m)
      <4>1. link[o][i].type # "Open" /\ link[o][i].call \in Calls
            BY <2>1, <2>5, <2>6, <3>4, LinkTypes DEF ChannelInv, PacketsInv, Expected
      <4>2. <<id, link[o][i].call>> \in created[p]
            BY <2>1, <2>5, <3>4, <4>1 DEF ChannelInv, PacketsInv, Expected
      <4> QED BY <2>1, <2>7, <4>1, <4>2 DEF Ordered, Calls
    <3> QED BY <2>4, <2>5, <2>8, <3>1, <3>2, <3>3, <3>4, GrownArrivals
  <2>11. PacketsInv' /\ OrderInv' /\ FreshInv'
    <3>1. \A e \in Ends : ArrivalsInv(e)'
          BY <2>5, <2>9, <2>10
    <3> QED BY <3>1 DEF ArrivalsInv, PacketsInv, OrderInv, FreshInv
  <2>12. PendingInv'
        BY <2>2, <2>3, <2>6 DEF ChannelInv, PendingInv
  <2>13. CreatedInv'
    <3> SUFFICES ASSUME NEW e \in Ends, NEW x \in Ids, NEW c \in Calls
                 PROVE  /\ <<x, c>> \in created'[e] =>
                              /\ c <= opens'[x]
                              /\ openChannels'[e][x] # NoCall => c <= openChannels'[e][x]
                              /\ Other(e) \notin Openers[x] => <<x, c>> \in created'[Other(e)]
                        /\ openChannels'[e][x] = c => <<x, c>> \in created'[e]
        BY DEF CreatedInv
    <3>1. CASE e = p /\ x = id
      <4>1. <<id, c>> \in created'[p] => c <= call
            BY <2>3, <2>7 DEF Calls
      <4>2. <<id, c>> \in created'[p] => c <= opens[id]
            BY <2>3, <2>6 DEF ChannelInv, CreatedInv
      <4> QED BY <2>2, <2>3, <2>6, <3>1, <4>1, <4>2
    <3>2. CASE e = p /\ x # id
          BY <2>2, <2>3, <2>5, <3>2 DEF ChannelInv, CreatedInv
    <3>3. CASE e = o
          BY <2>2, <2>3, <2>5, <3>3 DEF ChannelInv, CreatedInv
    <3> QED BY <2>5, <3>1, <3>2, <3>3
  <2>14. WaitingInv'
    <3>1. /\ \A i \in DOMAIN link'[p] : \E j \in DOMAIN link[p] : link'[p][i] = link[p][j]
          /\ \A i \in DOMAIN link'[o] : (\E j \in DOMAIN link[o] : link'[o][i] = link[o][j]) \/ link'[o][i] = m
          BY <2>1, <2>4, <2>5, OldPackets
    <3>2. active[o] => pendingOpen[o][id] = call
          BY <1>2, <1>3, <2>5 DEF ChannelInv, WaitingInv
    <3>3. ASSUME NEW e \in Ends, active'[e], NEW i \in DOMAIN link'[e], link'[e][i].type = "AckOpen"
          PROVE  pendingOpen'[e][link'[e][i].id] = link'[e][i].call
          BY <2>1, <2>2, <2>5, <3>1, <3>2, <3>3 DEF ChannelInv, WaitingInv
    <3>4. ASSUME NEW e \in Ends, active'[e], NEW i \in DOMAIN link'[Other(e)], link'[Other(e)][i].type = "Open"
          PROVE  pendingOpen'[e][link'[Other(e)][i].id] = link'[Other(e)][i].call
          BY <2>1, <2>2, <2>5, <3>1, <3>4 DEF ChannelInv, WaitingInv
    <3> QED BY <3>3, <3>4 DEF WaitingInv
  <2> QED BY <2>3, <2>11, <2>12, <2>13, <2>14 DEF ChannelInv
<1> QED BY <1>5, <1>6

LEMMA HandleAckOpenStep ==
    ASSUME TypeOK, TypeOK', OneOpener, ChannelInv, NEW p \in Ends, HandleAckOpen(p)
    PROVE  ChannelInv'
<1> DEFINE o == Other(p)
<1>1. Receives(p, "AckOpen") /\ "AckOpen" \in MessageTypes /\ active[p]
      BY DEF HandleAckOpen, MessageTypes, Receives
<1>2. PICK id \in Ids, call \in Calls : /\ Head(link[p]).id = id
                                        /\ link[p][1].id = id /\ link[p][1].call = call
      BY <1>1, FirstPacket, LinkTypes
<1>3. 1 \in DOMAIN link[p] /\ link[p][1].type = "AckOpen" /\ link[p][1].type # "Open"
      BY <1>1, FirstPacket
<1>4. pendingOpen[p][id] = call /\ call # NoCall
      BY <1>1, <1>2, <1>3, NumberOfCall DEF ChannelInv, WaitingInv
<1>5. o \in Ends /\ o # p /\ Other(o) = p /\ \A e \in Ends : e = p \/ e = o
      BY OtherEnd DEF Ends, Other
<1>6. /\ p \in Openers[id] /\ o \notin Openers[id]
      /\ call = opens[id] /\ openChannels[p][id] = NoCall
      /\ <<id, call>> \in created[o]
      BY <1>2, <1>3, <1>4, <1>5 DEF ChannelInv, PendingInv, PacketsInv, Expected, OneOpener
<1>7. /\ link' = Taken(p)
      /\ created' = [created EXCEPT ![p] = created[p] \cup {<<id, call>>}]
      /\ pendingOpen' = [pendingOpen EXCEPT ![p][id] = NoCall]
      /\ openChannels' = [openChannels EXCEPT ![p][id] = call]
      /\ UNCHANGED <<active, opens, closed, notified>>
      BY <1>2, <1>4 DEF HandleAckOpen
<1>8. /\ NoOrphanedChannel'
      /\ \A e \in Ends : created[e] \subseteq created'[e]
      /\ \A e \in Ends : e # p => created'[e] = created[e]
      /\ \A x \in Ids, c \in Calls : <<x, c>> \in created'[p] =>
             <<x, c>> \in created[p] \/ (x = id /\ c = call)
      /\ <<id, call>> \in created'[p] /\ openChannels'[p][id] = call
      /\ \A e \in Ends, x \in Ids : (e # p \/ x # id) => openChannels'[e][x] = openChannels[e][x]
  <2>1. NoOrphanedChannel /\ UNCHANGED <<closed, notified>>
        BY <1>7 DEF ChannelInv
  <2>2. /\ openChannels[p][id] = NoCall
        /\ created' = [created EXCEPT ![p] = created[p] \cup {<<id, call>>}]
        /\ openChannels' = [openChannels EXCEPT ![p][id] = call]
        BY <1>6, <1>7
  <2> QED BY <2>1, <2>2, CreatedAppears
<1>9. /\ \A e \in Ends : Kept(e)
      /\ \A i \in DOMAIN link'[p] :
            1 < i + 1 /\ i + 1 \in DOMAIN link[p] /\ link'[p][i] = link[p][i + 1]
      /\ link'[o] = link[o]
      BY <1>1, <1>5, <1>7, TakenIsKept
<1>10. \A x \in Ids : opens[x] <= opens[x]
      BY LinkTypes
<1>11. \A e \in Ends : ArrivalsInv(e)
      BY ArrivalsParts DEF ChannelInv
<1>12. ASSUME NEW i \in DOMAIN link'[p], link'[p][i].id = id
       PROVE  After(call, link'[p][i])
  <2>1. 1 < i + 1 /\ i + 1 \in DOMAIN link[p] /\ link'[p][i] = link[p][i + 1]
        BY <1>9
  <2>2. Ordered(link[p][1], link[p][i + 1])
        BY <1>2, <1>3, <1>12, <2>1 DEF ChannelInv, OrderInv
  <2> QED BY <1>2, <2>1, <2>2 DEF Ordered, After
<1>13. PacketsInv' /\ OrderInv' /\ FreshInv'
  <2>1. ASSUME NEW i \in DOMAIN link'[p], NEW c \in Calls, <<link'[p][i].id, c>> \in created'[p]
        PROVE  <<link'[p][i].id, c>> \in created[p] \/ After(c, link'[p][i])
    <3>1. link'[p][i].id \in Ids
          BY <1>9, LinkTypes
    <3> QED BY <1>8, <1>12, <2>1, <3>1
  <2>2. Onward(p) /\ Onward(o)
        BY <1>5, <1>7, <1>8, <1>10, <2>1 DEF Onward
  <2>3. \A e \in Ends : ArrivalsInv(e)'
        BY <1>5, <1>9, <1>11, <2>2, KeptArrivals
  <2> QED BY <2>3 DEF ArrivalsInv, PacketsInv, OrderInv, FreshInv
<1>14. /\ pendingOpen'[p][id] = NoCall
       /\ \A e \in Ends, x \in Ids : (e # p \/ x # id) => pendingOpen'[e][x] = pendingOpen[e][x]
      BY <1>7 DEF TypeOK
<1>15. PendingInv'
      BY <1>6, <1>7, <1>8, <1>14 DEF ChannelInv, PendingInv
<1>16. CreatedInv'
  <2> SUFFICES ASSUME NEW e \in Ends, NEW x \in Ids, NEW c \in Calls
               PROVE  /\ <<x, c>> \in created'[e] =>
                            /\ c <= opens'[x]
                            /\ openChannels'[e][x] # NoCall => c <= openChannels'[e][x]
                            /\ Other(e) \notin Openers[x] => <<x, c>> \in created'[Other(e)]
                      /\ openChannels'[e][x] = c => <<x, c>> \in created'[e]
      BY DEF CreatedInv
  <2>1. CASE e = p /\ x = id
    <3>1. <<id, c>> \in created'[p] => c <= opens[id]
          BY <1>6, <1>8 DEF ChannelInv, CreatedInv, Calls
    <3>2. <<id, c>> \in created'[p] => <<id, c>> \in created[o]
          BY <1>5, <1>6, <1>8 DEF ChannelInv, CreatedInv
    <3> QED BY <1>5, <1>6, <1>7, <1>8, <2>1, <3>1, <3>2
  <2>2. CASE e = p /\ x # id
        BY <1>5, <1>7, <1>8, <2>2 DEF ChannelInv, CreatedInv
  <2>3. CASE e = o
        BY <1>5, <1>7, <1>8, <2>3 DEF ChannelInv, CreatedInv
  <2> QED BY <1>5, <2>1, <2>2, <2>3
<1>17. WaitingInv'
  <2>1. ASSUME NEW i \in DOMAIN link'[p], link'[p][i].type = "AckOpen"
        PROVE  pendingOpen'[p][link'[p][i].id] = link'[p][i].call
    <3>1. /\ i + 1 \in DOMAIN link[p] /\ link'[p][i] = link[p][i + 1]
          /\ link'[p][i].id \in Ids /\ link'[p][i].call \in Nat
          BY <1>9, LinkTypes
    <3>2. pendingOpen[p][link'[p][i].id] = link'[p][i].call
          BY <1>1, <2>1, <3>1 DEF ChannelInv, WaitingInv
    <3>3. link'[p][i].id # id
          BY <1>4, <1>12, <2>1, <3>1, <3>2 DEF After, Opening
    <3> QED BY <1>14, <3>1, <3>2, <3>3
  <2>2. ASSUME NEW i \in DOMAIN link'[o], link'[o][i].type = "Open"
        PROVE  pendingOpen'[p][link'[o][i].id] = link'[o][i].call
    <3>1. i \in DOMAIN link[o] /\ link[o][i].id \in Ids /\ link[o][i].call \in Nat /\ link'[o][i] = link[o][i]
          BY <1>5, <1>9, LinkTypes
    <3>2. pendingOpen[p][link[o][i].id] = link[o][i].call
          BY <1>1, <1>5, <2>2, <3>1 DEF ChannelInv, WaitingInv
    <3>3. ASSUME link[o][i].id = id PROVE FALSE
      <4>1. After(call, link[o][i])
            BY <1>5, <1>6, <3>1, <3>3 DEF ChannelInv, FreshInv
      <4> QED BY <1>4, <2>2, <3>1, <3>2, <3>3, <4>1 DEF After, Opening
    <3> QED BY <1>14, <3>1, <3>2, <3>3
  <2>3. ASSUME active[o]
        PROVE  /\ \A i \in DOMAIN link'[o] :
                     link'[o][i].type = "AckOpen" => pendingOpen'[o][link'[o][i].id] = link'[o][i].call
               /\ \A i \in DOMAIN link'[p] :
                     link'[p][i].type = "Open" => pendingOpen'[o][link'[p][i].id] = link'[p][i].call
    <3>1. /\ \A i \in DOMAIN link[o] :
                link[o][i].type = "AckOpen" => pendingOpen[o][link[o][i].id] = link[o][i].call
          /\ \A i \in DOMAIN link[p] :
                link[p][i].type = "Open" => pendingOpen[o][link[p][i].id] = link[p][i].call
          BY <1>5, <2>3 DEF ChannelInv, WaitingInv
    <3>2. \A x \in Ids : pendingOpen'[o][x] = pendingOpen[o][x]
          BY <1>5, <1>14
    <3>3. \A i \in DOMAIN link'[p] : link'[p][i].id \in Ids /\
              \E j \in DOMAIN link[p] : link'[p][i] = link[p][j]
          BY <1>9, LinkTypes
    <3>4. \A i \in DOMAIN link[o] : link[o][i].id \in Ids
          BY <1>5, LinkTypes
    <3>5. ASSUME NEW i \in DOMAIN link'[p], link'[p][i].type = "Open"
          PROVE  pendingOpen'[o][link'[p][i].id] = link'[p][i].call
      <4>1. PICK j \in DOMAIN link[p] : link'[p][i] = link[p][j]
            BY <3>3
      <4> QED BY <3>1, <3>2, <3>3, <3>5, <4>1
    <3> QED BY <1>9, <3>1, <3>2, <3>4, <3>5
  <2> QED BY <1>5, <1>7, <2>1, <2>2, <2>3 DEF WaitingInv
<1> QED BY <1>8, <1>13, <1>15, <1>16, <1>17 DEF ChannelInv

-------------------------------------------------------------------------------
LEMMA ChannelInit == Init => ChannelInv
<1> SUFFICES ASSUME Init PROVE ChannelInv
    OBVIOUS
<1>1. /\ \A e \in Ends : DOMAIN link[e] = {} /\ created[e] = {}
      /\ \A e \in Ends, id \in Ids : pendingOpen[e][id] = NoCall /\ openChannels[e][id] = NoCall
      BY DEF Init
<1>2. PacketsInv /\ OrderInv /\ FreshInv /\ WaitingInv
      BY <1>1, OtherEnd DEF PacketsInv, OrderInv, FreshInv, WaitingInv
<1>3. PendingInv /\ CreatedInv /\ NoOrphanedChannel
      BY <1>1, NumberOfCall DEF PendingInv, CreatedInv, NoOrphanedChannel
<1> QED BY <1>2, <1>3 DEF ChannelInv

LEMMA ChannelNext ==
    ASSUME OneOpener, LateUse = FALSE
    PROVE  TypeOK /\ ChannelInv /\ [Next]_vars => ChannelInv'
<1> SUFFICES ASSUME TypeOK, ChannelInv, [Next]_vars PROVE ChannelInv'
    OBVIOUS
<1>t. TypeOK'
      BY TypesNext
<1>1. CASE Next
  <2>1. PICK p \in Ends : HandleMessage(p) \/ Use(p) \/ UnderlyingChannelClose(p)
        BY <1>1 DEF Next
  <2>2. CASE HandleMessage(p)
        BY <1>t, <2>2, HandleAckOpenStep, HandleOpenStep, HandleCloseStep, HandleDataStep DEF HandleMessage
  <2>3. CASE Use(p)
        BY <1>t, <2>3, OpenStep, CloseStep, WriteStep DEF Use
  <2>4. CASE UnderlyingChannelClose(p)
        BY <1>t, <2>4, UnderlyingChannelCloseStep
  <2> QED BY <2>1, <2>2, <2>3, <2>4
<1>2. CASE UNCHANGED vars
      BY <1>2 DEF vars, ChannelInv, PacketsInv, Expected, PendingInv, CreatedInv, OrderInv, Ordered,
         FreshInv, After, WaitingInv, NoOrphanedChannel, OpenAt
<1> QED BY <1>1, <1>2

\* Why a message meets its channel: what is open at the reader was created no
\* later than the packet's channel and, since the writer's end of it was created
\* after the reader's, no earlier.
LEMMA DataMeets ==
    ASSUME OneOpener, TypeOK, ChannelInv
    PROVE  DataMeetsItsChannel
<1> SUFFICES ASSUME NEW p \in Ends, NEW ch \in Channels, Receives(p, "Data"),
                    Head(link[p]).id = ch[1], ch \in OpenAt(p)
             PROVE  Head(link[p]).call = ch[2]
    BY DEF DataMeetsItsChannel
<1> DEFINE m == link[p][1]
           id == ch[1]
           k == ch[2]
           o == Other(p)
<1>1. /\ 1 \in DOMAIN link[p] /\ Head(link[p]) = m /\ m.type = "Data" /\ m.id = id
      /\ m.call \in Calls /\ m.call \in Nat
      BY FirstPacket, LinkTypes DEF MessageTypes
<1>2. id \in Ids /\ k \in Calls /\ k \in Nat /\ openChannels[p][id] = k /\ k # NoCall
      BY DEF Channels, OpenAt, Calls, NoCall
<1>3. o \in Ends /\ Other(o) = p
      BY OtherEnd
<1>4. <<id, k>> \in created[p]
      BY <1>2 DEF ChannelInv, CreatedInv
<1>5. k <= m.call
      BY <1>1, <1>2, <1>4 DEF ChannelInv, FreshInv, After
<1>6. m.call <= k
  <2>1. CASE p \in Openers[id]
    <3>1. k = opens[id]
          BY <1>2, <2>1 DEF ChannelInv, PendingInv
    <3> QED BY <1>1, <3>1 DEF ChannelInv, PacketsInv, Expected
  <2>2. CASE p \notin Openers[id]
    <3>1. <<id, m.call>> \in created[o]
          BY <1>1 DEF ChannelInv, PacketsInv, Expected
    <3>2. <<id, m.call>> \in created[p]
          BY <1>1, <1>2, <1>3, <2>2, <3>1 DEF ChannelInv, CreatedInv
    <3> QED BY <1>1, <1>2, <3>2 DEF ChannelInv, CreatedInv
  <2> QED BY <2>1, <2>2
<1> QED BY <1>1, <1>2, <1>5, <1>6

\* When one end opens each id and nobody uses a channel he was told is closed, no
\* channel is orphaned: every object that open() or handleOpen made stays the one
\* in openChannels until its holder closes it or hears of its end.
THEOREM ChannelsAreNotOrphaned ==
    ASSUME OneOpener, LateUse = FALSE
    PROVE  Spec => []NoOrphanedChannel
<1>1. Init => TypeOK /\ ChannelInv
      BY TypesInit, ChannelInit
<1>2. TypeOK /\ ChannelInv /\ [Next]_vars => TypeOK' /\ ChannelInv'
      BY TypesNext, ChannelNext
<1>3. ChannelInv => NoOrphanedChannel
      BY DEF ChannelInv
<1> QED BY <1>1, <1>2, <1>3, PTL DEF Spec

\* Under the same conditions a message reaches the channel it was written to and
\* never a later one under the same id, however closes, reopens and packets cross.
THEOREM DataMeetsItsWriter ==
    ASSUME OneOpener, LateUse = FALSE
    PROVE  Spec => []DataMeetsItsChannel
<1>1. Init => TypeOK /\ ChannelInv
      BY TypesInit, ChannelInit
<1>2. TypeOK /\ ChannelInv /\ [Next]_vars => TypeOK' /\ ChannelInv'
      BY TypesNext, ChannelNext
<1>3. TypeOK /\ ChannelInv => DataMeetsItsChannel
      BY DataMeets
<1> QED BY <1>1, <1>2, <1>3, PTL DEF Spec

-------------------------------------------------------------------------------
(***************************************************************************)
(* The two ends agree.  As long as neither side of the main channel is     *)
(* closed, whatever only one end knows is on its way to the other.         *)
(***************************************************************************)
Travels(e, type, id, c) == \E i \in DOMAIN link[e] : link[e][i] = Packed(type, id, c)

\* The request of a waiting call, or its acknowledgement, is on its way.
RequestTravels(e, id, c) ==
    pendingOpen[e][id] = c => Travels(Other(e), "Open", id, c) \/ Travels(e, "AckOpen", id, c)

\* A channel open at one end is open at the other, or about to be, or its close
\* is on its way back.
PartnerKnows(e, id, c) ==
    openChannels[e][id] = c => \/ openChannels[Other(e)][id] = c
                               \/ Travels(e, "Close", id, c)
                               \/ Travels(Other(e), "AckOpen", id, c)

\* Who acknowledged a channel still has it, or sent a close after it.
SenderHolds(e, id, c) ==
    Travels(e, "AckOpen", id, c) => openChannels[Other(e)][id] = c \/ Travels(e, "Close", id, c)

\* Who sent a close does not have the channel.
SenderClosed(e, id, c) == Travels(e, "Close", id, c) => openChannels[Other(e)][id] # c

AgreementInv ==
    (\A e \in Ends : active[e]) =>
        \A e \in Ends : \A id \in Ids : \A c \in Calls :
            /\ RequestTravels(e, id, c) /\ PartnerKnows(e, id, c)
            /\ SenderHolds(e, id, c) /\ SenderClosed(e, id, c)

\* What ChannelInv says of a packet on its way.
LEMMA TravelsFacts ==
    ASSUME TypeOK, ChannelInv, NEW e \in Ends, NEW type \in MessageTypes, NEW id \in Ids,
           NEW c \in Calls, Travels(e, type, id, c)
    PROVE  /\ type # "Open" => <<id, c>> \in created[Other(e)]
           /\ \A d \in Calls : <<id, d>> \in created[e] =>
                 d <= c /\ (type \in Opening => d < c)
<1>1. PICK i \in DOMAIN link[e] : link[e][i] = Packed(type, id, c)
      BY DEF Travels
<1>2. link[e][i].type = type /\ link[e][i].id = id /\ link[e][i].call = c
      BY <1>1, PackedIsPacket
<1>3. Expected(e, link[e][i])
      BY DEF ChannelInv, PacketsInv
<1>4. \A d \in Calls : <<id, d>> \in created[e] => After(d, link[e][i])
      BY <1>2 DEF ChannelInv, FreshInv
<1> QED BY <1>2, <1>3, <1>4 DEF Expected, After

LEMMA AcknowledgedCallWaits ==
    ASSUME TypeOK, ChannelInv, NEW e \in Ends, active[e], NEW id \in Ids, NEW c \in Calls,
           Travels(e, "AckOpen", id, c)
    PROVE  pendingOpen[e][id] = c
<1>1. PICK i \in DOMAIN link[e] : link[e][i] = Packed("AckOpen", id, c)
      BY DEF Travels
<1>2. link[e][i].type = "AckOpen" /\ link[e][i].id = id /\ link[e][i].call = c
      BY <1>1 DEF Packed
<1> QED BY <1>2 DEF ChannelInv, WaitingInv

\* What travels once the first packet is taken.
LEMMA TakenTravels ==
    ASSUME TypeOK, NEW p \in Ends, NEW type \in MessageTypes, Receives(p, type), link' = Taken(p)
    PROVE  \A e \in Ends, t \in MessageTypes, x \in Ids, c \in Calls :
               /\ Travels(e, t, x, c)' => Travels(e, t, x, c)
               /\ Travels(e, t, x, c) => \/ Travels(e, t, x, c)'
                                         \/ e = p /\ t = type /\ link[p][1] = Packed(t, x, c)
<1> SUFFICES ASSUME NEW e \in Ends, NEW t \in MessageTypes, NEW x \in Ids, NEW c \in Calls
             PROVE  /\ Travels(e, t, x, c)' => Travels(e, t, x, c)
                    /\ Travels(e, t, x, c) =>
                          \/ Travels(e, t, x, c)'
                          \/ e = p /\ t = type /\ link[p][1] = Packed(t, x, c)
    OBVIOUS
<1>1. e # p => link'[e] = link[e]
      BY TakenIsKept
<1>2. \A i \in DOMAIN link'[p] : i + 1 \in DOMAIN link[p] /\ link'[p][i] = link[p][i + 1]
      BY TakenIsKept
<1>3. /\ link[p] \in Seq(Packet) /\ link'[p] = Tail(link[p])
      /\ link[p] # <<>> /\ link[p][1].type = type
      BY FirstPacket DEF Taken, TypeOK, Receives
<1>4. \A i \in DOMAIN link[p] : i = 1 \/ (i - 1 \in DOMAIN link'[p] /\ link'[p][i - 1] = link[p][i])
      BY <1>3
<1>5. Packed(t, x, c).type = t
      BY PackedIsPacket
<1>6. CASE e # p
      BY <1>1, <1>6 DEF Travels
<1>7. CASE e = p
  <2>1. Travels(p, t, x, c)' => Travels(p, t, x, c)
        BY <1>2 DEF Travels, Packed
  <2>2. ASSUME Travels(p, t, x, c)
        PROVE  Travels(p, t, x, c)' \/ (t = type /\ link[p][1] = Packed(t, x, c))
    <3>1. PICK i \in DOMAIN link[p] : link[p][i] = Packed(t, x, c)
          BY <2>2 DEF Travels
    <3>2. CASE i = 1
          BY <1>3, <1>5, <3>1, <3>2
    <3>3. CASE i # 1
          BY <1>4, <3>1, <3>3 DEF Travels, Packed
    <3> QED BY <3>2, <3>3
  <2> QED BY <1>7, <2>1, <2>2
<1> QED BY <1>6, <1>7

\* What travels once p has added a packet.
LEMMA GrownTravels ==
    ASSUME TypeOK, NEW e \in Ends, NEW m \in Packet, Grown(e, m)
    PROVE  \A t \in MessageTypes, x \in Ids, c \in Calls :
               Travels(e, t, x, c)' <=> Travels(e, t, x, c) \/ m = Packed(t, x, c)
<1> SUFFICES ASSUME NEW t \in MessageTypes, NEW x \in Ids, NEW c \in Calls
             PROVE  Travels(e, t, x, c)' <=> Travels(e, t, x, c) \/ m = Packed(t, x, c)
    OBVIOUS
<1> DEFINE n == Len(link[e]) + 1
<1>1. /\ \A i \in DOMAIN link'[e] : i \in DOMAIN link[e] \/ i = n
      /\ \A i \in DOMAIN link[e] : i \in DOMAIN link'[e] /\ link'[e][i] = link[e][i]
      /\ n \in DOMAIN link'[e] /\ link'[e][n] = m
      BY DEF Grown
<1> HIDE DEF n
<1> QED BY <1>1 DEF Travels, Packed

LEMMA MessageTypesAre == /\ "Open" \in MessageTypes /\ "Close" \in MessageTypes
                         /\ "AckOpen" \in MessageTypes /\ "Data" \in MessageTypes
                         /\ "Open" \in Opening /\ "AckOpen" \in Opening
BY DEF MessageTypes, Opening

LEMMA OpenAgrees ==
    ASSUME TypeOK, AgreementInv, NEW p \in Ends, NEW id \in Ids, Open(p, id)
    PROVE  AgreementInv'
<1> DEFINE o == Other(p)
<1> SUFFICES ASSUME \A e \in Ends : active[e], NEW e \in Ends, NEW x \in Ids, NEW c \in Calls
             PROVE  /\ RequestTravels(e, x, c)' /\ PartnerKnows(e, x, c)'
                    /\ SenderHolds(e, x, c)' /\ SenderClosed(e, x, c)'
    BY DEF Open, AgreementInv
<1>1. RequestTravels(e, x, c) /\ PartnerKnows(e, x, c) /\ SenderHolds(e, x, c) /\ SenderClosed(e, x, c)
      BY DEF AgreementInv
<1>2. PICK call \in Calls : call = opens[id] + 1
      BY DEF Open
<1>3. PICK m \in Packet : m = Packed("Open", id, call) /\ m.type = "Open"
      BY PackedIsPacket, MessageTypesAre
<1>4. /\ pendingOpen' = [pendingOpen EXCEPT ![p][id] = call]
      /\ link' = Sent(link, p, m) /\ openChannels' = openChannels
      BY <1>2, <1>3 DEF Open
<1>5. o \in Ends /\ o # p /\ Other(e) \in Ends /\ (e = p \/ e = o)
      BY OtherEnd DEF Ends, Other
<1>6. Grown(o, m) /\ link'[p] = link[p]
      BY <1>4, SentGrows
<1>7. \A t \in MessageTypes : Travels(o, t, x, c)' <=> Travels(o, t, x, c) \/ m = Packed(t, x, c)
      BY <1>5, <1>6, GrownTravels
<1>8. \A t \in MessageTypes : Travels(p, t, x, c)' <=> Travels(p, t, x, c)
      BY <1>6 DEF Travels
<1>9. \A t \in MessageTypes : t # "Open" => m # Packed(t, x, c)
      BY <1>3, PackedIsPacket
<1>10. \A d \in Ends : d = p \/ d = o
      BY DEF Ends, Other
<1>11. \A d \in Ends, t \in MessageTypes :
          /\ Travels(d, t, x, c) => Travels(d, t, x, c)'
          /\ t # "Open" => (Travels(d, t, x, c)' <=> Travels(d, t, x, c))
      BY <1>7, <1>8, <1>9, <1>10
<1>12. pendingOpen'[e][x] = IF e = p /\ x = id THEN call ELSE pendingOpen[e][x]
      BY <1>4 DEF TypeOK
<1>13. RequestTravels(e, x, c)'
  <2>1. CASE e = p /\ x = id
        BY <1>3, <1>7, <1>12, <2>1, MessageTypesAre DEF RequestTravels
  <2>2. CASE ~(e = p /\ x = id)
        BY <1>1, <1>5, <1>11, <1>12, <2>2, MessageTypesAre DEF RequestTravels
  <2> QED BY <2>1, <2>2
<1> QED BY <1>1, <1>4, <1>5, <1>11, <1>13, MessageTypesAre DEF PartnerKnows, SenderHolds, SenderClosed

LEMMA WriteAgrees ==
    ASSUME TypeOK, AgreementInv, NEW p \in Ends, NEW ch \in Channels, Write(p, ch)
    PROVE  AgreementInv'
<1> DEFINE o == Other(p)
<1> SUFFICES ASSUME \A e \in Ends : active[e], NEW e \in Ends, NEW x \in Ids, NEW c \in Calls
             PROVE  /\ RequestTravels(e, x, c)' /\ PartnerKnows(e, x, c)'
                    /\ SenderHolds(e, x, c)' /\ SenderClosed(e, x, c)'
    BY DEF Write, AgreementInv
<1>1. RequestTravels(e, x, c) /\ PartnerKnows(e, x, c) /\ SenderHolds(e, x, c) /\ SenderClosed(e, x, c)
      BY DEF AgreementInv
<1>2. PICK m \in Packet : m = Packed("Data", ch[1], ch[2]) /\ m.type = "Data"
      BY PackedIsPacket, MessageTypesAre DEF Channels
<1>3. link' = Sent(link, p, m) /\ openChannels' = openChannels /\ pendingOpen' = pendingOpen
      BY <1>2 DEF Write
<1>4. o \in Ends /\ Other(e) \in Ends /\ \A d \in Ends : d = p \/ d = o
      BY OtherEnd DEF Ends, Other
<1>5. Grown(o, m) /\ link'[p] = link[p]
      BY <1>3, SentGrows
<1>6. \A t \in MessageTypes : t # "Data" => m # Packed(t, x, c)
      BY <1>2, PackedIsPacket
<1>7. \A d \in Ends, t \in MessageTypes : t # "Data" => (Travels(d, t, x, c)' <=> Travels(d, t, x, c))
  <2>1. \A t \in MessageTypes : Travels(p, t, x, c)' <=> Travels(p, t, x, c)
        BY <1>5 DEF Travels
  <2>2. \A t \in MessageTypes : t # "Data" => (Travels(o, t, x, c)' <=> Travels(o, t, x, c))
        BY <1>4, <1>5, <1>6, GrownTravels
  <2> QED BY <1>4, <2>1, <2>2
<1> QED BY <1>1, <1>3, <1>4, <1>7, MessageTypesAre
        DEF RequestTravels, PartnerKnows, SenderHolds, SenderClosed

\* The holder closes the channel that is open under the id, and the other end's
\* half of it is told.
LEMMA CloseAgrees ==
    ASSUME TypeOK, LateUse = FALSE, ChannelInv, AgreementInv,
           NEW p \in Ends, NEW ch \in Channels, Close(p, ch)
    PROVE  AgreementInv'
<1> DEFINE o == Other(p)
           id == ch[1]
           k == ch[2]
<1> SUFFICES ASSUME \A e \in Ends : active[e], NEW e \in Ends, NEW x \in Ids, NEW c \in Calls
             PROVE  /\ RequestTravels(e, x, c)' /\ PartnerKnows(e, x, c)'
                    /\ SenderHolds(e, x, c)' /\ SenderClosed(e, x, c)'
    BY DEF Close, AgreementInv
<1>1. RequestTravels(e, x, c) /\ PartnerKnows(e, x, c) /\ SenderHolds(e, x, c) /\ SenderClosed(e, x, c)
      BY DEF AgreementInv
<1>2. id \in Ids /\ k \in Calls
      BY DEF Channels
<1>3. PICK m \in Packet : m = Packed("Close", id, k) /\ m.type = "Close" /\ m.id = id /\ m.call = k
      BY <1>2, PackedIsPacket, MessageTypesAre
<1>4. /\ link' = Sent(link, p, m) /\ pendingOpen' = pendingOpen
      /\ openChannels' = [openChannels EXCEPT ![p][id] = NoCall]
      /\ ch \in created[p] /\ ch \notin closed[p] /\ ch \notin notified[p]
      BY <1>3 DEF Close
<1>5. openChannels[p][id] = k
      BY <1>4 DEF ChannelInv, NoOrphanedChannel, OpenAt
<1>6. o \in Ends /\ o # p /\ Other(o) = p /\ Other(e) \in Ends /\ \A d \in Ends : d = p \/ d = o
      BY OtherEnd DEF Ends, Other
<1>7. Grown(o, m) /\ link'[p] = link[p]
      BY <1>4, SentGrows
<1>8. \A t \in MessageTypes : m = Packed(t, x, c) <=> t = "Close" /\ x = id /\ c = k
      BY <1>3, PackedIsPacket
<1>9. \A d \in Ends, t \in MessageTypes :
          Travels(d, t, x, c)' <=> \/ Travels(d, t, x, c)
                                   \/ d = o /\ t = "Close" /\ x = id /\ c = k
  <2>1. \A t \in MessageTypes : Travels(p, t, x, c)' <=> Travels(p, t, x, c)
        BY <1>7 DEF Travels
  <2>2. \A t \in MessageTypes : Travels(o, t, x, c)' <=> Travels(o, t, x, c) \/ m = Packed(t, x, c)
        BY <1>6, <1>7, GrownTravels
  <2> QED BY <1>6, <1>8, <2>1, <2>2
<1>10. \A d \in Ends, y \in Ids :
          openChannels'[d][y] = IF d = p /\ y = id THEN NoCall ELSE openChannels[d][y]
      BY <1>4 DEF TypeOK
<1>11. c # NoCall
      BY NumberOfCall
<1> HIDE DEF id, k, o
<1>12. RequestTravels(e, x, c)'
      BY <1>1, <1>4, <1>6, <1>9, MessageTypesAre DEF RequestTravels
<1>13. PartnerKnows(e, x, c)'
  <2> SUFFICES ASSUME openChannels'[e][x] = c
               PROVE  \/ openChannels'[Other(e)][x] = c
                      \/ Travels(e, "Close", x, c)'
                      \/ Travels(Other(e), "AckOpen", x, c)'
      BY DEF PartnerKnows
  <2>1. openChannels[e][x] = c /\ ~(e = p /\ x = id)
        BY <1>6, <1>10, <1>11
  <2>2. CASE openChannels[Other(e)][x] = c
        BY <1>2, <1>5, <1>6, <1>9, <1>10, <2>1, <2>2, MessageTypesAre DEF o
  <2> QED BY <1>1, <1>6, <1>9, <2>1, <2>2, MessageTypesAre DEF PartnerKnows
<1>14. SenderHolds(e, x, c)'
      BY <1>1, <1>5, <1>6, <1>9, <1>10, MessageTypesAre, OtherEnd DEF SenderHolds
<1>15. SenderClosed(e, x, c)'
      BY <1>1, <1>6, <1>9, <1>10, <1>11, MessageTypesAre DEF SenderClosed
<1> QED BY <1>12, <1>13, <1>14, <1>15

LEMMA HandleDataAgrees ==
    ASSUME TypeOK, AgreementInv, NEW p \in Ends, HandleData(p)
    PROVE  AgreementInv'
<1> SUFFICES ASSUME \A e \in Ends : active[e], NEW e \in Ends, NEW x \in Ids, NEW c \in Calls
             PROVE  /\ RequestTravels(e, x, c)' /\ PartnerKnows(e, x, c)'
                    /\ SenderHolds(e, x, c)' /\ SenderClosed(e, x, c)'
    BY DEF HandleData, AgreementInv
<1>1. RequestTravels(e, x, c) /\ PartnerKnows(e, x, c) /\ SenderHolds(e, x, c) /\ SenderClosed(e, x, c)
      BY DEF AgreementInv
<1>2. Receives(p, "Data") /\ link' = Taken(p) /\ openChannels' = openChannels /\ pendingOpen' = pendingOpen
      BY DEF HandleData
<1>3. Other(e) \in Ends
      BY OtherEnd
<1>4. \A d \in Ends, t \in MessageTypes : t # "Data" => (Travels(d, t, x, c)' <=> Travels(d, t, x, c))
      BY <1>2, TakenTravels, MessageTypesAre
<1> QED BY <1>1, <1>2, <1>3, <1>4, MessageTypesAre
        DEF RequestTravels, PartnerKnows, SenderHolds, SenderClosed

\* The close is for the channel that is open, if one is: its other half is gone.
LEMMA HandleCloseAgrees ==
    ASSUME TypeOK, ChannelInv, AgreementInv, NEW p \in Ends, HandleClose(p)
    PROVE  AgreementInv'
<1> DEFINE o == Other(p)
<1> SUFFICES ASSUME \A e \in Ends : active[e], NEW e \in Ends, NEW x \in Ids, NEW c \in Calls
             PROVE  /\ RequestTravels(e, x, c)' /\ PartnerKnows(e, x, c)'
                    /\ SenderHolds(e, x, c)' /\ SenderClosed(e, x, c)'
    BY DEF HandleClose, AgreementInv
<1>0. \A d \in Ends, y \in Ids, b \in Calls :
          RequestTravels(d, y, b) /\ PartnerKnows(d, y, b) /\ SenderHolds(d, y, b) /\ SenderClosed(d, y, b)
      BY DEF AgreementInv
<1>1. Receives(p, "Close") /\ link' = Taken(p) /\ pendingOpen' = pendingOpen
      BY DEF HandleClose
<1>2. 1 \in DOMAIN link[p] /\ link[p][1] \in Packet /\ Head(link[p]) = link[p][1] /\ link[p][1].type = "Close"
      BY <1>1, FirstPacket, LinkTypes, MessageTypesAre
<1>3. PICK id \in Ids, k \in Calls : link[p][1] = Packed("Close", id, k)
      BY <1>2 DEF Packet, Packed
<1>4. /\ link[p][1].id = id /\ link[p][1].call = k
      /\ openChannels' = [openChannels EXCEPT ![p][id] = NoCall]
      /\ \A t \in MessageTypes : link[p][1] = Packed(t, x, c) <=> t = "Close" /\ x = id /\ c = k
  <2>1. link[p][1].id = id /\ link[p][1].call = k
        BY <1>3, PackedIsPacket, MessageTypesAre
  <2>2. openChannels' = [openChannels EXCEPT ![p][id] = NoCall]
        BY <1>2, <2>1 DEF HandleClose
  <2>3. \A t \in MessageTypes : link[p][1] = Packed(t, x, c) <=> t = "Close" /\ x = id /\ c = k
        BY <1>3, PackedIsPacket, MessageTypesAre
  <2> QED BY <2>1, <2>2, <2>3
<1>5. o \in Ends /\ o # p /\ Other(o) = p /\ Other(e) \in Ends /\ \A d \in Ends : d = p \/ d = o
      BY OtherEnd DEF Ends, Other
<1>6. Travels(p, "Close", id, k)
      BY <1>2, <1>3 DEF Travels
<1>7. \A d \in Ends, t \in MessageTypes :
          /\ Travels(d, t, x, c)' => Travels(d, t, x, c)
          /\ Travels(d, t, x, c) => \/ Travels(d, t, x, c)'
                                    \/ d = p /\ t = "Close" /\ x = id /\ c = k
      BY <1>1, <1>4, TakenTravels, MessageTypesAre
<1>8. \A d \in Ends, y \in Ids :
          openChannels'[d][y] = IF d = p /\ y = id THEN NoCall ELSE openChannels[d][y]
      BY <1>4 DEF TypeOK
<1>9. /\ c # NoCall /\ c \in Nat /\ k \in Nat
      /\ <<id, k>> \in created[o] /\ \A d \in Calls : <<id, d>> \in created[p] => d <= k
      BY <1>6, NumberOfCall, TravelsFacts, MessageTypesAre DEF Calls
<1> HIDE DEF o
<1>10. RequestTravels(e, x, c)'
      BY <1>0, <1>1, <1>5, <1>7, MessageTypesAre DEF RequestTravels
<1>11. PartnerKnows(e, x, c)'
  <2> SUFFICES ASSUME openChannels'[e][x] = c
               PROVE  \/ openChannels'[Other(e)][x] = c
                      \/ Travels(e, "Close", x, c)'
                      \/ Travels(Other(e), "AckOpen", x, c)'
      BY DEF PartnerKnows
  <2>1. openChannels[e][x] = c /\ ~(e = p /\ x = id)
        BY <1>5, <1>8, <1>9
  <2>2. CASE openChannels[Other(e)][x] = c /\ e = o /\ x = id
    <3>1. openChannels[p][id] = c /\ openChannels[o][id] = c
          BY <1>5, <2>1, <2>2
    <3>2. c <= k
          BY <1>5, <1>9, <3>1 DEF ChannelInv, CreatedInv
    <3>3. k <= c
          BY <1>5, <1>9, <3>1 DEF ChannelInv, CreatedInv
    <3>4. openChannels[o][id] # k
          BY <1>0, <1>5, <1>6 DEF SenderClosed, o
    <3> QED BY <1>9, <3>1, <3>2, <3>3, <3>4
  <2>3. CASE openChannels[Other(e)][x] = c /\ ~(e = o /\ x = id)
    <3>1. ~(Other(e) = p /\ x = id)
          BY <1>5, <2>1, <2>3 DEF o
    <3> QED BY <1>5, <1>8, <2>3, <3>1
  <2>4. CASE Travels(e, "Close", x, c)
        BY <1>7, <2>1, <2>4, MessageTypesAre
  <2>5. CASE Travels(Other(e), "AckOpen", x, c)
        BY <1>5, <1>7, <2>5, MessageTypesAre
  <2> QED BY <1>0, <2>1, <2>2, <2>3, <2>4, <2>5 DEF PartnerKnows
<1>12. SenderHolds(e, x, c)'
  <2> SUFFICES ASSUME Travels(e, "AckOpen", x, c)'
               PROVE  openChannels'[Other(e)][x] = c \/ Travels(e, "Close", x, c)'
      BY DEF SenderHolds
  <2>1. Travels(e, "AckOpen", x, c)
        BY <1>7, MessageTypesAre
  <2>2. CASE e = p
    <3>1. openChannels'[Other(e)][x] = openChannels[Other(e)][x]
          BY <1>5, <1>8, <2>2, OtherEnd
    <3>2. ASSUME x = id, c = k PROVE FALSE
      <4>1. PICK i \in DOMAIN link'[p] : link'[p][i] = Packed("AckOpen", id, k)
            BY <2>2, <3>2 DEF Travels, Packed
      <4>2. 1 < i + 1 /\ i + 1 \in DOMAIN link[p] /\ link'[p][i] = link[p][i + 1]
            BY <1>1, TakenIsKept, MessageTypesAre
      <4>3. /\ link[p][i + 1].id = id /\ link[p][i + 1].call = k
            /\ link[p][i + 1].type = "AckOpen"
            BY <4>1, <4>2, PackedIsPacket, MessageTypesAre
      <4>4. Ordered(link[p][1], link[p][i + 1])
            BY <1>2, <1>4, <4>2, <4>3 DEF ChannelInv, OrderInv
      <4> QED BY <1>4, <1>9, <4>3, <4>4, MessageTypesAre DEF Ordered
    <3> QED BY <1>0, <1>7, <2>1, <2>2, <3>1, <3>2, MessageTypesAre DEF SenderHolds
  <2>3. CASE e = o
    <3>1. ASSUME x = id, openChannels[p][id] = c PROVE FALSE
      <4>1. <<id, c>> \in created[p]
            BY <3>1 DEF ChannelInv, CreatedInv
      <4>2. c <= k
            BY <1>9, <4>1
      <4>3. k < c
            BY <1>5, <1>9, <2>1, <2>3, <3>1, TravelsFacts, MessageTypesAre
      <4> QED BY <1>9, <4>2, <4>3
    <3>2. openChannels[p][x] = c => openChannels'[p][x] = c
          BY <1>8, <3>1
    <3> QED BY <1>0, <1>5, <1>7, <2>1, <2>3, <3>2, MessageTypesAre DEF SenderHolds
  <2> QED BY <1>5, <2>2, <2>3
<1>13. SenderClosed(e, x, c)'
      BY <1>0, <1>5, <1>7, <1>8, <1>9, MessageTypesAre DEF SenderClosed
<1> QED BY <1>10, <1>11, <1>12, <1>13

\* The acknowledged call gets the half of the channel the other end already has.
LEMMA HandleAckOpenAgrees ==
    ASSUME TypeOK, ChannelInv, AgreementInv, NEW p \in Ends, HandleAckOpen(p)
    PROVE  AgreementInv'
<1> DEFINE o == Other(p)
<1> SUFFICES ASSUME \A e \in Ends : active[e], NEW e \in Ends, NEW x \in Ids, NEW c \in Calls
             PROVE  /\ RequestTravels(e, x, c)' /\ PartnerKnows(e, x, c)'
                    /\ SenderHolds(e, x, c)' /\ SenderClosed(e, x, c)'
    BY DEF HandleAckOpen, AgreementInv
<1>0. \A d \in Ends, y \in Ids, b \in Calls :
          RequestTravels(d, y, b) /\ PartnerKnows(d, y, b) /\ SenderHolds(d, y, b) /\ SenderClosed(d, y, b)
      BY DEF AgreementInv
<1>1. Receives(p, "AckOpen") /\ link' = Taken(p)
      BY DEF HandleAckOpen
<1>2. 1 \in DOMAIN link[p] /\ link[p][1] \in Packet /\ Head(link[p]) = link[p][1] /\ link[p][1].type = "AckOpen"
      BY <1>1, FirstPacket, LinkTypes, MessageTypesAre
<1>3. PICK id \in Ids, call \in Calls : link[p][1] = Packed("AckOpen", id, call)
      BY <1>2 DEF Packet, Packed
<1>4. Travels(p, "AckOpen", id, call) /\ link[p][1].id = id /\ link[p][1].call = call
      BY <1>2, <1>3, PackedIsPacket, MessageTypesAre DEF Travels
<1>5. /\ pendingOpen[p][id] = call /\ openChannels[p][id] = NoCall /\ call # NoCall /\ c # NoCall
      /\ call \in Nat /\ c \in Nat /\ \A d \in Calls : <<id, d>> \in created[p] => d < call
  <2>1. pendingOpen[p][id] = call
        BY <1>2, <1>4 DEF ChannelInv, WaitingInv
  <2>2. call # NoCall /\ c # NoCall
        BY NumberOfCall
  <2>3. openChannels[p][id] = NoCall
        BY <2>1, <2>2 DEF ChannelInv, PendingInv
  <2>4. \A d \in Calls : <<id, d>> \in created[p] => d < call
        BY <1>2, <1>4, MessageTypesAre DEF ChannelInv, FreshInv, After
  <2> QED BY <2>1, <2>2, <2>3, <2>4 DEF Calls
<1>6. /\ pendingOpen' = [pendingOpen EXCEPT ![p][id] = NoCall]
      /\ openChannels' = [openChannels EXCEPT ![p][id] = call]
      BY <1>2, <1>4, <1>5 DEF HandleAckOpen
<1>7. o \in Ends /\ o # p /\ Other(o) = p /\ Other(e) \in Ends /\ \A d \in Ends : d = p \/ d = o
      BY OtherEnd DEF Ends, Other
<1>8. \A t \in MessageTypes : link[p][1] = Packed(t, x, c) <=> t = "AckOpen" /\ x = id /\ c = call
      BY <1>3, PackedIsPacket, MessageTypesAre
<1>9. \A d \in Ends, t \in MessageTypes :
          /\ Travels(d, t, x, c)' => Travels(d, t, x, c)
          /\ Travels(d, t, x, c) => \/ Travels(d, t, x, c)'
                                    \/ d = p /\ t = "AckOpen" /\ x = id /\ c = call
      BY <1>1, <1>8, TakenTravels, MessageTypesAre
<1>10. \A d \in Ends, y \in Ids :
          /\ openChannels'[d][y] = IF d = p /\ y = id THEN call ELSE openChannels[d][y]
          /\ pendingOpen'[d][y] = IF d = p /\ y = id THEN NoCall ELSE pendingOpen[d][y]
      BY <1>6 DEF TypeOK
<1>o. Other(e) = p <=> e = o
      BY <1>7, OtherEnd
<1> HIDE DEF o
<1>11. RequestTravels(e, x, c)'
      BY <1>0, <1>5, <1>7, <1>9, <1>10, MessageTypesAre DEF RequestTravels
<1>12. PartnerKnows(e, x, c)'
  <2> SUFFICES ASSUME openChannels'[e][x] = c
               PROVE  \/ openChannels'[Other(e)][x] = c
                      \/ Travels(e, "Close", x, c)'
                      \/ Travels(Other(e), "AckOpen", x, c)'
      BY DEF PartnerKnows
  <2>1. CASE e = p /\ x = id
    <3>1. c = call /\ Travels(e, "AckOpen", x, c)
          BY <1>4, <1>7, <1>10, <2>1
    <3>2. openChannels[Other(e)][x] = c \/ Travels(e, "Close", x, c)
          BY <1>0, <3>1 DEF SenderHolds
    <3>3. openChannels'[Other(e)][x] = openChannels[Other(e)][x]
          BY <1>7, <1>10, <1>o, <2>1
    <3> QED BY <1>9, <3>2, <3>3, MessageTypesAre
  <2>2. CASE ~(e = p /\ x = id)
    <3>1. openChannels[e][x] = c
          BY <1>10, <2>2
    <3>2. CASE openChannels[Other(e)][x] = c
          BY <1>5, <1>7, <1>10, <3>2
    <3>3. CASE Travels(e, "Close", x, c)
          BY <1>9, <3>3, MessageTypesAre
    <3>4. CASE Travels(Other(e), "AckOpen", x, c)
          BY <1>7, <1>9, <1>10, <3>4, MessageTypesAre
    <3> QED BY <1>0, <3>1, <3>2, <3>3, <3>4 DEF PartnerKnows
  <2> QED BY <2>1, <2>2
<1>13. SenderHolds(e, x, c)'
  <2> SUFFICES ASSUME Travels(e, "AckOpen", x, c)'
               PROVE  openChannels'[Other(e)][x] = c \/ Travels(e, "Close", x, c)'
      BY DEF SenderHolds
  <2>1. openChannels[Other(e)][x] = c => openChannels'[Other(e)][x] = c
        BY <1>5, <1>7, <1>10
  <2> QED BY <1>0, <1>9, <2>1, MessageTypesAre DEF SenderHolds
<1>14. SenderClosed(e, x, c)'
  <2> SUFFICES ASSUME Travels(e, "Close", x, c)'
               PROVE  openChannels'[Other(e)][x] # c
      BY DEF SenderClosed
  <2>1. Travels(e, "Close", x, c)
        BY <1>9, MessageTypesAre
  <2>2. CASE e = o /\ x = id
    <3>1. <<id, c>> \in created[p]
          BY <1>7, <2>1, <2>2, TravelsFacts, MessageTypesAre
    <3>2. c < call
          BY <1>5, <3>1
    <3> QED BY <1>5, <1>7, <1>10, <2>2, <3>2
  <2>3. CASE ~(e = o /\ x = id)
        BY <1>0, <1>7, <1>10, <1>o, <2>1, <2>3 DEF SenderClosed
  <2> QED BY <2>2, <2>3
<1> QED BY <1>11, <1>12, <1>13, <1>14

\* The id is free when the request comes, so it is always granted.
LEMMA RequestMeetsFreeId ==
    ASSUME TypeOK, OneOpener, ChannelInv, AgreementInv, \A e \in Ends : active[e],
           NEW p \in Ends, NEW id \in Ids, NEW call \in Calls,
           1 \in DOMAIN link[p], link[p][1] = Packed("Open", id, call)
    PROVE  openChannels[p][id] = NoCall
<1> DEFINE o == Other(p)
<1> SUFFICES ASSUME NEW k \in Calls, openChannels[p][id] = k PROVE FALSE
    BY DEF TypeOK
<1>1. o \in Ends /\ o # p /\ Other(o) = p
      BY OtherEnd
<1>2. Travels(p, "Open", id, call) /\ link[p][1].type = "Open" /\ link[p][1].id = id /\ link[p][1].call = call
      BY PackedIsPacket, MessageTypesAre DEF Travels
<1>3. pendingOpen[o][id] = call
      BY <1>1, <1>2 DEF ChannelInv, WaitingInv
<1>4. openChannels[o][id] = NoCall /\ k # NoCall /\ k \in Nat /\ call \in Nat /\ call # NoCall
      BY <1>1, <1>3, NumberOfCall DEF ChannelInv, PendingInv, Calls
<1>5. k < call
  <2>1. <<id, k>> \in created[p]
        BY DEF ChannelInv, CreatedInv
  <2> QED BY <1>2, <2>1, MessageTypesAre DEF ChannelInv, FreshInv, After
<1>6. \/ openChannels[o][id] = k
      \/ Travels(p, "Close", id, k)
      \/ Travels(o, "AckOpen", id, k)
      BY DEF AgreementInv, PartnerKnows
<1>7. CASE Travels(p, "Close", id, k)
  <2>1. PICK i \in DOMAIN link[p] : link[p][i] = Packed("Close", id, k)
        BY <1>7 DEF Travels
  <2>2. /\ link[p][i].type = "Close" /\ link[p][i].id = id /\ link[p][i].call = k
        /\ i # 1 /\ i \in 1 .. Len(link[p])
    <3>1. link[p][i].type = "Close" /\ link[p][i].id = id /\ link[p][i].call = k
          BY <2>1, PackedIsPacket, MessageTypesAre
    <3>2. link[p] \in Seq(Packet)
          BY LinkTypes
    <3> QED BY <1>2, <3>1, <3>2
  <2>3. Ordered(link[p][1], link[p][i])
        BY <1>2, <2>2 DEF ChannelInv, OrderInv
  <2> QED BY <1>2, <1>4, <1>5, <2>2, <2>3 DEF Ordered
<1>8. CASE Travels(o, "AckOpen", id, k)
  <2>1. pendingOpen[o][id] = k
        BY <1>1, <1>8, AcknowledgedCallWaits
  <2> QED BY <1>3, <1>4, <1>5, <2>1
<1> QED BY <1>4, <1>6, <1>7, <1>8

\* The other end opens its half and says so.
LEMMA HandleOpenAgrees ==
    ASSUME TypeOK, OneOpener, ChannelInv, AgreementInv, NEW p \in Ends, HandleOpen(p)
    PROVE  AgreementInv'
<1> DEFINE o == Other(p)
<1> SUFFICES ASSUME \A e \in Ends : active[e], NEW e \in Ends, NEW x \in Ids, NEW c \in Calls
             PROVE  /\ RequestTravels(e, x, c)' /\ PartnerKnows(e, x, c)'
                    /\ SenderHolds(e, x, c)' /\ SenderClosed(e, x, c)'
    BY DEF HandleOpen, AgreementInv
<1>0. \A d \in Ends, y \in Ids, b \in Calls :
          RequestTravels(d, y, b) /\ PartnerKnows(d, y, b) /\ SenderHolds(d, y, b) /\ SenderClosed(d, y, b)
      BY DEF AgreementInv
<1>1. Receives(p, "Open") /\ pendingOpen' = pendingOpen
      BY DEF HandleOpen
<1>2. 1 \in DOMAIN link[p] /\ link[p][1] \in Packet /\ Head(link[p]) = link[p][1] /\ link[p][1].type = "Open"
      BY <1>1, FirstPacket, LinkTypes, MessageTypesAre
<1>3. PICK id \in Ids, call \in Calls : link[p][1] = Packed("Open", id, call)
      BY <1>2 DEF Packet, Packed
<1>4. Travels(p, "Open", id, call) /\ link[p][1].id = id /\ link[p][1].call = call
      BY <1>2, <1>3, PackedIsPacket, MessageTypesAre DEF Travels
<1>5. openChannels[p][id] = NoCall
      BY <1>2, <1>3, RequestMeetsFreeId
<1>6. PICK m \in Packet : m = Packed("AckOpen", id, call)
      BY PackedIsPacket, MessageTypesAre
<1>7. /\ openChannels' = [openChannels EXCEPT ![p][id] = call]
      /\ link' = Sent(Taken(p), p, m)
      BY <1>2, <1>4, <1>5, <1>6 DEF HandleOpen
<1>8. /\ o \in Ends /\ o # p /\ Other(o) = p /\ Other(e) \in Ends /\ \A d \in Ends : d = p \/ d = o
      /\ Other(e) = p <=> e = o
      BY OtherEnd DEF Ends, Other
<1>9. /\ Grown(o, m) /\ link'[p] = Tail(link[p])
      /\ \A i \in DOMAIN link'[p] : i + 1 \in DOMAIN link[p] /\ link'[p][i] = link[p][i + 1]
      BY <1>1, <1>7, TakenThenSent, MessageTypesAre
<1>10. \A t \in MessageTypes :
          Travels(o, t, x, c)' <=> Travels(o, t, x, c) \/ (t = "AckOpen" /\ x = id /\ c = call)
  <2>1. \A t \in MessageTypes : m = Packed(t, x, c) <=> t = "AckOpen" /\ x = id /\ c = call
        BY <1>6, PackedIsPacket, MessageTypesAre
  <2> QED BY <1>8, <1>9, <2>1, GrownTravels
<1>11. \A t \in MessageTypes :
          /\ Travels(p, t, x, c)' => Travels(p, t, x, c)
          /\ Travels(p, t, x, c) => Travels(p, t, x, c)' \/ (t = "Open" /\ x = id /\ c = call)
  <2> SUFFICES ASSUME NEW t \in MessageTypes
               PROVE  /\ Travels(p, t, x, c)' => Travels(p, t, x, c)
                      /\ Travels(p, t, x, c) => Travels(p, t, x, c)' \/ (t = "Open" /\ x = id /\ c = call)
      OBVIOUS
  <2>1. Travels(p, t, x, c)' => Travels(p, t, x, c)
        BY <1>9 DEF Travels, Packed
  <2>2. ASSUME NEW i \in DOMAIN link[p], link[p][i] = Packed(t, x, c)
        PROVE  Travels(p, t, x, c)' \/ (t = "Open" /\ x = id /\ c = call)
    <3>1. CASE i = 1
          BY <1>3, <2>2, <3>1, PackedIsPacket, MessageTypesAre
    <3>2. CASE i # 1
      <4>1. link[p] \in Seq(Packet)
            BY LinkTypes
      <4>2. i - 1 \in DOMAIN link'[p] /\ link'[p][i - 1] = link[p][i]
            BY <1>9, <3>2, <4>1
      <4> QED BY <2>2, <4>2 DEF Travels, Packed
    <3> QED BY <3>1, <3>2
  <2> QED BY <2>1, <2>2 DEF Travels
<1>12. \A d \in Ends, y \in Ids :
          openChannels'[d][y] = IF d = p /\ y = id THEN call ELSE openChannels[d][y]
      BY <1>7 DEF TypeOK
<1>13. /\ call # NoCall /\ c # NoCall /\ call \in Nat /\ c \in Nat
       /\ \A d \in Calls : <<id, d>> \in created[p] => d < call
  <2>1. \A d \in Calls : <<id, d>> \in created[p] => d < call
        BY <1>2, <1>4, MessageTypesAre DEF ChannelInv, FreshInv, After
  <2> QED BY <2>1, NumberOfCall DEF Calls
<1>14. \A d \in Ends, t \in MessageTypes : t # "Open" /\ Travels(d, t, x, c) => Travels(d, t, x, c)'
      BY <1>8, <1>10, <1>11
<1>15. \A d \in Ends, t \in MessageTypes : t # "AckOpen" /\ Travels(d, t, x, c)' => Travels(d, t, x, c)
      BY <1>8, <1>10, <1>11
<1> HIDE DEF o
<1>16. RequestTravels(e, x, c)'
  <2> SUFFICES ASSUME pendingOpen[e][x] = c
               PROVE  Travels(Other(e), "Open", x, c)' \/ Travels(e, "AckOpen", x, c)'
      BY <1>1 DEF RequestTravels
  <2>1. CASE Travels(e, "AckOpen", x, c)
        BY <1>14, <2>1, MessageTypesAre
  <2>2. CASE Travels(Other(e), "Open", x, c) /\ e = o
        BY <1>8, <1>10, <1>11, <2>2, MessageTypesAre
  <2>3. CASE Travels(Other(e), "Open", x, c) /\ e = p
        BY <1>8, <1>10, <2>3, MessageTypesAre DEF o
  <2> QED BY <1>0, <1>8, <2>1, <2>2, <2>3 DEF RequestTravels
<1>17. PartnerKnows(e, x, c)'
  <2> SUFFICES ASSUME openChannels'[e][x] = c
               PROVE  \/ openChannels'[Other(e)][x] = c
                      \/ Travels(e, "Close", x, c)'
                      \/ Travels(Other(e), "AckOpen", x, c)'
      BY DEF PartnerKnows
  <2>1. CASE e = p /\ x = id
        BY <1>8, <1>10, <1>12, <2>1, MessageTypesAre DEF o
  <2>2. CASE ~(e = p /\ x = id)
    <3>1. openChannels[e][x] = c
          BY <1>12, <2>2
    <3>2. CASE openChannels[Other(e)][x] = c
          BY <1>5, <1>8, <1>12, <1>13, <3>2
    <3>3. CASE Travels(e, "Close", x, c) \/ Travels(Other(e), "AckOpen", x, c)
          BY <1>8, <1>14, <3>3, MessageTypesAre
    <3> QED BY <1>0, <3>1, <3>2, <3>3 DEF PartnerKnows
  <2> QED BY <2>1, <2>2
<1>18. SenderHolds(e, x, c)'
  <2> SUFFICES ASSUME Travels(e, "AckOpen", x, c)'
               PROVE  openChannels'[Other(e)][x] = c \/ Travels(e, "Close", x, c)'
      BY DEF SenderHolds
  <2>1. openChannels[Other(e)][x] = c => openChannels'[Other(e)][x] = c
        BY <1>5, <1>8, <1>12, <1>13
  <2>2. CASE Travels(e, "AckOpen", x, c)
        BY <1>0, <1>14, <2>1, <2>2, MessageTypesAre DEF SenderHolds
  <2>3. CASE ~Travels(e, "AckOpen", x, c)
        BY <1>8, <1>10, <1>11, <1>12, <2>3, MessageTypesAre
  <2> QED BY <2>2, <2>3
<1>19. SenderClosed(e, x, c)'
  <2> SUFFICES ASSUME Travels(e, "Close", x, c)'
               PROVE  openChannels'[Other(e)][x] # c
      BY DEF SenderClosed
  <2>1. Travels(e, "Close", x, c)
        BY <1>15, MessageTypesAre
  <2>2. CASE e = o /\ x = id
    <3>1. <<id, c>> \in created[p]
          BY <1>8, <2>1, <2>2, TravelsFacts, MessageTypesAre
    <3> QED BY <1>8, <1>12, <1>13, <2>2, <3>1
  <2>3. CASE ~(e = o /\ x = id)
        BY <1>0, <1>8, <1>12, <2>1, <2>3 DEF SenderClosed
  <2> QED BY <2>2, <2>3
<1> QED BY <1>16, <1>17, <1>18, <1>19

LEMMA AgreementInit == Init => AgreementInv
<1> SUFFICES ASSUME Init PROVE AgreementInv
    OBVIOUS
<1>1. /\ \A e \in Ends : DOMAIN link[e] = {}
      /\ \A e \in Ends, id \in Ids : pendingOpen[e][id] = NoCall /\ openChannels[e][id] = NoCall
      BY DEF Init
<1>2. \A e \in Ends, t \in MessageTypes, id \in Ids, c \in Calls : ~Travels(e, t, id, c)
      BY <1>1 DEF Travels
<1> QED BY <1>1, <1>2, NumberOfCall, MessageTypesAre
        DEF AgreementInv, RequestTravels, PartnerKnows, SenderHolds, SenderClosed

LEMMA AgreementNext ==
    ASSUME OneOpener, LateUse = FALSE
    PROVE  TypeOK /\ ChannelInv /\ AgreementInv /\ [Next]_vars => AgreementInv'
<1> SUFFICES ASSUME TypeOK, ChannelInv, AgreementInv, [Next]_vars PROVE AgreementInv'
    OBVIOUS
<1>1. CASE Next
  <2>1. PICK p \in Ends : HandleMessage(p) \/ Use(p) \/ UnderlyingChannelClose(p)
        BY <1>1 DEF Next
  <2>2. CASE HandleMessage(p)
        BY <2>2, HandleAckOpenAgrees, HandleOpenAgrees, HandleCloseAgrees, HandleDataAgrees DEF HandleMessage
  <2>3. CASE Use(p)
        BY <2>3, OpenAgrees, CloseAgrees, WriteAgrees DEF Use
  <2>4. CASE UnderlyingChannelClose(p)
        BY <2>4 DEF UnderlyingChannelClose, AgreementInv, TypeOK
  <2> QED BY <2>1, <2>2, <2>3, <2>4
<1>2. CASE UNCHANGED vars
  <2>1. UNCHANGED <<link, active, openChannels, pendingOpen>>
        BY <1>2 DEF vars
  <2>2. \A e \in Ends, t \in MessageTypes, id \in Ids, c \in Calls : Travels(e, t, id, c)' <=> Travels(e, t, id, c)
        BY <2>1 DEF Travels, Packed
  <2> QED BY <2>1, <2>2, OtherEnd, MessageTypesAre
          DEF AgreementInv, RequestTravels, PartnerKnows, SenderHolds, SenderClosed
<1> QED BY <1>1, <1>2

\* Under the same conditions, whenever nothing is on its way the two ends have the
\* same channels open and no call waits: an acknowledgement, a close or a request
\* that crosses another leaves no half of a channel behind.
THEOREM EndsAgree ==
    ASSUME OneOpener, LateUse = FALSE
    PROVE  Spec => []EndsAgreeWhenQuiet
<1>1. Init => TypeOK /\ ChannelInv /\ AgreementInv
      BY TypesInit, ChannelInit, AgreementInit
<1>2. TypeOK /\ ChannelInv /\ AgreementInv /\ [Next]_vars => TypeOK' /\ ChannelInv' /\ AgreementInv'
      BY TypesNext, ChannelNext, AgreementNext
<1>3. TypeOK /\ AgreementInv => EndsAgreeWhenQuiet
  <2> SUFFICES ASSUME TypeOK, AgreementInv, \A e \in Ends : active[e] /\ link[e] = <<>>
               PROVE  /\ openChannels["front"] = openChannels["back"]
                      /\ \A e \in Ends : \A id \in Ids : pendingOpen[e][id] = NoCall
      BY DEF EndsAgreeWhenQuiet
  <2>1. \A e \in Ends, t \in MessageTypes, id \in Ids, c \in Calls : ~Travels(e, t, id, c)
    <3>1. \A e \in Ends : DOMAIN link[e] = {}
          OBVIOUS
    <3> QED BY <3>1 DEF Travels
  <2>2. \A e \in Ends, id \in Ids, c \in Calls :
            pendingOpen[e][id] # c /\ (openChannels[e][id] = c => openChannels[Other(e)][id] = c)
        BY <2>1, OtherEnd, MessageTypesAre DEF AgreementInv, RequestTravels, PartnerKnows
  <2>3. "front" \in Ends /\ "back" \in Ends /\ Other("front") = "back" /\ Other("back") = "front"
        BY DEF Ends, Other
  <2>4. \A id \in Ids : openChannels["front"][id] = openChannels["back"][id]
    <3>1. \A e \in Ends, id \in Ids : openChannels[e][id] \in Calls \/ openChannels[e][id] = NoCall
          BY DEF TypeOK
    <3> QED BY <2>2, <2>3, <3>1
  <2>5. openChannels["front"] = openChannels["back"]
        BY <2>3, <2>4 DEF TypeOK
  <2> QED BY <2>2, <2>5 DEF TypeOK
<1> QED BY <1>1, <1>2, <1>3, PTL DEF Spec

===============================================================================
