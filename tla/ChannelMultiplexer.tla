-------------------------- MODULE ChannelMultiplexer --------------------------
(***************************************************************************)
(* Two ChannelMultiplexers (common/message-rpc/channel.ts), one at each    *)
(* end of a main channel, and the channels they open, close and write to.  *)
(*                                                                         *)
(* A channel id is opened, closed and opened again, so an id alone does    *)
(* not say which channel is meant.  A channel object is named by its id    *)
(* and the number of the open(id) call it answers; the two ends of one     *)
(* channel carry the same number.  Packets carry only the id in the code:  *)
(* their number is there for the properties, no guard reads it.            *)
(*                                                                         *)
(* The promise of open() hands the channel to its caller in a microtask    *)
(* that runs before the next packet is read, so both are one step.         *)
(***************************************************************************)
EXTENDS Naturals, Sequences

CONSTANTS
    Ids,            \* channel ids: service paths in the program
    Openers,        \* per id: the ends that call open(id)
    MaxOpens,       \* bound: open calls per id
    MaxInFlight,    \* bound: packets on their way to one end when a holder sends
    LateUse         \* do holders close, or write to, a channel that is closed?

Ends == {"front", "back"}
Other(p) == IF p = "front" THEN "back" ELSE "front"

ASSUME MultiplexerAssumption ==
    /\ Openers \in [Ids -> SUBSET Ends]
    /\ {MaxOpens, MaxInFlight} \subseteq Nat
    /\ LateUse \in BOOLEAN

Calls == 1 .. MaxOpens
NoCall == 0
Channels == Ids \X Calls

MessageTypes == {"Open", "Close", "AckOpen", "Data"}
Packet == [type : MessageTypes, id : Ids, call : Calls]

VARIABLES
    pendingOpen,    \* per end and id: the call whose promise waits, or NoCall
    openChannels,   \* per end and id: the open channel, or NoCall
    active,         \* per end: the multiplexer is not disposed
    link,           \* per end: packets on their way to it
    \* history
    opens,          \* per id: open calls so far
    resolved,       \* per end: the open calls whose promise was resolved
    created,        \* per end: channels created
    closed,         \* per end: channels whose holder called close()
    notified        \* per end: channels whose onClose fired

vars == <<pendingOpen, openChannels, active, link, opens, resolved, created, closed, notified>>

TypeOK ==
    /\ pendingOpen \in [Ends -> [Ids -> Calls \cup {NoCall}]]
    /\ openChannels \in [Ends -> [Ids -> Calls \cup {NoCall}]]
    /\ active \in [Ends -> BOOLEAN]
    /\ link \in [Ends -> Seq(Packet)]
    /\ opens \in [Ids -> 0 .. MaxOpens]
    /\ resolved \in [Ends -> SUBSET Channels]
    /\ created \in [Ends -> SUBSET Channels]
    /\ closed \in [Ends -> SUBSET Channels]
    /\ notified \in [Ends -> SUBSET Channels]

Init ==
    /\ pendingOpen = [p \in Ends |-> [id \in Ids |-> NoCall]]
    /\ openChannels = [p \in Ends |-> [id \in Ids |-> NoCall]]
    /\ active = [p \in Ends |-> TRUE]
    /\ link = [p \in Ends |-> <<>>]
    /\ opens = [id \in Ids |-> 0]
    /\ resolved = [p \in Ends |-> {}]
    /\ created = [p \in Ends |-> {}]
    /\ closed = [p \in Ends |-> {}]
    /\ notified = [p \in Ends |-> {}]

-------------------------------------------------------------------------------
Packed(type, id, call) == [type |-> type, id |-> id, call |-> call]

\* A commit by end p on the main channel.  A main channel that is closed on
\* p's side carries nothing any more.
Sent(links, p, packet) ==
    IF active[p] THEN [links EXCEPT ![Other(p)] = Append(@, packet)] ELSE links

\* The bound holds back what holders send, never a handler's acknowledgement.
Room(p) == Len(link[Other(p)]) < MaxInFlight

\* The next packet for p, and the links once it is taken from them.
Receives(p, type) ==
    /\ active[p]
    /\ link[p] # <<>>
    /\ Head(link[p]).type = type

Taken(p) == [link EXCEPT ![p] = Tail(@)]

OpenAt(p) == {ch \in Channels : openChannels[p][ch[1]] = ch[2]}

\* Mutant: only open channels count as taken, not pending opens.
MayOpenTwice(p, id) == openChannels[p][id] = NoCall

\* open(id) throws when the id is in use.
MayOpen(p, id) == openChannels[p][id] = NoCall /\ pendingOpen[p][id] = NoCall

\* open(id).
Open(p, id) ==
    LET call == opens[id] + 1
    IN  /\ p \in Openers[id]
        /\ call \in Calls
        /\ Room(p)
        /\ MayOpen(p, id)
        /\ opens' = [opens EXCEPT ![id] = call]
        /\ pendingOpen' = [pendingOpen EXCEPT ![p][id] = call]
        /\ link' = Sent(link, p, Packed("Open", id, call))
        /\ UNCHANGED <<openChannels, active, resolved, created, closed, notified>>

\* handleAckOpen(id): the waiting call gets a channel of its own.
HandleAckOpen(p) ==
    LET id   == Head(link[p]).id
        call == pendingOpen[p][id]
    IN  /\ Receives(p, "AckOpen")
        /\ link' = Taken(p)
        /\ IF call # NoCall
           THEN /\ created' = [created EXCEPT ![p] = @ \cup {<<id, call>>}]
                /\ pendingOpen' = [pendingOpen EXCEPT ![p][id] = NoCall]
                /\ openChannels' = [openChannels EXCEPT ![p][id] = call]
                /\ resolved' = [resolved EXCEPT ![p] = @ \cup {<<id, call>>}]
           ELSE UNCHANGED <<created, pendingOpen, openChannels, resolved>>
        /\ UNCHANGED <<active, opens, closed, notified>>

\* handleOpen(id): the channel is created and acknowledged; a call of this end
\* that waits for the same id is resolved with it, but stays in pendingOpen.
HandleOpen(p) ==
    LET id   == Head(link[p]).id
        call == Head(link[p]).call
    IN  /\ Receives(p, "Open")
        /\ IF openChannels[p][id] = NoCall
           THEN /\ created' = [created EXCEPT ![p] = @ \cup {<<id, call>>}]
                /\ openChannels' = [openChannels EXCEPT ![p][id] = call]
                /\ resolved' = [resolved EXCEPT ![p] =
                       @ \cup ({<<id, pendingOpen[p][id]>>} \cap Channels)]
                /\ link' = Sent(Taken(p), p, Packed("AckOpen", id, call))
           ELSE /\ link' = Taken(p)
                /\ UNCHANGED <<created, openChannels, resolved>>
        /\ UNCHANGED <<pendingOpen, active, opens, closed, notified>>

\* Mutant: the channel hears of its end but stays in the map.
HandleCloseKeepsChannel(p) ==
    LET id == Head(link[p]).id
    IN  /\ Receives(p, "Close")
        /\ link' = Taken(p)
        /\ notified' = [notified EXCEPT ![p] =
               @ \cup ({<<id, openChannels[p][id]>>} \cap Channels)]
        /\ UNCHANGED <<pendingOpen, openChannels, active, opens, resolved, created, closed>>

\* handleClose(id): the open channel, if there is one, hears of its end.
HandleClose(p) ==
    LET id == Head(link[p]).id
    IN  /\ Receives(p, "Close")
        /\ link' = Taken(p)
        /\ notified' = [notified EXCEPT ![p] =
               @ \cup ({<<id, openChannels[p][id]>>} \cap Channels)]
        /\ openChannels' = [openChannels EXCEPT ![p][id] = NoCall]
        /\ UNCHANGED <<pendingOpen, active, opens, resolved, created, closed>>

\* handleData(id): whatever channel is open under the id gets the message.
HandleData(p) ==
    /\ Receives(p, "Data")
    /\ link' = Taken(p)
    /\ UNCHANGED <<pendingOpen, openChannels, active, opens, resolved, created, closed, notified>>

\* The holder of channel ch calls close(): whatever channel is open under the
\* id is removed and the other end is told, also when ch was closed before by the
\* other end and the id has been opened again since.
Close(p, ch) ==
    /\ ch \in created[p] \ closed[p]
    /\ ch \in notified[p] => LateUse
    /\ Room(p)
    /\ closed' = [closed EXCEPT ![p] = @ \cup {ch}]
    /\ link' = Sent(link, p, Packed("Close", ch[1], ch[2]))
    /\ openChannels' = [openChannels EXCEPT ![p][ch[1]] = NoCall]
    /\ UNCHANGED <<pendingOpen, active, opens, resolved, created, notified>>

\* The holder of channel ch commits a message; the packet carries the id.
Write(p, ch) ==
    /\ ch \in created[p]
    /\ ch \in closed[p] \cup notified[p] => LateUse
    /\ Room(p)
    /\ link' = Sent(link, p, Packed("Data", ch[1], ch[2]))
    /\ UNCHANGED <<pendingOpen, openChannels, active, opens, resolved, created, closed, notified>>

\* Mutant: the map is cleared before its channels are told.
UnderlyingChannelCloseSilently(p) ==
    /\ active[p]
    /\ active' = [active EXCEPT ![p] = FALSE]
    /\ pendingOpen' = [pendingOpen EXCEPT ![p] = [id \in Ids |-> NoCall]]
    /\ openChannels' = [openChannels EXCEPT ![p] = [id \in Ids |-> NoCall]]
    /\ UNCHANGED <<link, opens, resolved, created, closed, notified>>

\* Mutant: calls that still wait are told as if they were channels.
UnderlyingChannelCloseTellsAll(p) ==
    /\ active[p]
    /\ active' = [active EXCEPT ![p] = FALSE]
    /\ pendingOpen' = [pendingOpen EXCEPT ![p] = [id \in Ids |-> NoCall]]
    /\ notified' = [notified EXCEPT ![p] = @ \cup {<<id, openChannels[p][id]>> : id \in Ids}]
    /\ openChannels' = [openChannels EXCEPT ![p] = [id \in Ids |-> NoCall]]
    /\ UNCHANGED <<link, opens, resolved, created, closed>>

\* onUnderlyingChannelClose: the main channel closes on p's side.
UnderlyingChannelClose(p) ==
    /\ active[p]
    /\ active' = [active EXCEPT ![p] = FALSE]
    /\ pendingOpen' = [pendingOpen EXCEPT ![p] = [id \in Ids |-> NoCall]]
    /\ notified' = [notified EXCEPT ![p] = @ \cup OpenAt(p)]
    /\ openChannels' = [openChannels EXCEPT ![p] = [id \in Ids |-> NoCall]]
    /\ UNCHANGED <<link, opens, resolved, created, closed>>

-------------------------------------------------------------------------------
HandleMessage(p) == HandleAckOpen(p) \/ HandleOpen(p) \/ HandleClose(p) \/ HandleData(p)

Use(p) == (\E id \in Ids : Open(p, id)) \/ (\E ch \in Channels : Close(p, ch) \/ Write(p, ch))

Next == \E p \in Ends : HandleMessage(p) \/ Use(p) \/ UnderlyingChannelClose(p)

Spec == Init /\ [][Next]_vars

\* The main channel delivers what was committed to it, and a main channel that
\* is closed on one side closes on the other.  Nothing is assumed of holders.
Fairness ==
    \A p \in Ends : /\ WF_vars(HandleMessage(p))
                    /\ WF_vars(~active[Other(p)] /\ UnderlyingChannelClose(p))

FairSpec == Spec /\ Fairness

-------------------------------------------------------------------------------
(***************************************************************************)
(* Properties.                                                             *)
(***************************************************************************)

\* A message is handed to the channel it was written to: when a Data packet is
\* read (handleData, channel.ts:252) the channel open under its id, if any, is
\* the other end of the writer's, never a later channel under the same id.
DataMeetsItsChannel ==
    \A p \in Ends : \A ch \in Channels :
        (Receives(p, "Data") /\ Head(link[p]).id = ch[1] /\ ch \in OpenAt(p))
            => Head(link[p]).call = ch[2]

\* Once nothing is on its way the two ends agree on which channels are open and
\* no open call is left waiting (channel.ts:214-250).
EndsAgreeWhenQuiet ==
    (\A p \in Ends : active[p] /\ link[p] = <<>>)
        => /\ openChannels["front"] = openChannels["back"]
           /\ \A p \in Ends : \A id \in Ids : pendingOpen[p][id] = NoCall

\* No channel is orphaned: as long as its holder has neither closed it nor been
\* told of its end it is the channel its multiplexer has under the id.
NoOrphanedChannel ==
    \A p \in Ends : created[p] \subseteq OpenAt(p) \cup closed[p] \cup notified[p]

\* open(id) "returns" a channel: its promise is resolved, unless the main channel
\* closes on the caller's side first.  So no request meets a channel that is still
\* open under its id ("channel already open", channel.ts:240), which would answer
\* nothing and leave the caller waiting.
OpenResolves ==
    \A p \in Ends : \A ch \in Channels :
        (pendingOpen[p][ch[1]] = ch[2]) ~> (ch \in resolved[p] \/ ~active[p])

===============================================================================
