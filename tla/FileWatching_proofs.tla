-------------------------- MODULE FileWatching_proofs --------------------------
(***************************************************************************)
(* Theorems about FileWatching, for all finite sets of clients and         *)
(* watches and every number of watchers and errors.                        *)
(***************************************************************************)
EXTENDS FileWatching, FiniteSetTheorems, TLAPS

-------------------------------------------------------------------------------
(***************************************************************************)
(* The inductive invariant.                                                *)
(***************************************************************************)
\* Watchers that are not made yet have left no trace; what the service knows is
\* made and not disposed of.
MadeInv ==
    /\ \A n \in Watchers : n > made =>
           /\ n \notin timers /\ n \notin disposed /\ n \notin native
           /\ phase[n] = "none"
           /\ \A c \in Clients : refsPerClient[n][c] = 0
    /\ current # NoWatcher => current <= made /\ current \notin disposed
    /\ \A w \in Watches : watcherOf[w] # NoWatcher =>
           watcherOf[w] <= made /\ watcherOf[w] \notin disposed

\* A watch is asked for once, and released when it was given up.
QueueInv ==
    /\ \A i \in DOMAIN requests :
           /\ requests[i].type = "watch" => answer[requests[i].watch] = "asked"
           /\ requests[i].type = "unwatch" => handle[requests[i].watch] = "disposed"
    /\ \A i, j \in DOMAIN requests :
           requests[i].type = "watch" /\ requests[j] = requests[i] => i = j

\* A watch has a watcher only after it was asked for, and is held only by a
\* client that is connected.
HandleInv ==
    \A w \in Watches :
        /\ handle[w] = "idle" => answer[w] = "none"
        /\ handle[w] = "open" => ClientOf[w] \in connected
        /\ answer[w] \in {"none", "asked"} => watcherOf[w] = NoWatcher

IInv == /\ TypeOK /\ MadeInv /\ TimerRunsWhileUnused
        /\ QueueInv /\ HandleInv /\ ReferencesMatchHandles /\ HeldWatchIsServed

-------------------------------------------------------------------------------
(***************************************************************************)
(* Types.                                                                  *)
(***************************************************************************)
\* The variables but for the queue of requests.
Rest ==
    /\ handle \in [Watches -> {"idle", "open", "disposed"}]
    /\ answer \in [Watches -> {"none", "asked", "answered", "known"}]
    /\ connected \subseteq Clients /\ notified \subseteq Clients
    /\ made \in 0 .. MaxWatchers
    /\ current \in Watchers \cup {NoWatcher}
    /\ watcherOf \in [Watches -> Watchers \cup {NoWatcher}]
    /\ refsPerClient \in [Watchers -> [Clients -> Nat]]
    /\ timers \subseteq Watchers /\ disposed \subseteq Watchers /\ native \subseteq Watchers
    /\ phase \in [Watchers -> Phases]
    /\ errors \in 0 .. MaxErrors

LEMMA TypeParts ==
    /\ TypeOK <=> Rest /\ requests \in Seq(Request)
    /\ TypeOK' <=> Rest' /\ requests' \in Seq(Request)
BY DEF TypeOK, Rest

LEMMA AskType ==
    ASSUME NEW w \in Watches, NEW type \in {"watch", "unwatch"}
    PROVE  Ask(type, w) \in Request
BY DEF Ask, Request

LEMMA TypesInit == Init => TypeOK
<1> SUFFICES ASSUME Init PROVE TypeOK
    OBVIOUS
<1>1. requests \in Seq(Request)
      BY DEF Init
<1>2. made \in 0 .. MaxWatchers /\ errors \in 0 .. MaxErrors /\ current \in Watchers \cup {NoWatcher}
      BY WatchingAssumption DEF Init
<1>3. watcherOf \in [Watches -> Watchers \cup {NoWatcher}]
      BY DEF Init
<1>4. refsPerClient \in [Watchers -> [Clients -> Nat]] /\ phase \in [Watchers -> Phases]
      BY DEF Init, Phases
<1>5. Rest
      BY <1>2, <1>3, <1>4 DEF Init, Rest
<1> QED BY <1>1, <1>5, TypeParts

LEMMA DisposeTypes ==
    ASSUME Rest, NEW n \in Watchers, DisposeWatcher(n)
    PROVE  /\ disposed' \subseteq Watchers /\ native' \subseteq Watchers
           /\ current' \in Watchers \cup {NoWatcher}
           /\ watcherOf' \in [Watches -> Watchers \cup {NoWatcher}]
BY DEF DisposeWatcher, Rest

LEMMA RestNext == Rest /\ [Next]_vars => Rest'
<1> SUFFICES ASSUME Rest, [Next]_vars PROVE Rest'
    OBVIOUS
<1>1. ASSUME NEW w \in Watches, Watch(w) \/ ReceiveId(w) \/ Dispose(w) PROVE Rest'
      BY <1>1 DEF Rest, Watch, ReceiveId, Dispose, service, watcher
<1>2. ASSUME NEW c \in Clients, Disconnect(c) PROVE Rest'
      BY <1>2 DEF Rest, Disconnect, service, watcher
<1>3. ASSUME NEW w \in Watches, HandleWatch(w) PROVE Rest'
  <2> DEFINE n == IF current = NoWatcher THEN made + 1 ELSE current
             c == ClientOf[w]
  <2>1. n \in Watchers /\ c \in Clients
        BY <1>3, WatchingAssumption DEF HandleWatch
  <2>2. /\ answer' = [answer EXCEPT ![w] = "answered"]
        /\ watcherOf' = [watcherOf EXCEPT ![w] = n]
        /\ refsPerClient' = [refsPerClient EXCEPT ![n][c] = @ + 1]
        /\ current' = n
        /\ UNCHANGED <<handle, connected, notified, disposed, native, errors>>
        BY <1>3 DEF HandleWatch
  <2>7. /\ made' = made \/ made' = n
        /\ phase' = phase \/ phase' = [phase EXCEPT ![n] = "waiting"]
        /\ timers' \subseteq timers
    <3>1. CASE current = NoWatcher
          BY <1>3, <3>1 DEF HandleWatch
    <3>2. CASE current # NoWatcher
          BY <1>3, <3>2 DEF HandleWatch
    <3> QED BY <3>1, <3>2
  <2> HIDE DEF n, c
  <2>3. refsPerClient' \in [Watchers -> [Clients -> Nat]]
        BY <2>1, <2>2 DEF Rest
  <2>4. made' \in 0 .. MaxWatchers
        BY <2>1, <2>7, WatchingAssumption DEF Rest, Watchers
  <2>5. watcherOf' \in [Watches -> Watchers \cup {NoWatcher}]
        BY <2>1, <2>2 DEF Rest
  <2>6. phase' \in [Watchers -> Phases]
        BY <2>1, <2>7 DEF Rest, Phases
  <2> QED BY <2>1, <2>2, <2>3, <2>4, <2>5, <2>6, <2>7 DEF Rest
<1>4. ASSUME NEW w \in Watches, HandleUnwatch(w) PROVE Rest'
  <2> DEFINE n == watcherOf[w]
             c == ClientOf[w]
  <2>1. n \in Watchers \cup {NoWatcher} /\ c \in Clients
        BY WatchingAssumption DEF Rest
  <2>2. refsPerClient' \in [Watchers -> [Clients -> Nat]] /\ timers' \subseteq Watchers
    <3>1. CASE n # NoWatcher /\ refsPerClient[n][c] > 0
      <4>1. n \in Watchers /\ timers' \subseteq timers \cup {n}
            BY <1>4, <2>1, <3>1 DEF HandleUnwatch
      <4>2. refsPerClient' = [refsPerClient EXCEPT ![n][c] = @ - 1]
            BY <1>4, <3>1 DEF HandleUnwatch
      <4>3. refsPerClient[n][c] \in Nat /\ refsPerClient[n][c] - 1 \in Nat
            BY <2>1, <3>1, <4>1 DEF Rest
      <4> HIDE DEF n, c
      <4> QED BY <2>1, <4>1, <4>2, <4>3 DEF Rest
    <3>2. CASE ~(n # NoWatcher /\ refsPerClient[n][c] > 0)
          BY <1>4, <3>2 DEF HandleUnwatch, Rest
    <3> QED BY <3>1, <3>2
  <2>3. watcherOf' \in [Watches -> Watchers \cup {NoWatcher}]
        BY <1>4 DEF HandleUnwatch, Rest
  <2> QED BY <1>4, <2>2, <2>3 DEF HandleUnwatch, Rest
<1>5. ASSUME NEW n \in Watchers, Start(n) \/ PathIsThere(n) PROVE Rest'
      BY <1>5 DEF Rest, Start, StopWaiting, Subscribe, FinishStart, PathIsThere, backend, service, Phases
<1>6. ASSUME NEW n \in Watchers, DisposalTimeout(n) PROVE Rest'
      BY <1>6, DisposeTypes DEF Rest, DisposalTimeout, backend
<1>7. ASSUME NEW n \in Watchers, FailToStart(n) \/ NativeError(n) PROVE Rest'
  <2>1. DisposeWatcher(n) /\ errors' \in 0 .. MaxErrors /\ notified' \subseteq Clients
        BY <1>7, WatchingAssumption DEF FailToStart, NativeError, FireError, Rest
  <2>2. phase' \in [Watchers -> Phases]
        BY <1>7 DEF FailToStart, NativeError, Rest, Phases
  <2>3. UNCHANGED <<handle, answer, connected, made, refsPerClient, timers>>
        BY <1>7 DEF FailToStart, NativeError
  <2> QED BY <2>1, <2>2, <2>3, DisposeTypes DEF Rest
<1>8. CASE UNCHANGED vars
      BY <1>8 DEF vars, backend, service, watcher, Rest
<1> QED BY <1>1, <1>2, <1>3, <1>4, <1>5, <1>6, <1>7, <1>8 DEF Next, Serve

\* The requests that a front end's end sends.
LEMMA DisconnectRequests ==
    ASSUME TypeOK, NEW c \in Clients, Disconnect(c)
    PROVE  \E releases \in Seq(Request) :
              /\ requests' = requests \o releases
              /\ \A i \in DOMAIN releases : \E w \in Watches :
                    releases[i] = Ask("unwatch", w) /\ handle'[w] = "disposed"
<1> DEFINE known == {w \in {v \in Watches : ClientOf[v] = c /\ handle[v] = "open"} : answer[w] = "known"}
<1>1. IsFiniteSet(known)
      BY WatchingAssumption, FS_Subset
<1>2. Cardinality(known) \in Nat
      BY <1>1, FS_CardinalityType
<1>3. PICK order \in [1 .. Cardinality(known) -> Watches] :
          /\ {order[i] : i \in DOMAIN order} = known
          /\ requests' = requests \o [i \in DOMAIN order |-> Ask("unwatch", order[i])]
      BY DEF Disconnect
<1> DEFINE releases == [i \in DOMAIN order |-> Ask("unwatch", order[i])]
<1>4. releases \in Seq(Request)
  <2>1. \A i \in 1 .. Cardinality(known) : Ask("unwatch", order[i]) \in Request
        BY <1>3, AskType
  <2>2. releases \in [1 .. Cardinality(known) -> Request]
        BY <1>3, <2>1
  <2> HIDE DEF releases, known
  <2> QED BY <1>2, <2>2
<1>5. \A i \in DOMAIN order : order[i] \in known
      BY <1>3
<1>6. \A w \in known : handle'[w] = "disposed"
      BY DEF Disconnect
<1> QED BY <1>3, <1>4, <1>5, <1>6

LEMMA TypesNext == TypeOK /\ [Next]_vars => TypeOK'
<1> SUFFICES ASSUME TypeOK, [Next]_vars PROVE requests' \in Seq(Request)
    BY RestNext, TypeParts
<1>t. requests \in Seq(Request)
      BY TypeParts
<1>1. ASSUME NEW w \in Watches, Watch(w) \/ ReceiveId(w) \/ Dispose(w)
      PROVE  requests' \in Seq(Request)
  <2>1. \/ requests' = requests
        \/ requests' = Append(requests, Ask("watch", w))
        \/ requests' = Append(requests, Ask("unwatch", w))
        BY <1>1 DEF Watch, ReceiveId, Dispose, UnwatchIfDisposed
  <2> QED BY <1>t, <2>1, AskType
<1>2. ASSUME NEW c \in Clients, Disconnect(c) PROVE requests' \in Seq(Request)
  <2>1. PICK releases \in Seq(Request) : requests' = requests \o releases
        BY <1>2, DisconnectRequests
  <2> QED BY <1>t, <2>1
<1>3. ASSUME NEW w \in Watches, HandleWatch(w) \/ HandleUnwatch(w)
      PROVE  requests' \in Seq(Request)
  <2>1. requests # << >> /\ requests' = Tail(requests)
        BY <1>3 DEF HandleWatch, HandleUnwatch
  <2> QED BY <1>t, <2>1
<1>4. ASSUME NEW n \in Watchers, Start(n) \/ PathIsThere(n) \/ FailToStart(n)
                                  \/ NativeError(n) \/ DisposalTimeout(n)
      PROVE  requests' = requests
      BY <1>4 DEF Start, StopWaiting, Subscribe, FinishStart, PathIsThere, FailToStart, NativeError,
                  DisposalTimeout, backend
<1>5. CASE UNCHANGED vars
      BY <1>t, <1>5 DEF vars, backend
<1> QED BY <1>t, <1>1, <1>2, <1>3, <1>4, <1>5 DEF Next, Serve

-------------------------------------------------------------------------------
(***************************************************************************)
(* The queue of requests.                                                  *)
(***************************************************************************)
LEMMA QueueInit == Init => QueueInv /\ HandleInv
BY WatchingAssumption DEF Init, QueueInv, HandleInv

\* Releases of watches that were given up join the queue.
LEMMA ReleasesJoin ==
    ASSUME TypeOK, QueueInv, NEW releases \in Seq(Request), requests' = requests \o releases,
           \A i \in DOMAIN releases : \E w \in Watches :
              releases[i] = Ask("unwatch", w) /\ handle'[w] = "disposed",
           \A w \in Watches : handle[w] = "disposed" => handle'[w] = "disposed",
           \A w \in Watches : answer[w] = "asked" => answer'[w] = "asked"
    PROVE  QueueInv'
<1>1. requests \in Seq(Request)
      BY TypeParts
<1>2. /\ DOMAIN requests = 1 .. Len(requests)
      /\ DOMAIN requests' = 1 .. Len(requests) + Len(releases)
      /\ Len(requests) \in Nat /\ Len(releases) \in Nat
      /\ \A i \in 1 .. Len(requests) : requests'[i] = requests[i]
      /\ \A i \in 1 .. Len(releases) : requests'[Len(requests) + i] = releases[i]
      BY <1>1
<1>3. \A i \in DOMAIN requests : requests[i].watch \in Watches
  <2>1. \A i \in DOMAIN requests : requests[i] \in Request
        BY <1>1
  <2> QED BY <2>1 DEF Request
<1>4. ASSUME NEW i \in DOMAIN requests', i \notin DOMAIN requests
      PROVE  \E w \in Watches : requests'[i] = Ask("unwatch", w) /\ handle'[w] = "disposed"
  <2>1. i - Len(requests) \in 1 .. Len(releases) /\ Len(requests) + (i - Len(requests)) = i
        BY <1>2, <1>4
  <2>2. requests'[i] = releases[i - Len(requests)]
        BY <1>2, <2>1
  <2> QED BY <2>1, <2>2
<1>5. \A w : Ask("unwatch", w).type = "unwatch" /\ Ask("unwatch", w).watch = w
      BY DEF Ask
<1>6. \A i \in DOMAIN requests : i \in DOMAIN requests' /\ requests'[i] = requests[i]
      BY <1>2
<1>7. ASSUME NEW i \in DOMAIN requests'
      PROVE  /\ requests'[i].type = "watch" =>
                    i \in DOMAIN requests /\ answer'[requests'[i].watch] = "asked"
             /\ requests'[i].type = "unwatch" => handle'[requests'[i].watch] = "disposed"
  <2>1. CASE i \in DOMAIN requests
        BY <1>3, <1>6, <2>1 DEF QueueInv
  <2>2. CASE i \notin DOMAIN requests
        BY <1>4, <1>5, <2>2
  <2> QED BY <2>1, <2>2
<1>8. ASSUME NEW i \in DOMAIN requests', NEW j \in DOMAIN requests',
             requests'[i].type = "watch", requests'[j] = requests'[i]
      PROVE  i = j
      BY <1>6, <1>7, <1>8 DEF QueueInv
<1> QED BY <1>7, <1>8 DEF QueueInv

\* The first request is served.
LEMMA FirstIsServed ==
    ASSUME TypeOK, QueueInv, requests # << >>, requests' = Tail(requests),
           NEW w \in Watches, Head(requests).watch = w,
           \A v \in Watches : handle[v] = "disposed" => handle'[v] = "disposed",
           \A v \in Watches : answer[v] = "asked" => answer'[v] = "asked" \/ (v = w /\ Head(requests).type = "watch")
    PROVE  QueueInv'
<1>1. requests \in Seq(Request)
      BY TypeParts
<1>2. /\ \A i \in DOMAIN requests' : i + 1 \in DOMAIN requests /\ requests'[i] = requests[i + 1]
      /\ 1 \in DOMAIN requests /\ requests[1] = Head(requests)
      /\ \A i, j \in DOMAIN requests' : (i + 1 = j + 1 => i = j) /\ i + 1 # 1
      BY <1>1
<1>3. \A i \in DOMAIN requests : requests[i] \in Request
      BY <1>1
<1>4. ASSUME NEW i \in DOMAIN requests', requests'[i].type = "watch"
      PROVE  answer'[requests'[i].watch] = "asked"
  <2>1. requests[i + 1] \in Request /\ requests[i + 1].type = "watch"
           /\ answer[requests[i + 1].watch] = "asked"
        BY <1>2, <1>3, <1>4 DEF QueueInv
  <2>2. requests[i + 1].watch \in Watches
        BY <2>1 DEF Request
  <2>3. ~(requests[i + 1].watch = w /\ Head(requests).type = "watch")
    <3> SUFFICES ASSUME requests[i + 1].watch = w, Head(requests).type = "watch" PROVE FALSE
        OBVIOUS
    <3>1. requests[i + 1] = requests[1]
          BY <1>2, <1>3, <2>1 DEF Request
    <3> QED BY <1>2, <2>1, <3>1 DEF QueueInv
  <2> QED BY <1>2, <2>1, <2>2, <2>3
<1>5. ASSUME NEW i \in DOMAIN requests', requests'[i].type = "unwatch"
      PROVE  handle'[requests'[i].watch] = "disposed"
  <2>1. requests[i + 1].watch \in Watches
        BY <1>2, <1>3 DEF Request
  <2> QED BY <1>2, <1>5, <2>1 DEF QueueInv
<1>6. ASSUME NEW i \in DOMAIN requests', NEW j \in DOMAIN requests',
             requests'[i].type = "watch", requests'[j] = requests'[i]
      PROVE  i = j
      BY <1>2, <1>6 DEF QueueInv
<1> QED BY <1>4, <1>5, <1>6 DEF QueueInv

LEMMA QueueNext == TypeOK /\ TypeOK' /\ QueueInv /\ HandleInv /\ [Next]_vars => QueueInv'
<1> SUFFICES ASSUME TypeOK, TypeOK', QueueInv, HandleInv, [Next]_vars PROVE QueueInv'
    OBVIOUS
<1>t. requests \in Seq(Request) /\ Rest
      BY TypeParts
<1>0. ASSUME requests' = requests,
             \A v \in Watches : handle[v] = "disposed" => handle'[v] = "disposed",
             \A v \in Watches : answer[v] = "asked" => answer'[v] = "asked"
      PROVE  QueueInv'
  <2>1. \A i \in DOMAIN requests : requests[i] \in Request
        BY <1>t
  <2> QED BY <1>0, <2>1 DEF QueueInv, Request
<1>r. ASSUME NEW w \in Watches, requests' = Append(requests, Ask("unwatch", w)), handle'[w] = "disposed",
             \A v \in Watches : handle[v] = "disposed" => handle'[v] = "disposed",
             \A v \in Watches : answer[v] = "asked" => answer'[v] = "asked"
      PROVE  QueueInv'
  <2>1. <<Ask("unwatch", w)>> \in Seq(Request)
        BY AskType
  <2>2. requests' = requests \o <<Ask("unwatch", w)>>
        BY <1>t, <1>r
  <2>3. \A i \in DOMAIN <<Ask("unwatch", w)>> :
            <<Ask("unwatch", w)>>[i] = Ask("unwatch", w) /\ handle'[w] = "disposed"
        BY <1>r
  <2> QED BY <1>r, <2>1, <2>2, <2>3, ReleasesJoin
<1>1. ASSUME NEW w \in Watches, Watch(w) PROVE QueueInv'
  <2>1. /\ requests' = Append(requests, Ask("watch", w))
        /\ handle[w] = "idle" /\ answer[w] # "asked"
        /\ answer'[w] = "asked"
        BY <1>t, <1>1 DEF Watch, HandleInv, Rest
  <2>2. \A v \in Watches \ {w} : handle'[v] = handle[v] /\ answer'[v] = answer[v]
        BY <1>t, <1>1 DEF Watch, Rest
  <2>3. /\ DOMAIN requests = 1 .. Len(requests) /\ DOMAIN requests' = 1 .. Len(requests) + 1
        /\ Len(requests) \in Nat
        /\ \A i \in DOMAIN requests : requests'[i] = requests[i] /\ requests[i] \in Request
        /\ requests'[Len(requests) + 1] = Ask("watch", w)
        BY <1>t, <2>1
  <2>4. \A i \in DOMAIN requests :
            /\ requests[i].watch \in Watches
            /\ requests[i].type \in {"watch", "unwatch"} => requests[i].watch # w
        BY <2>1, <2>3 DEF QueueInv, Request
  <2>5. \A i \in DOMAIN requests : requests[i].type \in {"watch", "unwatch"}
        BY <2>3 DEF Request
  <2>6. Ask("watch", w).type = "watch" /\ Ask("watch", w).watch = w
        BY DEF Ask
  <2>7. ASSUME NEW i \in DOMAIN requests'
        PROVE  /\ requests'[i].type = "watch" => answer'[requests'[i].watch] = "asked"
               /\ requests'[i].type = "unwatch" => handle'[requests'[i].watch] = "disposed"
    <3>1. CASE i \in DOMAIN requests
          BY <2>2, <2>3, <2>4, <2>5, <3>1 DEF QueueInv
    <3>2. CASE i = Len(requests) + 1
          BY <2>1, <2>3, <2>6, <3>2
    <3> QED BY <2>3, <3>1, <3>2
  <2>8. ASSUME NEW i \in DOMAIN requests', NEW j \in DOMAIN requests',
               requests'[i].type = "watch", requests'[j] = requests'[i]
        PROVE  i = j
    <3>1. CASE i \in DOMAIN requests /\ j \in DOMAIN requests
          BY <2>3, <2>8, <3>1 DEF QueueInv
    <3>2. CASE i \notin DOMAIN requests /\ j \notin DOMAIN requests
          BY <2>3, <3>2
    <3>3. CASE i \in DOMAIN requests /\ j \notin DOMAIN requests
      <4>1. j = Len(requests) + 1 /\ requests[i] = Ask("watch", w)
            BY <2>3, <2>8, <3>3
      <4> QED BY <2>4, <2>5, <2>6, <3>3, <4>1
    <3>4. CASE i \notin DOMAIN requests /\ j \in DOMAIN requests
      <4>1. i = Len(requests) + 1 /\ requests[j] = Ask("watch", w)
            BY <2>3, <2>8, <3>4
      <4> QED BY <2>4, <2>5, <2>6, <3>4, <4>1
    <3> QED BY <3>1, <3>2, <3>3, <3>4
  <2> QED BY <2>7, <2>8 DEF QueueInv
<1>2. ASSUME NEW w \in Watches, ReceiveId(w) PROVE QueueInv'
  <2>1. /\ UNCHANGED handle /\ answer[w] = "answered"
        /\ \/ requests' = requests
           \/ requests' = Append(requests, Ask("unwatch", w)) /\ handle'[w] = "disposed"
        BY <1>2 DEF ReceiveId, UnwatchIfDisposed
  <2>2. \A v \in Watches : answer[v] = "asked" => answer'[v] = "asked"
        BY <1>t, <1>2, <2>1 DEF ReceiveId, Rest
  <2> QED BY <1>0, <1>r, <2>1, <2>2
<1>3. ASSUME NEW w \in Watches, Dispose(w) PROVE QueueInv'
  <2>1. /\ UNCHANGED answer /\ handle'[w] = "disposed"
        /\ \A v \in Watches : handle[v] = "disposed" => handle'[v] = "disposed"
        BY <1>t, <1>3 DEF Dispose, Rest
  <2>2. requests' = requests \/ requests' = Append(requests, Ask("unwatch", w))
        BY <1>3 DEF Dispose
  <2> QED BY <1>0, <1>r, <2>1, <2>2
<1>4. ASSUME NEW c \in Clients, Disconnect(c) PROVE QueueInv'
  <2>1. /\ UNCHANGED answer
        /\ \A v \in Watches : handle[v] = "disposed" => handle'[v] = "disposed"
        BY <1>4 DEF Disconnect
  <2>2. PICK releases \in Seq(Request) :
              /\ requests' = requests \o releases
              /\ \A i \in DOMAIN releases : \E w \in Watches :
                    releases[i] = Ask("unwatch", w) /\ handle'[w] = "disposed"
        BY <1>4, DisconnectRequests
  <2> QED BY <2>1, <2>2, ReleasesJoin
<1>5. ASSUME NEW w \in Watches, HandleWatch(w) PROVE QueueInv'
  <2>1. /\ requests # << >> /\ requests' = Tail(requests) /\ Head(requests) = Ask("watch", w)
        /\ UNCHANGED handle
        /\ answer' = [answer EXCEPT ![w] = "answered"]
        BY <1>5 DEF HandleWatch
  <2>2. Head(requests).watch = w /\ Head(requests).type = "watch"
        BY <2>1 DEF Ask
  <2>3. \A v \in Watches : answer[v] = "asked" => answer'[v] = "asked" \/ v = w
        BY <1>t, <2>1 DEF Rest
  <2> QED BY <2>1, <2>2, <2>3, FirstIsServed
<1>6. ASSUME NEW w \in Watches, HandleUnwatch(w) PROVE QueueInv'
  <2>1. /\ requests # << >> /\ requests' = Tail(requests) /\ Head(requests) = Ask("unwatch", w)
        /\ UNCHANGED <<handle, answer>>
        BY <1>6 DEF HandleUnwatch
  <2>2. Head(requests).watch = w
        BY <2>1 DEF Ask
  <2> QED BY <2>1, <2>2, FirstIsServed
<1>7. ASSUME NEW n \in Watchers, Start(n) \/ PathIsThere(n) \/ FailToStart(n)
                                  \/ NativeError(n) \/ DisposalTimeout(n)
      PROVE  UNCHANGED <<requests, handle, answer>>
      BY <1>7 DEF Start, StopWaiting, Subscribe, FinishStart, PathIsThere, FailToStart, NativeError,
                  DisposalTimeout, backend
<1>8. CASE UNCHANGED vars
      BY <1>0, <1>8 DEF vars, backend
<1> QED BY <1>0, <1>1, <1>2, <1>3, <1>4, <1>5, <1>6, <1>7, <1>8 DEF Next, Serve

-------------------------------------------------------------------------------
(***************************************************************************)
(* Watches and watchers.                                                   *)
(***************************************************************************)
\* What a disposal does, if it does anything.
LEMMA Disposal ==
    ASSUME Rest, MadeInv, NEW n \in Watchers, DisposeWatcher(n)
    PROVE  /\ disposed' = disposed \cup {n}
           /\ n \in disposed => current' = current
           /\ n \notin disposed => current' = NoWatcher
           /\ \A w \in Watches : watcherOf'[w] = IF watcherOf[w] = n THEN NoWatcher ELSE watcherOf[w]
           /\ native' \subseteq native
<1>1. CASE n \in disposed
  <2>1. \A w \in Watches : watcherOf[w] # n
        BY <1>1 DEF MadeInv, Watchers, NoWatcher
  <2> QED BY <1>1, <2>1 DEF DisposeWatcher
<1>2. CASE n \notin disposed
      BY <1>2 DEF DisposeWatcher
<1> QED BY <1>1, <1>2

\* A request that is served was asked, or its watch was given up.
LEMMA WatchIsAsked ==
    ASSUME TypeOK, QueueInv, NEW w \in Watches
    PROVE  /\ HandleWatch(w) => answer[w] = "asked"
           /\ HandleUnwatch(w) => handle[w] = "disposed"
<1>1. requests \in Seq(Request)
      BY TypeParts
<1>2. requests # << >> => 1 \in DOMAIN requests /\ requests[1] = Head(requests)
      BY <1>1
<1> QED BY <1>2 DEF QueueInv, HandleWatch, HandleUnwatch, Ask

LEMMA HandlesNext == TypeOK /\ QueueInv /\ HandleInv /\ MadeInv /\ [Next]_vars => HandleInv'
<1> SUFFICES ASSUME TypeOK, QueueInv, HandleInv, MadeInv, [Next]_vars PROVE HandleInv'
    OBVIOUS
<1>t. Rest
      BY TypeParts
<1>q. ASSUME NEW w \in Watches, HandleWatch(w) PROVE answer[w] = "asked"
      BY <1>q, WatchIsAsked
<1>1. ASSUME NEW w \in Watches, Watch(w) \/ ReceiveId(w) \/ Dispose(w) PROVE HandleInv'
  <2>1. UNCHANGED <<connected, watcherOf>>
        BY <1>1 DEF Watch, ReceiveId, Dispose, service
  <2>2. \A v \in Watches \ {w} : handle'[v] = handle[v] /\ answer'[v] = answer[v]
        BY <1>t, <1>1 DEF Watch, ReceiveId, Dispose, Rest
  <2>3. CASE Watch(w)
        BY <1>t, <2>1, <2>2, <2>3 DEF Watch, HandleInv, Rest
  <2>4. CASE ReceiveId(w)
        BY <1>t, <2>1, <2>2, <2>4 DEF ReceiveId, HandleInv, Rest
  <2>5. CASE Dispose(w)
        BY <1>t, <2>1, <2>2, <2>5 DEF Dispose, HandleInv, Rest
  <2> QED BY <1>1, <2>3, <2>4, <2>5
<1>2. ASSUME NEW c \in Clients, Disconnect(c) PROVE HandleInv'
  <2>1. /\ connected' = connected \ {c} /\ UNCHANGED <<answer, watcherOf>>
        /\ \A w \in Watches :
              handle'[w] = IF ClientOf[w] = c /\ handle[w] = "open" THEN "disposed" ELSE handle[w]
        BY <1>2 DEF Disconnect, service
  <2> QED BY <2>1 DEF HandleInv
<1>3. ASSUME NEW w \in Watches, HandleWatch(w) PROVE HandleInv'
  <2>1. /\ UNCHANGED <<handle, connected>>
        /\ answer' = [answer EXCEPT ![w] = "answered"]
        /\ \E n \in Watchers : watcherOf' = [watcherOf EXCEPT ![w] = n]
        BY <1>3 DEF HandleWatch
  <2>2. /\ answer'[w] = "answered"
        /\ \A v \in Watches \ {w} : answer'[v] = answer[v] /\ watcherOf'[v] = watcherOf[v]
        BY <1>t, <2>1 DEF Rest
  <2>3. handle[w] # "idle"
        BY <1>q, <1>3 DEF HandleInv
  <2> QED BY <2>1, <2>2, <2>3 DEF HandleInv
<1>4. ASSUME NEW w \in Watches, HandleUnwatch(w) PROVE HandleInv'
      BY <1>t, <1>4 DEF HandleUnwatch, HandleInv, Rest
<1>5. ASSUME NEW n \in Watchers, Start(n) \/ PathIsThere(n) PROVE HandleInv'
      BY <1>5 DEF Start, StopWaiting, Subscribe, FinishStart, PathIsThere, backend, service, HandleInv
<1>6. ASSUME NEW n \in Watchers, FailToStart(n) \/ NativeError(n) \/ DisposalTimeout(n) PROVE HandleInv'
  <2>1. DisposeWatcher(n) /\ UNCHANGED <<handle, answer, connected>>
        BY <1>6 DEF FailToStart, NativeError, DisposalTimeout, backend
  <2> QED BY <1>t, <2>1, Disposal DEF HandleInv
<1>7. CASE UNCHANGED vars
      BY <1>7 DEF vars, backend, service, HandleInv
<1> QED BY <1>1, <1>2, <1>3, <1>4, <1>5, <1>6, <1>7 DEF Next, Serve

WatcherInv == MadeInv /\ TimerRunsWhileUnused

LEMMA WatchersInit == Init => WatcherInv
BY DEF Init, WatcherInv, MadeInv, TimerRunsWhileUnused

LEMMA WatchersNext == TypeOK /\ TypeOK' /\ WatcherInv /\ [Next]_vars => WatcherInv'
<1> SUFFICES ASSUME TypeOK, TypeOK', WatcherInv, [Next]_vars PROVE WatcherInv'
    OBVIOUS
<1>t. Rest /\ Rest' /\ MadeInv
      BY TypeParts DEF WatcherInv
<1>0. ASSUME UNCHANGED <<service, watcher>> PROVE WatcherInv'
      BY <1>0 DEF service, watcher, WatcherInv, MadeInv, TimerRunsWhileUnused, InUse
<1>1. ASSUME NEW w \in Watches, Watch(w) \/ ReceiveId(w) \/ Dispose(w) PROVE WatcherInv'
      BY <1>0, <1>1 DEF Watch, ReceiveId, Dispose
<1>2. ASSUME NEW c \in Clients, Disconnect(c) PROVE WatcherInv'
      BY <1>0, <1>2 DEF Disconnect
<1>3. ASSUME NEW w \in Watches, HandleWatch(w) PROVE WatcherInv'
  <2>c. PICK c \in Clients : c = ClientOf[w]
        BY WatchingAssumption
  <2>n. PICK n \in Watchers : n = IF current = NoWatcher THEN made + 1 ELSE current
        BY <1>3 DEF HandleWatch
  <2>1. made \in Nat
        BY <1>t DEF Rest
  <2>2. /\ watcherOf' = [watcherOf EXCEPT ![w] = n]
        /\ refsPerClient' = [refsPerClient EXCEPT ![n][c] = @ + 1]
        /\ current' = n
        /\ UNCHANGED <<disposed, native>>
        BY <1>3, <2>c, <2>n DEF HandleWatch
  <2>3. /\ \A m \in Watchers \ {n} : refsPerClient'[m] = refsPerClient[m]
        /\ refsPerClient'[n][c] > 0
    <3>1. refsPerClient[n][c] \in Nat
          BY <1>t, <2>1 DEF Rest
    <3> QED BY <1>t, <2>1, <2>2, <3>1 DEF Rest
  <2>4. CASE current = NoWatcher
    <3>1. /\ n = made + 1 /\ made' = n /\ UNCHANGED timers
          /\ phase' = [phase EXCEPT ![n] = "waiting"]
          BY <1>3, <2>4, <2>n DEF HandleWatch
    <3>2. \A m \in 1 .. made : m \in disposed
          BY <1>t, <2>4 DEF WatcherInv, TimerRunsWhileUnused, NoWatcher
    <3>3. n \notin timers /\ n \notin disposed
          BY <1>t, <2>1, <3>1 DEF MadeInv
    <3>4. \A m \in Watchers : m > made' => m > made /\ m # n
          BY <2>1, <3>1 DEF Watchers
    <3>5. MadeInv'
      <4>1. \A m \in Watchers : m > made' => phase'[m] = phase[m]
            BY <1>t, <3>1, <3>4 DEF Rest
      <4>2. \A v \in Watches : watcherOf'[v] = watcherOf[v] \/ watcherOf'[v] = n
            BY <1>t, <2>2 DEF Rest
      <4>3. \A v \in Watches : watcherOf[v] # NoWatcher => watcherOf[v] <= made'
            BY <1>t, <2>1, <3>1 DEF MadeInv, Rest, Watchers, NoWatcher
      <4>4. n <= made' /\ n \notin disposed'
            BY <2>1, <2>2, <3>1, <3>3
      <4> QED BY <1>t, <2>2, <2>3, <3>1, <3>4, <4>1, <4>2, <4>3, <4>4 DEF MadeInv
    <3>6. \A m \in 1 .. made' : m \in 1 .. made \/ m = n
          BY <2>1, <3>1
    <3>7. TimerRunsWhileUnused'
          BY <2>1, <2>2, <2>3, <3>1, <3>2, <3>3, <3>6 DEF TimerRunsWhileUnused, InUse
    <3> QED BY <3>5, <3>7 DEF WatcherInv
  <2>5. CASE current # NoWatcher
    <3>1. /\ n = current /\ UNCHANGED <<made, phase>>
          /\ timers' = IF ~InUse(n) THEN timers \ {n} ELSE timers
          BY <1>3, <2>5, <2>n DEF HandleWatch, Revives
    <3>2. n <= made /\ n \notin disposed
          BY <1>t, <2>5, <3>1 DEF MadeInv
    <3>3. MadeInv'
      <4>1. \A m \in Watchers : m > made => m # n
            BY <2>1, <3>2 DEF Watchers
      <4>2. \A v \in Watches : watcherOf'[v] = watcherOf[v] \/ watcherOf'[v] = n
            BY <1>t, <2>2 DEF Rest
      <4> QED BY <1>t, <2>2, <2>3, <3>1, <3>2, <4>1, <4>2 DEF MadeInv
    <3>4. n \in 1 .. made
          BY <2>1, <3>2 DEF Watchers
    <3>5. n \notin timers'
          BY <3>1, <3>2, <3>4 DEF WatcherInv, TimerRunsWhileUnused
    <3>6. \A m \in 1 .. made' : m \notin disposed' => m = n
          BY <2>2, <3>1 DEF WatcherInv, TimerRunsWhileUnused
    <3>7. TimerRunsWhileUnused'
          BY <2>2, <2>3, <3>5, <3>6 DEF TimerRunsWhileUnused, InUse
    <3> QED BY <3>3, <3>7 DEF WatcherInv
  <2> QED BY <2>4, <2>5
<1>4. ASSUME NEW w \in Watches, HandleUnwatch(w) PROVE WatcherInv'
  <2>c. PICK c \in Clients : c = ClientOf[w]
        BY WatchingAssumption
  <2>n. PICK n \in Watchers \cup {NoWatcher} : n = watcherOf[w]
        BY <1>t DEF Rest
  <2>1. /\ watcherOf' = [watcherOf EXCEPT ![w] = NoWatcher]
        /\ UNCHANGED <<made, current, disposed, phase, native>>
        BY <1>4 DEF HandleUnwatch
  <2>2. CASE n # NoWatcher /\ refsPerClient[n][c] > 0
    <3>1. n \in Watchers /\ n <= made /\ n \notin disposed
          BY <1>t, <2>2, <2>n DEF MadeInv
    <3>2. /\ refsPerClient' = [refsPerClient EXCEPT ![n][c] = @ - 1]
          /\ timers' = IF LastReference(n, c) THEN timers \cup {n} ELSE timers
          BY <1>4, <2>2, <2>c, <2>n DEF HandleUnwatch
    <3>3. refsPerClient[n] \in [Clients -> Nat]
          BY <1>t, <3>1 DEF Rest
    <3>4. /\ \A m \in Watchers \ {n} : refsPerClient'[m] = refsPerClient[m]
          /\ refsPerClient'[n][c] = refsPerClient[n][c] - 1
          /\ \A d \in Clients \ {c} : refsPerClient'[n][d] = refsPerClient[n][d]
          BY <1>t, <3>1, <3>2 DEF Rest
    <3>5. n \in 1 .. made /\ made \in Nat
          BY <1>t, <3>1 DEF Rest, Watchers
    <3>6. MadeInv'
      <4>1. \A m \in Watchers : m > made => m # n
            BY <3>5 DEF Watchers
      <4>2. \A m \in Watchers : m > made => m \notin timers'
            BY <1>t, <3>2, <4>1 DEF MadeInv
      <4> QED BY <1>t, <2>1, <3>4, <4>1, <4>2 DEF MadeInv, Rest
    <3>7. n = current /\ n \notin timers
      <4>1. InUse(n)
            BY <2>2, <3>1 DEF InUse
      <4> QED BY <3>1, <3>5, <4>1 DEF WatcherInv, TimerRunsWhileUnused
    <3>8. (\E d \in Clients : refsPerClient'[n][d] > 0) <=> ~LastReference(n, c)
      <4>1. refsPerClient[n][c] \in Nat /\ refsPerClient[n][c] > 0
            BY <2>2, <3>1, <3>3
      <4>2. \A d \in Clients : refsPerClient[n][d] \in Nat
            BY <3>3
      <4> QED BY <3>1, <3>4, <4>1, <4>2 DEF InUse, LastReference
    <3>9. ASSUME NEW m \in 1 .. made', m \notin disposed'
          PROVE  m = current' /\ (m \in timers' <=> ~ \E d \in Clients : refsPerClient'[m][d] > 0)
      <4>1. m \in 1 .. made /\ m = current /\ m = n
            BY <2>1, <3>7, <3>9 DEF WatcherInv, TimerRunsWhileUnused
      <4>2. n \in timers' <=> LastReference(n, c)
            BY <3>2, <3>7
      <4> QED BY <2>1, <3>8, <4>1, <4>2
    <3>10. TimerRunsWhileUnused'
          BY <3>9 DEF TimerRunsWhileUnused, InUse
    <3> QED BY <3>6, <3>10 DEF WatcherInv
  <2>3. CASE ~(n # NoWatcher /\ refsPerClient[n][c] > 0)
    <3>1. UNCHANGED <<refsPerClient, timers>>
          BY <1>4, <2>3, <2>c, <2>n DEF HandleUnwatch
    <3> QED BY <1>t, <2>1, <3>1 DEF WatcherInv, MadeInv, TimerRunsWhileUnused, InUse, Rest
  <2> QED BY <2>2, <2>3
<1>5. ASSUME NEW n \in Watchers, Start(n) \/ PathIsThere(n) PROVE WatcherInv'
  <2>1. /\ UNCHANGED <<service, refsPerClient, timers, disposed>>
        /\ phase[n] # "none" /\ native' \subseteq native \cup {n}
        /\ \A m \in Watchers \ {n} : phase'[m] = phase[m]
        BY <1>t, <1>5 DEF Start, StopWaiting, Subscribe, FinishStart, PathIsThere, Rest
  <2>2. \A m \in Watchers : m > made => m # n
        BY <1>t, <2>1 DEF MadeInv
  <2> QED BY <1>t, <2>1, <2>2 DEF service, WatcherInv, MadeInv, TimerRunsWhileUnused, InUse
<1>6. ASSUME NEW n \in Watchers, ~(n > made), DisposeWatcher(n), UNCHANGED <<made, refsPerClient>>,
             timers' \subseteq timers, \A m \in Watchers \ {n} : (m \in timers <=> m \in timers') /\ phase'[m] = phase[m]
      PROVE  WatcherInv'
  <2>1. /\ disposed' = disposed \cup {n}
        /\ n \in disposed => current' = current
        /\ n \notin disposed => current' = NoWatcher
        /\ \A w \in Watches : watcherOf'[w] = IF watcherOf[w] = n THEN NoWatcher ELSE watcherOf[w]
        /\ native' \subseteq native
        BY <1>t, <1>6, Disposal
  <2>2. MadeInv'
        BY <1>t, <1>6, <2>1 DEF MadeInv
  <2>3. ASSUME NEW m \in 1 .. made, m \notin disposed'
        PROVE  m = current' /\ (m \in timers' <=> ~ \E d \in Clients : refsPerClient'[m][d] > 0)
    <3>1. m = current /\ m # n /\ (m \in timers <=> ~InUse(m))
          BY <2>1, <2>3 DEF WatcherInv, TimerRunsWhileUnused
    <3>2. m \in Watchers
          BY <1>t, WatchingAssumption DEF Rest, Watchers
    <3>3. n \in 1 .. made
          BY <1>t, <1>6 DEF Rest, Watchers
    <3>4. n \in disposed
          BY <3>1, <3>3 DEF WatcherInv, TimerRunsWhileUnused
    <3> QED BY <1>6, <2>1, <3>1, <3>2, <3>4 DEF InUse
  <2>4. TimerRunsWhileUnused'
        BY <1>6, <2>3 DEF TimerRunsWhileUnused, InUse
  <2> QED BY <2>2, <2>4 DEF WatcherInv
<1>7. ASSUME NEW n \in Watchers, FailToStart(n) \/ NativeError(n) PROVE WatcherInv'
  <2>1. /\ DisposeWatcher(n) /\ UNCHANGED <<made, refsPerClient, timers>>
        /\ phase[n] # "none" \/ n \in native
        /\ \A m \in Watchers \ {n} : phase'[m] = phase[m]
        BY <1>t, <1>7 DEF FailToStart, NativeError, Rest
  <2>2. ~(n > made)
        BY <1>t, <2>1 DEF MadeInv
  <2> QED BY <1>6, <2>1, <2>2
<1>8. ASSUME NEW n \in Watchers, DisposalTimeout(n) PROVE WatcherInv'
  <2>1. /\ DisposeWatcher(n) /\ UNCHANGED <<made, refsPerClient, phase>>
        /\ n \in timers /\ timers' = timers \ {n}
        BY <1>8 DEF DisposalTimeout
  <2>2. ~(n > made)
        BY <1>t, <2>1 DEF MadeInv
  <2> QED BY <1>6, <2>1, <2>2
<1>9. CASE UNCHANGED vars
      BY <1>0, <1>9 DEF vars
<1> QED BY <1>1, <1>2, <1>3, <1>4, <1>5, <1>7, <1>8, <1>9 DEF Next, Serve

-------------------------------------------------------------------------------
(***************************************************************************)
(* References and handles.                                                 *)
(***************************************************************************)
LEMMA HandlesAreFinite ==
    ASSUME NEW n, NEW c
    PROVE  /\ IsFiniteSet(HandlesOf(n, c))
           /\ Cardinality(HandlesOf(n, c)) \in Nat
BY WatchingAssumption, FS_Subset, FS_CardinalityType DEF HandlesOf

\* A watch that has a watcher is counted there.
LEMMA HeldWatchIsCounted ==
    ASSUME ReferencesMatchHandles, NEW n \in Watchers \ disposed, NEW w \in Watches,
           watcherOf[w] = n
    PROVE  /\ ClientOf[w] \in Clients /\ refsPerClient[n][ClientOf[w]] > 0
           /\ InUse(n)
<1>1. ClientOf[w] \in Clients
      BY WatchingAssumption
<1>2. w \in HandlesOf(n, ClientOf[w])
      BY DEF HandlesOf
<1>3. Cardinality(HandlesOf(n, ClientOf[w])) # 0
      BY <1>2, HandlesAreFinite, FS_EmptySet
<1>4. refsPerClient[n][ClientOf[w]] = Cardinality(HandlesOf(n, ClientOf[w]))
      BY <1>1 DEF ReferencesMatchHandles
<1>5. refsPerClient[n][ClientOf[w]] > 0
      BY <1>3, <1>4, HandlesAreFinite
<1> QED BY <1>1, <1>5 DEF InUse

LEMMA MatchInit == Init => ReferencesMatchHandles
<1> SUFFICES ASSUME Init, NEW n \in Watchers, NEW c \in Clients
             PROVE  refsPerClient[n][c] = Cardinality(HandlesOf(n, c))
    BY DEF ReferencesMatchHandles
<1>1. HandlesOf(n, c) = {}
      BY DEF Init, HandlesOf, Watchers, NoWatcher
<1> QED BY <1>1, FS_EmptySet DEF Init

LEMMA MatchNext ==
    TypeOK /\ MadeInv /\ QueueInv /\ HandleInv /\ ReferencesMatchHandles /\ [Next]_vars
        => ReferencesMatchHandles'
<1> SUFFICES ASSUME TypeOK, MadeInv, QueueInv, HandleInv, ReferencesMatchHandles, [Next]_vars
             PROVE  ReferencesMatchHandles'
    OBVIOUS
<1>t. Rest
      BY TypeParts
<1>0. ASSUME UNCHANGED <<watcherOf, refsPerClient, disposed>> PROVE ReferencesMatchHandles'
      BY <1>0 DEF ReferencesMatchHandles, HandlesOf
<1>1. ASSUME NEW w \in Watches, Watch(w) \/ ReceiveId(w) \/ Dispose(w)
      PROVE  ReferencesMatchHandles'
      BY <1>0, <1>1 DEF Watch, ReceiveId, Dispose, service, watcher
<1>2. ASSUME NEW c \in Clients, Disconnect(c) PROVE ReferencesMatchHandles'
      BY <1>0, <1>2 DEF Disconnect, service, watcher
<1>3. ASSUME NEW w \in Watches, HandleWatch(w) PROVE ReferencesMatchHandles'
  <2>c. PICK c \in Clients : c = ClientOf[w]
        BY WatchingAssumption
  <2>n. PICK n \in Watchers : n = IF current = NoWatcher THEN made + 1 ELSE current
        BY <1>3 DEF HandleWatch
  <2>1. /\ watcherOf' = [watcherOf EXCEPT ![w] = n]
        /\ refsPerClient' = [refsPerClient EXCEPT ![n][c] = @ + 1]
        /\ disposed' = disposed
        BY <1>3, <2>c, <2>n DEF HandleWatch
  <2>2. watcherOf[w] = NoWatcher
        BY <1>3, WatchIsAsked DEF HandleInv
  <2>3. /\ watcherOf'[w] = n
        /\ \A v \in Watches \ {w} : watcherOf'[v] = watcherOf[v]
        BY <1>t, <2>1 DEF Rest
  <2> SUFFICES ASSUME NEW m \in Watchers, m \notin disposed, NEW d \in Clients
               PROVE  refsPerClient'[m][d] = Cardinality(HandlesOf(m, d)')
      BY <2>1 DEF ReferencesMatchHandles
  <2>4. refsPerClient[m][d] = Cardinality(HandlesOf(m, d)) /\ refsPerClient[m] \in [Clients -> Nat]
        BY <1>t DEF ReferencesMatchHandles, Rest
  <2>5. m # NoWatcher
        BY DEF Watchers, NoWatcher
  <2>6. CASE m = n /\ d = c
    <3>1. HandlesOf(m, d)' = HandlesOf(m, d) \cup {w} /\ w \notin HandlesOf(m, d)
          BY <2>c, <2>2, <2>3, <2>5, <2>6 DEF HandlesOf
    <3>2. Cardinality(HandlesOf(m, d) \cup {w}) = Cardinality(HandlesOf(m, d)) + 1
          BY <3>1, HandlesAreFinite, FS_AddElement
    <3>3. refsPerClient'[m][d] = refsPerClient[m][d] + 1
          BY <1>t, <2>1, <2>6 DEF Rest
    <3> QED BY <2>4, <3>1, <3>2, <3>3
  <2>7. CASE ~(m = n /\ d = c)
    <3>1. HandlesOf(m, d)' = HandlesOf(m, d)
          BY <2>c, <2>2, <2>3, <2>5, <2>7 DEF HandlesOf
    <3>2. refsPerClient'[m][d] = refsPerClient[m][d]
          BY <1>t, <2>1, <2>4, <2>7 DEF Rest
    <3> QED BY <2>4, <3>1, <3>2
  <2> QED BY <2>6, <2>7
<1>4. ASSUME NEW w \in Watches, HandleUnwatch(w) PROVE ReferencesMatchHandles'
  <2>c. PICK c \in Clients : c = ClientOf[w]
        BY WatchingAssumption
  <2>n. PICK n \in Watchers \cup {NoWatcher} : n = watcherOf[w]
        BY <1>t DEF Rest
  <2>1. watcherOf' = [watcherOf EXCEPT ![w] = NoWatcher] /\ disposed' = disposed
        BY <1>4 DEF HandleUnwatch
  <2>2. /\ watcherOf'[w] = NoWatcher
        /\ \A v \in Watches \ {w} : watcherOf'[v] = watcherOf[v]
        BY <1>t, <2>1 DEF Rest
  <2>3. n # NoWatcher => n \in Watchers \ disposed /\ refsPerClient[n][c] > 0
        BY <1>t, <2>c, <2>n, HeldWatchIsCounted DEF MadeInv
  <2>4. refsPerClient' = IF n = NoWatcher THEN refsPerClient
                                          ELSE [refsPerClient EXCEPT ![n][c] = @ - 1]
        BY <1>4, <2>c, <2>n, <2>3 DEF HandleUnwatch
  <2> SUFFICES ASSUME NEW m \in Watchers, m \notin disposed, NEW d \in Clients
               PROVE  refsPerClient'[m][d] = Cardinality(HandlesOf(m, d)')
      BY <2>1 DEF ReferencesMatchHandles
  <2>5. refsPerClient[m][d] = Cardinality(HandlesOf(m, d)) /\ refsPerClient[m] \in [Clients -> Nat]
        BY <1>t DEF ReferencesMatchHandles, Rest
  <2>6. m # NoWatcher
        BY DEF Watchers, NoWatcher
  <2>7. CASE m = n /\ d = c
    <3>1. HandlesOf(m, d)' = HandlesOf(m, d) \ {w} /\ w \in HandlesOf(m, d)
          BY <2>c, <2>n, <2>2, <2>6, <2>7 DEF HandlesOf
    <3>2. Cardinality(HandlesOf(m, d) \ {w}) = Cardinality(HandlesOf(m, d)) - 1
          BY <3>1, HandlesAreFinite, FS_RemoveElement
    <3>3. refsPerClient'[m][d] = refsPerClient[m][d] - 1
          BY <1>t, <2>4, <2>6, <2>7 DEF Rest
    <3> QED BY <2>5, <3>1, <3>2, <3>3
  <2>8. CASE ~(m = n /\ d = c)
    <3>1. HandlesOf(m, d)' = HandlesOf(m, d)
          BY <2>c, <2>n, <2>2, <2>6, <2>8 DEF HandlesOf
    <3>2. refsPerClient'[m][d] = refsPerClient[m][d]
      <4>1. CASE n = NoWatcher
            BY <2>4, <4>1
      <4>2. CASE n # NoWatcher
            BY <1>t, <2>3, <2>4, <2>5, <2>8, <4>2 DEF Rest
      <4> QED BY <4>1, <4>2
    <3> QED BY <2>5, <3>1, <3>2
  <2> QED BY <2>7, <2>8
<1>5. ASSUME NEW n \in Watchers, Start(n) \/ PathIsThere(n) PROVE ReferencesMatchHandles'
      BY <1>0, <1>5 DEF Start, StopWaiting, Subscribe, FinishStart, PathIsThere, service
<1>6. ASSUME NEW n \in Watchers, FailToStart(n) \/ NativeError(n) \/ DisposalTimeout(n)
      PROVE  ReferencesMatchHandles'
  <2>1. DisposeWatcher(n) /\ UNCHANGED refsPerClient
        BY <1>6 DEF FailToStart, NativeError, DisposalTimeout
  <2>2. /\ disposed' = disposed \cup {n}
        /\ \A w \in Watches : watcherOf'[w] = IF watcherOf[w] = n THEN NoWatcher ELSE watcherOf[w]
        BY <1>t, <2>1, Disposal
  <2> SUFFICES ASSUME NEW m \in Watchers, m \notin disposed, m # n, NEW d \in Clients
               PROVE  refsPerClient'[m][d] = Cardinality(HandlesOf(m, d)')
      BY <2>2 DEF ReferencesMatchHandles
  <2>3. HandlesOf(m, d)' = HandlesOf(m, d)
        BY <2>2 DEF HandlesOf, Watchers, NoWatcher
  <2> QED BY <2>1, <2>3 DEF ReferencesMatchHandles
<1>7. CASE UNCHANGED vars
      BY <1>0, <1>7 DEF vars, service, watcher
<1> QED BY <1>1, <1>2, <1>3, <1>4, <1>5, <1>6, <1>7 DEF Next, Serve

-------------------------------------------------------------------------------
(***************************************************************************)
(* Held watches.                                                           *)
(***************************************************************************)
LEMMA HeldInit == Init => HeldWatchIsServed
BY DEF Init, HeldWatchIsServed

LEMMA HeldNext == IInv /\ [Next]_vars => HeldWatchIsServed'
<1> SUFFICES ASSUME IInv, [Next]_vars PROVE HeldWatchIsServed'
    OBVIOUS
<1>t. Rest /\ TypeOK /\ MadeInv /\ QueueInv /\ HandleInv /\ ReferencesMatchHandles
         /\ HeldWatchIsServed /\ TimerRunsWhileUnused
      BY TypeParts DEF IInv
<1>1. ASSUME NEW w \in Watches, Watch(w) \/ ReceiveId(w) \/ Dispose(w) PROVE HeldWatchIsServed'
  <2>1. UNCHANGED <<watcherOf, notified>>
        BY <1>1 DEF Watch, ReceiveId, Dispose, service
  <2>2. \A v \in Watches \ {w} : handle'[v] = handle[v] /\ answer'[v] = answer[v]
        BY <1>t, <1>1 DEF Watch, ReceiveId, Dispose, Rest
  <2>3. \/ answer'[w] = "asked"
        \/ handle'[w] = "disposed"
        \/ handle'[w] = handle[w] /\ answer[w] = "answered"
        BY <1>t, <1>1 DEF Watch, ReceiveId, Dispose, Rest
  <2> QED BY <1>t, <2>1, <2>2, <2>3 DEF HeldWatchIsServed
<1>2. ASSUME NEW c \in Clients, Disconnect(c) PROVE HeldWatchIsServed'
  <2>1. /\ UNCHANGED <<answer, watcherOf, notified>>
        /\ \A w \in Watches : handle'[w] = handle[w] \/ handle'[w] = "disposed"
        BY <1>2 DEF Disconnect, service
  <2> QED BY <1>t, <2>1 DEF HeldWatchIsServed
<1>3. ASSUME NEW w \in Watches, HandleWatch(w) PROVE HeldWatchIsServed'
  <2>1. /\ UNCHANGED <<handle, notified>>
        /\ answer' = [answer EXCEPT ![w] = "answered"]
        /\ \E n \in Watchers : watcherOf' = [watcherOf EXCEPT ![w] = n]
        BY <1>3 DEF HandleWatch
  <2>2. /\ watcherOf'[w] # NoWatcher
        /\ \A v \in Watches \ {w} : answer'[v] = answer[v] /\ watcherOf'[v] = watcherOf[v]
        BY <1>t, <2>1 DEF Rest, Watchers, NoWatcher
  <2> QED BY <1>t, <2>1, <2>2 DEF HeldWatchIsServed
<1>4. ASSUME NEW w \in Watches, HandleUnwatch(w) PROVE HeldWatchIsServed'
  <2>1. handle[w] = "disposed"
        BY <1>t, <1>4, WatchIsAsked
  <2>2. /\ UNCHANGED <<handle, answer, notified>>
        /\ \A v \in Watches \ {w} : watcherOf'[v] = watcherOf[v]
        BY <1>t, <1>4 DEF HandleUnwatch, Rest
  <2> QED BY <1>t, <2>1, <2>2 DEF HeldWatchIsServed
<1>5. ASSUME NEW n \in Watchers, Start(n) \/ PathIsThere(n) PROVE HeldWatchIsServed'
      BY <1>t, <1>5 DEF Start, StopWaiting, Subscribe, FinishStart, PathIsThere, backend, service,
                        HeldWatchIsServed
<1>6. ASSUME NEW n \in Watchers, FailToStart(n) \/ NativeError(n) PROVE HeldWatchIsServed'
  <2>1. DisposeWatcher(n) /\ FireError(n) /\ UNCHANGED <<handle, answer>>
        BY <1>6 DEF FailToStart, NativeError
  <2>2. \A w \in Watches : watcherOf'[w] = IF watcherOf[w] = n THEN NoWatcher ELSE watcherOf[w]
        BY <1>t, <2>1, Disposal
  <2>3. ASSUME NEW w \in Watches, handle[w] = "open", watcherOf[w] = n
        PROVE  ClientOf[w] \in notified'
    <3>1. n \notin disposed
          BY <1>t, <2>3 DEF MadeInv, Watchers, NoWatcher
    <3>2. refsPerClient[n][ClientOf[w]] > 0
          BY <1>t, <2>3, <3>1, HeldWatchIsCounted
    <3>3. ClientOf[w] \in connected
          BY <1>t, <2>3 DEF HandleInv
    <3> QED BY <2>1, <3>2, <3>3 DEF FireError
  <2>4. notified \subseteq notified'
        BY <2>1 DEF FireError
  <2> QED BY <1>t, <2>1, <2>2, <2>3, <2>4 DEF HeldWatchIsServed
<1>7. ASSUME NEW n \in Watchers, DisposalTimeout(n) PROVE HeldWatchIsServed'
  <2>1. DisposeWatcher(n) /\ n \in timers /\ UNCHANGED <<handle, answer, notified>>
        BY <1>7 DEF DisposalTimeout, backend
  <2>2. \A w \in Watches : watcherOf'[w] = IF watcherOf[w] = n THEN NoWatcher ELSE watcherOf[w]
        BY <1>t, <2>1, Disposal
  <2>3. n \in 1 .. made
        BY <1>t, <2>1 DEF MadeInv, Rest, Watchers
  <2>4. n \notin disposed => ~InUse(n)
        BY <1>t, <2>1, <2>3 DEF TimerRunsWhileUnused
  <2>5. \A w \in Watches : watcherOf[w] # n
        BY <1>t, <2>4, HeldWatchIsCounted DEF MadeInv, Watchers, NoWatcher
  <2> QED BY <1>t, <2>1, <2>2, <2>5 DEF HeldWatchIsServed
<1>8. CASE UNCHANGED vars
      BY <1>t, <1>8 DEF vars, backend, service, HeldWatchIsServed
<1> QED BY <1>1, <1>2, <1>3, <1>4, <1>5, <1>6, <1>7, <1>8 DEF Next, Serve

-------------------------------------------------------------------------------
(***************************************************************************)
(* Theorems.                                                               *)
(***************************************************************************)
LEMMA Invariance == Spec => []IInv
<1>1. Init => IInv
      BY TypesInit, QueueInit, WatchersInit, MatchInit, HeldInit DEF IInv, WatcherInv
<1>2. IInv /\ [Next]_vars => IInv'
  <2> SUFFICES ASSUME IInv, [Next]_vars PROVE IInv'
      OBVIOUS
  <2>1. TypeOK /\ MadeInv /\ TimerRunsWhileUnused /\ QueueInv /\ HandleInv /\ ReferencesMatchHandles
        BY DEF IInv
  <2>2. TypeOK'
        BY <2>1, TypesNext
  <2>3. MadeInv' /\ TimerRunsWhileUnused'
        BY <2>1, <2>2, WatchersNext DEF WatcherInv
  <2>4. QueueInv'
        BY <2>1, <2>2, QueueNext
  <2>5. HandleInv'
        BY <2>1, HandlesNext
  <2>6. ReferencesMatchHandles'
        BY <2>1, MatchNext
  <2>7. HeldWatchIsServed'
        BY HeldNext
  <2> QED BY <2>2, <2>3, <2>4, <2>5, <2>6, <2>7 DEF IInv
<1> QED BY <1>1, <1>2, PTL DEF Spec

\* Every variable keeps to its type, in particular no client's count of
\* references goes below zero.
THEOREM TypeCorrect == Spec => []TypeOK
<1>1. IInv => TypeOK
      BY DEF IInv
<1> QED BY <1>1, Invariance, PTL

\* The disposal timer of the service's watcher runs exactly while no client
\* refers to it, for every number of clients and watches.
THEOREM TimersRunWhileUnused == Spec => []TimerRunsWhileUnused
<1>1. IInv => TimerRunsWhileUnused
      BY DEF IInv
<1> QED BY <1>1, Invariance, PTL

\* A watcher counts for each client exactly the watcherIds given to it.
THEOREM ReferencesAreHandles == Spec => []ReferencesMatchHandles
<1>1. IInv => ReferencesMatchHandles
      BY DEF IInv
<1> QED BY <1>1, Invariance, PTL

\* A watch that is still held is served, or its client was told of the failure.
THEOREM HeldWatchesAreServed == Spec => []HeldWatchIsServed
<1>1. IInv => HeldWatchIsServed
      BY DEF IInv
<1> QED BY <1>1, Invariance, PTL

===============================================================================
