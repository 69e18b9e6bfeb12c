----------------------------- MODULE FileWatching -----------------------------
(***************************************************************************)
(* The watching of one path: the watch handles of the back end's           *)
(* DiskFileSystemProvider, one provider per front end, the                 *)
(* FileSystemWatcherServerClient each of them calls through, and the       *)
(* watcher process behind them with its ParcelFileSystemWatcherService and *)
(* reference-counted ParcelWatcher instances (node/parcel-watcher).        *)
(*                                                                         *)
(* All watches ask for the same path and options, which the service maps   *)
(* to one watcher at a time; the n-th instance it creates is watcher n.  A *)
(* watch stands for its own watcherId too, of which the service gives out  *)
(* a new one per request.  Requests reach the watcher process in order.    *)
(***************************************************************************)
EXTENDS Naturals, Sequences, FiniteSets

CONSTANTS
    Clients,        \* front ends, by the clientId of their FileSystemWatcherServerClient
    Watches,        \* calls of DiskFileSystemProvider.watch
    ClientOf,       \* the client a watch belongs to
    MaxWatchers,    \* bound: watchers created (with one per watch there is none)
    MaxErrors       \* bound: native watchers that fail

ASSUME WatchingAssumption ==
    /\ IsFiniteSet(Clients) /\ IsFiniteSet(Watches)
    /\ ClientOf \in [Watches -> Clients]
    /\ {MaxWatchers, MaxErrors} \subseteq Nat

Watchers == 1 .. MaxWatchers
NoWatcher == 0

Request == [type : {"watch", "unwatch"}, watch : Watches]

VARIABLES
    \* the back end
    handle,         \* per watch: "idle", "open" or "disposed"
    answer,         \* per watch: "none", "asked", "answered" or "known" (watcherId)
    connected,      \* clients that are registered with the dispatcher
    requests,       \* calls on their way to the watcher process
    notified,       \* clients an onError was or will be forwarded to
    \* ParcelFileSystemWatcherService
    made,           \* watchers created so far
    current,        \* watchers.get(watcherKey)
    watcherOf,      \* per watch: watcherHandles.get(watcherId).watcher
    \* ParcelWatcher
    refsPerClient,
    timers,         \* watchers whose deferredDisposalTimer runs
    disposed,
    phase,          \* per watcher: where start() is
    native,         \* watchers with a native subscription
    errors

backend == <<handle, answer, connected, requests, notified>>
service == <<made, current, watcherOf>>
watcher == <<refsPerClient, timers, disposed, phase, native>>
vars == <<backend, service, watcher, errors>>

Phases == {"none", "waiting", "creating", "subscribed", "started", "failed", "aborted"}

TypeOK ==
    /\ handle \in [Watches -> {"idle", "open", "disposed"}]
    /\ answer \in [Watches -> {"none", "asked", "answered", "known"}]
    /\ connected \subseteq Clients
    /\ requests \in Seq(Request)
    /\ notified \subseteq Clients
    /\ made \in 0 .. MaxWatchers
    /\ current \in Watchers \cup {NoWatcher}
    /\ watcherOf \in [Watches -> Watchers \cup {NoWatcher}]
    /\ refsPerClient \in [Watchers -> [Clients -> Nat]]
    /\ timers \subseteq Watchers
    /\ disposed \subseteq Watchers
    /\ phase \in [Watchers -> Phases]
    /\ native \subseteq Watchers
    /\ errors \in 0 .. MaxErrors

Init ==
    /\ handle = [w \in Watches |-> "idle"]
    /\ answer = [w \in Watches |-> "none"]
    /\ connected = Clients
    /\ requests = <<>>
    /\ notified = {}
    /\ made = 0
    /\ current = NoWatcher
    /\ watcherOf = [w \in Watches |-> NoWatcher]
    /\ refsPerClient = [n \in Watchers |-> [c \in Clients |-> 0]]
    /\ timers = {}
    /\ disposed = {}
    /\ phase = [n \in Watchers |-> "none"]
    /\ native = {}
    /\ errors = 0

-------------------------------------------------------------------------------
(***************************************************************************)
(* The back end.                                                           *)
(***************************************************************************)
\* Mutant: the clientId is sent in the place of the watcherId.
AskByClient(type, w) == [type |-> type, watch |-> ClientOf[w]]

Ask(type, w) == [type |-> type, watch |-> w]

\* watch() of the provider, through its watcher client.
Watch(w) ==
    /\ handle[w] = "idle"
    /\ ClientOf[w] \in connected
    /\ handle' = [handle EXCEPT ![w] = "open"]
    /\ answer' = [answer EXCEPT ![w] = "asked"]
    /\ requests' = Append(requests, Ask("watch", w))
    /\ UNCHANGED <<connected, notified, service, watcher, errors>>

\* Mutant: the handle is not asked whether it was disposed early.
UnwatchNothing(w) == requests

\* A watcherId that arrives for a handle that was disposed early is released.
UnwatchIfDisposed(w) ==
    IF handle[w] = "disposed" THEN Append(requests, Ask("unwatch", w)) ELSE requests

ReceiveId(w) ==
    /\ answer[w] = "answered"
    /\ answer' = [answer EXCEPT ![w] = "known"]
    /\ requests' = UnwatchIfDisposed(w)
    /\ UNCHANGED <<handle, connected, notified, service, watcher, errors>>

\* dispose() of a handle.
Dispose(w) ==
    /\ handle[w] = "open"
    /\ handle' = [handle EXCEPT ![w] = "disposed"]
    /\ requests' = IF answer[w] = "known" THEN Append(requests, Ask("unwatch", w)) ELSE requests
    /\ UNCHANGED <<answer, connected, notified, service, watcher, errors>>

\* The front end's connection is gone: its FileSystemProviderServer disposes of
\* the handles, the provider and the watcher client.
Disconnect(c) ==
    /\ c \in connected
    /\ connected' = connected \ {c}
    /\ LET open == {w \in Watches : ClientOf[w] = c /\ handle[w] = "open"}
       IN  /\ handle' = [w \in Watches |-> IF w \in open THEN "disposed" ELSE handle[w]]
           /\ \E order \in [1 .. Cardinality({w \in open : answer[w] = "known"}) -> Watches] :
                 /\ {order[i] : i \in DOMAIN order} = {w \in open : answer[w] = "known"}
                 /\ requests' = requests \o [i \in DOMAIN order |-> Ask("unwatch", order[i])]
    /\ UNCHANGED <<answer, notified, service, watcher, errors>>

-------------------------------------------------------------------------------
(***************************************************************************)
(* The watcher process.                                                    *)
(***************************************************************************)
InUse(n) == \E c \in Clients : refsPerClient[n][c] > 0

\* addRef finds the watcher without references.
Revives(n) == ~InUse(n)

\* watchFileChanges: a new watcher for the path, or another reference to the
\* one there is; onRefsRevive stops the timer of one that had none.
HandleWatch(w) ==
    LET c == ClientOf[w]
        n == IF current = NoWatcher THEN made + 1 ELSE current
    IN  /\ requests # <<>> /\ Head(requests) = Ask("watch", w)
        /\ n \in Watchers
        /\ requests' = Tail(requests)
        /\ answer' = [answer EXCEPT ![w] = "answered"]
        /\ watcherOf' = [watcherOf EXCEPT ![w] = n]
        /\ refsPerClient' = [refsPerClient EXCEPT ![n][c] = @ + 1]
        /\ current' = n
        /\ IF current = NoWatcher
           THEN /\ made' = n
                /\ phase' = [phase EXCEPT ![n] = "waiting"]
                /\ UNCHANGED timers
           ELSE /\ timers' = IF Revives(n) THEN timers \ {n} ELSE timers
                /\ UNCHANGED <<made, phase>>
        /\ UNCHANGED <<handle, connected, notified, disposed, native, errors>>

\* Mutant: only the client's own references are looked at.
OwnLastReference(n, c) == refsPerClient[n][c] = 1

\* Mutant: the references are counted before one is taken away.
NoReference(n, c) == ~InUse(n)

\* removeRef takes the last reference.
LastReference(n, c) ==
    /\ refsPerClient[n][c] = 1
    /\ \A d \in Clients \ {c} : refsPerClient[n][d] = 0

\* Mutant: the handle stays in watcherHandles.
HandleUnwatchKeepsHandle(w) ==
    LET c == ClientOf[w]
        n == watcherOf[w]
    IN  /\ requests # <<>> /\ Head(requests) = Ask("unwatch", w)
        /\ requests' = Tail(requests)
        /\ IF n # NoWatcher
           THEN /\ refsPerClient' = [refsPerClient EXCEPT ![n][c] = @ - 1]
                /\ timers' = IF LastReference(n, c) THEN timers \cup {n} ELSE timers
           ELSE UNCHANGED <<refsPerClient, timers>>
        /\ UNCHANGED <<handle, answer, connected, notified, made, current, watcherOf, disposed,
                       phase, native, errors>>

\* unwatchFileChanges, and removeRef with onRefsReachZero; a watcherId whose
\* watcher was disposed of is unknown.
HandleUnwatch(w) ==
    LET c == ClientOf[w]
        n == watcherOf[w]
    IN  /\ requests # <<>> /\ Head(requests) = Ask("unwatch", w)
        /\ requests' = Tail(requests)
        /\ watcherOf' = [watcherOf EXCEPT ![w] = NoWatcher]
        /\ IF n # NoWatcher /\ refsPerClient[n][c] > 0
           THEN /\ refsPerClient' = [refsPerClient EXCEPT ![n][c] = @ - 1]
                /\ timers' = IF LastReference(n, c) THEN timers \cup {n} ELSE timers
           ELSE UNCHANGED <<refsPerClient, timers>>
        /\ UNCHANGED <<handle, answer, connected, notified, made, current, disposed, phase,
                       native, errors>>

\* Mutant: a disposed watcher keeps its entry in the service's map.
DisposeWatcherKeepsEntry(n) ==
    /\ disposed' = disposed \cup {n}
    /\ native' = IF n \notin disposed /\ phase[n] = "started" THEN native \ {n} ELSE native
    /\ UNCHANGED <<current, watcherOf>>

\* _dispose, and what the service does on whenDisposed: the key and the
\* watcherIds of the watcher are forgotten, a native watcher that start() has
\* handed over is unsubscribed.
DisposeWatcher(n) ==
    IF n \in disposed THEN UNCHANGED <<disposed, current, watcherOf, native>>
    ELSE /\ disposed' = disposed \cup {n}
         /\ current' = NoWatcher
         /\ watcherOf' = [w \in Watches |-> IF watcherOf[w] = n THEN NoWatcher ELSE watcherOf[w]]
         /\ native' = IF phase[n] = "started" THEN native \ {n} ELSE native

\* Ten seconds without a reference are over.
DisposalTimeout(n) ==
    /\ n \in timers
    /\ timers' = timers \ {n}
    /\ DisposeWatcher(n)
    /\ UNCHANGED <<backend, made, refsPerClient, phase, errors>>

\* Mutant: only clients that still hold a reference elsewhere are told.
FireErrorToCurrent(n) ==
    notified' = notified \cup {c \in connected : current \notin {NoWatcher, n} /\ refsPerClient[n][c] > 0}

\* fireError, and the dispatcher, which takes no clients for all of them.
FireError(n) ==
    notified' = notified \cup {c \in connected : InUse(n) => refsPerClient[n][c] > 0}

\* start(): the path exists, by now or after some rounds of waiting for it.
PathIsThere(n) ==
    /\ phase[n] = "waiting"
    /\ n \notin disposed
    /\ phase' = [phase EXCEPT ![n] = "creating"]
    /\ UNCHANGED <<backend, service, refsPerClient, timers, disposed, native, errors>>

\* start(): assertNotDisposed throws while it waits for the path.
StopWaiting(n) ==
    /\ phase[n] = "waiting"
    /\ n \in disposed
    /\ phase' = [phase EXCEPT ![n] = "aborted"]
    /\ UNCHANGED <<backend, service, refsPerClient, timers, disposed, native, errors>>

\* createWatcher(): the native subscription exists; start() still awaits it.
Subscribe(n) ==
    /\ phase[n] = "creating"
    /\ phase' = [phase EXCEPT ![n] = "subscribed"]
    /\ native' = native \cup {n}
    /\ UNCHANGED <<backend, service, refsPerClient, timers, disposed, errors>>

\* createWatcher() throws: the path is gone again, or no handle is left.
FailToStart(n) ==
    /\ phase[n] = "creating"
    /\ errors < MaxErrors
    /\ errors' = errors + 1
    /\ phase' = [phase EXCEPT ![n] = "failed"]
    /\ DisposeWatcher(n)
    /\ FireError(n)
    /\ UNCHANGED <<handle, answer, connected, requests, made, refsPerClient, timers>>

\* The rest of start(): the watcher takes the subscription over.  If it was
\* disposed of meanwhile, assertNotDisposed throws before the subscription is
\* given back, so that the code which would do so is never reached.
FinishStart(n) ==
    /\ phase[n] = "subscribed"
    /\ phase' = [phase EXCEPT ![n] = IF n \in disposed THEN "aborted" ELSE "started"]
    /\ UNCHANGED <<backend, service, refsPerClient, timers, disposed, native, errors>>

\* The native watcher reports an error it does not recover from.
NativeError(n) ==
    /\ n \in native
    /\ errors < MaxErrors
    /\ errors' = errors + 1
    /\ DisposeWatcher(n)
    /\ FireError(n)
    /\ UNCHANGED <<handle, answer, connected, requests, made, refsPerClient, timers, phase>>

-------------------------------------------------------------------------------
Serve == \E w \in Watches : HandleWatch(w) \/ HandleUnwatch(w)

Start(n) == StopWaiting(n) \/ Subscribe(n) \/ FinishStart(n)

Next ==
    \/ \E w \in Watches : Watch(w) \/ ReceiveId(w) \/ Dispose(w)
    \/ \E c \in Clients : Disconnect(c)
    \/ Serve
    \/ \E n \in Watchers : \/ Start(n) \/ PathIsThere(n) \/ FailToStart(n)
                           \/ NativeError(n) \/ DisposalTimeout(n)

Spec == Init /\ [][Next]_vars

\* Calls and their answers arrive, awaited calls of the operating system come
\* back and timers expire.  Nothing makes the path exist or a user stop watching.
FairSpec ==
    /\ Spec
    /\ WF_vars(Serve)
    /\ \A w \in Watches : WF_vars(ReceiveId(w))
    /\ \A n \in Watchers : WF_vars(Start(n)) /\ WF_vars(DisposalTimeout(n))

-------------------------------------------------------------------------------
(***************************************************************************)
(* Properties.                                                             *)
(***************************************************************************)
HandlesOf(n, c) == {w \in Watches : watcherOf[w] = n /\ ClientOf[w] = c}

\* A watcher counts for each client exactly the watcherIds the service has given
\* it: no reference is lost or removed twice, however requests and releases of
\* several clients interleave (removeRef's warning "removed one too many
\* reference" is never printed).
ReferencesMatchHandles ==
    \A n \in Watchers \ disposed : \A c \in Clients :
        refsPerClient[n][c] = Cardinality(HandlesOf(n, c))

\* The service's watcher is the only one in use, and its disposal timer runs
\* exactly while nobody refers to it: a watcher that was revived is not disposed
\* of under its new clients, and one that is not used does not stay.
TimerRunsWhileUnused ==
    \A n \in 1 .. made : n \notin disposed => n = current /\ (n \in timers <=> ~InUse(n))

\* A client that holds a watcherId is being served under it, or has been told
\* that watching failed: neither a timer nor another client's release takes the
\* watcher away from it.
HeldWatchIsServed ==
    \A w \in Watches :
        (handle[w] = "open" /\ answer[w] \in {"answered", "known"})
            => watcherOf[w] # NoWatcher \/ ClientOf[w] \in notified

\* A watch that is given up is released in the watcher process in the end, also
\* if it was given up before its watcherId was known or by a client whose
\* connection is gone ("Can be disposed early (before the watcher is
\* allocated.)", disk-file-system-provider.ts:815).
DisposedWatchIsReleased ==
    \A w \in Watches :
        handle[w] = "disposed" ~> (answer[w] = "known" /\ watcherOf[w] = NoWatcher)

\* A watcher that stays without references is disposed of, and with it its
\* native subscription if it had started.
UnusedWatcherIsReleased ==
    \A n \in Watchers :
        (n <= made /\ ~InUse(n)) ~> (InUse(n) \/ (n \in disposed /\ (n \in native => phase[n] # "started")))

\* "The watcher could be disposed while it was starting, make sure to check for
\* this" (parcel-filesystem-service.ts:225): a start that was given up leaves no
\* native subscription behind.
AbortedStartIsUndone == \A n \in Watchers : phase[n] = "aborted" => n \notin native

===============================================================================
