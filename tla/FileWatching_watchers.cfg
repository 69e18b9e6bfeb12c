SPECIFICATION FairSpec

CONSTANTS
    left = left
    right = right
    w1 = w1
    w2 = w2
    w3 = w3
    Clients <- TwoClients
    Watches <- ThreeWatches
    ClientOf <- TwoAndOne
    MaxWatchers = 3
    MaxErrors = 1

INVARIANT TypeOK
INVARIANT ReferencesMatchHandles
INVARIANT TimerRunsWhileUnused
INVARIANT HeldWatchIsServed
PROPERTY DisposedWatchIsReleased
PROPERTY UnusedWatcherIsReleased

\* Every watch is made once; when all are released nothing happens any more.
CHECK_DEADLOCK FALSE
