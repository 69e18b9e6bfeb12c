SPECIFICATION FairSpec

CONSTANTS
    workspace = workspace
    unknown = unknown
    c1 = c1
    c2 = c2
    c3 = c3
    Paths <- TwoPaths
    Handled <- OneHandled
    Calls <- ThreeCalls
    PathOf <- PathOfCall
    MaxChannels = 3
    MaxLosses = 1

INVARIANT TypeOK
INVARIANT ProxyFollowsConnection
INVARIANT EachPathIsOpenedOnce
PROPERTY PathsReconnect
PROPERTY CallsSettle

\* When every call is made and answered nothing happens any more.
CHECK_DEADLOCK FALSE
