SPECIFICATION FairSpec

CONSTANTS
    MaxMessages = 2
    MaxFailures = 0
    Quota <- TwoAndOne
    Mode <- ClientAndServer
    Reentrant = FALSE
    SendAfterClose = FALSE

PROPERTY EveryRequestSettles
PROPERTY CancellationReachesHandler

\* A channel that is closed at both ends carries nothing any more.
CHECK_DEADLOCK FALSE
