SPECIFICATION Spec

CONSTANTS
    MaxMessages = 2
    MaxFailures = 2
    Quota <- LeftSendsTwo
    Mode <- BothDefault
    Reentrant = TRUE
    SendAfterClose = TRUE

INVARIANT TypeOK
INVARIANT ReplyFindsRequest
INVARIANT NoListenerOutlivesRequest
INVARIANT NoSourceOutlivesHandler
INVARIANT PendingRequestIsServed
INVARIANT CancelFollowsRequest
PROPERTY RequestsAreReliableCalls

\* A channel that is closed at both ends carries nothing any more.
CHECK_DEADLOCK FALSE
