SPECIFICATION FairSpec

CONSTANTS
    first = first
    second = second
    Ids <- TwoIds
    Openers <- EachOpensOne
    MaxOpens = 2
    MaxInFlight = 2
    LateUse = FALSE

INVARIANT TypeOK
INVARIANT DataMeetsItsChannel
INVARIANT EndsAgreeWhenQuiet
INVARIANT NoOrphanedChannel
PROPERTY OpenResolves

\* The main channel may close on both sides: then nothing happens any more.
CHECK_DEADLOCK FALSE
