SPECIFICATION Spec

CONSTANTS
    first = first
    second = second
    Ids <- OneId
    Openers <- BothOpen
    MaxOpens = 2
    MaxInFlight = 2
    LateUse = FALSE

INVARIANT NoOrphanedChannel

\* The main channel may close on both sides: then nothing happens any more.
CHECK_DEADLOCK FALSE
