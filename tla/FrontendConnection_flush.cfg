SPECIFICATION Spec

CONSTANTS
    MaxSessions = 3
    MaxBreaks = 1
    MaxReloads = 0
    MaxWrites <- TwoWrites
    BufferCapacity = 2
    Configurations <- Browser
    LateDisconnect = FALSE

INVARIANT BufferedMessagesAreRead

\* The system may stop: a closed page never connects again, and the bounds on
\* breaks, reloads and writes end every behaviour.
CHECK_DEADLOCK FALSE
