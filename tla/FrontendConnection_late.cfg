SPECIFICATION Spec

CONSTANTS
    MaxSessions = 5
    MaxBreaks = 2
    MaxReloads = 0
    MaxWrites <- NoWrites
    BufferCapacity = 2
    Configurations <- Browser
    LateDisconnect = TRUE

PROPERTY ConnectedContextIsKept

\* The system may stop: a closed page never connects again, and the bounds on
\* breaks, reloads and writes end every behaviour.
CHECK_DEADLOCK FALSE
