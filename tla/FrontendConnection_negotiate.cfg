SPECIFICATION FairSpec

CONSTANTS
    MaxSessions = 7
    MaxBreaks = 2
    MaxReloads = 1
    MaxWrites <- OneWriteInSome
    BufferCapacity = 2
    Configurations <- AllConfigurations
    LateDisconnect = FALSE

INVARIANT TypeOK
INVARIANT SettledFrontEndIsServed
INVARIANT CloseConnectionHasConnection
INVARIANT MessagesAreDeliveredOnceInTheirContext
PROPERTY ConnectedContextIsKept
PROPERTY MarkClosesItsOwnContext
PROPERTY ChannelPromiseIsKept
PROPERTY FrontEndSettlesOrIsStranded
PROPERTY AbandonedContextIsDiscarded

\* The system may stop: a closed page never connects again, and the bounds on
\* breaks, reloads and writes end every behaviour.
CHECK_DEADLOCK FALSE
