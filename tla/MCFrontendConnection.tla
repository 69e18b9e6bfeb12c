------------------------ MODULE MCFrontendConnection ------------------------
(***************************************************************************)
(* Instances of FrontendConnection for TLC.  The bounds are in the .cfg    *)
(* files; MaxSessions leaves room for every reconnect the breaks and       *)
(* reloads can cause: one socket for the break itself and one more when    *)
(* the reconnect is refused.                                               *)
(***************************************************************************)
EXTENDS FrontendConnection

\* A browser application with a grace period and quick validators.
BrowserApplication == [connectionTimeout |-> "finite", reloadOnReconnect |-> FALSE,
                       sameIdOnReload |-> FALSE, slowValidators |-> FALSE]

\* An Electron application with a grace period, and the same with slow validators.
ElectronApplication == [BrowserApplication EXCEPT !.sameIdOnReload = TRUE]
SlowElectronApplication == [ElectronApplication EXCEPT !.slowValidators = TRUE]

\* Every combination a product may configure with quick validators, and slow
\* ones where the front end id outlives the page.
AllConfigurations == {c \in Configuration : ~c.slowValidators} \cup {SlowElectronApplication}

Browser == {BrowserApplication}

\* Messages travel where they can do most harm: where a context outlives its
\* socket, with and without a window whose next page has the same front end id.
OneWriteInSome ==
    [c \in AllConfigurations |-> IF c \in {BrowserApplication, ElectronApplication} THEN 1 ELSE 0]

TwoWrites == [c \in Browser |-> 2]
NoWrites == [c \in Browser |-> 0]

ASSUME EnoughSessions == MaxSessions > 2 * (MaxBreaks + MaxReloads)

=============================================================================
