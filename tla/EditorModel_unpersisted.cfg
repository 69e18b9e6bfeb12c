SPECIFICATION Spec

CONSTANTS
    MaxEdits = 2
    MaxForeign = 0
    MaxSaves = 1
    MaxReverts = 0
    MaxFailures = 0

INVARIANT CleanIsPersisted

\* When everything is saved and nobody edits nothing happens any more.
CHECK_DEADLOCK FALSE
