SPECIFICATION FairSpec

CONSTANTS
    MaxEdits = 1
    MaxForeign = 1
    MaxSaves = 2
    MaxReverts = 1
    MaxFailures = 1

INVARIANT TypeOK
INVARIANT VersionBelongsToText
INVARIANT DirtyHasChanges
PROPERTY ForeignChangesSurvive
PROPERTY CleanTextFollowsFile
PROPERTY OperationsFinish

\* When everything is saved and nobody edits nothing happens any more.
CHECK_DEADLOCK FALSE
