SPECIFICATION FairSpec
CONSTANTS
    N = 5
    Relations <- MCRelations
    MaxSteps = 5
    MaxRetries = 1
    MaxCrashes = 2
INVARIANTS TypeOK CulpritKept ReportedEndIsClean
PROPERTIES Converges NeverDeactivated
