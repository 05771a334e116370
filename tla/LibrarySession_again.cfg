SPECIFICATION FairSpec
CONSTANTS
    a = a  b = b
    Profile <- MCOneProfile
    NoProfile = NoProfile  NoSession = NoSession
    Empty = Empty  Mixed = Mixed  Nobody = Nobody  Cli = Cli
    MaxRuns = 2
    MaxSaves = 0
    MaxCrashes = 1
INVARIANTS GameOwned
PROPERTY LeaseReturned
CHECK_DEADLOCK FALSE
