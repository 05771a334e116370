SPECIFICATION Spec
CONSTANTS
    a = a  b = b
    Profile <- MCProfile
    NoProfile = NoProfile  NoSession = NoSession
    Empty = Empty  Mixed = Mixed  Nobody = Nobody  Cli = Cli
    MaxRuns = 1
    MaxSaves = 2
    MaxCrashes = 3
INVARIANTS TypeOK ProgressKept VaultPure GamePrepared DeploymentOwed
    RecoveryRestores
CHECK_DEADLOCK FALSE
SYMMETRY MCSymmetry
