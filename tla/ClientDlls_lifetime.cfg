SPECIFICATION Spec
CONSTANTS
    k1 = k1
    Missing = Missing  Nobody = Nobody  Apply = Apply
    Key <- MCOneKey
    Source <- MCSource
    Original <- MCOriginal
    Launch = {native}
    Gate = {lutris}
    MaxWrites = 2
    MaxFaults = 1
INVARIANTS TypeOK ManifestNamesBackup KeptUnlessStale DoneIsTrue LaunchSeesDeclared
