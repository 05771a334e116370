SPECIFICATION FairSpec
CONSTANTS
    t1 = t1  t2 = t2  d1 = d1  root = root
    Missing = Missing  Nobody = Nobody  Bridge = Bridge
    Txn <- MCOne
    Held = {}
    NPath = 3
    SeedPath = {3}
    Dir <- MCDirs
    Root = root
    ParentOf <- MCParentThree
    Image <- MCImageTree
    Regular <- MCRegularTree
    Want <- MCWantThree
    MaxWrites = 2
    MaxFaults = 2
    WithBridge = FALSE
CHECK_DEADLOCK FALSE
INVARIANTS OriginalsOnDisk VerdictsTrue
PROPERTIES RetainsEverything LeaseReturned
