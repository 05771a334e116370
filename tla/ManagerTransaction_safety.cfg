SPECIFICATION Spec
CONSTANTS
    t1 = t1  t2 = t2  d1 = d1  root = root
    Missing = Missing  Nobody = Nobody  Bridge = Bridge
    Txn <- MCTwo
    Held = {t2}
    NPath = 2
    SeedPath = {2}
    Dir <- MCDirs
    Root = root
    ParentOf <- MCParentOf
    Image <- MCImage
    Regular <- MCRegular
    Want <- MCWant
    MaxWrites = 1
    MaxFaults = 1
    WithBridge = TRUE
CHECK_DEADLOCK FALSE
INVARIANTS TypeOK NothingLost NoStaleOverwrite
PROPERTIES NoMutationUnderSession
