SPECIFICATION FairSpec
CONSTANTS
    i1 = i1
    i2 = i2
    g1 = g1
    g2 = g2
    l1 = l1
    Foreign = Foreign
    None = None
    Instance = {i1}
    Game = {g1}
    Launcher = {l1}
    Owner <- MCAlone
    Slug <- MCSlug
    SlugOf <- MCApart
    Settings <- MCSettings
    Touched = {"octo"}
    Reselect = {TRUE, FALSE}
    Newest = 2
    MaxChanges = 1
    MaxFaults = 1
INVARIANT TypeOK
PROPERTIES GamesRegister RepeatIsNoOp
CHECK_DEADLOCK FALSE
