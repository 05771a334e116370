SPECIFICATION Spec
CONSTANTS
    i1 = i1
    i2 = i2
    g1 = g1
    g2 = g2
    l1 = l1
    Foreign = Foreign
    None = None
    Instance = {i1, i2}
    Game = {g1, g2}
    Launcher = {}
    Owner <- MCRivals
    Slug <- MCOneSlug
    SlugOf <- MCSame
    Settings = {}
    Touched = {"octo"}
    Reselect = {FALSE}
    Newest = 1
    MaxChanges = 1
    MaxFaults = 1
INVARIANTS DoneAgrees
PROPERTIES TakenByAdoption YmlRetained
CHECK_DEADLOCK FALSE
