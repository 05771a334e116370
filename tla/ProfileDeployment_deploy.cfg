SPECIFICATION FairSpec
CONSTANTS
    main = main  second = second  inFolder = inFolder  other = other  top = top  folder = folder
    NoProfile = NoProfile  NoTree = NoTree  Gone = Gone
    Profile = {main, second}
    NMod = 2
    File = {inFolder, top}
    FolderOf <- MCFolderOf
    Provides <- MCProvides
    Cosmetic = {1, 2}
    Edited = {main}
    MaxFaults = 1
INVARIANTS TypeOK GameShowsProfile PointKept
PROPERTY DeployRecovers
