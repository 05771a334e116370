SPECIFICATION Spec
CONSTANTS
    main = main  second = second  inFolder = inFolder  other = other  top = top  folder = folder
    NoProfile = NoProfile  NoTree = NoTree  Gone = Gone
    Profile = {main}
    NMod = 2
    File = {inFolder, other, top}
    FolderOf <- MCFolderOf
    Provides <- MCProvides
    Cosmetic = {1, 2}
    Edited = {main}
    MaxFaults = 0
INVARIANT GuiDeployShows
