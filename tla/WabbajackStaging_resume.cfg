SPECIFICATION Spec
CONSTANTS
    plugin = plugin  texture = texture  part = part  ini = ini  mesh = mesh  bsa = bsa
    Missing = Missing  Torn = Torn
    List <- MCTwo
    Plain <- MCPlain
    Patched <- MCPatched
    Inline <- MCInlineTwo
    Bsa <- MCBsa
    Parts <- MCParts
    From <- MCFrom
    Eligible <- MCEligibleTwo
    Option <- MCEvery
    HardLinks = TRUE
    MaxRuns = 2
    MaxCrashes = 1
    MaxFaults = 1
CHECK_DEADLOCK FALSE
INVARIANTS TypeOK PatchedNeverTorn HashedAreRight ResetInstalls
