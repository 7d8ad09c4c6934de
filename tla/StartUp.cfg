\* Every text section up to the number of spin sites, either load order, every
\* step failing. A load that is over leaves nothing to do.
CONSTANTS
    SpinCounts = {0, 9}
    UintRange  = 4
    RawPolls <- MCRawPolls
INIT Init
NEXT Next
CHECK_DEADLOCK FALSE
INVARIANTS
    InstallIsSafe
    PhaseFourIsWhole
    HookedIsProbed
    PresentReachesGame
