\* Two threads on one lock, one park site, a dwell of two polls.
CONSTANTS
    Threads  = {"t1", "t2"}
    Locks    = {"lock"}
    Sites    = {"poolWait"}
    NoThread = NoThread
    NoLock   = NoLock
    DwellPolls = 2
    Code     = Code
SPECIFICATION Spec
CHECK_DEADLOCK FALSE
INVARIANT
    QuietUntilDataLoaded
PROPERTIES
    ActsOnLeaksOnly
    LeaksAreConfirmed
