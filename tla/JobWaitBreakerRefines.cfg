\* Jobs that progress, nested waits on one list: a wait that never outlives its job nor ends
\* before it.
CONSTANTS
    Idx          = {i1}
    NoIdx        = NoIdx
    Dwell        = 1
    Recheck      = 1
    DetectOnly   = FALSE
    Faults       = FALSE
    JobsProgress = TRUE
    MaxDepth     = 2
    MaxEpisodes  = 3
SPECIFICATION Spec
PROPERTIES
    NoLiveJobIsStuck
    ImplementsDependableWait
