\* Two lists, jobs that pause, chains that cannot be read now and then.
CONSTANTS
    Idx          = {i1, i2}
    NoIdx        = NoIdx
    Dwell        = 1
    Recheck      = 1
    DetectOnly   = FALSE
    Faults       = TRUE
    JobsProgress = FALSE
    MaxDepth     = 1
    MaxEpisodes  = 2
SPECIFICATION Spec
INVARIANT
    ActsOnOneWait
PROPERTY
    LostWakeupEnds
