\* Two freezes, three seconds, the two newest reports kept.
CONSTANTS
    Keep       = 2
    Annotates  = TRUE
    MaxSeconds = 2
    MaxFreezes = 2
SPECIFICATION ReporterSpec
PROPERTY
    ResolutionMarksItsFreeze
