\* Both breakers armed; a read of Singleton-A may fault.
CONSTANTS
    Armed         = {"main", "render"}
    Dwell         = 1
    Recheck       = 1
    DetectOnly    = FALSE
    Faults        = TRUE
    Paced         = TRUE
    MaxDispatches = 2
SPECIFICATION Spec
INVARIANTS
    TypeOK
    MainNeverConfirmed
PROPERTIES
    ReturnsOnlyWhenOver
    StuckJoinReleases
