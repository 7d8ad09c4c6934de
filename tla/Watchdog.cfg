\* A stall is a gap of two units and a window hangs after two; two snapshots
\* are two units apart, so that a stall in the cooldown is reported in the
\* instance's time.
CONSTANTS
    Threshold = 1
    Cooldown  = 2
    HungAfter = 1
    Annotates = TRUE
    MaxTime   = 5
SPECIFICATION Spec
INVARIANTS
    TypeOK
    LatchesExclusive
    WarnedBeforeSnapshot
    CapturesAreStale
PROPERTIES
    SnapshotsSpaced
    ResolvedMeansBeaten
    StallsReported
    FreezesClosed
