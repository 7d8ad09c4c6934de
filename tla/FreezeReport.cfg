\* Two chain links, at most one thread in FSMP, one engine move in a report.
CONSTANTS
    LastLink  = 1
    MaxInside = 1
    MaxMoves  = 1
INIT MCInit
NEXT Next
CHECK_DEADLOCK FALSE
INVARIANTS
    ReportIsTrue
    FreezesAreNamed
    MatchIsLostAck
    SectionsAgree
