\* Two threads, and an Add that may call out to id 19369 before it inserts: a
\* drain runs inside a drain with calls left in the outer one.
CONSTANTS
    Threads   = {t1, t2}
    Actors    = {a1}
    NoProcess = {}
    NoThread  = NoThread
    NoActor   = NoActor
    MaxDepth  = 2
    MaxQueued = 3
    Reentrant = TRUE
INIT Init
NEXT Next
SYMMETRY Symmetry
INVARIANTS
    TypeOK
    NoLockBUnderLockA
    NothingStranded
    FlagFollowsList
