\* Without re-entry: the order of replays, the queues of TempChangeList, and
\* progress.
CONSTANTS
    Threads   = {t1, t2}
    Actors    = {a1}
    NoProcess = {}
    NoThread  = NoThread
    NoActor   = NoActor
    MaxDepth  = 1
    MaxQueued = 2
    Reentrant = FALSE
SPECIFICATION Spec
PROPERTIES
    ReplayOrder
    EveryWaiterProceeds
    ImplementsTempChangeList
