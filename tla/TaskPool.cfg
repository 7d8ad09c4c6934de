\* Three queues of which two are sampled, two entries, one other thread.
CONSTANTS
    None = None
    Queues  <- MCQueues
    Entries = {e1, e2}
    Handles = {h1, h2}
    Workers = {w1}
    MaxPoolMoves = 2
    MaxEntries = 2
    Period = 2
    TickWrap = 5
    MaxFrames = 3
INIT TaskPoolInit
NEXT TaskPoolNext
SYMMETRY MCSymmetry
CHECK_DEADLOCK FALSE
INVARIANTS
    BaselineIsSound
    FreezeIsAttributed
