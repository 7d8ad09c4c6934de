\* Main and two workers on three locks: cycles of two and of three threads.
CONSTANTS
    main = main
    w1 = w1
    w2 = w2
    l1 = l1
    l2 = l2
    l3 = l3
    Threads  = {main, w1, w2}
    Locks    = {l1, l2, l3}
    Sites    = {"poolWait"}
    NoThread = NoThread
    NoLock   = NoLock
    Main     = main
    MaxHops  = 3
INIT Init
NEXT Next
CHECK_DEADLOCK FALSE
SYMMETRY Symmetry
INVARIANTS
    CycleIsDeadlock
    CyclesAreFound
    ReportIsSound
