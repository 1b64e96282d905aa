SPECIFICATION Spec
CONSTANTS
    main = main
    other = other
    NoThread = NoThread
    MainThread = main
    Threads <- MCThreads
    NewDelay <- MCNewDelay
    Limit = 1
    Lengths = {0, 1}
    Decade = 4
    MaxBytes = 2
    MaxFrames = 3
INVARIANTS
    TimerArmed
    VMOutlivesUsers
PROPERTY
    DeferralsRespected
CHECK_DEADLOCK FALSE
