SPECIFICATION Spec
CONSTANTS
    t1 = t1
    t2 = t2
    NONE = NONE
    Threads <- MCThreads
    NumPages = 2
    kMaxPages = 2
    kNumClasses = 3
    ByteSizeForClass <- MCByteSize
    class_to_pages <- MCClassPages
    num_objects_to_move <- MCMove
    kMaxFreeListLength = 1
    per_thread_cache_size = 7
    kPageSize = 4
    kCacheSlots = 1
    LargeSizes <- MCLarge
    MaxHeld = 1
SYMMETRY Symmetry
INVARIANT SpansConsistent
INVARIANT BlocksIntact
INVARIANT ObjectsConserved
INVARIANT SlotsShared
INVARIANT NoLockCycle
