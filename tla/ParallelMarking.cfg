CONSTANTS
    a = a
    b = b
    c = c
    d = d
    e = e
    f = f
    r = r
    s = s
    g1 = g1
    g2 = g2
    main = main
    MainThread = main
    GCThreads = {g1, g2}
    Cells = {a, b, c, d, e, f}
    OpaqueRoots = {r, s}
    Heaps <- MCHeaps
    MergeThreshold = 1
SPECIFICATION FairMarkSpec
INVARIANTS
    ExactlyLiveCellsMarked
    WeakPhaseIsExclusive
    LiveKeyCountExact
    QuiescentBetweenPhases
PROPERTIES
    MarkingEnds
    DestructionCompletes
