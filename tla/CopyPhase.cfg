CONSTANTS
    g1 = g1
    main = main
    p = p
    q = q
    None = None
    MainThread = main
    GCThreads = {g1}
    Objects = {p, q}
    Blocks = {1, 2, 3, 4, 5}
    Sizes = {2, 3, 5}
    Capacity = 4
    EvacuationLimit = 3
    FragmentLength = 1
    MaxBlocks = 2
SPECIFICATION FairCopySpec
INVARIANTS
    StoresIntact
    SpaceConsistent
PROPERTIES
    CollectionEnds
