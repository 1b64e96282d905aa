SPECIFICATION FairSpec
CONSTANTS
    marked = marked
    fourKB = fourKB
    main = main
    gc = gc
    Regions = {1, 2, 3}
    RegionSets = {marked, fourKB}
    TotalBlocks <- MCTotalBlocks
    Clients = {main, gc}
    MainClient = main
    Custom = Custom
    Null = Null
INVARIANT RegionsConsistent
PROPERTY EmptyRegionsReleased
PROPERTY DestructionEnds
