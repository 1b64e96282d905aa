SPECIFICATION FairSpec
CONSTANTS
    a = a
    b = b
    f = f
    g = g
    var = var
    entry = entry
    Null = Null
    t1 = t1
    t2 = t2
    VMs = {a, b}
    Functions = {f, g}
    Threads = {t1}
    WatchSets = {var, entry}
    Values <- MCValues
    VMOf <- MCVMOf
    DependsOn <- MCDependsOn
    Kind <- MCKind
    MaxPlans = 2
INVARIANTS
    WorklistConsistent
    NoStaleSpeculation
    QuietWhenDiscarding
PROPERTIES
    WaitersReleased
CHECK_DEADLOCK FALSE
