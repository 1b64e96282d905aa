CONSTANTS
    Cells = {c1, c2}
    WeakBlocks = {w1, w2}
    ImplCount = 2
    Slots = {s1, s2}
    Null = Null
SYMMETRY Symmetry
SPECIFICATION Spec
INVARIANTS
    NoDeadCellSeen
    FinalizedBeforeFreed
    HandlesCoherent
