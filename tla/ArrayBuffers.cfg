SPECIFICATION Spec
CONSTANTS
    c1 = c1
    c2 = c2
    c3 = c3
    b1 = b1
    s1 = s1
    s2 = s2
    NULL = NULL
    Cells <- MCCells
    Buffers <- MCBuffers
    Storages <- MCStorages
    MaxRefs = 1
SYMMETRY Symmetry
INVARIANTS
    StorageOwnedOnce
    BuffersKept
    ViewsCoherent
    FoldedConstantsCurrent
