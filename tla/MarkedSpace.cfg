CONSTANTS
    Null = Null
    Blocks = {1, 2}
    Kinds <- MCKinds
    CallbackDepth = 1
    Asserts = TRUE
SPECIFICATION Spec
INVARIANTS
    ReachableIntact
    DestructorsRight
    BlocksCoherent
