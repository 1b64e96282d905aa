CONSTANTS
    Null = Null
    Blocks = {1, 2}
    Kinds <- MCKinds
    CallbackDepth = 1
    Asserts = FALSE
SPECIFICATION Spec
INVARIANT
    AddBlockAsserts
