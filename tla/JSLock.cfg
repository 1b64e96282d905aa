CONSTANTS
    t1 = t1
    t2 = t2
    t3 = t3
    Threads = {t1, t2, t3}
    NoThread = NoThread
    DropTags = {"DontAlwaysDropLocks"}
    MaxScopes = 4
    StackSize = 3
SPECIFICATION Spec
SYMMETRY ThreadSymmetry
INVARIANTS
    LocksMatchScopes
    NoSelfDeadlock
    StackIntact
