SPECIFICATION Spec
CONSTANTS
    Blocks = {b1, b2}
    MaxRefs = 2
    SbInterval = 1
    MaxTxns = 2
    MaxCrashes = 2
    FaultSets = {{}}
INVARIANT AtomicAfterMount
CHECK_DEADLOCK FALSE
