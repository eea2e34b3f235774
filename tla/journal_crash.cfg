SPECIFICATION Spec
CONSTANTS
    Blocks = {b1, b2}
    MaxRefs = 2
    SbInterval = 2
    MaxTxns = 3
    MaxCrashes = 2
    FaultSets = {{}, {"write", "flush", "read"}}
SYMMETRY BlockSymmetry
INVARIANT AtomicAfterFirstCrash
INVARIANT CommittedDurable
INVARIANT NothingMisplaced
PROPERTY NeverBackwards
CHECK_DEADLOCK FALSE
