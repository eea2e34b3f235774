SPECIFICATION Spec
CONSTANTS
    o1 = o1
    o2 = o2
    Objects = {o1, o2}
    NONE = NONE
    InitialCap = 2
    MaxCap = 5
    MaxInserts = 7
    Failures = {"init", "late"}
SYMMETRY ObjectSymmetry
INVARIANT NoSlotLost
INVARIANT HandlesUnique
PROPERTY NoOverwrite
CHECK_DEADLOCK FALSE
