CONSTANTS
    s1 = s1
    s2 = s2
    NPages = 2
    Stack = 1
    Frames = {f1, f2, f3, f4}
    Values = {x, y}
    Snaps = {s1, s2}
    Owner <- MCOwner
    NONE = NONE
    RefMax = 255
    TrackerMax = 3
SPECIFICATION Spec
SYMMETRY FrameSymmetry
CHECK_DEADLOCK FALSE
INVARIANTS  CapturesIntact  
PROPERTY RestoreBringsBack
