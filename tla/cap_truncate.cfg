SPECIFICATION Spec
CONSTANTS
    p1 = p1
    Pids = {p1}
    Capacity = 4
    CascadeMax = 2
    MaxObjects = 4
    RightSets = {{"DERIVE", "REVOKE", "USE"}}
    Audiences = {{PUBLIC}}
    FlagSets = {{"EAGER_REVOKE"}}
    Destroyed = {"root", "child"}
    PUBLIC = PUBLIC
INVARIANT CascadeComplete
CHECK_DEADLOCK FALSE
