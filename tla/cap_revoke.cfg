SPECIFICATION Spec
CONSTANTS
    p1 = p1
    p2 = p2
    Pids = {p1, p2}
    Capacity = 3
    CascadeMax = 2
    MaxObjects = 3
    RightSets = {{"DERIVE", "REVOKE", "USE"}, {"DERIVE"}}
    Audiences = {{}}
    FlagSets = {{"EAGER_REVOKE", "PUBLIC"}, {"INHERITABLE", "RECURSIVE_INHERIT"}}
    Destroyed = {}
    PUBLIC = PUBLIC
SYMMETRY PidSymmetry
INVARIANT AuthorityShrinks
 
INVARIANT OrphansRevoked
CHECK_DEADLOCK FALSE
