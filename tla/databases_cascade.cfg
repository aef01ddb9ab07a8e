SPECIFICATION MDSpec
CONSTANTS
    Instances = {i1}
    Workers = {w1}
    None = None
    Faults = {}
    Clients = {c1, c2}
    Databases = {d1, d2, d3}
    Names = {n1}
    MinSize = 1
    MaxSize = 2
    Capacity = 3

INVARIANTS CascadeComplete
CHECK_DEADLOCK FALSE
