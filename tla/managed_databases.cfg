\* One instance with its teardown, two requests at a time; one database fills the
\* capacity and a second one admitted together with it overruns it.
SPECIFICATION MDSpec
CONSTANTS
    Instances = {i1}
    Workers = {w1}
    None = None
    Faults = {"db", "crash"}
    Clients = {c1, c2}
    Databases = {d1, d2, d3}
    Names = {n1, n2, n3}
    MinSize = 2
    MaxSize = 2
    Capacity = 2
SYMMETRY Symmetry
INVARIANTS MDTypeOK NamesUnique OverrunBounded Backed
PROPERTIES OnlyItsOwnTeardown
CHECK_DEADLOCK FALSE
