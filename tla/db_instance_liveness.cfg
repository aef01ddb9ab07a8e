\* No faults: what fairness of the goroutines alone guarantees.
SPECIFICATION FairSpec
CONSTANTS
    Instances = {i1, i2}
    Workers = {w1, w2}
    None = None
    Faults = {}
INVARIANTS Driven
PROPERTIES ProvisioningEnds DeletingEnds ContainerReported FreedIfInsisted
CHECK_DEADLOCK FALSE
