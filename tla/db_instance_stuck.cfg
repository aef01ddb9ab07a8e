\* Only the goroutine's own timeout can go wrong.
SPECIFICATION FairSpec
CONSTANTS
    Instances = {i1}
    Workers = {w1}
    None = None
    Faults = {"timeout"}
PROPERTIES ProvisioningEnds
CHECK_DEADLOCK FALSE
