\* All faults; two rows compete for the slot, three requests overlap.
SPECIFICATION Spec
CONSTANTS
    Instances = {i1, i2}
    Workers = {w1, w2, w3}
    None = None
    Faults = {"db", "timeout", "crash"}
SYMMETRY Symmetry
INVARIANTS TypeOK AtMostOneLive Recoverable RunningIsUp ApplyIsAlone
PROPERTIES DeletedIsFinal ImplementsSlot
CHECK_DEADLOCK FALSE
