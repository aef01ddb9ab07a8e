\* Three callers on a clock that lets the token expire and be renewed twice.
SPECIFICATION TLiveSpec
CONSTANTS
    Callers = {a, b, c}
    TTL = 2
    Lifetime = 4
    Timeout = 1
    MaxTime = 8
    None = None
INVARIANTS ValidInFlight OneLoginWhenStale
PROPERTIES EveryCallerProceeds
CHECK_DEADLOCK FALSE
