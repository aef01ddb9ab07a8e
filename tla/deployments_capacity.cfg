\* Three names in one namespace, a limit of one and two requests at a time: the
\* third row is the one that must not be admitted.
SPECIFICATION DSpec
CONSTANTS
    Instances = {i1}
    Workers = {w1}
    None = None
    Faults = {}
    Clients = {c1, c2}
    Deployments = {d1, d2, d3}
    web = web
    Keys = {api, job, cron}
    Namespace <- MCNamespace
    Default = "default"
    MaxDeployments = 1
SYMMETRY Symmetry
INVARIANTS CapacityOverrunBounded
CHECK_DEADLOCK FALSE
