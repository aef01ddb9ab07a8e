\* Two rows and two clients at work in the default namespace (web) and a shared one
\* (api, job), while the instance comes and goes.
SPECIFICATION DSpec
CONSTANTS
    Instances = {i1}
    Workers = {w1}
    None = None
    Faults = {"db", "crash"}
    Clients = {c1, c2}
    Deployments = {d1, d2}
    web = web
    Keys = {web, api, job}
    Namespace <- MCNamespace
    Default = "default"
    MaxDeployments = 1
SYMMETRY Symmetry
INVARIANTS DTypeOK HolderUnique RunningIsBacked WorkloadAccounted
CHECK_DEADLOCK FALSE
