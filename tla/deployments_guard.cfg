\* One POST /deployments and one DELETE /deployment-instance, nothing fails.
SPECIFICATION DSpec
CONSTANTS
    Instances = {i1}
    Workers = {w1}
    None = None
    Faults = {}
    Clients = {c1}
    Deployments = {d1}
    web = web
    Keys = {web}
    Namespace <- MCNamespace
    Default = "default"
    MaxDeployments = 1
INVARIANTS GuardHolds
CHECK_DEADLOCK FALSE
