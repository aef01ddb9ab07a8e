\* Three rows, three clients and three names, two of which are one name on the hub;
\* lost answers and cut requests.
SPECIFICATION GSpec
CONSTANTS
    Clients = {c1, c2, c3}
    Registries = {r1, r2, r3}
    api = api
    Api = Api
    Names = {api, Api, web}
    Slug <- MCSlug
    None = None
    Faults = {"lost", "cut"}
SYMMETRY Symmetry
INVARIANTS GTypeOK RegistryExists RepositoryListed
CHECK_DEADLOCK FALSE
