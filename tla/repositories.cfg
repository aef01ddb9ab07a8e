\* Two rows, three clients; api and web under two portal owners, all one owner and
\* one name on GitHub; renamed, archived, or put back to pending or active by a PUT;
\* lost answers and cut requests.
SPECIFICATION RSpec
CONSTANTS
    Clients = {c1, c2, c3}
    Repos = {r1, r2}
    acme = acme
    alice = alice
    api = api
    web = web
    Owners = {acme, alice}
    Names = {api, web}
    Wanted = {api, web}
    Login <- MCLogin
    Slug <- MCSlug
    Edits = {"pending", "active", "archived"}
    None = None
    Faults = {"lost", "cut"}
SYMMETRY Symmetry
INVARIANTS RTypeOK RecordedExists RepositoryRecorded NamesakesAreRenamed UnfinishedIsWorkedOn
CHECK_DEADLOCK FALSE
