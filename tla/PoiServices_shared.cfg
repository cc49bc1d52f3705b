\* Fetches: three callers of one answer, two of them in one process, with a retry and a
\* budget of two requests, so that a lease runs out under its owner while a third caller
\* comes.  Searches: two queries of two categories for two workers, listings within, at
\* and beyond what pages, tiles, requests and the provider's limit let through.
CONSTANTS
    c1 = c1
    c2 = c2
    c3 = c3
    p1 = p1
    p2 = p2
    Callers = {c1, c2, c3}
    Processes = {p1, p2}
    Home <- MCHome
    Keys = {k1}
    None = None
    Lease = 1
    Patience = 1
    Cooldown = 1
    Ttl = 1
    Gap = 1
    Retries = 1
    Budget = 2
    q1 = q1
    q2 = q2
    schools = schools
    clinics = clinics
    Queries = {q1, q2}
    Categories = {schools, clinics}
    CategoryOf <- MCCategoryOf
    Faulty = {q1}
    Workers = {w1, w2}
    Sizes = {0, 3, 6}
    OldSize = 1
    PageSize = 2
    ProviderLimit = 4
    PageLimits = {1, 2}
    MaxTiles = 1
    MaxRequests = 2
    NoQuery = NoQuery
SPECIFICATION Spec
SYMMETRY Symmetry
CHECK_DEADLOCK FALSE
INVARIANTS
    SingleFlight
    SearchSound
PROPERTIES
    ProviderSpared
