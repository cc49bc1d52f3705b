\* The runtime: one permit for two analyses, and two health checks.  The subprocess
\* transport: one computation or health check, cancelled twice.  Both under fairness.
CONSTANTS
    Layers = {"runtime", "subprocess"}
    a1 = a1
    a2 = a2
    h1 = h1
    h2 = h2
    Admitted = {a1, a2}
    Calls = {a1, a2}
    Capacity = 1
    Checkers = {h1, h2}
    NoProbe = NoProbe
    p1 = p1
    Invocations = {p1}
    MaxCancels = 2
    RpcCalls = {k1, k2}
    Graphs = {g1, g2}
    None = None
    Torn = Torn
    GateCapacity = 1
    MaxExports = 1
    MaxServices = 2
    MaxApps = 1
SPECIFICATION LayersSpec
CHECK_DEADLOCK FALSE
INVARIANTS
    ProcessesOwned
PROPERTIES
    InvocationEnds
    NobodyLeftWaiting
