\* The runtime: two permits for three analyses and one direct call, so that a permit
\* can be free while a waiter already served has not been resumed; three checks, so
\* that one joins, one retires the probe and one waits for the retirement.
\* The RPC transport: two calls for one place of the service, two graphs, two starts
\* of the service and one of the application.
CONSTANTS
    Layers = {"runtime", "grpc"}
    a1 = a1
    a2 = a2
    a3 = a3
    d1 = d1
    h1 = h1
    h2 = h2
    h3 = h3
    Admitted = {a1, a2, a3}
    Calls = {a1, a2, a3, d1}
    Capacity = 2
    Checkers = {h1, h2, h3}
    NoProbe = NoProbe
    p1 = p1
    Invocations = {p1}
    MaxCancels = 2
    RpcCalls = {k1, k2}
    Graphs = {g1, g2}
    None = None
    Torn = Torn
    GateCapacity = 1
    MaxExports = 1
    MaxServices = 2
    MaxApps = 1
SPECIFICATION LayersSafety
SYMMETRY Symmetry
CHECK_DEADLOCK FALSE
INVARIANTS
    PermitsConsistent
    GateExact
    AnswersPrepared
PROPERTIES
    ProbeShared
