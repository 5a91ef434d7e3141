CONSTANTS
    ali = ali
    sara = sara
    proxy = proxy
    relay = relay
    edge = edge
    Callers = {ali, sara}
    Proxies = {proxy}
    Relays = {relay}
    Edges = {edge}
    None = None
    Handlers = {h1, h2}
    Routes <- MCRoutes
    Claims <- MCClaims
    Limit = 2
    Window = 2
    MaxKeys = 1
    MaxTime = 2
    MaxCalls = 4
    MaxSaves = 1
    MaxCrashes = 1
SPECIFICATION Spec
SYMMETRY Sym
INVARIANTS TriesBounded KeyIsNearest MapBounded
CHECK_DEADLOCK FALSE
