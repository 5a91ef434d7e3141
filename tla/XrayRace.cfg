CONSTANTS
    Loop = loop
    Handlers = {h1}
    Users = {u1}
    Procs = {p1, p2, p3}
    Ciphers <- OneCipher
    Offered = {}
    Stored = {{}}
    Builds = {{}, {"ss1"}}
    None = None
    Overlap = TRUE
    MaxChanges = 1
    MaxCrashes = 0
SPECIFICATION FairSpec
PROPERTY EveryCallReturns
