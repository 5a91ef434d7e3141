CONSTANTS
    Engines <- MCEngines
    Profiles = {"anytls", "tuic"}
    Ports = {1, 2}
    Users = {u1}
    Installed = {"singbox", "mihomo"}
    Dialable <- MCDialable
    Refusable = {"tuic"}
    Loop = loop
    Handlers = {h1}
    Procs = {p1, p2, p3}
    None = None
    Overlap = FALSE
    MaxChanges = 1
    MaxFaults = 1
SPECIFICATION FairSpec
INVARIANT NoEngineAfterShutdown
PROPERTIES PublishesListening Converges
