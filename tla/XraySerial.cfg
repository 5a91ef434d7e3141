CONSTANTS
    Loop = loop
    Handlers = {h1}
    Users = {u1, u2}
    Procs = {p1, p2}
    Ciphers <- OneCipher
    Offered <- Everything
    Stored = {{"warp", "direct", "adv", "tg"}, {"adv", "tg"}}
    Builds = {{"adv"}, {"core"}}
    None = None
    Overlap = FALSE
    MaxChanges = 2
    MaxCrashes = 1
SPECIFICATION FairSpec
INVARIANTS PublishedExists PlainRealitySurvives NoEngineAfterShutdown
PROPERTIES KeysStable NoSpuriousRestart DisabledRevoked RotationRevokes
