SPECIFICATION TunnelSpec
CONSTANTS
    Kinds <- MCKinds
    MaxSent = 2
INVARIANTS
    Faithful
PROPERTIES
    ClientReleases
    EngineReleases
CHECK_DEADLOCK FALSE
