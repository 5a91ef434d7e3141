CONSTANTS
    Loop = loop
    Handlers = {h1}
    Procs = {p1, p2, p3, p4}
    None = None
    Overlap = FALSE
    MaxChanges = 2
    MaxFaults = 1
SPECIFICATION FairSpec
INVARIANT TypeOK
PROPERTIES CleanBoot RotationRevokes Converges
