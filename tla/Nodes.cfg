CONSTANTS
    Sources = {s1}
    Default = default
    Countries = {c1, c2}
    Addresses = {a1, a2}
    Home <- HomeCountry
    Seeded <- BothAddresses
    MaxNodes = 2
    Loop = loop
    Threads = {t1}
    None = None
    Overlap = FALSE
    MaxChanges = 2
    MaxScans = 1
    MaxPings = 1
    MaxCrashes = 1
SPECIFICATION FairSpec
INVARIANT PublishedIsPicked
PROPERTY Settles
