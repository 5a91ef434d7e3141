CONSTANTS
    Monitor = monitor
    Handlers = {h1}
    Threads = {t1}
    us = us
    ca = ca
    a1 = a1
    a2 = a2
    a3 = a3
    Countries = {us, ca}
    Addrs = {a1, a2, a3}
    CountryOf <- MCCountryOf
    Offers <- MCOffers
    Packs <- MCPacks
    Stored <- MCStored
    Long = {}
    Seeds = {a3}
    None = None
    Failed = Failed
    Limit = 2
    MaxSuffix = 2
    MaxEdits = 2
    MaxFailures = 1
SPECIFICATION FairSpec
INVARIANTS TypeOK  PackWhole
PROPERTIES AlignKeepsPins FlagsAgree
