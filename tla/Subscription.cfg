CONSTANTS
    Nodes = {1, 2, 3}
    Origin = 2
    Location <- MCLocation
    Countries = {"de", "us"}
    Caps = {0, 2}
    Pings <- MCPings
    Requests <- Smart
    Users <- MCUsers
    Catalogs <- MCCatalogs
    Null = Null
    MaxChanges = 1
SPECIFICATION SubscriptionSpec
INVARIANTS TypeOK OnlyPublished ScopeHonoured FastestFirstAndWhole
