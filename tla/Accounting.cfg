CONSTANTS
    Users = {u1}
    Quotas = {2}
    None = None
    MaxBytes = 4
    MaxWrites = 3
    MaxRestarts = 2
    MaxFaults = 1
SPECIFICATION Spec
INVARIANTS NeverOvercharged UsedAccounted SteadyStateExact OverQuotaBounded
PROPERTY DisableJustified
