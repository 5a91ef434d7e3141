CONSTANTS
    Caps = {1, 2}
    Always = {1}
    Passers = {p1}
    Updaters = {w1}
    Boot = boot
    Users = {u1, u2}
    None = None
    Http = http
    MaxProxies = 2
    MaxFaults = 1
    MaxEdits = 2
    MaxStops = 1
SPECIFICATION Spec
INVARIANTS OneProxyPerPort EdgeServes UpdateIsVerified
CHECK_DEADLOCK FALSE
