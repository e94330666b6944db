SPECIFICATION Spec
CONSTANTS
    Fds = {1, 2}
    Clients = {c1, c2, c3}
    Workers = {w1}
    Timers = {a, b, c}
    None = None
    MAX_FD = 2
    Lifetime = 1
    ListenET = TRUE
    Configs <- AllConfigs
SYMMETRY Symmetric
INVARIANTS NoDanglingTimer OpenHasTimer
