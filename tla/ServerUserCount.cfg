SPECIFICATION Spec
CONSTANTS
    Fds = {1}
    Clients = {c1}
    Workers = {w1}
    Timers = {a}
    None = None
    MAX_FD = 2
    Lifetime = 1
    ListenET = FALSE
    Configs <- OnlyProactor
INVARIANT UserCountExact
