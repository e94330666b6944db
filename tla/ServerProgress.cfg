SPECIFICATION FairSpec
CONSTANTS
    Fds = {1, 2}
    Clients = {c1, c2}
    Workers = {w1}
    Timers = {a, b}
    None = None
    MAX_FD = 2
    Lifetime = 2
    ListenET = FALSE
    Configs <- AllConfigs
PROPERTIES IdleIsClosed AlarmKeepsComing
