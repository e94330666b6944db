SPECIFICATION Spec
CONSTANTS
    Threads = {t1, t2, t3}
    Items = {x1, x2}
    m_max_size = 3
    NoItem = NoItem
INVARIANTS BlockedOnlyWhenEmpty BackIsNewest
PROPERTY RingIsFifo
