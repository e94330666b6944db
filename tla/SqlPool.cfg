SPECIFICATION FairSpec
CONSTANTS
    Threads = {t1, t2, t3, t4}
    Conns = {c1, c2}
    Null = Null
INVARIANTS ExclusiveBorrow NoHandleLost FrontNonEmpty CountersExact NoQueryOnClosed
PROPERTY WaitersServed
