SPECIFICATION Spec
CONSTANTS
    Timers = {a, b, c}
    Null = Null
    MaxTime = 2
    MaxSpan = 2
INVARIANTS WellLinked
PROPERTY ListIsQueue
