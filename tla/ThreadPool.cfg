SPECIFICATION FairSpec
CONSTANTS
    Workers = {w1, w2}
    Requests = {r1, r2}
    Main = main
    Garbage <- GarbageValues
    MaxConn = 1
    MaxListed = 2
    NoRequest = NoRequest
INVARIANTS SemaphoreCountsQueue NoEmptyWakeup EachRequestOnce
PROPERTY ListedIsTaken
