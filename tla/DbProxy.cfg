SPECIFICATION FairSpec
CONSTANTS
  Workloads <- AllWorkloads
  PoolSize = 2
  None = None
INVARIANTS StoredInOrder AckedIsStored LastSendTruthful SessionsFresh
PROPERTY CallAnswered
CHECK_DEADLOCK FALSE
