SPECIFICATION FairSpec
CONSTANTS
  Writers = {w1, w2}
  Flusher = f
  LinesPerWriter = 2
  m_split_lines = 2
  max_queue_size = 1
  MaxDay = 2
INVARIANTS OwnText LineOnce NoUseAfterClose SyncIsDurable
PROPERTIES QueuedIsWritten
CHECK_DEADLOCK FALSE
