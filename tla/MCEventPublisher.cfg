SPECIFICATION Spec
CONSTANTS
  p1 = p1
  p2 = p2
  Publisher = {p1, p2}
  NumShards = 2
  EVENT_LOG_CAPACITY = 2
  EVENT_LOG_EVICT_TARGET = 1
  EventBytes = {1}
  item_capacity = 2
  max_queued_bytes = 2
  MaxBatch = 2
  MaxEvents = 3
CHECK_DEADLOCK FALSE
INVARIANTS
  NewestKept
  StreamedInBatchOrder
PROPERTY LogEventuallyTrimmed
