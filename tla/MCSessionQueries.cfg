SPECIFICATION Spec
CONSTANTS
  None = None
  Stores <- MCStores
  Fresh <- MCFresh
  Queries <- MCQueries
  PollLimit = {1, 5}
  MinPriority = {0, 2}
  MAX_PAGE_SIZE = 2
  MAX_PAGINATION_OFFSET = 5
  MAX_RESULTS_LIMIT = 3
  MAX_SCAN_LIMIT = 4
  max_frames_per_stream = 3
  MAX_FRAMES_PAGE_SIZE = 2
  MaxSequence = 4
CHECK_DEADLOCK FALSE
INVARIANTS
  PagesAreExact
  MissedOnlyIfLate
PROPERTIES
  WalkEnds
