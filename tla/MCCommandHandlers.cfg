SPECIFICATION Spec
CONSTANTS
  h1 = h1
  h2 = h2
  s1 = s1
  s2 = s2
  Handler = {h1, h2}
  StreamId = {s1, s2}
  NoCache = NoCache
  max_concurrent_streams = 2
  session_timeout = 0
  Path = {1, 2}
  Source <- MCSource
  Rules <- MCNoRules
  Threshold = {1}
  FrameLimit = {2}
  max_frames_per_stream = 2
  CacheTtl = 1
  MaxTime = 1
  MaxFrames = 2
CHECK_DEADLOCK FALSE
INVARIANTS
  FrameAccounting
  EventAccounting
PROPERTIES
  FramesEventuallyReported
  ImplementsService
