SPECIFICATION Spec
CONSTANTS
  s1 = s1
  s2 = s2
  StreamId = {s1, s2}
  max_concurrent_streams = 2
  session_timeout = 1
  Path = {1, 2, 3, 4, 5, 6}
  Source <- MCSource
  Rules <- MCRules
  Threshold = {60}
  FrameLimit = {0, 3}
  MaxTime = 2
  MaxFrames = 6
  MaxPending = 2
  MaxExpiry = 2
SYMMETRY Symmetry
CHECK_DEADLOCK FALSE
INVARIANTS
  StreamLedger
  FrameLedger
  SequenceDense
  BatchContract
  EventLedger
  ClosedSessionIdle
PROPERTY FinishedIsFrozen
