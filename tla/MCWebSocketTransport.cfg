SPECIFICATION Spec
CONSTANTS
  c1 = c1
  c2 = c2
  Conn = {c1, c2}
  s1 = s1
  Session = {s1}
  Size = {2}
  max_connections = 1
  broadcast_capacity = 1
  item_capacity = 1
  max_queued_bytes = 2
  MaxHostCalls = 1
  MaxTasks = 2
CHECK_DEADLOCK FALSE
INVARIANTS
  NoOrphans
  ResourcesExact
PROPERTIES
  CompleteComesLast
  ConnectionReleased
