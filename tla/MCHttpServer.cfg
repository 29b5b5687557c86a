SPECIFICATION Spec
CONSTANTS
  c1 = c1
  c2 = c2
  c3 = c3
  r1 = r1
  r2 = r2
  i1 = i1
  Conn = {c1, c2, c3}
  Request = {r1, r2}
  Ip = {i1}
  max_connections = 2
  max_connections_per_ip = 1
  max_concurrent_streams = 2
  MAX_CONCURRENT_REQUESTS = 1
CHECK_DEADLOCK FALSE
INVARIANTS
  NothingLeaks
PROPERTIES
  BacklogDrains
