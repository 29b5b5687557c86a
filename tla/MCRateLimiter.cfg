SPECIFICATION Spec
CONSTANTS
  a = a
  b = b
  c = c
  h1 = h1
  h2 = h2
  Ip = {a, b, c}
  HttpIp = {a}
  Task = {h1, h2}
  MAX_TRACKED_CLIENTS = 1
  max_requests_per_window = 1
  window_duration = 3
  max_connections_per_ip = 1
  max_messages_per_second = 1
  burst_allowance = 0
  MaxLag = 1
  MaxTime = 7
SYMMETRY Symmetry
CHECK_DEADLOCK FALSE
INVARIANTS
  GuardsCounted
  WindowLimit
PROPERTY MeteredWhileConnected
