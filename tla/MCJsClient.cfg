SPECIFICATION Spec
CONSTANTS
  None = None
  c1 = c1
  c2 = c2
  Call = {c1, c2}
  Transport = {"http", "websocket", "sse"}
  Answer <- MCAnswer
  maxReconnectAttempts = 1
  MaxSocket = 3
CHECK_DEADLOCK FALSE
INVARIANTS
  ResolvedExact
  GivenUpIsKnown
PROPERTY CallsSettle
