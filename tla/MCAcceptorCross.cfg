CONSTANTS
  Client = {c1, c2}
  None = None
SPECIFICATION Spec
CHECK_DEADLOCK FALSE
INVARIANT OneClientPerSession
