CONSTANTS
  Client = {c1, c2, c3}
  None = None
SPECIFICATION Spec
CHECK_DEADLOCK FALSE
INVARIANTS AcceptorTypeOK KthToKth GameAheadByOne SessionMapExact
PROPERTY AcceptsGoOn
