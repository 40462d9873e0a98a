CONSTANTS
  T = {a, b}
  Cap = 3
SPECIFICATION Spec
INVARIANTS RingTypeOK BackIsLast
PROPERTY ImplementsFifo
