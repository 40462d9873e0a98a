CONSTANTS
  max_node_num = 3
  node_size = 12
  HeadSize = 56
  kNodeOffset = 8
  AddressSpace = 1024
  Addresses = {256, 768}
SPECIFICATION Spec
INVARIANTS PoolTypeOK FreeListExact WalkShowsUsed FreeTakesUsed
PROPERTY ImplementsPool
