SPECIFICATION Spec
CONSTANTS
  Own = {"c1", "c2"}
  Foreign = {"f1"}
  Clients = {"t1", "t2"}
  Pinned <- MCPinned
  Slices <- MCSlices
  Home <- MCHome
  Shaped = {"a", "b"}
  PoolSize = 1
  MaxFaults = 1
  Files = {1, 2}
  MaxSwap = 2
INVARIANTS TypeOK ChangesCanBeUndone RecordsMatchKernel
PROPERTY ForeignStaysFrozen
\* a balancer that has shut down does nothing more
CHECK_DEADLOCK FALSE
