SPECIFICATION Spec
CONSTANTS
  Threads = {t1, t2}
  Allocs = {a1, a2}
  Addrs = {x1, x2, x3, x4, x5}
  MaxNodes = 3
  CpuSetSize = 8
  Machines <- AllMachines
  CounterModulus = 3
  NULL = NULL
SYMMETRY Symmetry
INVARIANTS
  TypeOK
  RefsAreHandles
  HeapOutlivesHandles
  RunsOnItsNode
PROPERTY HeapIsCreatedOnce
