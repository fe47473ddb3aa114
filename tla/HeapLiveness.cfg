SPECIFICATION FairSpec
CONSTANTS
  Threads = {t1, t2}
  Allocs = {a1}
  Addrs = {x1, x2, x3, x4}
  MaxNodes = 3
  CpuSetSize = 8
  Machines <- OneMachine
  CounterModulus = 3
  NULL = NULL
PROPERTIES
  HeapIsFreed
  CallsReturn
