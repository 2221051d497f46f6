SPECIFICATION Spec
CONSTANTS
  Threads = {main, w1, w2}
  main = main
  Cbs = {k1, k2}
  QUEUE = 2
  GROW = 1
  MaxChunks = 4
  UO_STACK_MIN_CAPACITY = 1
  WORD = 6
SYMMETRY Symmetry
CONSTRAINT FewThreadsOrChunks
INVARIANTS
  PoolsSound
  OneHolder
  FindsItsItem
CHECK_DEADLOCK FALSE
