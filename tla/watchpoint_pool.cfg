SPECIFICATION Spec
CONSTANTS
  NR_WP = 4
  NULL = NULL
INVARIANT PoolPartition
PROPERTY ImplementsWatchSet
