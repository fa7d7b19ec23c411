SPECIFICATION Spec
CONSTANTS
  c1 = c1  c2 = c2  c3 = c3  x1 = x1  x2 = x2  t1 = t1  t2 = t2  k1 = k1  k2 = k2
  None = None
  Container <- ThreeContainers
  Caller <- TwoCallers
  Token <- TwoTokens
  Key <- OneKey
  Bearer <- Production
  Scan <- OneScan
  PoolSize = 1
  MaxContainers = 1
  MaxConcurrentSnapshots = 1
  MayShutDown = FALSE
SYMMETRY Symmetric
INVARIANTS TypeOK ExclusiveOwner NoOrphan SessionBinding PoolIsClean RestoreWaitsForEviction CapacityBound TarBuffersCapped DeletedOnce CallsOwnSession WorkspacesAreExclusive
PROPERTIES CommitNeverOverwrites ImplementsLifecycle
