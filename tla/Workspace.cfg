SPECIFICATION WSpec
CONSTANTS
  c1 = c1  c2 = c2  c3 = c3  x1 = x1  x2 = x2  t1 = t1  t2 = t2  k1 = k1
  None = None
  Container <- ThreeContainers
  Caller <- TwoCallers
  Token <- OneToken
  Key <- OneKey
  Bearer <- Production
  Scan <- OneScan
  PoolSize = 1
  MaxContainers = 1
  MaxConcurrentSnapshots = 1
  MayShutDown = FALSE
  Attempts = 2
  MaxWrites = 1
SYMMETRY Symmetric
INVARIANTS WTypeOK AcknowledgedSurvives ResumedFromLatest
