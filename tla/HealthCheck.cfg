SPECIFICATION HSpec
CONSTANTS
  c1 = c1  c2 = c2  t1 = t1
  None = None
  Container <- TwoContainers
  Token <- OneToken
  MaxHealthFailures = 3
INVARIANT FailuresSpanTicks
PROPERTY DeadIsEvicted
