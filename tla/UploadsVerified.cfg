SPECIFICATION Spec
CONSTANTS
  x1 = x1  x2 = x2  k1 = k1  k2 = k2  f = f  g = g  s = s  t = t
  None = None  NoManifest = NoManifest  OtherSha = OtherSha
  Caller <- TwoCallers
  ApiKey <- TwoKeys
  Name <- TwoNames
  Sha <- TwoShas
  Manifests <- SomeManifests
  Astray <- SomeAstray
  TTL = 1
  MaxEntries = 1
  Timeout = 1
  Horizon = 3
  MaxBoxes = 2
SYMMETRY Symmetric
INVARIANT UploadsVerified
