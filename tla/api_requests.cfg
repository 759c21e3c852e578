SPECIFICATION Spec
CONSTANTS
  Request = {r1, r2, r3}
  ApiKey = {k1, k2}
  Publisher = {k1}
  Revocable = {k1}
  Origin = {o1}
  IdemKey = {i1}
  Content = {c1, c2, c3}
  ValidContent = {c1, c2}
  Endpoint = {e1}
  FanoutLimit = 1
  MaxInFlight = 2
  EdgeGlobal = 2
  EdgeOrigin = 2
  EdgePrefix = 2
  MaxBuckets = 2
  EdgeWindow = 1
  GlobalLimit = 2
  WorkspaceLimit = 2
  ApiKeyLimit = 1
  QuotaWindow = 1
  MaxTime = 1
SYMMETRY RequestSymmetry
INVARIANTS QuotaExact IdempotentPublish EdgeLimit
CHECK_DEADLOCK FALSE
