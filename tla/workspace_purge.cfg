SPECIFICATION Spec
CONSTANTS
  e1 = e1
  e2 = e2
  e3 = e3
  r1 = r1
  r2 = r2
  k1 = k1
  k2 = k2
  c1 = c1
  v1 = v1
  v2 = v2
  Endpoint = {e1, e2, e3}
  Initial = {e1}
  Rotation = {r1, r2}
  Key = {k1, k2}
  Overlap = {1}
  Claim = {c1}
  Event = {v1, v2}
  Console = {e3, v2}
  MaxTime = 1
  Batch = 1
  MaxCalls = 2
INVARIANTS
  OneActiveSecret
  OneSecretPerCommand
  OverlapKept
  ClosedWorkspace
  PurgeLeavesNothing
PROPERTIES
  ClosedToRotations
  PurgeCompletes
CHECK_DEADLOCK FALSE
