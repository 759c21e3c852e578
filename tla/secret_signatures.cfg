SPECIFICATION Spec
CONSTANTS
  e1 = e1
  e2 = e2
  e3 = e3
  r1 = r1
  r2 = r2
  k1 = k1
  k2 = k2
  c1 = c1
  v1 = v1
  v2 = v2
  Endpoint = {e1}
  Initial = {e1}
  Rotation = {r1}
  Key = {k1}
  Overlap = {1}
  Claim = {c1}
  Event = {}
  Console = {}
  MaxTime = 1
  Batch = 1
  MaxCalls = 2
INVARIANT BothSignatures
CHECK_DEADLOCK FALSE
