SPECIFICATION RotationSpec
CONSTANTS
  d1 = d1
  d2 = d2
  d3 = d3
  ep1 = ep1
  ep2 = ep2
  ws1 = ws1
  Delivery = {d1, d2, d3}
  Endpoint = {ep1, ep2}
  Workspace = {ws1}
  Worker = {w1, w2}
  EndpointOf <- MCEndpointOf
  WorkspaceOf <- MCWorkspaceOf
  MaxConcurrency = 1
  BatchLimit = 2
  WorkspaceLimit = 1
  EndpointLimit = 1
  MaxMisses = 1
  Publishing = {ws1}
INVARIANT EndpointCapacity
PROPERTIES ClaimsAreAtomic EndpointsAlternate
CHECK_DEADLOCK FALSE
