SPECIFICATION Spec
CONSTANTS
  d1 = d1
  d2 = d2
  d3 = d3
  e1 = e1
  ep1 = ep1
  ws1 = ws1
  Delivery = {d1}
  Event = {e1}
  Endpoint = {ep1}
  Workspace = {ws1}
  Worker = {w1, w2}
  Key = {k1, k2}
  EventOf <- MCEventOf
  EndpointOf <- MCEndpointOf
  WorkspaceOf <- MCWorkspaceOf
  MaxAttempts = 2
  MaxConcurrency = 1
  BatchLimit = 2
  WorkspaceLimit = 2
  EndpointLimit = 2
  MaxRun = 2
  Expiring = {e1}
  NoWorker = NoWorker
  NoDelivery = NoDelivery
  NoPurge = NoPurge
SYMMETRY Symmetry
INVARIANTS QueueInv AttemptBudget SuccessWasAcknowledged FinalizeNeverRaises OneRunPerCommand
PROPERTIES CompletedByHolder HistoryIsAppendOnly TerminalLeftByReplayOnly ImplementsContract
CHECK_DEADLOCK FALSE
