SPECIFICATION ProcessSpec
CONSTANTS
  Concurrency = 2
  BatchSize = 2
INVARIANTS SlotsAccounted NoOrphanJobs CleanupOrder ExitReported
PROPERTIES PanicStopsWorker KeepsPolling ProcessEnds
CHECK_DEADLOCK FALSE
