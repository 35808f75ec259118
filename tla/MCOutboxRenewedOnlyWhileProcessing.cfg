\* A panic leaves its heartbeat renewing a lease no task holds.
CONSTANTS
  e1 = e1
  e2 = e2
  w1 = w1
  w2 = w2
  NoWorker = NoWorker
  Events <- OneEvent
  Workers <- BothWorkers
  Handled <- OneEvent
  Outcomes <- AllOutcomes
  MaxAttempts = 3
  BatchSize = 1
  Slots = 1
  LeaseTicks = 3
  Skew = 0
  Prompt = FALSE
SPECIFICATION Spec
SYMMETRY WorkerSymmetry
PROPERTY
  RenewedOnlyWhileProcessing
