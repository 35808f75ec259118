\* Every interleaving, no assumption on timing: one event, two processes.
CONSTANTS
  e1 = e1
  e2 = e2
  w1 = w1
  w2 = w2
  NoWorker = NoWorker
  Events <- OneEvent
  Workers <- BothWorkers
  Handled <- OneEvent
  Outcomes <- AllOutcomes
  MaxAttempts = 3
  BatchSize = 1
  Slots = 1
  LeaseTicks = 3
  Skew = 1
  Prompt = FALSE
SPECIFICATION Spec
SYMMETRY WorkerSymmetry
INVARIANTS
  TypeOK
  LockNamesTheLatestClaim
  EachClaimRunsOnce
  AttemptsCountClaims
  ProcessedWasDelivered
PROPERTIES
  FinalRowsStay
  LiveLeaseIsKept
  ImplementsEventDelivery
