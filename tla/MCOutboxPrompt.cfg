\* Prompt processes, two events, one slot each: the second event of a batch
\* waits for the first.
CONSTANTS
  e1 = e1
  e2 = e2
  w1 = w1
  w2 = w2
  NoWorker = NoWorker
  Events <- BothEvents
  Workers <- BothWorkers
  Handled <- BothEvents
  Outcomes <- OutcomesAndPanic
  MaxAttempts = 2
  BatchSize = 2
  Slots = 1
  LeaseTicks = 5
  Skew = 1
  Prompt = TRUE
SPECIFICATION Spec
SYMMETRY Symmetry
INVARIANTS
  HandlersOverlapOnlyIfLate
