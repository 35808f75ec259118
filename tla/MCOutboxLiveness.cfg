\* One event, two processes, fair scheduling: the event comes to its end.
CONSTANTS
  e1 = e1
  e2 = e2
  w1 = w1
  w2 = w2
  NoWorker = NoWorker
  Events <- OneEvent
  Workers <- BothWorkers
  Handled <- OneEvent
  Outcomes <- PlainOutcomes
  MaxAttempts = 3
  BatchSize = 1
  Slots = 1
  LeaseTicks = 2
  Skew = 1
  Prompt = FALSE
SPECIFICATION FairSpec
PROPERTIES
  EventsEnd
