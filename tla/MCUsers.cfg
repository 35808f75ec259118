\* Two requests at a time, three in all, of every kind, with two faults.
SPECIFICATION Spec
CONSTANTS
  r1 = r1
  r2 = r2
  old = old
  new = new
  Requests <- TwoRequests
  Kinds <- AllKinds
  Values <- TwoValues
  FirstValue = old
  Unstorable = idle
  NoCopy = NoCopy
  MaxAttempts = 2
  MaxOps = 3
  MaxPasswords = 2
  MaxFaults = 2
SYMMETRY RequestSymmetry
INVARIANTS
  TypeOK
  StaleCopyHasACause
  ScheduledIsDisabled
  CheckedChangesWereAuthorised
  GuessesAreBounded
CHECK_DEADLOCK FALSE
