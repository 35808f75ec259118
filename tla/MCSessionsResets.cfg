\* Two resets and the logins beside them; three sessions.
CONSTANTS
  s1 = s1
  s2 = s2
  s3 = s3
  r1 = r1
  r2 = r2
  r3 = r3
  NoSession = NoSession
  Sessions <- ThreeSessions
  Requests <- TwoRequests
  Kinds <- ResetKinds
  MaxTokens = 1
  MaxPasswords = 3
  MaxResets = 2
SPECIFICATION Spec
SYMMETRY ResetSymmetry
CHECK_DEADLOCK FALSE
INVARIANTS
  SessionsFollowThePassword
