\* Logins, password changes and resets, disabling, deletion and revocation.
CONSTANTS
  s1 = s1
  s2 = s2
  s3 = s3
  r1 = r1
  r2 = r2
  r3 = r3
  NoSession = NoSession
  Sessions <- TwoSessions
  Requests <- TwoRequests
  Kinds <- AccountKinds
  MaxTokens = 1
  MaxPasswords = 3
  MaxResets = 1
SPECIFICATION Spec
SYMMETRY AccountSymmetry
CHECK_DEADLOCK FALSE
INVARIANTS
  SessionsFollowThePassword
  InactiveHasNoSessions
