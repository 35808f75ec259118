\* Three refreshes at a time of one session, and its revocation; Redis may lose ids.
CONSTANTS
  s1 = s1
  s2 = s2
  s3 = s3
  r1 = r1
  r2 = r2
  r3 = r3
  NoSession = NoSession
  Sessions <- OneSession
  Requests <- ThreeRequests
  Kinds <- TokenKinds
  MaxTokens = 4
  MaxPasswords = 1
  MaxResets = 0
SPECIFICATION Spec
SYMMETRY TokenSymmetry
CHECK_DEADLOCK FALSE
INVARIANTS
  TypeOK
  ExchangedOnce
  ReuseSeenOnlyAfterLoss
  StrandedOnlyByFailure
PROPERTIES
  ImplementsTokenChain
