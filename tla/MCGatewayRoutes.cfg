\* Two hubs, two connections of two users, one broadcast that may be sent again.
SPECIFICATION Spec
CONSTANTS
  s0 = s0
  s1 = s1
  Hubs = {h1, h2}
  Conns = {c1, c2}
  Users = {u1, u2}
  Sessions = {s0, s1}
  NilSession = s0
  TicketSessions <- ServiceSessions
  Publishers = {p1}
  Audiences <- OneUser
  NoConn = NoConn
  NoHub = NoHub
  NoUser = NoUser
  NoEvent <- NoEventValue
  QueueLength = 1
  SendLength = 1
  MaxMessages = 1
  MaxFaults = 1
SYMMETRY Symmetry
INVARIANTS
  LiveIsMapped
  PresentWithASession
  UnreachableHasACause
  StrayRouteHasACause
  DeadClientIsEarly
  OtherUsersOnlyByTheNilSession
  
PROPERTIES
  ImplementsPeerFeeds
CHECK_DEADLOCK FALSE
