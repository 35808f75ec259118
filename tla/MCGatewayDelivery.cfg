\* One hub, two messages for both of two users, who share the nil session; what must happen in the end.
SPECIFICATION FairSpec
CONSTANTS
  s0 = s0
  s1 = s1
  Hubs = {h1}
  Conns = {c1, c2}
  Users = {u1, u2}
  Sessions = {s0, s1}
  NilSession = s0
  TicketSessions <- HandlerSessions
  Publishers = {p1}
  Audiences <- AllUsers
  NoConn = NoConn
  NoHub = NoHub
  NoUser = NoUser
  NoEvent <- NoEventValue
  QueueLength = 1
  SendLength = 1
  MaxMessages = 2
  MaxFaults = 0
INVARIANTS
  TypeOK
  DeliveredInOrder
PROPERTIES
  ClosedIsForgotten
  ReadersEnd
  ImplementsPeerFeeds
CHECK_DEADLOCK FALSE
