SPECIFICATION ConnectionsSpec
CONSTANTS
  PageSockets = {s1, s2, s3}
  NoPageSocket = NoPageSocket
  MaxVersion = 2
  MaxRetries = 3
  Viewers = {v1, v2, v3}
  MaxOpens = 3
  Sockets = {c1, c2}
  NoSocket = NoSocket
  Requests = {r1, r2, r3}
  MinDelay = 1
  MaxDelay = 6
  Printers = {p1, p2}
  NoPrinter = NoPrinter
CHECK_DEADLOCK FALSE
INVARIANT AlwaysFed
INVARIANT OneUpstream
INVARIANT ViewersAreServed
INVARIANT PaidForAReason
INVARIANT OneSocket
INVARIANT AlwaysRetrying
INVARIANT ConnectedIsTrue
PROPERTY QuietAfterUnmount
PROPERTY MovingPageCatchesUp
PROPERTY SlotIsReleased
PROPERTY RequestsEnd
PROPERTY KeepsTrying
