\* One client and one application task over TLS, stopped and started again.
CONSTANTS
  c1 = c1  c2 = c2  a1 = a1  r1 = r1
  Client <- OneClient
  App = {a1}
  Room = {}
  Kind = {"text"}
  Stopper = Stopper
  NoRoom = NoRoom
  NoClient = NoClient
  MaxSends = 1
  MaxAppSends = 1
  MaxStarts = 2
  UseTls = TRUE
  MayStall = TRUE
  MayStop = TRUE
SPECIFICATION FairSpec
CHECK_DEADLOCK FALSE
INVARIANTS
  RemovedOnce
  StopClosesSnapshot
PROPERTIES
  BroadcastReturns
  GoneClientRemoved
  StopEndsHandlers
