\* Two clients exchange three frames, in and out of a room; peers leave.
CONSTANTS
  c1 = c1  c2 = c2  a1 = a1  r1 = r1
  Client <- TwoClients
  App = {}
  Room = {r1}
  Kind = {"text"}
  Stopper = Stopper
  NoRoom = NoRoom
  NoClient = NoClient
  MaxSends = 2
  MaxAppSends = 0
  MaxStarts = 1
  UseTls = FALSE
  MayStall = FALSE
  MayStop = FALSE
SYMMETRY Symmetric
CONSTRAINT ThreeFrames
SPECIFICATION Spec
CHECK_DEADLOCK FALSE
INVARIANTS
  LockConserved
  RoomConfinement
  SenderOrder
  BroadcastAccounted
  HealthyStayAlive
PROPERTIES
  ImplementsBroadcast
