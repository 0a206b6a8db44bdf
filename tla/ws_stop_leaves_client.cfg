\* StopAsync and a client accepted just before it.
CONSTANTS
  c1 = c1  c2 = c2  a1 = a1  r1 = r1
  Client <- TwoClients
  App = {}
  Room = {}
  Kind = {"text"}
  Stopper = Stopper
  NoRoom = NoRoom
  NoClient = NoClient
  MaxSends = 0
  MaxAppSends = 0
  MaxStarts = 1
  UseTls = FALSE
  MayStall = FALSE
  MayStop = TRUE
SYMMETRY Symmetric
SPECIFICATION Spec
CHECK_DEADLOCK FALSE
INVARIANT StopDisconnectsAll
