\* Two requests of devices: logs, a bad line, photos, a heartbeat; StopAsync.
CONSTANTS
  q1 = q1  q2 = q2  u = u
  Req = {q1, q2}
  Kinds <- AllKinds
  User = {u}
  Type = {"Unknown", "CheckIn"}
  MayThrow = TRUE
  MaxFaults = 1
  NoKind = NoKind
  NoPath = NoPath
SPECIFICATION FairSpec
CHECK_DEADLOCK FALSE
INVARIANTS
  PhotosDoNotMix
PROPERTIES
  ImplementsPunchLog
  RequestsEnd
  StopReturns
