\* One request of a log, and no StopAsync before it is answered.
CONSTANTS
  q1 = q1  q2 = q2  u = u
  Req = {q1}
  Kinds <- OneLog
  User = {u}
  Type = {"Unknown", "CheckIn"}
  MayThrow = FALSE
  MaxFaults = 0
  NoKind = NoKind
  NoPath = NoPath
SPECIFICATION Spec
CHECK_DEADLOCK FALSE
INVARIANT
  ContextsClosed
