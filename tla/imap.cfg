\* One caller, the listening loop and its handler; a server with IDLE and one that polls.
CONSTANTS
  c1 = c1
  Caller = {c1}
  Handler = Handler
  Idle = Idle
  Other = Other
  NoFolder = NoFolder
  Empty = Empty
  Calls = {"move", "delete", "logout"}
  HandlerCalls = {"read", "logout"}
  MaxOps = 1
  Servers = {{"IDLE"}, {"MOVE"}}
  MaxMail = 2
  MaxConns = 2
  MaxFaults = 1
SPECIFICATION FairSpec
CHECK_DEADLOCK FALSE
INVARIANTS
  LockConserved
  ReportedOnce
  
  MoveLosesNothing
PROPERTIES
  NoNewMailSkipped
  ImplementsMailWatch
  LogoutReturns
