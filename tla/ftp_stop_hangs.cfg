\* One idle session is enough to keep StopAsync from completing.
CONSTANTS
  c1 = c1  c2 = c2  f = f  d = d  z = z
  Client = {c1}
  NoClient = NoClient
  Name = {f}
  Root = Root
  NoPath = NoPath
  FirstDirs = {}
  FirstFiles = {}
  ZipOf <- ZipBeside
  Command = {"NOOP"}
  MaxCommands = 1
  MaxListeners = 1
  MaxConns = 0
  MaxChunks = 0
  MaxStarts = 1
  MayStop = TRUE
SPECIFICATION FairSpec
CHECK_DEADLOCK FALSE
PROPERTIES
  StopCompletes
