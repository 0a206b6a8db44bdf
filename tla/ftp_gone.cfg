\* Peers leave in the middle of transfers over shared connections.
CONSTANTS
  c1 = c1  c2 = c2  f = f  d = d  z = z
  Client = {c1, c2}
  NoClient = NoClient
  Name = {f}
  Root = Root
  NoPath = NoPath
  FirstDirs = {}
  FirstFiles <- FirstFile
  ZipOf <- ZipBeside
  Command = {"PASV", "STOR", "RETR"}
  MaxCommands = 2
  MaxListeners = 1
  MaxConns = 1
  MaxChunks = 1
  MaxStarts = 1
  MayStop = FALSE
SPECIFICATION FairSpec
CHECK_DEADLOCK FALSE
PROPERTIES
  GoneHandlerEnds
