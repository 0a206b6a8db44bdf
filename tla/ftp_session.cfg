\* One session, every transfer command, a second PASV, PORT.
CONSTANTS
  c1 = c1  c2 = c2  f = f  d = d  z = z
  Client = {c1}
  NoClient = NoClient
  Name = {f}
  Root = Root
  NoPath = NoPath
  FirstDirs = {}
  FirstFiles <- FirstFile
  ZipOf <- ZipBeside
  Command = {"NOOP", "PASV", "PORT", "LIST", "STOR", "RETR"}
  MaxCommands = 5
  MaxListeners = 3
  MaxConns = 2
  MaxChunks = 2
  MaxStarts = 1
  MayStop = FALSE
SPECIFICATION Spec
CHECK_DEADLOCK FALSE
INVARIANTS
  NoDataConnectionLeft
  TransferIsFresh
  UploadComplete
