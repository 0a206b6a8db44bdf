\* Two sessions transfer at the same time, or work on the same files, or come
\* and go while the server stops and starts again.
CONSTANTS
  c1 = c1  c2 = c2  f = f  d = d  z = z
  Client = {c1, c2}
  NoClient = NoClient
  Name = {f, d, z}
  Root = Root
  NoPath = NoPath
  FirstDirs = {d}
  FirstFiles <- FileInDir
  ZipOf <- ZipToZ
  Command = {"QUIT", "PASV", "PORT", "STOR", "CWD", "MKD", "RMD", "DELE", "RNFR", "RNTO", "XZIP"}
  MaxCommands = 2
  MaxListeners = 2
  MaxConns = 1
  MaxChunks = 1
  MaxStarts = 2
  MayStop = TRUE
SYMMETRY Symmetric
CONSTRAINT Apart
SPECIFICATION Spec
CHECK_DEADLOCK FALSE
INVARIANTS
  UploadsDoNotMix
  NoTruncatedSuccess
  NothingLost
  RunningIsRegistered
  StopMissesFew
