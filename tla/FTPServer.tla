------------------------------- MODULE FTPServer -------------------------------
(***************************************************************************)
(* BNet.FTPServer, class Commands: accept loops, one handler task per      *)
(* control connection, StopAsync, and the fields every handler shares: the *)
(* passive listener _dataListener, the data connection _dataClient and the *)
(* rename source _renameFrom.  Nothing protects those fields; only the two *)
(* dictionaries are concurrent.                                            *)
(*                                                                         *)
(* A step is the code between two awaits, split where the code reads a     *)
(* shared field a second time.  A peer sends its next command only after   *)
(* the answer to the last one.  The file system is external: it shares     *)
(* files the way Windows does (an open file can be neither moved nor       *)
(* deleted), and directories exist one level deep.                         *)
(***************************************************************************)
EXTENDS Naturals, Sequences, FiniteSets, Functions

CONSTANTS Client,       \* control connections that may ever be made
          NoClient,     \* "no client"
          Name,         \* names of files and directories
          Root,         \* the directory _rootFolder
          NoPath,       \* the null path
          FirstDirs,    \* the directories that exist at the start
          FirstFiles,   \* the files that exist at the start
          ZipOf,        \* the archive XZIP makes of a directory
          Command,      \* the commands peers send
          MaxCommands,  \* bound: commands a peer sends
          MaxListeners, \* bound: data listeners created
          MaxConns,     \* bound: data connections a peer opens
          MaxChunks,    \* bound: pieces a peer uploads on one connection
          MaxStarts,    \* bound: calls of StartAsync
          MayStop       \* the application may call StopAsync

Dir == {Root} \cup Name
Path == Dir \X Name
Loop == 1..MaxStarts
Listener == 1..MaxListeners
Conn == Client \X (1..MaxConns)
NoConn == <<NoClient, 0>>
Piece == Conn \cup Path \cup {NoConn}   \* what files hold; NoConn: an archive

ASSUME ConstantsAssumption ==
  /\ IsFiniteSet(Client) /\ NoClient \notin Client
  /\ Root \notin Name /\ NoPath \notin Path
  /\ FirstDirs \subseteq Name
  /\ ZipOf \in [Name -> Name]
  /\ FirstFiles \subseteq Path
  /\ \A p \in FirstFiles : p[1] \in {Root} \cup FirstDirs
  /\ \A d \in FirstDirs : <<Root, d>> \notin FirstFiles
  /\ MaxCommands \in Nat /\ MaxListeners \in Nat /\ MaxConns \in Nat
  /\ MaxChunks \in Nat /\ MaxStarts \in Nat \ {0} /\ MayStop \in BOOLEAN

VARIABLES
  isRunning,    \* isRunning
  gen,          \* which TcpListener _listener refers to (Setup replaces it)
  control,      \* those TcpListeners: "new", "listening" or "stopped"
  loop,         \* where each StartAsync loop is
  loopAt,       \* the listener a loop awaits a client on
  loopClient,   \* the client a loop has accepted and not stored yet
  starts,       \* calls of StartAsync so far
  app,          \* the application: where StopAsync is
  snap,         \* the clients whose tasks StopAsync awaits
  clients,      \* keys of _clients
  cwd,          \* TcpClientDictionary, Root where there is no entry
  pc,           \* where each handler is
  peer,         \* the remote end of a control connection: "open" or "gone"
  cmds,         \* commands a peer has sent
  dataListener, \* _dataListener: 0 is null
  data,         \* the data listeners: "none", "new", "listening", "stopped"
  queue,        \* connections a data listener has not handed out yet
  waitOn,       \* the listener a handler awaits a data connection on
  told,         \* the port of a peer's last 227 answer, 0 once used
  base,         \* data connections a peer had opened when it got that answer
  conns,        \* data connections a peer has opened
  conn,         \* the server's end: "none", "queued", "open" or "closed"
  far,          \* the peer's end: "open", "fin", "reset", or "stuck": it
                \* keeps the connection, but reads and writes no more
  pushed,       \* pieces a peer has written to a data connection
  taken,        \* pieces handlers have read from it
  dataClient,   \* _dataClient
  local,        \* the connection behind a handler's local dataStream
  xfer,         \* the transfer a handler is in, or "none"
  acked,        \* the transfer ended with answer 226
  path,         \* the file a handler's command names
  fs,           \* the files and the pieces they hold
  dirs,         \* the directories in Root
  renameFrom,   \* _renameFrom
  erased        \* pieces DELE, RMD, STOR or XZIP removed from the files

loopVars == <<isRunning, gen, control, loop, loopAt, loopClient, starts>>
stopVars == <<app, snap>>
dictVars == <<clients, cwd>>
peerVars == <<peer, cmds>>
listenVars == <<dataListener, data, queue, waitOn>>
toldVars == <<told, base, conns>>
connVars == <<conn, far, pushed, taken>>
xferVars == <<dataClient, local, xfer, acked>>
fileVars == <<fs, dirs, erased>>
renameVars == <<renameFrom, path>>
serverVars == <<loopVars, stopVars>>
dataVars == <<listenVars, toldVars, connVars, xferVars>>
diskVars == <<fileVars, renameVars>>
restVars == <<serverVars, dictVars, peerVars, dataVars, diskVars>>
vars == <<pc, restVars>>

HandlerPc == {"absent", "backlog", "refused", "welcome", "check", "reading",
              "reply", "leaving", "done", "pasv", "portStart", "porting",
              "unlisten", "listing", "starting", "opening", "accept",
              "stream", "opened", "copyIn", "copyOut", "answer", "closing",
              "nulling", "moveFile", "moveDir", "moved", "zipping"}

ServerTypes ==
  /\ isRunning \in BOOLEAN
  /\ gen \in Loop /\ starts \in 0..MaxStarts
  /\ control \in [Loop -> {"new", "listening", "stopped"}]
  /\ loop \in [Loop -> {"idle", "check", "accept", "store", "done"}]
  /\ loopAt \in [Loop -> Loop]
  /\ loopClient \in [Loop -> Client \cup {NoClient}]
  /\ app \in {"idle", "snapshot", "awaiting", "stopped"}
  /\ snap \subseteq Client /\ clients \subseteq Client

HandlerTypes ==
  /\ cwd \in [Client -> Dir]
  /\ pc \in [Client -> HandlerPc]
  /\ peer \in [Client -> {"open", "gone"}]
  /\ cmds \in [Client -> 0..MaxCommands]

DataTypes ==
  /\ dataListener \in 0..MaxListeners
  /\ data \in [Listener -> {"none", "new", "listening", "stopped"}]
  /\ queue \in [Listener -> Seq(Conn)]
  /\ waitOn \in [Client -> 0..MaxListeners]
  /\ told \in [Client -> 0..MaxListeners]
  /\ base \in [Client -> 0..MaxConns] /\ conns \in [Client -> 0..MaxConns]
  /\ conn \in [Conn -> {"none", "queued", "open", "closed"}]
  /\ far \in [Conn -> {"open", "fin", "reset", "stuck"}]
  /\ pushed \in [Conn -> 0..MaxChunks] /\ taken \in [Conn -> 0..MaxChunks]
  /\ dataClient \in Conn \cup {NoConn}
  /\ local \in [Client -> Conn \cup {NoConn}]
  /\ xfer \in [Client -> {"none", "LIST", "STOR", "RETR"}]
  /\ acked \in [Client -> BOOLEAN]

DiskTypes ==
  /\ path \in [Client -> Path \cup {NoPath}]
  /\ DOMAIN fs \subseteq Path /\ \A p \in DOMAIN fs : fs[p] \in Seq(Piece)
  /\ dirs \subseteq Name
  /\ renameFrom \in Path \cup {NoPath}
  /\ erased \subseteq Piece

TypeOK == ServerTypes /\ HandlerTypes /\ DataTypes /\ DiskTypes

Init ==
  /\ isRunning = FALSE
  /\ gen = 1 /\ starts = 0
  /\ control = [g \in Loop |-> "new"]
  /\ loop = [k \in Loop |-> "idle"]
  /\ loopAt = [k \in Loop |-> 1]
  /\ loopClient = [k \in Loop |-> NoClient]
  /\ app = "idle" /\ snap = {} /\ clients = {}
  /\ cwd = [c \in Client |-> Root]
  /\ pc = [c \in Client |-> "absent"]
  /\ peer = [c \in Client |-> "open"]
  /\ cmds = [c \in Client |-> 0]
  /\ dataListener = 0
  /\ data = [l \in Listener |-> "none"]
  /\ queue = [l \in Listener |-> <<>>]
  /\ waitOn = [c \in Client |-> 0]
  /\ told = [c \in Client |-> 0]
  /\ base = [c \in Client |-> 0] /\ conns = [c \in Client |-> 0]
  /\ conn = [x \in Conn |-> "none"] /\ far = [x \in Conn |-> "open"]
  /\ pushed = [x \in Conn |-> 0] /\ taken = [x \in Conn |-> 0]
  /\ dataClient = NoConn
  /\ local = [c \in Client |-> NoConn]
  /\ xfer = [c \in Client |-> "none"]
  /\ acked = [c \in Client |-> FALSE]
  /\ path = [c \in Client |-> NoPath]
  /\ fs = [p \in FirstFiles |-> <<p>>]
  /\ dirs = FirstDirs
  /\ renameFrom = NoPath
  /\ erased = {}

(***************************************************************************)
(* StartAsync, StopAsync and Setup.                                        *)
(***************************************************************************)
(* The application calls StartAsync, the first time or after StopAsync     *)
(* has returned, as Program.UpdateAsync does.                              *)
Start ==
  /\ app \in {"idle", "stopped"} /\ ~isRunning
  /\ starts < MaxStarts
  /\ starts' = starts + 1
  /\ isRunning' = TRUE
  /\ app' = "idle"
  /\ control' = [control EXCEPT ![gen] = "listening"]
  /\ loop' = [loop EXCEPT ![starts + 1] = "check"]
  /\ UNCHANGED <<gen, loopAt, loopClient, snap, dictVars, pc, peerVars,
                 dataVars, diskVars>>

(* while (isRunning): the loop awaits a client on whatever _listener is    *)
(* now, or StartAsync returns.                                             *)
CheckRunning(k) ==
  /\ loop[k] = "check"
  /\ loop' = [loop EXCEPT ![k] = IF isRunning THEN "accept" ELSE "done"]
  /\ loopAt' = [loopAt EXCEPT ![k] = IF isRunning THEN gen ELSE @]
  /\ UNCHANGED <<isRunning, gen, control, loopClient, starts, stopVars,
                 dictVars, pc, peerVars, dataVars, diskVars>>

(* A client is accepted and its handler queued with Task.Run ... *)
Accept(k, c) ==
  /\ loop[k] = "accept" /\ control[loopAt[k]] = "listening"
  /\ pc[c] = "backlog"
  /\ pc' = [pc EXCEPT ![c] = "welcome"]
  /\ loop' = [loop EXCEPT ![k] = "store"]
  /\ loopClient' = [loopClient EXCEPT ![k] = c]
  /\ UNCHANGED <<isRunning, gen, control, loopAt, starts, stopVars, dictVars,
                 peerVars, dataVars, diskVars>>

(* Changed for comparison: the task is not stored. *)
StoreForgotten(k) ==
  /\ loop[k] = "store"
  /\ loopClient' = [loopClient EXCEPT ![k] = NoClient]
  /\ loop' = [loop EXCEPT ![k] = "check"]
  /\ UNCHANGED <<isRunning, gen, control, loopAt, starts, stopVars, dictVars,
                 pc, peerVars, dataVars, diskVars>>

(* ... and only then stored in _clients, however far it has got. *)
Store(k) ==
  /\ loop[k] = "store"
  /\ clients' = clients \cup {loopClient[k]}
  /\ loopClient' = [loopClient EXCEPT ![k] = NoClient]
  /\ loop' = [loop EXCEPT ![k] = "check"]
  /\ UNCHANGED <<isRunning, gen, control, loopAt, starts, stopVars, cwd, pc,
                 peerVars, dataVars, diskVars>>

(* A stopped listener throws; the loop's own catch logs and goes on. *)
AcceptFails(k) ==
  /\ loop[k] = "accept" /\ control[loopAt[k]] = "stopped"
  /\ loop' = [loop EXCEPT ![k] = "check"]
  /\ UNCHANGED <<isRunning, gen, control, loopAt, loopClient, starts,
                 stopVars, dictVars, pc, peerVars, dataVars, diskVars>>

(* StopAsync up to the first loop: clients not accepted yet are refused.   *)
(* No CancellationTokenSource is ever put into _clientCancellationTokens,  *)
(* so there is nothing to cancel.                                          *)
StopBegin ==
  /\ MayStop /\ app = "idle" /\ starts > 0
  /\ isRunning' = FALSE
  /\ control' = [control EXCEPT ![gen] = "stopped"]
  /\ pc' = [c \in Client |-> IF pc[c] = "backlog" THEN "refused" ELSE pc[c]]
  /\ app' = "snapshot"
  /\ UNCHANGED <<gen, loop, loopAt, loopClient, starts, snap, dictVars,
                 peerVars, dataVars, diskVars>>

StopSnapshot ==
  /\ app = "snapshot"
  /\ app' = "awaiting"
  /\ snap' = clients
  /\ UNCHANGED <<loopVars, dictVars, pc, peerVars, dataVars, diskVars>>

(* Changed for comparison: the tasks are not awaited. *)
StopReturnsAtOnce ==
  /\ app = "awaiting"
  /\ app' = "stopped"
  /\ UNCHANGED <<loopVars, snap, dictVars, pc, peerVars, dataVars, diskVars>>

StopReturns ==
  /\ app = "awaiting"
  /\ \A c \in snap : pc[c] = "done"
  /\ app' = "stopped"
  /\ UNCHANGED <<loopVars, snap, dictVars, pc, peerVars, dataVars, diskVars>>

Setup ==
  /\ app = "stopped"
  /\ gen = starts /\ gen < MaxStarts
  /\ gen' = gen + 1
  /\ UNCHANGED <<isRunning, control, loop, loopAt, loopClient, starts,
                 stopVars, dictVars, pc, peerVars, dataVars, diskVars>>

(***************************************************************************)
(* Peers: control connections.                                             *)
(***************************************************************************)
Connect(c) ==
  /\ pc[c] = "absent" /\ control[gen] = "listening"
  /\ pc' = [pc EXCEPT ![c] = "backlog"]
  /\ UNCHANGED restVars

Disconnect(c) ==
  /\ pc[c] \notin {"absent", "refused", "done"} /\ peer[c] = "open"
  /\ peer' = [peer EXCEPT ![c] = "gone"]
  /\ UNCHANGED <<pc, serverVars, dictVars, cmds, dataVars, diskVars>>

(***************************************************************************)
(* HandleClientAsync.                                                      *)
(***************************************************************************)
(* A step of handler c that changes nothing but where it is. *)
Move(c, from, to) ==
  /\ pc[c] = from
  /\ pc' = [pc EXCEPT ![c] = to]
  /\ UNCHANGED restVars

Goto(c, to) == pc' = [pc EXCEPT ![c] = to]

(* The entry in TcpClientDictionary and the 220 answer. *)
Welcome(c) ==
  /\ pc[c] = "welcome"
  /\ cwd' = [cwd EXCEPT ![c] = Root]
  /\ Goto(c, "reply")
  /\ UNCHANGED <<serverVars, clients, peerVars, dataVars, diskVars>>

(* An answer the peer gets; one that cannot be written makes the 500       *)
(* answer of the inner catch fail as well, which ends the handler.         *)
Reply(c) == Move(c, "reply", "check")
ReplyFails(c) ==
  /\ peer[c] = "gone"
  /\ \/ Move(c, "reply", "leaving")
     \/ Move(c, "listing", "leaving")
     \/ xfer[c] # "LIST" /\ Move(c, "opening", "leaving")

LoopTest(c) == Move(c, "check", IF isRunning THEN "reading" ELSE "leaving")

(* Changed for comparison: a null line is skipped like an empty one. *)
EndOfStreamSkipped(c) == peer[c] = "gone" /\ Move(c, "reading", "check")

EndOfStream(c) == peer[c] = "gone" /\ Move(c, "reading", "leaving")

(* ReadLineAsync returns a command.  A peer that has gone may have sent    *)
(* one before.                                                             *)
Reads(c, command) ==
  /\ pc[c] = "reading" /\ cmds[c] < MaxCommands
  /\ command \in Command
  /\ cmds' = [cmds EXCEPT ![c] = @ + 1]
  /\ UNCHANGED peer

(* NOOP, SYST, TYPE, SITE, OPTS, PWD, USER, PASS, AUTH, an unknown command *)
(* and every command but STOR and RETR that is answered 501, 503 or 550    *)
(* before it has done anything.                                            *)
OnlyAnswer(c) ==
  /\ Reads(c, "NOOP")
  /\ Goto(c, "reply")
  /\ UNCHANGED <<serverVars, dictVars, dataVars, diskVars>>

Quit(c) ==
  /\ Reads(c, "QUIT")
  /\ Goto(c, "leaving")
  /\ UNCHANGED <<serverVars, dictVars, dataVars, diskVars>>

(* finally: dictionaryTCPClientRemove.  The TcpClient is not closed. *)
Leave(c) ==
  /\ pc[c] = "leaving"
  /\ cwd' = [cwd EXCEPT ![c] = Root]
  /\ clients' = clients \ {c}
  /\ Goto(c, "done")
  /\ UNCHANGED <<serverVars, peerVars, dataVars, diskVars>>

(***************************************************************************)
(* PASV and PORT.                                                          *)
(***************************************************************************)
NextListener == Cardinality({l \in Listener : data[l] # "none"}) + 1
CanListen == \E l \in Listener : data[l] = "none"

(* Changed for comparison: PASV keeps a listener that is there already. *)
PasvReuses(c) ==
  /\ Reads(c, "PASV")
  /\ IF dataListener # 0 THEN UNCHANGED <<dataListener, data>>
     ELSE /\ CanListen
          /\ dataListener' = NextListener
          /\ data' = [data EXCEPT ![NextListener] = "new"]
  /\ Goto(c, "pasv")
  /\ UNCHANGED <<serverVars, dictVars, queue, waitOn, toldVars, connVars,
                 xferVars, diskVars>>

(* The new listener is in the shared field before it is started; the one   *)
(* it replaces is not stopped.                                             *)
Pasv(c) ==
  /\ Reads(c, "PASV")
  /\ CanListen
  /\ dataListener' = NextListener
  /\ data' = [data EXCEPT ![NextListener] = "new"]
  /\ Goto(c, "pasv")
  /\ UNCHANGED <<serverVars, dictVars, queue, waitOn, toldVars, connVars,
                 xferVars, diskVars>>

(* TcpListener.Start.  A listener that was stopped can be started again;   *)
(* whoever awaited a connection on it has failed by then.                  *)
StartData(l) ==
  /\ data[l] = "stopped" => \A h \in Client : pc[h] = "accept" => waitOn[h] # l
  /\ data' = [data EXCEPT ![l] = "listening"]

(* Start and LocalEndpoint read the field again: the peer is told the port *)
(* of the listener that is there now.                                      *)
PasvStart(c) ==
  /\ pc[c] = "pasv" /\ dataListener # 0
  /\ StartData(dataListener)
  /\ told' = [told EXCEPT ![c] = dataListener]
  /\ base' = [base EXCEPT ![c] = conns[c]]
  /\ Goto(c, "reply")
  /\ UNCHANGED <<serverVars, dictVars, peerVars, dataListener, queue, waitOn,
                 conns, connVars, xferVars, diskVars>>

(* Answer 500: the field is null again, or its listener has been started   *)
(* before ExclusiveAddressUse is set, or it is one of a PORT for another   *)
(* host's address.                                                         *)
PasvFails(c) == Move(c, "pasv", "reply")

(* PORT puts a listener into the field if its argument is well formed ...  *)
Port(c) ==
  /\ Reads(c, "PORT")
  /\ \/ /\ CanListen
        /\ dataListener' = NextListener
        /\ data' = [data EXCEPT ![NextListener] = "new"]
        /\ Goto(c, "portStart")
     \/ Goto(c, "porting") /\ UNCHANGED <<dataListener, data>>
  /\ UNCHANGED <<serverVars, dictVars, queue, waitOn, toldVars, connVars,
                 xferVars, diskVars>>

(* ... starts the one the field holds now, which throws when that is null  *)
(* or for an address of another host, and answers 200 or 501.              *)
PortStart(c) ==
  /\ pc[c] = "portStart"
  /\ \/ dataListener # 0 /\ StartData(dataListener)
     \/ UNCHANGED data
  /\ Goto(c, "porting")
  /\ UNCHANGED <<serverVars, dictVars, peerVars, dataListener, queue, waitOn,
                 toldVars, connVars, xferVars, diskVars>>

(* What the peers of a stopped listener's queue see. *)
Refused(l) == [x \in Conn |-> IF x \in Range(queue[l]) THEN "closed"
                                                      ELSE conn[x]]

(* finally: whatever listener the field holds is stopped ... *)
PortStop(c) ==
  /\ pc[c] = "porting"
  /\ IF dataListener = 0
     THEN UNCHANGED <<data, queue, conn>>
     ELSE /\ data' = [data EXCEPT ![dataListener] = "stopped"]
          /\ conn' = Refused(dataListener)
          /\ queue' = [queue EXCEPT ![dataListener] = <<>>]
  /\ Goto(c, "unlisten")
  /\ UNCHANGED <<serverVars, dictVars, peerVars, dataListener, waitOn,
                 toldVars, far, pushed, taken, xferVars, diskVars>>

(* ... and whatever it holds then is forgotten. *)
PortForget(c) ==
  /\ pc[c] = "unlisten"
  /\ dataListener' = 0
  /\ Goto(c, "check")
  /\ UNCHANGED <<serverVars, dictVars, peerVars, data, queue, waitOn, toldVars,
                 connVars, xferVars, diskVars>>

(***************************************************************************)
(* Peers: data connections.                                                *)
(***************************************************************************)
(* A peer that was told a port connects to it, before or after it asks for *)
(* a transfer; a stopped listener refuses.                                 *)
DataConnect(c) ==
  /\ peer[c] = "open" /\ told[c] # 0 /\ conns[c] < MaxConns
  /\ told' = [told EXCEPT ![c] = 0]
  /\ IF data[told[c]] = "listening"
     THEN LET x == <<c, conns[c] + 1>>
          IN /\ conns' = [conns EXCEPT ![c] = @ + 1]
             /\ queue' = [queue EXCEPT ![told[c]] = Append(@, x)]
             /\ conn' = [conn EXCEPT ![x] = "queued"]
     ELSE UNCHANGED <<conns, queue, conn>>
  /\ UNCHANGED <<pc, serverVars, dictVars, peerVars, dataListener, data,
                 waitOn, base, far, pushed, taken, xferVars, diskVars>>

Connected(x) == conn[x] \in {"queued", "open"}

DataPush(x) ==
  /\ Connected(x) /\ far[x] = "open" /\ xfer[x[1]] = "STOR"
  /\ pushed[x] < MaxChunks
  /\ pushed' = [pushed EXCEPT ![x] = @ + 1]
  /\ UNCHANGED <<pc, serverVars, dictVars, peerVars, listenVars, toldVars,
                 conn, far, taken, xferVars, diskVars>>

DataEnds(x, how) ==
  /\ Connected(x) /\ far[x] \in {"open", "stuck"}
  /\ far' = [far EXCEPT ![x] = how]
  /\ UNCHANGED <<pc, serverVars, dictVars, peerVars, listenVars, toldVars,
                 conn, pushed, taken, xferVars, diskVars>>

(* A peer stops reading while the server has something to write; a         *)
(* connection whose buffers hold all there is to come is not stuck.        *)
DataStalls(x) ==
  /\ Connected(x) /\ far[x] = "open"
  /\ \E c \in Client : xfer[c] \in {"LIST", "RETR"}
  /\ far' = [far EXCEPT ![x] = "stuck"]
  /\ UNCHANGED <<pc, serverVars, dictVars, peerVars, listenVars, toldVars,
                 conn, pushed, taken, xferVars, diskVars>>

(***************************************************************************)
(* LIST, STOR and RETR.                                                    *)
(***************************************************************************)
IsFile(p) == p \in DOMAIN fs
IsDir(p) == p[1] = Root /\ p[2] \in dirs
Exists(d) == d = Root \/ d \in dirs
OpenBy(p, where) == \E c \in Client : pc[c] \in where /\ path[c] = p
IsOpen(p) == OpenBy(p, {"copyIn", "copyOut"})

(* CheckConnection: a null field gets a listener no peer knows the port    *)
(* of ...                                                                  *)
CheckConnection(c, next) ==
  IF dataListener # 0
  THEN Goto(c, next) /\ UNCHANGED <<dataListener, data>>
  ELSE /\ CanListen
       /\ dataListener' = NextListener
       /\ data' = [data EXCEPT ![NextListener] = "new"]
       /\ Goto(c, "starting")

(* ... which is started by what the field holds when it is read again.     *)
StartChecked(c) ==
  /\ pc[c] = "starting" /\ dataListener # 0
  /\ StartData(dataListener)
  /\ Goto(c, IF xfer[c] = "none" THEN "reply" ELSE "opening")
  /\ UNCHANGED <<serverVars, dictVars, peerVars, dataListener, queue, waitOn,
                 toldVars, connVars, xferVars, diskVars>>

(* A field that is null again is an exception: LIST answers 550; STOR and  *)
(* RETR have no try around it and end with the 500 answer of the loop.     *)
StartCheckedFails(c) ==
  /\ pc[c] = "starting" /\ dataListener = 0
  /\ IF xfer[c] = "LIST"
     THEN Goto(c, "answer") /\ UNCHANGED <<xfer, path>>
     ELSE /\ Goto(c, "reply")
          /\ xfer' = [xfer EXCEPT ![c] = "none"]
          /\ path' = [path EXCEPT ![c] = NoPath]
  /\ UNCHANGED <<serverVars, dictVars, peerVars, listenVars, toldVars,
                 connVars, dataClient, local, acked, fileVars, renameFrom>>

Begin(c, transfer, p) ==
  /\ Reads(c, transfer)
  /\ xfer' = [xfer EXCEPT ![c] = transfer]
  /\ acked' = [acked EXCEPT ![c] = FALSE]
  /\ path' = [path EXCEPT ![c] = p]
  /\ UNCHANGED <<serverVars, dictVars, queue, waitOn, toldVars, connVars,
                 dataClient, local, fileVars, renameFrom>>

(* LIST answers 150 before it looks at the listener, STOR and RETR after.  *)
List(c) ==
  /\ Begin(c, "LIST", NoPath)
  /\ Goto(c, "listing")
  /\ UNCHANGED <<dataListener, data>>

ListChecks(c) ==
  /\ pc[c] = "listing"
  /\ CheckConnection(c, "opening")
  /\ UNCHANGED <<serverVars, dictVars, peerVars, queue, waitOn, toldVars,
                 connVars, xferVars, diskVars>>

Stor(c, n) ==
  /\ Begin(c, "STOR", <<cwd[c], n>>)
  /\ CheckConnection(c, "opening")

Retr(c, n) ==
  /\ IsFile(<<cwd[c], n>>)
  /\ Begin(c, "RETR", <<cwd[c], n>>)
  /\ CheckConnection(c, "opening")

(* STOR or RETR without a name, or RETR of what is no file: answered 501   *)
(* or 550 when the listener has been made.                                 *)
TransferRefused(c) ==
  /\ \E transfer \in {"STOR", "RETR"} : Reads(c, transfer)
  /\ CheckConnection(c, "reply")
  /\ UNCHANGED <<serverVars, dictVars, queue, waitOn, toldVars, connVars,
                 xferVars, diskVars>>

(* AcceptTcpClientAsync is called on the listener the field holds now.     *)
(* There is no timeout on it.                                              *)
AwaitData(c) ==
  /\ pc[c] = "opening"
  /\ dataListener # 0 /\ data[dataListener] = "listening"
  /\ waitOn' = [waitOn EXCEPT ![c] = dataListener]
  /\ Goto(c, "accept")
  /\ UNCHANGED <<serverVars, dictVars, peerVars, dataListener, data, queue,
                 toldVars, connVars, xferVars, diskVars>>

(* A null field or one whose listener is not started is an exception and   *)
(* a 550 answer.                                                           *)
AwaitDataFails(c) ==
  /\ dataListener # 0 => data[dataListener] # "listening"
  /\ Move(c, "opening", "answer")

(* The connection accepted goes into the shared field ... *)
AcceptData(c) ==
  /\ pc[c] = "accept" /\ queue[waitOn[c]] # <<>>
  /\ dataClient' = Head(queue[waitOn[c]])
  /\ conn' = [conn EXCEPT ![dataClient'] = "open"]
  /\ queue' = [queue EXCEPT ![waitOn[c]] = Tail(@)]
  /\ Goto(c, "stream")
  /\ UNCHANGED <<serverVars, dictVars, peerVars, dataListener, data, waitOn,
                 toldVars, far, pushed, taken, local, xfer, acked, diskVars>>

AcceptDataFails(c) ==
  /\ Move(c, "accept", "answer")
  /\ data[waitOn[c]] = "stopped"

(* ... and is read from it again. *)
GetStream(c) ==
  /\ pc[c] = "stream"
  /\ dataClient # NoConn /\ conn[dataClient] = "open"
  /\ local' = [local EXCEPT ![c] = dataClient]
  /\ Goto(c, "opened")
  /\ UNCHANGED <<serverVars, dictVars, peerVars, listenVars, toldVars,
                 connVars, dataClient, xfer, acked, diskVars>>

GetStreamFails(c) ==
  /\ Move(c, "stream", "answer")
  /\ dataClient # NoConn => conn[dataClient] # "open"

(* What is written to a peer that reads no more stays unwritten, until the *)
(* connection is closed here or reset there.  There is no timeout on it.   *)
Stuck(x) == conn[x] = "open" /\ far[x] = "stuck"

(* LIST: the directory may have been removed; the listing may not arrive.  *)
SendListing(c) ==
  /\ pc[c] = "opened" /\ xfer[c] = "LIST"
  /\ Exists(cwd[c]) => ~Stuck(local[c])
  /\ LET sent == Exists(cwd[c]) /\ conn[local[c]] = "open"
                   /\ far[local[c]] # "reset"
     IN /\ acked' = [acked EXCEPT ![c] = sent]
        /\ conn' = [x \in Conn |->
                      IF sent /\ x \in {local[c], dataClient} THEN "closed"
                                                              ELSE conn[x]]
  /\ Goto(c, "answer")
  /\ UNCHANGED <<serverVars, dictVars, peerVars, listenVars, toldVars, far,
                 pushed, taken, dataClient, local, xfer, diskVars>>

(* STOR: FileMode.Create truncates the file, FileShare.None needs it for   *)
(* itself.                                                                 *)
(* Changed for comparison: the file is shared with other writers. *)
CanCreateShared(p) == Exists(p[1]) /\ ~IsDir(p)
CanCreate(p) == Exists(p[1]) /\ ~IsDir(p) /\ ~IsOpen(p)
Contents(ps) == UNION {Range(fs[p]) : p \in ps}
Put(f, p, content) == [q \in DOMAIN f \cup {p} |-> IF q = p THEN content
                                                            ELSE f[q]]
CreateFile(c) ==
  /\ pc[c] = "opened" /\ xfer[c] = "STOR"
  /\ CanCreate(path[c])
  /\ fs' = Put(fs, path[c], <<>>)
  /\ erased' = erased \cup Contents({path[c]} \cap DOMAIN fs)
  /\ Goto(c, "copyIn")
  /\ UNCHANGED <<serverVars, dictVars, peerVars, dataVars, dirs, renameVars>>

CreateFileFails(c) ==
  /\ Move(c, "opened", "answer")
  /\ xfer[c] = "STOR" /\ ~CanCreate(path[c])

(* CopyToAsync: the next piece of the local stream is appended. *)
CopyIn(c) ==
  /\ pc[c] = "copyIn"
  /\ LET x == local[c]
     IN /\ conn[x] = "open" /\ far[x] # "reset" /\ taken[x] < pushed[x]
        /\ taken' = [taken EXCEPT ![x] = @ + 1]
        /\ fs' = [fs EXCEPT ![path[c]] = Append(@, x)]
  /\ UNCHANGED <<pc, serverVars, dictVars, peerVars, listenVars, toldVars,
                 conn, far, pushed, xferVars, dirs, erased, renameVars>>

(* The end of the copy: the peer has finished and everything has been read *)
(* (226), or the connection is closed here or reset there (550).           *)
(* Changed for comparison: pieces still unread are not waited for, and a   *)
(* closed connection counts as the end of the upload.                      *)
EndOfDataEarly(x) == conn[x] = "open" /\ far[x] = "fin"
EndOfDataClosed(x) == conn[x] = "closed" \/ EndOfDataEarly(x)
EndOfData(x) == conn[x] = "open" /\ far[x] = "fin" /\ taken[x] = pushed[x]
Broken(x) == conn[x] # "open" \/ far[x] = "reset"
CopyEnds(c) ==
  /\ pc[c] = "copyIn"
  /\ EndOfData(local[c]) \/ Broken(local[c])
  /\ acked' = [acked EXCEPT ![c] = EndOfData(local[c])]
  /\ Goto(c, "answer")
  /\ UNCHANGED <<serverVars, dictVars, peerVars, listenVars, toldVars,
                 connVars, dataClient, local, xfer, diskVars>>

(* RETR: the file is opened for reading, and shared with other readers. *)
CanRead(p) == IsFile(p) /\ ~OpenBy(p, {"copyIn"})
OpenFile(c) ==
  /\ xfer[c] = "RETR"
  /\ Move(c, "opened", IF CanRead(path[c]) THEN "copyOut" ELSE "answer")

CopyOut(c) ==
  /\ pc[c] = "copyOut" /\ ~Stuck(local[c])
  /\ acked' = [acked EXCEPT ![c] = ~Broken(local[c])]
  /\ Goto(c, "answer")
  /\ UNCHANGED <<serverVars, dictVars, peerVars, listenVars, toldVars,
                 connVars, dataClient, local, xfer, diskVars>>

(* The answer 226 or 550; finally the shared connection is closed ... *)
AnswerTransfer(c) == Move(c, "answer", "closing")

(* Changed for comparison: the connection is forgotten and not closed. *)
CloseDataSkipped(c) == Move(c, "closing", "nulling")

CloseData(c) ==
  /\ pc[c] = "closing"
  /\ conn' = [x \in Conn |-> IF x = dataClient THEN "closed" ELSE conn[x]]
  /\ Goto(c, "nulling")
  /\ UNCHANGED <<serverVars, dictVars, peerVars, listenVars, toldVars, far,
                 pushed, taken, xferVars, diskVars>>

(* ... and the field nulled. *)
NullData(c) ==
  /\ pc[c] = "nulling"
  /\ dataClient' = NoConn
  /\ local' = [local EXCEPT ![c] = NoConn]
  /\ xfer' = [xfer EXCEPT ![c] = "none"]
  /\ path' = [path EXCEPT ![c] = NoPath]
  /\ Goto(c, "check")
  /\ UNCHANGED <<serverVars, dictVars, peerVars, listenVars, toldVars,
                 connVars, acked, fileVars, renameFrom>>

(***************************************************************************)
(* CWD, MKD, RMD, DELE, RNFR, RNTO and XZIP.                               *)
(***************************************************************************)
Cwd(c, d) ==
  /\ Reads(c, "CWD")
  /\ d = Root \/ cwd[c] = Root
  /\ Exists(d)
  /\ cwd' = [cwd EXCEPT ![c] = d]
  /\ Goto(c, "reply")
  /\ UNCHANGED <<serverVars, clients, dataVars, diskVars>>

(* Bound: directories are made and removed in Root only. *)
Mkd(c, d) ==
  /\ Reads(c, "MKD")
  /\ cwd[c] = Root /\ ~IsFile(<<Root, d>>)
  /\ dirs' = dirs \cup {d}
  /\ Goto(c, "reply")
  /\ UNCHANGED <<serverVars, dictVars, dataVars, fs, erased, renameVars>>

Files(d) == {p \in DOMAIN fs : p[1] = d}
Without(f, ps) == [q \in DOMAIN f \ ps |-> f[q]]

(* Directory.Delete(dir, recursive).  A file in it that is open makes it   *)
(* throw after any of the others have gone.                                *)
Rmd(c, d) ==
  /\ Reads(c, "RMD")
  /\ cwd[c] = Root /\ d \in dirs
  /\ LET held == {p \in Files(d) : IsOpen(p)}
     IN \E gone \in SUBSET (Files(d) \ held) :
          /\ held = {} => gone = Files(d)
          /\ fs' = Without(fs, gone)
          /\ erased' = erased \cup Contents(gone)
          /\ dirs' = IF held = {} THEN dirs \ {d} ELSE dirs
  /\ Goto(c, "reply")
  /\ UNCHANGED <<serverVars, dictVars, dataVars, renameVars>>

Dele(c, n) ==
  /\ Reads(c, "DELE")
  /\ LET p == <<cwd[c], n>>
     IN /\ IsFile(p) /\ ~IsOpen(p)
        /\ fs' = Without(fs, {p})
        /\ erased' = erased \cup Contents({p})
  /\ Goto(c, "reply")
  /\ UNCHANGED <<serverVars, dictVars, dataVars, dirs, renameVars>>

Rnfr(c, n) ==
  /\ Reads(c, "RNFR")
  /\ LET p == <<cwd[c], n>>
     IN /\ IsFile(p) \/ IsDir(p)
        /\ renameFrom' = p
  /\ Goto(c, "reply")
  /\ UNCHANGED <<serverVars, dictVars, dataVars, fileVars, path>>

(* RNTO decides by what _renameFrom is now (File.Exists, Directory.Exists) *)
(* ...  Bound: directories are renamed within Root.                        *)
Kind(p) == CASE p = NoPath -> "none"
             [] IsFile(p) -> "file"
             [] p # NoPath /\ IsDir(p) -> "directory"
             [] OTHER -> "none"
Rnto(c, n) ==
  /\ Reads(c, "RNTO")
  /\ path' = [path EXCEPT ![c] = <<cwd[c], n>>]
  /\ Kind(renameFrom) = "directory" => cwd[c] = Root
  /\ Goto(c, CASE Kind(renameFrom) = "file" -> "moveFile"
               [] Kind(renameFrom) = "directory" -> "moveDir"
               [] OTHER -> "reply")
  /\ UNCHANGED <<serverVars, dictVars, dataVars, fileVars, renameFrom>>

(* ... and moves what it is when it reads the field again.  Nothing is     *)
(* overwritten.                                                            *)
Vacant(p) == Exists(p[1]) /\ ~IsFile(p) /\ ~IsDir(p)
(* Changed for comparison: a move that overwrites. *)
CanMoveFileOver(p) ==
  /\ Kind(renameFrom) = "file" /\ ~IsOpen(renameFrom)
  /\ Exists(p[1]) /\ ~IsDir(p) /\ ~IsOpen(p)
CanMoveFile(p) == Kind(renameFrom) = "file" /\ ~IsOpen(renameFrom) /\ Vacant(p)
CanMoveDir(p) ==
  /\ Kind(renameFrom) = "directory" /\ Vacant(p)
  /\ \A q \in Files(renameFrom[2]) : ~IsOpen(q)

MoveFile(c) ==
  /\ pc[c] = "moveFile" /\ CanMoveFile(path[c])
  /\ fs' = Put(Without(fs, {renameFrom}), path[c], fs[renameFrom])
  /\ Goto(c, "moved")
  /\ UNCHANGED <<serverVars, dictVars, peerVars, dataVars, dirs, erased,
                 renameVars>>

Rebase(p, d, e) == IF p[1] = d THEN <<e, p[2]>> ELSE p
MoveDir(c) ==
  /\ pc[c] = "moveDir" /\ CanMoveDir(path[c])
  /\ LET old == renameFrom[2]  new == path[c][2]
     IN /\ fs' = [p \in {Rebase(q, old, new) : q \in DOMAIN fs}
                    |-> fs[Rebase(p, new, old)]]
        /\ dirs' = (dirs \ {old}) \cup {new}
  /\ Goto(c, "moved")
  /\ UNCHANGED <<serverVars, dictVars, peerVars, dataVars, erased, renameVars>>

RenameFails(c) ==
  \/ Move(c, "moveFile", "reply") /\ ~CanMoveFile(path[c])
  \/ Move(c, "moveDir", "reply") /\ ~CanMoveDir(path[c])

Forget(c) ==
  /\ pc[c] = "moved"
  /\ renameFrom' = NoPath
  /\ Goto(c, "reply")
  /\ UNCHANGED <<serverVars, dictVars, peerVars, dataVars, fileVars, path>>

(* XZIP deletes the old archive of a directory ... *)
XZip(c, d) ==
  /\ Reads(c, "XZIP")
  /\ cwd[c] = Root /\ d \in dirs
  /\ LET p == <<Root, ZipOf[d]>>
     IN /\ ~IsOpen(p)
        /\ fs' = Without(fs, {p})
        /\ erased' = erased \cup Contents({p} \cap DOMAIN fs)
        /\ path' = [path EXCEPT ![c] = p]
  /\ Goto(c, "zipping")
  /\ UNCHANGED <<serverVars, dictVars, dataVars, dirs, renameFrom>>

(* ... and a pool task writes the new one, unless its name has been taken  *)
(* or the directory cannot be read any more.                               *)
XZipWrites(c) ==
  /\ pc[c] = "zipping" /\ Vacant(path[c])
  /\ fs' = Put(fs, path[c], <<NoConn>>)
  /\ Goto(c, "reply")
  /\ UNCHANGED <<serverVars, dictVars, peerVars, dataVars, dirs, erased,
                 renameVars>>
XZipFails(c) == Move(c, "zipping", "reply")

-------------------------------------------------------------------------------
Handler(c) ==
  \/ Welcome(c) \/ Reply(c) \/ ReplyFails(c) \/ LoopTest(c) \/ EndOfStream(c)
  \/ Leave(c) \/ PasvStart(c) \/ PasvFails(c)
  \/ PortStart(c) \/ PortStop(c) \/ PortForget(c)
  \/ StartChecked(c) \/ StartCheckedFails(c) \/ ListChecks(c)
  \/ AwaitData(c) \/ AwaitDataFails(c) \/ AcceptData(c) \/ AcceptDataFails(c)
  \/ GetStream(c) \/ GetStreamFails(c) \/ SendListing(c)
  \/ CreateFile(c) \/ CreateFileFails(c) \/ CopyIn(c) \/ CopyEnds(c)
  \/ OpenFile(c) \/ CopyOut(c)
  \/ AnswerTransfer(c) \/ CloseData(c) \/ NullData(c)
  \/ MoveFile(c) \/ MoveDir(c) \/ RenameFails(c) \/ Forget(c)
  \/ XZipWrites(c) \/ XZipFails(c)

(* A command a peer chooses to send. *)
Commanded(c) ==
  \/ OnlyAnswer(c) \/ Quit(c) \/ Pasv(c) \/ Port(c) \/ List(c)
  \/ TransferRefused(c)
  \/ \E n \in Name : \/ Stor(c, n) \/ Retr(c, n) \/ Mkd(c, n) \/ Rmd(c, n)
                     \/ Dele(c, n) \/ Rnfr(c, n) \/ Rnto(c, n) \/ XZip(c, n)
  \/ \E d \in Dir : Cwd(c, d)

Peers ==
  \/ \E c \in Client : Connect(c) \/ Disconnect(c) \/ DataConnect(c)
  \/ \E x \in Conn : \/ DataPush(x) \/ DataStalls(x)
                     \/ \E how \in {"fin", "reset"} : DataEnds(x, how)

Server(k) ==
  \/ CheckRunning(k) \/ Store(k) \/ AcceptFails(k)
  \/ \E c \in Client : Accept(k, c)

Application == Start \/ StopBegin \/ StopSnapshot \/ StopReturns \/ Setup

Next ==
  \/ \E c \in Client : Handler(c) \/ Commanded(c)
  \/ \E k \in Loop : Server(k)
  \/ Peers \/ Application

Spec == Init /\ [][Next]_vars

(* The thread pool runs every handler and loop that can go on, and         *)
(* StopAsync; peers and the application's calls are free.                  *)
FairSpec ==
  /\ Spec
  /\ \A c \in Client : WF_vars(Handler(c))
  /\ \A k \in Loop : WF_vars(Server(k))
  /\ WF_vars(StopSnapshot) /\ WF_vars(StopReturns)

-------------------------------------------------------------------------------
(* Between transfers no session leaves a data connection open on the       *)
(* server: after the finally of LIST, STOR and RETR the shared connection  *)
(* is closed and forgotten.  It is true of a server with one session.      *)
NoDataConnectionLeft ==
  \A c \in Client : pc[c] = "reading" =>
    /\ dataClient = NoConn
    /\ \A x \in Conn : conn[x] # "open"

(* A transfer is served over a connection its own peer opened after the    *)
(* last 227 answer, never over one left waiting from an earlier PASV.      *)
(* True of a server with one session.                                      *)
TransferIsFresh ==
  \A c \in Client : local[c] # NoConn =>
    local[c][1] = c /\ local[c][2] > base[c]

(* A STOR answered 226 has put into the file everything its peer wrote to  *)
(* the data connection.  True of a server with one session.                *)
UploadComplete ==
  \A c \in Client : pc[c] \in {"answer", "closing"} /\ xfer[c] = "STOR"
                      /\ acked[c] /\ IsFile(path[c]) =>
    fs[path[c]] = [i \in 1..pushed[local[c]] |-> local[c]]

(* Whatever sessions interleave, a file never holds pieces of two uploads: *)
(* FileMode.Create with FileShare.None keeps the second one out.           *)
UploadsDoNotMix ==
  \A p \in DOMAIN fs : \A i, j \in DOMAIN fs[p] : fs[p][i] = fs[p][j]

(* A 226 answer to STOR is never the result of another session closing the *)
(* shared data connection: the peer itself has ended the upload.           *)
NoTruncatedSuccess ==
  \A c \in Client : pc[c] = "answer" /\ xfer[c] = "STOR" /\ acked[c] =>
    far[local[c]] = "fin"

(* RNTO moves and never overwrites, whatever _renameFrom becomes between   *)
(* its test and its use: every piece of the first files and of an upload   *)
(* is in some file unless a command that removes or replaces files took it.*)
NothingLost ==
  /\ \A p \in FirstFiles : p \in Contents(DOMAIN fs) \cup erased
  /\ \A x \in Conn : taken[x] > 0 => x \in Contents(DOMAIN fs) \cup erased

(* A handler that runs is in _clients, or the accept loop that started it  *)
(* is about to store it: StopAsync finds every handler but those.          *)
Running(c) == pc[c] \notin {"absent", "backlog", "refused", "done"}
RunningIsRegistered ==
  \A c \in Client : Running(c) =>
    c \in clients \/ \E k \in Loop : loopClient[k] = c

(* When StopAsync returns, at most one handler per StartAsync may still be *)
(* running: the one accepted just before the listener stopped and stored   *)
(* after the snapshot.                                                     *)
StopMissesFew ==
  app = "stopped" => Cardinality({c \in Client : Running(c)}) <= starts

(* Comment "Cancel all client tasks and await their completion": StopAsync *)
(* completes.                                                              *)
StopCompletes == app = "snapshot" ~> app = "stopped"

(* Three waits for the other end of a data connection have no timeout: for *)
(* somebody to connect, for the rest of an upload, and for a reader of     *)
(* what is sent.                                                           *)
AwaitsDataPeer(c) ==
  \/ pc[c] = "accept" /\ queue[waitOn[c]] = <<>>
  \/ pc[c] = "copyIn" /\ ~Broken(local[c]) /\ far[local[c]] # "fin"
  \/ pc[c] \in {"opened", "copyOut"} /\ Stuck(local[c])

(* In the end every handler whose peer has gone has ended, or it stays in  *)
(* one of these three waits.                                               *)
GoneHandlerEnds ==
  <>[]( \A c \in Client :
          peer[c] = "gone" => pc[c] \in {"refused", "done"} \/ AwaitsDataPeer(c) )
===============================================================================
