---------------------------- MODULE FTPServerProofs ----------------------------
(* Proofs of safety properties of FTPServer, for any number of sessions,   *)
(* names, commands, listeners and restarts.                                *)
EXTENDS FTPServer, FiniteSetTheorems, TLAPS

(***************************************************************************)
(* Types.                                                                  *)
(***************************************************************************)
(* While some listener is unused the next number is one of a listener.     *)
LEMMA NextListenerType ==
  ASSUME CanListen PROVE NextListener \in Listener
<1> DEFINE used == {l \in Listener : data[l] # "none"}
<1>1. IsFiniteSet(Listener) /\ Cardinality(Listener) = MaxListeners
  BY ConstantsAssumption, FS_Interval DEF Listener
<1>2. PICK l \in Listener : data[l] = "none"
  BY DEF CanListen
<1>3. used \in SUBSET Listener /\ used # Listener
  BY <1>2
<1>4. IsFiniteSet(used) /\ Cardinality(used) <= Cardinality(Listener)
      /\ Cardinality(Listener) # Cardinality(used)
  BY <1>1, <1>3, FS_Subset
<1>5. Cardinality(used) \in Nat
  BY <1>4, FS_CardinalityType
<1> QED
  BY <1>1, <1>4, <1>5, ConstantsAssumption DEF NextListener, Listener

(* What a handler or a loop has settled before it uses it ...             *)
PathSettled ==
  \A c \in Client :
    /\ xfer[c] = "STOR" => path[c] \in Path
    /\ pc[c] \in {"moveFile", "moveDir", "zipping", "copyIn"} => path[c] \in Path
    /\ pc[c] = "moveDir" => path[c][1] = Root
ListenerSettled == \A c \in Client : pc[c] = "accept" => waitOn[c] \in Listener
ClientSettled == \A k \in Loop : loop[k] = "store" => loopClient[k] \in Client

(* ... and every file is in a directory.                                   *)
FilesHaveDirs == \A p \in DOMAIN fs : Exists(p[1])

Prepared == PathSettled /\ ListenerSettled /\ ClientSettled /\ FilesHaveDirs

(* The initial state is well formed. *)
LEMMA InitTypes == Init => TypeOK /\ Prepared
<1> SUFFICES ASSUME Init PROVE TypeOK /\ Prepared
  OBVIOUS
<1> USE ConstantsAssumption DEF Init
<1>1. /\ isRunning \in BOOLEAN /\ gen \in Loop /\ starts \in 0..MaxStarts
      /\ control \in [Loop -> {"new", "listening", "stopped"}]
      /\ loop \in [Loop -> {"idle", "check", "accept", "store", "done"}]
      /\ loopAt \in [Loop -> Loop]
      /\ loopClient \in [Loop -> Client \cup {NoClient}]
      /\ app \in {"idle", "snapshot", "awaiting", "stopped"}
      /\ snap \subseteq Client /\ clients \subseteq Client
  <2>1. 1 \in Loop /\ starts \in 0..MaxStarts
    BY DEF Loop
  <2> QED
    BY <2>1
<1>2. /\ cwd \in [Client -> Dir]
      /\ pc \in [Client -> HandlerPc]
      /\ peer \in [Client -> {"open", "gone"}]
      /\ cmds \in [Client -> 0..MaxCommands]
  BY DEF Dir, HandlerPc
<1>3. /\ dataListener \in 0..MaxListeners
      /\ data \in [Listener -> {"none", "new", "listening", "stopped"}]
      /\ queue \in [Listener -> Seq(Conn)]
      /\ waitOn \in [Client -> 0..MaxListeners]
      /\ told \in [Client -> 0..MaxListeners]
      /\ base \in [Client -> 0..MaxConns] /\ conns \in [Client -> 0..MaxConns]
  OBVIOUS
<1>4. /\ conn \in [Conn -> {"none", "queued", "open", "closed"}]
      /\ far \in [Conn -> {"open", "fin", "reset", "stuck"}]
      /\ pushed \in [Conn -> 0..MaxChunks] /\ taken \in [Conn -> 0..MaxChunks]
      /\ dataClient \in Conn \cup {NoConn}
      /\ local \in [Client -> Conn \cup {NoConn}]
      /\ xfer \in [Client -> {"none", "LIST", "STOR", "RETR"}]
      /\ acked \in [Client -> BOOLEAN]
  OBVIOUS
<1>5. DOMAIN fs \subseteq Path /\ \A p \in DOMAIN fs : fs[p] \in Seq(Piece)
  BY DEF Piece
<1>6. /\ path \in [Client -> Path \cup {NoPath}]
      /\ dirs \subseteq Name
      /\ renameFrom \in Path \cup {NoPath}
      /\ erased \subseteq Piece
  OBVIOUS
<1>7. Prepared
  BY DEF Prepared, PathSettled, ListenerSettled, ClientSettled, FilesHaveDirs, Exists
<1> QED
  BY <1>1, <1>2, <1>3, <1>4, <1>5, <1>6, <1>7 DEF TypeOK, ServerTypes, HandlerTypes,
     DataTypes, DiskTypes

(* A new listener in the field.                                            *)
LEMMA ListenType ==
  ASSUME DataTypes, CanListen, NEW v \in {"new", "listening"},
         dataListener' = NextListener, data' = [data EXCEPT ![NextListener] = v]
  PROVE  /\ dataListener' \in 0..MaxListeners
         /\ data' \in [Listener -> {"none", "new", "listening", "stopped"}]
<1>1. NextListener \in Listener
  BY NextListenerType
<1> QED
  BY <1>1, ConstantsAssumption DEF DataTypes, Listener

(* CheckConnection leaves a listener of its type. *)
LEMMA CheckConnectionType ==
  ASSUME DataTypes, HandlerTypes, NEW c \in Client, NEW next \in HandlerPc,
         CheckConnection(c, next)
  PROVE  /\ dataListener' \in 0..MaxListeners
         /\ data' \in [Listener -> {"none", "new", "listening", "stopped"}]
         /\ pc' \in [Client -> HandlerPc]
         /\ \A d \in Client : pc'[d] = pc[d] \/ (d = c /\ pc'[d] \in {next, "starting"})
<1>1. CASE dataListener # 0
  BY <1>1 DEF CheckConnection, DataTypes, HandlerTypes, Goto
<1>2. CASE dataListener = 0
  <2>1. CanListen /\ Goto(c, "starting")
    BY <1>2 DEF CheckConnection
  <2>2. /\ dataListener' = NextListener
        /\ data' = [data EXCEPT ![NextListener] = "new"]
    BY <1>2 DEF CheckConnection
  <2>3. "starting" \in HandlerPc
    BY DEF HandlerPc
  <2> QED
    BY <2>1, <2>2, <2>3, ListenType DEF HandlerTypes, Goto
<1> QED
  BY <1>1, <1>2

(* Starting a listener leaves it a listener. *)
LEMMA StartDataType ==
  ASSUME DataTypes, NEW l, StartData(l)
  PROVE  data' \in [Listener -> {"none", "new", "listening", "stopped"}]
  BY DEF StartData, DataTypes

(* The file a name stands for in a client's directory, and in the root. *)
LEMMA PathOf ==
  ASSUME HandlerTypes, NEW c \in Client, NEW n \in Name
  PROVE  <<cwd[c], n>> \in Path /\ <<Root, n>> \in Path
  BY DEF HandlerTypes, Path, Dir

(* What files hold are pieces. *)
LEMMA ContentsType ==
  ASSUME DiskTypes, NEW ps \in SUBSET DOMAIN fs
  PROVE  Contents(ps) \subseteq Piece
<1> SUFFICES ASSUME NEW p \in ps PROVE Range(fs[p]) \subseteq Piece
  BY DEF Contents
<1>1. fs[p] \in Seq(Piece)
  BY DEF DiskTypes
<1> QED
  BY <1>1 DEF Range

(* Files remain files when one is put among them or some are taken out.    *)
LEMMA PutType ==
  ASSUME NEW g, DOMAIN g \subseteq Path, \A q \in DOMAIN g : g[q] \in Seq(Piece),
         NEW p \in Path, NEW content \in Seq(Piece)
  PROVE  /\ DOMAIN Put(g, p, content) \subseteq Path
         /\ \A q \in DOMAIN Put(g, p, content) : Put(g, p, content)[q] \in Seq(Piece)
  BY DEF Put

(* Files remain files when some are taken out. *)
LEMMA WithoutType ==
  ASSUME NEW g, DOMAIN g \subseteq Path, \A q \in DOMAIN g : g[q] \in Seq(Piece),
         NEW ps
  PROVE  /\ DOMAIN Without(g, ps) \subseteq Path
         /\ \A q \in DOMAIN Without(g, ps) : Without(g, ps)[q] \in Seq(Piece)
  BY DEF Without

(* A directory is renamed: every file of it gets a new path and keeps its  *)
(* content, if no file was where it goes.                                  *)
LEMMA RebaseBack ==
  ASSUME NEW q \in Path, NEW old \in Name, NEW new \in Name, q[1] # new
  PROVE  /\ Rebase(q, old, new) \in Path
         /\ Rebase(Rebase(q, old, new), new, old) = q
  BY DEF Rebase, Path, Dir

(* Every variable keeps its type.                                          *)
LEMMA TypeStep ==
  ASSUME TypeOK, Prepared, [Next]_vars PROVE TypeOK'
<1>0. ServerTypes /\ HandlerTypes /\ DataTypes /\ DiskTypes
  BY DEF TypeOK
<1> USE ConstantsAssumption DEF loopVars, stopVars, dictVars, peerVars,
      listenVars, toldVars, connVars, xferVars, fileVars, renameVars,
      serverVars, dataVars, diskVars, restVars
<1>1. ASSUME Start PROVE TypeOK'
  <2>1. ServerTypes'
    <3>1. starts' \in 0..MaxStarts
      BY <1>0, <1>1 DEF ServerTypes, Start
    <3>2. control' \in [Loop -> {"new", "listening", "stopped"}]
          /\ loop' \in [Loop -> {"idle", "check", "accept", "store", "done"}]
      BY <1>0, <1>1 DEF ServerTypes, Start
    <3> QED
      BY <1>0, <1>1, <3>1, <3>2 DEF ServerTypes, Start
  <2>2. HandlerTypes'
    BY <1>0, <1>1 DEF HandlerTypes, Start, HandlerPc, Goto, Reads, Move
  <2>3. DataTypes'
    BY <1>0, <1>1 DEF DataTypes, Start, Reads, Move
  <2>4. DiskTypes'
    BY <1>0, <1>1 DEF DiskTypes, Start, Reads, Move
  <2> QED
    BY <2>1, <2>2, <2>3, <2>4 DEF TypeOK
<1>2. ASSUME NEW k \in Loop, CheckRunning(k) PROVE TypeOK'
  BY <1>0, <1>2 DEF CheckRunning, TypeOK, ServerTypes, HandlerTypes, DataTypes,
     DiskTypes, HandlerPc, Goto, Reads, Move
<1>3. ASSUME NEW k \in Loop, NEW c \in Client, Accept(k, c) PROVE TypeOK'
  BY <1>0, <1>3 DEF Accept, TypeOK, ServerTypes, HandlerTypes, DataTypes,
     DiskTypes, HandlerPc, Goto, Reads, Move
<1>4. ASSUME NEW k \in Loop, Store(k) PROVE TypeOK'
  <2>1. ServerTypes'
    <3>1. loopClient[k] \in Client
      BY <1>4 DEF Prepared, ClientSettled, Store
    <3> QED
      BY <1>0, <1>4, <3>1 DEF ServerTypes, Store
  <2>2. HandlerTypes'
    BY <1>0, <1>4 DEF HandlerTypes, Store, HandlerPc, Goto, Reads, Move
  <2>3. DataTypes'
    BY <1>0, <1>4 DEF DataTypes, Store, Reads, Move
  <2>4. DiskTypes'
    BY <1>0, <1>4 DEF DiskTypes, Store, Reads, Move
  <2> QED
    BY <2>1, <2>2, <2>3, <2>4 DEF TypeOK
<1>5. ASSUME NEW k \in Loop, AcceptFails(k) PROVE TypeOK'
  BY <1>0, <1>5 DEF AcceptFails, TypeOK, ServerTypes, HandlerTypes, DataTypes,
     DiskTypes, HandlerPc, Goto, Reads, Move
<1>6. ASSUME StopBegin PROVE TypeOK'
  BY <1>0, <1>6 DEF StopBegin, TypeOK, ServerTypes, HandlerTypes, DataTypes,
     DiskTypes, HandlerPc, Goto, Reads, Move
<1>7. ASSUME StopSnapshot PROVE TypeOK'
  BY <1>0, <1>7 DEF StopSnapshot, TypeOK, ServerTypes, HandlerTypes, DataTypes,
     DiskTypes, HandlerPc, Goto, Reads, Move
<1>8. ASSUME StopReturns PROVE TypeOK'
  BY <1>0, <1>8 DEF StopReturns, TypeOK, ServerTypes, HandlerTypes, DataTypes,
     DiskTypes, HandlerPc, Goto, Reads, Move
<1>9. ASSUME Setup PROVE TypeOK'
  <2>1. ServerTypes'
    <3>1. gen' \in Loop
      BY <1>0, <1>9 DEF ServerTypes, Setup, Loop
    <3> QED
      BY <1>0, <1>9, <3>1 DEF ServerTypes, Setup
  <2>2. HandlerTypes'
    BY <1>0, <1>9 DEF HandlerTypes, Setup, HandlerPc, Goto, Reads, Move
  <2>3. DataTypes'
    BY <1>0, <1>9 DEF DataTypes, Setup, Reads, Move
  <2>4. DiskTypes'
    BY <1>0, <1>9 DEF DiskTypes, Setup, Reads, Move
  <2> QED
    BY <2>1, <2>2, <2>3, <2>4 DEF TypeOK
<1>10. ASSUME NEW c \in Client, Connect(c) PROVE TypeOK'
  BY <1>0, <1>10 DEF Connect, TypeOK, ServerTypes, HandlerTypes, DataTypes,
     DiskTypes, HandlerPc, Goto, Reads, Move
<1>11. ASSUME NEW c \in Client, Disconnect(c) PROVE TypeOK'
  BY <1>0, <1>11 DEF Disconnect, TypeOK, ServerTypes, HandlerTypes, DataTypes,
     DiskTypes, HandlerPc, Goto, Reads, Move
<1>12. ASSUME NEW c \in Client, DataConnect(c) PROVE TypeOK'
  <2>1. ServerTypes'
    BY <1>0, <1>12 DEF ServerTypes, DataConnect, Move
  <2>2. HandlerTypes'
    BY <1>0, <1>12 DEF HandlerTypes, DataConnect, HandlerPc, Goto, Reads, Move
  <2>3. DataTypes'
    <3>1. told[c] \in Listener /\ told' \in [Client -> 0..MaxListeners]
      BY <1>0, <1>12 DEF DataTypes, DataConnect, Listener
    <3>2. CASE data[told[c]] = "listening"
      <4> DEFINE x == <<c, conns[c] + 1>>
      <4>1. conns[c] + 1 \in 1..MaxConns
        BY <1>0, <1>12 DEF DataTypes, DataConnect
      <4>2. x \in Conn
        BY <4>1 DEF Conn
      <4>3. conns' = [conns EXCEPT ![c] = @ + 1]
            /\ queue' = [queue EXCEPT ![told[c]] = Append(@, x)]
            /\ conn' = [conn EXCEPT ![x] = "queued"]
        BY <1>12, <3>2 DEF DataConnect
      <4> HIDE DEF x
      <4>4. conns' \in [Client -> 0..MaxConns]
        BY <1>0, <4>1, <4>3 DEF DataTypes
      <4>5. queue' \in [Listener -> Seq(Conn)]
        BY <1>0, <3>1, <4>2, <4>3 DEF DataTypes
      <4>6. conn' \in [Conn -> {"none", "queued", "open", "closed"}]
        BY <1>0, <4>3 DEF DataTypes
      <4> QED
        BY <1>0, <1>12, <3>1, <4>4, <4>5, <4>6 DEF DataTypes, DataConnect
    <3>3. CASE data[told[c]] # "listening"
      BY <1>0, <1>12, <3>1, <3>3 DEF DataTypes, DataConnect
    <3> QED
      BY <3>2, <3>3
  <2>4. DiskTypes'
    BY <1>0, <1>12 DEF DiskTypes, DataConnect, Reads, Move
  <2> QED
    BY <2>1, <2>2, <2>3, <2>4 DEF TypeOK
<1>13. ASSUME NEW x \in Conn, DataPush(x) PROVE TypeOK'
  <2>1. ServerTypes'
    BY <1>0, <1>13 DEF ServerTypes, DataPush, Move
  <2>2. HandlerTypes'
    BY <1>0, <1>13 DEF HandlerTypes, DataPush, HandlerPc, Goto, Reads, Move
  <2>3. DataTypes'
    BY <1>0, <1>13 DEF DataTypes, DataPush, Reads, Move
  <2>4. DiskTypes'
    BY <1>0, <1>13 DEF DiskTypes, DataPush, Reads, Move
  <2> QED
    BY <2>1, <2>2, <2>3, <2>4 DEF TypeOK
<1>14. ASSUME NEW x \in Conn, NEW how \in {"fin", "reset"}, DataEnds(x, how) PROVE TypeOK'
  BY <1>0, <1>14 DEF DataEnds, TypeOK, ServerTypes, HandlerTypes, DataTypes,
     DiskTypes, HandlerPc, Goto, Reads, Move
<1>15. ASSUME NEW c \in Client, Welcome(c) PROVE TypeOK'
  <2>1. ServerTypes'
    BY <1>0, <1>15 DEF ServerTypes, Welcome, Move
  <2>2. HandlerTypes'
    <3>1. Root \in Dir
      BY DEF Dir
    <3> QED
      BY <1>0, <1>15, <3>1 DEF HandlerTypes, Welcome, HandlerPc, Goto
  <2>3. DataTypes'
    BY <1>0, <1>15 DEF DataTypes, Welcome, Reads, Move
  <2>4. DiskTypes'
    BY <1>0, <1>15 DEF DiskTypes, Welcome, Reads, Move
  <2> QED
    BY <2>1, <2>2, <2>3, <2>4 DEF TypeOK
<1>16. ASSUME NEW c \in Client, Reply(c) PROVE TypeOK'
  BY <1>0, <1>16 DEF Reply, TypeOK, ServerTypes, HandlerTypes, DataTypes,
     DiskTypes, HandlerPc, Goto, Reads, Move
<1>17. ASSUME NEW c \in Client, ReplyFails(c) PROVE TypeOK'
  <2>1. ServerTypes'
    BY <1>0, <1>17 DEF ServerTypes, ReplyFails, Move
  <2>2. HandlerTypes'
    BY <1>0, <1>17 DEF HandlerTypes, ReplyFails, HandlerPc, Goto, Reads, Move
  <2>3. DataTypes'
    BY <1>0, <1>17 DEF DataTypes, ReplyFails, Reads, Move
  <2>4. DiskTypes'
    BY <1>0, <1>17 DEF DiskTypes, ReplyFails, Reads, Move
  <2> QED
    BY <2>1, <2>2, <2>3, <2>4 DEF TypeOK
<1>18. ASSUME NEW c \in Client, LoopTest(c) PROVE TypeOK'
  BY <1>0, <1>18 DEF LoopTest, TypeOK, ServerTypes, HandlerTypes, DataTypes,
     DiskTypes, HandlerPc, Goto, Reads, Move
<1>19. ASSUME NEW c \in Client, EndOfStream(c) PROVE TypeOK'
  BY <1>0, <1>19 DEF EndOfStream, TypeOK, ServerTypes, HandlerTypes, DataTypes,
     DiskTypes, HandlerPc, Goto, Reads, Move
<1>20. ASSUME NEW c \in Client, Leave(c) PROVE TypeOK'
  <2>1. ServerTypes'
    BY <1>0, <1>20 DEF ServerTypes, Leave, Move
  <2>2. HandlerTypes'
    <3>1. Root \in Dir
      BY DEF Dir
    <3> QED
      BY <1>0, <1>20, <3>1 DEF HandlerTypes, Leave, HandlerPc, Goto
  <2>3. DataTypes'
    BY <1>0, <1>20 DEF DataTypes, Leave, Reads, Move
  <2>4. DiskTypes'
    BY <1>0, <1>20 DEF DiskTypes, Leave, Reads, Move
  <2> QED
    BY <2>1, <2>2, <2>3, <2>4 DEF TypeOK
<1>21. ASSUME NEW c \in Client, PasvStart(c) PROVE TypeOK'
  <2>1. ServerTypes'
    BY <1>0, <1>21 DEF ServerTypes, PasvStart, Move
  <2>2. HandlerTypes'
    BY <1>0, <1>21 DEF HandlerTypes, PasvStart, HandlerPc, Goto, Reads, Move
  <2>3. DataTypes'
    <3>1. data' \in [Listener -> {"none", "new", "listening", "stopped"}]
      BY <1>0, <1>21, StartDataType DEF PasvStart
    <3> QED
      BY <1>0, <1>21, <3>1 DEF DataTypes, PasvStart
  <2>4. DiskTypes'
    BY <1>0, <1>21 DEF DiskTypes, PasvStart, Reads, Move
  <2> QED
    BY <2>1, <2>2, <2>3, <2>4 DEF TypeOK
<1>22. ASSUME NEW c \in Client, PasvFails(c) PROVE TypeOK'
  BY <1>0, <1>22 DEF PasvFails, TypeOK, ServerTypes, HandlerTypes, DataTypes,
     DiskTypes, HandlerPc, Goto, Reads, Move
<1>23. ASSUME NEW c \in Client, PortStop(c) PROVE TypeOK'
  <2>1. ServerTypes'
    BY <1>0, <1>23 DEF ServerTypes, PortStop, Refused, Move
  <2>2. HandlerTypes'
    BY <1>0, <1>23 DEF HandlerTypes, PortStop, Refused, HandlerPc, Goto, Reads, Move
  <2>3. DataTypes'
    <3>1. CASE dataListener = 0
      BY <1>0, <1>23, <3>1 DEF DataTypes, PortStop
    <3>2. CASE dataListener # 0
      <4>1. data' \in [Listener -> {"none", "new", "listening", "stopped"}]
        BY <1>0, <1>23, <3>2 DEF DataTypes, PortStop
      <4>2. conn' \in [Conn -> {"none", "queued", "open", "closed"}]
        BY <1>0, <1>23, <3>2 DEF DataTypes, PortStop, Refused
      <4>3. queue' = [queue EXCEPT ![dataListener] = <<>>] /\ <<>> \in Seq(Conn)
        BY <1>23, <3>2 DEF PortStop
      <4>4. queue' \in [Listener -> Seq(Conn)]
        BY <1>0, <4>3 DEF DataTypes
      <4> QED
        BY <1>0, <1>23, <4>1, <4>2, <4>4 DEF DataTypes, PortStop
    <3> QED
      BY <3>1, <3>2
  <2>4. DiskTypes'
    BY <1>0, <1>23 DEF DiskTypes, PortStop, Refused, Reads, Move
  <2> QED
    BY <2>1, <2>2, <2>3, <2>4 DEF TypeOK
<1>24. ASSUME NEW c \in Client, AwaitData(c) PROVE TypeOK'
  BY <1>0, <1>24 DEF AwaitData, TypeOK, ServerTypes, HandlerTypes, DataTypes,
     DiskTypes, HandlerPc, Goto, Reads, Move
<1>25. ASSUME NEW c \in Client, AwaitDataFails(c) PROVE TypeOK'
  BY <1>0, <1>25 DEF AwaitDataFails, TypeOK, ServerTypes, HandlerTypes, DataTypes,
     DiskTypes, HandlerPc, Goto, Reads, Move
<1>26. ASSUME NEW c \in Client, AcceptData(c) PROVE TypeOK'
  <2>1. ServerTypes'
    BY <1>0, <1>26 DEF ServerTypes, AcceptData, Move
  <2>2. HandlerTypes'
    BY <1>0, <1>26 DEF HandlerTypes, AcceptData, HandlerPc, Goto, Reads, Move
  <2>3. DataTypes'
    <3>1. waitOn[c] \in Listener /\ queue[waitOn[c]] # <<>>
      BY <1>26 DEF Prepared, ListenerSettled, AcceptData
    <3>2. queue[waitOn[c]] \in Seq(Conn)
      BY <1>0, <3>1 DEF DataTypes
    <3>3. Head(queue[waitOn[c]]) \in Conn /\ Tail(queue[waitOn[c]]) \in Seq(Conn)
      BY <3>1, <3>2
    <3>4. dataClient' \in Conn \cup {NoConn}
      BY <1>26, <3>3 DEF AcceptData
    <3>5. queue' \in [Listener -> Seq(Conn)]
      BY <1>0, <1>26, <3>1, <3>3 DEF DataTypes, AcceptData
    <3>6. conn' \in [Conn -> {"none", "queued", "open", "closed"}]
      BY <1>0, <1>26 DEF DataTypes, AcceptData
    <3> QED
      BY <1>0, <1>26, <3>4, <3>5, <3>6 DEF DataTypes, AcceptData
  <2>4. DiskTypes'
    BY <1>0, <1>26 DEF DiskTypes, AcceptData, Reads, Move
  <2> QED
    BY <2>1, <2>2, <2>3, <2>4 DEF TypeOK
<1>27. ASSUME NEW c \in Client, AcceptDataFails(c) PROVE TypeOK'
  BY <1>0, <1>27 DEF AcceptDataFails, TypeOK, ServerTypes, HandlerTypes, DataTypes,
     DiskTypes, HandlerPc, Goto, Reads, Move
<1>28. ASSUME NEW c \in Client, GetStream(c) PROVE TypeOK'
  BY <1>0, <1>28 DEF GetStream, TypeOK, ServerTypes, HandlerTypes, DataTypes,
     DiskTypes, HandlerPc, Goto, Reads, Move
<1>29. ASSUME NEW c \in Client, GetStreamFails(c) PROVE TypeOK'
  BY <1>0, <1>29 DEF GetStreamFails, TypeOK, ServerTypes, HandlerTypes, DataTypes,
     DiskTypes, HandlerPc, Goto, Reads, Move
<1>30. ASSUME NEW c \in Client, SendListing(c) PROVE TypeOK'
  BY <1>0, <1>30 DEF SendListing, TypeOK, ServerTypes, HandlerTypes, DataTypes,
     DiskTypes, HandlerPc, Goto, Reads, Move
<1>31. ASSUME NEW c \in Client, CreateFile(c) PROVE TypeOK'
  <2>1. ServerTypes'
    BY <1>0, <1>31 DEF ServerTypes, CreateFile, Put, Contents, Move
  <2>2. HandlerTypes'
    BY <1>0, <1>31 DEF HandlerTypes, CreateFile, Put, Contents, HandlerPc, Goto, Reads, Move
  <2>3. DataTypes'
    BY <1>0, <1>31 DEF DataTypes, CreateFile, Put, Contents, Reads, Move
  <2>4. DiskTypes'
    <3>1. path[c] \in Path
      BY <1>31 DEF Prepared, PathSettled, CreateFile
    <3>2. <<>> \in Seq(Piece)
      OBVIOUS
    <3>3. Contents({path[c]} \cap DOMAIN fs) \subseteq Piece
      BY <1>0, ContentsType
    <3>4. fs' = Put(fs, path[c], <<>>)
          /\ erased' = erased \cup Contents({path[c]} \cap DOMAIN fs)
      BY <1>31 DEF CreateFile
    <3>5. DOMAIN fs' \subseteq Path /\ \A p \in DOMAIN fs' : fs'[p] \in Seq(Piece)
      BY <1>0, <3>1, <3>2, <3>4, PutType DEF DiskTypes
    <3> QED
      BY <1>0, <1>31, <3>3, <3>4, <3>5 DEF DiskTypes, CreateFile
  <2> QED
    BY <2>1, <2>2, <2>3, <2>4 DEF TypeOK
<1>32. ASSUME NEW c \in Client, CreateFileFails(c) PROVE TypeOK'
  BY <1>0, <1>32 DEF CreateFileFails, TypeOK, ServerTypes, HandlerTypes, DataTypes,
     DiskTypes, HandlerPc, Goto, Reads, Move
<1>33. ASSUME NEW c \in Client, CopyIn(c) PROVE TypeOK'
  <2>1. ServerTypes'
    BY <1>0, <1>33 DEF ServerTypes, CopyIn, Move
  <2>2. HandlerTypes'
    BY <1>0, <1>33 DEF HandlerTypes, CopyIn, HandlerPc, Goto, Reads, Move
  <2>3. DataTypes'
    <3>1. taken' \in [Conn -> 0..MaxChunks]
      <4>1. taken' = [taken EXCEPT ![local[c]] = @ + 1] /\ taken[local[c]] < pushed[local[c]]
        BY <1>33 DEF CopyIn
      <4>2. taken \in [Conn -> 0..MaxChunks] /\ pushed \in [Conn -> 0..MaxChunks]
        BY <1>0 DEF DataTypes
      <4>3. CASE local[c] \in Conn
        <5>1. taken[local[c]] + 1 \in 0..MaxChunks
          BY <4>1, <4>2, <4>3
        <5> QED
          BY <4>1, <4>2, <5>1
      <4>4. CASE local[c] \notin Conn
        BY <4>1, <4>2, <4>4
      <4> QED
        BY <4>3, <4>4
    <3> QED
      BY <1>0, <1>33, <3>1 DEF DataTypes, CopyIn
  <2>4. DiskTypes'
    <3>1. local[c] \in Piece
      BY <1>0 DEF DataTypes, Piece
    <3>2. fs' = [fs EXCEPT ![path[c]] = Append(@, local[c])]
      BY <1>33 DEF CopyIn
    <3>3. DOMAIN fs' = DOMAIN fs
      BY <3>2
    <3>4. ASSUME NEW p \in DOMAIN fs PROVE fs'[p] \in Seq(Piece)
      <4>1. fs[p] \in Seq(Piece)
        BY <1>0 DEF DiskTypes
      <4>2. Append(fs[p], local[c]) \in Seq(Piece)
        BY <3>1, <4>1
      <4>3. fs'[p] = IF p = path[c] THEN Append(fs[p], local[c]) ELSE fs[p]
        BY <3>2
      <4> QED
        BY <4>1, <4>2, <4>3
    <3> QED
      BY <1>0, <1>33, <3>3, <3>4 DEF DiskTypes, CopyIn
  <2> QED
    BY <2>1, <2>2, <2>3, <2>4 DEF TypeOK
<1>34. ASSUME NEW c \in Client, CopyEnds(c) PROVE TypeOK'
  BY <1>0, <1>34 DEF CopyEnds, EndOfData, Broken, TypeOK, ServerTypes, HandlerTypes,
     DataTypes, DiskTypes, HandlerPc, Goto, Reads, Move
<1>35. ASSUME NEW c \in Client, OpenFile(c) PROVE TypeOK'
  BY <1>0, <1>35 DEF OpenFile, TypeOK, ServerTypes, HandlerTypes, DataTypes,
     DiskTypes, HandlerPc, Goto, Reads, Move
<1>36. ASSUME NEW c \in Client, CopyOut(c) PROVE TypeOK'
  BY <1>0, <1>36 DEF CopyOut, Broken, TypeOK, ServerTypes, HandlerTypes, DataTypes,
     DiskTypes, HandlerPc, Goto, Reads, Move
<1>37. ASSUME NEW c \in Client, AnswerTransfer(c) PROVE TypeOK'
  BY <1>0, <1>37 DEF AnswerTransfer, TypeOK, ServerTypes, HandlerTypes, DataTypes,
     DiskTypes, HandlerPc, Goto, Reads, Move
<1>38. ASSUME NEW c \in Client, CloseData(c) PROVE TypeOK'
  BY <1>0, <1>38 DEF CloseData, TypeOK, ServerTypes, HandlerTypes, DataTypes,
     DiskTypes, HandlerPc, Goto, Reads, Move
<1>39. ASSUME NEW c \in Client, NullData(c) PROVE TypeOK'
  BY <1>0, <1>39 DEF NullData, TypeOK, ServerTypes, HandlerTypes, DataTypes,
     DiskTypes, HandlerPc, Goto, Reads, Move
<1>40. ASSUME NEW c \in Client, MoveFile(c) PROVE TypeOK'
  <2>1. ServerTypes'
    BY <1>0, <1>40 DEF ServerTypes, MoveFile, Put, Without, Move
  <2>2. HandlerTypes'
    BY <1>0, <1>40 DEF HandlerTypes, MoveFile, Put, Without, HandlerPc, Goto, Reads, Move
  <2>3. DataTypes'
    BY <1>0, <1>40 DEF DataTypes, MoveFile, Put, Without, Reads, Move
  <2>4. DiskTypes'
    <3>1. path[c] \in Path
      BY <1>40 DEF Prepared, PathSettled, MoveFile
    <3>2. renameFrom \in DOMAIN fs
      BY <1>40 DEF MoveFile, CanMoveFile, Kind, IsFile
    <3>3. fs[renameFrom] \in Seq(Piece)
      BY <1>0, <3>2 DEF DiskTypes
    <3>4. fs' = Put(Without(fs, {renameFrom}), path[c], fs[renameFrom])
      BY <1>40 DEF MoveFile
    <3>5. DOMAIN Without(fs, {renameFrom}) \subseteq Path
          /\ \A q \in DOMAIN Without(fs, {renameFrom}) :
               Without(fs, {renameFrom})[q] \in Seq(Piece)
      BY <1>0, WithoutType DEF DiskTypes
    <3>6. DOMAIN fs' \subseteq Path /\ \A p \in DOMAIN fs' : fs'[p] \in Seq(Piece)
      BY <3>1, <3>3, <3>4, <3>5, PutType
    <3> QED
      BY <1>0, <1>40, <3>6 DEF DiskTypes, MoveFile
  <2> QED
    BY <2>1, <2>2, <2>3, <2>4 DEF TypeOK
<1>41. ASSUME NEW c \in Client, MoveDir(c) PROVE TypeOK'
  <2>1. ServerTypes'
    BY <1>0, <1>41 DEF ServerTypes, MoveDir, Rebase, Move
  <2>2. HandlerTypes'
    BY <1>0, <1>41 DEF HandlerTypes, MoveDir, Rebase, HandlerPc, Goto, Reads, Move
  <2>3. DataTypes'
    BY <1>0, <1>41 DEF DataTypes, MoveDir, Rebase, Reads, Move
  <2>4. DiskTypes'
    <3>1. path[c] \in Path
      BY <1>41 DEF Prepared, PathSettled, MoveDir
    <3>2. path[c][2] \in Name
      BY <3>1 DEF Path
    <3>3. /\ renameFrom \in Path /\ path[c][1] = Root
          /\ path[c][2] \notin dirs
      BY <1>0, <1>41 DEF MoveDir, CanMoveDir, Kind, IsFile, Vacant, IsDir, DiskTypes,
         Prepared, PathSettled
    <3>4. renameFrom[2] \in Name
      BY <3>3 DEF Path
    <3> DEFINE old == renameFrom[2]
               new == path[c][2]
    <3>5. /\ fs' = [p \in {Rebase(q, old, new) : q \in DOMAIN fs} |-> fs[Rebase(p, new, old)]]
          /\ dirs' = (dirs \ {old}) \cup {new}
      BY <1>41 DEF MoveDir
    <3> HIDE DEF old, new
    <3>6. ASSUME NEW p \in DOMAIN fs' PROVE p \in Path /\ fs'[p] \in Seq(Piece)
      <4>1. PICK q \in DOMAIN fs : p = Rebase(q, old, new)
        BY <3>5, <3>6
      <4>2. q \in Path /\ Exists(q[1]) /\ fs[q] \in Seq(Piece)
        BY <1>0, <4>1 DEF DiskTypes, Prepared, FilesHaveDirs
      <4>3. q[1] # new /\ old \in Name /\ new \in Name
        BY <3>2, <3>3, <3>4, <4>2 DEF Exists, old, new
      <4>4. p \in Path /\ Rebase(p, new, old) = q
        BY <4>1, <4>2, <4>3, RebaseBack
      <4> QED
        BY <3>5, <3>6, <4>2, <4>4
    <3>7. dirs' \subseteq Name
      BY <1>0, <3>2, <3>5 DEF DiskTypes, new
    <3> QED
      BY <1>0, <1>41, <3>6, <3>7 DEF DiskTypes, MoveDir
  <2> QED
    BY <2>1, <2>2, <2>3, <2>4 DEF TypeOK
<1>42. ASSUME NEW c \in Client, RenameFails(c) PROVE TypeOK'
  <2>1. ServerTypes'
    BY <1>0, <1>42 DEF ServerTypes, RenameFails, Move
  <2>2. HandlerTypes'
    BY <1>0, <1>42 DEF HandlerTypes, RenameFails, HandlerPc, Goto, Reads, Move
  <2>3. DataTypes'
    BY <1>0, <1>42 DEF DataTypes, RenameFails, Reads, Move
  <2>4. DiskTypes'
    BY <1>0, <1>42 DEF DiskTypes, RenameFails, Reads, Move
  <2> QED
    BY <2>1, <2>2, <2>3, <2>4 DEF TypeOK
<1>43. ASSUME NEW c \in Client, Forget(c) PROVE TypeOK'
  BY <1>0, <1>43 DEF Forget, TypeOK, ServerTypes, HandlerTypes, DataTypes,
     DiskTypes, HandlerPc, Goto, Reads, Move
<1>44. ASSUME NEW c \in Client, XZipWrites(c) PROVE TypeOK'
  <2>1. ServerTypes'
    BY <1>0, <1>44 DEF ServerTypes, XZipWrites, Put, Move
  <2>2. HandlerTypes'
    BY <1>0, <1>44 DEF HandlerTypes, XZipWrites, Put, HandlerPc, Goto, Reads, Move
  <2>3. DataTypes'
    BY <1>0, <1>44 DEF DataTypes, XZipWrites, Put, Reads, Move
  <2>4. DiskTypes'
    <3>1. path[c] \in Path
      BY <1>44 DEF Prepared, PathSettled, XZipWrites
    <3>2. <<NoConn>> \in Seq(Piece)
      BY DEF Piece
    <3>3. fs' = Put(fs, path[c], <<NoConn>>)
      BY <1>44 DEF XZipWrites
    <3>4. DOMAIN fs' \subseteq Path /\ \A p \in DOMAIN fs' : fs'[p] \in Seq(Piece)
      BY <1>0, <3>1, <3>2, <3>3, PutType DEF DiskTypes
    <3> QED
      BY <1>0, <1>44, <3>4 DEF DiskTypes, XZipWrites
  <2> QED
    BY <2>1, <2>2, <2>3, <2>4 DEF TypeOK
<1>45. ASSUME NEW c \in Client, XZipFails(c) PROVE TypeOK'
  BY <1>0, <1>45 DEF XZipFails, TypeOK, ServerTypes, HandlerTypes, DataTypes,
     DiskTypes, HandlerPc, Goto, Reads, Move
<1>46. ASSUME NEW c \in Client, OnlyAnswer(c) PROVE TypeOK'
  <2>1. ServerTypes'
    BY <1>0, <1>46 DEF ServerTypes, OnlyAnswer, Move
  <2>2. HandlerTypes'
    BY <1>0, <1>46 DEF HandlerTypes, OnlyAnswer, HandlerPc, Goto, Reads, Move
  <2>3. DataTypes'
    BY <1>0, <1>46 DEF DataTypes, OnlyAnswer, Reads, Move
  <2>4. DiskTypes'
    BY <1>0, <1>46 DEF DiskTypes, OnlyAnswer, Reads, Move
  <2> QED
    BY <2>1, <2>2, <2>3, <2>4 DEF TypeOK
<1>47. ASSUME NEW c \in Client, Quit(c) PROVE TypeOK'
  <2>1. ServerTypes'
    BY <1>0, <1>47 DEF ServerTypes, Quit, Move
  <2>2. HandlerTypes'
    BY <1>0, <1>47 DEF HandlerTypes, Quit, HandlerPc, Goto, Reads, Move
  <2>3. DataTypes'
    BY <1>0, <1>47 DEF DataTypes, Quit, Reads, Move
  <2>4. DiskTypes'
    BY <1>0, <1>47 DEF DiskTypes, Quit, Reads, Move
  <2> QED
    BY <2>1, <2>2, <2>3, <2>4 DEF TypeOK
<1>48. ASSUME NEW c \in Client, Pasv(c) PROVE TypeOK'
  <2>1. ServerTypes'
    BY <1>0, <1>48 DEF ServerTypes, Pasv, Move
  <2>2. HandlerTypes'
    BY <1>0, <1>48 DEF HandlerTypes, Pasv, HandlerPc, Goto, Reads, Move
  <2>3. DataTypes'
    <3>1. /\ dataListener' \in 0..MaxListeners
          /\ data' \in [Listener -> {"none", "new", "listening", "stopped"}]
      BY <1>0, <1>48, ListenType DEF Pasv
    <3> QED
      BY <1>0, <1>48, <3>1 DEF DataTypes, Pasv
  <2>4. DiskTypes'
    BY <1>0, <1>48 DEF DiskTypes, Pasv, Reads, Move
  <2> QED
    BY <2>1, <2>2, <2>3, <2>4 DEF TypeOK
<1>49. ASSUME NEW c \in Client, Port(c) PROVE TypeOK'
  <2>1. ServerTypes'
    BY <1>0, <1>49 DEF ServerTypes, Port, Move
  <2>2. HandlerTypes'
    BY <1>0, <1>49 DEF HandlerTypes, Port, HandlerPc, Goto, Reads, Move
  <2>3. DataTypes'
    <3>1. /\ dataListener' \in 0..MaxListeners
          /\ data' \in [Listener -> {"none", "new", "listening", "stopped"}]
      BY <1>0, <1>49, ListenType DEF Port, DataTypes
    <3> QED
      BY <1>0, <1>49, <3>1 DEF DataTypes, Port
  <2>4. DiskTypes'
    BY <1>0, <1>49 DEF DiskTypes, Port, Reads, Move
  <2> QED
    BY <2>1, <2>2, <2>3, <2>4 DEF TypeOK
<1>50. ASSUME NEW c \in Client, List(c) PROVE TypeOK'
  <2>1. ServerTypes'
    BY <1>0, <1>50 DEF ServerTypes, List, Begin, Move
  <2>2. HandlerTypes'
    BY <1>0, <1>50 DEF HandlerTypes, List, Begin, HandlerPc, Goto, Reads, Move
  <2>3. DataTypes'
    BY <1>0, <1>50 DEF DataTypes, List, Begin, Reads, Move
  <2>4. DiskTypes'
    BY <1>0, <1>50 DEF DiskTypes, List, Begin, Reads, Move
  <2> QED
    BY <2>1, <2>2, <2>3, <2>4 DEF TypeOK
<1>51. ASSUME NEW c \in Client, NEW n \in Name, Stor(c, n) PROVE TypeOK'
  <2>1. ServerTypes'
    BY <1>0, <1>51 DEF ServerTypes, Stor, Begin, CheckConnection, Move
  <2>0. "opening" \in HandlerPc /\ CheckConnection(c, "opening")
    BY <1>51 DEF HandlerPc, Stor
  <2>2. HandlerTypes'
    BY <1>0, <1>51, <2>0, CheckConnectionType DEF HandlerTypes, Stor, Begin, Reads
  <2>3. DataTypes'
    <3>1. /\ dataListener' \in 0..MaxListeners
          /\ data' \in [Listener -> {"none", "new", "listening", "stopped"}]
      BY <1>0, <2>0, CheckConnectionType
    <3> QED
      BY <1>0, <1>51, <3>1 DEF DataTypes, Stor, Begin
  <2>4. DiskTypes'
    <3>1. <<cwd[c], n>> \in Path
      BY <1>0, PathOf
    <3> QED
      BY <1>0, <1>51, <3>1 DEF DiskTypes, Stor, Begin
  <2> QED
    BY <2>1, <2>2, <2>3, <2>4 DEF TypeOK
<1>52. ASSUME NEW c \in Client, NEW n \in Name, Retr(c, n) PROVE TypeOK'
  <2>1. ServerTypes'
    BY <1>0, <1>52 DEF ServerTypes, Retr, Begin, CheckConnection, Move
  <2>0. "opening" \in HandlerPc /\ CheckConnection(c, "opening")
    BY <1>52 DEF HandlerPc, Retr
  <2>2. HandlerTypes'
    BY <1>0, <1>52, <2>0, CheckConnectionType DEF HandlerTypes, Retr, Begin, Reads
  <2>3. DataTypes'
    <3>1. /\ dataListener' \in 0..MaxListeners
          /\ data' \in [Listener -> {"none", "new", "listening", "stopped"}]
      BY <1>0, <2>0, CheckConnectionType
    <3> QED
      BY <1>0, <1>52, <3>1 DEF DataTypes, Retr, Begin
  <2>4. DiskTypes'
    <3>1. <<cwd[c], n>> \in Path
      BY <1>0, PathOf
    <3> QED
      BY <1>0, <1>52, <3>1 DEF DiskTypes, Retr, Begin
  <2> QED
    BY <2>1, <2>2, <2>3, <2>4 DEF TypeOK
<1>53. ASSUME NEW c \in Client, NEW n \in Name, Mkd(c, n) PROVE TypeOK'
  <2>1. ServerTypes'
    BY <1>0, <1>53 DEF ServerTypes, Mkd, Move
  <2>2. HandlerTypes'
    BY <1>0, <1>53 DEF HandlerTypes, Mkd, HandlerPc, Goto, Reads, Move
  <2>3. DataTypes'
    BY <1>0, <1>53 DEF DataTypes, Mkd, Reads, Move
  <2>4. DiskTypes'
    BY <1>0, <1>53 DEF DiskTypes, Mkd, Reads, Move
  <2> QED
    BY <2>1, <2>2, <2>3, <2>4 DEF TypeOK
<1>54. ASSUME NEW c \in Client, NEW n \in Name, Rmd(c, n) PROVE TypeOK'
  <2>1. ServerTypes'
    BY <1>0, <1>54 DEF ServerTypes, Rmd, Without, Contents, Move
  <2>2. HandlerTypes'
    BY <1>0, <1>54 DEF HandlerTypes, Rmd, Without, Contents, HandlerPc, Goto, Reads, Move
  <2>3. DataTypes'
    BY <1>0, <1>54 DEF DataTypes, Rmd, Without, Contents, Reads, Move
  <2>4. DiskTypes'
    <3>1. PICK gone \in SUBSET Files(n) :
             /\ fs' = Without(fs, gone)
             /\ erased' = erased \cup Contents(gone)
             /\ dirs' \subseteq dirs
      BY <1>54 DEF Rmd
    <3>2. Contents(gone) \subseteq Piece
      BY <1>0, <3>1, ContentsType DEF Files
    <3>3. DOMAIN fs' \subseteq Path /\ \A p \in DOMAIN fs' : fs'[p] \in Seq(Piece)
      BY <1>0, <3>1, WithoutType DEF DiskTypes
    <3> QED
      BY <1>0, <1>54, <3>1, <3>2, <3>3 DEF DiskTypes, Rmd
  <2> QED
    BY <2>1, <2>2, <2>3, <2>4 DEF TypeOK
<1>55. ASSUME NEW c \in Client, NEW n \in Name, Dele(c, n) PROVE TypeOK'
  <2>1. ServerTypes'
    BY <1>0, <1>55 DEF ServerTypes, Dele, Without, Contents, Move
  <2>2. HandlerTypes'
    BY <1>0, <1>55 DEF HandlerTypes, Dele, Without, Contents, HandlerPc, Goto, Reads, Move
  <2>3. DataTypes'
    BY <1>0, <1>55 DEF DataTypes, Dele, Without, Contents, Reads, Move
  <2>4. DiskTypes'
    <3> DEFINE p == <<cwd[c], n>>
    <3>1. /\ p \in DOMAIN fs
          /\ fs' = Without(fs, {p})
          /\ erased' = erased \cup Contents({p})
      BY <1>55 DEF Dele, IsFile
    <3> HIDE DEF p
    <3>2. Contents({p}) \subseteq Piece
      BY <1>0, <3>1, ContentsType
    <3>3. DOMAIN fs' \subseteq Path /\ \A q \in DOMAIN fs' : fs'[q] \in Seq(Piece)
      BY <1>0, <3>1, WithoutType DEF DiskTypes
    <3> QED
      BY <1>0, <1>55, <3>1, <3>2, <3>3 DEF DiskTypes, Dele
  <2> QED
    BY <2>1, <2>2, <2>3, <2>4 DEF TypeOK
<1>56. ASSUME NEW c \in Client, NEW n \in Name, Rnfr(c, n) PROVE TypeOK'
  <2>1. ServerTypes'
    BY <1>0, <1>56 DEF ServerTypes, Rnfr, Move
  <2>2. HandlerTypes'
    BY <1>0, <1>56 DEF HandlerTypes, Rnfr, HandlerPc, Goto, Reads, Move
  <2>3. DataTypes'
    BY <1>0, <1>56 DEF DataTypes, Rnfr, Reads, Move
  <2>4. DiskTypes'
    <3>1. <<cwd[c], n>> \in Path
      BY <1>0, PathOf
    <3> QED
      BY <1>0, <1>56, <3>1 DEF DiskTypes, Rnfr
  <2> QED
    BY <2>1, <2>2, <2>3, <2>4 DEF TypeOK
<1>57. ASSUME NEW c \in Client, NEW n \in Name, Rnto(c, n) PROVE TypeOK'
  <2>1. ServerTypes'
    BY <1>0, <1>57 DEF ServerTypes, Rnto, Move
  <2>2. HandlerTypes'
    BY <1>0, <1>57 DEF HandlerTypes, Rnto, HandlerPc, Goto, Reads, Move
  <2>3. DataTypes'
    BY <1>0, <1>57 DEF DataTypes, Rnto, Reads, Move
  <2>4. DiskTypes'
    <3>1. <<cwd[c], n>> \in Path
      BY <1>0, PathOf
    <3> QED
      BY <1>0, <1>57, <3>1 DEF DiskTypes, Rnto
  <2> QED
    BY <2>1, <2>2, <2>3, <2>4 DEF TypeOK
<1>58. ASSUME NEW c \in Client, NEW n \in Name, XZip(c, n) PROVE TypeOK'
  <2>1. ServerTypes'
    BY <1>0, <1>58 DEF ServerTypes, XZip, Without, Contents, Move
  <2>2. HandlerTypes'
    BY <1>0, <1>58 DEF HandlerTypes, XZip, Without, Contents, HandlerPc, Goto, Reads, Move
  <2>3. DataTypes'
    BY <1>0, <1>58 DEF DataTypes, XZip, Without, Contents, Reads, Move
  <2>4. DiskTypes'
    <3> DEFINE p == <<Root, ZipOf[n]>>
    <3>1. /\ fs' = Without(fs, {p})
          /\ erased' = erased \cup Contents({p} \cap DOMAIN fs)
          /\ path' = [path EXCEPT ![c] = p]
      BY <1>58 DEF XZip
    <3>2. p \in Path
      BY <1>0, PathOf
    <3> HIDE DEF p
    <3>3. Contents({p} \cap DOMAIN fs) \subseteq Piece
      BY <1>0, ContentsType
    <3>4. DOMAIN fs' \subseteq Path /\ \A q \in DOMAIN fs' : fs'[q] \in Seq(Piece)
      BY <1>0, <3>1, WithoutType DEF DiskTypes
    <3> QED
      BY <1>0, <1>58, <3>1, <3>2, <3>3, <3>4 DEF DiskTypes, XZip
  <2> QED
    BY <2>1, <2>2, <2>3, <2>4 DEF TypeOK
<1>59. ASSUME NEW c \in Client, NEW d \in Dir, Cwd(c, d) PROVE TypeOK'
  <2>1. ServerTypes'
    BY <1>0, <1>59 DEF ServerTypes, Cwd, Move
  <2>2. HandlerTypes'
    BY <1>0, <1>59 DEF HandlerTypes, Cwd, HandlerPc, Goto, Reads, Move
  <2>3. DataTypes'
    BY <1>0, <1>59 DEF DataTypes, Cwd, Reads, Move
  <2>4. DiskTypes'
    BY <1>0, <1>59 DEF DiskTypes, Cwd, Reads, Move
  <2> QED
    BY <2>1, <2>2, <2>3, <2>4 DEF TypeOK
<1>70. ASSUME NEW c \in Client, TransferRefused(c) PROVE TypeOK'
  <2>0. "reply" \in HandlerPc /\ CheckConnection(c, "reply")
    BY <1>70 DEF HandlerPc, TransferRefused
  <2>1. ServerTypes'
    BY <1>0, <1>70 DEF ServerTypes, TransferRefused
  <2>2. HandlerTypes'
    BY <1>0, <1>70, <2>0, CheckConnectionType DEF HandlerTypes, TransferRefused, Reads
  <2>3. DataTypes'
    <3>1. /\ dataListener' \in 0..MaxListeners
          /\ data' \in [Listener -> {"none", "new", "listening", "stopped"}]
      BY <1>0, <2>0, CheckConnectionType
    <3> QED
      BY <1>0, <1>70, <3>1 DEF DataTypes, TransferRefused
  <2>4. DiskTypes'
    BY <1>0, <1>70 DEF DiskTypes, TransferRefused
  <2> QED
    BY <2>1, <2>2, <2>3, <2>4 DEF TypeOK
<1>71. ASSUME NEW c \in Client, ListChecks(c) PROVE TypeOK'
  <2>0. "opening" \in HandlerPc /\ CheckConnection(c, "opening")
    BY <1>71 DEF HandlerPc, ListChecks
  <2>1. ServerTypes'
    BY <1>0, <1>71 DEF ServerTypes, ListChecks
  <2>2. HandlerTypes'
    BY <1>0, <1>71, <2>0, CheckConnectionType DEF HandlerTypes, ListChecks, Reads
  <2>3. DataTypes'
    <3>1. /\ dataListener' \in 0..MaxListeners
          /\ data' \in [Listener -> {"none", "new", "listening", "stopped"}]
      BY <1>0, <2>0, CheckConnectionType
    <3> QED
      BY <1>0, <1>71, <3>1 DEF DataTypes, ListChecks
  <2>4. DiskTypes'
    BY <1>0, <1>71 DEF DiskTypes, ListChecks
  <2> QED
    BY <2>1, <2>2, <2>3, <2>4 DEF TypeOK
<1>72. ASSUME NEW c \in Client, PortStart(c) PROVE TypeOK'
  <2>1. ServerTypes'
    BY <1>0, <1>72 DEF ServerTypes, PortStart, Move
  <2>2. HandlerTypes'
    BY <1>0, <1>72 DEF HandlerTypes, PortStart, HandlerPc, Goto, Reads, Move
  <2>3. DataTypes'
    <3>1. data' \in [Listener -> {"none", "new", "listening", "stopped"}]
      BY <1>0, <1>72, StartDataType DEF PortStart, DataTypes
    <3> QED
      BY <1>0, <1>72, <3>1 DEF DataTypes, PortStart
  <2>4. DiskTypes'
    BY <1>0, <1>72 DEF DiskTypes, PortStart, Reads, Move
  <2> QED
    BY <2>1, <2>2, <2>3, <2>4 DEF TypeOK
<1>73. ASSUME NEW c \in Client, PortForget(c) PROVE TypeOK'
  <2>1. ServerTypes'
    BY <1>0, <1>73 DEF ServerTypes, PortForget, Move
  <2>2. HandlerTypes'
    BY <1>0, <1>73 DEF HandlerTypes, PortForget, HandlerPc, Goto, Reads, Move
  <2>3. DataTypes'
    BY <1>0, <1>73 DEF DataTypes, PortForget, Reads, Move
  <2>4. DiskTypes'
    BY <1>0, <1>73 DEF DiskTypes, PortForget, Reads, Move
  <2> QED
    BY <2>1, <2>2, <2>3, <2>4 DEF TypeOK
<1>74. ASSUME NEW c \in Client, StartChecked(c) PROVE TypeOK'
  <2>1. ServerTypes'
    BY <1>0, <1>74 DEF ServerTypes, StartChecked, Move
  <2>2. HandlerTypes'
    BY <1>0, <1>74 DEF HandlerTypes, StartChecked, HandlerPc, Goto, Reads, Move
  <2>3. DataTypes'
    <3>1. data' \in [Listener -> {"none", "new", "listening", "stopped"}]
      BY <1>0, <1>74, StartDataType DEF StartChecked
    <3> QED
      BY <1>0, <1>74, <3>1 DEF DataTypes, StartChecked
  <2>4. DiskTypes'
    BY <1>0, <1>74 DEF DiskTypes, StartChecked, Reads, Move
  <2> QED
    BY <2>1, <2>2, <2>3, <2>4 DEF TypeOK
<1>75. ASSUME NEW c \in Client, StartCheckedFails(c) PROVE TypeOK'
  <2>1. ServerTypes'
    BY <1>0, <1>75 DEF ServerTypes, StartCheckedFails, Move
  <2>2. HandlerTypes'
    BY <1>0, <1>75 DEF HandlerTypes, StartCheckedFails, HandlerPc, Goto, Reads, Move
  <2>3. DataTypes'
    BY <1>0, <1>75 DEF DataTypes, StartCheckedFails, Reads, Move
  <2>4. DiskTypes'
    BY <1>0, <1>75 DEF DiskTypes, StartCheckedFails, Reads, Move
  <2> QED
    BY <2>1, <2>2, <2>3, <2>4 DEF TypeOK
<1>76. ASSUME NEW x \in Conn, DataStalls(x) PROVE TypeOK'
  BY <1>0, <1>76 DEF DataStalls, TypeOK, ServerTypes, HandlerTypes, DataTypes,
     DiskTypes, HandlerPc
<1>60. CASE UNCHANGED vars
  BY <1>0, <1>60 DEF vars, TypeOK, ServerTypes, HandlerTypes, DataTypes, DiskTypes
<1>61. ASSUME NEW c \in Client, Handler(c) PROVE TypeOK'
  BY <1>15, <1>16, <1>17, <1>18, <1>19, <1>20, <1>21, <1>22, <1>23, <1>24, <1>25, <1>26,
     <1>27, <1>28, <1>29, <1>30, <1>31, <1>32, <1>33, <1>34, <1>35, <1>36, <1>37, <1>38,
     <1>39, <1>40, <1>41, <1>42, <1>43, <1>44, <1>45,
     <1>71, <1>72, <1>73, <1>74, <1>75, <1>61 DEF Handler
<1>62. ASSUME NEW c \in Client, Commanded(c) PROVE TypeOK'
  BY <1>46, <1>47, <1>48, <1>49, <1>50, <1>51, <1>52, <1>53, <1>54, <1>55, <1>56, <1>57,
     <1>58, <1>59,
     <1>70, <1>62 DEF Commanded
<1>63. CASE Peers
  BY <1>10, <1>11, <1>12, <1>13, <1>14, <1>76, <1>63 DEF Peers
<1>64. ASSUME NEW k \in Loop, Server(k) PROVE TypeOK'
  BY <1>2, <1>3, <1>4, <1>5, <1>64 DEF Server
<1>65. CASE Application
  BY <1>1, <1>6, <1>7, <1>8, <1>9, <1>65 DEF Application
<1> QED
  BY <1>60, <1>61, <1>62, <1>63, <1>64, <1>65 DEF Next

(***************************************************************************)
(* Frames: what the steps of one actor leave alone.                        *)
(***************************************************************************)
(* A handler, or a command to it, touches no accept loop.                  *)
LEMMA HandlerKeepsServer ==
  ASSUME NEW c \in Client, Handler(c) \/ Commanded(c)
  PROVE  UNCHANGED serverVars
<1> USE DEF dictVars, peerVars, dataVars, diskVars, restVars, Move, Reads, Begin
<1>1. CASE Handler(c)
  BY <1>1 DEF Handler, Welcome, Reply, ReplyFails, LoopTest, EndOfStream, Leave,
     PasvStart, PasvFails, PortStart, PortStop, PortForget, StartChecked,
     StartCheckedFails, ListChecks, CheckConnection, StartData, AwaitData,
     AwaitDataFails, AcceptData, AcceptDataFails, GetStream, GetStreamFails,
     SendListing, CreateFile, CreateFileFails, CopyIn, CopyEnds, OpenFile, CopyOut,
     AnswerTransfer, CloseData, NullData, MoveFile, MoveDir, RenameFails, Forget,
     XZipWrites, XZipFails
<1>2. CASE Commanded(c)
  BY <1>2 DEF Commanded, OnlyAnswer, Quit, Pasv, Port, TransferRefused, CheckConnection,
     List, Stor, Retr, Mkd, Rmd, Dele, Rnfr, Rnto, XZip, Cwd
<1> QED
  BY <1>1, <1>2

(* It touches none of what belongs to another handler.                     *)
LEMMA HandlerKeepsOthers ==
  ASSUME TypeOK, NEW c \in Client, Handler(c) \/ Commanded(c),
         NEW d \in Client, d # c
  PROVE  pc'[d] = pc[d] /\ path'[d] = path[d] /\ xfer'[d] = xfer[d]
         /\ local'[d] = local[d] /\ waitOn'[d] = waitOn[d] /\ acked'[d] = acked[d]
<1>0. /\ DOMAIN pc = Client /\ DOMAIN path = Client /\ DOMAIN xfer = Client
      /\ DOMAIN local = Client /\ DOMAIN waitOn = Client /\ DOMAIN acked = Client
  BY DEF TypeOK, HandlerTypes, DataTypes, DiskTypes
<1> USE <1>0 DEF restVars, dataVars, diskVars, listenVars, toldVars, connVars,
      xferVars, fileVars, renameVars, dictVars, Move, Reads, Begin, Goto
<1>1. CASE Handler(c)
  BY <1>1 DEF Handler, Welcome, Reply, ReplyFails, LoopTest, EndOfStream, Leave,
     PasvStart, PasvFails, PortStart, PortStop, PortForget, StartChecked,
     StartCheckedFails, ListChecks, CheckConnection, StartData, AwaitData,
     AwaitDataFails, AcceptData, AcceptDataFails, GetStream, GetStreamFails,
     SendListing, CreateFile, CreateFileFails, CopyIn, CopyEnds, OpenFile, CopyOut,
     AnswerTransfer, CloseData, NullData, MoveFile, MoveDir, RenameFails, Forget,
     XZipWrites, XZipFails
<1>2. CASE Commanded(c)
  BY <1>2 DEF Commanded, OnlyAnswer, Quit, Pasv, Port, TransferRefused, CheckConnection,
     List, Stor, Retr, Mkd, Rmd, Dele, Rnfr, Rnto, XZip, Cwd
<1> QED
  BY <1>1, <1>2

(* Peers, accept loops and the application touch neither files nor what a  *)
(* handler holds, and move a handler only as far as its first step.        *)
LEMMA OutsideKeepsHandlers ==
  ASSUME TypeOK, Peers \/ (\E k \in Loop : Server(k)) \/ Application \/ UNCHANGED vars
  PROVE  /\ UNCHANGED <<fileVars, renameVars, xferVars, waitOn>>
         /\ \A d \in Client : \/ pc'[d] = pc[d]
                              \/ /\ pc[d] \in {"absent", "backlog"}
                                 /\ pc'[d] \in {"backlog", "welcome", "refused"}
<1>0. DOMAIN pc = Client
  BY DEF TypeOK, HandlerTypes
<1> USE <1>0 DEF restVars, dataVars, diskVars, listenVars, toldVars, connVars,
      xferVars, fileVars, renameVars, vars, Move
<1>1. CASE Peers
  BY <1>1 DEF Peers, Connect, Disconnect, DataConnect, DataPush, DataStalls, DataEnds
<1>2. CASE \E k \in Loop : Server(k)
  BY <1>2 DEF Server, CheckRunning, Accept, Store, AcceptFails
<1>3. CASE Application
  BY <1>3 DEF Application, Start, StopBegin, StopSnapshot, StopReturns, Setup
<1> QED
  BY <1>1, <1>2, <1>3

(***************************************************************************)
(* Prepared is inductive, so the types are.                                *)
(***************************************************************************)
(* A handler's path is settled by the command it is in, and its listener   *)
(* when it starts to wait.                                                 *)
LEMMA SettledStep ==
  ASSUME TypeOK, Prepared, [Next]_vars
  PROVE  PathSettled' /\ ListenerSettled'
<1>0. /\ \A c \in Client : path[c] \in Path \cup {NoPath}
      /\ DOMAIN pc = Client /\ DOMAIN path = Client
      /\ DOMAIN xfer = Client /\ DOMAIN waitOn = Client
  BY DEF TypeOK, HandlerTypes, DataTypes, DiskTypes
<1>1. ASSUME Peers \/ (\E k \in Loop : Server(k)) \/ Application \/ UNCHANGED vars
      PROVE  PathSettled' /\ ListenerSettled'
  BY <1>1, OutsideKeepsHandlers DEF Prepared, PathSettled, ListenerSettled,
     renameVars, xferVars
<1>2. ASSUME NEW c \in Client, Handler(c) \/ Commanded(c)
      PROVE  PathSettled' /\ ListenerSettled'
  <2>1. ASSUME NEW d \in Client, d # c
        PROVE  pc'[d] = pc[d] /\ path'[d] = path[d] /\ xfer'[d] = xfer[d]
               /\ waitOn'[d] = waitOn[d]
    BY <1>2, <2>1, HandlerKeepsOthers
  <2> DEFINE P == /\ xfer'[c] = "STOR" => path'[c] \in Path
                  /\ pc'[c] \in {"moveFile", "moveDir", "zipping", "copyIn"}
                       => path'[c] \in Path
                  /\ pc'[c] = "moveDir" => path'[c][1] = Root
             L == pc'[c] = "accept" => waitOn'[c] \in Listener
  <2> USE <1>0 DEF Prepared, PathSettled, ListenerSettled, restVars, dataVars,
        diskVars, listenVars, xferVars, fileVars, renameVars, Move, Reads, Goto
  <2>2. CASE AwaitData(c)
    <3>1. P
      BY <2>2 DEF AwaitData
    <3>2. dataListener \in 0..MaxListeners /\ dataListener # 0
          /\ waitOn'[c] = dataListener
      BY <2>2 DEF AwaitData, TypeOK, DataTypes
    <3> QED
      BY <3>1, <3>2, <2>1, ConstantsAssumption DEF Listener
  <2>3. CASE NullData(c)
    BY <2>1, <2>3 DEF NullData
  <2>4. CASE CreateFile(c)
    BY <2>1, <2>4 DEF CreateFile
  <2>5. CASE Welcome(c) \/ Reply(c) \/ ReplyFails(c) \/ LoopTest(c)
             \/ EndOfStream(c) \/ Leave(c) \/ PasvStart(c) \/ PasvFails(c)
             \/ PortStart(c) \/ PortStop(c) \/ PortForget(c) \/ StartChecked(c)
             \/ StartCheckedFails(c) \/ ListChecks(c)
             \/ AwaitDataFails(c) \/ AcceptData(c)
             \/ AcceptDataFails(c) \/ GetStream(c) \/ GetStreamFails(c)
    BY <2>1, <2>5 DEF Welcome, Reply, ReplyFails, LoopTest, EndOfStream, Leave,
       PasvStart, PasvFails, PortStart, PortStop, PortForget, StartChecked,
       StartCheckedFails, ListChecks, CheckConnection, StartData, AwaitDataFails,
       AcceptData, AcceptDataFails, GetStream, GetStreamFails
  <2>6. CASE SendListing(c) \/ CreateFileFails(c) \/ CopyIn(c) \/ CopyEnds(c)
             \/ OpenFile(c) \/ CopyOut(c) \/ AnswerTransfer(c) \/ CloseData(c)
             \/ MoveFile(c) \/ MoveDir(c) \/ RenameFails(c) \/ Forget(c)
             \/ XZipWrites(c) \/ XZipFails(c)
    BY <2>1, <2>6 DEF SendListing, CreateFileFails, CopyIn, CopyEnds, OpenFile,
       CopyOut, AnswerTransfer, CloseData, MoveFile, MoveDir, RenameFails, Forget,
       XZipWrites, XZipFails
  <2>7. CASE OnlyAnswer(c) \/ Quit(c) \/ Pasv(c) \/ Port(c) \/ TransferRefused(c)
             \/ (\E d \in Dir : Cwd(c, d))
             \/ \E n \in Name : Mkd(c, n) \/ Rmd(c, n) \/ Dele(c, n) \/ Rnfr(c, n)
    BY <2>1, <2>7 DEF OnlyAnswer, Quit, Pasv, Port, TransferRefused, CheckConnection,
       Mkd, Rmd, Dele, Rnfr, Cwd
  <2>8. CASE List(c)
    BY <2>1, <2>8 DEF List, Begin
  <2>9. ASSUME NEW n \in Name, Stor(c, n) \/ Retr(c, n) \/ Rnto(c, n) \/ XZip(c, n)
        PROVE  P /\ L
    <3>1. <<cwd[c], n>> \in Path /\ <<Root, ZipOf[n]>> \in Path
      BY PathOf, ConstantsAssumption DEF TypeOK
    <3>2. CASE Stor(c, n) \/ Retr(c, n)
      BY <3>1, <3>2 DEF Stor, Retr, Begin, CheckConnection
    <3>3. CASE Rnto(c, n)
      <4>1. /\ path'[c] = <<cwd[c], n>> /\ xfer' = xfer /\ waitOn' = waitOn
            /\ pc'[c] \in {"moveFile", "moveDir", "reply"}
            /\ pc'[c] = "moveDir" => cwd[c] = Root
        BY <3>3 DEF Rnto
      <4> QED
        BY <3>1, <4>1
    <3>4. CASE XZip(c, n)
      BY <3>1, <3>4 DEF XZip
    <3> QED
      BY <2>9, <3>2, <3>3, <3>4
  <2>10. CASE \E n \in Name : Stor(c, n) \/ Retr(c, n) \/ Rnto(c, n) \/ XZip(c, n)
    BY <2>1, <2>9, <2>10
  <2> HIDE DEF Prepared, PathSettled, ListenerSettled, Move
  <2>11. CASE Handler(c)
    BY <2>2, <2>3, <2>4, <2>5, <2>6, <2>11 DEF Handler
  <2>12. CASE Commanded(c)
    BY <2>7, <2>8, <2>10, <2>12 DEF Commanded
  <2> QED
    BY <1>2, <2>11, <2>12
<1> QED
  BY <1>1, <1>2 DEF Next

(* A loop that is about to store a task has a client.                      *)
LEMMA ClientSettledStep ==
  ASSUME TypeOK, Prepared, [Next]_vars PROVE ClientSettled'
<1>0. /\ loop \in [Loop -> {"idle", "check", "accept", "store", "done"}]
      /\ DOMAIN loopClient = Loop
  BY DEF TypeOK, ServerTypes
<1> USE <1>0 DEF Prepared, ClientSettled, serverVars, loopVars
<1>1. ASSUME NEW c \in Client, Handler(c) \/ Commanded(c) PROVE ClientSettled'
  BY <1>1, HandlerKeepsServer
<1>2. CASE Peers
  BY <1>2 DEF Peers, Connect, Disconnect, DataConnect, DataPush, DataStalls, DataEnds,
     restVars
<1>3. ASSUME NEW k \in Loop, Server(k) PROVE ClientSettled'
  BY <1>3 DEF Server, CheckRunning, Accept, Store, AcceptFails
<1>4. CASE Application
  BY <1>4 DEF Application, Start, StopBegin, StopSnapshot, StopReturns, Setup
<1>5. CASE UNCHANGED vars
  BY <1>5 DEF vars, restVars
<1> QED
  BY <1>1, <1>2, <1>3, <1>4, <1>5 DEF Next

(* The steps that change the file system.                                  *)
FileStep(c) ==
  \/ CreateFile(c) \/ CopyIn(c) \/ MoveFile(c) \/ MoveDir(c) \/ XZipWrites(c)
  \/ \E n \in Name : Mkd(c, n) \/ Rmd(c, n) \/ Dele(c, n) \/ XZip(c, n)

(* No other step of a handler changes the file system. *)
LEMMA OtherStepsKeepFiles ==
  ASSUME NEW c \in Client, Handler(c) \/ Commanded(c), ~FileStep(c)
  PROVE  UNCHANGED fileVars
<1> USE DEF restVars, diskVars, Move, Reads, Begin
<1>1. CASE Handler(c)
  BY <1>1 DEF FileStep, Handler, Welcome, Reply, ReplyFails, LoopTest, EndOfStream,
     Leave, PasvStart, PasvFails, PortStart, PortStop, PortForget, StartChecked,
     StartCheckedFails, ListChecks, CheckConnection, StartData, AwaitData,
     AwaitDataFails, AcceptData, AcceptDataFails, GetStream, GetStreamFails,
     SendListing, CreateFileFails, CopyEnds, OpenFile, CopyOut, AnswerTransfer,
     CloseData, NullData, RenameFails, Forget, XZipFails
<1>2. CASE Commanded(c)
  BY <1>2 DEF FileStep, Commanded, OnlyAnswer, Quit, Pasv, Port, TransferRefused,
     CheckConnection, List, Stor, Retr, Rnfr, Rnto, Cwd
<1> QED
  BY <1>1, <1>2

(* RMD that ends with the directory removed leaves no file of it.          *)
LEMMA RmdStep ==
  ASSUME NEW c \in Client, NEW d \in Name, Rmd(c, d)
  PROVE  /\ DOMAIN fs' \subseteq DOMAIN fs
         /\ \A q \in DOMAIN fs' : fs'[q] = fs[q]
         /\ \A q \in DOMAIN fs : IsOpen(q) => q \in DOMAIN fs'
         /\ \/ dirs' = dirs
            \/ dirs' = dirs \ {d} /\ \A q \in DOMAIN fs' : q[1] # d
<1>1. PICK gone \in SUBSET (Files(d) \ {p \in Files(d) : IsOpen(p)}) :
        /\ {p \in Files(d) : IsOpen(p)} = {} => gone = Files(d)
        /\ fs' = Without(fs, gone)
        /\ dirs' = IF {p \in Files(d) : IsOpen(p)} = {} THEN dirs \ {d} ELSE dirs
  BY DEF Rmd
<1> QED
  BY <1>1 DEF Without, Files

(* RNTO moves the files of a directory as they are.                        *)
LEMMA MoveDirStep ==
  ASSUME TypeOK, Prepared, NEW c \in Client, MoveDir(c)
  PROVE  \E old \in dirs, new \in Name \ dirs :
           /\ dirs' = (dirs \ {old}) \cup {new}
           /\ \A q \in Files(old) : ~IsOpen(q)
           /\ \A p \in DOMAIN fs' :
                \E q \in DOMAIN fs : /\ p = Rebase(q, old, new)
                                     /\ fs'[p] = fs[q]
           /\ \A q \in DOMAIN fs : Rebase(q, old, new) \in DOMAIN fs'
           /\ \A q \in DOMAIN fs : q[1] # new
<1> DEFINE old == renameFrom[2]
           new == path[c][2]
<1>1. /\ renameFrom[1] = Root /\ old \in dirs
      /\ path[c] \in Path /\ path[c][1] = Root /\ new \notin dirs
      /\ \A q \in Files(old) : ~IsOpen(q)
  BY DEF MoveDir, CanMoveDir, Kind, IsFile, Vacant, IsDir, Prepared, PathSettled
<1>2. /\ fs' = [p \in {Rebase(q, old, new) : q \in DOMAIN fs} |-> fs[Rebase(p, new, old)]]
      /\ dirs' = (dirs \ {old}) \cup {new}
  BY DEF MoveDir
<1>3. old \in Name /\ new \in Name \ dirs
  BY <1>1 DEF TypeOK, DiskTypes, Path
<1> HIDE DEF old, new
<1>4. \A q \in DOMAIN fs : q \in Path /\ q[1] # new
  BY <1>3, ConstantsAssumption DEF TypeOK, DiskTypes, Prepared, FilesHaveDirs, Exists
<1>5. ASSUME NEW p \in DOMAIN fs'
      PROVE  \E q \in DOMAIN fs : p = Rebase(q, old, new) /\ fs'[p] = fs[q]
  <2>1. PICK q \in DOMAIN fs : p = Rebase(q, old, new)
    BY <1>2, <1>5
  <2>2. Rebase(p, new, old) = q
    BY <1>3, <1>4, <2>1, RebaseBack
  <2> QED
    BY <1>2, <2>1, <2>2
<1>6. \A q \in DOMAIN fs : Rebase(q, old, new) \in DOMAIN fs'
  BY <1>2
<1> QED
  BY <1>1, <1>2, <1>3, <1>4, <1>5, <1>6

(* Every file stays in a directory.                                        *)
LEMMA FilesHaveDirsStep ==
  ASSUME TypeOK, Prepared, [Next]_vars PROVE FilesHaveDirs'
<1>0. \A p \in DOMAIN fs : p[1] = Root \/ p[1] \in dirs
  BY DEF Prepared, FilesHaveDirs, Exists
<1> SUFFICES ASSUME NEW p \in DOMAIN fs'
             PROVE  p[1] = Root \/ p[1] \in dirs'
  BY DEF FilesHaveDirs, Exists
<1>1. CASE Peers \/ (\E k \in Loop : Server(k)) \/ Application \/ UNCHANGED vars
  BY <1>0, <1>1, OutsideKeepsHandlers DEF fileVars
<1>2. ASSUME NEW c \in Client, Handler(c) \/ Commanded(c)
      PROVE  p[1] = Root \/ p[1] \in dirs'
  <2>1. CASE ~FileStep(c)
    BY <1>0, <1>2, <2>1, OtherStepsKeepFiles DEF fileVars
  <2>2. CASE CreateFile(c)
    BY <1>0, <2>2 DEF CreateFile, CanCreate, Exists, Put
  <2>3. CASE CopyIn(c)
    BY <1>0, <2>3 DEF CopyIn
  <2>4. CASE MoveFile(c)
    BY <1>0, <2>4 DEF MoveFile, CanMoveFile, Vacant, Exists, Put, Without
  <2>5. CASE MoveDir(c)
    <3>1. PICK old \in dirs, new \in Name \ dirs :
            /\ dirs' = (dirs \ {old}) \cup {new}
            /\ \A q1 \in DOMAIN fs' :
                 \E q \in DOMAIN fs : /\ q1 = Rebase(q, old, new)
                                      /\ fs'[q1] = fs[q]
      BY <2>5, MoveDirStep
    <3>2. PICK q \in DOMAIN fs : p = Rebase(q, old, new)
      BY <3>1
    <3> QED
      BY <1>0, <3>1, <3>2 DEF Rebase
  <2>6. CASE XZipWrites(c)
    BY <1>0, <2>6 DEF XZipWrites, Vacant, Exists, Put
  <2>7. ASSUME NEW n \in Name, Mkd(c, n) PROVE p[1] = Root \/ p[1] \in dirs'
    BY <1>0, <2>7 DEF Mkd
  <2>8. ASSUME NEW n \in Name, Rmd(c, n) PROVE p[1] = Root \/ p[1] \in dirs'
    BY <1>0, <2>8, RmdStep
  <2>9. ASSUME NEW n \in Name, Dele(c, n) PROVE p[1] = Root \/ p[1] \in dirs'
    BY <1>0, <2>9 DEF Dele, Without
  <2>10. ASSUME NEW n \in Name, XZip(c, n) PROVE p[1] = Root \/ p[1] \in dirs'
    BY <1>0, <2>10 DEF XZip, Without
  <2> QED
    BY <2>1, <2>2, <2>3, <2>4, <2>5, <2>6, <2>7, <2>8, <2>9, <2>10 DEF FileStep
<1> QED
  BY <1>1, <1>2 DEF Next

(* Every variable keeps its type, for any number of sessions, names,       *)
(* commands, listeners, connections and restarts.                          *)
THEOREM Types == Spec => []TypeOK
<1>1. Init => TypeOK /\ Prepared
  BY InitTypes
<1>2. (TypeOK /\ Prepared) /\ [Next]_vars => (TypeOK /\ Prepared)'
  BY TypeStep, SettledStep, ClientSettledStep, FilesHaveDirsStep DEF Prepared
<1> QED
  BY <1>1, <1>2, PTL DEF Spec

(***************************************************************************)
(* Every running handler can be found by StopAsync, now or after the step  *)
(* its accept loop is about to take.                                       *)
(***************************************************************************)
(* Inductive: a loop holds a client only between its accept and its store, *)
(* so that an accept forgets no earlier client, and a loop StartAsync has  *)
(* not begun holds none.                                                   *)
LoopsHold ==
  \A k \in Loop : /\ loop[k] # "store" => loopClient[k] = NoClient
                  /\ k > starts => loop[k] = "idle"
Registered == LoopsHold /\ RunningIsRegistered

(* A running handler stays in the table or on its way into it. *)
LEMMA RegisteredStep ==
  ASSUME TypeOK, Registered, [Next]_vars PROVE Registered'
<1>0. /\ DOMAIN pc = Client /\ DOMAIN loop = Loop /\ DOMAIN loopClient = Loop
      /\ starts \in Nat
  BY DEF TypeOK, HandlerTypes, ServerTypes
<1> USE <1>0 DEF Registered, LoopsHold, RunningIsRegistered, Running
<1>1. ASSUME NEW c \in Client, Handler(c) \/ Commanded(c) PROVE Registered'
  <2>1. UNCHANGED <<loop, loopClient, starts>>
    BY <1>1, HandlerKeepsServer DEF serverVars, loopVars
  <2>2. \A d \in Client \ {c} : pc'[d] = pc[d]
    BY <1>1, HandlerKeepsOthers
  <2>3. CASE Leave(c)
    <3>1. LoopsHold'
      BY <2>1
    <3>2. clients' = clients \ {c} /\ pc'[c] = "done"
      BY <2>3 DEF Leave, Goto
    <3>3. ASSUME NEW d \in Client, Running(d)'
          PROVE  d \in clients' \/ \E k \in Loop : loopClient'[k] = d
      BY <2>1, <2>2, <3>2, <3>3
    <3> QED
      BY <3>1, <3>3
  <2>4. CASE ~Leave(c)
    <3>1. clients' = clients /\ Running(c)
      <4> USE DEF restVars, dictVars, Move, Reads, Begin
      <4>1. CASE Handler(c)
        BY <2>4, <4>1 DEF Handler, Welcome, Reply, ReplyFails, LoopTest, EndOfStream,
           PasvStart, PasvFails, PortStart, PortStop, PortForget, StartChecked,
           StartCheckedFails, ListChecks, CheckConnection, StartData, AwaitData,
           AwaitDataFails, AcceptData, AcceptDataFails, GetStream, GetStreamFails,
           SendListing, CreateFile, CreateFileFails, CopyIn, CopyEnds, OpenFile,
           CopyOut, AnswerTransfer, CloseData, NullData, MoveFile, MoveDir, RenameFails,
           Forget, XZipWrites, XZipFails
      <4>2. CASE Commanded(c)
        BY <4>2 DEF Commanded, OnlyAnswer, Quit, Pasv, Port, TransferRefused,
           CheckConnection, List, Stor, Retr, Mkd, Rmd, Dele, Rnfr, Rnto, XZip, Cwd
      <4> QED
        BY <1>1, <4>1, <4>2
    <3> QED
      BY <2>1, <2>2, <3>1
  <2> QED
    BY <2>3, <2>4
<1>2. CASE Peers
  <2>1. UNCHANGED <<loop, loopClient, starts, clients>>
    BY <1>2 DEF Peers, Connect, Disconnect, DataConnect, DataPush, DataStalls, DataEnds,
       restVars, serverVars, loopVars, dictVars
  <2>2. \A d \in Client : pc'[d] = pc[d] \/ pc'[d] = "backlog"
    BY <1>2 DEF Peers, Connect, Disconnect, DataConnect, DataPush, DataStalls, DataEnds
  <2> QED
    BY <2>1, <2>2
<1>3. ASSUME NEW k \in Loop, Server(k) PROVE Registered'
  <2>1. CASE CheckRunning(k)
    BY <2>1 DEF CheckRunning, dictVars
  <2>2. ASSUME NEW c \in Client, Accept(k, c) PROVE Registered'
    <3>1. /\ loop[k] = "accept" /\ loopClient[k] = NoClient
          /\ loop' = [loop EXCEPT ![k] = "store"]
          /\ loopClient' = [loopClient EXCEPT ![k] = c]
          /\ pc' = [pc EXCEPT ![c] = "welcome"]
          /\ clients' = clients /\ starts' = starts
      BY <2>2 DEF Accept, dictVars
    <3>2. k <= starts
      BY <3>1 DEF Loop
    <3>3. LoopsHold'
      BY <3>1, <3>2 DEF Loop
    <3>4. ASSUME NEW d \in Client, Running(d)'
          PROVE  d \in clients' \/ \E j \in Loop : loopClient'[j] = d
      <4>1. CASE d = c
        BY <3>1, <4>1
      <4>2. CASE d # c /\ d \notin clients
        <5>1. PICK j \in Loop : loopClient[j] = d
          BY <3>1, <3>4, <4>2
        <5>2. j # k
          BY <3>1, <5>1, ConstantsAssumption
        <5> QED
          BY <3>1, <5>1, <5>2
      <4> QED
        BY <3>1, <4>1, <4>2
    <3> QED
      BY <3>3, <3>4
  <2>3. CASE Store(k)
    BY <2>3 DEF Store
  <2>4. CASE AcceptFails(k)
    BY <2>4 DEF AcceptFails, dictVars
  <2> QED
    BY <1>3, <2>1, <2>2, <2>3, <2>4 DEF Server
<1>4. CASE Application
  <2>1. CASE Start
    <3>1. /\ starts' = starts + 1 /\ starts < MaxStarts
          /\ loop' = [loop EXCEPT ![starts + 1] = "check"]
          /\ UNCHANGED <<loopClient, clients, pc>>
      BY <2>1 DEF Start, dictVars
    <3>2. loop[starts + 1] = "idle"
      BY <3>1, ConstantsAssumption DEF Loop
    <3>3. LoopsHold'
      BY <3>1, <3>2 DEF Loop
    <3> QED
      BY <3>1, <3>3
  <2>2. CASE StopBegin
    BY <2>2 DEF StopBegin, dictVars
  <2>3. CASE StopSnapshot \/ StopReturns \/ Setup
    BY <2>3 DEF StopSnapshot, StopReturns, Setup, dictVars, loopVars
  <2> QED
    BY <1>4, <2>1, <2>2, <2>3 DEF Application
<1>5. CASE UNCHANGED vars
  BY <1>5 DEF vars, restVars, serverVars, loopVars, dictVars
<1> QED
  BY <1>1, <1>2, <1>3, <1>4, <1>5 DEF Next

(* Every handler that runs is in _clients, or in the hands of the accept   *)
(* loop that started it: StopAsync can miss only the latter.               *)
THEOREM RunningRegistered == Spec => []RunningIsRegistered
<1>1. Init => TypeOK /\ Prepared /\ Registered
  <2>1. Init => Registered
    BY DEF Init, Registered, LoopsHold, RunningIsRegistered, Running
  <2> QED
    BY <2>1, InitTypes
<1>2. (TypeOK /\ Prepared /\ Registered) /\ [Next]_vars
        => (TypeOK /\ Prepared /\ Registered)'
  BY TypeStep, SettledStep, ClientSettledStep, FilesHaveDirsStep, RegisteredStep
     DEF Prepared
<1>3. Registered => RunningIsRegistered
  BY DEF Registered
<1> QED
  BY <1>1, <1>2, <1>3, PTL DEF Spec

(***************************************************************************)
(* Uploads do not mix.                                                     *)
(***************************************************************************)
Pure(f, p) == \A i, j \in DOMAIN f[p] : f[p][i] = f[p][j]

(* Inductive: a handler that copies has a file of its own, which exists    *)
(* and holds pieces of the handler's connection only.                      *)
Writing(c) == pc[c] = "copyIn"
OwnFile ==
  /\ \A c \in Client : Writing(c) =>
       /\ path[c] \in DOMAIN fs
       /\ \A i \in DOMAIN fs[path[c]] : fs[path[c]][i] = local[c]
  /\ \A c, d \in Client : Writing(c) /\ Writing(d) /\ path[c] = path[d] => c = d

(* A step that starts no copy and keeps the files copies are writing keeps *)
(* the rest of it.                                                         *)
LEMMA KeepsWriting ==
  ASSUME OwnFile,
         \A c \in Client : Writing(c)' =>
           /\ Writing(c)
           /\ path'[c] = path[c] /\ local'[c] = local[c]
           /\ path[c] \in DOMAIN fs' /\ fs'[path[c]] = fs[path[c]]
  PROVE  OwnFile'
  BY DEF OwnFile, Writing

(* Only CreateFile starts a copy, and while one goes on neither its file's *)
(* name nor its connection changes.                                        *)
LEMMA WritingKept ==
  ASSUME TypeOK, [Next]_vars, \A c \in Client : ~CreateFile(c),
         NEW c \in Client, Writing(c)'
  PROVE  Writing(c) /\ path'[c] = path[c] /\ local'[c] = local[c]
<1>0. /\ DOMAIN pc = Client /\ DOMAIN path = Client /\ DOMAIN local = Client
  BY DEF TypeOK, HandlerTypes, DataTypes, DiskTypes
<1> USE <1>0 DEF Writing
<1>1. CASE Peers \/ (\E k \in Loop : Server(k)) \/ Application \/ UNCHANGED vars
  BY <1>1, OutsideKeepsHandlers DEF renameVars, xferVars
<1>2. ASSUME NEW d \in Client, d # c, Handler(d) \/ Commanded(d)
      PROVE  Writing(c) /\ path'[c] = path[c] /\ local'[c] = local[c]
  BY <1>2, HandlerKeepsOthers
<1>3. CASE Handler(c)
  BY <1>3 DEF Handler, Welcome, Reply, ReplyFails, LoopTest, EndOfStream, Leave,
     PasvStart, PasvFails, PortStart, PortStop, PortForget, StartChecked,
     StartCheckedFails, ListChecks, CheckConnection, StartData, AwaitData,
     AwaitDataFails, AcceptData, AcceptDataFails, GetStream, GetStreamFails,
     SendListing, CreateFileFails, CopyIn, CopyEnds, OpenFile, CopyOut, AnswerTransfer,
     CloseData, NullData, MoveFile, MoveDir, RenameFails, Forget, XZipWrites, XZipFails,
     Goto, Move, restVars, dataVars, diskVars, xferVars, renameVars
<1>4. CASE Commanded(c)
  BY <1>4 DEF Commanded, OnlyAnswer, Quit, Pasv, Port, TransferRefused, CheckConnection,
     List, Stor, Retr, Mkd, Rmd, Dele, Rnfr, Rnto, XZip, Cwd, Begin, Goto
<1> QED
  BY <1>1, <1>2, <1>3, <1>4 DEF Next

(* A file that is being written is written by one upload. *)
LEMMA UploadsStep ==
  ASSUME TypeOK, Prepared, OwnFile, UploadsDoNotMix, [Next]_vars
  PROVE  OwnFile' /\ UploadsDoNotMix'
<1>0. /\ DOMAIN pc = Client /\ DOMAIN path = Client
      /\ \A p \in DOMAIN fs : Pure(fs, p) /\ fs[p] \in Seq(Piece)
      /\ \A c \in Client : Writing(c) => path[c] \in DOMAIN fs /\ IsOpen(path[c])
  BY DEF TypeOK, HandlerTypes, DiskTypes, UploadsDoNotMix, Pure, OwnFile, Writing,
     IsOpen, OpenBy
<1> USE <1>0
<1>1. ASSUME NEW c \in Client, CreateFile(c) PROVE OwnFile' /\ UploadsDoNotMix'
  <2>1. /\ fs' = Put(fs, path[c], <<>>) /\ path' = path /\ local' = local
        /\ pc' = [pc EXCEPT ![c] = "copyIn"]
        /\ ~IsOpen(path[c])
    BY <1>1 DEF CreateFile, CanCreate, Goto, dataVars, xferVars, renameVars
  <2>2. /\ path[c] \in DOMAIN fs' /\ fs'[path[c]] = <<>>
        /\ \A q \in DOMAIN fs : q # path[c] => q \in DOMAIN fs' /\ fs'[q] = fs[q]
        /\ DOMAIN fs' = DOMAIN fs \cup {path[c]}
    BY <2>1 DEF Put
  <2>3. \A d \in Client : Writing(d)' /\ d # c =>
          Writing(d) /\ path[d] \in DOMAIN fs /\ path[d] # path[c]
    BY <2>1 DEF Writing
  <2>4. OwnFile'
    BY <2>1, <2>2, <2>3 DEF OwnFile, Writing
  <2>5. UploadsDoNotMix'
    BY <2>2 DEF UploadsDoNotMix, Pure
  <2> QED
    BY <2>4, <2>5
<1>2. ASSUME NEW c \in Client, CopyIn(c) PROVE OwnFile' /\ UploadsDoNotMix'
  <2>1. /\ Writing(c) /\ fs' = [fs EXCEPT ![path[c]] = Append(@, local[c])]
        /\ UNCHANGED <<pc, path, local>>
    BY <1>2 DEF CopyIn, Writing, xferVars, renameVars
  <2>2. /\ DOMAIN fs' = DOMAIN fs /\ path[c] \in DOMAIN fs
        /\ \A q \in DOMAIN fs : q # path[c] => fs'[q] = fs[q]
        /\ fs'[path[c]] = Append(fs[path[c]], local[c])
    BY <2>1
  <2>3. \A i \in DOMAIN fs'[path[c]] : fs'[path[c]][i] = local[c]
    <3>1. fs[path[c]] \in Seq(Piece)
          /\ \A i \in DOMAIN fs[path[c]] : fs[path[c]][i] = local[c]
      BY <2>1, <2>2 DEF OwnFile
    <3> QED
      BY <2>2, <3>1
  <2>4. OwnFile'
    BY <2>1, <2>2, <2>3 DEF OwnFile, Writing
  <2>5. UploadsDoNotMix'
    <3> SUFFICES ASSUME NEW q \in DOMAIN fs PROVE Pure(fs', q)
      BY <2>2 DEF UploadsDoNotMix, Pure
    <3>1. CASE q = path[c]
      BY <2>3, <3>1 DEF Pure
    <3>2. CASE q # path[c]
      <4>1. fs'[q] = fs[q] /\ Pure(fs, q)
        BY <2>2, <3>2
      <4> QED
        BY <4>1 DEF Pure
    <3> QED
      BY <3>1, <3>2
  <2> QED
    BY <2>4, <2>5
<1>3. ASSUME \A c \in Client : ~CreateFile(c) /\ ~CopyIn(c)
      PROVE  OwnFile' /\ UploadsDoNotMix'
  <2> SUFFICES /\ \A p \in DOMAIN fs' : Pure(fs', p)
               /\ \A q \in DOMAIN fs : IsOpen(q) => q \in DOMAIN fs' /\ fs'[q] = fs[q]
    BY <1>3, KeepsWriting, WritingKept DEF UploadsDoNotMix, Pure
  <2>1. CASE UNCHANGED fs
    BY <2>1 DEF Pure
  <2>2. ASSUME NEW c \in Client, MoveFile(c)
        PROVE  /\ \A p \in DOMAIN fs' : Pure(fs', p)
               /\ \A q \in DOMAIN fs : IsOpen(q) => q \in DOMAIN fs' /\ fs'[q] = fs[q]
    <3>1. /\ fs' = Put(Without(fs, {renameFrom}), path[c], fs[renameFrom])
          /\ renameFrom \in DOMAIN fs /\ path[c] \notin DOMAIN fs
          /\ ~IsOpen(renameFrom)
      BY <2>2 DEF MoveFile, CanMoveFile, Kind, Vacant, IsFile
    <3> QED
      BY <3>1 DEF Put, Without, Pure
  <2>3. ASSUME NEW c \in Client, MoveDir(c)
        PROVE  /\ \A p \in DOMAIN fs' : Pure(fs', p)
               /\ \A q \in DOMAIN fs : IsOpen(q) => q \in DOMAIN fs' /\ fs'[q] = fs[q]
    <3>1. PICK old \in dirs, new \in Name \ dirs :
            /\ dirs' = (dirs \ {old}) \cup {new}
            /\ \A q \in Files(old) : ~IsOpen(q)
            /\ \A p \in DOMAIN fs' :
                 \E q \in DOMAIN fs : p = Rebase(q, old, new) /\ fs'[p] = fs[q]
            /\ \A q \in DOMAIN fs : Rebase(q, old, new) \in DOMAIN fs'
            /\ \A q \in DOMAIN fs : q[1] # new
      BY <2>3, MoveDirStep
    <3>2. \A p \in DOMAIN fs' : Pure(fs', p)
      BY <3>1 DEF Pure
    <3>3. ASSUME NEW q \in DOMAIN fs, IsOpen(q)
          PROVE  q \in DOMAIN fs' /\ fs'[q] = fs[q]
      <4>1. q[1] # old /\ q[1] # new
        BY <3>1, <3>3 DEF Files
      <4>2. q = Rebase(q, old, new) /\ q \in DOMAIN fs'
        BY <3>1, <4>1 DEF Rebase
      <4>3. PICK r \in DOMAIN fs : q = Rebase(r, old, new) /\ fs'[q] = fs[r]
        BY <3>1, <4>2
      <4>4. r = q
        BY <4>1, <4>3 DEF Rebase
      <4> QED
        BY <4>2, <4>3, <4>4
    <3> QED
      BY <3>2, <3>3
  <2>4. ASSUME NEW c \in Client, XZipWrites(c)
        PROVE  /\ \A p \in DOMAIN fs' : Pure(fs', p)
               /\ \A q \in DOMAIN fs : IsOpen(q) => q \in DOMAIN fs' /\ fs'[q] = fs[q]
    <3>1. fs' = Put(fs, path[c], <<NoConn>>) /\ path[c] \notin DOMAIN fs
      BY <2>4 DEF XZipWrites, Vacant, IsFile
    <3> QED
      BY <3>1 DEF Put, Pure
  <2>5. ASSUME NEW c \in Client, NEW n \in Name, Dele(c, n) \/ XZip(c, n)
        PROVE  /\ \A p \in DOMAIN fs' : Pure(fs', p)
               /\ \A q \in DOMAIN fs : IsOpen(q) => q \in DOMAIN fs' /\ fs'[q] = fs[q]
    <3>1. PICK p : fs' = Without(fs, {p}) /\ ~IsOpen(p)
      BY <2>5 DEF Dele, XZip
    <3> QED
      BY <3>1 DEF Without, Pure
  <2>6. ASSUME NEW c \in Client, NEW n \in Name, Rmd(c, n)
        PROVE  /\ \A p \in DOMAIN fs' : Pure(fs', p)
               /\ \A q \in DOMAIN fs : IsOpen(q) => q \in DOMAIN fs' /\ fs'[q] = fs[q]
    BY <2>6, RmdStep DEF Pure
  <2>7. ASSUME NEW c \in Client, NEW n \in Name, Mkd(c, n) PROVE UNCHANGED fs
    BY <2>7 DEF Mkd
  <2>8. CASE Peers \/ (\E k \in Loop : Server(k)) \/ Application \/ UNCHANGED vars
    BY <2>1, <2>8, OutsideKeepsHandlers DEF fileVars
  <2>9. ASSUME NEW c \in Client, Handler(c) \/ Commanded(c), ~FileStep(c)
        PROVE  UNCHANGED fs
    BY <2>9, OtherStepsKeepFiles DEF fileVars
  <2>10. ASSUME NEW c \in Client, FileStep(c)
         PROVE  /\ \A p \in DOMAIN fs' : Pure(fs', p)
                /\ \A q \in DOMAIN fs : IsOpen(q) => q \in DOMAIN fs' /\ fs'[q] = fs[q]
    BY <1>3, <2>1, <2>2, <2>3, <2>4, <2>5, <2>6, <2>7, <2>10 DEF FileStep
  <2> QED
    BY <2>1, <2>8, <2>9, <2>10 DEF Next
<1> QED
  BY <1>1, <1>2, <1>3

(* However sessions interleave, no file ever holds pieces of two uploads.  *)
THEOREM UploadsApart == Spec => []UploadsDoNotMix
<1>1. Init => TypeOK /\ Prepared /\ OwnFile /\ UploadsDoNotMix
  <2>1. Init => OwnFile /\ UploadsDoNotMix
    BY DEF Init, OwnFile, Writing, UploadsDoNotMix
  <2> QED
    BY <2>1, InitTypes
<1>2. (TypeOK /\ Prepared /\ OwnFile /\ UploadsDoNotMix) /\ [Next]_vars
        => (TypeOK /\ Prepared /\ OwnFile /\ UploadsDoNotMix)'
  BY TypeStep, SettledStep, ClientSettledStep, FilesHaveDirsStep, UploadsStep
     DEF Prepared
<1> QED
  BY <1>1, <1>2, PTL DEF Spec

(***************************************************************************)
(* Nothing is lost.                                                        *)
(***************************************************************************)
(* The pieces some file holds, and those a command removed.                *)
Held == Contents(DOMAIN fs) \cup erased

(* What it means that a piece is held, or was removed ... *)
LEMMA HeldIs ==
  ASSUME NEW x PROVE x \in Held <=> \/ x \in erased
                                    \/ \E p \in DOMAIN fs : \E i \in DOMAIN fs[p] : fs[p][i] = x
  BY DEF Held, Contents, Range

(* ... and the same in the next state. *)
LEMMA HeldIsNext ==
  ASSUME NEW x
  PROVE  x \in Held' <=> \/ x \in erased'
                         \/ \E p \in DOMAIN fs' : \E i \in DOMAIN fs'[p] : fs'[p][i] = x
  BY DEF Held, Contents, Range

(* A step that takes files away, and adds what they held to erased.        *)
LEMMA TakenAway ==
  ASSUME NEW ps, erased' = erased \cup Contents(ps \cap DOMAIN fs),
         \A q \in DOMAIN fs \ ps : q \in DOMAIN fs' /\ fs'[q] = fs[q]
  PROVE  Held \subseteq Held'
<1> SUFFICES ASSUME NEW x \in Held PROVE x \in Held'
  OBVIOUS
<1>1. CASE x \in erased
  BY <1>1, HeldIsNext
<1>2. ASSUME NEW p \in DOMAIN fs, NEW i \in DOMAIN fs[p], fs[p][i] = x
      PROVE  x \in Held'
  <2>1. CASE p \in ps
    <3>1. x \in Contents(ps \cap DOMAIN fs)
      BY <1>2, <2>1 DEF Contents, Range
    <3> QED
      BY <3>1, HeldIsNext
  <2>2. CASE p \notin ps
    BY <1>2, <2>2, HeldIsNext
  <2> QED
    BY <2>1, <2>2
<1> QED
  BY <1>1, <1>2, HeldIs

(* A step after which every old file is somewhere with all it held.        *)
LEMMA CarriedOver ==
  ASSUME erased' = erased,
         \A q \in DOMAIN fs : \E p \in DOMAIN fs' :
           \A i \in DOMAIN fs[q] : i \in DOMAIN fs'[p] /\ fs'[p][i] = fs[q][i]
  PROVE  Held \subseteq Held'
<1> SUFFICES ASSUME NEW x \in Held PROVE x \in Held'
  OBVIOUS
<1>1. CASE x \in erased
  BY <1>1, HeldIsNext
<1>2. ASSUME NEW q \in DOMAIN fs, NEW i \in DOMAIN fs[q], fs[q][i] = x
      PROVE  x \in Held'
  <2>1. PICK p \in DOMAIN fs' :
          \A j \in DOMAIN fs[q] : j \in DOMAIN fs'[p] /\ fs'[p][j] = fs[q][j]
    OBVIOUS
  <2> QED
    BY <1>2, <2>1, HeldIsNext
<1> QED
  BY <1>1, <1>2, HeldIs

(* No step loses a piece without a command that removes it. *)
LEMMA HeldStep ==
  ASSUME TypeOK, Prepared, OwnFile, [Next]_vars PROVE Held \subseteq Held'
<1>1. CASE UNCHANGED <<fs, erased>>
  BY <1>1 DEF Held, Contents
<1>2. ASSUME NEW c \in Client, CreateFile(c) PROVE Held \subseteq Held'
  <2>1. /\ fs' = Put(fs, path[c], <<>>)
        /\ erased' = erased \cup Contents({path[c]} \cap DOMAIN fs)
    BY <1>2 DEF CreateFile
  <2>2. \A q \in DOMAIN fs \ {path[c]} : q \in DOMAIN fs' /\ fs'[q] = fs[q]
    BY <2>1 DEF Put
  <2> QED
    BY <2>1, <2>2, TakenAway
<1>3. ASSUME NEW c \in Client, CopyIn(c) PROVE Held \subseteq Held'
  <2>1. /\ erased' = erased
        /\ fs' = [fs EXCEPT ![path[c]] = Append(@, local[c])]
    BY <1>3 DEF CopyIn
  <2>2. ASSUME NEW q \in DOMAIN fs
        PROVE  /\ q \in DOMAIN fs'
               /\ \A i \in DOMAIN fs[q] : i \in DOMAIN fs'[q] /\ fs'[q][i] = fs[q][i]
    <3>1. fs[q] \in Seq(Piece)
      BY DEF TypeOK, DiskTypes
    <3>2. q \in DOMAIN fs' /\ (fs'[q] = fs[q] \/ fs'[q] = Append(fs[q], local[c]))
      BY <2>1
    <3> QED
      BY <3>1, <3>2
  <2> QED
    BY <2>1, <2>2, CarriedOver
<1>4. ASSUME NEW c \in Client, MoveFile(c) PROVE Held \subseteq Held'
  <2>1. /\ fs' = Put(Without(fs, {renameFrom}), path[c], fs[renameFrom])
        /\ path[c] \notin DOMAIN fs /\ erased' = erased
    BY <1>4 DEF MoveFile, CanMoveFile, Vacant, IsFile
  <2>2. ASSUME NEW q \in DOMAIN fs PROVE \E p \in DOMAIN fs' : fs'[p] = fs[q]
    BY <2>1 DEF Put, Without
  <2> QED
    BY <2>1, <2>2, CarriedOver
<1>5. ASSUME NEW c \in Client, MoveDir(c) PROVE Held \subseteq Held'
  <2>1. PICK old \in dirs, new \in Name \ dirs :
          /\ dirs' = (dirs \ {old}) \cup {new}
          /\ \A q \in Files(old) : ~IsOpen(q)
          /\ \A p \in DOMAIN fs' :
               \E q \in DOMAIN fs : p = Rebase(q, old, new) /\ fs'[p] = fs[q]
          /\ \A q \in DOMAIN fs : Rebase(q, old, new) \in DOMAIN fs'
          /\ \A q \in DOMAIN fs : q[1] # new
    BY <1>5, MoveDirStep
  <2>2. ASSUME NEW q \in DOMAIN fs PROVE \E p \in DOMAIN fs' : fs'[p] = fs[q]
    <3>1. PICK r \in DOMAIN fs :
            Rebase(q, old, new) = Rebase(r, old, new) /\ fs'[Rebase(q, old, new)] = fs[r]
      BY <2>1
    <3>2. q \in Path /\ r \in Path /\ old \in Name /\ new \in Name
          /\ q[1] # new /\ r[1] # new
      BY <2>1 DEF TypeOK, DiskTypes
    <3>3. q = r
      BY <3>1, <3>2, RebaseBack
    <3> QED
      BY <2>1, <3>1, <3>3
  <2>3. erased' = erased
    BY <1>5 DEF MoveDir
  <2> QED
    BY <2>2, <2>3, CarriedOver
<1>6. ASSUME NEW c \in Client, XZipWrites(c) PROVE Held \subseteq Held'
  <2>1. /\ fs' = Put(fs, path[c], <<NoConn>>) /\ erased' = erased
        /\ path[c] \notin DOMAIN fs
    BY <1>6 DEF XZipWrites, Vacant, IsFile
  <2>2. \A q \in DOMAIN fs : q \in DOMAIN fs' /\ fs'[q] = fs[q]
    BY <2>1 DEF Put
  <2> QED
    BY <2>1, <2>2, CarriedOver
<1>7. ASSUME NEW c \in Client, NEW n \in Name, Rmd(c, n) PROVE Held \subseteq Held'
  <2>1. PICK gone \in SUBSET Files(n) :
          fs' = Without(fs, gone) /\ erased' = erased \cup Contents(gone)
    BY <1>7 DEF Rmd
  <2>2. gone \cap DOMAIN fs = gone
    BY DEF Files
  <2> QED
    BY <2>1, <2>2, TakenAway DEF Without
<1>8. ASSUME NEW c \in Client, NEW n \in Name, Dele(c, n) \/ XZip(c, n)
      PROVE  Held \subseteq Held'
  <2>1. PICK p : fs' = Without(fs, {p})
                 /\ erased' = erased \cup Contents({p} \cap DOMAIN fs)
    <3>1. CASE XZip(c, n)
      BY <3>1 DEF XZip
    <3>2. CASE Dele(c, n)
      <4>1. {<<cwd[c], n>>} \cap DOMAIN fs = {<<cwd[c], n>>}
        BY <3>2 DEF Dele, IsFile
      <4> QED
        BY <3>2, <4>1 DEF Dele
    <3> QED
      BY <1>8, <3>1, <3>2
  <2> QED
    BY <2>1, TakenAway DEF Without
<1>9. ASSUME NEW c \in Client, NEW n \in Name, Mkd(c, n) PROVE Held \subseteq Held'
  BY <1>1, <1>9 DEF Mkd
<1>10. CASE Peers \/ (\E k \in Loop : Server(k)) \/ Application \/ UNCHANGED vars
  BY <1>1, <1>10, OutsideKeepsHandlers DEF fileVars
<1>11. ASSUME NEW c \in Client, Handler(c) \/ Commanded(c) PROVE Held \subseteq Held'
  <2>1. CASE ~FileStep(c)
    BY <1>1, <1>11, <2>1, OtherStepsKeepFiles DEF fileVars
  <2>2. CASE FileStep(c)
    BY <1>2, <1>3, <1>4, <1>5, <1>6, <1>7, <1>8, <1>9, <2>2 DEF FileStep
  <2> QED
    BY <2>1, <2>2
<1> QED
  BY <1>10, <1>11 DEF Next

(* A piece is taken from a connection only by a copy, which appends it to  *)
(* its file.                                                               *)
LEMMA TakenStep ==
  ASSUME TypeOK, Prepared, OwnFile, [Next]_vars, NEW x \in Conn,
         taken'[x] # taken[x]
  PROVE  x \in Held'
<1>1. CASE Peers \/ (\E k \in Loop : Server(k)) \/ Application \/ UNCHANGED vars
  <2> USE DEF restVars, dataVars, connVars, vars
  <2>1. taken' = taken
    BY <1>1 DEF Peers, Connect, Disconnect, DataConnect, DataPush, DataStalls, DataEnds,
       Server, CheckRunning, Accept, Store, AcceptFails, Application, Start, StopBegin,
       StopSnapshot, StopReturns, Setup
  <2> QED
    BY <2>1
<1>2. ASSUME NEW c \in Client, CopyIn(c) PROVE x \in Held'
  <2>1. /\ Writing(c) /\ taken' = [taken EXCEPT ![local[c]] = @ + 1]
        /\ fs' = [fs EXCEPT ![path[c]] = Append(@, local[c])]
    BY <1>2 DEF CopyIn, Writing
  <2>2. x = local[c]
    BY <2>1 DEF TypeOK, DataTypes
  <2>3. path[c] \in DOMAIN fs /\ fs[path[c]] \in Seq(Piece)
    BY <2>1 DEF OwnFile, TypeOK, DiskTypes
  <2>4. path[c] \in DOMAIN fs' /\ fs'[path[c]] = Append(fs[path[c]], x)
    BY <2>1, <2>2, <2>3
  <2>5. \E i \in DOMAIN fs'[path[c]] : fs'[path[c]][i] = x
    <3>1. Len(fs[path[c]]) + 1 \in DOMAIN fs'[path[c]]
          /\ fs'[path[c]][Len(fs[path[c]]) + 1] = x
      BY <2>3, <2>4
    <3> QED
      BY <3>1
  <2> QED
    BY <2>4, <2>5, HeldIsNext
<1>3. ASSUME NEW c \in Client, Handler(c) \/ Commanded(c), ~CopyIn(c)
      PROVE  x \in Held'
  <2> USE DEF restVars, dataVars, connVars, Move, Begin
  <2>1. CASE Handler(c)
    BY <1>3, <2>1 DEF Handler, Welcome, Reply, ReplyFails, LoopTest, EndOfStream, Leave,
       PasvStart, PasvFails, PortStart, PortStop, PortForget, StartChecked,
       StartCheckedFails, ListChecks, CheckConnection, StartData, AwaitData,
       AwaitDataFails, AcceptData, AcceptDataFails, GetStream, GetStreamFails,
       SendListing, CreateFile, CreateFileFails, CopyEnds, OpenFile, CopyOut,
       AnswerTransfer, CloseData, NullData, MoveFile, MoveDir, RenameFails, Forget,
       XZipWrites, XZipFails
  <2>2. CASE Commanded(c)
    BY <1>3, <2>2 DEF Commanded, OnlyAnswer, Quit, Pasv, Port, TransferRefused,
       CheckConnection, List, Stor, Retr, Mkd, Rmd, Dele, Rnfr, Rnto, XZip, Cwd
  <2> QED
    BY <1>3, <2>1, <2>2
<1> QED
  BY <1>1, <1>2, <1>3 DEF Next

(* RNTO moves and never overwrites: every piece of the first files and of  *)
(* an upload is in some file, unless a command that removes or replaces    *)
(* files took it.                                                          *)
THEOREM NothingIsLost == Spec => []NothingLost
<1> DEFINE Inv == TypeOK /\ Prepared /\ OwnFile /\ UploadsDoNotMix
           Kept == /\ FirstFiles \subseteq Held
                   /\ \A x \in Conn : taken[x] > 0 => x \in Held
<1>1. Init => Inv /\ Kept
  <2> SUFFICES ASSUME Init PROVE Inv /\ Kept
    OBVIOUS
  <2>1. OwnFile /\ UploadsDoNotMix
    BY DEF Init, OwnFile, Writing, UploadsDoNotMix
  <2>2. ASSUME NEW p \in FirstFiles PROVE p \in Held
    <3>1. p \in DOMAIN fs /\ fs[p] = <<p>>
      BY DEF Init
    <3>2. 1 \in DOMAIN fs[p] /\ fs[p][1] = p
      BY <3>1
    <3> QED
      BY <3>1, <3>2, HeldIs
  <2>3. \A x \in Conn : ~(taken[x] > 0)
    BY DEF Init
  <2> QED
    BY <2>1, <2>2, <2>3, InitTypes
<1>2. Inv /\ [Next]_vars => Inv'
  BY TypeStep, SettledStep, ClientSettledStep, FilesHaveDirsStep, UploadsStep
     DEF Prepared
<1>3. Inv /\ Kept /\ [Next]_vars => Kept'
  <2> SUFFICES ASSUME Inv, Kept, [Next]_vars PROVE Kept'
    OBVIOUS
  <2>1. Held \subseteq Held'
    BY HeldStep
  <2>2. ASSUME NEW x \in Conn, taken'[x] > 0 PROVE x \in Held'
    BY <2>1, <2>2, TakenStep
  <2> QED
    BY <2>1, <2>2
<1>4. Kept => NothingLost
  BY DEF NothingLost, Held
<1> QED
  BY <1>1, <1>2, <1>3, <1>4, PTL DEF Spec


(***************************************************************************)
(* A STOR is answered 226 only after its peer has ended the upload.        *)
(***************************************************************************)
(* Neither a handler nor a command to it changes a peer's end.             *)
LEMMA HandlerKeepsPeers ==
  ASSUME NEW c \in Client, Handler(c) \/ Commanded(c)
  PROVE  UNCHANGED <<far, pushed, conns>>
<1> USE DEF restVars, dataVars, connVars, toldVars, Move, Reads, Begin
<1>1. CASE Handler(c)
  BY <1>1 DEF Handler, Welcome, Reply, ReplyFails, LoopTest, EndOfStream, Leave,
     PasvStart, PasvFails, PortStart, PortStop, PortForget, StartChecked,
     StartCheckedFails, ListChecks, CheckConnection, StartData, AwaitData,
     AwaitDataFails, AcceptData, AcceptDataFails, GetStream, GetStreamFails,
     SendListing, CreateFile, CreateFileFails, CopyIn, CopyEnds, OpenFile, CopyOut,
     AnswerTransfer, CloseData, NullData, MoveFile, MoveDir, RenameFails, Forget,
     XZipWrites, XZipFails
<1>2. CASE Commanded(c)
  BY <1>2 DEF Commanded, OnlyAnswer, Quit, Pasv, Port, TransferRefused, CheckConnection,
     List, Stor, Retr, Mkd, Rmd, Dele, Rnfr, Rnto, XZip, Cwd
<1> QED
  BY <1>1, <1>2

(* A peer that has ended an upload stays so.                               *)
LEMMA EndsForGood ==
  ASSUME TypeOK, [Next]_vars, NEW x \in Conn, far[x] = "fin"
  PROVE  far'[x] = "fin"
<1>1. ASSUME NEW c \in Client, Handler(c) \/ Commanded(c) PROVE far'[x] = "fin"
  BY <1>1, HandlerKeepsPeers
<1>2. CASE Peers
  BY <1>2 DEF Peers, Connect, Disconnect, DataConnect, DataPush, DataStalls, DataEnds,
     TypeOK, DataTypes, restVars, dataVars, connVars
<1>3. CASE (\E k \in Loop : Server(k)) \/ Application \/ UNCHANGED vars
  BY <1>3 DEF Server, CheckRunning, Accept, Store, AcceptFails, Application, Start,
     StopBegin, StopSnapshot, StopReturns, Setup, vars, restVars, dataVars, connVars
<1> QED
  BY <1>1, <1>2, <1>3 DEF Next

(* Inductive: no transfer is acknowledged before it is over, a handler     *)
(* that transfers has a connection of its own, and an acknowledged upload  *)
(* is of a connection its peer has ended.                                  *)
Transfers(c) ==
  /\ xfer[c] # "none" => pc[c] \in {"listing", "starting", "opening", "accept",
       "stream", "opened", "copyIn", "copyOut", "answer", "closing", "nulling",
       "leaving", "done"}
  /\ pc[c] \in {"listing", "starting", "opening", "accept", "stream", "opened",
       "copyIn", "copyOut"} /\ xfer[c] # "none" => ~acked[c]
  /\ pc[c] \in {"opened", "copyIn", "copyOut"} => local[c] \in Conn
  /\ pc[c] = "copyIn" => xfer[c] = "STOR"
  /\ pc[c] = "copyOut" => xfer[c] = "RETR"
  /\ pc[c] = "answer" /\ xfer[c] = "STOR" /\ acked[c] =>
       local[c] \in Conn /\ far[local[c]] = "fin"
Acknowledged == \A c \in Client : Transfers(c)

(* An acknowledgement stays earned. *)
LEMMA AcknowledgedStep ==
  ASSUME TypeOK, Acknowledged, [Next]_vars PROVE Acknowledged'
<1>0. /\ DOMAIN pc = Client /\ DOMAIN path = Client /\ DOMAIN xfer = Client
      /\ DOMAIN local = Client /\ DOMAIN acked = Client
      /\ dataClient \in Conn \cup {NoConn}
      /\ \A d \in Client : Transfers(d)
      /\ \A x \in Conn : far[x] = "fin" => far'[x] = "fin"
  BY EndsForGood DEF TypeOK, HandlerTypes, DataTypes, DiskTypes, Acknowledged
<1>1. ASSUME Peers \/ (\E k \in Loop : Server(k)) \/ Application \/ UNCHANGED vars
      PROVE  Acknowledged'
  BY <1>0, <1>1, OutsideKeepsHandlers DEF Acknowledged, Transfers, xferVars
<1>2. ASSUME NEW c \in Client, Handler(c) \/ Commanded(c) PROVE Acknowledged'
  <2>1. ASSUME NEW d \in Client, d # c PROVE Transfers(d)'
    <3>1. pc'[d] = pc[d] /\ xfer'[d] = xfer[d] /\ local'[d] = local[d]
          /\ acked'[d] = acked[d]
      BY <1>2, <2>1, HandlerKeepsOthers
    <3> QED
      BY <1>0, <3>1 DEF Transfers
  <2>2. far' = far /\ Transfers(c)
    BY <1>0, <1>2, HandlerKeepsPeers
  <2> USE <1>0, <2>2 DEF Transfers, restVars, dataVars, xferVars, Move, Reads, Goto
  <2>3. ASSUME GetStream(c) \/ GetStreamFails(c) \/ AcceptData(c) \/ AcceptDataFails(c)
             \/ AwaitData(c) \/ AwaitDataFails(c)
        PROVE  Transfers(c)'
    BY <2>3 DEF GetStream, GetStreamFails, AcceptData, AcceptDataFails, AwaitData,
       AwaitDataFails
  <2>4. ASSUME SendListing(c) \/ CreateFile(c) \/ CreateFileFails(c) \/ CopyIn(c)
             \/ OpenFile(c) \/ CopyOut(c)
        PROVE  Transfers(c)'
    BY <2>4 DEF SendListing, CreateFile, CreateFileFails, CopyIn, OpenFile, CopyOut
  <2>5. ASSUME CopyEnds(c)
        PROVE  Transfers(c)'
    BY <2>5 DEF CopyEnds, EndOfData
  <2>6. ASSUME Welcome(c) \/ Reply(c) \/ ReplyFails(c) \/ LoopTest(c)
             \/ EndOfStream(c) \/ Leave(c) \/ PasvStart(c) \/ PasvFails(c)
             \/ PortStart(c) \/ PortStop(c) \/ PortForget(c) \/ StartChecked(c)
             \/ StartCheckedFails(c) \/ ListChecks(c)
             \/ AnswerTransfer(c) \/ CloseData(c) \/ NullData(c)
             \/ MoveFile(c) \/ MoveDir(c) \/ RenameFails(c) \/ Forget(c)
             \/ XZipWrites(c) \/ XZipFails(c)
        PROVE  Transfers(c)'
    BY <2>6 DEF Welcome, Reply, ReplyFails, LoopTest, EndOfStream, Leave, PasvStart,
       PasvFails, PortStart, PortStop, PortForget, StartChecked, StartCheckedFails,
       ListChecks, CheckConnection, AnswerTransfer, CloseData, NullData, MoveFile,
       MoveDir, RenameFails, Forget, XZipWrites, XZipFails
  <2>7. ASSUME OnlyAnswer(c) \/ Quit(c) \/ Pasv(c) \/ Port(c)
             \/ TransferRefused(c) \/ (\E d \in Dir : Cwd(c, d))
             \/ \E n \in Name : \/ Mkd(c, n) \/ Rmd(c, n) \/ Dele(c, n)
                                \/ Rnfr(c, n) \/ XZip(c, n)
        PROVE  Transfers(c)'
    BY <2>7 DEF OnlyAnswer, Quit, Pasv, Port, TransferRefused, CheckConnection, Mkd,
       Rmd, Dele, Rnfr, Cwd, XZip
  <2>8. ASSUME \E n \in Name : Rnto(c, n)
        PROVE  Transfers(c)'
    BY <2>8 DEF Rnto
  <2>9. ASSUME List(c) \/ \E n \in Name : Stor(c, n) \/ Retr(c, n)
        PROVE  Transfers(c)'
    BY <2>9 DEF List, Stor, Retr, Begin, CheckConnection
  <2> HIDE DEF Transfers, Move
  <2>10. CASE Handler(c)
    <3>1. Transfers(c)'
      BY <2>3, <2>4, <2>5, <2>6, <2>10 DEF Handler
    <3> QED
      BY <2>1, <3>1 DEF Acknowledged
  <2>11. CASE Commanded(c)
    <3>1. Transfers(c)'
      BY <2>7, <2>8, <2>9, <2>11 DEF Commanded
    <3> QED
      BY <2>1, <3>1 DEF Acknowledged
  <2> QED
    BY <1>2, <2>10, <2>11
<1> QED
  BY <1>1, <1>2 DEF Next

(* No STOR is answered 226 because another session closed the shared data  *)
(* connection, nor for any reason but that its own peer ended the upload.  *)
THEOREM SuccessIsEarned == Spec => []NoTruncatedSuccess
<1>1. Init => TypeOK /\ Prepared /\ Acknowledged
  <2>1. Init => Acknowledged
    BY DEF Init, Acknowledged, Transfers
  <2> QED
    BY <2>1, InitTypes
<1>2. (TypeOK /\ Prepared /\ Acknowledged) /\ [Next]_vars
        => (TypeOK /\ Prepared /\ Acknowledged)'
  BY TypeStep, SettledStep, ClientSettledStep, FilesHaveDirsStep, AcknowledgedStep
     DEF Prepared
<1>3. Acknowledged => NoTruncatedSuccess
  BY DEF Acknowledged, Transfers, NoTruncatedSuccess
<1> QED
  BY <1>1, <1>2, <1>3, PTL DEF Spec

(***************************************************************************)
(* StopAsync misses at most one handler per StartAsync.                    *)
(***************************************************************************)
(* Inductive: nothing listens while the server is stopped, so that no      *)
(* handler begins after the snapshot, and those it misses are in the hands *)
(* of an accept loop when it is taken.                                     *)
Missed == {c \in Client : Running(c) /\ c \notin snap}
Stopping ==
  /\ app # "idle" => ~isRunning
  /\ \A g \in Loop : control[g] = "listening" => isRunning /\ g = gen
  /\ app \in {"awaiting", "stopped"} => Cardinality(Missed) <= starts
  /\ app = "stopped" => \A c \in snap : ~Running(c)

(* The clients the accept loops hold are no more than the loops begun.     *)
LEMMA HeldAreFew ==
  ASSUME TypeOK, LoopsHold,
         NEW S \in SUBSET Client, \A c \in S : \E k \in Loop : loopClient[k] = c
  PROVE  Cardinality(S) <= starts
<1> DEFINE held == {loopClient[k] : k \in 1..starts}
<1>1. starts \in Nat /\ starts <= MaxStarts /\ MaxStarts \in Nat
  BY ConstantsAssumption DEF TypeOK, ServerTypes
<1>2. IsFiniteSet(1..starts) /\ Cardinality(1..starts) = starts
  BY <1>1, FS_Interval
<1>3. IsFiniteSet(held) /\ Cardinality(held) <= starts
  <2>1. [k \in 1..starts |-> loopClient[k]] \in Surjection(1..starts, held)
    BY DEF Surjection
  <2> QED
    BY <1>2, <2>1, FS_Surjection
<1>4. S \subseteq held
  <2>1. SUFFICES ASSUME NEW c \in S PROVE c \in held
    OBVIOUS
  <2>2. PICK k \in Loop : loopClient[k] = c
    OBVIOUS
  <2>3. loop[k] = "store"
    BY <2>2, ConstantsAssumption DEF LoopsHold
  <2>4. k \in 1..starts
    BY <1>1, <2>3 DEF LoopsHold, Loop
  <2> QED
    BY <2>2, <2>4
<1>5. Cardinality(S) <= Cardinality(held)
  BY <1>3, <1>4, FS_Subset
<1>6. Cardinality(S) \in Nat /\ Cardinality(held) \in Nat
  BY <1>3, <1>4, FS_Subset, FS_CardinalityType
<1> QED
  BY <1>1, <1>3, <1>5, <1>6

(* A handler takes its steps and commands while it runs.                   *)
LEMMA HandlerRuns ==
  ASSUME NEW c \in Client, Handler(c) \/ Commanded(c)
  PROVE  Running(c)
<1> USE DEF Running, Move, Reads, Begin
<1>1. CASE Handler(c)
  BY <1>1 DEF Handler, Welcome, Reply, ReplyFails, LoopTest, EndOfStream, Leave,
     PasvStart, PasvFails, PortStart, PortStop, PortForget, StartChecked,
     StartCheckedFails, ListChecks, CheckConnection, StartData, AwaitData,
     AwaitDataFails, AcceptData, AcceptDataFails, GetStream, GetStreamFails,
     SendListing, CreateFile, CreateFileFails, CopyIn, CopyEnds, OpenFile, CopyOut,
     AnswerTransfer, CloseData, NullData, MoveFile, MoveDir, RenameFails, Forget,
     XZipWrites, XZipFails
<1>2. CASE Commanded(c)
  BY <1>2 DEF Commanded, OnlyAnswer, Quit, Pasv, Port, TransferRefused, CheckConnection,
     List, Stor, Retr, Mkd, Rmd, Dele, Rnfr, Rnto, XZip, Cwd
<1> QED
  BY <1>1, <1>2

(* Only an accept makes a handler run.                                     *)
LEMMA OnlyAcceptRuns ==
  ASSUME TypeOK, [Next]_vars, NEW c \in Client, Running(c)', ~Running(c)
  PROVE  \E k \in Loop : Accept(k, c)
<1>0. DOMAIN pc = Client
  BY DEF TypeOK, HandlerTypes
<1>1. ASSUME NEW d \in Client, Handler(d) \/ Commanded(d) PROVE FALSE
  <2>1. d # c
    BY <1>1, HandlerRuns
  <2>2. pc'[c] = pc[c]
    BY <1>1, <2>1, HandlerKeepsOthers
  <2> QED
    BY <2>2 DEF Running
<1>2. CASE Peers
  BY <1>0, <1>2 DEF Peers, Connect, Disconnect, DataConnect, DataPush, DataStalls,
     DataEnds, Running
<1>3. ASSUME NEW k \in Loop, Server(k) PROVE Accept(k, c)
  BY <1>0, <1>3 DEF Server, CheckRunning, Accept, Store, AcceptFails, Running
<1>4. CASE Application \/ UNCHANGED vars
  BY <1>0, <1>4 DEF Application, Start, StopBegin, StopSnapshot, StopReturns, Setup,
     Running, vars
<1> QED
  BY <1>1, <1>2, <1>3, <1>4 DEF Next

(* While nothing listens the handlers that run, and those the snapshot has *)
(* missed, can only become fewer.                                          *)
LEMMA MissedShrink ==
  ASSUME TypeOK, Stopping, [Next]_vars, ~isRunning
  PROVE  /\ \A c \in Client : Running(c)' => Running(c)
         /\ UNCHANGED snap => /\ Missed' \subseteq Missed
                              /\ Cardinality(Missed') <= Cardinality(Missed)
                              /\ Cardinality(Missed') \in Nat /\ Cardinality(Missed) \in Nat
<1>1. ASSUME NEW c \in Client, Running(c)', ~Running(c) PROVE FALSE
  <2>1. PICK k \in Loop : Accept(k, c)
    BY <1>1, OnlyAcceptRuns
  <2>2. loopAt[k] \in Loop /\ control[loopAt[k]] = "listening"
    BY <2>1 DEF Accept, TypeOK, ServerTypes
  <2> QED
    BY <2>2 DEF Stopping
<1>2. ASSUME UNCHANGED snap
      PROVE  Missed' \subseteq Missed
  BY <1>1, <1>2 DEF Missed
<1>3. IsFiniteSet(Missed) /\ Cardinality(Missed) \in Nat
  BY ConstantsAssumption, FS_Subset, FS_CardinalityType DEF Missed
<1>4. ASSUME UNCHANGED snap
      PROVE  Cardinality(Missed') <= Cardinality(Missed) /\ Cardinality(Missed') \in Nat
  BY <1>2, <1>3, <1>4, FS_Subset, FS_CardinalityType
<1> QED
  BY <1>1, <1>2, <1>3, <1>4

(* Steps of handlers, peers and accept loops. *)
LEMMA StoppingKept ==
  ASSUME TypeOK, Stopping, [Next]_vars,
         UNCHANGED <<isRunning, gen, control, starts, app, snap>>
  PROVE  Stopping'
<1>1. starts \in Nat
  BY DEF TypeOK, ServerTypes
<1>2. CASE app = "idle"
  BY <1>2 DEF Stopping
<1>3. CASE app # "idle"
  <2>1. ~isRunning
    BY <1>3 DEF Stopping
  <2>2. /\ \A c \in Client : Running(c)' => Running(c)
        /\ Cardinality(Missed') <= Cardinality(Missed)
        /\ Cardinality(Missed') \in Nat /\ Cardinality(Missed) \in Nat
    BY <2>1, MissedShrink
  <2>3. app' \in {"awaiting", "stopped"} => Cardinality(Missed') <= starts'
    BY <1>1, <2>2 DEF Stopping
  <2>4. app' = "stopped" => \A c \in snap' : ~Running(c)'
    BY <2>2 DEF Stopping, TypeOK, ServerTypes
  <2> QED
    BY <2>3, <2>4 DEF Stopping
<1> QED
  BY <1>2, <1>3

(* Every step keeps what StopAsync misses bounded. *)
LEMMA StoppingStep ==
  ASSUME TypeOK, Registered, Stopping, [Next]_vars PROVE Stopping'
<1>0. /\ control \in [Loop -> {"new", "listening", "stopped"}] /\ gen \in Loop
      /\ starts \in Nat /\ snap \subseteq Client /\ clients \subseteq Client
  BY DEF TypeOK, ServerTypes
<1>1. ASSUME NEW c \in Client, Handler(c) \/ Commanded(c) PROVE Stopping'
  BY <1>1, HandlerKeepsServer, StoppingKept DEF serverVars, loopVars, stopVars
<1>2. CASE Peers
  <2>1. UNCHANGED serverVars
    BY <1>2 DEF Peers, Connect, Disconnect, DataConnect, DataPush, DataStalls, DataEnds,
       restVars
  <2> QED
    BY <2>1, StoppingKept DEF serverVars, loopVars, stopVars
<1>3. ASSUME NEW k \in Loop, Server(k) PROVE Stopping'
  <2>1. UNCHANGED <<isRunning, gen, control, starts, app, snap>>
    BY <1>3 DEF Server, CheckRunning, Accept, Store, AcceptFails, stopVars
  <2> QED
    BY <2>1, StoppingKept
<1>4. CASE Start
  <2>1. /\ ~isRunning /\ isRunning' = TRUE /\ app' = "idle" /\ gen' = gen
        /\ control' = [control EXCEPT ![gen] = "listening"]
    BY <1>4 DEF Start
  <2> QED
    BY <1>0, <2>1 DEF Stopping
<1>5. CASE StopBegin
  <2>1. /\ isRunning' = FALSE /\ app' = "snapshot" /\ gen' = gen
        /\ control' = [control EXCEPT ![gen] = "stopped"]
    BY <1>5 DEF StopBegin
  <2>2. \A g \in Loop : control'[g] # "listening"
    BY <1>0, <2>1 DEF Stopping
  <2> QED
    BY <2>1, <2>2 DEF Stopping
<1>6. CASE StopSnapshot
  <2>1. /\ app = "snapshot" /\ app' = "awaiting" /\ snap' = clients
        /\ UNCHANGED <<isRunning, gen, control, starts, loopClient, pc>>
    BY <1>6 DEF StopSnapshot, loopVars
  <2>2. Missed' = {c \in Client : Running(c) /\ c \notin clients}
    BY <2>1 DEF Missed, Running
  <2>3. \A c \in Missed' : \E k \in Loop : loopClient[k] = c
    BY <2>2 DEF Registered, RunningIsRegistered
  <2>4. Cardinality(Missed') <= starts
    BY <2>2, <2>3, HeldAreFew DEF Registered
  <2> QED
    BY <2>1, <2>4 DEF Stopping
<1>7. CASE StopReturns
  <2>1. /\ app = "awaiting" /\ app' = "stopped" /\ \A c \in snap : pc[c] = "done"
        /\ UNCHANGED <<isRunning, gen, control, starts, snap, pc>>
    BY <1>7 DEF StopReturns, loopVars
  <2>2. Missed' = Missed
    BY <2>1 DEF Missed, Running
  <2>3. \A c \in snap' : ~Running(c)'
    BY <2>1 DEF Running
  <2> QED
    BY <2>1, <2>2, <2>3 DEF Stopping
<1>8. CASE Setup
  <2>1. /\ app = "stopped" /\ gen' = gen + 1
        /\ UNCHANGED <<isRunning, control, starts, snap, app, pc>>
    BY <1>8 DEF Setup, stopVars
  <2>2. Missed' = Missed /\ \A c \in Client : Running(c)' <=> Running(c)
    BY <2>1 DEF Missed, Running
  <2>3. ~isRunning /\ \A g \in Loop : control[g] # "listening"
    BY <2>1 DEF Stopping
  <2>4. \A c \in snap' : ~Running(c)'
    BY <1>0, <2>1, <2>2 DEF Stopping
  <2> QED
    BY <2>1, <2>2, <2>3, <2>4 DEF Stopping
<1>9. CASE UNCHANGED vars
  BY <1>9, StoppingKept DEF vars, restVars, serverVars, loopVars, stopVars
<1> QED
  BY <1>1, <1>2, <1>3, <1>4, <1>5, <1>6, <1>7, <1>8, <1>9 DEF Next, Application

(* When StopAsync has returned, no more handlers run than StartAsync has   *)
(* been called, for any number of sessions, restarts and old loops.        *)
THEOREM FewAreMissed == Spec => []StopMissesFew
<1>1. Init => TypeOK /\ Prepared /\ Registered /\ Stopping
  <2>1. Init => Registered
    BY DEF Init, Registered, LoopsHold, RunningIsRegistered, Running
  <2>2. Init => Stopping
    BY DEF Init, Stopping
  <2> QED
    BY <2>1, <2>2, InitTypes
<1>2. (TypeOK /\ Prepared /\ Registered /\ Stopping) /\ [Next]_vars
        => (TypeOK /\ Prepared /\ Registered /\ Stopping)'
  BY TypeStep, SettledStep, ClientSettledStep, FilesHaveDirsStep, RegisteredStep,
     StoppingStep DEF Prepared
<1>3. TypeOK /\ Stopping => StopMissesFew
  <2> SUFFICES ASSUME TypeOK, Stopping, app = "stopped"
               PROVE  Cardinality({c \in Client : Running(c)}) <= starts
    BY DEF StopMissesFew
  <2>1. {c \in Client : Running(c)} = Missed
    BY DEF Stopping, Missed, TypeOK, ServerTypes
  <2> QED
    BY <2>1 DEF Stopping
<1> QED
  BY <1>1, <1>2, <1>3, PTL DEF Spec

(***************************************************************************)
(* A server with one session: its data connections are fresh, closed when  *)
(* the transfer is over, and an acknowledged upload is complete.           *)
(***************************************************************************)
(* How many listeners there are, and which can hold a connection nobody    *)
(* has accepted yet.                                                       *)
Listeners ==
  /\ \E n \in 0..MaxListeners : \A l \in Listener : data[l] # "none" <=> l <= n
  /\ \A l \in Listener : data[l] # "listening" => queue[l] = <<>>
  /\ dataListener # 0 => data[dataListener] # "none"

(* A waiting connection has been opened, waits once and is unread, and so  *)
(* is every connection its peer has not opened yet.                        *)
Unread(x) == x[2] <= conns[x[1]] /\ taken[x] = 0
Queues ==
  /\ \A l \in Listener : \A i \in 1..Len(queue[l]) : Unread(queue[l][i])
  /\ \A l, m \in Listener : \A i \in 1..Len(queue[l]), j \in 1..Len(queue[m]) :
       queue[l][i] = queue[m][j] => l = m /\ i = j
  /\ \A x \in Conn : conns[x[1]] < x[2] => taken[x] = 0

(* What waits at the listener of the field was opened after the last 227.  *)
Fresh(c) ==
  /\ base[c] <= conns[c]
  /\ dataListener # 0 => \A i \in 1..Len(queue[dataListener]) :
                           base[c] < queue[dataListener][i][2]
  /\ pc[c] = "pasv" => dataListener # 0 /\ data[dataListener] = "new"
  /\ pc[c] = "accept" => dataListener # 0 /\ waitOn[c] = dataListener

(* The connection of a transfer: fresh, and waiting nowhere.               *)
Waits(x) == \E l \in Listener : \E i \in 1..Len(queue[l]) : queue[l][i] = x
Own(c, x) == x \in Conn /\ base[c] < x[2] /\ x[2] <= conns[x[1]] /\ ~Waits(x)

(* A connection is open only during a transfer, which uses that one.       *)
Busy(c) == pc[c] \in {"stream", "opened", "copyIn", "copyOut", "answer", "closing"}
Uses(c) ==
  /\ \A x \in Conn : conn[x] = "open" => x = dataClient /\ Busy(c)
  /\ dataClient # NoConn => Busy(c) \/ pc[c] = "nulling"
  /\ pc[c] = "stream" => Own(c, dataClient) /\ taken[dataClient] = 0
  /\ local[c] # NoConn =>
       /\ pc[c] \in {"opened", "copyIn", "copyOut", "answer", "closing", "nulling"}
       /\ Own(c, local[c])
  /\ pc[c] = "opened" => taken[local[c]] = 0

(* The file of an upload holds what has been read, and at the end all of   *)
(* what has been written.                                                  *)
Holds(c, k) == fs[path[c]] = [i \in 1..k |-> local[c]]
Uploaded(c) ==
  /\ pc[c] = "copyIn" => path[c] \in DOMAIN fs /\ Holds(c, taken[local[c]])
  /\ pc[c] \in {"answer", "closing"} /\ xfer[c] = "STOR" /\ acked[c] =>
       /\ local[c] \in Conn /\ far[local[c]] = "fin"
       /\ Holds(c, pushed[local[c]])

OneSession == Listeners /\ Queues /\ \A c \in Client : Fresh(c) /\ Uses(c) /\ Uploaded(c)
Alone == \A c, d \in Client : c = d

(* What the proofs need of the types of the data connections.              *)
LEMMA DataShape ==
  ASSUME TypeOK
  PROVE  /\ data \in [Listener -> {"none", "new", "listening", "stopped"}]
         /\ queue \in [Listener -> Seq(Conn)]
         /\ \A l \in Listener : Len(queue[l]) \in Nat
         /\ \A l \in Listener : \A i \in 1..Len(queue[l]) : queue[l][i] \in Conn
         /\ \A x \in Conn : x[1] \in Client /\ x[2] \in Nat /\ taken[x] \in Nat /\ pushed[x] \in Nat
         /\ \A c \in Client : conns[c] \in Nat /\ base[c] \in Nat
         /\ dataListener \in 0..MaxListeners /\ (dataListener # 0 => dataListener \in Listener)
<1>1. /\ data \in [Listener -> {"none", "new", "listening", "stopped"}]
      /\ queue \in [Listener -> Seq(Conn)]
      /\ taken \in [Conn -> 0..MaxChunks] /\ pushed \in [Conn -> 0..MaxChunks]
      /\ conns \in [Client -> 0..MaxConns] /\ base \in [Client -> 0..MaxConns]
      /\ dataListener \in 0..MaxListeners
  BY DEF TypeOK, DataTypes
<1>2. \A l \in Listener : Len(queue[l]) \in Nat
  BY <1>1
<1>3. \A l \in Listener : \A i \in 1..Len(queue[l]) : queue[l][i] \in Conn
  BY <1>1
<1>4. \A x \in Conn : x[1] \in Client /\ x[2] \in Nat
  BY ConstantsAssumption DEF Conn
<1>5. \A x \in Conn : taken[x] \in Nat /\ pushed[x] \in Nat
  BY <1>1, ConstantsAssumption
<1>6. \A c \in Client : conns[c] \in Nat /\ base[c] \in Nat
  BY <1>1, ConstantsAssumption
<1>7. dataListener # 0 => dataListener \in Listener
  BY <1>1, ConstantsAssumption DEF Listener
<1> QED
  BY <1>1, <1>2, <1>3, <1>4, <1>5, <1>6, <1>7

(* A new listener has a number of its own, and nobody waits at it.         *)
LEMMA NewListener ==
  ASSUME TypeOK, Listeners, CanListen
  PROVE  /\ NextListener \in Listener
         /\ data[NextListener] = "none" /\ queue[NextListener] = <<>>
         /\ \A l \in Listener : data[l] # "none" <=> l < NextListener
<1>1. PICK n \in 0..MaxListeners : \A l \in Listener : data[l] # "none" <=> l <= n
  BY DEF Listeners
<1>2. {l \in Listener : data[l] # "none"} = 1..n
  BY <1>1, ConstantsAssumption DEF Listener
<1>3. n \in Nat /\ Cardinality(1..n) = n
  BY <1>1, ConstantsAssumption, FS_Interval
<1>4. NextListener = n + 1
  BY <1>2, <1>3 DEF NextListener
<1>5. NextListener \in Listener
  BY NextListenerType
<1>6. \A l \in Listener : l \in Nat
  BY DEF Listener
<1>7. \A l \in Listener : data[l] # "none" <=> l < NextListener
  BY <1>1, <1>3, <1>4, <1>6
<1>8. data[NextListener] = "none"
  BY <1>5, <1>6, <1>7
<1> QED
  BY <1>5, <1>7, <1>8 DEF Listeners

(* The next listener is put into the field.                                *)
LEMMA ListenersGrow ==
  ASSUME TypeOK, Listeners, CanListen, NEW v \in {"new", "listening"},
         dataListener' = NextListener, data' = [data EXCEPT ![NextListener] = v],
         UNCHANGED queue
  PROVE  /\ Listeners'
         /\ dataListener' # 0 /\ dataListener' \in Listener
         /\ queue'[dataListener'] = <<>> /\ data'[dataListener'] = v
<1>1. /\ NextListener \in Listener
      /\ data[NextListener] = "none" /\ queue[NextListener] = <<>>
      /\ \A l \in Listener : data[l] # "none" <=> l < NextListener
  BY NewListener
<1>2. data'[NextListener] = v /\ \A l \in Listener \ {NextListener} : data'[l] = data[l]
  BY <1>1, DataShape
<1>3. NextListener \in 0..MaxListeners /\ NextListener # 0
      /\ \A l \in Listener : l \in Nat
  BY <1>1 DEF Listener
<1>4. \A l \in Listener : data'[l] # "none" <=> l <= NextListener
  BY <1>1, <1>2, <1>3
<1>5. \A l \in Listener : data'[l] # "listening" => queue'[l] = <<>>
  BY <1>1, <1>2 DEF Listeners
<1> QED
  BY <1>1, <1>2, <1>3, <1>4, <1>5 DEF Listeners

(* CheckConnection finds a listener in the field or puts a new one there.  *)
LEMMA ListenersChecked ==
  ASSUME TypeOK, Listeners, NEW c, NEW next, CheckConnection(c, next), UNCHANGED queue
  PROVE  /\ Listeners'
         /\ dataListener' # 0
         /\ \/ dataListener' = dataListener
            \/ dataListener' \in Listener /\ queue'[dataListener'] = <<>>
<1>1. CASE dataListener # 0
  BY <1>1 DEF CheckConnection, Listeners
<1>2. CASE dataListener = 0
  BY <1>2, ListenersGrow DEF CheckConnection
<1> QED
  BY <1>1, <1>2

(* Starting the listener of the field. *)
LEMMA ListenersStart ==
  ASSUME TypeOK, Listeners, dataListener # 0, StartData(dataListener),
         UNCHANGED <<dataListener, queue>>
  PROVE  Listeners'
<1>1. data \in [Listener -> {"none", "new", "listening", "stopped"}]
      /\ dataListener \in Listener
  BY DataShape
<1>2. \A l \in Listener : data'[l] = IF l = dataListener THEN "listening" ELSE data[l]
  BY <1>1 DEF StartData
<1> QED
  BY <1>1, <1>2 DEF Listeners

(* What is left of a queue when its first connection is accepted.          *)
LEMMA QueueTail ==
  ASSUME TypeOK, NEW l \in Listener, queue[l] # <<>>,
         queue' = [queue EXCEPT ![l] = Tail(@)]
  PROVE  /\ \A m \in Listener \ {l} : queue'[m] = queue[m]
         /\ 1 \in 1..Len(queue[l]) /\ Head(queue[l]) = queue[l][1]
         /\ \A i \in 1..Len(queue'[l]) :
              i + 1 \in 1..Len(queue[l]) /\ queue'[l][i] = queue[l][i + 1]
<1>1. queue \in [Listener -> Seq(Conn)]
  BY DEF TypeOK, DataTypes
<1>2. queue[l] \in Seq(Conn) /\ queue'[l] = Tail(queue[l])
  BY <1>1
<1>3. /\ Len(queue[l]) \in Nat /\ Len(queue[l]) # 0
      /\ Len(Tail(queue[l])) = Len(queue[l]) - 1
  BY <1>2
<1>4. \A i \in 1..Len(Tail(queue[l])) : Tail(queue[l])[i] = queue[l][i + 1]
  BY <1>2
<1>5. Head(queue[l]) = queue[l][1]
  BY <1>2
<1>6. \A m \in Listener \ {l} : queue'[m] = queue[m]
  BY <1>1
<1>7. Len(queue[l]) \in Nat /\ Len(queue[l]) # 0 /\ Len(queue'[l]) = Len(queue[l]) - 1
  BY <1>2, <1>3
<1>8. 1 \in 1..Len(queue[l])
  BY <1>7
<1>9. \A i \in 1..Len(queue'[l]) : i + 1 \in 1..Len(queue[l])
  BY <1>7
<1>10. \A i \in 1..Len(queue'[l]) : queue'[l][i] = queue[l][i + 1]
  BY <1>2, <1>4
<1> QED
  BY <1>5, <1>6, <1>8, <1>9, <1>10

(* A queue one more connection waits in.                                   *)
LEMMA QueueAppend ==
  ASSUME TypeOK, NEW l \in Listener, NEW x \in Conn,
         queue' = [queue EXCEPT ![l] = Append(@, x)]
  PROVE  \A m \in Listener : \A i \in 1..Len(queue'[m]) :
           \/ i \in 1..Len(queue[m]) /\ queue'[m][i] = queue[m][i]
           \/ m = l /\ i = Len(queue[l]) + 1 /\ queue'[m][i] = x
<1>1. queue \in [Listener -> Seq(Conn)]
  BY DEF TypeOK, DataTypes
<1>2. queue[l] \in Seq(Conn) /\ queue'[l] = Append(queue[l], x)
  BY <1>1
<1>3. \A m \in Listener \ {l} : queue'[m] = queue[m]
  BY <1>1
<1>4. \A i \in 1..Len(queue'[l]) :
        \/ i \in 1..Len(queue[l]) /\ queue'[l][i] = queue[l][i]
        \/ i = Len(queue[l]) + 1 /\ queue'[l][i] = x
  BY <1>2
<1> QED
  BY <1>3, <1>4

(* Steps of accept loops, the application and control connections.         *)
Outside ==
  /\ UNCHANGED <<dataVars, diskVars>>
  /\ \A d \in Client : \/ pc'[d] = pc[d]
                       \/ /\ pc[d] \in {"absent", "backlog"}
                          /\ pc'[d] \in {"backlog", "welcome", "refused"}
PeerData(x) ==
  DataPush(x) \/ DataStalls(x) \/ DataEnds(x, "fin") \/ DataEnds(x, "reset")

(* Who can take a step. *)
LEMMA WhoSteps ==
  ASSUME TypeOK, [Next]_vars
  PROVE  \/ \E c \in Client : Handler(c) \/ Commanded(c) \/ DataConnect(c)
         \/ \E x \in Conn : PeerData(x)
         \/ Outside
<1>0. DOMAIN pc = Client
  BY DEF TypeOK, HandlerTypes
<1>1. CASE Peers
  BY <1>0, <1>1 DEF Peers, Connect, Disconnect, PeerData, Outside, restVars
<1>2. CASE \E k \in Loop : Server(k)
  BY <1>0, <1>2 DEF Server, CheckRunning, Accept, Store, AcceptFails, Outside
<1>3. CASE Application
  BY <1>0, <1>3 DEF Application, Start, StopBegin, StopSnapshot, StopReturns, Setup,
     Outside
<1>4. CASE UNCHANGED vars
  BY <1>4 DEF vars, restVars, Outside
<1> QED
  BY <1>1, <1>2, <1>3, <1>4 DEF Next

(* Steps of a handler that change the listeners or their queues, and those *)
(* that change a data connection.                                          *)
Listens(c) ==
  \/ Pasv(c) \/ PasvStart(c) \/ Port(c) \/ PortStart(c) \/ PortStop(c) \/ PortForget(c)
  \/ StartChecked(c) \/ ListChecks(c) \/ TransferRefused(c)
  \/ AwaitData(c) \/ AcceptData(c)
  \/ \E n \in Name : Stor(c, n) \/ Retr(c, n)
Carries(c) ==
  \/ AcceptData(c) \/ GetStream(c) \/ SendListing(c) \/ CopyIn(c)
  \/ CloseData(c) \/ NullData(c) \/ PortStop(c)

(* All other steps of a handler leave the listeners alone.                 *)
LEMMA OthersListenNot ==
  ASSUME TypeOK, NEW c \in Client, Handler(c) \/ Commanded(c), ~Listens(c)
  PROVE  UNCHANGED <<listenVars, toldVars>> /\ pc'[c] \notin {"pasv", "accept"}
<1>0. DOMAIN pc = Client
  BY DEF TypeOK, HandlerTypes
<1> USE <1>0 DEF restVars, dataVars, Move, Reads, Goto
<1>1. CASE Handler(c)
  BY <1>1 DEF Listens, Handler, Welcome, Reply, ReplyFails, LoopTest, EndOfStream,
     Leave, PasvFails, StartCheckedFails, AwaitDataFails, AcceptDataFails, GetStream,
     GetStreamFails, SendListing, CreateFile, CreateFileFails, CopyIn, CopyEnds,
     OpenFile, CopyOut, AnswerTransfer, CloseData, NullData, MoveFile, MoveDir,
     RenameFails, Forget, XZipWrites, XZipFails
<1>2. CASE Commanded(c)
  <2>1. ASSUME NEW n \in Name, Rnto(c, n)
        PROVE  UNCHANGED <<listenVars, toldVars>> /\ pc'[c] \notin {"pasv", "accept"}
    BY <2>1 DEF Rnto
  <2>2. CASE List(c)
    BY <2>2 DEF List, Begin, listenVars
  <2> QED
    BY <1>2, <2>1, <2>2 DEF Listens, Commanded, OnlyAnswer, Quit, Mkd, Rmd, Dele, Rnfr,
       XZip, Cwd
<1> QED
  BY <1>1, <1>2

(* All other steps of a handler leave the data connections alone.          *)
LEMMA OthersCarryNot ==
  ASSUME NEW c \in Client, Handler(c) \/ Commanded(c), ~Carries(c)
  PROVE  UNCHANGED <<conn, taken, dataClient, local>>
<1> USE DEF restVars, dataVars, connVars, xferVars, Move, Reads, Begin
<1>1. CASE Handler(c)
  BY <1>1 DEF Carries, Handler, Welcome, Reply, ReplyFails, LoopTest, EndOfStream,
     Leave, PasvStart, PasvFails, PortStart, PortForget, StartChecked,
     StartCheckedFails, ListChecks, CheckConnection, AwaitData, AwaitDataFails,
     AcceptDataFails, GetStreamFails, CreateFile, CreateFileFails, CopyEnds, OpenFile,
     CopyOut, AnswerTransfer, MoveFile, MoveDir, RenameFails, Forget, XZipWrites,
     XZipFails
<1>2. CASE Commanded(c)
  BY <1>2 DEF Commanded, OnlyAnswer, Quit, Pasv, Port, TransferRefused, CheckConnection,
     List, Stor, Retr, Mkd, Rmd, Dele, Rnfr, Rnto, XZip, Cwd
<1> QED
  BY <1>1, <1>2

(* The listeners stay numbered in order, and only a listening one has a    *)
(* queue.                                                                  *)
LEMMA ListenersStep ==
  ASSUME TypeOK, Prepared, Listeners, [Next]_vars PROVE Listeners'
<1>0. /\ data \in [Listener -> {"none", "new", "listening", "stopped"}]
      /\ DOMAIN queue = Listener
      /\ dataListener # 0 => dataListener \in Listener
  BY DataShape DEF TypeOK, DataTypes
<1>1. ASSUME UNCHANGED <<dataListener, data, queue>> PROVE Listeners'
  BY <1>1 DEF Listeners
<1>2. ASSUME NEW c \in Client, Handler(c) \/ Commanded(c) PROVE Listeners'
  <2>1. CASE Pasv(c)
    BY <2>1, ListenersGrow DEF Pasv
  <2>2. CASE Port(c)
    BY <1>1, <2>2, ListenersGrow DEF Port
  <2>3. CASE \E n \in Name : Stor(c, n) \/ Retr(c, n)
    BY <2>3, ListenersChecked DEF Stor, Retr, Begin
  <2>4. CASE ListChecks(c) \/ TransferRefused(c)
    BY <2>4, ListenersChecked DEF ListChecks, TransferRefused
  <2>5. CASE PasvStart(c) \/ StartChecked(c)
    BY <2>5, ListenersStart DEF PasvStart, StartChecked
  <2>6. CASE PortStart(c)
    BY <1>1, <2>6, ListenersStart DEF PortStart
  <2>9. CASE PortStop(c)
    <3>1. CASE dataListener = 0
      BY <1>1, <2>9, <3>1 DEF PortStop
    <3>2. CASE dataListener # 0
      <4>1. /\ data' = [data EXCEPT ![dataListener] = "stopped"]
            /\ queue' = [queue EXCEPT ![dataListener] = <<>>]
            /\ UNCHANGED dataListener
        BY <2>9, <3>2 DEF PortStop
      <4>2. \A l \in Listener :
              /\ data'[l] = IF l = dataListener THEN "stopped" ELSE data[l]
              /\ queue'[l] = IF l = dataListener THEN <<>> ELSE queue[l]
        BY <1>0, <4>1
      <4> QED
        BY <1>0, <3>2, <4>1, <4>2 DEF Listeners
    <3> QED
      BY <3>1, <3>2
  <2>10. CASE PortForget(c)
    BY <2>10 DEF PortForget, Listeners
  <2>11. CASE AwaitData(c)
    BY <1>1, <2>11 DEF AwaitData
  <2>7. CASE AcceptData(c)
    <3>1. waitOn[c] \in Listener
      BY <2>7 DEF AcceptData, Prepared, ListenerSettled
    <3>2. /\ queue[waitOn[c]] # <<>> /\ UNCHANGED <<dataListener, data>>
          /\ queue' = [queue EXCEPT ![waitOn[c]] = Tail(@)]
      BY <2>7 DEF AcceptData
    <3>3. \A l \in Listener \ {waitOn[c]} : queue'[l] = queue[l]
      BY <3>1, <3>2, QueueTail
    <3> QED
      BY <3>1, <3>2, <3>3 DEF Listeners
  <2>8. CASE ~Listens(c)
    BY <1>1, <1>2, <2>8, OthersListenNot DEF listenVars
  <2> QED
    BY <2>1, <2>2, <2>3, <2>4, <2>5, <2>6, <2>7, <2>8, <2>9, <2>10, <2>11 DEF Listens
<1>3. ASSUME NEW c \in Client, DataConnect(c) PROVE Listeners'
  <2>1. CASE data[told[c]] = "listening"
    <3>1. UNCHANGED <<data, dataListener>>
      BY <1>3 DEF DataConnect
    <3>2. \A l \in Listener \ {told[c]} : queue'[l] = queue[l]
      BY <1>0, <1>3, <2>1 DEF DataConnect
    <3> QED
      BY <2>1, <3>1, <3>2 DEF Listeners
  <2>2. CASE data[told[c]] # "listening"
    BY <1>1, <1>3, <2>2 DEF DataConnect
  <2> QED
    BY <2>1, <2>2
<1>4. ASSUME NEW x \in Conn, PeerData(x) PROVE Listeners'
  BY <1>1, <1>4 DEF PeerData, DataPush, DataStalls, DataEnds, listenVars
<1>5. CASE Outside
  BY <1>1, <1>5 DEF Outside, dataVars, listenVars
<1> QED
  BY <1>2, <1>3, <1>4, <1>5, WhoSteps

(* What waits stays unread and waits once.                                 *)
LEMMA QueuesStep ==
  ASSUME TypeOK, Prepared, Queues, \A c \in Client : Uses(c),
         Acknowledged, [Next]_vars
  PROVE  Queues'
<1>0. /\ \A l \in Listener : \A i \in 1..Len(queue[l]) : queue[l][i] \in Conn
      /\ \A x \in Conn : x[1] \in Client /\ x[2] \in Nat /\ taken[x] \in Nat
      /\ \A c \in Client : conns[c] \in Nat
      /\ DOMAIN queue = Listener /\ DOMAIN taken = Conn /\ DOMAIN conns = Client
  BY DataShape DEF TypeOK, DataTypes
<1>1. ASSUME UNCHANGED <<queue, conns, taken>> PROVE Queues'
  BY <1>1 DEF Queues, Unread
<1>2. ASSUME NEW c \in Client, Handler(c) \/ Commanded(c) PROVE Queues'
  <2>0. UNCHANGED conns
    BY <1>2, HandlerKeepsPeers
  <2>1. CASE PortStop(c)
    <3>1. UNCHANGED taken
      BY <2>1 DEF PortStop
    <3>2. \A l \in Listener : queue'[l] = queue[l] \/ queue'[l] = <<>>
      BY <1>0, <2>1 DEF PortStop
    <3>3. \A l \in Listener : \A i \in 1..Len(queue'[l]) :
            i \in 1..Len(queue[l]) /\ queue'[l][i] = queue[l][i]
      BY <3>2
    <3> QED
      BY <2>0, <3>1, <3>3 DEF Queues, Unread
  <2>2. CASE AcceptData(c)
    <3>1. waitOn[c] \in Listener
      BY <2>2 DEF AcceptData, Prepared, ListenerSettled
    <3>2. /\ queue[waitOn[c]] # <<>> /\ UNCHANGED taken
          /\ queue' = [queue EXCEPT ![waitOn[c]] = Tail(@)]
      BY <2>2 DEF AcceptData
    <3>3. /\ \A l \in Listener \ {waitOn[c]} : queue'[l] = queue[l]
          /\ \A i \in 1..Len(queue'[waitOn[c]]) :
               /\ i + 1 \in 1..Len(queue[waitOn[c]])
               /\ queue'[waitOn[c]][i] = queue[waitOn[c]][i + 1]
      BY <3>1, <3>2, QueueTail
    <3> DEFINE At(l, i) == IF l = waitOn[c] THEN i + 1 ELSE i
    <3>4. \A l \in Listener : \A i \in 1..Len(queue'[l]) :
            At(l, i) \in 1..Len(queue[l]) /\ queue'[l][i] = queue[l][At(l, i)]
      BY <3>3
    <3>5. \A l, m \in Listener : \A i \in 1..Len(queue'[l]), j \in 1..Len(queue'[m]) :
            l = m /\ At(l, i) = At(m, j) => i = j
      OBVIOUS
    <3> HIDE DEF At
    <3>6. ASSUME NEW l \in Listener, NEW i \in 1..Len(queue'[l])
          PROVE  /\ queue'[l][i][2] <= conns'[queue'[l][i][1]]
                 /\ taken'[queue'[l][i]] = 0
      BY <2>0, <3>2, <3>4 DEF Queues, Unread
    <3>7. ASSUME NEW l \in Listener, NEW m \in Listener,
                 NEW i \in 1..Len(queue'[l]), NEW j \in 1..Len(queue'[m]),
                 queue'[l][i] = queue'[m][j]
          PROVE  l = m /\ i = j
      <4>1. queue[l][At(l, i)] = queue[m][At(m, j)]
            /\ At(l, i) \in 1..Len(queue[l]) /\ At(m, j) \in 1..Len(queue[m])
        BY <3>4, <3>7
      <4>2. l = m /\ At(l, i) = At(m, j)
        BY <4>1 DEF Queues
      <4> QED
        BY <3>5, <4>2
    <3>8. \A x \in Conn : conns'[x[1]] < x[2] => taken'[x] = 0
      BY <2>0, <3>2 DEF Queues
    <3> QED
      BY <3>6, <3>7, <3>8 DEF Queues, Unread
  <2>3. CASE CopyIn(c)
    <3>1. /\ pc[c] = "copyIn" /\ UNCHANGED queue
          /\ taken' = [taken EXCEPT ![local[c]] = @ + 1]
      BY <2>3 DEF CopyIn, listenVars
    <3>2. local[c] \in Conn
      BY <3>1 DEF Acknowledged, Transfers
    <3>3. local[c] # NoConn
      BY <3>2, ConstantsAssumption DEF Conn, NoConn
    <3>4. Own(c, local[c])
      BY <3>3 DEF Uses
    <3>5. \A x \in Conn : x # local[c] => taken'[x] = taken[x]
      BY <1>0, <3>1
    <3>6. \A l \in Listener : \A i \in 1..Len(queue[l]) : queue[l][i] # local[c]
      BY <3>4 DEF Own, Waits
    <3>7. ASSUME NEW x \in Conn, conns[x[1]] < x[2] PROVE x # local[c]
      BY <1>0, <3>4, <3>7 DEF Own
    <3>8. ASSUME NEW l \in Listener, NEW i \in 1..Len(queue'[l])
          PROVE  /\ queue'[l][i][2] <= conns'[queue'[l][i][1]]
                 /\ taken'[queue'[l][i]] = 0
      <4>1. queue'[l][i] = queue[l][i] /\ i \in 1..Len(queue[l])
        BY <3>1
      <4>2. queue[l][i] \in Conn /\ queue[l][i] # local[c]
        BY <1>0, <3>6, <4>1
      <4>3. taken'[queue[l][i]] = taken[queue[l][i]]
        BY <3>5, <4>2
      <4> QED
        BY <2>0, <4>1, <4>3 DEF Queues, Unread
    <3>9. \A x \in Conn : conns'[x[1]] < x[2] => taken'[x] = 0
      BY <2>0, <3>5, <3>7 DEF Queues
    <3>10. \A l, m \in Listener : \A i \in 1..Len(queue'[l]), j \in 1..Len(queue'[m]) :
             queue'[l][i] = queue'[m][j] => l = m /\ i = j
      BY <3>1 DEF Queues
    <3> QED
      BY <3>8, <3>9, <3>10 DEF Queues, Unread
  <2>4. CASE ~PortStop(c) /\ ~AcceptData(c) /\ ~CopyIn(c)
    <3>1. UNCHANGED queue
      <4>1. CASE Listens(c)
        BY <2>4, <4>1 DEF Listens, Pasv, PasvStart, Port, PortStart, PortForget,
           StartChecked, ListChecks, TransferRefused, AwaitData, Stor, Retr, Begin
      <4>2. CASE ~Listens(c)
        BY <1>2, <4>2, OthersListenNot DEF listenVars
      <4> QED
        BY <4>1, <4>2
    <3>2. UNCHANGED taken
      <4>1. CASE Carries(c)
        BY <2>4, <4>1 DEF Carries, GetStream, SendListing, CloseData, NullData, connVars
      <4>2. CASE ~Carries(c)
        BY <1>2, <4>2, OthersCarryNot
      <4> QED
        BY <4>1, <4>2
    <3> QED
      BY <1>1, <2>0, <3>1, <3>2
  <2> QED
    BY <2>1, <2>2, <2>3, <2>4
<1>3. ASSUME NEW c \in Client, DataConnect(c) PROVE Queues'
  <2>1. CASE data[told[c]] # "listening"
    BY <1>1, <1>3, <2>1 DEF DataConnect
  <2>2. CASE data[told[c]] = "listening"
    <3> DEFINE x == <<c, conns[c] + 1>>
    <3>1. /\ told[c] # 0 /\ conns[c] < MaxConns /\ UNCHANGED taken
          /\ conns' = [conns EXCEPT ![c] = @ + 1]
          /\ queue' = [queue EXCEPT ![told[c]] = Append(@, x)]
      BY <1>3, <2>2 DEF DataConnect
    <3>2. told[c] \in Listener
      BY <3>1, ConstantsAssumption DEF TypeOK, DataTypes, Listener
    <3>3. x \in Conn /\ x[1] = c /\ x[2] = conns[c] + 1
      BY <1>0, <3>1, ConstantsAssumption DEF Conn
    <3> HIDE DEF x
    <3>4. \A m \in Listener : \A i \in 1..Len(queue'[m]) :
            \/ i \in 1..Len(queue[m]) /\ queue'[m][i] = queue[m][i]
            \/ m = told[c] /\ i = Len(queue[told[c]]) + 1 /\ queue'[m][i] = x
      BY <3>1, <3>2, <3>3, QueueAppend
    <3>5. conns'[c] = conns[c] + 1 /\ \A d \in Client : d # c => conns'[d] = conns[d]
      BY <1>0, <3>1
    <3>6. \A d \in Client : conns[d] <= conns'[d]
      BY <1>0, <3>5
    <3>7. taken[x] = 0
      BY <1>0, <3>3 DEF Queues
    <3>8. \A m \in Listener : \A i \in 1..Len(queue[m]) : queue[m][i] # x
      BY <1>0, <3>3 DEF Queues, Unread
    <3>9. ASSUME NEW l \in Listener, NEW i \in 1..Len(queue'[l])
          PROVE  /\ queue'[l][i][2] <= conns'[queue'[l][i][1]]
                 /\ taken'[queue'[l][i]] = 0
      <4>1. CASE i \in 1..Len(queue[l]) /\ queue'[l][i] = queue[l][i]
        <5>1. Unread(queue[l][i]) /\ queue[l][i] \in Conn
          BY <1>0, <4>1 DEF Queues
        <5>2. queue[l][i][1] \in Client /\ queue[l][i][2] \in Nat
          BY <1>0, <5>1
        <5>3. /\ conns[queue[l][i][1]] \in Nat
              /\ conns[queue[l][i][1]] <= conns'[queue[l][i][1]]
              /\ conns'[queue[l][i][1]] \in Nat
          BY <1>0, <3>5, <3>6, <5>2
        <5> QED
          BY <3>1, <4>1, <5>1, <5>2, <5>3 DEF Unread
      <4>2. CASE queue'[l][i] = x
        BY <1>0, <3>1, <3>3, <3>5, <3>7, <4>2 DEF Unread
      <4> QED
        BY <3>4, <4>1, <4>2
    <3>10. \A l, m \in Listener : \A i \in 1..Len(queue'[l]), j \in 1..Len(queue'[m]) :
             queue'[l][i] = queue'[m][j] => l = m /\ i = j
      BY <3>4, <3>8 DEF Queues
    <3>11. ASSUME NEW y \in Conn, conns'[y[1]] < y[2] PROVE taken'[y] = 0
      <4>1. y[1] \in Client /\ y[2] \in Nat /\ conns[y[1]] \in Nat /\ conns'[y[1]] \in Nat
        BY <1>0, <3>5
      <4>2. conns[y[1]] < y[2]
        BY <3>6, <3>11, <4>1
      <4> QED
        BY <3>1, <4>2 DEF Queues
    <3> QED
      BY <3>9, <3>10, <3>11 DEF Queues, Unread
  <2> QED
    BY <2>1, <2>2
<1>4. ASSUME NEW x \in Conn, PeerData(x) PROVE Queues'
  BY <1>1, <1>4 DEF PeerData, DataPush, DataStalls, DataEnds, listenVars, toldVars
<1>5. CASE Outside
  BY <1>1, <1>5 DEF Outside, dataVars, listenVars, toldVars, connVars
<1> QED
  BY <1>2, <1>3, <1>4, <1>5, WhoSteps

(* With one session the listener of the field is the one its last 227      *)
(* answer named, or nobody was told of it.                                 *)
LEMMA FreshStep ==
  ASSUME Alone, TypeOK, Prepared, Listeners, NEW c \in Client, Fresh(c), [Next]_vars
  PROVE  Fresh(c)'
<1>0. /\ \A l \in Listener : Len(queue[l]) \in Nat
      /\ conns[c] \in Nat /\ base[c] \in Nat
      /\ dataListener # 0 => dataListener \in Listener
      /\ DOMAIN pc = Client /\ DOMAIN conns = Client /\ DOMAIN base = Client
      /\ DOMAIN waitOn = Client /\ DOMAIN queue = Listener /\ DOMAIN data = Listener
  BY DataShape DEF TypeOK, DataTypes, HandlerTypes
<1>1. ASSUME UNCHANGED <<dataListener, data, queue, waitOn, conns, base>>,
             pc'[c] \in {"pasv", "accept"} => pc'[c] = pc[c]
      PROVE  Fresh(c)'
  BY <1>1 DEF Fresh
<1>2. ASSUME UNCHANGED <<conns, base>>, pc'[c] # "accept",
             dataListener' # 0 => queue'[dataListener'] = <<>>,
             pc'[c] = "pasv" => dataListener' # 0 /\ data'[dataListener'] = "new"
      PROVE  Fresh(c)'
  BY <1>2 DEF Fresh
<1>3. ASSUME Handler(c) \/ Commanded(c) PROVE Fresh(c)'
  <2>1. CASE Pasv(c)
    <3>1. /\ CanListen /\ dataListener' = NextListener
          /\ data' = [data EXCEPT ![NextListener] = "new"]
          /\ UNCHANGED <<queue, conns, base>> /\ pc'[c] = "pasv"
      BY <1>0, <2>1 DEF Pasv, Goto, toldVars
    <3> QED
      BY <1>2, <3>1, ListenersGrow
  <2>2. CASE PasvStart(c)
    <3>1. /\ dataListener # 0 /\ data[dataListener] = "new"
          /\ UNCHANGED <<dataListener, queue, conns>>
          /\ base'[c] = conns[c] /\ pc'[c] = "reply"
      BY <1>0, <2>2 DEF PasvStart, Goto, Fresh
    <3>2. queue[dataListener] = <<>>
      BY <1>0, <3>1 DEF Listeners
    <3> QED
      BY <1>0, <3>1, <3>2 DEF Fresh
  <2>3. CASE Port(c)
    <3>1. UNCHANGED <<queue, waitOn, conns, base>> /\ pc'[c] \in {"portStart", "porting"}
      BY <1>0, <2>3 DEF Port, Goto, toldVars
    <3>2. CASE UNCHANGED <<dataListener, data>>
      BY <1>1, <3>1, <3>2
    <3>3. CASE /\ CanListen /\ dataListener' = NextListener
               /\ data' = [data EXCEPT ![NextListener] = "new"]
      BY <1>2, <3>1, <3>3, ListenersGrow
    <3> QED
      BY <2>3, <3>2, <3>3 DEF Port
  <2>4. CASE PortStart(c) \/ StartChecked(c)
    <3>1. /\ UNCHANGED <<dataListener, queue, waitOn, conns, base>>
          /\ pc'[c] \in {"porting", "reply", "opening"}
      BY <1>0, <2>4 DEF PortStart, StartChecked, Goto, toldVars
    <3> QED
      BY <3>1 DEF Fresh
  <2>9. CASE PortStop(c)
    <3>1. /\ UNCHANGED <<dataListener, waitOn, conns, base>> /\ pc'[c] = "unlisten"
          /\ dataListener # 0 => queue'[dataListener] = <<>>
      BY <1>0, <2>9 DEF PortStop, Goto, toldVars
    <3> QED
      BY <1>2, <3>1
  <2>10. CASE PortForget(c)
    BY <1>0, <1>2, <2>10 DEF PortForget, Goto, toldVars
  <2>5. ASSUME NEW next, CheckConnection(c, next), next \notin {"pasv", "accept"},
               UNCHANGED <<queue, conns, base>>
        PROVE  Fresh(c)'
    <3>1. pc'[c] \notin {"pasv", "accept"}
      BY <1>0, <2>5 DEF CheckConnection, Goto
    <3>2. CASE dataListener # 0
      BY <2>5, <3>1, <3>2 DEF CheckConnection, Fresh
    <3>3. CASE dataListener = 0
      <4>1. queue'[dataListener'] = <<>>
        BY <2>5, <3>3, ListenersGrow DEF CheckConnection
      <4> QED
        BY <1>2, <2>5, <3>1, <4>1
    <3> QED
      BY <3>2, <3>3
  <2>6. CASE \/ ListChecks(c) \/ TransferRefused(c)
             \/ \E n \in Name : Stor(c, n) \/ Retr(c, n)
    BY <2>5, <2>6 DEF ListChecks, TransferRefused, Stor, Retr, Begin, toldVars
  <2>11. CASE AwaitData(c)
    <3>1. /\ dataListener # 0 /\ waitOn'[c] = dataListener /\ pc'[c] = "accept"
          /\ UNCHANGED <<dataListener, queue, conns, base>>
      BY <1>0, <2>11 DEF AwaitData, Goto, toldVars
    <3> QED
      BY <1>0, <3>1 DEF Fresh
  <2>7. CASE AcceptData(c)
    <3>1. /\ UNCHANGED <<dataListener, data, conns, base>> /\ pc'[c] = "stream"
          /\ queue[waitOn[c]] # <<>> /\ queue' = [queue EXCEPT ![waitOn[c]] = Tail(@)]
          /\ waitOn[c] \in Listener /\ waitOn[c] = dataListener
      BY <1>0, <2>7 DEF AcceptData, Goto, toldVars, Prepared, ListenerSettled, Fresh
    <3>2. \A i \in 1..Len(queue'[waitOn[c]]) :
            /\ i + 1 \in 1..Len(queue[waitOn[c]])
            /\ queue'[waitOn[c]][i] = queue[waitOn[c]][i + 1]
      <4>1. waitOn[c] \in Listener /\ queue[waitOn[c]] # <<>>
            /\ queue' = [queue EXCEPT ![waitOn[c]] = Tail(@)]
        BY <3>1
      <4> QED
        BY <4>1, QueueTail
    <3>3. \A i \in 1..Len(queue'[dataListener]) :
            /\ i + 1 \in 1..Len(queue[dataListener])
            /\ queue'[dataListener][i] = queue[dataListener][i + 1]
      BY <3>1, <3>2
    <3> QED
      BY <3>1, <3>3 DEF Fresh
  <2>8. CASE ~Listens(c)
    <3>1. UNCHANGED <<listenVars, toldVars>> /\ pc'[c] \notin {"pasv", "accept"}
      BY <1>3, <2>8, OthersListenNot
    <3> QED
      BY <1>1, <3>1 DEF listenVars, toldVars
  <2> QED
    BY <2>1, <2>2, <2>3, <2>4, <2>6, <2>7, <2>8, <2>9, <2>10, <2>11 DEF Listens
<1>4. ASSUME DataConnect(c) PROVE Fresh(c)'
  <2>1. CASE data[told[c]] # "listening"
    BY <1>1, <1>4, <2>1 DEF DataConnect
  <2>2. CASE data[told[c]] = "listening"
    <3> DEFINE x == <<c, conns[c] + 1>>
    <3>1. /\ told[c] # 0 /\ conns[c] < MaxConns
          /\ conns'[c] = conns[c] + 1
          /\ queue' = [queue EXCEPT ![told[c]] = Append(@, x)]
          /\ UNCHANGED <<pc, dataListener, data, waitOn, base>>
      BY <1>0, <1>4, <2>2 DEF DataConnect
    <3>2. told[c] \in Listener
      BY <3>1, ConstantsAssumption DEF TypeOK, DataTypes, Listener
    <3>3. x \in Conn /\ x[2] = conns[c] + 1
      BY <1>0, <3>1, ConstantsAssumption DEF Conn
    <3> HIDE DEF x
    <3>4. \A m \in Listener : \A i \in 1..Len(queue'[m]) :
            \/ i \in 1..Len(queue[m]) /\ queue'[m][i] = queue[m][i]
            \/ queue'[m][i] = x
      BY <3>1, <3>2, <3>3, QueueAppend
    <3>5. base[c] < x[2] /\ base'[c] <= conns'[c]
      BY <1>0, <3>1, <3>3 DEF Fresh
    <3>6. ASSUME dataListener' # 0, NEW i \in 1..Len(queue'[dataListener'])
          PROVE  base'[c] < queue'[dataListener'][i][2]
      BY <1>0, <3>1, <3>4, <3>5, <3>6 DEF Fresh
    <3> QED
      BY <3>1, <3>5, <3>6 DEF Fresh
  <2> QED
    BY <2>1, <2>2
<1>5. ASSUME NEW x \in Conn, PeerData(x) PROVE Fresh(c)'
  BY <1>1, <1>5 DEF PeerData, DataPush, DataStalls, DataEnds, listenVars, toldVars
<1>6. CASE Outside
  BY <1>1, <1>6 DEF Outside, dataVars, listenVars, toldVars
<1> QED
  BY <1>3, <1>4, <1>5, <1>6, WhoSteps DEF Alone

(* A connection of a session stays its own until the next 227 answer.      *)
LEMMA OwnKept ==
  ASSUME TypeOK, Prepared, [Next]_vars, NEW c \in Client, NEW x, Own(c, x),
         base'[c] = base[c]
  PROVE  Own(c, x)'
<1>0. /\ x \in Conn /\ x[1] \in Client /\ x[2] \in Nat
      /\ \A d \in Client : conns[d] \in Nat
      /\ DOMAIN queue = Listener /\ DOMAIN conns = Client
  BY DataShape DEF Own, TypeOK, DataTypes
<1>1. ASSUME UNCHANGED conns,
             \A l \in Listener : \A i \in 1..Len(queue'[l]) :
               \E j \in 1..Len(queue[l]) : queue'[l][i] = queue[l][j]
      PROVE  Own(c, x)'
  BY <1>1 DEF Own, Waits
<1>2. ASSUME UNCHANGED <<conns, queue>> PROVE Own(c, x)'
  BY <1>2 DEF Own, Waits
<1>3. ASSUME NEW d \in Client, Handler(d) \/ Commanded(d) PROVE Own(c, x)'
  <2>0. UNCHANGED conns
    BY <1>3, HandlerKeepsPeers
  <2>1. CASE PortStop(d)
    <3>1. \A l \in Listener : queue'[l] = queue[l] \/ queue'[l] = <<>>
      BY <1>0, <2>1 DEF PortStop
    <3>2. \A l \in Listener : \A i \in 1..Len(queue'[l]) :
            i \in 1..Len(queue[l]) /\ queue'[l][i] = queue[l][i]
      BY <3>1
    <3> QED
      BY <1>1, <2>0, <3>2
  <2>2. CASE AcceptData(d)
    <3>1. /\ waitOn[d] \in Listener /\ queue[waitOn[d]] # <<>>
          /\ queue' = [queue EXCEPT ![waitOn[d]] = Tail(@)]
      BY <2>2 DEF AcceptData, Prepared, ListenerSettled
    <3>2. /\ \A l \in Listener \ {waitOn[d]} : queue'[l] = queue[l]
          /\ \A i \in 1..Len(queue'[waitOn[d]]) :
               /\ i + 1 \in 1..Len(queue[waitOn[d]])
               /\ queue'[waitOn[d]][i] = queue[waitOn[d]][i + 1]
      BY <3>1, QueueTail
    <3>3. \A l \in Listener : \A i \in 1..Len(queue'[l]) :
               \E j \in 1..Len(queue[l]) : queue'[l][i] = queue[l][j]
      BY <3>2
    <3> QED
      BY <1>1, <2>0, <3>3
  <2>3. CASE ~PortStop(d) /\ ~AcceptData(d)
    <3>1. UNCHANGED queue
      <4>1. CASE Listens(d)
        BY <2>3, <4>1 DEF Listens, Pasv, PasvStart, Port, PortStart, PortForget,
           StartChecked, ListChecks, TransferRefused, AwaitData, Stor, Retr, Begin
      <4>2. CASE ~Listens(d)
        BY <1>3, <4>2, OthersListenNot DEF listenVars
      <4> QED
        BY <4>1, <4>2
    <3> QED
      BY <1>2, <2>0, <3>1
  <2> QED
    BY <2>1, <2>2, <2>3
<1>4. ASSUME NEW d \in Client, DataConnect(d) PROVE Own(c, x)'
  <2>1. CASE data[told[d]] # "listening"
    BY <1>2, <1>4, <2>1 DEF DataConnect
  <2>2. CASE data[told[d]] = "listening"
    <3> DEFINE y == <<d, conns[d] + 1>>
    <3>1. /\ told[d] # 0 /\ conns[d] < MaxConns
          /\ conns' = [conns EXCEPT ![d] = @ + 1]
          /\ queue' = [queue EXCEPT ![told[d]] = Append(@, y)]
      BY <1>4, <2>2 DEF DataConnect
    <3>2. told[d] \in Listener
      BY <3>1, ConstantsAssumption DEF TypeOK, DataTypes, Listener
    <3>3. y \in Conn /\ y[1] = d /\ y[2] = conns[d] + 1
      BY <1>0, <3>1, ConstantsAssumption DEF Conn
    <3> HIDE DEF y
    <3>4. \A l \in Listener : \A i \in 1..Len(queue'[l]) :
            \/ i \in 1..Len(queue[l]) /\ queue'[l][i] = queue[l][i]
            \/ queue'[l][i] = y
      BY <3>1, <3>2, <3>3, QueueAppend
    <3>5. x # y
      BY <1>0, <3>3 DEF Own
    <3>6. conns[x[1]] <= conns'[x[1]] /\ conns'[x[1]] \in Nat
      BY <1>0, <3>1
    <3>7. x[2] <= conns'[x[1]]
      BY <1>0, <3>6 DEF Own
    <3>8. ~Waits(x)'
      BY <3>4, <3>5 DEF Own, Waits
    <3> QED
      BY <3>7, <3>8 DEF Own
  <2> QED
    BY <2>1, <2>2
<1>5. ASSUME NEW y \in Conn, PeerData(y) PROVE Own(c, x)'
  BY <1>2, <1>5 DEF PeerData, DataPush, DataStalls, DataEnds, listenVars, toldVars
<1>6. CASE Outside
  BY <1>2, <1>6 DEF Outside, dataVars, listenVars, toldVars
<1> QED
  BY <1>3, <1>4, <1>5, <1>6, WhoSteps

(* The steps of a handler that leave the data connections alone are those  *)
(* of no transfer, or go on with one.                                      *)
LEMMA OthersGoOn ==
  ASSUME TypeOK, NEW c \in Client, Handler(c) \/ Commanded(c), ~Carries(c)
  PROVE  \/ ~Busy(c) /\ pc[c] # "nulling" /\ pc'[c] \notin {"stream", "opened"}
         \/ /\ Busy(c) /\ UNCHANGED base
            /\ pc'[c] \in {"copyIn", "copyOut", "answer", "closing"}
<1>0. DOMAIN pc = Client
  BY DEF TypeOK, HandlerTypes
<1> USE <1>0 DEF Busy, restVars, dataVars, toldVars, Move, Reads, Goto
<1>1. CASE Handler(c)
  BY <1>1 DEF Carries, Handler, Welcome, Reply, ReplyFails, LoopTest, EndOfStream,
     Leave, PasvStart, PasvFails, PortStart, PortForget, StartChecked,
     StartCheckedFails, ListChecks, CheckConnection, AwaitData, AwaitDataFails,
     AcceptDataFails, GetStreamFails, CreateFile, CreateFileFails, CopyEnds, OpenFile,
     CopyOut, AnswerTransfer, MoveFile, MoveDir, RenameFails, Forget, XZipWrites,
     XZipFails
<1>2. CASE Commanded(c)
  <2>1. ASSUME NEW n \in Name, Rnto(c, n)
        PROVE  pc[c] = "reading" /\ pc'[c] \notin {"stream", "opened"}
    BY <2>1 DEF Rnto
  <2>2. ASSUME List(c) \/ \E n \in Name : Stor(c, n) \/ Retr(c, n)
        PROVE  pc[c] = "reading" /\ pc'[c] \notin {"stream", "opened"}
    BY <2>2 DEF List, Stor, Retr, Begin, CheckConnection
  <2> QED
    BY <1>2, <2>1, <2>2 DEF Commanded, OnlyAnswer, Quit, Pasv, Port, TransferRefused,
       CheckConnection, Mkd, Rmd, Dele, Rnfr, XZip, Cwd
<1> QED
  BY <1>1, <1>2

(* With one session the open data connection is the one its transfer uses. *)
LEMMA UsesStep ==
  ASSUME Alone, TypeOK, Prepared, Acknowledged, Queues, NEW c \in Client, Fresh(c),
         Uses(c), [Next]_vars
  PROVE  Uses(c)'
<1>0. /\ DOMAIN pc = Client /\ DOMAIN conn = Conn /\ DOMAIN local = Client
      /\ DOMAIN taken = Conn /\ DOMAIN base = Client
      /\ \A l \in Listener : \A i \in 1..Len(queue[l]) : queue[l][i] \in Conn
      /\ NoConn \notin Conn
  BY DataShape, ConstantsAssumption DEF TypeOK, DataTypes, HandlerTypes, Conn, NoConn
<1>1. ASSUME ~Busy(c), pc[c] # "nulling", pc'[c] \notin {"stream", "opened"},
             UNCHANGED <<dataClient, local>>,
             \A x \in Conn : conn'[x] = "open" => conn[x] = "open"
      PROVE  Uses(c)'
  BY <1>1 DEF Uses, Busy
<1>2. ASSUME Busy(c) \/ pc[c] = "nulling", UNCHANGED <<dataClient, local>>,
             base'[c] = base[c],
             \/ pc'[c] = pc[c] /\ UNCHANGED taken
             \/ Busy(c) /\ pc'[c] \in {"copyIn", "copyOut", "answer", "closing"},
             \A x \in Conn : conn'[x] = "open" => conn[x] = "open"
      PROVE  Uses(c)'
  <2>1. /\ \A x \in Conn : conn'[x] = "open" => x = dataClient' /\ Busy(c)'
        /\ dataClient' # NoConn => Busy(c)' \/ pc'[c] = "nulling"
    BY <1>2 DEF Uses, Busy
  <2>2. pc'[c] = "stream" => Own(c, dataClient)' /\ taken'[dataClient'] = 0
    <3>1. ASSUME pc[c] = "stream" PROVE Own(c, dataClient)'
      <4>1. Own(c, dataClient)
        BY <3>1 DEF Uses
      <4>2. \A x : Own(c, x) => Own(c, x)'
        BY <1>2, OwnKept
      <4> QED
        BY <1>2, <4>1, <4>2 DEF Own, Waits
    <3> QED
      BY <1>2, <3>1 DEF Uses
  <2>3. local'[c] # NoConn =>
          /\ pc'[c] \in {"opened", "copyIn", "copyOut", "answer", "closing", "nulling"}
          /\ Own(c, local[c])'
    <3>1. ASSUME local[c] # NoConn PROVE Own(c, local[c])'
      <4>1. Own(c, local[c])
        BY <3>1 DEF Uses
      <4>2. \A x : Own(c, x) => Own(c, x)'
        BY <1>2, OwnKept
      <4> QED
        BY <1>2, <4>1, <4>2 DEF Own, Waits
    <3> QED
      BY <1>2, <3>1 DEF Uses
  <2>4. pc'[c] = "opened" => taken'[local'[c]] = 0
    BY <1>2 DEF Uses
  <2> QED
    BY <2>1, <2>2, <2>3, <2>4 DEF Uses
<1>3. ASSUME UNCHANGED <<dataClient, local, taken, base>>, pc'[c] = pc[c],
             \A x \in Conn : conn'[x] = "open" => conn[x] = "open"
      PROVE  Uses(c)'
  BY <1>1, <1>2, <1>3 DEF Busy
<1>4. ASSUME Handler(c) \/ Commanded(c) PROVE Uses(c)'
  <2>1. CASE AcceptData(c)
    <3> DEFINE l == waitOn[c]
    <3>1. /\ pc[c] = "accept" /\ pc'[c] = "stream" /\ l \in Listener
          /\ l = dataListener /\ dataListener # 0
          /\ queue[l] # <<>> /\ queue' = [queue EXCEPT ![l] = Tail(@)]
          /\ dataClient' = Head(queue[l])
          /\ conn' = [conn EXCEPT ![dataClient'] = "open"]
          /\ UNCHANGED <<taken, local, base, conns>>
      BY <1>0, <2>1 DEF AcceptData, Goto, toldVars, Prepared, ListenerSettled, Fresh
    <3> HIDE DEF l
    <3>2. /\ \A m \in Listener \ {l} : queue'[m] = queue[m]
          /\ 1 \in 1..Len(queue[l]) /\ Head(queue[l]) = queue[l][1]
          /\ \A i \in 1..Len(queue'[l]) :
               i + 1 \in 1..Len(queue[l]) /\ queue'[l][i] = queue[l][i + 1]
      BY <3>1, QueueTail
    <3>3. dataClient' = queue[l][1] /\ dataClient' \in Conn
      BY <1>0, <3>1, <3>2
    <3>4. base[c] < queue[l][1][2]
      BY <3>1, <3>2 DEF Fresh
    <3>5. Unread(queue[l][1])
      BY <3>1, <3>2 DEF Queues
    <3>6. ASSUME NEW m \in Listener, NEW i \in 1..Len(queue'[m]),
                 queue'[m][i] = queue[l][1]
          PROVE  FALSE
      <4>1. CASE m = l
        <5>1. i + 1 \in 1..Len(queue[l]) /\ queue[l][i + 1] = queue[l][1]
          BY <3>2, <3>6, <4>1
        <5>2. i + 1 = 1
          BY <3>1, <3>2, <5>1 DEF Queues
        <5> QED
          BY <5>2
      <4>2. CASE m # l
        <5>1. i \in 1..Len(queue[m]) /\ queue[m][i] = queue[l][1]
          BY <3>2, <3>6, <4>2
        <5> QED
          BY <3>1, <3>2, <4>2, <5>1 DEF Queues
      <4> QED
        BY <4>1, <4>2
    <3>7. ~Waits(dataClient)'
      BY <3>3, <3>6 DEF Waits
    <3>8. Own(c, dataClient)' /\ taken'[dataClient'] = 0
      BY <3>1, <3>3, <3>4, <3>5, <3>7 DEF Own, Unread
    <3>9. local'[c] = NoConn /\ Busy(c)'
      BY <3>1 DEF Uses, Busy
    <3>10. \A x \in Conn : conn'[x] = "open" => x = dataClient'
      BY <1>0, <3>1 DEF Uses, Busy
    <3> QED
      BY <3>1, <3>8, <3>9, <3>10 DEF Uses
  <2>2. CASE GetStream(c)
    <3>1. /\ pc[c] = "stream" /\ pc'[c] = "opened" /\ local'[c] = dataClient
          /\ UNCHANGED <<queue, base, conns, conn, taken, dataClient>>
      BY <1>0, <2>2 DEF GetStream, Goto, listenVars, toldVars, connVars
    <3> QED
      BY <3>1 DEF Uses, Busy, Own, Waits
  <2>3. CASE SendListing(c)
    BY <1>0, <1>2, <2>3 DEF SendListing, Goto, toldVars, Busy
  <2>4. CASE CopyIn(c)
    BY <1>0, <1>2, <2>4 DEF CopyIn, toldVars, xferVars, Busy
  <2>5. CASE CloseData(c)
    <3>1. /\ pc[c] = "closing" /\ pc'[c] = "nulling"
          /\ \A x \in Conn : conn'[x] = "open" => conn[x] = "open" /\ x # dataClient
          /\ UNCHANGED <<queue, base, conns, taken, dataClient, local>>
      BY <1>0, <2>5 DEF CloseData, Goto, listenVars, toldVars, xferVars
    <3> QED
      BY <3>1 DEF Uses, Busy, Own, Waits
  <2>6. CASE NullData(c)
    <3>1. /\ pc[c] = "nulling" /\ pc'[c] = "check"
          /\ dataClient' = NoConn /\ local'[c] = NoConn /\ UNCHANGED conn
      BY <1>0, <2>6 DEF NullData, Goto, connVars
    <3> QED
      BY <3>1 DEF Uses, Busy
  <2>7. CASE PortStop(c)
    <3>1. /\ pc[c] = "porting" /\ pc'[c] = "unlisten" /\ UNCHANGED <<dataClient, local>>
          /\ \A x \in Conn : conn'[x] = "open" => conn[x] = "open"
      BY <1>0, <2>7 DEF PortStop, Goto, xferVars, Refused
    <3> QED
      BY <1>1, <3>1 DEF Busy
  <2>8. CASE ~Carries(c)
    <3>1. UNCHANGED <<conn, taken, dataClient, local>>
      BY <1>4, <2>8, OthersCarryNot
    <3>2. CASE ~Busy(c) /\ pc[c] # "nulling" /\ pc'[c] \notin {"stream", "opened"}
      BY <1>1, <3>1, <3>2
    <3>3. CASE /\ Busy(c) /\ UNCHANGED base
               /\ pc'[c] \in {"copyIn", "copyOut", "answer", "closing"}
      BY <1>2, <3>1, <3>3
    <3> QED
      BY <1>4, <2>8, <3>2, <3>3, OthersGoOn
  <2> QED
    BY <2>1, <2>2, <2>3, <2>4, <2>5, <2>6, <2>7, <2>8 DEF Carries
<1>5. ASSUME DataConnect(c) PROVE Uses(c)'
  BY <1>0, <1>3, <1>5 DEF DataConnect, xferVars
<1>6. ASSUME NEW x \in Conn, PeerData(x) PROVE Uses(c)'
  BY <1>3, <1>6 DEF PeerData, DataPush, DataStalls, DataEnds, toldVars, xferVars
<1>7. CASE Outside
  BY <1>1, <1>3, <1>7 DEF Outside, dataVars, toldVars, connVars, xferVars, Busy
<1> QED
  BY <1>4, <1>5, <1>6, <1>7, WhoSteps DEF Alone

(* Steps of a handler that begin, carry on, end or answer an upload.       *)
Uploading(c) == CreateFile(c) \/ CopyIn(c) \/ CopyEnds(c) \/ AnswerTransfer(c)

(* Any other step of a handler leads into no upload, and to no answer 226  *)
(* to STOR.                                                                *)
LEMMA OthersUploadNot ==
  ASSUME TypeOK, NEW c \in Client, Transfers(c), Handler(c) \/ Commanded(c),
         ~Uploading(c)
  PROVE  /\ pc'[c] \notin {"copyIn", "closing"}
         /\ pc'[c] = "answer" => ~(xfer'[c] = "STOR" /\ acked'[c])
<1>0. DOMAIN pc = Client /\ DOMAIN acked = Client
  BY DEF TypeOK, HandlerTypes, DataTypes
<1> USE <1>0 DEF Transfers, restVars, dataVars, xferVars, Move, Reads, Goto
<1>1. CASE StartCheckedFails(c) \/ AwaitDataFails(c) \/ AcceptDataFails(c)
        \/ GetStreamFails(c) \/ CreateFileFails(c)
  BY <1>1 DEF StartCheckedFails, AwaitDataFails, AcceptDataFails, GetStreamFails,
     CreateFileFails
<1>2. CASE OpenFile(c) \/ SendListing(c) \/ CopyOut(c)
  BY <1>2 DEF OpenFile, SendListing, CopyOut
<1>3. ASSUME Handler(c), ~(StartCheckedFails(c) \/ AwaitDataFails(c)
               \/ AcceptDataFails(c) \/ GetStreamFails(c)
               \/ CreateFileFails(c) \/ OpenFile(c) \/ SendListing(c) \/ CopyOut(c))
      PROVE  pc'[c] \notin {"copyIn", "closing", "answer"}
  BY <1>3 DEF Uploading, Handler, Welcome, Reply, ReplyFails, LoopTest, EndOfStream,
     Leave, PasvStart, PasvFails, PortStart, PortStop, PortForget, StartChecked,
     ListChecks, CheckConnection, AwaitData, AcceptData, GetStream, CloseData, NullData,
     MoveFile, MoveDir, RenameFails, Forget, XZipWrites, XZipFails
<1>4. CASE Commanded(c)
  <2>1. ASSUME NEW n \in Name, Rnto(c, n)
        PROVE  pc'[c] \notin {"copyIn", "closing", "answer"}
    BY <2>1 DEF Rnto
  <2>2. ASSUME List(c) \/ \E n \in Name : Stor(c, n) \/ Retr(c, n)
        PROVE  pc'[c] \notin {"copyIn", "closing", "answer"}
    BY <2>2 DEF List, Stor, Retr, Begin, CheckConnection
  <2> QED
    BY <1>4, <2>1, <2>2 DEF Commanded, OnlyAnswer, Quit, Pasv, Port, TransferRefused,
       CheckConnection, Mkd, Rmd, Dele, Rnfr, XZip, Cwd
<1> QED
  BY <1>1, <1>2, <1>3, <1>4

(* With one session a file being uploaded holds what has been read.        *)
LEMMA UploadedStep ==
  ASSUME Alone, TypeOK, NEW c \in Client, Transfers(c), Uses(c), Uploaded(c),
         [Next]_vars
  PROVE  Uploaded(c)'
<1>0. /\ DOMAIN pc = Client /\ DOMAIN taken = Conn /\ DOMAIN pushed = Conn
      /\ DOMAIN acked = Client /\ DOMAIN far = Conn
      /\ \A p \in DOMAIN fs : fs[p] \in Seq(Piece)
      /\ \A x \in Conn : taken[x] \in Nat /\ pushed[x] \in Nat
      /\ Conn \subseteq Piece
  BY DataShape DEF TypeOK, DataTypes, HandlerTypes, DiskTypes, Piece
<1> DEFINE Steady ==
             \A x \in Conn : /\ taken'[x] = taken[x]
                             /\ far[x] = "fin" => far'[x] = "fin" /\ pushed'[x] = pushed[x]
<1>1. ASSUME pc'[c] \notin {"copyIn", "closing"},
             pc'[c] = "answer" => ~(xfer'[c] = "STOR" /\ acked'[c])
      PROVE  Uploaded(c)'
  BY <1>1 DEF Uploaded
<1>2. ASSUME UNCHANGED <<fs, path, local, xfer, acked>>,
             pc'[c] # pc[c] => pc[c] = "answer" /\ pc'[c] = "closing",
             Steady
      PROVE  Uploaded(c)'
  <2>1. pc'[c] = "copyIn" =>
          path'[c] \in DOMAIN fs' /\ fs'[path'[c]] = [i \in 1..taken'[local'[c]] |-> local'[c]]
    BY <1>2 DEF Uploaded, Holds, Transfers
  <2>2. pc'[c] \in {"answer", "closing"} /\ xfer'[c] = "STOR" /\ acked'[c] =>
          /\ local'[c] \in Conn /\ far'[local'[c]] = "fin"
          /\ fs'[path'[c]] = [i \in 1..pushed'[local'[c]] |-> local'[c]]
    BY <1>2 DEF Uploaded, Holds
  <2> QED
    BY <2>1, <2>2 DEF Uploaded, Holds
<1> HIDE DEF Steady
<1>3. ASSUME Handler(c) \/ Commanded(c) PROVE Uploaded(c)'
  <2>1. CASE CreateFile(c)
    <3>1. /\ pc[c] = "opened" /\ pc'[c] = "copyIn" /\ UNCHANGED <<path, local, taken>>
          /\ fs' = Put(fs, path[c], <<>>)
      BY <1>0, <2>1 DEF CreateFile, Goto, dataVars, connVars, xferVars, renameVars
    <3>2. path'[c] \in DOMAIN fs' /\ fs'[path'[c]] = <<>>
      BY <3>1 DEF Put
    <3>3. taken'[local'[c]] = 0
      BY <3>1 DEF Uses
    <3>4. [i \in 1..taken'[local'[c]] |-> local'[c]] = <<>>
      BY <3>3
    <3> QED
      BY <3>1, <3>2, <3>4 DEF Uploaded, Holds
  <2>2. CASE CopyIn(c)
    <3> DEFINE x == local[c]
               p == path[c]
               k == taken[local[c]]
    <3>1. /\ pc[c] = "copyIn" /\ UNCHANGED <<pc, path, local>>
          /\ taken' = [taken EXCEPT ![x] = @ + 1]
          /\ fs' = [fs EXCEPT ![p] = Append(@, x)]
      BY <2>2 DEF CopyIn, xferVars, renameVars
    <3>2. x \in Conn
      BY <3>1 DEF Transfers
    <3>3. p \in DOMAIN fs /\ fs[p] = [i \in 1..k |-> x]
      BY <3>1 DEF Uploaded, Holds
    <3>4. k \in Nat /\ taken'[x] = k + 1
      BY <1>0, <3>1, <3>2
    <3>5. DOMAIN fs' = DOMAIN fs /\ fs'[p] = Append(fs[p], x)
      BY <3>1, <3>3
    <3> HIDE DEF x, p, k
    <3>6. Append([i \in 1..k |-> x], x) = [i \in 1..(k + 1) |-> x]
      BY <3>4
    <3>7. fs'[p] = [i \in 1..(k + 1) |-> x]
      BY <3>3, <3>5, <3>6
    <3>8. p \in DOMAIN fs' /\ fs'[p] = [i \in 1..taken'[x] |-> x]
      BY <3>3, <3>4, <3>5, <3>7
    <3>9. path'[c] = p /\ local'[c] = x /\ pc'[c] = "copyIn"
      BY <3>1 DEF p, x
    <3> QED
      BY <3>8, <3>9 DEF Uploaded, Holds
  <2>3. CASE CopyEnds(c)
    <3>1. /\ pc[c] = "copyIn" /\ pc'[c] = "answer" /\ acked'[c] = EndOfData(local[c])
          /\ UNCHANGED <<fs, path, local, far, pushed>>
      BY <1>0, <2>3 DEF CopyEnds, Goto, connVars, diskVars, fileVars, renameVars
    <3>2. local[c] \in Conn
      BY <3>1 DEF Transfers
    <3>3. acked'[c] => far[local[c]] = "fin" /\ taken[local[c]] = pushed[local[c]]
      BY <3>1 DEF EndOfData
    <3>4. fs[path[c]] = [i \in 1..taken[local[c]] |-> local[c]]
      BY <3>1 DEF Uploaded, Holds
    <3>5. acked'[c] => fs'[path'[c]] = [i \in 1..pushed'[local'[c]] |-> local'[c]]
      BY <3>1, <3>3, <3>4
    <3> QED
      BY <3>1, <3>2, <3>3, <3>5 DEF Uploaded, Holds
  <2>4. CASE AnswerTransfer(c)
    <3>1. /\ pc[c] = "answer" /\ pc'[c] = "closing"
          /\ UNCHANGED <<fs, path, local, xfer, acked, taken, far, pushed>>
      BY <1>0, <2>4 DEF AnswerTransfer, Move, restVars, dataVars, connVars, xferVars,
         diskVars, fileVars, renameVars
    <3>2. UNCHANGED <<fs, path, local, xfer, acked>> /\ Steady
      BY <3>1 DEF Steady
    <3> QED
      BY <1>2, <3>1, <3>2
  <2>5. CASE ~Uploading(c)
    BY <1>1, <1>3, <2>5, OthersUploadNot
  <2> QED
    BY <2>1, <2>2, <2>3, <2>4, <2>5 DEF Uploading
<1>4. ASSUME DataConnect(c) PROVE Uploaded(c)'
  <2>1. UNCHANGED <<pc, fs, path, local, xfer, acked, taken, far, pushed>>
    BY <1>4 DEF DataConnect, xferVars, diskVars, fileVars, renameVars
  <2>2. UNCHANGED <<fs, path, local, xfer, acked>> /\ pc'[c] = pc[c]
    BY <2>1
  <2>3. Steady
    BY <2>1 DEF Steady
  <2> QED
    BY <1>2, <2>2, <2>3
<1>5. ASSUME NEW y \in Conn, PeerData(y) PROVE Uploaded(c)'
  <2>1. /\ UNCHANGED <<fs, path, local, xfer, acked, taken, pc>> /\ far[y] # "fin"
        /\ \A x \in Conn \ {y} : far'[x] = far[x] /\ pushed'[x] = pushed[x]
    BY <1>0, <1>5 DEF PeerData, DataPush, DataStalls, DataEnds, xferVars, diskVars,
       fileVars, renameVars
  <2>2. UNCHANGED <<fs, path, local, xfer, acked>> /\ pc'[c] = pc[c]
    BY <2>1
  <2>3. Steady
    BY <2>1 DEF Steady
  <2> QED
    BY <1>2, <2>2, <2>3
<1>6. CASE Outside
  <2>1. UNCHANGED <<fs, path, local, xfer, acked, taken, far, pushed>>
    BY <1>6 DEF Outside, dataVars, connVars, xferVars, diskVars, fileVars, renameVars
  <2>2. CASE pc'[c] = pc[c]
    <3>1. UNCHANGED <<fs, path, local, xfer, acked>>
      BY <2>1
    <3>2. Steady
      BY <2>1 DEF Steady
    <3> QED
      BY <1>2, <2>2, <3>1, <3>2
  <2>3. CASE pc'[c] \in {"backlog", "welcome", "refused"}
    BY <1>1, <2>3
  <2> QED
    BY <1>6, <2>2, <2>3 DEF Outside
<1> QED
  BY <1>3, <1>4, <1>5, <1>6, WhoSteps DEF Alone

(* A server with one session keeps all of it.                              *)
LEMMA OneSessionStep ==
  ASSUME Alone, TypeOK, Prepared, Acknowledged, OneSession, [Next]_vars
  PROVE  OneSession'
<1>1. Listeners' /\ Queues'
  BY ListenersStep, QueuesStep DEF OneSession
<1>2. ASSUME NEW c \in Client PROVE Fresh(c)' /\ Uses(c)' /\ Uploaded(c)'
  BY FreshStep, UsesStep, UploadedStep DEF OneSession, Acknowledged
<1> QED
  BY <1>1, <1>2 DEF OneSession

(* With one session, all of the above holds of every state.                *)
LEMMA OneSessionHolds ==
  ASSUME Alone
  PROVE  Spec => [](TypeOK /\ Prepared /\ Acknowledged /\ OneSession)
<1> DEFINE Inv == TypeOK /\ Prepared /\ Acknowledged /\ OneSession
<1>1. Init => Inv
  <2> SUFFICES ASSUME Init PROVE Acknowledged /\ OneSession
    BY InitTypes
  <2>1. Acknowledged
    BY DEF Init, Acknowledged, Transfers
  <2>2. Listeners
    <3>1. 0 \in 0..MaxListeners /\ \A l \in Listener : ~(l <= 0)
      BY ConstantsAssumption DEF Listener
    <3> QED
      BY <3>1 DEF Init, Listeners
  <2>3. \A l \in Listener : Len(queue[l]) = 0
    BY DEF Init
  <2>4. Queues
    BY <2>3 DEF Init, Queues
  <2>5. ASSUME NEW c \in Client PROVE Fresh(c) /\ Uses(c) /\ Uploaded(c)
    BY DEF Init, Fresh, Uses, Uploaded, Busy
  <2> QED
    BY <2>1, <2>2, <2>4, <2>5 DEF OneSession
<1>2. Inv /\ [Next]_vars => Inv'
  BY TypeStep, SettledStep, ClientSettledStep, FilesHaveDirsStep, AcknowledgedStep,
     OneSessionStep DEF Prepared
<1> QED
  BY <1>1, <1>2, PTL DEF Spec

(* A server with one session leaves no data connection open after the      *)
(* finally of LIST, STOR and RETR, however the transfer ended.             *)
THEOREM SessionsCleanUp ==
  ASSUME Alone
  PROVE  Spec => []NoDataConnectionLeft
<1>1. OneSession => NoDataConnectionLeft
  BY DEF OneSession, Uses, Busy, NoDataConnectionLeft
<1> QED
  BY <1>1, OneSessionHolds, PTL

(* A server with one session serves a transfer over a connection its peer  *)
(* opened after the last 227 answer, whatever waited at earlier listeners. *)
THEOREM TransfersAreFresh ==
  ASSUME Alone
  PROVE  Spec => []TransferIsFresh
<1>1. OneSession => TransferIsFresh
  <2> SUFFICES ASSUME OneSession, NEW c \in Client, local[c] # NoConn
               PROVE  local[c][1] = c /\ local[c][2] > base[c]
    BY DEF TransferIsFresh
  <2>1. Own(c, local[c])
    BY DEF OneSession, Uses
  <2>2. local[c][1] \in Client /\ local[c][2] \in Nat
    BY <2>1, ConstantsAssumption DEF Own, Conn
  <2> QED
    BY <2>1, <2>2 DEF Own, Alone
<1> QED
  BY <1>1, OneSessionHolds, PTL

(* A server with one session answers 226 to STOR only when everything the  *)
(* peer wrote to the data connection is in the file, in its order.         *)
THEOREM UploadsComplete ==
  ASSUME Alone
  PROVE  Spec => []UploadComplete
<1>1. OneSession => UploadComplete
  BY DEF OneSession, Uploaded, Holds, UploadComplete
<1> QED
  BY <1>1, OneSessionHolds, PTL
===============================================================================
