---------------------------- MODULE WebSocketServer ----------------------------
(***************************************************************************)
(* BNet.WebSocket.Server: one accept loop, one handler task per accepted   *)
(* TCP client, application tasks that broadcast, and StopAsync.  All of    *)
(* them run concurrently on the thread pool and meet in the dictionary     *)
(* _clients and in the stream and WriteLock of every client in it.         *)
(*                                                                         *)
(* A step is the code between two awaits, split further where another task *)
(* can observe the difference.  Time is abstracted: nothing in this server *)
(* has a timeout.                                                          *)
(***************************************************************************)
EXTENDS Naturals, Sequences, FiniteSets

CONSTANTS Client,     \* the TCP clients that may ever connect
          App,        \* application tasks calling the public Send methods
          Stopper,    \* the application task that calls StopAsync
          Room,       \* the room names clients ask for
          NoRoom,     \* the absent (or empty) room
          NoClient,   \* "no client", for the removal StopAsync is not doing
          Kind,       \* frame kinds the code distinguishes: opcodes 1 and 2
          MaxSends,   \* bound: frames a peer sends
          MaxAppSends, \* bound: frames an application task sends
          MaxStarts,  \* bound: calls of StartAsync
          UseTls,     \* LoadCertificate was called
          MayStall,   \* peers may stop reading without closing
          MayStop     \* the application may call StopAsync

Task == Client \cup App
RoomOrNone == Room \cup {NoRoom}

ASSUME ConstantsAssumption ==
  /\ Client \cap App = {}
  /\ Stopper \notin Task
  /\ NoClient \notin Client
  /\ NoRoom \notin Room
  /\ Kind \subseteq {"text", "binary"}
  /\ MaxSends \in Nat
  /\ MaxAppSends \in Nat
  /\ MaxStarts \in Nat
  /\ UseTls \in BOOLEAN
  /\ MayStall \in BOOLEAN
  /\ MayStop \in BOOLEAN

ASSUME ClientsAreFinite == IsFiniteSet(Client)

(* What is written to a stream: broadcast frames, and the three answers a  *)
(* handler writes to its own client.                                       *)
Wire == [kind : Kind \cup {"101", "status", "pong"}, from : Task,
         room : RoomOrNone, n : Nat]
Frame == {w \in Wire : w.kind \in Kind}

VARIABLES
  running,      \* IsRunning
  listener,     \* the TcpListener: "new", "listening" or "stopped"
  acceptor,     \* StartAsync's loop
  starts,       \* calls of StartAsync so far
  errors,       \* SetOnError has been called
  pc,           \* where each handler or application task is
  peer,         \* the remote end: "open", "stalled" (reads nothing) or "gone"
  clients,      \* keys of _clients
  alive,        \* MyClients.IsAlive
  open,         \* MyClients.Stream is not disposed
  rooms,        \* MyClients.Rooms
  roomId,       \* HandleStartupAsync's local roomId
  sem,          \* CurrentCount of MyClients.WriteLock
  waiting,      \* tasks awaiting a client's WriteLock
  writing,      \* tasks between WaitAsync and Release of a client's WriteLock
  todo,         \* a broadcast's snapshot of _clients not enumerated yet
  reached,      \* the clients a task's broadcast has been started for
  frame,        \* the frame a task broadcasts
  sent,         \* frames a peer or an application task has sent
  out,          \* what each client's stream has accepted
  connected,    \* clients OnConnectedClient was raised for
  disconnects,  \* how often OnDisconnectedClient was raised for a client
  total,        \* TotalConnectionsHandled
  loaded,       \* the value a TotalConnectionsHandled++ has read
  stop,         \* where StopAsync is
  snap,         \* StopAsync's snapshot of _clients.Keys
  stopTodo,     \* those of snap whose removal has not begun
  stopAt        \* the client StopAsync is removing

regVars == <<clients, alive, open>>
serverVars == <<running, listener, acceptor, starts, errors>>
sessionVars == <<rooms, roomId, connected>>
lockVars == <<sem, waiting, writing>>
sendVars == <<todo, reached, frame, sent>>
countVars == <<disconnects, total, loaded>>
stopVars == <<stop, snap, stopTodo, stopAt>>
restVars == <<serverVars, peer, regVars, sessionVars, lockVars, sendVars, out,
              countVars, stopVars>>
vars == <<pc, restVars>>

HandlerPc == {"absent", "backlog", "refused", "accepted", "request",
              "upgrading", "joining", "status", "check", "reading", "ponging",
              "event", "sending", "leaving", "removing", "marking",
              "closing", "counting", "done"}
AppPc == {"idle", "sending"}
StopPc == {"idle", "listener", "snapshot", "removing", "marking", "closing",
           "counting", "done"}

TypeOK ==
  /\ running \in BOOLEAN
  /\ listener \in {"new", "listening", "stopped"}
  /\ acceptor \in {"idle", "check", "accept", "done"}
  /\ starts \in 0..MaxStarts
  /\ errors \in BOOLEAN
  /\ pc \in [Task -> HandlerPc \cup AppPc]
  /\ \A c \in Client : pc[c] \in HandlerPc
  /\ \A a \in App : pc[a] \in AppPc
  /\ peer \in [Client -> {"open", "stalled", "gone"}]
  /\ clients \subseteq Client
  /\ alive \in [Client -> BOOLEAN]
  /\ open \in [Client -> BOOLEAN]
  /\ rooms \in [Client -> SUBSET Room]
  /\ roomId \in [Client -> RoomOrNone]
  /\ sem \in [Client -> {0, 1}]
  /\ waiting \in [Client -> SUBSET Task]
  /\ writing \in [Client -> SUBSET Task]
  /\ todo \in [Task -> SUBSET Client]
  /\ reached \in [Task -> SUBSET Client]
  /\ frame \in [Task -> Wire]
  /\ sent \in [Task -> Nat]
  /\ out \in [Client -> Seq(Wire)]
  /\ connected \subseteq Client
  /\ disconnects \in [Client -> Nat]
  /\ total \in Nat
  /\ loaded \in [Client \cup {Stopper} -> Nat]
  /\ stop \in StopPc
  /\ snap \subseteq Client
  /\ stopTodo \subseteq Client
  /\ stopAt \in Client \cup {NoClient}

(* A step of task t that changes nothing but where t is. *)
Move(t, from, to) ==
  /\ pc[t] = from
  /\ pc' = [pc EXCEPT ![t] = to]
  /\ UNCHANGED restVars

Answer(c, k, n) == [kind |-> k, from |-> c, room |-> NoRoom, n |-> n]

Init ==
  /\ running = FALSE
  /\ listener = "new"
  /\ acceptor = "idle"
  /\ starts = 0
  /\ errors = FALSE
  /\ pc = [t \in Task |-> IF t \in Client THEN "absent" ELSE "idle"]
  /\ peer = [c \in Client |-> "open"]
  /\ clients = {}
  /\ alive = [c \in Client |-> TRUE]
  /\ open = [c \in Client |-> TRUE]
  /\ rooms = [c \in Client |-> {}]
  /\ roomId = [c \in Client |-> NoRoom]
  /\ sem = [c \in Client |-> 1]
  /\ waiting = [c \in Client |-> {}]
  /\ writing = [c \in Client |-> {}]
  /\ todo = [t \in Task |-> {}]
  /\ reached = [t \in Task |-> {}]
  /\ frame = [t \in Task |-> [kind |-> "101", from |-> t, room |-> NoRoom, n |-> 0]]
  /\ sent = [t \in Task |-> 0]
  /\ out = [c \in Client |-> <<>>]
  /\ connected = {}
  /\ disconnects = [c \in Client |-> 0]
  /\ total = 0
  /\ loaded = [a \in Client \cup {Stopper} |-> 0]
  /\ stop = "idle"
  /\ snap = {}
  /\ stopTodo = {}
  /\ stopAt = NoClient

-----------------------------------------------------------------------------
(* The accept loop. *)

(* StartAsync up to its first await.  The application starts the server    *)
(* again only when the last StopAsync and the last loop have returned.     *)
Start ==
  /\ starts < MaxStarts
  /\ acceptor \in {"idle", "done"} /\ stop \in {"idle", "done"}
  /\ running' = TRUE
  /\ listener' = "listening"
  /\ acceptor' = "check"
  /\ starts' = starts + 1
  /\ stop' = "idle"
  /\ UNCHANGED <<errors, pc, peer, regVars, sessionVars, lockVars, sendVars,
                 out, countVars, snap, stopTodo, stopAt>>

CheckRunning ==
  /\ acceptor = "check"
  /\ acceptor' = IF running THEN "accept" ELSE "done"
  /\ UNCHANGED <<running, listener, starts, errors, pc, peer, regVars,
                 sessionVars, lockVars, sendVars, out, countVars, stopVars>>

(* AcceptTcpClientAsync returns a client and its handler is queued. *)
Accept(c) ==
  /\ acceptor = "accept" /\ listener = "listening"
  /\ pc[c] = "backlog"
  /\ pc' = [pc EXCEPT ![c] = "accepted"]
  /\ acceptor' = "check"
  /\ UNCHANGED <<running, listener, starts, errors, peer, regVars, sessionVars,
                 lockVars, sendVars, out, countVars, stopVars>>

(* The pending accept throws once the listener is stopped; the catch block *)
(* reports it through OnError.                                             *)
AcceptFails ==
  /\ acceptor = "accept" /\ listener = "stopped"
  /\ acceptor' = "done"
  /\ errors' = TRUE
  /\ UNCHANGED <<running, listener, starts, pc, peer, regVars, sessionVars,
                 lockVars, sendVars, out, countVars, stopVars>>

-----------------------------------------------------------------------------
(* The remote ends and the network. *)

PeerConnects(c) ==
  listener = "listening" /\ Move(c, "absent", "backlog")

PeerLeaves(c) ==
  /\ pc[c] \notin {"absent", "refused", "done"} /\ peer[c] # "gone"
  /\ peer' = [peer EXCEPT ![c] = "gone"]
  /\ UNCHANGED <<serverVars, pc, regVars, sessionVars, lockVars, sendVars, out,
                 countVars, stopVars>>

PeerStalls(c) ==
  /\ MayStall
  /\ pc[c] \notin {"absent", "refused", "done"} /\ peer[c] = "open"
  /\ peer' = [peer EXCEPT ![c] = "stalled"]
  /\ UNCHANGED <<serverVars, pc, regVars, sessionVars, lockVars, sendVars, out,
                 countVars, stopVars>>

(* A write returns when the stream is usable and the peer drains it.  The  *)
(* socket buffer of a peer that is gone may still accept bytes.            *)
WriteReturns(c) == open[c] /\ peer[c] # "stalled"
StreamBroken(c) == ~open[c] \/ peer[c] = "gone"

-----------------------------------------------------------------------------
(* HandleClientAsync and HandleStartupAsync. *)

(* HandleSecurityAsync succeeds and TryAdd publishes the client; from here *)
(* on every broadcast sees it, although its handshake has not been read.   *)
Register(c) ==
  /\ pc[c] = "accepted"
  /\ clients' = clients \cup {c}
  /\ pc' = [pc EXCEPT ![c] = "request"]
  /\ UNCHANGED <<serverVars, peer, alive, open, sessionVars, lockVars,
                 sendVars, out, countVars, stopVars>>

(* The TLS handshake fails: HandleSecurityAsync returns null. *)
SecurityFails(c) == UseTls /\ Move(c, "accepted", "leaving")

(* ReadRequestAsync returns a request with a Sec-WebSocket-Key, which may  *)
(* name a room; under TLS the answer throws when a broadcast's write to    *)
(* this stream is pending.                                                 *)
ReadUpgrade(c) ==
  /\ pc[c] = "request" /\ open[c]
  /\ \E r \in RoomOrNone : roomId' = [roomId EXCEPT ![c] = r]
  /\ \/ pc' = [pc EXCEPT ![c] = "upgrading"]
     \/ /\ UseTls /\ writing[c] # {}
        /\ pc' = [pc EXCEPT ![c] = "leaving"]
  /\ UNCHANGED <<serverVars, peer, regVars, rooms, connected, lockVars,
                 sendVars, out, countVars, stopVars>>

(* Another GET, POST or HEAD: a status page is written. *)
ReadHttp(c) ==
  /\ open[c]
  /\ \/ Move(c, "request", "status")
     \/ UseTls /\ writing[c] # {} /\ Move(c, "request", "leaving")

(* Neither: an unknown request, the peer closed, or the read threw because *)
(* StopAsync disposed the stream.                                          *)
ReadJunk(c) == Move(c, "request", "leaving")

(* The handler's own writes, which do not take the WriteLock: 101, the     *)
(* status page and the pong.                                               *)
WriteAnswer(c, at, k, next) ==
  /\ pc[c] = at
  /\ \/ /\ WriteReturns(c)
        /\ out' = [out EXCEPT ![c] = Append(@, Answer(c, k, sent[c]))]
        /\ pc' = [pc EXCEPT ![c] = next]
     \/ /\ StreamBroken(c)
        /\ pc' = [pc EXCEPT ![c] = "leaving"]
        /\ UNCHANGED out
  /\ UNCHANGED <<serverVars, peer, regVars, sessionVars, lockVars, sendVars,
                 countVars, stopVars>>

SendHandshakeResponse(c) == WriteAnswer(c, "upgrading", "101", "joining")
SendHttpStatusResponse(c) == WriteAnswer(c, "status", "status", "leaving")
SendPong(c) == WriteAnswer(c, "ponging", "pong", "check")

(* Rooms.Add and OnConnectedClient, whose handlers are awaited and may     *)
(* throw, which ends the connection.                                       *)
Join(c) ==
  /\ pc[c] = "joining"
  /\ rooms' = [rooms EXCEPT ![c] = @ \cup ({roomId[c]} \ {NoRoom})]
  /\ connected' = connected \cup {c}
  /\ \E next \in {"check", "leaving"} : pc' = [pc EXCEPT ![c] = next]
  /\ UNCHANGED <<serverVars, peer, regVars, roomId, lockVars, sendVars, out,
                 countVars, stopVars>>

(* while (client.Connected && myClient.IsAlive) *)
LoopTest(c) ==
  Move(c, "check", IF open[c] /\ alive[c] THEN "reading" ELSE "leaving")

(* ReadFrameAsync returns a text or binary frame with a payload. *)
ReadMessage(c) ==
  /\ pc[c] = "reading" /\ open[c] /\ sent[c] < MaxSends
  /\ \E k \in Kind :
       frame' = [frame EXCEPT ![c] = [kind |-> k, from |-> c,
                                      room |-> roomId[c], n |-> sent[c] + 1]]
  /\ sent' = [sent EXCEPT ![c] = @ + 1]
  /\ pc' = [pc EXCEPT ![c] = "event"]
  /\ UNCHANGED <<serverVars, peer, regVars, sessionVars, lockVars, todo,
                 reached, out, countVars, stopVars>>

(* It reads a ping and answers with a pong; under TLS that write throws    *)
(* when a broadcast's write is pending, and the frame counts as a close.   *)
ReadPing(c) ==
  /\ pc[c] = "reading" /\ open[c] /\ sent[c] < MaxSends
  /\ sent' = [sent EXCEPT ![c] = @ + 1]
  /\ \/ pc' = [pc EXCEPT ![c] = "ponging"]
     \/ /\ UseTls /\ writing[c] # {}
        /\ pc' = [pc EXCEPT ![c] = "leaving"]
  /\ UNCHANGED <<serverVars, peer, regVars, sessionVars, lockVars, todo,
                 reached, frame, out, countVars, stopVars>>

(* A frame with an empty payload or an opcode the loop ignores. *)
ReadIgnored(c) ==
  /\ pc[c] = "reading" /\ open[c] /\ sent[c] < MaxSends
  /\ sent' = [sent EXCEPT ![c] = @ + 1]
  /\ pc' = [pc EXCEPT ![c] = "check"]
  /\ UNCHANGED <<serverVars, peer, regVars, sessionVars, lockVars, todo,
                 reached, frame, out, countVars, stopVars>>

(* A close frame. *)
ReadClose(c) == open[c] /\ Move(c, "reading", "leaving")

(* Changed for comparison: the end of the stream read as an empty frame. *)
ReadRetries(c) == StreamBroken(c) /\ Move(c, "reading", "check")

(* The stream ended or was disposed under the read. *)
ReadFails(c) == StreamBroken(c) /\ Move(c, "reading", "leaving")

(* Changed for comparison: the sender is left out of its own broadcast.    *)
RaiseReceivedToOthers(c) ==
  /\ pc[c] = "event"
  /\ pc' = [pc EXCEPT ![c] = "sending"]
  /\ todo' = [todo EXCEPT ![c] = clients \ {c}]
  /\ reached' = [reached EXCEPT ![c] = {}]
  /\ UNCHANGED <<serverVars, peer, regVars, sessionVars, lockVars, frame, sent,
                 out, countVars, stopVars>>

(* SetOnReceived or SetOnBinaryReceived has awaited every handler; then    *)
(* the broadcast takes its snapshot of _clients.Values.                    *)
RaiseReceived(c) ==
  /\ pc[c] = "event"
  /\ pc' = [pc EXCEPT ![c] = "sending"]
  /\ todo' = [todo EXCEPT ![c] = clients]
  /\ reached' = [reached EXCEPT ![c] = {}]
  /\ UNCHANGED <<serverVars, peer, regVars, sessionVars, lockVars, frame, sent,
                 out, countVars, stopVars>>

(* A handler of the event threw: the broadcast is skipped. *)
ReceivedHandlerThrows(c) == Move(c, "event", "leaving")

-----------------------------------------------------------------------------
(* The four Send methods and WriteFrameAsync. *)

(* The application calls SendMessageAsync, SendBinaryAsync or one of their *)
(* room variants.                                                          *)
AppSend(a) ==
  /\ pc[a] = "idle" /\ sent[a] < MaxAppSends
  /\ \E k \in Kind, r \in RoomOrNone :
       frame' = [frame EXCEPT ![a] = [kind |-> k, from |-> a, room |-> r,
                                      n |-> sent[a] + 1]]
  /\ sent' = [sent EXCEPT ![a] = @ + 1]
  /\ todo' = [todo EXCEPT ![a] = clients]
  /\ reached' = [reached EXCEPT ![a] = {}]
  /\ pc' = [pc EXCEPT ![a] = "sending"]
  /\ UNCHANGED <<serverVars, peer, regVars, sessionVars, lockVars, out,
                 countVars, stopVars>>

(* Changed for comparison: the room filter is dropped. *)
WantsAny(c, f) == TRUE

(* .Where(c => c.Rooms.Contains(roomId)) *)
Wants(c, f) == f.room = NoRoom \/ f.room \in rooms[c]

(* WhenAll enumerates the lazy query: each selected client's               *)
(* WriteFrameAsync starts and runs up to WriteLock.WaitAsync.              *)
Enumerate(t, c) ==
  /\ pc[t] = "sending" /\ c \in todo[t]
  /\ todo' = [todo EXCEPT ![t] = @ \ {c}]
  /\ \/ /\ Wants(c, frame[t])
        /\ reached' = [reached EXCEPT ![t] = @ \cup {c}]
        /\ waiting' = [waiting EXCEPT ![c] = @ \cup {t}]
     \/ /\ ~Wants(c, frame[t])
        /\ UNCHANGED <<reached, waiting>>
  /\ UNCHANGED <<serverVars, pc, peer, regVars, sessionVars, sem, writing,
                 frame, sent, out, countVars, stopVars>>

AcquireWriteLock(t, c) ==
  /\ t \in waiting[c] /\ sem[c] = 1
  /\ sem' = [sem EXCEPT ![c] = @ - 1]
  /\ waiting' = [waiting EXCEPT ![c] = @ \ {t}]
  /\ writing' = [writing EXCEPT ![c] = @ \cup {t}]
  /\ UNCHANGED <<serverVars, pc, peer, regVars, sessionVars, sendVars, out,
                 countVars, stopVars>>

(* Changed for comparison: the release moved into the if. *)
ReleaseIfAlive(t, c) ==
  /\ sem' = [sem EXCEPT ![c] = IF alive[c] THEN @ + 1 ELSE @]
  /\ writing' = [writing EXCEPT ![c] = @ \ {t}]

(* The finally block. *)
ReleaseWriteLock(t, c) ==
  /\ sem' = [sem EXCEPT ![c] = @ + 1]
  /\ writing' = [writing EXCEPT ![c] = @ \ {t}]

(* Under TLS a second write throws while one is pending. *)
Collides(c) == UseTls /\ pc[c] \in {"upgrading", "ponging", "status"}

(* IsAlive is tested and the frame is written. *)
WriteFrame(t, c) ==
  /\ t \in writing[c] /\ alive[c] /\ WriteReturns(c) /\ ~Collides(c)
  /\ out' = [out EXCEPT ![c] = Append(@, frame[t])]
  /\ ReleaseWriteLock(t, c)
  /\ UNCHANGED <<serverVars, pc, peer, regVars, sessionVars, waiting, sendVars,
                 countVars, stopVars>>

(* Changed for comparison: the catch block is empty. *)
WriteFrameSwallows(t, c) ==
  /\ t \in writing[c] /\ alive[c] /\ (StreamBroken(c) \/ Collides(c))
  /\ ReleaseWriteLock(t, c)
  /\ UNCHANGED <<serverVars, pc, peer, regVars, sessionVars, waiting, sendVars,
                 out, countVars, stopVars>>

(* The write throws and the client is marked dead. *)
WriteFrameThrows(t, c) ==
  /\ t \in writing[c] /\ alive[c] /\ (StreamBroken(c) \/ Collides(c))
  /\ alive' = [alive EXCEPT ![c] = FALSE]
  /\ ReleaseWriteLock(t, c)
  /\ UNCHANGED <<serverVars, pc, peer, clients, open, sessionVars, waiting,
                 sendVars, out, countVars, stopVars>>

(* Changed for comparison: a WaitAsync with a timeout takes a busy client   *)
(* for a dead one.                                                         *)
GiveUpWaiting(t, c) ==
  /\ t \in waiting[c] /\ sem[c] = 0
  /\ waiting' = [waiting EXCEPT ![c] = @ \ {t}]
  /\ alive' = [alive EXCEPT ![c] = FALSE]
  /\ UNCHANGED <<serverVars, pc, peer, clients, open, sessionVars, sem,
                 writing, sendVars, out, countVars, stopVars>>

SkipDead(t, c) ==
  /\ t \in writing[c] /\ ~alive[c]
  /\ ReleaseWriteLock(t, c)
  /\ UNCHANGED <<serverVars, pc, peer, regVars, sessionVars, waiting, sendVars,
                 out, countVars, stopVars>>

(* Changed for comparison: the tasks are started but not awaited. *)
NotEnumerated(t) == todo[t] # {}

Pending(t) == todo[t] # {} \/ \E c \in Client : t \in waiting[c] \cup writing[c]

(* Task.WhenAll completes. *)
SendReturns(t) ==
  /\ ~Pending(t)
  /\ Move(t, "sending", IF t \in Client THEN "check" ELSE "idle")

-----------------------------------------------------------------------------
(* RemoveClientAsync, called by the handler's finally and by StopAsync. *)

(* Changed for comparison: the using blocks are gone. *)
LeaveOpen(c) == Move(c, "leaving", "removing")

(* Leaving the using blocks disposes the stream. *)
DisposeStream(c) ==
  /\ pc[c] = "leaving"
  /\ open' = [open EXCEPT ![c] = FALSE]
  /\ pc' = [pc EXCEPT ![c] = "removing"]
  /\ UNCHANGED <<serverVars, peer, clients, alive, sessionVars, lockVars,
                 sendVars, out, countVars, stopVars>>

(* Changed for comparison: the result of TryRemove is ignored. *)
RemoveAlways(c) ==
  /\ pc[c] = "removing"
  /\ clients' = clients \ {c}
  /\ pc' = [pc EXCEPT ![c] = "marking"]
  /\ UNCHANGED <<serverVars, peer, alive, open, sessionVars, lockVars,
                 sendVars, out, countVars, stopVars>>

(* _clients.TryRemove by the handler; whoever loses it does nothing more.  *)
TryRemove(c) ==
  /\ pc[c] = "removing"
  /\ clients' = clients \ {c}
  /\ pc' = [pc EXCEPT ![c] = IF c \in clients THEN "marking" ELSE "done"]
  /\ UNCHANGED <<serverVars, peer, alive, open, sessionVars, lockVars,
                 sendVars, out, countVars, stopVars>>

(* IsAlive = false ... *)
MarkDead(c) == alive' = [alive EXCEPT ![c] = FALSE]

(* Changed for comparison: the stream is not disposed. *)
CloseWithoutDispose(c, a) ==
  /\ loaded' = [loaded EXCEPT ![a] = total]
  /\ UNCHANGED open

(* ... Dispose, Close, and the read of TotalConnectionsHandled.            *)
Close(c, a) ==
  /\ open' = [open EXCEPT ![c] = FALSE]
  /\ loaded' = [loaded EXCEPT ![a] = total]

(* The write of TotalConnectionsHandled and SetOnDisconnectedClient. *)
Count(c, a) ==
  /\ total' = loaded[a] + 1
  /\ disconnects' = [disconnects EXCEPT ![c] = @ + 1]

MarkClient(c) ==
  /\ pc[c] = "marking"
  /\ MarkDead(c)
  /\ pc' = [pc EXCEPT ![c] = "closing"]
  /\ UNCHANGED <<serverVars, peer, clients, open, sessionVars, lockVars,
                 sendVars, out, countVars, stopVars>>

CloseClient(c) ==
  /\ pc[c] = "closing"
  /\ Close(c, c)
  /\ pc' = [pc EXCEPT ![c] = "counting"]
  /\ UNCHANGED <<serverVars, peer, clients, alive, sessionVars, lockVars, sendVars,
                 out, disconnects, total, stopVars>>

CountClient(c) ==
  /\ pc[c] = "counting"
  /\ Count(c, c)
  /\ pc' = [pc EXCEPT ![c] = "done"]
  /\ UNCHANGED <<serverVars, peer, regVars, sessionVars, lockVars, sendVars,
                 out, loaded, stopVars>>

-----------------------------------------------------------------------------
(* StopAsync. *)

StopBegin ==
  /\ MayStop /\ stop = "idle" /\ starts > 0
  /\ running' = FALSE
  /\ stop' = "listener"
  /\ UNCHANGED <<listener, acceptor, starts, errors, pc, peer, regVars,
                 sessionVars, lockVars, sendVars, out, countVars, snap,
                 stopTodo, stopAt>>

(* _listener.Stop() resets the connections nobody accepted. *)
StopListener ==
  /\ stop = "listener"
  /\ listener' = "stopped"
  /\ pc' = [t \in Task |-> IF pc[t] = "backlog" THEN "refused" ELSE pc[t]]
  /\ stop' = "snapshot"
  /\ UNCHANGED <<running, acceptor, starts, errors, peer, regVars, sessionVars,
                 lockVars, sendVars, out, countVars, snap, stopTodo, stopAt>>

(* _clients.Keys *)
StopSnapshot ==
  /\ stop = "snapshot"
  /\ snap' = clients
  /\ stopTodo' = clients
  /\ stop' = "removing"
  /\ UNCHANGED <<serverVars, pc, peer, regVars, sessionVars, lockVars,
                 sendVars, out, countVars, stopAt>>

(* TryRemove for one client of the snapshot, lost if its handler was first *)
StopTryRemove(c) ==
  /\ stop = "removing" /\ c \in stopTodo
  /\ stopTodo' = stopTodo \ {c}
  /\ clients' = clients \ {c}
  /\ \/ /\ c \in clients
        /\ stop' = "marking"
        /\ stopAt' = c
     \/ /\ c \notin clients
        /\ UNCHANGED <<stop, stopAt>>
  /\ UNCHANGED <<serverVars, pc, peer, alive, open, sessionVars, lockVars,
                 sendVars, out, countVars, snap>>

StopMark ==
  /\ stop = "marking"
  /\ MarkDead(stopAt)
  /\ stop' = "closing"
  /\ UNCHANGED <<serverVars, pc, peer, clients, open, sessionVars, lockVars,
                 sendVars, out, countVars, snap, stopTodo, stopAt>>

StopClose ==
  /\ stop = "closing"
  /\ Close(stopAt, Stopper)
  /\ stop' = "counting"
  /\ UNCHANGED <<serverVars, pc, peer, clients, alive, sessionVars, lockVars,
                 sendVars, out, disconnects, total, snap, stopTodo, stopAt>>

StopCount ==
  /\ stop = "counting"
  /\ Count(stopAt, Stopper)
  /\ stop' = "removing"
  /\ stopAt' = NoClient
  /\ UNCHANGED <<serverVars, pc, peer, regVars, sessionVars, lockVars,
                 sendVars, out, loaded, snap, stopTodo>>

StopReturns ==
  /\ stop = "removing" /\ stopTodo = {}
  /\ stop' = "done"
  /\ UNCHANGED <<serverVars, pc, peer, regVars, sessionVars, lockVars,
                 sendVars, out, countVars, snap, stopTodo, stopAt>>

-----------------------------------------------------------------------------
AcceptLoop == CheckRunning \/ AcceptFails \/ \E c \in Client : Accept(c)

Environment ==
  \/ Start \/ StopBegin
  \/ \E c \in Client : PeerConnects(c) \/ PeerLeaves(c) \/ PeerStalls(c)
  \/ \E a \in App : AppSend(a)

Reading(c) ==
  \/ ReadUpgrade(c) \/ ReadHttp(c) \/ ReadJunk(c)
  \/ ReadMessage(c) \/ ReadPing(c) \/ ReadIgnored(c) \/ ReadClose(c)
  \/ ReadFails(c)

Handling(c) ==
  \/ Register(c) \/ SecurityFails(c)
  \/ SendHandshakeResponse(c) \/ SendHttpStatusResponse(c) \/ SendPong(c)
  \/ Join(c) \/ LoopTest(c) \/ RaiseReceived(c) \/ ReceivedHandlerThrows(c)

Removing(c) ==
  \/ DisposeStream(c) \/ TryRemove(c)
  \/ MarkClient(c) \/ CloseClient(c) \/ CountClient(c)

WriteFrameAsync(t, c) ==
  \/ Enumerate(t, c) \/ AcquireWriteLock(t, c)
  \/ WriteFrame(t, c) \/ WriteFrameThrows(t, c) \/ SkipDead(t, c)

Sending(t) == SendReturns(t) \/ \E c \in Client : WriteFrameAsync(t, c)

Stopping ==
  \/ StopListener \/ StopSnapshot \/ StopMark \/ StopClose \/ StopCount
  \/ StopReturns
  \/ \E c \in Client : StopTryRemove(c)

Next ==
  \/ Environment \/ AcceptLoop \/ Stopping
  \/ \E c \in Client : Reading(c) \/ Handling(c) \/ Removing(c)
  \/ \E t \in Task : Sending(t)

Spec == Init /\ [][Next]_vars

(* The thread pool runs every continuation that is ready: each task that   *)
(* can take a step of its own eventually does.  Nothing makes a peer       *)
(* connect, send or leave, or the application start, stop or broadcast; a  *)
(* read returns for certain only when the stream is broken.                *)
Fairness ==
  /\ WF_vars(AcceptLoop)
  /\ WF_vars(Stopping)
  /\ \A c \in Client :
       /\ WF_vars(Handling(c))
       /\ WF_vars(Removing(c))
       /\ WF_vars(StreamBroken(c) /\ (ReadFails(c) \/ ReadJunk(c)))
  /\ \A t \in Task :
       /\ WF_vars(SendReturns(t))
       /\ \A c \in Client : WF_vars(WriteFrameAsync(t, c))

FairSpec == Spec /\ Fairness

-----------------------------------------------------------------------------
(* Safety. *)

(* WriteLock never loses or gains a permit on any path through             *)
(* WriteFrameAsync, so at most one broadcast at a time is between WaitAsync *)
(* and Release of a client, and only for a broadcast that selected it.     *)
LockConserved ==
  \A c \in Client :
    /\ sem[c] = 1 <=> writing[c] = {}
    /\ \A t, u \in writing[c] : t = u
    /\ \A t \in waiting[c] \cup writing[c] : pc[t] = "sending" /\ c \in reached[t]

(* A frame for a room is only ever written to members of that room, and    *)
(* one that a client's handler broadcast comes from a member too.          *)
RoomConfinement ==
  \A c \in Client : \A i \in 1..Len(out[c]) :
    LET f == out[c][i] IN
    f.kind \in Kind /\ f.room # NoRoom =>
      /\ f.room \in rooms[c]
      /\ f.from \in Client => f.room \in rooms[f.from]

(* Every client sees the frames of one sender in the order they were sent  *)
(* and none twice: a sender awaits its whole broadcast before the next.    *)
SenderOrder ==
  \A c \in Client : \A i, j \in 1..Len(out[c]) :
    /\ i < j
    /\ out[c][i].kind \in Kind /\ out[c][j].kind \in Kind
    /\ out[c][i].from = out[c][j].from
    => out[c][i].n < out[c][j].n

(* When a broadcast is through with a client it selected, the client has   *)
(* the frame or has been marked dead: no failure is swallowed silently.    *)
BroadcastAccounted ==
  \A t \in Task, c \in Client :
    /\ pc[t] = "sending" /\ c \in reached[t]
    /\ t \notin waiting[c] \cup writing[c]
    => ~alive[c] \/ \E i \in 1..Len(out[c]) : out[c][i] = frame[t]

(* However the handler's finally and StopAsync race for a client,          *)
(* OnDisconnectedClient is raised at most once for it, after it left       *)
(* _clients and its stream was disposed.                                   *)
RemovedOnce ==
  \A c \in Client :
    /\ disconnects[c] \in {0, 1}
    /\ disconnects[c] = 1 => c \notin clients /\ ~alive[c] /\ ~open[c]

(* Without TLS a client is only marked dead after its peer closed or its   *)
(* own stream was disposed, or by StopAsync, which disposes it next: no    *)
(* broadcast takes a healthy client down.                                  *)
HealthyStayAlive ==
  ~UseTls => \A c \in Client :
    ~alive[c] => ~open[c] \/ peer[c] = "gone" \/ stopAt = c

(* When StopAsync returns, every client of its snapshot has left _clients  *)
(* and has a disposed stream, whoever won the removal.                     *)
StopClosesSnapshot ==
  stop = "done" => \A c \in snap : c \notin clients /\ ~open[c]

-----------------------------------------------------------------------------
(* The broadcasts as their senders and receivers see them. *)

Limit == MaxSends + MaxAppSends
deadClients == {c \in Client : ~alive[c]}
posted == [t \in Task |-> IF pc[t] = "sending" THEN {frame[t]} ELSE {}]
owed == [t \in Task |->
  {c \in Client : c \in todo[t] \/ t \in waiting[c] \cup writing[c]}]

Messages == INSTANCE Broadcast WITH
  Notice <- {"101", "status", "pong"},
  online <- clients, member <- rooms, dead <- deadClients, post <- posted,
  due <- owed, feed <- out

(* The locks, the lazy enumeration, the failures and the removals by       *)
(* handlers and StopAsync keep the promise of Broadcast: every client of   *)
(* the snapshot has its turn once, nothing is sent twice, to other rooms or *)
(* out of order, no send returns early, and only a failed write or a       *)
(* removal makes a client dead (Connection.cs 297-350, 500-515).           *)
ImplementsBroadcast == Messages!Spec

-----------------------------------------------------------------------------
(* Liveness, under Fairness. *)

(* Only a peer that keeps its connection open and reads nothing blocks.    *)
Blocked(t) ==
  pc[t] = "sending" /\ \E c \in reached[t] : peer[c] = "stalled" /\ open[c]

(* Every broadcast returns to its caller unless a receiver has stalled: no *)
(* order of locks, failures and removals leaves a sender waiting.          *)
BroadcastReturns ==
  \A t \in Task : pc[t] = "sending" ~> pc[t] # "sending" \/ Blocked(t)

(* A client whose peer is gone leaves _clients, unless its handler is      *)
(* blocked on somebody else's stalled peer.                                *)
GoneClientRemoved ==
  \A c \in Client :
    peer[c] = "gone" /\ c \in clients ~> c \notin clients \/ Blocked(c)

(* The handlers of StopAsync's snapshot end: disposing the streams         *)
(* unblocks every read, write and lock they wait for, even if the server   *)
(* is started again meanwhile.                                             *)
StopEndsHandlers ==
  \A c \in Client :
    stop = "removing" /\ c \in snap ~> pc[c] = "done" \/ Blocked(c)

-----------------------------------------------------------------------------
(* What the documentation says of the program and the code does not do.    *)

(* _README.md: "Gracefully stops the server and disconnects all clients".  *)
StopDisconnectsAll == stop = "done" => clients = {}
=============================================================================
