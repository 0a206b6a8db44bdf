------------------------- MODULE WebSocketServerProofs -------------------------
(* Proofs of the safety properties of WebSocketServer, for any number of   *)
(* clients, application tasks, rooms and frames.                           *)
EXTENDS WebSocketServer, TLAPS

(* What the code writes is of the declared type. *)
LEMMA WireMembers ==
  ASSUME NEW t \in Task, NEW r \in RoomOrNone, NEW n \in Nat,
         NEW k \in Kind \cup {"101", "status", "pong"}
  PROVE  /\ [kind |-> k, from |-> t, room |-> r, n |-> n] \in Wire
         /\ NoRoom \in RoomOrNone
  BY DEF Wire, RoomOrNone

(* Appending one element to one of several sequences. *)
LEMMA AppendType ==
  ASSUME NEW S, NEW D, NEW f \in [D -> Seq(S)], NEW d \in D, NEW e \in S
  PROVE  [f EXCEPT ![d] = Append(@, e)] \in [D -> Seq(S)]
  OBVIOUS

(* Adding one to a counter of some client, or of nobody. *)
LEMMA OneMore ==
  ASSUME NEW D, NEW f \in [D -> Nat], NEW d
  PROVE  [f EXCEPT ![d] = @ + 1] \in [D -> Nat]
<1>1. CASE d \in D
  <2>1. f[d] + 1 \in Nat
    BY <1>1
  <2> QED
    BY <2>1
<1>2. CASE d \notin D
  BY <1>2
<1> QED
  BY <1>1, <1>2

(* The initial state is well formed. *)
LEMMA InitTypes == Init => TypeOK
<1> SUFFICES ASSUME Init PROVE TypeOK
  OBVIOUS
<1>1. pc \in [Task -> HandlerPc \cup AppPc]
      /\ (\A c \in Client : pc[c] \in HandlerPc) /\ \A a \in App : pc[a] \in AppPc
  BY ConstantsAssumption DEF Init, Task, HandlerPc, AppPc
<1>2. frame \in [Task -> Wire]
  BY WireMembers DEF Init, RoomOrNone
<1>3. out \in [Client -> Seq(Wire)]
  BY DEF Init
<1>4. running \in BOOLEAN /\ errors \in BOOLEAN
  BY DEF Init
<1>8. /\ listener \in {"new", "listening", "stopped"}
      /\ acceptor \in {"idle", "check", "accept", "done"} /\ starts \in 0..MaxStarts
  BY ConstantsAssumption DEF Init
<1>5. /\ peer \in [Client -> {"open", "stalled", "gone"}]
      /\ clients \subseteq Client /\ connected \subseteq Client
      /\ alive \in [Client -> BOOLEAN] /\ open \in [Client -> BOOLEAN]
      /\ rooms \in [Client -> SUBSET Room] /\ roomId \in [Client -> RoomOrNone]
  BY DEF Init, RoomOrNone
<1>6. /\ sem \in [Client -> {0, 1}] /\ waiting \in [Client -> SUBSET Task]
      /\ writing \in [Client -> SUBSET Task]
      /\ todo \in [Task -> SUBSET Client] /\ reached \in [Task -> SUBSET Client]
      /\ sent \in [Task -> Nat]
  BY DEF Init
<1>7. /\ disconnects \in [Client -> Nat] /\ total \in Nat
      /\ loaded \in [Client \cup {Stopper} -> Nat]
      /\ stop \in StopPc /\ snap \subseteq Client /\ stopTodo \subseteq Client
      /\ stopAt \in Client \cup {NoClient}
  BY DEF Init, StopPc
<1> QED
  BY <1>1, <1>2, <1>3, <1>4, <1>5, <1>6, <1>7, <1>8 DEF TypeOK

PcTypes ==
  /\ pc \in [Task -> HandlerPc \cup AppPc]
  /\ \A c \in Client : pc[c] \in HandlerPc
  /\ \A a \in App : pc[a] \in AppPc

(* A handler that moves on keeps the program counters well typed. *)
LEMMA PcStep ==
  ASSUME TypeOK, NEW c \in Client, NEW v, v \in HandlerPc,
         pc' = [pc EXCEPT ![c] = v]
  PROVE  PcTypes'
  BY ConstantsAssumption DEF TypeOK, PcTypes, Task

(* Every variable keeps its type. *)
LEMMA TypeStep ==
  ASSUME TypeOK, LockConserved, [Next]_vars PROVE TypeOK'
<1> USE ConstantsAssumption DEF Task, RoomOrNone, TypeOK, serverVars, regVars,
      sessionVars, lockVars, sendVars, countVars, stopVars, restVars,
      HandlerPc, AppPc, StopPc
<1>1. ASSUME Start PROVE TypeOK'
  BY <1>1 DEF Start
<1>2. ASSUME StopBegin PROVE TypeOK'
  BY <1>2 DEF StopBegin
<1>3. ASSUME NEW c \in Client, PeerConnects(c) PROVE TypeOK'
  BY <1>3 DEF PeerConnects, Move
<1>4. ASSUME NEW c \in Client, PeerLeaves(c) PROVE TypeOK'
  BY <1>4 DEF PeerLeaves
<1>5. ASSUME NEW c \in Client, PeerStalls(c) PROVE TypeOK'
  BY <1>5 DEF PeerStalls
<1>6. ASSUME NEW a \in App, AppSend(a) PROVE TypeOK'
  <2>1. PICK k \in Kind, r \in RoomOrNone : frame' = [frame EXCEPT ![a] =
             [kind |-> k, from |-> a, room |-> r, n |-> sent[a] + 1]]
    BY <1>6 DEF AppSend
  <2>2. [kind |-> k, from |-> a, room |-> r, n |-> sent[a] + 1] \in Wire
    BY WireMembers
  <2>3. frame' \in [Task -> Wire]
    BY <2>1, <2>2
  <2>4. sent' \in [Task -> Nat] /\ todo' \in [Task -> SUBSET Client]
         /\ reached' \in [Task -> SUBSET Client]
    BY <1>6 DEF AppSend
  <2>5. pc' = [pc EXCEPT ![a] = "sending"]
    BY <1>6 DEF AppSend
  <2> QED
    BY <1>6, <2>3, <2>4, <2>5 DEF AppSend
<1>7. ASSUME CheckRunning PROVE TypeOK'
  BY <1>7 DEF CheckRunning
<1>8. ASSUME AcceptFails PROVE TypeOK'
  BY <1>8 DEF AcceptFails
<1>9. ASSUME NEW c \in Client, Accept(c) PROVE TypeOK'
  BY <1>9 DEF Accept
<1>10. ASSUME StopListener PROVE TypeOK'
  BY <1>10 DEF StopListener
<1>11. ASSUME StopSnapshot PROVE TypeOK'
  BY <1>11 DEF StopSnapshot
<1>44. ASSUME StopMark PROVE TypeOK'
  BY <1>44 DEF StopMark, MarkDead
<1>12. ASSUME StopClose PROVE TypeOK'
  BY <1>12 DEF StopClose, Close
<1>13. ASSUME StopCount PROVE TypeOK'
  <2>1. total' \in Nat
    BY <1>13 DEF StopCount, Count
  <2>2. disconnects' \in [Client -> Nat]
    <3>1. disconnects' = [disconnects EXCEPT ![stopAt] = @ + 1]
      BY <1>13 DEF StopCount, Count
    <3>2. disconnects \in [Client -> Nat]
      OBVIOUS
    <3> QED
      BY <3>1, <3>2, OneMore
  <2> QED
    BY <1>13, <2>1, <2>2 DEF StopCount, Count
<1>14. ASSUME StopReturns PROVE TypeOK'
  BY <1>14 DEF StopReturns
<1>15. ASSUME NEW c \in Client, StopTryRemove(c) PROVE TypeOK'
  BY <1>15 DEF StopTryRemove
<1>16. ASSUME NEW c \in Client, ReadUpgrade(c) PROVE TypeOK'
  <2>1. PICK r \in RoomOrNone : roomId' = [roomId EXCEPT ![c] = r]
    BY <1>16 DEF ReadUpgrade
  <2>2. roomId' \in [Client -> RoomOrNone]
    BY <2>1
  <2>3. pc' = [pc EXCEPT ![c] = "upgrading"] \/ pc' = [pc EXCEPT ![c] = "leaving"]
    BY <1>16 DEF ReadUpgrade
  <2>4. PcTypes'
    BY <2>3, PcStep
  <2> QED
    BY <1>16, <2>2, <2>4 DEF ReadUpgrade, PcTypes
<1>17. ASSUME NEW c \in Client, ReadHttp(c) PROVE TypeOK'
  <2>1. pc' = [pc EXCEPT ![c] = "status"] \/ pc' = [pc EXCEPT ![c] = "leaving"]
    BY <1>17 DEF ReadHttp, Move
  <2>2. UNCHANGED restVars
    BY <1>17 DEF ReadHttp, Move
  <2>3. PcTypes'
    BY <2>1, PcStep
  <2> QED
    BY <2>2, <2>3 DEF PcTypes
<1>18. ASSUME NEW c \in Client, ReadJunk(c) PROVE TypeOK'
  BY <1>18 DEF ReadJunk, Move
<1>19. ASSUME NEW c \in Client, ReadMessage(c) PROVE TypeOK'
  <2>1. PICK k \in Kind : frame' = [frame EXCEPT ![c] = [kind |-> k, from |-> c,
                                     room |-> roomId[c], n |-> sent[c] + 1]]
    BY <1>19 DEF ReadMessage
  <2>2. [kind |-> k, from |-> c, room |-> roomId[c], n |-> sent[c] + 1] \in Wire
    BY WireMembers
  <2>3. frame' \in [Task -> Wire]
    BY <2>1, <2>2
  <2>4. sent' \in [Task -> Nat]
    BY <1>19 DEF ReadMessage
  <2>5. pc' = [pc EXCEPT ![c] = "event"]
    BY <1>19 DEF ReadMessage
  <2> QED
    BY <1>19, <2>3, <2>4, <2>5 DEF ReadMessage
<1>20. ASSUME NEW c \in Client, ReadPing(c) PROVE TypeOK'
  <2>1. sent' \in [Task -> Nat]
    BY <1>20 DEF ReadPing
  <2>2. pc' = [pc EXCEPT ![c] = "ponging"] \/ pc' = [pc EXCEPT ![c] = "leaving"]
    BY <1>20 DEF ReadPing
  <2>3. PcTypes'
    BY <2>2, PcStep
  <2> QED
    BY <1>20, <2>1, <2>3 DEF ReadPing, PcTypes
<1>21. ASSUME NEW c \in Client, ReadIgnored(c) PROVE TypeOK'
  BY <1>21 DEF ReadIgnored
<1>22. ASSUME NEW c \in Client, ReadClose(c) PROVE TypeOK'
  BY <1>22 DEF ReadClose, Move
<1>23. ASSUME NEW c \in Client, ReadFails(c) PROVE TypeOK'
  BY <1>23 DEF ReadFails, Move
<1>24. ASSUME NEW c \in Client, Register(c) PROVE TypeOK'
  BY <1>24 DEF Register
<1>25. ASSUME NEW c \in Client, SecurityFails(c) PROVE TypeOK'
  BY <1>25 DEF SecurityFails, Move
<1>26. ASSUME NEW c \in Client, SendHandshakeResponse(c) PROVE TypeOK'
  <2>1. Answer(c, "101", sent[c]) \in Wire /\ Answer(c, "pong", sent[c]) \in Wire
       /\ Answer(c, "status", sent[c]) \in Wire
    BY WireMembers DEF Answer
  <2>2. out' \in [Client -> Seq(Wire)]
    <3>1. CASE UNCHANGED out
      BY <3>1
    <3>2. CASE ~UNCHANGED out
      <4>1. \E w \in Wire : out' = [out EXCEPT ![c] = Append(out[c], w)]
        BY <1>26, <2>1, <3>2 DEF SendHandshakeResponse, WriteAnswer
      <4> QED
        BY <4>1, AppendType
    <3> QED
      BY <3>1, <3>2
  <2>3. pc' \in [Task -> HandlerPc \cup AppPc] /\ \A d \in Task : d # c => pc'[d] = pc[d]
    BY <1>26 DEF SendHandshakeResponse, WriteAnswer
  <2>4. pc'[c] \in HandlerPc
    BY <1>26 DEF SendHandshakeResponse, WriteAnswer
  <2> QED
    BY <1>26, <2>2, <2>3, <2>4 DEF SendHandshakeResponse, WriteAnswer
<1>27. ASSUME NEW c \in Client, SendHttpStatusResponse(c) PROVE TypeOK'
  <2>1. Answer(c, "101", sent[c]) \in Wire /\ Answer(c, "pong", sent[c]) \in Wire
       /\ Answer(c, "status", sent[c]) \in Wire
    BY WireMembers DEF Answer
  <2>2. out' \in [Client -> Seq(Wire)]
    <3>1. CASE UNCHANGED out
      BY <3>1
    <3>2. CASE ~UNCHANGED out
      <4>1. \E w \in Wire : out' = [out EXCEPT ![c] = Append(out[c], w)]
        BY <1>27, <2>1, <3>2 DEF SendHttpStatusResponse, WriteAnswer
      <4> QED
        BY <4>1, AppendType
    <3> QED
      BY <3>1, <3>2
  <2>3. pc' \in [Task -> HandlerPc \cup AppPc] /\ \A d \in Task : d # c => pc'[d] = pc[d]
    BY <1>27 DEF SendHttpStatusResponse, WriteAnswer
  <2>4. pc'[c] \in HandlerPc
    BY <1>27 DEF SendHttpStatusResponse, WriteAnswer
  <2> QED
    BY <1>27, <2>2, <2>3, <2>4 DEF SendHttpStatusResponse, WriteAnswer
<1>28. ASSUME NEW c \in Client, SendPong(c) PROVE TypeOK'
  <2>1. Answer(c, "101", sent[c]) \in Wire /\ Answer(c, "pong", sent[c]) \in Wire
       /\ Answer(c, "status", sent[c]) \in Wire
    BY WireMembers DEF Answer
  <2>2. out' \in [Client -> Seq(Wire)]
    <3>1. CASE UNCHANGED out
      BY <3>1
    <3>2. CASE ~UNCHANGED out
      <4>1. \E w \in Wire : out' = [out EXCEPT ![c] = Append(out[c], w)]
        BY <1>28, <2>1, <3>2 DEF SendPong, WriteAnswer
      <4> QED
        BY <4>1, AppendType
    <3> QED
      BY <3>1, <3>2
  <2>3. pc' \in [Task -> HandlerPc \cup AppPc] /\ \A d \in Task : d # c => pc'[d] = pc[d]
    BY <1>28 DEF SendPong, WriteAnswer
  <2>4. pc'[c] \in HandlerPc
    BY <1>28 DEF SendPong, WriteAnswer
  <2> QED
    BY <1>28, <2>2, <2>3, <2>4 DEF SendPong, WriteAnswer
<1>29. ASSUME NEW c \in Client, Join(c) PROVE TypeOK'
  BY <1>29 DEF Join
<1>30. ASSUME NEW c \in Client, LoopTest(c) PROVE TypeOK'
  BY <1>30 DEF LoopTest, Move
<1>31. ASSUME NEW c \in Client, RaiseReceived(c) PROVE TypeOK'
  BY <1>31 DEF RaiseReceived
<1>32. ASSUME NEW c \in Client, ReceivedHandlerThrows(c) PROVE TypeOK'
  BY <1>32 DEF ReceivedHandlerThrows, Move
<1>33. ASSUME NEW c \in Client, DisposeStream(c) PROVE TypeOK'
  BY <1>33 DEF DisposeStream
<1>34. ASSUME NEW c \in Client, TryRemove(c) PROVE TypeOK'
  BY <1>34 DEF TryRemove
<1>45. ASSUME NEW c \in Client, MarkClient(c) PROVE TypeOK'
  BY <1>45 DEF MarkClient, MarkDead
<1>35. ASSUME NEW c \in Client, CloseClient(c) PROVE TypeOK'
  BY <1>35 DEF CloseClient, Close
<1>36. ASSUME NEW c \in Client, CountClient(c) PROVE TypeOK'
  BY <1>36 DEF CountClient, Count
<1>37. ASSUME NEW t \in Task, SendReturns(t) PROVE TypeOK'
  BY <1>37 DEF SendReturns, Move, Pending
<1>38. ASSUME NEW t \in Task, NEW c \in Client, Enumerate(t, c) PROVE TypeOK'
  <2>1. todo' \in [Task -> SUBSET Client]
    BY <1>38 DEF Enumerate
  <2>2. reached' \in [Task -> SUBSET Client] /\ waiting' \in [Client -> SUBSET Task]
    <3>1. CASE Wants(c, frame[t])
      <4>1. reached' = [reached EXCEPT ![t] = @ \cup {c}]
            /\ waiting' = [waiting EXCEPT ![c] = @ \cup {t}]
        BY <1>38, <3>1 DEF Enumerate
      <4> QED
        BY <4>1
    <3>2. CASE ~Wants(c, frame[t])
      BY <1>38, <3>2 DEF Enumerate
    <3> QED
      BY <3>1, <3>2
  <2> QED
    BY <1>38, <2>1, <2>2 DEF Enumerate
<1>39. ASSUME NEW t \in Task, NEW c \in Client, AcquireWriteLock(t, c) PROVE TypeOK'
  BY <1>39 DEF AcquireWriteLock
<1>40. ASSUME NEW t \in Task, NEW c \in Client, WriteFrame(t, c) PROVE TypeOK'
  <2>1. sem[c] = 0
    BY <1>40 DEF WriteFrame, LockConserved
  <2>2. sem' \in [Client -> {0, 1}]
    BY <1>40, <2>1 DEF WriteFrame, ReleaseWriteLock
  <2>3. writing' \in [Client -> SUBSET Task]
    BY <1>40 DEF WriteFrame, ReleaseWriteLock
  <2>4. out' \in [Client -> Seq(Wire)]
    BY <1>40, AppendType DEF WriteFrame
  <2> QED
    BY <1>40, <2>2, <2>3, <2>4 DEF WriteFrame
<1>41. ASSUME NEW t \in Task, NEW c \in Client, WriteFrameThrows(t, c) PROVE TypeOK'
  <2>1. sem[c] = 0
    BY <1>41 DEF WriteFrameThrows, LockConserved
  <2>2. sem' \in [Client -> {0, 1}]
    BY <1>41, <2>1 DEF WriteFrameThrows, ReleaseWriteLock
  <2>3. writing' \in [Client -> SUBSET Task]
    BY <1>41 DEF WriteFrameThrows, ReleaseWriteLock
  <2> QED
    BY <1>41, <2>2, <2>3 DEF WriteFrameThrows
<1>42. ASSUME NEW t \in Task, NEW c \in Client, SkipDead(t, c) PROVE TypeOK'
  <2>1. sem[c] = 0
    BY <1>42 DEF SkipDead, LockConserved
  <2>2. sem' \in [Client -> {0, 1}]
    BY <1>42, <2>1 DEF SkipDead, ReleaseWriteLock
  <2>3. writing' \in [Client -> SUBSET Task]
    BY <1>42 DEF SkipDead, ReleaseWriteLock
  <2> QED
    BY <1>42, <2>2, <2>3 DEF SkipDead
<1>43. CASE UNCHANGED vars
  BY <1>43 DEF vars, restVars
<1> QED
  BY <1>1, <1>2, <1>3, <1>4, <1>5, <1>6, <1>7, <1>8, <1>9, <1>10, <1>11, <1>12, <1>13,
     <1>14, <1>15, <1>16, <1>17, <1>18, <1>19, <1>20, <1>21, <1>22, <1>23, <1>24,
     <1>25, <1>26, <1>27, <1>28, <1>29, <1>30, <1>31, <1>32, <1>33, <1>34, <1>35,
     <1>36, <1>37, <1>38, <1>39, <1>40, <1>41, <1>42, <1>43, <1>44, <1>45
     DEF Next, Environment, AcceptLoop, Stopping, Reading, Handling, Removing, Sending,
         WriteFrameAsync

(* A WriteLock keeps exactly one permit, held by a broadcast that selected *)
(* the client.                                                             *)
LEMMA LockStep ==
  ASSUME TypeOK, LockConserved, [Next]_vars PROVE LockConserved'
<1> USE ConstantsAssumption DEF TypeOK, LockConserved, Task, serverVars, regVars,
      sessionVars, lockVars, sendVars, countVars, stopVars, restVars
<1>1. ASSUME Start PROVE LockConserved'
  BY <1>1 DEF Start
<1>2. ASSUME StopBegin PROVE LockConserved'
  BY <1>2 DEF StopBegin
<1>3. ASSUME NEW c \in Client, PeerConnects(c) PROVE LockConserved'
  BY <1>3 DEF PeerConnects, Move
<1>4. ASSUME NEW c \in Client, PeerLeaves(c) PROVE LockConserved'
  BY <1>4 DEF PeerLeaves
<1>5. ASSUME NEW c \in Client, PeerStalls(c) PROVE LockConserved'
  BY <1>5 DEF PeerStalls
<1>6. ASSUME NEW a \in App, AppSend(a) PROVE LockConserved'
  BY <1>6 DEF AppSend
<1>7. ASSUME CheckRunning PROVE LockConserved'
  BY <1>7 DEF CheckRunning
<1>8. ASSUME AcceptFails PROVE LockConserved'
  BY <1>8 DEF AcceptFails
<1>9. ASSUME NEW c \in Client, Accept(c) PROVE LockConserved'
  BY <1>9 DEF Accept
<1>10. ASSUME StopListener PROVE LockConserved'
  BY <1>10 DEF StopListener
<1>11. ASSUME StopSnapshot PROVE LockConserved'
  BY <1>11 DEF StopSnapshot
<1>44. ASSUME StopMark PROVE LockConserved'
  BY <1>44 DEF StopMark, MarkDead
<1>12. ASSUME StopClose PROVE LockConserved'
  BY <1>12 DEF StopClose, Close
<1>13. ASSUME StopCount PROVE LockConserved'
  BY <1>13 DEF StopCount, Count
<1>14. ASSUME StopReturns PROVE LockConserved'
  BY <1>14 DEF StopReturns
<1>15. ASSUME NEW c \in Client, StopTryRemove(c) PROVE LockConserved'
  BY <1>15 DEF StopTryRemove
<1>16. ASSUME NEW c \in Client, ReadUpgrade(c) PROVE LockConserved'
  BY <1>16 DEF ReadUpgrade
<1>17. ASSUME NEW c \in Client, ReadHttp(c) PROVE LockConserved'
  BY <1>17 DEF ReadHttp, Move
<1>18. ASSUME NEW c \in Client, ReadJunk(c) PROVE LockConserved'
  BY <1>18 DEF ReadJunk, Move
<1>19. ASSUME NEW c \in Client, ReadMessage(c) PROVE LockConserved'
  BY <1>19 DEF ReadMessage
<1>20. ASSUME NEW c \in Client, ReadPing(c) PROVE LockConserved'
  BY <1>20 DEF ReadPing
<1>21. ASSUME NEW c \in Client, ReadIgnored(c) PROVE LockConserved'
  BY <1>21 DEF ReadIgnored
<1>22. ASSUME NEW c \in Client, ReadClose(c) PROVE LockConserved'
  BY <1>22 DEF ReadClose, Move
<1>23. ASSUME NEW c \in Client, ReadFails(c) PROVE LockConserved'
  BY <1>23 DEF ReadFails, Move
<1>24. ASSUME NEW c \in Client, Register(c) PROVE LockConserved'
  BY <1>24 DEF Register
<1>25. ASSUME NEW c \in Client, SecurityFails(c) PROVE LockConserved'
  BY <1>25 DEF SecurityFails, Move
<1>26. ASSUME NEW c \in Client, SendHandshakeResponse(c) PROVE LockConserved'
  BY <1>26 DEF SendHandshakeResponse, WriteAnswer, Answer
<1>27. ASSUME NEW c \in Client, SendHttpStatusResponse(c) PROVE LockConserved'
  BY <1>27 DEF SendHttpStatusResponse, WriteAnswer, Answer
<1>28. ASSUME NEW c \in Client, SendPong(c) PROVE LockConserved'
  BY <1>28 DEF SendPong, WriteAnswer, Answer
<1>29. ASSUME NEW c \in Client, Join(c) PROVE LockConserved'
  BY <1>29 DEF Join
<1>30. ASSUME NEW c \in Client, LoopTest(c) PROVE LockConserved'
  BY <1>30 DEF LoopTest, Move
<1>31. ASSUME NEW c \in Client, RaiseReceived(c) PROVE LockConserved'
  BY <1>31 DEF RaiseReceived
<1>32. ASSUME NEW c \in Client, ReceivedHandlerThrows(c) PROVE LockConserved'
  BY <1>32 DEF ReceivedHandlerThrows, Move
<1>33. ASSUME NEW c \in Client, DisposeStream(c) PROVE LockConserved'
  BY <1>33 DEF DisposeStream
<1>34. ASSUME NEW c \in Client, TryRemove(c) PROVE LockConserved'
  BY <1>34 DEF TryRemove
<1>45. ASSUME NEW c \in Client, MarkClient(c) PROVE LockConserved'
  BY <1>45 DEF MarkClient, MarkDead
<1>35. ASSUME NEW c \in Client, CloseClient(c) PROVE LockConserved'
  BY <1>35 DEF CloseClient, Close
<1>36. ASSUME NEW c \in Client, CountClient(c) PROVE LockConserved'
  BY <1>36 DEF CountClient, Count
<1>37. ASSUME NEW t \in Task, SendReturns(t) PROVE LockConserved'
  BY <1>37 DEF SendReturns, Move, Pending
<1>38. ASSUME NEW t \in Task, NEW c \in Client, Enumerate(t, c) PROVE LockConserved'
  <2>1. CASE Wants(c, frame[t])
    <3>1. waiting' = [waiting EXCEPT ![c] = @ \cup {t}]
      BY <1>38, <2>1 DEF Enumerate
    <3>2. reached' = [reached EXCEPT ![t] = @ \cup {c}]
      BY <1>38, <2>1 DEF Enumerate
    <3>3. c \in reached'[t] /\ \A u \in Task : reached[u] \subseteq reached'[u]
      BY <3>2
    <3>4. UNCHANGED <<sem, writing, pc>> /\ pc[t] = "sending"
      BY <1>38 DEF Enumerate
    <3> QED
      BY <3>1, <3>3, <3>4
  <2>2. CASE ~Wants(c, frame[t])
    BY <1>38, <2>2 DEF Enumerate
  <2> QED
    BY <2>1, <2>2
<1>39. ASSUME NEW t \in Task, NEW c \in Client, AcquireWriteLock(t, c) PROVE LockConserved'
  BY <1>39 DEF AcquireWriteLock
<1>40. ASSUME NEW t \in Task, NEW c \in Client, WriteFrame(t, c) PROVE LockConserved'
  BY <1>40 DEF WriteFrame, ReleaseWriteLock
<1>41. ASSUME NEW t \in Task, NEW c \in Client, WriteFrameThrows(t, c) PROVE LockConserved'
  BY <1>41 DEF WriteFrameThrows, ReleaseWriteLock
<1>42. ASSUME NEW t \in Task, NEW c \in Client, SkipDead(t, c) PROVE LockConserved'
  BY <1>42 DEF SkipDead, ReleaseWriteLock
<1>43. CASE UNCHANGED vars
  BY <1>43 DEF vars, restVars
<1> QED
  BY <1>1, <1>2, <1>3, <1>4, <1>5, <1>6, <1>7, <1>8, <1>9, <1>10, <1>11, <1>12, <1>13,
     <1>14, <1>15, <1>16, <1>17, <1>18, <1>19, <1>20, <1>21, <1>22, <1>23, <1>24,
     <1>25, <1>26, <1>27, <1>28, <1>29, <1>30, <1>31, <1>32, <1>33, <1>34, <1>35,
     <1>36, <1>37, <1>38, <1>39, <1>40, <1>41, <1>42, <1>43, <1>44, <1>45
     DEF Next, Environment, AcceptLoop, Stopping, Reading, Handling, Removing, Sending,
         WriteFrameAsync

(* In every reachable state each variable has its type and each WriteLock  *)
(* is conserved: on every path through WriteFrameAsync, including a write  *)
(* that throws and a client that is already dead, the permit taken is      *)
(* given back once, so broadcasts never overlap on a stream.               *)
THEOREM WriteLockSafe == Spec => [](TypeOK /\ LockConserved)
<1>1. Init => TypeOK /\ LockConserved
  BY InitTypes DEF Init, LockConserved
<1>2. TypeOK /\ LockConserved /\ [Next]_vars => (TypeOK /\ LockConserved)'
  BY TypeStep, LockStep
<1> QED
  BY <1>1, <1>2, PTL DEF Spec

(* Who may still remove a client, and what has been done for it so far.    *)
Unregistered == {"absent", "backlog", "refused", "accepted"}

RemovalInv ==
  /\ \A c \in Client :
       /\ pc[c] \in Unregistered =>
            c \notin clients /\ c \notin snap /\ stopAt # c /\ disconnects[c] = 0
       /\ c \in clients =>
            stopAt # c /\ disconnects[c] = 0 /\ pc[c] \notin {"marking", "closing", "counting", "done"}
       /\ pc[c] \in {"marking", "closing", "counting"} => stopAt # c /\ disconnects[c] = 0
       /\ stopAt = c => disconnects[c] = 0
       /\ pc[c] \in {"closing", "counting"} => ~alive[c]
       /\ stopAt = c /\ stop \in {"closing", "counting"} => ~alive[c]
       /\ stopAt = c /\ stop = "counting" => ~open[c]
       /\ pc[c] \in {"removing", "marking", "closing", "counting", "done"} => ~open[c]
       /\ c \in snap /\ c \notin clients => ~open[c] \/ stopAt = c
  /\ stop \in {"marking", "closing", "counting"} <=> stopAt \in Client
  /\ stop \in {"removing", "marking", "closing", "counting", "done"} =>
       snap \cap clients \subseteq stopTodo
  /\ stop = "done" => stopTodo = {}
  /\ RemovedOnce

(* Whoever removes a client is the only one who does. *)
LEMMA RemovalStep ==
  ASSUME TypeOK, RemovalInv, [Next]_vars PROVE RemovalInv'
<1> USE ConstantsAssumption DEF TypeOK, RemovalInv, RemovedOnce, Unregistered, Task,
      serverVars, regVars, sessionVars, lockVars, sendVars, countVars, stopVars,
      restVars
<1>1. ASSUME Start PROVE RemovalInv'
  BY <1>1 DEF Start
<1>2. ASSUME StopBegin PROVE RemovalInv'
  BY <1>2 DEF StopBegin
<1>3. ASSUME NEW c \in Client, PeerConnects(c) PROVE RemovalInv'
  BY <1>3 DEF PeerConnects, Move
<1>4. ASSUME NEW c \in Client, PeerLeaves(c) PROVE RemovalInv'
  BY <1>4 DEF PeerLeaves
<1>5. ASSUME NEW c \in Client, PeerStalls(c) PROVE RemovalInv'
  BY <1>5 DEF PeerStalls
<1>6. ASSUME NEW a \in App, AppSend(a) PROVE RemovalInv'
  BY <1>6 DEF AppSend
<1>7. ASSUME CheckRunning PROVE RemovalInv'
  BY <1>7 DEF CheckRunning
<1>8. ASSUME AcceptFails PROVE RemovalInv'
  BY <1>8 DEF AcceptFails
<1>9. ASSUME NEW c \in Client, Accept(c) PROVE RemovalInv'
  BY <1>9 DEF Accept
<1>10. ASSUME StopListener PROVE RemovalInv'
  BY <1>10 DEF StopListener
<1>11. ASSUME StopSnapshot PROVE RemovalInv'
  BY <1>11 DEF StopSnapshot
<1>44. ASSUME StopMark PROVE RemovalInv'
  BY <1>44 DEF StopMark, MarkDead
<1>12. ASSUME StopClose PROVE RemovalInv'
  BY <1>12 DEF StopClose, Close
<1>13. ASSUME StopCount PROVE RemovalInv'
  BY <1>13 DEF StopCount, Count
<1>14. ASSUME StopReturns PROVE RemovalInv'
  BY <1>14 DEF StopReturns
<1>15. ASSUME NEW c \in Client, StopTryRemove(c) PROVE RemovalInv'
  BY <1>15 DEF StopTryRemove
<1>16. ASSUME NEW c \in Client, ReadUpgrade(c) PROVE RemovalInv'
  BY <1>16 DEF ReadUpgrade
<1>17. ASSUME NEW c \in Client, ReadHttp(c) PROVE RemovalInv'
  BY <1>17 DEF ReadHttp, Move
<1>18. ASSUME NEW c \in Client, ReadJunk(c) PROVE RemovalInv'
  BY <1>18 DEF ReadJunk, Move
<1>19. ASSUME NEW c \in Client, ReadMessage(c) PROVE RemovalInv'
  BY <1>19 DEF ReadMessage
<1>20. ASSUME NEW c \in Client, ReadPing(c) PROVE RemovalInv'
  BY <1>20 DEF ReadPing
<1>21. ASSUME NEW c \in Client, ReadIgnored(c) PROVE RemovalInv'
  BY <1>21 DEF ReadIgnored
<1>22. ASSUME NEW c \in Client, ReadClose(c) PROVE RemovalInv'
  BY <1>22 DEF ReadClose, Move
<1>23. ASSUME NEW c \in Client, ReadFails(c) PROVE RemovalInv'
  BY <1>23 DEF ReadFails, Move
<1>24. ASSUME NEW c \in Client, Register(c) PROVE RemovalInv'
  BY <1>24 DEF Register
<1>25. ASSUME NEW c \in Client, SecurityFails(c) PROVE RemovalInv'
  BY <1>25 DEF SecurityFails, Move
<1>26. ASSUME NEW c \in Client, SendHandshakeResponse(c) PROVE RemovalInv'
  BY <1>26 DEF SendHandshakeResponse, WriteAnswer, Answer
<1>27. ASSUME NEW c \in Client, SendHttpStatusResponse(c) PROVE RemovalInv'
  BY <1>27 DEF SendHttpStatusResponse, WriteAnswer, Answer
<1>28. ASSUME NEW c \in Client, SendPong(c) PROVE RemovalInv'
  BY <1>28 DEF SendPong, WriteAnswer, Answer
<1>29. ASSUME NEW c \in Client, Join(c) PROVE RemovalInv'
  BY <1>29 DEF Join
<1>30. ASSUME NEW c \in Client, LoopTest(c) PROVE RemovalInv'
  BY <1>30 DEF LoopTest, Move
<1>31. ASSUME NEW c \in Client, RaiseReceived(c) PROVE RemovalInv'
  BY <1>31 DEF RaiseReceived
<1>32. ASSUME NEW c \in Client, ReceivedHandlerThrows(c) PROVE RemovalInv'
  BY <1>32 DEF ReceivedHandlerThrows, Move
<1>33. ASSUME NEW c \in Client, DisposeStream(c) PROVE RemovalInv'
  BY <1>33 DEF DisposeStream
<1>34. ASSUME NEW c \in Client, TryRemove(c) PROVE RemovalInv'
  BY <1>34 DEF TryRemove
<1>45. ASSUME NEW c \in Client, MarkClient(c) PROVE RemovalInv'
  BY <1>45 DEF MarkClient, MarkDead
<1>35. ASSUME NEW c \in Client, CloseClient(c) PROVE RemovalInv'
  BY <1>35 DEF CloseClient, Close
<1>36. ASSUME NEW c \in Client, CountClient(c) PROVE RemovalInv'
  BY <1>36 DEF CountClient, Count
<1>37. ASSUME NEW t \in Task, SendReturns(t) PROVE RemovalInv'
  BY <1>37 DEF SendReturns, Move, Pending
<1>38. ASSUME NEW t \in Task, NEW c \in Client, Enumerate(t, c) PROVE RemovalInv'
  BY <1>38 DEF Enumerate
<1>39. ASSUME NEW t \in Task, NEW c \in Client, AcquireWriteLock(t, c) PROVE RemovalInv'
  BY <1>39 DEF AcquireWriteLock
<1>40. ASSUME NEW t \in Task, NEW c \in Client, WriteFrame(t, c) PROVE RemovalInv'
  BY <1>40 DEF WriteFrame, ReleaseWriteLock
<1>41. ASSUME NEW t \in Task, NEW c \in Client, WriteFrameThrows(t, c) PROVE RemovalInv'
  BY <1>41 DEF WriteFrameThrows, ReleaseWriteLock
<1>42. ASSUME NEW t \in Task, NEW c \in Client, SkipDead(t, c) PROVE RemovalInv'
  BY <1>42 DEF SkipDead, ReleaseWriteLock
<1>43. CASE UNCHANGED vars
  BY <1>43 DEF vars, restVars
<1> QED
  BY <1>1, <1>2, <1>3, <1>4, <1>5, <1>6, <1>7, <1>8, <1>9, <1>10, <1>11, <1>12, <1>13,
     <1>14, <1>15, <1>16, <1>17, <1>18, <1>19, <1>20, <1>21, <1>22, <1>23, <1>24,
     <1>25, <1>26, <1>27, <1>28, <1>29, <1>30, <1>31, <1>32, <1>33, <1>34, <1>35,
     <1>36, <1>37, <1>38, <1>39, <1>40, <1>41, <1>42, <1>43, <1>44, <1>45
     DEF Next, Environment, AcceptLoop, Stopping, Reading, Handling, Removing, Sending,
         WriteFrameAsync

(* However a handler's finally and StopAsync race for a client,            *)
(* OnDisconnectedClient is raised at most once for it, after it left       *)
(* _clients and its stream was disposed.                                   *)
THEOREM RemovalSafe == Spec => []RemovedOnce
<1>1. Init => RemovalInv
  BY ConstantsAssumption DEF Init, RemovalInv, RemovedOnce, Unregistered, Task
<1>2. TypeOK /\ RemovalInv /\ [Next]_vars => RemovalInv'
  BY RemovalStep
<1>3. RemovalInv => RemovedOnce
  BY DEF RemovalInv
<1> QED
  BY <1>1, <1>2, <1>3, WriteLockSafe, PTL DEF Spec

(* When StopAsync has returned, every client of its snapshot has left      *)
(* _clients and has a disposed stream, whoever won its removal.            *)
THEOREM StopSafe == Spec => []StopClosesSnapshot
<1>1. Init => RemovalInv
  BY ConstantsAssumption DEF Init, RemovalInv, RemovedOnce, Unregistered, Task
<1>2. TypeOK /\ RemovalInv /\ [Next]_vars => RemovalInv'
  BY RemovalStep
<1>3. TypeOK /\ RemovalInv => StopClosesSnapshot
  BY DEF TypeOK, RemovalInv, StopClosesSnapshot
<1> QED
  BY <1>1, <1>2, <1>3, WriteLockSafe, PTL DEF Spec

(* Without TLS a client is marked dead only after its peer closed or its   *)
(* own stream was disposed, or by StopAsync, which disposes it next.       *)
LEMMA HealthyStep ==
  ASSUME TypeOK, RemovalInv, HealthyStayAlive, [Next]_vars PROVE HealthyStayAlive'
<1> USE ConstantsAssumption DEF TypeOK, RemovalInv, HealthyStayAlive, StreamBroken, Collides,
      serverVars, regVars, sessionVars, lockVars, sendVars, countVars, stopVars,
      restVars
<1>1. ASSUME Start PROVE HealthyStayAlive'
  BY <1>1 DEF Start
<1>2. ASSUME StopBegin PROVE HealthyStayAlive'
  BY <1>2 DEF StopBegin
<1>3. ASSUME NEW c \in Client, PeerConnects(c) PROVE HealthyStayAlive'
  BY <1>3 DEF PeerConnects, Move
<1>4. ASSUME NEW c \in Client, PeerLeaves(c) PROVE HealthyStayAlive'
  BY <1>4 DEF PeerLeaves
<1>5. ASSUME NEW c \in Client, PeerStalls(c) PROVE HealthyStayAlive'
  BY <1>5 DEF PeerStalls
<1>6. ASSUME NEW a \in App, AppSend(a) PROVE HealthyStayAlive'
  BY <1>6 DEF AppSend
<1>7. ASSUME CheckRunning PROVE HealthyStayAlive'
  BY <1>7 DEF CheckRunning
<1>8. ASSUME AcceptFails PROVE HealthyStayAlive'
  BY <1>8 DEF AcceptFails
<1>9. ASSUME NEW c \in Client, Accept(c) PROVE HealthyStayAlive'
  BY <1>9 DEF Accept
<1>10. ASSUME StopListener PROVE HealthyStayAlive'
  BY <1>10 DEF StopListener
<1>11. ASSUME StopSnapshot PROVE HealthyStayAlive'
  BY <1>11 DEF StopSnapshot
<1>44. ASSUME StopMark PROVE HealthyStayAlive'
  BY <1>44 DEF StopMark, MarkDead
<1>12. ASSUME StopClose PROVE HealthyStayAlive'
  BY <1>12 DEF StopClose, Close
<1>13. ASSUME StopCount PROVE HealthyStayAlive'
  BY <1>13 DEF StopCount, Count
<1>14. ASSUME StopReturns PROVE HealthyStayAlive'
  BY <1>14 DEF StopReturns
<1>15. ASSUME NEW c \in Client, StopTryRemove(c) PROVE HealthyStayAlive'
  BY <1>15 DEF StopTryRemove
<1>16. ASSUME NEW c \in Client, ReadUpgrade(c) PROVE HealthyStayAlive'
  BY <1>16 DEF ReadUpgrade
<1>17. ASSUME NEW c \in Client, ReadHttp(c) PROVE HealthyStayAlive'
  BY <1>17 DEF ReadHttp, Move
<1>18. ASSUME NEW c \in Client, ReadJunk(c) PROVE HealthyStayAlive'
  BY <1>18 DEF ReadJunk, Move
<1>19. ASSUME NEW c \in Client, ReadMessage(c) PROVE HealthyStayAlive'
  BY <1>19 DEF ReadMessage
<1>20. ASSUME NEW c \in Client, ReadPing(c) PROVE HealthyStayAlive'
  BY <1>20 DEF ReadPing
<1>21. ASSUME NEW c \in Client, ReadIgnored(c) PROVE HealthyStayAlive'
  BY <1>21 DEF ReadIgnored
<1>22. ASSUME NEW c \in Client, ReadClose(c) PROVE HealthyStayAlive'
  BY <1>22 DEF ReadClose, Move
<1>23. ASSUME NEW c \in Client, ReadFails(c) PROVE HealthyStayAlive'
  BY <1>23 DEF ReadFails, Move
<1>24. ASSUME NEW c \in Client, Register(c) PROVE HealthyStayAlive'
  BY <1>24 DEF Register
<1>25. ASSUME NEW c \in Client, SecurityFails(c) PROVE HealthyStayAlive'
  BY <1>25 DEF SecurityFails, Move
<1>26. ASSUME NEW c \in Client, SendHandshakeResponse(c) PROVE HealthyStayAlive'
  BY <1>26 DEF SendHandshakeResponse, WriteAnswer, Answer
<1>27. ASSUME NEW c \in Client, SendHttpStatusResponse(c) PROVE HealthyStayAlive'
  BY <1>27 DEF SendHttpStatusResponse, WriteAnswer, Answer
<1>28. ASSUME NEW c \in Client, SendPong(c) PROVE HealthyStayAlive'
  BY <1>28 DEF SendPong, WriteAnswer, Answer
<1>29. ASSUME NEW c \in Client, Join(c) PROVE HealthyStayAlive'
  BY <1>29 DEF Join
<1>30. ASSUME NEW c \in Client, LoopTest(c) PROVE HealthyStayAlive'
  BY <1>30 DEF LoopTest, Move
<1>31. ASSUME NEW c \in Client, RaiseReceived(c) PROVE HealthyStayAlive'
  BY <1>31 DEF RaiseReceived
<1>32. ASSUME NEW c \in Client, ReceivedHandlerThrows(c) PROVE HealthyStayAlive'
  BY <1>32 DEF ReceivedHandlerThrows, Move
<1>33. ASSUME NEW c \in Client, DisposeStream(c) PROVE HealthyStayAlive'
  BY <1>33 DEF DisposeStream
<1>34. ASSUME NEW c \in Client, TryRemove(c) PROVE HealthyStayAlive'
  BY <1>34 DEF TryRemove
<1>45. ASSUME NEW c \in Client, MarkClient(c) PROVE HealthyStayAlive'
  BY <1>45 DEF MarkClient, MarkDead
<1>35. ASSUME NEW c \in Client, CloseClient(c) PROVE HealthyStayAlive'
  BY <1>35 DEF CloseClient, Close
<1>36. ASSUME NEW c \in Client, CountClient(c) PROVE HealthyStayAlive'
  BY <1>36 DEF CountClient, Count
<1>37. ASSUME NEW t \in Task, SendReturns(t) PROVE HealthyStayAlive'
  BY <1>37 DEF SendReturns, Move, Pending
<1>38. ASSUME NEW t \in Task, NEW c \in Client, Enumerate(t, c) PROVE HealthyStayAlive'
  BY <1>38 DEF Enumerate
<1>39. ASSUME NEW t \in Task, NEW c \in Client, AcquireWriteLock(t, c) PROVE HealthyStayAlive'
  BY <1>39 DEF AcquireWriteLock
<1>40. ASSUME NEW t \in Task, NEW c \in Client, WriteFrame(t, c) PROVE HealthyStayAlive'
  BY <1>40 DEF WriteFrame, ReleaseWriteLock
<1>41. ASSUME NEW t \in Task, NEW c \in Client, WriteFrameThrows(t, c) PROVE HealthyStayAlive'
  BY <1>41 DEF WriteFrameThrows, ReleaseWriteLock
<1>42. ASSUME NEW t \in Task, NEW c \in Client, SkipDead(t, c) PROVE HealthyStayAlive'
  BY <1>42 DEF SkipDead, ReleaseWriteLock
<1>43. CASE UNCHANGED vars
  BY <1>43 DEF vars, restVars
<1> QED
  BY <1>1, <1>2, <1>3, <1>4, <1>5, <1>6, <1>7, <1>8, <1>9, <1>10, <1>11, <1>12, <1>13,
     <1>14, <1>15, <1>16, <1>17, <1>18, <1>19, <1>20, <1>21, <1>22, <1>23, <1>24,
     <1>25, <1>26, <1>27, <1>28, <1>29, <1>30, <1>31, <1>32, <1>33, <1>34, <1>35,
     <1>36, <1>37, <1>38, <1>39, <1>40, <1>41, <1>42, <1>43, <1>44, <1>45
     DEF Next, Environment, AcceptLoop, Stopping, Reading, Handling, Removing, Sending,
         WriteFrameAsync

(* Without TLS no broadcast ever takes a healthy client down.              *)
THEOREM HealthySafe == Spec => []HealthyStayAlive
<1>1. Init => RemovalInv /\ HealthyStayAlive
  BY ConstantsAssumption DEF Init, RemovalInv, RemovedOnce, Unregistered, Task,
     HealthyStayAlive
<1>2. TypeOK /\ RemovalInv /\ HealthyStayAlive /\ [Next]_vars
        => (RemovalInv /\ HealthyStayAlive)'
  BY RemovalStep, HealthyStep
<1> QED
  BY <1>1, <1>2, WriteLockSafe, PTL DEF Spec

(* One more element at the end of one client's stream.                     *)
LEMMA OutGrows ==
  ASSUME out \in [Client -> Seq(Wire)], NEW c \in Client, NEW w \in Wire,
         out' = [out EXCEPT ![c] = Append(@, w)]
  PROVE  /\ \A d \in Client : \A i \in 1..Len(out'[d]) :
              \/ i \in 1..Len(out[d]) /\ out'[d][i] = out[d][i]
              \/ d = c /\ i = Len(out[c]) + 1 /\ out'[d][i] = w
         /\ \A d \in Client : \A i \in 1..Len(out[d]) :
              i \in 1..Len(out'[d]) /\ out'[d][i] = out[d][i]
         /\ Len(out[c]) + 1 \in 1..Len(out'[c]) /\ out'[c][Len(out[c]) + 1] = w
<1>1. out'[c] = Append(out[c], w) /\ Len(out'[c]) = Len(out[c]) + 1
      /\ out'[c][Len(out[c]) + 1] = w /\ Len(out[c]) \in Nat
  OBVIOUS
<1>2. \A i \in 1..Len(out[c]) : out'[c][i] = out[c][i]
  BY <1>1
<1>3. \A d \in Client : d # c => out'[d] = out[d]
  OBVIOUS
<1> QED
  BY <1>1, <1>2, <1>3

(* A handler's own answer is not a broadcast frame and changes nothing but *)
(* its own stream and program counter.                                     *)
Answers(c) ==
  SendHandshakeResponse(c) \/ SendHttpStatusResponse(c) \/ SendPong(c)

(* An answer of a handler adds at most itself to its own stream. *)
LEMMA AnswerStep ==
  ASSUME TypeOK, NEW c \in Client, Answers(c)
  PROVE  /\ \A d \in Client : \A i \in 1..Len(out'[d]) :
              \/ i \in 1..Len(out[d]) /\ out'[d][i] = out[d][i]
              \/ out'[d][i].kind \notin Kind
         /\ \A d \in Client : \A i \in 1..Len(out[d]) :
              i \in 1..Len(out'[d]) /\ out'[d][i] = out[d][i]
         /\ \/ pc' = [pc EXCEPT ![c] = "joining"]
            \/ pc' = [pc EXCEPT ![c] = "leaving"]
            \/ pc[c] = "ponging" /\ pc' = [pc EXCEPT ![c] = "check"]
         /\ UNCHANGED <<serverVars, peer, regVars, sessionVars, lockVars, sendVars,
                        countVars, stopVars>>
<1>1. \A k \in {"101", "status", "pong"} :
        Answer(c, k, sent[c]) \in Wire /\ Answer(c, k, sent[c]).kind \notin Kind
  <2> TAKE k \in {"101", "status", "pong"}
  <2>1. sent[c] \in Nat /\ c \in Task
    BY DEF TypeOK, Task
  <2>2. Answer(c, k, sent[c]) \in Wire
    BY <2>1 DEF Answer, Wire, RoomOrNone
  <2>3. k \notin Kind
    BY ConstantsAssumption
  <2> QED
    BY <2>2, <2>3 DEF Answer
<1>2. \/ UNCHANGED out
      \/ \E k \in {"101", "status", "pong"} :
           out' = [out EXCEPT ![c] = Append(@, Answer(c, k, sent[c]))]
  BY DEF Answers, SendHandshakeResponse, SendHttpStatusResponse, SendPong, WriteAnswer
<1>3. \/ pc' = [pc EXCEPT ![c] = "joining"]
      \/ pc' = [pc EXCEPT ![c] = "leaving"]
      \/ pc[c] = "ponging" /\ pc' = [pc EXCEPT ![c] = "check"]
  BY DEF Answers, SendHandshakeResponse, SendHttpStatusResponse, SendPong, WriteAnswer
<1>4. UNCHANGED <<serverVars, peer, regVars, sessionVars, lockVars, sendVars,
                  countVars, stopVars>>
  BY DEF Answers, SendHandshakeResponse, SendHttpStatusResponse, SendPong, WriteAnswer
<1>5. out \in [Client -> Seq(Wire)]
  BY DEF TypeOK
<1>6. CASE UNCHANGED out
  BY <1>3, <1>4, <1>6
<1>7. CASE ~UNCHANGED out
  <2>1. PICK k \in {"101", "status", "pong"} :
          out' = [out EXCEPT ![c] = Append(@, Answer(c, k, sent[c]))]
    BY <1>2, <1>7
  <2>2. Answer(c, k, sent[c]) \in Wire /\ Answer(c, k, sent[c]).kind \notin Kind
    BY <1>1
  <2> QED
    BY <1>3, <1>4, <1>5, <2>1, <2>2, OutGrows
<1> QED
  BY <1>6, <1>7

(* What makes a frame stay in its room: a handler only broadcasts to a     *)
(* room its client has joined, and a broadcast only selects members.       *)
RoomInv ==
  /\ \A c \in Client :
       pc[c] \in {"check", "reading", "ponging", "event", "sending"} =>
         roomId[c] = NoRoom \/ roomId[c] \in rooms[c]
  /\ \A t \in Task :
       pc[t] \in {"event", "sending"} =>
         frame[t].from = t /\ (t \in Client => frame[t].room = roomId[t])
  /\ \A t \in Task, c \in Client :
       pc[t] = "sending" /\ c \in reached[t] =>
         frame[t].room = NoRoom \/ frame[t].room \in rooms[c]
  /\ RoomConfinement

(* A frame for a room goes to clients that are in it. *)
LEMMA RoomStep ==
  ASSUME TypeOK, LockConserved, RoomInv, [Next]_vars PROVE RoomInv'
<1>1. ASSUME Start PROVE RoomInv'
  BY <1>1, ConstantsAssumption DEF Start, TypeOK, RoomInv, RoomConfinement, Task, sessionVars,
     sendVars, restVars
<1>2. ASSUME StopBegin PROVE RoomInv'
  BY <1>2, ConstantsAssumption DEF StopBegin, TypeOK, RoomInv, RoomConfinement, Task, sessionVars,
     sendVars, restVars
<1>3. ASSUME NEW c \in Client, PeerConnects(c) PROVE RoomInv'
  BY <1>3, ConstantsAssumption DEF PeerConnects, Move, TypeOK, RoomInv, RoomConfinement, Task, sessionVars,
     sendVars, restVars
<1>4. ASSUME NEW c \in Client, PeerLeaves(c) PROVE RoomInv'
  BY <1>4, ConstantsAssumption DEF PeerLeaves, TypeOK, RoomInv, RoomConfinement, Task, sessionVars,
     sendVars, restVars
<1>5. ASSUME NEW c \in Client, PeerStalls(c) PROVE RoomInv'
  BY <1>5, ConstantsAssumption DEF PeerStalls, TypeOK, RoomInv, RoomConfinement, Task, sessionVars,
     sendVars, restVars
<1>6. ASSUME NEW a \in App, AppSend(a) PROVE RoomInv'
  BY <1>6, ConstantsAssumption DEF AppSend, TypeOK, RoomInv, RoomConfinement, Task, sessionVars,
     sendVars, restVars
<1>7. ASSUME CheckRunning PROVE RoomInv'
  BY <1>7, ConstantsAssumption DEF CheckRunning, TypeOK, RoomInv, RoomConfinement, Task, sessionVars,
     sendVars, restVars
<1>8. ASSUME AcceptFails PROVE RoomInv'
  BY <1>8, ConstantsAssumption DEF AcceptFails, TypeOK, RoomInv, RoomConfinement, Task, sessionVars,
     sendVars, restVars
<1>9. ASSUME NEW c \in Client, Accept(c) PROVE RoomInv'
  BY <1>9, ConstantsAssumption DEF Accept, TypeOK, RoomInv, RoomConfinement, Task, sessionVars,
     sendVars, restVars
<1>10. ASSUME StopListener PROVE RoomInv'
  BY <1>10, ConstantsAssumption DEF StopListener, TypeOK, RoomInv, RoomConfinement, Task, sessionVars,
     sendVars, restVars
<1>11. ASSUME StopSnapshot PROVE RoomInv'
  BY <1>11, ConstantsAssumption DEF StopSnapshot, TypeOK, RoomInv, RoomConfinement, Task, sessionVars,
     sendVars, restVars
<1>44. ASSUME StopMark PROVE RoomInv'
  BY <1>44, ConstantsAssumption DEF StopMark, MarkDead, TypeOK, RoomInv, RoomConfinement, Task,
     sessionVars, sendVars, restVars
<1>12. ASSUME StopClose PROVE RoomInv'
  BY <1>12, ConstantsAssumption DEF StopClose, Close, TypeOK, RoomInv, RoomConfinement, Task, sessionVars,
     sendVars, restVars
<1>13. ASSUME StopCount PROVE RoomInv'
  BY <1>13, ConstantsAssumption DEF StopCount, Count, TypeOK, RoomInv, RoomConfinement, Task, sessionVars,
     sendVars, restVars
<1>14. ASSUME StopReturns PROVE RoomInv'
  BY <1>14, ConstantsAssumption DEF StopReturns, TypeOK, RoomInv, RoomConfinement, Task, sessionVars,
     sendVars, restVars
<1>15. ASSUME NEW c \in Client, StopTryRemove(c) PROVE RoomInv'
  BY <1>15, ConstantsAssumption DEF StopTryRemove, TypeOK, RoomInv, RoomConfinement, Task, sessionVars,
     sendVars, restVars
<1>16. ASSUME NEW c \in Client, ReadUpgrade(c) PROVE RoomInv'
  BY <1>16, ConstantsAssumption DEF ReadUpgrade, TypeOK, RoomInv, RoomConfinement, Task, sessionVars,
     sendVars, restVars
<1>17. ASSUME NEW c \in Client, ReadHttp(c) PROVE RoomInv'
  <2>1. pc' = [pc EXCEPT ![c] = "status"] \/ pc' = [pc EXCEPT ![c] = "leaving"]
    BY <1>17 DEF ReadHttp, Move
  <2>2. UNCHANGED restVars
    BY <1>17 DEF ReadHttp, Move
  <2> QED
    BY <2>1, <2>2 DEF restVars, RoomInv, RoomConfinement, TypeOK, Task, sessionVars,
       sendVars
<1>18. ASSUME NEW c \in Client, ReadJunk(c) PROVE RoomInv'
  BY <1>18, ConstantsAssumption DEF ReadJunk, Move, TypeOK, RoomInv, RoomConfinement, Task, sessionVars,
     sendVars, restVars
<1>19. ASSUME NEW c \in Client, ReadMessage(c) PROVE RoomInv'
  BY <1>19, ConstantsAssumption DEF ReadMessage, TypeOK, RoomInv, RoomConfinement, Task, sessionVars,
     sendVars, restVars
<1>20. ASSUME NEW c \in Client, ReadPing(c) PROVE RoomInv'
  BY <1>20, ConstantsAssumption DEF ReadPing, TypeOK, RoomInv, RoomConfinement, Task, sessionVars,
     sendVars, restVars
<1>21. ASSUME NEW c \in Client, ReadIgnored(c) PROVE RoomInv'
  BY <1>21, ConstantsAssumption DEF ReadIgnored, TypeOK, RoomInv, RoomConfinement, Task, sessionVars,
     sendVars, restVars
<1>22. ASSUME NEW c \in Client, ReadClose(c) PROVE RoomInv'
  BY <1>22, ConstantsAssumption DEF ReadClose, Move, TypeOK, RoomInv, RoomConfinement, Task, sessionVars,
     sendVars, restVars
<1>23. ASSUME NEW c \in Client, ReadFails(c) PROVE RoomInv'
  BY <1>23, ConstantsAssumption DEF ReadFails, Move, TypeOK, RoomInv, RoomConfinement, Task, sessionVars,
     sendVars, restVars
<1>24. ASSUME NEW c \in Client, Register(c) PROVE RoomInv'
  BY <1>24, ConstantsAssumption DEF Register, TypeOK, RoomInv, RoomConfinement, Task, sessionVars,
     sendVars, restVars
<1>25. ASSUME NEW c \in Client, SecurityFails(c) PROVE RoomInv'
  BY <1>25, ConstantsAssumption DEF SecurityFails, Move, TypeOK, RoomInv, RoomConfinement, Task, sessionVars,
     sendVars, restVars
<1>26. ASSUME NEW c \in Client, SendHandshakeResponse(c) PROVE RoomInv'
  <2>1. Answers(c)
    BY <1>26 DEF Answers
  <2>2. RoomConfinement'
    BY <2>1, AnswerStep DEF RoomInv, RoomConfinement, sessionVars
  <2>3. \/ pc' = [pc EXCEPT ![c] = "joining"]
        \/ pc' = [pc EXCEPT ![c] = "leaving"]
        \/ pc[c] = "ponging" /\ pc' = [pc EXCEPT ![c] = "check"]
    BY <2>1, AnswerStep
  <2>4. UNCHANGED <<roomId, rooms, frame, reached>>
    BY <2>1, AnswerStep DEF sessionVars, sendVars
  <2> QED
    BY <2>2, <2>3, <2>4 DEF RoomInv, TypeOK, Task
<1>27. ASSUME NEW c \in Client, SendHttpStatusResponse(c) PROVE RoomInv'
  <2>1. Answers(c)
    BY <1>27 DEF Answers
  <2>2. RoomConfinement'
    BY <2>1, AnswerStep DEF RoomInv, RoomConfinement, sessionVars
  <2>3. \/ pc' = [pc EXCEPT ![c] = "joining"]
        \/ pc' = [pc EXCEPT ![c] = "leaving"]
        \/ pc[c] = "ponging" /\ pc' = [pc EXCEPT ![c] = "check"]
    BY <2>1, AnswerStep
  <2>4. UNCHANGED <<roomId, rooms, frame, reached>>
    BY <2>1, AnswerStep DEF sessionVars, sendVars
  <2> QED
    BY <2>2, <2>3, <2>4 DEF RoomInv, TypeOK, Task
<1>28. ASSUME NEW c \in Client, SendPong(c) PROVE RoomInv'
  <2>1. Answers(c)
    BY <1>28 DEF Answers
  <2>2. RoomConfinement'
    BY <2>1, AnswerStep DEF RoomInv, RoomConfinement, sessionVars
  <2>3. \/ pc' = [pc EXCEPT ![c] = "joining"]
        \/ pc' = [pc EXCEPT ![c] = "leaving"]
        \/ pc[c] = "ponging" /\ pc' = [pc EXCEPT ![c] = "check"]
    BY <2>1, AnswerStep
  <2>4. UNCHANGED <<roomId, rooms, frame, reached>>
    BY <2>1, AnswerStep DEF sessionVars, sendVars
  <2> QED
    BY <2>2, <2>3, <2>4 DEF RoomInv, TypeOK, Task
<1>29. ASSUME NEW c \in Client, Join(c) PROVE RoomInv'
  BY <1>29, ConstantsAssumption DEF Join, TypeOK, RoomInv, RoomConfinement, Task, sessionVars,
     sendVars, restVars
<1>30. ASSUME NEW c \in Client, LoopTest(c) PROVE RoomInv'
  BY <1>30, ConstantsAssumption DEF LoopTest, Move, TypeOK, RoomInv, RoomConfinement, Task, sessionVars,
     sendVars, restVars
<1>31. ASSUME NEW c \in Client, RaiseReceived(c) PROVE RoomInv'
  BY <1>31, ConstantsAssumption DEF RaiseReceived, TypeOK, RoomInv, RoomConfinement, Task, sessionVars,
     sendVars, restVars
<1>32. ASSUME NEW c \in Client, ReceivedHandlerThrows(c) PROVE RoomInv'
  BY <1>32, ConstantsAssumption DEF ReceivedHandlerThrows, Move, TypeOK, RoomInv, RoomConfinement, Task, sessionVars,
     sendVars, restVars
<1>33. ASSUME NEW c \in Client, DisposeStream(c) PROVE RoomInv'
  BY <1>33, ConstantsAssumption DEF DisposeStream, TypeOK, RoomInv, RoomConfinement, Task, sessionVars,
     sendVars, restVars
<1>34. ASSUME NEW c \in Client, TryRemove(c) PROVE RoomInv'
  BY <1>34, ConstantsAssumption DEF TryRemove, TypeOK, RoomInv, RoomConfinement, Task, sessionVars,
     sendVars, restVars
<1>45. ASSUME NEW c \in Client, MarkClient(c) PROVE RoomInv'
  BY <1>45, ConstantsAssumption DEF MarkClient, MarkDead, TypeOK, RoomInv, RoomConfinement, Task,
     sessionVars, sendVars, restVars
<1>35. ASSUME NEW c \in Client, CloseClient(c) PROVE RoomInv'
  BY <1>35, ConstantsAssumption DEF CloseClient, Close, TypeOK, RoomInv, RoomConfinement, Task, sessionVars,
     sendVars, restVars
<1>36. ASSUME NEW c \in Client, CountClient(c) PROVE RoomInv'
  BY <1>36, ConstantsAssumption DEF CountClient, Count, TypeOK, RoomInv, RoomConfinement, Task, sessionVars,
     sendVars, restVars
<1>37. ASSUME NEW t \in Task, SendReturns(t) PROVE RoomInv'
  BY <1>37, ConstantsAssumption DEF SendReturns, Move, Pending, TypeOK, RoomInv, RoomConfinement, Task, sessionVars,
     sendVars, restVars
<1>38. ASSUME NEW t \in Task, NEW c \in Client, Enumerate(t, c) PROVE RoomInv'
  <2>1. UNCHANGED <<pc, rooms, roomId, frame, out>>
    BY <1>38 DEF Enumerate, sessionVars
  <2>2. CASE Wants(c, frame[t])
    <3>1. reached' = [reached EXCEPT ![t] = @ \cup {c}]
      BY <1>38, <2>2 DEF Enumerate
    <3>2. frame[t].room = NoRoom \/ frame[t].room \in rooms[c]
      BY <2>2 DEF Wants
    <3>3. \A u \in Task, d \in Client :
            d \in reached'[u] => d \in reached[u] \/ (u = t /\ d = c)
      <4>1. reached \in [Task -> SUBSET Client]
        BY DEF TypeOK
      <4>2. reached'[t] = reached[t] \cup {c}
        BY <3>1, <4>1
      <4>3. \A u \in Task : u # t => reached'[u] = reached[u]
        BY <3>1, <4>1
      <4> QED
        BY <4>2, <4>3
    <3> QED
      BY <2>1, <3>2, <3>3 DEF RoomInv, RoomConfinement
  <2>3. CASE ~Wants(c, frame[t])
    <3>1. UNCHANGED reached
      BY <1>38, <2>3 DEF Enumerate
    <3> QED
      BY <2>1, <3>1 DEF RoomInv, RoomConfinement
  <2> QED
    BY <2>2, <2>3
<1>39. ASSUME NEW t \in Task, NEW c \in Client, AcquireWriteLock(t, c) PROVE RoomInv'
  BY <1>39, ConstantsAssumption DEF AcquireWriteLock, TypeOK, RoomInv, RoomConfinement, Task, sessionVars,
     sendVars, restVars
<1>40. ASSUME NEW t \in Task, NEW c \in Client, WriteFrame(t, c) PROVE RoomInv'
  <2>1. UNCHANGED <<pc, rooms, roomId, frame, reached>>
    BY <1>40 DEF WriteFrame, sessionVars, sendVars
  <2>2. pc[t] = "sending" /\ c \in reached[t]
    BY <1>40 DEF WriteFrame, LockConserved
  <2>3. frame[t] \in Wire /\ out \in [Client -> Seq(Wire)]
        /\ out' = [out EXCEPT ![c] = Append(@, frame[t])]
    BY <1>40 DEF WriteFrame, TypeOK
  <2>4. frame[t].room # NoRoom =>
          /\ frame[t].room \in rooms[c]
          /\ frame[t].from \in Client => frame[t].room \in rooms[frame[t].from]
    BY <2>2 DEF RoomInv
  <2>5. RoomConfinement'
    BY <2>1, <2>3, <2>4, OutGrows DEF RoomInv, RoomConfinement
  <2> QED
    BY <2>1, <2>5 DEF RoomInv
<1>41. ASSUME NEW t \in Task, NEW c \in Client, WriteFrameThrows(t, c) PROVE RoomInv'
  BY <1>41, ConstantsAssumption DEF WriteFrameThrows, ReleaseWriteLock, TypeOK, RoomInv, RoomConfinement, Task, sessionVars,
     sendVars, restVars
<1>42. ASSUME NEW t \in Task, NEW c \in Client, SkipDead(t, c) PROVE RoomInv'
  BY <1>42, ConstantsAssumption DEF SkipDead, ReleaseWriteLock, TypeOK, RoomInv, RoomConfinement, Task, sessionVars,
     sendVars, restVars
<1>43. CASE UNCHANGED vars
  BY <1>43, ConstantsAssumption DEF vars, restVars, TypeOK, RoomInv, RoomConfinement, Task, sessionVars,
     sendVars, restVars
<1> QED
  BY <1>1, <1>2, <1>3, <1>4, <1>5, <1>6, <1>7, <1>8, <1>9, <1>10, <1>11, <1>12, <1>13,
     <1>14, <1>15, <1>16, <1>17, <1>18, <1>19, <1>20, <1>21, <1>22, <1>23, <1>24,
     <1>25, <1>26, <1>27, <1>28, <1>29, <1>30, <1>31, <1>32, <1>33, <1>34, <1>35,
     <1>36, <1>37, <1>38, <1>39, <1>40, <1>41, <1>42, <1>43, <1>44, <1>45
     DEF Next, Environment, AcceptLoop, Stopping, Reading, Handling, Removing, Sending,
         WriteFrameAsync

(* A frame for a room is only written to members of the room, and a        *)
(* handler only broadcasts to the room its own client has joined.          *)
THEOREM RoomSafe == Spec => []RoomConfinement
<1>1. Init => RoomInv
  BY ConstantsAssumption DEF Init, RoomInv, RoomConfinement, Task
<1>2. TypeOK /\ LockConserved /\ RoomInv /\ [Next]_vars => RoomInv'
  BY RoomStep
<1>3. RoomInv => RoomConfinement
  BY DEF RoomInv
<1> QED
  BY <1>1, <1>2, <1>3, WriteLockSafe, PTL DEF Spec

(* Steps that leave every broadcast where it is. *)
LEMMA AccountedFrame ==
  ASSUME BroadcastAccounted,
         \A t \in Task : pc'[t] = "sending" => pc[t] = "sending",
         \A d \in Client : \A i \in 1..Len(out[d]) :
           i \in 1..Len(out'[d]) /\ out'[d][i] = out[d][i],
         UNCHANGED <<alive, reached, waiting, writing, frame>>
  PROVE  BroadcastAccounted'
  BY DEF BroadcastAccounted

(* A broadcast that is through with a client has written to it or found it *)
(* dead.                                                                   *)
LEMMA AccountedStep ==
  ASSUME TypeOK, LockConserved, BroadcastAccounted, [Next]_vars
  PROVE  BroadcastAccounted'
<1>1. ASSUME Start PROVE BroadcastAccounted'
  BY <1>1, ConstantsAssumption DEF Start, TypeOK, BroadcastAccounted, LockConserved, Task,
     regVars, lockVars, sendVars, restVars
<1>2. ASSUME StopBegin PROVE BroadcastAccounted'
  BY <1>2, ConstantsAssumption DEF StopBegin, TypeOK, BroadcastAccounted, LockConserved, Task,
     regVars, lockVars, sendVars, restVars
<1>3. ASSUME NEW c \in Client, PeerConnects(c) PROVE BroadcastAccounted'
  BY <1>3, ConstantsAssumption DEF PeerConnects, Move, TypeOK, BroadcastAccounted, LockConserved, Task,
     regVars, lockVars, sendVars, restVars
<1>4. ASSUME NEW c \in Client, PeerLeaves(c) PROVE BroadcastAccounted'
  BY <1>4, ConstantsAssumption DEF PeerLeaves, TypeOK, BroadcastAccounted, LockConserved, Task,
     regVars, lockVars, sendVars, restVars
<1>5. ASSUME NEW c \in Client, PeerStalls(c) PROVE BroadcastAccounted'
  BY <1>5, ConstantsAssumption DEF PeerStalls, TypeOK, BroadcastAccounted, LockConserved, Task,
     regVars, lockVars, sendVars, restVars
<1>6. ASSUME NEW a \in App, AppSend(a) PROVE BroadcastAccounted'
  BY <1>6, ConstantsAssumption DEF AppSend, TypeOK, BroadcastAccounted, LockConserved, Task,
     regVars, lockVars, sendVars, restVars
<1>7. ASSUME CheckRunning PROVE BroadcastAccounted'
  BY <1>7, ConstantsAssumption DEF CheckRunning, TypeOK, BroadcastAccounted, LockConserved, Task,
     regVars, lockVars, sendVars, restVars
<1>8. ASSUME AcceptFails PROVE BroadcastAccounted'
  BY <1>8, ConstantsAssumption DEF AcceptFails, TypeOK, BroadcastAccounted, LockConserved, Task,
     regVars, lockVars, sendVars, restVars
<1>9. ASSUME NEW c \in Client, Accept(c) PROVE BroadcastAccounted'
  BY <1>9, ConstantsAssumption DEF Accept, TypeOK, BroadcastAccounted, LockConserved, Task,
     regVars, lockVars, sendVars, restVars
<1>10. ASSUME StopListener PROVE BroadcastAccounted'
  BY <1>10, ConstantsAssumption DEF StopListener, TypeOK, BroadcastAccounted, LockConserved, Task,
     regVars, lockVars, sendVars, restVars
<1>11. ASSUME StopSnapshot PROVE BroadcastAccounted'
  BY <1>11, ConstantsAssumption DEF StopSnapshot, TypeOK, BroadcastAccounted, LockConserved, Task,
     regVars, lockVars, sendVars, restVars
<1>44. ASSUME StopMark PROVE BroadcastAccounted'
  BY <1>44, ConstantsAssumption DEF StopMark, MarkDead, TypeOK, BroadcastAccounted,
     LockConserved, Task, regVars, lockVars, sendVars, restVars
<1>12. ASSUME StopClose PROVE BroadcastAccounted'
  BY <1>12, ConstantsAssumption DEF StopClose, Close, TypeOK, BroadcastAccounted, LockConserved, Task,
     regVars, lockVars, sendVars, restVars
<1>13. ASSUME StopCount PROVE BroadcastAccounted'
  BY <1>13, ConstantsAssumption DEF StopCount, Count, TypeOK, BroadcastAccounted, LockConserved, Task,
     regVars, lockVars, sendVars, restVars
<1>14. ASSUME StopReturns PROVE BroadcastAccounted'
  BY <1>14, ConstantsAssumption DEF StopReturns, TypeOK, BroadcastAccounted, LockConserved, Task,
     regVars, lockVars, sendVars, restVars
<1>15. ASSUME NEW c \in Client, StopTryRemove(c) PROVE BroadcastAccounted'
  BY <1>15, ConstantsAssumption DEF StopTryRemove, TypeOK, BroadcastAccounted, LockConserved, Task,
     regVars, lockVars, sendVars, restVars
<1>16. ASSUME NEW c \in Client, ReadUpgrade(c) PROVE BroadcastAccounted'
  <2>1. \A t \in Task : pc'[t] = "sending" => pc[t] = "sending"
    BY <1>16 DEF ReadUpgrade, TypeOK, Task
  <2>2. UNCHANGED <<alive, reached, waiting, writing, frame, out>>
    BY <1>16 DEF ReadUpgrade, regVars, lockVars, sendVars, restVars
  <2> QED
    BY <2>1, <2>2, AccountedFrame
<1>17. ASSUME NEW c \in Client, ReadHttp(c) PROVE BroadcastAccounted'
  <2>1. \A t \in Task : pc'[t] = "sending" => pc[t] = "sending"
    BY <1>17 DEF ReadHttp, Move, TypeOK, Task
  <2>2. UNCHANGED <<alive, reached, waiting, writing, frame, out>>
    BY <1>17 DEF ReadHttp, Move, regVars, lockVars, sendVars, restVars
  <2> QED
    BY <2>1, <2>2, AccountedFrame
<1>18. ASSUME NEW c \in Client, ReadJunk(c) PROVE BroadcastAccounted'
  BY <1>18, ConstantsAssumption DEF ReadJunk, Move, TypeOK, BroadcastAccounted, LockConserved, Task,
     regVars, lockVars, sendVars, restVars
<1>19. ASSUME NEW c \in Client, ReadMessage(c) PROVE BroadcastAccounted'
  BY <1>19, ConstantsAssumption DEF ReadMessage, TypeOK, BroadcastAccounted, LockConserved, Task,
     regVars, lockVars, sendVars, restVars
<1>20. ASSUME NEW c \in Client, ReadPing(c) PROVE BroadcastAccounted'
  <2>1. \A t \in Task : pc'[t] = "sending" => pc[t] = "sending"
    BY <1>20 DEF ReadPing, TypeOK, Task
  <2>2. UNCHANGED <<alive, reached, waiting, writing, frame, out>>
    BY <1>20 DEF ReadPing, regVars, lockVars, sendVars, restVars
  <2> QED
    BY <2>1, <2>2, AccountedFrame
<1>21. ASSUME NEW c \in Client, ReadIgnored(c) PROVE BroadcastAccounted'
  BY <1>21, ConstantsAssumption DEF ReadIgnored, TypeOK, BroadcastAccounted, LockConserved, Task,
     regVars, lockVars, sendVars, restVars
<1>22. ASSUME NEW c \in Client, ReadClose(c) PROVE BroadcastAccounted'
  BY <1>22, ConstantsAssumption DEF ReadClose, Move, TypeOK, BroadcastAccounted, LockConserved, Task,
     regVars, lockVars, sendVars, restVars
<1>23. ASSUME NEW c \in Client, ReadFails(c) PROVE BroadcastAccounted'
  BY <1>23, ConstantsAssumption DEF ReadFails, Move, TypeOK, BroadcastAccounted, LockConserved, Task,
     regVars, lockVars, sendVars, restVars
<1>24. ASSUME NEW c \in Client, Register(c) PROVE BroadcastAccounted'
  BY <1>24, ConstantsAssumption DEF Register, TypeOK, BroadcastAccounted, LockConserved, Task,
     regVars, lockVars, sendVars, restVars
<1>25. ASSUME NEW c \in Client, SecurityFails(c) PROVE BroadcastAccounted'
  BY <1>25, ConstantsAssumption DEF SecurityFails, Move, TypeOK, BroadcastAccounted, LockConserved, Task,
     regVars, lockVars, sendVars, restVars
<1>26. ASSUME NEW c \in Client, SendHandshakeResponse(c) PROVE BroadcastAccounted'
  <2>1. Answers(c)
    BY <1>26 DEF Answers
  <2>2. \A t \in Task : pc'[t] = "sending" => pc[t] = "sending"
    BY <2>1, AnswerStep DEF TypeOK, Task
  <2>3. UNCHANGED <<alive, reached, waiting, writing, frame>>
    BY <2>1, AnswerStep DEF regVars, lockVars, sendVars
  <2> QED
    BY <2>1, <2>2, <2>3, AnswerStep, AccountedFrame
<1>27. ASSUME NEW c \in Client, SendHttpStatusResponse(c) PROVE BroadcastAccounted'
  <2>1. Answers(c)
    BY <1>27 DEF Answers
  <2>2. \A t \in Task : pc'[t] = "sending" => pc[t] = "sending"
    BY <2>1, AnswerStep DEF TypeOK, Task
  <2>3. UNCHANGED <<alive, reached, waiting, writing, frame>>
    BY <2>1, AnswerStep DEF regVars, lockVars, sendVars
  <2> QED
    BY <2>1, <2>2, <2>3, AnswerStep, AccountedFrame
<1>28. ASSUME NEW c \in Client, SendPong(c) PROVE BroadcastAccounted'
  <2>1. Answers(c)
    BY <1>28 DEF Answers
  <2>2. \A t \in Task : pc'[t] = "sending" => pc[t] = "sending"
    BY <2>1, AnswerStep DEF TypeOK, Task
  <2>3. UNCHANGED <<alive, reached, waiting, writing, frame>>
    BY <2>1, AnswerStep DEF regVars, lockVars, sendVars
  <2> QED
    BY <2>1, <2>2, <2>3, AnswerStep, AccountedFrame
<1>29. ASSUME NEW c \in Client, Join(c) PROVE BroadcastAccounted'
  BY <1>29, ConstantsAssumption DEF Join, TypeOK, BroadcastAccounted, LockConserved, Task,
     regVars, lockVars, sendVars, restVars
<1>30. ASSUME NEW c \in Client, LoopTest(c) PROVE BroadcastAccounted'
  BY <1>30, ConstantsAssumption DEF LoopTest, Move, TypeOK, BroadcastAccounted, LockConserved, Task,
     regVars, lockVars, sendVars, restVars
<1>31. ASSUME NEW c \in Client, RaiseReceived(c) PROVE BroadcastAccounted'
  BY <1>31, ConstantsAssumption DEF RaiseReceived, TypeOK, BroadcastAccounted, LockConserved, Task,
     regVars, lockVars, sendVars, restVars
<1>32. ASSUME NEW c \in Client, ReceivedHandlerThrows(c) PROVE BroadcastAccounted'
  BY <1>32, ConstantsAssumption DEF ReceivedHandlerThrows, Move, TypeOK, BroadcastAccounted, LockConserved, Task,
     regVars, lockVars, sendVars, restVars
<1>33. ASSUME NEW c \in Client, DisposeStream(c) PROVE BroadcastAccounted'
  BY <1>33, ConstantsAssumption DEF DisposeStream, TypeOK, BroadcastAccounted, LockConserved, Task,
     regVars, lockVars, sendVars, restVars
<1>34. ASSUME NEW c \in Client, TryRemove(c) PROVE BroadcastAccounted'
  BY <1>34, ConstantsAssumption DEF TryRemove, TypeOK, BroadcastAccounted, LockConserved, Task,
     regVars, lockVars, sendVars, restVars
<1>45. ASSUME NEW c \in Client, MarkClient(c) PROVE BroadcastAccounted'
  BY <1>45, ConstantsAssumption DEF MarkClient, MarkDead, TypeOK, BroadcastAccounted,
     LockConserved, Task, regVars, lockVars, sendVars, restVars
<1>35. ASSUME NEW c \in Client, CloseClient(c) PROVE BroadcastAccounted'
  BY <1>35, ConstantsAssumption DEF CloseClient, Close, TypeOK, BroadcastAccounted, LockConserved, Task,
     regVars, lockVars, sendVars, restVars
<1>36. ASSUME NEW c \in Client, CountClient(c) PROVE BroadcastAccounted'
  BY <1>36, ConstantsAssumption DEF CountClient, Count, TypeOK, BroadcastAccounted, LockConserved, Task,
     regVars, lockVars, sendVars, restVars
<1>37. ASSUME NEW t \in Task, SendReturns(t) PROVE BroadcastAccounted'
  BY <1>37, ConstantsAssumption DEF SendReturns, Move, Pending, TypeOK, BroadcastAccounted, LockConserved, Task,
     regVars, lockVars, sendVars, restVars
<1>38. ASSUME NEW t \in Task, NEW c \in Client, Enumerate(t, c) PROVE BroadcastAccounted'
  <2>1. UNCHANGED <<pc, alive, writing, frame, out>>
    BY <1>38 DEF Enumerate, regVars
  <2>2. CASE Wants(c, frame[t])
    <3>1. reached' = [reached EXCEPT ![t] = @ \cup {c}]
          /\ waiting' = [waiting EXCEPT ![c] = @ \cup {t}]
      BY <1>38, <2>2 DEF Enumerate
    <3>2. \A u \in Task, d \in Client :
            /\ d \in reached'[u] => d \in reached[u] \/ (u = t /\ d = c)
            /\ u \in waiting[d] => u \in waiting'[d]
      BY <3>1 DEF TypeOK
    <3>3. t \in waiting'[c]
      BY <3>1 DEF TypeOK
    <3> QED
      BY <2>1, <3>2, <3>3 DEF BroadcastAccounted
  <2>3. CASE ~Wants(c, frame[t])
    <3>1. UNCHANGED <<reached, waiting>>
      BY <1>38, <2>3 DEF Enumerate
    <3> QED
      BY <2>1, <3>1 DEF BroadcastAccounted
  <2> QED
    BY <2>2, <2>3
<1>39. ASSUME NEW t \in Task, NEW c \in Client, AcquireWriteLock(t, c) PROVE BroadcastAccounted'
  BY <1>39, ConstantsAssumption DEF AcquireWriteLock, TypeOK, BroadcastAccounted, LockConserved, Task,
     regVars, lockVars, sendVars, restVars
<1>40. ASSUME NEW t \in Task, NEW c \in Client, WriteFrame(t, c) PROVE BroadcastAccounted'
  <2>1. UNCHANGED <<pc, alive, frame, reached, waiting>>
    BY <1>40 DEF WriteFrame, regVars, sendVars
  <2>2. frame[t] \in Wire /\ out \in [Client -> Seq(Wire)]
        /\ out' = [out EXCEPT ![c] = Append(@, frame[t])]
    BY <1>40 DEF WriteFrame, TypeOK
  <2>3. \A u \in Task, d \in Client :
          u \in writing[d] => u \in writing'[d] \/ (u = t /\ d = c)
    BY <1>40 DEF WriteFrame, ReleaseWriteLock, TypeOK
  <2>4. \E i \in 1..Len(out'[c]) : out'[c][i] = frame[t]
    BY <2>2, OutGrows
  <2>5. \A d \in Client : \A i \in 1..Len(out[d]) :
          i \in 1..Len(out'[d]) /\ out'[d][i] = out[d][i]
    BY <2>2, OutGrows
  <2> QED
    BY <2>1, <2>3, <2>4, <2>5 DEF BroadcastAccounted
<1>41. ASSUME NEW t \in Task, NEW c \in Client, WriteFrameThrows(t, c) PROVE BroadcastAccounted'
  BY <1>41, ConstantsAssumption DEF WriteFrameThrows, ReleaseWriteLock, TypeOK, BroadcastAccounted, LockConserved, Task,
     regVars, lockVars, sendVars, restVars
<1>42. ASSUME NEW t \in Task, NEW c \in Client, SkipDead(t, c) PROVE BroadcastAccounted'
  BY <1>42, ConstantsAssumption DEF SkipDead, ReleaseWriteLock, TypeOK, BroadcastAccounted, LockConserved, Task,
     regVars, lockVars, sendVars, restVars
<1>43. CASE UNCHANGED vars
  BY <1>43, ConstantsAssumption DEF vars, restVars, TypeOK, BroadcastAccounted, LockConserved, Task,
     regVars, lockVars, sendVars, restVars
<1> QED
  BY <1>1, <1>2, <1>3, <1>4, <1>5, <1>6, <1>7, <1>8, <1>9, <1>10, <1>11, <1>12, <1>13,
     <1>14, <1>15, <1>16, <1>17, <1>18, <1>19, <1>20, <1>21, <1>22, <1>23, <1>24,
     <1>25, <1>26, <1>27, <1>28, <1>29, <1>30, <1>31, <1>32, <1>33, <1>34, <1>35,
     <1>36, <1>37, <1>38, <1>39, <1>40, <1>41, <1>42, <1>43, <1>44, <1>45
     DEF Next, Environment, AcceptLoop, Stopping, Reading, Handling, Removing, Sending,
         WriteFrameAsync

(* No failed write is swallowed: when a broadcast is through with a client *)
(* it selected, the client has the frame or is marked dead.                *)
THEOREM BroadcastSafe == Spec => []BroadcastAccounted
<1>1. Init => BroadcastAccounted
  BY DEF Init, BroadcastAccounted, Task
<1>2. TypeOK /\ LockConserved /\ BroadcastAccounted /\ [Next]_vars => BroadcastAccounted'
  BY AccountedStep
<1> QED
  BY <1>1, <1>2, WriteLockSafe, PTL DEF Spec

(* A broadcast of t still owes client c its frame, or has not begun yet.   *)
Owes(t, c) ==
  \/ pc[t] = "event"
  \/ pc[t] = "sending" /\ (c \notin reached[t] \/ t \in waiting[c] \cup writing[c])

(* Element i of what client c has been sent is a broadcast frame of t.     *)
HasFrom(c, t, i) == out[c][i].kind \in Kind /\ out[c][i].from = t

(* Why the frames of a sender arrive in order: each is numbered after all  *)
(* that its sender sent before, and is owed to a client at most once.      *)
OrderInv ==
  /\ \A t \in Task :
       pc[t] \in {"event", "sending"} => frame[t].from = t /\ frame[t].n <= sent[t]
  /\ \A t \in Task : pc[t] = "sending" => todo[t] \cap reached[t] = {}
  /\ \A c \in Client : waiting[c] \cap writing[c] = {}
  /\ \A t \in Task, c \in Client : \A i \in 1..Len(out[c]) :
       HasFrom(c, t, i) =>
         /\ out[c][i].n <= sent[t]
         /\ Owes(t, c) => out[c][i].n < frame[t].n
  /\ SenderOrder

(* Steps that begin no broadcast, write no broadcast frame and leave every *)
(* lock alone keep the order.                                              *)
LEMMA OrderFrame ==
  ASSUME TypeOK, OrderInv, sent' \in [Task -> Nat],
         \A t \in Task : pc'[t] \in {"event", "sending"} => pc'[t] = pc[t],
         \A t \in Task : sent[t] <= sent'[t],
         \A d \in Client : \A i \in 1..Len(out'[d]) :
           \/ i \in 1..Len(out[d]) /\ out'[d][i] = out[d][i]
           \/ out'[d][i].kind \notin Kind,
         UNCHANGED <<frame, reached, todo, waiting, writing>>
  PROVE  OrderInv'
<1>1. \A t \in Task : sent[t] \in Nat /\ sent'[t] \in Nat /\ frame[t].n \in Nat
  BY DEF TypeOK, Wire
<1>2. \A d \in Client : \A i \in 1..Len(out[d]) : out[d][i].n \in Nat
  <2>1. out \in [Client -> Seq(Wire)]
    BY DEF TypeOK
  <2>2. \A w \in Wire : w.n \in Nat
    BY DEF Wire
  <2> QED
    BY <2>1, <2>2
<1>3. ASSUME NEW t \in Task, pc'[t] \in {"event", "sending"}
      PROVE  frame'[t].from = t /\ frame'[t].n <= sent'[t]
  BY <1>1, <1>3 DEF OrderInv
<1>4. \A t \in Task : pc'[t] = "sending" => todo'[t] \cap reached'[t] = {}
  BY DEF OrderInv
<1>5. \A c \in Client : waiting'[c] \cap writing'[c] = {}
  BY DEF OrderInv
<1>6. ASSUME NEW t \in Task, NEW c \in Client, NEW i \in 1..Len(out'[c]),
             HasFrom(c, t, i)'
      PROVE  out'[c][i].n <= sent'[t] /\ (Owes(t, c)' => out'[c][i].n < frame'[t].n)
  <2>1. i \in 1..Len(out[c]) /\ out'[c][i] = out[c][i]
    BY <1>6 DEF HasFrom
  <2>2. HasFrom(c, t, i)
    BY <1>6, <2>1 DEF HasFrom
  <2>3. out[c][i].n <= sent[t] /\ (Owes(t, c) => out[c][i].n < frame[t].n)
    BY <2>1, <2>2 DEF OrderInv
  <2>4. Owes(t, c)' => Owes(t, c)
    BY DEF Owes
  <2> QED
    BY <1>1, <1>2, <2>1, <2>3, <2>4
<1>7. SenderOrder'
  <2> SUFFICES ASSUME NEW c \in Client, NEW i \in 1..Len(out'[c]), NEW j \in 1..Len(out'[c]),
                      i < j, out'[c][i].kind \in Kind, out'[c][j].kind \in Kind,
                      out'[c][i].from = out'[c][j].from
               PROVE  out'[c][i].n < out'[c][j].n
    BY DEF SenderOrder
  <2>1. i \in 1..Len(out[c]) /\ out'[c][i] = out[c][i]
        /\ j \in 1..Len(out[c]) /\ out'[c][j] = out[c][j]
    OBVIOUS
  <2> QED
    BY <2>1 DEF OrderInv, SenderOrder
<1> QED
  BY <1>3, <1>4, <1>5, <1>6, <1>7 DEF OrderInv

(* Steps that give one task a new frame, numbered after all it has sent.   *)
LEMMA OrderNewFrame ==
  ASSUME TypeOK, OrderInv, NEW t \in Task, NEW w \in Wire,
         w.from = t, w.n = sent[t] + 1,
         frame' = [frame EXCEPT ![t] = w],
         sent' = [sent EXCEPT ![t] = @ + 1],
         \A u \in Task \ {t} : pc'[u] = pc[u] /\ todo'[u] = todo[u] /\ reached'[u] = reached[u],
         pc'[t] = "sending" => reached'[t] = {},
         UNCHANGED <<waiting, writing, out>>
  PROVE  OrderInv'
<1>1. \A u \in Task : sent[u] \in Nat /\ frame[u].n \in Nat
  BY DEF TypeOK, Wire
<1>2. \A d \in Client : \A i \in 1..Len(out[d]) : out[d][i].n \in Nat
  <2>1. out \in [Client -> Seq(Wire)]
    BY DEF TypeOK
  <2>2. \A x \in Wire : x.n \in Nat
    BY DEF Wire
  <2> QED
    BY <2>1, <2>2
<1>3. /\ frame'[t] = w /\ sent'[t] = sent[t] + 1
      /\ \A u \in Task \ {t} : frame'[u] = frame[u] /\ sent'[u] = sent[u]
  BY DEF TypeOK
<1>4. ASSUME NEW u \in Task, pc'[u] \in {"event", "sending"}
      PROVE  frame'[u].from = u /\ frame'[u].n <= sent'[u]
  <2>1. CASE u = t
    BY <1>1, <1>3, <2>1
  <2>2. CASE u # t
    BY <1>3, <1>4, <2>2 DEF OrderInv
  <2> QED
    BY <2>1, <2>2
<1>5. \A u \in Task : pc'[u] = "sending" => todo'[u] \cap reached'[u] = {}
  BY DEF OrderInv
<1>6. ASSUME NEW u \in Task, NEW c \in Client, NEW i \in 1..Len(out'[c]),
             HasFrom(c, u, i)'
      PROVE  out'[c][i].n <= sent'[u] /\ (Owes(u, c)' => out'[c][i].n < frame'[u].n)
  <2>1. HasFrom(c, u, i) /\ i \in 1..Len(out[c])
    BY <1>6 DEF HasFrom
  <2>2. out[c][i].n <= sent[u] /\ (Owes(u, c) => out[c][i].n < frame[u].n)
    BY <2>1 DEF OrderInv
  <2>3. CASE u = t
    BY <1>1, <1>2, <1>3, <2>1, <2>2, <2>3
  <2>4. CASE u # t
    <3>1. Owes(u, c)' => Owes(u, c)
      BY <2>4 DEF Owes
    <3> QED
      BY <1>3, <2>2, <2>4, <3>1
  <2> QED
    BY <2>3, <2>4
<1> QED
  BY <1>4, <1>5, <1>6 DEF OrderInv, SenderOrder

(* Steps of a broadcast that write nothing and owe nothing new.            *)
LEMMA OrderQuiet ==
  ASSUME TypeOK, OrderInv, UNCHANGED <<pc, frame, sent, out>>,
         \A t \in Task : pc[t] = "sending" => todo'[t] \cap reached'[t] = {},
         \A c \in Client : waiting'[c] \cap writing'[c] = {},
         \A t \in Task, c \in Client : Owes(t, c)' => Owes(t, c)
  PROVE  OrderInv'
<1>1. ASSUME NEW t \in Task, NEW c \in Client, NEW i \in 1..Len(out'[c]),
             HasFrom(c, t, i)'
      PROVE  out'[c][i].n <= sent'[t] /\ (Owes(t, c)' => out'[c][i].n < frame'[t].n)
  <2>1. HasFrom(c, t, i) /\ i \in 1..Len(out[c])
    BY <1>1 DEF HasFrom
  <2> QED
    BY <2>1 DEF OrderInv
<1> QED
  BY <1>1 DEF OrderInv, SenderOrder

(* Every step keeps the frames of a sender in order. *)
LEMMA OrderStep ==
  ASSUME TypeOK, TypeOK', LockConserved, OrderInv, [Next]_vars PROVE OrderInv'
<1>1. ASSUME Start PROVE OrderInv'
  <2>1. UNCHANGED <<frame, reached, todo, waiting, writing, out, sent>>
    BY <1>1 DEF Start, lockVars, sendVars, restVars
  <2>2. \A t \in Task : pc'[t] \in {"event", "sending"} => pc'[t] = pc[t]
    BY <1>1 DEF Start, TypeOK, Task, restVars
  <2>3. \A t \in Task : sent[t] <= sent'[t]
    BY <2>1 DEF TypeOK
  <2> QED
    BY <2>1, <2>2, <2>3, OrderFrame DEF TypeOK
<1>2. ASSUME StopBegin PROVE OrderInv'
  <2>1. UNCHANGED <<frame, reached, todo, waiting, writing, out, sent>>
    BY <1>2 DEF StopBegin, lockVars, sendVars, restVars
  <2>2. \A t \in Task : pc'[t] \in {"event", "sending"} => pc'[t] = pc[t]
    BY <1>2 DEF StopBegin, TypeOK, Task, restVars
  <2>3. \A t \in Task : sent[t] <= sent'[t]
    BY <2>1 DEF TypeOK
  <2> QED
    BY <2>1, <2>2, <2>3, OrderFrame DEF TypeOK
<1>3. ASSUME NEW c \in Client, PeerConnects(c) PROVE OrderInv'
  <2>1. UNCHANGED <<frame, reached, todo, waiting, writing, out, sent>>
    BY <1>3 DEF PeerConnects, Move, lockVars, sendVars, restVars
  <2>2. \A t \in Task : pc'[t] \in {"event", "sending"} => pc'[t] = pc[t]
    BY <1>3 DEF PeerConnects, Move, TypeOK, Task, restVars
  <2>3. \A t \in Task : sent[t] <= sent'[t]
    BY <2>1 DEF TypeOK
  <2> QED
    BY <2>1, <2>2, <2>3, OrderFrame DEF TypeOK
<1>4. ASSUME NEW c \in Client, PeerLeaves(c) PROVE OrderInv'
  <2>1. UNCHANGED <<frame, reached, todo, waiting, writing, out, sent>>
    BY <1>4 DEF PeerLeaves, lockVars, sendVars, restVars
  <2>2. \A t \in Task : pc'[t] \in {"event", "sending"} => pc'[t] = pc[t]
    BY <1>4 DEF PeerLeaves, TypeOK, Task, restVars
  <2>3. \A t \in Task : sent[t] <= sent'[t]
    BY <2>1 DEF TypeOK
  <2> QED
    BY <2>1, <2>2, <2>3, OrderFrame DEF TypeOK
<1>5. ASSUME NEW c \in Client, PeerStalls(c) PROVE OrderInv'
  <2>1. UNCHANGED <<frame, reached, todo, waiting, writing, out, sent>>
    BY <1>5 DEF PeerStalls, lockVars, sendVars, restVars
  <2>2. \A t \in Task : pc'[t] \in {"event", "sending"} => pc'[t] = pc[t]
    BY <1>5 DEF PeerStalls, TypeOK, Task, restVars
  <2>3. \A t \in Task : sent[t] <= sent'[t]
    BY <2>1 DEF TypeOK
  <2> QED
    BY <2>1, <2>2, <2>3, OrderFrame DEF TypeOK
<1>6. ASSUME NEW a \in App, AppSend(a) PROVE OrderInv'
  <2>1. PICK k \in Kind, r \in RoomOrNone : frame' = [frame EXCEPT ![a] =
             [kind |-> k, from |-> a, room |-> r, n |-> sent[a] + 1]]
    BY <1>6 DEF AppSend
  <2>2. a \in Task /\ sent[a] \in Nat
    BY DEF TypeOK, Task
  <2>3. [kind |-> k, from |-> a, room |-> r, n |-> sent[a] + 1] \in Wire
    BY <2>2, WireMembers
  <2>4. /\ sent' = [sent EXCEPT ![a] = @ + 1] /\ reached'[a] = {}
        /\ \A u \in Task \ {a} :
             pc'[u] = pc[u] /\ todo'[u] = todo[u] /\ reached'[u] = reached[u]
        /\ UNCHANGED <<waiting, writing, out>>
    BY <1>6, <2>2 DEF AppSend, lockVars, TypeOK
  <2> QED
    BY <2>1, <2>2, <2>3, <2>4, OrderNewFrame
<1>7. ASSUME CheckRunning PROVE OrderInv'
  <2>1. UNCHANGED <<frame, reached, todo, waiting, writing, out, sent>>
    BY <1>7 DEF CheckRunning, lockVars, sendVars, restVars
  <2>2. \A t \in Task : pc'[t] \in {"event", "sending"} => pc'[t] = pc[t]
    BY <1>7 DEF CheckRunning, TypeOK, Task, restVars
  <2>3. \A t \in Task : sent[t] <= sent'[t]
    BY <2>1 DEF TypeOK
  <2> QED
    BY <2>1, <2>2, <2>3, OrderFrame DEF TypeOK
<1>8. ASSUME AcceptFails PROVE OrderInv'
  <2>1. UNCHANGED <<frame, reached, todo, waiting, writing, out, sent>>
    BY <1>8 DEF AcceptFails, lockVars, sendVars, restVars
  <2>2. \A t \in Task : pc'[t] \in {"event", "sending"} => pc'[t] = pc[t]
    BY <1>8 DEF AcceptFails, TypeOK, Task, restVars
  <2>3. \A t \in Task : sent[t] <= sent'[t]
    BY <2>1 DEF TypeOK
  <2> QED
    BY <2>1, <2>2, <2>3, OrderFrame DEF TypeOK
<1>9. ASSUME NEW c \in Client, Accept(c) PROVE OrderInv'
  <2>1. UNCHANGED <<frame, reached, todo, waiting, writing, out, sent>>
    BY <1>9 DEF Accept, lockVars, sendVars, restVars
  <2>2. \A t \in Task : pc'[t] \in {"event", "sending"} => pc'[t] = pc[t]
    BY <1>9 DEF Accept, TypeOK, Task, restVars
  <2>3. \A t \in Task : sent[t] <= sent'[t]
    BY <2>1 DEF TypeOK
  <2> QED
    BY <2>1, <2>2, <2>3, OrderFrame DEF TypeOK
<1>10. ASSUME StopListener PROVE OrderInv'
  <2>1. UNCHANGED <<frame, reached, todo, waiting, writing, out, sent>>
    BY <1>10 DEF StopListener, lockVars, sendVars, restVars
  <2>2. \A t \in Task : pc'[t] \in {"event", "sending"} => pc'[t] = pc[t]
    BY <1>10 DEF StopListener, TypeOK, Task, restVars
  <2>3. \A t \in Task : sent[t] <= sent'[t]
    BY <2>1 DEF TypeOK
  <2> QED
    BY <2>1, <2>2, <2>3, OrderFrame DEF TypeOK
<1>11. ASSUME StopSnapshot PROVE OrderInv'
  <2>1. UNCHANGED <<frame, reached, todo, waiting, writing, out, sent>>
    BY <1>11 DEF StopSnapshot, lockVars, sendVars, restVars
  <2>2. \A t \in Task : pc'[t] \in {"event", "sending"} => pc'[t] = pc[t]
    BY <1>11 DEF StopSnapshot, TypeOK, Task, restVars
  <2>3. \A t \in Task : sent[t] <= sent'[t]
    BY <2>1 DEF TypeOK
  <2> QED
    BY <2>1, <2>2, <2>3, OrderFrame DEF TypeOK
<1>44. ASSUME StopMark PROVE OrderInv'
  <2>1. UNCHANGED <<frame, reached, todo, waiting, writing, out, sent>>
    BY <1>44 DEF StopMark, MarkDead, lockVars, sendVars, restVars
  <2>2. \A t \in Task : pc'[t] \in {"event", "sending"} => pc'[t] = pc[t]
    BY <1>44 DEF StopMark, MarkDead, TypeOK, Task, restVars
  <2>3. \A t \in Task : sent[t] <= sent'[t]
    BY <2>1 DEF TypeOK
  <2> QED
    BY <2>1, <2>2, <2>3, OrderFrame DEF TypeOK
<1>12. ASSUME StopClose PROVE OrderInv'
  <2>1. UNCHANGED <<frame, reached, todo, waiting, writing, out, sent>>
    BY <1>12 DEF StopClose, Close, lockVars, sendVars, restVars
  <2>2. \A t \in Task : pc'[t] \in {"event", "sending"} => pc'[t] = pc[t]
    BY <1>12 DEF StopClose, Close, TypeOK, Task, restVars
  <2>3. \A t \in Task : sent[t] <= sent'[t]
    BY <2>1 DEF TypeOK
  <2> QED
    BY <2>1, <2>2, <2>3, OrderFrame DEF TypeOK
<1>13. ASSUME StopCount PROVE OrderInv'
  <2>1. UNCHANGED <<frame, reached, todo, waiting, writing, out, sent>>
    BY <1>13 DEF StopCount, Count, lockVars, sendVars, restVars
  <2>2. \A t \in Task : pc'[t] \in {"event", "sending"} => pc'[t] = pc[t]
    BY <1>13 DEF StopCount, Count, TypeOK, Task, restVars
  <2>3. \A t \in Task : sent[t] <= sent'[t]
    BY <2>1 DEF TypeOK
  <2> QED
    BY <2>1, <2>2, <2>3, OrderFrame DEF TypeOK
<1>14. ASSUME StopReturns PROVE OrderInv'
  <2>1. UNCHANGED <<frame, reached, todo, waiting, writing, out, sent>>
    BY <1>14 DEF StopReturns, lockVars, sendVars, restVars
  <2>2. \A t \in Task : pc'[t] \in {"event", "sending"} => pc'[t] = pc[t]
    BY <1>14 DEF StopReturns, TypeOK, Task, restVars
  <2>3. \A t \in Task : sent[t] <= sent'[t]
    BY <2>1 DEF TypeOK
  <2> QED
    BY <2>1, <2>2, <2>3, OrderFrame DEF TypeOK
<1>15. ASSUME NEW c \in Client, StopTryRemove(c) PROVE OrderInv'
  <2>1. UNCHANGED <<frame, reached, todo, waiting, writing, out, sent>>
    BY <1>15 DEF StopTryRemove, lockVars, sendVars, restVars
  <2>2. \A t \in Task : pc'[t] \in {"event", "sending"} => pc'[t] = pc[t]
    BY <1>15 DEF StopTryRemove, TypeOK, Task, restVars
  <2>3. \A t \in Task : sent[t] <= sent'[t]
    BY <2>1 DEF TypeOK
  <2> QED
    BY <2>1, <2>2, <2>3, OrderFrame DEF TypeOK
<1>16. ASSUME NEW c \in Client, ReadUpgrade(c) PROVE OrderInv'
  <2>1. UNCHANGED <<frame, reached, todo, waiting, writing, out, sent>>
    BY <1>16 DEF ReadUpgrade, lockVars, sendVars, restVars
  <2>2. \A t \in Task : pc'[t] \in {"event", "sending"} => pc'[t] = pc[t]
    BY <1>16 DEF ReadUpgrade, TypeOK, Task, restVars
  <2>3. \A t \in Task : sent[t] <= sent'[t]
    BY <2>1 DEF TypeOK
  <2> QED
    BY <2>1, <2>2, <2>3, OrderFrame DEF TypeOK
<1>17. ASSUME NEW c \in Client, ReadHttp(c) PROVE OrderInv'
  <2>1. UNCHANGED <<frame, reached, todo, waiting, writing, out, sent>>
    BY <1>17 DEF ReadHttp, Move, lockVars, sendVars, restVars
  <2>2. \A t \in Task : pc'[t] \in {"event", "sending"} => pc'[t] = pc[t]
    BY <1>17 DEF ReadHttp, Move, TypeOK, Task, restVars
  <2>3. \A t \in Task : sent[t] <= sent'[t]
    BY <2>1 DEF TypeOK
  <2> QED
    BY <2>1, <2>2, <2>3, OrderFrame DEF TypeOK
<1>18. ASSUME NEW c \in Client, ReadJunk(c) PROVE OrderInv'
  <2>1. UNCHANGED <<frame, reached, todo, waiting, writing, out, sent>>
    BY <1>18 DEF ReadJunk, Move, lockVars, sendVars, restVars
  <2>2. \A t \in Task : pc'[t] \in {"event", "sending"} => pc'[t] = pc[t]
    BY <1>18 DEF ReadJunk, Move, TypeOK, Task, restVars
  <2>3. \A t \in Task : sent[t] <= sent'[t]
    BY <2>1 DEF TypeOK
  <2> QED
    BY <2>1, <2>2, <2>3, OrderFrame DEF TypeOK
<1>19. ASSUME NEW c \in Client, ReadMessage(c) PROVE OrderInv'
  <2>1. PICK k \in Kind : frame' = [frame EXCEPT ![c] = [kind |-> k, from |-> c,
                                     room |-> roomId[c], n |-> sent[c] + 1]]
    BY <1>19 DEF ReadMessage
  <2>2. c \in Task /\ sent[c] \in Nat /\ roomId[c] \in RoomOrNone
    BY DEF TypeOK, Task
  <2>3. [kind |-> k, from |-> c, room |-> roomId[c], n |-> sent[c] + 1] \in Wire
    BY <2>2, WireMembers
  <2>4. /\ sent' = [sent EXCEPT ![c] = @ + 1] /\ pc'[c] = "event"
        /\ \A u \in Task \ {c} : pc'[u] = pc[u]
        /\ UNCHANGED <<todo, reached, waiting, writing, out>>
    BY <1>19, <2>2 DEF ReadMessage, lockVars, TypeOK
  <2> QED
    BY <2>1, <2>2, <2>3, <2>4, OrderNewFrame
<1>20. ASSUME NEW c \in Client, ReadPing(c) PROVE OrderInv'
  <2>1. UNCHANGED <<frame, reached, todo, waiting, writing, out>>
    BY <1>20 DEF ReadPing, lockVars
  <2>2. \A t \in Task : pc'[t] \in {"event", "sending"} => pc'[t] = pc[t]
    BY <1>20 DEF ReadPing, TypeOK, Task
  <2>3. \A t \in Task : sent[t] <= sent'[t]
    BY <1>20 DEF ReadPing, TypeOK
  <2> QED
    BY <2>1, <2>2, <2>3, OrderFrame DEF TypeOK
<1>21. ASSUME NEW c \in Client, ReadIgnored(c) PROVE OrderInv'
  <2>1. UNCHANGED <<frame, reached, todo, waiting, writing, out>>
    BY <1>21 DEF ReadIgnored, lockVars
  <2>2. \A t \in Task : pc'[t] \in {"event", "sending"} => pc'[t] = pc[t]
    BY <1>21 DEF ReadIgnored, TypeOK, Task
  <2>3. \A t \in Task : sent[t] <= sent'[t]
    BY <1>21 DEF ReadIgnored, TypeOK
  <2> QED
    BY <2>1, <2>2, <2>3, OrderFrame DEF TypeOK
<1>22. ASSUME NEW c \in Client, ReadClose(c) PROVE OrderInv'
  <2>1. UNCHANGED <<frame, reached, todo, waiting, writing, out, sent>>
    BY <1>22 DEF ReadClose, Move, lockVars, sendVars, restVars
  <2>2. \A t \in Task : pc'[t] \in {"event", "sending"} => pc'[t] = pc[t]
    BY <1>22 DEF ReadClose, Move, TypeOK, Task, restVars
  <2>3. \A t \in Task : sent[t] <= sent'[t]
    BY <2>1 DEF TypeOK
  <2> QED
    BY <2>1, <2>2, <2>3, OrderFrame DEF TypeOK
<1>23. ASSUME NEW c \in Client, ReadFails(c) PROVE OrderInv'
  <2>1. UNCHANGED <<frame, reached, todo, waiting, writing, out, sent>>
    BY <1>23 DEF ReadFails, Move, lockVars, sendVars, restVars
  <2>2. \A t \in Task : pc'[t] \in {"event", "sending"} => pc'[t] = pc[t]
    BY <1>23 DEF ReadFails, Move, TypeOK, Task, restVars
  <2>3. \A t \in Task : sent[t] <= sent'[t]
    BY <2>1 DEF TypeOK
  <2> QED
    BY <2>1, <2>2, <2>3, OrderFrame DEF TypeOK
<1>24. ASSUME NEW c \in Client, Register(c) PROVE OrderInv'
  <2>1. UNCHANGED <<frame, reached, todo, waiting, writing, out, sent>>
    BY <1>24 DEF Register, lockVars, sendVars, restVars
  <2>2. \A t \in Task : pc'[t] \in {"event", "sending"} => pc'[t] = pc[t]
    BY <1>24 DEF Register, TypeOK, Task, restVars
  <2>3. \A t \in Task : sent[t] <= sent'[t]
    BY <2>1 DEF TypeOK
  <2> QED
    BY <2>1, <2>2, <2>3, OrderFrame DEF TypeOK
<1>25. ASSUME NEW c \in Client, SecurityFails(c) PROVE OrderInv'
  <2>1. UNCHANGED <<frame, reached, todo, waiting, writing, out, sent>>
    BY <1>25 DEF SecurityFails, Move, lockVars, sendVars, restVars
  <2>2. \A t \in Task : pc'[t] \in {"event", "sending"} => pc'[t] = pc[t]
    BY <1>25 DEF SecurityFails, Move, TypeOK, Task, restVars
  <2>3. \A t \in Task : sent[t] <= sent'[t]
    BY <2>1 DEF TypeOK
  <2> QED
    BY <2>1, <2>2, <2>3, OrderFrame DEF TypeOK
<1>26. ASSUME NEW c \in Client, SendHandshakeResponse(c) PROVE OrderInv'
  <2>1. Answers(c)
    BY <1>26 DEF Answers
  <2>2. \A t \in Task : pc'[t] \in {"event", "sending"} => pc'[t] = pc[t]
    BY <2>1, AnswerStep DEF TypeOK, Task
  <2>3. UNCHANGED <<frame, reached, todo, waiting, writing, sent>>
    BY <2>1, AnswerStep DEF lockVars, sendVars
  <2>4. \A t \in Task : sent[t] <= sent'[t]
    BY <2>3 DEF TypeOK
  <2> QED
    BY <2>1, <2>2, <2>3, <2>4, AnswerStep, OrderFrame DEF TypeOK
<1>27. ASSUME NEW c \in Client, SendHttpStatusResponse(c) PROVE OrderInv'
  <2>1. Answers(c)
    BY <1>27 DEF Answers
  <2>2. \A t \in Task : pc'[t] \in {"event", "sending"} => pc'[t] = pc[t]
    BY <2>1, AnswerStep DEF TypeOK, Task
  <2>3. UNCHANGED <<frame, reached, todo, waiting, writing, sent>>
    BY <2>1, AnswerStep DEF lockVars, sendVars
  <2>4. \A t \in Task : sent[t] <= sent'[t]
    BY <2>3 DEF TypeOK
  <2> QED
    BY <2>1, <2>2, <2>3, <2>4, AnswerStep, OrderFrame DEF TypeOK
<1>28. ASSUME NEW c \in Client, SendPong(c) PROVE OrderInv'
  <2>1. Answers(c)
    BY <1>28 DEF Answers
  <2>2. \A t \in Task : pc'[t] \in {"event", "sending"} => pc'[t] = pc[t]
    BY <2>1, AnswerStep DEF TypeOK, Task
  <2>3. UNCHANGED <<frame, reached, todo, waiting, writing, sent>>
    BY <2>1, AnswerStep DEF lockVars, sendVars
  <2>4. \A t \in Task : sent[t] <= sent'[t]
    BY <2>3 DEF TypeOK
  <2> QED
    BY <2>1, <2>2, <2>3, <2>4, AnswerStep, OrderFrame DEF TypeOK
<1>29. ASSUME NEW c \in Client, Join(c) PROVE OrderInv'
  <2>1. UNCHANGED <<frame, reached, todo, waiting, writing, out, sent>>
    BY <1>29 DEF Join, lockVars, sendVars, restVars
  <2>2. \A t \in Task : pc'[t] \in {"event", "sending"} => pc'[t] = pc[t]
    BY <1>29 DEF Join, TypeOK, Task, restVars
  <2>3. \A t \in Task : sent[t] <= sent'[t]
    BY <2>1 DEF TypeOK
  <2> QED
    BY <2>1, <2>2, <2>3, OrderFrame DEF TypeOK
<1>30. ASSUME NEW c \in Client, LoopTest(c) PROVE OrderInv'
  <2>1. UNCHANGED <<frame, reached, todo, waiting, writing, out, sent>>
    BY <1>30 DEF LoopTest, Move, lockVars, sendVars, restVars
  <2>2. \A t \in Task : pc'[t] \in {"event", "sending"} => pc'[t] = pc[t]
    BY <1>30 DEF LoopTest, Move, TypeOK, Task, restVars
  <2>3. \A t \in Task : sent[t] <= sent'[t]
    BY <2>1 DEF TypeOK
  <2> QED
    BY <2>1, <2>2, <2>3, OrderFrame DEF TypeOK
<1>31. ASSUME NEW c \in Client, RaiseReceived(c) PROVE OrderInv'
  <2>1. /\ c \in Task /\ pc[c] = "event" /\ pc'[c] = "sending" /\ reached'[c] = {}
        /\ \A u \in Task \ {c} :
             pc'[u] = pc[u] /\ todo'[u] = todo[u] /\ reached'[u] = reached[u]
        /\ UNCHANGED <<waiting, writing, out, frame, sent>>
    BY <1>31 DEF RaiseReceived, lockVars, TypeOK, Task
  <2>2. \A u \in Task : pc'[u] \in {"event", "sending"} => pc[u] \in {"event", "sending"}
    BY <2>1
  <2>3. \A u \in Task : pc'[u] = "sending" => todo'[u] \cap reached'[u] = {}
    BY <2>1 DEF OrderInv
  <2>4. \A u \in Task, d \in Client : Owes(u, d)' => Owes(u, d)
    BY <2>1 DEF Owes
  <2>5. ASSUME NEW u \in Task, NEW d \in Client, NEW i \in 1..Len(out'[d]),
               HasFrom(d, u, i)'
        PROVE  out'[d][i].n <= sent'[u] /\ (Owes(u, d)' => out'[d][i].n < frame'[u].n)
    <3>1. HasFrom(d, u, i) /\ i \in 1..Len(out[d])
      BY <2>1, <2>5 DEF HasFrom
    <3> QED
      BY <2>1, <2>4, <3>1 DEF OrderInv
  <2> QED
    BY <2>1, <2>2, <2>3, <2>5 DEF OrderInv, SenderOrder
<1>32. ASSUME NEW c \in Client, ReceivedHandlerThrows(c) PROVE OrderInv'
  <2>1. UNCHANGED <<frame, reached, todo, waiting, writing, out, sent>>
    BY <1>32 DEF ReceivedHandlerThrows, Move, lockVars, sendVars, restVars
  <2>2. \A t \in Task : pc'[t] \in {"event", "sending"} => pc'[t] = pc[t]
    BY <1>32 DEF ReceivedHandlerThrows, Move, TypeOK, Task, restVars
  <2>3. \A t \in Task : sent[t] <= sent'[t]
    BY <2>1 DEF TypeOK
  <2> QED
    BY <2>1, <2>2, <2>3, OrderFrame DEF TypeOK
<1>33. ASSUME NEW c \in Client, DisposeStream(c) PROVE OrderInv'
  <2>1. UNCHANGED <<frame, reached, todo, waiting, writing, out, sent>>
    BY <1>33 DEF DisposeStream, lockVars, sendVars, restVars
  <2>2. \A t \in Task : pc'[t] \in {"event", "sending"} => pc'[t] = pc[t]
    BY <1>33 DEF DisposeStream, TypeOK, Task, restVars
  <2>3. \A t \in Task : sent[t] <= sent'[t]
    BY <2>1 DEF TypeOK
  <2> QED
    BY <2>1, <2>2, <2>3, OrderFrame DEF TypeOK
<1>34. ASSUME NEW c \in Client, TryRemove(c) PROVE OrderInv'
  <2>1. UNCHANGED <<frame, reached, todo, waiting, writing, out, sent>>
    BY <1>34 DEF TryRemove, lockVars, sendVars, restVars
  <2>2. \A t \in Task : pc'[t] \in {"event", "sending"} => pc'[t] = pc[t]
    BY <1>34 DEF TryRemove, TypeOK, Task, restVars
  <2>3. \A t \in Task : sent[t] <= sent'[t]
    BY <2>1 DEF TypeOK
  <2> QED
    BY <2>1, <2>2, <2>3, OrderFrame DEF TypeOK
<1>45. ASSUME NEW c \in Client, MarkClient(c) PROVE OrderInv'
  <2>1. UNCHANGED <<frame, reached, todo, waiting, writing, out, sent>>
    BY <1>45 DEF MarkClient, MarkDead, lockVars, sendVars, restVars
  <2>2. \A t \in Task : pc'[t] \in {"event", "sending"} => pc'[t] = pc[t]
    BY <1>45 DEF MarkClient, MarkDead, TypeOK, Task, restVars
  <2>3. \A t \in Task : sent[t] <= sent'[t]
    BY <2>1 DEF TypeOK
  <2> QED
    BY <2>1, <2>2, <2>3, OrderFrame DEF TypeOK
<1>35. ASSUME NEW c \in Client, CloseClient(c) PROVE OrderInv'
  <2>1. UNCHANGED <<frame, reached, todo, waiting, writing, out, sent>>
    BY <1>35 DEF CloseClient, Close, lockVars, sendVars, restVars
  <2>2. \A t \in Task : pc'[t] \in {"event", "sending"} => pc'[t] = pc[t]
    BY <1>35 DEF CloseClient, Close, TypeOK, Task, restVars
  <2>3. \A t \in Task : sent[t] <= sent'[t]
    BY <2>1 DEF TypeOK
  <2> QED
    BY <2>1, <2>2, <2>3, OrderFrame DEF TypeOK
<1>36. ASSUME NEW c \in Client, CountClient(c) PROVE OrderInv'
  <2>1. UNCHANGED <<frame, reached, todo, waiting, writing, out, sent>>
    BY <1>36 DEF CountClient, Count, lockVars, sendVars, restVars
  <2>2. \A t \in Task : pc'[t] \in {"event", "sending"} => pc'[t] = pc[t]
    BY <1>36 DEF CountClient, Count, TypeOK, Task, restVars
  <2>3. \A t \in Task : sent[t] <= sent'[t]
    BY <2>1 DEF TypeOK
  <2> QED
    BY <2>1, <2>2, <2>3, OrderFrame DEF TypeOK
<1>37. ASSUME NEW t \in Task, SendReturns(t) PROVE OrderInv'
  <2>1. UNCHANGED <<frame, reached, todo, waiting, writing, out, sent>>
    BY <1>37 DEF SendReturns, Move, lockVars, sendVars, restVars
  <2>2. \A u \in Task : pc'[u] \in {"event", "sending"} => pc'[u] = pc[u]
    BY <1>37 DEF SendReturns, Move, TypeOK, Task, restVars
  <2>3. \A u \in Task : sent[u] <= sent'[u]
    BY <2>1 DEF TypeOK
  <2> QED
    BY <2>1, <2>2, <2>3, OrderFrame DEF TypeOK
<1>38. ASSUME NEW t \in Task, NEW c \in Client, Enumerate(t, c) PROVE OrderInv'
  <2>1. UNCHANGED <<pc, frame, sent, out, writing>>
        /\ pc[t] = "sending" /\ c \in todo[t]
        /\ todo'[t] = todo[t] \ {c} /\ \A u \in Task \ {t} : todo'[u] = todo[u]
    BY <1>38 DEF Enumerate, TypeOK
  <2>2. c \notin reached[t]
    BY <2>1 DEF OrderInv
  <2>3. CASE Wants(c, frame[t])
    <3>1. reached' = [reached EXCEPT ![t] = @ \cup {c}]
          /\ waiting' = [waiting EXCEPT ![c] = @ \cup {t}]
      BY <1>38, <2>3 DEF Enumerate
    <3>2. /\ reached'[t] = reached[t] \cup {c}
          /\ \A u \in Task \ {t} : reached'[u] = reached[u]
          /\ waiting'[c] = waiting[c] \cup {t}
          /\ \A d \in Client \ {c} : waiting'[d] = waiting[d]
      BY <3>1 DEF TypeOK
    <3>3. t \notin writing[c]
      BY <2>2 DEF LockConserved
    <3>4. \A d \in Client : waiting'[d] \cap writing'[d] = {}
      BY <2>1, <3>2, <3>3 DEF OrderInv
    <3>5. \A u \in Task : pc[u] = "sending" => todo'[u] \cap reached'[u] = {}
      BY <2>1, <3>2 DEF OrderInv
    <3>6. \A u \in Task, d \in Client : Owes(u, d)' => Owes(u, d)
      <4> TAKE u \in Task, d \in Client
      <4>1. CASE u = t /\ d = c
        BY <2>1, <2>2, <4>1 DEF Owes
      <4>2. CASE ~(u = t /\ d = c)
        BY <2>1, <3>2, <4>2 DEF Owes
      <4> QED
        BY <4>1, <4>2
    <3> QED
      BY <2>1, <3>4, <3>5, <3>6, OrderQuiet
  <2>4. CASE ~Wants(c, frame[t])
    <3>1. UNCHANGED <<reached, waiting>>
      BY <1>38, <2>4 DEF Enumerate
    <3>2. \A u \in Task : pc[u] = "sending" => todo'[u] \cap reached'[u] = {}
      BY <2>1, <3>1 DEF OrderInv
    <3>3. \A u \in Task, d \in Client : Owes(u, d)' => Owes(u, d)
      BY <2>1, <3>1 DEF Owes
    <3> QED
      BY <2>1, <3>1, <3>2, <3>3, OrderQuiet DEF OrderInv
  <2> QED
    BY <2>3, <2>4
<1>39. ASSUME NEW t \in Task, NEW c \in Client, AcquireWriteLock(t, c) PROVE OrderInv'
  <2>1. UNCHANGED <<pc, frame, sent, out, todo, reached>>
        /\ t \in waiting[c]
        /\ waiting'[c] = waiting[c] \ {t} /\ writing'[c] = writing[c] \cup {t}
        /\ \A d \in Client \ {c} : waiting'[d] = waiting[d] /\ writing'[d] = writing[d]
    BY <1>39 DEF AcquireWriteLock, sendVars, TypeOK
  <2>2. \A d \in Client : waiting'[d] \cap writing'[d] = {}
    BY <2>1 DEF OrderInv
  <2>3. \A u \in Task, d \in Client : Owes(u, d)' => Owes(u, d)
    BY <2>1 DEF Owes
  <2> QED
    BY <2>1, <2>2, <2>3, OrderQuiet DEF OrderInv
<1>40. ASSUME NEW t \in Task, NEW c \in Client, WriteFrame(t, c) PROVE OrderInv'
  <2>1. UNCHANGED <<pc, frame, sent, todo, reached, waiting>>
        /\ t \in writing[c] /\ writing'[c] = writing[c] \ {t}
        /\ \A d \in Client \ {c} : writing'[d] = writing[d]
    BY <1>40 DEF WriteFrame, ReleaseWriteLock, sendVars, TypeOK
  <2>2. pc[t] = "sending" /\ c \in reached[t] /\ t \notin waiting[c]
    BY <2>1 DEF LockConserved, OrderInv
  <2>3. frame[t].from = t /\ frame[t].n <= sent[t] /\ Owes(t, c)
    BY <2>1, <2>2 DEF OrderInv, Owes
  <2>4. out \in [Client -> Seq(Wire)] /\ frame[t] \in Wire
        /\ out' = [out EXCEPT ![c] = Append(@, frame[t])]
    BY <1>40 DEF WriteFrame, TypeOK
  <2>5. \A d \in Client : \A i \in 1..Len(out'[d]) :
          \/ i \in 1..Len(out[d]) /\ out'[d][i] = out[d][i]
          \/ d = c /\ i = Len(out[c]) + 1 /\ out'[d][i] = frame[t]
    BY <2>4, OutGrows
  <2>6. \A u \in Task, d \in Client : Owes(u, d)' => Owes(u, d) /\ ~(u = t /\ d = c)
    BY <2>1, <2>2 DEF Owes
  <2>7. ASSUME NEW u \in Task, NEW d \in Client, NEW i \in 1..Len(out'[d]),
               HasFrom(d, u, i)'
        PROVE  out'[d][i].n <= sent'[u] /\ (Owes(u, d)' => out'[d][i].n < frame'[u].n)
    <3>1. CASE i \in 1..Len(out[d]) /\ out'[d][i] = out[d][i]
      <4>1. HasFrom(d, u, i)
        BY <2>7, <3>1 DEF HasFrom
      <4> QED
        BY <2>1, <2>6, <3>1, <4>1 DEF OrderInv
    <3>2. CASE d = c /\ i = Len(out[c]) + 1 /\ out'[d][i] = frame[t]
      <4>1. u = t
        BY <2>3, <2>7, <3>2 DEF HasFrom
      <4> QED
        BY <2>1, <2>3, <2>6, <3>2, <4>1
    <3> QED
      BY <2>5, <3>1, <3>2
  <2>8. SenderOrder'
    <3> SUFFICES ASSUME NEW d \in Client, NEW i \in 1..Len(out'[d]), NEW j \in 1..Len(out'[d]),
                        i < j, out'[d][i].kind \in Kind, out'[d][j].kind \in Kind,
                        out'[d][i].from = out'[d][j].from
                 PROVE  out'[d][i].n < out'[d][j].n
      BY DEF SenderOrder
    <3>0. out' \in [Client -> Seq(Wire)]
      BY DEF TypeOK
    <3>1. Len(out[d]) \in Nat /\ Len(out'[d]) \in Nat
      BY <2>4, <3>0
    <3>2. CASE j \in 1..Len(out[d]) /\ out'[d][j] = out[d][j]
      <4>1. i \in 1..Len(out[d])
        BY <3>1, <3>2
      <4>2. out'[d][i] = out[d][i]
        BY <2>5, <3>1, <4>1
      <4> QED
        BY <3>2, <4>1, <4>2 DEF OrderInv, SenderOrder
    <3>3. CASE d = c /\ j = Len(out[c]) + 1 /\ out'[d][j] = frame[t]
      <4>1. i \in 1..Len(out[c])
        BY <3>1, <3>3
      <4>2. out'[d][i] = out[c][i]
        BY <2>5, <3>1, <3>3, <4>1
      <4>3. HasFrom(c, t, i)
        BY <2>3, <3>3, <4>2 DEF HasFrom
      <4> QED
        BY <2>3, <3>3, <4>1, <4>2, <4>3 DEF OrderInv
    <3> QED
      BY <2>5, <3>2, <3>3
  <2>9. \A u \in Task : pc'[u] \in {"event", "sending"} =>
          frame'[u].from = u /\ frame'[u].n <= sent'[u]
    BY <2>1 DEF OrderInv
  <2>10. /\ \A u \in Task : pc'[u] = "sending" => todo'[u] \cap reached'[u] = {}
         /\ \A d \in Client : waiting'[d] \cap writing'[d] = {}
    BY <2>1 DEF OrderInv
  <2> QED
    BY <2>7, <2>8, <2>9, <2>10 DEF OrderInv
<1>41. ASSUME NEW t \in Task, NEW c \in Client, WriteFrameThrows(t, c) PROVE OrderInv'
  <2>1. UNCHANGED <<pc, frame, sent, out, todo, reached, waiting>>
        /\ \A d \in Client : writing'[d] \subseteq writing[d]
    BY <1>41 DEF WriteFrameThrows, ReleaseWriteLock, sendVars, TypeOK
  <2>2. \A d \in Client : waiting'[d] \cap writing'[d] = {}
    BY <2>1 DEF OrderInv
  <2>3. \A u \in Task, d \in Client : Owes(u, d)' => Owes(u, d)
    BY <2>1 DEF Owes
  <2> QED
    BY <2>1, <2>2, <2>3, OrderQuiet DEF OrderInv
<1>42. ASSUME NEW t \in Task, NEW c \in Client, SkipDead(t, c) PROVE OrderInv'
  <2>1. UNCHANGED <<pc, frame, sent, out, todo, reached, waiting>>
        /\ \A d \in Client : writing'[d] \subseteq writing[d]
    BY <1>42 DEF SkipDead, ReleaseWriteLock, sendVars, TypeOK
  <2>2. \A d \in Client : waiting'[d] \cap writing'[d] = {}
    BY <2>1 DEF OrderInv
  <2>3. \A u \in Task, d \in Client : Owes(u, d)' => Owes(u, d)
    BY <2>1 DEF Owes
  <2> QED
    BY <2>1, <2>2, <2>3, OrderQuiet DEF OrderInv
<1>43. CASE UNCHANGED vars
  <2>1. UNCHANGED <<pc, frame, reached, todo, waiting, writing, sent, out>>
    BY <1>43 DEF vars, restVars, lockVars, sendVars
  <2> QED
    BY <2>1, OrderQuiet DEF OrderInv, Owes
<1> QED
  BY <1>1, <1>2, <1>3, <1>4, <1>5, <1>6, <1>7, <1>8, <1>9, <1>10, <1>11, <1>12, <1>13,
     <1>14, <1>15, <1>16, <1>17, <1>18, <1>19, <1>20, <1>21, <1>22, <1>23, <1>24,
     <1>25, <1>26, <1>27, <1>28, <1>29, <1>30, <1>31, <1>32, <1>33, <1>34, <1>35,
     <1>36, <1>37, <1>38, <1>39, <1>40, <1>41, <1>42, <1>43, <1>44, <1>45
     DEF Next, Environment, AcceptLoop, Stopping, Reading, Handling, Removing, Sending,
         WriteFrameAsync

(* Every client sees the frames of one sender in the order they were sent  *)
(* and none twice, whatever locks, failures and removals come between.     *)
THEOREM OrderSafe == Spec => []SenderOrder
<1>1. Init => OrderInv
  BY ConstantsAssumption DEF Init, OrderInv, SenderOrder, Task
<1>2. TypeOK /\ TypeOK' /\ LockConserved /\ OrderInv /\ [Next]_vars => OrderInv'
  BY OrderStep
<1>3. OrderInv => SenderOrder
  BY DEF OrderInv
<1> QED
  BY <1>1, <1>2, <1>3, WriteLockSafe, PTL DEF Spec

-----------------------------------------------------------------------------
(* The server implements Broadcast.  Frames that are about to be sent are  *)
(* messages in the sense of Broadcast.                                     *)
PostInv ==
  /\ \A t \in Task : sent[t] <= Limit
  /\ \A c \in Client : pc[c] = "event" => frame[c].kind \in Kind /\ frame[c].n >= 1

(* What holds while the server serves. *)
ServerInv ==
  TypeOK /\ LockConserved /\ RemovalInv /\ RoomInv /\ OrderInv /\ PostInv

(* Steps that neither sender nor receiver can tell from none. *)
Untold ==
  /\ UNCHANGED <<clients, rooms, alive, todo, waiting, writing, out>>
  /\ \A t \in Task : pc'[t] = "sending" <=> pc[t] = "sending"
  /\ \A t \in Task : pc[t] = "sending" => frame'[t] = frame[t]

(* Such a step leaves what Broadcast speaks of as it is. *)
LEMMA UntoldStutters ==
  ASSUME Untold PROVE UNCHANGED Messages!vars
<1>1. UNCHANGED <<clients, rooms, out>>
  BY DEF Untold
<1>2. UNCHANGED deadClients
  BY DEF Untold, deadClients
<1>3. UNCHANGED owed
  BY DEF Untold, owed
<1>4. UNCHANGED posted
  <2>1. \A t \in Task : (IF pc'[t] = "sending" THEN {frame'[t]} ELSE {})
                        = (IF pc[t] = "sending" THEN {frame[t]} ELSE {})
    BY DEF Untold
  <2> QED
    BY <2>1 DEF posted
<1> QED
  BY <1>1, <1>2, <1>3, <1>4 DEF Messages!vars

(* Starting and stopping is not seen, except for the removal of clients.   *)
LEMMA UnseenServer ==
  ASSUME TypeOK,
         \/ Start \/ StopBegin \/ CheckRunning \/ AcceptFails
         \/ StopListener \/ StopSnapshot \/ StopClose \/ StopCount \/ StopReturns
  PROVE  Untold
<1> USE ConstantsAssumption DEF Untold, TypeOK, Task, serverVars, regVars, sessionVars,
      lockVars, sendVars, countVars, stopVars, restVars
<1>1. CASE Start
  BY <1>1 DEF Start
<1>2. CASE StopBegin
  BY <1>2 DEF StopBegin
<1>3. CASE CheckRunning
  BY <1>3 DEF CheckRunning
<1>4. CASE AcceptFails
  BY <1>4 DEF AcceptFails
<1>5. CASE StopListener
  BY <1>5 DEF StopListener
<1>6. CASE StopSnapshot
  BY <1>6 DEF StopSnapshot
<1>7. CASE StopCount
  BY <1>7 DEF StopCount, Count
<1>8. CASE StopReturns
  BY <1>8 DEF StopReturns
<1>9. CASE StopClose
  BY <1>9 DEF StopClose, Close
<1> QED
  BY <1>1, <1>2, <1>3, <1>4, <1>5, <1>6, <1>7, <1>8, <1>9

(* Nor is what happens to a socket, or in a handler that is not sending.   *)
LEMMA Unseen ==
  ASSUME TypeOK, NEW c \in Client,
         \/ PeerConnects(c) \/ PeerLeaves(c) \/ PeerStalls(c) \/ Accept(c)
         \/ ReadUpgrade(c) \/ ReadHttp(c) \/ ReadJunk(c) \/ ReadMessage(c)
         \/ ReadPing(c) \/ ReadIgnored(c) \/ ReadClose(c) \/ ReadFails(c)
         \/ SecurityFails(c) \/ LoopTest(c) \/ ReceivedHandlerThrows(c) \/ DisposeStream(c)
         \/ CloseClient(c) \/ CountClient(c)
  PROVE  Untold
<1> USE ConstantsAssumption DEF Untold, TypeOK, Task, serverVars, regVars, sessionVars,
      lockVars, sendVars, countVars, stopVars, restVars
<1>1. CASE PeerConnects(c)
  BY <1>1 DEF PeerConnects, Move
<1>2. CASE PeerLeaves(c)
  BY <1>2 DEF PeerLeaves
<1>3. CASE PeerStalls(c)
  BY <1>3 DEF PeerStalls
<1>4. CASE Accept(c)
  BY <1>4 DEF Accept
<1>5. CASE ReadUpgrade(c)
  BY <1>5 DEF ReadUpgrade
<1>6. CASE ReadHttp(c)
  BY <1>6 DEF ReadHttp, Move
<1>7. CASE ReadJunk(c)
  BY <1>7 DEF ReadJunk, Move
<1>8. CASE ReadMessage(c)
  BY <1>8 DEF ReadMessage
<1>9. CASE ReadPing(c)
  BY <1>9 DEF ReadPing
<1>10. CASE ReadIgnored(c)
  BY <1>10 DEF ReadIgnored
<1>11. CASE ReadClose(c)
  BY <1>11 DEF ReadClose, Move
<1>12. CASE ReadFails(c)
  BY <1>12 DEF ReadFails, Move
<1>13. CASE SecurityFails(c)
  BY <1>13 DEF SecurityFails, Move
<1>14. CASE LoopTest(c)
  BY <1>14 DEF LoopTest, Move
<1>15. CASE ReceivedHandlerThrows(c)
  BY <1>15 DEF ReceivedHandlerThrows, Move
<1>16. CASE DisposeStream(c)
  BY <1>16 DEF DisposeStream
<1>17. CASE CountClient(c)
  BY <1>17 DEF CountClient, Count
<1>18. CASE CloseClient(c)
  BY <1>18 DEF CloseClient, Close
<1> QED
  BY <1>1, <1>2, <1>3, <1>4, <1>5, <1>6, <1>7, <1>8, <1>9, <1>10, <1>11, <1>12, <1>13,
     <1>14, <1>15, <1>16, <1>17, <1>18

(* A frame gets its kind and number when its handler reads it, or when the *)
(* application sends it.                                                   *)
LEMMA PostStep ==
  ASSUME TypeOK, PostInv, [Next]_vars PROVE PostInv'
<1> USE ConstantsAssumption DEF TypeOK, PostInv, Limit, Task, serverVars, regVars, sessionVars,
      lockVars, sendVars, countVars, stopVars, restVars
<1>1. ASSUME Start PROVE PostInv'
  BY <1>1 DEF Start
<1>2. ASSUME StopBegin PROVE PostInv'
  BY <1>2 DEF StopBegin
<1>3. ASSUME NEW c \in Client, PeerConnects(c) PROVE PostInv'
  BY <1>3 DEF PeerConnects, Move
<1>4. ASSUME NEW c \in Client, PeerLeaves(c) PROVE PostInv'
  BY <1>4 DEF PeerLeaves
<1>5. ASSUME NEW c \in Client, PeerStalls(c) PROVE PostInv'
  BY <1>5 DEF PeerStalls
<1>6. ASSUME CheckRunning PROVE PostInv'
  BY <1>6 DEF CheckRunning
<1>7. ASSUME AcceptFails PROVE PostInv'
  BY <1>7 DEF AcceptFails
<1>8. ASSUME NEW c \in Client, Accept(c) PROVE PostInv'
  BY <1>8 DEF Accept
<1>9. ASSUME StopListener PROVE PostInv'
  BY <1>9 DEF StopListener
<1>10. ASSUME StopSnapshot PROVE PostInv'
  BY <1>10 DEF StopSnapshot
<1>11. ASSUME StopCount PROVE PostInv'
  BY <1>11 DEF StopCount, Count
<1>12. ASSUME StopReturns PROVE PostInv'
  BY <1>12 DEF StopReturns
<1>13. ASSUME NEW c \in Client, ReadUpgrade(c) PROVE PostInv'
  BY <1>13 DEF ReadUpgrade
<1>14. ASSUME NEW c \in Client, ReadHttp(c) PROVE PostInv'
  BY <1>14 DEF ReadHttp, Move
<1>15. ASSUME NEW c \in Client, ReadJunk(c) PROVE PostInv'
  BY <1>15 DEF ReadJunk, Move
<1>16. ASSUME NEW c \in Client, ReadMessage(c) PROVE PostInv'
  <2>1. PICK k \in Kind : frame' = [frame EXCEPT ![c] = [kind |-> k, from |-> c,
                                     room |-> roomId[c], n |-> sent[c] + 1]]
    BY <1>16 DEF ReadMessage
  <2>2. frame'[c].kind \in Kind /\ frame'[c].n = sent[c] + 1
        /\ \A t \in Task \ {c} : frame'[t] = frame[t]
    BY <2>1
  <2> QED
    BY <1>16, <2>2 DEF ReadMessage
<1>17. ASSUME NEW c \in Client, ReadPing(c) PROVE PostInv'
  BY <1>17 DEF ReadPing
<1>18. ASSUME NEW c \in Client, ReadIgnored(c) PROVE PostInv'
  BY <1>18 DEF ReadIgnored
<1>19. ASSUME NEW c \in Client, ReadClose(c) PROVE PostInv'
  BY <1>19 DEF ReadClose, Move
<1>20. ASSUME NEW c \in Client, ReadFails(c) PROVE PostInv'
  BY <1>20 DEF ReadFails, Move
<1>21. ASSUME NEW c \in Client, SecurityFails(c) PROVE PostInv'
  BY <1>21 DEF SecurityFails, Move
<1>22. ASSUME NEW c \in Client, LoopTest(c) PROVE PostInv'
  BY <1>22 DEF LoopTest, Move
<1>23. ASSUME NEW c \in Client, ReceivedHandlerThrows(c) PROVE PostInv'
  BY <1>23 DEF ReceivedHandlerThrows, Move
<1>24. ASSUME NEW c \in Client, DisposeStream(c) PROVE PostInv'
  BY <1>24 DEF DisposeStream
<1>25. ASSUME NEW c \in Client, CountClient(c) PROVE PostInv'
  BY <1>25 DEF CountClient, Count
<1>26. ASSUME NEW c \in Client, Register(c) PROVE PostInv'
  BY <1>26 DEF Register
<1>27. ASSUME NEW c \in Client, TryRemove(c) PROVE PostInv'
  BY <1>27 DEF TryRemove
<1>28. ASSUME NEW c \in Client, StopTryRemove(c) PROVE PostInv'
  BY <1>28 DEF StopTryRemove
<1>29. ASSUME NEW c \in Client, CloseClient(c) PROVE PostInv'
  BY <1>29 DEF CloseClient, Close
<1>30. ASSUME StopClose PROVE PostInv'
  BY <1>30 DEF StopClose, Close
<1>42. ASSUME StopMark PROVE PostInv'
  BY <1>42 DEF StopMark, MarkDead
<1>43. ASSUME NEW c \in Client, MarkClient(c) PROVE PostInv'
  BY <1>43 DEF MarkClient, MarkDead
<1>31. ASSUME NEW c \in Client, Join(c) PROVE PostInv'
  BY <1>31 DEF Join
<1>32. ASSUME NEW c \in Client, RaiseReceived(c) PROVE PostInv'
  BY <1>32 DEF RaiseReceived
<1>33. ASSUME NEW c \in Client, Answers(c) PROVE PostInv'
  <2>1. /\ UNCHANGED sendVars
        /\ \/ pc' = [pc EXCEPT ![c] = "joining"]
           \/ pc' = [pc EXCEPT ![c] = "leaving"]
           \/ pc' = [pc EXCEPT ![c] = "check"]
    BY <1>33, AnswerStep
  <2> QED
    BY <2>1
<1>34. ASSUME NEW a \in App, AppSend(a) PROVE PostInv'
  <2>1. \A t \in Client : t # a /\ pc'[t] = pc[t] /\ frame'[t] = frame[t]
    BY <1>34 DEF AppSend
  <2> QED
    BY <1>34, <2>1 DEF AppSend
<1>35. ASSUME NEW t \in Task, SendReturns(t) PROVE PostInv'
  BY <1>35 DEF SendReturns, Move
<1>36. ASSUME NEW t \in Task, NEW c \in Client, Enumerate(t, c) PROVE PostInv'
  BY <1>36 DEF Enumerate
<1>37. ASSUME NEW t \in Task, NEW c \in Client, AcquireWriteLock(t, c) PROVE PostInv'
  BY <1>37 DEF AcquireWriteLock
<1>38. ASSUME NEW t \in Task, NEW c \in Client, WriteFrame(t, c) PROVE PostInv'
  BY <1>38 DEF WriteFrame, ReleaseWriteLock
<1>39. ASSUME NEW t \in Task, NEW c \in Client, WriteFrameThrows(t, c) PROVE PostInv'
  BY <1>39 DEF WriteFrameThrows, ReleaseWriteLock
<1>40. ASSUME NEW t \in Task, NEW c \in Client, SkipDead(t, c) PROVE PostInv'
  BY <1>40 DEF SkipDead, ReleaseWriteLock
<1>41. CASE UNCHANGED vars
  BY <1>41 DEF vars
<1> QED
  BY <1>1, <1>2, <1>3, <1>4, <1>5, <1>6, <1>7, <1>8, <1>9, <1>10, <1>11, <1>12, <1>13,
     <1>14, <1>15, <1>16, <1>17, <1>18, <1>19, <1>20, <1>21, <1>22, <1>23, <1>24,
     <1>25, <1>26, <1>27, <1>28, <1>29, <1>30, <1>31, <1>32, <1>33, <1>34, <1>35,
     <1>36, <1>37, <1>38, <1>39, <1>40, <1>41, <1>42, <1>43
     DEF Next, Environment, AcceptLoop, Stopping, Reading, Handling, Removing, Sending,
         WriteFrameAsync, Answers

(* One entry of a function over the tasks changes. *)
LEMMA OneChanges ==
  ASSUME NEW f, NEW g, NEW t \in Task, NEW e,
         f = [u \in Task |-> f[u]], g = [u \in Task |-> g[u]],
         g[t] = e, \A u \in Task \ {t} : g[u] = f[u]
  PROVE  g = [f EXCEPT ![t] = e]
  OBVIOUS

(* Each mapped variable over the tasks is a function over them. *)
LEMMA MappedFunctions ==
  /\ posted = [t \in Task |-> posted[t]] /\ owed = [t \in Task |-> owed[t]]
  /\ posted' = [t \in Task |-> posted'[t]] /\ owed' = [t \in Task |-> owed'[t]]
  BY DEF posted, owed

(* What a step does to locks and enumerations decides who is owed a turn.  *)
LEMMA OwedKept ==
  ASSUME UNCHANGED <<todo, waiting, writing>> PROVE UNCHANGED owed
  BY DEF owed

(* What is under way depends on the tasks and their frames. *)
LEMMA PostedKept ==
  ASSUME UNCHANGED <<pc, frame>> PROVE UNCHANGED posted
  BY DEF posted

(* Registration, the removals, and the marking of a removed client. *)
LEMMA ClientsComeAndGo ==
  ASSUME ServerInv, NEW c \in Client,
         \/ Register(c) \/ TryRemove(c) \/ StopTryRemove(c)
         \/ MarkClient(c) \/ (stopAt = c /\ StopMark)
  PROVE  [Messages!Next]_(Messages!vars)
<1>1. TypeOK /\ RemovalInv
  BY DEF ServerInv
<1>2. UNCHANGED <<rooms, frame, todo, waiting, writing, out>>
  BY DEF Register, TryRemove, StopTryRemove, MarkClient, StopMark, MarkDead, sessionVars,
     sendVars, lockVars
<1>3. UNCHANGED owed
  BY <1>2, OwedKept
<1>4. UNCHANGED posted
  <2>1. \A t \in Task : pc'[t] = "sending" <=> pc[t] = "sending"
    BY <1>1, ConstantsAssumption DEF Register, TryRemove, StopTryRemove, MarkClient, StopMark,
       TypeOK, Task
  <2>2. \A t \in Task : (IF pc'[t] = "sending" THEN {frame'[t]} ELSE {})
                        = (IF pc[t] = "sending" THEN {frame[t]} ELSE {})
    BY <1>2, <2>1
  <2> QED
    BY <2>2 DEF posted
<1>5. CASE Register(c)
  <2>1. c \notin clients /\ clients' = clients \cup {c} /\ UNCHANGED deadClients
    BY <1>1, <1>5 DEF Register, RemovalInv, Unregistered, deadClients
  <2>2. Messages!Enter(c)
    BY <1>2, <1>3, <1>4, <2>1 DEF Messages!Enter
  <2> QED
    BY <2>2 DEF Messages!Next
<1>6. CASE TryRemove(c) \/ StopTryRemove(c)
  <2>1. clients' = clients \ {c} /\ UNCHANGED deadClients
    BY <1>6 DEF TryRemove, StopTryRemove, deadClients
  <2>2. CASE c \in clients
    <3>1. Messages!Leave(c)
      BY <1>2, <1>3, <1>4, <2>1, <2>2 DEF Messages!Leave
    <3> QED
      BY <3>1 DEF Messages!Next
  <2>3. CASE c \notin clients
    <3>1. clients' = clients
      BY <2>1, <2>3
    <3> QED
      BY <1>2, <1>3, <1>4, <2>1, <3>1 DEF Messages!vars
  <2> QED
    BY <2>2, <2>3
<1>7. CASE MarkClient(c) \/ (stopAt = c /\ StopMark)
  <2>1. c \notin clients /\ UNCHANGED clients
    BY <1>1, <1>7 DEF MarkClient, StopMark, RemovalInv
  <2>2. alive' = [alive EXCEPT ![c] = FALSE]
    BY <1>7 DEF MarkClient, StopMark, MarkDead
  <2>3. deadClients' = deadClients \cup {c}
    BY <1>1, <2>2 DEF deadClients, TypeOK
  <2>4. Messages!WriteOff(c)
    BY <1>2, <1>3, <1>4, <2>1, <2>3 DEF Messages!WriteOff
  <2> QED
    BY <2>4 DEF Messages!Next
<1> QED
  BY <1>5, <1>6, <1>7

(* A client joins the room it asked for, if any. *)
LEMMA ClientJoins ==
  ASSUME ServerInv, NEW c \in Client, Join(c)
  PROVE  [Messages!Next]_(Messages!vars)
<1>1. TypeOK /\ rooms \in [Client -> SUBSET Room] /\ roomId[c] \in RoomOrNone
  BY DEF ServerInv, TypeOK
<1>2. /\ UNCHANGED <<clients, alive, frame, todo, waiting, writing, out>>
      /\ rooms' = [rooms EXCEPT ![c] = @ \cup ({roomId[c]} \ {NoRoom})]
  BY DEF Join, regVars, sendVars, lockVars
<1>3. UNCHANGED owed /\ UNCHANGED deadClients
  BY <1>2, OwedKept DEF deadClients
<1>4. UNCHANGED posted
  <2>1. \A t \in Task : pc'[t] = "sending" <=> pc[t] = "sending"
    BY <1>1, ConstantsAssumption DEF Join, TypeOK, Task
  <2>2. \A t \in Task : (IF pc'[t] = "sending" THEN {frame'[t]} ELSE {})
                        = (IF pc[t] = "sending" THEN {frame[t]} ELSE {})
    BY <1>2, <2>1
  <2> QED
    BY <2>2 DEF posted
<1>5. CASE roomId[c] = NoRoom
  <2>1. UNCHANGED rooms
    BY <1>1, <1>2, <1>5
  <2> QED
    BY <1>2, <1>3, <1>4, <2>1 DEF Messages!vars
<1>6. CASE roomId[c] # NoRoom
  <2>1. roomId[c] \in Room
    BY <1>1, <1>6 DEF RoomOrNone
  <2>2. rooms' = [rooms EXCEPT ![c] = @ \cup {roomId[c]}]
    BY <1>1, <1>2, <1>6
  <2>3. Messages!Join(c, roomId[c])
    BY <1>2, <1>3, <1>4, <2>2 DEF Messages!Join
  <2> QED
    BY <2>1, <2>3 DEF Messages!Next
<1> QED
  BY <1>5, <1>6

(* A handler's own answer is told to its client. *)
LEMMA ClientIsTold ==
  ASSUME ServerInv, NEW c \in Client, Answers(c)
  PROVE  [Messages!Next]_(Messages!vars)
<1>1. TypeOK /\ PostInv
  BY DEF ServerInv
<1>2. /\ UNCHANGED <<clients, rooms, alive, frame, todo, waiting, writing>>
      /\ \A t \in Task : pc'[t] = "sending" <=> pc[t] = "sending"
  <2>1. /\ UNCHANGED <<regVars, sessionVars, lockVars, sendVars>>
        /\ \/ pc' = [pc EXCEPT ![c] = "joining"]
           \/ pc' = [pc EXCEPT ![c] = "leaving"]
           \/ pc[c] = "ponging" /\ pc' = [pc EXCEPT ![c] = "check"]
    BY <1>1, AnswerStep
  <2>2. pc[c] \in {"upgrading", "status", "ponging"} /\ pc \in [Task -> HandlerPc \cup AppPc]
    BY <1>1 DEF Answers, SendHandshakeResponse, SendHttpStatusResponse, SendPong, WriteAnswer,
       TypeOK
  <2> QED
    BY <2>1, <2>2 DEF regVars, sessionVars, lockVars, sendVars
<1>3. UNCHANGED owed /\ UNCHANGED deadClients
  BY <1>2, OwedKept DEF deadClients
<1>4. UNCHANGED posted
  <2>1. \A t \in Task : (IF pc'[t] = "sending" THEN {frame'[t]} ELSE {})
                        = (IF pc[t] = "sending" THEN {frame[t]} ELSE {})
    BY <1>2
  <2> QED
    BY <2>1 DEF posted
<1>5. \/ UNCHANGED out
      \/ \E k \in {"101", "status", "pong"} :
           out' = [out EXCEPT ![c] = Append(@, Answer(c, k, sent[c]))]
  BY DEF Answers, SendHandshakeResponse, SendHttpStatusResponse, SendPong, WriteAnswer
<1>6. CASE UNCHANGED out
  BY <1>2, <1>3, <1>4, <1>6 DEF Messages!vars
<1>7. ASSUME NEW k \in {"101", "status", "pong"},
             out' = [out EXCEPT ![c] = Append(@, Answer(c, k, sent[c]))]
      PROVE  Messages!Next
  <2>1. sent[c] \in 0..Limit
    BY <1>1, ConstantsAssumption DEF TypeOK, PostInv, Limit, Task
  <2>2. Answer(c, k, sent[c]) \in Messages!Notices(c)
    BY <2>1 DEF Answer, Messages!Notices
  <2>3. Messages!Tell(c, Answer(c, k, sent[c]))
    BY <1>2, <1>3, <1>4, <1>7 DEF Messages!Tell
  <2> QED
    BY <2>2, <2>3 DEF Messages!Next
<1> QED
  BY <1>5, <1>6, <1>7

(* What a broadcast of t begins with: nothing of t is under way, and the   *)
(* frame is a message that is later than all of t's before.                *)
LEMMA MessageBegins ==
  ASSUME ServerInv, NEW t \in Task, pc[t] # "sending", NEW m \in Messages!Message,
         m.from = t, t \in Client => m.room = NoRoom \/ m.room \in rooms[t],
         \A c \in Client : \A i \in 1..Len(out[c]) : HasFrom(c, t, i) => out[c][i].n < m.n,
         pc' = [pc EXCEPT ![t] = "sending"], frame'[t] = m,
         \A u \in Task \ {t} : frame'[u] = frame[u],
         todo' = [todo EXCEPT ![t] = clients],
         UNCHANGED <<clients, rooms, alive, waiting, writing, out>>
  PROVE  Messages!Next
<1>1. TypeOK /\ LockConserved
  BY DEF ServerInv
<1>2. UNCHANGED deadClients
  BY DEF deadClients
<1>3. posted[t] = {} /\ posted'[t] = {m}
      /\ \A u \in Task \ {t} : posted'[u] = posted[u]
  BY <1>1 DEF posted, TypeOK
<1>4. posted' = [posted EXCEPT ![t] = {m}]
  BY <1>3, MappedFunctions, OneChanges
<1>5. owed'[t] = clients
  <2>1. todo'[t] = clients /\ clients \subseteq Client
    BY <1>1 DEF TypeOK
  <2>2. \A c \in Client : t \notin waiting'[c] \cup writing'[c]
    BY <1>1 DEF LockConserved
  <2> QED
    BY <2>1, <2>2 DEF owed
<1>6. \A u \in Task \ {t} : owed'[u] = owed[u]
  BY <1>1 DEF owed, TypeOK
<1>7. owed' = [owed EXCEPT ![t] = clients]
  BY <1>5, <1>6, MappedFunctions, OneChanges
<1>8. Messages!MaySend(t, m)
  BY DEF Messages!MaySend, HasFrom
<1>9. Messages!Send(t, m)
  BY <1>2, <1>3, <1>4, <1>7, <1>8 DEF Messages!Send
<1> QED
  BY <1>9 DEF Messages!Next, Messages!Sender, Task

(* A handler passes on what its client sent. *)
LEMMA ClientSends ==
  ASSUME ServerInv, NEW c \in Client, RaiseReceived(c)
  PROVE  Messages!Next
<1> DEFINE m == frame[c]
<1>1. TypeOK /\ RoomInv /\ OrderInv /\ PostInv /\ c \in Task /\ pc[c] = "event"
  BY DEF ServerInv, RaiseReceived, Task
<1>2. m \in Wire /\ m.kind \in Kind /\ m.n >= 1 /\ m.from = c /\ m.n <= sent[c]
  BY <1>1 DEF TypeOK, PostInv, OrderInv
<1>3. m.n \in Nat /\ sent[c] \in Nat /\ sent[c] <= Limit
  BY <1>1, <1>2 DEF TypeOK, PostInv, Wire
<1>4. m \in Messages!Message
  <2>1. m.n \in 1..Limit
    BY <1>2, <1>3, ConstantsAssumption DEF Limit
  <2>2. m = [kind |-> m.kind, from |-> m.from, room |-> m.room, n |-> m.n]
        /\ m.from \in Task /\ m.room \in RoomOrNone
    BY <1>2 DEF Wire
  <2> QED
    BY <1>2, <2>1, <2>2 DEF Messages!Message, Messages!Sender, Task, RoomOrNone
<1>5. m.room = NoRoom \/ m.room \in rooms[c]
  BY <1>1 DEF RoomInv
<1>6. \A d \in Client : \A i \in 1..Len(out[d]) : HasFrom(d, c, i) => out[d][i].n < m.n
  BY <1>1 DEF OrderInv, Owes
<1>7. /\ pc' = [pc EXCEPT ![c] = "sending"] /\ todo' = [todo EXCEPT ![c] = clients]
      /\ UNCHANGED <<frame, clients, rooms, alive, waiting, writing, out>>
  BY DEF RaiseReceived, regVars, sessionVars, lockVars
<1> QED
  BY <1>1, <1>2, <1>4, <1>5, <1>6, <1>7, MessageBegins

(* The application calls one of the Send methods. *)
LEMMA ApplicationSends ==
  ASSUME ServerInv, NEW a \in App, AppSend(a)
  PROVE  Messages!Next
<1>1. TypeOK /\ OrderInv /\ a \in Task /\ a \notin Client /\ pc[a] = "idle"
  BY ConstantsAssumption DEF ServerInv, AppSend, Task
<1>2. PICK k \in Kind, r \in RoomOrNone : frame' = [frame EXCEPT ![a] =
           [kind |-> k, from |-> a, room |-> r, n |-> sent[a] + 1]]
  BY DEF AppSend
<1> DEFINE m == [kind |-> k, from |-> a, room |-> r, n |-> sent[a] + 1]
<1>3. sent[a] \in Nat /\ sent[a] < MaxAppSends
  BY <1>1 DEF TypeOK, AppSend
<1>4. m \in Messages!Message
  <2>1. sent[a] + 1 \in 1..Limit
    BY <1>3, ConstantsAssumption DEF Limit
  <2> QED
    BY <1>1, <2>1 DEF Messages!Message, Messages!Sender, Task, RoomOrNone
<1>5. frame'[a] = m /\ \A u \in Task \ {a} : frame'[u] = frame[u]
  BY <1>1, <1>2 DEF TypeOK
<1>6. \A d \in Client : \A i \in 1..Len(out[d]) : HasFrom(d, a, i) => out[d][i].n < m.n
  <2> SUFFICES ASSUME NEW d \in Client, NEW i \in 1..Len(out[d]), HasFrom(d, a, i)
               PROVE  out[d][i].n < sent[a] + 1
    OBVIOUS
  <2>1. out[d][i].n <= sent[a]
    BY <1>1 DEF OrderInv
  <2>2. out[d][i] \in Wire
    BY <1>1 DEF TypeOK
  <2>3. out[d][i].n \in Nat
    BY <2>2 DEF Wire
  <2> QED
    BY <1>3, <2>1, <2>3
<1>7. /\ pc' = [pc EXCEPT ![a] = "sending"] /\ todo' = [todo EXCEPT ![a] = clients]
      /\ UNCHANGED <<clients, rooms, alive, waiting, writing, out>>
  BY DEF AppSend, regVars, sessionVars, lockVars
<1>8. m.from = a
  OBVIOUS
<1> HIDE DEF m
<1> QED
  BY <1>1, <1>4, <1>5, <1>6, <1>7, <1>8, MessageBegins

(* A client has had its turn when the task neither has it ahead nor is at  *)
(* its lock.                                                               *)
LEMMA ClientServed ==
  ASSUME NEW t \in Task, NEW c \in Client, c \in owed[t], c \notin owed'[t],
         \A d \in Client \ {c} : d \in owed'[t] <=> d \in owed[t],
         \A u \in Task \ {t} : owed'[u] = owed[u]
  PROVE  Messages!Served(t, c)
<1>1. owed'[t] \subseteq Client /\ owed[t] \subseteq Client
  BY DEF owed
<1>2. owed'[t] = owed[t] \ {c}
  BY <1>1
<1>3. owed' = [owed EXCEPT ![t] = owed[t] \ {c}]
  BY <1>2, MappedFunctions, OneChanges
<1> QED
  BY <1>3 DEF Messages!Served

(* Leaving the lock of a client ends its turn. *)
LEMMA TurnEnds ==
  ASSUME ServerInv, NEW t \in Task, NEW c \in Client, t \in writing[c],
         writing' = [writing EXCEPT ![c] = @ \ {t}], UNCHANGED <<todo, waiting>>
  PROVE  pc[t] = "sending" /\ c \in reached[t] /\ Messages!Served(t, c)
<1>1. TypeOK /\ LockConserved /\ OrderInv
  BY DEF ServerInv
<1>2. pc[t] = "sending" /\ c \in reached[t] /\ c \notin todo[t] /\ t \notin waiting[c]
  BY <1>1 DEF LockConserved, OrderInv
<1>3. /\ writing'[c] = writing[c] \ {t}
      /\ \A d \in Client \ {c} : writing'[d] = writing[d]
  BY <1>1 DEF TypeOK
<1>4. c \in owed[t] /\ c \notin owed'[t]
  BY <1>2, <1>3 DEF owed
<1>5. \A d \in Client \ {c} : d \in owed'[t] <=> d \in owed[t]
  BY <1>3 DEF owed
<1>6. \A u \in Task \ {t} : owed'[u] = owed[u]
  <2> TAKE u \in Task \ {t}
  <2>1. \A d \in Client : u \in writing'[d] <=> u \in writing[d]
    BY <1>3
  <2> QED
    BY <2>1 DEF owed
<1> QED
  BY <1>2, <1>4, <1>5, <1>6, ClientServed

(* The ways in which a write ends. *)
LEMMA WriteEnds ==
  ASSUME ServerInv, NEW t \in Task, NEW c \in Client,
         WriteFrame(t, c) \/ WriteFrameThrows(t, c) \/ SkipDead(t, c)
  PROVE  Messages!Next
<1>1. TypeOK /\ RoomInv
  BY DEF ServerInv
<1>2. /\ t \in writing[c] /\ writing' = [writing EXCEPT ![c] = @ \ {t}]
      /\ UNCHANGED <<pc, clients, rooms, frame, todo, waiting>>
  BY DEF WriteFrame, WriteFrameThrows, SkipDead, ReleaseWriteLock, regVars, sessionVars, sendVars
<1>3. pc[t] = "sending" /\ c \in reached[t] /\ Messages!Served(t, c)
  BY <1>2, TurnEnds
<1>4. UNCHANGED posted
  BY <1>2, PostedKept
<1>5. posted[t] = {frame[t]} /\ Messages!Concerns(frame[t], c)
  BY <1>1, <1>3 DEF posted, RoomInv, Messages!Concerns
<1>6. t \in Messages!Sender
  BY DEF Messages!Sender, Task
<1>7. CASE WriteFrame(t, c)
  <2>1. c \notin deadClients /\ UNCHANGED deadClients
        /\ out' = [out EXCEPT ![c] = Append(@, frame[t])]
    BY <1>7 DEF WriteFrame, deadClients, regVars
  <2>2. Messages!Deliver(t, c)
    BY <1>2, <1>3, <1>4, <1>5, <2>1 DEF Messages!Deliver
  <2> QED
    BY <1>6, <2>2 DEF Messages!Next
<1>8. CASE WriteFrameThrows(t, c)
  <2>1. UNCHANGED out /\ alive' = [alive EXCEPT ![c] = FALSE]
    BY <1>8 DEF WriteFrameThrows
  <2>2. deadClients' = deadClients \cup {c}
    BY <1>1, <2>1 DEF deadClients, TypeOK
  <2>3. Messages!Fail(t, c)
    BY <1>2, <1>3, <1>4, <2>1, <2>2 DEF Messages!Fail
  <2> QED
    BY <1>6, <2>3 DEF Messages!Next
<1>9. CASE SkipDead(t, c)
  <2>1. c \in deadClients /\ UNCHANGED deadClients /\ UNCHANGED out
    BY <1>9 DEF SkipDead, deadClients, regVars
  <2>2. Messages!PassOver(t, c)
    BY <1>2, <1>3, <1>4, <2>1 DEF Messages!PassOver
  <2> QED
    BY <1>6, <2>2 DEF Messages!Next
<1> QED
  BY <1>7, <1>8, <1>9

(* The room filter passes over a client, or the client is still owed its   *)
(* turn when the task gets to the lock, and when it gets the lock.         *)
LEMMA TurnComes ==
  ASSUME ServerInv, NEW t \in Task, NEW c \in Client,
         Enumerate(t, c) \/ AcquireWriteLock(t, c)
  PROVE  [Messages!Next]_(Messages!vars)
<1>1. TypeOK /\ LockConserved /\ OrderInv
  BY DEF ServerInv
<1>2. UNCHANGED <<pc, clients, rooms, alive, frame, out>>
  BY DEF Enumerate, AcquireWriteLock, regVars, sessionVars, sendVars
<1>3. UNCHANGED posted /\ UNCHANGED deadClients
  BY <1>2, PostedKept DEF deadClients
<1>4. CASE Enumerate(t, c) /\ Wants(c, frame[t])
  <2>1. /\ c \in todo[t] /\ todo' = [todo EXCEPT ![t] = @ \ {c}]
        /\ waiting' = [waiting EXCEPT ![c] = @ \cup {t}] /\ UNCHANGED writing
    BY <1>4 DEF Enumerate
  <2>2. /\ todo'[t] = todo[t] \ {c} /\ \A u \in Task \ {t} : todo'[u] = todo[u]
        /\ waiting'[c] = waiting[c] \cup {t}
        /\ \A d \in Client \ {c} : waiting'[d] = waiting[d]
    BY <1>1, <2>1 DEF TypeOK
  <2>3. \A u \in Task, d \in Client :
          d \in todo'[u] \/ u \in waiting'[d] \cup writing'[d]
            <=> d \in todo[u] \/ u \in waiting[d] \cup writing[d]
    <3> TAKE u \in Task, d \in Client
    <3>1. CASE u = t /\ d = c
      BY <2>1, <2>2, <3>1
    <3>2. CASE ~(u = t /\ d = c)
      BY <2>1, <2>2, <3>2
    <3> QED
      BY <3>1, <3>2
  <2>4. UNCHANGED owed
    BY <2>3 DEF owed
  <2> QED
    BY <1>2, <1>3, <2>4 DEF Messages!vars
<1>5. CASE Enumerate(t, c) /\ ~Wants(c, frame[t])
  <2>1. /\ pc[t] = "sending" /\ c \in todo[t] /\ todo' = [todo EXCEPT ![t] = @ \ {c}]
        /\ UNCHANGED <<waiting, writing>>
    BY <1>5 DEF Enumerate
  <2>2. todo'[t] = todo[t] \ {c} /\ \A u \in Task \ {t} : todo'[u] = todo[u]
    BY <1>1, <2>1 DEF TypeOK
  <2>3. t \notin waiting[c] \cup writing[c]
    BY <1>1, <2>1 DEF LockConserved, OrderInv
  <2>4. c \in owed[t] /\ c \notin owed'[t]
    BY <2>1, <2>2, <2>3 DEF owed
  <2>5. \A d \in Client \ {c} : d \in owed'[t] <=> d \in owed[t]
    BY <2>1, <2>2 DEF owed
  <2>6. \A u \in Task \ {t} : owed'[u] = owed[u]
    BY <2>1, <2>2 DEF owed
  <2>7. Messages!Served(t, c)
    BY <2>4, <2>5, <2>6, ClientServed
  <2>8. frame[t] \in posted[t] /\ ~Messages!Concerns(frame[t], c)
    BY <1>5, <2>1 DEF posted, Wants, Messages!Concerns
  <2>9. Messages!PassOver(t, c)
    BY <1>2, <1>3, <2>7, <2>8 DEF Messages!PassOver
  <2> QED
    BY <2>9 DEF Messages!Next, Messages!Sender, Task
<1>6. CASE AcquireWriteLock(t, c)
  <2>1. /\ t \in waiting[c] /\ UNCHANGED todo
        /\ waiting' = [waiting EXCEPT ![c] = @ \ {t}]
        /\ writing' = [writing EXCEPT ![c] = @ \cup {t}]
    BY <1>6 DEF AcquireWriteLock, sendVars
  <2>2. \A d \in Client : waiting'[d] \cup writing'[d] = waiting[d] \cup writing[d]
    BY <1>1, <2>1 DEF TypeOK
  <2>3. UNCHANGED owed
    BY <2>1, <2>2 DEF owed
  <2> QED
    BY <1>2, <1>3, <2>3 DEF Messages!vars
<1> QED
  BY <1>4, <1>5, <1>6

(* A send returns when nobody is owed anything. *)
LEMMA MessageCompletes ==
  ASSUME ServerInv, NEW t \in Task, SendReturns(t)
  PROVE  Messages!Next
<1>1. TypeOK
  BY DEF ServerInv
<1>2. /\ pc[t] = "sending" /\ ~Pending(t)
      /\ UNCHANGED <<clients, rooms, alive, frame, todo, waiting, writing, out>>
      /\ pc' = [pc EXCEPT ![t] = IF t \in Client THEN "check" ELSE "idle"]
  BY DEF SendReturns, Move, restVars, regVars, sessionVars, sendVars, lockVars
<1>3. pc'[t] # "sending" /\ \A u \in Task \ {t} : pc'[u] = pc[u]
  BY <1>1, <1>2 DEF TypeOK
<1>4. posted[t] # {} /\ posted'[t] = {} /\ \A u \in Task \ {t} : posted'[u] = posted[u]
  BY <1>2, <1>3 DEF posted
<1>5. posted' = [posted EXCEPT ![t] = {}]
  BY <1>4, MappedFunctions, OneChanges
<1>6. owed[t] = {}
  BY <1>2 DEF owed, Pending
<1>7. UNCHANGED owed /\ UNCHANGED deadClients
  BY <1>2, OwedKept DEF deadClients
<1>8. Messages!Complete(t)
  BY <1>2, <1>4, <1>5, <1>6, <1>7 DEF Messages!Complete
<1> QED
  BY <1>8 DEF Messages!Next, Messages!Sender, Task

(* Each step of the server is one of Broadcast, or none. *)
LEMMA BroadcastStep ==
  ASSUME ServerInv, [Next]_vars
  PROVE  [Messages!Next]_(Messages!vars)
<1>1. TypeOK /\ RemovalInv
  BY DEF ServerInv
<1>2. ASSUME Untold PROVE [Messages!Next]_(Messages!vars)
  BY <1>2, UntoldStutters
<1>3. ASSUME NEW c \in Client,
             \/ PeerConnects(c) \/ PeerLeaves(c) \/ PeerStalls(c) \/ Accept(c)
             \/ Reading(c) \/ SecurityFails(c) \/ LoopTest(c) \/ ReceivedHandlerThrows(c)
             \/ DisposeStream(c) \/ CloseClient(c) \/ CountClient(c)
      PROVE  Untold
  BY <1>1, <1>3, Unseen DEF Reading
<1>4. ASSUME \/ Start \/ StopBegin \/ CheckRunning \/ AcceptFails
             \/ StopListener \/ StopSnapshot \/ StopClose \/ StopCount \/ StopReturns
      PROVE  Untold
  BY <1>1, <1>4, UnseenServer
<1>5. ASSUME StopMark PROVE [Messages!Next]_(Messages!vars)
  <2>1. stopAt \in Client
    BY <1>1, <1>5 DEF StopMark, RemovalInv
  <2> QED
    BY <1>5, <2>1, ClientsComeAndGo
<1>6. ASSUME NEW c \in Client, Register(c) \/ TryRemove(c) \/ StopTryRemove(c) \/ MarkClient(c)
      PROVE  [Messages!Next]_(Messages!vars)
  BY <1>6, ClientsComeAndGo
<1>7. ASSUME NEW c \in Client, Join(c) \/ Answers(c) \/ RaiseReceived(c)
      PROVE  [Messages!Next]_(Messages!vars)
  BY <1>7, ClientJoins, ClientIsTold, ClientSends
<1>8. ASSUME NEW t \in Task, Sending(t) PROVE [Messages!Next]_(Messages!vars)
  BY <1>8, MessageCompletes, TurnComes, WriteEnds DEF Sending, WriteFrameAsync
<1>9. ASSUME NEW a \in App, AppSend(a) PROVE [Messages!Next]_(Messages!vars)
  BY <1>9, ApplicationSends
<1>10. CASE UNCHANGED vars
  <2>1. Untold
    BY <1>10 DEF Untold, vars, restVars, regVars, sessionVars, lockVars, sendVars
  <2> QED
    BY <1>2, <2>1
<1>11. CASE Environment \/ AcceptLoop
  BY <1>2, <1>3, <1>4, <1>9, <1>11 DEF Environment, AcceptLoop
<1>12. CASE Stopping
  BY <1>2, <1>4, <1>5, <1>6, <1>12 DEF Stopping
<1>13. ASSUME NEW c \in Client, Reading(c) \/ Handling(c) \/ Removing(c)
       PROVE  [Messages!Next]_(Messages!vars)
  BY <1>2, <1>3, <1>6, <1>7, <1>13 DEF Handling, Removing, Answers
<1> QED
  BY <1>8, <1>10, <1>11, <1>12, <1>13 DEF Next

(* All that the senders and receivers see of the server is a run of        *)
(* Broadcast: each client of a snapshot has its turn once, nothing goes to *)
(* other rooms or out of order, no send returns before that, and only a    *)
(* failed write or a removal makes a client dead.                          *)
THEOREM MessagesArePassedOn == Spec => ImplementsBroadcast
<1>1. Init => ServerInv
  <2>1. SUFFICES ASSUME Init PROVE ServerInv
    OBVIOUS
  <2>2. TypeOK /\ LockConserved
    BY <2>1, InitTypes DEF Init, LockConserved
  <2>3. RemovalInv
    BY <2>1, ConstantsAssumption DEF Init, RemovalInv, RemovedOnce, Unregistered, Task
  <2>4. RoomInv
    BY <2>1, ConstantsAssumption DEF Init, RoomInv, RoomConfinement, Task
  <2>5. OrderInv
    BY <2>1, ConstantsAssumption DEF Init, OrderInv, SenderOrder, Task
  <2>6. PostInv
    BY <2>1, ConstantsAssumption DEF Init, PostInv, Limit, Task
  <2> QED
    BY <2>2, <2>3, <2>4, <2>5, <2>6 DEF ServerInv
<1>2. ServerInv /\ [Next]_vars => ServerInv'
  <2>1. SUFFICES ASSUME ServerInv, [Next]_vars PROVE ServerInv'
    OBVIOUS
  <2>2. TypeOK' /\ LockConserved'
    BY <2>1, TypeStep, LockStep DEF ServerInv
  <2>3. RemovalInv' /\ RoomInv' /\ PostInv'
    BY <2>1, RemovalStep, RoomStep, PostStep DEF ServerInv
  <2>4. OrderInv'
    BY <2>1, <2>2, OrderStep DEF ServerInv
  <2> QED
    BY <2>2, <2>3, <2>4 DEF ServerInv
<1>3. Init => Messages!Init
  <2>1. SUFFICES ASSUME Init PROVE Messages!Init
    OBVIOUS
  <2>2. deadClients = {}
    BY <2>1 DEF Init, deadClients
  <2>3. posted = [t \in Task |-> {}]
    BY <2>1, ConstantsAssumption DEF Init, posted, Task
  <2>4. owed = [t \in Task |-> {}]
    BY <2>1 DEF Init, owed
  <2> QED
    BY <2>1, <2>2, <2>3, <2>4 DEF Init, Messages!Init, Messages!Sender, Task
<1>4. ServerInv /\ [Next]_vars => [Messages!Next]_(Messages!vars)
  BY BroadcastStep
<1> QED
  BY <1>1, <1>2, <1>3, <1>4, PTL DEF Spec, ImplementsBroadcast, Messages!Spec
=============================================================================
