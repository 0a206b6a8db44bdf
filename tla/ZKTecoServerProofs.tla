-------------------------- MODULE ZKTecoServerProofs --------------------------
(* Proofs about ZKTecoServer, for every set of requests, kinds and users:  *)
(* the server implements PunchLog, and its photos do not mix.              *)
EXTENDS ZKTecoServer, FiniteSetTheorems, TLAPS

Place == {"unsent", "arrived", "spawned", "reading", "handling", "opening",
          "writing", "saved", "answering", "sorry", "aborting", "answered",
          "aborted", "left"}

Types ==
  /\ kind \in [Req -> Kinds \cup {NoKind}] /\ at \in [Req -> Place]
  /\ done \in [Req -> Nat] /\ erred \in [Req -> BOOLEAN]
  /\ path \in [Req -> Path \cup {NoPath}] /\ last \in [User -> Type]
  /\ writers \in [Path -> SUBSET Req] /\ content \in [Path -> SUBSET Req]

(* What place pc, n lines and an error e can mean for a request. *)
Fits(r, pc, n, e) ==
  /\ pc \in {"arrived", "spawned", "reading"} => n = 0 /\ ~e
  /\ pc = "handling" => IsLog(r) /\ ~e
  /\ pc \in {"opening", "writing", "saved"} => ~IsLog(r)
  /\ pc = "opening" => kind[r].table = "photo"
  /\ pc = "sorry" => e
  /\ IsLog(r) /\ pc \in {"answering", "answered"} => e \/ n = Len(kind[r].lines)

Accounted(r) ==
  IF kind[r] = NoKind THEN at[r] = "unsent" /\ done[r] = 0 /\ ~erred[r]
  ELSE at[r] # "unsent" /\ Fits(r, at[r], done[r], erred[r])

(* A file is open by the one task that writes to it, and holds no bytes of   *)
(* another.                                                                  *)
OneWriter ==
  /\ \A r \in Req : at[r] = "writing" => path[r] \in Path /\ r \in writers[path[r]]
  /\ \A p \in Path : \A r \in writers[p] :
       at[r] = "writing" /\ path[r] = p /\ writers[p] = {r} /\ content[p] \subseteq {r}
  /\ \A p \in Path : \A q, r \in content[p] : q = r

LogInv == Types /\ \A r \in Req : Accounted(r)

(* No request is there at first. *)
LEMMA LogInvInit == Init => LogInv
  BY KindsAssumption DEF Init, LogInv, Types, Accounted, Place

(* A step that changes one request only has to show what it means for that one. *)
LEMMA OneMoves ==
  ASSUME LogInv, Types', NEW r \in Req, kind' = kind,
         \A q \in Req \ {r} :
           at'[q] = at[q] /\ done'[q] = done[q] /\ erred'[q] = erred[q],
         kind[r] # NoKind, at'[r] # "unsent",
         Fits(r, at'[r], done'[r], erred'[r])
  PROVE  LogInv'
<1>1. \A q \in Req \ {r} : Accounted(q)'
  BY DEF LogInv, Accounted, Fits, IsLog
<1>2. Accounted(r)'
  BY DEF Accounted, Fits, IsLog
<1> QED
  BY <1>1, <1>2 DEF LogInv

(* Every step accounts for the lines of every request. *)
LEMMA LogInvStep == ASSUME LogInv, [Next]_vars PROVE LogInv'
<1>a. Types
  BY DEF LogInv
<1>b. ASSUME NEW r \in Req, at[r] # "unsent"
      PROVE  kind[r] # NoKind /\ Fits(r, at[r], done[r], erred[r])
  BY <1>b DEF LogInv, Accounted
<1>1. CASE UNCHANGED vars
  BY <1>1 DEF vars, reqVars, fileVars, loopVars, LogInv, Types, Accounted, Fits,
              IsLog
<1>2. CASE StartAsync \/ Loop \/ LoopFault \/ StopAsync \/ StopListener \/ StopEnds
  BY <1>2 DEF StartAsync, Loop, LoopTest, LoopCall, LoopStopped, LoopDelay,
              LoopFault, StopAsync, StopListener, StopEnds, reqVars, fileVars,
              LogInv, Types, Accounted, Fits, IsLog
<1>3. ASSUME NEW r \in Req, NEW k \in Kinds, Arrive(r, k) PROVE LogInv'
  BY <1>3, KindsAssumption
     DEF Arrive, fileVars, LogInv, Types, Place, Accounted, Fits, IsLog
<1>4. ASSUME NEW r \in Req, LoopGet(r) PROVE LogInv'
  <2>1. Types'
    BY <1>4, <1>a DEF LoopGet, fileVars, Types, Place
  <2>2. Fits(r, at'[r], done'[r], erred'[r])
    BY <1>4, <1>a, <1>b DEF LoopGet, Fits, Types
  <2> QED
    BY <1>4, <1>a, <1>b, <2>1, <2>2, OneMoves DEF LoopGet, Types
<1>5. ASSUME NEW r \in Req, HangUp(r) \/ TimeOut(r) PROVE LogInv'
  BY <1>5 DEF HangUp, TimeOut, fileVars, LogInv, Types, Accounted, Fits, IsLog
<1>6. ASSUME NEW r \in Req, NEW throws \in BOOLEAN, ReadBody(r, throws)
      PROVE  LogInv'
  <2>1. Dispatched(kind[r]) \in {"handling", "opening", "saved", "answering"}
    BY DEF Dispatched
  <2>2. Types'
    BY <1>6, <1>a, <2>1 DEF ReadBody, Goes, fileVars, Types, Place
  <2>3. Fits(r, Dispatched(kind[r]), 0, FALSE)
    BY <1>6, <1>b DEF ReadBody, Dispatched, Fits, IsLog
  <2>4. Fits(r, at'[r], done'[r], erred'[r])
    BY <1>6, <1>a, <1>b, <2>3 DEF ReadBody, Goes, Fits, Types
  <2> QED
    BY <1>6, <1>a, <1>b, <2>1, <2>2, <2>4, OneMoves DEF ReadBody, Goes, Types
<1>7. ASSUME NEW r \in Req, Begin(r) \/ ReadFails(r) \/ Abort(r) PROVE LogInv'
  <2>1. Types'
    BY <1>7, <1>a DEF Begin, ReadFails, Abort, Goes, fileVars, Types, Place
  <2>2. Fits(r, at'[r], done'[r], erred'[r])
    BY <1>7, <1>a, <1>b DEF Begin, ReadFails, Abort, Goes, Fits, Types
  <2> QED
    BY <1>7, <1>a, <1>b, <2>1, <2>2, OneMoves
       DEF Begin, ReadFails, Abort, Goes, Types
<1>8. ASSUME NEW r \in Req, BadLine(r) \/ EndOfLog(r) PROVE LogInv'
  <2>1. Types'
    BY <1>8, <1>a DEF BadLine, EndOfLog, Caught, Goes, fileVars, Types, Place
  <2>2. Fits(r, at'[r], done'[r], erred'[r])
    BY <1>8, <1>a, <1>b DEF BadLine, EndOfLog, Caught, Goes, Fits, Types
  <2> QED
    BY <1>8, <1>a, <1>b, <2>1, <2>2, OneMoves
       DEF BadLine, EndOfLog, Caught, Goes, Types
<1>9. ASSUME NEW r \in Req, NEW throws \in BOOLEAN, Line(r, throws) PROVE LogInv'
  <2> DEFINE line == kind[r].lines[done[r] + 1]
  <2>a. kind[r] \in Kinds /\ kind[r].table = "log"
    BY <1>9, <1>a, <1>b DEF Line, Types, Fits, IsLog
  <2>b. kind[r].lines \in Seq((User \X Type) \cup {<<>>})
    BY <2>a, KindsAssumption DEF KindOK
  <2>c. line \in User \X Type
    BY <1>9, <1>a, <2>b DEF Line, Types
  <2>d. line[1] \in User /\ line[2] \in Type
    BY <2>c
  <2>e. last' = [last EXCEPT ![line[1]] = line[2]]
    BY <1>9 DEF Line
  <2>f. last' \in [User -> Type]
    BY <1>a, <2>d, <2>e DEF Types
  <2>g. /\ at' \in [Req -> Place] /\ erred' \in [Req -> BOOLEAN]
        /\ UNCHANGED <<kind, path, writers, content>>
    BY <1>9, <1>a DEF Line, Caught, Goes, Types, Place
  <2>h. done' \in [Req -> Nat]
    BY <1>9, <1>a DEF Line, Types
  <2>1. Types'
    BY <1>a, <2>f, <2>g, <2>h DEF Types
  <2>2. Fits(r, at'[r], done'[r], erred'[r])
    BY <1>9, <1>a, <1>b DEF Line, Caught, Goes, Fits, Types
  <2> QED
    BY <1>9, <1>a, <1>b, <2>1, <2>2, OneMoves DEF Line, Caught, Goes, Types
<1>10. ASSUME NEW r \in Req, OpenPhoto(r) PROVE LogInv'
  <2>1. PICK p : path' = [path EXCEPT ![r] = p] /\ Open(r, p)
                 /\ p = <<kind[r].user, last[kind[r].user]>>
    BY <1>10 DEF OpenPhoto
  <2>a. kind[r] \in Kinds /\ kind[r].table = "photo"
    BY <1>10, <1>a, <1>b DEF OpenPhoto, Types, Fits
  <2>b. kind[r].user \in User
    BY <2>a, KindsAssumption DEF KindOK
  <2>2. p \in Path
    BY <2>1, <2>b, <1>a DEF Path, Types
  <2>c. /\ at' \in [Req -> Place] /\ erred' \in [Req -> BOOLEAN]
        /\ writers' \in [Path -> SUBSET Req] /\ content' \in [Path -> SUBSET Req]
    <3>1. CASE writers[p] # {}
      BY <1>a, <2>1, <3>1 DEF Open, Types, Place
    <3>2. CASE writers[p] = {}
      <4>1. /\ at' = [at EXCEPT ![r] = "writing"] /\ erred' = erred
            /\ writers' = [writers EXCEPT ![p] = {r}]
            /\ content' = [content EXCEPT ![p] = {}]
        BY <2>1, <3>2 DEF Open
      <4> QED
        BY <1>a, <4>1 DEF Types, Place
    <3> QED
      BY <3>1, <3>2
  <2>d. path' \in [Req -> Path \cup {NoPath}]
    BY <1>a, <2>1, <2>2 DEF Types
  <2>3. Types'
    BY <1>10, <1>a, <2>c, <2>d DEF OpenPhoto, Types
  <2>4. Fits(r, at'[r], done'[r], erred'[r])
    BY <1>10, <1>a, <1>b, <2>1 DEF OpenPhoto, Open, Fits, Types
  <2> QED
    BY <1>10, <1>a, <1>b, <2>1, <2>3, <2>4, OneMoves DEF OpenPhoto, Open, Types
<1>11. ASSUME NEW r \in Req, WritePhoto(r) \/ ClosePhoto(r) PROVE LogInv'
  <2>a. ASSUME WritePhoto(r) PROVE Types'
    BY <2>a, <1>a DEF WritePhoto, reqVars, Types
  <2>b. ASSUME ClosePhoto(r) PROVE Types'
    BY <2>b, <1>a DEF ClosePhoto, Caught, Goes, Types, Place
  <2>1. Types'
    BY <1>11, <2>a, <2>b
  <2>2. Fits(r, at'[r], done'[r], erred'[r])
    BY <1>11, <1>a, <1>b DEF WritePhoto, ClosePhoto, Caught, Goes, reqVars, Fits, Types
  <2> QED
    BY <1>11, <1>a, <1>b, <2>1, <2>2, OneMoves
       DEF WritePhoto, ClosePhoto, Caught, Goes, reqVars, Types
<1>12. ASSUME NEW r \in Req, NEW throws \in BOOLEAN, Raise(r, throws) PROVE LogInv'
  <2>1. Types'
    BY <1>12, <1>a DEF Raise, Caught, Goes, fileVars, Types, Place
  <2>2. Fits(r, at'[r], done'[r], erred'[r])
    BY <1>12, <1>a, <1>b DEF Raise, Caught, Goes, Fits, Types
  <2> QED
    BY <1>12, <1>a, <1>b, <2>1, <2>2, OneMoves DEF Raise, Caught, Goes, Types
<1>13. ASSUME NEW r \in Req, Answer(r) \/ AnswerSorry(r) PROVE LogInv'
  <2>1. Types'
    BY <1>13, <1>a DEF Answer, AnswerSorry, Caught, Goes, fileVars, Types, Place
  <2>2. Fits(r, at'[r], done'[r], erred'[r])
    BY <1>13, <1>a, <1>b DEF Answer, AnswerSorry, Caught, Goes, Fits, Types
  <2> QED
    BY <1>13, <1>a, <1>b, <2>1, <2>2, OneMoves
       DEF Answer, AnswerSorry, Caught, Goes, Types
<1> QED
  BY <1>1, <1>2, <1>3, <1>4, <1>5, <1>6, <1>7, <1>8, <1>9, <1>10, <1>11, <1>12,
     <1>13 DEF Next, Step

(* The lines of a punch log that were stored, refused or are still to come *)
(* are all of it, in every state.                                          *)
THEOREM LogInvariant == Spec => []LogInv
<1>1. LogInv /\ [Next]_vars => LogInv'
  BY LogInvStep
<1> QED
  BY <1>1, LogInvInit, PTL DEF Spec

----------------------------------------------------------------------------
(* The refinement.                                                         *)

(* The server starts where the abstract log starts. *)
LEMMA PunchInit == Init => Punches!Init
  BY DEF Init, Punches!Init, logState, logSize, logFailed, IsLog

(* A step that changes one request r changes one batch.                    *)
LEMMA OneBatch ==
  ASSUME LogInv, LogInv', NEW r \in Req,
         \A q \in Req \ {r} : /\ kind'[q] = kind[q] /\ at'[q] = at[q]
                              /\ done'[q] = done[q] /\ erred'[q] = erred[q]
  PROVE  /\ logState' = [logState EXCEPT ![r] = logState'[r]]
         /\ logSize' = [logSize EXCEPT ![r] = logSize'[r]]
         /\ done' = [done EXCEPT ![r] = done'[r]]
         /\ logFailed' = [logFailed EXCEPT ![r] = logFailed'[r]]
<1>1. logState' = [logState EXCEPT ![r] = logState'[r]]
  BY DEF logState, IsLog
<1>2. logSize' = [logSize EXCEPT ![r] = logSize'[r]]
  BY DEF logSize, IsLog
<1>3. done' = [done EXCEPT ![r] = done'[r]]
  BY DEF LogInv, Types
<1>4. logFailed' = [logFailed EXCEPT ![r] = logFailed'[r]]
  BY DEF logFailed, IsLog
<1> QED
  BY <1>1, <1>2, <1>3, <1>4

(* A step of a task that raises no line: it ends the batch, reports an error *)
(* or leaves the batch as it is.                                             *)
LEMMA TaskStep ==
  ASSUME LogInv, LogInv', NEW r \in Req, kind' = kind, done' = done,
         \A q \in Req \ {r} : at'[q] = at[q] /\ erred'[q] = erred[q],
         at[r] \notin Ended \cup {"unsent"}, at'[r] # "unsent",
         erred'[r] = erred[r] \/ (erred'[r] = TRUE /\ at'[r] \notin Ended)
  PROVE  Punches!Next \/ UNCHANGED Punches!vars
<1>1. /\ logState' = [logState EXCEPT ![r] = logState'[r]]
      /\ logSize' = logSize
      /\ logFailed' = [logFailed EXCEPT ![r] = logFailed'[r]]
  <2>1. logSize' = logSize
    BY DEF logSize, IsLog
  <2> QED
    BY <2>1, OneBatch
<1>2. CASE ~IsLog(r)
  <2>1. logState'[r] = logState[r] /\ logFailed'[r] = logFailed[r]
    BY <1>2 DEF logState, logFailed, IsLog
  <2>2. logState' = logState
    BY <1>1, <2>1 DEF logState
  <2>3. logFailed' = logFailed
    BY <1>1, <2>1 DEF logFailed
  <2> QED
    BY <1>1, <2>2, <2>3 DEF Punches!vars
<1>3. CASE IsLog(r)
  <2>1. logState[r] = "open" /\ logSize[r] = Len(kind[r].lines)
    BY <1>3 DEF logState, logSize, Ended
  <2>2. CASE at'[r] = "answered"
    <3>1. logState'[r] = "acknowledged" /\ erred'[r] = erred[r]
      BY <1>3, <2>2 DEF logState, IsLog, Ended
    <3>2. logFailed' = logFailed
      BY <1>1, <3>1 DEF logFailed, IsLog
    <3>3. erred[r] \/ done[r] = Len(kind[r].lines)
      BY <1>3, <2>2, <3>1 DEF LogInv, Accounted, Fits, IsLog
    <3>4. logFailed[r] \/ done[r] = logSize[r]
      BY <1>3, <2>1, <3>3 DEF logFailed, IsLog, LogInv, Types
    <3>5. Punches!Acknowledge(r)
      BY <1>1, <2>1, <3>1, <3>2, <3>4 DEF Punches!Acknowledge
    <3> QED
      BY <3>5 DEF Punches!Next
  <2>3. CASE at'[r] \in Ended \ {"answered"}
    <3>1. logState'[r] = "given up" /\ erred'[r] = erred[r]
      BY <1>3, <2>3 DEF logState, IsLog, Ended
    <3>2. logFailed' = logFailed
      BY <1>1, <3>1 DEF logFailed, IsLog
    <3>3. Punches!GiveUp(r)
      BY <1>1, <2>1, <3>1, <3>2 DEF Punches!GiveUp
    <3> QED
      BY <3>3 DEF Punches!Next
  <2>4. CASE at'[r] \notin Ended
    <3>1. logState'[r] = "open"
      BY <1>3, <2>4 DEF logState, IsLog, Ended
    <3>2. logState' = logState
      BY <1>1, <2>1, <3>1 DEF logState
    <3>3. CASE erred'[r] = erred[r]
      <4>1. logFailed' = logFailed
        BY <1>1, <3>3 DEF logFailed, IsLog
      <4> QED
        BY <1>1, <3>2, <4>1 DEF Punches!vars
    <3>4. CASE erred'[r] = TRUE
      <4>1. logFailed'[r] = TRUE
        BY <1>3, <3>4 DEF logFailed, IsLog
      <4>2. Punches!Fail(r)
        BY <1>1, <2>1, <3>2, <4>1 DEF Punches!Fail
      <4> QED
        BY <4>2 DEF Punches!Next
    <3> QED
      BY <3>3, <3>4
  <2> QED
    BY <2>2, <2>3, <2>4
<1> QED
  BY <1>2, <1>3

(* A request that arrives is a batch that is sent. *)
LEMMA ArriveStep ==
  ASSUME LogInv, LogInv', NEW r \in Req, NEW k \in Kinds, Arrive(r, k)
  PROVE  Punches!Next \/ UNCHANGED Punches!vars
<1>1. /\ kind[r] = NoKind /\ kind'[r] = k /\ at'[r] = "arrived"
      /\ UNCHANGED <<done, erred>> /\ ~erred[r]
      /\ \A q \in Req \ {r} : kind'[q] = kind[q] /\ at'[q] = at[q]
  BY DEF Arrive, LogInv, Types, Accounted
<1>2. /\ logState' = [logState EXCEPT ![r] = logState'[r]]
      /\ logSize' = [logSize EXCEPT ![r] = logSize'[r]]
      /\ logFailed' = [logFailed EXCEPT ![r] = logFailed'[r]]
  BY <1>1, OneBatch
<1>3. logState[r] = "none" /\ logSize[r] = 0 /\ logFailed[r] = FALSE
  BY <1>1 DEF logState, logSize, logFailed, IsLog
<1>4. logFailed'[r] = FALSE
  BY <1>1 DEF logFailed
<1>5. logFailed' = logFailed
  BY <1>2, <1>3, <1>4 DEF logFailed
<1>6. CASE k.table = "log"
  <2>1. IsLog(r)'
    BY <1>1, <1>6, KindsAssumption DEF IsLog
  <2>2. logState'[r] = "open" /\ logSize'[r] = Len(k.lines)
    BY <1>1, <2>1 DEF logState, logSize, Ended
  <2>3. Len(k.lines) \in LogSizes
    BY <1>6 DEF LogSizes
  <2>4. Punches!Submit(r, Len(k.lines))
    BY <1>1, <1>2, <1>3, <1>5, <2>2 DEF Punches!Submit
  <2> QED
    BY <2>3, <2>4 DEF Punches!Next
<1>7. CASE k.table # "log"
  <2>1. logState'[r] = "none" /\ logSize'[r] = 0
    BY <1>1, <1>7 DEF logState, logSize, IsLog
  <2>2. logState' = logState /\ logSize' = logSize
    BY <1>2, <1>3, <2>1 DEF logState, logSize
  <2> QED
    BY <1>1, <1>5, <2>2 DEF Punches!vars
<1> QED
  BY <1>6, <1>7

(* A line that is handled is a punch stored or refused. *)
LEMMA LineStep ==
  ASSUME LogInv, LogInv', NEW r \in Req, NEW throws \in BOOLEAN,
         Line(r, throws)
  PROVE  Punches!Next
<1>1. IsLog(r) /\ ~erred[r] /\ at[r] = "handling"
  BY DEF Line, LogInv, Accounted, Fits
<1>2. /\ kind' = kind /\ done' = [done EXCEPT ![r] = @ + 1]
      /\ done[r] < Len(kind[r].lines)
  BY DEF Line, Caught, Goes
<1>3. /\ at'[r] \in {"handling", "sorry"} /\ erred'[r] = throws
      /\ \A q \in Req \ {r} : /\ at'[q] = at[q] /\ erred'[q] = erred[q]
                               /\ done'[q] = done[q]
  BY <1>1 DEF Line, Caught, Goes, LogInv, Types
<1>4. logSize' = logSize /\ logSize[r] = Len(kind[r].lines)
  BY <1>1, <1>2 DEF logSize, IsLog
<1>5. /\ logState' = [logState EXCEPT ![r] = logState'[r]]
      /\ logFailed' = [logFailed EXCEPT ![r] = logFailed'[r]]
  BY <1>2, <1>3, OneBatch
<1>6. logState[r] = "open" /\ logState'[r] = "open"
  BY <1>1, <1>2, <1>3 DEF logState, IsLog, Ended
<1>7. logState' = logState
  BY <1>5, <1>6 DEF logState
<1>8. logFailed[r] = FALSE /\ logFailed'[r] = throws
  BY <1>1, <1>2, <1>3 DEF logFailed, IsLog
<1>9. Punches!Deliver(r, throws)
  BY <1>2, <1>4, <1>5, <1>6, <1>7, <1>8 DEF Punches!Deliver
<1> QED
  BY <1>9 DEF Punches!Next

(* The steps of a task that raise no line.                                 *)
LEMMA OtherSteps ==
  ASSUME LogInv, LogInv', NEW r \in Req,
         \/ LoopGet(r) \/ Begin(r) \/ ReadFails(r) \/ Abort(r)
         \/ BadLine(r) \/ EndOfLog(r) \/ OpenPhoto(r) \/ ClosePhoto(r)
         \/ Answer(r) \/ AnswerSorry(r)
         \/ \E throws \in BOOLEAN : ReadBody(r, throws) \/ Raise(r, throws)
  PROVE  Punches!Next \/ UNCHANGED Punches!vars
<1>1. at[r] \notin Ended \cup {"unsent"} /\ UNCHANGED <<kind, done>>
  BY DEF Ended, LoopGet, Begin, ReadFails, Abort, BadLine, EndOfLog, OpenPhoto,
         ClosePhoto, Answer, AnswerSorry, ReadBody, Raise, Caught, Goes
<1>2. \A q \in Req \ {r} : at'[q] = at[q] /\ erred'[q] = erred[q]
  BY DEF LogInv, Types, LoopGet, Begin, ReadFails, Abort, BadLine, EndOfLog,
         OpenPhoto, Open, ClosePhoto, Answer, AnswerSorry, ReadBody, Raise,
         Caught, Goes
<1>3. kind[r] # NoKind /\ at'[r] # "unsent"
  BY <1>1 DEF LogInv, Accounted
<1>4. erred'[r] = erred[r] \/ (erred'[r] = TRUE /\ at'[r] \notin Ended)
  BY DEF Ended, LogInv, Types, LoopGet, Begin, ReadFails, Abort, BadLine,
         EndOfLog, OpenPhoto, Open, ClosePhoto, Answer, AnswerSorry, ReadBody,
         Raise, Caught, Goes
<1> QED
  BY <1>1, <1>2, <1>3, <1>4, TaskStep

(* Every step of the server is a step of the abstract log, or none. *)
LEMMA PunchStep ==
  ASSUME LogInv, LogInv', [Next]_vars
  PROVE  [Punches!Next]_(Punches!vars)
<1>1. ASSUME UNCHANGED <<kind, at, done, erred>>
      PROVE  UNCHANGED Punches!vars
  BY <1>1 DEF Punches!vars, logState, logSize, logFailed, IsLog
<1>2. CASE UNCHANGED vars
  BY <1>1, <1>2 DEF vars, reqVars
<1>3. CASE StartAsync \/ Loop \/ LoopFault \/ StopAsync \/ StopListener \/ StopEnds
  BY <1>1, <1>3 DEF StartAsync, Loop, LoopTest, LoopCall, LoopStopped, LoopDelay,
                    LoopFault, StopAsync, StopListener, StopEnds, reqVars
<1>4. ASSUME NEW r \in Req, HangUp(r) \/ TimeOut(r) \/ WritePhoto(r)
      PROVE  UNCHANGED Punches!vars
  BY <1>1, <1>4 DEF HangUp, TimeOut, WritePhoto, reqVars
<1> QED
  BY <1>2, <1>3, <1>4, ArriveStep, LineStep, OtherSteps DEF Next, Step

(* The server implements PunchLog, whatever the requests, the logs and the  *)
(* handlers do: OK answers a log only if each of its lines was raised once, *)
(* in order, or OnError was (ZKTecoServer.cs 343-414, 261).                 *)
THEOREM PunchesAccounted == Spec => ImplementsPunchLog
<1>1. LogInv /\ LogInv' /\ [Next]_vars => [Punches!Next]_(Punches!vars)
  BY PunchStep
<1> QED
  BY <1>1, LogInvariant, PunchInit, PTL DEF Spec, ImplementsPunchLog, Punches!Spec

(* What PunchLog promises the devices, of the server: a log that was answered *)
(* OK was raised to its last line, or an error was.                           *)
THEOREM AnsweredAccounted == Spec => []Punches!AcknowledgedIsAccounted
<1>1. ASSUME LogInv PROVE Punches!AcknowledgedIsAccounted
  <2>1. ASSUME NEW r \in Req, logState[r] = "acknowledged"
        PROVE  logFailed[r] \/ done[r] = logSize[r]
    <3>1. IsLog(r) /\ at[r] = "answered"
      BY <2>1 DEF logState
    <3>2. erred[r] \/ done[r] = Len(kind[r].lines)
      BY <1>1, <3>1 DEF LogInv, Accounted, Fits, IsLog
    <3>3. CASE erred[r]
      BY <3>1, <3>3 DEF logFailed
    <3>4. CASE done[r] = Len(kind[r].lines)
      BY <3>1, <3>4 DEF logSize
    <3> QED
      BY <3>2, <3>3, <3>4
  <2> QED
    BY <2>1 DEF Punches!AcknowledgedIsAccounted
<1> QED
  BY <1>1, LogInvariant, PTL

----------------------------------------------------------------------------
(* The photo files.                                                        *)

(* A photo file that is being written has one writer. *)
LEMMA OneWriterStep ==
  ASSUME LogInv, OneWriter, [Next]_vars
  PROVE  OneWriter'
<1>a. Types
  BY DEF LogInv
<1>1. ASSUME UNCHANGED <<path, writers, content>>,
             \A q \in Req : (at'[q] = "writing") <=> (at[q] = "writing")
      PROVE  OneWriter'
  <2>1. \A r \in Req : at'[r] = "writing" =>
          path'[r] \in Path /\ r \in writers'[path'[r]]
    BY <1>1 DEF OneWriter
  <2>2. \A p \in Path : writers[p] \subseteq Req
    BY <1>a DEF Types
  <2>3. \A p \in Path : \A r \in writers'[p] :
          /\ at'[r] = "writing" /\ path'[r] = p
          /\ writers'[p] = {r} /\ content'[p] \subseteq {r}
    BY <1>1, <2>2 DEF OneWriter
  <2>4. \A p \in Path : \A q, r \in content'[p] : q = r
    BY <1>1 DEF OneWriter
  <2> QED
    BY <2>1, <2>3, <2>4 DEF OneWriter
<1>2. CASE UNCHANGED vars
  BY <1>1, <1>2 DEF vars, reqVars, fileVars
<1>3. CASE StartAsync \/ Loop \/ LoopFault \/ StopAsync \/ StopListener \/ StopEnds
  BY <1>1, <1>3 DEF StartAsync, Loop, LoopTest, LoopCall, LoopStopped, LoopDelay,
             LoopFault, StopAsync, StopListener, StopEnds, reqVars, fileVars
<1>b. ASSUME NEW r \in Req, NEW k \in Kinds, Arrive(r, k) PROVE OneWriter'
  BY <1>1, <1>b, <1>a DEF Arrive, fileVars, Types
<1>4. ASSUME NEW r \in Req, LoopGet(r) \/ HangUp(r) \/ TimeOut(r)
      PROVE  OneWriter'
  BY <1>1, <1>4, <1>a DEF LoopGet, HangUp, TimeOut, fileVars, Types
<1>5. ASSUME NEW r \in Req, NEW throws \in BOOLEAN, ReadBody(r, throws)
      PROVE  OneWriter'
  <2>1. Dispatched(kind[r]) # "writing"
    BY DEF Dispatched
  <2>2. \A q \in Req : (at'[q] = "writing") <=> (at[q] = "writing")
    BY <1>5, <1>a, <2>1 DEF ReadBody, Goes, Types
  <2>3. UNCHANGED <<path, writers, content>>
    BY <1>5 DEF ReadBody, Goes, fileVars
  <2> QED
    BY <1>1, <2>2, <2>3
<1>6. ASSUME NEW r \in Req,
             \/ Begin(r) \/ ReadFails(r) \/ Abort(r) \/ BadLine(r) \/ EndOfLog(r)
             \/ Answer(r) \/ AnswerSorry(r)
             \/ (\E throws \in BOOLEAN : Line(r, throws))
             \/ (\E throws \in BOOLEAN : Raise(r, throws))
      PROVE  OneWriter'
  <2>1. \A q \in Req : (at'[q] = "writing") <=> (at[q] = "writing")
    BY <1>6, <1>a DEF Begin, ReadFails, Abort, BadLine, EndOfLog, Answer,
                      AnswerSorry, Line, Raise, Caught, Goes, Types
  <2>2. UNCHANGED <<path, writers, content>>
    BY <1>6 DEF Begin, ReadFails, Abort, BadLine, EndOfLog, Answer,
                AnswerSorry, Line, Raise, Caught, Goes, fileVars
  <2> QED
    BY <1>1, <2>1, <2>2
<1>7. ASSUME NEW r \in Req, OpenPhoto(r) PROVE OneWriter'
  <2>1. PICK p : path' = [path EXCEPT ![r] = p] /\ Open(r, p)
                 /\ p = <<kind[r].user, last[kind[r].user]>>
    BY <1>7 DEF OpenPhoto
  <2>2. at[r] = "opening" /\ kind[r] \in Kinds /\ kind[r].table = "photo"
    BY <1>7 DEF OpenPhoto, LogInv, Types, Accounted, Fits
  <2>3. p \in Path
    BY <2>1, <2>2, <1>a, KindsAssumption DEF KindOK, Path, Types
  <2>4. \A x \in Path : r \notin writers[x]
    BY <2>2 DEF OneWriter
  <2>5. \A q \in Req \ {r} : path'[q] = path[q]
    BY <2>1, <1>a DEF Types
  <2>6. CASE writers[p] # {}
    <3>1. /\ at' = [at EXCEPT ![r] = "sorry"] /\ UNCHANGED <<writers, content>>
      BY <2>1, <2>6 DEF Open
    <3>2. \A q \in Req : (at'[q] = "writing") => q # r /\ at[q] = "writing"
      BY <3>1, <1>a DEF Types
    <3>3. \A x \in Path : \A q \in writers[x] :
            q \in Req /\ q # r /\ at'[q] = "writing" /\ path'[q] = path[q]
      BY <3>1, <2>4, <2>5, <1>a DEF Types, OneWriter
    <3> QED
      BY <3>1, <3>2, <3>3, <2>5 DEF OneWriter
  <2>7. CASE writers[p] = {}
    <3>1. /\ at' = [at EXCEPT ![r] = "writing"]
          /\ writers' = [writers EXCEPT ![p] = {r}]
          /\ content' = [content EXCEPT ![p] = {}]
      BY <2>1, <2>7 DEF Open
    <3>2. at'[r] = "writing" /\ path'[r] = p /\ writers'[p] = {r} /\ content'[p] = {}
      BY <3>1, <2>1, <2>3, <1>a DEF Types
    <3>3. \A x \in Path \ {p} : writers'[x] = writers[x] /\ content'[x] = content[x]
      BY <3>1, <1>a DEF Types
    <3>4. \A q \in Req \ {r} : at'[q] = at[q]
      BY <3>1, <1>a DEF Types
    <3>5. \A q \in Req : at'[q] = "writing" =>
            path'[q] \in Path /\ q \in writers'[path'[q]]
      BY <3>2, <3>3, <3>4, <2>3, <2>5, <2>7 DEF OneWriter
    <3>6. \A x \in Path : \A q \in writers'[x] :
            /\ at'[q] = "writing" /\ path'[q] = x
            /\ writers'[x] = {q} /\ content'[x] \subseteq {q}
      <4>1. ASSUME NEW x \in Path \ {p}, NEW q \in writers'[x]
            PROVE  /\ at'[q] = "writing" /\ path'[q] = x
                   /\ writers'[x] = {q} /\ content'[x] \subseteq {q}
        <5>1. q \in writers[x] /\ q \in Req /\ q # r
          BY <4>1, <3>3, <2>4, <1>a DEF Types
        <5> QED
          BY <5>1, <3>3, <3>4, <2>5 DEF OneWriter
      <4> QED
        BY <4>1, <3>2
    <3>7. \A x \in Path : \A q, s \in content'[x] : q = s
      BY <3>2, <3>3 DEF OneWriter
    <3> QED
      BY <3>5, <3>6, <3>7 DEF OneWriter
  <2> QED
    BY <2>6, <2>7
<1>8. ASSUME NEW r \in Req, WritePhoto(r) PROVE OneWriter'
  <2>1. /\ at[r] = "writing" /\ UNCHANGED <<at, path, writers>>
        /\ content' = [content EXCEPT ![path[r]] = @ \cup {r}]
    BY <1>8 DEF WritePhoto, reqVars
  <2>2. /\ path[r] \in Path /\ writers[path[r]] = {r}
        /\ content[path[r]] \subseteq {r}
    BY <2>1 DEF OneWriter
  <2>3. content'[path[r]] = {r}
    BY <2>1, <2>2, <1>a DEF Types
  <2>4. \A x \in Path \ {path[r]} : content'[x] = content[x]
    BY <2>1, <1>a DEF Types
  <2> QED
    BY <2>1, <2>2, <2>3, <2>4 DEF OneWriter
<1>9. ASSUME NEW r \in Req, ClosePhoto(r) PROVE OneWriter'
  <2>1. /\ at[r] = "writing" /\ UNCHANGED <<path, content>>
        /\ writers' = [writers EXCEPT ![path[r]] = @ \ {r}]
    BY <1>9 DEF ClosePhoto, Caught, Goes
  <2>2. at'[r] # "writing" /\ \A q \in Req \ {r} : at'[q] = at[q]
    BY <1>9, <1>a DEF ClosePhoto, Caught, Goes, Types
  <2>3. path[r] \in Path /\ writers[path[r]] = {r}
    BY <2>1 DEF OneWriter
  <2>4. writers'[path[r]] = {}
    BY <2>1, <2>3, <1>a DEF Types
  <2>5. \A x \in Path \ {path[r]} : writers'[x] = writers[x] /\ r \notin writers[x]
    BY <2>1, <1>a DEF Types, OneWriter
  <2>6. \A x \in Path : writers[x] \subseteq Req
    BY <1>a DEF Types
  <2> QED
    BY <2>1, <2>2, <2>3, <2>4, <2>5, <2>6 DEF OneWriter
<1> QED
  BY <1>2, <1>3, <1>4, <1>5, <1>6, <1>7, <1>8, <1>9, <1>b
     DEF Next, Step

(* With one writer a file holds the bytes of one request. *)
LEMMA OneWriterNotMixed == ASSUME OneWriter PROVE PhotosDoNotMix
<1> SUFFICES ASSUME NEW p \in Path PROVE Cardinality(content[p]) <= 1
  BY DEF PhotosDoNotMix
<1>1. CASE content[p] = {}
  BY <1>1, FS_EmptySet
<1>2. ASSUME NEW r \in content[p] PROVE Cardinality(content[p]) <= 1
  <2>1. content[p] = {r}
    BY <1>2 DEF OneWriter
  <2>2. Cardinality({r}) = 1
    BY FS_Singleton
  <2> QED
    BY <2>1, <2>2
<1> QED
  BY <1>1, <1>2

(* A photo file never holds bytes of two photos, however many requests are  *)
(* given its name (ZKTecoServer.cs 478-481, 527-540).                       *)
THEOREM PhotosSafe == Spec => []PhotosDoNotMix
<1>1. Init => OneWriter
  BY NoPathAssumption DEF Init, OneWriter
<1>2. LogInv /\ OneWriter /\ [Next]_vars => OneWriter'
  BY OneWriterStep
<1>3. OneWriter => PhotosDoNotMix
  BY OneWriterNotMixed
<1> QED
  BY <1>1, <1>2, <1>3, LogInvariant, PTL DEF Spec
=============================================================================
