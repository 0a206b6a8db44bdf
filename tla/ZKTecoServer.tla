----------------------------- MODULE ZKTecoServer -----------------------------
(***************************************************************************)
(* The attendance server of BNet.ZKTecoADMS: an HttpListener loop hands    *)
(* each request of the devices to a task of its own; a task reads the      *)
(* body, raises the events, saves photos, and answers.  A step is the code *)
(* between two awaits or two accesses to what tasks share: the cache of    *)
(* punch types, the photo files, and the token of StopAsync.               *)
(*                                                                         *)
(* The listener, the streams and the file system are modelled as the code  *)
(* uses them: a stopped listener refuses and ends GetContextAsync, a read  *)
(* or a write fails when its token is cancelled or its peer is gone, and   *)
(* FileShare.None refuses a second opening of a file.                      *)
(***************************************************************************)
EXTENDS Naturals, Sequences, FiniteSets

CONSTANTS
  Req,        \* the requests, of any number of devices
  Kinds,      \* what a device can send: see KindOK
  User,
  Type,       \* the punch types, "Unknown" among them
  MayThrow,   \* whether a handler of an event may throw
  MaxFaults,  \* bound: how often the listener fails by itself
  NoKind, NoPath

Path == User \X Type         \* one day's photos: <user>_<day>_<type>.jpg

\* A line of a log is a user and a type, or <<>> when it lacks a column.
KindOK(k) ==
  \/ k.table \in {"poll", "beat", "hello", "other"}
  \/ k.table = "log" /\ k.lines \in Seq((User \X Type) \cup {<<>>})
  \/ k.table = "photo" /\ k.user \in User /\ k.image \in BOOLEAN

ASSUME KindsAssumption ==
  /\ "Unknown" \in Type /\ MayThrow \in BOOLEAN /\ MaxFaults \in Nat
  /\ \A k \in Kinds : k # NoKind /\ KindOK(k)
ASSUME NoPathAssumption == NoPath \notin Path

VARIABLES
  kind,       \* what each request asks
  at,         \* where its task is
  done,       \* the lines of its log raised by OnAttendance
  erred,      \* whether OnError was raised for it
  late,       \* the requests whose 60 seconds have passed
  gone,       \* the requests whose device has hung up
  path,       \* the file a photo goes to
  last,       \* _lastPunchType
  writers,    \* the requests that have a file open
  content,    \* the requests whose bytes a file holds
  loop,       \* where ListenLoopAsync is
  listening,  \* _listener is started
  cancelled,  \* _cts
  stop,       \* where StopAsync is
  faults      \* failures of the listener so far

reqVars == <<kind, at, done, erred, late, gone, path>>
fileVars == <<last, writers, content>>
loopVars == <<loop, listening, cancelled, stop, faults>>
vars == <<reqVars, fileVars, loopVars>>

Init ==
  /\ kind = [r \in Req |-> NoKind] /\ at = [r \in Req |-> "unsent"]
  /\ done = [r \in Req |-> 0] /\ erred = [r \in Req |-> FALSE]
  /\ late = {} /\ gone = {} /\ path = [r \in Req |-> NoPath]
  /\ last = [u \in User |-> "Unknown"]
  /\ writers = [p \in Path |-> {}] /\ content = [p \in Path |-> {}]
  /\ loop = "off" /\ listening = FALSE /\ cancelled = FALSE
  /\ stop = "none" /\ faults = 0

----------------------------------------------------------------------------
(* The listen loop, and StopAsync.                                         *)

StartAsync ==
  /\ loop = "off" /\ stop = "none"
  /\ loop' = "test" /\ listening' = TRUE
  /\ UNCHANGED <<reqVars, fileVars, cancelled, stop, faults>>

LoopTest ==
  /\ loop = "test" /\ loop' = IF cancelled THEN "ended" ELSE "call"
  /\ UNCHANGED <<reqVars, fileVars, listening, cancelled, stop, faults>>

\* A listener stopped since the test throws; the loop takes that for a fault.
LoopCall ==
  /\ loop = "call" /\ loop' = IF listening THEN "get" ELSE "delay"
  /\ UNCHANGED <<reqVars, fileVars, listening, cancelled, stop, faults>>

LoopGet(r) ==
  /\ loop = "get" /\ at[r] = "arrived"
  /\ loop' = "test" /\ at' = [at EXCEPT ![r] = "spawned"]
  /\ UNCHANGED <<kind, done, erred, late, gone, path, fileVars, listening,
                 cancelled, stop, faults>>

LoopStopped ==
  /\ loop = "get" /\ ~listening /\ cancelled /\ loop' = "ended"
  /\ UNCHANGED <<reqVars, fileVars, listening, cancelled, stop, faults>>

LoopFault ==
  /\ loop = "get" /\ listening /\ faults < MaxFaults
  /\ faults' = faults + 1 /\ loop' = IF cancelled THEN "ended" ELSE "delay"
  /\ UNCHANGED <<reqVars, fileVars, listening, cancelled, stop>>

\* Task.Delay(1000, ct) throws what no catch of the loop sees.
LoopDelay ==
  /\ loop = "delay" /\ loop' = IF cancelled THEN "faulted" ELSE "test"
  /\ UNCHANGED <<reqVars, fileVars, listening, cancelled, stop, faults>>

StopAsync ==
  /\ stop = "none" /\ loop # "off" /\ stop' = "cancelling" /\ cancelled' = TRUE
  /\ UNCHANGED <<reqVars, fileVars, loop, listening, faults>>

StopForgetsListener ==              \* Changed for comparison: listener kept
  /\ stop = "cancelling" /\ stop' = "waiting"
  /\ UNCHANGED <<reqVars, fileVars, loop, listening, cancelled, faults>>

StopListener ==
  /\ stop = "cancelling" /\ stop' = "waiting" /\ listening' = FALSE
  /\ UNCHANGED <<reqVars, fileVars, loop, cancelled, faults>>

StopEnds ==
  /\ stop = "waiting" /\ loop \in {"ended", "faulted"}
  /\ stop' = IF loop = "ended" THEN "returned" ELSE "threw"
  /\ UNCHANGED <<reqVars, fileVars, loop, listening, cancelled, faults>>

----------------------------------------------------------------------------
(* A request.                                                              *)

Arrive(r, k) ==
  /\ listening /\ at[r] = "unsent"
  /\ kind' = [kind EXCEPT ![r] = k] /\ at' = [at EXCEPT ![r] = "arrived"]
  /\ UNCHANGED <<done, erred, late, gone, path, fileVars, loopVars>>

\* Where a task meets its token or its device; what happens to these while it
\* does something else, it meets there.
Waits == {"reading", "writing", "answering", "sorry"}
Ended == {"answered", "aborted", "left"}
Cancelled(r) == cancelled \/ r \in late

HangUp(r) ==
  /\ at[r] \in Waits /\ r \notin gone /\ gone' = gone \cup {r}
  /\ UNCHANGED <<kind, at, done, erred, late, path, fileVars, loopVars>>

\* requestCts.CancelAfter(60 s)
TimeOut(r) ==
  /\ at[r] \in Waits /\ r \notin late /\ late' = late \cup {r}
  /\ UNCHANGED <<kind, at, done, erred, gone, path, fileVars, loopVars>>

\* requestCts is disposed when the task ends.
Goes(r, pc) ==
  /\ at' = [at EXCEPT ![r] = pc]
  /\ late' = IF pc \in Ended THEN late \ {r} ELSE late
  /\ UNCHANGED <<kind, gone, path, loopVars>>

\* The catch of HandleRequestAsync raises OnError and answers once more.
Caught(r) == Goes(r, "sorry") /\ erred' = [erred EXCEPT ![r] = TRUE]

\* Task.Run does not run what was cancelled before: the context stays open.
Begin(r) ==
  /\ at[r] = "spawned"
  /\ Goes(r, IF cancelled THEN "left" ELSE "reading")
  /\ UNCHANGED <<done, erred, fileVars>>

Dispatched(k) ==
  CASE k.table = "log" -> "handling"
    [] k.table = "photo" -> IF k.image THEN "opening" ELSE "saved"
    [] k.table \in {"beat", "hello"} -> "saved"
    [] OTHER -> "answering"

\* The body has come; OnRawRequest is raised outside the inner try.
ReadBody(r, throws) ==
  /\ at[r] = "reading" /\ r \notin gone /\ ~Cancelled(r)
  /\ IF throws
     THEN MayThrow /\ Goes(r, "aborting") /\ erred' = [erred EXCEPT ![r] = TRUE]
     ELSE Goes(r, Dispatched(kind[r])) /\ UNCHANGED erred
  /\ UNCHANGED <<done, fileVars>>

ReadUntimed(r) ==            \* Changed for comparison: no timeout on the body
  /\ at[r] = "reading" /\ r \in gone
  /\ Goes(r, "aborting") /\ erred' = [erred EXCEPT ![r] = TRUE]
  /\ UNCHANGED <<done, fileVars>>

\* Cancelled or hung up: the catches of the task itself
ReadFails(r) ==
  /\ at[r] = "reading" /\ (r \in gone \/ Cancelled(r))
  /\ Goes(r, "aborting") /\ erred' = [erred EXCEPT ![r] = TRUE]
  /\ UNCHANGED <<done, fileVars>>

Abort(r) ==
  /\ at[r] = "aborting" /\ Goes(r, "aborted")
  /\ UNCHANGED <<done, erred, fileVars>>

\* One line: a line without its columns throws; otherwise its type is kept and
\* OnAttendance raised.
BadLine(r) ==
  /\ at[r] = "handling" /\ done[r] < Len(kind[r].lines)
  /\ kind[r].lines[done[r] + 1] = <<>> /\ Caught(r)
  /\ UNCHANGED <<done, fileVars>>

Line(r, throws) ==
  /\ at[r] = "handling" /\ done[r] < Len(kind[r].lines)
  /\ LET line == kind[r].lines[done[r] + 1]
     IN  line # <<>> /\ last' = [last EXCEPT ![line[1]] = line[2]]
  /\ done' = [done EXCEPT ![r] = @ + 1]
  /\ IF throws THEN MayThrow /\ Caught(r)
     ELSE Goes(r, "handling") /\ UNCHANGED erred
  /\ UNCHANGED <<writers, content>>

EndOfLogEarly(r) ==          \* Changed for comparison: the last line forgotten
  /\ at[r] = "handling" /\ done[r] + 1 >= Len(kind[r].lines)
  /\ Goes(r, "answering") /\ UNCHANGED <<done, erred, fileVars>>

EndOfLog(r) ==
  /\ at[r] = "handling" /\ done[r] = Len(kind[r].lines)
  /\ Goes(r, "answering") /\ UNCHANGED <<done, erred, fileVars>>

OpenShared(r, p) ==          \* Changed for comparison: without FileShare.None
  /\ writers' = [writers EXCEPT ![p] = @ \cup {r}]
  /\ content' = [content EXCEPT ![p] = {}]
  /\ at' = [at EXCEPT ![r] = "writing"] /\ UNCHANGED erred

\* FileMode.Create and FileShare.None
Open(r, p) ==
  IF writers[p] # {}
  THEN /\ at' = [at EXCEPT ![r] = "sorry"] /\ erred' = [erred EXCEPT ![r] = TRUE]
       /\ UNCHANGED <<writers, content>>
  ELSE /\ writers' = [writers EXCEPT ![p] = {r}]
       /\ content' = [content EXCEPT ![p] = {}]
       /\ at' = [at EXCEPT ![r] = "writing"] /\ UNCHANGED erred

\* The name takes the type cached last for the user.
OpenPhoto(r) ==
  /\ at[r] = "opening"
  /\ LET p == <<kind[r].user, last[kind[r].user]>>
     IN  path' = [path EXCEPT ![r] = p] /\ Open(r, p)
  /\ UNCHANGED <<kind, done, late, gone, last, loopVars>>

\* The bytes are written in pieces; closing the file ends its use by r.  A
\* cancellation that comes after the last piece is not seen.
WritePhoto(r) ==
  /\ at[r] = "writing" /\ r \notin content[path[r]] /\ ~Cancelled(r)
  /\ content' = [content EXCEPT ![path[r]] = @ \cup {r}]
  /\ UNCHANGED <<reqVars, last, writers, loopVars>>

ClosePhoto(r) ==
  /\ at[r] = "writing"
  /\ writers' = [writers EXCEPT ![path[r]] = @ \ {r}]
  /\ \/ r \in content[path[r]] /\ Goes(r, "saved") /\ UNCHANGED erred
     \/ Cancelled(r) /\ Caught(r)
  /\ UNCHANGED <<done, last, content>>

\* OnHeartbeat, OnHandshake or OnPhotoReceived
Raise(r, throws) ==
  /\ at[r] = "saved"
  /\ IF throws THEN MayThrow /\ Caught(r)
     ELSE Goes(r, "answering") /\ UNCHANGED erred
  /\ UNCHANGED <<done, fileVars>>

\* RespondAsync
Answer(r) ==
  /\ at[r] = "answering"
  /\ IF Cancelled(r) \/ r \in gone THEN Caught(r)
     ELSE Goes(r, "answered") /\ UNCHANGED erred
  /\ UNCHANGED <<done, fileVars>>

\* The second answer is under the same token; what it throws is ignored.
AnswerSorry(r) ==
  /\ at[r] = "sorry"
  /\ Goes(r, IF Cancelled(r) \/ r \in gone THEN "left" ELSE "answered")
  /\ UNCHANGED <<done, erred, fileVars>>

Step(r) ==
  \/ Begin(r) \/ ReadFails(r) \/ Abort(r)
  \/ BadLine(r) \/ (\E throws \in BOOLEAN : Line(r, throws)) \/ EndOfLog(r)
  \/ OpenPhoto(r) \/ WritePhoto(r) \/ ClosePhoto(r)
  \/ (\E throws \in BOOLEAN : Raise(r, throws))
  \/ Answer(r) \/ AnswerSorry(r)

Loop == LoopTest \/ LoopCall \/ LoopStopped \/ LoopDelay

Next ==
  \/ StartAsync \/ Loop \/ LoopFault
  \/ StopAsync \/ StopListener \/ StopEnds
  \/ \E r \in Req, k \in Kinds : Arrive(r, k)
  \/ \E r \in Req : LoopGet(r) \/ HangUp(r) \/ TimeOut(r) \/ Step(r)
  \/ \E r \in Req, throws \in BOOLEAN : ReadBody(r, throws)

Spec == Init /\ [][Next]_vars

\* The loop, the tasks, the timers and StopAsync are run by the thread pool; a
\* device need not send its body, and nobody need call StopAsync.
Fairness ==
  /\ WF_vars(Loop) /\ WF_vars(StopListener) /\ WF_vars(StopEnds)
  /\ WF_vars(\E r \in Req : LoopGet(r))
  /\ \A r \in Req : WF_vars(Step(r)) /\ WF_vars(TimeOut(r))

FairSpec == Spec /\ Fairness

----------------------------------------------------------------------------
(* Properties.                                                             *)

IsLog(r) == kind[r] # NoKind /\ kind[r].table = "log"

\* The batches of punches that the logs are, as PunchLog sees them.
logState ==
  [r \in Req |-> IF ~IsLog(r) THEN "none"
                ELSE IF at[r] = "answered" THEN "acknowledged"
                ELSE IF at[r] \in Ended THEN "given up" ELSE "open"]
logSize == [r \in Req |-> IF IsLog(r) THEN Len(kind[r].lines) ELSE 0]
logFailed == [r \in Req |-> IsLog(r) /\ erred[r]]
LogSizes == {Len(k.lines) : k \in {l \in Kinds : l.table = "log"}}

Punches == INSTANCE PunchLog WITH
  Batch <- Req, Size <- LogSizes, state <- logState, size <- logSize,
  delivered <- done, failed <- logFailed

\* The server keeps the promise of PunchLog: whatever line is bad, whichever
\* handler throws, whatever times out, is cut off or stopped, OK answers a log
\* only if OnAttendance was raised once for each of its lines, in order, or
\* OnError was raised for the log (HandleAttLogAsync, 343-414; the catch, 261).
ImplementsPunchLog == Punches!Spec

\* A photo file never holds bytes of two photos, although two tasks can be given
\* the same name: user, day and type have no time in them (478-481, 527-540).
PhotosDoNotMix == \A p \in Path : Cardinality(content[p]) <= 1

\* The task of an accepted request ends: at the latest when its 60 seconds have
\* passed, also if the device never sends the body (152-180).
RequestsEnd ==
  \A r \in Req : (at[r] = "spawned") ~> (at[r] \in Ended)

\* A call of StopAsync ends, wherever it meets the loop; it may throw, when it
\* meets the loop between its test and GetContextAsync or in the delay (124-130).
StopReturns == (stop = "cancelling") ~> (stop \in {"returned", "threw"})

\* The comment in the task (176-177): exceptions do not leave contexts open.
\* They do: the catch of HandleRequestAsync ignores that its answer fails too.
ContextsClosed ==
  \A r \in Req : at[r] = "left" => cancelled \/ r \in gone
=============================================================================
