------------------------------- MODULE ImapMailer -------------------------------
(***************************************************************************)
(* BNet.IMAP.Mailer, MailConfig: one object shared by application tasks,   *)
(* by the background IDLE or polling loop, by the OnNewMailAsync handler   *)
(* the loop calls, and by LogoutAsync.  They meet in the semaphore _lock,  *)
(* in the fields _reader and _writer (one connection at a time is          *)
(* current, but a reconnection leaves the old one open) and in the folder  *)
(* the server has selected.                                                *)
(*                                                                         *)
(* A command with its tagged answer is one step: whoever sends one reads   *)
(* until the answer, and a second read of a StreamReader that is already   *)
(* being read throws.  Only the IDLE loop waits for a line without _lock,  *)
(* and that wait is a state of its own.  Reads take no CancellationToken   *)
(* (1475): the code looks at it between characters.                        *)
(***************************************************************************)
EXTENDS Naturals, Sequences, FiniteSets, FiniteSetsExt

CONSTANTS Caller,     \* application tasks that call the public methods
          Handler,    \* the OnNewMailAsync handler, run by the loop
          Idle,       \* the folder listened to, _idleFolder
          Other,      \* another folder of the account
          NoFolder,   \* nothing selected
          Empty,      \* the blank MailMessage FETCH of a missing UID yields
          Calls,      \* what callers may call, among Operation
          HandlerCalls, \* what the handler may call
          Servers,    \* the capability sets of the servers considered
          MaxOps,     \* bound: calls of a task
          MaxMail,    \* bound: messages that ever reach Idle
          MaxConns,   \* bound: connections ever opened
          MaxFaults   \* bound: refusals and lost connections

Operation == {"read", "delete", "move", "logout"}
Task == Caller \cup {Handler}
Folder == {Idle, Other}
Conn == 1..MaxConns

ASSUME ImapAssumption ==
  /\ Handler \notin Caller
  /\ IsFiniteSet(Caller)
  /\ Idle # Other
  /\ NoFolder \notin Folder
  /\ Empty \notin Nat
  /\ Servers \subseteq SUBSET {"IDLE", "MOVE"}
  /\ Calls \cup HandlerCalls \subseteq Operation
  /\ {MaxOps, MaxMail, MaxFaults} \subseteq Nat
  /\ MaxConns \in Nat \ {0}

VARIABLES
  permits,       \* CurrentCount of _lock
  current,       \* the connection _reader and _writer are on; 0 when null
  isConnected,   \* IsConnected
  capabilities,  \* _capabilities, those the code tests
  cancelled,     \* _idleCts has been cancelled
  task,          \* application tasks and the handler
  loop,          \* RunIdleLoopAsync or RunPollingLoopAsync, and its seeding
  logout,        \* LogoutAsync: where it is, and whether the handler called it
  conn,          \* what the server knows of each connection
  opened,        \* connections opened so far
  mail,          \* the messages of each folder on the server
  nextUid,       \* the UID the next message of a folder gets
  reports,       \* events raised, in order
  skipped,       \* UIDs whose fetch threw and was swallowed
  deleted,       \* messages DeleteMessageAsync was called for
  faults         \* faults so far

clientVars == <<permits, current, isConnected, capabilities>>
serverVars == <<conn, opened, mail, nextUid, faults>>
historyVars == <<reports, skipped, deleted>>
vars == <<clientVars, cancelled, task, loop, logout, serverVars, historyVars>>

(* Where a task, and the loop, are inside a locked section.  In            *)
(* "hung" ReadTaggedAsync waits for an answer that does not come.          *)
Locked == {"ensure", "select", "search", "move", "copy", "store", "expunge",
           "hung"}
LoopLocked == {"ensure", "select", "search", "fetch", "sendIdle", "done",
               "hung"}

Closed == [open |-> FALSE, selected |-> NoFolder, idling |-> FALSE,
           news |-> FALSE]
Fresh == [Closed EXCEPT !.open = TRUE]

(* ConnectAsync has succeeded.  Idle is empty; Other holds a message whose *)
(* UID a message of Idle may have too.                                     *)
Init ==
  /\ permits = 1
  /\ current = 1
  /\ isConnected = TRUE
  /\ capabilities \in Servers
  /\ cancelled = FALSE
  /\ task = [t \in Task |-> [pc |-> "idle", op |-> "none", uid |-> 0,
                             calls |-> 0]]
  /\ loop = [pc |-> "off", mode |-> "seed", last |-> 0, high |-> 0,
             fresh |-> <<>>, on |-> 0, partial |-> FALSE, own |-> FALSE]
  /\ logout = [pc |-> "idle", inHandler |-> FALSE]
  /\ conn = [k \in Conn |-> IF k = 1 THEN Fresh ELSE Closed]
  /\ opened = 1
  /\ mail = [f \in Folder |->
               IF f = Idle THEN {}
               ELSE {[uid |-> 2, msg |-> 0, marked |-> FALSE]}]
  /\ nextUid = [f \in Folder |-> IF f = Idle THEN 1 ELSE 3]
  /\ reports = <<>>
  /\ skipped = {}
  /\ deleted = {}
  /\ faults = 0

-----------------------------------------------------------------------------
(* The server, and what a command comes back with.                         *)

(* The IDLE loop has a ReadAsync outstanding on connection k.              *)
Reading(k) == loop.pc = "listen" /\ loop.on = k

(* SendAsync and ReadTaggedAsync: a null writer, a broken connection and a *)
(* reader in use throw; at the end of the stream ReadLineRawAsync returns  *)
(* an empty line each time it is called, and no answer ever comes.  A      *)
(* server takes anything but DONE as the end of IDLE and answers BAD.      *)
Answers(needsFolder) ==
  IF current = 0 THEN {"throw"}
  ELSE IF ~conn[current].open THEN {"throw", "never"}
  ELSE IF Reading(current) THEN {"throw"}
  ELSE IF conn[current].idling THEN {"no"}
  ELSE IF needsFolder /\ conn[current].selected = NoFolder THEN {"no"}
  ELSE {"ok"} \cup (IF faults < MaxFaults THEN {"refused"} ELSE {})

(* The loop's commands look at the token once they have been sent.         *)
LoopAnswers(needsFolder) ==
  IF cancelled /\ current # 0 THEN {"cancel"} ELSE Answers(needsFolder)

Negative == {"no", "refused"}

(* The server carries out a command it has read unless it refuses it, even *)
(* when the client never reads the answer.                                 *)
Executed(ans, needsFolder) ==
  /\ current # 0
  /\ conn[current].open
  /\ ~conn[current].idling
  /\ needsFolder => conn[current].selected # NoFolder
  /\ ans \notin Negative

Place(f, msg) ==
  /\ mail' = [mail EXCEPT
       ![f] = @ \cup {[uid |-> nextUid[f], msg |-> msg, marked |-> FALSE]}]
  /\ nextUid' = [nextUid EXCEPT ![f] = @ + 1]

WithUid(f, u) == {m \in mail[f] : m.uid = u}

(* What UID COPY, UID MOVE, UID STORE +FLAGS (\Deleted) and EXPUNGE do to  *)
(* the selected folder f; a UID that is not there is ignored.              *)
Effect(cmd, f, u) ==
  CASE cmd = "copy" /\ WithUid(f, u) # {} ->
         Place(Other, (CHOOSE m \in WithUid(f, u) : TRUE).msg)
    [] cmd = "move" /\ WithUid(f, u) # {} /\ f # Other ->
         LET m == CHOOSE m \in WithUid(f, u) : TRUE IN
           /\ mail' = [mail EXCEPT ![f] = @ \ {m},
                 ![Other] = @ \cup {[m EXCEPT !.uid = nextUid[Other]]}]
           /\ nextUid' = [nextUid EXCEPT ![Other] = @ + 1]
    [] cmd = "store" ->
         /\ mail' = [mail EXCEPT
              ![f] = (@ \ WithUid(f, u)) \cup
                     {[m EXCEPT !.marked = TRUE] : m \in WithUid(f, u)}]
         /\ UNCHANGED nextUid
    [] cmd = "expunge" ->
         /\ mail' = [mail EXCEPT ![f] = {m \in @ : ~m.marked}]
         /\ UNCHANGED nextUid
    [] OTHER -> UNCHANGED <<mail, nextUid>>

(* An answered command carries the untagged EXISTS the server owed, which  *)
(* ReadTaggedAsync collects and nobody looks at.                           *)
Served(ans, cmd, f, u) ==
  LET k == current
      sel == cmd \notin {"select", "idle", "noop"}
      done == Executed(ans, sel)
  IN  /\ conn' = IF k = 0 \/ ~conn[k].open THEN conn
                 ELSE [conn EXCEPT ![k] =
                   [conn[k] EXCEPT
                     !.idling = cmd = "idle" /\ done,
                     !.news = @ /\ (cmd = "idle" \/ ans \in {"throw", "cancel"}),
                     !.selected = IF cmd # "select" THEN @
                                  ELSE IF done THEN f ELSE NoFolder]]
      /\ IF done THEN Effect(cmd, conn[k].selected, u)
                 ELSE UNCHANGED <<mail, nextUid>>
      /\ faults' = faults + (IF ans = "refused" THEN 1 ELSE 0)

(* ReadTaggedAsync's last lines: NO and BAD clear IsConnected.             *)
Answered(ans) == isConnected' = (isConnected /\ ans \notin Negative)

(* ConnectCoreAsync: a new connection takes the fields over; the old one   *)
(* is not closed.  A failure leaves the old reader and writer in place.    *)
ConnectCore ==
  \/ /\ opened < MaxConns
     /\ opened' = opened + 1
     /\ current' = opened + 1
     /\ conn' = [conn EXCEPT ![opened + 1] = Fresh]
     /\ isConnected' = TRUE
     /\ UNCHANGED <<mail, nextUid, faults>>
  \/ /\ opened = MaxConns \/ faults < MaxFaults
     /\ isConnected' = FALSE
     /\ faults' = IF opened = MaxConns THEN faults ELSE faults + 1
     /\ UNCHANGED <<opened, current, conn, mail, nextUid>>

(* EnsureConnectedAsync, whose result every caller ignores: a NOOP, and a  *)
(* reconnection unless it was answered OK.  The BAD of a connection that   *)
(* idles, and a reader in use, both end in a reconnection.                 *)
EnsureConnected(ans) ==
  CASE isConnected /\ ans = "never" -> UNCHANGED <<isConnected, current, serverVars>>
    [] isConnected /\ ans = "ok" ->
         /\ Served(ans, "noop", Idle, 0)
         /\ UNCHANGED <<isConnected, current, opened>>
    [] OTHER -> ConnectCore

-----------------------------------------------------------------------------
(* The public operations: WaitAsync, a section of commands, Release.       *)

(* The command that follows in an operation, "idle" when it is over.       *)
NextStep(op, pc) ==
  CASE pc = "ensure" -> "select"
    [] pc = "select" /\ op = "read" -> "search"
    [] pc = "select" /\ op = "delete" -> "store"
    [] pc = "select" /\ op = "move" ->
         IF "MOVE" \in capabilities THEN "move" ELSE "copy"
    [] pc = "copy" -> "store"
    [] pc = "store" -> "expunge"
    [] OTHER -> "idle"

(* GetInboxAsync, DeleteMessageAsync or MoveToFolderAsync is called: reads *)
(* are of Other, the rest takes a message of Idle.                         *)
Call(t, op, u) ==
  /\ task[t].pc = "idle"
  /\ task[t].calls < MaxOps
  /\ t = Handler => loop.pc = "handler"
  /\ op \in (IF t = Handler THEN HandlerCalls ELSE Calls) \ {"logout"}
  /\ IF op = "read" THEN u = 0 ELSE WithUid(Idle, u) # {}
  /\ task' = [task EXCEPT ![t] = [task[t] EXCEPT !.pc = "wait",
                                    !.op = op, !.uid = u, !.calls = @ + 1]]
  /\ deleted' = IF op = "delete"
                THEN deleted \cup {m.msg : m \in WithUid(Idle, u)} ELSE deleted
  /\ UNCHANGED <<clientVars, cancelled, loop, logout, serverVars, reports,
                 skipped>>

Acquire(t) ==
  /\ task[t].pc = "wait"
  /\ permits = 1
  /\ permits' = 0
  /\ task' = [task EXCEPT ![t].pc = "ensure"]
  /\ UNCHANGED <<current, isConnected, capabilities, cancelled, loop, logout,
                 serverVars, historyVars>>

(* finally { _lock.Release(); }, which throws when nobody holds it.        *)
Release == permits' = 1

Ensure(t, ans) ==
  /\ task[t].pc = "ensure"
  /\ ans \in Answers(FALSE)
  /\ EnsureConnected(ans)
  /\ task' = [task EXCEPT ![t].pc =
                IF isConnected /\ ans = "never" THEN "hung" ELSE "select"]
  /\ UNCHANGED <<permits, capabilities, cancelled, loop, logout, historyVars>>

(* Changed for comparison: a refusal does not end the operation.           *)
CommandUnchecked(t, ans) ==
  LET cmd == task[t].pc
      next == CASE ans = "never" -> "hung"
                [] ans \in {"ok", "refused"} -> NextStep(task[t].op, cmd)
                [] OTHER -> "idle"
  IN  /\ cmd \in Locked \ {"ensure", "hung"}
      /\ ans \in Answers(cmd # "select")
      /\ Served(ans, cmd, IF task[t].op = "read" THEN Other ELSE Idle,
                task[t].uid)
      /\ Answered(ans)
      /\ task' = [task EXCEPT ![t].pc = next]
      /\ IF next = "idle" THEN Release ELSE UNCHANGED permits
      /\ UNCHANGED <<current, capabilities, cancelled, loop, logout, opened,
                     historyVars>>

(* One command of an operation.  An exception or a refusal ends it; so     *)
(* does the answer to its last command.                                    *)
Command(t, ans) ==
  LET cmd == task[t].pc
      next == CASE ans = "never" -> "hung"
                [] ans = "ok" -> NextStep(task[t].op, cmd)
                [] OTHER -> "idle"
  IN  /\ cmd \in Locked \ {"ensure", "hung"}
      /\ ans \in Answers(cmd # "select")
      /\ Served(ans, cmd, IF task[t].op = "read" THEN Other ELSE Idle,
                task[t].uid)
      /\ Answered(ans)
      /\ task' = [task EXCEPT ![t] =
           IF next = "idle" THEN [@ EXCEPT !.pc = "idle", !.op = "none", !.uid = 0]
           ELSE [@ EXCEPT !.pc = next]]
      /\ IF next = "idle" THEN Release ELSE UNCHANGED permits
      /\ UNCHANGED <<current, capabilities, cancelled, loop, logout, opened,
                     historyVars>>

-----------------------------------------------------------------------------
(* The loop.  "mode" says what a wait for _lock or a locked step is for.   *)

SetLoop(new) == loop' = new
GoTo(pc, mode) == [loop EXCEPT !.pc = pc, !.mode = mode]

(* The head of either loop.                                                *)
Again(l) == IF "IDLE" \in capabilities
            THEN [l EXCEPT !.pc = "wait", !.mode = "enter"]
            ELSE [l EXCEPT !.pc = "poll", !.mode = "batch"]

(* ListenAsync calls StartIdleAsync, which seeds the last known UID.       *)
Listen ==
  /\ loop.pc = "off"
  /\ logout.pc = "idle"
  /\ SetLoop(GoTo("wait", "seed"))
  /\ UNCHANGED <<clientVars, cancelled, task, logout, serverVars, historyVars>>

(* Every WaitAsync(ct) of the loop: a cancelled token wins over a permit.  *)
(* The loop ends, or, in the finally after the handler, the exception is   *)
(* swallowed by the catch around the message and the batch goes on.        *)
LoopAcquire ==
  /\ loop.pc \in {"wait", "relock"}
  /\ IF cancelled
     THEN /\ SetLoop([loop EXCEPT !.pc = IF @ = "relock" THEN "fetch" ELSE "end"])
          /\ UNCHANGED permits
     ELSE /\ permits = 1
          /\ permits' = 0
          /\ SetLoop([loop EXCEPT !.pc =
               CASE loop.pc = "relock" -> "fetch"
                 [] loop.pc = "wait" /\ loop.mode = "enter" -> "sendIdle"
                 [] loop.pc = "wait" /\ loop.mode = "redone" -> "done"
                 [] OTHER -> "ensure"])
  /\ UNCHANGED <<current, isConnected, capabilities, cancelled, task, logout,
                 serverVars, historyVars>>

(* An exception in a locked section of the loop: _lock is released; the    *)
(* loop ends on a cancellation, on a failure while seeding (ListenAsync    *)
(* throws) and on a failure inside its own error handler, and otherwise    *)
(* goes through the 5 s delay.                                             *)
LoopThrows(ans) ==
  /\ Release
  /\ SetLoop([loop EXCEPT !.pc =
       IF ans = "cancel" \/ loop.mode \in {"seed", "recover"} THEN "end"
       ELSE "backoff"])

(* Task.Delay(5000, ct), then the error handler waits for _lock.           *)
Backoff ==
  /\ loop.pc = "backoff"
  /\ SetLoop(IF cancelled THEN GoTo("end", loop.mode)
             ELSE GoTo("wait", "recover"))
  /\ UNCHANGED <<clientVars, cancelled, task, logout, serverVars, historyVars>>

(* EnsureConnectedAsync in the loop.  After a cancellation the NOOP fails  *)
(* and the connection that replaces it stops before its login.  The        *)
(* polling loop's error handler does nothing else.                         *)
LoopEnsure(ans) ==
  /\ loop.pc = "ensure"
  /\ ans \in LoopAnswers(FALSE)
  /\ IF ans = "cancel"
     THEN /\ isConnected' = FALSE
          /\ opened' = Min({opened + 1, MaxConns})
          /\ current' = IF opened < MaxConns THEN opened + 1 ELSE current
          /\ conn' = [conn EXCEPT ![opened'] = IF opened < MaxConns THEN Fresh ELSE @]
          /\ UNCHANGED <<mail, nextUid, faults>>
     ELSE EnsureConnected(ans)
  /\ IF isConnected /\ ans = "never"
     THEN SetLoop(GoTo("hung", loop.mode)) /\ UNCHANGED permits
     ELSE IF loop.mode = "recover" /\ "IDLE" \notin capabilities
     THEN SetLoop(Again(loop)) /\ Release
     ELSE SetLoop(GoTo("select", loop.mode)) /\ UNCHANGED permits
  /\ UNCHANGED <<capabilities, cancelled, task, logout, historyVars>>

(* Changed for comparison: the folder is taken to be selected still.       *)
LoopSelectSkipped(ans) ==
  /\ loop.pc = "select"
  /\ ans = "ok"
  /\ IF loop.mode = "recover" THEN SetLoop(Again(loop)) /\ Release
     ELSE /\ SetLoop([loop EXCEPT !.pc = "search", !.own = TRUE])
          /\ UNCHANGED permits
  /\ UNCHANGED <<current, isConnected, capabilities, cancelled, task, logout,
                 serverVars, historyVars>>

(* SelectFolderInternalAsync(_idleFolder).                                 *)
LoopSelect(ans) ==
  /\ loop.pc = "select"
  /\ ans \in LoopAnswers(FALSE)
  /\ Served(ans, "select", Idle, 0)
  /\ Answered(ans)
  /\ CASE ans = "never" -> SetLoop(GoTo("hung", loop.mode)) /\ UNCHANGED permits
       [] ans = "ok" /\ loop.mode = "recover" -> SetLoop(Again(loop)) /\ Release
       [] ans = "ok" /\ loop.mode # "recover" ->
            /\ SetLoop([loop EXCEPT !.pc = "search", !.own = TRUE])
            /\ UNCHANGED permits
       [] OTHER -> LoopThrows(ans)
  /\ UNCHANGED <<current, capabilities, cancelled, task, logout, opened,
                 historyVars>>

(* UID SEARCH ALL, answered with nothing when it is refused.               *)
Found(ans) == IF ans = "ok"
              THEN {m.uid : m \in mail[conn[current].selected]} ELSE {}

(* The UIDs in the order of the answer: servers list them ascending.       *)
Ascending(S) ==
  CHOOSE s \in [1..Cardinality(S) -> S] :
    \A i, j \in DOMAIN s : i < j => s[i] < s[j]

(* Changed for comparison: the first UID is taken for the highest.         *)
SeedFirst(ans) == IF Found(ans) = {} THEN 0 ELSE Min(Found(ans))

(* GetHighestUidAsync: the highest UID, 0 when nothing was found.          *)
Seed(ans) == Max(Found(ans) \cup {0})

(* The search of GetHighestUidAsync has its answer and StartIdleAsync      *)
(* starts a loop; FetchAndFireNewMessagesInternalAsync takes the UIDs      *)
(* above the last known one.                                               *)
LoopSearch(ans) ==
  /\ loop.pc = "search"
  /\ ans \in LoopAnswers(TRUE)
  /\ Served(ans, "search", Idle, 0)
  /\ Answered(ans)
  /\ CASE ans = "never" -> SetLoop(GoTo("hung", loop.mode)) /\ UNCHANGED permits
       [] ans \in {"ok", "no", "refused"} /\ loop.mode = "seed" ->
            /\ Release
            /\ SetLoop(Again([loop EXCEPT !.last = Seed(ans)]))
       [] ans \in {"ok", "no", "refused"} /\ loop.mode # "seed" ->
            /\ SetLoop([loop EXCEPT !.pc = "fetch", !.high = loop.last,
                 !.fresh = Ascending({u \in Found(ans) : u > loop.last})])
            /\ UNCHANGED permits
       [] OTHER -> LoopThrows(ans)
  /\ UNCHANGED <<current, capabilities, cancelled, task, logout, opened,
                 historyVars>>

(* FetchFullMessageAsync looks at no answer: what finds nothing becomes a  *)
(* blank message.  When its first FETCH is refused it asks for the whole   *)
(* message (1281), which may be refused too.                               *)
Contents(ans, u) ==
  LET found == WithUid(conn[current].selected, u)
  IN  IF ans = "no" \/ found = {} THEN {Empty}
      ELSE {(CHOOSE m \in found : TRUE).msg} \cup
           (IF ans = "refused" THEN {Empty} ELSE {})

(* Changed for comparison: an exception ends the batch.                    *)
LoopFetchAborts(ans) ==
  LET u == Head(loop.fresh)
      rest == [loop EXCEPT !.fresh = Tail(@)]
  IN  /\ loop.pc = "fetch"
      /\ loop.fresh # <<>>
      /\ ans \in LoopAnswers(TRUE)
      /\ Served(ans, "fetch", Idle, 0)
      /\ Answered(ans)
      /\ CASE ans = "never" ->
             /\ SetLoop(GoTo("hung", loop.mode))
             /\ UNCHANGED <<permits, reports, skipped>>
           [] ans \in {"throw", "cancel"} ->
             /\ LoopThrows(ans)
             /\ UNCHANGED <<reports, skipped>>
           [] OTHER ->
             /\ SetLoop([rest EXCEPT !.pc = "handler", !.own = FALSE,
                                     !.high = Max({@, u})])
             /\ \E c \in Contents(ans, u) :
                  reports' = Append(reports, [uid |-> u, msg |-> c,
                               own |-> loop.own, refused |-> ans = "refused"])
             /\ Release
             /\ UNCHANGED skipped
      /\ UNCHANGED <<current, capabilities, cancelled, task, logout, opened,
                     deleted>>

(* One message of a batch: it is fetched from whatever folder is selected, *)
(* counted as known, and handed to the handler with _lock released.  An    *)
(* exception is swallowed and the next message has its turn.               *)
LoopFetch(ans) ==
  LET u == Head(loop.fresh)
      rest == [loop EXCEPT !.fresh = Tail(@)]
  IN  /\ loop.pc = "fetch"
      /\ loop.fresh # <<>>
      /\ ans \in LoopAnswers(TRUE)
      /\ Served(ans, "fetch", Idle, 0)
      /\ Answered(ans)
      /\ CASE ans = "never" ->
             /\ SetLoop(GoTo("hung", loop.mode))
             /\ UNCHANGED <<permits, reports, skipped>>
           [] ans \in {"throw", "cancel"} ->
             /\ SetLoop(rest)
             /\ skipped' = skipped \cup {u}
             /\ UNCHANGED <<permits, reports>>
           [] OTHER ->
             /\ SetLoop([rest EXCEPT !.pc = "handler", !.own = FALSE,
                                     !.high = Max({@, u})])
             /\ \E c \in Contents(ans, u) :
                  reports' = Append(reports, [uid |-> u, msg |-> c,
                               own |-> loop.own, refused |-> ans = "refused"])
             /\ Release
             /\ UNCHANGED skipped
      /\ UNCHANGED <<current, capabilities, cancelled, task, logout, opened,
                     deleted>>

(* Changed for comparison: _lock is not taken again after the handler.     *)
HandlerReturnsUnlocked ==
  /\ loop.pc = "handler"
  /\ task[Handler].pc = "idle"
  /\ SetLoop(GoTo("fetch", loop.mode))
  /\ UNCHANGED <<clientVars, cancelled, task, logout, serverVars, historyVars>>

(* The handler returns or throws; the finally takes _lock again.           *)
HandlerReturns ==
  /\ loop.pc = "handler"
  /\ task[Handler].pc = "idle"
  /\ SetLoop(GoTo("relock", loop.mode))
  /\ UNCHANGED <<clientVars, cancelled, task, logout, serverVars, historyVars>>

(* Changed for comparison: the last known UID is read from the folder.     *)
BatchEndsReseeded ==
  /\ loop.pc = "fetch"
  /\ loop.fresh = <<>>
  /\ SetLoop(Again([loop EXCEPT
       !.last = Max({m.uid : m \in mail[Idle]} \cup {@}), !.high = 0,
       !.own = FALSE]))
  /\ Release
  /\ UNCHANGED <<current, isConnected, capabilities, cancelled, task, logout,
                 serverVars, historyVars>>

(* The batch is over.  The outer finally releases _lock, also when the     *)
(* loop has lost it.                                                       *)
BatchEnds ==
  /\ loop.pc = "fetch"
  /\ loop.fresh = <<>>
  /\ SetLoop(Again([loop EXCEPT !.last = loop.high, !.high = 0,
                               !.own = FALSE]))
  /\ Release
  /\ UNCHANGED <<current, isConnected, capabilities, cancelled, task, logout,
                 serverVars, historyVars>>

(* RunPollingLoopAsync: 30 s, then the lock.                               *)
Poll ==
  /\ loop.pc = "poll"
  /\ SetLoop(IF cancelled THEN GoTo("end", "batch") ELSE GoTo("wait", "batch"))
  /\ UNCHANGED <<clientVars, cancelled, task, logout, serverVars, historyVars>>

(* IDLE is sent and one line read: anything but a continuation, the end of *)
(* the stream and an EXISTS the server sends first included, ends the loop *)
(* for good.                                                               *)
SendIdle(ans) ==
  /\ loop.pc = "sendIdle"
  /\ ans \in LoopAnswers(FALSE)
  /\ Served(ans, "idle", Idle, 0)
  /\ \/ /\ ans = "ok"
        /\ SetLoop([GoTo("listen", "redone") EXCEPT !.on = current,
                                                   !.partial = FALSE])
        /\ Release
     \/ /\ \/ ans \in {"no", "refused", "never"}
           \/ ans = "ok" /\ conn[current].news
        /\ SetLoop(GoTo("end", loop.mode))
        /\ Release
     \/ /\ ans \in {"throw", "cancel"}
        /\ LoopThrows(ans)
  /\ UNCHANGED <<current, isConnected, capabilities, cancelled, task, logout,
                 opened, historyVars>>

(* Changed for comparison: the listening loop does not look at the token.  *)
LoopLineDeaf(exists) ==
  LET k == loop.on IN
  /\ loop.pc = "listen"
  /\ exists => conn[k].open /\ conn[k].idling /\ conn[k].news
  /\ LET leave(pc) == [loop EXCEPT !.pc = pc, !.on = 0, !.partial = FALSE] IN
       SetLoop(CASE current = 0 -> leave("backoff")
                 [] current \notin {0, k} ->
                      [loop EXCEPT !.on = current, !.partial = conn[k].open]
                 [] current = k /\ exists /\ ~loop.partial -> leave("wait")
                 [] OTHER -> [loop EXCEPT !.partial = FALSE])
  /\ conn' = [conn EXCEPT ![k].news = @ /\ ~exists]
  /\ UNCHANGED <<clientVars, cancelled, task, logout, opened, mail, nextUid,
                 faults, historyVars>>

(* A line, or the end of the stream, reaches the ReadAsync the loop has    *)
(* outstanding, without _lock.  The rest of the line is read from the      *)
(* connection that is current by then.  Only a whole EXISTS ends the wait. *)
LoopLine(exists) ==
  LET k == loop.on IN
  /\ loop.pc = "listen"
  /\ exists => conn[k].open /\ conn[k].idling /\ conn[k].news
  /\ LET leave(pc) == [loop EXCEPT !.pc = pc, !.on = 0, !.partial = FALSE] IN
       SetLoop(CASE cancelled -> leave("wait")
                 [] ~cancelled /\ current = 0 -> leave("backoff")
                 [] ~cancelled /\ current \notin {0, k} ->
                      [loop EXCEPT !.on = current, !.partial = conn[k].open]
                 [] ~cancelled /\ current = k /\ exists /\ ~loop.partial ->
                      leave("wait")
                 [] OTHER -> [loop EXCEPT !.partial = FALSE])
  /\ conn' = [conn EXCEPT ![k].news = @ /\ ~exists]
  /\ UNCHANGED <<clientVars, cancelled, task, logout, opened, mail, nextUid,
                 faults, historyVars>>

(* DONE goes to the connection that is current now.  One that does not     *)
(* idle answers it without the tag the loop waits for.                     *)
SendDone(ans) ==
  /\ loop.pc = "done"
  /\ ans \in IF cancelled /\ current # 0 THEN {"cancel"}
             ELSE IF current = 0 THEN {"throw"}
             ELSE IF ~conn[current].open THEN {"throw", "never"}
             ELSE IF conn[current].idling THEN {"ok"} ELSE {"never"}
  /\ conn' = IF current = 0 THEN conn
             ELSE [conn EXCEPT ![current] =
               [conn[current] EXCEPT !.idling = FALSE,
                                     !.news = @ /\ ans # "ok"]]
  /\ CASE ans = "ok" -> SetLoop(GoTo("select", "batch")) /\ UNCHANGED permits
       [] ans = "never" -> SetLoop(GoTo("hung", "batch")) /\ UNCHANGED permits
       [] OTHER -> LoopThrows(ans)
  /\ UNCHANGED <<current, isConnected, capabilities, cancelled, task, logout,
                 opened, mail, nextUid, faults, historyVars>>

(* A cancellation gets the loop out of ReadTaggedAsync.                    *)
LoopGivesUp ==
  /\ loop.pc = "hung"
  /\ cancelled
  /\ LoopThrows("cancel")
  /\ UNCHANGED <<current, isConnected, capabilities, cancelled, task, logout,
                 serverVars, historyVars>>

-----------------------------------------------------------------------------
(* LogoutAsync and the StopIdleAsync it begins with.                       *)

(* StopIdleAsync cancels and awaits the loop; there is nothing to cancel   *)
(* until StartIdleAsync has seeded.                                        *)
Logout(inHandler) ==
  /\ "logout" \in IF inHandler THEN HandlerCalls ELSE Calls
  /\ logout.pc = "idle"
  /\ inHandler => loop.pc = "handler" /\ task[Handler].pc = "idle"
  /\ logout' = [pc |-> IF loop.mode = "seed" THEN "wait" ELSE "await",
                inHandler |-> inHandler]
  /\ cancelled' = (loop.mode # "seed")
  /\ task' = IF inHandler THEN [task EXCEPT ![Handler].pc = "logout"] ELSE task
  /\ UNCHANGED <<clientVars, loop, serverVars, historyVars>>

IdleStopped ==
  /\ logout.pc = "await"
  /\ loop.pc = "end"
  /\ logout' = [logout EXCEPT !.pc = "wait"]
  /\ UNCHANGED <<clientVars, cancelled, task, loop, serverVars, historyVars>>

LogoutAcquire ==
  /\ logout.pc = "wait"
  /\ permits = 1
  /\ permits' = 0
  /\ logout' = [logout EXCEPT !.pc = "bye"]
  /\ UNCHANGED <<current, isConnected, capabilities, cancelled, task, loop,
                 serverVars, historyVars>>

(* LOGOUT; the server says BYE and closes.  Failures are swallowed.        *)
Bye(ans) ==
  /\ logout.pc = "bye"
  /\ ans \in Answers(FALSE)
  /\ logout' = [logout EXCEPT !.pc = IF ans = "never" THEN "hung" ELSE "cleanup"]
  /\ IF ans = "never" THEN UNCHANGED permits ELSE Release
  /\ conn' = IF ans = "ok" THEN [conn EXCEPT ![current] = Closed] ELSE conn
  /\ isConnected' = (isConnected /\ ans \notin Negative \cup {"ok"})
  /\ UNCHANGED <<current, capabilities, cancelled, task, loop, opened, mail,
                 nextUid, faults, historyVars>>

(* Cleanup runs after the Release.                                         *)
Cleanup ==
  /\ logout.pc = "cleanup"
  /\ logout' = [logout EXCEPT !.pc = "done"]
  /\ isConnected' = FALSE
  /\ current' = 0
  /\ conn' = IF current = 0 THEN conn ELSE [conn EXCEPT ![current] = Closed]
  /\ task' = IF logout.inHandler THEN [task EXCEPT ![Handler].pc = "idle"]
             ELSE task
  /\ UNCHANGED <<permits, capabilities, cancelled, loop, opened, mail, nextUid,
                 faults, historyVars>>

-----------------------------------------------------------------------------
(* The world outside.                                                      *)

Arrive ==
  /\ nextUid[Idle] <= MaxMail
  /\ Place(Idle, nextUid[Idle])
  /\ conn' = [k \in Conn |-> [conn[k] EXCEPT
                !.news = @ \/ (conn[k].open /\ conn[k].selected = Idle)]]
  /\ UNCHANGED <<clientVars, cancelled, task, loop, logout, opened, faults,
                 historyVars>>

Drop(k) ==
  /\ conn[k].open
  /\ faults < MaxFaults
  /\ conn' = [conn EXCEPT ![k] = Closed]
  /\ faults' = faults + 1
  /\ UNCHANGED <<clientVars, cancelled, task, loop, logout, opened, mail,
                 nextUid, historyVars>>

Answer == {"ok", "no", "refused", "throw", "never", "cancel"}

TaskStep(t) ==
  \/ Acquire(t)
  \/ \E ans \in Answer : Ensure(t, ans) \/ Command(t, ans)

LoopStep ==
  \/ LoopAcquire
  \/ Backoff
  \/ HandlerReturns
  \/ BatchEnds
  \/ Poll
  \/ LoopGivesUp
  \/ \E exists \in BOOLEAN : LoopLine(exists)
  \/ \E ans \in Answer :
       \/ LoopEnsure(ans) \/ LoopSelect(ans) \/ LoopSearch(ans)
       \/ LoopFetch(ans) \/ SendIdle(ans) \/ SendDone(ans)

LogoutStep ==
  \/ IdleStopped
  \/ LogoutAcquire
  \/ \E ans \in Answer : Bye(ans)
  \/ Cleanup

Next ==
  \/ \E t \in Task, op \in Operation, u \in 0..MaxMail : Call(t, op, u)
  \/ \E t \in Task : TaskStep(t)
  \/ Listen
  \/ LoopStep
  \/ \E inHandler \in BOOLEAN : Logout(inHandler)
  \/ LogoutStep
  \/ Arrive
  \/ \E k \in Conn : Drop(k)

Spec == Init /\ [][Next]_vars

(* The environment assumed: commands are answered or fail, a connection    *)
(* that is listened to says something now and then (the code's own comment *)
(* speaks of server keepalives), and the application's handler returns.    *)
Fairness ==
  /\ WF_vars(LoopStep)
  /\ WF_vars(LogoutStep)
  /\ \A t \in Task : WF_vars(TaskStep(t))

FairSpec == Spec /\ Fairness

-----------------------------------------------------------------------------
Holding ==
  Cardinality({t \in Task : task[t].pc \in Locked})
    + (IF loop.pc \in LoopLocked THEN 1 ELSE 0)
    + (IF logout.pc \in {"bye", "hung"} THEN 1 ELSE 0)

(* The README says that one instance serializes all operations.  That is   *)
(* so until the loop is cancelled: nobody is in a locked section beside    *)
(* somebody else.  And the permit is never lost, cancelled or not: if      *)
(* nobody holds _lock, it can be taken.                                    *)
LockConserved ==
  /\ permits + Holding >= 1
  /\ ~cancelled => permits + Holding = 1

(* The last known UID moves past a message of the folder only after the    *)
(* event was raised for it or its fetch threw: mail that arrives while a   *)
(* batch is read, or while the handler runs, is not stepped over.          *)
NoNewMailSkipped ==
  [][loop.mode # "seed" =>
       \A m \in mail[Idle] : m.uid > loop.last /\ m.uid <= loop'.last =>
         m.uid \in skipped \cup {reports[i].uid : i \in DOMAIN reports}]_vars

(* OnNewMailAsync is raised once for a message, whatever fails in between  *)
(* and however often the loop reconnects.                                  *)
ReportedOnce ==
  \A i, j \in DOMAIN reports : reports[i].uid = reports[j].uid => i = j

(* The first message of a batch is the message of the monitored folder     *)
(* with that UID, whichever folder callers selected while the loop waited, *)
(* or blank because its FETCH was refused; never another folder's message. *)
(* (After the first event the handler may have selected another one.)      *)
FirstReportIsRight ==
  \A i \in DOMAIN reports : reports[i].own =>
    \/ reports[i].msg = reports[i].uid
    \/ reports[i].refused /\ reports[i].msg = Empty

(* A message somebody moves is, at every moment and whichever command of   *)
(* the move fails, in the source or in the destination, unless somebody    *)
(* asked for its deletion; as long as the operations are serialized.       *)
MoveLosesNothing ==
  ~cancelled =>
    \A msg \in 1..nextUid[Idle] - 1 :
      \/ msg \in deleted
      \/ \E f \in Folder : \E m \in mail[f] : m.msg = msg

Hung == \/ logout.pc = "hung"
        \/ \E t \in Task : task[t].pc = "hung"

(* What a listener sees of the folder and of the events, as MailWatch does. *)
arrivedMail == nextUid[Idle] - 1
presentMail == {m.uid : m \in mail[Idle]}
hasSeeded == loop.mode # "seed"
reportedUids == [i \in DOMAIN reports |-> reports[i].uid]

Watch == INSTANCE MailWatch WITH
  arrived <- arrivedMail, present <- presentMail, watching <- hasSeeded,
  known <- loop.last, announced <- reportedUids, lost <- skipped

(* ListenAsync keeps the promise of MailWatch: OnNewMailAsync is raised in *)
(* the order of arrival for what has come since the seeding, each message  *)
(* once and none left out unless its fetch threw, whatever others do with  *)
(* the folder and the connection meanwhile (960-975, 1027-1232).           *)
ImplementsMailWatch == Watch!Spec

(* LogoutAsync, called outside the handler, gets past the loop and returns *)
(* unless a task waits for an answer on a connection the server closed.    *)
LogoutReturns ==
  logout.pc = "await" /\ ~logout.inHandler ~> logout.pc = "done" \/ Hung
=============================================================================
