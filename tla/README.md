# BNet.Library in TLA+

TLA+ specifications of the components of BNet.Library, TLC configurations that
check them on small instances, and TLAPS proofs that hold for every instance.
The specifications follow the C# sources; `PROJECT.json` maps every definition
to the lines it models, names for every property a plausible change of the code
that breaks it, and lists the hazards of the code with the properties that
cover them.

## The system

Five class libraries that do not call each other, each one or two classes used
by an application, and the script with which the pages of the pagination sample
validate their forms.

| component | source | state | operations | hard behaviours |
|---|---|---|---|---|
| WebSocket server | `BNet.WebSocket.Server/Connection.cs`, `EventHandlers.cs` | `_clients`, `IsRunning`, `TotalConnectionsHandled`; per client `Stream`, `WriteLock`, `IsAlive`, `Rooms` | `StartAsync`, `StopAsync`, a handler task per client, four `Send…Async` broadcasts | handlers, broadcasts and StopAsync meet in every client's stream and lock; failing and stalled peers; removal races |
| FTP server | `BNet.FTPServer/Commands.cs` | `_clients`, `TcpClientDictionary`; one `_dataListener`, `_dataClient`, `_renameFrom` for all sessions; the file system | `StartAsync`, `StopAsync`, `Setup`, a handler task per session with its commands | unprotected fields shared by sessions; data connections opened by peers at any time; restart while old loops end; waits nothing cancels |
| GridView pagination | `BNet.ASP.MVC.Pagination/GridView.cs` | the ASP session's page sequence and sizes; the grids that open pages show | `SetGridView`, `NewPagination` | requests of several tabs over one session; a list that shrinks or empties between requests; rounding |
| ZKTeco ADMS server | `BNet.ZKTecoADMS/ZKTecoServer.cs` | listener, `_cts`, `_listenTask`, `_lastPunchType`, photo files | `StartAsync`, `StopAsync`, a task per request: heartbeat, handshake, ATTLOG, ATTPHOTO | logs that fail half-way, concurrent photo writes, timeouts, StopAsync anywhere in the loop |
| IMAP client | `BNet.IMAP.Mailer/MailConfig.cs` | `_reader`, `_writer`, `_lock`, `IsConnected`, `_idleCts`; the folder the server has selected, the last known UID | the public operations, `ListenAsync` with its handler, `LogoutAsync` | a background loop, its handler and callers share one connection; mail between search and IDLE; cancellation; moves that fail half-way |
| form validation | `jquery.validate.unobtrusive.js` (third-party, served by the sample through `_ValidationScriptsPartial.cshtml`) | rules and messages of a form, the validator's copy of them, labels, verdicts, the reset flag | `parse`, `parseElement`, the adapters, `onError`, `onErrors`, `onSuccess`, `onReset` | late remote answers, fields added later, resets that raise a reset |
| IMAP parsing | `BodyStructureParser.cs`, `MimeDecoder.cs`, … | none | text decoding | none that involves state |
| certificates, logging, console programs, samples | `Program.cs`, `*.Sample` | – | – | – |

What makes the components correct, and where it is stated:

* WebSocket server: every write gives the permit of its `WriteLock` back, frames of a
  room stay in the room, frames of a sender stay in order, a broadcast reaches
  or marks dead whom it selected and takes no healthy client down, a client is
  removed, disposed and announced once, broadcasts and stops come to an end.
* FTP server: no file mixes two uploads, a 226 answer is not caused by another
  session, no content disappears by renaming, StopAsync finds the handlers,
  handlers of gone peers end but for the waits that have no timeout; with a single
  session also: data connections are
  closed, are fresh, and uploads answered 226 are complete.
* GridView: every row can be reached, no negative page, no user stranded on a
  page without buttons, and a tab that is alone is consistent.
* ZKTeco: the server keeps the promise of `PunchLog` (a log answered OK reached
  the application line by line, or an error was raised), a photo file holds one
  photo, requests and stops come to an end.
* IMAP: locked sections exclude each other, new mail is reported once and not
  stepped over, with the right content, a message being moved is in one of the
  two folders, LogoutAsync gets past the loop.
* Form validation: the rules mean what the attributes say, a message shows the
  last verdict, what is sent was accepted as it is, a reset leaves a clean form.

## Modules

| module | what it is |
|---|---|
| `Broadcast` | what senders and receivers of messages may rely on: an abstract specification |
| `WebSocketServer` | the WebSocket server, and its mapping to `Broadcast`; `Spec`, and `FairSpec` for liveness |
| `WebSocketServerProofs` | its theorems, the refinement among them |
| `MCWebSocketServer` | its instances |
| `FTPServer` | the FTP server; `Spec` and `FairSpec` |
| `FTPServerProofs` | its theorems |
| `MCFTPServer` | its instances |
| `GridView` | GridView, the session and the tabs |
| `GridViewProofs` | its theorems |
| `MCGridView` | its instances |
| `PunchLog` | what a device may rely on when it sends a log: an abstract specification |
| `ZKTecoServer` | the attendance server, and its mapping to `PunchLog`; `Spec` and `FairSpec` |
| `ZKTecoServerProofs` | its theorems, the refinement among them |
| `MCZKTecoServer` | its instances |
| `MailWatch` | what an application may rely on when it listens to a folder: an abstract specification |
| `MailWatchProofs` | theorems about every watcher it allows |
| `ImapMailer` | the IMAP client with its server, and its mapping to `MailWatch`; `Spec` and `FairSpec` |
| `ImapMailerProofs` | its theorems, the refinement among them |
| `MCImapMailer` | its instance |
| `UnobtrusiveValidation` | one form with its rules, validator and labels |
| `UnobtrusiveValidationProofs` | theorems about its labels, requests and resets |
| `UnobtrusiveRulesProofs` | what its adapters make of a field's attributes |
| `MCUnobtrusiveValidation` | seven pages |

An operator commented "Changed for comparison" is a wrong variant of the one
that follows it, the way an edit of the code might get it wrong. No
specification uses it; replacing the body of the right one by it makes TLC
report the property that `PROJECT.json` pairs with it.

### WebSocketServer and Broadcast

A step is the code of a task between two awaits, split further where another
task can see the difference. `pc` says where each handler (one per client) and
application task is:

| `pc` | code |
|---|---|
| `backlog` → `accepted` | the accept loop, `StartAsync` 75-79 |
| `accepted` → `request` | TLS and `TryAdd`, `HandleClientAsync` 109-122 |
| `request` → `upgrading`, `status`, `leaving` | `ReadRequestAsync` and the choice in `HandleStartupAsync` |
| `upgrading` → `joining` → `check` | the 101 answer, `Rooms.Add`, `OnConnectedClient` |
| `check` → `reading` → `ponging`, `event`, `leaving` | the read loop, `ReadFrameAsync` |
| `event` → `sending` → `check` | the received event, then the broadcast |
| `leaving` → `removing` → `marking` → `closing` → `counting` → `done` | the `using` blocks, then `RemoveClientAsync` in the finally: TryRemove, `IsAlive = false`, Dispose, announcement |

A broadcast is a set of parallel writes: `todo` is what is left of the
enumeration of `_clients.Values`, `reached` the clients selected so far, and for
each of these the task is in `waiting` (on `WriteLock`), in `writing`, or
through. `todo` is a snapshot, taken as `ConcurrentDictionary.Values` takes it;
`Wants` reads `Rooms` when the lazy `Where` gets to a client, in one step: that
`HashSet.Contains` could meet an `Add` half-way is not modelled. The permit of
`WriteLock` is `sem`; `SemaphoreSlim(1, 1)` throws at a second release, which no
path of the code makes. StopAsync has its
own counter `stop` and removes the clients of `snap` one by one, racing the
handlers' own finally.

Peers connect, leave and (with `MayStall`) stop reading at any time. A write
returns if the stream is open and the peer reads; it may also succeed after the
peer has gone (socket buffer), or throw. Under TLS (`UseTls`) the handshake may
fail, and the writes that do not take `WriteLock` (101, status, pong) throw, or
make a broadcast throw, when they overlap.

Frames keep kind, sender, room and a number per sender. Payloads, masks and
header bytes are abstracted; HTTP status pages are one action.

`Broadcast` knows who is online, who is in which room, who is dead, what each
client has received, and of each sender the one message under way (`post`) with
the clients that are still due. A client has its turn once: it gets the message,
dies of it, or is passed over because it is dead or not in the room. A message
is complete when nobody is due, and the next one of its sender is later than all
of the sender's that anybody has received. `deadClients`, `posted` and `owed` map
the server to it: a client is owed its turn while it is in `todo`, or the task
waits for or holds its lock. The locks, the read loops, the listener and the
counting do not show; a removal is Leave, and then WriteOff.

### FTPServer

`pc` is again the position in `HandleClientAsync`. The three shared fields are
the variables `dataListener`, `dataClient` and `renameFrom`; wherever the code
reads one of them a second time, there are two steps, so another session can
change it in between (`Pasv`/`PasvStart`, `Port`/`PortStart`/`PortStop`/`PortForget`,
`CheckConnection`/`StartChecked`, `ListChecks`/`AwaitData`, `AcceptData`/`GetStream`,
`CloseData`/`NullData`, `Rnto`/`MoveFile`/`Forget`). A listener is `new` until it
is started; `Start` throws when the field is null again, or, for PORT, when the
address is another host's. Listeners and data
connections are numbered; the peer's end (`far`), the server's end (`conn`) and
the pieces written and read are separate, so a connection can be closed by a
session it does not belong to. A peer may keep a connection and read and write no
more (`DataStalls`, `far` is `stuck`); what is to be written to it then stays unwritten
(`Stuck`). Files hold sequences of pieces: the connection a
piece was uploaded on, or the original content.

A peer sends a command only after the previous answer. `OnlyAnswer` (NOOP)
stands for all commands that only answer, including those rejected by a check; STOR
and RETR check the listener first, and may make one, before they reject a name
(`TransferRefused`).
`Setup` replaces the control listener between two runs, as `Program` does, so an
old accept loop may still be waiting on the old one (`gen`, `loopAt`). The file
system is external: files are shared as .NET on Windows shares them.
`currentUser`, `encoding` and the TLS streams are not kept.

### GridView

A request works on its own GridView and its own copy of the session: `Build` is
`BuildPagination`, `Respond` the middleware storing the session and the page
replacing the table. `RowsChange` is the data source. `Buttons` is what
`BuildPaginationHtml` renders, so a tab can only send what its page offers, and
pages may be old. `emptied` and `alone` are history variables for the
properties. Row size, page size and the FirstAndLast flag of a table do not
change; the session exists and does not expire (when it does, the row size
is 0 and the code divides by it; the result of that cast is not determined by
the language).

### ZKTecoServer and PunchLog

`loop` is where `ListenLoopAsync` is (`test` 148, `call` and `get` 152-154,
`delay` 195), `stop` where `StopAsync` is, and `at[r]` where the task of a
request is:

| `at` | code |
|---|---|
| `arrived` → `spawned` | `GetContextAsync` and `Task.Run`; `left` if the token was cancelled before |
| `reading` | `CopyToAsync` and `OnRawRequest`, 209-228, outside the inner try |
| `handling` | the lines of an ATTLOG, one step each |
| `opening` → `writing` → `saved` | `WriteAllBytesAsync`, which does not see a cancellation after its last piece; `saved` is before the event |
| `answering`, `sorry` | `RespondAsync`, and the one in the catch (264) |
| `aborting` → `aborted` | the catches of the task, 167-180 |

Peers hang up and the 60 seconds pass while a task waits; what happens to them
during other steps is met at the next wait (`Waits`). A log is a sequence of
users and punch types, or `<<>>` for a line without its columns; parsing does
not throw otherwise. `HttpListener`'s streams are taken to honour the token they
are given, and OnError's handlers not to throw. A device that sends a log again
is another request. `_lastPunchType` is under its lock in every access, so each
is part of a step.

`PunchLog` knows batches that are delivered record by record, fail, and are
acknowledged or given up; `logState`, `logSize`, `done` and `logFailed` map the
server to it.

### ImapMailer and MailWatch

The tasks are the callers of public operations, the OnNewMailAsync handler, the
listening loop (`loop`) and `LogoutAsync` (`logout`). A command with its answer
is one step, taken by whoever is in a locked section; its outcomes are `Answers`:
answered OK, refused (`refused` costs a fault; `no` follows from the state, like
a UID command with nothing selected), an exception, or no answer ever: at the
end of the stream `ReadLineRawAsync` returns empty lines without end and
`ReadTaggedAsync` goes on reading. The server carries a command out unless it
refuses it, also when nobody reads the answer.

Only the IDLE loop waits without `_lock` (`listen`); anyone who reads meanwhile
gets the exception StreamReader throws when it is in use, fails its NOOP and
reconnects, and the pushes of the old connection are lost; old connections are
not closed. `loop.mode` says what the loop takes the lock for: seeding, entering
IDLE, sending DONE, a batch, or the recovery in its catch. `reports` is the
history of the events, with whether the FETCH was the first of its batch (`own`)
or refused (`refused`: `FetchFullMessageAsync` then returns a blank message, and
the event is raised with it); `skipped` are the UIDs whose fetch threw.

`Call` offers reading a folder, deleting a message and moving one; the other
operations use `_lock` the same way, and the parts of messages do not matter.

`MailWatch` knows messages that arrive and go, a mark (`known`), what was
announced, and what a fetch has failed for. The watcher begins once, at the last
message that is there, or at 0 and then it announces what is there; it announces
in order, each message once, passes over only what it has lost, and moves its
mark only to what it announced last. `arrivedMail`, `presentMail`, `hasSeeded`,
`loop.last`, `reportedUids` and `skipped` map the client to it: a batch is a
sequence of Announce and Lose, its end is Settle, the first search is Begin, and
everything else – commands of others, lost connections, the handler, retries of
the same batch – is a step of the folder or none at all. The client begins at 0 not
only in an empty folder but also when its first search is refused, because a
refusal gives no SEARCH line (1375-1383) and nobody looks at the status: it then
announces all the mail there is. The server is taken to list UIDs ascending in a
SEARCH answer; the code fetches them in the order they are listed (1171).

### UnobtrusiveValidation

A page is a record: its attributes by field and adapter, where messages go, and
which fields come later or lie outside the form. `Adapters` is the list the
script builds, with the adapters as data. Each makes one call of
`setValidationValues` at most (`Adapt`), but for the one of passwords, which has
an entry for each of its three. `Parsed` says what the calls leave, without going
through them one by one: of the calls for one rule the first gives its place (a
JavaScript object lists its properties in the order they were first set in, and
`FirstOf` needs it), the last its value, the last with a message its message.
`settings` is the validator's own copy, made by the first `validate()` only.

Attributes are as the tag helpers of ASP.NET write them (`AttributesOK`): a bound
is a number, a pattern is there, minlength has no max and maxlength no min. With
both, the adapters of minlength and maxlength would set a rule named
"undefined", for which the validator has no method.

`form` holds what the validator and the page keep: label and class of each
`data-valmsg-for` element, last verdict, summary, `errorMap`, and the remote
requests (`previous`, `asked`, `pending`). Scripts of a page run one at a time,
so an action is a whole handler; a reset is a stack of calls, because
`resetForm` raises the event again when the form plugin is loaded, and may throw.
Of `jquery.validate.js` only what the script relies on is modelled, from its
source beside it. Values stand for their size or length, 0 for blank; a field that
is not in the page is sent like a blank.

`normalizeRules` makes numbers of lengths and of pairs of bounds, but a `min` or
`max` that a range sets alone stays the text of the attribute, and the methods
compare it with the text of the value (`jquery.validate.js` 1342-1357, 1496-1503).
`Accepts` does so too (`TextAtMost`: 10 comes before 2, so a lone min of 2 refuses
10). That is hardly what the author of the page meant; `Meant` takes it as what a
range with one bound asks for, and RulesMeanAttributes claims no more than that.

A rejection shows every error of `errorMap` again, and every field still in
`successList`, also those a check that threw has left there unshown (`Listed`).

The sample loads neither `additional-methods.js` nor the form plugin; the pages
with `plugin` are there because the guard in `onReset` is.

## Checks

`tlc -config <cfg> MC<module>`; every run ends in less than five minutes on
two cores.

| run | instance | shows |
|---|---|---|
| `ws_messages` | 2 clients, 1 room, 3 frames, peers leave | LockConserved, RoomConfinement, SenderOrder, BroadcastAccounted, HealthyStayAlive, ImplementsBroadcast |
| `ws_liveness` | 1 client, 1 application task, TLS, stalls, 2 starts, fair | RemovedOnce, StopClosesSnapshot, BroadcastReturns, GoneClientRemoved, StopEndsHandlers |
| `ws_stop_leaves_client` | 2 clients, StopAsync | *violated*: StopDisconnectsAll |
| `ftp_session` | 1 session, 5 commands, 3 listeners, 2 connections, 2 pieces | NoDataConnectionLeft, TransferIsFresh, UploadComplete |
| `ftp_sessions` | 2 sessions, 2 commands each, that transfer or work on 2 files and 1 directory, or 2 starts and StopAsync | UploadsDoNotMix, NoTruncatedSuccess, NothingLost, RunningIsRegistered, StopMissesFew |
| `ftp_gone` | 2 sessions, 2 commands each (PASV, STOR, RETR), 1 listener, 1 connection, 1 piece, fair | GoneHandlerEnds |
| `ftp_stop_hangs` | 1 idle session, fair | *violated*: StopCompletes |
| `grid_tabs` | 2 tabs; lists of 0, 3 and 9 rows, 2 per page, 2 buttons | EveryRowReachable, NeverNegative, NeverStranded, AloneConsistent |
| `imap` | 1 caller, the handler, 1 call each and a logout; 2 mails, 2 connections, 1 fault; a server with IDLE, one that polls | LockConserved, ReportedOnce, FirstReportIsRight, MoveLosesNothing, NoNewMailSkipped, ImplementsMailWatch, LogoutReturns |
| `zk` | 2 requests, 1 user, 2 punch types, throwing handlers, 1 fault of the listener, StopAsync, fair | PhotosDoNotMix, ImplementsPunchLog, RequestsEnd, StopReturns |
| `zk_left_open` | 1 request of a log | *violated*: ContextsClosed |
| `unob` | 7 pages of 2 fields, 3 values | RulesMeanAttributes, FieldShowsItsVerdict, SubmittedWasAccepted, ResetLeavesClean |

**Why the bounds are enough.** Every race in these servers is between two
parties over one object: two broadcasts over a lock, a handler and StopAsync
over a removal, two sessions over a field, two tabs over a session. Two clients
give each, and let a client be sender and receiver at once. Two frames per
sender are needed for an order; two starts for a loop left over from the first;
the second PASV, the refused and the broken connection need the five commands
and three listeners of `ftp_session`. Two files and a directory let a rename go
within, into and out of a directory and onto an existing name. Nine rows on
pages of two in groups of two give a first, a middle and a partial last group
and a partial last page; three rows make the old pages of the others vanish.
`ftp_gone` lets the two sessions replace, share and close the one connection, which
is what decides who waits for whom; its bounds are small because liveness multiplies
the state space, and LIST is left to the other runs because it waits where STOR
and RETR do. `ws_liveness` has one client because liveness multiplies the state space; the
waiting of one sender for another is in it through the application task, and
the race of StopAsync with the handler needs one client only. In `ftp_sessions`
the constraint `Apart` keeps a behaviour to transfers, to file commands, or to a stop
and a second start (QUIT goes with each): the first meet in the data connection, the
second in `_renameFrom` and the files, the third in `_clients` and the loops. Peers
leave in the second and third; that they leave in the middle of transfers is left to
`ftp_session` and `ftp_gone`, and to the proofs. In `ws_messages` (`ThreeFrames`) one
client sends twice, the other once, whichever it is.

For IMAP one caller suffices, because the loop, its handler and LogoutAsync are
three more parties; two mails give a batch of two and mail during a batch; two
connections a reconnection and the one after it that fails. One server has IDLE
and no MOVE, the other MOVE and no IDLE, so both loops and both forms of the move
occur. Two requests are what two photos of one name, or a log and a photo, need.
The seven pages of `unob` are a remote rule whose additional field has rules of
its own, the option errorClass, a field added late that another must equal, a
password with every adapter that writes the same rules, a rule without a method
beside two lengths that contest one rule and a lone bound of a range, and an
additional field outside the form or added late. The values are a blank, 2 and 10,
because 10 is the larger number and the smaller text. `unob` may not deadlock.
Deadlock is not checked for the servers: when all peers have gone and the bounds
are used up, nothing is left to do.

**Fairness.** `Fairness` of WebSocketServer and `FairSpec` of FTPServer let the
thread pool run every continuation that is ready: weak fairness of each
handler, each accept loop, each write of a broadcast, and StopAsync. A
completed read or accept is such a continuation. Nothing obliges a peer to
connect, send, drain or leave, nor the application to start, stop or send. A
read of a broken stream returns, one of an open stream need not. Weak fairness
suffices for `WriteLock` because only finitely many frames are sent, so a
waiting broadcast cannot be passed for ever; SemaphoreSlim promises no order
that would exclude that with unbounded senders, and none is assumed.
The exceptions in the properties
(`Blocked`, `AwaitsDataPeer`) are the waits the code does not bound: in the WebSocket
server a peer that stalls; in the FTP server the accept of a data connection that
never comes (598, 651, 699), the copy of an upload whose peer neither sends nor
ends (`CopyToAsync`, 659), and the writes to a peer that does not read (704, 873).
GoneHandlerEnds says that a handler without a peer ends or is in one of these three
for ever; it does not say that they do not happen.

`FairSpec` of ZKTecoServer: the thread pool runs the loop, StopAsync and every
task, and the timers of the requests fire; a device need not send anything. That
of ImapMailer: every task goes on when its command has been answered or has
failed, the handler returns, and a connection that is listened to says
something now and then, without which a cancelled loop does not notice
(`ReadAsync` takes no token; the code's own comment at 1072 speaks of
keepalives). Nothing makes mail arrive, a caller call, or a connection drop.

**Where code and documentation disagree.**

* `StopDisconnectsAll`: `_README.md` line 99 of the WebSocket server says that
  StopAsync "disconnects all clients". A client accepted just before registers
  after the snapshot and keeps being served.
* `StopCompletes`: the comment at `Commands.cs` 121, "Cancel all client tasks
  and await their completion". No token source is ever stored, so an idle
  session keeps StopAsync waiting for ever.

* `ContextsClosed`: the comment at `ZKTecoServer.cs` 176-177 says of the catches
  there that unhandled exceptions "were silently leaving contexts open". They
  still do: when a handler takes longer than the 60 seconds of its request, the
  answer fails, so does the second one under the same token (264), and that
  failure is ignored.

The models contain further differences that no run is spent on: a broadcast may
reach a client before its 101 answer, OnDisconnected is raised for clients
OnConnected was never raised for, and under TLS the unlocked answers overlap
with broadcasts. Of two attributes of a field that set the same validation rule
the last adapter's wins, whichever is stricter. A range with one bound compares
texts (see above). With two sessions, NoDataConnectionLeft, TransferIsFresh and
UploadComplete of FTPServer are false; they are stated for a server with one
session, where they are not obvious either.

IMAP: after a cancellation that meets the loop in its handler, `_lock` is
released once too often, and two tasks are in locked sections at once, though
`_README.md` 691 calls an instance thread-safe; LockConserved therefore only
speaks of the time before. A handler that selects another folder gives the rest
of its batch wrong or blank messages. A connection that ends, or an EXISTS that
comes before the continuation of IDLE, ends the listening loop without a word,
though `_README.md` 29 promises reconnection. A handler that calls LogoutAsync
waits for itself. DONE sent on a connection that replaced the one that idled is
never answered.

ZKTeco: the comment at 474 names photos with their time, the code (476) does
not, so a later photo of the same day and type replaces an earlier one, and of
two at once the second is dropped although its device is told OK. A bad line or a
throwing handler drops the rest of a log that is answered OK. StopAsync throws
when it meets the loop between its test and `GetContextAsync`, or in the delay;
after it the server cannot be started again, since `_listenTask` stays set. A
request whose task was not started at the cancellation is left open.

Form validation: fields parsed after the first `validate()` are never validated,
though the comment at 230 says that parse enables validation; an equalto field
whose other field is not there when it is parsed loses the rule; rules without a
method make the submit handler throw, and the form is sent unchecked; a failed
remote request leaves its field pending; `validate()` says true while a remote
answer is due; the summary is taken back by a reset only; nonalphamin rejects
a blank.

## Proofs

All theorems are about `Spec`, for any constants that satisfy the named
assumptions of the module (finite set of clients; distinct special values;
bounds are natural numbers; for GridView positive sizes and `Closed` not a
grid). The module bounds (`MaxSends` and so on) are arbitrary natural numbers.

`WebSocketServerProofs`

| theorem | states | argument |
|---|---|---|
| `WriteLockSafe` | TypeOK and LockConserved | inductive together: Release is only called by a task in `writing`, a task is in `writing` only if the permit was there, and it leaves `writing` by Release only |
| `RemovalSafe` | RemovedOnce | `RemovalInv`: who is between TryRemove and the announcement owns the client, owners exclude each other, and a client that left `_clients` never returns |
| `StopSafe` | StopClosesSnapshot | the second part of `RemovalInv`: a client of the snapshot no longer in `stopTodo` is not in `_clients`, and its stream is disposed or it is the one being closed |
| `HealthySafe` | HealthyStayAlive | inductive: without TLS a write throws on a broken stream only, and broken streams stay broken; besides, StopAsync marks the client it is about to dispose (`stopAt`) |
| `RoomSafe` | RoomConfinement | `RoomInv`: a frame under way carries a room of its sender, the receivers in `reached` are in that room, and rooms are never left |
| `BroadcastSafe` | BroadcastAccounted | who leaves `writing` has the frame at the end of the stream or is dead; streams only grow and the dead stay dead |
| `OrderSafe` | SenderOrder | `OrderInv`: a frame is numbered after all that its sender sent before, and a client a broadcast still owes its frame (`Owes`) has none of it yet; a client is owed a frame at most once because `todo` and `reached`, and `waiting` and `writing`, are disjoint |
| `MessagesArePassedOn` | ImplementsBroadcast | refinement: `ServerInv` joins the invariants above with `PostInv`, that a frame about to be sent is a message |

In the refinement `Unseen` and `UnseenServer` collect the steps Broadcast does not
see (`Untold`); each of the other lemmas maps one kind of step. `RemovalInv` is
why a client is only written off after it has left, `OrderInv` why a message is
later than its sender's before and why a turn that ends does not come again
(`TurnEnds`), `RoomInv` why a frame is delivered only where it concerns, and
LockConserved why a task that begins to send owes nothing from before. That a
room's frames stay in it and a sender's stay in order, which Broadcast implies, is
proved of the server itself (`RoomSafe`, `OrderSafe`).

`FTPServerProofs`

| theorem | states | argument |
|---|---|---|
| `Types` | TypeOK | with `Prepared`: a handler's path and listener are settled before it uses them, and every file is in a directory that exists – without which renaming a directory could meet files where it goes |
| `RunningRegistered` | RunningIsRegistered | `LoopsHold`: an accept loop holds a client only between accept and store, so an accept forgets no earlier client, and `StartAsync` begins a loop that holds none |
| `UploadsApart` | UploadsDoNotMix | `OwnFile`: a handler that copies has a file of its own, which exists and holds pieces of its connection only; no step moves or removes an open file |
| `NothingIsLost` | NothingLost | `Held`, the pieces in files or in `erased`, only grows (`TakenAway` for removing steps, `CarriedOver` for the others), and a piece is read from a connection only to be appended to a file |
| `SuccessIsEarned` | NoTruncatedSuccess | `Acknowledged`: a transfer is acknowledged only where the copy loop met the end of the peer's data, and nobody but the peer sets that end |
| `FewAreMissed` | StopMissesFew | `Stopping`: nothing listens while the server is stopped, so the handlers outside the snapshot are in the hands of accept loops, and these (`HeldAreFew`) are no more than the starts |
| `SessionsCleanUp` | NoDataConnectionLeft, of one session | `OneSession`, below |
| `TransfersAreFresh` | TransferIsFresh, of one session | the same |
| `UploadsComplete` | UploadComplete, of one session | the same |

The last three have the hypothesis `Alone`, that any two clients are equal; with
two sessions they are false. `OneSession` is inductive as a whole: listeners are
numbered in the order they are made, and only the last can have a connection
waiting that the next transfer takes (`Listeners`, `Queues`); what waits there
was opened after the last 227 (`Fresh`); a connection is open only during the
transfer that uses it (`Uses`); and the file of an upload holds as many pieces as
were taken from its connection (`Uploaded`). The third needs the second, because
a connection used twice would begin in the middle of its data.

Three frame lemmas (`HandlerKeepsServer`, `HandlerKeepsOthers`,
`OutsideKeepsHandlers`) say what each actor leaves alone; the step lemmas use
them instead of the definitions of all the actions.

`GridViewProofs`

| theorem | states | argument |
|---|---|---|
| `GridTypes` | TypeOK | inductive; what a button sends is a number or a jump |
| `RowsSafe` | EveryRowReachable | the row's page is `r ÷ RowSize`, its group `page ÷ PageSize + 1`; `CeilingFacts` and `QuotientBound` put both in range |
| `PagesSafe` | NeverNegative | `NonNegativeInv` adds that the session's group is at least 1 once a tab shows a grid; a page number comes from a rendered grid, whose group is at least 1 |
| `StrandedSafe` | NeverStranded | from the same invariant: a grid without Back is on group 1, and without Next it shows all pages |
| `AloneSafe` | AloneConsistent | `AloneInv`: the tab's request, or else its page and the session, agree with the rows, and no other request is under way |

`ZKTecoServerProofs`

| theorem | states | argument |
|---|---|---|
| `LogInvariant` | `LogInv` | inductive: a log's task is at a place a log can be at, has raised no more lines than it has, and is at the answer only with all of them raised, or past an error |
| `PunchesAccounted` | ImplementsPunchLog | refinement: under `LogInv` a line is Deliver, a caught exception Fail, the end of the answer Acknowledge, an abort or a left context GiveUp, and all other steps leave the batches as they are |
| `AnsweredAccounted` | AcknowledgedIsAccounted of PunchLog, of the server | from the same invariant |
| `PhotosSafe` | PhotosDoNotMix | `OneWriter`: a file has one writer at most, who is in `writing` with that path, and a file that is open holds bytes of its writer only |

`ImapMailerProofs`

| theorem | states | argument |
|---|---|---|
| `LockIsConserved` | LockConserved | `LockInv`: `PermitKept`, somebody can give the permit back if it is away; `Alone`, until the loop is cancelled whoever is in a locked section is there alone |
| `MailReportedOnce` | ReportedOnce | `KnownUids`: outside a batch no reported UID is above the last known one, in a batch all are below what is left of it, and that is ascending (`AscendingLists`) |
| `FirstReportIsOfIdle` | FirstReportIsRight | `LoopSelected` and `FreshIsThere`: until the first event nobody else can select a folder or expunge, because the loop has held `_lock` since its search |
| `NoMessageLost` | MoveLosesNothing | `MailInv`: a move's or deletion's commands have their folder selected, and a message is marked only after it was copied or for a deletion |
| `MailIsWatched` | ImplementsMailWatch | refinement: `WatchInv` adds to `IInv` that until it has seeded the loop is on its way to the first search (`Starting`), and that the mark a batch carries is the last known UID or the last report (`HighIsReported`) |
| `MailInOrder` | InOrder of MailWatch, of the client | `MailIsWatched`, and `AnnouncedInOrder` of the watcher |
| `MailIsNotSkipped` | NoNewMailSkipped | `BatchCovers`: every message above the last known UID is reported, skipped, still in the batch, or above all the batch has seen |

The others come from one inductive invariant, `IInv` (`Inductive`): exclusion is
what keeps the selected folder, the selected folder is what makes UIDs name the
right messages, and that is what the reports and moves rely on; none of these is
inductive without the others. After a cancellation exclusion is lost (see above),
so the conjuncts that need it say `~cancelled`; ReportedOnce and NoNewMailSkipped
do not need it. `ConnSteps`, `MailSteps` and `TaskSteps` say what a command does
to connections, folders and its caller, whoever gives it; `LoopSteps` puts every
step of the loop into one of a few kinds (`Stays`, `Seeded`, `Begun`,
`PassedOver`, `Raised`, `Turned`, `Ended`), so that the invariants about the loop
are proved by kind instead of by action. The first attempt showed that the cases
of `LoopAcquire` overlapped; they are exclusive now.

The refinement is proved step by step: `WatchFolder` for what arrives and is
removed, `WatchBegins`, `WatchTakes`, `WatchAnnounces`, `WatchLoses` and
`WatchSettles` for the kinds of steps of the loop, `WatchUntold` for all that the
watcher does not see. `BatchCovers` is what gives Announce its guard: all that is
there, above the mark and before the message announced was announced or lost.

`MailWatchProofs`

| theorem | states | argument |
|---|---|---|
| `AnnouncedInOrder` | InOrder, of every watcher | `WInv`: what was announced is in order and not later than what has arrived |
| `NothingPassedOver` | NonePassedOver, of every watcher | the mark moves in Settle only, to what was announced last; `Covered`, the rest of `WInv`: what is there, later than the mark and not later than an announcement, has had its turn |

`UnobtrusiveValidationProofs`

| theorem | states | argument |
|---|---|---|
| `ElementsShowVerdicts` | FieldShowsItsVerdict | `Boxes`: a label with its link is in an element that is marked and takes messages, and unless a reset has left it there it shows the last verdict; `ShowLabelOK` is the case analysis of `onError` and `onSuccess` |
| `SubmitsAreAccepted` | SubmittedWasAccepted | `Requests`: a request the validator waits for is about the data it remembers, and of a field that is not pending what is remembered as valid was accepted; `Passed`: a check that finds no error and leaves nothing pending found every field accepted as the page is now |
| `ResetsLeaveClean` | ResetLeavesClean | `Resets`: with one handler on the form a reset's calls nest in one of four ways, and the flag is set exactly inside `resetForm` |

None of these looks into the rules the adapters make, so they hold for any page.

`UnobtrusiveRulesProofs`

| theorem | states | argument |
|---|---|---|
| `RulesAreMeant` | RulesMeanAttributes | `RulesInv`: in the options and in the validator's copy every rule has the value of a call for it, and every call that an attribute's meaning needs has its rule; `CallsAre` and `CallsAreMade` list these calls, adapter by adapter, `MeantAccepted` and `AcceptedMeant` compare them with `Meant` |

It holds of every page with such attributes, not of seven, with the order of texts for
a range with one bound. Two attributes that set
one rule to different values (`Contested`: a password with min 1 and a minlength
with min 2) are an exception of the statement and not of the proof: the adapter
that runs last wins, and values are accepted that the other attribute forbids.
No value that meets what the attributes ask for, in this sense, is ever refused,
contested or not.

The type invariants of WebSocketServer, FTPServer and GridView are proved, and no run
repeats them.

Only model-checked: all liveness, since the prover handles neither ENABLED nor
fairness. Every safety property that a run expects to hold is a theorem.

## Not modelled

* The FTP server's USER/PASS, OPTS and AUTH beyond the answers they give.
* The IMAP operations on flags and folders, append and copy, which take `_lock`
  as the modelled ones do; ConnectAsync and NoOpAsync, which take no lock, called
  beside other operations; a second ListenAsync.
* An expired ASP session (see GridView).
* Of the validation script: several forms, several containers of one field,
  radio buttons (403-408), disabled and hidden fields, cancelled submits, and the
  wrapper for module loaders (12-23).
* Text and MIME parsing, certificates, logging, HTML wording, the console
  programs and samples; the models take from them who calls what, and when.
