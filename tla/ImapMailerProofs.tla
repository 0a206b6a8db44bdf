--------------------------- MODULE ImapMailerProofs ---------------------------
(* Proofs of the safety properties of ImapMailer, for any number of        *)
(* application tasks, messages, connections and faults.                    *)
EXTENDS ImapMailer, FiniteSetTheorems, WellFoundedInduction, TLAPS

-----------------------------------------------------------------------------
(* Sets of numbers: what Max, Min and Ascending return.                    *)

(* Every set of numbers has a least element. *)
LEMMA LeastNumber ==
  ASSUME NEW T, T \subseteq Nat, T # {}
  PROVE  \E x \in T : \A y \in T : x <= y
<1> DEFINE R == OpToRel(<, Nat)
<1>1. IsWellFoundedOn(R, Nat)
  BY NatLessThanWellFounded, Zenon
<1>2. PICK x \in T : \A y \in T : <<y, x>> \notin R
  <2> HIDE DEF R
  <2> QED
    BY <1>1, WFMin
<1>3. ASSUME NEW y \in T PROVE x <= y
  <2>1. <<y, x>> \notin R
    BY <1>2
  <2>2. ~(y < x)
    BY <2>1 DEF OpToRel
  <2> QED
    BY <2>2
<1> QED
  BY <1>3

(* A bounded set of numbers has a greatest element, which Max is. *)
LEMMA MaxOfNumbers ==
  ASSUME NEW S, S \subseteq Nat, S # {}, NEW n \in Nat, \A x \in S : x <= n
  PROVE  Max(S) \in S /\ \A x \in S : x <= Max(S)
<1> DEFINE Bounds == {b \in Nat : \A x \in S : x <= b}
<1>1. PICK b \in Bounds : \A c \in Bounds : b <= c
  <2>1. Bounds \subseteq Nat /\ n \in Bounds
    OBVIOUS
  <2> QED
    BY <2>1, LeastNumber
<1>2. b \in S
  <2>1. SUFFICES ASSUME b \notin S PROVE FALSE
    OBVIOUS
  <2>2. \A x \in S : x <= b /\ x # b
    BY <1>1, <2>1
  <2>3. b > 0
    <3>1. PICK x \in S : TRUE
      OBVIOUS
    <3>2. x \in Nat /\ x <= b /\ x # b
      BY <2>2
    <3> QED
      BY <3>2
  <2>4. b - 1 \in Bounds
    BY <2>2, <2>3
  <2> QED
    BY <1>1, <2>4
<1>3. \E m \in S : \A x \in S : m >= x
  BY <1>1, <1>2
<1> QED
  BY <1>3 DEF Max

(* Max and Min of two numbers. *)
LEMMA MaxOfTwo ==
  ASSUME NEW a \in Nat, NEW b \in Nat
  PROVE  Max({a, b}) = IF a >= b THEN a ELSE b
<1>1. \E m \in {a, b} : \A x \in {a, b} : m >= x
  OBVIOUS
<1>2. Max({a, b}) \in {a, b} /\ \A x \in {a, b} : Max({a, b}) >= x
  BY <1>1 DEF Max
<1> QED
  BY <1>2

(* Likewise for Min. *)
LEMMA MinOfTwo ==
  ASSUME NEW a \in Nat, NEW b \in Nat
  PROVE  Min({a, b}) = IF a <= b THEN a ELSE b
<1>1. \E m \in {a, b} : \A x \in {a, b} : m <= x
  OBVIOUS
<1>2. Min({a, b}) \in {a, b} /\ \A x \in {a, b} : Min({a, b}) <= x
  BY <1>1 DEF Min
<1> QED
  BY <1>2

(* A sequence in ascending order, without repetition. *)
Increasing(s) == \A i, j \in DOMAIN s : i < j => s[i] < s[j]

(* A bounded set of numbers can be listed in ascending order: otherwise    *)
(* there were a smallest set that cannot, and it is not that one.          *)
LEMMA AscendingExists ==
  ASSUME NEW S, S \subseteq Nat, NEW n \in Nat, \A x \in S : x <= n
  PROVE  /\ IsFiniteSet(S)
         /\ \E s \in [1..Cardinality(S) -> S] :
              Increasing(s) /\ \A x \in S : \E i \in DOMAIN s : s[i] = x
<1> DEFINE Listed(T) == \E s \in [1..Cardinality(T) -> T] :
             Increasing(s) /\ \A x \in T : \E i \in DOMAIN s : s[i] = x
           Unlisted == {k \in Nat : \E T \in SUBSET Nat :
             (\A x \in T : x <= n) /\ Cardinality(T) = k /\ ~Listed(T)}
<1>1. \A T \in SUBSET Nat : (\A x \in T : x <= n) => IsFiniteSet(T) /\ Cardinality(T) \in Nat
  BY FS_BoundedSetOfNaturals, FS_CardinalityType
<1>2. Unlisted = {}
  <2>1. SUFFICES ASSUME Unlisted # {} PROVE FALSE
    OBVIOUS
  <2>2. PICK k \in Unlisted : \A j \in Unlisted : k <= j
    BY <2>1, LeastNumber
  <2>3. PICK T \in SUBSET Nat : (\A x \in T : x <= n) /\ Cardinality(T) = k /\ ~Listed(T)
    BY <2>2
  <2>4. IsFiniteSet(T)
    BY <1>1, <2>3
  <2>5. T # {}
    <3>1. SUFFICES ASSUME T = {} PROVE FALSE
      OBVIOUS
    <3>2. Cardinality(T) = 0
      BY <3>1, FS_EmptySet
    <3>3. <<>> \in [1..Cardinality(T) -> T] /\ Increasing(<<>>)
      BY <3>1, <3>2 DEF Increasing
    <3>4. Listed(T)
      BY <3>1, <3>3
    <3> QED
      BY <2>3, <3>4
  <2> DEFINE top == Max(T)
             U == T \ {top}
  <2>6. top \in T /\ \A x \in T : x <= top
    BY <2>3, <2>5, MaxOfNumbers
  <2>7. IsFiniteSet(U) /\ Cardinality(U) = k - 1 /\ U \in SUBSET Nat /\ k \in Nat
    BY <2>2, <2>3, <2>4, <2>6, FS_RemoveElement
  <2>8. Cardinality(U) \in Nat
    BY <2>7, FS_CardinalityType
  <2>9. k - 1 \notin Unlisted
    <3> HIDE DEF Unlisted
    <3>1. k - 1 < k
      BY <2>7
    <3> QED
      BY <2>2, <2>7, <2>8, <3>1
  <2>10. Listed(U)
    <3> HIDE DEF Listed
    <3>1. \A x \in U : x <= n
      BY <2>3
    <3> QED
      BY <2>7, <2>8, <2>9, <3>1
  <2>11. PICK s \in [1..k - 1 -> U] :
           Increasing(s) /\ \A x \in U : \E i \in DOMAIN s : s[i] = x
    BY <2>7, <2>10
  <2> DEFINE r == [i \in 1..k |-> IF i = k THEN top ELSE s[i]]
  <2>12. r \in [1..k -> T]
    BY <2>6, <2>7, <2>8, <2>11
  <2>13. Increasing(r)
    <3>1. SUFFICES ASSUME NEW i \in 1..k, NEW j \in 1..k, i < j PROVE r[i] < r[j]
      BY DEF Increasing
    <3>2. i \in 1..k - 1 /\ r[i] = s[i] /\ s[i] \in U
      BY <2>7, <2>11, <3>1
    <3>3. CASE j = k
      <4>1. s[i] \in T /\ s[i] # top /\ s[i] <= top
        BY <2>6, <3>2
      <4>2. s[i] \in Nat /\ top \in Nat
        BY <2>6, <4>1
      <4> QED
        BY <3>1, <3>2, <3>3, <4>1, <4>2
    <3>4. CASE j # k
      <4>1. j \in DOMAIN s /\ i \in DOMAIN s
        BY <2>7, <2>11, <3>1, <3>4
      <4>2. s[i] < s[j]
        BY <2>11, <3>1, <4>1 DEF Increasing
      <4> QED
        BY <3>2, <3>4, <4>2
    <3> QED
      BY <3>3, <3>4
  <2>14. \A x \in T : \E i \in DOMAIN r : r[i] = x
    <3>1. SUFFICES ASSUME NEW x \in T PROVE \E i \in 1..k : r[i] = x
      OBVIOUS
    <3>2. CASE x = top
      <4>1. k \in 1..k
        BY <2>7, <2>8
      <4> QED
        BY <3>2, <4>1
    <3>3. CASE x # top
      <4>1. PICK i \in 1..k - 1 : s[i] = x
        BY <2>11, <3>3
      <4>2. i \in 1..k /\ i # k
        BY <2>7
      <4> QED
        BY <4>1, <4>2
    <3> QED
      BY <3>2, <3>3
  <2>15. Listed(T)
    <3> HIDE DEF r
    <3>1. DOMAIN r = 1..k
      BY DEF r
    <3> QED
      BY <2>3, <2>12, <2>13, <2>14
  <2> QED
    BY <2>3, <2>15
<1>3. Cardinality(S) \notin Unlisted
  BY <1>2
<1>4. Listed(S)
  <2> HIDE DEF Listed
  <2> QED
    BY <1>1, <1>3
<1> QED
  BY <1>1, <1>4

(* Ascending lists exactly the elements of such a set, in order. *)
LEMMA AscendingLists ==
  ASSUME NEW S, S \subseteq Nat, NEW n \in Nat, \A x \in S : x <= n
  PROVE  /\ Ascending(S) \in Seq(Nat)
         /\ \A i \in DOMAIN Ascending(S) : Ascending(S)[i] \in S
         /\ Increasing(Ascending(S))
         /\ \A x \in S : \E i \in DOMAIN Ascending(S) : Ascending(S)[i] = x
<1>1. IsFiniteSet(S) /\ Cardinality(S) \in Nat
  BY AscendingExists, FS_CardinalityType
<1>2. \E s \in [1..Cardinality(S) -> S] : \A i, j \in DOMAIN s : i < j => s[i] < s[j]
  BY AscendingExists DEF Increasing
<1>3. Ascending(S) \in [1..Cardinality(S) -> S] /\ Increasing(Ascending(S))
  BY <1>2 DEF Ascending, Increasing
<1> DEFINE a == Ascending(S)
           c == Cardinality(S)
<1> HIDE DEF a, c
<1>4. a \in [1..c -> S] /\ Increasing(a) /\ c \in Nat
  BY <1>1, <1>3 DEF a, c
<1>5. a \in Seq(Nat)
  <2>1. a \in [1..c -> Nat]
    BY <1>4
  <2> QED
    BY <1>4, <2>1
<1>6. \A x \in S : \E i \in DOMAIN a : a[i] = x
  <2>1. \A i, j \in 1..c : a[i] = a[j] => i = j
    <3>1. SUFFICES ASSUME NEW i \in 1..c, NEW j \in 1..c, a[i] = a[j], i < j PROVE FALSE
      <4>1. \A i, j \in 1..c : i \in Nat /\ j \in Nat
        BY <1>4
      <4> QED
        BY <4>1
    <3>2. a[i] < a[j] /\ a[i] \in Nat
      BY <1>4, <3>1 DEF Increasing
    <3> QED
      BY <3>1, <3>2
  <2>2. a \in Injection(1..c, S)
    BY <1>4, <2>1 DEF Injection, IsInjective
  <2>3. Cardinality(1..c) = c
    BY <1>4, FS_Interval
  <2>4. a \in Surjection(1..c, S)
    BY <1>1, <2>2, <2>3, FS_Injection DEF c
  <2> QED
    BY <1>4, <2>4 DEF Surjection
<1> QED
  BY <1>4, <1>5, <1>6 DEF a

-----------------------------------------------------------------------------
(* The inductive invariant, part by part.                                  *)

TaskPc == {"idle", "wait", "logout"} \cup Locked
LoopPc == {"off", "wait", "relock", "poll", "backoff", "listen", "handler",
           "end"} \cup LoopLocked
Mode == {"seed", "enter", "batch", "redone", "recover"}
LogoutPc == {"idle", "await", "wait", "bye", "hung", "cleanup", "done"}

TaskState == [pc : TaskPc, op : Operation \cup {"none"}, uid : Nat,
              calls : Nat]
LoopState == [pc : LoopPc, mode : Mode, last : Nat, high : Nat,
              fresh : Seq(Nat), on : 0..MaxConns, partial : BOOLEAN,
              own : BOOLEAN]
ConnState == [open : BOOLEAN, selected : Folder \cup {NoFolder},
              idling : BOOLEAN, news : BOOLEAN]
Message == [uid : Nat, msg : Nat, marked : BOOLEAN]
Report == [uid : Nat, msg : Nat \cup {Empty}, own : BOOLEAN,
           refused : BOOLEAN]

ClientTypes ==
  /\ permits \in {0, 1}
  /\ current \in 0..MaxConns
  /\ isConnected \in BOOLEAN
  /\ capabilities \subseteq {"IDLE", "MOVE"}
  /\ cancelled \in BOOLEAN
ActorTypes ==
  /\ task \in [Task -> TaskState]
  /\ loop \in LoopState
  /\ loop.pc = "listen" => loop.on \in Conn
  /\ logout \in [pc : LogoutPc, inHandler : BOOLEAN]
MailTypes ==
  /\ mail \in [Folder -> SUBSET Message]
  /\ nextUid \in [Folder -> Nat]
  /\ \A f \in Folder : \A m \in mail[f] : m.uid < nextUid[f]
ServerTypes ==
  /\ conn \in [Conn -> ConnState]
  /\ opened \in Conn
  /\ MailTypes
  /\ faults \in Nat
HistoryTypes ==
  /\ reports \in Seq(Report)
  /\ skipped \subseteq Nat
  /\ deleted \subseteq Nat

TypeOK == ClientTypes /\ ActorTypes /\ ServerTypes /\ HistoryTypes

(* Who is in a locked section. *)
Holds(t) == task[t].pc \in Locked
LoopHolds == loop.pc \in LoopLocked
LogoutHolds == logout.pc \in {"bye", "hung"}

(* The lock without counting: the permit is not lost; and until the loop   *)
(* is cancelled whoever is in a locked section is there alone.             *)
PermitKept == permits = 1 \/ LoopHolds \/ LogoutHolds \/ \E t \in Task : Holds(t)
Alone ==
  /\ \A t \in Task : Holds(t) =>
       /\ permits = 0 /\ ~LoopHolds /\ ~LogoutHolds
       /\ \A v \in Task : Holds(v) => v = t
  /\ LoopHolds => permits = 0 /\ ~LogoutHolds
  /\ LogoutHolds => permits = 0
LockInv ==
  /\ cancelled => logout.pc # "idle"
  /\ PermitKept
  /\ ~cancelled => Alone

HandlerAway ==
  logout.inHandler /\ logout.pc \notin {"idle", "done"} => task[Handler].pc = "logout"

(* A UID of the monitored folder names one message, below the next UID.    *)
UidsOfIdle ==
  /\ nextUid[Idle] > 0
  /\ \A m \in mail[Idle] : m.msg = m.uid /\ 0 < m.uid /\ m.uid < nextUid[Idle]

(* Where a command of a move or of a deletion is, its folder is selected.  *)
OnIdle == current # 0 /\ conn[current].open => conn[current].selected = Idle
Moving == {"move", "copy", "store", "expunge"}
TaskSelected ==
  \A t \in Task : task[t].pc \in Moving =>
    /\ task[t].op \in {"move", "delete"}
    /\ task[t].pc \in {"move", "copy"} => task[t].op = "move"
    /\ ~cancelled => OnIdle

(* What a task is about to mark is deleted, or was copied before.          *)
Elsewhere(msg) == \E m \in mail[Other] : m.msg = msg
MarksAreSafe ==
  \A t \in Task :
    /\ task[t].op \in {"move", "delete"} => task[t].uid < nextUid[Idle]
    /\ task[t].op = "delete" => task[t].uid \in deleted
    /\ ~cancelled /\ task[t].op = "move" /\ task[t].pc = "store" =>
         Elsewhere(task[t].uid) \/ WithUid(Idle, task[t].uid) = {}

(* A message that is neither deleted nor elsewhere is unmarked in Idle.    *)
Survives ==
  ~cancelled =>
    \A msg \in 1..nextUid[Idle] - 1 :
      \/ msg \in deleted
      \/ Elsewhere(msg)
      \/ \E m \in mail[Idle] : m.msg = msg /\ ~m.marked

MailInv == UidsOfIdle /\ TaskSelected /\ MarksAreSafe /\ Survives

(* The loop and what it has reported.                                      *)
InBatch == loop.pc \in {"fetch", "handler", "relock"}
Over == loop.pc \in {"hung", "end"}
Reported == {reports[i].uid : i \in DOMAIN reports}

Seeding ==
  /\ loop.pc = "off" => loop.mode = "seed"
  /\ loop.mode = "seed" => reports = <<>> /\ ~InBatch

KnownUids ==
  /\ ~InBatch /\ ~Over => \A i \in DOMAIN reports : reports[i].uid <= loop.last
  /\ InBatch =>
       /\ \A i \in DOMAIN reports : reports[i].uid <= loop.high
       /\ \A i \in DOMAIN loop.fresh : loop.high < loop.fresh[i]
       /\ \A i, j \in DOMAIN loop.fresh : i < j => loop.fresh[i] < loop.fresh[j]

(* Of the messages above the last known UID, each is behind the loop, or   *)
(* still before it, or beyond all it has seen.                             *)
Passed(u) ==
  \/ u \in skipped \cup Reported
  \/ \E i \in DOMAIN loop.fresh : loop.fresh[i] = u
  \/ u > loop.high /\ \A i \in DOMAIN loop.fresh : loop.fresh[i] < u
BatchCovers ==
  InBatch =>
    /\ \A m \in mail[Idle] : m.uid > loop.last => Passed(m.uid)
    /\ \A i \in DOMAIN loop.fresh : loop.fresh[i] < nextUid[Idle]
Below == ~Over => loop.last < nextUid[Idle] /\ (InBatch => loop.high < nextUid[Idle])

(* Until the first event of a batch the folder is still selected, and what *)
(* was found is still there.                                               *)
LoopSelected ==
  /\ ~cancelled
  /\ loop.pc = "search" \/ (loop.pc = "fetch" /\ loop.own)
  /\ current # 0 /\ conn[current].open
  => conn[current].selected = Idle /\ ~conn[current].idling
FreshIsThere ==
  ~cancelled /\ loop.pc = "fetch" /\ loop.own =>
    \A i \in DOMAIN loop.fresh : WithUid(Idle, loop.fresh[i]) # {}
OwnOver == loop.pc \in {"handler", "relock"} => ~loop.own

LoopInv == /\ Seeding /\ KnownUids /\ BatchCovers /\ Below
           /\ LoopSelected /\ FreshIsThere /\ OwnOver

IInv == TypeOK /\ HandlerAway /\ LockInv /\ MailInv /\ LoopInv /\ ReportedOnce /\ FirstReportIsRight

-----------------------------------------------------------------------------
(* What a command does, whoever sends it.                                  *)

(* The messages of the monitored folder stay what they are or leave it. *)
IdleKept ==
  /\ nextUid'[Idle] = nextUid[Idle]
  /\ \A m \in mail'[Idle] : \E n \in mail[Idle] : n.uid = m.uid /\ n.msg = m.msg

(* A command keeps UIDs below the next one, and the folder listened to as  *)
(* it is but for what leaves it.                                           *)
LEMMA EffectFacts ==
  ASSUME MailTypes, NEW cmd, NEW f \in Folder, NEW u \in Nat, Effect(cmd, f, u)
  PROVE  MailTypes' /\ IdleKept
<1> USE ImapAssumption DEF MailTypes, Folder, IdleKept
<1>1. CASE cmd = "copy" /\ WithUid(f, u) # {}
  <2> DEFINE msg == (CHOOSE m \in WithUid(f, u) : TRUE).msg
             new == [uid |-> nextUid[Other], msg |-> msg, marked |-> FALSE]
  <2>1. msg \in Nat
    BY <1>1 DEF WithUid, Message
  <2>2. Place(Other, msg)
    BY <1>1 DEF Effect
  <2>3. new \in Message
    BY <2>1 DEF Message
  <2>4. mail' = [mail EXCEPT ![Other] = @ \cup {new}]
    BY <2>2 DEF Place
  <2>5. nextUid' = [nextUid EXCEPT ![Other] = @ + 1]
    BY <2>2 DEF Place
  <2>6. new.uid = nextUid[Other]
    OBVIOUS
  <2> HIDE DEF new
  <2>7. \A m \in mail'[Other] : m \in mail[Other] \/ m = new
    BY <2>4
  <2>8. mail' \in [Folder -> SUBSET Message] /\ nextUid' \in [Folder -> Nat]
    BY <2>3, <2>4, <2>5
  <2>9. /\ mail'[Idle] = mail[Idle] /\ nextUid'[Idle] = nextUid[Idle]
        /\ nextUid'[Other] = nextUid[Other] + 1 /\ nextUid[Other] \in Nat
    BY <2>4, <2>5
  <2>10. \A m \in mail'[Other] : m.uid < nextUid'[Other]
    <3>1. \A m \in mail[Other] : m.uid \in Nat
      BY DEF Message
    <3> QED
      BY <2>6, <2>7, <2>9, <3>1
  <2> QED
    BY <2>8, <2>9, <2>10
<1>2. CASE cmd = "move" /\ WithUid(f, u) # {} /\ f # Other
  <2> DEFINE m == CHOOSE m \in WithUid(f, u) : TRUE
             new == [m EXCEPT !.uid = nextUid[Other]]
  <2>1. m \in Message
    BY <1>2 DEF WithUid
  <2>2. new \in Message
    BY <2>1 DEF Message
  <2>3. /\ mail' = [mail EXCEPT ![f] = @ \ {m}, ![Other] = @ \cup {new}]
        /\ nextUid' = [nextUid EXCEPT ![Other] = @ + 1]
    BY <1>2 DEF Effect
  <2>4. new.uid = nextUid[Other]
    BY <2>1 DEF Message
  <2> HIDE DEF m, new
  <2>5. \A n \in mail'[Other] : n \in mail[Other] \/ n = new
    BY <1>2, <2>3
  <2>6. mail' \in [Folder -> SUBSET Message] /\ nextUid' \in [Folder -> Nat]
    BY <2>2, <2>3
  <2>7. /\ mail'[Idle] \subseteq mail[Idle] /\ nextUid'[Idle] = nextUid[Idle]
        /\ nextUid'[Other] = nextUid[Other] + 1 /\ nextUid[Other] \in Nat
    BY <1>2, <2>3
  <2>8. \A n \in mail'[Other] : n.uid < nextUid'[Other]
    <3>1. \A n \in mail[Other] : n.uid \in Nat
      BY DEF Message
    <3> QED
      BY <2>4, <2>5, <2>7, <3>1
  <2> QED
    BY <2>6, <2>7, <2>8
<1>3. CASE cmd = "store"
  <2> DEFINE set == {[m EXCEPT !.marked = TRUE] : m \in WithUid(f, u)}
  <2>1. mail' = [mail EXCEPT ![f] = (@ \ WithUid(f, u)) \cup set]
        /\ nextUid' = nextUid
    BY <1>3 DEF Effect
  <2>2. \A m \in set : m \in Message /\ \E n \in mail[f] : n.uid = m.uid /\ n.msg = m.msg
    <3>1. SUFFICES ASSUME NEW n \in mail[f]
                   PROVE  LET m == [n EXCEPT !.marked = TRUE]
                          IN  m \in Message /\ n.uid = m.uid /\ n.msg = m.msg
      BY DEF WithUid
    <3>2. n \in Message
      OBVIOUS
    <3> QED
      BY <3>2 DEF Message
  <2> HIDE DEF set
  <2>3. mail' \in [Folder -> SUBSET Message]
    BY <2>1, <2>2
  <2>4. \A g \in Folder : \A m \in mail'[g] : m \in mail[g] \/ (f = g /\ m \in set)
    BY <2>1
  <2>5. \A g \in Folder : \A m \in mail'[g] : \E n \in mail[g] : n.uid = m.uid /\ n.msg = m.msg
    BY <2>2, <2>4
  <2> QED
    BY <2>1, <2>3, <2>5
<1>4. CASE cmd = "expunge"
  <2>1. mail' = [mail EXCEPT ![f] = {m \in @ : ~m.marked}] /\ nextUid' = nextUid
    BY <1>4 DEF Effect
  <2> QED
    BY <2>1
<1>5. CASE ~(\/ cmd = "copy" /\ WithUid(f, u) # {}
             \/ cmd = "move" /\ WithUid(f, u) # {} /\ f # Other
             \/ cmd = "store" \/ cmd = "expunge")
  <2>1. mail' = mail /\ nextUid' = nextUid
    BY <1>5 DEF Effect
  <2> QED
    BY <2>1
<1> QED
  BY <1>1, <1>2, <1>3, <1>4, <1>5

(* A command disturbs the current connection only, and of that neither     *)
(* whether it is open nor, unless it is a SELECT, its folder; and only the *)
(* four commands that may change messages do.                              *)
LEMMA ServedFacts ==
  ASSUME TypeOK, NEW ans, NEW cmd, NEW f \in Folder, NEW u \in Nat,
         Served(ans, cmd, f, u)
  PROVE  /\ conn' \in [Conn -> ConnState]
         /\ faults' \in Nat
         /\ \A k \in Conn : conn'[k].open = conn[k].open
         /\ \A k \in Conn : k # current => conn'[k] = conn[k]
         /\ cmd # "select" => \A k \in Conn : conn'[k].selected = conn[k].selected
         /\ cmd # "idle" /\ current # 0 /\ conn[current].open => ~conn'[current].idling
         /\ MailTypes' /\ IdleKept
         /\ cmd \notin Moving => UNCHANGED <<mail, nextUid>>
<1> USE ImapAssumption
<1> DEFINE k == current
           sel == cmd \notin {"select", "idle", "noop"}
           done == Executed(ans, sel)
           c == [conn[k] EXCEPT
                     !.idling = cmd = "idle" /\ done,
                     !.news = @ /\ (cmd = "idle" \/ ans \in {"throw", "cancel"}),
                     !.selected = IF cmd # "select" THEN @
                                  ELSE IF done THEN f ELSE NoFolder]
<1>1. /\ conn' = IF k = 0 \/ ~conn[k].open THEN conn ELSE [conn EXCEPT ![k] = c]
      /\ IF done THEN Effect(cmd, conn[k].selected, u)
                 ELSE UNCHANGED <<mail, nextUid>>
      /\ faults' = faults + (IF ans = "refused" THEN 1 ELSE 0)
  BY DEF Served
<1>2. faults' \in Nat
  BY <1>1 DEF TypeOK, ServerTypes
<1>3. done \in BOOLEAN
  BY DEF Executed
<1>4. /\ conn' \in [Conn -> ConnState]
      /\ \A i \in Conn : conn'[i].open = conn[i].open
      /\ \A i \in Conn : i # current => conn'[i] = conn[i]
      /\ cmd # "select" => \A i \in Conn : conn'[i].selected = conn[i].selected
      /\ cmd # "idle" /\ current # 0 /\ conn[current].open => ~conn'[current].idling
  <2>1. CASE k = 0 \/ ~conn[k].open
    BY <1>1, <2>1 DEF TypeOK, ServerTypes, ConnState
  <2>2. CASE ~(k = 0 \/ ~conn[k].open)
    <3>1. k \in Conn /\ conn[k] \in ConnState
      BY <2>2 DEF TypeOK, ServerTypes, ClientTypes, Conn
    <3>2. /\ c \in ConnState /\ c.open = conn[k].open
          /\ cmd # "select" => c.selected = conn[k].selected
          /\ cmd # "idle" => ~c.idling
      <4> HIDE DEF done
      <4> QED
        BY <1>3, <3>1 DEF ConnState
    <3>3. conn' = [conn EXCEPT ![k] = c]
      BY <1>1, <2>2
    <3> HIDE DEF c
    <3> QED
      BY <3>1, <3>2, <3>3 DEF TypeOK, ServerTypes
  <2> QED
    BY <2>1, <2>2
<1>5. MailTypes
  BY DEF MailTypes, TypeOK, ServerTypes
<1>6. MailTypes' /\ IdleKept /\ (cmd \notin Moving => UNCHANGED <<mail, nextUid>>)
  <2>1. CASE ~done \/ cmd \notin Moving
    <3>1. UNCHANGED <<mail, nextUid>>
      BY <1>1, <2>1 DEF Effect, Moving
    <3> QED
      BY <1>5, <3>1 DEF MailTypes, IdleKept
  <2>2. CASE done /\ cmd \in Moving
    <3>1. conn[k].selected # NoFolder /\ k \in Conn
      BY <2>2 DEF Executed, Moving, TypeOK, ClientTypes, Conn
    <3>2. conn[k].selected \in Folder
      BY <3>1 DEF TypeOK, ServerTypes, ConnState
    <3>3. Effect(cmd, conn[k].selected, u)
      BY <1>1, <2>2
    <3> QED
      BY <1>5, <2>2, <3>2, <3>3, EffectFacts
  <2> QED
    BY <2>1, <2>2
<1> QED
  BY <1>2, <1>4, <1>6

(* EnsureConnectedAsync ends on the connection it began with, or on a new  *)
(* one that has nothing selected; no message changes.                      *)
LEMMA EnsureFacts ==
  ASSUME TypeOK, NEW ans, EnsureConnected(ans)
  PROVE  /\ isConnected' \in BOOLEAN /\ current' \in 0..MaxConns
         /\ conn' \in [Conn -> ConnState] /\ opened' \in Conn /\ faults' \in Nat
         /\ UNCHANGED <<mail, nextUid>>
<1> USE ImapAssumption DEF Conn
<1>1. CASE isConnected /\ ans = "never"
  BY <1>1 DEF EnsureConnected, TypeOK, ClientTypes, ServerTypes, serverVars
<1>2. CASE isConnected /\ ans = "ok"
  <2>1. Served(ans, "noop", Idle, 0) /\ UNCHANGED <<isConnected, current, opened>>
    BY <1>2 DEF EnsureConnected
  <2>2. "noop" \notin Moving /\ Idle \in Folder
    BY DEF Moving, Folder
  <2> QED
    BY <2>1, <2>2, ServedFacts DEF TypeOK, ClientTypes, ServerTypes
<1>3. CASE ~(isConnected /\ ans \in {"never", "ok"})
  <2>1. ConnectCore
    BY <1>3 DEF EnsureConnected
  <2>2. Fresh \in ConnState
    BY DEF Fresh, Closed, ConnState
  <2>3. /\ conn \in [Conn -> ConnState] /\ opened \in Nat /\ opened >= 1
        /\ opened <= MaxConns /\ faults \in Nat /\ current \in 0..MaxConns
    BY DEF TypeOK, ClientTypes, ServerTypes
  <2>4. CASE opened < MaxConns /\ opened' = opened + 1
    <3>1. /\ conn' = [conn EXCEPT ![opened + 1] = Fresh] /\ isConnected' = TRUE
          /\ current' = opened + 1 /\ UNCHANGED <<mail, nextUid, faults>>
      BY <2>1, <2>3, <2>4 DEF ConnectCore
    <3> QED
      BY <2>2, <2>3, <2>4, <3>1
  <2>5. CASE ~(opened < MaxConns /\ opened' = opened + 1)
    <3>1. /\ isConnected' = FALSE /\ UNCHANGED <<opened, current, conn, mail, nextUid>>
          /\ faults' \in {faults, faults + 1}
      BY <2>1, <2>5 DEF ConnectCore
    <3>2. faults' \in Nat /\ opened' \in Conn /\ current' \in 0..MaxConns
      BY <2>3, <3>1
    <3> QED
      BY <2>3, <3>1, <3>2
  <2> QED
    BY <2>4, <2>5
<1> QED
  BY <1>1, <1>2, <1>3

(* The state of a task, and of the loop, after it has moved on. *)
LEMMA TaskMoves ==
  ASSUME task \in [Task -> TaskState], NEW t \in Task, NEW pc \in TaskPc,
         task' = [task EXCEPT ![t].pc = pc]
  PROVE  task' \in [Task -> TaskState]
<1>1. [task[t] EXCEPT !.pc = pc] \in TaskState
  BY DEF TaskState
<1> QED
  BY <1>1

(* Where the loop goes is a state of the loop, here when only pc changes   *)
(* ...                                                                     *)
LEMMA LoopMoves ==
  ASSUME TypeOK, NEW pc, pc \in LoopPc, pc # "listen"
  PROVE  /\ [loop EXCEPT !.pc = pc] \in LoopState
         /\ [loop EXCEPT !.pc = pc].pc = pc
  BY DEF TypeOK, ActorTypes, LoopState

(* ... here with a new mode ... *)
LEMMA LoopGoes ==
  ASSUME TypeOK, NEW pc, pc \in LoopPc, pc # "listen", NEW mode \in Mode
  PROVE  GoTo(pc, mode) \in LoopState /\ GoTo(pc, mode).pc = pc
  BY DEF TypeOK, ActorTypes, LoopState, GoTo

(* ... here after an exception, which releases the lock ... *)
LEMMA LoopThrowsTypes ==
  ASSUME TypeOK, NEW ans, LoopThrows(ans)
  PROVE  permits' = 1 /\ loop' \in LoopState /\ loop'.pc \in {"end", "backoff"}
<1>1. {"end", "backoff"} \subseteq LoopPc
  BY DEF LoopPc
<1> QED
  BY <1>1, LoopMoves DEF LoopThrows, SetLoop, Release

(* ... and here at the head of the loop. *)
LEMMA AgainTypes ==
  ASSUME NEW l \in LoopState
  PROVE  Again(l) \in LoopState /\ Again(l).pc \in {"wait", "poll"}
  BY DEF Again, LoopState, LoopPc, Mode

(* A search that was answered found UIDs of a folder. *)
LEMMA FoundFacts ==
  ASSUME TypeOK, NEW ans, ans \in LoopAnswers(TRUE)
  PROVE  /\ Found(ans) \subseteq Nat
         /\ ans = "ok" => /\ current \in Conn /\ conn[current].open
                          /\ conn[current].selected \in Folder
                          /\ ~conn[current].idling
         /\ \E n \in Nat : \A u \in Found(ans) : u <= n
<1> USE ImapAssumption
<1>1. ASSUME ans = "ok"
      PROVE  /\ current \in Conn /\ conn[current].open
             /\ conn[current].selected \in Folder /\ ~conn[current].idling
  <2>1. current # 0 /\ conn[current].open /\ ~conn[current].idling
        /\ conn[current].selected # NoFolder
    BY <1>1 DEF LoopAnswers, Answers
  <2>2. current \in Conn
    BY <2>1 DEF TypeOK, ClientTypes, Conn
  <2> QED
    BY <2>1, <2>2 DEF TypeOK, ServerTypes, ConnState
<1>2. CASE ans = "ok"
  <2> DEFINE f == conn[current].selected
  <2>1. f \in Folder
    BY <1>1, <1>2
  <2>2. Found(ans) = {m.uid : m \in mail[f]}
    BY <1>2 DEF Found
  <2>3. \A m \in mail[f] : m.uid \in Nat /\ m.uid < nextUid[f]
    BY <2>1 DEF TypeOK, ServerTypes, MailTypes, Message
  <2>4. nextUid[f] \in Nat
    BY <2>1 DEF TypeOK, ServerTypes, MailTypes
  <2> HIDE DEF f
  <2>5. \A u \in Found(ans) : u \in Nat /\ u <= nextUid[f]
    BY <2>2, <2>3, <2>4
  <2> QED
    BY <1>1, <1>2, <2>4, <2>5
<1>3. CASE ans # "ok"
  BY <1>3 DEF Found
<1> QED
  BY <1>2, <1>3

(* What the loop takes for new: the UIDs above the last known one, in      *)
(* ascending order.                                                        *)
LEMMA FreshFacts ==
  ASSUME TypeOK, NEW ans, ans \in LoopAnswers(TRUE),
         NEW S, S = {u \in Found(ans) : u > loop.last}
  PROVE  /\ Ascending(S) \in Seq(Nat) /\ Increasing(Ascending(S))
         /\ \A i \in DOMAIN Ascending(S) : Ascending(S)[i] \in S
         /\ \A u \in S : \E i \in DOMAIN Ascending(S) : Ascending(S)[i] = u
<1>1. PICK n \in Nat : \A u \in Found(ans) : u <= n
  BY FoundFacts
<1>2. S \subseteq Nat /\ \A u \in S : u <= n
  BY <1>1, FoundFacts
<1> QED
  BY <1>2, AscendingLists

(* The UID StartIdleAsync seeds with is 0, or the greatest it found. *)
LEMMA SeedFacts ==
  ASSUME TypeOK, NEW ans, ans \in LoopAnswers(TRUE)
  PROVE  /\ Seed(ans) \in Nat /\ Seed(ans) \in Found(ans) \cup {0}
         /\ \A u \in Found(ans) : u <= Seed(ans)
<1> DEFINE S == Found(ans) \cup {0}
<1>1. PICK n \in Nat : \A u \in Found(ans) : u <= n
  BY FoundFacts
<1>2. S \subseteq Nat /\ S # {} /\ \A u \in S : u <= n
  <2>1. Found(ans) \subseteq Nat
    BY FoundFacts
  <2> QED
    BY <1>1, <2>1
<1> HIDE DEF S
<1>3. Max(S) \in S /\ \A x \in S : x <= Max(S)
  BY <1>2, MaxOfNumbers
<1> QED
  BY <1>2, <1>3 DEF S, Seed

-----------------------------------------------------------------------------
(* Types.                                                                  *)

(* The initial state is well formed. *)
LEMMA InitTypes == Init => TypeOK
<1> SUFFICES ASSUME Init PROVE TypeOK
  OBVIOUS
<1> USE ImapAssumption
<1>1. 1 \in Conn /\ 1 \in 0..MaxConns /\ 0 \in 0..MaxConns
  BY DEF Conn
<1>2. ClientTypes
  BY <1>1 DEF Init, ClientTypes
<1>3. ActorTypes
  <2>1. [pc |-> "idle", op |-> "none", uid |-> 0, calls |-> 0] \in TaskState
    BY DEF TaskState, TaskPc
  <2>2. loop \in LoopState /\ loop.pc # "listen"
    BY <1>1 DEF Init, LoopState, LoopPc, Mode
  <2>3. logout \in [pc : LogoutPc, inHandler : BOOLEAN]
    BY DEF Init, LogoutPc
  <2> QED
    BY <2>1, <2>2, <2>3 DEF Init, ActorTypes
<1>4. ServerTypes
  <2>1. Closed \in ConnState /\ Fresh \in ConnState
    BY DEF Fresh, Closed, ConnState
  <2>2. [uid |-> 2, msg |-> 0, marked |-> FALSE] \in Message
    BY DEF Message
  <2>3. MailTypes
    BY <2>2 DEF Init, MailTypes
  <2> QED
    BY <1>1, <2>1, <2>3 DEF Init, ServerTypes
<1>5. HistoryTypes
  BY DEF Init, HistoryTypes
<1> QED
  BY <1>2, <1>3, <1>4, <1>5 DEF TypeOK

(* A step of the loop that only changes where it is. *)
LEMMA LoopTypes ==
  ASSUME TypeOK, loop' \in LoopState, loop'.pc # "listen",
         UNCHANGED <<task, logout>>
  PROVE  ActorTypes'
  BY DEF TypeOK, ActorTypes

(* Every step leads from well-formed states to well-formed states. *)
LEMMA TypeStep == TypeOK /\ [Next]_vars => TypeOK'
<1> SUFFICES ASSUME TypeOK, [Next]_vars PROVE TypeOK'
  OBVIOUS
<1> USE ImapAssumption DEF clientVars, serverVars, historyVars
<1> DEFINE Cl == UNCHANGED clientVars /\ UNCHANGED cancelled
           Se == UNCHANGED serverVars
           Hi == UNCHANGED historyVars
<1>a. Cl => ClientTypes'
  BY DEF TypeOK, ClientTypes
<1>b. Se => ServerTypes'
  BY DEF TypeOK, ServerTypes, MailTypes
<1>c. Hi => HistoryTypes'
  BY DEF TypeOK, HistoryTypes
<1>d. UNCHANGED <<task, loop, logout>> => ActorTypes'
  BY DEF TypeOK, ActorTypes
<1>e. UNCHANGED <<current, isConnected, capabilities, cancelled>> /\ permits' \in {0, 1} => ClientTypes'
  BY DEF TypeOK, ClientTypes
<1>f. Idle \in Folder /\ Other \in Folder /\ 0 \in Nat
  BY DEF Folder
<1> HIDE DEF Cl, Se, Hi

<1>1. ASSUME NEW t \in Task, NEW op \in Operation, NEW u \in 0..MaxMail, Call(t, op, u) PROVE TypeOK'
  <2>1. task' \in [Task -> TaskState]
    <3>1. /\ task[t] \in TaskState
          /\ task' = [task EXCEPT ![t] = [task[t] EXCEPT !.pc = "wait",
                                    !.op = op, !.uid = u, !.calls = @ + 1]]
      BY <1>1 DEF Call, TypeOK, ActorTypes
    <3>2. [task[t] EXCEPT !.pc = "wait", !.op = op, !.uid = u, !.calls = @ + 1] \in TaskState
      <4>1. u \in Nat /\ task[t].calls + 1 \in Nat
        BY <3>1 DEF TaskState
      <4> QED
        BY <3>1, <4>1 DEF TaskState, TaskPc
    <3> QED
      BY <3>1, <3>2 DEF TypeOK, ActorTypes
  <2>2. ActorTypes'
    BY <1>1, <2>1 DEF Call, TypeOK, ActorTypes
  <2>3. HistoryTypes'
    <3>1. \A m \in mail[Idle] : m.msg \in Nat
      BY <1>f DEF TypeOK, ServerTypes, MailTypes, Message
    <3> QED
      BY <1>1, <3>1 DEF Call, TypeOK, HistoryTypes, WithUid
  <2> QED
    BY <1>1, <1>a, <1>b, <2>2, <2>3 DEF Call, TypeOK, Cl, Se
<1>2. ASSUME NEW t \in Task, Acquire(t) PROVE TypeOK'
  <2>1. task' \in [Task -> TaskState]
    BY <1>2, TaskMoves DEF Acquire, TypeOK, ActorTypes, TaskPc, Locked
  <2> QED
    BY <1>2, <1>b, <1>c, <1>e, <2>1 DEF Acquire, TypeOK, ActorTypes, Se, Hi
<1>3. ASSUME NEW t \in Task, NEW ans, Ensure(t, ans) PROVE TypeOK'
  <2>1. task' \in [Task -> TaskState]
    <3>1. PICK pc \in {"hung", "select"} : task' = [task EXCEPT ![t].pc = pc]
      BY <1>3 DEF Ensure
    <3> QED
      BY <3>1, TaskMoves DEF TypeOK, ActorTypes, TaskPc, Locked
  <2>2. ClientTypes' /\ ServerTypes'
    BY <1>3, EnsureFacts DEF Ensure, TypeOK, ClientTypes, ServerTypes, MailTypes
  <2> QED
    BY <1>3, <1>c, <2>1, <2>2 DEF Ensure, TypeOK, ActorTypes, Hi
<1>4. ASSUME NEW t \in Task, NEW ans, Command(t, ans) PROVE TypeOK'
  <2> DEFINE cmd == task[t].pc
             next == CASE ans = "never" -> "hung"
                       [] ans = "ok" -> NextStep(task[t].op, cmd)
                       [] OTHER -> "idle"
             f == IF task[t].op = "read" THEN Other ELSE Idle
  <2>1. next \in TaskPc
    BY DEF NextStep, TaskPc, Locked
  <2>2. task[t] \in TaskState
    BY DEF TypeOK, ActorTypes
  <2>3. task' \in [Task -> TaskState]
    <3> DEFINE new == IF next = "idle" THEN [task[t] EXCEPT !.pc = "idle", !.op = "none", !.uid = 0]
                      ELSE [task[t] EXCEPT !.pc = next]
    <3>1. task' = [task EXCEPT ![t] = new]
      BY <1>4 DEF Command
    <3> HIDE DEF next
    <3>2. new \in TaskState
      BY <2>1, <2>2 DEF TaskState, TaskPc
    <3> HIDE DEF new
    <3> QED
      BY <3>1, <3>2 DEF TypeOK, ActorTypes
  <2>4. permits' \in {0, 1}
    BY <1>4 DEF Command, Release, TypeOK, ClientTypes
  <2>5. /\ Served(ans, cmd, f, task[t].uid) /\ isConnected' \in BOOLEAN
        /\ UNCHANGED <<current, capabilities, cancelled, loop, logout, opened>> /\ Hi
    BY <1>4 DEF Command, Answered, Hi
  <2>6. f \in Folder /\ task[t].uid \in Nat
    BY <1>f, <2>2 DEF TaskState
  <2> HIDE DEF cmd, f, next
  <2>7. ServerTypes'
    BY <2>5, <2>6, ServedFacts DEF TypeOK, ServerTypes
  <2>8. ClientTypes'
    BY <2>4, <2>5 DEF TypeOK, ClientTypes
  <2>9. ActorTypes'
    BY <2>3, <2>5 DEF TypeOK, ActorTypes
  <2> QED
    BY <1>c, <2>5, <2>7, <2>8, <2>9 DEF TypeOK
<1>5. ASSUME Listen PROVE TypeOK'
  <2>1. PICK pc \in {"wait", "relock", "end"}, mode \in Mode : loop' = GoTo(pc, mode)
    <3>1. loop.mode \in Mode /\ {"seed", "batch", "recover"} \subseteq Mode
      BY DEF TypeOK, ActorTypes, LoopState, Mode
    <3> QED
      BY <1>5, <3>1 DEF Listen, SetLoop
  <2>2. loop' \in LoopState /\ loop'.pc # "listen"
    BY <2>1, LoopGoes DEF LoopPc
  <2> QED
    BY <1>5, <1>a, <1>b, <1>c, <2>2, LoopTypes DEF Listen, TypeOK, Cl, Se, Hi
<1>6. ASSUME Backoff PROVE TypeOK'
  <2>1. PICK pc \in {"wait", "relock", "end"}, mode \in Mode : loop' = GoTo(pc, mode)
    <3>1. loop.mode \in Mode /\ {"seed", "batch", "recover"} \subseteq Mode
      BY DEF TypeOK, ActorTypes, LoopState, Mode
    <3> QED
      BY <1>6, <3>1 DEF Backoff, SetLoop
  <2>2. loop' \in LoopState /\ loop'.pc # "listen"
    BY <2>1, LoopGoes DEF LoopPc
  <2> QED
    BY <1>6, <1>a, <1>b, <1>c, <2>2, LoopTypes DEF Backoff, TypeOK, Cl, Se, Hi
<1>7. ASSUME HandlerReturns PROVE TypeOK'
  <2>1. PICK pc \in {"wait", "relock", "end"}, mode \in Mode : loop' = GoTo(pc, mode)
    <3>1. loop.mode \in Mode /\ {"seed", "batch", "recover"} \subseteq Mode
      BY DEF TypeOK, ActorTypes, LoopState, Mode
    <3> QED
      BY <1>7, <3>1 DEF HandlerReturns, SetLoop
  <2>2. loop' \in LoopState /\ loop'.pc # "listen"
    BY <2>1, LoopGoes DEF LoopPc
  <2> QED
    BY <1>7, <1>a, <1>b, <1>c, <2>2, LoopTypes DEF HandlerReturns, TypeOK, Cl, Se, Hi
<1>8. ASSUME Poll PROVE TypeOK'
  <2>1. PICK pc \in {"wait", "relock", "end"}, mode \in Mode : loop' = GoTo(pc, mode)
    <3>1. loop.mode \in Mode /\ {"seed", "batch", "recover"} \subseteq Mode
      BY DEF TypeOK, ActorTypes, LoopState, Mode
    <3> QED
      BY <1>8, <3>1 DEF Poll, SetLoop
  <2>2. loop' \in LoopState /\ loop'.pc # "listen"
    BY <2>1, LoopGoes DEF LoopPc
  <2> QED
    BY <1>8, <1>a, <1>b, <1>c, <2>2, LoopTypes DEF Poll, TypeOK, Cl, Se, Hi
<1>9. ASSUME LoopAcquire PROVE TypeOK'
  <2>1. PICK pc \in {"end", "fetch", "sendIdle", "done", "ensure"} :
          loop' = [loop EXCEPT !.pc = pc]
    BY <1>9 DEF LoopAcquire, SetLoop
  <2>2. loop' \in LoopState /\ loop'.pc # "listen"
    BY <2>1, LoopMoves DEF LoopPc, LoopLocked
  <2>3. permits' \in {0, 1}
    BY <1>9 DEF LoopAcquire, TypeOK, ClientTypes
  <2> QED
    BY <1>9, <1>b, <1>c, <1>e, <2>2, <2>3, LoopTypes DEF LoopAcquire, TypeOK, Se, Hi
<1>10. ASSUME BatchEnds PROVE TypeOK'
  <2> DEFINE l == [loop EXCEPT !.last = loop.high, !.high = 0, !.own = FALSE]
  <2>1. l \in LoopState
    BY DEF TypeOK, ActorTypes, LoopState
  <2>2. loop' = Again(l) /\ permits' = 1
    BY <1>10 DEF BatchEnds, SetLoop, Release
  <2> HIDE DEF l
  <2>3. loop' \in LoopState /\ loop'.pc # "listen"
    BY <2>1, <2>2, AgainTypes
  <2> QED
    BY <1>10, <1>b, <1>c, <1>e, <2>2, <2>3, LoopTypes DEF BatchEnds, TypeOK, Se, Hi
<1>11. ASSUME LoopGivesUp PROVE TypeOK'
  <2>1. permits' = 1 /\ loop' \in LoopState /\ loop'.pc # "listen"
    BY <1>11, LoopThrowsTypes DEF LoopGivesUp
  <2> QED
    BY <1>11, <1>b, <1>c, <1>e, <2>1, LoopTypes DEF LoopGivesUp, TypeOK, Se, Hi
<1>12. ASSUME NEW exists \in BOOLEAN, LoopLine(exists) PROVE TypeOK'
  <2> DEFINE k == loop.on
             leave(pc) == [loop EXCEPT !.pc = pc, !.on = 0, !.partial = FALSE]
             over == [loop EXCEPT !.on = current, !.partial = conn[k].open]
             stay == [loop EXCEPT !.partial = FALSE]
  <2>1. k \in Conn /\ loop \in LoopState /\ conn[k] \in ConnState /\ loop.pc = "listen"
    BY <1>12 DEF LoopLine, TypeOK, ActorTypes, ServerTypes
  <2>2. /\ leave("wait") \in LoopState /\ leave("wait").pc # "listen"
        /\ leave("backoff") \in LoopState /\ leave("backoff").pc # "listen"
        /\ stay \in LoopState /\ stay.on \in Conn
    <3>1. 0 \in 0..MaxConns
      OBVIOUS
    <3> QED
      BY <2>1, <3>1 DEF LoopState, LoopPc
  <2>3. current # 0 => over \in LoopState /\ over.on \in Conn
    <3>1. conn[k].open \in BOOLEAN
      BY <2>1 DEF ConnState
    <3>2. current \in 0..MaxConns /\ (current # 0 => current \in Conn)
      BY DEF TypeOK, ClientTypes, Conn
    <3> QED
      BY <2>1, <3>1, <3>2 DEF LoopState
  <2>4. loop' \in {leave("wait"), leave("backoff"), stay} \/ (current # 0 /\ loop' = over)
    BY <1>12 DEF LoopLine, SetLoop
  <2>5. conn' \in [Conn -> ConnState]
    <3>1. conn' = [conn EXCEPT ![k].news = @ /\ ~exists]
      BY <1>12 DEF LoopLine
    <3>2. [conn[k] EXCEPT !.news = @ /\ ~exists] \in ConnState
      BY <2>1 DEF ConnState
    <3> HIDE DEF k
    <3> QED
      BY <2>1, <3>1, <3>2 DEF TypeOK, ServerTypes
  <2>6. UNCHANGED <<clientVars, cancelled, task, logout, opened, mail, nextUid, faults, historyVars>>
    BY <1>12 DEF LoopLine
  <2> HIDE DEF leave, over, stay, k
  <2>7. loop' \in LoopState /\ (loop'.pc = "listen" => loop'.on \in Conn)
    BY <2>2, <2>3, <2>4
  <2>8. ActorTypes'
    BY <2>6, <2>7 DEF TypeOK, ActorTypes
  <2>9. ServerTypes'
    BY <2>5, <2>6 DEF TypeOK, ServerTypes, MailTypes
  <2> QED
    BY <1>a, <1>c, <2>6, <2>8, <2>9 DEF TypeOK, Cl, Hi
<1>13. ASSUME NEW ans, LoopEnsure(ans) PROVE TypeOK'
  <2>1. loop' \in LoopState /\ loop'.pc # "listen" /\ permits' \in {0, 1}
    <3>1. loop \in LoopState /\ {"hung", "select"} \subseteq LoopPc /\ loop.mode \in Mode
      BY DEF TypeOK, ActorTypes, LoopState, LoopPc, LoopLocked
    <3>2. loop' \in {GoTo("hung", loop.mode), Again(loop), GoTo("select", loop.mode)}
      BY <1>13 DEF LoopEnsure, SetLoop
    <3>3. permits' \in {0, 1}
      BY <1>13 DEF LoopEnsure, Release, TypeOK, ClientTypes
    <3>4. /\ GoTo("hung", loop.mode) \in LoopState /\ GoTo("hung", loop.mode).pc = "hung"
          /\ GoTo("select", loop.mode) \in LoopState /\ GoTo("select", loop.mode).pc = "select"
      BY <3>1, LoopGoes
    <3>5. Again(loop) \in LoopState /\ Again(loop).pc \in {"wait", "poll"}
      BY <3>1, AgainTypes
    <3> QED
      BY <3>2, <3>3, <3>4, <3>5
  <2>2. /\ isConnected' \in BOOLEAN /\ current' \in 0..MaxConns
        /\ conn' \in [Conn -> ConnState] /\ opened' \in Conn /\ faults' \in Nat
        /\ UNCHANGED <<mail, nextUid>>
    <3>1. CASE ans = "cancel"
      <4>1. /\ isConnected' = FALSE
            /\ opened' = Min({opened + 1, MaxConns})
            /\ current' = IF opened < MaxConns THEN opened + 1 ELSE current
            /\ conn' = [conn EXCEPT ![opened'] = IF opened < MaxConns THEN Fresh ELSE @]
            /\ UNCHANGED <<mail, nextUid, faults>>
        BY <1>13, <3>1 DEF LoopEnsure
      <4>2. opened \in Conn /\ conn \in [Conn -> ConnState] /\ current \in 0..MaxConns /\ faults \in Nat
        BY DEF TypeOK, ClientTypes, ServerTypes
      <4>3. opened' \in Conn
        BY <4>1, <4>2, MinOfTwo DEF Conn
      <4>4. Fresh \in ConnState
        BY DEF Fresh, Closed, ConnState
      <4>5. conn' \in [Conn -> ConnState]
        BY <4>1, <4>2, <4>3, <4>4
      <4>6. current' \in 0..MaxConns
        BY <4>1, <4>2 DEF Conn
      <4> QED
        BY <4>1, <4>2, <4>3, <4>5, <4>6
    <3>2. CASE ans # "cancel"
      BY <1>13, <3>2, EnsureFacts DEF LoopEnsure
    <3> QED
      BY <3>1, <3>2
  <2>3. UNCHANGED <<capabilities, cancelled, task, logout>> /\ Hi
    BY <1>13 DEF LoopEnsure, Hi
  <2>4. ClientTypes'
    BY <2>1, <2>2, <2>3 DEF TypeOK, ClientTypes
  <2>5. ServerTypes'
    BY <2>2 DEF TypeOK, ServerTypes, MailTypes
  <2> QED
    BY <1>c, <2>1, <2>3, <2>4, <2>5, LoopTypes DEF TypeOK
<1>14. ASSUME NEW ans, LoopSelect(ans) PROVE TypeOK'
  <2>1. /\ Served(ans, "select", Idle, 0) /\ isConnected' \in BOOLEAN
        /\ UNCHANGED <<current, capabilities, cancelled, task, logout, opened>> /\ Hi
    BY <1>14 DEF LoopSelect, Answered, Hi
  <2>2. loop' \in LoopState /\ loop'.pc # "listen" /\ permits' \in {0, 1}
    <3>1. CASE LoopThrows(ans)
      BY <3>1, LoopThrowsTypes
    <3>2. CASE ~LoopThrows(ans)
      <4>1. /\ loop' \in {GoTo("hung", loop.mode), Again(loop), [loop EXCEPT !.pc = "search", !.own = TRUE]}
            /\ permits' \in {0, 1}
        BY <1>14, <3>2 DEF LoopSelect, SetLoop, Release, TypeOK, ClientTypes
      <4>2. loop \in LoopState /\ "hung" \in LoopPc /\ loop.mode \in Mode
        BY DEF TypeOK, ActorTypes, LoopState, LoopPc, LoopLocked
      <4>3. [loop EXCEPT !.pc = "search", !.own = TRUE] \in LoopState
            /\ [loop EXCEPT !.pc = "search", !.own = TRUE].pc = "search"
        BY <4>2 DEF LoopState, LoopPc, LoopLocked
      <4>4. GoTo("hung", loop.mode) \in LoopState /\ GoTo("hung", loop.mode).pc = "hung"
        BY <4>2, LoopGoes
      <4>5. Again(loop) \in LoopState /\ Again(loop).pc \in {"wait", "poll"}
        BY <4>2, AgainTypes
      <4> QED
        BY <4>1, <4>3, <4>4, <4>5
    <3> QED
      BY <3>1, <3>2
  <2>3. ServerTypes'
    BY <1>f, <2>1, ServedFacts DEF TypeOK, ServerTypes
  <2>4. ClientTypes'
    BY <2>1, <2>2 DEF TypeOK, ClientTypes
  <2> QED
    BY <1>c, <2>1, <2>2, <2>3, <2>4, LoopTypes DEF TypeOK
<1>15. ASSUME NEW ans, LoopSearch(ans) PROVE TypeOK'
  <2>1. /\ Served(ans, "search", Idle, 0) /\ isConnected' \in BOOLEAN
        /\ UNCHANGED <<current, capabilities, cancelled, task, logout, opened>> /\ Hi
    BY <1>15 DEF LoopSearch, Answered, Hi
  <2>2. loop' \in LoopState /\ loop'.pc # "listen" /\ permits' \in {0, 1}
    <3> DEFINE S == {u \in Found(ans) : u > loop.last}
               batch == [loop EXCEPT !.pc = "fetch", !.high = loop.last, !.fresh = Ascending(S)]
               seeded == [loop EXCEPT !.last = Seed(ans)]
    <3>1. CASE LoopThrows(ans)
      BY <3>1, LoopThrowsTypes
    <3>2. CASE ~LoopThrows(ans)
      <4>1. /\ loop' \in {GoTo("hung", loop.mode), Again(seeded), batch}
            /\ permits' \in {0, 1}
        BY <1>15, <3>2 DEF LoopSearch, SetLoop, Release, TypeOK, ClientTypes
      <4>2. loop \in LoopState /\ "hung" \in LoopPc /\ loop.mode \in Mode
        BY DEF TypeOK, ActorTypes, LoopState, LoopPc, LoopLocked
      <4>3. ans \in LoopAnswers(TRUE)
        BY <1>15 DEF LoopSearch
      <4>4. Ascending(S) \in Seq(Nat)
        BY <4>3, FreshFacts
      <4>5. Seed(ans) \in Nat
        BY <4>3, SeedFacts
      <4>6. batch \in LoopState /\ batch.pc = "fetch"
        <5> HIDE DEF S
        <5> QED
          BY <4>2, <4>4 DEF LoopState, LoopPc, LoopLocked
      <4>7. seeded \in LoopState
        BY <4>2, <4>5 DEF LoopState
      <4> HIDE DEF batch, seeded
      <4>8. GoTo("hung", loop.mode) \in LoopState /\ GoTo("hung", loop.mode).pc = "hung"
        BY <4>2, LoopGoes
      <4>9. Again(seeded) \in LoopState /\ Again(seeded).pc \in {"wait", "poll"}
        BY <4>7, AgainTypes
      <4> QED
        BY <4>1, <4>6, <4>8, <4>9
    <3> QED
      BY <3>1, <3>2
  <2>3. ServerTypes'
    BY <1>f, <2>1, ServedFacts DEF TypeOK, ServerTypes
  <2>4. ClientTypes'
    BY <2>1, <2>2 DEF TypeOK, ClientTypes
  <2> QED
    BY <1>c, <2>1, <2>2, <2>3, <2>4, LoopTypes DEF TypeOK
<1>16. ASSUME NEW ans, LoopFetch(ans) PROVE TypeOK'
  <2> DEFINE u == Head(loop.fresh)
             rest == [loop EXCEPT !.fresh = Tail(@)]
             handed == [rest EXCEPT !.pc = "handler", !.own = FALSE, !.high = Max({@, u})]
  <2>1. /\ Served(ans, "fetch", Idle, 0) /\ isConnected' \in BOOLEAN
        /\ UNCHANGED <<current, capabilities, cancelled, task, logout, opened, deleted>>
        /\ loop.fresh # <<>> /\ loop.pc = "fetch" /\ ans \in LoopAnswers(TRUE)
    BY <1>16 DEF LoopFetch, Answered
  <2>2. loop \in LoopState /\ "hung" \in LoopPc /\ loop.mode \in Mode
    BY DEF TypeOK, ActorTypes, LoopState, LoopPc, LoopLocked
  <2>3. u \in Nat /\ Tail(loop.fresh) \in Seq(Nat)
    BY <2>1, <2>2 DEF LoopState
  <2>4. rest \in LoopState /\ rest.pc = "fetch"
    BY <2>1, <2>2, <2>3 DEF LoopState
  <2>5. handed \in LoopState /\ handed.pc = "handler"
    <3>1. Max({loop.high, u}) \in Nat
      BY <2>2, <2>3, MaxOfTwo DEF LoopState
    <3> QED
      BY <2>2, <2>3, <3>1 DEF LoopState, LoopPc, LoopLocked
  <2>6. /\ loop' \in {GoTo("hung", loop.mode), rest, handed} /\ permits' \in {0, 1}
        /\ skipped' \in {skipped, skipped \cup {u}}
        /\ \/ UNCHANGED reports
           \/ ans \in {"ok", "no", "refused"} /\ \E c \in Contents(ans, u) :
                reports' = Append(reports, [uid |-> u, msg |-> c, own |-> loop.own,
                                            refused |-> ans = "refused"])
    <3>1. ans \in {"ok", "no", "refused", "never", "throw", "cancel"}
      BY <2>1 DEF LoopAnswers, Answers
    <3>2. permits \in {0, 1}
      BY DEF TypeOK, ClientTypes
    <3>3. CASE ans = "never"
      BY <1>16, <3>2, <3>3 DEF LoopFetch, SetLoop
    <3>4. CASE ans \in {"throw", "cancel"}
      BY <1>16, <3>2, <3>4 DEF LoopFetch, SetLoop
    <3>5. CASE ans \in {"ok", "no", "refused"}
      BY <1>16, <3>2, <3>5 DEF LoopFetch, SetLoop, Release
    <3> QED
      BY <3>1, <3>3, <3>4, <3>5
  <2>7. ASSUME ans \in {"ok", "no", "refused"} PROVE Contents(ans, u) \subseteq Nat \cup {Empty}
    <3> DEFINE found == WithUid(conn[current].selected, u)
    <3>1. CASE ans = "no" \/ found = {}
      BY <3>1 DEF Contents
    <3>2. CASE ~(ans = "no" \/ found = {})
      <4>1. current # 0 /\ conn[current].selected # NoFolder
        BY <2>1, <2>7, <3>2 DEF LoopAnswers, Answers
      <4>2. conn[current].selected \in Folder
        BY <4>1 DEF TypeOK, ClientTypes, ServerTypes, ConnState, Conn
      <4>3. \A m \in found : m.msg \in Nat
        BY <4>2 DEF TypeOK, ServerTypes, MailTypes, Message, WithUid
      <4>4. (CHOOSE m \in found : TRUE) \in found
        BY <3>2
      <4>5. Contents(ans, u) \subseteq {(CHOOSE m \in found : TRUE).msg, Empty}
        BY <3>2 DEF Contents
      <4> HIDE DEF found
      <4> QED
        BY <4>3, <4>4, <4>5
    <3> QED
      BY <3>1, <3>2
  <2>8. reports' \in Seq(Report)
    <3>1. reports \in Seq(Report)
      BY DEF TypeOK, HistoryTypes
    <3>2. ASSUME ans \in {"ok", "no", "refused"}, NEW c \in Contents(ans, u)
          PROVE  [uid |-> u, msg |-> c, own |-> loop.own, refused |-> ans = "refused"] \in Report
      BY <2>2, <2>3, <2>7, <3>2 DEF Report, LoopState
    <3> HIDE DEF u
    <3>3. CASE UNCHANGED reports
      BY <3>1, <3>3
    <3>4. ASSUME ans \in {"ok", "no", "refused"}, NEW c \in Contents(ans, u),
                 reports' = Append(reports, [uid |-> u, msg |-> c, own |-> loop.own,
                                             refused |-> ans = "refused"])
          PROVE  reports' \in Seq(Report)
      BY <3>1, <3>2, <3>4
    <3> QED
      BY <2>6, <3>3, <3>4
  <2> HIDE DEF rest, handed, u
  <2>9. loop' \in LoopState /\ loop'.pc # "listen"
    <3>1. GoTo("hung", loop.mode) \in LoopState /\ GoTo("hung", loop.mode).pc = "hung"
      BY <2>2, LoopGoes
    <3> QED
      BY <2>4, <2>5, <2>6, <3>1
  <2>10. HistoryTypes'
    BY <2>1, <2>3, <2>6, <2>8 DEF TypeOK, HistoryTypes
  <2>11. ServerTypes'
    BY <1>f, <2>1, ServedFacts DEF TypeOK, ServerTypes
  <2>12. ClientTypes'
    BY <2>1, <2>6 DEF TypeOK, ClientTypes
  <2> QED
    BY <2>1, <2>9, <2>10, <2>11, <2>12, LoopTypes DEF TypeOK
<1>17. ASSUME NEW ans, SendIdle(ans) PROVE TypeOK'
  <2>1. /\ Served(ans, "idle", Idle, 0) /\ ans \in LoopAnswers(FALSE)
        /\ UNCHANGED <<current, isConnected, capabilities, cancelled, task, logout, opened>> /\ Hi
    BY <1>17 DEF SendIdle, Hi
  <2>2. /\ loop' \in LoopState /\ (loop'.pc = "listen" => loop'.on \in Conn)
        /\ permits' = 1
    <3> DEFINE listening == [GoTo("listen", "redone") EXCEPT !.on = current, !.partial = FALSE]
    <3>1. CASE LoopThrows(ans)
      BY <3>1, LoopThrowsTypes
    <3>2. CASE ~LoopThrows(ans)
      <4>1. /\ loop' = GoTo("end", loop.mode) \/ (ans = "ok" /\ loop' = listening)
            /\ permits' = 1
        BY <1>17, <3>2 DEF SendIdle, SetLoop, Release
      <4>2. loop \in LoopState /\ "end" \in LoopPc /\ loop.mode \in Mode
        BY DEF TypeOK, ActorTypes, LoopState, LoopPc
      <4>3. ans = "ok" => current \in Conn
        BY <2>1 DEF LoopAnswers, Answers, TypeOK, ClientTypes, Conn
      <4>4. ans = "ok" => listening \in LoopState /\ listening.on \in Conn
        <5>1. ans = "ok" => current \in 0..MaxConns
          BY <4>3 DEF Conn
        <5> QED
          BY <4>2, <4>3, <5>1 DEF LoopState, LoopPc, Mode, GoTo
      <4>5. GoTo("end", loop.mode) \in LoopState /\ GoTo("end", loop.mode).pc = "end"
        BY <4>2, LoopGoes
      <4> HIDE DEF listening
      <4> QED
        BY <4>1, <4>4, <4>5
    <3> QED
      BY <3>1, <3>2
  <2>3. ServerTypes'
    BY <1>f, <2>1, ServedFacts DEF TypeOK, ServerTypes
  <2>4. ActorTypes'
    BY <2>1, <2>2 DEF TypeOK, ActorTypes
  <2> QED
    BY <1>c, <1>e, <2>1, <2>2, <2>3, <2>4 DEF TypeOK
<1>18. ASSUME NEW ans, SendDone(ans) PROVE TypeOK'
  <2>1. UNCHANGED <<current, isConnected, capabilities, cancelled, task, logout,
                 opened, mail, nextUid, faults>> /\ Hi
    BY <1>18 DEF SendDone, Hi
  <2>2. conn' \in [Conn -> ConnState]
    <3> DEFINE c == [conn[current] EXCEPT !.idling = FALSE, !.news = @ /\ ans # "ok"]
    <3>1. conn' = IF current = 0 THEN conn ELSE [conn EXCEPT ![current] = c]
      BY <1>18 DEF SendDone
    <3>2. current # 0 => current \in Conn /\ c \in ConnState
      <4>1. current # 0 => current \in Conn
        BY DEF TypeOK, ClientTypes, Conn
      <4>2. current # 0 => conn[current] \in ConnState
        BY <4>1 DEF TypeOK, ServerTypes
      <4> QED
        BY <4>1, <4>2 DEF ConnState
    <3> HIDE DEF c
    <3> QED
      BY <3>1, <3>2 DEF TypeOK, ServerTypes
  <2>3. loop' \in LoopState /\ loop'.pc # "listen" /\ permits' \in {0, 1}
    <3>1. CASE LoopThrows(ans)
      BY <3>1, LoopThrowsTypes
    <3>2. CASE ~LoopThrows(ans)
      <4>1. loop' \in {GoTo("select", "batch"), GoTo("hung", "batch")} /\ permits' \in {0, 1}
        BY <1>18, <3>2 DEF SendDone, SetLoop, TypeOK, ClientTypes
      <4>2. {"select", "hung"} \subseteq LoopPc /\ "batch" \in Mode
        BY DEF LoopPc, LoopLocked, Mode
      <4>3. /\ GoTo("hung", "batch") \in LoopState /\ GoTo("hung", "batch").pc = "hung"
            /\ GoTo("select", "batch") \in LoopState /\ GoTo("select", "batch").pc = "select"
        BY <4>2, LoopGoes
      <4> QED
        BY <4>1, <4>3
    <3> QED
      BY <3>1, <3>2
  <2>4. ServerTypes'
    BY <2>1, <2>2 DEF TypeOK, ServerTypes, MailTypes
  <2> QED
    BY <1>c, <1>e, <2>1, <2>3, <2>4, LoopTypes DEF TypeOK
<1>19. ASSUME NEW inHandler \in BOOLEAN, Logout(inHandler) PROVE TypeOK'
  <2>1. task' \in [Task -> TaskState]
    <3>1. Handler \in Task /\ "logout" \in TaskPc
      BY DEF Task, TaskPc
    <3> QED
      BY <1>19, <3>1, TaskMoves DEF Logout, TypeOK, ActorTypes
  <2>2. logout' \in [pc : LogoutPc, inHandler : BOOLEAN] /\ cancelled' \in BOOLEAN
    BY <1>19 DEF Logout, LogoutPc
  <2>3. ActorTypes' /\ ClientTypes'
    BY <1>19, <2>1, <2>2 DEF Logout, TypeOK, ActorTypes, ClientTypes
  <2> QED
    BY <1>19, <1>b, <1>c, <2>3 DEF Logout, TypeOK, Se, Hi
<1>20. ASSUME IdleStopped PROVE TypeOK'
  <2>1. ActorTypes'
    BY <1>20 DEF IdleStopped, TypeOK, ActorTypes, LogoutPc
  <2> QED
    BY <1>20, <1>a, <1>b, <1>c, <2>1 DEF IdleStopped, TypeOK, Cl, Se, Hi
<1>21. ASSUME LogoutAcquire PROVE TypeOK'
  <2>1. ActorTypes'
    BY <1>21 DEF LogoutAcquire, TypeOK, ActorTypes, LogoutPc
  <2> QED
    BY <1>21, <1>e, <1>b, <1>c, <2>1 DEF LogoutAcquire, TypeOK, Se, Hi
<1>22. ASSUME NEW ans, Bye(ans) PROVE TypeOK'
  <2>1. ActorTypes'
    BY <1>22 DEF Bye, TypeOK, ActorTypes, LogoutPc
  <2>2. ClientTypes'
    BY <1>22 DEF Bye, Release, TypeOK, ClientTypes
  <2>3. ServerTypes'
    BY <1>22 DEF Bye, TypeOK, ServerTypes, MailTypes, ConnState, Closed
  <2> QED
    BY <1>22, <1>c, <2>1, <2>2, <2>3 DEF Bye, TypeOK, Hi
<1>23. ASSUME Cleanup PROVE TypeOK'
  <2>1. task' \in [Task -> TaskState]
    <3>1. Handler \in Task /\ "idle" \in TaskPc
      BY DEF Task, TaskPc
    <3> QED
      BY <1>23, <3>1, TaskMoves DEF Cleanup, TypeOK, ActorTypes
  <2>2. ActorTypes'
    BY <1>23, <2>1 DEF Cleanup, TypeOK, ActorTypes, LogoutPc
  <2>3. ClientTypes'
    <3>1. 0 \in 0..MaxConns
      OBVIOUS
    <3> QED
      BY <1>23, <3>1 DEF Cleanup, TypeOK, ClientTypes
  <2>4. ServerTypes'
    BY <1>23 DEF Cleanup, TypeOK, ServerTypes, MailTypes, ConnState, Closed
  <2> QED
    BY <1>23, <1>c, <2>2, <2>3, <2>4 DEF Cleanup, TypeOK, Hi
<1>24. ASSUME Arrive PROVE TypeOK'
  <2>1. MailTypes'
    <3> DEFINE new == [uid |-> nextUid[Idle], msg |-> nextUid[Idle], marked |-> FALSE]
    <3>1. /\ mail' = [mail EXCEPT ![Idle] = @ \cup {new}]
          /\ nextUid' = [nextUid EXCEPT ![Idle] = @ + 1]
      BY <1>24 DEF Arrive, Place
    <3>2. mail \in [Folder -> SUBSET Message] /\ nextUid \in [Folder -> Nat]
          /\ \A f \in Folder : \A m \in mail[f] : m.uid < nextUid[f]
      BY DEF TypeOK, ServerTypes, MailTypes
    <3>3. new \in Message /\ new.uid = nextUid[Idle]
      BY <1>f, <3>2 DEF Message
    <3> HIDE DEF new
    <3>4. mail' \in [Folder -> SUBSET Message] /\ nextUid' \in [Folder -> Nat]
      <4>1. mail[Idle] \cup {new} \in SUBSET Message /\ nextUid[Idle] + 1 \in Nat
        BY <1>f, <3>2, <3>3
      <4> QED
        BY <3>1, <3>2, <4>1
    <3>5. ASSUME NEW f \in Folder, NEW m \in mail'[f] PROVE m.uid < nextUid'[f]
      <4>1. CASE f = Idle
        <5>1. m \in mail[Idle] \/ m = new
          BY <3>1, <3>2, <3>5, <4>1, <1>f
        <5>2. nextUid'[Idle] = nextUid[Idle] + 1 /\ nextUid[Idle] \in Nat
          BY <3>1, <3>2, <1>f
        <5>3. m \in mail[Idle] => m.uid \in Nat /\ m.uid < nextUid[Idle]
          BY <3>2, <1>f DEF Message
        <5> QED
          BY <3>3, <4>1, <5>1, <5>2, <5>3
      <4>2. CASE f # Idle
        BY <3>1, <3>2, <4>2
      <4> QED
        BY <4>1, <4>2
    <3> QED
      BY <3>4, <3>5 DEF MailTypes
  <2>2. conn' \in [Conn -> ConnState]
    <3>1. \A k \in Conn : [conn[k] EXCEPT
                !.news = @ \/ (conn[k].open /\ conn[k].selected = Idle)] \in ConnState
      BY DEF TypeOK, ServerTypes, ConnState
    <3> QED
      BY <1>24, <3>1 DEF Arrive
  <2>3. ServerTypes'
    BY <1>24, <2>1, <2>2 DEF Arrive, TypeOK, ServerTypes
  <2> QED
    BY <1>24, <1>a, <1>c, <1>d, <2>3 DEF Arrive, TypeOK, Cl, Hi
<1>25. ASSUME NEW k \in Conn, Drop(k) PROVE TypeOK'
  <2>1. ServerTypes'
    BY <1>25 DEF Drop, TypeOK, ServerTypes, MailTypes, ConnState, Closed
  <2> QED
    BY <1>25, <1>a, <1>c, <1>d, <2>1 DEF Drop, TypeOK, Cl, Hi
<1>26. ASSUME UNCHANGED vars PROVE TypeOK'
  BY <1>26, <1>a, <1>b, <1>c, <1>d DEF vars, TypeOK, Cl, Se, Hi
<1> QED
  BY <1>1, <1>2, <1>3, <1>4, <1>5, <1>6, <1>7, <1>8, <1>9, <1>10, <1>11, <1>12, <1>13, <1>14, <1>15, <1>16, <1>17, <1>18, <1>19, <1>20, <1>21, <1>22, <1>23, <1>24, <1>25, <1>26
     DEF Next, TaskStep, LoopStep, LogoutStep, Answer

-----------------------------------------------------------------------------
(* The lock.                                                               *)

(* Who is where: what a step may do to the permit for one actor.           *)
Kept(before, after) == (before <=> after) /\ permits' = permits
Taken(before, after) == ~before /\ after /\ permits = 1 /\ permits' = 0
Given(before, after) == before /\ ~after /\ permits' = 1
Passes(before, after) ==
  Kept(before, after) \/ Taken(before, after) \/ Given(before, after)

(* A token stays cancelled, and is cancelled by a logout only. *)
TokenKept == /\ cancelled => cancelled'
             /\ cancelled' => logout'.pc # "idle"

(* One actor enters, stays in or leaves a locked section with the permit   *)
(* accounted for, and the others stay where they are.                      *)
LEMMA TaskPasses ==
  ASSUME LockInv, TypeOK, NEW t \in Task, TokenKept,
         Passes(Holds(t), Holds(t)'),
         \A v \in Task : v # t => (Holds(v)' <=> Holds(v)),
         LoopHolds' <=> LoopHolds, LogoutHolds' <=> LogoutHolds
  PROVE  LockInv'
<1> DEFINE h(v) == Holds(v)
           g(v) == Holds(v)'
<1>1. PermitKept'
  <2>1. permits' = 1 \/ LoopHolds' \/ LogoutHolds' \/ \E v \in Task : g(v)
    BY DEF Passes, Kept, Taken, Given, LockInv, PermitKept
  <2> QED
    BY <2>1 DEF PermitKept
<1>2. ASSUME ~cancelled' PROVE Alone'
  <2>1. Alone
    BY <1>2 DEF LockInv, TokenKept
  <2>2. CASE Kept(h(t), g(t))
    BY <2>1, <2>2 DEF Alone, Kept
  <2>3. CASE Taken(h(t), g(t))
    <3>1. \A v \in Task : ~h(v)
      BY <2>1, <2>3 DEF Alone, Taken
    <3>2. ~LoopHolds' /\ ~LogoutHolds' /\ permits' = 0 /\ \A v \in Task : g(v) => v = t
      BY <2>1, <2>3, <3>1 DEF Alone, Taken
    <3> QED
      BY <3>2 DEF Alone
  <2>4. CASE Given(h(t), g(t))
    <3>1. ~LoopHolds' /\ ~LogoutHolds' /\ \A v \in Task : ~g(v)
      BY <2>1, <2>4 DEF Alone, Given
    <3> QED
      BY <3>1 DEF Alone
  <2> QED
    BY <2>2, <2>3, <2>4 DEF Passes
<1> QED
  BY <1>1, <1>2 DEF LockInv, TokenKept

(* In the finally after the handler a cancelled loop comes back without    *)
(* the permit.                                                             *)
LEMMA LoopPasses ==
  ASSUME LockInv, TypeOK, TokenKept,
         \/ Passes(LoopHolds, LoopHolds')
         \/ cancelled /\ LoopHolds' /\ permits' = permits,
         \A v \in Task : Holds(v)' <=> Holds(v),
         LogoutHolds' <=> LogoutHolds
  PROVE  LockInv'
<1>1. PermitKept'
  BY DEF Passes, Kept, Taken, Given, LockInv, PermitKept
<1>2. ASSUME ~cancelled' PROVE Alone'
  <2>1. Alone /\ Passes(LoopHolds, LoopHolds')
    BY <1>2 DEF LockInv, TokenKept
  <2> QED
    BY <2>1 DEF Alone, Passes, Kept, Taken, Given
<1> QED
  BY <1>1, <1>2 DEF LockInv, TokenKept

(* Likewise for LogoutAsync. *)
LEMMA LogoutPasses ==
  ASSUME LockInv, TypeOK, TokenKept,
         Passes(LogoutHolds, LogoutHolds'),
         \A v \in Task : Holds(v)' <=> Holds(v),
         LoopHolds' <=> LoopHolds
  PROVE  LockInv'
<1>1. PermitKept'
  BY DEF Passes, Kept, Taken, Given, LockInv, PermitKept
<1>2. ASSUME ~cancelled' PROVE Alone'
  <2>1. Alone
    BY <1>2 DEF LockInv, TokenKept
  <2> QED
    BY <2>1 DEF Alone, Passes, Kept, Taken, Given
<1> QED
  BY <1>1, <1>2 DEF LockInv, TokenKept

(* At first the lock is free. *)
LEMMA InitLock == Init => LockInv
  BY DEF Init, LockInv, PermitKept, Alone, Holds, LoopHolds, LogoutHolds, Locked, LoopLocked

(* The handler does nothing else while LogoutAsync, called by it, runs. *)
LEMMA AwayStep == TypeOK /\ HandlerAway /\ [Next]_vars => HandlerAway'
<1> SUFFICES ASSUME TypeOK, HandlerAway, [Next]_vars PROVE HandlerAway'
  OBVIOUS
<1>1. UNCHANGED <<task, logout>> => HandlerAway'
  BY DEF HandlerAway
<1>2. ASSUME NEW t \in Task, task[t].pc # "logout", UNCHANGED logout,
             \A v \in Task : v # t => task'[v] = task[v]
      PROVE  HandlerAway'
  BY <1>2 DEF HandlerAway, Task
<1>3. ASSUME NEW t \in Task, NEW op \in Operation, NEW u \in 0..MaxMail, Call(t, op, u)
      PROVE  HandlerAway'
  BY <1>2, <1>3 DEF Call, TypeOK, ActorTypes
<1>4. ASSUME NEW t \in Task, NEW ans, Acquire(t) \/ Ensure(t, ans) \/ Command(t, ans)
      PROVE  HandlerAway'
  BY <1>2, <1>4 DEF Acquire, Ensure, Command, Locked, TypeOK, ActorTypes
<1>5. ASSUME NEW inHandler \in BOOLEAN, Logout(inHandler)
      PROVE  HandlerAway'
  <2>1. logout'.inHandler = inHandler
    BY <1>5 DEF Logout
  <2>2. inHandler => task' = [task EXCEPT ![Handler].pc = "logout"]
    BY <1>5 DEF Logout
  <2>3. Handler \in Task /\ task[Handler] \in TaskState
    BY DEF Task, TypeOK, ActorTypes
  <2>4. inHandler => task'[Handler].pc = "logout"
    BY <2>2, <2>3 DEF TypeOK, ActorTypes, TaskState
  <2> QED
    BY <2>1, <2>4 DEF HandlerAway
<1>6. ASSUME NEW ans, IdleStopped \/ LogoutAcquire \/ Bye(ans)
      PROVE  HandlerAway'
  BY <1>6 DEF IdleStopped, LogoutAcquire, Bye, HandlerAway, TypeOK, ActorTypes
<1>7. ASSUME Cleanup PROVE HandlerAway'
  BY <1>7 DEF Cleanup, HandlerAway, TypeOK, ActorTypes
<1>8. ASSUME LoopStep \/ Listen \/ Arrive \/ \E k \in Conn : Drop(k) PROVE HandlerAway'
  BY <1>1, <1>8 DEF LoopStep, Listen, LoopAcquire, Backoff, HandlerReturns, BatchEnds, Poll,
     LoopGivesUp, LoopLine, LoopEnsure, LoopSelect, LoopSearch, LoopFetch, SendIdle, SendDone,
     Arrive, Drop
<1>9. ASSUME UNCHANGED vars PROVE HandlerAway'
  BY <1>1, <1>9 DEF vars
<1> QED
  BY <1>3, <1>4, <1>5, <1>6, <1>7, <1>8, <1>9 DEF Next, TaskStep, LogoutStep

(* Every acquisition and release keeps the permit in the system. *)
LEMMA LockStep == TypeOK /\ HandlerAway /\ LockInv /\ [Next]_vars => LockInv'
<1> SUFFICES ASSUME TypeOK, HandlerAway, LockInv, [Next]_vars PROVE LockInv'
  OBVIOUS
<1> USE DEF clientVars, serverVars, historyVars
<1>a. UNCHANGED <<cancelled, logout>> => TokenKept
  BY DEF TokenKept, LockInv
<1>b. UNCHANGED task => \A v \in Task : Holds(v)' <=> Holds(v)
  BY DEF Holds
<1>c. UNCHANGED loop => (LoopHolds' <=> LoopHolds)
  BY DEF LoopHolds
<1>d. UNCHANGED logout => (LogoutHolds' <=> LogoutHolds)
  BY DEF LogoutHolds
<1>e. ASSUME NEW ans, LoopThrows(ans)
      PROVE  permits' = 1 /\ ~LoopHolds'
  <2>1. loop'.pc \in {"end", "backoff"}
    BY <1>e, LoopThrowsTypes
  <2> QED
    BY <1>e, <2>1, LoopThrowsTypes DEF LoopHolds, LoopLocked
<1>f. \A l \in LoopState : Again(l).pc \in {"wait", "poll"}
  BY AgainTypes
<1>g. \A pc \in LoopPc, mode \in Mode : pc # "listen" => GoTo(pc, mode).pc = pc
  BY LoopGoes
<1>h. \A t \in Task : task[t] \in TaskState
  BY DEF TypeOK, ActorTypes
<1>i. loop \in LoopState /\ loop.mode \in Mode
  BY DEF TypeOK, ActorTypes, LoopState

<1>1. ASSUME NEW t \in Task, NEW op \in Operation, NEW u \in 0..MaxMail, Call(t, op, u) PROVE LockInv'
  <2>1. UNCHANGED <<cancelled, loop, logout>>
    BY <1>1 DEF Call
  <2>2. \A v \in Task : v # t => (Holds(v)' <=> Holds(v))
    BY <1>1 DEF Call, Holds, TypeOK, ActorTypes
  <2>3. Passes(Holds(t), Holds(t)')
    <3>1. task[t].pc = "idle" /\ task'[t].pc = "wait" /\ permits' = permits
      BY <1>1, <1>h DEF Call, TypeOK, ActorTypes, TaskState
    <3> QED
      BY <3>1 DEF Passes, Kept, Holds, Locked
  <2> QED
    BY <1>a, <1>c, <1>d, <2>1, <2>2, <2>3, TaskPasses
<1>2. ASSUME NEW t \in Task, Acquire(t) PROVE LockInv'
  <2>1. UNCHANGED <<cancelled, loop, logout>>
    BY <1>2 DEF Acquire
  <2>2. \A v \in Task : v # t => (Holds(v)' <=> Holds(v))
    BY <1>2 DEF Acquire, Holds, TypeOK, ActorTypes
  <2>3. Passes(Holds(t), Holds(t)')
    <3>1. task[t].pc = "wait" /\ task'[t].pc = "ensure" /\ permits = 1 /\ permits' = 0
      BY <1>2, <1>h DEF Acquire, TypeOK, ActorTypes, TaskState
    <3> QED
      BY <3>1 DEF Passes, Taken, Holds, Locked
  <2> QED
    BY <1>a, <1>c, <1>d, <2>1, <2>2, <2>3, TaskPasses
<1>3. ASSUME NEW t \in Task, NEW ans, Ensure(t, ans) PROVE LockInv'
  <2>1. UNCHANGED <<cancelled, loop, logout>>
    BY <1>3 DEF Ensure
  <2>2. \A v \in Task : v # t => (Holds(v)' <=> Holds(v))
    BY <1>3 DEF Ensure, Holds, TypeOK, ActorTypes
  <2>3. Passes(Holds(t), Holds(t)')
    <3>1. task[t].pc = "ensure" /\ task'[t].pc \in {"hung", "select"} /\ permits' = permits
      BY <1>3, <1>h DEF Ensure, TypeOK, ActorTypes, TaskState
    <3> QED
      BY <3>1 DEF Passes, Kept, Holds, Locked
  <2> QED
    BY <1>a, <1>c, <1>d, <2>1, <2>2, <2>3, TaskPasses
<1>4. ASSUME NEW t \in Task, NEW ans, Command(t, ans) PROVE LockInv'
  <2>1. UNCHANGED <<cancelled, loop, logout>>
    BY <1>4 DEF Command
  <2>2. \A v \in Task : v # t => (Holds(v)' <=> Holds(v))
    BY <1>4 DEF Command, Holds, TypeOK, ActorTypes
  <2>3. Passes(Holds(t), Holds(t)')
    <3> DEFINE next == CASE ans = "never" -> "hung"
                         [] ans = "ok" -> NextStep(task[t].op, task[t].pc)
                         [] OTHER -> "idle"
    <3>1. task[t].pc \in Locked
      BY <1>4 DEF Command
    <3>2. next \in Locked \cup {"idle"}
      BY DEF NextStep, Locked
    <3>3. task'[t].pc = next
      BY <1>4, <1>h DEF Command, TypeOK, ActorTypes, TaskState
    <3>4. IF next = "idle" THEN permits' = 1 ELSE permits' = permits
      BY <1>4 DEF Command, Release
    <3> HIDE DEF next
    <3> QED
      BY <3>1, <3>2, <3>3, <3>4 DEF Passes, Kept, Given, Holds, Locked
  <2> QED
    BY <1>a, <1>c, <1>d, <2>1, <2>2, <2>3, TaskPasses
<1>5. ASSUME Listen PROVE LockInv'
  <2>1. UNCHANGED <<cancelled, task, logout>>
    BY <1>5 DEF Listen
  <2>2. Passes(LoopHolds, LoopHolds')
    <3>1. /\ loop.pc \in {"off", "backoff", "handler", "poll"} /\ permits' = permits
          /\ \E pc \in {"wait", "relock", "end"}, mode \in {"seed", loop.mode, "recover", "batch"} : loop' = GoTo(pc, mode)
      BY <1>5 DEF Listen, SetLoop
    <3>2. loop'.pc \in {"wait", "relock", "end"}
      BY <3>1, <1>g, <1>i DEF LoopPc, Mode
    <3> QED
      BY <3>1, <3>2 DEF Passes, Kept, LoopHolds, LoopLocked
  <2> QED
    BY <1>a, <1>b, <1>d, <2>1, <2>2, LoopPasses
<1>6. ASSUME Backoff PROVE LockInv'
  <2>1. UNCHANGED <<cancelled, task, logout>>
    BY <1>6 DEF Backoff
  <2>2. Passes(LoopHolds, LoopHolds')
    <3>1. /\ loop.pc \in {"off", "backoff", "handler", "poll"} /\ permits' = permits
          /\ \E pc \in {"wait", "relock", "end"}, mode \in {"seed", loop.mode, "recover", "batch"} : loop' = GoTo(pc, mode)
      BY <1>6 DEF Backoff, SetLoop
    <3>2. loop'.pc \in {"wait", "relock", "end"}
      BY <3>1, <1>g, <1>i DEF LoopPc, Mode
    <3> QED
      BY <3>1, <3>2 DEF Passes, Kept, LoopHolds, LoopLocked
  <2> QED
    BY <1>a, <1>b, <1>d, <2>1, <2>2, LoopPasses
<1>7. ASSUME HandlerReturns PROVE LockInv'
  <2>1. UNCHANGED <<cancelled, task, logout>>
    BY <1>7 DEF HandlerReturns
  <2>2. Passes(LoopHolds, LoopHolds')
    <3>1. /\ loop.pc \in {"off", "backoff", "handler", "poll"} /\ permits' = permits
          /\ \E pc \in {"wait", "relock", "end"}, mode \in {"seed", loop.mode, "recover", "batch"} : loop' = GoTo(pc, mode)
      BY <1>7 DEF HandlerReturns, SetLoop
    <3>2. loop'.pc \in {"wait", "relock", "end"}
      BY <3>1, <1>g, <1>i DEF LoopPc, Mode
    <3> QED
      BY <3>1, <3>2 DEF Passes, Kept, LoopHolds, LoopLocked
  <2> QED
    BY <1>a, <1>b, <1>d, <2>1, <2>2, LoopPasses
<1>8. ASSUME Poll PROVE LockInv'
  <2>1. UNCHANGED <<cancelled, task, logout>>
    BY <1>8 DEF Poll
  <2>2. Passes(LoopHolds, LoopHolds')
    <3>1. /\ loop.pc \in {"off", "backoff", "handler", "poll"} /\ permits' = permits
          /\ \E pc \in {"wait", "relock", "end"}, mode \in {"seed", loop.mode, "recover", "batch"} : loop' = GoTo(pc, mode)
      BY <1>8 DEF Poll, SetLoop
    <3>2. loop'.pc \in {"wait", "relock", "end"}
      BY <3>1, <1>g, <1>i DEF LoopPc, Mode
    <3> QED
      BY <3>1, <3>2 DEF Passes, Kept, LoopHolds, LoopLocked
  <2> QED
    BY <1>a, <1>b, <1>d, <2>1, <2>2, LoopPasses
<1>9. ASSUME LoopAcquire PROVE LockInv'
  <2>1. UNCHANGED <<cancelled, task, logout>>
    BY <1>9 DEF LoopAcquire
  <2>2. \/ Passes(LoopHolds, LoopHolds')
        \/ cancelled /\ LoopHolds' /\ permits' = permits
    <3>1. loop.pc \in {"wait", "relock"}
      BY <1>9 DEF LoopAcquire
    <3>2. CASE cancelled
      <4>1. permits' = permits /\ loop'.pc \in {"fetch", "end"}
        BY <1>9, <1>i, <3>2 DEF LoopAcquire, SetLoop, LoopState
      <4> QED
        BY <3>1, <3>2, <4>1 DEF Passes, Kept, LoopHolds, LoopLocked
    <3>3. CASE ~cancelled
      <4>1. permits = 1 /\ permits' = 0 /\ loop'.pc \in {"fetch", "sendIdle", "done", "ensure"}
        BY <1>9, <1>i, <3>3 DEF LoopAcquire, SetLoop, LoopState
      <4> QED
        BY <3>1, <4>1 DEF Passes, Taken, LoopHolds, LoopLocked
    <3> QED
      BY <3>2, <3>3
  <2> QED
    BY <1>a, <1>b, <1>d, <2>1, <2>2, LoopPasses
<1>10. ASSUME BatchEnds PROVE LockInv'
  <2>1. UNCHANGED <<cancelled, task, logout>>
    BY <1>10 DEF BatchEnds
  <2>2. Passes(LoopHolds, LoopHolds')
    <3> DEFINE l == [loop EXCEPT !.last = loop.high, !.high = 0, !.own = FALSE]
    <3>1. l \in LoopState
      BY <1>i DEF LoopState
    <3>2. loop.pc = "fetch" /\ permits' = 1 /\ loop' = Again(l)
      BY <1>10 DEF BatchEnds, SetLoop, Release
    <3> HIDE DEF l
    <3>3. loop'.pc \in {"wait", "poll"}
      BY <3>1, <3>2, <1>f
    <3> QED
      BY <3>2, <3>3 DEF Passes, Given, LoopHolds, LoopLocked
  <2> QED
    BY <1>a, <1>b, <1>d, <2>1, <2>2, LoopPasses
<1>11. ASSUME LoopGivesUp PROVE LockInv'
  <2>1. UNCHANGED <<cancelled, task, logout>>
    BY <1>11 DEF LoopGivesUp
  <2>2. Passes(LoopHolds, LoopHolds')
    BY <1>11, <1>e DEF LoopGivesUp, Passes, Given, LoopHolds, LoopLocked
  <2> QED
    BY <1>a, <1>b, <1>d, <2>1, <2>2, LoopPasses
<1>12. ASSUME NEW exists \in BOOLEAN, LoopLine(exists) PROVE LockInv'
  <2>1. UNCHANGED <<cancelled, task, logout>>
    BY <1>12 DEF LoopLine
  <2>2. Passes(LoopHolds, LoopHolds')
    <3>1. loop.pc = "listen" /\ permits' = permits /\ loop'.pc \in {"listen", "wait", "backoff"}
      BY <1>12, <1>i DEF LoopLine, SetLoop, LoopState
    <3> QED
      BY <3>1 DEF Passes, Kept, LoopHolds, LoopLocked
  <2> QED
    BY <1>a, <1>b, <1>d, <2>1, <2>2, LoopPasses
<1>13. ASSUME NEW ans, LoopEnsure(ans) PROVE LockInv'
  <2>1. UNCHANGED <<cancelled, task, logout>>
    BY <1>13 DEF LoopEnsure
  <2>2. Passes(LoopHolds, LoopHolds')
    <3>1. loop.pc \in LoopLocked
      BY <1>13 DEF LoopEnsure, LoopLocked
    <3>2. CASE LoopThrows(ans)
      BY <1>e, <3>1, <3>2 DEF Passes, Given, LoopHolds
    <3>3. CASE ~LoopThrows(ans)
      <4>1. \/ loop' \in {GoTo("hung", loop.mode), GoTo("select", loop.mode)} /\ permits' = permits
            \/ loop' = Again(loop) /\ permits' = 1
        BY <1>13 DEF LoopEnsure, SetLoop, Release
      <4>2. /\ GoTo("hung", loop.mode).pc = "hung" /\ GoTo("select", loop.mode).pc = "select"
            /\ Again(loop).pc \in {"wait", "poll"}
        BY <1>f, <1>g, <1>i DEF LoopPc, LoopLocked
      <4> QED
        BY <3>1, <4>1, <4>2 DEF Passes, Kept, Given, LoopHolds, LoopLocked
    <3> QED
      BY <3>2, <3>3
  <2> QED
    BY <1>a, <1>b, <1>d, <2>1, <2>2, LoopPasses
<1>14. ASSUME NEW ans, LoopSelect(ans) PROVE LockInv'
  <2>1. UNCHANGED <<cancelled, task, logout>>
    BY <1>14 DEF LoopSelect
  <2>2. Passes(LoopHolds, LoopHolds')
    <3>1. loop.pc \in LoopLocked
      BY <1>14 DEF LoopSelect, LoopLocked
    <3>2. CASE LoopThrows(ans)
      BY <1>e, <3>1, <3>2 DEF Passes, Given, LoopHolds
    <3>3. CASE ~LoopThrows(ans)
      <4>1. \/ loop' \in {GoTo("hung", loop.mode), [loop EXCEPT !.pc = "search", !.own = TRUE]}
               /\ permits' = permits
            \/ loop' = Again(loop) /\ permits' = 1
        BY <1>14, <3>3 DEF LoopSelect, SetLoop, Release
      <4>2. /\ GoTo("hung", loop.mode).pc = "hung" /\ Again(loop).pc \in {"wait", "poll"}
            /\ [loop EXCEPT !.pc = "search", !.own = TRUE].pc = "search"
        BY <1>f, <1>g, <1>i DEF LoopPc, LoopLocked, LoopState
      <4> QED
        BY <3>1, <4>1, <4>2 DEF Passes, Kept, Given, LoopHolds, LoopLocked
    <3> QED
      BY <3>2, <3>3
  <2> QED
    BY <1>a, <1>b, <1>d, <2>1, <2>2, LoopPasses
<1>15. ASSUME NEW ans, LoopSearch(ans) PROVE LockInv'
  <2>1. UNCHANGED <<cancelled, task, logout>>
    BY <1>15 DEF LoopSearch
  <2>2. Passes(LoopHolds, LoopHolds')
    <3>1. loop.pc \in LoopLocked
      BY <1>15 DEF LoopSearch, LoopLocked
    <3>2. CASE LoopThrows(ans)
      BY <1>e, <3>1, <3>2 DEF Passes, Given, LoopHolds
    <3>3. CASE ~LoopThrows(ans)
      <4> DEFINE batch == [loop EXCEPT !.pc = "fetch", !.high = loop.last,
                             !.fresh = Ascending({u \in Found(ans) : u > loop.last})]
                 seeded == [loop EXCEPT !.last = Seed(ans)]
      <4>1. \/ loop' \in {GoTo("hung", loop.mode), batch} /\ permits' = permits
            \/ loop' = Again(seeded) /\ permits' = 1
        BY <1>15, <3>3 DEF LoopSearch, SetLoop, Release
      <4>3. ans \in LoopAnswers(TRUE)
        BY <1>15 DEF LoopSearch
      <4>4. seeded \in LoopState
        BY <1>i, <4>3, SeedFacts DEF LoopState
      <4>2. /\ GoTo("hung", loop.mode).pc = "hung" /\ batch.pc = "fetch"
            /\ Again(seeded).pc \in {"wait", "poll"}
        <5>1. batch.pc = "fetch"
          BY <1>i DEF LoopState
        <5> HIDE DEF batch, seeded
        <5> QED
          BY <5>1, <1>f, <1>g, <1>i, <4>4 DEF LoopPc, LoopLocked
      <4> HIDE DEF batch, seeded
      <4> QED
        BY <3>1, <4>1, <4>2 DEF Passes, Kept, Given, LoopHolds, LoopLocked
    <3> QED
      BY <3>2, <3>3
  <2> QED
    BY <1>a, <1>b, <1>d, <2>1, <2>2, LoopPasses
<1>16. ASSUME NEW ans, LoopFetch(ans) PROVE LockInv'
  <2>1. UNCHANGED <<cancelled, task, logout>>
    BY <1>16 DEF LoopFetch
  <2>2. Passes(LoopHolds, LoopHolds')
    <3> DEFINE rest == [loop EXCEPT !.fresh = Tail(@)]
               handed == [rest EXCEPT !.pc = "handler", !.own = FALSE, !.high = Max({@, Head(loop.fresh)})]
    <3>1. loop.pc = "fetch"
      BY <1>16 DEF LoopFetch
    <3>2. \/ loop' \in {GoTo("hung", loop.mode), rest} /\ permits' = permits
          \/ loop' = handed /\ permits' = 1
      <4>1. ans \in {"ok", "no", "refused", "never", "throw", "cancel"}
        BY <1>16 DEF LoopFetch, LoopAnswers, Answers
      <4>2. CASE ans = "never"
        BY <1>16, <4>2 DEF LoopFetch, SetLoop
      <4>3. CASE ans \in {"throw", "cancel"}
        BY <1>16, <4>3 DEF LoopFetch, SetLoop
      <4>4. CASE ans \in {"ok", "no", "refused"}
        BY <1>16, <4>4 DEF LoopFetch, SetLoop, Release
      <4> QED
        BY <4>1, <4>2, <4>3, <4>4
    <3>3. GoTo("hung", loop.mode).pc = "hung" /\ rest.pc = "fetch" /\ handed.pc = "handler"
      BY <1>g, <1>i, <3>1 DEF LoopPc, LoopLocked, LoopState
    <3> HIDE DEF rest, handed
    <3> QED
      BY <3>1, <3>2, <3>3 DEF Passes, Kept, Given, LoopHolds, LoopLocked
  <2> QED
    BY <1>a, <1>b, <1>d, <2>1, <2>2, LoopPasses
<1>17. ASSUME NEW ans, SendIdle(ans) PROVE LockInv'
  <2>1. UNCHANGED <<cancelled, task, logout>>
    BY <1>17 DEF SendIdle
  <2>2. Passes(LoopHolds, LoopHolds')
    <3>1. loop.pc \in LoopLocked
      BY <1>17 DEF SendIdle, LoopLocked
    <3>2. CASE LoopThrows(ans)
      BY <1>e, <3>1, <3>2 DEF Passes, Given, LoopHolds
    <3>3. CASE ~LoopThrows(ans)
      <4> DEFINE listening == [GoTo("listen", "redone") EXCEPT !.on = current, !.partial = FALSE]
      <4>1. loop' \in {listening, GoTo("end", loop.mode)} /\ permits' = 1
        BY <1>17, <3>3 DEF SendIdle, SetLoop, Release
      <4>2. GoTo("end", loop.mode).pc = "end" /\ listening.pc = "listen"
        BY <1>g, <1>i DEF LoopPc, LoopState, GoTo
      <4> HIDE DEF listening
      <4> QED
        BY <3>1, <4>1, <4>2 DEF Passes, Kept, Given, LoopHolds, LoopLocked
    <3> QED
      BY <3>2, <3>3
  <2> QED
    BY <1>a, <1>b, <1>d, <2>1, <2>2, LoopPasses
<1>18. ASSUME NEW ans, SendDone(ans) PROVE LockInv'
  <2>1. UNCHANGED <<cancelled, task, logout>>
    BY <1>18 DEF SendDone
  <2>2. Passes(LoopHolds, LoopHolds')
    <3>1. loop.pc \in LoopLocked
      BY <1>18 DEF SendDone, LoopLocked
    <3>2. CASE LoopThrows(ans)
      BY <1>e, <3>1, <3>2 DEF Passes, Given, LoopHolds
    <3>3. CASE ~LoopThrows(ans)
      <4>1. loop' \in {GoTo("select", "batch"), GoTo("hung", "batch")} /\ permits' = permits
        BY <1>18, <3>3 DEF SendDone, SetLoop
      <4>2. GoTo("select", "batch").pc = "select" /\ GoTo("hung", "batch").pc = "hung"
        BY <1>g DEF LoopPc, LoopLocked, Mode
      <4> QED
        BY <3>1, <4>1, <4>2 DEF Passes, Kept, Given, LoopHolds, LoopLocked
    <3> QED
      BY <3>2, <3>3
  <2> QED
    BY <1>a, <1>b, <1>d, <2>1, <2>2, LoopPasses
<1>19. ASSUME NEW inHandler \in BOOLEAN, Logout(inHandler) PROVE LockInv'
  <2>1. UNCHANGED <<permits, loop>> /\ TokenKept
    BY <1>19 DEF Logout, TokenKept, LockInv
  <2>2. Passes(LogoutHolds, LogoutHolds')
    BY <1>19 DEF Logout, Passes, Kept, LogoutHolds
  <2>3. \A v \in Task : Holds(v)' <=> Holds(v)
    <3>1. SUFFICES ASSUME inHandler, Handler \in Task PROVE Holds(Handler)' <=> Holds(Handler)
      BY <1>19 DEF Logout, Holds, TypeOK, ActorTypes
    <3>2. task[Handler].pc = "idle" /\ task'[Handler].pc = "logout"
      BY <1>19, <1>h, <3>1 DEF Logout, TypeOK, ActorTypes, TaskState
    <3> QED
      BY <3>2 DEF Holds, Locked
  <2> QED
    BY <1>c, <2>1, <2>2, <2>3, LogoutPasses
<1>20. ASSUME IdleStopped PROVE LockInv'
  <2>1. UNCHANGED <<cancelled, task, loop>> /\ TokenKept
    BY <1>20 DEF IdleStopped, TokenKept, LockInv, TypeOK, ActorTypes
  <2>2. Passes(LogoutHolds, LogoutHolds')
    BY <1>20 DEF IdleStopped, Release, Passes, Kept, Taken, Given, LogoutHolds, TypeOK, ActorTypes
  <2> QED
    BY <1>b, <1>c, <2>1, <2>2, LogoutPasses
<1>21. ASSUME LogoutAcquire PROVE LockInv'
  <2>1. UNCHANGED <<cancelled, task, loop>> /\ TokenKept
    BY <1>21 DEF LogoutAcquire, TokenKept, LockInv, TypeOK, ActorTypes
  <2>2. Passes(LogoutHolds, LogoutHolds')
    BY <1>21 DEF LogoutAcquire, Release, Passes, Kept, Taken, Given, LogoutHolds, TypeOK, ActorTypes
  <2> QED
    BY <1>b, <1>c, <2>1, <2>2, LogoutPasses
<1>22. ASSUME NEW ans, Bye(ans) PROVE LockInv'
  <2>1. UNCHANGED <<cancelled, task, loop>> /\ TokenKept
    BY <1>22 DEF Bye, TokenKept, LockInv, TypeOK, ActorTypes
  <2>2. Passes(LogoutHolds, LogoutHolds')
    BY <1>22 DEF Bye, Release, Passes, Kept, Taken, Given, LogoutHolds, TypeOK, ActorTypes
  <2> QED
    BY <1>b, <1>c, <2>1, <2>2, LogoutPasses
<1>23. ASSUME Cleanup PROVE LockInv'
  <2>1. UNCHANGED <<permits, cancelled, loop>> /\ TokenKept
    BY <1>23 DEF Cleanup, TokenKept, LockInv, TypeOK, ActorTypes
  <2>2. Passes(LogoutHolds, LogoutHolds')
    BY <1>23 DEF Cleanup, Passes, Kept, LogoutHolds, TypeOK, ActorTypes
  <2>3. \A v \in Task : Holds(v)' <=> Holds(v)
    <3>1. SUFFICES ASSUME logout.inHandler PROVE Holds(Handler)' <=> Holds(Handler)
      BY <1>23 DEF Cleanup, Holds, TypeOK, ActorTypes
    <3>2. Handler \in Task /\ task[Handler].pc = "logout" /\ task'[Handler].pc = "idle"
      BY <1>23, <1>h, <3>1 DEF Cleanup, HandlerAway, Task, TypeOK, ActorTypes, TaskState
    <3> QED
      BY <3>2 DEF Holds, Locked
  <2> QED
    BY <1>c, <2>1, <2>2, <2>3, LogoutPasses
<1>24. ASSUME Arrive PROVE LockInv'
  <2>1. UNCHANGED <<permits, cancelled, task, loop, logout>>
    BY <1>24 DEF Arrive
  <2> QED
    BY <2>1, <1>a, <1>b, <1>c, <1>d, LogoutPasses DEF Passes, Kept
<1>25. ASSUME NEW k \in Conn, Drop(k) PROVE LockInv'
  <2>1. UNCHANGED <<permits, cancelled, task, loop, logout>>
    BY <1>25 DEF Drop
  <2> QED
    BY <2>1, <1>a, <1>b, <1>c, <1>d, LogoutPasses DEF Passes, Kept
<1>26. ASSUME UNCHANGED vars PROVE LockInv'
  <2>1. UNCHANGED <<permits, cancelled, task, loop, logout>>
    BY <1>26 DEF vars
  <2> QED
    BY <2>1, <1>a, <1>b, <1>c, <1>d, LogoutPasses DEF Passes, Kept
<1> QED
  BY <1>1, <1>2, <1>3, <1>4, <1>5, <1>6, <1>7, <1>8, <1>9, <1>10, <1>11, <1>12, <1>13, <1>14, <1>15, <1>16, <1>17, <1>18, <1>19, <1>20, <1>21, <1>22, <1>23, <1>24, <1>25, <1>26
     DEF Next, TaskStep, LoopStep, LogoutStep, Answer

-----------------------------------------------------------------------------
(* What the steps change: the connection, the messages, a task.            *)

(* The current connection is closed, or shows the folder it showed.        *)
ConnKept ==
  \/ current' = 0
  \/ /\ current' = current
     /\ conn'[current].open =>
          /\ conn[current].open
          /\ conn'[current].selected = conn[current].selected
          /\ conn'[current].idling => conn[current].idling

(* Only who holds the lock reconnects, selects or starts to idle. *)
LEMMA ConnSteps ==
  ASSUME TypeOK, [Next]_vars
  PROVE  \/ ConnKept
         \/ \E t \in Task, ans \in Answer :
              Ensure(t, ans) \/ (Command(t, ans) /\ task[t].pc = "select")
         \/ \E ans \in Answer : LoopEnsure(ans) \/ LoopSelect(ans) \/ SendIdle(ans)
<1> USE DEF clientVars, serverVars, historyVars
<1>1. UNCHANGED <<current, conn>> => ConnKept
  BY DEF ConnKept
<1>2. ASSUME NEW ans, NEW cmd, cmd \notin {"select", "idle"}, NEW f \in Folder, NEW u \in Nat,
             Served(ans, cmd, f, u), current' = current
      PROVE  ConnKept
  <2>1. CASE current = 0
    BY <1>2, <2>1 DEF ConnKept
  <2>2. CASE current # 0
    <3>1. current \in Conn
      BY <2>2 DEF TypeOK, ClientTypes, Conn
    <3>2. /\ conn'[current].open = conn[current].open
          /\ conn'[current].selected = conn[current].selected
          /\ conn[current].open => ~conn'[current].idling
      BY <1>2, <2>2, <3>1, ServedFacts
    <3> QED
      BY <1>2, <3>2 DEF ConnKept
  <2> QED
    BY <2>1, <2>2
<1>3. Idle \in Folder /\ Other \in Folder /\ 0 \in Nat
  BY DEF Folder
<1>4. ASSUME NEW t \in Task, NEW ans \in Answer, Command(t, ans), task[t].pc # "select"
      PROVE  ConnKept
  <2>1. /\ Served(ans, task[t].pc, IF task[t].op = "read" THEN Other ELSE Idle, task[t].uid)
        /\ task[t].pc \notin {"select", "idle"} /\ current' = current
    BY <1>4 DEF Command, Locked
  <2>2. task[t].uid \in Nat
    BY DEF TypeOK, ActorTypes, TaskState
  <2> DEFINE f == IF task[t].op = "read" THEN Other ELSE Idle
  <2>3. f \in Folder
    BY <1>3
  <2> QED
    BY <2>1, <2>2, <2>3, <1>2
<1>5. ASSUME NEW ans \in Answer, LoopSearch(ans) \/ LoopFetch(ans) PROVE ConnKept
  <2>1. (Served(ans, "search", Idle, 0) \/ Served(ans, "fetch", Idle, 0)) /\ current' = current
    BY <1>5 DEF LoopSearch, LoopFetch
  <2> QED
    BY <1>2, <1>3, <2>1
<1>6. ASSUME NEW exists \in BOOLEAN, LoopLine(exists) PROVE ConnKept
  <2>1. /\ conn' = [conn EXCEPT ![loop.on].news = @ /\ ~exists]
        /\ current' = current
    BY <1>6 DEF LoopLine
  <2>2. conn \in [Conn -> ConnState]
    BY DEF TypeOK, ServerTypes
  <2>3. \A k \in Conn : /\ conn'[k].open = conn[k].open
                        /\ conn'[k].selected = conn[k].selected
                        /\ conn'[k].idling = conn[k].idling
    <3>1. SUFFICES ASSUME NEW k \in Conn
                   PROVE  /\ conn'[k].open = conn[k].open
                          /\ conn'[k].selected = conn[k].selected
                          /\ conn'[k].idling = conn[k].idling
      OBVIOUS
    <3>2. CASE k = loop.on
      <4>1. conn'[k] = [conn[k] EXCEPT !.news = @ /\ ~exists]
        BY <2>1, <2>2, <3>2
      <4> QED
        BY <2>2, <4>1 DEF ConnState
    <3>3. CASE k # loop.on
      BY <2>1, <2>2, <3>3
    <3> QED
      BY <3>2, <3>3
  <2> QED
    BY <2>1, <2>3 DEF ConnKept, TypeOK, ClientTypes, Conn
<1>7. ASSUME NEW ans \in Answer, SendDone(ans) PROVE ConnKept
  <2>1. /\ conn' = IF current = 0 THEN conn
                   ELSE [conn EXCEPT ![current] =
                     [conn[current] EXCEPT !.idling = FALSE, !.news = @ /\ ans # "ok"]]
        /\ current' = current
    BY <1>7 DEF SendDone
  <2>2. CASE current = 0
    BY <2>1, <2>2 DEF ConnKept
  <2>3. CASE current # 0
    <3>1. current \in Conn /\ conn \in [Conn -> ConnState]
      BY <2>3 DEF TypeOK, ClientTypes, ServerTypes, Conn
    <3>2. conn'[current] = [conn[current] EXCEPT !.idling = FALSE, !.news = @ /\ ans # "ok"]
      BY <2>1, <2>3, <3>1
    <3>3. /\ conn'[current].open = conn[current].open
          /\ conn'[current].selected = conn[current].selected /\ ~conn'[current].idling
      BY <3>1, <3>2 DEF ConnState
    <3> QED
      BY <2>1, <3>3 DEF ConnKept
  <2> QED
    BY <2>2, <2>3
<1>8. ASSUME NEW ans \in Answer, Bye(ans) PROVE ConnKept
  <2>1. conn' \in {conn, [conn EXCEPT ![current] = Closed]} /\ current' = current
    BY <1>8 DEF Bye
  <2>2. conn'[current] = conn[current] \/ conn'[current] = Closed
    BY <2>1 DEF TypeOK, ServerTypes
  <2> QED
    BY <2>1, <2>2 DEF ConnKept, Closed
<1>9. ASSUME Arrive PROVE ConnKept
  <2>1. current' = current
    BY <1>9 DEF Arrive
  <2>2. CASE current = 0
    BY <2>1, <2>2 DEF ConnKept
  <2>3. CASE current # 0
    <3>1. current \in Conn /\ conn[current] \in ConnState
      BY <2>3 DEF TypeOK, ClientTypes, ServerTypes, Conn
    <3>2. conn'[current] = [conn[current] EXCEPT
                !.news = @ \/ (conn[current].open /\ conn[current].selected = Idle)]
      BY <1>9, <3>1 DEF Arrive
    <3>3. /\ conn'[current].open = conn[current].open
          /\ conn'[current].selected = conn[current].selected
          /\ conn'[current].idling = conn[current].idling
      BY <3>1, <3>2 DEF ConnState
    <3> QED
      BY <2>1, <3>3 DEF ConnKept
  <2> QED
    BY <2>2, <2>3
<1>10. ASSUME NEW k \in Conn, Drop(k) PROVE ConnKept
  <2>1. conn' = [conn EXCEPT ![k] = Closed] /\ current' = current
    BY <1>10 DEF Drop
  <2>2. conn'[current] = conn[current] \/ conn'[current] = Closed
    BY <2>1 DEF TypeOK, ServerTypes
  <2> QED
    BY <2>1, <2>2 DEF ConnKept, Closed
<1>11. ASSUME Cleanup PROVE ConnKept
  BY <1>11 DEF Cleanup, ConnKept
<1>12. ASSUME \/ \E t \in Task, op \in Operation, u \in 0..MaxMail : Call(t, op, u)
              \/ \E t \in Task : Acquire(t)
              \/ Listen \/ LoopAcquire \/ Backoff \/ HandlerReturns \/ BatchEnds \/ Poll
              \/ LoopGivesUp \/ (\E inHandler \in BOOLEAN : Logout(inHandler))
              \/ IdleStopped \/ LogoutAcquire \/ UNCHANGED vars
       PROVE  ConnKept
  <2>1. UNCHANGED <<current, conn>>
    BY <1>12 DEF Call, Acquire, Listen, LoopAcquire, Backoff, HandlerReturns, BatchEnds,
       Poll, LoopGivesUp, Logout, IdleStopped, LogoutAcquire, vars
  <2> QED
    BY <1>1, <2>1
<1> QED
  BY <1>4, <1>5, <1>6, <1>7, <1>8, <1>9, <1>10, <1>11, <1>12
     DEF Next, TaskStep, LoopStep, LogoutStep

(* Only commands of tasks and arrivals change messages. *)
LEMMA MailSteps ==
  ASSUME TypeOK, [Next]_vars
  PROVE  \/ UNCHANGED <<mail, nextUid>>
         \/ \E t \in Task, ans \in Answer : Command(t, ans)
         \/ Arrive
<1> USE DEF clientVars, serverVars, historyVars
<1>1. Idle \in Folder /\ 0 \in Nat
  BY DEF Folder
<1>2. ASSUME NEW ans \in Answer, NEW cmd, cmd \notin Moving, Served(ans, cmd, Idle, 0)
      PROVE  UNCHANGED <<mail, nextUid>>
  BY <1>1, <1>2, ServedFacts
<1>3. ASSUME NEW ans \in Answer, \/ LoopSelect(ans) \/ LoopSearch(ans)
                                 \/ LoopFetch(ans) \/ SendIdle(ans)
      PROVE  UNCHANGED <<mail, nextUid>>
  <2>1. \E cmd \in {"select", "search", "fetch", "idle"} : Served(ans, cmd, Idle, 0)
    BY <1>3 DEF LoopSelect, LoopSearch, LoopFetch, SendIdle
  <2> QED
    BY <1>2, <2>1 DEF Moving
<1>4. ASSUME NEW t \in Task, NEW ans \in Answer, Ensure(t, ans) PROVE UNCHANGED <<mail, nextUid>>
  BY <1>4, EnsureFacts DEF Ensure
<1>5. ASSUME NEW ans \in Answer, LoopEnsure(ans) PROVE UNCHANGED <<mail, nextUid>>
  BY <1>5, EnsureFacts DEF LoopEnsure
<1>6. ASSUME NEW ans \in Answer, SendDone(ans) \/ Bye(ans) PROVE UNCHANGED <<mail, nextUid>>
  BY <1>6 DEF SendDone, Bye
<1>7. ASSUME NEW exists \in BOOLEAN, LoopLine(exists) PROVE UNCHANGED <<mail, nextUid>>
  BY <1>7 DEF LoopLine
<1>8. ASSUME \/ \E t \in Task, op \in Operation, u \in 0..MaxMail : Call(t, op, u)
             \/ \E t \in Task : Acquire(t)
             \/ Listen \/ LoopAcquire \/ Backoff \/ HandlerReturns \/ BatchEnds \/ Poll
             \/ LoopGivesUp \/ (\E inHandler \in BOOLEAN : Logout(inHandler))
             \/ IdleStopped \/ LogoutAcquire \/ Cleanup \/ (\E k \in Conn : Drop(k))
             \/ UNCHANGED vars
      PROVE  UNCHANGED <<mail, nextUid>>
  BY <1>8 DEF Call, Acquire, Listen, LoopAcquire, Backoff, HandlerReturns, BatchEnds,
     Poll, LoopGivesUp, Logout, IdleStopped, LogoutAcquire, Cleanup, Drop, vars
<1> QED
  BY <1>3, <1>4, <1>5, <1>6, <1>7, <1>8 DEF Next, TaskStep, LoopStep, LogoutStep

(* A task moves by its own steps, and the handler by a logout it calls. *)
LEMMA TaskSteps ==
  ASSUME TypeOK, [Next]_vars, NEW t \in Task
  PROVE  \/ task'[t] = task[t]
         \/ \E op \in Operation, u \in 0..MaxMail : Call(t, op, u)
         \/ Acquire(t)
         \/ \E ans \in Answer : Ensure(t, ans) \/ Command(t, ans)
         \/ /\ task'[t].pc \in {"logout", "idle"}
            /\ task'[t].op = task[t].op /\ task'[t].uid = task[t].uid
<1> USE DEF clientVars, serverVars, historyVars
<1>1. task \in [Task -> TaskState]
  BY DEF TypeOK, ActorTypes
<1>2. ASSUME NEW v \in Task, v # t, \E op \in Operation, u \in 0..MaxMail : Call(v, op, u)
      PROVE  task'[t] = task[t]
  BY <1>1, <1>2 DEF Call
<1>3. ASSUME NEW v \in Task, v # t, TaskStep(v)
      PROVE  task'[t] = task[t]
  BY <1>1, <1>3 DEF TaskStep, Acquire, Ensure, Command
<1>4. ASSUME Cleanup \/ \E inHandler \in BOOLEAN : Logout(inHandler)
      PROVE  \/ task'[t] = task[t]
             \/ /\ task'[t].pc \in {"logout", "idle"}
                /\ task'[t].op = task[t].op /\ task'[t].uid = task[t].uid
  <2>1. \/ task' = task \/ task' = [task EXCEPT ![Handler].pc = "idle"]
        \/ task' = [task EXCEPT ![Handler].pc = "logout"]
    BY <1>4 DEF Cleanup, Logout
  <2>2. CASE t # Handler
    BY <1>1, <2>1, <2>2
  <2>3. CASE t = Handler
    BY <1>1, <2>1, <2>3 DEF TaskState
  <2> QED
    BY <2>2, <2>3
<1>5. ASSUME \/ Listen \/ LoopStep \/ IdleStopped \/ LogoutAcquire \/ (\E ans \in Answer : Bye(ans))
             \/ Arrive \/ (\E k \in Conn : Drop(k)) \/ UNCHANGED vars
      PROVE  task'[t] = task[t]
  BY <1>5 DEF LoopStep, Listen, LoopAcquire, Backoff, HandlerReturns, BatchEnds, Poll,
     LoopGivesUp, LoopLine, LoopEnsure, LoopSelect, LoopSearch, LoopFetch, SendIdle, SendDone,
     IdleStopped, LogoutAcquire, Bye, Arrive, Drop, vars
<1> QED
  BY <1>2, <1>3, <1>4, <1>5 DEF Next, TaskStep, LogoutStep

(* A token is cancelled for good, and deletions are not forgotten. *)
LEMMA Monotone ==
  ASSUME TypeOK, LockInv, [Next]_vars
  PROVE  (cancelled => cancelled') /\ deleted \subseteq deleted'
<1> USE DEF clientVars, serverVars, historyVars
<1>1. ASSUME NEW inHandler \in BOOLEAN, Logout(inHandler) PROVE ~cancelled /\ deleted' = deleted
  BY <1>1 DEF Logout, LockInv
<1>2. ASSUME NEW t \in Task, NEW op \in Operation, NEW u \in 0..MaxMail, Call(t, op, u)
      PROVE  cancelled' = cancelled /\ deleted \subseteq deleted'
  BY <1>2 DEF Call
<1>3. ASSUME \/ Listen \/ LoopStep \/ LogoutStep \/ (\E t \in Task : TaskStep(t))
             \/ Arrive \/ (\E k \in Conn : Drop(k)) \/ UNCHANGED vars
      PROVE  cancelled' = cancelled /\ deleted' = deleted
  BY <1>3 DEF LoopStep, Listen, LoopAcquire, Backoff, HandlerReturns, BatchEnds, Poll,
     LoopGivesUp, LoopLine, LoopEnsure, LoopSelect, LoopSearch, LoopFetch, SendIdle, SendDone,
     LogoutStep, IdleStopped, LogoutAcquire, Bye, Cleanup, TaskStep, Acquire, Ensure, Command,
     Arrive, Drop, vars
<1> QED
  BY <1>1, <1>2, <1>3 DEF Next

-----------------------------------------------------------------------------
(* The messages are not lost.                                              *)

(* What a command of a task is, and which command follows it. *)
LEMMA CommandFacts ==
  ASSUME TypeOK, NEW t \in Task, NEW ans, Command(t, ans)
  PROVE  /\ task[t].pc \in {"select", "search"} \cup Moving
         /\ ans \in Answers(task[t].pc # "select")
         /\ Served(ans, task[t].pc, IF task[t].op = "read" THEN Other ELSE Idle, task[t].uid)
         /\ UNCHANGED <<current, cancelled, loop, logout, opened, reports, skipped, deleted>>
         /\ task'[t].pc # task[t].pc
         /\ \/ task'[t].op = task[t].op /\ task'[t].uid = task[t].uid
            \/ task'[t].op = "none" /\ task'[t].pc = "idle"
         /\ task'[t].pc \in Moving =>
              /\ ans = "ok" /\ task'[t].op = task[t].op /\ task'[t].uid = task[t].uid
              /\ \/ task[t].pc = "select" /\ task[t].op = "delete" /\ task'[t].pc = "store"
                 \/ /\ task[t].pc = "select" /\ task[t].op = "move"
                    /\ task'[t].pc \in {"move", "copy"}
                 \/ task[t].pc = "copy" /\ task'[t].pc = "store"
                 \/ task[t].pc = "store" /\ task'[t].pc = "expunge"
<1> DEFINE cmd == task[t].pc
           next == CASE ans = "never" -> "hung"
                     [] ans = "ok" -> NextStep(task[t].op, cmd)
                     [] OTHER -> "idle"
<1>1. /\ cmd \in Locked \ {"ensure", "hung"}
      /\ task' = [task EXCEPT ![t] =
           IF next = "idle" THEN [@ EXCEPT !.pc = "idle", !.op = "none", !.uid = 0]
           ELSE [@ EXCEPT !.pc = next]]
      /\ ans \in Answers(cmd # "select")
      /\ Served(ans, cmd, IF task[t].op = "read" THEN Other ELSE Idle, task[t].uid)
      /\ UNCHANGED <<current, cancelled, loop, logout, opened, reports, skipped, deleted>>
  BY DEF Command, historyVars
<1>2. task \in [Task -> TaskState] /\ task[t] \in TaskState
  BY DEF TypeOK, ActorTypes
<1>3. cmd \in {"select", "search"} \cup Moving
  BY <1>1 DEF Locked, Moving
<1>4. /\ next # cmd
      /\ next \in Moving =>
           /\ ans = "ok"
           /\ \/ cmd = "select" /\ task[t].op = "delete" /\ next = "store"
              \/ cmd = "select" /\ task[t].op = "move" /\ next \in {"move", "copy"}
              \/ cmd = "copy" /\ next = "store"
              \/ cmd = "store" /\ next = "expunge"
  BY <1>3 DEF NextStep, Moving
<1> HIDE DEF next
<1>5. task'[t] = IF next = "idle" THEN [task[t] EXCEPT !.pc = "idle", !.op = "none", !.uid = 0]
                 ELSE [task[t] EXCEPT !.pc = next]
  BY <1>1, <1>2
<1>6. /\ task'[t].pc = next
      /\ next # "idle" => task'[t].op = task[t].op /\ task'[t].uid = task[t].uid
      /\ next = "idle" => task'[t].op = "none"
  BY <1>2, <1>5 DEF TaskState
<1>7. "idle" \notin Moving
  BY DEF Moving
<1> QED
  BY <1>1, <1>3, <1>4, <1>6, <1>7

(* While operations are serialized, a command that changes messages works  *)
(* on the monitored folder.                                                *)
LEMMA CommandEffect ==
  ASSUME TypeOK, TaskSelected, ~cancelled, NEW t \in Task, NEW ans, Command(t, ans)
  PROVE  \/ UNCHANGED <<mail, nextUid>>
         \/ task[t].pc \in Moving /\ Effect(task[t].pc, Idle, task[t].uid)
<1> DEFINE cmd == task[t].pc
           sel == cmd \notin {"select", "idle", "noop"}
<1>1. Served(ans, cmd, IF task[t].op = "read" THEN Other ELSE Idle, task[t].uid)
  BY CommandFacts
<1>2. IF Executed(ans, sel) THEN Effect(cmd, conn[current].selected, task[t].uid)
      ELSE UNCHANGED <<mail, nextUid>>
  BY <1>1 DEF Served
<1>3. CASE cmd \notin Moving
  BY <1>2, <1>3 DEF Effect, Moving
<1>4. CASE cmd \in Moving /\ Executed(ans, sel)
  <2>1. conn[current].selected = Idle
    BY <1>4 DEF Executed, TaskSelected, OnIdle
  <2> QED
    BY <1>2, <1>4, <2>1
<1> QED
  BY <1>2, <1>3, <1>4

(* UIDs of the monitored folder only grow. *)
LEMMA UidsStep ==
  ASSUME TypeOK, UidsOfIdle, [Next]_vars
  PROVE  UidsOfIdle' /\ nextUid[Idle] <= nextUid'[Idle]
<1> USE ImapAssumption
<1>1. Idle \in Folder /\ Other \in Folder /\ mail \in [Folder -> SUBSET Message]
      /\ nextUid \in [Folder -> Nat] /\ nextUid[Idle] \in Nat
  BY DEF Folder, TypeOK, ServerTypes, MailTypes
<1>2. CASE UNCHANGED <<mail, nextUid>>
  BY <1>1, <1>2 DEF UidsOfIdle
<1>3. ASSUME NEW t \in Task, NEW ans \in Answer, Command(t, ans)
      PROVE  UidsOfIdle' /\ nextUid[Idle] <= nextUid'[Idle]
  <2> DEFINE f == IF task[t].op = "read" THEN Other ELSE Idle
  <2>1. Served(ans, task[t].pc, f, task[t].uid) /\ f \in Folder /\ task[t].uid \in Nat
    BY <1>1, <1>3, CommandFacts DEF TypeOK, ActorTypes, TaskState
  <2> HIDE DEF f
  <2>2. IdleKept
    BY <2>1, ServedFacts
  <2> QED
    BY <1>1, <2>2 DEF IdleKept, UidsOfIdle
<1>4. CASE Arrive
  <2>1. Place(Idle, nextUid[Idle])
    BY <1>4 DEF Arrive
  <2> DEFINE new == [uid |-> nextUid[Idle], msg |-> nextUid[Idle], marked |-> FALSE]
  <2>2. mail'[Idle] = mail[Idle] \cup {new} /\ nextUid'[Idle] = nextUid[Idle] + 1
    BY <1>1, <2>1 DEF Place
  <2>3. new.uid = nextUid[Idle] /\ new.msg = nextUid[Idle]
    OBVIOUS
  <2> HIDE DEF new
  <2>4. \A m \in mail[Idle] : m.uid \in Nat
    BY <1>1 DEF Message
  <2> QED
    BY <1>1, <2>2, <2>3, <2>4 DEF UidsOfIdle
<1> QED
  BY <1>2, <1>3, <1>4, MailSteps

(* Where a move or a deletion goes on, its folder stays selected. *)
LEMMA SelectedStep ==
  ASSUME TypeOK, LockInv, TaskSelected, [Next]_vars
  PROVE  TaskSelected'
<1> SUFFICES ASSUME NEW t \in Task, task'[t].pc \in Moving
             PROVE  /\ task'[t].op \in {"move", "delete"}
                    /\ task'[t].pc \in {"move", "copy"} => task'[t].op = "move"
                    /\ ~cancelled' => OnIdle'
  BY DEF TaskSelected
<1>1. task \in [Task -> TaskState] /\ task[t] \in TaskState
  BY DEF TypeOK, ActorTypes
<1>2. cancelled => cancelled'
  BY Monotone
<1>3. ConnKept /\ OnIdle => OnIdle'
  BY DEF ConnKept, OnIdle
<1>4. CASE task'[t] = task[t]
  <2>1. task[t].pc \in Moving
    BY <1>4
  <2>2. ASSUME ~cancelled' PROVE OnIdle'
    <3>1. ~cancelled /\ OnIdle /\ Alone
      BY <1>2, <2>1, <2>2 DEF TaskSelected, LockInv
    <3>2. Holds(t)
      BY <2>1 DEF Holds, Moving, Locked
    <3>3. ASSUME NEW v \in Task, NEW ans \in Answer,
                 Ensure(v, ans) \/ (Command(v, ans) /\ task[v].pc = "select")
          PROVE  FALSE
      <4>1. task[v].pc \in {"ensure", "select"}
        BY <3>3 DEF Ensure
      <4>2. Holds(v)
        BY <4>1 DEF Holds, Locked
      <4>3. v = t
        BY <3>1, <3>2, <4>2 DEF Alone
      <4> QED
        BY <2>1, <4>1, <4>3 DEF Moving
    <3>4. ASSUME NEW ans \in Answer, LoopEnsure(ans) \/ LoopSelect(ans) \/ SendIdle(ans)
          PROVE  FALSE
      <4>1. LoopHolds
        BY <3>4 DEF LoopEnsure, LoopSelect, SendIdle, LoopHolds, LoopLocked
      <4> QED
        BY <3>1, <3>2, <4>1 DEF Alone
    <3>5. ConnKept
      BY <3>3, <3>4, ConnSteps
    <3> QED
      BY <1>3, <3>1, <3>5
  <2> QED
    BY <1>4, <2>1, <2>2 DEF TaskSelected
<1>5. CASE \/ \E op \in Operation, u \in 0..MaxMail : Call(t, op, u)
           \/ Acquire(t) \/ \E ans \in Answer : Ensure(t, ans)
  <2>1. task'[t].pc \in {"wait", "ensure", "hung", "select"}
    <3>1. ASSUME NEW op \in Operation, NEW u \in 0..MaxMail, Call(t, op, u)
          PROVE  task'[t].pc = "wait"
      <4>1. task'[t] = [task[t] EXCEPT !.pc = "wait", !.op = op, !.uid = u, !.calls = @ + 1]
        BY <1>1, <3>1 DEF Call
      <4> QED
        BY <1>1, <4>1 DEF TaskState
    <3>2. ASSUME Acquire(t) PROVE task'[t].pc = "ensure"
      BY <1>1, <3>2 DEF Acquire, TaskState
    <3>3. ASSUME NEW ans \in Answer, Ensure(t, ans) PROVE task'[t].pc \in {"hung", "select"}
      BY <1>1, <3>3 DEF Ensure, TaskState
    <3> QED
      BY <1>5, <3>1, <3>2, <3>3
  <2> QED
    BY <2>1 DEF Moving
<1>6. ASSUME NEW ans \in Answer, Command(t, ans)
      PROVE  /\ task'[t].op \in {"move", "delete"}
             /\ task'[t].pc \in {"move", "copy"} => task'[t].op = "move"
             /\ ~cancelled' => OnIdle'
  <2>1. /\ ans = "ok" /\ task'[t].op = task[t].op
        /\ \/ task[t].pc = "select" /\ task[t].op = "delete" /\ task'[t].pc = "store"
           \/ task[t].pc = "select" /\ task[t].op = "move" /\ task'[t].pc \in {"move", "copy"}
           \/ task[t].pc = "copy" /\ task'[t].pc = "store"
           \/ task[t].pc = "store" /\ task'[t].pc = "expunge"
    BY <1>6, CommandFacts
  <2> DEFINE f == IF task[t].op = "read" THEN Other ELSE Idle
  <2>2. /\ Served(ans, task[t].pc, f, task[t].uid)
        /\ ans \in Answers(task[t].pc # "select")
        /\ cancelled' = cancelled /\ current' = current
    BY <1>6, CommandFacts
  <2>3. f \in Folder /\ task[t].uid \in Nat
    BY <1>1 DEF Folder, TaskState
  <2>4. /\ current \in Conn /\ conn[current].open /\ ~conn[current].idling
        /\ task[t].pc # "select" => conn[current].selected # NoFolder
    <3>1. current # 0 /\ conn[current].open /\ ~conn[current].idling
          /\ (task[t].pc # "select" => conn[current].selected # NoFolder)
      BY <2>1, <2>2 DEF Answers
    <3> QED
      BY <3>1 DEF TypeOK, ClientTypes, Conn
  <2>5. CASE task[t].pc = "select"
    <3>1. task[t].op \in {"move", "delete"} /\ f = Idle
      BY <2>1, <2>5
    <3>2. conn'[current].selected = Idle
      <4>1. Executed(ans, FALSE)
        BY <2>1, <2>4 DEF Executed, Negative, Conn
      <4>2. conn' = [conn EXCEPT ![current] =
                   [conn[current] EXCEPT
                     !.idling = FALSE,
                     !.news = @ /\ ans \in {"throw", "cancel"},
                     !.selected = Idle]]
        <5>1. ~(current = 0 \/ ~conn[current].open)
          BY <2>4 DEF Conn
        <5>2. /\ "select" \notin {"idle", "noop"} /\ ("select" \notin {"select", "idle", "noop"}) = FALSE
              /\ Served(ans, "select", Idle, task[t].uid)
          BY <2>2, <2>5, <3>1
        <5> QED
          BY <4>1, <5>1, <5>2 DEF Served
      <4>3. conn \in [Conn -> ConnState]
        BY DEF TypeOK, ServerTypes
      <4>4. conn'[current] = [conn[current] EXCEPT
                     !.idling = FALSE,
                     !.news = @ /\ ans \in {"throw", "cancel"},
                     !.selected = Idle]
        BY <2>4, <4>2, <4>3
      <4> QED
        BY <2>4, <4>3, <4>4 DEF ConnState
    <3> QED
      BY <2>1, <2>2, <3>1, <3>2 DEF OnIdle
  <2>6. CASE task[t].pc # "select"
    <3>1. task[t].pc \in Moving
      BY <2>1, <2>6 DEF Moving
    <3>2. conn'[current].open = conn[current].open
          /\ conn'[current].selected = conn[current].selected
      BY <2>2, <2>3, <2>4, <2>6, ServedFacts
    <3>3. task[t].op \in {"move", "delete"} /\ task'[t].pc \in {"store", "expunge"}
      BY <2>1, <2>6, <3>1 DEF TaskSelected
    <3> QED
      BY <2>1, <2>2, <3>1, <3>2, <3>3 DEF OnIdle, TaskSelected
  <2> QED
    BY <2>5, <2>6
<1>7. "logout" \notin Moving /\ "idle" \notin Moving
  BY DEF Moving
<1> QED
  BY <1>4, <1>5, <1>6, <1>7, TaskSteps

(* The other folder keeps the messages it has, unless its marked messages  *)
(* are expunged, which serialized operations do not ask for.               *)
LEMMA ElsewhereKept ==
  ASSUME TypeOK, TaskSelected, ~cancelled, [Next]_vars, NEW msg, Elsewhere(msg)
  PROVE  Elsewhere(msg)'
<1> USE ImapAssumption
<1>1. Idle \in Folder /\ Other \in Folder /\ mail \in [Folder -> SUBSET Message] /\ Idle # Other
  BY DEF Folder, TypeOK, ServerTypes, MailTypes
<1>2. CASE UNCHANGED <<mail, nextUid>>
  BY <1>2 DEF Elsewhere
<1>3. CASE Arrive
  <2>1. Place(Idle, nextUid[Idle])
    BY <1>3 DEF Arrive
  <2>2. mail'[Other] = mail[Other]
    BY <1>1, <2>1 DEF Place
  <2> QED
    BY <2>2 DEF Elsewhere
<1>4. ASSUME NEW t \in Task, NEW ans \in Answer, Command(t, ans) PROVE Elsewhere(msg)'
  <2>1. CASE UNCHANGED <<mail, nextUid>>
    BY <2>1 DEF Elsewhere
  <2>2. CASE task[t].pc \in Moving /\ Effect(task[t].pc, Idle, task[t].uid)
    <3>1. mail[Other] \subseteq mail'[Other]
      <4> DEFINE u == task[t].uid
      <4>1. CASE task[t].pc = "copy"
        BY <1>1, <2>2, <4>1 DEF Effect, Place
      <4>2. CASE task[t].pc = "move"
        BY <1>1, <2>2, <4>2 DEF Effect
      <4>3. CASE task[t].pc = "store"
        BY <1>1, <2>2, <4>3 DEF Effect
      <4>4. CASE task[t].pc = "expunge"
        BY <1>1, <2>2, <4>4 DEF Effect
      <4> QED
        BY <2>2, <4>1, <4>2, <4>3, <4>4 DEF Moving
    <3> QED
      BY <3>1 DEF Elsewhere
  <2> QED
    BY <1>4, <2>1, <2>2, CommandEffect
<1> QED
  BY <1>2, <1>3, <1>4, MailSteps

(* Only who is marking a copied message can undo that it is safe. *)
LEMMA MarksStep ==
  ASSUME TypeOK, LockInv, MailInv, [Next]_vars
  PROVE  MarksAreSafe'
<1> USE ImapAssumption
<1> SUFFICES ASSUME NEW t \in Task, NEW u, u = task'[t].uid
             PROVE  /\ task'[t].op \in {"move", "delete"} => task'[t].uid < nextUid'[Idle]
                    /\ task'[t].op = "delete" => task'[t].uid \in deleted'
                    /\ ~cancelled' /\ task'[t].op = "move" /\ task'[t].pc = "store" =>
                         Elsewhere(u)' \/ WithUid(Idle, u)' = {}
  BY DEF MarksAreSafe, Elsewhere, WithUid
<1>1. task \in [Task -> TaskState] /\ task[t] \in TaskState
  BY DEF TypeOK, ActorTypes
<1>2. Idle \in Folder /\ Other \in Folder /\ mail \in [Folder -> SUBSET Message]
      /\ nextUid \in [Folder -> Nat] /\ nextUid[Idle] \in Nat
  BY DEF Folder, TypeOK, ServerTypes, MailTypes
<1>3. (cancelled => cancelled') /\ deleted \subseteq deleted'
  BY Monotone
<1>4. UidsOfIdle' /\ nextUid[Idle] <= nextUid'[Idle] /\ nextUid'[Idle] \in Nat
  <2>1. TypeOK'
    BY TypeStep
  <2>2. UidsOfIdle' /\ nextUid[Idle] <= nextUid'[Idle]
    BY UidsStep DEF MailInv
  <2> QED
    BY <1>2, <2>1, <2>2 DEF TypeOK, ServerTypes, MailTypes
<1>5. MarksAreSafe /\ TaskSelected /\ UidsOfIdle
  BY DEF MailInv
<1>6. ASSUME task'[t].op = task[t].op, task'[t].uid = task[t].uid
      PROVE  /\ task'[t].op \in {"move", "delete"} => task'[t].uid < nextUid'[Idle]
             /\ task'[t].op = "delete" => task'[t].uid \in deleted'
  <2>1. task[t].uid \in Nat
    BY <1>1 DEF TaskState
  <2>2. task[t].op \in {"move", "delete"} => task[t].uid < nextUid[Idle]
    BY <1>5 DEF MarksAreSafe
  <2>3. task[t].op = "delete" => task[t].uid \in deleted
    BY <1>5 DEF MarksAreSafe
  <2> QED
    BY <1>2, <1>3, <1>4, <1>6, <2>1, <2>2, <2>3
<1>7. CASE task'[t] = task[t]
  <2>1. ASSUME ~cancelled', task[t].op = "move", task[t].pc = "store"
        PROVE  Elsewhere(u)' \/ WithUid(Idle, u)' = {}
    <3> u = task[t].uid
      BY <1>7
    <3>1. ~cancelled /\ Alone /\ Holds(t)
      BY <1>3, <2>1 DEF LockInv, Holds, Locked
    <3>2. CASE Elsewhere(u)
      BY <1>5, <3>1, <3>2, ElsewhereKept
    <3>3. CASE WithUid(Idle, u) = {}
      <4>1. CASE mail' = mail
        BY <3>3, <4>1 DEF WithUid
      <4>2. ASSUME NEW v \in Task, NEW ans \in Answer, Command(v, ans) PROVE FALSE
        <5>1. task[v].pc \in {"select", "search"} \cup Moving /\ task'[v].pc # task[v].pc
          BY <4>2, CommandFacts
        <5>2. Holds(v)
          BY <5>1 DEF Holds, Moving, Locked
        <5> QED
          BY <1>7, <3>1, <5>1, <5>2 DEF Alone
      <4>3. CASE Arrive
        <5>1. Place(Idle, nextUid[Idle])
          BY <4>3 DEF Arrive
        <5> DEFINE new == [uid |-> nextUid[Idle], msg |-> nextUid[Idle], marked |-> FALSE]
        <5>2. mail'[Idle] = mail[Idle] \cup {new}
          BY <1>2, <5>1 DEF Place
        <5>3. task[t].uid \in Nat /\ task[t].uid < nextUid[Idle]
          BY <1>1, <1>5, <2>1 DEF MarksAreSafe, TaskState
        <5>4. new.uid # task[t].uid
          BY <1>2, <5>3
        <5> HIDE DEF new
        <5> QED
          BY <3>3, <5>2, <5>4 DEF WithUid
      <4> QED
        BY <4>1, <4>2, <4>3, MailSteps
    <3> QED
      BY <1>5, <2>1, <3>1, <3>2, <3>3 DEF MarksAreSafe
  <2> QED
    BY <1>6, <1>7, <2>1
<1>8. ASSUME NEW op \in Operation, NEW w \in 0..MaxMail, Call(t, op, w)
      PROVE  /\ task'[t].op \in {"move", "delete"} => task'[t].uid < nextUid'[Idle]
             /\ task'[t].op = "delete" => task'[t].uid \in deleted'
             /\ task'[t].pc = "wait"
  <2>1. task'[t] = [task[t] EXCEPT !.pc = "wait", !.op = op, !.uid = w, !.calls = @ + 1]
    BY <1>1, <1>8 DEF Call
  <2>2. task'[t].pc = "wait" /\ task'[t].op = op /\ task'[t].uid = w
    BY <1>1, <2>1 DEF TaskState
  <2>3. ASSUME op # "read" PROVE \E m \in mail[Idle] : m.uid = w
    BY <1>8, <2>3 DEF Call, WithUid
  <2>4. ASSUME op # "read" PROVE w < nextUid'[Idle]
    BY <1>2, <1>4, <1>5, <2>3, <2>4 DEF UidsOfIdle, Message
  <2>5. ASSUME op = "delete" PROVE w \in deleted'
    <3>1. PICK m \in mail[Idle] : m.uid = w
      BY <2>3, <2>5
    <3>2. m.msg = w /\ m \in WithUid(Idle, w)
      BY <1>5, <3>1 DEF UidsOfIdle, WithUid
    <3>3. deleted' = deleted \cup {n.msg : n \in WithUid(Idle, w)}
      BY <1>8, <2>5 DEF Call
    <3> QED
      BY <3>2, <3>3
  <2> QED
    BY <2>2, <2>4, <2>5
<1>9. ASSUME Acquire(t) \/ \E ans \in Answer : Ensure(t, ans)
      PROVE  /\ task'[t].op = task[t].op /\ task'[t].uid = task[t].uid
             /\ task'[t].pc \in {"ensure", "hung", "select"}
  <2>1. ASSUME Acquire(t)
        PROVE  task'[t].op = task[t].op /\ task'[t].uid = task[t].uid /\ task'[t].pc = "ensure"
    BY <1>1, <2>1 DEF Acquire, TaskState
  <2>2. ASSUME NEW ans \in Answer, Ensure(t, ans)
        PROVE  /\ task'[t].op = task[t].op /\ task'[t].uid = task[t].uid
               /\ task'[t].pc \in {"hung", "select"}
    BY <1>1, <2>2 DEF Ensure, TaskState
  <2> QED
    BY <1>9, <2>1, <2>2
<1>10. ASSUME NEW ans \in Answer, Command(t, ans), ~cancelled',
              task'[t].op = "move", task'[t].pc = "store"
       PROVE  Elsewhere(u)' \/ WithUid(Idle, u)' = {}
  <2> DEFINE m == CHOOSE n \in WithUid(Idle, u) : TRUE
             f == IF task[t].op = "read" THEN Other ELSE Idle
  <2>1. /\ ans = "ok" /\ task[t].pc = "copy" /\ ~cancelled /\ u = task[t].uid
        /\ ans \in Answers(TRUE) /\ Served(ans, "copy", f, u)
    <3>1. "store" \in Moving
      BY DEF Moving
    <3>2. ans = "ok" /\ task[t].pc = "copy" /\ u = task[t].uid
      BY <1>10, <3>1, CommandFacts
    <3>3. ans \in Answers(task[t].pc # "select") /\ Served(ans, task[t].pc, f, task[t].uid)
      BY <1>10, CommandFacts
    <3> QED
      BY <1>3, <1>10, <3>2, <3>3
  <2>2. /\ current # 0 /\ conn[current].open /\ ~conn[current].idling
        /\ conn[current].selected # NoFolder
    BY <2>1 DEF Answers
  <2>3. conn[current].selected = Idle
    BY <1>5, <2>1, <2>2 DEF TaskSelected, OnIdle, Moving
  <2>4. Executed(ans, TRUE)
    BY <2>1, <2>2 DEF Executed, Negative
  <2>5. Effect("copy", Idle, u)
    <3>1. ("copy" \notin {"select", "idle", "noop"}) = TRUE
      OBVIOUS
    <3> QED
      BY <2>1, <2>3, <2>4, <3>1 DEF Served
  <2>6. CASE WithUid(Idle, u) = {}
    <3>1. mail' = mail
      BY <2>5, <2>6 DEF Effect
    <3> QED
      BY <2>6, <3>1 DEF WithUid
  <2>7. CASE WithUid(Idle, u) # {}
    <3>1. m \in mail[Idle] /\ m.uid = u
      BY <2>7 DEF WithUid
    <3>2. m.msg = u
      BY <1>5, <3>1 DEF UidsOfIdle
    <3>3. Place(Other, u)
      BY <2>5, <2>7, <3>2 DEF Effect
    <3> DEFINE new == [uid |-> nextUid[Other], msg |-> u, marked |-> FALSE]
    <3>4. mail'[Other] = mail[Other] \cup {new} /\ new.msg = u
      BY <1>2, <3>3 DEF Place
    <3> QED
      BY <3>4 DEF Elsewhere
  <2> QED
    BY <2>6, <2>7
<1>11. ASSUME NEW ans \in Answer, Command(t, ans)
       PROVE  \/ task'[t].op = task[t].op /\ task'[t].uid = task[t].uid
              \/ task'[t].op = "none" /\ task'[t].pc = "idle"
  BY <1>11, CommandFacts
<1>12. ASSUME task'[t].pc \in {"logout", "idle"},
              task'[t].op = task[t].op, task'[t].uid = task[t].uid
       PROVE  /\ task'[t].op \in {"move", "delete"} => task'[t].uid < nextUid'[Idle]
              /\ task'[t].op = "delete" => task'[t].uid \in deleted'
  BY <1>6, <1>12
<1>13. ASSUME NEW ans \in Answer, Command(t, ans)
       PROVE  /\ task'[t].op \in {"move", "delete"} => task'[t].uid < nextUid'[Idle]
              /\ task'[t].op = "delete" => task'[t].uid \in deleted'
              /\ ~cancelled' /\ task'[t].op = "move" /\ task'[t].pc = "store" =>
                   Elsewhere(u)' \/ WithUid(Idle, u)' = {}
  BY <1>6, <1>10, <1>11, <1>13
<1> QED
  BY <1>6, <1>7, <1>8, <1>9, <1>12, <1>13, TaskSteps

(* No command of a serialized operation loses a message. *)
LEMMA SurvivesStep ==
  ASSUME TypeOK, LockInv, MailInv, [Next]_vars
  PROVE  Survives'
<1> USE ImapAssumption
<1> DEFINE There(msg) == \E m \in mail[Idle] : m.msg = msg /\ ~m.marked
<1>1. Idle \in Folder /\ Other \in Folder /\ mail \in [Folder -> SUBSET Message]
      /\ nextUid \in [Folder -> Nat] /\ nextUid[Idle] \in Nat /\ Idle # Other
  BY DEF Folder, TypeOK, ServerTypes, MailTypes
<1>2. (cancelled => cancelled') /\ deleted \subseteq deleted'
  BY Monotone
<1>3. UidsOfIdle /\ TaskSelected /\ MarksAreSafe /\ Survives
  BY DEF MailInv
<1> SUFFICES ASSUME ~cancelled', NEW msg \in 1..nextUid'[Idle] - 1, msg \notin deleted',
                    ~Elsewhere(msg)'
             PROVE  There(msg)'
  BY DEF Survives
<1>4. ~cancelled /\ msg \notin deleted /\ ~Elsewhere(msg)
  BY <1>2, <1>3, ElsewhereKept
<1>5. msg < nextUid[Idle] => There(msg)
  BY <1>1, <1>3, <1>4 DEF Survives
<1>6. CASE UNCHANGED <<mail, nextUid>>
  <2>1. msg < nextUid[Idle]
    BY <1>1, <1>6
  <2> QED
    BY <1>5, <1>6, <2>1
<1>7. CASE Arrive
  <2>1. Place(Idle, nextUid[Idle])
    BY <1>7 DEF Arrive
  <2> DEFINE new == [uid |-> nextUid[Idle], msg |-> nextUid[Idle], marked |-> FALSE]
  <2>2. mail'[Idle] = mail[Idle] \cup {new} /\ nextUid'[Idle] = nextUid[Idle] + 1
    BY <1>1, <2>1 DEF Place
  <2>3. new.msg = nextUid[Idle] /\ ~new.marked
    OBVIOUS
  <2>4. msg < nextUid[Idle] \/ msg = nextUid[Idle]
    BY <1>1, <2>2
  <2> HIDE DEF new
  <2> QED
    BY <1>5, <2>2, <2>3, <2>4
<1>8. ASSUME NEW t \in Task, NEW ans \in Answer, Command(t, ans) PROVE There(msg)'
  <2> DEFINE cmd == task[t].pc
             u == task[t].uid
             f == IF task[t].op = "read" THEN Other ELSE Idle
  <2>1. Served(ans, cmd, f, u) /\ f \in Folder /\ u \in Nat
    BY <1>1, <1>8, CommandFacts DEF TypeOK, ActorTypes, TaskState
  <2>2. nextUid'[Idle] = nextUid[Idle]
    <3> HIDE DEF cmd, u, f
    <3> QED
      BY <2>1, ServedFacts DEF IdleKept
  <2>3. PICK m \in mail[Idle] : m.msg = msg /\ ~m.marked
    BY <1>1, <1>5, <2>2
  <2>4. m.msg = m.uid /\ m \in Message
    BY <1>1, <1>3, <2>3 DEF UidsOfIdle
  <2>5. CASE UNCHANGED <<mail, nextUid>>
    BY <2>3, <2>5
  <2>6. ASSUME cmd \in Moving, Effect(cmd, Idle, u) PROVE m \in mail'[Idle]
    <3>1. CASE cmd = "copy"
      BY <1>1, <2>3, <2>6, <3>1 DEF Effect, Place
    <3>2. CASE cmd = "move"
      <4> DEFINE n == CHOOSE n \in WithUid(Idle, u) : TRUE
                 new == [n EXCEPT !.uid = nextUid[Other]]
      <4>1. CASE WithUid(Idle, u) = {}
        BY <2>3, <2>6, <3>2, <4>1 DEF Effect
      <4>2. CASE WithUid(Idle, u) # {}
        <5>1. n \in mail[Idle] /\ n \in Message
          BY <1>1, <4>2 DEF WithUid
        <5>2. mail' = [mail EXCEPT ![Idle] = @ \ {n}, ![Other] = @ \cup {new}]
          BY <1>1, <2>6, <3>2, <4>2 DEF Effect
        <5>3. mail'[Idle] = mail[Idle] \ {n} /\ new \in mail'[Other]
          BY <1>1, <5>2
        <5>4. new.msg = n.msg
          BY <5>1 DEF Message
        <5>5. n.msg # msg
          BY <5>3, <5>4 DEF Elsewhere
        <5> QED
          BY <2>3, <5>3, <5>5
      <4> QED
        BY <4>1, <4>2
    <3>3. CASE cmd = "store"
      <4>1. mail' = [mail EXCEPT
              ![Idle] = (@ \ WithUid(Idle, u)) \cup
                     {[n EXCEPT !.marked = TRUE] : n \in WithUid(Idle, u)}]
        BY <2>6, <3>3 DEF Effect
      <4>2. m \notin WithUid(Idle, u)
        <5>1. SUFFICES ASSUME m \in WithUid(Idle, u) PROVE FALSE
          OBVIOUS
        <5>2. u = msg
          BY <2>3, <2>4, <5>1 DEF WithUid
        <5>3. task[t].op \in {"move", "delete"}
          BY <1>3, <2>6 DEF TaskSelected
        <5>4. task[t].op = "delete" => msg \in deleted
          BY <1>3, <5>2 DEF MarksAreSafe
        <5>5. task[t].op = "move" => Elsewhere(msg)
          BY <1>3, <1>4, <3>3, <5>1, <5>2 DEF MarksAreSafe
        <5> QED
          BY <1>4, <5>3, <5>4, <5>5
      <4> QED
        BY <1>1, <2>3, <4>1, <4>2
    <3>4. CASE cmd = "expunge"
      <4>1. mail' = [mail EXCEPT ![Idle] = {n \in @ : ~n.marked}]
        BY <2>6, <3>4 DEF Effect
      <4> QED
        BY <1>1, <2>3, <4>1
    <3> QED
      BY <2>6, <3>1, <3>2, <3>3, <3>4 DEF Moving
  <2> QED
    BY <1>3, <1>4, <1>8, <2>3, <2>5, <2>6, CommandEffect
<1> QED
  BY <1>6, <1>7, <1>8, MailSteps

(* The mailbox part of the invariant is inductive, given the lock. *)
LEMMA MailStep == TypeOK /\ LockInv /\ MailInv /\ [Next]_vars => MailInv'
  BY UidsStep, SelectedStep, MarksStep, SurvivesStep DEF MailInv

(* Nobody works on a message yet, and none has arrived. *)
LEMMA InitMail == Init => MailInv
<1> USE ImapAssumption DEF Folder
<1> SUFFICES ASSUME Init PROVE MailInv
  OBVIOUS
<1>1. mail[Idle] = {} /\ nextUid[Idle] = 1
  BY DEF Init
<1>2. \A t \in Task : task[t].pc = "idle" /\ task[t].op = "none"
  BY DEF Init
<1> QED
  BY <1>1, <1>2 DEF MailInv, UidsOfIdle, TaskSelected, Moving, MarksAreSafe, Survives

-----------------------------------------------------------------------------
(* The loop, and what it has reported.                                     *)

(* What a step does to the fields of the loop the invariant speaks of.     *)
Told == UNCHANGED <<reports, skipped>>
Stays == Told /\ \A x \in {"pc", "mode", "last", "high", "fresh", "own"} : loop'[x] = loop[x]
Outside ==
  /\ Told
  /\ loop'.last = loop.last
  /\ ~InBatch' /\ (InBatch => Over') /\ (Over => Over')
  /\ loop'.pc # "off"
  /\ loop'.mode = "seed" => loop.mode = "seed"
  /\ loop'.pc = "search" => \E ans \in Answer : LoopSelect(ans)
Seeded(ans) ==
  /\ Told
  /\ loop.pc = "search" /\ loop.mode = "seed"
  /\ ans \in LoopAnswers(TRUE) /\ ans \in {"ok", "no", "refused"}
  /\ loop'.last \in Found(ans) \cup {0} /\ \A u \in Found(ans) : u <= loop'.last
  /\ loop'.mode # "seed" /\ loop'.pc \in {"wait", "poll"}
Begun(ans) ==
  /\ Told
  /\ loop.pc = "search" /\ loop.mode # "seed"
  /\ ans \in LoopAnswers(TRUE) /\ ans \in {"ok", "no", "refused"}
  /\ loop'.pc = "fetch" /\ loop'.mode = loop.mode
  /\ loop'.last = loop.last /\ loop'.high = loop.last
  /\ loop'.fresh = Ascending({u \in Found(ans) : u > loop.last})
PassedOver ==
  /\ loop.pc = "fetch" /\ loop.fresh # <<>>
  /\ loop' = [loop EXCEPT !.fresh = Tail(loop.fresh)]
  /\ skipped' = skipped \cup {Head(loop.fresh)}
  /\ UNCHANGED reports
Raised(ans) ==
  /\ loop.pc = "fetch" /\ loop.fresh # <<>>
  /\ ans \in LoopAnswers(TRUE) /\ ans \in {"ok", "no", "refused"}
  /\ loop'.pc = "handler" /\ loop'.mode = loop.mode /\ loop'.last = loop.last
  /\ loop'.high = Max({loop.high, Head(loop.fresh)})
  /\ loop'.fresh = Tail(loop.fresh) /\ ~loop'.own
  /\ \E c \in Contents(ans, Head(loop.fresh)) :
       reports' = Append(reports, [uid |-> Head(loop.fresh), msg |-> c,
                    own |-> loop.own, refused |-> ans = "refused"])
  /\ UNCHANGED skipped
Turned ==
  /\ Told
  /\ \/ loop.pc = "handler" /\ loop'.pc = "relock"
     \/ loop.pc = "relock" /\ loop'.pc = "fetch"
  /\ \A x \in {"mode", "last", "high", "fresh", "own"} : loop'[x] = loop[x]
Ended ==
  /\ Told
  /\ loop.pc = "fetch" /\ loop.fresh = <<>>
  /\ loop'.last = loop.high
  /\ loop'.mode # "seed" /\ loop'.pc \in {"wait", "poll"}

(* Where Again leads. *)
LEMMA AgainLeads ==
  ASSUME NEW l \in LoopState
  PROVE  /\ Again(l).pc \in {"wait", "poll"} /\ Again(l).mode \in {"enter", "batch"}
         /\ Again(l).last = l.last
  BY DEF Again, LoopState

(* The answer to the search of GetHighestUidAsync seeds the loop. *)
LEMMA SeedSearch ==
  ASSUME TypeOK, NEW ans, LoopSearch(ans), ans \in {"ok", "no", "refused"}, loop.mode = "seed"
  PROVE  Seeded(ans)
<1> DEFINE u == Seed(ans)
           l == [loop EXCEPT !.last = u]
<1>1. UNCHANGED <<reports, skipped>> /\ loop.pc = "search" /\ ans \in LoopAnswers(TRUE)
  BY DEF LoopSearch, historyVars
<1>2. u \in Nat /\ u \in Found(ans) \cup {0} /\ \A v \in Found(ans) : v <= u
  BY <1>1, SeedFacts
<1>3. loop' = Again(l)
  BY DEF LoopSearch, SetLoop
<1> HIDE DEF u
<1>4. l \in LoopState /\ l.last = u
  BY <1>2 DEF TypeOK, ActorTypes, LoopState
<1> HIDE DEF l
<1>5. Again(l).pc \in {"wait", "poll"} /\ Again(l).mode \in {"enter", "batch"} /\ Again(l).last = l.last
  BY <1>4, AgainLeads
<1> QED
  BY <1>1, <1>2, <1>3, <1>4, <1>5 DEF Seeded, Told

(* Every step of the system is one of these to the loop. *)
LEMMA LoopSteps ==
  ASSUME TypeOK, Seeding, [Next]_vars
  PROVE  \/ Stays \/ Outside \/ PassedOver \/ Turned \/ Ended
         \/ \E ans \in Answer : Seeded(ans) \/ Begun(ans) \/ Raised(ans)
<1> USE DEF clientVars, serverVars, historyVars, SetLoop
<1>1. loop \in LoopState
  BY DEF TypeOK, ActorTypes
<1>2. UNCHANGED <<loop, reports, skipped>> => Stays
  BY DEF Stays, Told
<1>3. ASSUME UNCHANGED <<reports, skipped>>, ~InBatch,
             NEW pc, pc \notin {"fetch", "handler", "relock", "off", "search"},
             NEW mode, mode = "seed" => loop.mode = "seed",
             Over => pc \in {"hung", "end"},
             loop' = GoTo(pc, mode) \/ (loop' = [loop EXCEPT !.pc = pc] /\ mode = loop.mode)
      PROVE  Outside
  <2>1. loop'.pc = pc /\ loop'.mode = mode /\ loop'.last = loop.last
    BY <1>1, <1>3 DEF GoTo, LoopState
  <2> QED
    BY <1>3, <2>1 DEF Outside, Told, InBatch, Over
<1>4. ASSUME UNCHANGED <<reports, skipped>>, ~InBatch, ~Over, NEW ans, LoopThrows(ans)
      PROVE  Outside
  <2> DEFINE pc == IF ans = "cancel" \/ loop.mode \in {"seed", "recover"} THEN "end"
                   ELSE "backoff"
  <2>1. loop' = [loop EXCEPT !.pc = pc]
    BY <1>4 DEF LoopThrows
  <2>2. pc \notin {"fetch", "handler", "relock", "off", "search"}
    OBVIOUS
  <2> HIDE DEF pc
  <2> QED
    BY <1>3, <1>4, <2>1, <2>2
<1>5. ASSUME UNCHANGED <<reports, skipped>>, ~InBatch, ~Over, loop' = Again(loop)
      PROVE  Outside
  <2>1. /\ loop'.pc \in {"wait", "poll"} /\ loop'.mode \in {"enter", "batch"}
        /\ loop'.last = loop.last
    BY <1>1, <1>5, AgainLeads
  <2> QED
    BY <1>5, <2>1 DEF Outside, Told, InBatch, Over
<1>6. ASSUME Listen PROVE Outside
  <2>1. loop.pc = "off" /\ loop' = GoTo("wait", "seed") /\ UNCHANGED <<reports, skipped>>
    BY <1>6 DEF Listen
  <2>2. loop'.pc = "wait" /\ loop'.mode = "seed" /\ loop'.last = loop.last
    BY <1>1, <2>1 DEF GoTo, LoopState
  <2> QED
    BY <2>1, <2>2 DEF Seeding, Outside, Told, InBatch, Over
<1>7. ASSUME LoopAcquire PROVE Outside \/ Turned
  <2> DEFINE pc == IF cancelled THEN "end"
                   ELSE CASE loop.mode = "enter" -> "sendIdle"
                          [] loop.mode = "redone" -> "done"
                          [] OTHER -> "ensure"
  <2>1. UNCHANGED <<reports, skipped>> /\ loop.pc \in {"wait", "relock"}
    BY <1>7 DEF LoopAcquire
  <2>2. CASE loop.pc = "relock"
    <3>1. loop' = [loop EXCEPT !.pc = "fetch"]
      <4>1. CASE cancelled
        BY <1>7, <2>2, <4>1 DEF LoopAcquire
      <4>2. CASE ~cancelled
        <5> DEFINE to == CASE loop.pc = "relock" -> "fetch"
                           [] loop.pc = "wait" /\ loop.mode = "enter" -> "sendIdle"
                           [] loop.pc = "wait" /\ loop.mode = "redone" -> "done"
                           [] OTHER -> "ensure"
        <5>1. loop' = [loop EXCEPT !.pc = to]
          BY <1>7, <4>2 DEF LoopAcquire
        <5>2. loop.pc = "relock" => to = "fetch"
          OBVIOUS
        <5> HIDE DEF to
        <5> QED
          BY <2>2, <5>1, <5>2
      <4> QED
        BY <4>1, <4>2
    <3> QED
      BY <1>1, <2>1, <2>2, <3>1 DEF Turned, Told, LoopState
  <2>3. CASE loop.pc = "wait"
    <3>1. loop' = [loop EXCEPT !.pc = pc]
      BY <1>1, <1>7, <2>3 DEF LoopAcquire
    <3>2. pc \notin {"fetch", "handler", "relock", "off", "search"}
      OBVIOUS
    <3>3. ~InBatch /\ ~Over
      BY <2>3 DEF InBatch, Over
    <3> HIDE DEF pc
    <3> QED
      BY <1>3, <2>1, <3>1, <3>2, <3>3
  <2> QED
    BY <2>1, <2>2, <2>3
<1>8. ASSUME Backoff PROVE Outside
  <2>1. ~InBatch /\ ~Over /\ UNCHANGED <<reports, skipped>>
        /\ (loop' = GoTo("end", loop.mode) \/ loop' = GoTo("wait", "recover"))
    BY <1>8 DEF Backoff, InBatch, Over
  <2>2. CASE loop' = GoTo("end", loop.mode)
    BY <1>3, <2>1, <2>2
  <2>3. CASE loop' = GoTo("wait", "recover")
    BY <1>3, <2>1, <2>3
  <2> QED
    BY <2>1, <2>2, <2>3
<1>9. ASSUME Poll PROVE Outside
  <2>1. ~InBatch /\ ~Over /\ UNCHANGED <<reports, skipped>>
        /\ (loop' = GoTo("end", "batch") \/ loop' = GoTo("wait", "batch"))
    BY <1>9 DEF Poll, InBatch, Over
  <2>2. CASE loop' = GoTo("end", "batch")
    BY <1>3, <2>1, <2>2
  <2>3. CASE loop' = GoTo("wait", "batch")
    BY <1>3, <2>1, <2>3
  <2> QED
    BY <2>1, <2>2, <2>3
<1>10. ASSUME LoopGivesUp PROVE Outside
  <2>1. UNCHANGED <<reports, skipped>> /\ loop.pc = "hung" /\ loop' = [loop EXCEPT !.pc = "end"]
    BY <1>10 DEF LoopGivesUp, LoopThrows
  <2>2. ~InBatch
    BY <2>1 DEF InBatch
  <2> QED
    BY <1>3, <2>1, <2>2
<1>11. ASSUME HandlerReturns PROVE Turned
  <2>1. UNCHANGED <<reports, skipped>> /\ loop.pc = "handler" /\ loop' = GoTo("relock", loop.mode)
    BY <1>11 DEF HandlerReturns
  <2> QED
    BY <1>1, <2>1 DEF Turned, Told, GoTo, LoopState
<1>12. ASSUME BatchEnds PROVE Ended
  <2> DEFINE l == [loop EXCEPT !.last = loop.high, !.high = 0, !.own = FALSE]
  <2>1. UNCHANGED <<reports, skipped>> /\ loop.pc = "fetch" /\ loop.fresh = <<>> /\ loop' = Again(l)
    BY <1>12 DEF BatchEnds
  <2>2. l \in LoopState /\ l.last = loop.high
    BY <1>1 DEF LoopState
  <2> HIDE DEF l
  <2>3. Again(l).pc \in {"wait", "poll"} /\ Again(l).mode \in {"enter", "batch"} /\ Again(l).last = l.last
    BY <2>2, AgainLeads
  <2> QED
    BY <2>1, <2>2, <2>3 DEF Ended, Told
<1>13. ASSUME NEW exists \in BOOLEAN, LoopLine(exists) PROVE Stays \/ Outside
  <2>1. /\ UNCHANGED <<reports, skipped>> /\ loop.pc = "listen"
        /\ \/ loop' = [loop EXCEPT !.pc = "wait", !.on = 0, !.partial = FALSE]
           \/ loop' = [loop EXCEPT !.pc = "backoff", !.on = 0, !.partial = FALSE]
           \/ loop' = [loop EXCEPT !.on = current, !.partial = conn[loop.on].open]
           \/ loop' = [loop EXCEPT !.partial = FALSE]
    BY <1>13 DEF LoopLine
  <2>2. \A x \in {"mode", "last", "high", "fresh", "own"} : loop'[x] = loop[x]
    BY <1>1, <2>1 DEF LoopState
  <2>3. loop'.pc \in {"wait", "backoff", "listen"}
    BY <1>1, <2>1 DEF LoopState
  <2>4. loop'.last = loop.last /\ loop'.mode = loop.mode
    BY <2>2
  <2> QED
    BY <2>1, <2>2, <2>3, <2>4 DEF Stays, Outside, Told, InBatch, Over
<1>14. ASSUME NEW ans \in Answer, LoopEnsure(ans) PROVE Outside
  <2>1. /\ UNCHANGED <<reports, skipped>> /\ loop.pc = "ensure"
        /\ \/ loop' = GoTo("hung", loop.mode) \/ loop' = Again(loop)
           \/ loop' = GoTo("select", loop.mode)
    BY <1>14 DEF LoopEnsure
  <2>2. ~InBatch /\ ~Over
    BY <2>1 DEF InBatch, Over
  <2>3. CASE loop' = GoTo("hung", loop.mode)
    BY <1>3, <2>1, <2>2, <2>3
  <2>4. CASE loop' = GoTo("select", loop.mode)
    BY <1>3, <2>1, <2>2, <2>4
  <2> QED
    BY <1>5, <2>1, <2>2, <2>3, <2>4
<1>15. ASSUME NEW ans \in Answer, LoopSelect(ans) PROVE Outside
  <2>1. /\ UNCHANGED <<reports, skipped>> /\ loop.pc = "select"
        /\ \/ loop' = GoTo("hung", loop.mode) \/ loop' = Again(loop)
           \/ loop' = [loop EXCEPT !.pc = "search", !.own = TRUE]
           \/ LoopThrows(ans)
    BY <1>15 DEF LoopSelect
  <2>2. ~InBatch /\ ~Over
    BY <2>1 DEF InBatch, Over
  <2>3. CASE loop' = GoTo("hung", loop.mode)
    BY <1>3, <2>1, <2>2, <2>3
  <2>4. CASE loop' = [loop EXCEPT !.pc = "search", !.own = TRUE]
    <3>1. loop'.pc = "search" /\ loop'.mode = loop.mode /\ loop'.last = loop.last
      BY <1>1, <2>4 DEF LoopState
    <3> QED
      BY <1>15, <2>1, <2>2, <3>1 DEF Outside, Told, InBatch, Over
  <2> QED
    BY <1>4, <1>5, <2>1, <2>2, <2>3, <2>4
<1>16. ASSUME NEW ans \in Answer, SendIdle(ans) PROVE Outside
  <2>1. /\ UNCHANGED <<reports, skipped>> /\ loop.pc = "sendIdle"
        /\ \/ loop' = [GoTo("listen", "redone") EXCEPT !.on = current, !.partial = FALSE]
           \/ loop' = GoTo("end", loop.mode)
           \/ LoopThrows(ans)
    BY <1>16 DEF SendIdle
  <2>2. ~InBatch /\ ~Over
    BY <2>1 DEF InBatch, Over
  <2>3. CASE loop' = GoTo("end", loop.mode)
    BY <1>3, <2>1, <2>2, <2>3
  <2>4. CASE loop' = [GoTo("listen", "redone") EXCEPT !.on = current, !.partial = FALSE]
    <3>1. loop'.pc = "listen" /\ loop'.mode = "redone" /\ loop'.last = loop.last
      BY <1>1, <2>4 DEF LoopState, GoTo
    <3> QED
      BY <2>1, <2>2, <3>1 DEF Outside, Told, InBatch, Over
  <2> QED
    BY <1>4, <2>1, <2>2, <2>3, <2>4
<1>17. ASSUME NEW ans \in Answer, SendDone(ans) PROVE Outside
  <2>1. /\ UNCHANGED <<reports, skipped>> /\ loop.pc = "done"
        /\ \/ loop' = GoTo("select", "batch") \/ loop' = GoTo("hung", "batch")
           \/ LoopThrows(ans)
    BY <1>17 DEF SendDone
  <2>2. ~InBatch /\ ~Over
    BY <2>1 DEF InBatch, Over
  <2>3. CASE loop' = GoTo("select", "batch")
    BY <1>3, <2>1, <2>2, <2>3
  <2>4. CASE loop' = GoTo("hung", "batch")
    BY <1>3, <2>1, <2>2, <2>4
  <2> QED
    BY <1>4, <2>1, <2>2, <2>3, <2>4
<1>18. ASSUME NEW ans \in Answer, LoopSearch(ans) PROVE Outside \/ Seeded(ans) \/ Begun(ans)
  <2>1. /\ UNCHANGED <<reports, skipped>> /\ loop.pc = "search" /\ ans \in LoopAnswers(TRUE)
    BY <1>18 DEF LoopSearch
  <2>2. ~InBatch /\ ~Over
    BY <2>1 DEF InBatch, Over
  <2>3. CASE ans = "never"
    <3>1. loop' = GoTo("hung", loop.mode)
      BY <1>18, <2>3 DEF LoopSearch
    <3> QED
      BY <1>3, <2>1, <2>2, <3>1
  <2>4. CASE ans \in {"ok", "no", "refused"} /\ loop.mode = "seed"
    BY <1>18, <2>4, SeedSearch
  <2>5. CASE ans \in {"ok", "no", "refused"} /\ loop.mode # "seed"
    <3> DEFINE a == Ascending({u \in Found(ans) : u > loop.last})
    <3>1. loop' = [loop EXCEPT !.pc = "fetch", !.high = loop.last, !.fresh = a]
      BY <1>18, <2>5 DEF LoopSearch
    <3> HIDE DEF a
    <3>2. /\ loop'.pc = "fetch" /\ loop'.mode = loop.mode
          /\ loop'.last = loop.last /\ loop'.high = loop.last /\ loop'.fresh = a
      BY <1>1, <3>1 DEF LoopState
    <3> QED
      BY <2>1, <2>5, <3>2 DEF Begun, Told, a
  <2>6. CASE ans \notin {"ok", "no", "refused", "never"}
    <3>1. LoopThrows(ans)
      BY <1>18, <2>6 DEF LoopSearch
    <3> QED
      BY <1>4, <2>1, <2>2, <3>1
  <2> QED
    BY <2>3, <2>4, <2>5, <2>6
<1>19. ASSUME NEW ans \in Answer, LoopFetch(ans) PROVE Outside \/ PassedOver \/ Raised(ans)
  <2> DEFINE u == Head(loop.fresh)
             rest == [loop EXCEPT !.fresh = Tail(@)]
  <2>1. /\ loop.pc = "fetch" /\ loop.fresh # <<>> /\ ans \in LoopAnswers(TRUE)
    BY <1>19 DEF LoopFetch
  <2>2. CASE ans = "never"
    <3>1. loop' = GoTo("hung", loop.mode) /\ UNCHANGED <<reports, skipped>>
      BY <1>19, <2>2 DEF LoopFetch
    <3>2. loop'.pc = "hung" /\ loop'.mode = loop.mode /\ loop'.last = loop.last
      BY <1>1, <3>1 DEF GoTo, LoopState
    <3> QED
      BY <2>1, <3>1, <3>2 DEF Outside, Told, InBatch, Over
  <2>3. CASE ans \in {"throw", "cancel"}
    <3>1. loop' = rest /\ skipped' = skipped \cup {u} /\ UNCHANGED reports
      BY <1>19, <2>3 DEF LoopFetch
    <3> QED
      BY <2>1, <3>1 DEF PassedOver
  <2>4. CASE ans \in {"ok", "no", "refused"}
    <3>1. /\ loop' = [rest EXCEPT !.pc = "handler", !.own = FALSE, !.high = Max({@, u})]
          /\ \E c \in Contents(ans, u) :
                  reports' = Append(reports, [uid |-> u, msg |-> c,
                               own |-> loop.own, refused |-> ans = "refused"])
          /\ UNCHANGED skipped
      BY <1>19, <2>4 DEF LoopFetch
    <3> DEFINE new == Max({loop.high, u})
    <3>2. loop' = [loop EXCEPT !.fresh = Tail(loop.fresh), !.pc = "handler", !.own = FALSE,
                               !.high = new]
      BY <1>1, <3>1 DEF LoopState
    <3> HIDE DEF new
    <3>3. /\ loop'.pc = "handler" /\ loop'.mode = loop.mode /\ loop'.last = loop.last
          /\ loop'.high = new /\ loop'.fresh = Tail(loop.fresh) /\ ~loop'.own
      BY <1>1, <3>2 DEF LoopState
    <3> QED
      BY <2>1, <2>4, <3>1, <3>3 DEF Raised, new
  <2> QED
    BY <2>2, <2>3, <2>4 DEF Answer
<1>20. ASSUME \/ \E t \in Task, op \in Operation, u \in 0..MaxMail : Call(t, op, u)
              \/ \E t \in Task : TaskStep(t)
              \/ (\E inHandler \in BOOLEAN : Logout(inHandler)) \/ LogoutStep
              \/ Arrive \/ (\E k \in Conn : Drop(k)) \/ UNCHANGED vars
       PROVE  Stays
  <2>1. UNCHANGED <<loop, reports, skipped>>
    BY <1>20 DEF Call, TaskStep, Acquire, Ensure, Command, Logout, LogoutStep, IdleStopped,
       LogoutAcquire, Bye, Cleanup, Arrive, Drop, vars
  <2> QED
    BY <1>2, <2>1
<1> QED
  BY <1>6, <1>7, <1>8, <1>9, <1>10, <1>11, <1>12, <1>13, <1>14, <1>15, <1>16, <1>17,
     <1>18, <1>19, <1>20 DEF Next, LoopStep

(* When the loop moves, the messages do not. *)
LEMMA LoopAlone ==
  ASSUME TypeOK, [Next]_vars
  PROVE  UNCHANGED <<mail, nextUid>> \/ (Stays /\ (IdleKept \/ Arrive))
<1> USE DEF historyVars
<1>1. UNCHANGED <<loop, reports, skipped>> => Stays
  BY DEF Stays, Told
<1>2. ASSUME NEW t \in Task, NEW ans \in Answer, Command(t, ans) PROVE Stays /\ IdleKept
  <2> DEFINE f == IF task[t].op = "read" THEN Other ELSE Idle
  <2>1. Served(ans, task[t].pc, f, task[t].uid) /\ UNCHANGED <<loop, reports, skipped>>
    BY <1>2, CommandFacts
  <2>2. f \in Folder /\ task[t].uid \in Nat
    BY DEF Folder, TypeOK, ActorTypes, TaskState
  <2> HIDE DEF f
  <2> QED
    BY <1>1, <2>1, <2>2, ServedFacts
<1>3. Arrive => Stays
  BY <1>1 DEF Arrive
<1> QED
  BY <1>2, <1>3, MailSteps

(* An answered command of the loop shows that the loop is not cancelled. *)
LEMMA AnsweredLoop ==
  ASSUME TypeOK, NEW ans, ans \in LoopAnswers(TRUE), ans \in {"ok", "no", "refused"}
  PROVE  /\ ~cancelled /\ current \in Conn /\ current # 0 /\ conn[current].open
         /\ ans = "no" => conn[current].idling \/ conn[current].selected = NoFolder
  BY DEF LoopAnswers, Answers, TypeOK, ClientTypes, Conn

(* The tail of a sequence. *)
LEMMA TailOf ==
  ASSUME NEW s \in Seq(Nat), s # <<>>
  PROVE  /\ Head(s) = s[1] /\ 1 \in DOMAIN s
         /\ Tail(s) \in Seq(Nat)
         /\ \A i \in DOMAIN Tail(s) : i + 1 \in DOMAIN s /\ Tail(s)[i] = s[i + 1] /\ 1 < i + 1
         /\ \A i \in DOMAIN s : s[i] = Head(s) \/ \E j \in DOMAIN Tail(s) : Tail(s)[j] = s[i]
<1>1. Len(s) \in Nat /\ Len(s) > 0 /\ DOMAIN s = 1..Len(s) /\ Head(s) = s[1]
  OBVIOUS
<1>2. Tail(s) \in Seq(Nat) /\ Len(Tail(s)) = Len(s) - 1 /\ DOMAIN Tail(s) = 1..Len(s) - 1
  OBVIOUS
<1>3. \A i \in 1..Len(s) - 1 : Tail(s)[i] = s[i + 1]
  OBVIOUS
<1>4. ASSUME NEW i \in DOMAIN s, i # 1
      PROVE  i - 1 \in DOMAIN Tail(s) /\ Tail(s)[i - 1] = s[i]
  <2>1. i - 1 \in 1..Len(s) - 1
    BY <1>1, <1>4
  <2>2. Tail(s)[i - 1] = s[(i - 1) + 1]
    BY <1>3, <2>1
  <2> QED
    BY <1>1, <1>2, <1>4, <2>1, <2>2
<1>5. ASSUME NEW i \in DOMAIN Tail(s)
      PROVE  i + 1 \in DOMAIN s /\ Tail(s)[i] = s[i + 1] /\ 1 < i + 1
  BY <1>1, <1>2, <1>3, <1>5
<1>6. ASSUME NEW i \in DOMAIN s
      PROVE  s[i] = Head(s) \/ \E j \in DOMAIN Tail(s) : Tail(s)[j] = s[i]
  BY <1>1, <1>4, <1>6
<1>7. Head(s) = s[1] /\ 1 \in DOMAIN s /\ Tail(s) \in Seq(Nat)
  BY <1>1, <1>2
<1> QED
  BY <1>5, <1>6, <1>7

(* Before the loop is seeded it reports nothing. *)
LEMMA SeedingStep ==
  ASSUME TypeOK, Seeding, [Next]_vars
  PROVE  Seeding'
<1>1. CASE Stays
  <2>1. loop'.pc = loop.pc /\ loop'.mode = loop.mode /\ reports' = reports
    BY <1>1 DEF Stays, Told
  <2> QED
    BY <2>1 DEF Seeding, InBatch
<1>2. CASE Turned
  <2>1. /\ loop.pc \in {"handler", "relock"} /\ loop'.pc \in {"relock", "fetch"}
        /\ loop'.mode = loop.mode
    BY <1>2 DEF Turned
  <2> QED
    BY <2>1 DEF Seeding, InBatch
<1>3. CASE Outside
  BY <1>3 DEF Outside, Told, Seeding, InBatch
<1>4. CASE PassedOver
  <2>1. loop'.mode = loop.mode /\ loop'.pc = "fetch"
    BY <1>4 DEF PassedOver, TypeOK, ActorTypes, LoopState
  <2> QED
    BY <1>4, <2>1 DEF PassedOver, Seeding, InBatch
<1>5. CASE Ended
  BY <1>5 DEF Ended, Seeding, InBatch
<1>6. CASE \E ans \in Answer : Seeded(ans) \/ Begun(ans) \/ Raised(ans)
  BY <1>6 DEF Seeded, Begun, Raised, Seeding, InBatch
<1> QED
  BY <1>1, <1>2, <1>3, <1>4, <1>5, <1>6, LoopSteps

(* The loop is out of its own section after the first event of a batch. *)
LEMMA OwnStep ==
  ASSUME TypeOK, Seeding, OwnOver, [Next]_vars
  PROVE  OwnOver'
<1>1. CASE Stays
  <2>1. loop'.pc = loop.pc /\ loop'.own = loop.own
    BY <1>1 DEF Stays
  <2> QED
    BY <2>1 DEF OwnOver
<1>2. CASE Turned
  <2>1. loop.pc \in {"handler", "relock"} /\ loop'.own = loop.own
    BY <1>2 DEF Turned
  <2> QED
    BY <2>1 DEF OwnOver
<1>3. CASE Outside
  BY <1>3 DEF Outside, OwnOver, InBatch
<1>4. CASE PassedOver
  BY <1>4 DEF PassedOver, OwnOver, TypeOK, ActorTypes, LoopState
<1>5. CASE Ended
  BY <1>5 DEF Ended, OwnOver
<1>6. CASE \E ans \in Answer : Seeded(ans) \/ Begun(ans) \/ Raised(ans)
  BY <1>6 DEF Seeded, Begun, Raised, OwnOver
<1> QED
  BY <1>1, <1>2, <1>3, <1>4, <1>5, <1>6, LoopSteps

(* What a search of a loop that is not cancelled finds. *)
LEMMA FoundOnIdle ==
  ASSUME TypeOK, UidsOfIdle, LoopSelected, loop.pc = "search",
         NEW ans, ans \in LoopAnswers(TRUE), ans \in {"ok", "no", "refused"}
  PROVE  /\ \A u \in Found(ans) : u < nextUid[Idle] /\ WithUid(Idle, u) # {}
         /\ ans # "ok" => Found(ans) = {}
         /\ ans = "ok" => \A m \in mail[Idle] : m.uid \in Found(ans)
<1>1. CASE ans # "ok"
  BY <1>1 DEF Found
<1>2. CASE ans = "ok"
  <2>1. conn[current].selected = Idle
    BY AnsweredLoop DEF LoopSelected
  <2>2. Found(ans) = {m.uid : m \in mail[Idle]}
    BY <1>2, <2>1 DEF Found
  <2> QED
    BY <1>2, <2>2 DEF UidsOfIdle, WithUid
<1> QED
  BY <1>1, <1>2

(* An event is raised for the next message of the batch, which no earlier  *)
(* event was for.                                                          *)
LEMMA RaisedFacts ==
  ASSUME TypeOK, KnownUids, NEW ans, Raised(ans)
  PROVE  /\ loop.fresh \in Seq(Nat) /\ loop.fresh # <<>> /\ Head(loop.fresh) \in Nat
         /\ loop.high < Head(loop.fresh) /\ loop'.high = Head(loop.fresh)
         /\ \A i \in DOMAIN reports : reports[i].uid <= loop.high /\ reports[i].uid \in Nat
         /\ \E n \in Nat, c \in Contents(ans, Head(loop.fresh)) :
              /\ DOMAIN reports = 1..n /\ DOMAIN reports' = 1..n + 1
              /\ \A i \in 1..n : reports'[i] = reports[i]
              /\ reports'[n + 1] = [uid |-> Head(loop.fresh), msg |-> c,
                                    own |-> loop.own, refused |-> ans = "refused"]
<1> DEFINE u == Head(loop.fresh)
<1>1. /\ loop.fresh \in Seq(Nat) /\ loop.fresh # <<>> /\ loop.high \in Nat
      /\ InBatch /\ reports \in Seq(Report)
  BY DEF Raised, TypeOK, ActorTypes, LoopState, HistoryTypes, InBatch
<1>2. u = loop.fresh[1] /\ 1 \in DOMAIN loop.fresh
  BY <1>1, TailOf
<1>3. u \in Nat
  BY <1>1
<1>4. loop.high < u
  BY <1>1, <1>2 DEF KnownUids
<1>5. loop'.high = Max({loop.high, u})
  BY DEF Raised
<1> HIDE DEF u
<1>6. loop'.high = u
  BY <1>1, <1>3, <1>4, <1>5, MaxOfTwo
<1>7. \A i \in DOMAIN reports : reports[i].uid <= loop.high /\ reports[i].uid \in Nat
  <2>1. \A i \in DOMAIN reports : reports[i] \in Report
    BY <1>1
  <2>2. \A r \in Report : r.uid \in Nat
    BY DEF Report
  <2> QED
    BY <1>1, <2>1, <2>2 DEF KnownUids
<1>8. PICK c \in Contents(ans, u) :
        reports' = Append(reports, [uid |-> u, msg |-> c,
                    own |-> loop.own, refused |-> ans = "refused"])
  BY DEF Raised, u
<1> DEFINE r == [uid |-> u, msg |-> c, own |-> loop.own, refused |-> ans = "refused"]
           n == Len(reports)
<1> HIDE DEF r
<1>9. reports' = Append(reports, r)
  BY <1>8 DEF r
<1>10. /\ n \in Nat /\ DOMAIN reports = 1..n /\ DOMAIN reports' = 1..n + 1
       /\ \A i \in 1..n : reports'[i] = reports[i]
       /\ reports'[n + 1] = r
  BY <1>1, <1>9
<1> QED
  BY <1>1, <1>3, <1>4, <1>6, <1>7, <1>10 DEF u, r

(* Everything reported is known, and what is before the loop is not. *)
LEMMA KnownStep ==
  ASSUME TypeOK, Seeding, KnownUids, [Next]_vars
  PROVE  KnownUids'
<1>1. CASE Stays
  <2>1. /\ loop'.pc = loop.pc /\ loop'.last = loop.last /\ loop'.high = loop.high
        /\ loop'.fresh = loop.fresh /\ reports' = reports
    BY <1>1 DEF Stays, Told
  <2> QED
    BY <2>1 DEF KnownUids, InBatch, Over
<1>2. CASE Turned
  <2>1. /\ loop.pc \in {"handler", "relock"} /\ loop'.pc \in {"relock", "fetch"}
        /\ loop'.last = loop.last /\ loop'.high = loop.high
        /\ loop'.fresh = loop.fresh /\ reports' = reports
    BY <1>2 DEF Turned, Told
  <2> QED
    BY <2>1 DEF KnownUids, InBatch, Over
<1>3. CASE Outside
  BY <1>3 DEF Outside, Told, KnownUids
<1>4. CASE PassedOver
  <2>1. /\ loop'.pc = "fetch" /\ loop.pc = "fetch" /\ loop'.high = loop.high
        /\ loop'.fresh = Tail(loop.fresh) /\ reports' = reports
        /\ loop.fresh \in Seq(Nat) /\ loop.fresh # <<>>
    BY <1>4 DEF PassedOver, TypeOK, ActorTypes, LoopState
  <2>2. \A i \in DOMAIN Tail(loop.fresh) : loop.high < Tail(loop.fresh)[i]
    BY <2>1, TailOf DEF KnownUids, InBatch
  <2>3. \A i, j \in DOMAIN Tail(loop.fresh) : i < j => Tail(loop.fresh)[i] < Tail(loop.fresh)[j]
    <3>1. SUFFICES ASSUME NEW i \in DOMAIN Tail(loop.fresh), NEW j \in DOMAIN Tail(loop.fresh), i < j
                   PROVE  Tail(loop.fresh)[i] < Tail(loop.fresh)[j]
      OBVIOUS
    <3>2. /\ i + 1 \in DOMAIN loop.fresh /\ Tail(loop.fresh)[i] = loop.fresh[i + 1]
          /\ j + 1 \in DOMAIN loop.fresh /\ Tail(loop.fresh)[j] = loop.fresh[j + 1]
      BY <2>1, TailOf
    <3>3. i + 1 < j + 1
      <4>1. DOMAIN Tail(loop.fresh) \subseteq Nat
        BY <2>1, TailOf
      <4> QED
        BY <3>1, <4>1
    <3> QED
      BY <2>1, <3>2, <3>3 DEF KnownUids, InBatch
  <2> QED
    BY <2>1, <2>2, <2>3 DEF KnownUids, InBatch
<1>5. CASE Ended
  BY <1>5 DEF Ended, Told, KnownUids, InBatch, Over
<1>6. ASSUME NEW ans \in Answer, Seeded(ans) PROVE KnownUids'
  <2>1. reports' = <<>> /\ ~InBatch'
    BY <1>6 DEF Seeded, Told, Seeding, InBatch
  <2> QED
    BY <2>1 DEF KnownUids
<1>7. ASSUME NEW ans \in Answer, Begun(ans) PROVE KnownUids'
  <2> DEFINE S == {u \in Found(ans) : u > loop.last}
             a == Ascending(S)
  <2>1. /\ Increasing(a) /\ \A i \in DOMAIN a : a[i] \in S
    BY <1>7, FreshFacts DEF Begun
  <2>2. loop.last \in Nat /\ Found(ans) \subseteq Nat
    BY <1>7, FoundFacts DEF Begun, TypeOK, ActorTypes, LoopState
  <2>3. /\ loop'.pc = "fetch" /\ loop'.high = loop.last /\ loop'.fresh = a
        /\ reports' = reports /\ loop.pc = "search"
    BY <1>7 DEF Begun, Told
  <2> HIDE DEF a
  <2>4. \A i \in DOMAIN a : loop.last < a[i]
    BY <2>1, <2>2
  <2> QED
    BY <2>1, <2>3, <2>4 DEF KnownUids, InBatch, Over, Increasing
<1>8. ASSUME NEW ans \in Answer, Raised(ans) PROVE KnownUids'
  <2> DEFINE u == Head(loop.fresh)
  <2>1. /\ loop.fresh \in Seq(Nat) /\ loop.fresh # <<>> /\ u \in Nat /\ loop.high \in Nat
        /\ loop.high < u /\ loop'.high = u
        /\ \A i \in DOMAIN reports : reports[i].uid <= loop.high /\ reports[i].uid \in Nat
    BY <1>8, RaisedFacts DEF TypeOK, ActorTypes, LoopState
  <2>2. PICK n \in Nat :
          /\ DOMAIN reports = 1..n /\ DOMAIN reports' = 1..n + 1
          /\ \A i \in 1..n : reports'[i] = reports[i]
          /\ reports'[n + 1].uid = u
    <3>1. PICK n \in Nat, c \in Contents(ans, u) :
            /\ DOMAIN reports = 1..n /\ DOMAIN reports' = 1..n + 1
            /\ \A i \in 1..n : reports'[i] = reports[i]
            /\ reports'[n + 1] = [uid |-> u, msg |-> c, own |-> loop.own,
                                  refused |-> ans = "refused"]
      BY <1>8, RaisedFacts
    <3>2. reports'[n + 1].uid = u
      BY <3>1
    <3> QED
      BY <3>1, <3>2
  <2>3. loop'.pc = "handler" /\ loop.pc = "fetch" /\ loop'.fresh = Tail(loop.fresh)
    BY <1>8 DEF Raised
  <2> DEFINE s == Tail(loop.fresh)
  <2>4. /\ \A i \in DOMAIN s : i + 1 \in DOMAIN loop.fresh /\ s[i] = loop.fresh[i + 1] /\ 1 < i + 1
        /\ s \in Seq(Nat) /\ u = loop.fresh[1] /\ 1 \in DOMAIN loop.fresh
    BY <2>1, TailOf
  <2>5. \A i, j \in DOMAIN loop.fresh : i < j => loop.fresh[i] < loop.fresh[j]
    BY <2>3 DEF KnownUids, InBatch
  <2> HIDE DEF s, u
  <2>6. \A i \in DOMAIN s : u < s[i]
    BY <2>4, <2>5
  <2>7. \A i, j \in DOMAIN s : i < j => s[i] < s[j]
    <3>1. DOMAIN s \subseteq Nat
      BY <2>4
    <3> QED
      BY <2>4, <2>5, <3>1
  <2>8. \A i \in DOMAIN reports' : reports'[i].uid <= u
    <3>1. SUFFICES ASSUME NEW i \in 1..n + 1 PROVE reports'[i].uid <= u
      BY <2>2
    <3>2. i \in 1..n \/ i = n + 1
      BY <2>2
    <3>3. CASE i \in 1..n
      <4>1. reports'[i] = reports[i] /\ reports[i].uid \in Nat /\ reports[i].uid <= loop.high
        BY <2>1, <2>2, <3>3
      <4> QED
        BY <2>1, <4>1
    <3>4. CASE i = n + 1
      BY <2>1, <2>2, <3>4
    <3> QED
      BY <3>2, <3>3, <3>4
  <2> QED
    BY <2>1, <2>3, <2>6, <2>7, <2>8 DEF KnownUids, InBatch, s
<1> QED
  BY <1>1, <1>2, <1>3, <1>4, <1>5, <1>6, <1>7, <1>8, LoopSteps

(* The loop knows no UID that has not been given yet. *)
LEMMA BelowStep ==
  ASSUME TypeOK, UidsOfIdle, Seeding, KnownUids, BatchCovers, Below, LoopSelected, [Next]_vars
  PROVE  Below'
<1>1. /\ loop.last \in Nat /\ loop.high \in Nat /\ nextUid[Idle] \in Nat /\ nextUid'[Idle] \in Nat
      /\ nextUid[Idle] <= nextUid'[Idle] /\ nextUid[Idle] > 0
  <2>1. TypeOK'
    BY TypeStep
  <2> QED
    BY <2>1, UidsStep DEF TypeOK, ActorTypes, LoopState, ServerTypes, MailTypes, Folder, UidsOfIdle
<1>2. CASE Stays
  <2>1. loop'.pc = loop.pc /\ loop'.last = loop.last /\ loop'.high = loop.high
    BY <1>2 DEF Stays
  <2> QED
    BY <1>1, <2>1 DEF Below, InBatch, Over
<1>3. CASE Turned
  <2>1. /\ loop.pc \in {"handler", "relock"} /\ loop'.pc \in {"relock", "fetch"}
        /\ loop'.last = loop.last /\ loop'.high = loop.high
    BY <1>3 DEF Turned
  <2> QED
    BY <1>1, <2>1 DEF Below, InBatch, Over
<1>4. CASE Outside
  BY <1>1, <1>4 DEF Outside, Below
<1>5. CASE PassedOver
  <2>1. /\ loop'.pc = "fetch" /\ loop.pc = "fetch"
        /\ loop'.last = loop.last /\ loop'.high = loop.high
    BY <1>5 DEF PassedOver, TypeOK, ActorTypes, LoopState
  <2> QED
    BY <1>1, <2>1 DEF Below, InBatch, Over
<1>6. CASE Ended
  BY <1>1, <1>6 DEF Ended, Below, InBatch, Over
<1>7. ASSUME NEW ans \in Answer, Seeded(ans) PROVE Below'
  <2>1. loop'.last \in Found(ans) \cup {0} /\ ~InBatch' /\ ~Over'
    BY <1>7 DEF Seeded, InBatch, Over
  <2>2. \A u \in Found(ans) : u < nextUid[Idle]
    BY <1>7, FoundOnIdle DEF Seeded
  <2>3. Found(ans) \subseteq Nat
    BY <1>7, FoundFacts DEF Seeded
  <2> QED
    BY <1>1, <2>1, <2>2, <2>3 DEF Below
<1>8. ASSUME NEW ans \in Answer, Begun(ans) PROVE Below'
  BY <1>1, <1>8 DEF Begun, Below, InBatch, Over
<1>9. ASSUME NEW ans \in Answer, Raised(ans) PROVE Below'
  <2>1. /\ loop'.high = Head(loop.fresh) /\ loop.fresh \in Seq(Nat) /\ loop.fresh # <<>>
        /\ Head(loop.fresh) \in Nat
    BY <1>9, RaisedFacts
  <2>2. loop.pc = "fetch" /\ loop'.pc = "handler" /\ loop'.last = loop.last
    BY <1>9 DEF Raised
  <2>3. Head(loop.fresh) < nextUid[Idle]
    <3>1. Head(loop.fresh) = loop.fresh[1] /\ 1 \in DOMAIN loop.fresh
      BY <2>1, TailOf
    <3>2. loop.fresh[1] < nextUid[Idle]
      BY <2>2, <3>1 DEF BatchCovers, InBatch
    <3> QED
      BY <3>1, <3>2
  <2> QED
    BY <1>1, <2>1, <2>2, <2>3 DEF Below, InBatch, Over
<1> QED
  BY <1>2, <1>3, <1>4, <1>5, <1>6, <1>7, <1>8, <1>9, LoopSteps

(* No message of the monitored folder drops out between what the batch has *)
(* left behind and what it has still before it.                            *)
LEMMA CoversStep ==
  ASSUME TypeOK, UidsOfIdle, Seeding, KnownUids, BatchCovers, Below, LoopSelected, [Next]_vars
  PROVE  BatchCovers'
<1> USE ImapAssumption
<1>1. /\ loop.last \in Nat /\ loop.high \in Nat /\ nextUid[Idle] \in Nat /\ nextUid'[Idle] \in Nat
      /\ nextUid[Idle] <= nextUid'[Idle] /\ loop.fresh \in Seq(Nat)
  <2>1. TypeOK'
    BY TypeStep
  <2> QED
    BY <2>1, UidsStep DEF TypeOK, ActorTypes, LoopState, ServerTypes, MailTypes, Folder, UidsOfIdle
<1>2. /\ mail \in [Folder -> SUBSET Message] /\ nextUid \in [Folder -> Nat] /\ Idle \in Folder
      /\ \A m \in mail[Idle] : m.uid \in Nat
  BY DEF TypeOK, ServerTypes, MailTypes, Folder, Message
<1>3. \A i \in DOMAIN loop.fresh : loop.fresh[i] \in Nat
  BY <1>1
<1>4. ASSUME Stays, InBatch' PROVE BatchCovers'
  <2>1. /\ loop'.pc = loop.pc /\ loop'.last = loop.last /\ loop'.high = loop.high
        /\ loop'.fresh = loop.fresh /\ reports' = reports /\ skipped' = skipped
    BY <1>4 DEF Stays, Told
  <2>2. InBatch /\ ~Over
    BY <1>4, <2>1 DEF InBatch, Over
  <2>3. \A i \in DOMAIN loop.fresh : loop.fresh[i] < nextUid[Idle]
    BY <2>2 DEF BatchCovers
  <2>4. \A i \in DOMAIN loop.fresh : loop.fresh[i] < nextUid'[Idle]
    BY <1>1, <1>3, <2>3
  <2>5. \A u : Passed(u)' <=> Passed(u)
    BY <2>1 DEF Passed, Reported
  <2>6. ASSUME NEW m \in mail'[Idle], m.uid > loop.last PROVE Passed(m.uid)
    <3>1. CASE UNCHANGED <<mail, nextUid>>
      BY <2>2, <2>6, <3>1 DEF BatchCovers
    <3>2. CASE IdleKept
      <4>1. PICK n \in mail[Idle] : n.uid = m.uid
        BY <2>6, <3>2 DEF IdleKept
      <4> QED
        BY <2>2, <2>6, <4>1 DEF BatchCovers
    <3>3. CASE Arrive
      <4> DEFINE new == [uid |-> nextUid[Idle], msg |-> nextUid[Idle], marked |-> FALSE]
      <4>1. mail'[Idle] = mail[Idle] \cup {new} /\ new.uid = nextUid[Idle]
        BY <1>2, <3>3 DEF Arrive, Place
      <4> HIDE DEF new
      <4>2. CASE m \in mail[Idle]
        BY <2>2, <2>6, <4>2 DEF BatchCovers
      <4>3. CASE m = new
        <5>1. loop.high < nextUid[Idle]
          BY <2>2 DEF Below
        <5> QED
          BY <1>1, <2>3, <4>1, <4>3, <5>1 DEF Passed
      <4> QED
        BY <4>1, <4>2, <4>3
    <3> QED
      BY <3>1, <3>2, <3>3, LoopAlone
  <2>7. \A m \in mail'[Idle] : m.uid > loop'.last => Passed(m.uid)'
    <3>1. SUFFICES ASSUME NEW m \in mail'[Idle], m.uid > loop'.last PROVE Passed(m.uid)'
      OBVIOUS
    <3>2. Passed(m.uid)
      BY <2>1, <2>6, <3>1
    <3> QED
      BY <2>1, <3>2 DEF Passed, Reported
  <2> QED
    BY <2>1, <2>4, <2>7 DEF BatchCovers
<1>5. ASSUME UNCHANGED <<mail, nextUid>>, Turned PROVE BatchCovers'
  <2>1. /\ loop.pc \in {"handler", "relock"} /\ loop'.pc \in {"relock", "fetch"}
        /\ loop'.last = loop.last /\ loop'.high = loop.high
        /\ loop'.fresh = loop.fresh /\ reports' = reports /\ skipped' = skipped
    BY <1>5 DEF Turned, Told
  <2> QED
    BY <1>5, <2>1 DEF BatchCovers, InBatch, Passed, Reported
<1>6. ASSUME UNCHANGED <<mail, nextUid>>, PassedOver PROVE BatchCovers'
  <2> DEFINE h == Head(loop.fresh)
             s == Tail(loop.fresh)
  <2>1. /\ loop.pc = "fetch" /\ loop'.pc = "fetch" /\ loop.fresh # <<>>
        /\ loop'.last = loop.last /\ loop'.high = loop.high /\ loop'.fresh = s
        /\ reports' = reports /\ skipped' = skipped \cup {h}
    BY <1>6 DEF PassedOver, TypeOK, ActorTypes, LoopState
  <2>2. /\ \A i \in DOMAIN s : i + 1 \in DOMAIN loop.fresh /\ s[i] = loop.fresh[i + 1]
        /\ \A i \in DOMAIN loop.fresh : loop.fresh[i] = h \/ \E j \in DOMAIN s : s[j] = loop.fresh[i]
    BY <1>1, <2>1, TailOf
  <2> HIDE DEF h, s
  <2>3. \A i \in DOMAIN s : s[i] < nextUid[Idle]
    BY <2>1, <2>2 DEF BatchCovers, InBatch
  <2>4. ASSUME NEW m \in mail[Idle], m.uid > loop.last PROVE Passed(m.uid)'
    <3>1. Passed(m.uid)
      BY <2>1, <2>4 DEF BatchCovers, InBatch
    <3>2. CASE m.uid \in skipped \cup Reported
      <4>1. m.uid \in skipped' \cup Reported'
        BY <2>1, <3>2 DEF Reported
      <4> QED
        BY <1>6, <4>1 DEF Passed
    <3>3. CASE \E i \in DOMAIN loop.fresh : loop.fresh[i] = m.uid
      <4>1. m.uid \in skipped' \/ \E j \in DOMAIN s : s[j] = m.uid
        BY <2>1, <2>2, <3>3
      <4> QED
        BY <1>6, <2>1, <4>1 DEF Passed
    <3>4. CASE m.uid > loop.high /\ \A i \in DOMAIN loop.fresh : loop.fresh[i] < m.uid
      <4>1. \A i \in DOMAIN s : s[i] < m.uid
        BY <2>2, <3>4
      <4> QED
        BY <1>6, <2>1, <3>4, <4>1 DEF Passed
    <3> QED
      BY <3>1, <3>2, <3>3, <3>4 DEF Passed
  <2> QED
    BY <1>6, <2>1, <2>3, <2>4 DEF BatchCovers
<1>7. ASSUME UNCHANGED <<mail, nextUid>>, NEW ans \in Answer, Begun(ans) PROVE BatchCovers'
  <2> DEFINE S == {u \in Found(ans) : u > loop.last}
             a == Ascending(S)
  <2>1. /\ \A i \in DOMAIN a : a[i] \in S
        /\ \A u \in S : \E i \in DOMAIN a : a[i] = u
    BY <1>7, FreshFacts DEF Begun
  <2>2. /\ loop'.last = loop.last /\ loop'.high = loop.last /\ loop'.fresh = a
        /\ loop.pc = "search" /\ ans \in LoopAnswers(TRUE) /\ ans \in {"ok", "no", "refused"}
    BY <1>7 DEF Begun
  <2>3. /\ \A u \in S : u < nextUid[Idle]
        /\ ans # "ok" => S = {}
        /\ ans = "ok" => \A m \in mail[Idle] : m.uid > loop.last => m.uid \in S
    BY <2>2, FoundOnIdle
  <2> HIDE DEF a, S
  <2>4. ASSUME NEW m \in mail[Idle], m.uid > loop.last PROVE Passed(m.uid)'
    <3>1. CASE ans = "ok"
      <4>1. \E i \in DOMAIN a : a[i] = m.uid
        BY <2>1, <2>3, <2>4, <3>1
      <4> QED
        BY <1>7, <2>2, <4>1 DEF Passed
    <3>2. CASE ans # "ok"
      <4>1. \A i \in DOMAIN a : a[i] < m.uid
        BY <2>1, <2>3, <3>2
      <4> QED
        BY <1>7, <2>2, <2>4, <4>1 DEF Passed
    <3> QED
      BY <3>1, <3>2
  <2> QED
    BY <1>7, <2>1, <2>2, <2>3, <2>4 DEF BatchCovers
<1>8. ASSUME UNCHANGED <<mail, nextUid>>, NEW ans \in Answer, Raised(ans) PROVE BatchCovers'
  <2> DEFINE h == Head(loop.fresh)
             s == Tail(loop.fresh)
  <2>1. /\ loop.pc = "fetch" /\ loop.fresh # <<>>
        /\ loop'.last = loop.last /\ loop'.fresh = s /\ skipped' = skipped
    BY <1>8 DEF Raised
  <2>2. /\ \A i \in DOMAIN s : i + 1 \in DOMAIN loop.fresh /\ s[i] = loop.fresh[i + 1]
        /\ \A i \in DOMAIN loop.fresh : loop.fresh[i] = h \/ \E j \in DOMAIN s : s[j] = loop.fresh[i]
        /\ h = loop.fresh[1] /\ 1 \in DOMAIN loop.fresh
    BY <1>1, <2>1, TailOf
  <2>3. loop'.high = h
    BY <1>8, RaisedFacts
  <2>4. h \in Reported' /\ Reported \subseteq Reported'
    <3>1. PICK n \in Nat, c \in Contents(ans, h) :
            /\ DOMAIN reports = 1..n /\ DOMAIN reports' = 1..n + 1
            /\ \A i \in 1..n : reports'[i] = reports[i]
            /\ reports'[n + 1] = [uid |-> h, msg |-> c, own |-> loop.own,
                                  refused |-> ans = "refused"]
      BY <1>8, RaisedFacts
    <3>2. reports'[n + 1].uid = h /\ n + 1 \in 1..n + 1
      BY <3>1
    <3>3. \A i \in 1..n : i \in 1..n + 1
      BY <3>1
    <3> HIDE DEF h
    <3> QED
      BY <3>1, <3>2, <3>3 DEF Reported
  <2> HIDE DEF h, s
  <2>5. \A i \in DOMAIN s : s[i] < nextUid[Idle]
    BY <2>1, <2>2 DEF BatchCovers, InBatch
  <2>6. ASSUME NEW m \in mail[Idle], m.uid > loop.last PROVE Passed(m.uid)'
    <3>1. Passed(m.uid)
      BY <2>1, <2>6 DEF BatchCovers, InBatch
    <3>2. CASE m.uid \in skipped \cup Reported
      BY <1>8, <2>1, <2>4, <3>2 DEF Passed
    <3>3. CASE \E i \in DOMAIN loop.fresh : loop.fresh[i] = m.uid
      <4>1. m.uid \in Reported' \/ \E j \in DOMAIN s : s[j] = m.uid
        BY <2>2, <2>4, <3>3
      <4> QED
        BY <1>8, <2>1, <4>1 DEF Passed
    <3>4. CASE m.uid > loop.high /\ \A i \in DOMAIN loop.fresh : loop.fresh[i] < m.uid
      <4>1. (\A i \in DOMAIN s : s[i] < m.uid) /\ h < m.uid
        BY <2>2, <3>4
      <4>2. m.uid > loop'.high
        BY <1>2, <1>3, <2>2, <2>3, <2>6, <4>1
      <4> QED
        BY <1>8, <2>1, <4>1, <4>2 DEF Passed
    <3> QED
      BY <3>1, <3>2, <3>3, <3>4 DEF Passed
  <2> QED
    BY <1>8, <2>1, <2>5, <2>6 DEF BatchCovers
<1>9. ASSUME Outside \/ Ended \/ \E ans \in Answer : Seeded(ans) PROVE ~InBatch'
  BY <1>9 DEF Outside, Ended, Seeded, InBatch
<1>10. CASE ~InBatch'
  BY <1>10 DEF BatchCovers
<1> QED
  BY <1>4, <1>5, <1>6, <1>7, <1>8, <1>9, <1>10, LoopSteps, LoopAlone

(* While the loop is in its own section nobody else touches the connection *)
(* or the messages.                                                        *)
LEMMA LoopUndisturbed ==
  ASSUME TypeOK, LockInv, [Next]_vars, ~cancelled, loop.pc \in {"search", "fetch"}
  PROVE  /\ ConnKept
         /\ \A t \in Task, ans \in Answer : ~Command(t, ans)
<1>1. LoopHolds /\ Alone
  BY DEF LoopHolds, LoopLocked, LockInv
<1>2. ASSUME NEW t \in Task, task[t].pc \in Locked PROVE FALSE
  BY <1>1, <1>2 DEF Alone, Holds
<1>3. ASSUME NEW t \in Task, NEW ans \in Answer, Command(t, ans) PROVE FALSE
  <2>1. task[t].pc \in Locked
    BY <1>3, CommandFacts DEF Moving, Locked
  <2> QED
    BY <1>2, <2>1
<1>4. ASSUME NEW t \in Task, NEW ans \in Answer, Ensure(t, ans) PROVE FALSE
  <2>1. task[t].pc \in Locked
    BY <1>4 DEF Ensure, Locked
  <2> QED
    BY <1>2, <2>1
<1>5. ASSUME NEW ans \in Answer, LoopEnsure(ans) \/ LoopSelect(ans) \/ SendIdle(ans) PROVE FALSE
  BY <1>5 DEF LoopEnsure, LoopSelect, SendIdle
<1> QED
  BY <1>3, <1>4, <1>5, ConnSteps

(* A SELECT answered OK shows the monitored folder. *)
LEMMA SelectShows ==
  ASSUME TypeOK, NEW ans, LoopSelect(ans), loop'.pc = "search"
  PROVE  /\ current' = current /\ current \in Conn
         /\ conn'[current].selected = Idle /\ ~conn'[current].idling
<1> USE DEF SetLoop
<1>1. loop \in LoopState /\ conn \in [Conn -> ConnState]
  BY DEF TypeOK, ActorTypes, ServerTypes
<1>2. ans = "ok"
  <2>1. CASE ans = "never"
    <3>1. loop' = GoTo("hung", loop.mode)
      BY <2>1 DEF LoopSelect
    <3> QED
      BY <1>1, <3>1 DEF GoTo, LoopState
  <2>2. CASE ans \notin {"never", "ok"}
    <3>1. LoopThrows(ans)
      BY <2>2 DEF LoopSelect
    <3>2. loop'.pc \in {"end", "backoff"}
      BY <3>1, LoopThrowsTypes
    <3> QED
      BY <3>2
  <2> QED
    BY <2>1, <2>2
<1>3. /\ Served("ok", "select", Idle, 0) /\ "ok" \in LoopAnswers(FALSE)
      /\ current' = current
  BY <1>2 DEF LoopSelect
<1>4. current # 0 /\ conn[current].open /\ ~conn[current].idling
  BY <1>3 DEF LoopAnswers, Answers
<1>5. current \in Conn
  BY <1>4 DEF TypeOK, ClientTypes, Conn
<1>6. Executed("ok", FALSE)
  BY <1>4 DEF Executed, Negative
<1>7. conn' = [conn EXCEPT ![current] =
               [conn[current] EXCEPT
                 !.idling = FALSE, !.news = @ /\ "ok" \in {"throw", "cancel"}, !.selected = Idle]]
  <2>1. ~(current = 0 \/ ~conn[current].open)
    BY <1>4
  <2>2. "select" \notin {"idle", "noop"} /\ ("select" \notin {"select", "idle", "noop"}) = FALSE
    OBVIOUS
  <2> QED
    BY <1>3, <1>6, <2>1, <2>2 DEF Served
<1>8. conn'[current] = [conn[current] EXCEPT
                 !.idling = FALSE, !.news = @ /\ "ok" \in {"throw", "cancel"}, !.selected = Idle]
  BY <1>1, <1>5, <1>7
<1> QED
  BY <1>1, <1>3, <1>5, <1>8 DEF ConnState

(* From its SELECT to its first event the loop is on its folder. *)
LEMMA LoopSelectedStep ==
  ASSUME TypeOK, LockInv, Seeding, OwnOver, LoopSelected, [Next]_vars
  PROVE  LoopSelected'
<1>1. cancelled => cancelled'
  BY Monotone
<1>2. loop \in LoopState
  BY DEF TypeOK, ActorTypes
<1>3. SUFFICES ASSUME ~cancelled', loop'.pc = "search" \/ (loop'.pc = "fetch" /\ loop'.own),
                      current' # 0, conn'[current'].open
               PROVE  conn'[current'].selected = Idle /\ ~conn'[current'].idling
  BY DEF LoopSelected
<1>4. ASSUME loop.pc = "search" \/ (loop.pc = "fetch" /\ loop.own)
      PROVE  conn'[current'].selected = Idle /\ ~conn'[current'].idling
  <2>1. ConnKept
    BY <1>1, <1>3, <1>4, LoopUndisturbed
  <2>2. /\ current' = current /\ conn[current].open
        /\ conn'[current].selected = conn[current].selected
        /\ conn'[current].idling => conn[current].idling
    BY <1>3, <2>1 DEF ConnKept
  <2>3. conn[current].selected = Idle /\ ~conn[current].idling
    BY <1>1, <1>3, <1>4, <2>2 DEF LoopSelected
  <2> QED
    BY <2>2, <2>3
<1>5. CASE Stays
  <2>1. loop'.pc = loop.pc /\ loop'.own = loop.own
    BY <1>5 DEF Stays
  <2> QED
    BY <1>3, <1>4, <2>1
<1>6. CASE Turned
  <2>1. loop.pc \in {"handler", "relock"} /\ loop'.own = loop.own /\ loop'.pc \in {"relock", "fetch"}
    BY <1>6 DEF Turned
  <2> QED
    BY <1>3, <2>1 DEF OwnOver
<1>7. CASE Outside
  <2>1. loop'.pc = "search"
    BY <1>3, <1>7 DEF Outside, InBatch
  <2>2. PICK ans \in Answer : LoopSelect(ans)
    BY <1>7, <2>1 DEF Outside
  <2> QED
    BY <2>1, <2>2, SelectShows
<1>8. CASE PassedOver
  <2>1. loop.pc = "fetch" /\ loop'.own = loop.own /\ loop'.pc = "fetch"
    BY <1>2, <1>8 DEF PassedOver, LoopState
  <2> QED
    BY <1>3, <1>4, <2>1
<1>9. CASE Ended \/ \E ans \in Answer : Seeded(ans) \/ Raised(ans)
  BY <1>3, <1>9 DEF Ended, Seeded, Raised
<1>10. CASE \E ans \in Answer : Begun(ans)
  BY <1>4, <1>10 DEF Begun
<1> QED
  BY <1>5, <1>6, <1>7, <1>8, <1>9, <1>10, LoopSteps

(* What the loop found stays there until its first event. *)
LEMMA FreshStep ==
  ASSUME TypeOK, LockInv, Seeding, OwnOver, UidsOfIdle, LoopSelected, FreshIsThere, [Next]_vars
  PROVE  FreshIsThere'
<1> USE ImapAssumption
<1>1. cancelled => cancelled'
  BY Monotone
<1>2. loop \in LoopState /\ mail \in [Folder -> SUBSET Message] /\ Idle \in Folder
  BY DEF TypeOK, ActorTypes, ServerTypes, MailTypes, Folder
<1>3. SUFFICES ASSUME ~cancelled', loop'.pc = "fetch", loop'.own,
                      NEW i \in DOMAIN loop'.fresh
               PROVE  \E m \in mail'[Idle] : m.uid = loop'.fresh[i]
  BY DEF FreshIsThere, WithUid
<1>4. ASSUME loop.pc \in {"search", "fetch"} PROVE mail[Idle] \subseteq mail'[Idle]
  <2>1. \A t \in Task, ans \in Answer : ~Command(t, ans)
    BY <1>1, <1>3, <1>4, LoopUndisturbed
  <2>2. Arrive => mail[Idle] \subseteq mail'[Idle]
    BY <1>2 DEF Arrive, Place
  <2> QED
    BY <2>1, <2>2, MailSteps
<1>5. ASSUME loop.pc = "fetch", loop.own
      PROVE  \A j \in DOMAIN loop.fresh : \E m \in mail'[Idle] : m.uid = loop.fresh[j]
  <2>1. \A j \in DOMAIN loop.fresh : \E m \in mail[Idle] : m.uid = loop.fresh[j]
    BY <1>1, <1>3, <1>5 DEF FreshIsThere, WithUid
  <2> QED
    BY <1>4, <1>5, <2>1
<1>6. CASE Stays
  <2>1. loop'.pc = loop.pc /\ loop'.own = loop.own /\ loop'.fresh = loop.fresh
    BY <1>6 DEF Stays
  <2> QED
    BY <1>3, <1>5, <2>1
<1>7. CASE Turned
  <2>1. loop.pc \in {"handler", "relock"} /\ loop'.own = loop.own
    BY <1>7 DEF Turned
  <2> QED
    BY <1>3, <2>1 DEF OwnOver
<1>8. CASE PassedOver
  <2>1. /\ loop.pc = "fetch" /\ loop'.own = loop.own /\ loop'.fresh = Tail(loop.fresh)
        /\ loop.fresh \in Seq(Nat) /\ loop.fresh # <<>>
    BY <1>2, <1>8 DEF PassedOver, LoopState
  <2>2. i + 1 \in DOMAIN loop.fresh /\ loop'.fresh[i] = loop.fresh[i + 1]
    BY <1>3, <2>1, TailOf
  <2> QED
    BY <1>3, <1>5, <2>1, <2>2
<1>9. CASE Outside \/ Ended \/ \E ans \in Answer : Seeded(ans) \/ Raised(ans)
  BY <1>3, <1>9 DEF Outside, InBatch, Ended, Seeded, Raised
<1>10. ASSUME NEW ans \in Answer, Begun(ans)
       PROVE  \E m \in mail'[Idle] : m.uid = loop'.fresh[i]
  <2> DEFINE S == {u \in Found(ans) : u > loop.last}
             a == Ascending(S)
  <2>1. \A j \in DOMAIN a : a[j] \in S
    BY <1>10, FreshFacts DEF Begun
  <2>2. /\ loop'.fresh = a /\ loop.pc = "search"
        /\ ans \in LoopAnswers(TRUE) /\ ans \in {"ok", "no", "refused"}
    BY <1>10 DEF Begun
  <2>3. \A u \in S : \E m \in mail[Idle] : m.uid = u
    <3>1. \A u \in Found(ans) : WithUid(Idle, u) # {}
      BY <2>2, FoundOnIdle
    <3>2. \A u \in S : u \in Found(ans)
      OBVIOUS
    <3> HIDE DEF S
    <3> QED
      BY <3>1, <3>2 DEF WithUid
  <2> HIDE DEF a, S
  <2> QED
    BY <1>3, <1>4, <2>1, <2>2, <2>3
<1> QED
  BY <1>6, <1>7, <1>8, <1>9, <1>10, LoopSteps

(* Two events are never for one message. *)
LEMMA OnceStep ==
  ASSUME TypeOK, Seeding, KnownUids, ReportedOnce, [Next]_vars
  PROVE  ReportedOnce'
<1>1. CASE reports' = reports
  BY <1>1 DEF ReportedOnce
<1>2. ASSUME NEW ans \in Answer, Raised(ans) PROVE ReportedOnce'
  <2> DEFINE h == Head(loop.fresh)
  <2>1. /\ h \in Nat /\ loop.high < h
        /\ \A i \in DOMAIN reports : reports[i].uid <= loop.high /\ reports[i].uid \in Nat
    BY <1>2, RaisedFacts
  <2>2. PICK n \in Nat, c \in Contents(ans, h) :
            /\ DOMAIN reports = 1..n /\ DOMAIN reports' = 1..n + 1
            /\ \A i \in 1..n : reports'[i] = reports[i]
            /\ reports'[n + 1] = [uid |-> h, msg |-> c, own |-> loop.own,
                                  refused |-> ans = "refused"]
    BY <1>2, RaisedFacts
  <2>3. reports'[n + 1].uid = h
    BY <2>2
  <2> HIDE DEF h
  <2>4. loop.high \in Nat
    BY DEF TypeOK, ActorTypes, LoopState
  <2>5. \A i \in 1..n : reports'[i].uid = reports[i].uid /\ reports'[i].uid # h
    BY <2>1, <2>2, <2>4
  <2>6. \A i, j \in 1..n : reports'[i].uid = reports'[j].uid => i = j
    BY <2>2, <2>5 DEF ReportedOnce
  <2>7. \A i \in 1..n + 1 : i \in 1..n \/ i = n + 1
    BY <2>2
  <2>8. \A i, j \in 1..n + 1 : reports'[i].uid = reports'[j].uid => i = j
    BY <2>3, <2>5, <2>6, <2>7
  <2> QED
    BY <2>2, <2>8 DEF ReportedOnce
<1> QED
  BY <1>1, <1>2, LoopSteps DEF Stays, Outside, Seeded, Begun, PassedOver, Turned, Ended, Told

(* The first event of a batch is not for a message of another folder. *)
LEMMA FirstStep ==
  ASSUME TypeOK, Seeding, KnownUids, UidsOfIdle, LoopSelected, FreshIsThere,
         FirstReportIsRight, [Next]_vars
  PROVE  FirstReportIsRight'
<1> USE ImapAssumption
<1>1. CASE reports' = reports
  BY <1>1 DEF FirstReportIsRight
<1>2. ASSUME NEW ans \in Answer, Raised(ans) PROVE FirstReportIsRight'
  <2> DEFINE h == Head(loop.fresh)
             Right(r) == r.own => r.msg = r.uid \/ (r.refused /\ r.msg = Empty)
  <2>1. PICK n \in Nat, c \in Contents(ans, h) :
            /\ DOMAIN reports = 1..n /\ DOMAIN reports' = 1..n + 1
            /\ \A i \in 1..n : reports'[i] = reports[i]
            /\ reports'[n + 1] = [uid |-> h, msg |-> c, own |-> loop.own,
                                  refused |-> ans = "refused"]
    BY <1>2, RaisedFacts
  <2>2. /\ loop.fresh \in Seq(Nat) /\ loop.fresh # <<>> /\ loop.pc = "fetch"
        /\ ans \in LoopAnswers(TRUE) /\ ans \in {"ok", "no", "refused"}
    BY <1>2, RaisedFacts DEF Raised
  <2>3. /\ ~cancelled /\ current # 0 /\ conn[current].open
        /\ ans = "no" => conn[current].idling \/ conn[current].selected = NoFolder
    BY <2>2, AnsweredLoop
  <2>4. h = loop.fresh[1] /\ 1 \in DOMAIN loop.fresh
    BY <2>2, TailOf
  <2> HIDE DEF h
  <2>5. ASSUME loop.own PROVE c = h \/ (ans = "refused" /\ c = Empty)
    <3>1. conn[current].selected = Idle /\ ~conn[current].idling
      BY <2>2, <2>3, <2>5 DEF LoopSelected
    <3>2. ans # "no"
      BY <2>3, <3>1 DEF Folder
    <3>3. WithUid(Idle, h) # {}
      BY <2>2, <2>3, <2>4, <2>5 DEF FreshIsThere
    <3> DEFINE m == CHOOSE m \in WithUid(Idle, h) : TRUE
    <3>4. m \in mail[Idle] /\ m.uid = h
      BY <3>3 DEF WithUid
    <3>5. m.msg = h
      BY <3>4 DEF UidsOfIdle
    <3>6. c \in {m.msg} \cup (IF ans = "refused" THEN {Empty} ELSE {})
      BY <2>1, <3>1, <3>2, <3>3 DEF Contents
    <3> QED
      BY <3>5, <3>6
  <2>6. Right(reports'[n + 1])
    <3> DEFINE r == [uid |-> h, msg |-> c, own |-> loop.own, refused |-> ans = "refused"]
    <3>1. /\ r.own = loop.own /\ r.msg = c /\ r.uid = h
          /\ r.refused = (ans = "refused")
      OBVIOUS
    <3>2. reports'[n + 1] = r
      BY <2>1
    <3> HIDE DEF r
    <3> QED
      BY <2>5, <3>1, <3>2
  <2>7. \A i \in 1..n : Right(reports'[i])
    BY <2>1 DEF FirstReportIsRight
  <2>8. \A i \in 1..n + 1 : i \in 1..n \/ i = n + 1
    BY <2>1
  <2> HIDE DEF Right
  <2>9. \A i \in DOMAIN reports' : Right(reports'[i])
    BY <2>1, <2>6, <2>7, <2>8
  <2> QED
    BY <2>9 DEF FirstReportIsRight, Right
<1> QED
  BY <1>1, <1>2, LoopSteps DEF Stays, Outside, Seeded, Begun, PassedOver, Turned, Ended, Told

(* The loop's part of the invariant is inductive. *)
LEMMA ReportStep == IInv /\ [Next]_vars => LoopInv' /\ ReportedOnce' /\ FirstReportIsRight'
  BY SeedingStep, OwnStep, KnownStep, BelowStep, CoversStep, LoopSelectedStep, FreshStep,
     OnceStep, FirstStep DEF IInv, LoopInv, MailInv

(* The loop has not started. *)
LEMMA InitReport == Init => LoopInv /\ ReportedOnce /\ FirstReportIsRight
<1> USE ImapAssumption DEF Folder
<1> SUFFICES ASSUME Init PROVE LoopInv /\ ReportedOnce /\ FirstReportIsRight
  OBVIOUS
<1>1. /\ loop.pc = "off" /\ loop.mode = "seed" /\ loop.last = 0 /\ reports = <<>>
      /\ nextUid[Idle] = 1
  BY DEF Init
<1>2. DOMAIN reports = {}
  BY <1>1
<1> QED
  BY <1>1, <1>2 DEF LoopInv, Seeding, KnownUids, BatchCovers, Below, LoopSelected, FreshIsThere,
     OwnOver, InBatch, Over, ReportedOnce, FirstReportIsRight

-----------------------------------------------------------------------------
(* The theorems.                                                           *)

(* The invariant holds in every state of every behaviour. *)
LEMMA Inductive == Spec => []IInv
<1>1. Init => IInv
  <2>1. Init => HandlerAway
    BY DEF Init, HandlerAway
  <2> QED
    BY <2>1, InitTypes, InitLock, InitMail, InitReport DEF IInv
<1>2. IInv /\ [Next]_vars => IInv'
  BY TypeStep, AwayStep, LockStep, MailStep, ReportStep DEF IInv
<1> QED
  BY <1>1, <1>2, PTL DEF Spec

(* The tasks in a locked section, counted. *)
LEMMA Counted ==
  ASSUME NEW S, S \subseteq Task
  PROVE  /\ Cardinality(S) \in Nat
         /\ S = {} => Cardinality(S) = 0
         /\ \A t \in S : S = {t} => Cardinality(S) = 1
         /\ S # {} => Cardinality(S) >= 1
<1>1. IsFiniteSet(Task)
  <2>1. IsFiniteSet(Caller)
    BY ImapAssumption
  <2> QED
    BY <2>1, FS_AddElement DEF Task
<1>2. IsFiniteSet(S)
  BY <1>1, FS_Subset
<1>3. Cardinality(S) \in Nat
  BY <1>2, FS_CardinalityType
<1>4. Cardinality(S) = 0 <=> S = {}
  BY <1>2, FS_EmptySet
<1>5. \A t \in S : S = {t} => Cardinality(S) = 1
  BY FS_Singleton
<1> QED
  BY <1>3, <1>4, <1>5

(* _lock: its permit is never lost, and until the loop is cancelled nobody *)
(* is in a locked section beside somebody else (WaitAsync and Release in   *)
(* the operations, the loop and LogoutAsync).                              *)
THEOREM LockIsConserved == Spec => []LockConserved
<1>1. IInv => LockConserved
  <2> SUFFICES ASSUME TypeOK, LockInv PROVE LockConserved
    BY DEF IInv
  <2> DEFINE S == {t \in Task : task[t].pc \in Locked}
             l == IF loop.pc \in LoopLocked THEN 1 ELSE 0
             o == IF logout.pc \in {"bye", "hung"} THEN 1 ELSE 0
  <2>1. /\ Cardinality(S) \in Nat
        /\ S = {} => Cardinality(S) = 0
        /\ \A t \in S : S = {t} => Cardinality(S) = 1
        /\ S # {} => Cardinality(S) >= 1
    <3>1. S \subseteq Task
      OBVIOUS
    <3> HIDE DEF S
    <3> QED
      BY <3>1, Counted
  <2>2. permits \in {0, 1} /\ (l = 1 <=> LoopHolds) /\ (o = 1 <=> LogoutHolds)
        /\ l \in {0, 1} /\ o \in {0, 1}
    BY DEF TypeOK, ClientTypes, LoopHolds, LogoutHolds
  <2>3. permits = 1 \/ LoopHolds \/ LogoutHolds \/ S # {}
    BY DEF LockInv, PermitKept, Holds
  <2>4. ASSUME Alone PROVE /\ \A t \in S : permits = 0 /\ ~LoopHolds /\ ~LogoutHolds /\ S = {t}
                           /\ LoopHolds => permits = 0 /\ ~LogoutHolds
                           /\ LogoutHolds => permits = 0
    <3>1. ASSUME NEW t \in S PROVE permits = 0 /\ ~LoopHolds /\ ~LogoutHolds /\ S = {t}
      BY <2>4, <3>1 DEF Alone, Holds
    <3> QED
      BY <2>4, <3>1 DEF Alone
  <2>5. Holding = Cardinality(S) + l + o
    BY DEF Holding
  <2> HIDE DEF S, l, o
  <2>6. permits + Holding >= 1
    BY <2>1, <2>2, <2>3, <2>5
  <2>7. ASSUME ~cancelled PROVE permits + Holding = 1
    <3>1. Alone
      BY <2>7 DEF LockInv
    <3>2. CASE S = {}
      BY <2>1, <2>2, <2>3, <2>4, <2>5, <3>1, <3>2
    <3>3. CASE S # {}
      <4>1. PICK t \in S : TRUE
        BY <3>3
      <4>2. permits = 0 /\ ~LoopHolds /\ ~LogoutHolds /\ Cardinality(S) = 1
        BY <2>1, <2>4, <3>1, <4>1
      <4> QED
        BY <2>2, <2>5, <4>2
    <3> QED
      BY <3>2, <3>3
  <2> QED
    BY <2>6, <2>7 DEF LockConserved
<1> QED
  BY <1>1, Inductive, PTL

(* OnNewMailAsync is raised at most once for a message, whatever fails and *)
(* however often the loop reconnects (FetchAndFireNewMessagesInternalAsync *)
(* and the last known UID).                                                *)
THEOREM MailReportedOnce == Spec => []ReportedOnce
<1>1. IInv => ReportedOnce
  BY DEF IInv
<1> QED
  BY <1>1, Inductive, PTL

(* The first event of a batch carries the monitored folder's message of    *)
(* that UID, or nothing because its FETCH was refused.                     *)
THEOREM FirstReportIsOfIdle == Spec => []FirstReportIsRight
<1>1. IInv => FirstReportIsRight
  BY DEF IInv
<1> QED
  BY <1>1, Inductive, PTL

(* As long as operations are serialized, a message MoveToFolderAsync works *)
(* on is in the source or in the destination after each of its commands,   *)
(* whichever fails, unless DeleteMessageAsync was called for it.           *)
THEOREM NoMessageLost == Spec => []MoveLosesNothing
<1>1. IInv => MoveLosesNothing
  <2>1. SUFFICES ASSUME IInv, ~cancelled, NEW msg \in 1..nextUid[Idle] - 1, msg \notin deleted
                 PROVE  \E f \in Folder : \E m \in mail[f] : m.msg = msg
    BY DEF MoveLosesNothing
  <2>2. Elsewhere(msg) \/ \E m \in mail[Idle] : m.msg = msg /\ ~m.marked
    BY <2>1 DEF IInv, MailInv, Survives
  <2> QED
    BY <2>2 DEF Elsewhere, Folder
<1> QED
  BY <1>1, Inductive, PTL

(* The last known UID moves past a message of the monitored folder only    *)
(* after its event was raised or its fetch threw, although mail arrives    *)
(* while the batch is read and while the handler runs.                     *)
THEOREM MailIsNotSkipped == Spec => NoNewMailSkipped
<1>1. IInv /\ [Next]_vars =>
        [loop.mode # "seed" =>
           \A m \in mail[Idle] : m.uid > loop.last /\ m.uid <= loop'.last =>
             m.uid \in skipped \cup {reports[i].uid : i \in DOMAIN reports}]_vars
  <2>1. SUFFICES ASSUME IInv, [Next]_vars, loop.mode # "seed", NEW m \in mail[Idle],
                        m.uid > loop.last, m.uid <= loop'.last
                 PROVE  m.uid \in skipped \cup {reports[i].uid : i \in DOMAIN reports}
    OBVIOUS
  <2>2. /\ loop.last \in Nat /\ loop.high \in Nat /\ m.uid \in Nat
        /\ TypeOK /\ Seeding /\ BatchCovers
    BY <2>1 DEF IInv, LoopInv, TypeOK, ActorTypes, LoopState, ServerTypes, MailTypes, Folder,
       Message
  <2>3. loop'.last # loop.last
    BY <2>1, <2>2
  <2>4. Ended
    <3>1. ASSUME Stays \/ Turned PROVE FALSE
      BY <2>3, <3>1 DEF Stays, Turned
    <3>2. ASSUME PassedOver PROVE FALSE
      BY <2>2, <2>3, <3>2 DEF PassedOver, TypeOK, ActorTypes, LoopState
    <3>3. ASSUME Outside \/ \E ans \in Answer : Seeded(ans) \/ Begun(ans) \/ Raised(ans) PROVE FALSE
      BY <2>1, <2>3, <3>3 DEF Outside, Seeded, Begun, Raised
    <3> QED
      BY <2>1, <2>2, <3>1, <3>2, <3>3, LoopSteps
  <2>5. loop.pc = "fetch" /\ loop.fresh = <<>> /\ loop'.last = loop.high
    BY <2>4 DEF Ended
  <2>6. Passed(m.uid)
    BY <2>1, <2>2, <2>5 DEF BatchCovers, InBatch
  <2>7. ~(m.uid > loop.high) /\ DOMAIN loop.fresh = {}
    BY <2>1, <2>2, <2>5
  <2> QED
    BY <2>6, <2>7 DEF Passed, Reported
<1> QED
  BY <1>1, Inductive, PTL DEF Spec, NoNewMailSkipped

-----------------------------------------------------------------------------
(* The mailer keeps the promise of MailWatch.                              *)

(* Before it is seeded the loop is in GetHighestUidAsync, or is given up.  *)
StartPc == {"off", "wait", "ensure", "select", "search", "hung", "end"}
Starting == loop.mode = "seed" => loop.pc \in StartPc

(* The highest UID of a batch is that of the last event, if it had one.    *)
HighIsReported ==
  InBatch =>
    /\ loop.last <= loop.high
    /\ \/ loop.high = loop.last
       \/ reports # <<>> /\ loop.high = reports[Len(reports)].uid

WatchInv == IInv /\ Starting /\ HighIsReported

(* The loop leaves its seeding with a search that was answered. *)
LEMMA SeedLeaves ==
  ASSUME TypeOK, Starting, [Next]_vars, loop.mode = "seed"
  PROVE  /\ Starting'
         /\ loop'.mode # "seed" => \E ans \in Answer : Seeded(ans)
<1> USE DEF SetLoop, clientVars, serverVars, historyVars
<1>1. loop \in LoopState /\ loop.pc \in StartPc
  BY DEF TypeOK, ActorTypes, Starting
<1>2. ASSUME NEW pc \in StartPc, loop' = GoTo(pc, "seed") \/ loop' = [loop EXCEPT !.pc = pc]
      PROVE  loop'.pc \in StartPc /\ loop'.mode = "seed"
  BY <1>1, <1>2 DEF GoTo, LoopState
<1>3. ASSUME NEW ans, LoopThrows(ans) PROVE loop'.pc \in StartPc /\ loop'.mode = "seed"
  <2>1. loop' = [loop EXCEPT !.pc = "end"]
    BY <1>3 DEF LoopThrows
  <2> QED
    BY <1>2, <2>1 DEF StartPc
<1>4. CASE Listen
  <2>1. loop' = GoTo("wait", "seed")
    BY <1>4 DEF Listen
  <2> QED
    BY <1>2, <2>1 DEF StartPc, Starting
<1>5. CASE LoopAcquire
  <2>1. loop' = [loop EXCEPT !.pc = "end"] \/ loop' = [loop EXCEPT !.pc = "ensure"]
    <3>1. loop.pc = "wait"
      BY <1>1, <1>5 DEF LoopAcquire, StartPc
    <3>2. CASE cancelled
      BY <1>5, <3>1, <3>2 DEF LoopAcquire
    <3>3. CASE ~cancelled
      <4> DEFINE to == CASE loop.pc = "relock" -> "fetch"
                         [] loop.pc = "wait" /\ loop.mode = "enter" -> "sendIdle"
                         [] loop.pc = "wait" /\ loop.mode = "redone" -> "done"
                         [] OTHER -> "ensure"
      <4>1. loop' = [loop EXCEPT !.pc = to]
        BY <1>5, <3>3 DEF LoopAcquire
      <4>2. to = "ensure"
        BY <3>1
      <4> HIDE DEF to
      <4> QED
        BY <4>1, <4>2
    <3> QED
      BY <3>2, <3>3
  <2>2. loop'.pc \in StartPc /\ loop'.mode = "seed"
    BY <1>2, <2>1 DEF StartPc
  <2> QED
    BY <2>2 DEF Starting
<1>6. ASSUME NEW ans \in Answer, LoopEnsure(ans) PROVE loop'.pc \in StartPc /\ loop'.mode = "seed"
  <2>1. loop' = GoTo("hung", "seed") \/ loop' = GoTo("select", "seed")
    BY <1>6 DEF LoopEnsure
  <2> QED
    BY <1>2, <2>1 DEF StartPc
<1>7. ASSUME NEW ans \in Answer, LoopSelect(ans) PROVE loop'.pc \in StartPc /\ loop'.mode = "seed"
  <2>1. \/ loop' = GoTo("hung", "seed") \/ LoopThrows(ans)
        \/ loop' = [loop EXCEPT !.pc = "search", !.own = TRUE]
    BY <1>7 DEF LoopSelect
  <2>2. CASE loop' = [loop EXCEPT !.pc = "search", !.own = TRUE]
    BY <1>1, <2>2 DEF LoopState, StartPc
  <2> QED
    BY <1>2, <1>3, <2>1, <2>2 DEF StartPc
<1>8. ASSUME NEW ans \in Answer, LoopSearch(ans)
      PROVE  Seeded(ans) \/ (loop'.pc \in StartPc /\ loop'.mode = "seed")
  <2>1. CASE ans \in {"ok", "no", "refused"}
    BY <1>8, <2>1, SeedSearch
  <2>2. CASE ans \notin {"ok", "no", "refused"}
    <3>1. loop' = GoTo("hung", "seed") \/ LoopThrows(ans)
      BY <1>8, <2>2 DEF LoopSearch
    <3> QED
      BY <1>2, <1>3, <3>1 DEF StartPc
  <2> QED
    BY <2>1, <2>2
<1>9. CASE LoopGivesUp
  <2>1. LoopThrows("cancel")
    BY <1>9 DEF LoopGivesUp
  <2> QED
    BY <1>3, <2>1 DEF Starting
<1>10. ASSUME \/ Backoff \/ HandlerReturns \/ BatchEnds \/ Poll
              \/ (\E exists \in BOOLEAN : LoopLine(exists))
              \/ (\E ans \in Answer : LoopFetch(ans) \/ SendIdle(ans) \/ SendDone(ans))
       PROVE  FALSE
  BY <1>1, <1>10 DEF StartPc, Backoff, HandlerReturns, BatchEnds, Poll, LoopLine, LoopFetch,
     SendIdle, SendDone
<1>11. CASE \/ \E t \in Task, op \in Operation, u \in 0..MaxMail : Call(t, op, u)
            \/ \E t \in Task : TaskStep(t)
            \/ (\E inHandler \in BOOLEAN : Logout(inHandler)) \/ LogoutStep
            \/ Arrive \/ (\E k \in Conn : Drop(k)) \/ UNCHANGED vars
  <2>1. UNCHANGED loop
    BY <1>11 DEF Call, TaskStep, Acquire, Ensure, Command, Logout, LogoutStep, IdleStopped,
       LogoutAcquire, Bye, Cleanup, Arrive, Drop, vars
  <2> QED
    BY <1>1, <2>1 DEF Starting
<1>12. ASSUME NEW ans \in Answer, Seeded(ans) PROVE Starting'
  BY <1>12 DEF Seeded, Starting
<1> QED
  BY <1>4, <1>5, <1>6, <1>7, <1>8, <1>9, <1>10, <1>11, <1>12 DEF Next, LoopStep, Starting

(* A loop that is seeded stays so. *)
LEMMA StartingStep ==
  ASSUME TypeOK, Seeding, Starting, [Next]_vars
  PROVE  Starting' /\ (loop.mode # "seed" => loop'.mode # "seed")
<1>1. CASE loop.mode = "seed"
  BY <1>1, SeedLeaves
<1>2. CASE loop.mode # "seed"
  <2>1. CASE Stays \/ Turned
    <3>1. loop'.mode = loop.mode
      BY <2>1 DEF Stays, Turned
    <3> QED
      BY <1>2, <3>1 DEF Starting
  <2>2. CASE PassedOver
    BY <1>2, <2>2 DEF PassedOver, Starting, TypeOK, ActorTypes, LoopState
  <2>3. CASE Outside \/ Ended \/ \E ans \in Answer : Seeded(ans) \/ Begun(ans) \/ Raised(ans)
    BY <1>2, <2>3 DEF Outside, Ended, Seeded, Begun, Raised, Starting
  <2> QED
    BY <2>1, <2>2, <2>3, LoopSteps
<1> QED
  BY <1>1, <1>2

(* Only an event raises the highest UID of a batch. *)
LEMMA HighStep ==
  ASSUME TypeOK, TypeOK', Seeding, KnownUids, HighIsReported, [Next]_vars
  PROVE  HighIsReported'
<1>1. loop.last \in Nat /\ loop.high \in Nat /\ reports' \in Seq(Report)
  BY DEF TypeOK, ActorTypes, LoopState, HistoryTypes
<1>2. CASE Stays
  <2>1. /\ loop'.pc = loop.pc /\ loop'.last = loop.last /\ loop'.high = loop.high
        /\ reports' = reports
    BY <1>2 DEF Stays, Told
  <2> QED
    BY <2>1 DEF HighIsReported, InBatch
<1>3. CASE Turned
  <2>1. /\ loop.pc \in {"handler", "relock"} /\ loop'.pc \in {"relock", "fetch"}
        /\ loop'.last = loop.last /\ loop'.high = loop.high /\ reports' = reports
    BY <1>3 DEF Turned, Told
  <2> QED
    BY <2>1 DEF HighIsReported, InBatch
<1>4. CASE PassedOver
  <2>1. /\ loop.pc = "fetch" /\ loop'.pc = "fetch"
        /\ loop'.last = loop.last /\ loop'.high = loop.high /\ reports' = reports
    BY <1>4 DEF PassedOver, TypeOK, ActorTypes, LoopState
  <2> QED
    BY <2>1 DEF HighIsReported, InBatch
<1>5. CASE Outside \/ Ended \/ \E ans \in Answer : Seeded(ans)
  BY <1>5 DEF Outside, Ended, Seeded, InBatch, HighIsReported
<1>6. ASSUME NEW ans \in Answer, Begun(ans) PROVE HighIsReported'
  BY <1>1, <1>6 DEF Begun, HighIsReported
<1>7. ASSUME NEW ans \in Answer, Raised(ans) PROVE HighIsReported'
  <2> DEFINE h == Head(loop.fresh)
  <2>1. loop.pc = "fetch" /\ loop'.last = loop.last /\ loop.last <= loop.high
    BY <1>7 DEF Raised, HighIsReported, InBatch
  <2>2. h \in Nat /\ loop.high < h /\ loop'.high = h
    BY <1>7, RaisedFacts
  <2>3. PICK n \in Nat, c \in Contents(ans, h) :
            /\ DOMAIN reports' = 1..n + 1
            /\ reports'[n + 1] = [uid |-> h, msg |-> c, own |-> loop.own,
                                  refused |-> ans = "refused"]
    BY <1>7, RaisedFacts
  <2>4. reports'[n + 1].uid = h
    BY <2>3
  <2> HIDE DEF h
  <2>5. Len(reports') = n + 1 /\ reports' # <<>>
    <3>1. Len(reports') \in Nat /\ DOMAIN reports' = 1..Len(reports')
      BY <1>1
    <3>2. n + 1 \in 1..Len(reports')
      BY <2>3, <3>1
    <3>3. Len(reports') \in 1..n + 1
      BY <2>3, <3>1, <3>2
    <3>4. Len(reports') = n + 1 /\ Len(reports') > 0
      BY <2>3, <3>1, <3>2, <3>3
    <3> QED
      BY <1>1, <3>4
  <2> QED
    BY <1>1, <2>1, <2>2, <2>4, <2>5 DEF HighIsReported
<1> QED
  BY <1>2, <1>3, <1>4, <1>5, <1>6, <1>7, LoopSteps

(* The invariant the refinement rests on is inductive. *)
LEMMA Watched == Spec => []WatchInv
<1>1. Init => WatchInv
  <2>1. Init => Starting /\ HighIsReported
    BY DEF Init, Starting, StartPc, HighIsReported, InBatch
  <2>2. Init => IInv
    <3>1. Init => HandlerAway
      BY DEF Init, HandlerAway
    <3> QED
      BY <3>1, InitTypes, InitLock, InitMail, InitReport DEF IInv
  <2> QED
    BY <2>1, <2>2 DEF WatchInv
<1>2. WatchInv /\ [Next]_vars => WatchInv'
  <2>1. SUFFICES ASSUME WatchInv, [Next]_vars PROVE WatchInv'
    OBVIOUS
  <2>2. IInv'
    BY <2>1, TypeStep, AwayStep, LockStep, MailStep, ReportStep DEF IInv, WatchInv
  <2>3. /\ TypeOK /\ TypeOK' /\ Seeding /\ KnownUids /\ Starting /\ HighIsReported
    BY <2>1, <2>2 DEF WatchInv, IInv, LoopInv
  <2> QED
    BY <2>1, <2>2, <2>3, StartingStep, HighStep DEF WatchInv
<1> QED
  BY <1>1, <1>2, PTL DEF Spec

(* The UIDs of the events, and those events are raised for. *)
LEMMA ReportedUids ==
  ASSUME TypeOK
  PROVE  /\ reportedUids \in Seq(Nat) /\ Len(reportedUids) = Len(reports)
         /\ DOMAIN reportedUids = DOMAIN reports
         /\ \A i \in DOMAIN reports : reportedUids[i] = reports[i].uid
         /\ Watch!Announced = Reported
<1>1. Len(reports) \in Nat /\ DOMAIN reports = 1..Len(reports)
      /\ \A i \in DOMAIN reports : reports[i] \in Report
  BY DEF TypeOK, HistoryTypes
<1>2. \A i \in DOMAIN reports : reports[i].uid \in Nat
  BY <1>1 DEF Report
<1>3. reportedUids \in [1..Len(reports) -> Nat]
  BY <1>1, <1>2 DEF reportedUids
<1>4. reportedUids \in Seq(Nat) /\ Len(reportedUids) = Len(reports)
  BY <1>1, <1>3
<1>5. DOMAIN reportedUids = DOMAIN reports
      /\ \A i \in DOMAIN reports : reportedUids[i] = reports[i].uid
  BY DEF reportedUids
<1>6. Watch!Announced = Reported
  BY <1>5 DEF Watch!Announced, Reported
<1> QED
  BY <1>4, <1>5, <1>6

(* The events, and what is known, as long as the loop does not move. *)
LEMMA WatchUntold ==
  ASSUME Told, loop'.last = loop.last, (loop'.mode # "seed") = (loop.mode # "seed")
  PROVE  UNCHANGED <<hasSeeded, loop.last, reportedUids, skipped>>
BY DEF Told, hasSeeded, reportedUids

(* Messages that come and go. *)
LEMMA WatchFolder ==
  ASSUME TypeOK, TypeOK', Stays, IdleKept \/ Arrive
  PROVE  Watch!Next
<1>1. UNCHANGED <<hasSeeded, loop.last, reportedUids, skipped>>
  <2>1. Told /\ loop'.last = loop.last /\ loop'.mode = loop.mode
    BY DEF Stays
  <2> QED
    BY <2>1, WatchUntold
<1>2. CASE IdleKept
  <2> DEFINE S == presentMail \ presentMail'
  <2>1. presentMail' \subseteq presentMail
    BY <1>2 DEF IdleKept, presentMail
  <2>2. presentMail' = presentMail \ S /\ S \in SUBSET presentMail
    BY <2>1
  <2>3. arrivedMail' = arrivedMail
    BY <1>2 DEF IdleKept, arrivedMail
  <2> HIDE DEF S
  <2>4. Watch!Remove(S)
    BY <1>1, <2>2, <2>3 DEF Watch!Remove
  <2> QED
    BY <2>2, <2>4 DEF Watch!Next
<1>3. CASE Arrive
  <2> DEFINE new == [uid |-> nextUid[Idle], msg |-> nextUid[Idle], marked |-> FALSE]
  <2>1. /\ nextUid'[Idle] = nextUid[Idle] + 1 /\ nextUid[Idle] \in Nat
        /\ mail'[Idle] = mail[Idle] \cup {new}
    BY <1>3 DEF Arrive, Place, TypeOK, ServerTypes, MailTypes, Folder
  <2>2. new.uid = nextUid[Idle]
    OBVIOUS
  <2> HIDE DEF new
  <2>3. arrivedMail' = arrivedMail + 1 /\ arrivedMail + 1 = nextUid[Idle]
    BY <2>1 DEF arrivedMail
  <2>4. presentMail' = presentMail \cup {nextUid[Idle]}
    BY <2>1, <2>2 DEF presentMail
  <2>5. presentMail' = presentMail \cup {arrivedMail + 1}
    BY <2>3, <2>4
  <2>6. Watch!Arrive
    BY <1>1, <2>3, <2>5 DEF Watch!Arrive
  <2> QED
    BY <2>6 DEF Watch!Next
<1> QED
  BY <1>2, <1>3

(* The seeding. *)
LEMMA WatchBegins ==
  ASSUME IInv, UNCHANGED <<mail, nextUid>>, NEW ans \in Answer, Seeded(ans)
  PROVE  Watch!Next
<1> DEFINE k == loop'.last
<1>1. /\ TypeOK /\ UidsOfIdle /\ LoopSelected
  BY DEF IInv, MailInv, LoopInv
<1>2. /\ Told /\ loop.pc = "search" /\ loop.mode = "seed" /\ loop'.mode # "seed"
      /\ ans \in LoopAnswers(TRUE) /\ ans \in {"ok", "no", "refused"}
      /\ k \in Found(ans) \cup {0} /\ \A u \in Found(ans) : u <= k
  BY DEF Seeded
<1>3. /\ \A u \in Found(ans) : u < nextUid[Idle] /\ WithUid(Idle, u) # {}
      /\ ans # "ok" => Found(ans) = {}
      /\ ans = "ok" => \A m \in mail[Idle] : m.uid \in Found(ans)
  BY <1>1, <1>2, FoundOnIdle
<1>4. Found(ans) \subseteq Nat /\ nextUid[Idle] \in Nat /\ nextUid[Idle] > 0
  BY <1>1, <1>2, FoundFacts DEF TypeOK, ServerTypes, MailTypes, Folder, UidsOfIdle
<1>5. k = loop'.last
  OBVIOUS
<1> HIDE DEF k
<1>6. k \in 0..arrivedMail
  BY <1>2, <1>3, <1>4 DEF arrivedMail
<1>7. ASSUME k # 0 PROVE k \in presentMail /\ \A m \in presentMail : m <= k
  <2>1. k \in Found(ans)
    BY <1>2, <1>7
  <2>2. ans = "ok"
    BY <1>3, <2>1
  <2>3. k \in presentMail
    BY <1>3, <2>1 DEF WithUid, presentMail
  <2>4. \A m \in presentMail : m \in Found(ans)
    BY <1>3, <2>2 DEF presentMail
  <2> QED
    BY <1>2, <2>3, <2>4
<1>8. /\ ~hasSeeded /\ hasSeeded' = TRUE
      /\ UNCHANGED <<arrivedMail, presentMail, reportedUids, skipped>>
  BY <1>2 DEF hasSeeded, Told, arrivedMail, presentMail, reportedUids
<1>9. Watch!Begin(k)
  BY <1>5, <1>7, <1>8 DEF Watch!Begin
<1> QED
  BY <1>6, <1>9 DEF Watch!Next

(* The next message of a batch may be taken up: what has arrived before it *)
(* has had its turn.                                                       *)
LEMMA WatchTakes ==
  ASSUME WatchInv, loop.pc = "fetch", loop.fresh # <<>>
  PROVE  /\ Head(loop.fresh) \in 1..arrivedMail
         /\ Watch!MayTake(Head(loop.fresh))
         /\ \A w \in presentMail : loop.last < w /\ w < Head(loop.fresh) =>
              w \in Reported \cup skipped
<1> DEFINE h == Head(loop.fresh)
<1>1. /\ TypeOK /\ UidsOfIdle /\ InBatch /\ Seeding /\ KnownUids /\ BatchCovers /\ HighIsReported
  BY DEF WatchInv, IInv, MailInv, LoopInv, InBatch
<1>2. /\ loop.last \in Nat /\ loop.high \in Nat /\ nextUid[Idle] \in Nat
      /\ loop.fresh \in Seq(Nat) /\ loop.last <= loop.high
  BY <1>1 DEF TypeOK, ActorTypes, LoopState, ServerTypes, MailTypes, Folder, HighIsReported
<1>3. h = loop.fresh[1] /\ 1 \in DOMAIN loop.fresh /\ DOMAIN loop.fresh = 1..Len(loop.fresh)
      /\ Len(loop.fresh) \in Nat /\ \A i \in DOMAIN loop.fresh : loop.fresh[i] \in Nat
  BY <1>2, TailOf
<1> HIDE DEF h
<1>4. h \in Nat /\ loop.high < h /\ h < nextUid[Idle]
  BY <1>1, <1>3 DEF KnownUids, BatchCovers
<1>5. h \in 1..arrivedMail /\ loop.last < h
  BY <1>2, <1>4 DEF arrivedMail
<1>6. \A a \in Reported : a < h
  <2>1. \A i \in DOMAIN reports : reports[i] \in Report
    BY <1>1 DEF TypeOK, HistoryTypes
  <2>2. \A i \in DOMAIN reports : reports[i].uid \in Nat /\ reports[i].uid <= loop.high
    BY <1>1, <2>1 DEF KnownUids, Report
  <2> QED
    BY <1>2, <1>4, <2>2 DEF Reported
<1>7. hasSeeded
  BY <1>1 DEF Seeding, hasSeeded
<1>8. ASSUME NEW w \in presentMail, loop.last < w, w < h PROVE w \in Reported \cup skipped
  <2>1. PICK m \in mail[Idle] : m.uid = w
    BY <1>8 DEF presentMail
  <2>2. w \in Nat /\ Passed(w)
    BY <1>1, <1>2, <1>8, <2>1 DEF BatchCovers, TypeOK, ServerTypes, MailTypes, Folder, Message
  <2>3. \A i \in DOMAIN loop.fresh : w < loop.fresh[i]
    <3>1. SUFFICES ASSUME NEW i \in DOMAIN loop.fresh PROVE w < loop.fresh[i]
      OBVIOUS
    <3>2. CASE i = 1
      BY <1>3, <1>8, <3>2
    <3>3. CASE i # 1
      <4>1. 1 < i
        BY <1>3, <3>1, <3>3
      <4>2. h < loop.fresh[i]
        BY <1>1, <1>3, <3>1, <4>1 DEF KnownUids
      <4> QED
        BY <1>3, <1>4, <1>8, <2>2, <3>1, <4>2
    <3> QED
      BY <3>2, <3>3
  <2>4. \A i \in DOMAIN loop.fresh : ~(loop.fresh[i] = w) /\ ~(loop.fresh[i] < w)
    BY <1>3, <2>2, <2>3
  <2> QED
    BY <1>3, <2>2, <2>4 DEF Passed
<1>9. Watch!MayTake(h)
  <2>1. Watch!Announced = Reported
    BY <1>1, ReportedUids
  <2> QED
    BY <1>5, <1>6, <1>7, <2>1 DEF Watch!MayTake
<1> QED
  BY <1>5, <1>8, <1>9 DEF h

(* An event is an announcement. *)
LEMMA WatchAnnounces ==
  ASSUME WatchInv, TypeOK', UNCHANGED <<mail, nextUid>>, NEW ans \in Answer, Raised(ans)
  PROVE  Watch!Next
<1> DEFINE h == Head(loop.fresh)
<1>1. TypeOK /\ KnownUids /\ Seeding /\ InBatch
  BY DEF WatchInv, IInv, LoopInv, Raised, InBatch
<1>2. /\ h \in 1..arrivedMail /\ Watch!MayTake(h)
      /\ \A w \in presentMail : loop.last < w /\ w < h => w \in Watch!Announced \cup skipped
  BY <1>1, WatchTakes, ReportedUids DEF Raised
<1>3. /\ UNCHANGED <<arrivedMail, presentMail, skipped>> /\ loop'.last = loop.last
      /\ loop'.mode = loop.mode
  BY DEF Raised, arrivedMail, presentMail
<1>4. UNCHANGED hasSeeded
  BY <1>3 DEF hasSeeded
<1>5. reportedUids' = Append(reportedUids, h)
  <2>1. PICK n \in Nat, c \in Contents(ans, h) :
          /\ DOMAIN reports = 1..n /\ DOMAIN reports' = 1..n + 1
          /\ \A i \in 1..n : reports'[i] = reports[i]
          /\ reports'[n + 1] = [uid |-> h, msg |-> c, own |-> loop.own,
                                refused |-> ans = "refused"]
    BY <1>1, RaisedFacts
  <2>2. reports'[n + 1].uid = h /\ h \in Nat
    BY <1>1, <2>1, RaisedFacts
  <2> HIDE DEF h
  <2>3. /\ reportedUids \in Seq(Nat) /\ DOMAIN reportedUids = 1..n
        /\ \A i \in 1..n : reportedUids[i] = reports[i].uid
    BY <1>1, <2>1, ReportedUids
  <2>4. reportedUids' = [i \in 1..n + 1 |-> reports'[i].uid]
    BY <2>1 DEF reportedUids
  <2>5. Len(reportedUids) = n
    BY <2>3
  <2> DEFINE old == reportedUids
             new == Append(old, h)
  <2>6. new \in [1..n + 1 -> Nat] /\ new[n + 1] = h /\ \A i \in 1..n : new[i] = old[i]
    <3>1. old \in Seq(Nat) /\ Len(old) = n
      BY <2>3, <2>5
    <3> HIDE DEF old
    <3>2. new \in Seq(Nat) /\ Len(new) = n + 1
      BY <2>2, <3>1
    <3>3. new[n + 1] = h /\ \A i \in 1..n : new[i] = old[i]
      BY <2>2, <3>1
    <3> HIDE DEF new
    <3> QED
      BY <3>2, <3>3
  <2> HIDE DEF new, old
  <2>7. \A i \in 1..n + 1 : reports'[i].uid = new[i]
    <3>1. \A i \in 1..n + 1 : i # n + 1 => i \in 1..n
      BY <2>1
    <3> QED
      BY <2>1, <2>2, <2>3, <2>6, <3>1 DEF old
  <2> QED
    BY <2>4, <2>6, <2>7 DEF new, old
<1> HIDE DEF h
<1>6. Watch!Announce(h)
  BY <1>2, <1>3, <1>4, <1>5 DEF Watch!Announce
<1> QED
  BY <1>2, <1>6 DEF Watch!Next

(* A fetch that threw is a loss. *)
LEMMA WatchLoses ==
  ASSUME WatchInv, UNCHANGED <<mail, nextUid>>, PassedOver
  PROVE  Watch!Next
<1> DEFINE h == Head(loop.fresh)
<1>1. h \in 1..arrivedMail /\ Watch!MayTake(h)
  BY WatchTakes DEF PassedOver
<1>2. /\ UNCHANGED <<arrivedMail, presentMail, reportedUids>> /\ skipped' = skipped \cup {h}
      /\ loop'.last = loop.last /\ loop'.mode = loop.mode
  BY DEF PassedOver, arrivedMail, presentMail, reportedUids, WatchInv, IInv, TypeOK, ActorTypes,
     LoopState
<1>3. UNCHANGED hasSeeded
  BY <1>2 DEF hasSeeded
<1> HIDE DEF h
<1>4. Watch!Lose(h)
  BY <1>1, <1>2, <1>3 DEF Watch!Lose
<1> QED
  BY <1>1, <1>4 DEF Watch!Next

(* The end of a batch settles what was announced. *)
LEMMA WatchSettles ==
  ASSUME WatchInv, UNCHANGED <<mail, nextUid>>, Ended
  PROVE  Watch!Next \/ UNCHANGED Watch!vars
<1>1. TypeOK /\ Seeding /\ HighIsReported /\ InBatch /\ loop'.last = loop.high
  BY DEF WatchInv, IInv, LoopInv, Ended, InBatch
<1>2. UNCHANGED <<arrivedMail, presentMail, reportedUids, skipped, hasSeeded>>
  BY <1>1 DEF Ended, Told, arrivedMail, presentMail, reportedUids, Seeding, hasSeeded
<1>3. loop.last \in Nat /\ loop.high \in Nat /\ loop.last <= loop.high
  BY <1>1 DEF TypeOK, ActorTypes, LoopState, HighIsReported
<1>4. CASE loop.high = loop.last
  BY <1>1, <1>2, <1>4 DEF Watch!vars
<1>5. CASE loop.high # loop.last
  <2>1. reports # <<>> /\ loop.high = reports[Len(reports)].uid
    BY <1>1, <1>5 DEF HighIsReported
  <2>2. Len(reports) \in DOMAIN reports /\ reports \in Seq(Report)
    BY <1>1, <2>1 DEF TypeOK, HistoryTypes
  <2>3. /\ Len(reportedUids) = Len(reports) /\ reportedUids \in Seq(Nat)
        /\ reportedUids[Len(reports)] = loop.high
    BY <1>1, <2>1, <2>2, ReportedUids
  <2>4. reportedUids # <<>>
    BY <2>2, <2>3
  <2>5. loop.last < reportedUids[Len(reportedUids)]
    BY <1>3, <1>5, <2>3
  <2>6. Watch!Settle
    BY <1>1, <1>2, <2>3, <2>4, <2>5 DEF Watch!Settle
  <2> QED
    BY <2>6 DEF Watch!Next
<1> QED
  BY <1>4, <1>5

(* The mailer implements MailWatch: mail that comes and goes, the seeding, *)
(* an event, a fetch that threw and the end of a batch are its actions,    *)
(* and no other step shows (ListenAsync, StartIdleAsync and the loops).    *)
THEOREM MailIsWatched == Spec => ImplementsMailWatch
<1>1. Init => Watch!Init
  <2>1. SUFFICES ASSUME Init PROVE Watch!Init
    OBVIOUS
  <2>2. /\ nextUid[Idle] = 1 /\ mail[Idle] = {} /\ loop.mode = "seed" /\ loop.last = 0
        /\ reports = <<>> /\ skipped = {}
    BY <2>1, ImapAssumption DEF Init, Folder
  <2>3. reportedUids = <<>>
    BY <2>2 DEF reportedUids
  <2>4. arrivedMail = 0 /\ presentMail = {} /\ hasSeeded = FALSE
    BY <2>2 DEF arrivedMail, presentMail, hasSeeded
  <2> QED
    BY <2>2, <2>3, <2>4 DEF Watch!Init
<1>2. WatchInv /\ WatchInv' /\ [Next]_vars => [Watch!Next]_Watch!vars
  <2>1. SUFFICES ASSUME WatchInv, WatchInv', [Next]_vars
                 PROVE  Watch!Next \/ UNCHANGED Watch!vars
    OBVIOUS
  <2>2. IInv /\ TypeOK /\ TypeOK' /\ Seeding /\ Starting
    BY <2>1 DEF WatchInv, IInv, LoopInv
  <2>3. ASSUME UNCHANGED <<mail, nextUid>>, Told, loop'.last = loop.last,
               (loop'.mode # "seed") = (loop.mode # "seed")
        PROVE  UNCHANGED Watch!vars
    BY <2>3, WatchUntold DEF arrivedMail, presentMail, Watch!vars
  <2>4. CASE ~UNCHANGED <<mail, nextUid>>
    BY <2>1, <2>2, <2>4, LoopAlone, WatchFolder
  <2>5. CASE UNCHANGED <<mail, nextUid>>
    <3>1. CASE loop.mode = "seed" /\ loop'.mode # "seed"
      BY <2>1, <2>2, <2>5, <3>1, SeedLeaves, WatchBegins
    <3>2. CASE ~(loop.mode = "seed" /\ loop'.mode # "seed")
      <4>1. (loop'.mode # "seed") = (loop.mode # "seed")
        BY <2>1, <2>2, <3>2, StartingStep
      <4>2. CASE Stays \/ Turned
        <5>1. Told /\ loop'.last = loop.last
          BY <4>2 DEF Stays, Turned
        <5> QED
          BY <2>3, <2>5, <4>1, <5>1
      <4>3. CASE Outside \/ \E ans \in Answer : Begun(ans)
        <5>1. Told /\ loop'.last = loop.last
          BY <4>3 DEF Outside, Begun
        <5> QED
          BY <2>3, <2>5, <4>1, <5>1
      <4>4. CASE \E ans \in Answer : Seeded(ans)
        BY <2>2, <2>5, <4>4, WatchBegins
      <4>5. CASE \E ans \in Answer : Raised(ans)
        BY <2>1, <2>2, <2>5, <4>5, WatchAnnounces
      <4>6. CASE PassedOver
        BY <2>1, <2>5, <4>6, WatchLoses
      <4>7. CASE Ended
        BY <2>1, <2>5, <4>7, WatchSettles
      <4> QED
        BY <2>1, <2>2, <4>2, <4>3, <4>4, <4>5, <4>6, <4>7, LoopSteps
    <3> QED
      BY <3>1, <3>2
  <2> QED
    BY <2>4, <2>5
<1> QED
  BY <1>1, <1>2, Watched, PTL DEF Spec, ImplementsMailWatch, Watch!Spec

(* What MailWatchProofs proves of every such listener. *)
WatchFacts == INSTANCE MailWatchProofs WITH
  arrived <- arrivedMail, present <- presentMail, watching <- hasSeeded,
  known <- loop.last, announced <- reportedUids, lost <- skipped

(* So OnNewMailAsync is raised in the order in which messages arrived,     *)
(* over all batches, reconnections and failures.                           *)
THEOREM MailInOrder == Spec => []Watch!InOrder
<1> USE DEF Watch!Announced, Watch!vars, WatchFacts!Announced, WatchFacts!vars
<1>1. Watch!Init => WatchFacts!Init
  BY DEF Watch!Init, WatchFacts!Init
<1>2. [Watch!Next]_Watch!vars => [WatchFacts!Next]_WatchFacts!vars
  <2>1. ASSUME Watch!Arrive PROVE WatchFacts!Arrive
    BY <2>1 DEF Watch!Arrive, WatchFacts!Arrive
  <2>2. ASSUME NEW S, Watch!Remove(S) PROVE WatchFacts!Remove(S)
    BY <2>2 DEF Watch!Remove, WatchFacts!Remove
  <2>3. ASSUME NEW k, Watch!Begin(k) PROVE WatchFacts!Begin(k)
    BY <2>3 DEF Watch!Begin, WatchFacts!Begin
  <2>4. ASSUME NEW m, Watch!Announce(m) PROVE WatchFacts!Announce(m)
    BY <2>4 DEF Watch!Announce, Watch!MayTake, WatchFacts!Announce, WatchFacts!MayTake
  <2>5. ASSUME NEW m, Watch!Lose(m) PROVE WatchFacts!Lose(m)
    BY <2>5 DEF Watch!Lose, Watch!MayTake, WatchFacts!Lose, WatchFacts!MayTake
  <2>6. ASSUME Watch!Settle PROVE WatchFacts!Settle
    BY <2>6 DEF Watch!Settle, WatchFacts!Settle
  <2> QED
    BY <2>1, <2>2, <2>3, <2>4, <2>5, <2>6 DEF Watch!Next, WatchFacts!Next
<1>3. WatchFacts!InOrder => Watch!InOrder
  BY DEF WatchFacts!InOrder, Watch!InOrder
<1> QED
  BY <1>1, <1>2, <1>3, MailIsWatched, WatchFacts!AnnouncedInOrder, PTL
     DEF ImplementsMailWatch, Watch!Spec, WatchFacts!Spec
=============================================================================
