------------------------------- MODULE MailWatch -------------------------------
(***************************************************************************)
(* What an application may rely on when it listens to a folder: messages   *)
(* that were there before are not announced, or all of them are; the rest  *)
(* is announced in the order of arrival, each message once, and none is    *)
(* left out unless its fetch failed.  A message may be removed before it   *)
(* is announced, and what was announced last is all that is remembered:    *)
(* a failed fetch is tried again until a later message is announced.       *)
(***************************************************************************)
EXTENDS Naturals, Sequences

VARIABLES
  arrived,    \* messages that ever reached the folder: 1..arrived
  present,    \* those that are still there
  watching,   \* the listener has looked which messages are there already
  known,      \* it takes up what has arrived after this message
  announced,  \* the messages announced, in order
  lost        \* messages a fetch has failed for

vars == <<arrived, present, watching, known, announced, lost>>

Announced == {announced[i] : i \in DOMAIN announced}

Init ==
  /\ arrived = 0 /\ present = {} /\ watching = FALSE
  /\ known = 0 /\ announced = <<>> /\ lost = {}

Arrive ==
  /\ arrived' = arrived + 1
  /\ present' = present \cup {arrived + 1}
  /\ UNCHANGED <<watching, known, announced, lost>>

Remove(S) ==
  /\ present' = present \ S
  /\ UNCHANGED <<arrived, watching, known, announced, lost>>

\* The listener has not been told what is there: it will announce all of it.
\* Otherwise it takes the last message for known.
Begin(k) ==
  /\ ~watching
  /\ k = 0 \/ (k \in present /\ \A m \in present : m <= k)
  /\ watching' = TRUE /\ known' = k
  /\ UNCHANGED <<arrived, present, announced, lost>>

\* m is next: it is later than all that was announced, and what has arrived
\* before it has had its turn or is gone.
MayTake(m) ==
  /\ watching /\ known < m
  /\ \A a \in Announced : a < m

Announce(m) ==
  /\ MayTake(m)
  /\ \A w \in present : known < w /\ w < m => w \in Announced \cup lost
  /\ announced' = Append(announced, m)
  /\ UNCHANGED <<arrived, present, watching, known, lost>>

Lose(m) ==
  /\ MayTake(m) /\ lost' = lost \cup {m}
  /\ UNCHANGED <<arrived, present, watching, known, announced>>

\* The listener takes what it announced last for known.
Settle ==
  /\ announced # <<>> /\ known < announced[Len(announced)]
  /\ known' = announced[Len(announced)]
  /\ UNCHANGED <<arrived, present, watching, announced, lost>>

Next ==
  \/ Arrive
  \/ \E S \in SUBSET present : Remove(S)
  \/ \E k \in 0..arrived : Begin(k)
  \/ \E m \in 1..arrived : Announce(m) \/ Lose(m)
  \/ Settle

Spec == Init /\ [][Next]_vars

-----------------------------------------------------------------------------
\* Messages are announced in the order of their arrival, hence once.
InOrder == \A i, j \in DOMAIN announced : i < j => announced[i] < announced[j]

\* A message that is there and is not later than the last known one was known
\* from the beginning, or was announced, or its fetch failed: the listener's
\* memory does not pass over a message.
NonePassedOver ==
  [][watching => \A m \in present : known < m /\ m <= known' =>
                    m \in Announced \cup lost]_vars
=============================================================================
