------------------------------- MODULE Broadcast -------------------------------
(***************************************************************************)
(* What clients of a server that passes messages on may rely on.  A        *)
(* message is brought to every client that was online when it was sent,    *)
(* one client at a time and in any order: the client gets it, is dead, or  *)
(* is not in the room the message is for when its turn comes.  A sender    *)
(* has one message under way; it is complete when every client has had its *)
(* turn.  A client may leave in the meantime, and may die of a message     *)
(* that could not be delivered.                                            *)
(***************************************************************************)
EXTENDS Naturals, Sequences

CONSTANTS
  Client,     \* those who receive, and send
  App,        \* those who only send
  Room, NoRoom,
  Kind,       \* kinds of messages
  Notice,     \* kinds of what the server says to one client
  Limit       \* bound: the numbers of messages

Sender == Client \cup App

\* n numbers the messages of a sender.
Message == [kind : Kind, from : Sender, room : Room \cup {NoRoom}, n : 1..Limit]

VARIABLES
  online,     \* clients that messages are sent to
  member,     \* the rooms a client is in
  dead,       \* clients that nothing more is delivered to
  post,       \* the message a sender has under way: one at most
  due,        \* the clients that still have to have their turn
  feed        \* what a client has received

vars == <<online, member, dead, post, due, feed>>

Init ==
  /\ online = {} /\ member = [c \in Client |-> {}] /\ dead = {}
  /\ post = [t \in Sender |-> {}] /\ due = [t \in Sender |-> {}]
  /\ feed = [c \in Client |-> <<>>]

Enter(c) ==
  /\ c \notin online /\ online' = online \cup {c}
  /\ UNCHANGED <<member, dead, post, due, feed>>

Leave(c) ==
  /\ c \in online /\ online' = online \ {c}
  /\ UNCHANGED <<member, dead, post, due, feed>>

\* Nobody is taken for dead who is online, unless by Fail.
WriteOff(c) ==
  /\ c \notin online /\ dead' = dead \cup {c}
  /\ UNCHANGED <<online, member, post, due, feed>>

Join(c, r) ==
  /\ member' = [member EXCEPT ![c] = @ \cup {r}]
  /\ UNCHANGED <<online, dead, post, due, feed>>

Tell(c, w) ==
  /\ feed' = [feed EXCEPT ![c] = Append(@, w)]
  /\ UNCHANGED <<online, member, dead, post, due>>

\* A client sends to all or to a room it is in, and numbers its messages.
MaySend(t, m) ==
  /\ m.from = t
  /\ t \in Client => m.room = NoRoom \/ m.room \in member[t]
  /\ \A c \in Client : \A i \in 1..Len(feed[c]) :
       feed[c][i].kind \in Kind /\ feed[c][i].from = t => feed[c][i].n < m.n

Send(t, m) ==
  /\ post[t] = {} /\ post' = [post EXCEPT ![t] = {m}]
  /\ MaySend(t, m)
  /\ due' = [due EXCEPT ![t] = online]
  /\ UNCHANGED <<online, member, dead, feed>>

Concerns(m, c) == m.room = NoRoom \/ m.room \in member[c]

Served(t, c) == c \in due[t] /\ due' = [due EXCEPT ![t] = @ \ {c}]

Deliver(t, c) ==
  /\ Served(t, c) /\ c \notin dead
  /\ \E m \in post[t] :
       Concerns(m, c) /\ feed' = [feed EXCEPT ![c] = Append(@, m)]
  /\ UNCHANGED <<online, member, dead, post>>

Fail(t, c) ==
  /\ Served(t, c) /\ dead' = dead \cup {c}
  /\ UNCHANGED <<online, member, post, feed>>

PassOver(t, c) ==
  /\ Served(t, c)
  /\ c \in dead \/ \E m \in post[t] : ~Concerns(m, c)
  /\ UNCHANGED <<online, member, dead, post, feed>>

Complete(t) ==
  /\ post[t] # {} /\ due[t] = {}
  /\ post' = [post EXCEPT ![t] = {}]
  /\ UNCHANGED <<online, member, dead, due, feed>>

Notices(c) == [kind : Notice, from : {c}, room : {NoRoom}, n : 0..Limit]

Next ==
  \/ \E c \in Client : Enter(c) \/ Leave(c) \/ WriteOff(c)
  \/ \E c \in Client, r \in Room : Join(c, r)
  \/ \E c \in Client : \E w \in Notices(c) : Tell(c, w)
  \/ \E t \in Sender, m \in Message : Send(t, m)
  \/ \E t \in Sender, c \in Client : Deliver(t, c) \/ Fail(t, c) \/ PassOver(t, c)
  \/ \E t \in Sender : Complete(t)

Spec == Init /\ [][Next]_vars
=============================================================================
