------------------------------- MODULE PunchLog -------------------------------
(***************************************************************************)
(* What a device may rely on when it pushes a batch of punch records: the  *)
(* records reach the application in their order, each at most once, and    *)
(* the batch is acknowledged only when all of them have, or an error has   *)
(* been reported.  A batch that is not acknowledged has been given up, and *)
(* the device sends it again as another batch.                             *)
(***************************************************************************)
EXTENDS Naturals

CONSTANTS Batch, Size   \* the batches, and how many records one can have

VARIABLES
  state,      \* "none", "open", "acknowledged" or "given up"
  size,       \* the number of records of a batch
  delivered,  \* how many of them the application has been given
  failed      \* whether an error was reported

vars == <<state, size, delivered, failed>>

Init ==
  /\ state = [b \in Batch |-> "none"] /\ size = [b \in Batch |-> 0]
  /\ delivered = [b \in Batch |-> 0] /\ failed = [b \in Batch |-> FALSE]

Submit(b, n) ==
  /\ state[b] = "none"
  /\ state' = [state EXCEPT ![b] = "open"] /\ size' = [size EXCEPT ![b] = n]
  /\ UNCHANGED <<delivered, failed>>

\* An application that throws has been given the record all the same.
Deliver(b, error) ==
  /\ state[b] = "open" /\ ~failed[b] /\ delivered[b] < size[b]
  /\ delivered' = [delivered EXCEPT ![b] = @ + 1]
  /\ failed' = [failed EXCEPT ![b] = error]
  /\ UNCHANGED <<state, size>>

Fail(b) ==
  /\ state[b] = "open" /\ failed' = [failed EXCEPT ![b] = TRUE]
  /\ UNCHANGED <<state, size, delivered>>

Acknowledge(b) ==
  /\ state[b] = "open" /\ (failed[b] \/ delivered[b] = size[b])
  /\ state' = [state EXCEPT ![b] = "acknowledged"]
  /\ UNCHANGED <<size, delivered, failed>>

GiveUp(b) ==
  /\ state[b] = "open" /\ state' = [state EXCEPT ![b] = "given up"]
  /\ UNCHANGED <<size, delivered, failed>>

Next ==
  \E b \in Batch :
    \/ \E n \in Size : Submit(b, n)
    \/ \E error \in BOOLEAN : Deliver(b, error)
    \/ Fail(b) \/ Acknowledge(b) \/ GiveUp(b)

Spec == Init /\ [][Next]_vars

-----------------------------------------------------------------------------
\* An acknowledged batch has been delivered to the last record, unless an
\* error was reported.
AcknowledgedIsAccounted ==
  \A b \in Batch :
    state[b] = "acknowledged" => failed[b] \/ delivered[b] = size[b]
=============================================================================
