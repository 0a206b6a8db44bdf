--------------------------- MODULE MCWebSocketServer ---------------------------
(* Small instances of WebSocketServer for TLC. *)
EXTENDS WebSocketServer, TLC

CONSTANTS c1, c2, a1, r1

OneClient == {c1}
TwoClients == {c1, c2}
Symmetric == Permutations(TwoClients)

(* A bound of the run ws_messages: one of the two clients sends twice. *)
ThreeFrames == sent[c1] + sent[c2] <= 3
=============================================================================
