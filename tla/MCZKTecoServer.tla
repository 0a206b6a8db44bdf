---------------------------- MODULE MCZKTecoServer ----------------------------
(* Small instances of ZKTecoServer for TLC. *)
EXTENDS ZKTecoServer, TLC

CONSTANTS q1, q2, u

In == <<u, "CheckIn">>
Log(lines) == [table |-> "log", lines |-> lines]
Photo(image) == [table |-> "photo", user |-> u, image |-> image]

AllKinds == {Log(<<In, In>>), Log(<<In, <<>>>>), Photo(TRUE), [table |-> "beat"]}
OneLog == {Log(<<In, In>>)}
===============================================================================
