------------------------------- MODULE MCGridView -------------------------------
(* Small instances of GridView for TLC. *)
EXTENDS GridView, TLC

CONSTANTS t1, t2

Symmetric == Permutations({t1, t2})
===============================================================================
