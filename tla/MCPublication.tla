--------------------------- MODULE MCPublication ----------------------------
(* Two processes, of one operator on one machine or of two.                  *)
EXTENDS Publication
CONSTANTS p1, p2
OneOrTwo == {[p \in Procs |-> "a"], [p \in Procs |-> IF p = p1 THEN "a" ELSE "b"]}
=============================================================================
