--------------------------- MODULE MCFactoryClaim ---------------------------
(* Three driver processes: two of one actor, one of another.                 *)
EXTENDS FactoryClaim, TLC

CONSTANTS p1, p2, p3

TwoActors == p1 :> "a" @@ p2 :> "a" @@ p3 :> "b"

(* The processes of one actor may be swapped.                                *)
SameActor == Permutations({p1, p2})
=============================================================================
